----------------------------- MODULE MCFormats -----------------------------
(***************************************************************************)
(* Formats and KeyFile for TLC: the making and loading of a key file, and  *)
(* each text or sequence of octets within the bounds, the widths as small  *)
(* as the cases allow.                                                     *)
(***************************************************************************)
EXTENDS KeyFile, Formats

CONSTANTS k1, k2, h1, h2  \* public keys and hosts

MCKeys  == {k1, k2}
MCHosts == {h1, h2}

MCMaxInput == [frame |-> 4, packet |-> 9, bundle |-> 11, lines |-> 2, base64 |-> 8,
               duration |-> 5]

MCMagic == <<1>>

MCSample == {0, 1}

(* The bytes framing treats specially, what they are escaped to, and the   *)
(* extremes.  Some frames of four do not fit.                              *)
MCFrameBytes == {FLAG, ESCAPE, {}, 0..7, Xor(FLAG, EscapeXor), Xor(ESCAPE, EscapeXor)}

MCCharacters == {0, 22, 43, 63, Pad, Invalid}

(* An hour is less, and two are more, than a u64 of this width holds.      *)
MCArgumentChars == {0, 1, 5, 9} \cup Letters

-----------------------------------------------------------------------------
(* The lines: every short one, and every way to write the long ones.  Two  *)
(* words do not stand side by side: they would be one.                     *)
Spaced(line) ==
  \A i \in 1..(Len(line) - 1) : line[i] \in Spaces \/ line[i + 1] \in Spaces

ShortLines ==
  {line \in UNION {[1..n -> TextWords \cup Spaces] : n \in 0..3} : Spaced(line)}

LongLines ==
  {<<HostWord(h), s, Kind, t, text>> :
     h \in Hosts, s \in Spaces, t \in Spaces, text \in KeyTexts}

MCTextLines ==
  ShortLines \cup LongLines
    \cup {<<s>> \o FormatAuthorized(k) : s \in Spaces, k \in Keys}
    \cup {FormatKnownHost(h, k) \o <<s>> : s \in Spaces, h \in Hosts, k \in Keys}
    \cup {<<Kind, Blank, Blank, KeyText(k, TRUE)>> : k \in Keys}
    \cup {<<HostWord(h), Tab>> \o FormatKnownHost(h, k) : h \in Hosts, k \in Keys}
    \cup {<<HostWord(h), Tab, Blank>> \o FormatAuthorized(k) : h \in Hosts, k \in Keys}
    \cup {<<Comment, Blank>> \o FormatAuthorized(k) : k \in Keys}

-----------------------------------------------------------------------------
MCInit == Init /\ FormatsInit

MCNext == \/ format = "key file" /\ Next /\ UNCHANGED <<format, input>>
          \/ ReadOn /\ UNCHANGED vars

MCSpec == MCInit /\ [][MCNext]_<<vars, format, input>>
=============================================================================
