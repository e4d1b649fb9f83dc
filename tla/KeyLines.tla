------------------------------ MODULE KeyLines ------------------------------
(***************************************************************************)
(* The text files that hold public keys, as each program reads them: axshd *)
(* its authorized_keys (load_authorized_keys, src/src/bin/axshd.rs), axsh  *)
(* its known_hosts (load_known_hosts, src/src/bin/axsh.rs), and            *)
(* axsh-fingerprint either (load_public_key).  They share the two line     *)
(* parsers and the two formatters of src/src/lib.rs.                       *)
(*                                                                         *)
(* A line is a sequence of words and of single white spaces: the blank     *)
(* that parsers split at, and the others, that only trim and               *)
(* split_whitespace know.  A reader returns the set of the one result it   *)
(* got, or the empty set for an error.                                     *)
(***************************************************************************)
EXTENDS Loops, SequencesExt

CONSTANTS
  Keys,   \* public keys
  Hosts   \* host names

Blank == [space |-> "blank"]
Tab   == [space |-> "tab"]
Spaces == {Blank, Tab}

Kind       == [word |-> "mldsa-ed25519"]
HostWord(h) == [word |-> "host", host |-> h]
Comment    == [word |-> "#"]

(* A key has several base64 texts: decode_base64 does not look at the bits *)
(* that the padding leaves over.                                           *)
KeyText(k, canonical) == [word |-> "base64", key |-> k, canonical |-> canonical]

KeyTexts == {KeyText(k, c) : k \in Keys, c \in BOOLEAN}

TextWords == {Kind, Comment} \cup KeyTexts \cup {HostWord(h) : h \in Hosts}

Lines == Seq(TextWords \cup Spaces)

-----------------------------------------------------------------------------
(* Lines.                                                                  *)

FormatAuthorized(k) == <<Kind, Blank, KeyText(k, TRUE)>>

FormatKnownHost(h, k) == <<HostWord(h), Blank>> \o FormatAuthorized(k)

(* str::trim.                                                              *)
Solid(line) == {i \in 1..Len(line) : line[i] \notin Spaces}

Trim(line) ==
  IF Solid(line) = {} THEN <<>>
  ELSE SubSeq(line, Min(Solid(line)), Max(Solid(line)))

(* str::split_whitespace.                                                  *)
Words(line) == Kept(line, TextWords)

Blanks(line) == {i \in 1..Len(line) : line[i] = Blank}

(* str::split_once(' ').                                                   *)
Before(line) == SubSeq(line, 1, Min(Blanks(line)) - 1)
After(line)  == SubSeq(line, Min(Blanks(line)) + 1, Len(line))

(* parse_authorized_conn_key, with decode_base64.                          *)
ParseAuthorized(line) ==
  {k \in Keys : /\ Blanks(line) # {}
                /\ Before(line) = <<Kind>>
                /\ \E c \in BOOLEAN : After(line) = <<KeyText(k, c)>>}

(* parse_known_host.                                                       *)
ParseKnownHost(line) ==
  IF Blanks(line) = {} \/ Before(line) = <<>> THEN {}
  ELSE {<<Before(line), k>> : k \in ParseAuthorized(After(line))}

Significant(line) == line # <<>> /\ line[1] # Comment

-----------------------------------------------------------------------------
(* Files.                                                                  *)

Entries(lines) ==
  Kept([i \in 1..Len(lines) |-> Trim(lines[i])], {line \in Lines : Significant(line)})

(* As if a line with an error were passed over.                            *)
PassedOver(results) == TRUE

AllParse(results) == {} \notin Range(results)

(* The map has one entry for a digest, and one for a host, or the file is  *)
(* refused.                                                                *)
EntriesDiffer(results) == IsInjective(results)

HostsOf(result) == {p[1] : p \in result}

HostsDiffer(results) ==
  \A i, j \in DOMAIN results : HostsOf(results[i]) = HostsOf(results[j]) => i = j

LoadAuthorized(lines) ==
  LET results == [i \in 1..Len(Entries(lines)) |-> ParseAuthorized(Entries(lines)[i])]
  IN  IF AllParse(results) /\ IsInjective(results) THEN {UNION Range(results)} ELSE {}

LoadKnownHosts(lines) ==
  LET results == [i \in 1..Len(Entries(lines)) |-> ParseKnownHost(Entries(lines)[i])]
  IN  IF AllParse(results) /\ HostsDiffer(results) THEN {UNION Range(results)} ELSE {}

FromLastWord(line) ==
  LET words == Words(line)
  IN  {k \in Keys : \E c \in BOOLEAN : Last(words) = KeyText(k, c)}

PublicKey(line) ==
  CASE Len(Words(line)) = 2 -> ParseAuthorized(line)
    [] Len(Words(line)) = 3 -> {p[2] : p \in ParseKnownHost(line)}
    [] OTHER                -> {}

LoadPublicKey(lines) ==
  IF Len(Entries(lines)) = 1 THEN PublicKey(Entries(lines)[1]) ELSE {}

-----------------------------------------------------------------------------
(* Properties.                                                             *)

(* What a person reads on a line: its words.                               *)
Reads(line, words) == Words(line) = words

Names(line, k) == \E c \in BOOLEAN : Reads(line, <<Kind, KeyText(k, c)>>)

NamesHost(line, h, k) == \E c \in BOOLEAN : Reads(line, <<h, Kind, KeyText(k, c)>>)

Said(file) == {i \in 1..Len(file) :
                 Words(file[i]) # <<>> /\ Head(Words(file[i])) # Comment}

(* axshd authorizes the keys that the lines of the file name, each once,   *)
(* or starts with an error: no line it cannot read is passed over, and no  *)
(* key is hidden behind a second spelling (load_authorized_keys).          *)
AuthorizesAsListed(file) ==
  \A keys \in LoadAuthorized(file) :
    /\ \A i \in Said(file) : \E k \in keys : Names(file[i], k)
    /\ \A k \in keys : Cardinality({i \in Said(file) : Names(file[i], k)}) = 1

(* axsh knows of each host the one key on its line, or stops with an error *)
(* (load_known_hosts).  A tab behind a host becomes part of its name: such *)
(* a line says nothing of the host that a person reads on it.              *)
KnowsAsListed(file) ==
  \A hosts \in LoadKnownHosts(file) :
    /\ Cardinality(hosts) = Cardinality(Said(file))
    /\ \A h \in Hosts, k \in Keys :
         <<<<HostWord(h)>>, k>> \in hosts <=>
           \E i \in Said(file) : /\ NamesHost(file[i], HostWord(h), k)
                                 /\ Tab \notin Range(Trim(file[i]))
    /\ \A p, q \in hosts : p[1] = q[1] => p[2] = q[2]

(* The key whose fingerprint a person compares is the one that axshd or    *)
(* axsh takes from the same line: axsh-fingerprint reads a file of one     *)
(* entry when one of them would, host names of several words apart, and    *)
(* reads the same key (load_public_key).                                   *)
ShowsWhatIsUsed(file) ==
  LoadPublicKey(file) =
    {k \in Keys : \/ {k} \in LoadAuthorized(file)
                  \/ \E hosts \in LoadKnownHosts(file) : \E p \in hosts :
                       hosts = {p} /\ p[2] = k /\ Len(Words(p[1])) = 1}
=============================================================================
