-------------------------- MODULE KnownHostsProofs --------------------------
(***************************************************************************)
(* TypeOK and AcceptedOrMixed hold of KnownHosts for any number of         *)
(* processes, overlapping appends and crashes, and AloneRemembers where    *)
(* the processes run one after another.                                    *)
(*                                                                         *)
(* AcceptedOrMixed rests on three things: every whole entry in the file    *)
(* was accepted for the name in it (Recorded); a genuine key that a        *)
(* process found was therefore accepted for its host, or its line still    *)
(* shows the piece of a name in front of the entry (Looked), as the file   *)
(* only grows; and a process past the prompt had its user's yes (Asked).   *)
(* That no such line comes about where one process runs at a time follows  *)
(* from Neat, in the second half.                                          *)
(***************************************************************************)
EXTENDS KnownHosts, FiniteSetTheorems, TLAPS

Recorded ==
  \A i \in 1..Len(file) :
    file[i].part = "entry" => <<file[i].host, file[i].key>> \in accepted

Told == accepted \cup Mixed

Looked ==
  \A p \in Procs : known[p] \in Keys => <<host[p], known[p]>> \in Told

Asked ==
  \A p \in Procs :
    /\ pc[p] = "prompt" => offered[p] \in Keys
    /\ pc[p] \in {"check", "newline", "entry", "end"} =>
         offered[p] \in Keys /\ <<host[p], offered[p]>> \in accepted
    /\ pc[p] \in {"verify", "connected"} =>
         offered[p] \in Keys /\ <<host[p], offered[p]>> \in Told

Inv == TypeOK /\ Recorded /\ Looked /\ Asked

(* What an entry and a newline are made of.                                *)
LEMMA TokenParts ==
  ASSUME NEW t \in Tokens
  PROVE  /\ t.part = "entry" => t.key \in Keys
         /\ t.part = "newline" => t = Newline
<1>1. CASE t = Newline
  BY <1>1 DEF Newline
<1>2. ASSUME NEW h \in Hosts, NEW k \in Keys, t = Entry(h, k)
      PROVE  t.key \in Keys /\ t.part = "entry"
  BY <1>2 DEF Entry
<1>3. ASSUME NEW h \in Hosts, t \in Pieces(h)
      PROVE  t.part \in {"host", "short", "broken"}
  BY <1>3 DEF Pieces
<1> QED
  BY <1>1, <1>2, <1>3 DEF Tokens

(* In a file that loads, what stands before an entry on its line is a      *)
(* piece of a host name.                                                   *)
LEMMA BehindPiece ==
  ASSUME TypeOK, Loads, NEW i \in 1..Len(file), file[i].part = "entry",
         ~FirstOfLine(i)
  PROVE  i \in 2..Len(file) /\ file[i - 1].part = "host"
<1>1. /\ i \in 2..Len(file) /\ i - 1 \in 1..Len(file)
      /\ i - 1 < Len(file) /\ (i - 1) + 1 = i
      /\ file[i - 1] # Newline
  BY DEF FirstOfLine, TypeOK
<1>2. ~LastOfLine(i - 1)
  BY <1>1 DEF LastOfLine, Newline
<1>3. Parses(i - 1)
  BY <1>1 DEF Loads
<1>4. file[i - 1].part # "newline"
  BY <1>1, TokenParts DEF TypeOK
<1> QED
  BY <1>1, <1>2, <1>3, <1>4 DEF Parses

(* What a lookup returns was accepted for that address or got there by a   *)
(* mixed line, or it is no server's key.                                   *)
LEMMA LookupTold ==
  ASSUME TypeOK, Recorded, Loads, NEW h \in Hosts
  PROVE  /\ Lookup(h) \in Keys \cup {NoKey, CutKey}
         /\ Lookup(h) \in Keys => <<h, Lookup(h)>> \in Told
<1>1. CASE \E i \in Keyed : HostAt(i) = h
  <2> DEFINE j == CHOOSE i \in Keyed : HostAt(i) = h
  <2>1. j \in Keyed /\ HostAt(j) = h
    BY <1>1
  <2>2. Lookup(h) = KeyAt(j)
    BY <1>1 DEF Lookup
  <2> HIDE DEF j
  <2>3. j \in 1..Len(file) /\ file[j].part \in {"entry", "short"}
    BY <2>1 DEF Keyed
  <2>4. CASE file[j].part = "entry"
    <3>1. Lookup(h) = file[j].key /\ file[j].key \in Keys
      BY <2>2, <2>3, <2>4, TokenParts DEF KeyAt, TypeOK
    <3>2. <<file[j].host, file[j].key>> \in accepted
      BY <2>3, <2>4 DEF Recorded
    <3>3. CASE FirstOfLine(j)
      BY <2>1, <3>1, <3>2, <3>3 DEF HostAt, Told
    <3>4. CASE ~FirstOfLine(j)
      <4>1. j \in 2..Len(file) /\ file[j - 1].part = "host"
        BY <2>3, <2>4, <3>4, BehindPiece
      <4>2. <<HostAt(j), file[j].key>> \in Mixed
        BY <2>4, <3>2, <4>1 DEF Mixed
      <4> QED
        BY <2>1, <3>1, <4>2 DEF Told
    <3> QED
      BY <3>1, <3>3, <3>4
  <2>5. CASE file[j].part = "short"
    BY <2>2, <2>5, HostsAssumption DEF KeyAt
  <2> QED
    BY <2>3, <2>4, <2>5
<1>2. CASE ~\E i \in Keyed : HostAt(i) = h
  BY <1>2, HostsAssumption DEF Lookup
<1> QED
  BY <1>1, <1>2

(* What was told stays so when the file and the acceptances grow.          *)
LEMMA ToldStays ==
  ASSUME TypeOK, accepted \subseteq accepted',
         UNCHANGED file \/ \E t \in Tokens : file' = Append(file, t)
  PROVE  Told \subseteq Told'
<1>1. file \in Seq(Tokens)
  BY DEF TypeOK
<1>2. ASSUME NEW i \in 1..Len(file)
      PROVE  /\ i \in 1..Len(file') /\ file'[i] = file[i]
             /\ SubSeq(file', 1, i - 1) = SubSeq(file, 1, i - 1)
  BY <1>1
<1>3. ASSUME NEW i \in 2..Len(file)
      PROVE  /\ i \in 2..Len(file')
             /\ file'[i] = file[i] /\ file'[i - 1] = file[i - 1]
             /\ HostAt(i)' = HostAt(i)
  <2>1. i \in 1..Len(file) /\ i - 1 \in 1..Len(file)
    BY <1>1
  <2>2. file'[i] = file[i] /\ file'[i - 1] = file[i - 1] /\ i \in 2..Len(file')
    BY <1>1, <1>2, <2>1
  <2>3. SubSeq(file', 1, i - 1) = SubSeq(file, 1, i - 1)
    BY <1>2, <2>1
  <2> QED
    BY <2>2, <2>3 DEF HostAt, FirstOfLine, Newline
<1>4. Mixed \subseteq Mixed'
  BY <1>3 DEF Mixed
<1> QED
  BY <1>4 DEF Told

(* Appending to the file keeps Recorded if what is appended is recorded.   *)
LEMMA AppendKeepsRecorded ==
  ASSUME TypeOK, Recorded, NEW t \in Tokens,
         file' = Append(file, t),
         accepted \subseteq accepted',
         t.part = "entry" => <<t.host, t.key>> \in accepted
  PROVE  Recorded' /\ file' \in Seq(Tokens)
<1>1. file \in Seq(Tokens)
  BY DEF TypeOK
<1>2. /\ file' \in Seq(Tokens)
      /\ Len(file') = Len(file) + 1
      /\ file'[Len(file) + 1] = t
      /\ \A i \in 1..Len(file) : file'[i] = file[i]
  BY <1>1
<1>3. ASSUME NEW i \in 1..Len(file'), file'[i].part = "entry"
      PROVE  <<file'[i].host, file'[i].key>> \in accepted'
  <2>1. CASE i \in 1..Len(file)
    BY <1>2, <1>3, <2>1 DEF Recorded
  <2>2. CASE i = Len(file) + 1
    BY <1>2, <1>3, <2>2
  <2> QED
    BY <1>1, <1>2, <2>1, <2>2
<1> QED
  BY <1>2, <1>3 DEF Recorded

LEMMA InitInv == Init => Inv
<1> SUFFICES ASSUME Init PROVE Inv
  OBVIOUS
<1>1. CASE file = <<>>
  <2>1. trusted = {}
    BY <1>1 DEF Init
  <2>2. file \in Seq(Tokens)
    BY <1>1
  <2>3. TypeOK
    BY <2>1, <2>2, HostsAssumption DEF Init, TypeOK, Places
  <2>4. Recorded /\ Looked /\ Asked
    BY <1>1, HostsAssumption DEF Init, Recorded, Looked, Asked
  <2> QED
    BY <2>3, <2>4 DEF Inv
<1>2. ASSUME NEW h \in Hosts, NEW k \in Keys, NEW end \in {<<>>, <<Newline>>},
             file = <<Entry(h, k)>> \o end
      PROVE  Inv
  <2>1. Entry(h, k) \in Tokens /\ Newline \in Tokens
    BY DEF Tokens
  <2>2. file \in Seq(Tokens) /\ Len(file) \in {1, 2}
    <3>1. CASE end = <<>>
      BY <1>2, <2>1, <3>1
    <3>2. CASE end = <<Newline>>
      BY <1>2, <2>1, <3>2
    <3> QED
      BY <3>1, <3>2
  <2>3. /\ file[1] = Entry(h, k)
        /\ \A i \in 2..Len(file) : file[i] = Newline
    BY <1>2, <2>1
  <2>4. {1} \cap 1..Len(file) = {1}
    <3>1. 1 \in 1..Len(file)
      BY <2>2
    <3> QED
      BY <3>1
  <2>5. trusted = {<<h, k>>} /\ accepted = {<<h, k>>}
    BY <2>3, <2>4 DEF Init, Entry
  <2>6. TypeOK
    BY <2>2, <2>5, HostsAssumption DEF Init, TypeOK, Places
  <2>7. Recorded
    BY <2>2, <2>3, <2>5 DEF Recorded, Entry, Newline
  <2>8. Looked /\ Asked
    BY HostsAssumption DEF Init, Looked, Asked
  <2> QED
    BY <2>6, <2>7, <2>8 DEF Inv
<1>3. \/ file = <<>>
      \/ \E h \in Hosts, k \in Keys, end \in {<<>>, <<Newline>>} :
           file = <<Entry(h, k)>> \o end
  BY DEF Init, FirstFiles
<1> QED
  BY <1>1, <1>2, <1>3

-----------------------------------------------------------------------------
(* One step for each action; what only moves a process along first.        *)

LEMMA StepInv == Inv /\ [Next]_vars => Inv'
<1> SUFFICES ASSUME Inv, [Next]_vars PROVE Inv'
  OBVIOUS
<1>a. TypeOK
  BY DEF Inv
<1>b. Recorded
  BY DEF Inv
<1>c. Looked
  BY DEF Inv
<1>d. Asked
  BY DEF Inv
<1>1. ASSUME NEW p \in Procs, Start(p)
      PROVE  Inv'
  <2>0. Told \subseteq Told'
    BY <1>1, <1>a, ToldStays DEF Start
  <2>1. known' \in [Procs -> Keys \cup {NoKey, CutKey}] /\ Looked'
    <3>1. UNCHANGED host
      BY <1>1 DEF Start
    <3>3. CASE Loads /\ known' = [known EXCEPT ![p] = Lookup(host[p])]
      <4>1. /\ Lookup(host[p]) \in Keys \cup {NoKey, CutKey}
            /\ Lookup(host[p]) \in Keys => <<host[p], Lookup(host[p])>> \in Told
        BY <1>a, <1>b, <3>3, LookupTold DEF TypeOK
      <4> QED
        BY <1>a, <1>c, <2>0, <3>1, <3>3, <4>1 DEF TypeOK, Looked
    <3>4. CASE UNCHANGED known
      BY <1>a, <1>c, <2>0, <3>1, <3>4 DEF TypeOK, Looked
    <3> QED
      BY <1>1, <3>3, <3>4 DEF Start
  <2>2. PICK place \in {"connect", "failed"} : Goto(p, place)
    BY <1>1 DEF Start
  <2>3. UNCHANGED <<file, trusted, accepted, host, offered, crashes, atOnce>>
    BY <1>1 DEF Start
  <2>4. TypeOK'
    BY <1>a, <2>1, <2>2, <2>3 DEF TypeOK, Goto, Places
  <2>5. Recorded' /\ Asked'
    BY <1>a, <1>b, <1>d, <2>0, <2>2, <2>3 DEF Recorded, Asked, Goto, TypeOK
  <2> QED
    BY <2>1, <2>4, <2>5 DEF Inv
<1>2. ASSUME NEW p \in Procs, Connect(p)
      PROVE  Inv'
  <2>1. PICK k \in Keys :
          /\ offered' = [offered EXCEPT ![p] = k]
          /\ Goto(p, CASE known[p] = NoKey -> "prompt"
                       [] known[p] = k     -> "verify"
                       [] OTHER            -> "failed")
    BY <1>2 DEF Connect, Presented
  <2>2. UNCHANGED <<file, trusted, accepted, host, known, crashes, atOnce>>
    BY <1>2 DEF Connect
  <2>3. PICK place \in {"prompt", "verify", "failed"} :
          /\ Goto(p, place)
          /\ place = "verify" => known[p] = k
    BY <2>1
  <2>4. TypeOK'
    BY <1>a, <2>1, <2>2, <2>3 DEF TypeOK, Goto, Places
  <2>5. Told \subseteq Told'
    BY <1>a, <2>2, ToldStays
  <2>6. Recorded' /\ Looked'
    BY <1>b, <1>c, <2>2, <2>5 DEF Recorded, Looked
  <2>7. Asked'
    BY <1>a, <1>c, <1>d, <2>1, <2>2, <2>3, <2>5 DEF Asked, Looked, Goto, TypeOK
  <2> QED
    BY <2>4, <2>6, <2>7 DEF Inv
<1>3. ASSUME NEW p \in Procs, Answer(p)
      PROVE  Inv'
  <2>1. offered[p] \in Keys /\ host[p] \in Hosts
    BY <1>a, <1>3, <1>d DEF Answer, Asked, TypeOK
  <2>2. PICK answer \in Answers :
          /\ accepted' = IF answer = "yes"
                         THEN accepted \cup {<<host[p], offered[p]>>} ELSE accepted
          /\ Goto(p, IF Agrees(answer) THEN "check" ELSE "failed")
    BY <1>3 DEF Answer
  <2>3. UNCHANGED <<file, trusted, host, known, offered, crashes, atOnce>>
    BY <1>3 DEF Answer
  <2>4. /\ accepted \subseteq accepted'
        /\ accepted' \in SUBSET (Hosts \X Keys)
    BY <1>a, <2>1, <2>2 DEF TypeOK
  <2>5. PICK place \in {"check", "failed"} :
          /\ Goto(p, place)
          /\ place = "check" => <<host[p], offered[p]>> \in accepted'
    BY <2>2 DEF Agrees
  <2>6. TypeOK'
    BY <1>a, <2>3, <2>4, <2>5 DEF TypeOK, Goto, Places
  <2>7. Told \subseteq Told'
    BY <1>a, <2>3, <2>4, ToldStays
  <2>8. Recorded' /\ Looked'
    BY <1>b, <1>c, <2>3, <2>4, <2>7 DEF Recorded, Looked
  <2>9. Asked'
    BY <1>a, <1>d, <2>1, <2>3, <2>4, <2>5, <2>7 DEF Asked, Goto, TypeOK
  <2> QED
    BY <2>6, <2>8, <2>9 DEF Inv
<1>4. ASSUME NEW p \in Procs, CheckEnd(p) \/ Verify(p)
      PROVE  Inv'
  <2>1. PICK place \in {"newline", "entry", "connected", "failed"} :
          /\ Goto(p, place)
          /\ pc[p] = IF place \in {"newline", "entry"} THEN "check" ELSE "verify"
    BY <1>4 DEF CheckEnd, Verify
  <2>2. pc[p] \in {"check", "verify"}
    BY <2>1
  <2>3. UNCHANGED <<file, trusted, accepted, host, known, offered, crashes, atOnce>>
    BY <1>4 DEF CheckEnd, Verify
  <2>4. TypeOK'
    BY <1>a, <2>1, <2>3 DEF TypeOK, Goto, Places
  <2>5. Told \subseteq Told'
    BY <1>a, <2>3, ToldStays
  <2>6. Recorded' /\ Looked'
    BY <1>b, <1>c, <2>3, <2>5 DEF Recorded, Looked
  <2>7. Asked'
    BY <1>a, <1>d, <2>1, <2>2, <2>3, <2>5 DEF Asked, Goto, TypeOK
  <2> QED
    BY <2>4, <2>6, <2>7 DEF Inv
<1>5. ASSUME NEW p \in Procs,
             WriteNewline(p) \/ WriteEntry(p) \/ WriteEnd(p)
      PROVE  Inv'
  <2>1. /\ offered[p] \in Keys /\ host[p] \in Hosts
        /\ <<host[p], offered[p]>> \in accepted
        /\ pc[p] \in {"newline", "entry", "end"}
    BY <1>a, <1>d, <1>5 DEF WriteNewline, WriteEntry, WriteEnd, Asked, TypeOK
  <2>2. PICK t \in {Newline, Entry(host[p], offered[p])} : file' = Append(file, t)
    BY <1>5 DEF WriteNewline, WriteEntry, WriteEnd
  <2>3. PICK place \in {"entry", "end", "verify"} : Goto(p, place)
    BY <1>5 DEF WriteNewline, WriteEntry, WriteEnd
  <2>4. /\ UNCHANGED <<accepted, host, known, offered, crashes, atOnce>>
        /\ trusted' \in {trusted, trusted \cup {<<host[p], offered[p]>>}}
    BY <1>5 DEF WriteNewline, WriteEntry, WriteEnd
  <2>5. t \in Tokens
    BY <2>1, <2>2 DEF Tokens
  <2>6. t.part = "entry" => <<t.host, t.key>> \in accepted
    BY <2>1, <2>2 DEF Newline, Entry
  <2>7. Recorded' /\ file' \in Seq(Tokens)
    BY <1>a, <1>b, <2>2, <2>4, <2>5, <2>6, AppendKeepsRecorded
  <2>8. TypeOK'
    BY <1>a, <2>1, <2>3, <2>4, <2>7 DEF TypeOK, Goto, Places
  <2>9. Told \subseteq Told'
    BY <1>a, <2>2, <2>4, <2>5, ToldStays
  <2>10. Looked'
    BY <1>c, <2>4, <2>9 DEF Looked
  <2>11. Asked'
    BY <1>a, <1>d, <2>1, <2>3, <2>4, <2>9 DEF Asked, Goto, TypeOK, Told
  <2> QED
    BY <2>7, <2>8, <2>10, <2>11 DEF Inv
<1>6. ASSUME NEW p \in Procs, Crash(p)
      PROVE  Inv'
  <2>1. /\ UNCHANGED <<trusted, accepted, host, known, offered, atOnce>>
        /\ Goto(p, "failed")
        /\ crashes' = crashes + 1
        /\ crashes < MaxCrashes
    BY <1>6 DEF Crash
  <2>2. Recorded' /\ file' \in Seq(Tokens) /\ Told \subseteq Told'
    <3>1. CASE UNCHANGED file
      BY <1>a, <1>b, <2>1, <3>1, ToldStays DEF Recorded, TypeOK
    <3>2. ASSUME pc[p] = "entry",
                 NEW piece \in Pieces(host[p]),
                 file' = Append(file, piece)
          PROVE  Recorded' /\ file' \in Seq(Tokens) /\ Told \subseteq Told'
      <4>1. host[p] \in Hosts
        BY <1>a DEF TypeOK
      <4>2. piece \in Tokens
        BY <4>1 DEF Tokens
      <4>3. piece.part # "entry"
        BY DEF Pieces
      <4> QED
        BY <1>a, <1>b, <2>1, <3>2, <4>2, <4>3, AppendKeepsRecorded, ToldStays
    <3> QED
      BY <1>6, <3>1, <3>2 DEF Crash
  <2>3. crashes' \in 0..MaxCrashes
    BY <1>a, <2>1, HostsAssumption DEF TypeOK
  <2>4. TypeOK'
    BY <1>a, <2>1, <2>2, <2>3 DEF TypeOK, Goto, Places
  <2>5. Looked' /\ Asked'
    BY <1>a, <1>c, <1>d, <2>1, <2>2 DEF Looked, Asked, Goto, TypeOK
  <2> QED
    BY <2>2, <2>4, <2>5 DEF Inv
<1>7. CASE UNCHANGED vars
  <2>1. UNCHANGED <<file, trusted, accepted, pc, host, known, offered, crashes, atOnce>>
    BY <1>7 DEF vars
  <2>2. TypeOK'
    BY <1>a, <2>1 DEF TypeOK
  <2>3. Told \subseteq Told'
    BY <1>a, <2>1, ToldStays
  <2>4. Recorded' /\ Looked' /\ Asked'
    BY <1>b, <1>c, <1>d, <2>1, <2>3 DEF Recorded, Looked, Asked
  <2> QED
    BY <2>2, <2>4 DEF Inv
<1> QED
  BY <1>1, <1>2, <1>3, <1>4, <1>5, <1>6, <1>7 DEF Next

THEOREM Invariance == Spec => []Inv
  BY InitInv, StepInv, PTL DEF Spec

(* Every variable keeps its type: no process records a key it was not      *)
(* offered (axsh.rs:123).                                                  *)
THEOREM TypeCorrect == Spec => []TypeOK
<1>1. Inv => TypeOK
  BY DEF Inv
<1> QED
  BY <1>1, Invariance, PTL

-----------------------------------------------------------------------------
(***************************************************************************)
(* One process at a time.  Nothing is ever appended to a line that is not  *)
(* empty (Neat), so no piece comes to stand in front of an entry.  Until a *)
(* crash tears an entry, no host has two, and what was reported as added   *)
(* is there (Tidy).  The process at work does not spoil this: the entry it *)
(* appends is for a host it has not found - nobody else has added one in   *)
(* the meantime.                                                           *)
(***************************************************************************)
IsEntry(i) == file[i].part = "entry"

Spaced == \A i \in 1..Len(file) : file[i] # Newline => LastOfLine(i)

LineEmpty == file = <<>> \/ file[Len(file)] = Newline

Neat == Spaced /\ \A p \in Running : pc[p] = "entry" => LineEmpty

OneEach ==
  \A i, j \in 1..Len(file) :
    IsEntry(i) /\ IsEntry(j) /\ file[i].host = file[j].host => i = j

Listed(h, k) == \E i \in 1..Len(file) : file[i] = Entry(h, k)

Unlisted(h) == \A i \in 1..Len(file) : IsEntry(i) => file[i].host # h

AtWork(p) ==
  /\ pc[p] = "connect" /\ known[p] = NoKey => Unlisted(host[p])
  /\ pc[p] \in {"prompt", "check", "newline", "entry"} => Unlisted(host[p])
  /\ pc[p] = "end" => Listed(host[p], offered[p])

Tidy ==
  /\ OneEach
  /\ \A h \in Hosts, k \in Keys : <<h, k>> \in trusted => Listed(h, k)
  /\ \A p \in Running : AtWork(p)

OneAtATime == \A p, q \in Running : p = q

AloneInv == atOnce = 1 => OneAtATime /\ Neat /\ (Torn \/ Tidy)

(* On a neat file whatever is not a newline has a line of its own, and     *)
(* nothing is mixed.                                                       *)
LEMMA NeatLines ==
  ASSUME TypeOK, Spaced, NEW i \in 1..Len(file), file[i] # Newline
  PROVE  FirstOfLine(i)
<1>1. SUFFICES ASSUME i > 1, file[i - 1] # Newline PROVE FALSE
  BY DEF FirstOfLine
<1>2. i - 1 \in 1..Len(file) /\ i - 1 < Len(file) /\ (i - 1) + 1 = i
  BY <1>1 DEF TypeOK
<1>. QED
  BY <1>1, <1>2 DEF Spaced, LastOfLine

LEMMA NeatUnmixed ==
  ASSUME TypeOK, Spaced
  PROVE  Mixed = {}
<1>1. SUFFICES ASSUME NEW i \in 2..Len(file), file[i - 1].part = "host",
                      file[i].part = "entry"
               PROVE  FALSE
  BY DEF Mixed
<1>2. i \in 1..Len(file) /\ file[i] # Newline /\ file[i - 1] # Newline
  BY <1>1 DEF Newline, TypeOK
<1>. QED
  BY <1>1, <1>2, NeatLines DEF FirstOfLine

(* What stands in a file that is not torn.                                 *)
LEMMA WholeTokens ==
  ASSUME TypeOK, ~Torn, NEW i \in 1..Len(file)
  PROVE  \/ file[i] = Newline /\ ~IsEntry(i)
         \/ \E h \in Hosts, k \in Keys : file[i] = Entry(h, k) /\ IsEntry(i)
<1>1. file[i] \in Tokens
  BY DEF TypeOK
<1>2. file[i].part \notin {"host", "short", "broken"}
  BY DEF Torn
<1>3. \A h \in Hosts : file[i] \notin Pieces(h)
  BY <1>2 DEF Pieces
<1>4. CASE file[i] = Newline
  BY <1>4 DEF Newline, IsEntry
<1>5. ASSUME NEW h \in Hosts, NEW k \in Keys, file[i] = Entry(h, k)
      PROVE  IsEntry(i)
  BY <1>5 DEF Entry, IsEntry
<1>. QED
  BY <1>1, <1>3, <1>4, <1>5 DEF Tokens

(* Who reads a tidy file finds in it all that was reported as added.       *)
LEMMA TidyRemembers ==
  ASSUME TypeOK, ~Torn, Neat, Tidy
  PROVE  Remembers
<1>1. ASSUME NEW i \in 1..Len(file) PROVE Parses(i)
  <2>1. CASE file[i] = Newline
    BY <2>1 DEF Parses, Newline
  <2>2. CASE IsEntry(i)
    <3>1. LastOfLine(i)
      BY <2>2 DEF Neat, Spaced, IsEntry, Newline
    <3>. QED
      BY <2>2, <3>1 DEF Parses, IsEntry
  <2>. QED
    BY <2>1, <2>2, WholeTokens
<1>2. ASSUME NEW i \in 1..Len(file)
      PROVE  /\ i \in Keyed <=> IsEntry(i)
             /\ IsEntry(i) => HostAt(i) = file[i].host /\ KeyAt(i) = file[i].key
  <2>1. i \in Keyed <=> IsEntry(i)
    BY DEF Keyed, Torn, IsEntry
  <2>2. IsEntry(i) => FirstOfLine(i)
    BY NeatLines DEF Neat, IsEntry, Newline
  <2>3. IsEntry(i) => HostAt(i) = file[i].host
    BY <2>2 DEF HostAt
  <2>4. IsEntry(i) => KeyAt(i) = file[i].key
    BY DEF KeyAt, IsEntry
  <2>. QED
    BY <2>1, <2>3, <2>4
<1>3. Keyed \subseteq 1..Len(file)
  BY DEF Keyed
<1>4. \A i, j \in Keyed : HostAt(i) = HostAt(j) => i = j
  BY <1>2, <1>3 DEF Tidy, OneEach
<1>5. Loads
  BY <1>1, <1>4 DEF Loads
<1>6. ASSUME NEW h \in Hosts, NEW k \in Keys, <<h, k>> \in trusted
      PROVE  <<h, k>> \in Entries
  <2>1. PICK i \in 1..Len(file) : file[i] = Entry(h, k)
    BY <1>6 DEF Tidy, Listed
  <2>2. IsEntry(i) /\ file[i].host = h /\ file[i].key = k
    BY <2>1 DEF Entry, IsEntry
  <2>3. i \in Keyed /\ HostAt(i) = h /\ KeyAt(i) = k
    BY <1>2, <2>2
  <2>. QED
    BY <2>3 DEF Entries
<1>7. trusted \subseteq Hosts \X Keys
  BY DEF TypeOK
<1>8. trusted \subseteq Entries
  BY <1>6, <1>7
<1>. QED
  BY <1>5, <1>8 DEF Remembers

(* A host that is not found in a neat file is not in it.                   *)
LEMMA NotFound ==
  ASSUME TypeOK, Neat, NEW h \in Hosts, Lookup(h) = NoKey
  PROVE  Unlisted(h)
<1>1. SUFFICES ASSUME NEW i \in 1..Len(file), IsEntry(i), file[i].host = h
               PROVE  FALSE
  BY DEF Unlisted
<1>2. i \in Keyed
  BY <1>1 DEF Keyed, IsEntry
<1>3. HostAt(i) = h
  BY <1>1, NeatLines DEF HostAt, Neat, IsEntry, Newline
<1>4. PICK j \in Keyed : Lookup(h) = KeyAt(j)
  <2>. DEFINE j == CHOOSE j \in Keyed : HostAt(j) = h
  <2>1. j \in Keyed
    BY <1>2, <1>3
  <2>2. Lookup(h) = KeyAt(j)
    BY <1>2, <1>3 DEF Lookup
  <2>. HIDE DEF j
  <2>. QED
    BY <2>1, <2>2
<1>5. j \in 1..Len(file) /\ file[j].part \in {"entry", "short"}
  BY DEF Keyed
<1>6. file[j].part = "entry" => file[j].key \in Keys
  BY <1>5, TokenParts DEF TypeOK
<1>. QED
  BY <1>4, <1>5, <1>6, HostsAssumption DEF KeyAt

(* Appending: what is torn stays torn, and what is listed stays listed.    *)
LEMMA Appended ==
  ASSUME TypeOK, NEW t \in Tokens, file' = Append(file, t)
  PROVE  /\ Len(file) \in Nat
         /\ Len(file') = Len(file) + 1
         /\ \A i \in 1..Len(file) : file'[i] = file[i] /\ i \in 1..Len(file')
         /\ file'[Len(file) + 1] = t
         /\ Len(file) + 1 \in 1..Len(file')
         /\ \A i \in 1..Len(file') : i \in 1..Len(file) \/ i = Len(file) + 1
BY DEF TypeOK

LEMMA AppendTears ==
  ASSUME TypeOK, NEW t \in Tokens, file' = Append(file, t)
  PROVE  /\ Torn => Torn'
         /\ t.part \in {"host", "short", "broken"} => Torn'
BY Appended DEF Torn

LEMMA AppendLists ==
  ASSUME TypeOK, NEW t \in Tokens, file' = Append(file, t), NEW h, NEW k
  PROVE  /\ Listed(h, k) => Listed(h, k)'
         /\ t = Entry(h, k) => Listed(h, k)'
BY Appended DEF Listed

(* A newline, or anything on an empty line, leaves no two on one.          *)
LEMMA AppendSpaces ==
  ASSUME TypeOK, NEW t \in Tokens, file' = Append(file, t), Spaced,
         t = Newline \/ LineEmpty
  PROVE  Spaced'
<1>1. SUFFICES ASSUME NEW i \in 1..Len(file'), file'[i] # Newline
               PROVE  LastOfLine(i)'
  BY DEF Spaced, Newline
<1>2. CASE i \in 1..Len(file)
  <2>1. file[i] # Newline
    BY <1>1, <1>2, Appended
  <2>2. CASE i < Len(file)
    <3>1. i + 1 \in 1..Len(file) /\ file[i + 1] = Newline
      BY Appended, <1>2, <2>1, <2>2 DEF Spaced, LastOfLine
    <3>. QED
      BY Appended, <3>1 DEF LastOfLine, Newline
  <2>3. CASE i = Len(file)
    <3>1. t = Newline
      BY <1>2, <2>1, <2>3 DEF LineEmpty
    <3>. QED
      BY Appended, <2>3, <3>1 DEF LastOfLine, Newline
  <2>. QED
    BY Appended, <1>2, <2>2, <2>3
<1>3. CASE i = Len(file) + 1
  BY Appended, <1>3 DEF LastOfLine
<1>. QED
  BY Appended, <1>2, <1>3

LEMMA NewlineTidy ==
  ASSUME TypeOK, file' = Append(file, Newline), NEW h
  PROVE  /\ OneEach => OneEach'
         /\ Unlisted(h) => Unlisted(h)'
<1>0. Newline \in Tokens
  BY DEF Tokens
<1>2. \A i \in 1..Len(file') : IsEntry(i)' =>
        i \in 1..Len(file) /\ IsEntry(i) /\ file'[i] = file[i]
  BY <1>0, Appended DEF IsEntry, Newline
<1>3. OneEach => OneEach'
  BY <1>2 DEF OneEach
<1>4. Unlisted(h) => Unlisted(h)'
  BY <1>2 DEF Unlisted
<1>. QED
  BY <1>3, <1>4

LEMMA EntryTidy ==
  ASSUME TypeOK, NEW h \in Hosts, NEW k \in Keys, file' = Append(file, Entry(h, k)),
         Unlisted(h), OneEach
  PROVE  OneEach'
<1>0. Entry(h, k) \in Tokens
  BY DEF Tokens
<1>1. SUFFICES ASSUME NEW i \in 1..Len(file'), NEW j \in 1..Len(file'),
                      IsEntry(i)', IsEntry(j)', file'[i].host = file'[j].host
               PROVE  i = j
  BY DEF OneEach
<1>2. \A n \in 1..Len(file) : IsEntry(n)' => IsEntry(n) /\ file'[n] = file[n]
  BY <1>0, Appended DEF IsEntry
<1>3. \A n \in 1..Len(file) : IsEntry(n)' => file'[n].host # h
  BY <1>2 DEF Unlisted
<1>4. file'[Len(file) + 1].host = h
  BY <1>0, Appended DEF Entry
<1>5. CASE i \in 1..Len(file) /\ j \in 1..Len(file)
  BY <1>1, <1>2, <1>5 DEF OneEach
<1>. QED
  BY <1>0, <1>1, <1>3, <1>4, <1>5, Appended

LEMMA InitAlone == Init => AloneInv
<1>. SUFFICES ASSUME Init PROVE OneAtATime /\ Neat /\ Tidy
  BY DEF AloneInv
<1>1. Running = {}
  BY DEF Init, Running
<1>2. CASE file = <<>>
  <2>1. trusted = {} /\ Len(file) = 0
    BY <1>2 DEF Init
  <2>. QED
    BY <1>1, <2>1 DEF OneAtATime, Neat, Tidy, Spaced, OneEach
<1>3. ASSUME NEW h \in Hosts, NEW k \in Keys, NEW end \in {<<>>, <<Newline>>},
             file = <<Entry(h, k)>> \o end
      PROVE  OneAtATime /\ Neat /\ Tidy
  <2>1. /\ Len(file) \in {1, 2} /\ file[1] = Entry(h, k)
        /\ Len(file) = 2 => file[2] = Newline
    BY <1>3
  <2>2. \A i \in 1..Len(file) : IsEntry(i) => i = 1
    BY <2>1 DEF IsEntry, Newline
  <2>3. LastOfLine(1)
    BY <2>1 DEF LastOfLine
  <2>4. trusted = {<<h, k>>}
    <3>1. {1} \cap 1..Len(file) = {1}
      BY <2>1
    <3>. QED
      BY <2>1, <3>1 DEF Init, Entry
  <2>5. Listed(h, k)
    BY <2>1 DEF Listed
  <2>6. Spaced /\ OneEach
    BY <2>1, <2>2, <2>3 DEF Spaced, OneEach
  <2>7. \A g \in Hosts, l \in Keys : <<g, l>> \in trusted => Listed(g, l)
    BY <2>4, <2>5
  <2>. QED
    BY <1>1, <2>6, <2>7 DEF OneAtATime, Neat, Tidy
<1>4. \/ file = <<>>
      \/ \E h \in Hosts, k \in Keys, end \in {<<>>, <<Newline>>} :
           file = <<Entry(h, k)>> \o end
  BY DEF Init, FirstFiles
<1>. QED
  BY <1>2, <1>3, <1>4

-----------------------------------------------------------------------------
(* Steps of the one process that runs.                                     *)

LEMMA StartTidy ==
  ASSUME Inv, ~Torn, Neat, Tidy, NEW p \in Procs, Start(p), Running' \subseteq {p}
  PROVE  Tidy'
<1>0. TypeOK
  BY DEF Inv
<1>1. UNCHANGED <<file, trusted, host>>
  BY DEF Start
<1>2. Loads
  BY <1>0, TidyRemembers DEF Remembers
<1>3. pc'[p] = "connect" /\ known'[p] = Lookup(host[p])
  BY <1>0, <1>2 DEF Start, Goto, TypeOK
<1>4. known'[p] = NoKey => Unlisted(host[p])
  BY <1>0, <1>3, NotFound DEF TypeOK
<1>5. AtWork(p)'
  BY <1>1, <1>3, <1>4 DEF AtWork, Unlisted, IsEntry
<1>6. OneEach' /\ \A h, k : Listed(h, k)' <=> Listed(h, k)
  BY <1>1 DEF Tidy, OneEach, IsEntry, Listed
<1>. QED
  BY <1>1, <1>5, <1>6 DEF Tidy

(* Steps that write nothing.                                               *)
LEMMA WaitingTidy ==
  ASSUME Tidy, NEW p \in Procs, Running' \subseteq {p}, AtWork(p)',
         UNCHANGED <<file, trusted>>
  PROVE  Tidy'
BY DEF Tidy, OneEach, IsEntry, Listed

LEMMA ReadingTidy ==
  ASSUME Inv, Tidy, NEW p \in Running, Running' \subseteq {p},
         Connect(p) \/ Answer(p) \/ CheckEnd(p) \/ Verify(p)
  PROVE  Tidy'
<1>0. TypeOK /\ p \in Procs /\ AtWork(p)
  BY DEF Inv, Tidy, Running
<1>1. UNCHANGED <<file, trusted, host>> /\ Unlisted(host[p])' = Unlisted(host[p])
  BY DEF Connect, Answer, CheckEnd, Verify, Unlisted, IsEntry
<1>2. CASE Connect(p)
  <2>1. pc[p] = "connect" /\ (pc'[p] = "prompt" => known[p] = NoKey)
        /\ pc'[p] \in {"prompt", "verify", "failed"}
    BY <1>0, <1>2 DEF Connect, Goto, TypeOK
  <2>2. AtWork(p)'
    BY <1>0, <1>1, <2>1 DEF AtWork
  <2>. QED
    BY <1>0, <1>1, <2>2, WaitingTidy
<1>3. CASE Answer(p)
  <2>1. pc[p] = "prompt" /\ pc'[p] \in {"check", "failed"}
    BY <1>0, <1>3 DEF Answer, Goto, TypeOK
  <2>2. AtWork(p)'
    BY <1>0, <1>1, <2>1 DEF AtWork
  <2>. QED
    BY <1>0, <1>1, <2>2, WaitingTidy
<1>4. CASE CheckEnd(p)
  <2>1. pc[p] = "check" /\ pc'[p] \in {"newline", "entry"}
    BY <1>0, <1>4 DEF CheckEnd, Goto, TypeOK
  <2>2. AtWork(p)'
    BY <1>0, <1>1, <2>1 DEF AtWork
  <2>. QED
    BY <1>0, <1>1, <2>2, WaitingTidy
<1>5. CASE Verify(p)
  <2>1. pc'[p] \in {"connected", "failed"}
    BY <1>0, <1>5 DEF Verify, Goto, TypeOK
  <2>2. AtWork(p)'
    BY <2>1 DEF AtWork
  <2>. QED
    BY <1>0, <1>1, <2>2, WaitingTidy
<1>. QED
  BY <1>2, <1>3, <1>4, <1>5

LEMMA WritingTidy ==
  ASSUME Inv, Tidy, NEW p \in Running, Running' \subseteq {p},
         WriteNewline(p) \/ WriteEntry(p) \/ WriteEnd(p)
  PROVE  Tidy'
<1>0. TypeOK /\ p \in Procs /\ AtWork(p)
  BY DEF Inv, Tidy, Running
<1>1. offered[p] \in Keys /\ host[p] \in Hosts /\ UNCHANGED <<host, offered>>
  BY <1>0 DEF Inv, Asked, WriteNewline, WriteEntry, WriteEnd, TypeOK
<1>2. PICK h \in Hosts, k \in Keys : h = host[p] /\ k = offered[p]
  BY <1>1
<1>3. Newline \in Tokens /\ Entry(h, k) \in Tokens
  BY DEF Tokens
<1>4. CASE WriteNewline(p)
  <2>1. /\ pc[p] = "newline" /\ pc'[p] = "entry"
        /\ file' = Append(file, Newline) /\ trusted' = trusted
    BY <1>0, <1>4 DEF WriteNewline, Goto, TypeOK
  <2>3. Unlisted(h)
    BY <1>0, <1>2, <2>1 DEF AtWork
  <2>4. OneEach' /\ Unlisted(h)'
    BY <1>0, <2>1, <2>3, NewlineTidy DEF Tidy
  <2>5. AtWork(p)'
    BY <1>1, <1>2, <2>1, <2>4 DEF AtWork, Unlisted
  <2>6. \A g \in Hosts, l \in Keys : <<g, l>> \in trusted' => Listed(g, l)'
    BY <1>0, <1>3, <2>1, AppendLists DEF Tidy
  <2>. QED
    BY <2>4, <2>5, <2>6 DEF Tidy
<1>5. CASE WriteEntry(p)
  <2>1. /\ pc[p] = "entry" /\ pc'[p] = "end"
        /\ file' = Append(file, Entry(h, k)) /\ trusted' = trusted
    BY <1>0, <1>2, <1>5 DEF WriteEntry, Goto, TypeOK
  <2>2. Unlisted(h)
    BY <1>0, <1>2, <2>1 DEF AtWork
  <2>4. OneEach'
    BY <1>0, <2>1, <2>2, EntryTidy DEF Tidy
  <2>5. Listed(h, k)'
    BY <1>0, <1>3, <2>1, AppendLists
  <2>6. AtWork(p)'
    BY <1>1, <1>2, <2>1, <2>5 DEF AtWork, Listed
  <2>7. \A g \in Hosts, l \in Keys : <<g, l>> \in trusted' => Listed(g, l)'
    BY <1>0, <1>3, <2>1, AppendLists DEF Tidy
  <2>. QED
    BY <2>4, <2>6, <2>7 DEF Tidy
<1>6. CASE WriteEnd(p)
  <2>1. /\ pc[p] = "end" /\ pc'[p] = "verify"
        /\ file' = Append(file, Newline)
        /\ trusted' = trusted \cup {<<h, k>>}
    BY <1>0, <1>2, <1>6 DEF WriteEnd, Goto, TypeOK
  <2>3. OneEach'
    BY <1>0, <2>1, NewlineTidy DEF Tidy
  <2>4. AtWork(p)'
    BY <2>1 DEF AtWork
  <2>5. Listed(h, k)
    BY <1>0, <1>2, <2>1 DEF AtWork
  <2>6. \A g \in Hosts, l \in Keys : Listed(g, l) => Listed(g, l)'
    BY <1>0, <1>3, <2>1, AppendLists
  <2>7. \A g \in Hosts, l \in Keys : <<g, l>> \in trusted' => Listed(g, l)'
    BY <2>1, <2>5, <2>6 DEF Tidy
  <2>. QED
    BY <2>3, <2>4, <2>7 DEF Tidy
<1>. QED
  BY <1>4, <1>5, <1>6

(* A crash that tears no entry leaves the file as it is.                   *)
LEMMA CrashTidy ==
  ASSUME Inv, Tidy, ~Torn', NEW p \in Running, Running' \subseteq {p}, Crash(p)
  PROVE  Tidy'
<1>0. TypeOK /\ p \in Procs
  BY DEF Inv, Running
<1>1. pc'[p] = "failed" /\ trusted' = trusted
  BY <1>0 DEF Crash, Goto, TypeOK
<1>2. file' = file
  <2>1. ASSUME pc[p] = "entry", NEW piece \in Pieces(host[p]),
               file' = Append(file, piece)
        PROVE  FALSE
    <3>1. host[p] \in Hosts
      BY <1>0 DEF TypeOK
    <3>2. piece \in Tokens
      BY <3>1 DEF Tokens
    <3>3. piece.part \in {"host", "short", "broken"}
      BY DEF Pieces
    <3>. QED
      BY <1>0, <2>1, <3>2, <3>3, AppendTears
  <2>. QED
    BY <2>1 DEF Crash
<1>3. AtWork(p)'
  BY <1>1 DEF AtWork
<1>. QED
  BY <1>0, <1>1, <1>2, <1>3, WaitingTidy

(* The file only grows, so what is torn stays so.                          *)
LEMMA TornStays ==
  ASSUME Inv, NEW p \in Procs, Torn,
         \/ Start(p) \/ Connect(p) \/ Answer(p) \/ CheckEnd(p) \/ Verify(p)
         \/ WriteNewline(p) \/ WriteEntry(p) \/ WriteEnd(p) \/ Crash(p)
  PROVE  Torn'
<1>0. TypeOK
  BY DEF Inv
<1>1. CASE UNCHANGED file
  BY <1>1 DEF Torn
<1>2. ASSUME NEW t \in Tokens, file' = Append(file, t) PROVE Torn'
  BY <1>0, <1>2, AppendTears
<1>3. CASE WriteNewline(p) \/ WriteEnd(p)
  <2>1. Newline \in Tokens
    BY DEF Tokens
  <2>. QED
    BY <1>2, <1>3, <2>1 DEF WriteNewline, WriteEnd
<1>4. ASSUME pc[p] = "entry"
      PROVE  /\ Entry(host[p], offered[p]) \in Tokens
             /\ Pieces(host[p]) \subseteq Tokens
  <2>1. host[p] \in Hosts /\ offered[p] \in Keys
    BY <1>0, <1>4 DEF Inv, Asked, TypeOK
  <2>. QED
    BY <2>1 DEF Tokens
<1>5. CASE WriteEntry(p)
  BY <1>2, <1>4, <1>5 DEF WriteEntry
<1>6. CASE Crash(p)
  BY <1>1, <1>2, <1>4, <1>6 DEF Crash
<1>7. CASE Start(p) \/ Connect(p) \/ Answer(p) \/ CheckEnd(p) \/ Verify(p)
  BY <1>1, <1>7 DEF Start, Connect, Answer, CheckEnd, Verify
<1>. QED
  BY <1>3, <1>5, <1>6, <1>7

(* Whoever starts is alone, and nobody else starts before it has ended.    *)
LEMMA StaysAlone ==
  ASSUME Inv, OneAtATime, atOnce = 1, NEW p \in Procs,
         \/ Start(p) \/ Connect(p) \/ Answer(p) \/ CheckEnd(p) \/ Verify(p)
         \/ WriteNewline(p) \/ WriteEntry(p) \/ WriteEnd(p) \/ Crash(p)
  PROVE  /\ Running' \subseteq {p}
         /\ Start(p) \/ p \in Running
<1>0. TypeOK
  BY DEF Inv
<1>1. \A q \in Procs : q # p => pc'[q] = pc[q]
  BY <1>0 DEF Start, Connect, Answer, CheckEnd, Verify, WriteNewline, WriteEntry,
     WriteEnd, Crash, Goto, TypeOK
<1>2. CASE Start(p)
  <2>1. Running = {}
    <3>1. SUFFICES ASSUME NEW q \in Running PROVE FALSE
      OBVIOUS
    <3>2. Running = {q}
      BY <3>1 DEF OneAtATime
    <3>3. Cardinality(Running) = 1
      BY <3>2, FS_Singleton
    <3>. QED
      BY <1>2, <3>3 DEF Start
  <2>. QED
    BY <1>1, <1>2, <2>1 DEF Running
<1>3. CASE ~Start(p)
  <2>1. p \in Running
    BY <1>3 DEF Connect, Answer, CheckEnd, Verify, WriteNewline, WriteEntry, WriteEnd,
       Crash, Running
  <2>2. \A q \in Procs : q # p => q \notin Running
    BY <2>1 DEF OneAtATime
  <2>. QED
    BY <1>1, <2>1, <2>2 DEF Running
<1>. QED
  BY <1>2, <1>3

(* It appends to an empty line, or ends the line.                          *)
LEMMA StepNeat ==
  ASSUME Inv, Neat, NEW p \in Procs, Running' \subseteq {p},
         \/ Start(p) \/ Connect(p) \/ Answer(p) \/ CheckEnd(p) \/ Verify(p)
         \/ WriteNewline(p) \/ WriteEntry(p) \/ WriteEnd(p) \/ Crash(p)
  PROVE  Neat'
<1>0. TypeOK /\ Newline \in Tokens
  BY DEF Inv, Tokens
<1>1. Spaced /\ (pc[p] = "entry" => LineEmpty)
  BY DEF Neat, Running
<1>2. SUFFICES Spaced' /\ (pc'[p] = "entry" => LineEmpty')
  BY DEF Neat
<1>3. CASE UNCHANGED file
  <2>1. Spaced' /\ LineEmpty' = LineEmpty
    BY <1>1, <1>3 DEF Spaced, LastOfLine, LineEmpty, Newline
  <2>2. pc'[p] = "entry" => LineEmpty
    <3>1. CASE CheckEnd(p)
      BY <1>0, <3>1 DEF CheckEnd, Goto, TypeOK, NeedsNewline, LineEmpty
    <3>2. CASE WriteNewline(p) \/ WriteEntry(p) \/ WriteEnd(p)
      BY <1>0, <1>3, <3>2, Appended DEF WriteNewline, WriteEntry, WriteEnd, TypeOK
    <3>3. CASE Start(p) \/ Connect(p) \/ Answer(p) \/ Verify(p) \/ Crash(p)
      BY <1>0, <3>3 DEF Start, Connect, Answer, Verify, Crash, Goto, TypeOK
    <3>. QED
      BY <3>1, <3>2, <3>3
  <2>. QED
    BY <2>1, <2>2
<1>4. CASE WriteNewline(p) \/ WriteEnd(p)
  <2>1. file' = Append(file, Newline)
    BY <1>4 DEF WriteNewline, WriteEnd
  <2>2. Spaced'
    BY <1>0, <1>1, <2>1, AppendSpaces
  <2>3. LineEmpty'
    BY <1>0, <2>1, Appended DEF LineEmpty, Newline
  <2>. QED
    BY <2>2, <2>3
<1>5. ASSUME pc[p] = "entry", NEW t \in Tokens, file' = Append(file, t),
             pc'[p] # "entry"
      PROVE  Spaced' /\ (pc'[p] = "entry" => LineEmpty')
  BY <1>0, <1>1, <1>5, AppendSpaces
<1>6. CASE WriteEntry(p)
  <2>0. host[p] \in Hosts /\ offered[p] \in Keys
    BY <1>0, <1>6 DEF Inv, Asked, WriteEntry, TypeOK
  <2>1. Entry(host[p], offered[p]) \in Tokens
    BY <2>0 DEF Tokens
  <2>2. pc[p] = "entry" /\ pc'[p] # "entry"
    BY <1>0, <1>6 DEF WriteEntry, Goto, TypeOK
  <2>. QED
    BY <1>5, <1>6, <2>1, <2>2 DEF WriteEntry
<1>7. CASE Crash(p)
  <2>1. Pieces(host[p]) \subseteq Tokens
    BY <1>0 DEF TypeOK, Tokens
  <2>2. pc'[p] # "entry"
    BY <1>0, <1>7 DEF Crash, Goto, TypeOK
  <2>. QED
    BY <1>3, <1>5, <1>7, <2>1, <2>2 DEF Crash
<1>. QED
  BY <1>3, <1>4, <1>6, <1>7 DEF Start, Connect, Answer, CheckEnd, Verify

LEMMA StepAlone == Inv /\ AloneInv /\ [Next]_vars => AloneInv'
<1>. SUFFICES ASSUME Inv, AloneInv, [Next]_vars, atOnce' = 1
              PROVE  OneAtATime' /\ Neat' /\ (Torn \/ Tidy)'
  BY DEF AloneInv
<1>1. ASSUME NEW p \in Procs,
             \/ Start(p) \/ Connect(p) \/ Answer(p) \/ CheckEnd(p) \/ Verify(p)
             \/ WriteNewline(p) \/ WriteEntry(p) \/ WriteEnd(p) \/ Crash(p)
      PROVE  OneAtATime' /\ Neat' /\ (Torn \/ Tidy)'
  <2>1. atOnce = 1
    BY <1>1 DEF Start, Connect, Answer, CheckEnd, Verify, WriteNewline, WriteEntry,
       WriteEnd, Crash
  <2>2. OneAtATime /\ Neat /\ (Torn \/ Tidy)
    BY <2>1 DEF AloneInv
  <2>3. Running' \subseteq {p} /\ (Start(p) \/ p \in Running)
    BY <1>1, <2>1, <2>2, StaysAlone
  <2>4. Neat'
    BY <1>1, <2>2, <2>3, StepNeat
  <2>5. ASSUME ~Torn' PROVE Tidy'
    <3>1. ~Torn /\ Tidy
      BY <1>1, <2>2, <2>5, TornStays
    <3>2. CASE Start(p)
      BY <2>2, <2>3, <3>1, <3>2, StartTidy
    <3>3. CASE ~Start(p)
      <4>1. p \in Running
        BY <2>3, <3>3
      <4>. QED
        BY <1>1, <2>3, <2>5, <3>1, <3>3, <4>1, ReadingTidy, WritingTidy, CrashTidy
    <3>. QED
      BY <3>2, <3>3
  <2>. QED
    BY <2>3, <2>4, <2>5 DEF OneAtATime
<1>2. CASE UNCHANGED vars
  <2>1. UNCHANGED <<file, trusted, pc, host, known, offered, atOnce>>
    BY <1>2 DEF vars
  <2>2. OneAtATime' /\ (Torn' <=> Torn)
    BY <2>1 DEF AloneInv, OneAtATime, Running, Torn
  <2>3. \A p : AtWork(p)' <=> AtWork(p)
    BY <2>1 DEF AtWork, Unlisted, Listed, LineEmpty, IsEntry
  <2>4. Tidy => Tidy'
    BY <2>1, <2>3 DEF Tidy, OneEach, IsEntry, Listed, Running
  <2>5. Neat => Neat'
    BY <2>1 DEF Neat, Spaced, LastOfLine, LineEmpty, Newline, Running
  <2>. QED
    BY <2>1, <2>2, <2>4, <2>5 DEF AloneInv
<1>. QED
  BY <1>1, <1>2 DEF Next

LEMMA Alone == Spec => []AloneInv
  BY InitInv, StepInv, InitAlone, StepAlone, PTL DEF Spec

(* Nobody gets past a host's key that no user accepted, and past one that  *)
(* was accepted for another name only by a line with a piece of a name in  *)
(* front of the entry, which processes leave that overlap and crash        *)
(* (axsh.rs:69-90, 95-124, 221-240, lib.rs:133-140).                       *)
THEOREM ConnectsToAccepted == Spec => []AcceptedOrMixed
<1>1. Inv /\ AloneInv => AcceptedOrMixed
  <2>1. SUFFICES ASSUME Inv, AloneInv, NEW p \in Past
                 PROVE  \/ <<host[p], offered[p]>> \in accepted
                        \/ atOnce # 1 /\ <<host[p], offered[p]>> \in Mixed
    BY DEF AcceptedOrMixed
  <2>2. <<host[p], offered[p]>> \in Told
    BY <2>1 DEF Past, Inv, Asked
  <2>3. atOnce = 1 => Mixed = {}
    BY <2>1, NeatUnmixed DEF AloneInv, Neat, Inv
  <2> QED
    BY <2>2, <2>3 DEF Told
<1> QED
  BY <1>1, Invariance, Alone, PTL

(* Processes that run one after another lose no key that was reported as   *)
(* permanently added, wherever they crash, until one tears an entry        *)
(* (axsh.rs:94-124, 163).                                                  *)
THEOREM OneByOneRemember == Spec => []AloneRemembers
<1>1. Inv /\ AloneInv => AloneRemembers
  BY TidyRemembers DEF Inv, AloneInv, AloneRemembers
<1> QED
  BY <1>1, Invariance, Alone, PTL
=============================================================================
