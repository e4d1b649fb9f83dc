----------------------------- MODULE KnownHosts -----------------------------
(***************************************************************************)
(* The known_hosts file (src/src/bin/axsh.rs) and the axsh processes that  *)
(* read it when they start and append to it when their user accepts a      *)
(* server's key.  Nothing is locked: each write is one append, and between *)
(* any two another process may read or append, or the process may crash.   *)
(*                                                                         *)
(* The file is a sequence of newlines and entries.  A crash inside the     *)
(* write of an entry leaves a piece of it: the beginning of the host name, *)
(* or more, cut within the key where what is left still is valid base64    *)
(* ("short") or elsewhere ("broken").  A piece of a host name makes the    *)
(* name in the next entry longer, so names are sequences of characters.    *)
(***************************************************************************)
EXTENDS Naturals, Sequences, FiniteSets

CONSTANTS
  Procs,        \* the axsh processes, each run once
  Letters,      \* what the names of hosts are made of
  Hosts, Keys,  \* addresses and the keys servers may have
  NoKey,        \* no key
  CutKey,       \* what a piece of a key decodes to
  MaxRunning,   \* bound: how many processes run at once
  MaxCrashes    \* bound: how many of them crash

ASSUME HostsAssumption == /\ {NoKey, CutKey} \cap Keys = {}
                          /\ NoKey # CutKey
                          /\ Hosts \subseteq Seq(Letters) \ {<<>>}
                          /\ MaxRunning \in Nat /\ MaxCrashes \in Nat

VARIABLES
  file,      \* the known_hosts file
  trusted,   \* entries of the first file, and those reported as added
  accepted,  \* entries of the first file, and those a user said yes to
  pc,        \* where each process is
  host,      \* the address it was started with
  known,     \* the key it found for it
  offered,   \* the key its server offered
  crashes,   \* how many processes have crashed
  atOnce     \* how many processes may run at once, fixed

vars == <<file, trusted, accepted, pc, host, known, offered, crashes, atOnce>>

Newline == [part |-> "newline"]

Entry(h, k) == [part |-> "entry", host |-> h, key |-> k]

(* What the write of an entry for h may leave: the kind and the key of a   *)
(* piece do not matter, only where it ends.                                *)
Pieces(h) == {[part |-> "host", host |-> SubSeq(h, 1, n)] : n \in 1..Len(h)}
               \cup {[part |-> "short", host |-> h], [part |-> "broken"]}

FirstFiles == {<<>>} \cup {<<Entry(h, k)>> \o end :
                             h \in Hosts, k \in Keys, end \in {<<>>, <<Newline>>}}

Init ==
  /\ file \in FirstFiles
  /\ trusted = {<<file[i].host, file[i].key>> : i \in {1} \cap 1..Len(file)}
  /\ accepted = trusted
  /\ pc = [p \in Procs |-> "start"]
  /\ host \in [Procs -> Hosts]
  /\ known = [p \in Procs |-> NoKey]
  /\ offered = [p \in Procs |-> NoKey]
  /\ crashes = 0
  /\ atOnce \in {1, MaxRunning}

-----------------------------------------------------------------------------
(* Reading the file.                                                       *)

LastOfLine(i) == i < Len(file) => file[i + 1] = Newline

FirstOfLine(i) == i > 1 => file[i - 1] = Newline

(* A line parses if it is an entry or the short piece of one, possibly     *)
(* behind pieces of host names; an empty line is passed over.              *)
Parses(i) == CASE file[i].part = "newline" -> TRUE
               [] file[i].part = "host"    -> ~LastOfLine(i)
               [] file[i].part = "broken"  -> FALSE
               [] OTHER                    -> LastOfLine(i)

Keyed == {i \in 1..Len(file) : file[i].part \in {"entry", "short"}}

(* What the host names that tokens end with, one right behind the other,   *)
(* begin the next name with.                                               *)
NameOf(tokens) ==
  LET name[i \in 0..Len(tokens)] ==
        IF i = 0 \/ tokens[i].part # "host" THEN <<>> ELSE name[i - 1] \o tokens[i].host
  IN  name[Len(tokens)]

(* All of a line up to its first space is the host.                        *)
HostAt(i) == IF FirstOfLine(i) THEN file[i].host
             ELSE NameOf(SubSeq(file, 1, i - 1)) \o file[i].host

KeyAt(i) == IF file[i].part = "short" THEN CutKey ELSE file[i].key

(* One line that does not parse, or a second one for a host, makes the     *)
(* whole file unusable.                                                    *)
Loads == /\ \A i \in 1..Len(file) : Parses(i)
         /\ \A i, j \in Keyed : HostAt(i) = HostAt(j) => i = j

Entries == {<<HostAt(i), KeyAt(i)>> : i \in Keyed}

Lookup(h) ==
  IF \E i \in Keyed : HostAt(i) = h
  THEN KeyAt(CHOOSE i \in Keyed : HostAt(i) = h)
  ELSE NoKey

-----------------------------------------------------------------------------
(* A process.                                                              *)

Running == {p \in Procs : pc[p] \notin {"start", "connected", "failed"}}

Goto(p, place) == pc' = [pc EXCEPT ![p] = place]

Start(p) ==
  /\ pc[p] = "start"
  /\ Cardinality(Running) < atOnce
  /\ \/ /\ Loads
        /\ known' = [known EXCEPT ![p] = Lookup(host[p])]
        /\ Goto(p, "connect")
     \/ /\ ~Loads
        /\ Goto(p, "failed")
        /\ UNCHANGED known
  /\ UNCHANGED <<file, trusted, accepted, host, offered, crashes, atOnce>>

LookedUp(p, k) == known[p]

(* The key the accept callback is given.                                   *)
Presented(p, k) == k

(* A known key must be the server's; an unknown one is put to the user.    *)
Connect(p) ==
  /\ pc[p] = "connect"
  /\ \E k \in Keys :
       /\ offered' = [offered EXCEPT ![p] = Presented(p, k)]
       /\ Goto(p, CASE known[p] = NoKey -> "prompt"
                    [] known[p] = k     -> "verify"
                    [] OTHER            -> "failed")
  /\ UNCHANGED <<file, trusted, accepted, host, known, crashes, atOnce>>

(* What the user may type, end of file included.                           *)
Answers == {"yes", "no", ""}

NotNo(answer) == answer # "no"

Agrees(answer) == answer = "yes"

Answer(p) ==
  /\ pc[p] = "prompt"
  /\ \E answer \in Answers :
       /\ accepted' = IF answer = "yes"
                      THEN accepted \cup {<<host[p], offered[p]>>} ELSE accepted
       /\ Goto(p, IF Agrees(answer) THEN "check" ELSE "failed")
  /\ UNCHANGED <<file, trusted, host, known, offered, crashes, atOnce>>

NeverNeeded == FALSE

NeedsNewline == file # <<>> /\ file[Len(file)] # Newline

(* append_known_host reads the file again, only for its last byte.         *)
CheckEnd(p) ==
  /\ pc[p] = "check"
  /\ Goto(p, IF NeedsNewline THEN "newline" ELSE "entry")
  /\ UNCHANGED <<file, trusted, accepted, host, known, offered, crashes, atOnce>>

WriteNewline(p) ==
  /\ pc[p] = "newline"
  /\ file' = Append(file, Newline)
  /\ Goto(p, "entry")
  /\ UNCHANGED <<trusted, accepted, host, known, offered, crashes, atOnce>>

WriteEntry(p) ==
  /\ pc[p] = "entry"
  /\ file' = Append(file, Entry(host[p], offered[p]))
  /\ Goto(p, "end")
  /\ UNCHANGED <<trusted, accepted, host, known, offered, crashes, atOnce>>

(* ... after which the user is told that the key was permanently added.    *)
WriteEnd(p) ==
  /\ pc[p] = "end"
  /\ file' = Append(file, Newline)
  /\ trusted' = trusted \cup {<<host[p], offered[p]>>}
  /\ Goto(p, "verify")
  /\ UNCHANGED <<accepted, host, known, offered, crashes, atOnce>>

(* The handshake goes on, with the key recorded, and may still fail.       *)
Verify(p) ==
  /\ pc[p] = "verify"
  /\ \E result \in {"connected", "failed"} : Goto(p, result)
  /\ UNCHANGED <<file, trusted, accepted, host, known, offered, crashes, atOnce>>

(* A crash, or a write that fails; the write in hand may be done in part.  *)
Crash(p) ==
  /\ p \in Running
  /\ crashes < MaxCrashes
  /\ \/ UNCHANGED file
     \/ /\ pc[p] = "entry"
        /\ \E piece \in Pieces(host[p]) : file' = Append(file, piece)
  /\ crashes' = crashes + 1
  /\ Goto(p, "failed")
  /\ UNCHANGED <<trusted, accepted, host, known, offered, atOnce>>

Next == \E p \in Procs : \/ Start(p)
                         \/ Connect(p)
                         \/ Answer(p)
                         \/ CheckEnd(p)
                         \/ WriteNewline(p)
                         \/ WriteEntry(p)
                         \/ WriteEnd(p)
                         \/ Verify(p)
                         \/ Crash(p)

Spec == Init /\ [][Next]_vars

-----------------------------------------------------------------------------
(* Properties.                                                             *)

Tokens == {Newline} \cup {Entry(h, k) : h \in Hosts, k \in Keys}
                    \cup UNION {Pieces(h) : h \in Hosts}

Places == {"start", "connect", "prompt", "check", "newline", "entry", "end",
           "verify", "connected", "failed"}

(* Every variable holds a value of its kind; in particular what a process  *)
(* writes names a host and a key (axsh.rs:123).                            *)
TypeOK ==
  /\ file \in Seq(Tokens)
  /\ trusted \in SUBSET (Hosts \X Keys)
  /\ accepted \in SUBSET (Hosts \X Keys)
  /\ pc \in [Procs -> Places]
  /\ host \in [Procs -> Hosts]
  /\ known \in [Procs -> Keys \cup {NoKey, CutKey}]
  /\ offered \in [Procs -> Keys \cup {NoKey}]
  /\ crashes \in 0..MaxCrashes
  /\ atOnce \in Nat

Past == {p \in Procs : pc[p] \in {"verify", "connected"}}

(* Whoever connects without being asked does so with a key that a user     *)
(* accepted for that address, or that was in the file from the start: a    *)
(* host that is known was "already checked" (axsh.rs:235).                 *)
OnlyAccepted == \A p \in Past : <<host[p], offered[p]>> \in accepted

(* Whom a line gives which key although the key was accepted for another   *)
(* name: a piece of a host name stands in front of that one.               *)
Mixed ==
  {<<HostAt(i), file[i].key>> :
     i \in {j \in 2..Len(file) : /\ file[j - 1].part = "host"
                                /\ file[j].part = "entry"
                                /\ <<file[j].host, file[j].key>> \in accepted}}

(* However appends mix and wherever processes crash, that is all that can  *)
(* make anybody connect to a key that was not accepted for the address,    *)
(* and only where processes overlap: the key is one that a user accepted,  *)
(* and the file still shows the piece that gave it to the other host       *)
(* (axsh.rs:69-90, 95-124, 221-240, lib.rs:133-140).                       *)
AcceptedOrMixed ==
  \A p \in Past : \/ <<host[p], offered[p]>> \in accepted
                  \/ atOnce # 1 /\ <<host[p], offered[p]>> \in Mixed

Remembers == Loads /\ trusted \subseteq Entries

(* Once a user was told that a key is permanently added, or if one was     *)
(* there before, whoever reads the file finds it (axsh.rs:163).            *)
PermanentlyAdded == trusted # {} => Remembers

Torn == \E i \in 1..Len(file) : file[i].part \in {"host", "short", "broken"}

(* When one process runs at a time the file loses nothing, unless a crash  *)
(* tears an entry: a crash between the writes, or a file whose last line   *)
(* was left open, is repaired by the next append (axsh.rs:95, 120).        *)
AloneRemembers == atOnce = 1 => Torn \/ Remembers
=============================================================================
