------------------------------ MODULE KeyFile ------------------------------
(***************************************************************************)
(* One private key file: the axsh-keygen processes that are told to make   *)
(* it (src/src/bin/axsh-keygen.rs), the programs that load it (ConnSign in *)
(* src/src/lib.rs), and what may happen between two of their system calls. *)
(*                                                                         *)
(* The file is a sequence of the three parts of a key bundle, each marked  *)
(* with the maker whose key it is of: the magic and the lengths, the       *)
(* ML-DSA key and the Ed25519 key.  A part cut short fails the same check  *)
(* as a part that is missing.                                              *)
(***************************************************************************)
EXTENDS Naturals, Sequences

CONSTANTS
  Makers,         \* axsh-keygen processes, each with a key of its own
  Loaders,        \* programs that load the file, each run once
  NoFile,         \* what is at the path before anybody made it
  Zeros,          \* whose a part is that a power failure lost
  MaxPowerLosses  \* bound: how often the power fails

(* Header, ML-DSA key, Ed25519 key.                                        *)
BundleLen == 3

Bundle(m) == [i \in 1..BundleLen |-> m]

Parts == Makers \cup {Zeros}

Files == UNION {[1..n -> Parts] : n \in 0..BundleLen}

ASSUME PathAssumption == /\ Zeros \notin Makers
                         /\ NoFile \notin Files
                         /\ MaxPowerLosses \in Nat

VARIABLES
  file,        \* what is at the path
  maker,       \* where each maker is
  written,     \* how many parts it has written
  loader,      \* where each loader is
  got,         \* what it has read
  powerLosses

vars == <<file, maker, written, loader, got, powerLosses>>

Init ==
  /\ file = NoFile
  /\ maker = [m \in Makers |-> "start"]
  /\ written = [m \in Makers |-> 0]
  /\ loader = [r \in Loaders |-> "start"]
  /\ got = [r \in Loaders |-> <<>>]
  /\ powerLosses = 0

-----------------------------------------------------------------------------
(* write_to_file.                                                          *)

(* With create and truncate in place of create_new.                        *)
MayAlways == TRUE

(* create_new: the file is made by this call or the call fails.            *)
MayCreate == file = NoFile

Create(m) ==
  /\ maker[m] = "start"
  /\ IF MayCreate
     THEN file' = <<>> /\ maker' = [maker EXCEPT ![m] = "write"]
     ELSE UNCHANGED file /\ maker' = [maker EXCEPT ![m] = "failed"]
  /\ UNCHANGED <<written, loader, got, powerLosses>>

(* The file with parts i..j written over it.                               *)
Overwritten(i, j, m) ==
  [k \in 1..(IF j > Len(file) THEN j ELSE Len(file)) |->
     IF k \in i..j THEN m ELSE IF k <= Len(file) THEN file[k] ELSE Zeros]

(* One write of write_all, at the maker's own place in the file.           *)
Write(m) ==
  /\ maker[m] = "write"
  /\ \E n \in (written[m] + 1)..BundleLen :
       /\ file' = Overwritten(written[m] + 1, n, m)
       /\ written' = [written EXCEPT ![m] = n]
  /\ UNCHANGED <<maker, loader, got, powerLosses>>

(* The user is told "wrote".                                               *)
Report(m) ==
  /\ maker[m] = "write"
  /\ written[m] = BundleLen
  /\ maker' = [maker EXCEPT ![m] = "wrote"]
  /\ UNCHANGED <<file, written, loader, got, powerLosses>>

(* A write fails or the process dies; nobody removes what was written.     *)
Fail(m) ==
  /\ maker[m] = "write"
  /\ maker' = [maker EXCEPT ![m] = "failed"]
  /\ UNCHANGED <<file, written, loader, got, powerLosses>>

-----------------------------------------------------------------------------
(* ConnSign::from_file.                                                    *)

Open(r) ==
  /\ loader[r] = "start"
  /\ loader' = [loader EXCEPT ![r] = IF file = NoFile THEN "failed" ELSE "read"]
  /\ UNCHANGED <<file, maker, written, got, powerLosses>>

(* One read of std::fs::read.                                              *)
Read(r) ==
  /\ loader[r] = "read"
  /\ \E n \in (Len(got[r]) + 1)..Len(file) :
       got' = [got EXCEPT ![r] = @ \o SubSeq(file, Len(@) + 1, n)]
  /\ UNCHANGED <<file, maker, written, loader, powerLosses>>

(* The magic, the exact length, and the two PKCS#8 documents.              *)
Decodes(parts) == /\ Len(parts) = BundleLen
                  /\ Zeros \notin {parts[i] : i \in 1..Len(parts)}

(* The end of the file, as it is now.                                      *)
Load(r) ==
  /\ loader[r] = "read"
  /\ Len(got[r]) >= Len(file)
  /\ loader' = [loader EXCEPT ![r] = IF Decodes(got[r]) THEN "loaded" ELSE "failed"]
  /\ UNCHANGED <<file, maker, written, got, powerLosses>>

-----------------------------------------------------------------------------
(* Nothing is flushed to disk: of a file that is not empty any part may    *)
(* be lost or left zero, and the file with them.                           *)
Remains ==
  {f \in Files : Len(f) <= Len(file) /\ \A i \in 1..Len(f) : f[i] \in {file[i], Zeros}}
    \cup {NoFile}

PowerLoss ==
  /\ powerLosses < MaxPowerLosses
  /\ file # NoFile
  /\ file' \in Remains
  /\ maker' = [m \in Makers |-> IF maker[m] = "write" THEN "failed" ELSE maker[m]]
  /\ loader' = [r \in Loaders |-> IF loader[r] = "read" THEN "failed" ELSE loader[r]]
  /\ powerLosses' = powerLosses + 1
  /\ UNCHANGED <<written, got>>

Next == \/ \E m \in Makers : Create(m) \/ Write(m) \/ Report(m) \/ Fail(m)
        \/ \E r \in Loaders : Open(r) \/ Read(r) \/ Load(r)
        \/ PowerLoss

Spec == Init /\ [][Next]_vars

-----------------------------------------------------------------------------
(* Properties.                                                             *)

(* Every variable holds a value of its kind; in particular nobody writes   *)
(* past the bundle (lib.rs:329).                                           *)
TypeOK ==
  /\ file \in Files \cup {NoFile}
  /\ maker \in [Makers -> {"start", "write", "wrote", "failed"}]
  /\ written \in [Makers -> 0..BundleLen]
  /\ loader \in [Loaders -> {"start", "read", "loaded", "failed"}]
  /\ got \in [Loaders -> Files]
  /\ powerLosses \in 0..MaxPowerLosses

(* Whoever loads the file while it is being made, after a maker died, when *)
(* several are told to make it, or after a power failure, gets the whole   *)
(* key of one maker or an error: never the ML-DSA key of one with the      *)
(* Ed25519 key of another, which would authenticate nobody                 *)
(* (decode_conn_private_key_bundle, lib.rs:545).                           *)
OnlyWholeKeys ==
  \A r \in Loaders : loader[r] = "loaded" => \E m \in Makers : got[r] = Bundle(m)

(* While the power lasts, a key reported as written stays in the file as   *)
(* it is, whoever else is told to make it (lib.rs:319, axsh-keygen.rs:20). *)
ReportedKept ==
  \A m \in Makers : maker[m] = "wrote" /\ powerLosses = 0 => file = Bundle(m)

(* While the power lasts, all who load the file have the same key: a       *)
(* server does not change its identity under its clients' known_hosts.     *)
OneIdentity ==
  \A r, q \in Loaders :
    loader[r] = "loaded" /\ loader[q] = "loaded" /\ powerLosses = 0 => got[r] = got[q]
=============================================================================
