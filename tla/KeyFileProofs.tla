--------------------------- MODULE KeyFileProofs ---------------------------
(***************************************************************************)
(* TypeOK, OnlyWholeKeys, ReportedKept and OneIdentity hold of KeyFile for *)
(* any number of makers, loaders and power failures.                       *)
(*                                                                         *)
(* What is in the file is some maker's, but for what a power failure left  *)
(* zero: the one maker that writes has written all of it (OneWriter), and  *)
(* nobody else may write once it is there (OneOwner).  A loader has read   *)
(* the beginning of the file as it still is (ReadsFile), so what it loads  *)
(* is that maker's whole key.  Until the power fails, a file that was      *)
(* loaded or reported is complete, and has no writer that could change it  *)
(* (Settled).                                                              *)
(***************************************************************************)
EXTENDS KeyFile, SequenceTheorems, TLAPS

OneWriter ==
  /\ \A m, n \in Makers : maker[m] = "write" /\ maker[n] = "write" => m = n
  /\ \A m \in Makers : maker[m] = "write" => file = [i \in 1..written[m] |-> m]

Unstarted ==
  /\ \A m \in Makers : maker[m] = "start" => written[m] = 0
  /\ \A r \in Loaders : loader[r] = "start" => got[r] = <<>>

OneOwner ==
  file # NoFile => \A i, j \in 1..Len(file) :
                     file[i] # Zeros /\ file[j] # Zeros => file[i] = file[j]

ReadsFile ==
  \A r \in Loaders : loader[r] = "read" =>
    /\ file # NoFile
    /\ Len(got[r]) <= Len(file)
    /\ \A i \in 1..Len(got[r]) : got[r][i] = file[i]

Settled ==
  powerLosses = 0 => /\ ReportedKept
                     /\ \A r \in Loaders : loader[r] = "loaded" => file = got[r]

IInv == /\ TypeOK
        /\ OneWriter
        /\ Unstarted
        /\ OneOwner
        /\ ReadsFile
        /\ Settled
        /\ OnlyWholeKeys

-----------------------------------------------------------------------------
(* A file is a sequence of up to three parts.                              *)
LEMMA FileSeq ==
  ASSUME NEW f \in Files
  PROVE  /\ f \in Seq(Parts)
         /\ Len(f) \in 0..BundleLen
         /\ f \in [1..Len(f) -> Parts]
<1>1. PICK n \in 0..BundleLen : f \in [1..n -> Parts]
  BY DEF Files
<1>2. n \in Nat
  BY DEF BundleLen
<1>3. f \in Seq(Parts) /\ Len(f) = n
  BY <1>1, <1>2
<1> QED
  BY <1>1, <1>3

LEMMA FileLen == \A f \in Files : Len(f) \in Nat /\ Len(f) <= 3
<1> SUFFICES ASSUME NEW f \in Files PROVE Len(f) \in Nat /\ Len(f) <= 3
  OBVIOUS
<1>1. Len(f) \in 0..BundleLen
  BY FileSeq
<1>2. \A k \in 0..BundleLen : k \in Nat /\ k <= 3
  BY DEF BundleLen
<1> QED
  BY <1>1, <1>2, Zenon

(* ... and a sequence of up to three parts may be a file.                  *)
LEMMA SeqFile ==
  ASSUME NEW n \in 0..BundleLen, NEW f \in [1..n -> Parts]
  PROVE  f \in Files /\ Len(f) = n /\ f # NoFile
<1>1. f \in Files
  BY DEF Files
<1>2. n \in Nat
  BY DEF BundleLen
<1> QED
  BY <1>1, <1>2, PathAssumption

(* A file that decodes and is one maker's is that maker's bundle.          *)
LEMMA WholeFile ==
  ASSUME NEW f \in Files, Decodes(f),
         \A i, j \in 1..Len(f) : f[i] # Zeros /\ f[j] # Zeros => f[i] = f[j]
  PROVE  \E m \in Makers : f = Bundle(m)
<1>1. Len(f) = 3 /\ f \in [1..3 -> Parts]
  BY FileSeq DEF Decodes, BundleLen
<1>2. \A i \in 1..3 : f[i] # Zeros
  BY <1>1 DEF Decodes
<1>3. f[1] \in Makers
  BY <1>1, <1>2 DEF Parts
<1>4. f = [i \in 1..3 |-> f[1]]
  BY <1>1, <1>2
<1> QED
  BY <1>3, <1>4 DEF Bundle, BundleLen

(* To read on from a prefix of a file is to have a longer prefix of it.    *)
LEMMA ReadOn ==
  ASSUME NEW f \in Seq(Parts), NEW g \in Seq(Parts), NEW n \in (Len(g) + 1)..Len(f),
         \A i \in 1..Len(g) : g[i] = f[i],
         NEW h, h = g \o SubSeq(f, Len(g) + 1, n)
  PROVE  h \in Seq(Parts) /\ Len(h) = n /\ \A i \in 1..n : h[i] = f[i]
<1> DEFINE a == Len(g) + 1
           t == SubSeq(f, a, n)
<1>1. Len(f) \in Nat /\ Len(g) \in Nat /\ n \in Nat /\ Len(g) < n /\ n <= Len(f)
  OBVIOUS
<1>2. a \in Nat /\ 1 <= a /\ a <= n
  BY <1>1
<1>3. \A i \in a..n : f[i] \in Parts
  BY <1>1, <1>2
<1> HIDE DEF a
<1>4. t \in Seq(Parts)
  BY <1>1, <1>2, <1>3, SubSeqProperties
<1>5. Len(t) = n - a + 1
  BY <1>1, <1>2, <1>3, SubSeqProperties
<1>6. \A i \in 1..(n - a + 1) : t[i] = f[a + i - 1]
  BY <1>1, <1>2, <1>3, SubSeqProperties
<1>7. h = g \o t
  BY DEF a
<1> HIDE DEF t
<1>8. h \in Seq(Parts) /\ Len(h) = Len(g) + Len(t)
  BY <1>4, <1>7, ConcatProperties
<1>9. \A i \in 1..(Len(g) + Len(t)) : h[i] = IF i <= Len(g) THEN g[i] ELSE t[i - Len(g)]
  BY <1>4, <1>7, ConcatProperties
<1>10. Len(h) = n
  BY <1>1, <1>5, <1>8 DEF a
<1>11. ASSUME NEW i \in 1..n PROVE h[i] = f[i]
  <2>1. i \in 1..(Len(g) + Len(t))
    BY <1>8, <1>10
  <2>2. CASE i <= Len(g)
    <3>1. h[i] = g[i]
      BY <2>1, <2>2, <1>9
    <3>2. i \in 1..Len(g)
      BY <2>2, <1>1
    <3> QED
      BY <3>1, <3>2
  <2>3. CASE i > Len(g)
    <3> DEFINE j == i - Len(g)
    <3>1. h[i] = t[j]
      BY <2>1, <2>3, <1>1, <1>9
    <3>2. j \in 1..(n - a + 1) /\ a + j - 1 = i
      BY <2>3, <1>1 DEF a
    <3> QED
      BY <3>1, <3>2, <1>6
  <2> QED
    BY <2>2, <2>3, <1>1
<1> QED
  BY <1>8, <1>10, <1>11

-----------------------------------------------------------------------------
LEMMA InitInv == Init => IInv
<1> SUFFICES ASSUME Init PROVE IInv
  OBVIOUS
<1>1. <<>> \in Files
  <2>1. 0 \in 0..BundleLen
    BY DEF BundleLen
  <2>2. <<>> \in [1..0 -> Parts]
    OBVIOUS
  <2> QED
    BY <2>1, <2>2 DEF Files
<1>2. TypeOK
  BY <1>1, PathAssumption DEF Init, TypeOK, BundleLen
<1> QED
  BY <1>2 DEF Init, IInv, OneWriter, Unstarted, OneOwner, ReadsFile, Settled,
              ReportedKept, OnlyWholeKeys

(* create_new: nobody has read, written or reported anything yet.          *)
LEMMA CreateInv ==
  ASSUME IInv, NEW m \in Makers, Create(m)
  PROVE  IInv'
<1> USE DEF Create, MayCreate, IInv
<1>1. CASE file # NoFile
  <2>1. UNCHANGED <<file, written, loader, got, powerLosses>>
    BY <1>1
  <2>2. maker' = [maker EXCEPT ![m] = "failed"]
    BY <1>1
  <2>3. \A n \in Makers : maker'[n] = IF n = m THEN "failed" ELSE maker[n]
    BY <2>2 DEF TypeOK
  <2>4. TypeOK'
    BY <2>1, <2>2 DEF TypeOK
  <2> QED
    BY <2>1, <2>3, <2>4 DEF OneWriter, Unstarted, OneOwner, ReadsFile, Settled,
                            ReportedKept, OnlyWholeKeys
<1>2. CASE file = NoFile
  <2>1. file' = <<>> /\ UNCHANGED <<written, loader, got, powerLosses>>
    BY <1>2
  <2>2. maker' = [maker EXCEPT ![m] = "write"]
    BY <1>2
  <2>3. \A n \in Makers : maker'[n] = IF n = m THEN "write" ELSE maker[n]
    BY <2>2 DEF TypeOK
  <2>4. <<>> \in Files /\ Len(<<>>) = 0 /\ <<>> # NoFile
    <3>1. 0 \in 0..BundleLen /\ <<>> \in [1..0 -> Parts]
      BY DEF BundleLen
    <3> QED
      BY <3>1, SeqFile
  <2>5. TypeOK'
    BY <2>1, <2>2, <2>4 DEF TypeOK
  <2>6. \A n \in Makers : maker[n] # "write"
    <3>1. \A n \in Makers : [i \in 1..written[n] |-> n] \in Files
      BY DEF TypeOK, Files, Parts
    <3> QED
      BY <1>2, <3>1, PathAssumption DEF OneWriter
  <2>7. OneWriter'
    <3>1. written[m] = 0
      BY DEF Unstarted
    <3>2. <<>> = [i \in 1..0 |-> m]
      OBVIOUS
    <3> QED
      BY <2>1, <2>3, <2>6, <3>1, <3>2 DEF OneWriter
  <2>8. OneOwner' /\ ReadsFile' /\ Unstarted' /\ OnlyWholeKeys'
    BY <1>2, <2>1, <2>3, <2>4 DEF OneOwner, ReadsFile, Unstarted, OnlyWholeKeys
  <2>9. Settled'
    <3>1. \A n \in Makers : Bundle(n) # NoFile
      BY SeqFile DEF Bundle, BundleLen, Parts
    <3>2. \A r \in Loaders : got[r] # NoFile
      BY PathAssumption DEF TypeOK
    <3> QED
      BY <1>2, <2>1, <2>3, <3>1, <3>2 DEF Settled, ReportedKept
  <2> QED
    BY <2>5, <2>7, <2>8, <2>9
<1> QED
  BY <1>1, <1>2

(* A write makes the file longer by parts of the one maker that writes.    *)
LEMMA WriteInv ==
  ASSUME IInv, NEW m \in Makers, Write(m)
  PROVE  IInv'
<1> USE DEF IInv
<1>1. PICK n \in (written[m] + 1)..BundleLen :
        /\ file' = Overwritten(written[m] + 1, n, m)
        /\ written' = [written EXCEPT ![m] = n]
  BY DEF Write
<1>2. maker[m] = "write" /\ UNCHANGED <<maker, loader, got, powerLosses>>
  BY DEF Write
<1>3. written[m] \in Nat /\ n \in Nat /\ written[m] < n /\ n \in 0..BundleLen
  BY <1>1 DEF TypeOK, BundleLen
<1>4. file = [i \in 1..written[m] |-> m]
  BY <1>2 DEF OneWriter
<1>5. Len(file) = written[m] /\ \A i \in 1..written[m] : file[i] = m
  BY <1>3, <1>4
<1>6. file' = [i \in 1..n |-> m]
  <2>1. file' = [k \in 1..n |-> IF k \in (written[m] + 1)..n THEN m
                                ELSE IF k <= Len(file) THEN file[k] ELSE Zeros]
    BY <1>1, <1>3, <1>5 DEF Overwritten
  <2> QED
    BY <2>1, <1>3, <1>5
<1>7. file' \in Files /\ Len(file') = n /\ file' # NoFile
  BY <1>3, <1>6, SeqFile DEF Parts
<1>8. file # NoFile
  BY <1>3, <1>4, SeqFile DEF Parts, TypeOK
<1>9. \A k \in Makers : written'[k] = IF k = m THEN n ELSE written[k]
  BY <1>1 DEF TypeOK
<1>10. TypeOK'
  BY <1>1, <1>2, <1>3, <1>7 DEF TypeOK
<1>11. OneWriter'
  BY <1>2, <1>6, <1>9 DEF OneWriter
<1>12. Unstarted' /\ OneOwner' /\ OnlyWholeKeys'
  BY <1>2, <1>6, <1>7, <1>9 DEF Unstarted, OneOwner, OnlyWholeKeys
<1>13. ReadsFile'
  <2>1. \A i \in 1..Len(file) : file'[i] = file[i]
    BY <1>3, <1>5, <1>6
  <2>2. Len(file) <= Len(file')
    BY <1>3, <1>5, <1>7
  <2>3. \A r \in Loaders : Len(got[r]) \in Nat
    BY FileSeq DEF TypeOK
  <2> QED
    BY <1>2, <1>3, <1>5, <1>7, <2>1, <2>2, <2>3 DEF ReadsFile
<1>14. Settled'
  <2>1. Len(file) # 3
    <3>1. Len(file) = written[m]
      BY <1>5
    <3>2. written[m] < n /\ written[m] \in Nat /\ n \in 0..3
      BY <1>3 DEF BundleLen
    <3> QED
      BY <3>1, <3>2
  <2>2. \A k \in Makers : Bundle(k) \in Files /\ Len(Bundle(k)) = 3
    BY SeqFile DEF Bundle, BundleLen, Parts
  <2>3. powerLosses = 0 => \A k \in Makers : maker[k] # "wrote"
    BY <2>1, <2>2 DEF Settled, ReportedKept
  <2>4. powerLosses = 0 => \A r \in Loaders : loader[r] # "loaded"
    BY <2>1, <2>2 DEF Settled, OnlyWholeKeys
  <2> QED
    BY <1>2, <2>3, <2>4 DEF Settled, ReportedKept
<1> QED
  BY <1>10, <1>11, <1>12, <1>13, <1>14

(* The file a maker reports is its whole bundle.                           *)
LEMMA ReportInv ==
  ASSUME IInv, NEW m \in Makers, Report(m)
  PROVE  IInv'
<1> USE DEF IInv
<1>1. /\ maker[m] = "write" /\ written[m] = BundleLen
      /\ maker' = [maker EXCEPT ![m] = "wrote"]
      /\ UNCHANGED <<file, written, loader, got, powerLosses>>
  BY DEF Report
<1>2. \A n \in Makers : maker'[n] = IF n = m THEN "wrote" ELSE maker[n]
  BY <1>1 DEF TypeOK
<1>3. file = Bundle(m)
  BY <1>1 DEF OneWriter, Bundle
<1>4. TypeOK'
  BY <1>1 DEF TypeOK
<1> QED
  BY <1>1, <1>2, <1>3, <1>4 DEF OneWriter, Unstarted, OneOwner, ReadsFile, Settled,
                                ReportedKept, OnlyWholeKeys

LEMMA FailInv ==
  ASSUME IInv, NEW m \in Makers, Fail(m)
  PROVE  IInv'
<1> USE DEF IInv
<1>1. /\ maker' = [maker EXCEPT ![m] = "failed"]
      /\ UNCHANGED <<file, written, loader, got, powerLosses>>
  BY DEF Fail
<1>2. \A n \in Makers : maker'[n] = IF n = m THEN "failed" ELSE maker[n]
  BY <1>1 DEF TypeOK
<1>3. TypeOK'
  BY <1>1 DEF TypeOK
<1> QED
  BY <1>1, <1>2, <1>3 DEF OneWriter, Unstarted, OneOwner, ReadsFile, Settled,
                          ReportedKept, OnlyWholeKeys

-----------------------------------------------------------------------------
LEMMA OpenInv ==
  ASSUME IInv, NEW r \in Loaders, Open(r)
  PROVE  IInv'
<1> USE DEF IInv
<1>1. /\ loader[r] = "start"
      /\ loader' = [loader EXCEPT ![r] = IF file = NoFile THEN "failed" ELSE "read"]
      /\ UNCHANGED <<file, maker, written, got, powerLosses>>
  BY DEF Open
<1>2. \A q \in Loaders :
        loader'[q] = IF q = r THEN IF file = NoFile THEN "failed" ELSE "read"
                     ELSE loader[q]
  BY <1>1 DEF TypeOK
<1>3. TypeOK'
  BY <1>1 DEF TypeOK
<1>4. ReadsFile'
  <2>1. Len(got[r]) = 0
    BY <1>1 DEF Unstarted
  <2>2. file # NoFile => Len(file) \in Nat
    BY FileSeq DEF TypeOK, BundleLen
  <2> QED
    BY <1>1, <1>2, <2>1, <2>2 DEF ReadsFile
<1> QED
  BY <1>1, <1>2, <1>3, <1>4 DEF OneWriter, Unstarted, OneOwner, Settled,
                                ReportedKept, OnlyWholeKeys

(* What is read next is what the file has next.                            *)
LEMMA ReadInv ==
  ASSUME IInv, NEW r \in Loaders, Read(r)
  PROVE  IInv'
<1> USE DEF IInv
<1>1. loader[r] = "read" /\ UNCHANGED <<file, maker, written, loader, powerLosses>>
  BY DEF Read
<1>2. PICK n \in (Len(got[r]) + 1)..Len(file) :
        got' = [got EXCEPT ![r] = got[r] \o SubSeq(file, Len(got[r]) + 1, n)]
  BY DEF Read
<1> DEFINE new == got[r] \o SubSeq(file, Len(got[r]) + 1, n)
<1>3. file \in Files /\ got[r] \in Files
  BY <1>1 DEF ReadsFile, TypeOK
<1>4. file \in Seq(Parts) /\ got[r] \in Seq(Parts)
  BY <1>3, FileSeq
<1>5. \A i \in 1..Len(got[r]) : got[r][i] = file[i]
  BY <1>1 DEF ReadsFile
<1>6. new \in Seq(Parts) /\ Len(new) = n /\ \A i \in 1..n : new[i] = file[i]
  BY <1>4, <1>5, ReadOn
<1>7. n \in Nat /\ n <= Len(file) /\ n \in 0..BundleLen
  <2>1. Len(got[r]) \in Nat
    BY <1>3, FileLen
  <2>2. Len(file) \in Nat /\ Len(file) <= 3
    BY <1>3, FileLen
  <2>3. n \in Nat /\ n <= Len(file)
    BY <2>1, <2>2
  <2>4. n <= 3
    BY <2>2, <2>3
  <2> QED
    BY <2>3, <2>4 DEF BundleLen
<1> HIDE DEF new
<1>8. new \in Files
  <2>1. new \in [1..n -> Parts]
    BY <1>6
  <2> QED
    BY <2>1, <1>7 DEF Files
<1>9. got' = [got EXCEPT ![r] = new]
  BY <1>2 DEF new
<1>10. \A q \in Loaders : got'[q] = IF q = r THEN new ELSE got[q]
  BY <1>9 DEF TypeOK
<1>11. TypeOK'
  BY <1>1, <1>8, <1>9 DEF TypeOK
<1>12. ReadsFile'
  BY <1>1, <1>6, <1>7, <1>10 DEF ReadsFile
<1>13. Settled' /\ OnlyWholeKeys' /\ Unstarted'
  BY <1>1, <1>10 DEF Settled, ReportedKept, OnlyWholeKeys, Unstarted
<1> QED
  BY <1>1, <1>11, <1>12, <1>13 DEF OneWriter, OneOwner

(* All of the file was read, so it is what is loaded.                      *)
LEMMA LoadInv ==
  ASSUME IInv, NEW r \in Loaders, Load(r)
  PROVE  IInv'
<1> USE DEF IInv
<1>1. /\ loader[r] = "read" /\ Len(got[r]) >= Len(file)
      /\ loader' = [loader EXCEPT ![r] = IF Decodes(got[r]) THEN "loaded" ELSE "failed"]
      /\ UNCHANGED <<file, maker, written, got, powerLosses>>
  BY DEF Load
<1>2. \A q \in Loaders :
        loader'[q] = IF q = r THEN IF Decodes(got[r]) THEN "loaded" ELSE "failed"
                     ELSE loader[q]
  BY <1>1 DEF TypeOK
<1>3. TypeOK'
  BY <1>1 DEF TypeOK
<1>4. file \in Files /\ got[r] \in Files
  BY <1>1 DEF ReadsFile, TypeOK
<1>5. got[r] = file
  <2>1. /\ file \in Seq(Parts) /\ Len(file) \in Nat
        /\ got[r] \in Seq(Parts) /\ Len(got[r]) \in Nat
    BY <1>4, FileSeq DEF BundleLen
  <2>2. Len(got[r]) = Len(file) /\ \A i \in 1..Len(got[r]) : got[r][i] = file[i]
    BY <1>1, <2>1 DEF ReadsFile
  <2> QED
    BY <2>1, <2>2, SeqEqual
<1>6. Decodes(got[r]) => \E m \in Makers : got[r] = Bundle(m)
  BY <1>1, <1>4, <1>5, WholeFile DEF OneOwner, ReadsFile
<1>7. OnlyWholeKeys'
  BY <1>1, <1>2, <1>6 DEF OnlyWholeKeys
<1>8. Settled'
  BY <1>1, <1>2, <1>5 DEF Settled, ReportedKept
<1>9. ReadsFile' /\ Unstarted'
  BY <1>1, <1>2 DEF ReadsFile, Unstarted
<1> QED
  BY <1>1, <1>3, <1>7, <1>8, <1>9 DEF OneWriter, OneOwner

-----------------------------------------------------------------------------
(* What a power failure leaves is of the same maker, and nobody is at it.  *)
LEMMA PowerLossInv ==
  ASSUME IInv, PowerLoss
  PROVE  IInv'
<1> USE DEF IInv
<1>1. /\ powerLosses < MaxPowerLosses /\ file # NoFile
      /\ file' \in Remains
      /\ maker' = [m \in Makers |-> IF maker[m] = "write" THEN "failed" ELSE maker[m]]
      /\ loader' = [r \in Loaders |-> IF loader[r] = "read" THEN "failed" ELSE loader[r]]
      /\ powerLosses' = powerLosses + 1
      /\ UNCHANGED <<written, got>>
  BY DEF PowerLoss
<1>2. file \in Seq(Parts) /\ Len(file) \in 0..BundleLen /\ file \in [1..Len(file) -> Parts]
  BY <1>1, FileSeq DEF TypeOK
<1>3. file' \in Files \cup {NoFile} /\ OneOwner'
  <2>1. CASE file' = NoFile
    BY <2>1 DEF OneOwner
  <2>2. CASE file' # NoFile
    <3>1. /\ file' \in Files /\ Len(file') <= Len(file)
          /\ \A i \in 1..Len(file') : file'[i] \in {file[i], Zeros}
      BY <1>1, <2>2 DEF Remains
    <3>2. Len(file') \in Nat /\ Len(file) \in Nat
      BY <1>2, <3>1, FileSeq DEF BundleLen
    <3> QED
      BY <3>1, <3>2, <1>1 DEF OneOwner
  <2> QED
    BY <2>1, <2>2
<1>4. /\ \A m \in Makers : maker'[m] = IF maker[m] = "write" THEN "failed" ELSE maker[m]
      /\ \A r \in Loaders : loader'[r] = IF loader[r] = "read" THEN "failed" ELSE loader[r]
  BY <1>1
<1>5. TypeOK'
  BY <1>1, <1>3, PathAssumption DEF TypeOK
<1>6. powerLosses' # 0
  BY <1>1 DEF TypeOK
<1>7. OneWriter' /\ ReadsFile'
  BY <1>4 DEF OneWriter, ReadsFile
<1>8. Unstarted' /\ OnlyWholeKeys'
  BY <1>1, <1>4 DEF Unstarted, OnlyWholeKeys
<1>9. Settled'
  BY <1>6 DEF Settled
<1> QED
  BY <1>3, <1>5, <1>7, <1>8, <1>9

-----------------------------------------------------------------------------
LEMMA StepInv == IInv /\ [Next]_vars => IInv'
<1> SUFFICES ASSUME IInv, [Next]_vars PROVE IInv'
  OBVIOUS
<1>1. ASSUME NEW m \in Makers, Create(m) PROVE IInv'
  BY <1>1, CreateInv
<1>2. ASSUME NEW m \in Makers, Write(m) PROVE IInv'
  BY <1>2, WriteInv
<1>3. ASSUME NEW m \in Makers, Report(m) PROVE IInv'
  BY <1>3, ReportInv
<1>4. ASSUME NEW m \in Makers, Fail(m) PROVE IInv'
  BY <1>4, FailInv
<1>5. ASSUME NEW r \in Loaders, Open(r) PROVE IInv'
  BY <1>5, OpenInv
<1>6. ASSUME NEW r \in Loaders, Read(r) PROVE IInv'
  BY <1>6, ReadInv
<1>7. ASSUME NEW r \in Loaders, Load(r) PROVE IInv'
  BY <1>7, LoadInv
<1>8. CASE PowerLoss
  BY <1>8, PowerLossInv
<1>9. CASE UNCHANGED vars
  BY <1>9 DEF vars, IInv, TypeOK, OneWriter, Unstarted, OneOwner, ReadsFile, Settled,
              ReportedKept, OnlyWholeKeys
<1> QED
  BY <1>1, <1>2, <1>3, <1>4, <1>5, <1>6, <1>7, <1>8, <1>9 DEF Next

LEMMA InvHolds == Spec => []IInv
  BY InitInv, StepInv, PTL DEF Spec

(* Every variable of the key file keeps its type: nobody writes or reads   *)
(* past the bundle (write_to_file, from_file).                             *)
THEOREM KeyFileTypeCorrect == Spec => []TypeOK
<1>1. IInv => TypeOK
  BY DEF IInv
<1> QED
  BY <1>1, InvHolds, PTL

(* Whoever loads the file loads one maker's whole key                      *)
(* (decode_conn_private_key_bundle).                                       *)
THEOREM WholeKeysOnly == Spec => []OnlyWholeKeys
<1>1. IInv => OnlyWholeKeys
  BY DEF IInv
<1> QED
  BY <1>1, InvHolds, PTL

(* A reported key stays until the power fails (write_to_file's create_new).*)
THEOREM KeysKept == Spec => []ReportedKept
<1>1. IInv => ReportedKept
  BY DEF IInv, Settled, ReportedKept
<1> QED
  BY <1>1, InvHolds, PTL

(* Until the power fails, all who load the file, whenever they do, load    *)
(* the same key (write_to_file, from_file).                                *)
THEOREM IdentityKept == Spec => []OneIdentity
<1>1. IInv => OneIdentity
  BY DEF IInv, Settled, OneIdentity
<1> QED
  BY <1>1, InvHolds, PTL
=============================================================================
