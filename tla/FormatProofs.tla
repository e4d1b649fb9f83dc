---------------------------- MODULE FormatProofs ----------------------------
(***************************************************************************)
(* What the readers and writers of Formats promise, for inputs of every    *)
(* length and for every width of a field.  Induction over a sequence or a  *)
(* number goes by the least counterexample: a set that has 0 and with each *)
(* number the next has all of them (UpTo), and one that has the empty      *)
(* sequence and is closed under Append has all sequences (AllSeqs).        *)
(***************************************************************************)
EXTENDS Formats, TLAPS, WellFoundedInduction, SequenceTheorems, FiniteSetTheorems

(* The order of the naturals as a relation.                                *)
Below == {p \in Nat \X Nat : p[1] < p[2]}

(* The order of the naturals is well-founded.                              *)
LEMMA BelowWellFounded == IsWellFoundedOn(Below, Nat)
<1>1. IsWellFoundedOn(OpToRel(<, Nat), Nat)
  BY NatLessThanWellFounded
<1>2. Below \cap (Nat \X Nat) \subseteq OpToRel(<, Nat)
  BY DEF Below, OpToRel
<1> QED BY <1>1, <1>2, IsWellFoundedOnSubrelation

(* A set of naturals has a least element, from which the inductions go.    *)
LEMMA LeastNat ==
  ASSUME NEW A \in SUBSET Nat, A # {}
  PROVE  \E x \in A : \A y \in A : x <= y
<1>1. PICK x \in A : \A y \in A : <<y, x>> \notin Below
  BY BelowWellFounded, WFMin
<1>2. ASSUME NEW y \in A PROVE x <= y
  <2> SUFFICES ASSUME y < x PROVE FALSE
    OBVIOUS
  <2>1. <<y, x>> \in Below
    BY DEF Below
  <2> QED BY <2>1, <1>1
<1> QED BY <1>2

(* What holds of 0, and of the successor of what it holds of, up to n.     *)
LEMMA UpTo ==
  ASSUME NEW n \in Nat, NEW A, 0 \in A, \A i \in 0..(n - 1) : i \in A => i + 1 \in A
  PROVE  0..n \subseteq A
<1> SUFFICES ASSUME (0..n) \ A # {} PROVE FALSE
  OBVIOUS
<1>1. (0..n) \ A \in SUBSET Nat
  OBVIOUS
<1>2. PICK m \in (0..n) \ A : \A k \in (0..n) \ A : m <= k
  BY <1>1, LeastNat
<1>3. m # 0 /\ m - 1 \in 0..(n - 1) /\ m - 1 \in 0..n
  BY <1>2
<1>4. m - 1 \in A
  BY <1>2, <1>3
<1> QED BY <1>2, <1>3, <1>4

(* A set of sequences that is closed under Append has them all.            *)
LEMMA AllSeqs ==
  ASSUME NEW S, NEW A, <<>> \in A,
         \A s \in Seq(S), a \in S : s \in A => Append(s, a) \in A
  PROVE  Seq(S) \subseteq A
<1> SUFFICES ASSUME NEW t \in Seq(S) PROVE t \in A
  OBVIOUS
<1> DEFINE P == [i \in 0..Len(t) |-> SubSeq(t, 1, i)]
<1>1. P[0] = <<>>
  BY SubSeqEmpty
<1>2. ASSUME NEW i \in 0..(Len(t) - 1), P[i] \in A PROVE P[i + 1] \in A
  <2>1. SubSeq(t, 1, i) \in Seq(S) /\ t[i + 1] \in S
    BY SubSeqProperties
  <2>2. SubSeq(t, 1, i + 1) = SubSeq(t, 1, i) \o <<t[i + 1]>>
    BY SubSeqRecursiveSecond
  <2>3. SubSeq(t, 1, i + 1) = Append(SubSeq(t, 1, i), t[i + 1])
    BY <2>1, <2>2, AppendIsConcat
  <2>4. P[i] = SubSeq(t, 1, i) /\ P[i + 1] = SubSeq(t, 1, i + 1)
    OBVIOUS
  <2> HIDE DEF P
  <2>5. Append(P[i], t[i + 1]) \in A
    BY <1>2, <2>1, <2>4
  <2> QED BY <2>3, <2>4, <2>5
<1>3. P[Len(t)] = t
  BY SubSeqFull
<1> HIDE DEF P
<1> DEFINE G == {i \in 0..Len(t) : P[i] \in A}
<1>4. 0 \in G
  BY <1>1
<1>5. \A i \in 0..(Len(t) - 1) : i \in G => i + 1 \in G
  BY <1>2
<1>6. 0..Len(t) \subseteq G
  <2> HIDE DEF G
  <2> QED BY <1>4, <1>5, UpTo
<1> QED BY <1>3, <1>6

-----------------------------------------------------------------------------
(* Loops.                                                                  *)

(* at is what a loop over n elements of s does to init, step by step.      *)
Steps(at, step, init, s, n) ==
  at = [i \in 0..n |-> IF i = 0 THEN init ELSE step[s[i]][at[i - 1]]]

(* There is such a course of a loop, for every length.                     *)
LEMMA StepsExist ==
  ASSUME NEW step, NEW init, NEW s, NEW n \in Nat
  PROVE  \E at : Steps(at, step, init, s, n)
<1> DEFINE G == {m \in 0..n : \E at : Steps(at, step, init, s, m)}
<1>1. 0 \in G
  <2>1. Steps([i \in 0..0 |-> init], step, init, s, 0)
    BY DEF Steps
  <2> QED BY <2>1
<1>2. ASSUME NEW i \in 0..(n - 1), i \in G PROVE i + 1 \in G
  <2>1. PICK at : Steps(at, step, init, s, i)
    BY <1>2
  <2> DEFINE next == [j \in 0..(i + 1) |-> IF j = i + 1 THEN step[s[i + 1]][at[i]] ELSE at[j]]
  <2>2. next[i + 1] = step[s[i + 1]][next[i]] /\ next[0] = init
    <3>1. at[0] = init
      BY <2>1 DEF Steps
    <3>2. next[i + 1] = step[s[i + 1]][at[i]] /\ next[i] = at[i] /\ next[0] = at[0]
      OBVIOUS
    <3> HIDE DEF next
    <3> QED BY <3>1, <3>2
  <2>3. ASSUME NEW j \in 1..i PROVE next[j] = step[s[j]][next[j - 1]]
    <3>1. at[j] = step[s[j]][at[j - 1]]
      BY <2>1 DEF Steps
    <3> QED BY <3>1
  <2>4. next = [j \in 0..(i + 1) |-> next[j]]
    OBVIOUS
  <2> HIDE DEF next
  <2>5. \A j \in 0..(i + 1) : next[j] = IF j = 0 THEN init ELSE step[s[j]][next[j - 1]]
    BY <2>2, <2>3
  <2>6. Steps(next, step, init, s, i + 1)
    BY <2>4, <2>5 DEF Steps
  <2> QED BY <2>6
<1> HIDE DEF G
<1>3. n \in G
  BY <1>1, <1>2, UpTo
<1> QED BY <1>3 DEF G

(* Loop is the end of such a course.                                       *)
LEMMA LoopSteps ==
  ASSUME NEW step, NEW init, NEW S, NEW s \in Seq(S)
  PROVE  \E at : Steps(at, step, init, s, Len(s)) /\ Loop(step, init, s) = at[Len(s)]
<1>1. Len(s) \in Nat
  BY LenProperties
<1>2. \E at : Steps(at, step, init, s, Len(s))
  BY <1>1, StepsExist
<1> QED BY <1>2 DEF Loop, Steps

(* A course depends on the elements behind it, not on those to come.       *)
LEMMA StepsAgree ==
  ASSUME NEW step, NEW init, NEW s, NEW n \in Nat, NEW m \in 0..n, NEW t,
         \A i \in 1..m : s[i] = t[i],
         NEW at, Steps(at, step, init, s, n), NEW bt, Steps(bt, step, init, t, m)
  PROVE  \A i \in 0..m : at[i] = bt[i]
<1> DEFINE G == {i \in 0..m : at[i] = bt[i]}
<1>1. 0 \in G
  BY DEF Steps
<1>2. \A i \in 0..(m - 1) : i \in G => i + 1 \in G
  <2> SUFFICES ASSUME NEW i \in 0..(m - 1), at[i] = bt[i] PROVE at[i + 1] = bt[i + 1]
    OBVIOUS
  <2>1. at[i + 1] = step[s[i + 1]][at[i]]
    BY DEF Steps
  <2>2. bt[i + 1] = step[t[i + 1]][bt[i]]
    BY DEF Steps
  <2> QED BY <2>1, <2>2
<1> HIDE DEF G
<1>3. 0..m \subseteq G
  BY <1>1, <1>2, UpTo
<1> QED BY <1>3 DEF G

(* Behind nothing the state is the first one.                              *)
LEMMA LoopEmpty ==
  ASSUME NEW step, NEW init
  PROVE  Loop(step, init, <<>>) = init
<1>1. <<>> \in Seq({}) /\ Len(<<>>) = 0
  OBVIOUS
<1>2. PICK at : Steps(at, step, init, <<>>, 0) /\ Loop(step, init, <<>>) = at[0]
  BY <1>1, LoopSteps
<1> QED BY <1>2 DEF Steps

(* One more element makes one more step.                                   *)
LEMMA LoopAppend ==
  ASSUME NEW step, NEW init, NEW S, NEW s \in Seq(S), NEW a \in S
  PROVE  Loop(step, init, Append(s, a)) = step[a][Loop(step, init, s)]
<1> DEFINE t == Append(s, a)
<1>1. t \in Seq(S) /\ Len(t) = Len(s) + 1 /\ \A i \in 1..Len(s) : s[i] = t[i]
  BY AppendProperties
<1>2. t[Len(s) + 1] = a /\ Len(s) \in Nat
  BY AppendProperties
<1> HIDE DEF t
<1>3. PICK at : Steps(at, step, init, t, Len(s) + 1) /\ Loop(step, init, t) = at[Len(s) + 1]
  BY <1>1, LoopSteps
<1>4. PICK bt : Steps(bt, step, init, s, Len(s)) /\ Loop(step, init, s) = bt[Len(s)]
  BY LoopSteps
<1>5. at[Len(s)] = bt[Len(s)]
  <2>1. Len(s) \in 0..(Len(s) + 1) /\ \A i \in 1..Len(s) : t[i] = s[i]
    BY <1>1, <1>2
  <2>2. Len(s) + 1 \in Nat /\ Len(s) \in 0..Len(s)
    BY <1>2
  <2> DEFINE m == Len(s)
             n == Len(s) + 1
  <2>3. n \in Nat /\ m \in 0..n /\ m \in 0..m
    BY <2>1, <2>2
  <2>4. Steps(at, step, init, t, n) /\ Steps(bt, step, init, s, m)
    BY <1>3, <1>4
  <2>5. \A i \in 1..m : t[i] = s[i]
    BY <2>1
  <2>6. at[m] = bt[m]
    <3> HIDE DEF m, n
    <3> QED BY <2>3, <2>4, <2>5, StepsAgree
  <2> QED BY <2>6
<1>6. at[Len(s) + 1] = step[a][at[Len(s)]]
  BY <1>2, <1>3 DEF Steps
<1> QED BY <1>3, <1>4, <1>5, <1>6 DEF t

(* The state of a loop stays of the type that its step keeps.              *)
LEMMA LoopType ==
  ASSUME NEW T, NEW S, NEW step \in [S -> [T -> T]], NEW init \in T, NEW s \in Seq(S)
  PROVE  Loop(step, init, s) \in T
<1> DEFINE G == {t \in Seq(S) : Loop(step, init, t) \in T}
<1>1. <<>> \in G
  BY LoopEmpty
<1>2. ASSUME NEW t \in Seq(S), NEW a \in S, t \in G PROVE Append(t, a) \in G
  <2>1. Loop(step, init, Append(t, a)) = step[a][Loop(step, init, t)]
    BY LoopAppend
  <2>2. Append(t, a) \in Seq(S)
    BY AppendProperties
  <2> QED BY <1>2, <2>1, <2>2
<1>3. Seq(S) \subseteq G
  <2> HIDE DEF G
  <2> QED BY <1>1, <1>2, AllSeqs
<1> QED BY <1>3

(* A loop over two sequences is a loop over each.                          *)
LEMMA LoopConcat ==
  ASSUME NEW step, NEW init, NEW S, NEW s \in Seq(S), NEW t \in Seq(S)
  PROVE  Loop(step, init, s \o t) = Loop(step, Loop(step, init, s), t)
<1> DEFINE G == {u \in Seq(S) : Loop(step, init, s \o u) = Loop(step, Loop(step, init, s), u)}
<1>1. <<>> \in G
  <2>1. s \o <<>> = s
    BY ConcatEmptySeq
  <2> QED BY <2>1, LoopEmpty
<1>2. ASSUME NEW u \in Seq(S), NEW a \in S, u \in G PROVE Append(u, a) \in G
  <2>1. Loop(step, Loop(step, init, s), Append(u, a)) = step[a][Loop(step, Loop(step, init, s), u)]
    BY LoopAppend
  <2>2. s \o u \in Seq(S) /\ Append(u, a) \in Seq(S)
    BY ConcatProperties, AppendProperties
  <2>3. s \o Append(u, a) = Append(s \o u, a)
    <3>1. <<a>> \in Seq(S) /\ Append(u, a) = u \o <<a>>
      BY AppendIsConcat
    <3>2. s \o (u \o <<a>>) = (s \o u) \o <<a>>
      BY <3>1, ConcatAssociative
    <3> QED BY <2>2, <3>1, <3>2, AppendIsConcat
  <2>4. Loop(step, init, Append(s \o u, a)) = step[a][Loop(step, init, s \o u)]
    BY <2>2, LoopAppend
  <2> QED BY <1>2, <2>1, <2>2, <2>3, <2>4
<1>3. Seq(S) \subseteq G
  <2> HIDE DEF G
  <2> QED BY <1>1, <1>2, AllSeqs
<1> QED BY <1>3

(* A loop over one element is one step.                                    *)
LEMMA LoopOne ==
  ASSUME NEW step, NEW init, NEW a
  PROVE  Loop(step, init, <<a>>) = step[a][init]
<1>1. <<>> \in Seq({a}) /\ Append(<<>>, a) = <<a>> /\ a \in {a}
  OBVIOUS
<1>2. Loop(step, init, Append(<<>>, a)) = step[a][Loop(step, init, <<>>)]
  BY <1>1, LoopAppend
<1> QED BY <1>1, <1>2, LoopEmpty

-----------------------------------------------------------------------------
(* Numbers and digits.                                                     *)

(* The step of FromDigits: one digit more.                                 *)
DigitStep(base) == [d \in 0..(base - 1) |-> [n \in Nat |-> n * base + d]]

(* A digit makes a number of a number.                                     *)
LEMMA DigitStepType ==
  ASSUME NEW base \in Nat \ {0}
  PROVE  DigitStep(base) \in [0..(base - 1) -> [Nat -> Nat]]
<1> SUFFICES ASSUME NEW d \in 0..(base - 1), NEW n \in Nat PROVE n * base + d \in Nat
  BY DEF DigitStep
<1> QED OBVIOUS

(* Digits are read as a number.                                            *)
LEMMA DigitsType ==
  ASSUME NEW base \in Nat \ {0}, NEW s \in Seq(0..(base - 1))
  PROVE  FromDigits(base, s) \in Nat
<1>1. Loop(DigitStep(base), 0, s) \in Nat
  BY DigitStepType, LoopType
<1> QED BY <1>1 DEF FromDigits, DigitStep

(* No digits are read as 0.                                                *)
LEMMA DigitsEmpty ==
  ASSUME NEW base
  PROVE  FromDigits(base, <<>>) = 0
BY LoopEmpty DEF FromDigits

(* A digit behind others is the new last one.                              *)
LEMMA DigitsAppend ==
  ASSUME NEW base \in Nat \ {0}, NEW s \in Seq(0..(base - 1)), NEW d \in 0..(base - 1)
  PROVE  FromDigits(base, Append(s, d)) = FromDigits(base, s) * base + d
<1>1. Loop(DigitStep(base), 0, Append(s, d)) = DigitStep(base)[d][Loop(DigitStep(base), 0, s)]
  BY LoopAppend
<1>2. Loop(DigitStep(base), 0, s) \in Nat
  BY DigitStepType, LoopType
<1>3. DigitStep(base)[d][Loop(DigitStep(base), 0, s)] = Loop(DigitStep(base), 0, s) * base + d
  BY <1>2 DEF DigitStep
<1> QED BY <1>1, <1>3 DEF FromDigits, DigitStep

(* Quotient and rest of a number with a digit behind it.                   *)
LEMMA DivMod ==
  ASSUME NEW b \in Nat \ {0}, NEW a \in Nat, NEW o \in 0..(b - 1)
  PROVE  (a * b + o) \div b = a /\ (a * b + o) % b = o
OBVIOUS

(* A sequence is a function on its places.                                 *)
LEMMA SeqAsFunction ==
  ASSUME NEW S, NEW s \in Seq(S), NEW n, Len(s) = n
  PROVE  s \in [1..n -> S]
OBVIOUS

(* The digits of the number that digits are read as.                       *)
LEMMA DigitsBack ==
  ASSUME NEW base \in Nat \ {0}, NEW len \in Nat, NEW s \in [1..len -> 0..(base - 1)]
  PROVE  ToDigits(base, len, FromDigits(base, s)) = s
<1> DEFINE n == FromDigits(base, s)
           P == [i \in 0..len |-> SubSeq(s, 1, i)]
           R == [i \in 0..len |-> FromDigits(base, P[len - i])]
<1>1. s \in Seq(0..(base - 1)) /\ Len(s) = len
  OBVIOUS
<1>2. P[0] = <<>> /\ P[len] = s
  BY <1>1, SubSeqEmpty, SubSeqFull
<1>3. ASSUME NEW i \in 0..len PROVE P[i] \in Seq(0..(base - 1))
  BY <1>1, SubSeqProperties
<1>4. ASSUME NEW i \in 1..len PROVE P[i] = Append(P[i - 1], s[i])
  <2>1. SubSeq(s, 1, i) = SubSeq(s, 1, i - 1) \o <<s[i]>>
    BY <1>1, SubSeqRecursiveSecond
  <2>2. i \in 0..len /\ i - 1 \in 0..len
    OBVIOUS
  <2>3. P[i] = P[i - 1] \o <<s[i]>>
    BY <2>1, <2>2
  <2>4. P[i - 1] \in Seq(0..(base - 1)) /\ s[i] \in 0..(base - 1)
    BY <1>3, <2>2
  <2> HIDE DEF P
  <2> QED BY <2>3, <2>4, AppendIsConcat
<1> HIDE DEF P
<1>5. R[0] = n
  BY <1>2
<1>6. ASSUME NEW i \in 1..len PROVE /\ R[len - i] \div base = R[len - i + 1]
                                    /\ R[len - i] % base = s[i]
  <2>1. P[i - 1] \in Seq(0..(base - 1)) /\ s[i] \in 0..(base - 1)
    BY <1>3
  <2>2. FromDigits(base, P[i]) = FromDigits(base, P[i - 1]) * base + s[i]
    BY <1>4, <2>1, DigitsAppend
  <2>3. FromDigits(base, P[i - 1]) \in Nat
    BY <2>1, DigitsType
  <2>4. R[len - i] = FromDigits(base, P[i]) /\ R[len - i + 1] = FromDigits(base, P[i - 1])
    <3>1. len - i \in 0..len /\ len - i + 1 \in 0..len /\ len - (len - i) = i /\ len - (len - i + 1) = i - 1
      OBVIOUS
    <3> QED BY <3>1
  <2> HIDE DEF R
  <2>5. (FromDigits(base, P[i - 1]) * base + s[i]) \div base = FromDigits(base, P[i - 1])
    BY <2>1, <2>3, DivMod
  <2>6. (FromDigits(base, P[i - 1]) * base + s[i]) % base = s[i]
    BY <2>1, <2>3, DivMod
  <2> QED BY <2>2, <2>4, <2>5, <2>6
<1> DEFINE Rests(f) == f = [i \in 0..len |-> IF i = 0 THEN n ELSE f[i - 1] \div base]
<1>7. Rests(R)
  <2>1. ASSUME NEW i \in 1..len PROVE R[i] = R[i - 1] \div base
    <3>1. len - i + 1 \in 1..len /\ len - (len - i + 1) = i - 1 /\ len - (len - i + 1) + 1 = i
      OBVIOUS
    <3> HIDE DEF R
    <3> QED BY <1>6, <3>1
  <2>2. R = [i \in 0..len |-> R[i]]
    OBVIOUS
  <2> HIDE DEF R, n
  <2>3. \A i \in 0..len : R[i] = IF i = 0 THEN n ELSE R[i - 1] \div base
    BY <1>5, <2>1
  <2> QED BY <2>2, <2>3
<1> DEFINE f == CHOOSE g : Rests(g)
<1>8. Rests(f)
  BY <1>7
<1>9. ToDigits(base, len, n) = [i \in 1..len |-> f[len - i] % base]
  BY DEF ToDigits
<1> HIDE DEF f, R, n
<1>10. \A i \in 0..len : f[i] = R[i]
  <2> DEFINE G == {i \in 0..len : f[i] = R[i]}
  <2>1. 0 \in G
    BY <1>8, <1>5
  <2>2. ASSUME NEW i \in 0..(len - 1), i \in G PROVE i + 1 \in G
    <3>1. i + 1 \in 0..len /\ i + 1 # 0 /\ i + 1 - 1 = i
      OBVIOUS
    <3>2. f[i + 1] = f[i] \div base
      BY <1>8, <3>1
    <3>3. R[i + 1] = R[i] \div base
      BY <1>7, <3>1
    <3> QED BY <2>2, <3>1, <3>2, <3>3
  <2>3. 0..len \subseteq G
    <3> HIDE DEF G
    <3> QED BY <2>1, <2>2, UpTo
  <2> QED BY <2>3
<1>11. ASSUME NEW i \in 1..len PROVE f[len - i] % base = s[i]
  BY <1>6, <1>10
<1>12. ToDigits(base, len, n) = [i \in 1..len |-> s[i]]
  BY <1>9, <1>11
<1> QED BY <1>12 DEF n

(* The number of len digits that are the largest.                          *)
Largest(base, len) == FromDigits(base, [i \in 1..len |-> base - 1])

(* The largest number of some digits, and of one more.                     *)
LEMMA LargestMore ==
  ASSUME NEW base \in Nat \ {0}, NEW len \in Nat
  PROVE  /\ Largest(base, len) \in Nat
         /\ Largest(base, len + 1) = Largest(base, len) * base + (base - 1)
<1> DEFINE s == [i \in 1..len |-> base - 1]
<1>1. s \in Seq(0..(base - 1)) /\ base - 1 \in 0..(base - 1)
  OBVIOUS
<1>2. [i \in 1..(len + 1) |-> base - 1] = Append(s, base - 1)
  <2>1. [i \in 1..(len + 1) |-> base - 1] \in Seq(0..(base - 1))
    OBVIOUS
  <2> QED BY <1>1, <2>1, AppendProperties, SeqEqual
<1> QED BY <1>1, <1>2, DigitsAppend, DigitsType DEF Largest

(* Digits are at most that.                                                *)
LEMMA AtMostLargest ==
  ASSUME NEW base \in Nat \ {0}, NEW s \in Seq(0..(base - 1))
  PROVE  FromDigits(base, s) <= Largest(base, Len(s))
<1> DEFINE G == {t \in Seq(0..(base - 1)) : FromDigits(base, t) <= Largest(base, Len(t))}
<1>1. <<>> \in G
  <2>1. [i \in 1..0 |-> base - 1] = <<>>
    OBVIOUS
  <2> QED BY <2>1, DigitsEmpty DEF Largest
<1>2. ASSUME NEW t \in Seq(0..(base - 1)), NEW d \in 0..(base - 1), t \in G PROVE Append(t, d) \in G
  <2>1. Len(t) \in Nat /\ Append(t, d) \in Seq(0..(base - 1)) /\ Len(Append(t, d)) = Len(t) + 1
    BY AppendProperties
  <2>2. FromDigits(base, Append(t, d)) = FromDigits(base, t) * base + d
    BY DigitsAppend
  <2>3. FromDigits(base, t) \in Nat /\ Largest(base, Len(t)) \in Nat
    BY <2>1, LargestMore, DigitsType
  <2>4. Largest(base, Len(t) + 1) = Largest(base, Len(t)) * base + (base - 1)
    BY <2>1, LargestMore
  <2>5. ASSUME NEW a \in Nat, NEW b \in Nat, a <= b PROVE a * base + d <= b * base + (base - 1)
    <3>1. a * base <= b * base
      BY <2>5
    <3> QED BY <3>1
  <2> QED BY <1>2, <2>1, <2>2, <2>3, <2>4, <2>5
<1>3. Seq(0..(base - 1)) \subseteq G
  <2> HIDE DEF G
  <2> QED BY <1>1, <1>2, AllSeqs
<1> QED BY <1>3

(* Each number that is not larger has digits.                              *)
LEMMA HasDigits ==
  ASSUME NEW base \in Nat \ {0}, NEW len \in Nat, NEW n \in 0..Largest(base, len)
  PROVE  \E s \in [1..len -> 0..(base - 1)] : FromDigits(base, s) = n
<1> DEFINE G == {k \in 0..len : \A m \in 0..Largest(base, k) :
                   \E s \in [1..k -> 0..(base - 1)] : FromDigits(base, s) = m}
<1>1. 0 \in G
  <2>1. [i \in 1..0 |-> base - 1] = <<>>
    OBVIOUS
  <2>1a. <<>> \in [1..0 -> 0..(base - 1)]
    OBVIOUS
  <2>2. Largest(base, 0) = 0
    BY <2>1, DigitsEmpty DEF Largest
  <2>3. FromDigits(base, <<>>) = 0
    BY DigitsEmpty
  <2>4. \A m \in 0..0 : \E s \in [1..0 -> 0..(base - 1)] : FromDigits(base, s) = m
    <3> SUFFICES ASSUME NEW m \in 0..0 PROVE \E s \in [1..0 -> 0..(base - 1)] : FromDigits(base, s) = m
      OBVIOUS
    <3>1. m = 0
      OBVIOUS
    <3> QED BY <2>1a, <2>3, <3>1
  <2> QED BY <2>2, <2>4
<1>2. ASSUME NEW k \in 0..(len - 1), k \in G PROVE k + 1 \in G
  <2> SUFFICES ASSUME NEW m \in 0..Largest(base, k + 1)
               PROVE  \E s \in [1..(k + 1) -> 0..(base - 1)] : FromDigits(base, s) = m
    OBVIOUS
  <2>1. /\ Largest(base, k) \in Nat
        /\ Largest(base, k + 1) = Largest(base, k) * base + (base - 1)
    BY LargestMore
  <2>2. m \in Nat
    BY <2>1
  <2> DEFINE q == m \div base
             r == m % base
  <2>3. q \in Nat /\ r \in 0..(base - 1) /\ m = q * base + r
    BY <2>2
  <2> HIDE DEF q, r
  <2>4. q <= Largest(base, k)
    <3>1. ASSUME NEW l \in Nat, q * base + r <= l * base + (base - 1)
          PROVE  q <= l
      <4> SUFFICES ASSUME q >= l + 1 PROVE FALSE
        BY <2>3
      <4>1. q * base >= (l + 1) * base
        BY <2>3
      <4>2. (l + 1) * base = l * base + base
        OBVIOUS
      <4>3. l * base \in Nat /\ q * base \in Nat
        BY <2>3
      <4> HIDE DEF q, r
      <4> QED BY <2>3, <3>1, <4>1, <4>2, <4>3
    <3>2. m <= Largest(base, k) * base + (base - 1)
      BY <2>1
    <3> QED BY <2>1, <2>3, <3>1, <3>2
  <2>5. q \in 0..Largest(base, k)
    BY <2>1, <2>3, <2>4
  <2>6. PICK s \in [1..k -> 0..(base - 1)] : FromDigits(base, s) = q
    BY <1>2, <2>5
  <2>7. s \in Seq(0..(base - 1)) /\ Len(s) = k
    OBVIOUS
  <2>8. FromDigits(base, Append(s, r)) = q * base + r
    BY <2>3, <2>6, <2>7, DigitsAppend
  <2>9. Append(s, r) \in [1..(k + 1) -> 0..(base - 1)]
    <3>1. /\ Append(s, r) \in Seq(0..(base - 1))
          /\ Len(Append(s, r)) = k + 1
      BY <2>3, <2>7, AppendProperties
    <3> QED BY <3>1, SeqAsFunction
  <2> QED BY <2>3, <2>8, <2>9
<1>3. 0..len \subseteq G
  <2> HIDE DEF G
  <2> QED BY <1>1, <1>2, UpTo
<1> QED BY <1>3

-----------------------------------------------------------------------------
(* Slices.                                                                 *)

(* A slice is a sequence of what it is cut from.                           *)
LEMMA PartType ==
  ASSUME NEW S, NEW s \in Seq(S), NEW i \in Nat, NEW n \in Nat, i + n <= Len(s)
  PROVE  /\ Part(s, i, n) \in Seq(S)
         /\ Part(s, i, n) \in [1..n -> S]
         /\ Len(Part(s, i, n)) = n
         /\ \A j \in 1..n : Part(s, i, n)[j] = s[i + j]
<1>1. \A j \in (i + 1)..(i + n) : s[j] \in S
  OBVIOUS
<1>2. /\ Part(s, i, n) \in Seq(S)
      /\ Len(Part(s, i, n)) = n
      /\ \A j \in 1..n : Part(s, i, n)[j] = s[i + j]
  BY <1>1, SubSeqProperties DEF Part
<1> QED BY <1>2, SeqAsFunction

(* And so is what is behind a place.                                       *)
LEMMA FromType ==
  ASSUME NEW S, NEW s \in Seq(S), NEW i \in 0..Len(s)
  PROVE  /\ From(s, i) \in Seq(S)
         /\ From(s, i) \in [1..(Len(s) - i) -> S]
         /\ Len(From(s, i)) = Len(s) - i
         /\ \A j \in 1..(Len(s) - i) : From(s, i)[j] = s[i + j]
<1>1. \A j \in (i + 1)..Len(s) : s[j] \in S
  OBVIOUS
<1>2. /\ From(s, i) \in Seq(S)
      /\ Len(From(s, i)) = Len(s) - i
      /\ \A j \in 1..(Len(s) - i) : From(s, i)[j] = s[i + j]
  BY <1>1, SubSeqProperties DEF From
<1> QED BY <1>2, SeqAsFunction

(* What is put together can be cut where it was.                           *)
LEMMA CutBack ==
  ASSUME NEW S, NEW a \in Seq(S), NEW b \in Seq(S)
  PROVE  Part(a \o b, 0, Len(a)) = a /\ From(a \o b, Len(a)) = b
<1> DEFINE s == a \o b
           m == Len(a)
           n == Len(b)
<1>1. s \in Seq(S) /\ Len(s) = m + n
      /\ \A i \in 1..(m + n) : s[i] = IF i <= m THEN a[i] ELSE b[i - m]
  BY ConcatProperties
<1>2. m \in Nat /\ n \in Nat /\ m = Len(a) /\ n = Len(b)
  BY LenProperties
<1> HIDE DEF s, m, n
<1>3. m \in 0..Len(s) /\ 0 + m <= Len(s) /\ 0 \in Nat /\ Len(s) - m = n
  BY <1>1, <1>2
<1>4. Part(s, 0, m) = a
  <2>1. Part(s, 0, m) \in Seq(S) /\ Len(Part(s, 0, m)) = m
        /\ \A j \in 1..m : Part(s, 0, m)[j] = s[0 + j]
    <3>1. s \in Seq(S) /\ 0 \in Nat /\ m \in Nat /\ 0 + m <= Len(s)
      BY <1>1, <1>2, <1>3
    <3> QED BY ONLY <3>1, PartType
  <2>2. ASSUME NEW j \in 1..m PROVE Part(s, 0, m)[j] = a[j]
    <3>1. 0 + j = j /\ j \in 1..(m + n) /\ j <= m
      BY <1>2
    <3> QED BY <1>1, <2>1, <3>1
  <2> QED BY <1>2, <2>1, <2>2, SeqEqual
<1>5. From(s, m) = b
  <2>1. From(s, m) \in Seq(S) /\ Len(From(s, m)) = n
        /\ \A j \in 1..n : From(s, m)[j] = s[m + j]
    BY <1>1, <1>3, FromType
  <2>2. ASSUME NEW j \in 1..n PROVE From(s, m)[j] = b[j]
    <3>1. m + j \in 1..(m + n) /\ ~(m + j <= m) /\ (m + j) - m = j
      BY <1>2
    <3> QED BY <1>1, <2>1, <3>1
  <2> QED BY <1>2, <2>1, <2>2, SeqEqual
<1> QED BY <1>4, <1>5 DEF s, m

(* And a sequence is what it is cut into.                                  *)
LEMMA CutApart ==
  ASSUME NEW S, NEW s \in Seq(S), NEW i \in 0..Len(s)
  PROVE  s = Part(s, 0, i) \o From(s, i)
<1>1. Len(s) \in Nat /\ i \in Nat /\ 0 + i <= Len(s) /\ 0 \in Nat
  BY LenProperties
<1> DEFINE a == Part(s, 0, i)
           b == From(s, i)
           t == a \o b
<1>2. a \in Seq(S) /\ Len(a) = i /\ \A j \in 1..i : a[j] = s[0 + j]
  BY <1>1, PartType
<1>3. b \in Seq(S) /\ Len(b) = Len(s) - i /\ \A j \in 1..(Len(s) - i) : b[j] = s[i + j]
  BY FromType
<1> HIDE DEF a, b
<1>4. t \in Seq(S) /\ Len(t) = Len(a) + Len(b)
      /\ \A j \in 1..(Len(a) + Len(b)) : t[j] = IF j <= Len(a) THEN a[j] ELSE b[j - Len(a)]
  BY <1>2, <1>3, ConcatProperties
<1> HIDE DEF t
<1>5. Len(t) = Len(s)
  BY <1>1, <1>2, <1>3, <1>4
<1>6. ASSUME NEW j \in 1..Len(s) PROVE t[j] = s[j]
  <2>1. ASSUME j <= i PROVE t[j] = s[j]
    BY <1>1, <1>2, <1>3, <1>4, <2>1
  <2>2. ASSUME ~ j <= i PROVE t[j] = s[j]
    <3>1. j - i \in 1..(Len(s) - i) /\ i + (j - i) = j
      BY <1>1, <2>2
    <3>2. t[j] = b[j - i]
      BY <1>1, <1>2, <1>3, <1>4, <2>2
    <3> QED BY <1>3, <3>1, <3>2
  <2> QED BY <2>1, <2>2
<1>7. s = t
  BY <1>4, <1>5, <1>6, SeqEqual
<1> QED BY <1>7 DEF t, a, b

(* A slice of what is left is a slice.                                     *)
LEMMA PartOfFrom ==
  ASSUME NEW S, NEW s \in Seq(S), NEW i \in Nat, NEW j \in Nat, NEW n \in Nat,
         i + j + n <= Len(s)
  PROVE  /\ Part(From(s, i), j, n) = Part(s, i + j, n)
         /\ From(From(s, i), j) = From(s, i + j)
<1>1. Len(s) \in Nat /\ i \in 0..Len(s) /\ i + j \in 0..Len(s) /\ j \in 0..(Len(s) - i) /\ j + n <= Len(s) - i
  BY LenProperties
<1> DEFINE t == From(s, i)
<1>2. t \in Seq(S) /\ Len(t) = Len(s) - i /\ \A k \in 1..(Len(s) - i) : t[k] = s[i + k]
  BY <1>1, FromType
<1> HIDE DEF t
<1>3. Part(t, j, n) = Part(s, i + j, n)
  <2>1. Part(t, j, n) \in Seq(S) /\ Len(Part(t, j, n)) = n /\ \A k \in 1..n : Part(t, j, n)[k] = t[j + k]
    <3>1. t \in Seq(S) /\ j \in Nat /\ n \in Nat /\ j + n <= Len(t)
      BY <1>1, <1>2
    <3> QED BY ONLY <3>1, PartType
  <2>2. Part(s, i + j, n) \in Seq(S) /\ Len(Part(s, i + j, n)) = n
        /\ \A k \in 1..n : Part(s, i + j, n)[k] = s[i + j + k]
    BY <1>1, PartType
  <2>3. ASSUME NEW k \in 1..n PROVE t[j + k] = s[i + j + k]
    <3>1. j + k \in 1..(Len(s) - i) /\ i + (j + k) = i + j + k
      BY <1>1
    <3> QED BY <1>2, <3>1
  <2> QED BY <2>1, <2>2, <2>3, SeqEqual
<1>4. From(t, j) = From(s, i + j)
  <2> DEFINE m == Len(s) - i - j
  <2>1. From(t, j) \in Seq(S) /\ Len(From(t, j)) = m /\ \A k \in 1..m : From(t, j)[k] = t[j + k]
    <3>1. j \in 0..Len(t) /\ Len(t) - j = m
      BY <1>1, <1>2
    <3> QED BY <1>2, <3>1, FromType
  <2>2. From(s, i + j) \in Seq(S) /\ Len(From(s, i + j)) = m
        /\ \A k \in 1..m : From(s, i + j)[k] = s[i + j + k]
    BY <1>1, FromType
  <2>3. ASSUME NEW k \in 1..m PROVE t[j + k] = s[i + j + k]
    <3>1. j + k \in 1..(Len(s) - i) /\ i + (j + k) = i + j + k
      BY <1>1
    <3> QED BY <1>2, <3>1
  <2> HIDE DEF m
  <2> QED BY <2>1, <2>2, <2>3, SeqEqual
<1> QED BY <1>3, <1>4 DEF t

(* What is left, when n are left, is the slice of n.                       *)
LEMMA FromIsPart ==
  ASSUME NEW S, NEW s \in Seq(S), NEW i \in Nat, NEW n \in Nat, Len(s) = i + n
  PROVE  From(s, i) = Part(s, i, n)
BY DEF From, Part

-----------------------------------------------------------------------------
(* Packets.                                                                *)

(* The octets of a packet.                                                 *)
Oct == 0..(Base - 1)

(* The octets of the fields are octets, and fields have their width.       *)
LEMMA SampleOctets ==
  /\ Seq(Sample) \subseteq Seq(Oct)
  /\ \A n \in Nat : /\ Octets(n) = [1..n -> Sample]
                    /\ Octets(n) \subseteq [1..n -> Oct]
                    /\ Octets(n) \subseteq Seq(Sample)
                    /\ Octets(n) \subseteq Seq(Oct)
                    /\ \A s \in Octets(n) : Len(s) = n
                    /\ \A s \in Seq(Sample) : Len(s) = n => s \in Octets(n)
<1>1. Sample \subseteq Oct
  BY WidthsAssumption DEF Oct
<1>2. Seq(Sample) \subseteq Seq(Oct)
  BY <1>1
<1>3. ASSUME NEW n \in Nat
      PROVE  /\ Octets(n) = [1..n -> Sample]
             /\ Octets(n) \subseteq [1..n -> Oct]
             /\ Octets(n) \subseteq Seq(Sample)
             /\ \A s \in Octets(n) : Len(s) = n
  BY <1>1 DEF Octets
<1>4. ASSUME NEW n \in Nat, NEW s \in Seq(Sample), Len(s) = n PROVE s \in Octets(n)
  BY <1>4, SeqAsFunction DEF Octets
<1> QED BY <1>2, <1>3, <1>4

(* The three fields of a hello, one behind the other.                      *)
LEMMA BodyApart ==
  ASSUME NEW d \in Seq(Oct), NEW i \in Nat, Len(d) = i + ClientBodyLen
  PROVE  From(d, i) = Part(d, i, U64Len) \o Part(d, i + U64Len, DigestLen)
                        \o Part(d, i + U64Len + DigestLen, PacketKeyLen)
<1> DEFINE j == i + U64Len
           k == i + U64Len + DigestLen
<1>1. U64Len \in Nat /\ DigestLen \in Nat /\ PacketKeyLen \in Nat
  BY WidthsAssumption
<1>2. j \in Nat /\ k \in Nat /\ i + U64Len = j /\ j + DigestLen = k
  BY <1>1
<1>3. Len(d) = k + PacketKeyLen
  BY <1>1 DEF ClientBodyLen
<1> HIDE DEF j, k
<1>4. ASSUME NEW x \in Nat, NEW n \in Nat, x + n <= Len(d)
      PROVE  /\ Part(d, x, n) \in Seq(Oct)
             /\ From(d, x + n) \in Seq(Oct)
             /\ From(d, x) = Part(d, x, n) \o From(d, x + n)
  <2>1. Len(d) \in Nat /\ x \in 0..Len(d) /\ x + n \in 0..Len(d) /\ n \in 0..(Len(d) - x)
    BY <1>4, LenProperties
  <2>2. Part(d, x, n) \in Seq(Oct) /\ From(d, x + n) \in Seq(Oct)
    BY <1>4, <2>1, PartType, FromType
  <2>3. From(d, x) \in Seq(Oct) /\ n \in 0..Len(From(d, x))
    BY <2>1, FromType
  <2>4. From(d, x) = Part(From(d, x), 0, n) \o From(From(d, x), n)
    BY <2>3, CutApart
  <2>5. x + 0 + n <= Len(d) /\ x + n + 0 <= Len(d) /\ 0 \in Nat /\ x + 0 = x
    BY <1>4
  <2>6. Part(From(d, x), 0, n) = Part(d, x + 0, n)
    BY <2>5, PartOfFrom
  <2>7. From(From(d, x), n) = From(d, x + n)
    BY <2>5, PartOfFrom
  <2> QED BY <2>2, <2>4, <2>5, <2>6, <2>7
<1>5. From(d, i) = Part(d, i, U64Len) \o From(d, j) /\ Part(d, i, U64Len) \in Seq(Oct)
  <2>1. i + U64Len <= Len(d)
    BY <1>1, <1>2, <1>3
  <2> QED BY <1>1, <1>2, <1>4, <2>1
<1>6. From(d, j) = Part(d, j, DigestLen) \o From(d, k) /\ Part(d, j, DigestLen) \in Seq(Oct)
      /\ From(d, k) \in Seq(Oct)
  <2>1. j + DigestLen <= Len(d)
    BY <1>1, <1>2, <1>3
  <2> QED BY <1>1, <1>2, <1>4, <2>1
<1>7. From(d, k) = Part(d, k, PacketKeyLen)
  BY <1>1, <1>2, <1>3, FromIsPart
<1> DEFINE o == Part(d, i, U64Len)
           dg == Part(d, j, DigestLen)
           pk == From(d, k)
<1>8. o \in Seq(Oct) /\ dg \in Seq(Oct) /\ pk \in Seq(Oct)
  BY <1>5, <1>6
<1>9. From(d, i) = o \o (dg \o pk)
  BY <1>5, <1>6
<1> HIDE DEF o, dg, pk
<1>10. o \o (dg \o pk) = o \o dg \o pk
  BY <1>8, ConcatAssociative, SMTT(30)
<1>11. From(d, i) = o \o dg \o pk
  BY <1>9, <1>10
<1> QED BY <1>7, <1>11 DEF o, dg, pk, j, k

(* The three fields of a client's body are where it is cut.                *)
LEMMA BodyBack ==
  ASSUME NEW d \in Seq(Oct), NEW i \in Nat, Len(d) = i + ClientBodyLen,
         NEW o \in Seq(Oct), NEW dg \in Seq(Oct), NEW pk \in Seq(Oct),
         Len(o) = U64Len, Len(dg) = DigestLen, Len(pk) = PacketKeyLen,
         From(d, i) = o \o dg \o pk
  PROVE  /\ o = Part(d, i, U64Len)
         /\ dg = Part(d, i + U64Len, DigestLen)
         /\ pk = Part(d, i + U64Len + DigestLen, PacketKeyLen)
<1> DEFINE j == i + U64Len
           k == i + U64Len + DigestLen
           r == dg \o pk
<1>1. U64Len \in Nat /\ DigestLen \in Nat /\ PacketKeyLen \in Nat
  BY WidthsAssumption
<1>2. j \in Nat /\ k \in Nat /\ i + U64Len = j /\ j + DigestLen = k
  BY <1>1
<1>3. Len(d) = k + PacketKeyLen
  BY <1>1 DEF ClientBodyLen
<1>4. r \in Seq(Oct)
  BY ConcatProperties
<1>5. From(d, i) = o \o r
  <2>1. (o \o dg) \o pk = o \o (dg \o pk)
    <3>1. o \in Seq(Oct) /\ dg \in Seq(Oct) /\ pk \in Seq(Oct)
      OBVIOUS
    <3> HIDE DEF r
    <3> QED BY ONLY <3>1, ConcatAssociative
  <2> QED BY <2>1
<1>6. Part(r, 0, DigestLen) = dg /\ From(r, DigestLen) = pk
  BY CutBack
<1> HIDE DEF j, k, r
<1>7. Part(o \o r, 0, U64Len) = o /\ From(o \o r, U64Len) = r
  BY <1>4, CutBack
<1>8. Part(From(d, i), 0, U64Len) = o /\ From(From(d, i), U64Len) = r
  BY <1>5, <1>7
<1>13. ASSUME NEW x \in Nat, NEW n \in Nat, x + n <= Len(d)
       PROVE  Part(From(d, x), 0, n) = Part(d, x, n) /\ From(From(d, x), n) = From(d, x + n)
  <2>1. x + 0 + n <= Len(d) /\ x + n + 0 <= Len(d) /\ 0 \in Nat /\ x + 0 = x
    BY <1>13
  <2>2. Part(From(d, x), 0, n) = Part(d, x + 0, n)
    BY <2>1, PartOfFrom
  <2>3. From(From(d, x), n) = From(d, x + n)
    BY <2>1, PartOfFrom
  <2> QED BY <2>1, <2>2, <2>3
<1>9. Part(From(d, i), 0, U64Len) = Part(d, i, U64Len) /\ From(From(d, i), U64Len) = From(d, j)
  <2>1. i + U64Len <= Len(d)
    BY <1>1, <1>2, <1>3
  <2> QED BY <1>1, <1>2, <1>13, <2>1
<1>10. Part(From(d, j), 0, DigestLen) = Part(d, j, DigestLen)
       /\ From(From(d, j), DigestLen) = From(d, k)
  <2>1. j + DigestLen <= Len(d)
    BY <1>1, <1>2, <1>3
  <2> QED BY <1>1, <1>2, <1>13, <2>1
<1>11. From(d, k) = Part(d, k, PacketKeyLen)
  BY <1>1, <1>2, <1>3, FromIsPart
<1>12. o = Part(d, i, U64Len) /\ dg = Part(d, j, DigestLen) /\ pk = Part(d, k, PacketKeyLen)
  BY <1>6, <1>8, <1>9, <1>10, <1>11
<1> QED BY <1>12 DEF j, k

(* The slices that Hellos takes.                                           *)
LEMMA BodyParts ==
  ASSUME NEW d \in Seq(Sample), NEW i \in Nat, Len(d) = i + ClientBodyLen
  PROVE  /\ Part(d, i, U64Len) \in Octets(U64Len)
         /\ Part(d, i + U64Len, DigestLen) \in Octets(DigestLen)
         /\ Part(d, i + U64Len + DigestLen, PacketKeyLen) \in Octets(PacketKeyLen)
<1>1. U64Len \in Nat /\ DigestLen \in Nat /\ PacketKeyLen \in Nat
  BY WidthsAssumption
<1>2. /\ i + U64Len <= Len(d)
      /\ i + U64Len \in Nat /\ i + U64Len + DigestLen <= Len(d)
      /\ i + U64Len + DigestLen \in Nat /\ i + U64Len + DigestLen + PacketKeyLen <= Len(d)
  BY <1>1 DEF ClientBodyLen
<1> QED BY <1>1, <1>2, PartType DEF Octets

(* The number that octets are read as has these octets.                    *)
LEMMA UniqueBack ==
  ASSUME NEW o \in [1..U64Len -> Oct]
  PROVE  U64Octets(TakeU64(o)) = o
<1>1. Base \in Nat \ {0} /\ U64Len \in Nat
  BY WidthsAssumption
<1> QED BY <1>1, DigitsBack DEF U64Octets, TakeU64, Oct

(* A hello has one body, and a body is read as the one hello.              *)
LEMMA HelloBody ==
  ASSUME NEW d \in Seq(Sample), NEW i \in Nat, Len(d) = i + ClientBodyLen,
         NEW type, NEW sigs, NEW sig \in sigs
  PROVE  /\ Hellos(type, sig, d, i) \in HelloPackets(type, sigs)
         /\ \A p \in HelloPackets(type, sigs) :
              EncodeClientHello(p) = From(d, i) /\ p.sig = sig <=> p = Hellos(type, sig, d, i)
<1> DEFINE o == Part(d, i, U64Len)
           dg == Part(d, i + U64Len, DigestLen)
           pk == Part(d, i + U64Len + DigestLen, PacketKeyLen)
<1>1. o \in Octets(U64Len) /\ dg \in Octets(DigestLen) /\ pk \in Octets(PacketKeyLen)
  BY BodyParts
<1>2. Hellos(type, sig, d, i) =
        [type |-> type, sig |-> sig, unique |-> TakeU64(o), digest |-> dg, packetKey |-> pk]
  BY DEF Hellos
<1>3. d \in Seq(Oct)
  BY SampleOctets
<1>4. U64Len \in Nat /\ DigestLen \in Nat /\ PacketKeyLen \in Nat
  BY WidthsAssumption
<1>5. ASSUME NEW x \in Octets(U64Len), NEW y \in Octets(DigestLen), NEW z \in Octets(PacketKeyLen)
      PROVE  From(d, i) = x \o y \o z <=> x = o /\ y = dg /\ z = pk
  <2>1. /\ x \in Seq(Oct) /\ y \in Seq(Oct) /\ z \in Seq(Oct)
        /\ Len(x) = U64Len /\ Len(y) = DigestLen /\ Len(z) = PacketKeyLen
    BY <1>4, SampleOctets
  <2>2. From(d, i) = x \o y \o z => x = o /\ y = dg /\ z = pk
    BY <1>3, <2>1, BodyBack
  <2>3. From(d, i) = o \o dg \o pk
    BY <1>3, BodyApart
  <2> HIDE DEF o, dg, pk
  <2> QED BY <2>2, <2>3
<1> HIDE DEF o, dg, pk
<1>6. Hellos(type, sig, d, i) \in HelloPackets(type, sigs)
  BY <1>1, <1>2 DEF HelloPackets, Uniques
<1>7. ASSUME NEW p \in HelloPackets(type, sigs)
      PROVE  EncodeClientHello(p) = From(d, i) /\ p.sig = sig <=> p = Hellos(type, sig, d, i)
  <2>1. PICK x \in Octets(U64Len) : p.unique = TakeU64(x)
    BY DEF HelloPackets, Uniques
  <2>2. U64Octets(p.unique) = x
    BY <1>4, <2>1, SampleOctets, UniqueBack
  <2>3. p.digest \in Octets(DigestLen) /\ p.packetKey \in Octets(PacketKeyLen)
    BY DEF HelloPackets
  <2>4. EncodeClientHello(p) = From(d, i) <=> x = o /\ p.digest = dg /\ p.packetKey = pk
    BY <1>5, <2>2, <2>3 DEF EncodeClientHello
  <2>5. x = o <=> p.unique = TakeU64(o)
    <3>1. U64Octets(TakeU64(o)) = o
      BY <1>1, <1>4, SampleOctets, UniqueBack
    <3> QED BY <2>1, <2>2, <3>1
  <2>6. p = Hellos(type, sig, d, i) <=>
          p.sig = sig /\ p.unique = TakeU64(o) /\ p.digest = dg /\ p.packetKey = pk
    <3>1. p = [type |-> type, sig |-> p.sig, unique |-> p.unique,
               digest |-> p.digest, packetKey |-> p.packetKey]
      BY DEF HelloPackets
    <3> QED BY <1>2, <3>1
  <2> QED BY <2>4, <2>5, <2>6
<1> QED BY <1>6, <1>7

(* One sequence behind the other; a name of its own keeps the provers from *)
(* comparing sequences element by element.                                 *)
Cat(a, b) == a \o b

(* What is written in parts may be put together in any order.              *)
LEMMA ThreeParts ==
  ASSUME NEW S, NEW a \in Seq(S), NEW b \in Seq(S), NEW c \in Seq(S), NEW e \in Seq(S)
  PROVE  /\ Cat(Cat(a, b), c) = Cat(a, Cat(b, c))
         /\ Cat(Cat(Cat(a, b), c), e) = Cat(a, Cat(Cat(b, c), e))
<1>1. (a \o b) \o c = a \o (b \o c)
  BY ConcatAssociative
<1> DEFINE f == b \o c
<1>2. f \in Seq(S)
  BY ConcatProperties
<1> HIDE DEF f
<1>3. (a \o f) \o e = a \o (f \o e)
  BY <1>2, ConcatAssociative
<1> QED BY <1>1, <1>3 DEF f, Cat

(* What a hello is written as, behind its signature or its magic.          *)
LEMMA BodyWritten ==
  ASSUME NEW type, NEW sigs, NEW p \in HelloPackets(type, sigs)
  PROVE  /\ EncodeClientHello(p) \in Seq(Sample)
         /\ Len(EncodeClientHello(p)) = ClientBodyLen
         /\ U64Octets(p.unique) \in Seq(Oct) /\ p.digest \in Seq(Oct) /\ p.packetKey \in Seq(Oct)
<1>1. U64Len \in Nat /\ DigestLen \in Nat /\ PacketKeyLen \in Nat
  BY WidthsAssumption
<1>2. PICK x \in Octets(U64Len) : p.unique = TakeU64(x)
  BY DEF HelloPackets, Uniques
<1>3. U64Octets(p.unique) = x
  BY <1>1, <1>2, SampleOctets, UniqueBack
<1> DEFINE y == p.digest
           z == p.packetKey
<1>4. y \in Octets(DigestLen) /\ z \in Octets(PacketKeyLen)
  BY DEF HelloPackets
<1> HIDE DEF y, z
<1>5. /\ x \in Seq(Sample) /\ Len(x) = U64Len /\ x \in Seq(Oct)
      /\ y \in Seq(Sample) /\ Len(y) = DigestLen /\ y \in Seq(Oct)
      /\ z \in Seq(Sample) /\ Len(z) = PacketKeyLen /\ z \in Seq(Oct)
  BY <1>1, <1>4, SampleOctets
<1> DEFINE v == x \o y
           w == v \o z
<1>6. v \in Seq(Sample) /\ Len(v) = U64Len + DigestLen
  BY <1>5, ConcatProperties
<1> HIDE DEF v
<1>7. w \in Seq(Sample) /\ Len(w) = ClientBodyLen
  <2>1. w \in Seq(Sample) /\ Len(w) = Len(v) + Len(z)
    BY ONLY <1>5, <1>6, ConcatProperties
  <2> HIDE DEF w
  <2> QED BY <1>1, <1>5, <1>6, <2>1 DEF ClientBodyLen
<1>8. EncodeClientHello(p) = w
  BY <1>3 DEF EncodeClientHello, v, w, y, z
<1> HIDE DEF w
<1> QED BY <1>3, <1>5, <1>7, <1>8 DEF y, z

(* To find a prefix of a known length and what follows it.                 *)
LEMMA Prefixed ==
  ASSUME NEW S, NEW d \in Seq(S), NEW a \in Seq(S), NEW b \in Seq(S)
  PROVE  Cat(a, b) = d <=> /\ Len(d) = Len(a) + Len(b)
                           /\ Part(d, 0, Len(a)) = a /\ From(d, Len(a)) = b
<1> DEFINE s == a \o b
<1>1. s \in Seq(S) /\ Len(s) = Len(a) + Len(b)
  BY ConcatProperties
<1>2. Part(s, 0, Len(a)) = a /\ From(s, Len(a)) = b
  BY CutBack
<1> DEFINE m == Len(a)
           n == Len(b)
<1>3. m \in Nat /\ n \in Nat
  BY LenProperties
<1>4. ASSUME Len(d) = m + n, Part(d, 0, m) = a, From(d, m) = b PROVE s = d
  <2> HIDE DEF s, m, n
  <2>1. m \in 0..Len(d)
    BY <1>3, <1>4
  <2>2. d = Part(d, 0, m) \o From(d, m)
    BY <2>1, CutApart
  <2> QED BY <1>4, <2>2 DEF s
<1> HIDE DEF s
<1>5. s = d <=> Len(d) = Len(a) + Len(b) /\ Part(d, 0, Len(a)) = a /\ From(d, Len(a)) = b
  BY <1>1, <1>2, <1>4 DEF m, n
<1> QED BY <1>5 DEF s, Cat

(* A ClientHello, its type left out.                                       *)
LEMMA ClientHelloRead ==
  ASSUME NEW d \in Seq(Sample), NEW insecure \in BOOLEAN
  PROVE  DecodeClientHello(d, insecure) =
           {p \in HelloPackets("ClientHello", Octets(ConnSignatureLen(insecure))) :
              p.sig \o EncodeClientHello(p) = d}
<1> DEFINE n == ConnSignatureLen(insecure)
           sigs == Octets(n)
           H == HelloPackets("ClientHello", sigs)
<1>1. n \in Nat /\ ClientBodyLen \in Nat
  BY WidthsAssumption DEF ConnSignatureLen, ClientBodyLen
<1>2. Len(d) \in Nat
  BY LenProperties
<1> HIDE DEF n
<1>3. ASSUME NEW p \in H
      PROVE  p.sig \o EncodeClientHello(p) = d <=>
               Len(d) = n + ClientBodyLen /\ Part(d, 0, n) = p.sig /\ From(d, n) = EncodeClientHello(p)
  <2>1. p.sig \in Octets(n)
    BY DEF HelloPackets
  <2>2. p.sig \in Seq(Sample) /\ Len(p.sig) = n
    BY <1>1, <2>1, SampleOctets
  <2>3. EncodeClientHello(p) \in Seq(Sample) /\ Len(EncodeClientHello(p)) = ClientBodyLen
    BY BodyWritten
  <2> DEFINE a == p.sig
             b == EncodeClientHello(p)
  <2> HIDE DEF a, b
  <2>4. a \in Seq(Sample) /\ Len(a) = n /\ b \in Seq(Sample) /\ Len(b) = ClientBodyLen
    BY <2>2, <2>3 DEF a, b
  <2>5. Cat(a, b) = d <=> Len(d) = Len(a) + Len(b) /\ Part(d, 0, Len(a)) = a /\ From(d, Len(a)) = b
    BY <2>4, Prefixed
  <2> QED BY <2>4, <2>5 DEF a, b, Cat
<1>4. CASE Len(d) = n + ClientBodyLen
  <2> DEFINE sig == Part(d, 0, n)
             q == Hellos("ClientHello", sig, d, n)
  <2>1. 0 + n <= Len(d) /\ 0 \in Nat /\ n \in 0..Len(d)
    BY <1>1, <1>2, <1>4
  <2>2. sig \in sigs
    BY <1>1, <2>1, PartType DEF Octets
  <2>3. q \in H /\ \A p \in H : EncodeClientHello(p) = From(d, n) /\ p.sig = sig <=> p = q
    BY <1>1, <1>4, <2>2, HelloBody
  <2>4. Len(From(d, n)) = ClientBodyLen
    BY <1>1, <1>4, <2>1, FromType
  <2>5. DecodeClientHello(d, insecure) = {q}
    BY <2>1, <2>4 DEF DecodeClientHello, Exactly, n
  <2> HIDE DEF q, sig
  <2>6. \A p \in H : p.sig \o EncodeClientHello(p) = d <=> p = q
    BY <1>3, <1>4, <2>3 DEF sig
  <2> HIDE DEF H
  <2>7. {p \in H : p.sig \o EncodeClientHello(p) = d} = {q}
    BY <2>3, <2>6
  <2> QED BY <2>5, <2>7 DEF H, n
<1>5. CASE Len(d) # n + ClientBodyLen
  <2>1. \A p \in H : ~(p.sig \o EncodeClientHello(p) = d)
    BY <1>3, <1>5
  <2>2. DecodeClientHello(d, insecure) = {}
    <3>1. ASSUME Len(d) >= n PROVE Len(From(d, n)) # ClientBodyLen
      <4>1. n \in 0..Len(d)
        BY <1>1, <1>2, <3>1
      <4>2. Len(From(d, n)) = Len(d) - n
        BY <4>1, FromType
      <4> QED BY <1>1, <1>2, <1>5, <4>2
    <3> QED BY <3>1 DEF DecodeClientHello, Exactly, n
  <2> HIDE DEF H
  <2>3. {p \in H : p.sig \o EncodeClientHello(p) = d} = {}
    BY <2>1
  <2> QED BY <2>2, <2>3 DEF H, n
<1> QED BY <1>4, <1>5

(* A ServerHello is decoded from just the octets it is encoded to.         *)
LEMMA ServerHelloRead ==
  ASSUME NEW d \in Seq(Sample)
  PROVE  DecodeServerHello(d) =
           {p \in HelloPackets("ServerHello", {<<>>}) : EncodeServerHello(p) = d}
<1> DEFINE m == Len(HelloMagic)
           pre == HelloMagic \o <<HelloVersion>>
           H == HelloPackets("ServerHello", {<<>>})
<1>1. ClientBodyLen \in Nat /\ HelloMagic \in Seq(Oct) /\ HelloVersion \in Oct
  BY WidthsAssumption DEF ClientBodyLen, Oct
<1>2. m \in Nat /\ Len(d) \in Nat /\ <<HelloVersion>> \in Seq(Oct) /\ d \in Seq(Oct)
  BY <1>1, LenProperties, SampleOctets
<1>3. /\ pre \in Seq(Oct) /\ Len(pre) = m + 1
      /\ \A i \in 1..m : pre[i] = HelloMagic[i]
      /\ pre[m + 1] = HelloVersion
  <2> DEFINE v == <<HelloVersion>>
  <2>1. v \in Seq(Oct) /\ Len(v) = 1 /\ v[1] = HelloVersion
    BY <1>2
  <2> HIDE DEF v
  <2>2. pre = HelloMagic \o v
    BY DEF v
  <2>3. /\ HelloMagic \o v \in Seq(Oct) /\ Len(HelloMagic \o v) = m + 1
        /\ \A i \in 1..(m + 1) : (HelloMagic \o v)[i] = IF i <= m THEN HelloMagic[i] ELSE v[i - m]
    <3>1. HelloMagic \in Seq(Oct)
      BY <1>1
    <3>2. /\ HelloMagic \o v \in Seq(Oct) /\ Len(HelloMagic \o v) = Len(HelloMagic) + Len(v)
          /\ \A i \in 1..(Len(HelloMagic) + Len(v)) :
               (HelloMagic \o v)[i] = IF i <= Len(HelloMagic) THEN HelloMagic[i] ELSE v[i - Len(HelloMagic)]
      BY ONLY <2>1, <3>1, ConcatProperties
    <3> QED BY ONLY <2>1, <3>2
  <2> HIDE DEF pre, m
  <2>4. (m + 1) - m = 1 /\ m + 1 \in 1..(m + 1) /\ ~(m + 1 <= m)
    BY <1>2
  <2>5. pre[m + 1] = HelloVersion
    BY <2>1, <2>2, <2>3, <2>4
  <2>6. \A i \in 1..m : pre[i] = HelloMagic[i]
    BY <1>2, <2>2, <2>3
  <2> QED BY <2>2, <2>3, <2>5, <2>6
<1> HIDE DEF pre
<1>4. ASSUME NEW p \in H
      PROVE  EncodeServerHello(p) = d <=>
               /\ Len(d) = m + 1 + ClientBodyLen
               /\ Part(d, 0, m + 1) = pre /\ From(d, m + 1) = EncodeClientHello(p)
  <2> DEFINE e == EncodeClientHello(p)
             o == U64Octets(p.unique)
             dg == p.digest
             pk == p.packetKey
  <2>1. e \in Seq(Sample) /\ Len(e) = ClientBodyLen
        /\ o \in Seq(Oct) /\ dg \in Seq(Oct) /\ pk \in Seq(Oct)
    BY BodyWritten
  <2>2. e \in Seq(Oct)
    BY <2>1, SampleOctets
  <2>3. e = (o \o dg) \o pk
    BY DEF EncodeClientHello
  <2>4. EncodeServerHello(p) = ((pre \o o) \o dg) \o pk
    BY DEF EncodeServerHello, pre
  <2> HIDE DEF e, o, dg, pk
  <2>5. Cat(Cat(Cat(pre, o), dg), pk) = Cat(pre, Cat(Cat(o, dg), pk))
    <3>1. pre \in Seq(Oct) /\ o \in Seq(Oct) /\ dg \in Seq(Oct) /\ pk \in Seq(Oct)
      BY <1>3, <2>1 DEF o, dg, pk
    <3> QED BY ONLY <3>1, ThreeParts
  <2>6. EncodeServerHello(p) = Cat(pre, e)
    BY <2>3, <2>4, <2>5 DEF Cat
  <2>7. Cat(pre, e) = d <=> /\ Len(d) = Len(pre) + Len(e)
                         /\ Part(d, 0, Len(pre)) = pre /\ From(d, Len(pre)) = e
    <3>1. pre \in Seq(Oct) /\ e \in Seq(Oct) /\ d \in Seq(Oct)
      BY <1>2, <1>3, <2>2 DEF e
    <3> QED BY ONLY <3>1, Prefixed
  <2> QED BY <1>3, <2>1, <2>6, <2>7 DEF e
<1>5. ASSUME Len(d) = m + 1 + ClientBodyLen
      PROVE  Part(d, 0, m + 1) = pre <=> Part(d, 0, m) = HelloMagic /\ d[m + 1] = HelloVersion
  <2> HIDE DEF m
  <2>1. 0 + m <= Len(d) /\ 0 + (m + 1) <= Len(d) /\ 0 \in Nat /\ m + 1 \in Nat
    BY <1>1, <1>2, <1>5
  <2> DEFINE a == Part(d, 0, m)
             b == Part(d, 0, m + 1)
  <2>2. a \in Seq(Oct) /\ Len(a) = m /\ \A i \in 1..m : a[i] = d[0 + i]
    <3>1. d \in Seq(Oct) /\ m \in Nat
      BY <1>2
    <3> QED BY ONLY <2>1, <3>1, PartType
  <2>3. b \in Seq(Oct) /\ Len(b) = m + 1 /\ \A i \in 1..(m + 1) : b[i] = d[0 + i]
    <3>1. d \in Seq(Oct) /\ m + 1 \in Nat
      BY <1>2, <2>1
    <3>2. \A k \in Nat : 0 + k <= Len(d) =>
             Part(d, 0, k) \in Seq(Oct) /\ Len(Part(d, 0, k)) = k
             /\ \A i \in 1..k : Part(d, 0, k)[i] = d[0 + i]
      BY ONLY <2>1, <3>1, PartType
    <3> QED BY <2>1, <3>1, <3>2
  <2> HIDE DEF a, b
  <2>4. ASSUME b = pre PROVE a = HelloMagic /\ d[m + 1] = HelloVersion
    <3>1. \A i \in 1..m : a[i] = HelloMagic[i]
      BY <1>2, <1>3, <2>2, <2>3, <2>4
    <3>2. m = Len(HelloMagic)
      BY DEF m
    <3>3. a = HelloMagic
      BY <1>1, <2>2, <3>1, <3>2, SeqEqual
    <3>4. b[m + 1] = d[m + 1]
      BY <1>2, <2>3
    <3> QED BY <1>3, <2>4, <3>3, <3>4
  <2>5. ASSUME a = HelloMagic, d[m + 1] = HelloVersion PROVE b = pre
    <3>1. ASSUME NEW i \in 1..(m + 1) PROVE b[i] = pre[i]
      <4>1. CASE i = m + 1
        BY <1>2, <1>3, <2>3, <2>5, <4>1
      <4>2. CASE i # m + 1
        <5>1. i \in 1..m /\ 0 + i = i
          BY <1>2, <4>2
        <5> QED BY <1>3, <2>2, <2>3, <2>5, <5>1
      <4> QED BY <4>1, <4>2
    <3> QED BY <1>3, <2>3, <3>1, SeqEqual
  <2> QED BY <2>4, <2>5 DEF a, b
<1>6. CASE /\ Len(d) = m + 1 + ClientBodyLen /\ Part(d, 0, m) = HelloMagic /\ d[m + 1] = HelloVersion
  <2> DEFINE q == Hellos("ServerHello", <<>>, d, m + 1)
  <2>1. q \in H /\ \A p \in H : EncodeClientHello(p) = From(d, m + 1) /\ p.sig = <<>> <=> p = q
    <3>1. m + 1 \in Nat
      BY <1>2
    <3> HIDE DEF m
    <3> QED BY <1>6, <3>1, HelloBody
  <2>2. \A p \in H : p.sig = <<>>
    BY DEF HelloPackets
  <2>3. DecodeServerHello(d) = {q}
    BY <1>6 DEF DecodeServerHello, Exactly, HelloVersionKnown
  <2> HIDE DEF q, H, m
  <2>4. \A p \in H : EncodeServerHello(p) = d <=> p = q
    BY <1>4, <1>5, <1>6, <2>1, <2>2
  <2>5. {p \in H : EncodeServerHello(p) = d} = {q}
    BY <2>1, <2>4
  <2> QED BY <2>3, <2>5 DEF H
<1>7. CASE ~(/\ Len(d) = m + 1 + ClientBodyLen /\ Part(d, 0, m) = HelloMagic /\ d[m + 1] = HelloVersion)
  <2>1. DecodeServerHello(d) = {}
    BY <1>7 DEF DecodeServerHello, Exactly, HelloVersionKnown
  <2> HIDE DEF H, m
  <2>2. \A p \in H : ~(EncodeServerHello(p) = d)
    BY <1>4, <1>5, <1>7
  <2>3. {p \in H : EncodeServerHello(p) = d} = {}
    BY <2>2
  <2> QED BY <2>1, <2>3 DEF H
<1> QED BY <1>6, <1>7

(* And a ServerComplete.                                                   *)
LEMMA ServerCompleteRead ==
  ASSUME NEW d \in Seq(Sample), NEW insecure \in BOOLEAN
  PROVE  DecodeServerComplete(d, insecure) =
           {p \in [type : {"ServerComplete"}, sig : Octets(ConnSignatureLen(insecure))] : p.sig = d}
<1> DEFINE n == ConnSignatureLen(insecure)
           q == [type |-> "ServerComplete", sig |-> d]
           P == [type : {"ServerComplete"}, sig : Octets(n)]
<1>1. n \in Nat
  BY WidthsAssumption DEF ConnSignatureLen
<1> HIDE DEF n
<1>2. d \in Octets(n) <=> Len(d) = n
  BY <1>1, SampleOctets
<1>3. DecodeServerComplete(d, insecure) = IF Len(d) = n THEN {q} ELSE {}
  BY DEF DecodeServerComplete, Exactly, n
<1>4. \A p \in P : p.sig = d <=> p = q
  <2>1. \A p \in P : p = [type |-> "ServerComplete", sig |-> p.sig]
    OBVIOUS
  <2> QED BY <2>1
<1>5. q \in P <=> d \in Octets(n)
  <2>1. q.sig = d
    OBVIOUS
  <2> QED BY <2>1
<1> HIDE DEF P, q
<1>6. {p \in P : p.sig = d} = IF q \in P THEN {q} ELSE {}
  BY <1>4
<1> QED BY <1>2, <1>3, <1>5, <1>6 DEF P, n

(* A slice of no length is empty, whatever the length below 0.             *)
LEMMA NoOctets ==
  ASSUME NEW n \in Int, n < 0
  PROVE  Octets(n) = Octets(0)
<1>1. 1..n = 1..0
  OBVIOUS
<1> QED BY <1>1 DEF Octets

(* And an EncryptedPayload.                                                *)
LEMMA PayloadRead ==
  ASSUME NEW d \in Seq(Sample)
  PROVE  DecodePayload(d) =
           {p \in [type : {"Payload"}, sig : Octets(EdSigLen), data : Octets(Len(d) - EdSigLen)] :
              Cat(p.sig, p.data) = d}
<1> DEFINE n == Len(d) - EdSigLen
           P == [type : {"Payload"}, sig : Octets(EdSigLen), data : Octets(n)]
<1>1. Len(d) \in Nat /\ EdSigLen \in Nat /\ n \in Int
  BY WidthsAssumption, LenProperties
<1>2. CASE Len(d) < EdSigLen
  <2>1. n < 0
    BY <1>1, <1>2
  <2>2. Octets(n) = Octets(0)
    BY <1>1, <2>1, NoOctets
  <2>3. ASSUME NEW p \in P PROVE Cat(p.sig, p.data) # d
    <3> DEFINE a == p.sig
               b == p.data
    <3>1. a \in Octets(EdSigLen) /\ b \in Octets(0)
      BY <2>2
    <3> HIDE DEF a, b
    <3>2. a \in Seq(Sample) /\ Len(a) = EdSigLen /\ b \in Seq(Sample) /\ Len(b) = 0
      BY <1>1, <3>1, SampleOctets
    <3>3. Cat(a, b) = d => Len(d) = Len(a) + Len(b)
      <4>1. a \in Seq(Sample) /\ b \in Seq(Sample) /\ d \in Seq(Sample)
        BY <3>2
      <4> QED BY ONLY <4>1, Prefixed
    <3>4. Cat(a, b) # d
      BY <1>1, <1>2, <3>2, <3>3
    <3> QED BY <3>4 DEF a, b
  <2>4. DecodePayload(d) = {}
    BY <1>1, <1>2 DEF DecodePayload
  <2> HIDE DEF P
  <2>5. {p \in P : Cat(p.sig, p.data) = d} = {}
    BY <2>3
  <2> QED BY <2>4, <2>5 DEF P, n
<1>3. CASE Len(d) >= EdSigLen
  <2> DEFINE x == Part(d, 0, EdSigLen)
             y == From(d, EdSigLen)
             q == [type |-> "Payload", sig |-> x, data |-> y]
  <2>0. n \in Nat /\ 0 + EdSigLen <= Len(d) /\ 0 \in Nat /\ EdSigLen \in 0..Len(d)
    BY <1>1, <1>3
  <2>1. x \in Octets(EdSigLen) /\ y \in Octets(n)
    <3>1. x \in [1..EdSigLen -> Sample]
      BY <1>1, <2>0, PartType
    <3>2. y \in [1..n -> Sample]
      BY <2>0, FromType
    <3> QED BY <3>1, <3>2 DEF Octets
  <2>2. DecodePayload(d) = {q}
    BY <1>1, <1>3 DEF DecodePayload
  <2> HIDE DEF x, y
  <2>3. q \in P
    BY <2>1
  <2>4. ASSUME NEW p \in P PROVE Cat(p.sig, p.data) = d <=> p = q
    <3> DEFINE a == p.sig
               b == p.data
    <3>1. a \in Octets(EdSigLen) /\ b \in Octets(n)
      OBVIOUS
    <3>2. p = q <=> a = x /\ b = y
      <4>1. p = [type |-> "Payload", sig |-> a, data |-> b]
        OBVIOUS
      <4> HIDE DEF a, b
      <4> QED BY <4>1
    <3> HIDE DEF a, b, n
    <3>3. a \in Seq(Sample) /\ Len(a) = EdSigLen /\ b \in Seq(Sample) /\ Len(b) = n
      BY <1>1, <2>0, <3>1, SampleOctets
    <3>4. Cat(a, b) = d <=> /\ Len(d) = Len(a) + Len(b)
                            /\ Part(d, 0, Len(a)) = a /\ From(d, Len(a)) = b
      BY <3>3, Prefixed
    <3>5. Len(d) = EdSigLen + n
      BY <1>1, <2>0 DEF n
    <3>6. Cat(a, b) = d <=> a = x /\ b = y
      BY <3>3, <3>4, <3>5 DEF x, y
    <3> QED BY <3>2, <3>6 DEF a, b
  <2> HIDE DEF P, q
  <2>5. {p \in P : Cat(p.sig, p.data) = d} = {q}
    BY <2>3, <2>4
  <2> QED BY <2>2, <2>5 DEF P, n
<1> QED BY <1>1, <1>2, <1>3

(* And a ServerPubkey.                                                     *)
LEMMA ServerPubkeyRead ==
  ASSUME NEW d \in Seq(Sample)
  PROVE  {[type |-> "ServerPubkey", key |-> d]} =
           {p \in [type : {"ServerPubkey"}, key : Octets(Len(d))] : p.key = d}
<1> DEFINE q == [type |-> "ServerPubkey", key |-> d]
           P == [type : {"ServerPubkey"}, key : Octets(Len(d))]
<1>1. Len(d) \in Nat
  BY LenProperties
<1>2. d \in Octets(Len(d))
  BY <1>1, SampleOctets
<1>3. \A p \in P : p.key = d <=> p = q
  <2>1. \A p \in P : p = [type |-> "ServerPubkey", key |-> p.key]
    OBVIOUS
  <2> QED BY <2>1
<1>4. q \in P
  BY <1>2
<1> HIDE DEF P, q
<1>5. {p \in P : p.key = d} = {q}
  BY <1>3, <1>4
<1> QED BY <1>5 DEF P, q

(* Octets are numbers.                                                     *)
LEMMA OctetsAreNumbers ==
  Seq(Oct) \subseteq Seq(Nat) /\ Seq(Sample) \subseteq Seq(Nat)
<1>1. Oct \subseteq Nat /\ Sample \subseteq Nat
  BY WidthsAssumption DEF Oct
<1>2. ASSUME NEW S, NEW T, S \subseteq T PROVE Seq(S) \subseteq Seq(T)
  BY <1>2
<1> QED BY <1>1, <1>2

(* What is written of a ServerHello is a sequence of numbers.              *)
LEMMA ServerHelloType ==
  ASSUME NEW p \in HelloPackets("ServerHello", {<<>>})
  PROVE  EncodeServerHello(p) \in Seq(Nat)
<1> DEFINE o == U64Octets(p.unique)
           dg == p.digest
           pk == p.packetKey
           v == <<HelloVersion>>
           hm == HelloMagic
<1>1. o \in Seq(Oct) /\ dg \in Seq(Oct) /\ pk \in Seq(Oct)
  BY BodyWritten
<1>2. hm \in Seq(Oct) /\ v \in Seq(Oct)
  BY WidthsAssumption DEF Oct
<1>3. EncodeServerHello(p) = Cat(Cat(Cat(Cat(hm, v), o), dg), pk)
  BY DEF EncodeServerHello, Cat
<1>4. \A a, b \in Seq(Oct) : Cat(a, b) \in Seq(Oct)
  BY ConcatProperties DEF Cat
<1> HIDE DEF o, dg, pk, v, hm
<1>5. EncodeServerHello(p) \in Seq(Oct)
  BY <1>1, <1>2, <1>3, <1>4
<1> QED BY <1>5, OctetsAreNumbers

(* The packet type stands before the rest.                                 *)
LEMMA Tagged ==
  ASSUME NEW wire \in Seq(Nat), wire # <<>>, NEW t \in Nat, NEW x \in Seq(Nat)
  PROVE  Cat(<<t>>, x) = wire <=> wire[1] = t /\ x = Tail(wire)
<1> DEFINE a == <<t>>
<1>1. a \in Seq(Nat) /\ Len(a) = 1 /\ a[1] = t
  OBVIOUS
<1> HIDE DEF a
<1>2. Cat(a, x) = wire <=> /\ Len(wire) = Len(a) + Len(x)
                           /\ Part(wire, 0, Len(a)) = a /\ From(wire, Len(a)) = x
  <2>1. a \in Seq(Nat) /\ x \in Seq(Nat) /\ wire \in Seq(Nat)
    BY <1>1
  <2> QED BY ONLY <2>1, Prefixed
<1>3. Len(wire) \in Nat /\ Len(wire) >= 1 /\ Len(x) \in Nat
  BY LenProperties, EmptySeq
<1>4. From(wire, 1) = Tail(wire) /\ Len(From(wire, 1)) = Len(wire) - 1
  <2>1. 1 \in 0..Len(wire)
    BY <1>3
  <2>2. Len(From(wire, 1)) = Len(wire) - 1
    BY <2>1, FromType
  <2>3. From(wire, 1) = Tail(wire)
    BY TailIsSubSeq DEF From
  <2> QED BY <2>2, <2>3
<1>5. Part(wire, 0, 1) = a <=> wire[1] = t
  <2> DEFINE b == Part(wire, 0, 1)
  <2>1. 0 + 1 <= Len(wire) /\ 0 \in Nat /\ 1 \in Nat
    BY <1>3
  <2>2. b \in Seq(Nat) /\ Len(b) = 1 /\ \A j \in 1..1 : b[j] = wire[0 + j]
    <3>1. wire \in Seq(Nat)
      OBVIOUS
    <3>2. \A k \in Nat : 0 + k <= Len(wire) =>
             Part(wire, 0, k) \in Seq(Nat) /\ Len(Part(wire, 0, k)) = k
             /\ \A j \in 1..k : Part(wire, 0, k)[j] = wire[0 + j]
      BY ONLY <2>1, <3>1, PartType
    <3> QED BY <2>1, <3>2
  <2> HIDE DEF b
  <2>3. b[1] = wire[1]
    <3>1. 1 \in 1..1 /\ 0 + 1 = 1
      OBVIOUS
    <3> QED BY <2>2, <3>1
  <2>4. ASSUME b[1] = a[1] PROVE b = a
    <3>1. \A j \in 1..1 : b[j] = a[j]
      BY <2>4
    <3> QED BY <1>1, <2>2, <3>1, SeqEqual
  <2>5. b = a => b[1] = a[1]
    OBVIOUS
  <2>6. b = a <=> wire[1] = t
    BY <1>1, <2>3, <2>4, <2>5
  <2> QED BY <2>6 DEF b
<1>6. Cat(a, x) = wire <=> wire[1] = t /\ x = Tail(wire)
  <2>1. x = Tail(wire) => Len(wire) = 1 + Len(x)
    BY <1>3, <1>4
  <2> QED BY <1>1, <1>2, <1>4, <1>5, <2>1
<1> QED BY <1>6 DEF a

(* The packet type of what is written.                                     *)
LEMMA HelloTypes ==
  ASSUME NEW type, NEW sigs, NEW p \in HelloPackets(type, sigs)
  PROVE  p.type = type /\ p.sig \in sigs
BY DEF HelloPackets

(* The ServerHellos written as a packet are those decoded behind its tag.  *)
LEMMA ServerHelloMeant ==
  ASSUME NEW wire \in Seq(Nat), wire # <<>>, Tail(wire) \in Seq(Sample)
  PROVE  {p \in HelloPackets("ServerHello", {<<>>}) : Serialize(p) = wire} =
           IF wire[1] = 0 THEN DecodeServerHello(Tail(wire)) ELSE {}
<1> DEFINE H == HelloPackets("ServerHello", {<<>>})
           d == Tail(wire)
<1>1. ASSUME NEW p \in H PROVE Serialize(p) = wire <=> wire[1] = 0 /\ EncodeServerHello(p) = d
  <2>1. p.type = "ServerHello"
    BY HelloTypes
  <2> DEFINE x == EncodeServerHello(p)
  <2>2. Serialize(p) = Cat(<<0>>, x)
    BY <2>1 DEF Serialize, Cat
  <2>3. x \in Seq(Nat)
    BY ServerHelloType
  <2> HIDE DEF x
  <2>4. Cat(<<0>>, x) = wire <=> wire[1] = 0 /\ x = d
    BY <2>3, Tagged
  <2> QED BY <2>2, <2>4 DEF x
<1>2. DecodeServerHello(d) = {p \in H : EncodeServerHello(p) = d}
  BY ServerHelloRead
<1> HIDE DEF H, d
<1>3. {p \in H : Serialize(p) = wire} = IF wire[1] = 0 THEN {p \in H : EncodeServerHello(p) = d} ELSE {}
  BY <1>1
<1> QED BY <1>2, <1>3 DEF H, d

(* And so for the request for the server's key,                            *)
LEMMA RequestMeant ==
  ASSUME NEW wire \in Seq(Nat), wire # <<>>, Tail(wire) \in Seq(Sample)
  PROVE  {p \in [type : {"RequestServerPubkey"}] : Serialize(p) = wire} =
           IF wire[1] = 1 /\ Exactly(Tail(wire), 0) THEN {[type |-> "RequestServerPubkey"]} ELSE {}
<1> DEFINE P == [type : {"RequestServerPubkey"}]
           q == [type |-> "RequestServerPubkey"]
           e == <<>>
<1>1. ASSUME NEW p \in P PROVE p = q /\ Serialize(p) = <<1>>
  BY DEF Serialize
<1>2. q \in P
  OBVIOUS
<1>3. Cat(<<1>>, e) = <<1>>
  <2>1. <<1>> \in Seq(Nat)
    OBVIOUS
  <2> QED BY <2>1, ConcatEmptySeq DEF Cat
<1>4. e \in Seq(Nat) /\ 1 \in Nat
  OBVIOUS
<1>5. e = Tail(wire) <=> Exactly(Tail(wire), 0)
  BY EmptySeq DEF Exactly
<1> HIDE DEF e, P, q
<1>6. Cat(<<1>>, e) = wire <=> wire[1] = 1 /\ e = Tail(wire)
  BY <1>4, Tagged
<1>7. {p \in P : Serialize(p) = wire} = IF wire[1] = 1 /\ Exactly(Tail(wire), 0) THEN {q} ELSE {}
  BY <1>1, <1>2, <1>3, <1>5, <1>6
<1> QED BY <1>7 DEF P, q

(* the answer with that key,                                               *)
LEMMA ServerPubkeyMeant ==
  ASSUME NEW wire \in Seq(Nat), wire # <<>>, Tail(wire) \in Seq(Sample)
  PROVE  {p \in [type : {"ServerPubkey"}, key : Octets(Len(wire) - 1)] : Serialize(p) = wire} =
           IF wire[1] = 2 THEN {[type |-> "ServerPubkey", key |-> Tail(wire)]} ELSE {}
<1> DEFINE d == Tail(wire)
           P == [type : {"ServerPubkey"}, key : Octets(Len(d))]
           q == [type |-> "ServerPubkey", key |-> d]
<1>1. Len(d) = Len(wire) - 1 /\ Len(d) \in Nat
  BY HeadTailProperties, LenProperties
<1>2. ASSUME NEW p \in P PROVE Serialize(p) = wire <=> wire[1] = 2 /\ p.key = d
  <2> DEFINE x == p.key
  <2>1. p.type = "ServerPubkey" /\ x \in Octets(Len(d))
    OBVIOUS
  <2>2. Serialize(p) = Cat(<<2>>, x)
    BY <2>1 DEF Serialize, Cat
  <2> HIDE DEF x, d
  <2>3. x \in Seq(Nat)
    BY <1>1, <2>1, SampleOctets, OctetsAreNumbers
  <2>4. Cat(<<2>>, x) = wire <=> wire[1] = 2 /\ x = Tail(wire)
    BY <2>3, Tagged
  <2> QED BY <2>2, <2>4 DEF x, d
<1>3. {q} = {p \in P : p.key = d}
  BY ServerPubkeyRead
<1> HIDE DEF P, q, d
<1>4. {p \in P : Serialize(p) = wire} = IF wire[1] = 2 THEN {p \in P : p.key = d} ELSE {}
  BY <1>2
<1>5. [type : {"ServerPubkey"}, key : Octets(Len(wire) - 1)] = P
  BY <1>1 DEF P
<1> QED BY <1>3, <1>4, <1>5 DEF q, d

(* the ClientHello,                                                        *)
LEMMA ClientHelloMeant ==
  ASSUME NEW wire \in Seq(Nat), wire # <<>>, Tail(wire) \in Seq(Sample), NEW insecure \in BOOLEAN
  PROVE  {p \in HelloPackets("ClientHello", Octets(ConnSignatureLen(insecure))) : Serialize(p) = wire} =
           IF wire[1] = 3 THEN DecodeClientHello(Tail(wire), insecure) ELSE {}
<1> DEFINE n == ConnSignatureLen(insecure)
           H == HelloPackets("ClientHello", Octets(n))
           d == Tail(wire)
<1>1. n \in Nat
  BY WidthsAssumption DEF ConnSignatureLen
<1>2. ASSUME NEW p \in H PROVE Serialize(p) = wire <=> wire[1] = 3 /\ p.sig \o EncodeClientHello(p) = d
  <2> DEFINE a == p.sig
             b == EncodeClientHello(p)
             x == Cat(a, b)
             t == <<3>>
  <2>1. p.type = "ClientHello" /\ a \in Octets(n)
    BY HelloTypes
  <2>2. Serialize(p) = Cat(Cat(t, a), b)
    BY <2>1 DEF Serialize, Cat
  <2>3. b \in Seq(Nat)
    BY BodyWritten, OctetsAreNumbers
  <2>4. t \in Seq(Nat)
    OBVIOUS
  <2> HIDE DEF a, b, n
  <2>5. a \in Seq(Nat)
    BY <1>1, <2>1, SampleOctets, OctetsAreNumbers
  <2>6. x \in Seq(Nat)
    BY <2>3, <2>5, ConcatProperties DEF Cat
  <2> HIDE DEF t
  <2>7. Cat(Cat(t, a), b) = Cat(t, Cat(a, b))
    BY ONLY <2>3, <2>4, <2>5, ThreeParts
  <2> HIDE DEF x
  <2>8. Cat(<<3>>, x) = wire <=> wire[1] = 3 /\ x = Tail(wire)
    BY <2>6, Tagged
  <2> QED BY <2>2, <2>7, <2>8 DEF x, a, b, t, Cat
<1>3. DecodeClientHello(d, insecure) = {p \in H : p.sig \o EncodeClientHello(p) = d}
  BY ClientHelloRead
<1> HIDE DEF H, d
<1>4. {p \in H : Serialize(p) = wire} = IF wire[1] = 3 THEN {p \in H : p.sig \o EncodeClientHello(p) = d} ELSE {}
  BY <1>2
<1> QED BY <1>3, <1>4 DEF H, d

(* the ServerComplete                                                      *)
LEMMA ServerCompleteMeant ==
  ASSUME NEW wire \in Seq(Nat), wire # <<>>, Tail(wire) \in Seq(Sample), NEW insecure \in BOOLEAN
  PROVE  {p \in [type : {"ServerComplete"}, sig : Octets(ConnSignatureLen(insecure))] : Serialize(p) = wire} =
           IF wire[1] = 4 THEN DecodeServerComplete(Tail(wire), insecure) ELSE {}
<1> DEFINE n == ConnSignatureLen(insecure)
           P == [type : {"ServerComplete"}, sig : Octets(n)]
           d == Tail(wire)
<1>1. n \in Nat
  BY WidthsAssumption DEF ConnSignatureLen
<1>2. ASSUME NEW p \in P PROVE Serialize(p) = wire <=> wire[1] = 4 /\ p.sig = d
  <2> DEFINE x == p.sig
  <2>1. p.type = "ServerComplete" /\ x \in Octets(n)
    OBVIOUS
  <2>2. Serialize(p) = Cat(<<4>>, x)
    BY <2>1 DEF Serialize, Cat
  <2> HIDE DEF x, d, n
  <2>3. x \in Seq(Nat)
    BY <1>1, <2>1, SampleOctets, OctetsAreNumbers
  <2>4. Cat(<<4>>, x) = wire <=> wire[1] = 4 /\ x = Tail(wire)
    BY <2>3, Tagged
  <2> QED BY <2>2, <2>4 DEF x, d
<1>3. DecodeServerComplete(d, insecure) = {p \in P : p.sig = d}
  BY ServerCompleteRead
<1> HIDE DEF P, d
<1>4. {p \in P : Serialize(p) = wire} = IF wire[1] = 4 THEN {p \in P : p.sig = d} ELSE {}
  BY <1>2
<1> QED BY <1>3, <1>4 DEF P, d

(* and the EncryptedPayload.                                               *)
LEMMA PayloadMeant ==
  ASSUME NEW wire \in Seq(Nat), wire # <<>>, Tail(wire) \in Seq(Sample)
  PROVE  {p \in [type : {"Payload"}, sig : Octets(EdSigLen), data : Octets(Len(wire) - 1 - EdSigLen)] :
            Serialize(p) = wire} =
           IF wire[1] = 5 THEN DecodePayload(Tail(wire)) ELSE {}
<1> DEFINE d == Tail(wire)
           n == Len(d) - EdSigLen
           P == [type : {"Payload"}, sig : Octets(EdSigLen), data : Octets(n)]
<1>1. Len(d) = Len(wire) - 1 /\ Len(d) \in Nat /\ EdSigLen \in Nat
  BY HeadTailProperties, LenProperties, WidthsAssumption
<1>2. \A i \in Int : Octets(i) \subseteq Seq(Nat)
  BY SampleOctets, NoOctets, OctetsAreNumbers
<1>3. n \in Int /\ EdSigLen \in Int
  BY <1>1
<1>4. ASSUME NEW p \in P PROVE Serialize(p) = wire <=> wire[1] = 5 /\ Cat(p.sig, p.data) = d
  <2> DEFINE a == p.sig
             b == p.data
             x == Cat(a, b)
             t == <<5>>
  <2>1. p.type = "Payload" /\ a \in Octets(EdSigLen) /\ b \in Octets(n)
    OBVIOUS
  <2>2. Serialize(p) = Cat(Cat(t, a), b)
    BY <2>1 DEF Serialize, Cat
  <2>3. t \in Seq(Nat)
    OBVIOUS
  <2> HIDE DEF a, b, n, d
  <2>4. a \in Seq(Nat) /\ b \in Seq(Nat)
    BY <1>2, <1>3, <2>1
  <2>5. x \in Seq(Nat)
    BY <2>4, ConcatProperties DEF Cat
  <2> HIDE DEF t
  <2>6. Cat(Cat(t, a), b) = Cat(t, Cat(a, b))
    BY ONLY <2>3, <2>4, ThreeParts
  <2> HIDE DEF x
  <2>7. Cat(<<5>>, x) = wire <=> wire[1] = 5 /\ x = Tail(wire)
    BY <2>5, Tagged
  <2> QED BY <2>2, <2>6, <2>7 DEF x, a, b, t, d
<1>5. DecodePayload(d) = {p \in P : Cat(p.sig, p.data) = d}
  BY PayloadRead
<1>6. [type : {"Payload"}, sig : Octets(EdSigLen), data : Octets(Len(wire) - 1 - EdSigLen)] = P
  BY <1>1
<1> HIDE DEF P, d
<1>7. {p \in P : Serialize(p) = wire} = IF wire[1] = 5 THEN {p \in P : Cat(p.sig, p.data) = d} ELSE {}
  BY <1>4
<1> QED BY <1>5, <1>6, <1>7 DEF d

(* What begins with something is not empty.                                *)
LEMMA CatFilled ==
  ASSUME NEW S, NEW a \in Seq(S), NEW b \in Seq(S), a # <<>>
  PROVE  Cat(a, b) \in Seq(S) /\ Cat(a, b) # <<>>
<1> DEFINE s == Cat(a, b)
<1>1. s \in Seq(S) /\ Len(s) = Len(a) + Len(b)
  BY ConcatProperties DEF Cat
<1>2. Len(a) \in Nat \ {0} /\ Len(b) \in Nat
  BY EmptySeq, LenProperties
<1> HIDE DEF s
<1>3. s # <<>>
  BY <1>1, <1>2, EmptySeq
<1> QED BY <1>1, <1>3 DEF s

(* A packet has at least its type.                                         *)
LEMMA NothingIsNoPacket ==
  ASSUME NEW insecure \in BOOLEAN, NEW p \in ModePackets(insecure) \cup OtherPackets(0)
  PROVE  Serialize(p) # <<>>
<1> DEFINE n == ConnSignatureLen(insecure)
           sigs == Octets(n)
<1>1. n \in Int /\ EdSigLen \in Int /\ 0 - 1 \in Int /\ 0 - 1 - EdSigLen \in Int
  BY WidthsAssumption DEF ConnSignatureLen
<1>2. \A i \in Int : Octets(i) \subseteq Seq(Nat)
  BY SampleOctets, NoOctets, OctetsAreNumbers
<1>3. \A t \in Nat : <<t>> \in Seq(Nat) /\ <<t>> # <<>>
  OBVIOUS
<1>4. \A t \in Nat, x \in Seq(Nat) : Cat(<<t>>, x) # <<>>
  <2> SUFFICES ASSUME NEW t \in Nat, NEW x \in Seq(Nat) PROVE Cat(<<t>>, x) # <<>>
    OBVIOUS
  <2> DEFINE a == <<t>>
  <2>1. a \in Seq(Nat) /\ a # <<>>
    BY <1>3
  <2> HIDE DEF a
  <2>2. Cat(a, x) # <<>>
    BY <2>1, CatFilled
  <2> QED BY <2>2 DEF a
<1>5. \A t \in Nat, x \in Seq(Nat), y \in Seq(Nat) : Cat(Cat(<<t>>, x), y) # <<>>
  <2> SUFFICES ASSUME NEW t \in Nat, NEW x \in Seq(Nat), NEW y \in Seq(Nat)
               PROVE  Cat(Cat(<<t>>, x), y) # <<>>
    OBVIOUS
  <2> DEFINE a == <<t>>
  <2>1. a \in Seq(Nat) /\ a # <<>>
    BY <1>3
  <2> HIDE DEF a
  <2>2. Cat(a, x) \in Seq(Nat) /\ Cat(a, x) # <<>>
    BY <2>1, CatFilled
  <2> DEFINE b == Cat(a, x)
  <2> HIDE DEF b
  <2>3. Cat(b, y) # <<>>
    BY <2>2, CatFilled DEF b
  <2> QED BY <2>3 DEF a, b
<1> HIDE DEF n
<1>6. CASE p \in HelloPackets("ClientHello", sigs)
  <2>1. p.type = "ClientHello" /\ p.sig \in sigs
    BY <1>6, HelloTypes
  <2>2. EncodeClientHello(p) \in Seq(Nat)
    BY <1>6, BodyWritten, OctetsAreNumbers
  <2>3. p.sig \in Seq(Nat)
    BY <1>1, <1>2, <2>1
  <2>4. Serialize(p) = Cat(Cat(<<3>>, p.sig), EncodeClientHello(p))
    BY <2>1 DEF Serialize, Cat
  <2> QED BY <1>5, <2>2, <2>3, <2>4
<1>7. CASE p \in [type : {"ServerComplete"}, sig : sigs]
  <2>1. p.type = "ServerComplete" /\ p.sig \in sigs
    BY <1>7
  <2>2. p.sig \in Seq(Nat)
    BY <1>1, <1>2, <2>1
  <2>3. Serialize(p) = Cat(<<4>>, p.sig)
    BY <2>1 DEF Serialize, Cat
  <2> QED BY <1>4, <2>2, <2>3
<1>8. CASE p \in HelloPackets("ServerHello", {<<>>})
  <2>1. p.type = "ServerHello"
    BY <1>8, HelloTypes
  <2>2. EncodeServerHello(p) \in Seq(Nat)
    BY <1>8, ServerHelloType
  <2>3. Serialize(p) = Cat(<<0>>, EncodeServerHello(p))
    BY <2>1 DEF Serialize, Cat
  <2> QED BY <1>4, <2>2, <2>3
<1>9. CASE p \in [type : {"RequestServerPubkey"}]
  BY <1>9 DEF Serialize
<1>10. CASE p \in [type : {"ServerPubkey"}, key : Octets(0 - 1)]
  <2>1. p.type = "ServerPubkey" /\ p.key \in Octets(0 - 1)
    BY <1>10
  <2>2. p.key \in Seq(Nat)
    BY <1>1, <1>2, <2>1
  <2>3. Serialize(p) = Cat(<<2>>, p.key)
    BY <2>1 DEF Serialize, Cat
  <2> QED BY <1>4, <2>2, <2>3
<1>11. CASE p \in [type : {"Payload"}, sig : Octets(EdSigLen), data : Octets(0 - 1 - EdSigLen)]
  <2>1. p.type = "Payload" /\ p.sig \in Octets(EdSigLen) /\ p.data \in Octets(0 - 1 - EdSigLen)
    BY <1>11
  <2>2. p.sig \in Seq(Nat) /\ p.data \in Seq(Nat)
    BY <1>1, <1>2, <2>1
  <2>3. Serialize(p) = Cat(Cat(<<5>>, p.sig), p.data)
    BY <2>1 DEF Serialize, Cat
  <2> QED BY <1>5, <2>2, <2>3
<1> QED BY <1>6, <1>7, <1>8, <1>9, <1>10, <1>11 DEF ModePackets, OtherPackets, n

(* What is read is what was meant, whatever the bytes.                     *)
LEMMA ReadIsMeant ==
  ASSUME NEW wire \in Seq(Nat), wire # <<>> => Tail(wire) \in Seq(Sample), NEW insecure \in BOOLEAN
  PROVE  Deserialize(wire, insecure) = Meaning(wire, insecure)
<1> DEFINE n == ConnSignatureLen(insecure)
           len == Len(wire)
           Of(P) == {p \in P : Serialize(p) = wire}
           A == HelloPackets("ClientHello", Octets(n))
           B == [type : {"ServerComplete"}, sig : Octets(n)]
           C == HelloPackets("ServerHello", {<<>>})
           D == [type : {"RequestServerPubkey"}]
           E == [type : {"ServerPubkey"}, key : Octets(len - 1)]
           F == [type : {"Payload"}, sig : Octets(EdSigLen), data : Octets(len - 1 - EdSigLen)]
<1>1. CASE wire = <<>>
  <2>1. len = 0
    BY <1>1, EmptySeq
  <2>2. Meaning(wire, insecure) = {}
    BY <1>1, <2>1, NothingIsNoPacket DEF Meaning
  <2> QED BY <1>1, <2>2 DEF Deserialize
<1>2. CASE wire # <<>>
  <2>1. Meaning(wire, insecure) = Of(A) \cup Of(B) \cup Of(C) \cup Of(D) \cup Of(E) \cup Of(F)
    BY DEF Meaning, ModePackets, OtherPackets
  <2> DEFINE t == wire[1]
             d == Tail(wire)
  <2>2. /\ Of(A) = IF t = 3 THEN DecodeClientHello(d, insecure) ELSE {}
        /\ Of(B) = IF t = 4 THEN DecodeServerComplete(d, insecure) ELSE {}
        /\ Of(C) = IF t = 0 THEN DecodeServerHello(d) ELSE {}
        /\ Of(D) = IF t = 1 /\ Exactly(d, 0) THEN {[type |-> "RequestServerPubkey"]} ELSE {}
        /\ Of(E) = IF t = 2 THEN {[type |-> "ServerPubkey", key |-> d]} ELSE {}
        /\ Of(F) = IF t = 5 THEN DecodePayload(d) ELSE {}
    BY <1>2, ClientHelloMeant, ServerCompleteMeant, ServerHelloMeant, RequestMeant,
       ServerPubkeyMeant, PayloadMeant
  <2>3. Deserialize(wire, insecure) =
          CASE t = 0 -> DecodeServerHello(d)
            [] t = 1 -> IF Exactly(d, 0) THEN {[type |-> "RequestServerPubkey"]} ELSE {}
            [] t = 2 -> {[type |-> "ServerPubkey", key |-> d]}
            [] t = 3 -> DecodeClientHello(d, insecure)
            [] t = 4 -> DecodeServerComplete(d, insecure)
            [] t = 5 -> DecodePayload(d)
            [] OTHER -> {}
    BY <1>2 DEF Deserialize
  <2> HIDE DEF A, B, C, D, E, F, Of, t, d
  <2> QED BY <2>1, <2>2, <2>3
<1> QED BY <1>1, <1>2

(* The tags that depend on the mode of the signatures give a packet in one *)
(* mode at most.                                                           *)
LEMMA OneMode ==
  ASSUME NEW wire \in Seq(Nat), wire # <<>> => Tail(wire) \in Seq(Sample)
  PROVE  ModesApart(wire)
<1> SUFFICES ASSUME wire # <<>>, wire[1] \in {3, 4}
             PROVE  Deserialize(wire, TRUE) = {} \/ Deserialize(wire, FALSE) = {}
  BY DEF ModesApart
<1> DEFINE d == Tail(wire)
           n(i) == ConnSignatureLen(i)
<1>1. ASSUME NEW i \in BOOLEAN PROVE n(i) \in Nat /\ (wire[1] = 3 => Deserialize(wire, i) = DecodeClientHello(d, i))
                                                 /\ (wire[1] = 4 => Deserialize(wire, i) = DecodeServerComplete(d, i))
  <2>1. n(i) \in Nat
    BY WidthsAssumption DEF ConnSignatureLen
  <2>2. wire[1] = 3 => Deserialize(wire, i) = DecodeClientHello(d, i)
    BY DEF Deserialize
  <2>3. wire[1] = 4 => Deserialize(wire, i) = DecodeServerComplete(d, i)
    BY DEF Deserialize
  <2> QED BY <2>1, <2>2, <2>3
<1>2. n(TRUE) # n(FALSE)
  BY WidthsAssumption DEF ConnSignatureLen
<1>3. d \in Seq(Sample) /\ Len(d) \in Nat /\ ClientBodyLen \in Nat
  BY WidthsAssumption, LenProperties DEF ClientBodyLen
<1> HIDE DEF d
<1>4. ASSUME NEW i \in BOOLEAN
      PROVE  /\ DecodeClientHello(d, i) # {} => Len(d) = n(i) + ClientBodyLen
             /\ DecodeServerComplete(d, i) # {} => Len(d) = n(i)
  <2> DEFINE m == n(i)
  <2>1. m \in Nat
    BY <1>1
  <2>2. DecodeServerComplete(d, i) # {} => Len(d) = m
    BY DEF DecodeServerComplete, Exactly
  <2>3. DecodeClientHello(d, i) # {} => Len(d) >= m /\ Len(From(d, m)) = ClientBodyLen
    BY DEF DecodeClientHello, Exactly
  <2> HIDE DEF m
  <2>4. Len(d) >= m => Len(From(d, m)) = Len(d) - m
    BY <1>3, <2>1, FromType
  <2>5. DecodeClientHello(d, i) # {} => Len(d) = m + ClientBodyLen
    BY <1>3, <2>1, <2>3, <2>4
  <2> QED BY <2>2, <2>5 DEF m
<1> HIDE DEF n
<1>5. ~(Len(d) = n(TRUE) + ClientBodyLen /\ Len(d) = n(FALSE) + ClientBodyLen)
  <2> DEFINE x == n(TRUE)
             y == n(FALSE)
  <2>1. x \in Nat /\ y \in Nat /\ x # y
    BY <1>1, <1>2
  <2> HIDE DEF x, y
  <2>2. ~(Len(d) = x + ClientBodyLen /\ Len(d) = y + ClientBodyLen)
    BY <1>3, <2>1
  <2> QED BY <2>2 DEF x, y
<1> QED BY <1>1, <1>2, <1>4, <1>5

-----------------------------------------------------------------------------
(* What inputs are, in every state.                                        *)

(* The type of the input, for each format.                                 *)
InputOK ==
  /\ input = <<>> \/ format \in {"frame", "packet", "bundle", "lines", "base64", "duration"}
  /\ format = "frame"    => input \in Seq(FrameBytes)
  /\ format = "packet"   => input \in Seq(Oct) /\ (input # <<>> => Tail(input) \in Seq(Sample))
  /\ format = "bundle"   => input \in Seq(KeyOctet)
  /\ format = "lines"    => input \in Seq(TextLines)
  /\ format = "base64"   => input \in Seq(Characters)
  /\ format = "duration" => input \in Seq(ArgumentChars)

(* The tail of a sequence that grows.                                      *)
LEMMA TailGrows ==
  ASSUME NEW S, NEW T, NEW s \in Seq(S), NEW x \in S,
         s # <<>> => Tail(s) \in Seq(T) /\ x \in T
  PROVE  Append(s, x) # <<>> => Tail(Append(s, x)) \in Seq(T)
<1>1. CASE s = <<>>
  <2>1. Tail(Append(s, x)) = <<>>
    BY <1>1, HeadTailAppend
  <2> QED BY <2>1, EmptySeq
<1>2. CASE s # <<>>
  <2>1. Tail(Append(s, x)) = Append(Tail(s), x)
    BY <1>2, HeadTailAppend
  <2> DEFINE r == Tail(s)
  <2>2. r \in Seq(T) /\ x \in T
    BY <1>2
  <2> HIDE DEF r
  <2>3. Append(r, x) \in Seq(T)
    BY <2>2, AppendProperties
  <2> QED BY <2>1, <2>3 DEF r
<1> QED BY <1>1, <1>2

(* Inputs are what the readers take: octets, lines, characters             *)
(* (Packet::deserialize, load_known_hosts, parse_duration and the others). *)
THEOREM InputsRead == FormatsSpec => []InputOK
<1>1. FormatsInit => InputOK
  BY EmptySeq DEF FormatsInit, InputOK
<1>2. InputOK /\ [ReadOn]_<<format, input>> => InputOK'
  <2> SUFFICES ASSUME InputOK, [ReadOn]_<<format, input>> PROVE InputOK'
    OBVIOUS
  <2>1. CASE UNCHANGED <<format, input>>
    BY <2>1 DEF InputOK
  <2>2. CASE ReadOn
    <3>1. PICK x \in Symbols : input' = Append(input, x) /\ format' = format
      BY <2>2 DEF ReadOn
    <3>2. CASE format = "packet"
      <4>1. input \in Seq(Oct) /\ (input # <<>> => Tail(input) \in Seq(Sample))
        BY <3>2 DEF InputOK
      <4>2. x \in Oct /\ (input # <<>> => x \in Sample)
        BY <3>2, WidthsAssumption DEF Symbols, Oct
      <4>3. Append(input, x) \in Seq(Oct)
        BY <4>1, <4>2, AppendProperties
      <4>4. Append(input, x) # <<>> => Tail(Append(input, x)) \in Seq(Sample)
        BY <4>1, <4>2, TailGrows
      <4> QED BY <3>1, <3>2, <4>3, <4>4 DEF InputOK
    <3>3. CASE format # "packet"
      <4>1. /\ format = "frame"    => Append(input, x) \in Seq(FrameBytes)
            /\ format = "bundle"   => Append(input, x) \in Seq(KeyOctet)
            /\ format = "lines"    => Append(input, x) \in Seq(TextLines)
            /\ format = "base64"   => Append(input, x) \in Seq(Characters)
            /\ format = "duration" => Append(input, x) \in Seq(ArgumentChars)
        BY AppendProperties DEF InputOK, Symbols
      <4>2. format \in {"frame", "packet", "bundle", "lines", "base64", "duration"}
        BY DEF Symbols
      <4> QED BY <3>1, <3>3, <4>1, <4>2 DEF InputOK
    <3> QED BY <3>2, <3>3
  <2> QED BY <2>1, <2>2
<1> QED BY <1>1, <1>2, PTL DEF FormatsSpec

(* Every packet is read as the one it was written from, in its mode only,  *)
(* and what is no packet is refused (Packet::serialize,                    *)
(* Packet::deserialize).                                                   *)
THEOREM PacketsExact == FormatsSpec => []PacketsAsWritten
<1>1. InputOK => PacketsAsWritten
  <2> SUFFICES ASSUME InputOK, format = "packet" PROVE PacketAsWritten(input)
    BY DEF PacketsAsWritten
  <2>1. input \in Seq(Nat) /\ (input # <<>> => Tail(input) \in Seq(Sample))
    BY OctetsAreNumbers DEF InputOK
  <2> QED BY <2>1, ReadIsMeant, OneMode DEF PacketAsWritten
<1> QED BY <1>1, InputsRead, PTL

-----------------------------------------------------------------------------
(* Keys.                                                                   *)

(* A slice of a slice.                                                     *)
LEMMA PartOfPart ==
  ASSUME NEW S, NEW s \in Seq(S), NEW i \in Nat, NEW n \in Nat, i + n <= Len(s),
         NEW j \in Nat, NEW m \in Nat, j + m <= n
  PROVE  Part(Part(s, i, n), j, m) = Part(s, i + j, m)
<1> DEFINE t == Part(s, i, n)
           u == Part(t, j, m)
           v == Part(s, i + j, m)
<1>1. t \in Seq(S) /\ Len(t) = n /\ \A k \in 1..n : t[k] = s[i + k]
  BY PartType
<1> HIDE DEF t
<1>2. j + m <= Len(t) /\ i + j \in Nat /\ i + j + m <= Len(s)
  BY <1>1, LenProperties
<1>3. u \in Seq(S) /\ Len(u) = m /\ \A k \in 1..m : u[k] = t[j + k]
  BY <1>1, <1>2, PartType
<1>4. v \in Seq(S) /\ Len(v) = m /\ \A k \in 1..m : v[k] = s[i + j + k]
  BY <1>2, PartType
<1> HIDE DEF u, v
<1>5. ASSUME NEW k \in 1..m PROVE u[k] = v[k]
  <2>1. j + k \in 1..n /\ i + (j + k) = i + j + k
    OBVIOUS
  <2> QED BY <1>1, <1>3, <1>4, <2>1
<1>6. u = v
  BY <1>3, <1>4, <1>5, SeqEqual
<1> QED BY <1>6 DEF u, v, t

(* A sequence that is put together of two begins another one.              *)
LEMMA SplitPart ==
  ASSUME NEW S, NEW d \in Seq(S), NEW x \in Seq(S), NEW y \in Seq(S),
         NEW k \in Nat, NEW m \in Nat, Len(x) = k, Len(y) = m, k + m <= Len(d)
  PROVE  Cat(x, y) = Part(d, 0, k + m) <=> x = Part(d, 0, k) /\ y = Part(d, k, m)
<1> DEFINE t == Part(d, 0, k + m)
<1>1. 0 \in Nat /\ k + m \in Nat /\ 0 + (k + m) <= Len(d)
  OBVIOUS
<1>2. t \in Seq(S) /\ Len(t) = k + m
  BY <1>1, PartType
<1>3. Part(t, 0, k) = Part(d, 0, k) /\ Part(t, k, m) = Part(d, k, m)
  <2>1. 0 + k <= k + m /\ k + m <= k + m /\ 0 + 0 = 0 /\ 0 + k = k
    OBVIOUS
  <2>2. Part(t, 0, k) = Part(d, 0 + 0, k)
    BY <1>1, <2>1, PartOfPart
  <2>3. Part(t, k, m) = Part(d, 0 + k, m)
    BY <1>1, <2>1, PartOfPart
  <2> QED BY <2>1, <2>2, <2>3
<1> HIDE DEF t
<1>4. Cat(x, y) = t <=> Len(t) = Len(x) + Len(y) /\ Part(t, 0, Len(x)) = x /\ From(t, Len(x)) = y
  BY <1>2, Prefixed
<1>5. From(t, k) = Part(t, k, m)
  BY <1>2, FromIsPart
<1>6. Cat(x, y) = t <=> x = Part(d, 0, k) /\ y = Part(d, k, m)
  BY <1>2, <1>3, <1>4, <1>5
<1> QED BY <1>6 DEF t

(* All of a sequence as a slice.                                           *)
LEMMA WholePart ==
  ASSUME NEW S, NEW d \in Seq(S)
  PROVE  Part(d, 0, Len(d)) = d
<1>1. SubSeq(d, 1, Len(d)) = d
  BY SubSeqFull
<1>2. 0 + 1 = 1 /\ 0 + Len(d) = Len(d)
  BY LenProperties
<1> QED BY <1>1, <1>2 DEF Part

(* What two sequences are one behind the other.                            *)
LEMMA CatType ==
  ASSUME NEW S, NEW a \in Seq(S), NEW b \in Seq(S)
  PROVE  Cat(a, b) \in Seq(S) /\ Len(Cat(a, b)) = Len(a) + Len(b)
BY ConcatProperties DEF Cat

(* The public bundle is decoded to the halves it is encoded from.          *)
LEMMA PublicRead ==
  ASSUME NEW data \in Seq(KeyOctet)
  PROVE  DecodePublic(data) = PublicMeaning(data)
<1> DEFINE n == Len(data) - 1 - EdKeyLen
           P == [1..n -> KeyOctet] \X [1..EdKeyLen -> KeyOctet]
           M(p) == p[1] # <<>> /\ EncodePublic(p[1], p[2]) = data
           q == <<Part(data, 1, n), Part(data, 1 + n, EdKeyLen)>>
<1>1. Len(data) \in Nat /\ EdKeyLen \in Nat /\ n \in Int /\ KeyVersion \in KeyOctet
  BY LenProperties, BundleAssumption
<1>2. PublicMeaning(data) = {p \in P : M(p)}
  BY DEF PublicMeaning
<1>3. CASE n < 1
  <2>1. \A p \in P : p[1] = <<>>
    <3>1. 1..n = 1..0
      BY <1>1, <1>3
    <3>2. \A f \in [1..0 -> KeyOctet] : f = <<>>
      OBVIOUS
    <3> QED BY <3>1, <3>2
  <2>2. DecodePublic(data) = {}
    BY <1>1, <1>3 DEF DecodePublic
  <2>3. \A p \in P : ~M(p)
    BY <2>1
  <2> HIDE DEF P, M
  <2> QED BY <1>2, <2>2, <2>3
<1>4. CASE n >= 1
  <2>1. n \in Nat \ {0} /\ Len(data) = (1 + n) + EdKeyLen
    BY <1>1, <1>4
  <2>2. ASSUME NEW p \in P PROVE M(p) <=> KeyVersionKnown(data) /\ p = q
    <3> DEFINE a == p[1]
               b == p[2]
               v == <<KeyVersion>>
    <3>1. a \in [1..n -> KeyOctet] /\ b \in [1..EdKeyLen -> KeyOctet]
      OBVIOUS
    <3>2. p = q <=> a = Part(data, 1, n) /\ b = Part(data, 1 + n, EdKeyLen)
      <4>1. p = <<a, b>>
        OBVIOUS
      <4> DEFINE x == Part(data, 1, n)
                 y == Part(data, 1 + n, EdKeyLen)
      <4> HIDE DEF a, b, x, y
      <4>2. <<a, b>> = <<x, y>> <=> a = x /\ b = y
        OBVIOUS
      <4> QED BY <4>1, <4>2 DEF x, y
    <3>3. v \in Seq(KeyOctet) /\ Len(v) = 1 /\ v[1] = KeyVersion
      BY <1>1
    <3>4. EncodePublic(a, b) = Cat(Cat(v, a), b)
      BY DEF EncodePublic, Cat
    <3> HIDE DEF v, a, b, n
    <3>5. a \in Seq(KeyOctet) /\ Len(a) = n /\ b \in Seq(KeyOctet) /\ Len(b) = EdKeyLen
      BY <1>1, <2>1, <3>1
    <3>6. a # <<>>
      BY <2>1, <3>5, EmptySeq
    <3> DEFINE va == Cat(v, a)
    <3>7. va \in Seq(KeyOctet) /\ Len(va) = 1 + n
      BY <3>3, <3>5, CatType
    <3> HIDE DEF va
    <3>8. 1 + n \in Nat /\ (1 + n) + EdKeyLen <= Len(data) /\ 1 + n <= Len(data) /\ 1 \in Nat
      BY <1>1, <2>1
    <3>9. Cat(va, b) = Part(data, 0, (1 + n) + EdKeyLen)
            <=> va = Part(data, 0, 1 + n) /\ b = Part(data, 1 + n, EdKeyLen)
      <4> DEFINE k == 1 + n
      <4>1. /\ data \in Seq(KeyOctet) /\ va \in Seq(KeyOctet) /\ b \in Seq(KeyOctet)
            /\ k \in Nat /\ EdKeyLen \in Nat /\ Len(va) = k /\ Len(b) = EdKeyLen
            /\ k + EdKeyLen <= Len(data)
        BY <1>1, <3>5, <3>7, <3>8
      <4> HIDE DEF k
      <4>2. Cat(va, b) = Part(data, 0, k + EdKeyLen) <=> va = Part(data, 0, k) /\ b = Part(data, k, EdKeyLen)
        BY ONLY <4>1, SplitPart
      <4> QED BY <4>2 DEF k
    <3>10. Cat(v, a) = Part(data, 0, 1 + n) <=> v = Part(data, 0, 1) /\ a = Part(data, 1, n)
      <4> DEFINE k == 1
      <4>1. /\ data \in Seq(KeyOctet) /\ v \in Seq(KeyOctet) /\ a \in Seq(KeyOctet)
            /\ k \in Nat /\ n \in Nat /\ Len(v) = k /\ Len(a) = n /\ k + n <= Len(data)
        BY <1>1, <2>1, <3>3, <3>5, <3>8
      <4> HIDE DEF k
      <4>2. Cat(v, a) = Part(data, 0, k + n) <=> v = Part(data, 0, k) /\ a = Part(data, k, n)
        BY ONLY <4>1, SplitPart
      <4> QED BY <4>2 DEF k
    <3>11. Part(data, 0, (1 + n) + EdKeyLen) = data
      BY <2>1, WholePart
    <3>12. v = Part(data, 0, 1) <=> data[1] = KeyVersion
      <4> DEFINE w == Part(data, 0, 1)
      <4>1. 0 + 1 <= Len(data) /\ 0 \in Nat /\ 1 \in Nat
        BY <1>1, <2>1, <3>8
      <4>2. w \in Seq(KeyOctet) /\ Len(w) = 1 /\ w[1] = data[1]
        <5>1. \A k \in Nat : 0 + k <= Len(data) =>
                 Part(data, 0, k) \in Seq(KeyOctet) /\ Len(Part(data, 0, k)) = k
                 /\ \A j \in 1..k : Part(data, 0, k)[j] = data[0 + j]
          BY <4>1, PartType
        <5>2. w \in Seq(KeyOctet) /\ Len(w) = 1 /\ \A j \in 1..1 : w[j] = data[0 + j]
          BY <4>1, <5>1
        <5> HIDE DEF w
        <5>3. 1 \in 1..1 /\ 0 + 1 = 1
          OBVIOUS
        <5> QED BY <5>2, <5>3
      <4> HIDE DEF w
      <4>3. v[1] = w[1] => v = w
        <5>1. ASSUME v[1] = w[1] PROVE \A k \in 1..1 : v[k] = w[k]
          BY <5>1
        <5> QED BY <3>3, <4>2, <5>1, SeqEqual
      <4>4. v = w <=> data[1] = KeyVersion
        BY <3>3, <4>2, <4>3
      <4> QED BY <4>4 DEF w
    <3>13. EncodePublic(a, b) = data
             <=> KeyVersionKnown(data) /\ a = Part(data, 1, n) /\ b = Part(data, 1 + n, EdKeyLen)
      BY <3>4, <3>9, <3>10, <3>11, <3>12 DEF va, KeyVersionKnown
    <3> QED BY <3>2, <3>6, <3>13 DEF a, b
  <2>3. q \in P
    <3> HIDE DEF n
    <3>1. 1 + n <= Len(data) /\ 1 + n + EdKeyLen <= Len(data) /\ 1 \in Nat /\ 1 + n \in Nat /\ n \in Nat
      BY <1>1, <2>1
    <3>2. Part(data, 1, n) \in [1..n -> KeyOctet] /\ Part(data, 1 + n, EdKeyLen) \in [1..EdKeyLen -> KeyOctet]
      BY <1>1, <3>1, PartType
    <3> QED BY <3>2
  <2>4. DecodePublic(data) = IF KeyVersionKnown(data) THEN {q} ELSE {}
    <3>1. ~(Len(data) < 1 + 1 + EdKeyLen)
      BY <1>1, <1>4
    <3> QED BY <3>1 DEF DecodePublic
  <2> HIDE DEF P, M, q
  <2>5. {p \in P : M(p)} = IF KeyVersionKnown(data) THEN {q} ELSE {}
    BY <2>2, <2>3
  <2> QED BY <1>2, <2>4, <2>5
<1> QED BY <1>1, <1>3, <1>4

(* A length and its octets.                                                *)
LEMMA LengthRead ==
  ASSUME NEW o \in [1..U32Len -> KeyOctet], NEW i \in Nat
  PROVE  /\ ReadU32(o) \in Nat
         /\ i <= MaxU32 /\ o = U32Octets(i) <=> ReadU32(o) = i
<1>1. Radix \in Nat \ {0} /\ U32Len \in Nat
  BY BundleAssumption
<1>2. o \in Seq(0..(Radix - 1)) /\ Len(o) = U32Len
  BY <1>1 DEF KeyOctet
<1>3. ReadU32(o) \in Nat /\ ReadU32(o) <= Largest(Radix, U32Len)
  BY <1>1, <1>2, DigitsType, AtMostLargest DEF ReadU32
<1>4. MaxU32 = Largest(Radix, U32Len) /\ Largest(Radix, U32Len) \in Nat
  BY <1>1, LargestMore DEF MaxU32, Largest
<1>5. \A s \in [1..U32Len -> KeyOctet] : U32Octets(ReadU32(s)) = s
  BY <1>1, DigitsBack DEF U32Octets, ReadU32, KeyOctet
<1>6. ASSUME i <= MaxU32, o = U32Octets(i) PROVE ReadU32(o) = i
  <2>1. i \in 0..Largest(Radix, U32Len)
    BY <1>4, <1>6
  <2>2. PICK s \in [1..U32Len -> KeyOctet] : ReadU32(s) = i
    BY <1>1, <2>1, HasDigits DEF ReadU32, KeyOctet
  <2> QED BY <1>5, <1>6, <2>2
<1> QED BY <1>3, <1>4, <1>5, <1>6

(* A length is written in the width of its field.                          *)
LEMMA LengthWritten ==
  ASSUME NEW i \in Nat, i <= MaxU32
  PROVE  U32Octets(i) \in Seq(KeyOctet) /\ Len(U32Octets(i)) = U32Len
<1>1. Radix \in Nat \ {0} /\ U32Len \in Nat
  BY BundleAssumption
<1>2. MaxU32 = Largest(Radix, U32Len) /\ Largest(Radix, U32Len) \in Nat
  BY <1>1, LargestMore DEF MaxU32, Largest
<1>3. i \in 0..Largest(Radix, U32Len)
  BY <1>2
<1>4. PICK s \in [1..U32Len -> KeyOctet] : ReadU32(s) = i
  BY <1>1, <1>3, HasDigits DEF ReadU32, KeyOctet
<1>5. U32Octets(i) = s
  BY <1>1, <1>4, DigitsBack DEF U32Octets, ReadU32, KeyOctet
<1> QED BY <1>1, <1>4, <1>5

(* The private bundle is decoded to the halves it is encoded from, with    *)
(* every length that is checked on the way.                                *)
LEMMA PrivateRead ==
  ASSUME NEW data \in Seq(KeyOctet)
  PROVE  DecodePrivate(data) = PrivateMeaning(data)
<1> DEFINE M == Len(KeyMagic)
           U == U32Len
           L == Len(data)
           rest == L - HeaderLen
           P == Pairs(rest)
           o == Part(data, M, U)
           oo == Part(data, M + U, U)
           n == ReadU32(o)
           m == ReadU32(oo)
           q == <<Part(data, HeaderLen, n), Part(data, HeaderLen + n, m)>>
           W(p) == data \in EncodePrivate(p[1], p[2])
           ok == Part(data, 0, M) = KeyMagic /\ IsBoth(rest, n, m)
<1>1. L \in Nat /\ M \in Nat /\ U \in Nat /\ HeaderLen = (M + U) + U /\ HeaderLen \in Nat
      /\ KeyMagic \in Seq(KeyOctet) /\ MaxU32 \in Nat
  <2>1. L \in Nat /\ M \in Nat /\ U \in Nat /\ KeyMagic \in Seq(KeyOctet) /\ Radix \in Nat \ {0}
    BY LenProperties, BundleAssumption
  <2> HIDE DEF M, U, L
  <2>2. HeaderLen = (M + U) + U /\ HeaderLen \in Nat
    BY <2>1 DEF HeaderLen, M, U
  <2>3. MaxU32 \in Nat
    BY <2>1, LargestMore DEF MaxU32, Largest, U
  <2> QED BY <2>1, <2>2, <2>3
<1>2. PrivateMeaning(data) = {p \in P : W(p)}
  BY DEF PrivateMeaning
<1>3. CASE L < HeaderLen
  <2>1. P = {}
    <3>1. 0..rest = {}
      BY <1>1, <1>3
    <3> QED BY <3>1 DEF Pairs
  <2>2. DecodePrivate(data) = {}
    BY <1>3 DEF DecodePrivate
  <2> HIDE DEF P, W
  <2> QED BY <1>2, <2>1, <2>2
<1>4. CASE L >= HeaderLen
  <2>1. rest \in Nat /\ L = HeaderLen + rest
    BY <1>1, <1>4
  <2>2. DecodePrivate(data) = IF ok THEN {q} ELSE {}
    <3>1. ~(L < HeaderLen)
      BY <1>1, <1>4
    <3> QED BY <3>1 DEF DecodePrivate
  <2>3. /\ o \in [1..U -> KeyOctet] /\ oo \in [1..U -> KeyOctet]
        /\ o \in Seq(KeyOctet) /\ oo \in Seq(KeyOctet) /\ Len(o) = U /\ Len(oo) = U
    <3> HIDE DEF M, U, L, rest
    <3>1. M + U <= L /\ M + U \in Nat /\ M + U + U <= L
      BY <1>1, <1>4
    <3> QED BY <1>1, <3>1, PartType DEF L
  <2>4. n \in Nat /\ m \in Nat
    BY <2>3, LengthRead
  <2>5. ASSUME NEW i \in 0..rest, NEW a \in [1..i -> KeyOctet], NEW b \in [1..(rest - i) -> KeyOctet]
        PROVE  data \in EncodePrivate(a, b) <=> ok /\ a = q[1] /\ b = q[2]
    <3> DEFINE j == rest - i
               x == U32Octets(i)
               y == U32Octets(j)
               c1 == Cat(KeyMagic, x)
               c2 == Cat(c1, y)
               c3 == Cat(c2, a)
               c4 == Cat(c3, b)
    <3>1. i \in Nat /\ j \in Nat /\ i + j = rest /\ L = (HeaderLen + i) + j
      BY <1>1, <2>1
    <3>2. /\ a \in Seq(KeyOctet) /\ Len(a) = i /\ b \in Seq(KeyOctet) /\ Len(b) = j
      <4> HIDE DEF j
      <4>1. b \in [1..j -> KeyOctet]
        BY DEF j
      <4> QED BY <3>1, <4>1
    <3>3. data \in EncodePrivate(a, b) <=> i <= MaxU32 /\ j <= MaxU32 /\ c4 = data
      BY <3>2 DEF EncodePrivate, FitsLength, Cat
    <3>4. \A k \in Nat : k <= MaxU32 => U32Octets(k) \in Seq(KeyOctet) /\ Len(U32Octets(k)) = U
      BY LengthWritten
    <3> HIDE DEF rest, j, n, m
    <3>5. ASSUME i <= MaxU32, j <= MaxU32
          PROVE  c4 = data <=> /\ KeyMagic = Part(data, 0, M) /\ x = o /\ y = oo
                               /\ a = Part(data, HeaderLen, i) /\ b = Part(data, HeaderLen + i, j)
      <4>5. x \in Seq(KeyOctet) /\ Len(x) = U /\ y \in Seq(KeyOctet) /\ Len(y) = U
        BY <3>1, <3>4, <3>5
      <4> HIDE DEF x, y, M, U, L, o, oo
      <4>6. c1 \in Seq(KeyOctet) /\ Len(c1) = M + U
        BY <1>1, <4>5, CatType DEF M
      <4> HIDE DEF c1
      <4>7. c2 \in Seq(KeyOctet) /\ Len(c2) = HeaderLen
        BY <1>1, <4>5, <4>6, CatType, ZenonT(30)
      <4> HIDE DEF c2
      <4>8. c3 \in Seq(KeyOctet) /\ Len(c3) = HeaderLen + i
        BY <1>1, <3>2, <4>7, CatType
      <4> HIDE DEF c3
      <4>9. c4 = data <=> c3 = Part(data, 0, HeaderLen + i) /\ b = Part(data, HeaderLen + i, j)
        <5> DEFINE k == HeaderLen + i
        <5>1. /\ data \in Seq(KeyOctet) /\ c3 \in Seq(KeyOctet) /\ b \in Seq(KeyOctet)
              /\ k \in Nat /\ j \in Nat /\ Len(c3) = k /\ Len(b) = j /\ k + j <= Len(data)
          BY <1>1, <3>1, <3>2, <4>8 DEF L
        <5>2. Part(data, 0, k + j) = data
          BY <3>1, WholePart DEF L
        <5> HIDE DEF k
        <5>3. Cat(c3, b) = Part(data, 0, k + j) <=> c3 = Part(data, 0, k) /\ b = Part(data, k, j)
          BY ONLY <5>1, SplitPart
        <5> QED BY <5>2, <5>3 DEF k
      <4>10. c3 = Part(data, 0, HeaderLen + i) <=> c2 = Part(data, 0, HeaderLen) /\ a = Part(data, HeaderLen, i)
        <5>1. /\ data \in Seq(KeyOctet) /\ c2 \in Seq(KeyOctet) /\ a \in Seq(KeyOctet)
              /\ HeaderLen \in Nat /\ i \in Nat /\ Len(c2) = HeaderLen /\ Len(a) = i
              /\ HeaderLen + i <= Len(data)
          BY <1>1, <3>1, <3>2, <4>7 DEF L
        <5>2. Cat(c2, a) = Part(data, 0, HeaderLen + i)
                <=> c2 = Part(data, 0, HeaderLen) /\ a = Part(data, HeaderLen, i)
          BY ONLY <5>1, SplitPart
        <5> QED BY <5>2 DEF c3
      <4>11. c2 = Part(data, 0, HeaderLen) <=> c1 = Part(data, 0, M + U) /\ y = oo
        <5> DEFINE k == M + U
        <5>1. /\ data \in Seq(KeyOctet) /\ c1 \in Seq(KeyOctet) /\ y \in Seq(KeyOctet)
              /\ k \in Nat /\ U \in Nat /\ Len(c1) = k /\ Len(y) = U /\ k + U <= Len(data)
              /\ HeaderLen = k + U
          BY <1>1, <1>4, <4>5, <4>6 DEF L
        <5> HIDE DEF k
        <5>2. Cat(c1, y) = Part(data, 0, k + U) <=> c1 = Part(data, 0, k) /\ y = Part(data, k, U)
          BY ONLY <5>1, SplitPart
        <5> QED BY <5>1, <5>2 DEF c2, k, oo
      <4>12. c1 = Part(data, 0, M + U) <=> KeyMagic = Part(data, 0, M) /\ x = o
        <5>1. /\ data \in Seq(KeyOctet) /\ KeyMagic \in Seq(KeyOctet) /\ x \in Seq(KeyOctet)
              /\ M \in Nat /\ U \in Nat /\ Len(KeyMagic) = M /\ Len(x) = U /\ M + U <= Len(data)
          BY <1>1, <1>4, <4>5 DEF L, M
        <5>2. Cat(KeyMagic, x) = Part(data, 0, M + U) <=> KeyMagic = Part(data, 0, M) /\ x = Part(data, M, U)
          BY ONLY <5>1, SplitPart
        <5> QED BY <5>2 DEF c1, o
      <4> QED BY <4>9, <4>10, <4>11, <4>12 DEF c1, c2, c3
    <3> HIDE DEF x, y, M, U, L, o, oo, c1, c2, c3, c4
    <3>13. /\ i <= MaxU32 /\ o = x <=> n = i
           /\ j <= MaxU32 /\ oo = y <=> m = j
      BY <2>3, <3>1, LengthRead DEF x, y, n, m, U
    <3>14. n = i /\ m = j <=> IsBoth(rest, n, m) /\ n = i
      <4>1. IsBoth(rest, n, m) <=> i + j = n + m
        BY <3>1 DEF IsBoth
      <4>2. n \in Nat /\ m \in Nat /\ i \in Nat /\ j \in Nat
        BY <2>4, <3>1
      <4> QED BY ONLY <4>1, <4>2
    <3>15. ASSUME ok, a = q[1], b = q[2] PROVE n = i
      <4>1. a = Part(data, HeaderLen, n) /\ n + m = rest
        BY <3>15, <2>4 DEF IsBoth
      <4>2. HeaderLen + n <= L
        BY <1>1, <2>1, <2>4, <4>1
      <4>3. Len(Part(data, HeaderLen, n)) = n
        BY <1>1, <2>4, <4>2, PartType DEF L
      <4> QED BY <3>2, <4>1, <4>3
    <3>16. data \in EncodePrivate(a, b)
             <=> /\ n = i /\ m = j /\ KeyMagic = Part(data, 0, M)
                 /\ a = Part(data, HeaderLen, i) /\ b = Part(data, HeaderLen + i, j)
      BY <3>3, <3>5, <3>13
    <3>17. data \in EncodePrivate(a, b)
             => ok /\ a = Part(data, HeaderLen, n) /\ b = Part(data, HeaderLen + n, m)
      BY <3>14, <3>16
    <3>18. ok /\ a = Part(data, HeaderLen, n) /\ b = Part(data, HeaderLen + n, m)
             => data \in EncodePrivate(a, b)
      BY <3>14, <3>15, <3>16
    <3> QED BY <3>17, <3>18
  <2>6. ASSUME NEW p \in P PROVE W(p) <=> ok /\ p = q
    <3>1. PICK i \in 0..rest : p \in [1..i -> KeyOctet] \X [1..(rest - i) -> KeyOctet]
      BY DEF Pairs
    <3> HIDE DEF q, ok, rest
    <3>2. p[1] \in [1..i -> KeyOctet] /\ p[2] \in [1..(rest - i) -> KeyOctet] /\ p = <<p[1], p[2]>>
      BY <3>1
    <3>3. W(p) <=> ok /\ p[1] = q[1] /\ p[2] = q[2]
      BY <2>5, <3>2
    <3>4. q = <<q[1], q[2]>>
      BY DEF q
    <3> QED BY <3>2, <3>3, <3>4
  <2>7. ok => q \in P
    <3> SUFFICES ASSUME ok PROVE q \in P
      OBVIOUS
    <3>1. n + m = rest
      BY DEF IsBoth
    <3> DEFINE a == Part(data, HeaderLen, n)
               b == Part(data, HeaderLen + n, m)
    <3> HIDE DEF n, m
    <3>2. a \in [1..n -> KeyOctet] /\ b \in [1..m -> KeyOctet]
      <4>1. HeaderLen + n <= L /\ HeaderLen + n + m <= L /\ HeaderLen + n \in Nat
        BY <1>1, <2>1, <2>4, <3>1
      <4> QED BY <1>1, <2>4, <4>1, PartType
    <3>3. n \in 0..rest /\ rest - n = m
      BY <2>1, <2>4, <3>1
    <3> HIDE DEF a, b, rest
    <3>4. <<a, b>> \in [1..n -> KeyOctet] \X [1..(rest - n) -> KeyOctet]
      BY <3>2, <3>3
    <3>5. <<a, b>> \in P
      BY <3>3, <3>4 DEF Pairs
    <3> QED BY <3>5 DEF a, b
  <2> HIDE DEF P, W, q, ok
  <2>8. {p \in P : W(p)} = IF ok THEN {q} ELSE {}
    BY <2>6, <2>7
  <2> QED BY <1>2, <2>2, <2>8
<1> QED BY <1>1, <1>3, <1>4

(* Every key bundle is read as the one key it was written from             *)
(* (lib.rs:511, 545).                                                      *)
THEOREM KeysExact == FormatsSpec => []KeysAsWritten
<1>1. InputOK => KeysAsWritten
  BY PublicRead, PrivateRead DEF InputOK, KeysAsWritten, KeyAsWritten
<1> QED BY <1>1, InputsRead, PTL

-----------------------------------------------------------------------------
(* Durations.                                                              *)

(* The characters of an argument.                                          *)
Chars == Digits \cup Letters

(* No element of a sequence is in a set.                                   *)
LEMMA RangeOf ==
  ASSUME NEW s, NEW S
  PROVE  Range(s) \cap S = {} <=> \A i \in DOMAIN s : s[i] \notin S
BY DEF Range

(* An argument without a unit letter at its end.                           *)
LEMMA UnsignedMeant ==
  ASSUME NEW chars \in Seq(Chars)
  PROVE  Unsigned(chars) # Error =>
           /\ SignLen(chars) < Len(chars)
           /\ Range(Number(chars, Len(chars))) \cap Letters = {}
           /\ Unsigned(chars) = Value(Number(chars, Len(chars)))
           /\ Unsigned(chars) \in Nat
<1> DEFINE k == SignLen(chars)
           d == IF chars # <<>> /\ Head(chars) = Plus THEN Tail(chars) ELSE chars
<1> SUFFICES ASSUME Unsigned(chars) # Error
             PROVE  /\ k < Len(chars) /\ Range(Number(chars, Len(chars))) \cap Letters = {}
                    /\ Unsigned(chars) = Value(Number(chars, Len(chars)))
                    /\ Unsigned(chars) \in Nat
  OBVIOUS
<1>1. d # <<>> /\ Range(d) \cap Letters = {} /\ Unsigned(chars) = Value(d)
  BY DEF Unsigned
<1>2. d = Number(chars, Len(chars)) /\ k < Len(chars) /\ d \in Seq(Chars)
  <2>1. CASE chars # <<>> /\ Head(chars) = Plus
    <3>1. d = Tail(chars) /\ k = 1 /\ Tail(chars) = SubSeq(chars, 2, Len(chars)) /\ d \in Seq(Chars)
          /\ Len(d) = Len(chars) - 1
      BY <2>1, TailIsSubSeq, HeadTailProperties DEF SignLen
    <3>2. Len(d) \in Nat \ {0} /\ Len(chars) \in Nat
      BY <1>1, <3>1, EmptySeq, LenProperties
    <3> HIDE DEF d
    <3>3. Number(chars, Len(chars)) = SubSeq(chars, 2, Len(chars))
      <4>1. SignLen(chars) + 1 = 2
        BY <3>1
      <4> QED BY <4>1 DEF Number
    <3> QED BY <3>1, <3>2, <3>3
  <2>2. CASE ~(chars # <<>> /\ Head(chars) = Plus)
    <3>1. d = chars /\ k = 0 /\ SubSeq(chars, 1, Len(chars)) = chars
      BY <2>2, SubSeqFull DEF SignLen
    <3>2. Len(chars) \in Nat \ {0}
      BY <1>1, <3>1, EmptySeq
    <3> HIDE DEF d
    <3>3. Number(chars, Len(chars)) = SubSeq(chars, 1, Len(chars))
      <4>1. SignLen(chars) + 1 = 1
        BY <3>1
      <4> QED BY <4>1 DEF Number
    <3> QED BY <3>1, <3>2, <3>3
  <2> QED BY <2>1, <2>2
<1> HIDE DEF d, k
<1>3. Unsigned(chars) \in Nat
  <2>1. d \in Seq(Digits)
    <3>1. \A i \in 1..Len(d) : d[i] \in Chars /\ d[i] \notin Letters
      BY <1>1, <1>2, RangeOf
    <3>2. \A i \in 1..Len(d) : d[i] \in Digits
      BY <3>1 DEF Chars
    <3> QED BY <1>2, <3>2, LenProperties
  <2>2. Digits = 0..(10 - 1) /\ 10 \in Nat \ {0}
    BY DEF Digits
  <2> QED BY <1>1, <2>1, <2>2, DigitsType DEF Value
<1> QED BY <1>1, <1>2, <1>3 DEF k

(* An argument says the number that is before a suffix of the comment.     *)
SaysAt(arg, i, u) ==
  /\ i \in (SignLen(arg) + 1)..Len(arg) /\ u \in UnitSuffixes
  /\ From(arg, i) = u[1] /\ Range(Number(arg, i)) \cap Letters = {}

(* What an argument says, with the places where it may be cut.             *)
LEMMA SaysSaid ==
  ASSUME NEW arg
  PROVE  Says(arg) = {Value(Number(arg, p[1])) * p[2][2] :
                        p \in {q \in ((SignLen(arg) + 1)..Len(arg)) \X UnitSuffixes : SaysAt(arg, q[1], q[2])}}
<1> DEFINE Q == ((SignLen(arg) + 1)..Len(arg)) \X UnitSuffixes
<1>1. \A q \in Q : SaysAt(arg, q[1], q[2]) <=>
                     From(arg, q[1]) = q[2][1] /\ Range(Number(arg, q[1])) \cap Letters = {}
  BY DEF SaysAt
<1> HIDE DEF Q
<1>2. {q \in Q : SaysAt(arg, q[1], q[2])}
        = {q \in Q : From(arg, q[1]) = q[2][1] /\ Range(Number(arg, q[1])) \cap Letters = {}}
  BY <1>1
<1> QED BY <1>2 DEF Says, Q

(* It says one thing at most.                                              *)
LEMMA SaidOnce ==
  ASSUME NEW arg \in Seq(Chars), NEW i, NEW u, SaysAt(arg, i, u), NEW j, NEW w, SaysAt(arg, j, w)
  PROVE  i = j /\ u = w
<1>1. /\ i \in Nat /\ j \in Nat /\ Len(arg) \in Nat /\ SignLen(arg) \in Nat
      /\ i \in (SignLen(arg) + 1)..Len(arg) /\ j \in (SignLen(arg) + 1)..Len(arg)
  BY LenProperties DEF SaysAt, SignLen
<1>2. ASSUME NEW m \in Nat, NEW n \in Nat, NEW x, NEW y, SaysAt(arg, m, x), SaysAt(arg, n, y)
      PROVE  ~(m < n)
  <2> SUFFICES ASSUME m < n PROVE FALSE
    OBVIOUS
  <2>1. m \in (SignLen(arg) + 1)..Len(arg) /\ n \in (SignLen(arg) + 1)..Len(arg) /\ SignLen(arg) \in Nat
    BY <1>2 DEF SaysAt, SignLen
  <2>2. /\ Len(From(arg, m)) = Len(arg) - m
        /\ \A k \in 1..(Len(arg) - m) : From(arg, m)[k] = arg[m + k]
    <3>1. m \in 0..Len(arg)
      BY <2>1
    <3> QED BY <3>1, FromType
  <2>3. x[1] \in {<<>>, <<LetterM, LetterS>>, <<LetterS>>, <<LetterM>>, <<LetterH>>}
    BY <1>2 DEF SaysAt, UnitSuffixes
  <2>4. \A k \in 1..Len(x[1]) : x[1][k] \in {LetterS, LetterM, LetterH}
    BY <2>3
  <2>5. n - m \in 1..(Len(arg) - m) /\ m + (n - m) = n
    BY <1>1, <2>1
  <2>6. From(arg, m) = x[1]
    BY <1>2 DEF SaysAt
  <2>7. arg[n] \in Letters
    BY <2>2, <2>4, <2>5, <2>6 DEF Letters
  <2> DEFINE s == SignLen(arg) + 1
  <2>8. Number(arg, n) = SubSeq(arg, s, n) /\ s \in 1..n /\ s \in Nat
    BY <2>1 DEF Number
  <2> HIDE DEF s
  <2>9. \A k \in s..n : arg[k] \in Chars
    BY <1>1, <2>1, <2>8
  <2>10. /\ Len(Number(arg, n)) = n - s + 1
         /\ \A k \in 1..(n - s + 1) : Number(arg, n)[k] = arg[s + k - 1]
    BY <1>1, <2>8, <2>9, SubSeqProperties
  <2>11. Number(arg, n) \in Seq(Chars)
    BY <1>1, <2>8, <2>9, SubSeqProperties
  <2>12. n - s + 1 \in 1..(n - s + 1) /\ s + (n - s + 1) - 1 = n
    BY <2>8
  <2>13. Number(arg, n)[n - s + 1] = arg[n]
    BY <2>10, <2>12
  <2>14. n - s + 1 \in DOMAIN Number(arg, n)
    BY <2>10, <2>11, <2>12
  <2>15. Range(Number(arg, n)) \cap Letters = {}
    BY <1>2 DEF SaysAt
  <2> QED BY <2>7, <2>13, <2>14, <2>15, RangeOf
<1>3. i = j
  <2>1. ~(i < j) /\ ~(j < i)
    BY <1>1, <1>2
  <2> QED BY <1>1, <2>1
<1>4. u[1] = w[1] /\ u \in UnitSuffixes /\ w \in UnitSuffixes
  BY <1>3 DEF SaysAt
<1>5. u = w
  <2> DEFINE ms == <<LetterM, LetterS>>
             sec == <<LetterS>>
             mi == <<LetterM>>
             ho == <<LetterH>>
             no == <<>>
  <2>1. /\ ms # sec /\ ms # mi /\ ms # ho /\ ms # no /\ sec # no /\ mi # no /\ ho # no
        /\ sec # mi /\ sec # ho /\ mi # ho
    BY DurationAssumption
  <2>2. UnitSuffixes = {<<no, 1000>>, <<ms, 1>>, <<sec, 1000>>, <<mi, 1000 * Minute>>, <<ho, 1000 * Hour>>}
    BY DEF UnitSuffixes
  <2> HIDE DEF ms, sec, mi, ho, no
  <2> QED BY <1>4, <2>1, <2>2
<1> QED BY <1>3, <1>5

(* What is said once is all that is said.                                  *)
LEMMA SaysIt ==
  ASSUME NEW arg \in Seq(Chars), NEW i, NEW u, SaysAt(arg, i, u)
  PROVE  Says(arg) = {Value(Number(arg, i)) * u[2]}
<1> DEFINE Q == {q \in ((SignLen(arg) + 1)..Len(arg)) \X UnitSuffixes : SaysAt(arg, q[1], q[2])}
<1>1. <<i, u>> \in Q
  BY DEF SaysAt
<1>2. \A q \in Q : q = <<i, u>>
  <2> SUFFICES ASSUME NEW q \in Q PROVE q = <<i, u>>
    OBVIOUS
  <2>1. SaysAt(arg, q[1], q[2]) /\ q = <<q[1], q[2]>>
    OBVIOUS
  <2>2. q[1] = i /\ q[2] = u
    BY <2>1, SaidOnce
  <2> QED BY <2>1, <2>2
<1> HIDE DEF Q
<1>3. Q = {<<i, u>>}
  BY <1>1, <1>2
<1>4. Says(arg) = {Value(Number(arg, p[1])) * p[2][2] : p \in Q}
  BY SaysSaid DEF Q
<1> QED BY <1>3, <1>4

(* A number and one unit letter.                                           *)
LEMMA BeforeLetter ==
  ASSUME NEW arg \in Seq(Chars), NEW c, EndsIn(arg, c), Unsigned(Front(arg)) # Error,
         NEW f, <<<<c>>, f>> \in UnitSuffixes
  PROVE  /\ Says(arg) = {Unsigned(Front(arg)) * f}
         /\ Unsigned(Front(arg)) \in Nat
<1> DEFINE n == Len(arg) - 1
           t == Front(arg)
<1>1. Len(arg) \in Nat \ {0} /\ arg[Len(arg)] = c
  BY EmptySeq DEF EndsIn, Last
<1>2. n \in Nat /\ Len(arg) = n + 1 /\ n \in 0..Len(arg)
  BY <1>1
<1>3. t = SubSeq(arg, 1, n)
  BY DEF Front
<1> HIDE DEF n
<1>4. t \in Seq(Chars) /\ Len(t) = n /\ \A k \in 1..n : t[k] = arg[k]
  <2>1. \A k \in 1..n : arg[k] \in Chars
    BY <1>2
  <2>2. 1 \in 1..(n + 1) /\ n - 1 + 1 = n /\ \A k \in 1..n : 1 + k - 1 = k
    BY <1>2
  <2> QED BY <1>2, <1>3, <2>1, <2>2, SubSeqProperties
<1> HIDE DEF t
<1>5. /\ SignLen(t) < n
      /\ Range(Number(t, n)) \cap Letters = {}
      /\ Unsigned(t) = Value(Number(t, n)) /\ Unsigned(t) \in Nat
  BY <1>4, UnsignedMeant DEF t
<1>6. SignLen(t) = SignLen(arg) /\ SignLen(t) \in Nat
  <2>1. SignLen(t) \in Nat
    BY DEF SignLen
  <2>2. t # <<>> /\ arg # <<>> /\ Head(t) = Head(arg)
    <3>1. n \in Nat /\ n # 0 /\ 1 \in 1..n
      BY <1>2, <1>5, <2>1
    <3>2. t # <<>> /\ arg # <<>>
      BY <1>1, <1>4, <3>1, EmptySeq
    <3>3. t[1] = arg[1]
      BY <1>4, <3>1
    <3> QED BY <1>4, <3>2, <3>3
  <2> QED BY <2>1, <2>2 DEF SignLen
<1> DEFINE s == SignLen(arg) + 1
<1>7. s \in 1..n
  BY <1>2, <1>5, <1>6
<1> HIDE DEF s
<1>8. Number(t, n) = Number(arg, n)
  <2>1. Number(t, n) = SubSeq(t, s, n) /\ Number(arg, n) = SubSeq(arg, s, n)
    BY <1>6 DEF Number, s
  <2>2. s \in 1..(Len(t) + 1) /\ s \in 1..(Len(arg) + 1) /\ n \in (s - 1)..Len(t) /\ n \in (s - 1)..Len(arg)
    BY <1>2, <1>4, <1>7
  <2>3. (\A k \in s..n : arg[k] \in Chars) /\ (\A k \in s..n : t[k] \in Chars)
    BY <1>2, <1>4, <1>7
  <2> DEFINE x == SubSeq(t, s, n)
             y == SubSeq(arg, s, n)
  <2>4. x \in Seq(Chars) /\ Len(x) = n - s + 1 /\ \A k \in 1..(n - s + 1) : x[k] = t[s + k - 1]
    BY <1>4, <2>2, <2>3, SubSeqProperties
  <2>5. y \in Seq(Chars) /\ Len(y) = n - s + 1 /\ \A k \in 1..(n - s + 1) : y[k] = arg[s + k - 1]
    BY <2>2, <2>3, SubSeqProperties
  <2> HIDE DEF x, y
  <2>6. ASSUME NEW k \in 1..(n - s + 1) PROVE x[k] = y[k]
    <3>1. s + k - 1 \in 1..n
      BY <1>2, <1>7
    <3> QED BY <1>4, <2>4, <2>5, <3>1
  <2>7. x = y
    BY <2>4, <2>5, <2>6, SeqEqual
  <2> QED BY <2>1, <2>7 DEF x, y
<1>9. From(arg, n) = <<c>>
  <2> DEFINE v == From(arg, n)
             w == <<c>>
  <2>1. v \in Seq(Chars) /\ Len(v) = 1 /\ \A k \in 1..1 : v[k] = arg[n + k]
    <3>1. Len(arg) - n = 1
      BY <1>2
    <3> QED BY <1>2, <3>1, FromType
  <2>2. w \in Seq(Chars) /\ Len(w) = 1 /\ w[1] = c
    BY <1>1
  <2> HIDE DEF v, w
  <2>3. \A k \in 1..1 : v[k] = w[k]
    BY <1>1, <1>2, <2>1, <2>2
  <2>4. v = w
    BY <2>1, <2>2, <2>3, SeqEqual
  <2> QED BY <2>4 DEF v, w
<1> DEFINE u == <<<<c>>, f>>
<1>10. u[1] = <<c>> /\ u[2] = f /\ u \in UnitSuffixes
  OBVIOUS
<1> HIDE DEF u
<1>11. n \in (SignLen(arg) + 1)..Len(arg)
  BY <1>2, <1>7 DEF s
<1>12. SaysAt(arg, n, u)
  BY <1>5, <1>8, <1>9, <1>10, <1>11 DEF SaysAt
<1>13. Says(arg) = {Value(Number(arg, n)) * u[2]}
  BY <1>12, SaysIt
<1> QED BY <1>5, <1>8, <1>10, <1>13 DEF t

(* An argument that is digits and a sign says seconds.                     *)
LEMMA NoLetter ==
  ASSUME NEW arg \in Seq(Chars), Unsigned(arg) # Error
  PROVE  Says(arg) = {Unsigned(arg) * 1000} /\ Unsigned(arg) \in Nat
<1> DEFINE n == Len(arg)
           u == <<<<>>, 1000>>
<1>1. /\ SignLen(arg) < n /\ Range(Number(arg, n)) \cap Letters = {}
      /\ Unsigned(arg) = Value(Number(arg, n)) /\ Unsigned(arg) \in Nat
  BY UnsignedMeant
<1>2. n \in Nat /\ SignLen(arg) \in Nat
  BY LenProperties DEF SignLen
<1> HIDE DEF n
<1>3. n \in (SignLen(arg) + 1)..n /\ n \in 0..n
  BY <1>1, <1>2
<1>4. From(arg, n) = <<>>
  <2>1. From(arg, n) \in Seq(Chars) /\ Len(From(arg, n)) = n - n
    BY <1>3, FromType DEF n
  <2> QED BY <1>2, <2>1, EmptySeq
<1>5. u \in UnitSuffixes /\ u[1] = <<>> /\ u[2] = 1000
  BY DEF UnitSuffixes
<1> HIDE DEF u
<1>6. SaysAt(arg, n, u)
  BY <1>1, <1>3, <1>4, <1>5 DEF SaysAt, n
<1>7. Says(arg) = {Value(Number(arg, n)) * u[2]}
  BY <1>6, SaysIt
<1> QED BY <1>1, <1>5, <1>7

(* An accepted argument says what it is read as.                           *)
LEMMA Accepted ==
  ASSUME NEW arg \in Seq(Chars)
  PROVE  AcceptedMeant(arg)
<1> DEFINE r == ParseDuration(arg)
<1> SUFFICES ASSUME r \notin {Error, Panic} PROVE Says(arg) = {1000 * r}
  BY DEF AcceptedMeant
<1>1. ASSUME NEW chars, NEW unit \in Nat, r = InUnits(chars, unit), Unsigned(chars) \in Nat
      PROVE  r = Unsigned(chars) * unit
  BY <1>1, DurationAssumption DEF InUnits, Times
<1>2. ASSUME NEW chars, NEW unit, r = InUnits(chars, unit)
      PROVE  Unsigned(chars) # Error
  BY <1>2 DEF InUnits
<1>3. ASSUME NEW c, NEW unit \in Nat, EndsIn(arg, c), r = InUnits(Front(arg), unit),
             <<<<c>>, 1000 * unit>> \in UnitSuffixes
      PROVE  Says(arg) = {1000 * r}
  <2> DEFINE v == Unsigned(Front(arg))
  <2>1. v # Error
    BY <1>2, <1>3
  <2>2. Says(arg) = {v * (1000 * unit)} /\ v \in Nat
    BY <1>3, <2>1, BeforeLetter
  <2>3. r = v * unit
    BY <1>1, <1>3, <2>2
  <2> HIDE DEF v
  <2>4. v * (1000 * unit) = 1000 * (v * unit)
    BY <2>2
  <2> QED BY <2>2, <2>3, <2>4
<1>4. CASE EndsIn(arg, LetterS)
  <2>1. r = InUnits(Front(arg), 1)
    BY <1>4, DurationAssumption DEF ParseDuration, EndsIn
  <2>2. <<<<LetterS>>, 1000 * 1>> \in UnitSuffixes
    BY DEF UnitSuffixes
  <2> QED BY <1>3, <1>4, <2>1, <2>2
<1>5. CASE EndsIn(arg, LetterM)
  <2>1. r = InUnits(Front(arg), Minute)
    BY <1>5, DurationAssumption DEF ParseDuration, EndsIn
  <2>2. <<<<LetterM>>, 1000 * Minute>> \in UnitSuffixes /\ Minute \in Nat
    BY DurationAssumption DEF UnitSuffixes
  <2> QED BY <1>3, <1>5, <2>1, <2>2
<1>6. CASE EndsIn(arg, LetterH)
  <2>1. r = InUnits(Front(arg), Hour)
    BY <1>6, DurationAssumption DEF ParseDuration, EndsIn
  <2>2. <<<<LetterH>>, 1000 * Hour>> \in UnitSuffixes /\ Hour \in Nat
    BY DurationAssumption DEF UnitSuffixes
  <2> QED BY <1>3, <1>6, <2>1, <2>2
<1>7. CASE ~EndsIn(arg, LetterS) /\ ~EndsIn(arg, LetterM) /\ ~EndsIn(arg, LetterH)
  <2>1. r = InUnits(arg, 1)
    BY <1>7 DEF ParseDuration
  <2>2. Unsigned(arg) # Error
    BY <1>2, <2>1
  <2>3. Says(arg) = {Unsigned(arg) * 1000} /\ Unsigned(arg) \in Nat
    BY <2>2, NoLetter
  <2>4. r = Unsigned(arg) * 1
    BY <1>1, <2>1, <2>3
  <2> QED BY <2>3, <2>4
<1> QED BY <1>4, <1>5, <1>6, <1>7

(* An accepted timeout is the one the argument says, of whatever length    *)
(* the argument is (parse_duration).                                       *)
THEOREM AcceptedExact == FormatsSpec => []AcceptedIsMeant
<1>1. InputOK => AcceptedIsMeant
  <2>1. ArgumentChars \subseteq Chars
    BY InputsAssumption DEF Chars
  <2>2. Seq(ArgumentChars) \subseteq Seq(Chars)
    BY <2>1
  <2> QED BY <2>2, Accepted DEF InputOK, AcceptedIsMeant
<1> QED BY <1>1, InputsRead, PTL

-----------------------------------------------------------------------------
(* The frame check sequence.                                               *)

(* A step is linear.                                                       *)
LEMMA ShiftXor ==
  ASSUME NEW a \in SUBSET Nat, NEW b \in SUBSET Nat
  PROVE  ShiftRight(Xor(a, b)) = Xor(ShiftRight(a), ShiftRight(b))
<1>1. ASSUME NEW w \in SUBSET Nat, NEW x
      PROVE  x \in ShiftRight(w) <=> x \in Nat /\ x + 1 \in w
  BY DEF ShiftRight
<1>2. Xor(a, b) \in SUBSET Nat
  BY DEF Xor
<1>3. ASSUME NEW x PROVE x \in ShiftRight(Xor(a, b)) <=> x \in Xor(ShiftRight(a), ShiftRight(b))
  <2>1. x \in ShiftRight(Xor(a, b)) <=> x \in Nat /\ x + 1 \in Xor(a, b)
    BY <1>1, <1>2
  <2>2. x + 1 \in Xor(a, b) <=> ~(x + 1 \in a <=> x + 1 \in b)
    BY DEF Xor
  <2>3. x \in Xor(ShiftRight(a), ShiftRight(b)) <=> ~(x \in ShiftRight(a) <=> x \in ShiftRight(b))
    BY DEF Xor
  <2> QED BY <1>1, <2>1, <2>2, <2>3
<1> QED BY <1>3

(* Above its lowest bit a register only moves.                             *)
LEMMA StepLinear ==
  ASSUME NEW c \in SUBSET Nat, NEW y \in SUBSET Nat, 0 \notin y
  PROVE  UpdateBit(Xor(c, y)) = Xor(UpdateBit(c), ShiftRight(y))
<1>1. 0 \in Xor(c, y) <=> 0 \in c
  BY DEF Xor
<1>2. ShiftRight(Xor(c, y)) = Xor(ShiftRight(c), ShiftRight(y))
  BY ShiftXor
<1>3. \A p, q, r : Xor(Xor(p, q), r) = Xor(Xor(p, r), q)
  BY DEF Xor
<1> QED BY <1>1, <1>2, <1>3 DEF UpdateBit

(* What eight bits make of a word, the state after each bit.               *)
LEMMA EightBits ==
  ASSUME NEW w \in Word
  PROVE  /\ UpdateBit(w) \in Word
         /\ Loop(BitStep, w, <<1, 2, 3, 4, 5, 6, 7, 8>>) =
              UpdateBit(UpdateBit(UpdateBit(UpdateBit(UpdateBit(UpdateBit(UpdateBit(UpdateBit(w))))))))
<1>1. ASSUME NEW x \in Word PROVE UpdateBit(x) \in Word
  <2>1. ShiftRight(x) \in Word
    BY DEF ShiftRight, Word
  <2>2. FcsPoly \in Word
    BY DEF FcsPoly, Word
  <2> QED BY <2>1, <2>2 DEF UpdateBit, Xor, Word
<1> DEFINE s == <<1, 2, 3, 4, 5, 6, 7, 8>>
           P == [k \in 0..8 |-> SubSeq(s, 1, k)]
           L == [k \in 0..8 |-> Loop(BitStep, w, P[k])]
<1>2. s \in Seq(1..8) /\ Len(s) = 8 /\ \A k \in 1..8 : s[k] \in 1..8
  OBVIOUS
<1>3. BitStep \in [1..8 -> [Word -> Word]]
  BY <1>1 DEF BitStep
<1> HIDE DEF s
<1>4. P[0] = <<>> /\ P[8] = s
  BY <1>2, SubSeqEmpty, SubSeqFull
<1>5. ASSUME NEW k \in 1..8 PROVE P[k] = Append(P[k - 1], s[k]) /\ P[k - 1] \in Seq(1..8)
  <2>1. SubSeq(s, 1, k) = SubSeq(s, 1, k - 1) \o <<s[k]>>
    BY <1>2, SubSeqRecursiveSecond
  <2>2. k \in 0..8 /\ k - 1 \in 0..8
    OBVIOUS
  <2>3. P[k] = P[k - 1] \o <<s[k]>>
    BY <2>1, <2>2
  <2>4. P[k - 1] \in Seq(1..8) /\ s[k] \in 1..8
    <3>1. P[k - 1] = SubSeq(s, 1, k - 1)
      BY <2>2
    <3> HIDE DEF P
    <3>2. \A j \in 1..(k - 1) : s[j] \in 1..8
      BY <1>2
    <3> QED BY <1>2, <3>1, <3>2, SubSeqProperties
  <2> HIDE DEF P
  <2> QED BY <2>3, <2>4, AppendIsConcat
<1> HIDE DEF P
<1>6. L[0] = w
  BY <1>4, LoopEmpty
<1>7. ASSUME NEW k \in 1..8 PROVE L[k] = UpdateBit(L[k - 1])
  <2> DEFINE t == P[k - 1]
             d == s[k]
  <2>1. P[k] = Append(t, d) /\ t \in Seq(1..8) /\ d \in 1..8 /\ k \in 0..8 /\ k - 1 \in 0..8
    <3>1. P[k] = Append(P[k - 1], s[k]) /\ P[k - 1] \in Seq(1..8)
      BY <1>5
    <3>2. d \in 1..8
      BY <1>2
    <3> QED BY <3>1, <3>2
  <2> HIDE DEF t, d
  <2>2. Loop(BitStep, w, Append(t, d)) = BitStep[d][Loop(BitStep, w, t)]
    BY <2>1, LoopAppend
  <2>3. Loop(BitStep, w, t) \in Word
    BY <1>3, <2>1, LoopType
  <2>4. BitStep[d][Loop(BitStep, w, t)] = UpdateBit(Loop(BitStep, w, t))
    BY <2>1, <2>3 DEF BitStep
  <2> QED BY <2>1, <2>2, <2>4 DEF t
<1>8. L[8] = Loop(BitStep, w, s)
  BY <1>4
<1>9. L[8] = UpdateBit(L[7]) /\ L[7] = UpdateBit(L[6]) /\ L[6] = UpdateBit(L[5]) /\ L[5] = UpdateBit(L[4])
      /\ L[4] = UpdateBit(L[3]) /\ L[3] = UpdateBit(L[2]) /\ L[2] = UpdateBit(L[1]) /\ L[1] = UpdateBit(L[0])
  <2>1. /\ 8 \in 1..8 /\ 7 \in 1..8 /\ 6 \in 1..8 /\ 5 \in 1..8 /\ 4 \in 1..8 /\ 3 \in 1..8 /\ 2 \in 1..8 /\ 1 \in 1..8
        /\ 8 - 1 = 7 /\ 7 - 1 = 6 /\ 6 - 1 = 5 /\ 5 - 1 = 4 /\ 4 - 1 = 3 /\ 3 - 1 = 2 /\ 2 - 1 = 1 /\ 1 - 1 = 0
    OBVIOUS
  <2> HIDE DEF L
  <2> QED BY <1>7, <2>1
<1> HIDE DEF L
<1>10. Loop(BitStep, w, s) =
         UpdateBit(UpdateBit(UpdateBit(UpdateBit(UpdateBit(UpdateBit(UpdateBit(UpdateBit(w))))))))
  BY <1>6, <1>8, <1>9
<1> QED BY <1>1, <1>10 DEF s

(* A step, bit by bit.                                                     *)
LEMMA BitResult ==
  ASSUME NEW c \in Word, NEW d \in Word,
         \A x \in 0..15 : x \in d <=> ~(x + 1 \in c <=> 0 \in c /\ x \in FcsPoly)
  PROVE  UpdateBit(c) = d
<1>1. ASSUME NEW x
      PROVE  x \in ShiftRight(c) <=> x \in 0..15 /\ x + 1 \in c
  BY DEF ShiftRight, Word
<1>2. ASSUME NEW x
      PROVE  x \in UpdateBit(c) <=> ~(x \in ShiftRight(c) <=> 0 \in c /\ x \in FcsPoly)
  BY DEF UpdateBit, Xor
<1>3. FcsPoly \subseteq 0..15 /\ d \subseteq 0..15
  BY DEF FcsPoly, Word
<1>4. ASSUME NEW x PROVE x \in UpdateBit(c) <=> x \in d
  <2>1. CASE x \in 0..15
    BY <1>1, <1>2, <2>1
  <2>2. CASE x \notin 0..15
    BY <1>1, <1>2, <1>3, <2>2
  <2> QED BY <2>1, <2>2
<1> QED BY <1>4

(* Eight steps move the high octet of the register down, and change it by  *)
(* what they make of the low one.                                          *)
Up(h) == {b + 8 : b \in h}

(* The high octet of a register passes through the steps of an octet.      *)
LEMMA EightLinear ==
  ASSUME NEW c \in Word, NEW h \in Byte
  PROVE  UpdateBit(UpdateBit(UpdateBit(UpdateBit(UpdateBit(UpdateBit(UpdateBit(UpdateBit(Xor(c, Up(h)))))))))) =
           Xor(UpdateBit(UpdateBit(UpdateBit(UpdateBit(UpdateBit(UpdateBit(UpdateBit(UpdateBit(c)))))))), h)
<1> DEFINE Y(k) == {b + k : b \in h}
<1>1. ASSUME NEW k \in 1..8, NEW x \in Word
      PROVE  UpdateBit(Xor(x, Y(k))) = Xor(UpdateBit(x), Y(k - 1)) /\ UpdateBit(x) \in Word
  <2>1. Y(k) \in SUBSET Nat /\ 0 \notin Y(k) /\ x \in SUBSET Nat
    BY DEF Byte, Word
  <2>2. ShiftRight(Y(k)) = Y(k - 1)
    <3>1. \A b \in h : b \in Nat /\ b + k # 0 /\ (b + k) - 1 = b + (k - 1)
      BY DEF Byte
    <3>2. Y(k) \ {0} = Y(k)
      BY <2>1
    <3>3. ShiftRight(Y(k)) = {b - 1 : b \in Y(k)}
      BY <3>2 DEF ShiftRight
    <3>4. {b - 1 : b \in Y(k)} = {(b + k) - 1 : b \in h}
      OBVIOUS
    <3>5. {(b + k) - 1 : b \in h} = {b + (k - 1) : b \in h}
      BY <3>1
    <3> QED BY <3>3, <3>4, <3>5
  <2> HIDE DEF Y
  <2>3. UpdateBit(Xor(x, Y(k))) = Xor(UpdateBit(x), ShiftRight(Y(k)))
    BY <2>1, StepLinear
  <2> QED BY <2>2, <2>3, EightBits
<1> DEFINE c1 == UpdateBit(c)
           c2 == UpdateBit(c1)
           c3 == UpdateBit(c2)
           c4 == UpdateBit(c3)
           c5 == UpdateBit(c4)
           c6 == UpdateBit(c5)
           c7 == UpdateBit(c6)
           c8 == UpdateBit(c7)
<1>2. Up(h) = Y(8)
  BY DEF Up
<1>3. Y(0) = h
  <2>1. \A b \in h : b + 0 = b
    BY DEF Byte
  <2> QED BY <2>1
<1> HIDE DEF Y
<1>4. UpdateBit(Xor(c, Y(8))) = Xor(c1, Y(7)) /\ c1 \in Word
  <2> HIDE DEF Y
  <2>1. 8 \in 1..8 /\ 8 - 1 = 7
    OBVIOUS
  <2> QED BY <1>1, <2>1
<1>5. UpdateBit(Xor(c1, Y(7))) = Xor(c2, Y(6)) /\ c2 \in Word
  <2> HIDE DEF c1
  <2>1. 7 \in 1..8 /\ 7 - 1 = 6
    OBVIOUS
  <2> QED BY <1>1, <2>1, <1>4
<1>6. UpdateBit(Xor(c2, Y(6))) = Xor(c3, Y(5)) /\ c3 \in Word
  <2> HIDE DEF c1, c2
  <2>1. 6 \in 1..8 /\ 6 - 1 = 5
    OBVIOUS
  <2> QED BY <1>1, <2>1, <1>5
<1>7. UpdateBit(Xor(c3, Y(5))) = Xor(c4, Y(4)) /\ c4 \in Word
  <2> HIDE DEF c1, c2, c3
  <2>1. 5 \in 1..8 /\ 5 - 1 = 4
    OBVIOUS
  <2> QED BY <1>1, <2>1, <1>6
<1>8. UpdateBit(Xor(c4, Y(4))) = Xor(c5, Y(3)) /\ c5 \in Word
  <2> HIDE DEF c1, c2, c3, c4
  <2>1. 4 \in 1..8 /\ 4 - 1 = 3
    OBVIOUS
  <2> QED BY <1>1, <2>1, <1>7
<1>9. UpdateBit(Xor(c5, Y(3))) = Xor(c6, Y(2)) /\ c6 \in Word
  <2> HIDE DEF c1, c2, c3, c4, c5
  <2>1. 3 \in 1..8 /\ 3 - 1 = 2
    OBVIOUS
  <2> QED BY <1>1, <2>1, <1>8
<1>10. UpdateBit(Xor(c6, Y(2))) = Xor(c7, Y(1)) /\ c7 \in Word
  <2> HIDE DEF c1, c2, c3, c4, c5, c6
  <2>1. 2 \in 1..8 /\ 2 - 1 = 1
    OBVIOUS
  <2> QED BY <1>1, <2>1, <1>9
<1>11. UpdateBit(Xor(c7, Y(1))) = Xor(c8, Y(0)) /\ c8 \in Word
  <2> HIDE DEF c1, c2, c3, c4, c5, c6, c7
  <2>1. 1 \in 1..8 /\ 1 - 1 = 0
    OBVIOUS
  <2> QED BY <1>1, <2>1, <1>10
<1> HIDE DEF c1, c2, c3, c4, c5, c6, c7, c8
<1>12. UpdateBit(UpdateBit(UpdateBit(UpdateBit(UpdateBit(UpdateBit(UpdateBit(UpdateBit(Xor(c, Y(8)))))))))) = Xor(c8, Y(0))
  BY <1>4, <1>5, <1>6, <1>7, <1>8, <1>9, <1>10, <1>11
<1> QED BY <1>2, <1>3, <1>12 DEF c1, c2, c3, c4, c5, c6, c7, c8

(* What eight steps make of the words that matter for the residue.         *)
LEMMA EightOnes ==
  UpdateBit(UpdateBit(UpdateBit(UpdateBit(UpdateBit(UpdateBit(UpdateBit(UpdateBit(0..7)))))))) = {11, 10, 9, 8, 6, 5, 4, 3}
<1>0. 0..7 = {7, 6, 5, 4, 3, 2, 1, 0}
  OBVIOUS
<1>1. UpdateBit({7, 6, 5, 4, 3, 2, 1, 0}) = {15, 10, 6, 5, 4, 2, 1, 0}
  <2> DEFINE c == {7, 6, 5, 4, 3, 2, 1, 0}
             d == {15, 10, 6, 5, 4, 2, 1, 0}
  <2>1. c \in Word /\ d \in Word
    BY DEF Word
  <2>2. \A x \in 0..15 : x \in d <=> ~(x + 1 \in c <=> 0 \in c /\ x \in FcsPoly)
    BY DEF FcsPoly
  <2> HIDE DEF c, d
  <2>3. UpdateBit(c) = d
    BY <2>1, <2>2, BitResult
  <2> QED BY <2>3 DEF c, d
<1>2. UpdateBit({15, 10, 6, 5, 4, 2, 1, 0}) = {15, 14, 10, 9, 5, 4, 1, 0}
  <2> DEFINE c == {15, 10, 6, 5, 4, 2, 1, 0}
             d == {15, 14, 10, 9, 5, 4, 1, 0}
  <2>1. c \in Word /\ d \in Word
    BY DEF Word
  <2>2. \A x \in 0..15 : x \in d <=> ~(x + 1 \in c <=> 0 \in c /\ x \in FcsPoly)
    BY DEF FcsPoly
  <2> HIDE DEF c, d
  <2>3. UpdateBit(c) = d
    BY <2>1, <2>2, BitResult
  <2> QED BY <2>3 DEF c, d
<1>3. UpdateBit({15, 14, 10, 9, 5, 4, 1, 0}) = {15, 14, 13, 10, 9, 8, 4, 0}
  <2> DEFINE c == {15, 14, 10, 9, 5, 4, 1, 0}
             d == {15, 14, 13, 10, 9, 8, 4, 0}
  <2>1. c \in Word /\ d \in Word
    BY DEF Word
  <2>2. \A x \in 0..15 : x \in d <=> ~(x + 1 \in c <=> 0 \in c /\ x \in FcsPoly)
    BY DEF FcsPoly
  <2> HIDE DEF c, d
  <2>3. UpdateBit(c) = d
    BY <2>1, <2>2, BitResult
  <2> QED BY <2>3 DEF c, d
<1>4. UpdateBit({15, 14, 13, 10, 9, 8, 4, 0}) = {15, 14, 13, 12, 10, 9, 8, 7}
  <2> DEFINE c == {15, 14, 13, 10, 9, 8, 4, 0}
             d == {15, 14, 13, 12, 10, 9, 8, 7}
  <2>1. c \in Word /\ d \in Word
    BY DEF Word
  <2>2. \A x \in 0..15 : x \in d <=> ~(x + 1 \in c <=> 0 \in c /\ x \in FcsPoly)
    BY DEF FcsPoly
  <2> HIDE DEF c, d
  <2>3. UpdateBit(c) = d
    BY <2>1, <2>2, BitResult
  <2> QED BY <2>3 DEF c, d
<1>5. UpdateBit({15, 14, 13, 12, 10, 9, 8, 7}) = {14, 13, 12, 11, 9, 8, 7, 6}
  <2> DEFINE c == {15, 14, 13, 12, 10, 9, 8, 7}
             d == {14, 13, 12, 11, 9, 8, 7, 6}
  <2>1. c \in Word /\ d \in Word
    BY DEF Word
  <2>2. \A x \in 0..15 : x \in d <=> ~(x + 1 \in c <=> 0 \in c /\ x \in FcsPoly)
    BY DEF FcsPoly
  <2> HIDE DEF c, d
  <2>3. UpdateBit(c) = d
    BY <2>1, <2>2, BitResult
  <2> QED BY <2>3 DEF c, d
<1>6. UpdateBit({14, 13, 12, 11, 9, 8, 7, 6}) = {13, 12, 11, 10, 8, 7, 6, 5}
  <2> DEFINE c == {14, 13, 12, 11, 9, 8, 7, 6}
             d == {13, 12, 11, 10, 8, 7, 6, 5}
  <2>1. c \in Word /\ d \in Word
    BY DEF Word
  <2>2. \A x \in 0..15 : x \in d <=> ~(x + 1 \in c <=> 0 \in c /\ x \in FcsPoly)
    BY DEF FcsPoly
  <2> HIDE DEF c, d
  <2>3. UpdateBit(c) = d
    BY <2>1, <2>2, BitResult
  <2> QED BY <2>3 DEF c, d
<1>7. UpdateBit({13, 12, 11, 10, 8, 7, 6, 5}) = {12, 11, 10, 9, 7, 6, 5, 4}
  <2> DEFINE c == {13, 12, 11, 10, 8, 7, 6, 5}
             d == {12, 11, 10, 9, 7, 6, 5, 4}
  <2>1. c \in Word /\ d \in Word
    BY DEF Word
  <2>2. \A x \in 0..15 : x \in d <=> ~(x + 1 \in c <=> 0 \in c /\ x \in FcsPoly)
    BY DEF FcsPoly
  <2> HIDE DEF c, d
  <2>3. UpdateBit(c) = d
    BY <2>1, <2>2, BitResult
  <2> QED BY <2>3 DEF c, d
<1>8. UpdateBit({12, 11, 10, 9, 7, 6, 5, 4}) = {11, 10, 9, 8, 6, 5, 4, 3}
  <2> DEFINE c == {12, 11, 10, 9, 7, 6, 5, 4}
             d == {11, 10, 9, 8, 6, 5, 4, 3}
  <2>1. c \in Word /\ d \in Word
    BY DEF Word
  <2>2. \A x \in 0..15 : x \in d <=> ~(x + 1 \in c <=> 0 \in c /\ x \in FcsPoly)
    BY DEF FcsPoly
  <2> HIDE DEF c, d
  <2>3. UpdateBit(c) = d
    BY <2>1, <2>2, BitResult
  <2> QED BY <2>3 DEF c, d
<1> QED BY <1>0, <1>1, <1>2, <1>3, <1>4, <1>5, <1>6, <1>7, <1>8

(* What the steps of two octets leave of a full register.                  *)
LEMMA EightRest ==
  UpdateBit(UpdateBit(UpdateBit(UpdateBit(UpdateBit(UpdateBit(UpdateBit(UpdateBit({11, 10, 9, 8, 7, 2, 1, 0})))))))) = GoodFcs
<1>1. UpdateBit({11, 10, 9, 8, 7, 2, 1, 0}) = {15, 9, 8, 7, 6, 3, 1, 0}
  <2> DEFINE c == {11, 10, 9, 8, 7, 2, 1, 0}
             d == {15, 9, 8, 7, 6, 3, 1, 0}
  <2>1. c \in Word /\ d \in Word
    BY DEF Word
  <2>2. \A x \in 0..15 : x \in d <=> ~(x + 1 \in c <=> 0 \in c /\ x \in FcsPoly)
    BY DEF FcsPoly
  <2> HIDE DEF c, d
  <2>3. UpdateBit(c) = d
    BY <2>1, <2>2, BitResult
  <2> QED BY <2>3 DEF c, d
<1>2. UpdateBit({15, 9, 8, 7, 6, 3, 1, 0}) = {15, 14, 10, 8, 7, 6, 5, 3, 2, 0}
  <2> DEFINE c == {15, 9, 8, 7, 6, 3, 1, 0}
             d == {15, 14, 10, 8, 7, 6, 5, 3, 2, 0}
  <2>1. c \in Word /\ d \in Word
    BY DEF Word
  <2>2. \A x \in 0..15 : x \in d <=> ~(x + 1 \in c <=> 0 \in c /\ x \in FcsPoly)
    BY DEF FcsPoly
  <2> HIDE DEF c, d
  <2>3. UpdateBit(c) = d
    BY <2>1, <2>2, BitResult
  <2> QED BY <2>3 DEF c, d
<1>3. UpdateBit({15, 14, 10, 8, 7, 6, 5, 3, 2, 0}) = {15, 14, 13, 10, 9, 7, 6, 5, 4, 3, 2, 1}
  <2> DEFINE c == {15, 14, 10, 8, 7, 6, 5, 3, 2, 0}
             d == {15, 14, 13, 10, 9, 7, 6, 5, 4, 3, 2, 1}
  <2>1. c \in Word /\ d \in Word
    BY DEF Word
  <2>2. \A x \in 0..15 : x \in d <=> ~(x + 1 \in c <=> 0 \in c /\ x \in FcsPoly)
    BY DEF FcsPoly
  <2> HIDE DEF c, d
  <2>3. UpdateBit(c) = d
    BY <2>1, <2>2, BitResult
  <2> QED BY <2>3 DEF c, d
<1>4. UpdateBit({15, 14, 13, 10, 9, 7, 6, 5, 4, 3, 2, 1}) = {14, 13, 12, 9, 8, 6, 5, 4, 3, 2, 1, 0}
  <2> DEFINE c == {15, 14, 13, 10, 9, 7, 6, 5, 4, 3, 2, 1}
             d == {14, 13, 12, 9, 8, 6, 5, 4, 3, 2, 1, 0}
  <2>1. c \in Word /\ d \in Word
    BY DEF Word
  <2>2. \A x \in 0..15 : x \in d <=> ~(x + 1 \in c <=> 0 \in c /\ x \in FcsPoly)
    BY DEF FcsPoly
  <2> HIDE DEF c, d
  <2>3. UpdateBit(c) = d
    BY <2>1, <2>2, BitResult
  <2> QED BY <2>3 DEF c, d
<1>5. UpdateBit({14, 13, 12, 9, 8, 6, 5, 4, 3, 2, 1, 0}) = {15, 13, 12, 11, 10, 8, 7, 5, 4, 2, 1, 0}
  <2> DEFINE c == {14, 13, 12, 9, 8, 6, 5, 4, 3, 2, 1, 0}
             d == {15, 13, 12, 11, 10, 8, 7, 5, 4, 2, 1, 0}
  <2>1. c \in Word /\ d \in Word
    BY DEF Word
  <2>2. \A x \in 0..15 : x \in d <=> ~(x + 1 \in c <=> 0 \in c /\ x \in FcsPoly)
    BY DEF FcsPoly
  <2> HIDE DEF c, d
  <2>3. UpdateBit(c) = d
    BY <2>1, <2>2, BitResult
  <2> QED BY <2>3 DEF c, d
<1>6. UpdateBit({15, 13, 12, 11, 10, 8, 7, 5, 4, 2, 1, 0}) = {15, 14, 12, 11, 9, 7, 6, 4, 1, 0}
  <2> DEFINE c == {15, 13, 12, 11, 10, 8, 7, 5, 4, 2, 1, 0}
             d == {15, 14, 12, 11, 9, 7, 6, 4, 1, 0}
  <2>1. c \in Word /\ d \in Word
    BY DEF Word
  <2>2. \A x \in 0..15 : x \in d <=> ~(x + 1 \in c <=> 0 \in c /\ x \in FcsPoly)
    BY DEF FcsPoly
  <2> HIDE DEF c, d
  <2>3. UpdateBit(c) = d
    BY <2>1, <2>2, BitResult
  <2> QED BY <2>3 DEF c, d
<1>7. UpdateBit({15, 14, 12, 11, 9, 7, 6, 4, 1, 0}) = {15, 14, 13, 11, 8, 6, 5, 0}
  <2> DEFINE c == {15, 14, 12, 11, 9, 7, 6, 4, 1, 0}
             d == {15, 14, 13, 11, 8, 6, 5, 0}
  <2>1. c \in Word /\ d \in Word
    BY DEF Word
  <2>2. \A x \in 0..15 : x \in d <=> ~(x + 1 \in c <=> 0 \in c /\ x \in FcsPoly)
    BY DEF FcsPoly
  <2> HIDE DEF c, d
  <2>3. UpdateBit(c) = d
    BY <2>1, <2>2, BitResult
  <2> QED BY <2>3 DEF c, d
<1>8. UpdateBit({15, 14, 13, 11, 8, 6, 5, 0}) = {15, 14, 13, 12, 7, 5, 4, 3}
  <2> DEFINE c == {15, 14, 13, 11, 8, 6, 5, 0}
             d == {15, 14, 13, 12, 7, 5, 4, 3}
  <2>1. c \in Word /\ d \in Word
    BY DEF Word
  <2>2. \A x \in 0..15 : x \in d <=> ~(x + 1 \in c <=> 0 \in c /\ x \in FcsPoly)
    BY DEF FcsPoly
  <2> HIDE DEF c, d
  <2>3. UpdateBit(c) = d
    BY <2>1, <2>2, BitResult
  <2> QED BY <2>3 DEF c, d
<1> QED BY <1>1, <1>2, <1>3, <1>4, <1>5, <1>6, <1>7, <1>8 DEF GoodFcs

(* An octet makes a register of a register.                                *)
LEMMA FcsType ==
  ASSUME NEW fcs \in Word, NEW octet \in Byte
  PROVE  UpdateFcs(fcs, octet) \in Word /\ FcsStep[octet][fcs] = UpdateFcs(fcs, octet)
         /\ Xor(fcs, octet) \in Word
<1>1. Xor(fcs, octet) \in Word
  BY DEF Xor, Word, Byte
<1>2. \A x \in Word : UpdateBit(x) \in Word
  BY EightBits
<1>3. UpdateFcs(fcs, octet) \in Word
  BY <1>1, <1>2, EightBits DEF UpdateFcs
<1> QED BY <1>1, <1>3 DEF FcsStep

(* The register of any octets is one.                                      *)
LEMMA RegisterType ==
  /\ FcsStep \in [Byte -> [Word -> Word]]
  /\ \A s \in Seq(Byte) : Register(s) \in Word /\ FrameFcs(s) \in Word
<1>1. FcsStep \in [Byte -> [Word -> Word]]
  BY FcsType DEF FcsStep
<1>2. InitialFcs \in Word
  BY DEF InitialFcs, Word
<1>3. ASSUME NEW s \in Seq(Byte) PROVE Register(s) \in Word
  BY <1>1, <1>2, LoopType DEF Register
<1> QED BY <1>1, <1>3 DEF FrameFcs, Word

(* The two octets of a check sequence, the low one first.                  *)
LEMMA LeType ==
  ASSUME NEW w \in Word
  PROVE  /\ w \cap (0..7) \in Byte /\ {b - 8 : b \in w \cap (8..15)} \in Byte
         /\ LeBytes(w) \in Seq(Byte) /\ Len(LeBytes(w)) = 2
         /\ LeBytes(w)[1] = w \cap (0..7) /\ LeBytes(w)[2] = {b - 8 : b \in w \cap (8..15)}
<1>1. w \cap (0..7) \in Byte /\ {b - 8 : b \in w \cap (8..15)} \in Byte
  BY DEF Byte, Word
<1> QED BY <1>1 DEF LeBytes

(* A loop over two elements.                                               *)
LEMMA LoopTwo ==
  ASSUME NEW step, NEW init, NEW S, NEW s \in Seq(S), Len(s) = 2
  PROVE  Loop(step, init, s) = step[s[2]][step[s[1]][init]]
<1>1. s[1] \in S /\ s[2] \in S
  <2>1. 1 \in 1..Len(s) /\ 2 \in 1..Len(s)
    OBVIOUS
  <2> QED BY <2>1, ElementOfSeq
<1>2. s = Append(Append(<<>>, s[1]), s[2])
  BY <1>1
<1> DEFINE x == s[1]
           y == s[2]
           e == <<>>
           a == Append(e, x)
<1>3. x \in S /\ y \in S /\ e \in Seq(S)
  BY <1>1
<1>4. a \in Seq(S)
  BY <1>3
<1>5. Loop(step, init, e) = init
  BY LoopEmpty
<1>6. s = Append(a, y)
  BY <1>2
<1> HIDE DEF x, y, e, a
<1>7. Loop(step, init, Append(a, y)) = step[y][Loop(step, init, a)]
  BY <1>3, <1>4, LoopAppend
<1>8. Loop(step, init, Append(e, x)) = step[x][Loop(step, init, e)]
  BY <1>3, LoopAppend
<1>9. Loop(step, init, a) = step[x][init]
  BY <1>5, <1>8 DEF a
<1>10. Loop(step, init, s) = step[y][step[x][init]]
  BY <1>6, <1>7, <1>9
<1> QED BY <1>10 DEF x, y

(* The register after the check sequence that was computed from it.        *)
LEMMA Residue ==
  ASSUME NEW r \in Word, NEW l \in Byte, NEW h \in Byte,
         l = ((0..15) \ r) \cap (0..7), h = {b - 8 : b \in ((0..15) \ r) \cap (8..15)}
  PROVE  UpdateFcs(UpdateFcs(r, l), h) = GoodFcs
<1> DEFINE g == (0..7) \ h
           c == {11, 10, 9, 8, 6, 5, 4, 3}
           T(x) == UpdateBit(UpdateBit(UpdateBit(UpdateBit(UpdateBit(UpdateBit(UpdateBit(UpdateBit(x))))))))
<1>1. g \in Byte /\ 0..7 \in Word /\ c \in Word /\ {11, 10, 9, 8, 7, 2, 1, 0} \in Word
  BY DEF Byte, Word
<1>2. Xor(r, l) = Xor(0..7, Up(g))
  <2>1. ASSUME NEW b PROVE b \in Up(g) <=> b \in 8..15 /\ b \in r
    <3>1. b \in Up(g) <=> b - 8 \in 0..7 /\ b \in Int /\ b - 8 \notin h
      <4>1. \A e \in 0..7 : (e + 8) - 8 = e /\ e + 8 \in Int
        OBVIOUS
      <4>2. ASSUME b \in Int PROVE (b - 8) + 8 = b
        BY <4>2
      <4> QED BY <4>1, <4>2 DEF Up
    <3>2. ASSUME b \in 8..15 PROVE b - 8 \in h <=> b \notin r
      <4>1. (b - 8) + 8 = b
        BY <3>2
      <4> QED BY <3>2, <4>1
    <3>3. b \in Int /\ b - 8 \in 0..7 <=> b \in 8..15
      OBVIOUS
    <3> QED BY <3>1, <3>2, <3>3
  <2>2. ASSUME NEW b PROVE b \in Xor(r, l) <=> b \in Xor(0..7, Up(g))
    <3>1. b \in r => b \in 0..15
      BY DEF Word
    <3>2. b \in l <=> b \in 0..7 /\ b \notin r
      OBVIOUS
    <3>3. b \in 0..15 <=> b \in 0..7 \/ b \in 8..15
      OBVIOUS
    <3>4. ~(b \in 0..7 /\ b \in 8..15)
      OBVIOUS
    <3>5. b \in Xor(r, l) <=> ~(b \in r <=> b \in l)
      BY DEF Xor
    <3>6. b \in Xor(0..7, Up(g)) <=> ~(b \in 0..7 <=> b \in Up(g))
      BY DEF Xor
    <3> QED BY <2>1, <3>1, <3>2, <3>3, <3>4, <3>5, <3>6
  <2> QED BY <2>2
<1>3. UpdateFcs(r, l) = Xor(c, g)
  <2>1. UpdateFcs(r, l) = T(Xor(r, l))
    BY FcsType, EightBits DEF UpdateFcs
  <2>2. T(Xor(0..7, Up(g))) = Xor(T(0..7), g)
    BY <1>1, EightLinear
  <2> QED BY <1>2, <2>1, <2>2, EightOnes
<1>4. Xor(Xor(c, g), h) = {11, 10, 9, 8, 7, 2, 1, 0}
  <2>1. \A b : b \in g <=> b \in 0..7 /\ b \notin h
    OBVIOUS
  <2>2. \A b : b \in h => b \in 0..7
    BY DEF Byte
  <2>3. \A b : b \in Xor(Xor(c, g), h) <=> ~(b \in c <=> b \in 0..7)
    <3> HIDE DEF g, c
    <3> QED BY <2>1, <2>2 DEF Xor
  <2>4. \A b : b \in {11, 10, 9, 8, 7, 2, 1, 0} <=> ~(b \in c <=> b \in 0..7)
    OBVIOUS
  <2> QED BY <2>3, <2>4
<1>5. UpdateFcs(UpdateFcs(r, l), h) = T(Xor(Xor(c, g), h))
  <2>1. UpdateFcs(r, l) \in Word
    BY FcsType
  <2> DEFINE x == UpdateFcs(r, l)
  <2> HIDE DEF x
  <2>2. UpdateFcs(x, h) = T(Xor(x, h))
    BY <2>1, FcsType, EightBits DEF UpdateFcs, x
  <2> QED BY <1>3, <2>2 DEF x
<1> QED BY <1>4, <1>5, EightRest

(* Behind its own check sequence the register of any octets is the same.   *)
LEMMA ResidueAlways ==
  ASSUME NEW payload \in Seq(Byte)
  PROVE  ResidueGood(payload)
<1> DEFINE r == Register(payload)
           w == FrameFcs(payload)
           le == LeBytes(w)
           l == w \cap (0..7)
           h == {b - 8 : b \in w \cap (8..15)}
<1>1. r \in Word /\ w \in Word /\ w = (0..15) \ r
  BY RegisterType DEF FrameFcs
<1>2. l \in Byte /\ h \in Byte /\ le \in Seq(Byte) /\ Len(le) = 2 /\ le[1] = l /\ le[2] = h
  BY <1>1, LeType
<1>3. l = ((0..15) \ r) \cap (0..7) /\ h = {b - 8 : b \in ((0..15) \ r) \cap (8..15)}
  BY <1>1
<1> HIDE DEF r, w, le, l, h
<1>4. Register(payload \o le) = Loop(FcsStep, r, le)
  BY <1>2, LoopConcat DEF Register, r
<1>5. Loop(FcsStep, r, le) = FcsStep[h][FcsStep[l][r]]
  BY <1>1, <1>2, LoopTwo
<1>6. FcsStep[l][r] = UpdateFcs(r, l) /\ UpdateFcs(r, l) \in Word
  BY <1>1, <1>2, FcsType
<1>7. FcsStep[h][UpdateFcs(r, l)] = UpdateFcs(UpdateFcs(r, l), h)
  BY <1>2, <1>6, FcsType
<1>8. UpdateFcs(UpdateFcs(r, l), h) = GoodFcs
  BY <1>1, <1>2, <1>3, Residue
<1> QED BY <1>4, <1>5, <1>6, <1>7, <1>8 DEF ResidueGood, le, w

(* So it is behind every frame, as HDLC wants it (hdlc.rs:188-204).        *)
THEOREM ResidueExact == FormatsSpec => []GoodResidue
<1>1. InputOK => GoodResidue
  <2>1. Seq(FrameBytes) \subseteq Seq(Byte)
    BY InputsAssumption
  <2> QED BY <2>1, ResidueAlways DEF InputOK, GoodResidue
<1> QED BY <1>1, InputsRead, PTL

(* The octets that are not a flag.                                         *)
Plain == Byte \ {FLAG}

(* What an octet is escaped to holds no flag.                              *)
LEMMA OneEscaped ==
  /\ FLAG \in Byte /\ ESCAPE \in Byte /\ ESCAPE # FLAG
  /\ \A b \in Byte :
       \/ /\ b \notin Escaped /\ EscapeOne(b) = <<b>> /\ b \in Plain
       \/ /\ b \in Escaped /\ EscapeOne(b) = <<ESCAPE, Xor(b, EscapeXor)>>
          /\ Xor(b, EscapeXor) \in Plain /\ Xor(Xor(b, EscapeXor), EscapeXor) = b
<1>1. FLAG \in Byte /\ ESCAPE \in Byte /\ ESCAPE # FLAG
  BY DEF FLAG, ESCAPE, Byte
<1>2. ASSUME NEW b \in Byte, b \notin Escaped PROVE EscapeOne(b) = <<b>> /\ b \in Plain
  BY <1>2 DEF EscapeOne, Plain, Escaped
<1>3. ASSUME NEW b \in Byte PROVE Xor(b, EscapeXor) \in Byte /\ Xor(Xor(b, EscapeXor), EscapeXor) = b
  <2>1. 5 \in 0..7
    OBVIOUS
  <2>2. Xor(b, EscapeXor) \subseteq 0..7
    BY <2>1 DEF Xor, EscapeXor, Byte
  <2>3. \A x : x \in Xor(Xor(b, EscapeXor), EscapeXor) <=> x \in b
    BY DEF Xor
  <2> QED BY <2>2, <2>3 DEF Byte
<1>4. ASSUME NEW b \in Escaped PROVE Xor(b, EscapeXor) # FLAG
  <2>1. CASE b = FLAG
    <3>1. 5 \in FLAG /\ 5 \in EscapeXor
      BY DEF FLAG, EscapeXor
    <3> QED BY <2>1, <3>1 DEF Xor
  <2>2. CASE b = ESCAPE
    <3>1. 0 \in ESCAPE /\ 0 \notin EscapeXor /\ 0 \notin FLAG
      BY DEF FLAG, EscapeXor, ESCAPE
    <3> QED BY <2>2, <3>1 DEF Xor
  <2> QED BY <2>1, <2>2 DEF Escaped
<1>5. ASSUME NEW b \in Escaped PROVE EscapeOne(b) = <<ESCAPE, Xor(b, EscapeXor)>>
  BY DEF EscapeOne
<1> HIDE DEF FLAG, ESCAPE
<1> QED BY <1>1, <1>2, <1>3, <1>4, <1>5 DEF Plain

(* What the escaping of an octet adds.                                     *)
LEMMA OneEscapedType ==
  ASSUME NEW b \in Byte
  PROVE  /\ EscapeOne(b) \in Seq(Plain) /\ EscapeOne(b) \in Seq(Byte)
         /\ Len(EscapeOne(b)) \in 1..2
<1>1. ESCAPE \in Plain
  BY OneEscaped DEF Plain
<1>2. CASE b \notin Escaped
  <2>1. EscapeOne(b) = <<b>> /\ b \in Plain
    BY <1>2, OneEscaped
  <2> QED BY <2>1 DEF Plain
<1>3. CASE b \in Escaped
  <2> DEFINE x == Xor(b, EscapeXor)
  <2>1. EscapeOne(b) = <<ESCAPE, x>> /\ x \in Plain
    BY <1>3, OneEscaped
  <2> HIDE DEF x
  <2> QED BY <1>1, <2>1 DEF Plain
<1> QED BY <1>2, <1>3

(* encode, one octet after another.                                        *)
LEMMA EscapedAppend ==
  /\ EscapeStep \in [Byte -> [Seq(Byte) -> Seq(Byte)]]
  /\ EscapeInto(<<>>) = <<>>
  /\ \A s \in Seq(Byte) : EscapeInto(s) \in Seq(Byte)
  /\ \A s \in Seq(Byte), b \in Byte :
       EscapeInto(Append(s, b)) = Cat(EscapeInto(s), EscapeOne(b))
<1>1. ASSUME NEW b \in Byte, NEW out \in Seq(Byte) PROVE out \o EscapeOne(b) \in Seq(Byte)
  BY OneEscapedType, ConcatProperties
<1>2. EscapeStep \in [Byte -> [Seq(Byte) -> Seq(Byte)]]
  BY <1>1 DEF EscapeStep
<1>3. ASSUME NEW s \in Seq(Byte) PROVE EscapeInto(s) \in Seq(Byte)
  <2>1. <<>> \in Seq(Byte)
    OBVIOUS
  <2> QED BY <1>2, <2>1, LoopType DEF EscapeInto
<1>4. ASSUME NEW s \in Seq(Byte), NEW b \in Byte
      PROVE  EscapeInto(Append(s, b)) = Cat(EscapeInto(s), EscapeOne(b))
  <2>1. EscapeInto(Append(s, b)) = EscapeStep[b][EscapeInto(s)]
    BY LoopAppend DEF EscapeInto
  <2> DEFINE e == EscapeInto(s)
  <2>2. e \in Seq(Byte)
    BY <1>3
  <2> HIDE DEF e
  <2>3. EscapeStep[b][e] = e \o EscapeOne(b)
    BY <2>2 DEF EscapeStep
  <2> QED BY <2>1, <2>3 DEF Cat, e
<1>5. EscapeInto(<<>>) = <<>>
  BY LoopEmpty DEF EscapeInto
<1> QED BY <1>2, <1>3, <1>4, <1>5

(* What encode has written between the flags holds none, and is no shorter *)
(* than what was to be written.                                            *)
LEMMA NoFlagInside ==
  ASSUME NEW s \in Seq(Byte)
  PROVE  EscapeInto(s) \in Seq(Plain) /\ Len(EscapeInto(s)) >= Len(s)
<1> DEFINE A == {t \in Seq(Byte) : EscapeInto(t) \in Seq(Plain) /\ Len(EscapeInto(t)) >= Len(t)}
<1>1. <<>> \in A
  <2>1. <<>> \in Seq(Byte) /\ <<>> \in Seq(Plain) /\ Len(<<>>) >= Len(<<>>)
    OBVIOUS
  <2> QED BY <2>1, EscapedAppend
<1>2. ASSUME NEW t \in Seq(Byte), NEW b \in Byte, t \in A PROVE Append(t, b) \in A
  <2> DEFINE e == EscapeInto(t)
             o == EscapeOne(b)
  <2>1. e \in Seq(Plain) /\ Len(e) >= Len(t)
    BY <1>2
  <2>2. o \in Seq(Plain) /\ Len(o) \in 1..2
    BY OneEscapedType
  <2>3. EscapeInto(Append(t, b)) = Cat(e, o)
    BY EscapedAppend
  <2>4. Append(t, b) \in Seq(Byte) /\ Len(Append(t, b)) = Len(t) + 1 /\ Len(t) \in Nat
    BY AppendProperties, LenProperties
  <2> HIDE DEF e, o
  <2>5. Cat(e, o) \in Seq(Plain) /\ Len(Cat(e, o)) = Len(e) + Len(o) /\ Len(e) \in Nat
    BY <2>1, <2>2, ConcatProperties, LenProperties DEF Cat
  <2>6. Len(Cat(e, o)) >= Len(t) + 1
    <3> DEFINE p == Len(e)
               q == Len(o)
               r == Len(t)
    <3>1. p \in Nat /\ q \in 1..2 /\ r \in Nat /\ p >= r
      BY <2>1, <2>2, <2>4, <2>5
    <3>2. p + q >= r + 1
      <4> HIDE DEF p, q, r
      <4> QED BY <3>1
    <3> QED BY <2>5, <3>2
  <2> QED BY <2>3, <2>4, <2>5, <2>6
<1>3. Seq(Byte) \subseteq A
  <2> HIDE DEF A
  <2> QED BY <1>1, <1>2, AllSeqs
<1> QED BY <1>3

(* encode of two sequences is encode of each.                              *)
LEMMA EscapedCat ==
  ASSUME NEW s \in Seq(Byte), NEW t \in Seq(Byte)
  PROVE  EscapeInto(Cat(s, t)) = Cat(EscapeInto(s), EscapeInto(t))
<1> DEFINE A == {u \in Seq(Byte) : EscapeInto(Cat(s, u)) = Cat(EscapeInto(s), EscapeInto(u))}
           e == EscapeInto(s)
<1>0. e \in Seq(Byte)
  BY EscapedAppend
<1>1. <<>> \in A
  <2>1. Cat(s, <<>>) = s /\ Cat(e, <<>>) = e
    BY <1>0, ConcatEmptySeq DEF Cat
  <2> QED BY <2>1, EscapedAppend
<1>2. ASSUME NEW u \in Seq(Byte), NEW b \in Byte, u \in A PROVE Append(u, b) \in A
  <2> DEFINE f == EscapeInto(u)
             o == EscapeOne(b)
             v == Cat(s, u)
  <2>1. EscapeInto(v) = Cat(e, f)
    BY <1>2
  <2>2. o \in Seq(Byte) /\ f \in Seq(Byte)
    BY OneEscapedType, EscapedAppend
  <2>3. v \in Seq(Byte)
    BY ConcatProperties DEF Cat
  <2>4. EscapeInto(Append(v, b)) = Cat(EscapeInto(v), o) /\ EscapeInto(Append(u, b)) = Cat(f, o)
    BY <2>3, EscapedAppend
  <2>5. Cat(s, Append(u, b)) = Append(v, b) /\ Append(u, b) \in Seq(Byte)
    <3>1. <<b>> \in Seq(Byte)
      OBVIOUS
    <3>2. Append(u, b) = u \o <<b>> /\ Append(v, b) = v \o <<b>>
      BY <2>3, AppendIsConcat
    <3>3. (s \o u) \o <<b>> = s \o (u \o <<b>>)
      BY <3>1, ConcatAssociative
    <3> QED BY <3>2, <3>3, AppendProperties DEF Cat
  <2> HIDE DEF e, f, o, v
  <2>6. Cat(Cat(e, f), o) = Cat(e, Cat(f, o))
    BY <1>0, <2>2, ConcatAssociative DEF Cat
  <2> QED BY <2>1, <2>4, <2>5, <2>6 DEF e
<1>3. Seq(Byte) \subseteq A
  <2> HIDE DEF A
  <2> QED BY <1>1, <1>2, AllSeqs
<1> QED BY <1>3 DEF e

(* What decode has read, between two escapes.                              *)
Read(out) == [out |-> out, escaped |-> FALSE, flag |-> FALSE]

(* decode, one octet that was escaped or need not be.                      *)
LEMMA OneUnescaped ==
  ASSUME NEW out \in Seq(Byte), NEW b \in Byte
  PROVE  Loop(UnescapeStep, Read(out), EscapeOne(b)) = Read(Append(out, b))
<1>1. \A c \in Byte, s \in Unescaping : UnescapeStep[c][s] = Unescape(s, c)
  BY DEF UnescapeStep
<1>2. Read(out) \in Unescaping
  BY DEF Read, Unescaping
<1>3. FLAG \in Byte /\ ESCAPE \in Byte /\ ESCAPE # FLAG
  BY OneEscaped
<1>4. CASE b \notin Escaped
  <2>1. EscapeOne(b) = <<b>> /\ b # FLAG /\ b # ESCAPE
    BY <1>4, OneEscaped DEF Escaped
  <2>2. Loop(UnescapeStep, Read(out), <<b>>) = UnescapeStep[b][Read(out)]
    BY LoopOne
  <2>3. Unescape(Read(out), b) = Read(Append(out, b))
    BY <2>1 DEF Unescape, Read
  <2> QED BY <1>1, <1>2, <2>1, <2>2, <2>3
<1>5. CASE b \in Escaped
  <2> DEFINE x == Xor(b, EscapeXor)
             two == <<ESCAPE, x>>
             mid == [out |-> out, escaped |-> TRUE, flag |-> FALSE]
  <2>1. EscapeOne(b) = two /\ x \in Byte /\ Xor(x, EscapeXor) = b
    BY <1>5, OneEscaped DEF Plain
  <2> HIDE DEF x
  <2>2. two \in Seq(Byte) /\ Len(two) = 2 /\ two[1] = ESCAPE /\ two[2] = x
    BY <1>3, <2>1
  <2> HIDE DEF two
  <2>3. Loop(UnescapeStep, Read(out), two) = UnescapeStep[x][UnescapeStep[ESCAPE][Read(out)]]
    BY <2>2, LoopTwo
  <2>4. Unescape(Read(out), ESCAPE) = mid
    BY DEF Unescape, Read
  <2>5. mid \in Unescaping
    BY DEF Unescaping
  <2>6. Unescape(mid, x) = Read(Append(out, b))
    BY <2>1 DEF Unescape, Read
  <2> QED BY <1>1, <1>2, <1>3, <2>1, <2>3, <2>4, <2>5, <2>6
<1> QED BY <1>4, <1>5

(* decode undoes the escapes that encode makes.                            *)
LEMMA UnescapedBack ==
  ASSUME NEW s \in Seq(Byte)
  PROVE  Unescaped(EscapeInto(s)) = Read(s)
<1> DEFINE A == {t \in Seq(Byte) : Unescaped(EscapeInto(t)) = Read(t)}
<1>1. <<>> \in A
  BY EscapedAppend, LoopEmpty DEF Unescaped, Read
<1>2. ASSUME NEW t \in Seq(Byte), NEW b \in Byte, t \in A PROVE Append(t, b) \in A
  <2> DEFINE e == EscapeInto(t)
             o == EscapeOne(b)
             u == Append(t, b)
  <2>1. Loop(UnescapeStep, Read(<<>>), e) = Read(t)
    BY <1>2 DEF Unescaped, Read
  <2>2. e \in Seq(Byte) /\ o \in Seq(Byte)
    BY EscapedAppend, OneEscapedType
  <2>3. EscapeInto(u) = e \o o
    BY EscapedAppend DEF Cat
  <2>4. Loop(UnescapeStep, Read(t), o) = Read(u)
    BY OneUnescaped
  <2>5. u \in Seq(Byte)
    BY AppendProperties
  <2> HIDE DEF e, o, u
  <2>6. Loop(UnescapeStep, Read(<<>>), e \o o) = Loop(UnescapeStep, Loop(UnescapeStep, Read(<<>>), e), o)
    BY <2>2, LoopConcat
  <2>7. Unescaped(EscapeInto(u)) = Read(u)
    BY <2>1, <2>3, <2>4, <2>6 DEF Unescaped, Read
  <2> QED BY <2>5, <2>7 DEF u
<1>3. Seq(Byte) \subseteq A
  <2> HIDE DEF A
  <2> QED BY <1>1, <1>2, AllSeqs
<1> QED BY <1>3

(* A sequence between two others of one element.                           *)
LEMMA Between ==
  ASSUME NEW S, NEW f \in S, NEW b \in Seq(S)
  PROVE  LET frame == Cat(Cat(<<f>>, b), <<f>>)
         IN  /\ frame \in Seq(S) /\ Len(frame) = Len(b) + 2
             /\ frame[1] = f /\ frame[Len(b) + 2] = f
             /\ SubSeq(frame, 2, Len(b) + 1) = b
<1> DEFINE one == <<f>>
           left == Cat(one, b)
           frame == Cat(left, one)
           n == Len(b)
           cut == SubSeq(frame, 2, n + 1)
<1>1. one \in Seq(S) /\ Len(one) = 1 /\ one[1] = f
  OBVIOUS
<1>2. n \in Nat
  BY LenProperties
<1> HIDE DEF one
<1>3. left \in Seq(S) /\ Len(left) = 1 + n
      /\ \A i \in 1..(1 + n) : left[i] = IF i <= 1 THEN one[i] ELSE b[i - 1]
  <2>1. /\ left \in Seq(S) /\ Len(left) = Len(one) + n
        /\ \A i \in 1..(Len(one) + n) : left[i] = IF i <= Len(one) THEN one[i] ELSE b[i - Len(one)]
    BY <1>1, ConcatProperties DEF Cat
  <2> HIDE DEF left, n
  <2> QED BY <1>1, <2>1
<1> HIDE DEF left
<1>4. frame \in Seq(S) /\ Len(frame) = (1 + n) + 1
      /\ \A i \in 1..((1 + n) + 1) : frame[i] = IF i <= 1 + n THEN left[i] ELSE one[i - (1 + n)]
  <2>1. /\ frame \in Seq(S) /\ Len(frame) = Len(left) + Len(one)
        /\ \A i \in 1..(Len(left) + Len(one)) :
             frame[i] = IF i <= Len(left) THEN left[i] ELSE one[i - Len(left)]
    BY <1>1, <1>3, ConcatProperties DEF Cat
  <2> HIDE DEF frame, n
  <2> QED BY <1>1, <1>3, <2>1
<1> HIDE DEF frame
<1>5. Len(frame) = n + 2 /\ frame[1] = f /\ frame[n + 2] = f
  <2> HIDE DEF n
  <2> QED BY <1>1, <1>2, <1>3, <1>4
<1>6. \A i \in 1..n : frame[i + 1] = b[i]
  <2> HIDE DEF n
  <2> QED BY <1>1, <1>2, <1>3, <1>4
<1>7. cut \in Seq(S) /\ Len(cut) = n /\ \A i \in 1..n : cut[i] = frame[i + 1]
  <2>1. \A i \in 2..(n + 1) : frame[i] \in S
    <3>1. \A i \in 2..(n + 1) : i \in 1..Len(frame)
      BY <1>2, <1>5
    <3> QED BY <1>4, <3>1, ElementOfSeq
  <2>2. 2 \in Int /\ n + 1 \in Int
    BY <1>2
  <2>3. /\ cut \in Seq(S)
        /\ Len(cut) = IF 2 <= n + 1 THEN (n + 1) - 2 + 1 ELSE 0
        /\ \A i \in 1..((n + 1) - 2 + 1) : cut[i] = frame[2 + i - 1]
    BY ONLY <2>1, <2>2, SubSeqProperties
  <2> HIDE DEF cut, n
  <2>4. \A i \in 1..n : 2 + i - 1 = i + 1
    OBVIOUS
  <2>5. (n + 1) - 2 + 1 = n
    BY <1>2
  <2>6. ~(2 <= n + 1) => n = 0
    BY <1>2
  <2> QED BY <2>3, <2>4, <2>5, <2>6
<1>8. cut = b
  <2> HIDE DEF cut
  <2> QED BY <1>6, <1>7, SeqEqual DEF n
<1>9. one = <<f>>
  BY DEF one
<1> QED BY <1>4, <1>5, <1>8, <1>9 DEF frame, left

(* The frame of a payload, and what is between its flags.                  *)
Inside(payload) == EscapeInto(Cat(payload, LeBytes(FrameFcs(payload))))

(* A frame is what was escaped, between two flags.                         *)
LEMMA Encoded ==
  ASSUME NEW payload \in Seq(Byte)
  PROVE  /\ EncodeFrame(payload) = Cat(Cat(<<FLAG>>, Inside(payload)), <<FLAG>>)
         /\ Inside(payload) \in Seq(Plain) /\ Inside(payload) \in Seq(Byte)
         /\ Len(Inside(payload)) >= 2
<1> DEFINE le == LeBytes(FrameFcs(payload))
           a == EscapeInto(payload)
           b == EscapeInto(le)
           one == <<FLAG>>
           all == Cat(payload, le)
<1>1. le \in Seq(Byte) /\ Len(le) = 2
  BY RegisterType, LeType
<1>2. a \in Seq(Byte) /\ b \in Seq(Byte)
  BY <1>1, EscapedAppend
<1>3. one \in Seq(Byte)
  BY OneEscaped
<1>4. Inside(payload) = Cat(a, b)
  BY <1>1, EscapedCat DEF Inside
<1>5. all \in Seq(Byte) /\ Len(all) = Len(payload) + 2 /\ Len(payload) \in Nat
  <2> HIDE DEF le
  <2>1. all \in Seq(Byte) /\ Len(all) = Len(payload) + Len(le)
    BY <1>1, ConcatProperties DEF Cat
  <2>2. Len(payload) \in Nat
    BY LenProperties
  <2> QED BY <1>1, <2>1, <2>2
<1>6. EscapeInto(all) \in Seq(Plain) /\ EscapeInto(all) \in Seq(Byte) /\ Len(EscapeInto(all)) >= Len(all)
  BY <1>5, NoFlagInside, EscapedAppend
<1>7. EncodeFrame(payload) = Cat(Cat(Cat(one, a), b), one)
  BY DEF EncodeFrame, Cat
<1>8. Len(EscapeInto(all)) \in Nat
  BY <1>6, LenProperties
<1> HIDE DEF a, b, one, all
<1>9. Cat(Cat(one, a), b) = Cat(one, Cat(a, b))
  BY <1>2, <1>3, ConcatAssociative DEF Cat
<1>10. EncodeFrame(payload) = Cat(Cat(one, Inside(payload)), one)
  BY <1>4, <1>7, <1>9
<1>11. Inside(payload) = EscapeInto(all)
  BY DEF Inside, all
<1>12. Len(EscapeInto(all)) >= 2
  BY <1>5, <1>6, <1>8
<1> QED BY <1>6, <1>10, <1>11, <1>12 DEF one

(* A frame that fits is decoded to its payload.                            *)
LEMMA DecodedBack ==
  ASSUME NEW payload \in Seq(Byte), Fits(EncodeFrame(payload))
  PROVE  DecodeFrame(EncodeFrame(payload)) = {payload}
<1> DEFINE frame == EncodeFrame(payload)
           in == Inside(payload)
           le == LeBytes(FrameFcs(payload))
           out == Cat(payload, le)
           n == Len(payload)
<1>1. frame = Cat(Cat(<<FLAG>>, in), <<FLAG>>) /\ in \in Seq(Byte) /\ Len(in) >= 2 /\ FLAG \in Byte
  BY Encoded, OneEscaped
<1>2. le \in Seq(Byte) /\ Len(le) = 2 /\ n \in Nat
  BY RegisterType, LeType, LenProperties
<1>3. out \in Seq(Byte) /\ Len(out) = n + 2
  <2> HIDE DEF le
  <2>1. out \in Seq(Byte) /\ Len(out) = n + Len(le)
    BY <1>2, ConcatProperties DEF Cat
  <2> QED BY <1>2, <2>1
<1>4. Unescaped(in) = Read(out)
  BY <1>3, UnescapedBack DEF Inside
<1>5. Len(frame) <= MaxFrameSize
  BY DEF Fits
<1>6. Part(out, 0, n) = payload /\ From(out, n) = le
  BY <1>2, CutBack DEF Cat
<1>7. FcsMatches(payload, le)
  BY DEF FcsMatches
<1>8. Len(in) \in Nat
  BY <1>1, LenProperties
<1> HIDE DEF frame, in, le, out, n
<1>9. Len(frame) = Len(in) + 2 /\ frame[1] = FLAG /\ frame[Len(in) + 2] = FLAG
      /\ SubSeq(frame, 2, Len(in) + 1) = in
  BY <1>1, Between
<1>10. Len(frame) \in 4..MaxFrameSize
  BY <1>1, <1>5, <1>8, <1>9, FrameSizeAssumption
<1>11. Len(frame) - 1 = Len(in) + 1
  BY <1>8, <1>9
<1>12. Read(out).out = out /\ Read(out).escaped = FALSE /\ Read(out).flag = FALSE
  BY DEF Read
<1>13. Len(out) - 2 = n /\ ~(Len(out) < 2)
  BY <1>2, <1>3
<1>14. SubSeq(out, 1, n) = payload /\ SubSeq(out, n + 1, n + 2) = le
  BY <1>2, <1>3, <1>6 DEF Part, From
<1>15. DecodeFrame(frame) =
         IF Len(frame) \notin 4..MaxFrameSize \/ frame[1] # FLAG \/ frame[Len(frame)] # FLAG
         THEN {}
         ELSE IF Read(out).flag \/ Read(out).escaped \/ Len(Read(out).out) < 2 THEN {}
         ELSE IF FcsMatches(SubSeq(out, 1, n), SubSeq(out, n + 1, n + 2))
              THEN {SubSeq(out, 1, n)} ELSE {}
  <2>1. SubSeq(frame, 2, Len(frame) - 1) = in
    BY <1>9, <1>11
  <2> QED BY <1>4, <1>12, <1>13, <2>1 DEF DecodeFrame
<1>16. DecodeFrame(frame) = {SubSeq(out, 1, n)}
  BY <1>7, <1>9, <1>10, <1>12, <1>13, <1>14, <1>15
<1> QED BY <1>14, <1>16 DEF frame

(* The states of read_frame: between two frames, in one, and given up.     *)
Waiting(frames)        == [inFrame |-> FALSE, failed |-> FALSE, frame |-> <<>>, frames |-> frames]
(* The reader inside a frame.                                              *)
Reading(frame, frames) == [inFrame |-> TRUE, failed |-> FALSE, frame |-> frame, frames |-> frames]

(* The reader when a frame was too long.                                   *)
GivenUp(frame, frames) == [inFrame |-> TRUE, failed |-> TRUE, frame |-> frame, frames |-> frames]

(* What an octet does to each.                                             *)
LEMMA OneRead ==
  ASSUME NEW frames \in Seq(Seq(Byte)), NEW frame \in Seq(Byte), NEW octet \in Byte
  PROVE  /\ ReadStep[octet][GivenUp(frame, frames)] = GivenUp(frame, frames)
         /\ octet # FLAG => ReadStep[octet][Waiting(frames)] = Waiting(frames)
         /\ octet = FLAG => ReadStep[octet][Waiting(frames)] = Reading(<<octet>>, frames)
         /\ Len(frame) >= MaxFrameSize =>
              ReadStep[octet][Reading(frame, frames)] = GivenUp(frame, frames)
         /\ ~(Len(frame) >= MaxFrameSize) /\ octet # FLAG =>
              ReadStep[octet][Reading(frame, frames)] = Reading(Append(frame, octet), frames)
         /\ ~(Len(frame) >= MaxFrameSize) /\ octet = FLAG =>
              ReadStep[octet][Reading(frame, frames)] = Waiting(Append(frames, Append(frame, octet)))
<1>1. \A r \in Readers : ReadStep[octet][r] = ReadOctet(r, octet)
  BY DEF ReadStep
<1>2. GivenUp(frame, frames) \in Readers /\ Waiting(frames) \in Readers /\ Reading(frame, frames) \in Readers
  BY DEF GivenUp, Waiting, Reading, Readers
<1>3. ReadOctet(GivenUp(frame, frames), octet) = GivenUp(frame, frames)
  BY DEF ReadOctet, GivenUp
<1>4. octet # FLAG => ReadOctet(Waiting(frames), octet) = Waiting(frames)
  BY DEF ReadOctet, Waiting
<1>5. octet = FLAG => ReadOctet(Waiting(frames), octet) = Reading(<<octet>>, frames)
  BY DEF ReadOctet, Waiting, Reading
<1>6. ReadOctet(Reading(frame, frames), octet) = Push(Reading(frame, frames), octet)
  BY DEF ReadOctet, Reading
<1>7. Len(frame) >= MaxFrameSize => Push(Reading(frame, frames), octet) = GivenUp(frame, frames)
  BY DEF Push, Reading, GivenUp
<1>8. ~(Len(frame) >= MaxFrameSize) /\ octet # FLAG =>
        Push(Reading(frame, frames), octet) = Reading(Append(frame, octet), frames)
  BY DEF Push, Reading
<1>9. ~(Len(frame) >= MaxFrameSize) /\ octet = FLAG =>
        Push(Reading(frame, frames), octet) = Waiting(Append(frames, Append(frame, octet)))
  BY DEF Push, Reading, Waiting
<1> QED BY <1>1, <1>2, <1>3, <1>4, <1>5, <1>6, <1>7, <1>8, <1>9

(* Noise makes no frame, and after a frame that is too long none is read.  *)
LEMMA Unmoved ==
  ASSUME NEW r, NEW S \in SUBSET Byte, \A b \in S : ReadStep[b][r] = r, NEW s \in Seq(S)
  PROVE  Loop(ReadStep, r, s) = r
<1> DEFINE A == {t \in Seq(S) : Loop(ReadStep, r, t) = r}
<1>1. <<>> \in A
  BY LoopEmpty
<1>2. ASSUME NEW t \in Seq(S), NEW b \in S, t \in A PROVE Append(t, b) \in A
  <2>1. Loop(ReadStep, r, Append(t, b)) = ReadStep[b][Loop(ReadStep, r, t)]
    BY LoopAppend
  <2>2. Append(t, b) \in Seq(S)
    BY AppendProperties
  <2> QED BY <1>2, <2>1, <2>2
<1>3. Seq(S) \subseteq A
  <2> HIDE DEF A
  <2> QED BY <1>1, <1>2, AllSeqs
<1> QED BY <1>3

(* What is read behind a flag, up to the next.                             *)
LEMMA Collected ==
  ASSUME NEW frames \in Seq(Seq(Byte)), NEW s \in Seq(Plain)
  PROVE  \/ Loop(ReadStep, Reading(<<FLAG>>, frames), s) = Reading(Cat(<<FLAG>>, s), frames)
         \/ /\ Len(s) + 1 > MaxFrameSize
            /\ \E f \in Seq(Byte) :
                 Loop(ReadStep, Reading(<<FLAG>>, frames), s) = GivenUp(f, frames)
<1> DEFINE one == <<FLAG>>
           At(t) == Loop(ReadStep, Reading(one, frames), t)
           Whole(t) == At(t) = Reading(Cat(one, t), frames)
           Long(t) == Len(t) + 1 > MaxFrameSize /\ \E f \in Seq(Byte) : At(t) = GivenUp(f, frames)
           A == {t \in Seq(Plain) : Whole(t) \/ Long(t)}
<1>1. one \in Seq(Byte) /\ Len(one) = 1
  BY OneEscaped
<1>2. <<>> \in A
  <2>1. Cat(one, <<>>) = one
    BY <1>1, ConcatEmptySeq DEF Cat
  <2>2. At(<<>>) = Reading(one, frames)
    BY LoopEmpty
  <2> QED BY <2>1, <2>2
<1>3. ASSUME NEW t \in Seq(Plain), NEW b \in Plain, t \in A PROVE Append(t, b) \in A
  <2> DEFINE u == Append(t, b)
             g == Cat(one, t)
  <2>1. b \in Byte /\ b # FLAG /\ t \in Seq(Byte)
    <3>1. Plain \subseteq Byte
      BY DEF Plain
    <3> QED BY <3>1, SeqMonotonic DEF Plain
  <2>2. u \in Seq(Plain) /\ Len(u) = Len(t) + 1 /\ Len(t) \in Nat
    BY AppendProperties, LenProperties
  <2>3. At(u) = ReadStep[b][At(t)]
    BY LoopAppend
  <2>4. g \in Seq(Byte) /\ Len(g) = Len(one) + Len(t)
    BY <1>1, <2>1, ConcatProperties DEF Cat
  <2>5. Cat(one, u) = Append(g, b)
    <3>1. <<b>> \in Seq(Byte)
      BY <2>1
    <3>2. u = t \o <<b>> /\ Append(g, b) = g \o <<b>>
      BY <2>1, <2>4, AppendIsConcat
    <3>3. (one \o t) \o <<b>> = one \o (t \o <<b>>)
      BY <1>1, <2>1, <3>1, ConcatAssociative
    <3> QED BY <3>2, <3>3 DEF Cat
  <2>6. CASE Whole(t) /\ ~(Len(g) >= MaxFrameSize)
    <3>1. At(t) = Reading(g, frames)
      BY <2>6
    <3> HIDE DEF g, u, one, At
    <3>2. At(u) = Reading(Append(g, b), frames)
      BY <2>1, <2>3, <2>4, <2>6, <3>1, OneRead
    <3>3. Whole(u)
      BY <2>5, <3>2
    <3> QED BY <2>2, <3>3 DEF u
  <2>7. CASE Whole(t) /\ Len(g) >= MaxFrameSize
    <3>1. At(t) = Reading(g, frames)
      BY <2>7
    <3> HIDE DEF g, u, one, At
    <3>2. At(u) = GivenUp(g, frames)
      BY <2>1, <2>3, <2>4, <2>7, <3>1, OneRead
    <3>3. Len(u) + 1 > MaxFrameSize
      BY <1>1, <2>2, <2>4, <2>7, FrameSizeAssumption
    <3>4. Long(u)
      BY <2>4, <3>2, <3>3
    <3> QED BY <2>2, <3>4 DEF u
  <2>8. CASE Long(t)
    <3>1. PICK f \in Seq(Byte) : At(t) = GivenUp(f, frames)
      BY <2>8
    <3> HIDE DEF g, u, one, At
    <3>2. At(u) = GivenUp(f, frames)
      BY <2>1, <2>3, <3>1, OneRead
    <3>3. Len(u) + 1 > MaxFrameSize
      BY <2>2, <2>8, FrameSizeAssumption
    <3>4. Long(u)
      BY <3>2, <3>3
    <3> QED BY <2>2, <3>4 DEF u
  <2> QED BY <1>3, <2>6, <2>7, <2>8
<1>4. Seq(Plain) \subseteq A
  <2> HIDE DEF A
  <2> QED BY <1>2, <1>3, AllSeqs
<1> QED BY <1>4

(* One frame, whatever is in it.                                           *)
LEMMA FrameRead ==
  ASSUME NEW frames \in Seq(Seq(Byte)), NEW s \in Seq(Plain)
  PROVE  LET frame == Cat(Cat(<<FLAG>>, s), <<FLAG>>)
         IN  /\ Fits(frame) => Loop(ReadStep, Waiting(frames), frame) = Waiting(Append(frames, frame))
             /\ ~Fits(frame) => \E f \in Seq(Byte) :
                  Loop(ReadStep, Waiting(frames), frame) = GivenUp(f, frames)
<1> DEFINE one == <<FLAG>>
           g == Cat(one, s)
           frame == Cat(g, one)
           W == Waiting(frames)
           R == Reading(one, frames)
           M == Loop(ReadStep, R, s)
           E == Loop(ReadStep, W, frame)
<1>1. FLAG \in Byte
  BY OneEscaped
<1>2. one \in Seq(Byte) /\ Len(one) = 1
  BY <1>1
<1>3. s \in Seq(Byte)
  <2>1. Plain \subseteq Byte
    BY DEF Plain
  <2> QED BY <2>1, SeqMonotonic
<1>4. g \in Seq(Byte) /\ Len(g) = Len(one) + Len(s) /\ Len(s) \in Nat
  BY <1>2, <1>3, ConcatProperties, LenProperties DEF Cat
<1>5. frame = Append(g, FLAG) /\ frame \in Seq(Byte)
  BY <1>1, <1>2, <1>4, AppendIsConcat, ConcatProperties DEF Cat
<1>6. Len(frame) = Len(g) + 1
  BY <1>1, <1>4, <1>5, AppendProperties
<1>7. Loop(ReadStep, W, one) = R
  BY <1>1, LoopOne, OneRead
<1>8. E = ReadStep[FLAG][M]
  <2>1. E = ReadStep[FLAG][Loop(ReadStep, W, g)]
    <3> HIDE DEF W, g, frame
    <3> QED BY <1>1, <1>4, <1>5, LoopAppend
  <2>2. Loop(ReadStep, W, g) = Loop(ReadStep, Loop(ReadStep, W, one), s)
    <3> HIDE DEF W, one
    <3> QED BY <1>2, <1>3, LoopConcat DEF Cat
  <2> QED BY <1>7, <2>1, <2>2
<1>9. \/ M = Reading(g, frames)
      \/ /\ Len(s) + 1 > MaxFrameSize
         /\ \E f \in Seq(Byte) : M = GivenUp(f, frames)
  BY Collected
<1> HIDE DEF one, g, frame, M, E, R
<1>10. Fits(frame) <=> ~(Len(g) >= MaxFrameSize)
  BY <1>2, <1>4, <1>6, FrameSizeAssumption DEF Fits
<1>11. CASE M = Reading(g, frames)
  <2>1. ~(Len(g) >= MaxFrameSize) => E = Waiting(Append(frames, Append(g, FLAG)))
    BY <1>1, <1>4, <1>8, <1>11, OneRead
  <2>2. Len(g) >= MaxFrameSize => E = GivenUp(g, frames)
    BY <1>1, <1>4, <1>8, <1>11, OneRead
  <2> QED BY <1>4, <1>5, <1>10, <2>1, <2>2 DEF one, g, frame, E
<1>12. CASE Len(s) + 1 > MaxFrameSize /\ \E f \in Seq(Byte) : M = GivenUp(f, frames)
  <2>1. PICK f \in Seq(Byte) : M = GivenUp(f, frames)
    BY <1>12
  <2>2. E = GivenUp(f, frames)
    BY <1>1, <1>8, <2>1, OneRead
  <2>3. ~Fits(frame)
    BY <1>2, <1>4, <1>6, <1>12, FrameSizeAssumption DEF Fits
  <2> QED BY <2>2, <2>3 DEF one, g, frame, E
<1> QED BY <1>9, <1>11, <1>12

(* A loop over five sequences, one after the other.                        *)
LEMMA LoopFive ==
  ASSUME NEW step, NEW init, NEW S, NEW a \in Seq(S), NEW b \in Seq(S), NEW c \in Seq(S),
         NEW d \in Seq(S), NEW e \in Seq(S)
  PROVE  Loop(step, init, Cat(Cat(Cat(Cat(a, b), c), d), e)) =
           Loop(step, Loop(step, Loop(step, Loop(step, Loop(step, init, a), b), c), d), e)
<1>1. \A s \in Seq(S), t \in Seq(S) :
        /\ Cat(s, t) \in Seq(S)
        /\ Loop(step, init, Cat(s, t)) = Loop(step, Loop(step, init, s), t)
  BY ConcatProperties, LoopConcat DEF Cat
<1> QED BY <1>1

(* One, then two.                                                          *)
LEMMA InTurn ==
  ASSUME NEW S, NEW x \in S, NEW y \in S
  PROVE  Append(<<>>, x) = <<x>> /\ Append(<<x>>, y) = <<x, y>>
<1> DEFINE one == <<x>>
           two == <<x, y>>
           u == Append(one, y)
<1>1. one \in Seq(S) /\ Len(one) = 1 /\ one[1] = x
  OBVIOUS
<1>2. two \in Seq(S) /\ Len(two) = 2 /\ two[1] = x /\ two[2] = y
  OBVIOUS
<1>3. Append(<<>>, x) = one
  OBVIOUS
<1> HIDE DEF one, two
<1>4. /\ u \in Seq(S) /\ Len(u) = Len(one) + 1
      /\ \A i \in 1..Len(one) : u[i] = one[i]
      /\ u[Len(one) + 1] = y
  BY <1>1, AppendProperties, ZenonT(30)
<1> HIDE DEF u
<1>5. Len(u) = 2 /\ u[1] = x /\ u[2] = y
  BY <1>1, <1>4
<1>6. \A i \in 1..Len(u) : u[i] = two[i]
  BY <1>2, <1>5
<1>7. u = two
  BY <1>2, <1>4, <1>5, <1>6, SeqEqual
<1> QED BY <1>3, <1>7 DEF one, two, u

(* No frame begins in noise.                                               *)
LEMMA NoiseQuiet ==
  ASSUME NEW frames \in Seq(Seq(Byte))
  PROVE  Loop(ReadStep, Waiting(frames), Noise) = Waiting(frames)
<1>1. Noise \in Seq(Plain)
  <2>1. {} \in Plain /\ {0} \in Plain /\ ESCAPE \in Plain
    <3>1. {} \in Byte /\ {0} \in Byte
      BY DEF Byte
    <3>2. 1 \in FLAG /\ 1 \notin {} /\ 1 \notin {0}
      BY DEF FLAG
    <3>3. {} # FLAG /\ {0} # FLAG
      BY <3>2
    <3> QED BY <3>1, <3>3, OneEscaped DEF Plain
  <2> QED BY <2>1 DEF Noise
<1>2. Plain \in SUBSET Byte
  BY DEF Plain
<1>3. \A b \in Plain : ReadStep[b][Waiting(frames)] = Waiting(frames)
  <2>1. <<>> \in Seq(Byte)
    OBVIOUS
  <2> QED BY <2>1, OneRead DEF Plain
<1> QED BY <1>1, <1>2, <1>3, Unmoved

(* A reader that gave up reads nothing more.                               *)
LEMMA GivenUpStays ==
  ASSUME NEW frames \in Seq(Seq(Byte)), NEW f \in Seq(Byte), NEW s \in Seq(Byte)
  PROVE  Loop(ReadStep, GivenUp(f, frames), s) = GivenUp(f, frames)
<1>1. \A b \in Byte : ReadStep[b][GivenUp(f, frames)] = GivenUp(f, frames)
  BY OneRead
<1> QED BY <1>1, Unmoved

(* Two frames in noise are read as the two, of whatever payload.           *)
LEMMA ApartAlways ==
  ASSUME NEW payload \in Seq(Byte)
  PROVE  FrameApart(payload)
<1> DEFINE back == Reverse(payload)
           p == EncodeFrame(payload)
           q == EncodeFrame(back)
           one == <<p>>
           both == <<p, q>>
           stream == Cat(Cat(Cat(Cat(Noise, p), Noise), q), Noise)
           L(r, s) == Loop(ReadStep, r, s)
           W0 == Waiting(<<>>)
           W1 == Waiting(one)
           W2 == Waiting(both)
           end == L(W0, stream)
<1>1. back \in Seq(Byte)
  BY ElementOfSeq, LenProperties DEF Reverse
<1>2. /\ p = Cat(Cat(<<FLAG>>, Inside(payload)), <<FLAG>>) /\ Inside(payload) \in Seq(Plain)
      /\ q = Cat(Cat(<<FLAG>>, Inside(back)), <<FLAG>>) /\ Inside(back) \in Seq(Plain)
      /\ Inside(payload) \in Seq(Byte) /\ Inside(back) \in Seq(Byte) /\ FLAG \in Byte
  BY <1>1, Encoded, OneEscaped
<1>3. p \in Seq(Byte) /\ q \in Seq(Byte)
  BY <1>2, Between
<1>4. Noise \in Seq(Byte)
  BY OneEscaped DEF Noise, Byte
<1>5. (Fits(p) => DecodeFrame(p) = {payload}) /\ (Fits(q) => DecodeFrame(q) = {back})
  BY <1>1, DecodedBack
<1>6. FramesOf(stream) = end.frames
  BY DEF FramesOf, Waiting
<1> HIDE DEF p, q, back
<1>7. end = L(L(L(L(L(W0, Noise), p), Noise), q), Noise)
  <2> HIDE DEF W0
  <2> QED BY <1>3, <1>4, LoopFive
<1>8. <<>> \in Seq(Seq(Byte)) /\ one \in Seq(Seq(Byte)) /\ both \in Seq(Seq(Byte))
      /\ Append(<<>>, p) = one /\ Append(one, q) = both
      /\ both[1] = p /\ both[2] = q /\ <<both[1]>> = one
  <2> DEFINE T == Seq(Byte)
  <2>1. p \in T /\ q \in T
    BY <1>3
  <2> HIDE DEF T
  <2>2. <<>> \in Seq(T) /\ one \in Seq(T) /\ both \in Seq(T)
    BY <2>1
  <2>3. Append(<<>>, p) = one /\ Append(one, q) = both
    BY <2>1, InTurn
  <2> QED BY <2>2, <2>3 DEF T
<1> HIDE DEF one, both
<1>9. L(W0, Noise) = W0 /\ L(W1, Noise) = W1 /\ L(W2, Noise) = W2
  BY <1>8, NoiseQuiet
<1>10. /\ Fits(p) => L(W0, p) = W1
       /\ ~Fits(p) => \E f \in Seq(Byte) : L(W0, p) = GivenUp(f, <<>>)
  BY <1>2, <1>8, FrameRead
<1>11. /\ Fits(q) => L(W1, q) = W2
       /\ ~Fits(q) => \E f \in Seq(Byte) : L(W1, q) = GivenUp(f, one)
  BY <1>2, <1>8, FrameRead
<1>12. FramesOf(stream) = Fitting(both)
  <2>1. CASE ~Fits(p)
    <3>1. PICK f \in Seq(Byte) : L(W0, p) = GivenUp(f, <<>>)
      BY <1>10, <2>1
    <3> DEFINE g == GivenUp(f, <<>>)
    <3>2. L(g, Noise) = g /\ L(g, q) = g
      BY <1>3, <1>4, <1>8, GivenUpStays
    <3>3. g.frames = <<>>
      BY DEF GivenUp
    <3> HIDE DEF g, L
    <3>4. end = g
      BY <1>7, <1>9, <3>1, <3>2 DEF g
    <3>5. Fitting(both) = <<>>
      BY <1>8, <2>1 DEF Fitting
    <3> QED BY <1>6, <3>3, <3>4, <3>5
  <2>2. CASE Fits(p) /\ ~Fits(q)
    <3>1. PICK f \in Seq(Byte) : L(W1, q) = GivenUp(f, one)
      BY <1>11, <2>2
    <3> DEFINE g == GivenUp(f, one)
    <3>2. L(g, Noise) = g
      BY <1>3, <1>4, <1>8, GivenUpStays
    <3>3. g.frames = one
      BY DEF GivenUp
    <3> HIDE DEF g, L
    <3>4. end = g
      BY <1>7, <1>9, <1>10, <2>2, <3>1, <3>2 DEF g
    <3>5. Fitting(both) = one
      BY <1>8, <2>2 DEF Fitting
    <3> QED BY <1>6, <3>3, <3>4, <3>5
  <2>3. CASE Fits(p) /\ Fits(q)
    <3>1. W2.frames = both
      BY DEF Waiting
    <3> HIDE DEF L, W0, W1, W2
    <3>2. end = W2
      BY <1>7, <1>9, <1>10, <1>11, <2>3
    <3>3. Fitting(both) = both
      BY <1>8, <2>3 DEF Fitting
    <3> QED BY <1>6, <3>1, <3>2, <3>3
  <2> QED BY <2>1, <2>2, <2>3
<1>13. FramesOf(Noise \o both[1] \o Noise \o both[2] \o Noise) = Fitting(both)
  BY <1>8, <1>12 DEF Cat
<1>14. both = <<EncodeFrame(payload), EncodeFrame(Reverse(payload))>>
  BY DEF both, p, q, back
<1> QED BY <1>5, <1>8, <1>13, <1>14 DEF FrameApart, back, p, q

(* Frames are told apart in a stream, and decoded to what was sent,        *)
(* whatever payload and check sequence hold (read_frame, encode, decode).  *)
THEOREM FramesExact == FormatsSpec => []FramesApart
<1>1. InputOK => FramesApart
  <2>1. Seq(FrameBytes) \subseteq Seq(Byte)
    BY InputsAssumption
  <2> QED BY <2>1, ApartAlways DEF InputOK, FramesApart
<1> QED BY <1>1, InputsRead, PTL

(* Kept, over elements that need not all occur.                            *)
KeepStep(S, A) == [a \in S |-> [kept \in Seq(S) |-> IF a \in A THEN Append(kept, a) ELSE kept]]

(* Kept, with the set the elements come from.                              *)
KeptOf(S, A, s) == Loop(KeepStep(S, A), <<>>, s)

(* What is kept is a sequence of those elements,                           *)
LEMMA KeptOfType ==
  ASSUME NEW S, NEW A
  PROVE  /\ KeptOf(S, A, <<>>) = <<>>
         /\ \A s \in Seq(S) : KeptOf(S, A, s) \in Seq(S)
<1>1. KeptOf(S, A, <<>>) = <<>>
  BY LoopEmpty DEF KeptOf
<1>2. KeepStep(S, A) \in [S -> [Seq(S) -> Seq(S)]]
  <2>1. \A a \in S, kept \in Seq(S) : Append(kept, a) \in Seq(S)
    BY AppendProperties
  <2> QED BY <2>1 DEF KeepStep
<1>3. ASSUME NEW s \in Seq(S) PROVE KeptOf(S, A, s) \in Seq(S)
  <2>1. <<>> \in Seq(S)
    OBVIOUS
  <2> QED BY <1>2, <2>1, LoopType DEF KeptOf
<1> QED BY <1>1, <1>3

(* one element longer or not,                                              *)
LEMMA KeptOfAppend ==
  ASSUME NEW S, NEW A, NEW s \in Seq(S), NEW a \in S
  PROVE  KeptOf(S, A, Append(s, a)) = IF a \in A THEN Append(KeptOf(S, A, s), a)
                                      ELSE KeptOf(S, A, s)
<1> DEFINE k == KeptOf(S, A, s)
<1>1. KeptOf(S, A, Append(s, a)) = KeepStep(S, A)[a][k]
  BY LoopAppend DEF KeptOf
<1>2. k \in Seq(S)
  BY KeptOfType
<1> HIDE DEF k
<1>3. KeepStep(S, A)[a][k] = IF a \in A THEN Append(k, a) ELSE k
  BY <1>2 DEF KeepStep
<1> QED BY <1>1, <1>3 DEF k

(* and the same for every such set.                                        *)
LEMMA KeptOfFewer ==
  ASSUME NEW S, NEW A, NEW E \in SUBSET S, NEW s \in Seq(E)
  PROVE  KeptOf(E, A, s) = KeptOf(S, A, s)
<1> DEFINE B == {t \in Seq(E) : KeptOf(E, A, t) = KeptOf(S, A, t)}
<1>1. <<>> \in B
  <2>1. <<>> \in Seq(E)
    OBVIOUS
  <2> QED BY <2>1, KeptOfType
<1>2. ASSUME NEW t \in Seq(E), NEW a \in E, t \in B PROVE Append(t, a) \in B
  <2> DEFINE u == Append(t, a)
             k == KeptOf(S, A, t)
  <2>1. t \in Seq(S) /\ a \in S
    BY SeqMonotonic
  <2>2. u \in Seq(E)
    BY AppendProperties
  <2>3. KeptOf(E, A, t) = k
    BY <1>2
  <2>4. KeptOf(E, A, u) = IF a \in A THEN Append(KeptOf(E, A, t), a) ELSE KeptOf(E, A, t)
    BY KeptOfAppend
  <2>5. KeptOf(S, A, u) = IF a \in A THEN Append(k, a) ELSE k
    BY <2>1, KeptOfAppend
  <2> HIDE DEF u, k
  <2>6. KeptOf(E, A, u) = KeptOf(S, A, u)
    BY <2>3, <2>4, <2>5
  <2> QED BY <2>2, <2>6 DEF u
<1>3. Seq(E) \subseteq B
  <2> HIDE DEF B
  <2> QED BY <1>1, <1>2, AllSeqs
<1> QED BY <1>3

(* What is kept of a sequence, one element after another.                  *)
LEMMA KeptIsOf ==
  ASSUME NEW S, NEW A, NEW s \in Seq(S)
  PROVE  Kept(s, A) = KeptOf(S, A, s)
<1> DEFINE E == {s[i] : i \in 1..Len(s)}
<1>1. E \in SUBSET S
  BY ElementOfSeq
<1>2. s \in Seq(E)
  BY LenProperties
<1>3. Kept(s, A) = KeptOf(E, A, s)
  BY DEF Kept, KeptOf, KeepStep
<1> HIDE DEF E
<1> QED BY <1>1, <1>2, <1>3, KeptOfFewer

(* So for Kept: what is kept is a sequence of the elements,                *)
LEMMA KeptType ==
  ASSUME NEW S, NEW A
  PROVE  /\ Kept(<<>>, A) = <<>>
         /\ \A s \in Seq(S) : Kept(s, A) \in Seq(S)
<1>1. <<>> \in Seq(S)
  OBVIOUS
<1>2. Kept(<<>>, A) = <<>>
  <2> DEFINE e == <<>>
  <2>1. e \in Seq(S)
    OBVIOUS
  <2>2. KeptOf(S, A, e) = e
    BY KeptOfType
  <2> HIDE DEF e
  <2>3. Kept(e, A) = KeptOf(S, A, e)
    BY <2>1, KeptIsOf
  <2>4. Kept(e, A) = e
    BY <2>2, <2>3
  <2> QED BY <2>4 DEF e
<1>3. ASSUME NEW s \in Seq(S) PROVE Kept(s, A) \in Seq(S)
  <2>1. KeptOf(S, A, s) \in Seq(S)
    BY KeptOfType
  <2> QED BY <2>1, KeptIsOf
<1> QED BY <1>2, <1>3

(* and grows by an element that is kept.                                   *)
LEMMA KeptAppend ==
  ASSUME NEW S, NEW A, NEW s \in Seq(S), NEW a \in S
  PROVE  Kept(Append(s, a), A) = IF a \in A THEN Append(Kept(s, A), a) ELSE Kept(s, A)
<1> DEFINE u == Append(s, a)
           k == Kept(s, A)
<1>1. u \in Seq(S)
  BY AppendProperties
<1>2. Kept(u, A) = KeptOf(S, A, u) /\ k = KeptOf(S, A, s)
  BY <1>1, KeptIsOf
<1>3. KeptOf(S, A, u) = IF a \in A THEN Append(KeptOf(S, A, s), a) ELSE KeptOf(S, A, s)
  BY KeptOfAppend
<1> HIDE DEF u, k
<1>4. Kept(u, A) = IF a \in A THEN Append(k, a) ELSE k
  BY <1>2, <1>3
<1> QED BY <1>4 DEF u, k

(* What is kept of two sequences.                                          *)
LEMMA KeptCat ==
  ASSUME NEW S, NEW A, NEW s \in Seq(S), NEW t \in Seq(S)
  PROVE  Kept(Cat(s, t), A) = Cat(Kept(s, A), Kept(t, A))
<1> DEFINE B == {u \in Seq(S) : Kept(Cat(s, u), A) = Cat(Kept(s, A), Kept(u, A))}
           e == Kept(s, A)
<1>0. e \in Seq(S)
  BY KeptType
<1>1. <<>> \in B
  <2>1. Cat(s, <<>>) = s /\ Cat(e, <<>>) = e
    BY <1>0, ConcatEmptySeq DEF Cat
  <2> QED BY <2>1, KeptType
<1>2. ASSUME NEW u \in Seq(S), NEW b \in S, u \in B PROVE Append(u, b) \in B
  <2> DEFINE f == Kept(u, A)
             v == Cat(s, u)
             w == Append(u, b)
  <2>1. Kept(v, A) = Cat(e, f)
    BY <1>2
  <2>2. f \in Seq(S)
    BY KeptType
  <2>3. v \in Seq(S) /\ w \in Seq(S)
    BY ConcatProperties, AppendProperties DEF Cat
  <2>4. Kept(Append(v, b), A) = IF b \in A THEN Append(Kept(v, A), b) ELSE Kept(v, A)
    BY <2>3, KeptAppend
  <2>5. Kept(w, A) = IF b \in A THEN Append(f, b) ELSE f
    BY KeptAppend
  <2>6. \A x \in Seq(S), y \in Seq(S) : Cat(x, Append(y, b)) = Append(Cat(x, y), b)
    <3> SUFFICES ASSUME NEW x \in Seq(S), NEW y \in Seq(S)
                 PROVE  Cat(x, Append(y, b)) = Append(Cat(x, y), b)
      OBVIOUS
    <3>1. <<b>> \in Seq(S) /\ x \o y \in Seq(S)
      BY ConcatProperties
    <3>2. Append(y, b) = y \o <<b>> /\ Append(x \o y, b) = (x \o y) \o <<b>>
      BY <3>1, AppendIsConcat
    <3>3. (x \o y) \o <<b>> = x \o (y \o <<b>>)
      BY <3>1, ConcatAssociative
    <3> QED BY <3>2, <3>3 DEF Cat
  <2>7. Cat(s, w) = Append(v, b)
    BY <2>6
  <2> HIDE DEF e, f, v, w
  <2>8. Kept(Cat(s, w), A) = Cat(e, Kept(w, A))
    <3>1. Cat(e, Append(f, b)) = Append(Cat(e, f), b)
      BY <1>0, <2>2, <2>6
    <3> QED BY <2>1, <2>4, <2>5, <2>7, <3>1
  <2> QED BY <2>3, <2>8 DEF e, w
<1>3. Seq(S) \subseteq B
  <2> HIDE DEF B
  <2> QED BY <1>1, <1>2, AllSeqs
<1> QED BY <1>3 DEF e

(* Nothing, or everything, is kept.                                        *)
LEMMA KeptNoneOrAll ==
  ASSUME NEW S, NEW A, NEW s \in Seq(S)
  PROVE  /\ (\A i \in 1..Len(s) : s[i] \notin A) => Kept(s, A) = <<>>
         /\ (\A i \in 1..Len(s) : s[i] \in A) => Kept(s, A) = s
<1> DEFINE N(t) == (\A i \in 1..Len(t) : t[i] \notin A) => Kept(t, A) = <<>>
           Y(t) == (\A i \in 1..Len(t) : t[i] \in A) => Kept(t, A) = t
           B == {t \in Seq(S) : N(t) /\ Y(t)}
<1>1. <<>> \in B
  BY KeptType
<1>2. ASSUME NEW t \in Seq(S), NEW b \in S, t \in B PROVE Append(t, b) \in B
  <2> DEFINE u == Append(t, b)
             k == Kept(t, A)
  <2>1. u \in Seq(S) /\ Len(u) = Len(t) + 1 /\ u[Len(t) + 1] = b
        /\ \A i \in 1..Len(t) : u[i] = t[i]
    BY AppendProperties
  <2>2. Kept(u, A) = IF b \in A THEN Append(k, b) ELSE k
    BY KeptAppend
  <2>3. Len(t) \in Nat
    BY LenProperties
  <2>4. (\A i \in 1..Len(t) : t[i] \notin A) => k = <<>>
    BY <1>2
  <2>5. (\A i \in 1..Len(t) : t[i] \in A) => k = t
    BY <1>2
  <2>6. u = Append(t, b)
    OBVIOUS
  <2> HIDE DEF u, k
  <2>7. N(u)
    BY <2>1, <2>2, <2>3, <2>4
  <2>8. Y(u)
    BY <2>1, <2>2, <2>3, <2>5, <2>6
  <2> QED BY <2>1, <2>7, <2>8 DEF u
<1>3. Seq(S) \subseteq B
  <2> HIDE DEF B
  <2> QED BY <1>1, <1>2, AllSeqs
<1> QED BY <1>3

(* The elements that are kept, and their places, one by one.               *)
LEMMA KeptPlaces ==
  ASSUME NEW S, NEW A, NEW s \in Seq(S)
  PROVE  \E at \in Bijection(1..Len(Kept(s, A)), {i \in 1..Len(s) : s[i] \in A}) :
           \A n \in 1..Len(Kept(s, A)) : Kept(s, A)[n] = s[at[n]]
<1> DEFINE D(t) == 1..Len(Kept(t, A))
           P(t) == {i \in 1..Len(t) : t[i] \in A}
           Maps(t, at) == /\ at \in Bijection(D(t), P(t))
                          /\ \A n \in D(t) : Kept(t, A)[n] = t[at[n]]
           B == {t \in Seq(S) : \E at : Maps(t, at)}
<1>1. <<>> \in B
  <2>1. D(<<>>) = {} /\ P(<<>>) = {}
    BY KeptType
  <2>2. [n \in {} |-> n] \in Bijection({}, {})
    BY DEF Bijection, Injection, Surjection, IsInjective
  <2>3. <<>> \in Seq(S)
    OBVIOUS
  <2> QED BY <2>1, <2>2, <2>3
<1>2. ASSUME NEW t \in Seq(S), NEW b \in S, t \in B PROVE Append(t, b) \in B
  <2> DEFINE u == Append(t, b)
             k == Kept(t, A)
             m == Len(t)
             l == Len(k)
             h == Kept(u, A)
  <2>1. u \in Seq(S) /\ Len(u) = m + 1 /\ u[m + 1] = b /\ \A i \in 1..m : u[i] = t[i]
    BY AppendProperties
  <2>2. h = IF b \in A THEN Append(k, b) ELSE k
    BY KeptAppend
  <2>3. k \in Seq(S)
    BY KeptType
  <2>4. m \in Nat /\ l \in Nat
    BY <2>3, LenProperties
  <2>5. PICK at : Maps(t, at)
    BY <1>2
  <2>6. at \in [1..l -> P(t)] /\ \A x, y \in 1..l : at[x] = at[y] => x = y
    BY <2>5 DEF Bijection, Injection, IsInjective
  <2>7. (\A i \in P(t) : \E x \in 1..l : at[x] = i) /\ \A n \in 1..l : k[n] = t[at[n]]
    BY <2>5 DEF Bijection, Surjection
  <2>8. P(u) = IF b \in A THEN P(t) \cup {m + 1} ELSE P(t)
    <3> HIDE DEF u, m
    <3> QED BY <2>1, <2>4 DEF m
  <2>9. CASE b \notin A
    <3>1. h = k /\ P(u) = P(t)
      BY <2>2, <2>8, <2>9
    <3>2. \A n \in 1..l : at[n] \in 1..m
      BY <2>6
    <3>3. \A n \in 1..l : k[n] = u[at[n]]
      BY <2>1, <2>7, <3>2
    <3> HIDE DEF u, k, h, m, P
    <3>4. Maps(u, at)
      BY <2>5, <3>1, <3>3 DEF h, k, l
    <3> QED BY <2>1, <3>4 DEF u
  <2>10. CASE b \in A
    <3> DEFINE bt == [n \in 1..(l + 1) |-> IF n = l + 1 THEN m + 1 ELSE at[n]]
    <3>1. /\ h \in Seq(S) /\ Len(h) = l + 1 /\ h[l + 1] = b
          /\ \A n \in 1..l : h[n] = k[n]
      BY <2>2, <2>3, <2>10, AppendProperties
    <3>2. P(u) = P(t) \cup {m + 1} /\ P(t) \subseteq 1..m
      BY <2>8, <2>10
    <3>3. \A n \in 1..(l + 1) : n \in 1..l \/ n = l + 1
      BY <2>4
    <3>4. \A n \in 1..l : n \in 1..(l + 1) /\ n # l + 1
      BY <2>4
    <3>5. m + 1 \notin 1..m /\ l + 1 \in 1..(l + 1)
      BY <2>4
    <3> HIDE DEF u, k, h, m, l, P
    <3>6. /\ bt[l + 1] = m + 1
          /\ \A n \in 1..l : bt[n] = at[n]
      BY <3>4, <3>5
    <3>7. bt \in [1..(l + 1) -> P(u)]
      BY <2>6, <3>2, <3>3
    <3>8. \A x, y \in 1..(l + 1) : bt[x] = bt[y] => x = y
      BY <2>6, <3>2, <3>3, <3>5, <3>6
    <3>9. \A i \in P(u) : \E x \in 1..(l + 1) : bt[x] = i
      BY <2>7, <3>2, <3>4, <3>5, <3>6
    <3>10. \A n \in 1..(l + 1) : h[n] = u[bt[n]]
      BY <2>1, <2>6, <2>7, <3>1, <3>2, <3>3, <3>6
    <3>11. DOMAIN bt = 1..(l + 1)
      OBVIOUS
    <3> HIDE DEF bt
    <3>12. bt \in Bijection(1..(l + 1), P(u))
      BY <3>7, <3>8, <3>9, <3>11 DEF Bijection, Injection, Surjection, IsInjective
    <3>13. Maps(u, bt)
      BY <3>1, <3>10, <3>12 DEF h
    <3> QED BY <2>1, <3>13 DEF u
  <2> QED BY <2>9, <2>10
<1>3. Seq(S) \subseteq B
  <2> HIDE DEF B
  <2> QED BY <1>1, <1>2, AllSeqs
<1>4. PICK at : Maps(s, at)
  BY <1>3
<1> QED BY <1>4

(* What stands on a line, told apart.                                      *)
LEMMA SymbolsApart ==
  /\ TextWords \cap Spaces = {} /\ Blank \in Spaces /\ Tab \in Spaces /\ Blank # Tab
  /\ Kind \in TextWords /\ Comment \in TextWords /\ Kind # Comment
  /\ \A k \in Keys, c \in BOOLEAN :
       KeyText(k, c) \in TextWords /\ KeyText(k, c) \notin {Kind, Comment}
  /\ \A k, l \in Keys, c, d \in BOOLEAN : KeyText(k, c) = KeyText(l, d) => k = l
  /\ \A h \in Hosts : HostWord(h) \in TextWords /\ HostWord(h) \notin {Kind, Comment}
<1>1. \A k \in Keys, c \in BOOLEAN : KeyText(k, c) \in KeyTexts
  BY DEF KeyTexts
<1>2. \A w \in TextWords : w = Kind \/ w = Comment
                           \/ (\E k \in Keys, c \in BOOLEAN : w = KeyText(k, c))
                           \/ (\E h \in Hosts : w = HostWord(h))
  BY DEF TextWords, KeyTexts
<1>3. /\ \A w \in TextWords : DOMAIN w = {"word"} \/ DOMAIN w = {"word", "key", "canonical"}
                               \/ DOMAIN w = {"word", "host"}
      /\ \A s \in Spaces : DOMAIN s = {"space"}
  BY <1>2 DEF Kind, Comment, KeyText, HostWord, Spaces, Blank, Tab
<1>4. TextWords \cap Spaces = {}
  BY <1>3
<1>5. Blank.space = "blank" /\ Tab.space = "tab" /\ Kind.word = "mldsa-ed25519" /\ Comment.word = "#"
  BY DEF Blank, Tab, Kind, Comment
<1>6. \A k \in Keys, c \in BOOLEAN : KeyText(k, c).word = "base64" /\ KeyText(k, c).key = k
  BY DEF KeyText
<1>7. \A h \in Hosts : HostWord(h).word = "host"
  BY DEF HostWord
<1> QED BY <1>1, <1>4, <1>5, <1>6, <1>7 DEF TextWords, Spaces

(* The least and the largest element.                                      *)
LEMMA LeastAndLargest ==
  ASSUME NEW n \in Nat, NEW A \in SUBSET (1..n), A # {}
  PROVE  /\ Min(A) \in A /\ Max(A) \in A
         /\ \A x \in A : Min(A) <= x /\ x <= Max(A)
<1>1. \E x \in A : \A y \in A : x <= y
  <2>1. A \in SUBSET Nat
    OBVIOUS
  <2> QED BY <2>1, LeastNat
<1>2. \E x \in A : \A y \in A : x >= y
  <2> DEFINE B == {n - x : x \in A}
  <2>1. B \in SUBSET Nat /\ B # {}
    <3>1. \A x \in A : n - x \in Nat
      OBVIOUS
    <3>2. PICK y : y \in A
      OBVIOUS
    <3>3. n - y \in B
      BY <3>2
    <3> QED BY <3>1, <3>3
  <2>2. PICK z \in B : \A y \in B : z <= y
    BY <2>1, LeastNat
  <2>3. PICK x \in A : z = n - x
    OBVIOUS
  <2>4. \A y \in A : n - x <= n - y
    BY <2>2, <2>3
  <2>5. \A y \in A : x >= y
    BY <2>4
  <2> QED BY <2>5
<1>3. Min(A) \in A /\ \A x \in A : Min(A) <= x
  BY <1>1 DEF Min
<1>4. Max(A) \in A /\ \A x \in A : Max(A) >= x
  BY <1>2 DEF Max
<1> QED BY <1>3, <1>4

(* A sequence with a first element.                                        *)
LEMMA FirstKept ==
  ASSUME NEW S, NEW A, NEW s \in Seq(S), s # <<>>, s[1] \in A
  PROVE  Kept(s, A) # <<>> /\ Head(Kept(s, A)) = s[1]
<1> DEFINE x == s[1]
           one == <<x>>
           rest == SubSeq(s, 2, Len(s))
           k == Kept(rest, A)
<1>1. Len(s) \in Nat \ {0}
  BY EmptySeq
<1>2. x \in S /\ rest \in Seq(S)
  <2>1. 1 \in 1..Len(s) /\ \A i \in 2..Len(s) : i \in 1..Len(s)
    BY <1>1
  <2>2. \A i \in 2..Len(s) : s[i] \in S
    BY <2>1, ElementOfSeq
  <2>3. 2 \in Int /\ Len(s) \in Int
    BY <1>1
  <2> QED BY <2>1, <2>2, <2>3, ElementOfSeq, SubSeqProperties
<1>3. s = Cat(one, rest)
  <2>1. SubSeq(s, 1, Len(s)) = <<s[1]>> \o SubSeq(s, 1 + 1, Len(s))
    BY <1>1, SubSeqRecursiveFirst
  <2>2. SubSeq(s, 1, Len(s)) = s
    BY SubSeqFull
  <2> QED BY <2>1, <2>2 DEF Cat
<1>4. one \in Seq(S) /\ Len(one) = 1 /\ one[1] = x
  BY <1>2
<1>5. Kept(one, A) = one
  <2>1. \A i \in 1..Len(one) : one[i] \in A
    BY <1>4
  <2> HIDE DEF one
  <2> QED BY <1>4, <2>1, KeptNoneOrAll
<1>6. k \in Seq(S)
  BY <1>2, KeptType
<1> HIDE DEF one, rest, k
<1>7. Kept(s, A) = Cat(one, k)
  BY <1>2, <1>3, <1>4, <1>5, KeptCat DEF k
<1>8. /\ Cat(one, k) \in Seq(S) /\ Len(Cat(one, k)) = Len(one) + Len(k)
      /\ \A i \in 1..(Len(one) + Len(k)) :
           Cat(one, k)[i] = IF i <= Len(one) THEN one[i] ELSE k[i - Len(one)]
  BY <1>4, <1>6, ConcatProperties DEF Cat
<1>9. Len(k) \in Nat
  BY <1>6, LenProperties
<1> DEFINE c == Cat(one, k)
<1> HIDE DEF c
<1>10. c \in Seq(S) /\ Len(c) = 1 + Len(k) /\ c[1] = x
  BY <1>4, <1>8, <1>9 DEF c
<1>11. c # <<>>
  BY <1>9, <1>10
<1>12. Head(c) = c[1]
  BY <1>10, <1>11
<1> QED BY <1>7, <1>10, <1>11, <1>12 DEF c, x

(* Trimming leaves the words, and begins with the first.                   *)
LEMMA TrimmedWords ==
  ASSUME NEW line \in Lines
  PROVE  /\ Trim(line) \in Lines /\ Words(Trim(line)) = Words(line)
         /\ Trim(line) = <<>> <=> Words(line) = <<>>
         /\ Trim(line) # <<>> => Trim(line)[1] \in TextWords /\ Head(Words(line)) = Trim(line)[1]
<1> DEFINE S == TextWords \cup Spaces
           n == Len(line)
<1>1. line \in Seq(S) /\ n \in Nat
  BY LenProperties DEF Lines
<1>2. \A i \in 1..n : line[i] \in S
  BY <1>1, ElementOfSeq
<1>3. CASE Solid(line) = {}
  <2>1. \A i \in 1..Len(line) : line[i] \notin TextWords
    BY <1>3, SymbolsApart DEF Solid
  <2> HIDE DEF S
  <2>2. Words(line) = <<>>
    BY <1>1, <2>1, KeptNoneOrAll DEF Words
  <2>3. Trim(line) = <<>>
    BY <1>3 DEF Trim
  <2>4. Kept(<<>>, TextWords) = <<>>
    BY KeptType
  <2>5. <<>> \in Lines
    BY DEF Lines
  <2> QED BY <2>2, <2>3, <2>4, <2>5 DEF Words
<1>4. CASE Solid(line) # {}
  <2> DEFINE m == Min(Solid(line))
             l == Max(Solid(line))
             a == SubSeq(line, 1, m - 1)
             b == SubSeq(line, m, l)
             c == SubSeq(line, l + 1, n)
  <2>1. m \in Solid(line) /\ l \in Solid(line) /\ \A x \in Solid(line) : m <= x /\ x <= l
    <3>1. Solid(line) \in SUBSET (1..n)
      BY DEF Solid
    <3> QED BY <1>1, <1>4, <3>1, LeastAndLargest
  <2>2. m \in 1..n /\ l \in 1..n /\ m <= l /\ line[m] \notin Spaces
    BY <2>1 DEF Solid
  <2>3. \A i \in 1..n : i < m \/ i > l => line[i] \in Spaces
    BY <2>1, <2>2 DEF Solid
  <2>4. Trim(line) = b
    BY <1>4 DEF Trim
  <2> HIDE DEF m, l, n, S
  <2>5. a \in Seq(S) /\ Len(a) = m - 1 /\ \A i \in 1..(m - 1) : a[i] = line[i]
    <3>1. 1 \in Int /\ m - 1 \in Int /\ \A i \in 1..(m - 1) : line[i] \in S
      BY <1>1, <1>2, <2>2
    <3>2. /\ SubSeq(line, 1, m - 1) \in Seq(S)
          /\ Len(SubSeq(line, 1, m - 1)) = IF 1 <= m - 1 THEN (m - 1) - 1 + 1 ELSE 0
          /\ \A i \in 1..((m - 1) - 1 + 1) : SubSeq(line, 1, m - 1)[i] = line[1 + i - 1]
      BY ONLY <3>1, SubSeqProperties
    <3> HIDE DEF a
    <3>3. (m - 1) - 1 + 1 = m - 1 /\ \A i \in 1..(m - 1) : 1 + i - 1 = i
      BY <2>2
    <3>4. ~(1 <= m - 1) => m - 1 = 0
      BY <2>2
    <3> QED BY <3>2, <3>3, <3>4 DEF a
  <2>6. b \in Seq(S) /\ Len(b) = l - m + 1 /\ \A i \in 1..(l - m + 1) : b[i] = line[m + i - 1]
    <3>1. m \in Int /\ l \in Int /\ \A i \in m..l : line[i] \in S
      BY <1>1, <1>2, <2>2
    <3>2. /\ SubSeq(line, m, l) \in Seq(S)
          /\ Len(SubSeq(line, m, l)) = IF m <= l THEN l - m + 1 ELSE 0
          /\ \A i \in 1..(l - m + 1) : SubSeq(line, m, l)[i] = line[m + i - 1]
      BY ONLY <3>1, SubSeqProperties
    <3> QED BY <2>2, <3>2
  <2>7. c \in Seq(S) /\ Len(c) = n - l /\ \A i \in 1..(n - l) : c[i] = line[l + i]
    <3>1. l + 1 \in Int /\ n \in Int /\ \A i \in (l + 1)..n : line[i] \in S
      BY <1>1, <1>2, <2>2
    <3>2. /\ SubSeq(line, l + 1, n) \in Seq(S)
          /\ Len(SubSeq(line, l + 1, n)) = IF l + 1 <= n THEN n - (l + 1) + 1 ELSE 0
          /\ \A i \in 1..(n - (l + 1) + 1) : SubSeq(line, l + 1, n)[i] = line[(l + 1) + i - 1]
      BY ONLY <3>1, SubSeqProperties
    <3> HIDE DEF c
    <3>3. n - (l + 1) + 1 = n - l /\ \A i \in 1..(n - l) : (l + 1) + i - 1 = l + i
      BY <1>1, <2>2
    <3>4. ~(l + 1 <= n) => n - l = 0
      BY <1>1, <2>2
    <3> QED BY <3>2, <3>3, <3>4 DEF c
  <2>8. line = Cat(Cat(a, b), c)
    <3>1. SubSeq(line, 1, m - 1) \o SubSeq(line, (m - 1) + 1, l) = SubSeq(line, 1, l)
      <4>1. 1 \in 1..(Len(line) + 1) /\ m - 1 \in (1 - 1)..Len(line) /\ l \in (m - 1)..Len(line)
        BY <1>1, <2>2 DEF n
      <4> QED BY ONLY <1>1, <4>1, ConcatAdjacentSubSeq
    <3>2. SubSeq(line, 1, l) \o SubSeq(line, l + 1, n) = SubSeq(line, 1, n)
      <4>1. 1 \in 1..(Len(line) + 1) /\ l \in (1 - 1)..Len(line) /\ n \in l..Len(line)
        BY <1>1, <2>2 DEF n
      <4> QED BY ONLY <1>1, <4>1, ConcatAdjacentSubSeq
    <3>3. SubSeq(line, 1, n) = line
      BY <1>1, SubSeqFull DEF n
    <3>4. (m - 1) + 1 = m
      BY <2>2
    <3> QED BY <3>1, <3>2, <3>3, <3>4 DEF Cat
  <2> HIDE DEF a, b, c
  <2>9. Kept(a, TextWords) = <<>>
    <3>1. \A i \in 1..(m - 1) : line[i] \in Spaces
      BY <1>1, <2>2, <2>3
    <3>2. \A i \in 1..Len(a) : a[i] \notin TextWords
      BY <2>5, <3>1, SymbolsApart
    <3> QED BY <2>5, <3>2, KeptNoneOrAll
  <2>10. Kept(c, TextWords) = <<>>
    <3>1. \A i \in 1..(n - l) : line[l + i] \in Spaces
      BY <1>1, <2>2, <2>3
    <3>2. \A i \in 1..Len(c) : c[i] \notin TextWords
      BY <2>7, <3>1, SymbolsApart
    <3> QED BY <2>7, <3>2, KeptNoneOrAll
  <2> DEFINE w == Kept(b, TextWords)
  <2>11. w \in Seq(S)
    BY <2>6, KeptType
  <2>12. Words(line) = Words(b)
    <3>1. Cat(a, b) \in Seq(S)
      BY <2>5, <2>6, ConcatProperties DEF Cat
    <3>2. Kept(line, TextWords) = Cat(Kept(Cat(a, b), TextWords), <<>>)
      BY <2>7, <2>8, <2>10, <3>1, KeptCat
    <3>3. Kept(Cat(a, b), TextWords) = Cat(<<>>, w)
      BY <2>5, <2>6, <2>9, KeptCat
    <3> HIDE DEF w
    <3>4. Cat(<<>>, w) = w /\ Cat(w, <<>>) = w
      BY <2>11, ConcatEmptySeq DEF Cat
    <3> QED BY <3>2, <3>3, <3>4 DEF Words, w
  <2>13. b # <<>> /\ b[1] = line[m] /\ b[1] \in TextWords
    <3>1. Len(b) # 0 /\ 1 \in 1..(l - m + 1) /\ m + 1 - 1 = m
      BY <1>1, <2>2, <2>6
    <3>2. b # <<>>
      BY <3>1
    <3>3. b[1] = line[m]
      BY <2>6, <3>1
    <3>4. line[m] \in TextWords
      BY <1>2, <2>2 DEF S
    <3> QED BY <3>2, <3>3, <3>4
  <2>14. Words(b) # <<>> /\ Head(Words(b)) = b[1]
    BY <2>6, <2>13, FirstKept DEF Words
  <2>15. b \in Lines
    BY <2>6 DEF Lines, S
  <2> QED BY <2>4, <2>12, <2>13, <2>14, <2>15
<1> QED BY <1>3, <1>4

(* Short sequences, written in two ways.                                   *)
LEMMA ShortCats ==
  ASSUME NEW S, NEW x \in S, NEW y \in S, NEW z \in S
  PROVE  /\ Cat(<<x>>, <<y>>) = <<x, y>> /\ Cat(<<x>>, <<y, z>>) = <<x, y, z>>
         /\ Cat(<<x>>, <<>>) = <<x>>
<1> DEFINE one == <<x>>
           sec == <<y>>
           two == <<x, y>>
           end == <<y, z>>
           tri == <<x, y, z>>
           u == Cat(one, sec)
           v == Cat(one, end)
<1>1. one \in Seq(S) /\ Len(one) = 1 /\ one[1] = x
  OBVIOUS
<1>2. sec \in Seq(S) /\ Len(sec) = 1 /\ sec[1] = y
  OBVIOUS
<1>3. two \in Seq(S) /\ Len(two) = 2 /\ two[1] = x /\ two[2] = y
  OBVIOUS
<1>4. end \in Seq(S) /\ Len(end) = 2 /\ end[1] = y /\ end[2] = z
  OBVIOUS
<1>5. tri \in Seq(S) /\ Len(tri) = 3 /\ tri[1] = x /\ tri[2] = y /\ tri[3] = z
  OBVIOUS
<1> HIDE DEF one, sec, two, end, tri
<1>6. /\ u \in Seq(S) /\ Len(u) = Len(one) + Len(sec)
      /\ \A i \in 1..(Len(one) + Len(sec)) :
           u[i] = IF i <= Len(one) THEN one[i] ELSE sec[i - Len(one)]
  BY <1>1, <1>2, ConcatProperties DEF Cat
<1>7. /\ v \in Seq(S) /\ Len(v) = Len(one) + Len(end)
      /\ \A i \in 1..(Len(one) + Len(end)) :
           v[i] = IF i <= Len(one) THEN one[i] ELSE end[i - Len(one)]
  BY <1>1, <1>4, ConcatProperties DEF Cat
<1> HIDE DEF u, v
<1>8. Len(u) = 2 /\ u[1] = x /\ u[2] = y
  BY <1>1, <1>2, <1>6
<1>9. Len(v) = 3 /\ v[1] = x /\ v[2] = y /\ v[3] = z
  BY <1>1, <1>4, <1>7
<1>10. u = two
  <2>1. \A i \in 1..Len(u) : u[i] = two[i]
    BY <1>3, <1>8
  <2> QED BY <1>3, <1>6, <1>8, <2>1, SeqEqual
<1>11. v = tri
  <2>1. \A i \in 1..Len(v) : v[i] = tri[i]
    BY <1>5, <1>9
  <2> QED BY <1>5, <1>7, <1>9, <2>1, SeqEqual
<1>12. Cat(one, <<>>) = one
  BY <1>1, ConcatEmptySeq DEF Cat
<1> QED BY <1>10, <1>11, <1>12 DEF u, v, one, sec, two, end, tri

(* split_once at the first blank.                                          *)
LEMMA SplitOnce ==
  ASSUME NEW line \in Lines, Blanks(line) # {}
  PROVE  /\ Before(line) \in Lines /\ After(line) \in Lines
         /\ line = Cat(Cat(Before(line), <<Blank>>), After(line))
         /\ \A i \in 1..Len(Before(line)) : Before(line)[i] # Blank
         /\ \A i \in 1..Len(Before(line)) : i \in 1..Len(line) /\ Before(line)[i] = line[i]
<1> DEFINE S == TextWords \cup Spaces
           n == Len(line)
           m == Min(Blanks(line))
           a == SubSeq(line, 1, m - 1)
           c == SubSeq(line, m + 1, n)
           one == <<Blank>>
<1>1. line \in Seq(S) /\ n \in Nat
  BY LenProperties DEF Lines
<1>2. \A i \in 1..n : line[i] \in S
  BY <1>1, ElementOfSeq
<1>3. m \in Blanks(line) /\ \A x \in Blanks(line) : m <= x
  <2>1. Blanks(line) \in SUBSET (1..n)
    BY DEF Blanks
  <2> QED BY <1>1, <2>1, LeastAndLargest
<1>4. m \in 1..n /\ line[m] = Blank /\ \A i \in 1..n : i < m => line[i] # Blank
  <2>1. \A i : i \in Blanks(line) <=> i \in 1..n /\ line[i] = Blank
    BY DEF Blanks
  <2> HIDE DEF m, n
  <2> QED BY <1>1, <1>3, <2>1
<1>5. Before(line) = a /\ After(line) = c
  BY DEF Before, After
<1> HIDE DEF m, n, S
<1>6. a \in Seq(S) /\ Len(a) = m - 1 /\ \A i \in 1..(m - 1) : a[i] = line[i]
  <2>1. 1 \in Int /\ m - 1 \in Int /\ \A i \in 1..(m - 1) : line[i] \in S
    BY <1>1, <1>2, <1>4
  <2>2. /\ SubSeq(line, 1, m - 1) \in Seq(S)
        /\ Len(SubSeq(line, 1, m - 1)) = IF 1 <= m - 1 THEN (m - 1) - 1 + 1 ELSE 0
        /\ \A i \in 1..((m - 1) - 1 + 1) : SubSeq(line, 1, m - 1)[i] = line[1 + i - 1]
    BY ONLY <2>1, SubSeqProperties
  <2> HIDE DEF a
  <2>3. (m - 1) - 1 + 1 = m - 1 /\ \A i \in 1..(m - 1) : 1 + i - 1 = i
    BY <1>4
  <2>4. ~(1 <= m - 1) => m - 1 = 0
    BY <1>1, <1>4
  <2> QED BY <2>2, <2>3, <2>4 DEF a
<1>7. c \in Seq(S)
  <2>1. m + 1 \in Int /\ n \in Int /\ \A i \in (m + 1)..n : line[i] \in S
    BY <1>1, <1>2, <1>4
  <2> QED BY ONLY <2>1, SubSeqProperties
<1>8. line = Cat(Cat(a, one), c)
  <2>1. SubSeq(line, 1, m) = SubSeq(line, 1, m - 1) \o <<line[m]>>
    <3>1. 1 \in 1..Len(line) /\ m \in 1..Len(line)
      BY <1>1, <1>4 DEF n
    <3> QED BY ONLY <1>1, <3>1, SubSeqRecursiveSecond
  <2>2. SubSeq(line, 1, m) \o SubSeq(line, m + 1, n) = SubSeq(line, 1, n)
    <3>1. 1 \in 1..(Len(line) + 1) /\ m \in (1 - 1)..Len(line) /\ n \in m..Len(line)
      BY <1>1, <1>4 DEF n
    <3> QED BY ONLY <1>1, <3>1, ConcatAdjacentSubSeq
  <2>3. SubSeq(line, 1, n) = line
    BY <1>1, SubSeqFull DEF n
  <2> QED BY <1>4, <2>1, <2>2, <2>3 DEF Cat
<1> HIDE DEF a, c
<1>9. \A i \in 1..(m - 1) : i \in 1..n /\ i < m
  BY <1>1, <1>4
<1>10. Len(a) = m - 1
  BY <1>6
<1> QED BY <1>4, <1>5, <1>6, <1>7, <1>8, <1>9 DEF n, S, Lines, one

(* A line that names a key, and no more.                                   *)
LEMMA AuthorizedText ==
  ASSUME NEW line \in Lines, NEW k \in ParseAuthorized(line)
  PROVE  /\ k \in Keys
         /\ \E c \in BOOLEAN : line = <<Kind, Blank, KeyText(k, c)>> /\ Words(line) = <<Kind, KeyText(k, c)>>
<1> DEFINE S == TextWords \cup Spaces
<1>1. k \in Keys /\ Blanks(line) # {} /\ Before(line) = <<Kind>>
  BY DEF ParseAuthorized
<1>2. PICK c \in BOOLEAN : After(line) = <<KeyText(k, c)>>
  BY DEF ParseAuthorized
<1> DEFINE t == KeyText(k, c)
<1>3. line = Cat(Cat(<<Kind>>, <<Blank>>), <<t>>)
  BY <1>1, <1>2, SplitOnce
<1>4. Kind \in S /\ Blank \in S /\ t \in S /\ Kind \in TextWords /\ t \in TextWords /\ Blank \notin TextWords
  BY <1>1, SymbolsApart
<1> HIDE DEF t, S
<1> DEFINE p == <<Kind>>
           q == <<Blank>>
           r == <<t>>
<1>5. /\ p \in Seq(S) /\ q \in Seq(S) /\ r \in Seq(S)
      /\ Len(p) = 1 /\ Len(q) = 1 /\ Len(r) = 1 /\ p[1] = Kind /\ q[1] = Blank /\ r[1] = t
  BY <1>4
<1>6. Cat(Cat(p, q), r) = <<Kind, Blank, t>>
  <2>1. Cat(q, r) = <<Blank, t>> /\ Cat(p, <<Blank, t>>) = <<Kind, Blank, t>>
    BY <1>4, ShortCats
  <2> HIDE DEF p, q, r
  <2>2. Cat(Cat(p, q), r) = Cat(p, Cat(q, r))
    BY <1>5, ConcatAssociative DEF Cat
  <2> QED BY <2>1, <2>2
<1>7. Cat(p, r) = <<Kind, t>> /\ Cat(p, <<>>) = p
  BY <1>4, ShortCats
<1> HIDE DEF p, q, r
<1>8. Kept(p, TextWords) = p /\ Kept(q, TextWords) = <<>> /\ Kept(r, TextWords) = r
  <2>1. /\ \A i \in 1..Len(p) : p[i] \in TextWords
        /\ \A i \in 1..Len(q) : q[i] \notin TextWords
        /\ \A i \in 1..Len(r) : r[i] \in TextWords
    BY <1>4, <1>5
  <2> QED BY <1>5, <2>1, KeptNoneOrAll
<1>9. Cat(p, q) \in Seq(S)
  BY <1>5, ConcatProperties DEF Cat
<1>10. Kept(Cat(p, q), TextWords) = Cat(p, <<>>)
  BY <1>5, <1>8, KeptCat
<1>11. Kept(Cat(Cat(p, q), r), TextWords) = Cat(Cat(p, <<>>), r)
  BY <1>5, <1>8, <1>9, <1>10, KeptCat
<1>12. line = Cat(Cat(p, q), r)
  BY <1>3 DEF p, q, r
<1> QED BY <1>1, <1>6, <1>7, <1>11, <1>12 DEF Words, t

(* A line that names a host and its key.                                   *)
LEMMA KnownText ==
  ASSUME NEW line \in Lines, NEW p \in ParseKnownHost(line)
  PROVE  /\ p = <<p[1], p[2]>> /\ p[1] \in Lines /\ p[2] \in ParseAuthorized(After(line))
         /\ p[1] # <<>> /\ After(line) \in Lines /\ \A i \in 1..Len(p[1]) : p[1][i] # Blank
         /\ line = Cat(Cat(p[1], <<Blank>>), After(line))
         /\ Words(line) = Cat(Words(p[1]), Words(After(line)))
         /\ \A i \in 1..Len(p[1]) : i \in 1..Len(line) /\ p[1][i] = line[i]
<1> DEFINE S == TextWords \cup Spaces
           a == Before(line)
           b == After(line)
           q == <<Blank>>
<1>1. Blanks(line) # {} /\ a # <<>>
  BY DEF ParseKnownHost
<1>2. PICK k \in ParseAuthorized(b) : p = <<a, k>>
  BY DEF ParseKnownHost
<1>3. /\ a \in Lines /\ b \in Lines /\ line = Cat(Cat(a, q), b)
      /\ \A i \in 1..Len(a) : a[i] # Blank
      /\ \A i \in 1..Len(a) : i \in 1..Len(line) /\ a[i] = line[i]
  BY <1>1, SplitOnce
<1>4. q \in Seq(S) /\ Len(q) = 1 /\ q[1] = Blank
  BY SymbolsApart
<1>5. a \in Seq(S) /\ b \in Seq(S)
  BY <1>3 DEF Lines
<1>6. p[1] = a /\ p[2] = k
  BY <1>2
<1> HIDE DEF a, b, q, S
<1>7. Kept(q, TextWords) = <<>>
  <2>1. \A i \in 1..Len(q) : q[i] \notin TextWords
    BY <1>4, SymbolsApart
  <2> QED BY <1>4, <2>1, KeptNoneOrAll
<1>8. Cat(a, q) \in Seq(S)
  BY <1>4, <1>5, ConcatProperties DEF Cat
<1>9. Kept(a, TextWords) \in Seq(S)
  BY <1>5, KeptType
<1>10. Cat(Kept(a, TextWords), <<>>) = Kept(a, TextWords)
  BY <1>9, ConcatEmptySeq DEF Cat
<1>11. Kept(Cat(a, q), TextWords) = Cat(Kept(a, TextWords), <<>>)
  BY <1>4, <1>5, <1>7, KeptCat
<1>12. Kept(Cat(Cat(a, q), b), TextWords) = Cat(Kept(Cat(a, q), TextWords), Kept(b, TextWords))
  BY <1>5, <1>8, KeptCat
<1>13. Words(line) = Cat(Words(a), Words(b))
  BY <1>3, <1>10, <1>11, <1>12 DEF Words
<1> QED BY <1>1, <1>2, <1>3, <1>6, <1>13 DEF a, b, q

(* Each line has one key at most, and each entry one host.                 *)
LEMMA OneResult ==
  ASSUME NEW line \in Lines
  PROVE  /\ \A k, l \in ParseAuthorized(line) : k = l
         /\ After(line) \in Lines => \A p, q \in ParseKnownHost(line) : p = q
<1>1. ASSUME NEW m \in Lines, NEW k \in ParseAuthorized(m), NEW l \in ParseAuthorized(m) PROVE k = l
  <2>1. PICK c \in BOOLEAN : m = <<Kind, Blank, KeyText(k, c)>>
    BY AuthorizedText
  <2>2. PICK d \in BOOLEAN : m = <<Kind, Blank, KeyText(l, d)>>
    BY AuthorizedText
  <2>3. m[3] = KeyText(k, c) /\ m[3] = KeyText(l, d)
    BY <2>1, <2>2
  <2>4. k \in Keys /\ l \in Keys
    BY AuthorizedText
  <2> QED BY <2>3, <2>4, SymbolsApart
<1> QED BY <1>1 DEF ParseKnownHost

(* The entries of a file, and the lines they are on.                       *)
LEMMA EntryPlaces ==
  ASSUME NEW file \in Seq(Lines)
  PROVE  /\ Len(Entries(file)) \in Nat
         /\ \E at \in Bijection(1..Len(Entries(file)), Said(file)) :
              \A n \in 1..Len(Entries(file)) : /\ Entries(file)[n] = Trim(file[at[n]])
                                               /\ Entries(file)[n] \in Lines
                                               /\ Words(Entries(file)[n]) = Words(file[at[n]])
<1> DEFINE s == [i \in 1..Len(file) |-> Trim(file[i])]
           A == {line \in Lines : Significant(line)}
           E == Kept(s, A)
<1>1. \A i \in 1..Len(file) : file[i] \in Lines
  BY ElementOfSeq
<1>2. Len(file) \in Nat
  BY LenProperties
<1>3. s \in Seq(Lines) /\ Len(s) = Len(file) /\ \A i \in 1..Len(file) : s[i] = Trim(file[i])
  BY <1>1, <1>2, TrimmedWords
<1>4. Said(file) = {i \in 1..Len(s) : s[i] \in A}
  <2>1. ASSUME NEW i \in 1..Len(file)
        PROVE  Words(file[i]) # <<>> /\ Head(Words(file[i])) # Comment <=> s[i] \in A
    <3>1. file[i] \in Lines /\ s[i] = Trim(file[i])
      BY <1>1, <1>3
    <3>2. /\ s[i] \in Lines
          /\ s[i] = <<>> <=> Words(file[i]) = <<>>
          /\ s[i] # <<>> => Head(Words(file[i])) = s[i][1]
      BY <3>1, TrimmedWords
    <3> HIDE DEF s
    <3> QED BY <3>2 DEF Significant
  <2> HIDE DEF s, A
  <2> QED BY <1>3, <2>1 DEF Said
<1> HIDE DEF s, A
<1>5. PICK at \in Bijection(1..Len(E), {i \in 1..Len(s) : s[i] \in A}) : \A n \in 1..Len(E) : E[n] = s[at[n]]
  BY <1>3, KeptPlaces
<1>6. Entries(file) = E
  BY DEF Entries, E, s, A
<1>7. E \in Seq(Lines)
  BY <1>3, KeptType
<1>8. Len(E) \in Nat
  BY <1>7, LenProperties
<1> HIDE DEF E
<1>9. ASSUME NEW n \in 1..Len(E)
      PROVE  E[n] = Trim(file[at[n]]) /\ E[n] \in Lines /\ Words(E[n]) = Words(file[at[n]])
  <2>1. at[n] \in 1..Len(file)
    BY <1>3, <1>5 DEF Bijection, Injection
  <2>2. E[n] = Trim(file[at[n]])
    BY <1>3, <1>5, <2>1
  <2> QED BY <1>1, <2>1, <2>2, TrimmedWords
<1> QED BY <1>4, <1>5, <1>6, <1>8, <1>9

(* A set that is counted by a bijection, or has one element.               *)
LEMMA CountedBy ==
  ASSUME NEW n \in Nat, NEW T, NEW f \in Bijection(1..n, T)
  PROVE  Cardinality(T) = n
<1>1. ExistsBijection(1..n, T)
  BY DEF ExistsBijection
<1> QED BY <1>1, FS_CountingElements

(* The lines of authorized_keys authorize just the keys they list.         *)
LEMMA AuthorizedAlways ==
  ASSUME NEW file \in Seq(Lines)
  PROVE  AuthorizesAsListed(file)
<1> DEFINE E == Entries(file)
           N == Len(E)
           R == [n \in 1..N |-> ParseAuthorized(E[n])]
<1> SUFFICES ASSUME NEW keys \in LoadAuthorized(file)
             PROVE  /\ \A i \in Said(file) : \E k \in keys : Names(file[i], k)
                    /\ \A k \in keys : Cardinality({i \in Said(file) : Names(file[i], k)}) = 1
  BY DEF AuthorizesAsListed
<1>1. AllParse(R) /\ IsInjective(R) /\ keys = UNION Range(R)
  BY DEF LoadAuthorized
<1>2. PICK at \in Bijection(1..N, Said(file)) :
        \A n \in 1..N : /\ E[n] = Trim(file[at[n]]) /\ E[n] \in Lines
                        /\ Words(E[n]) = Words(file[at[n]])
  BY EntryPlaces
<1>3. N \in Nat
  BY EntryPlaces
<1> HIDE DEF E, N
<1>4. /\ \A n \in 1..N : R[n] # {}
      /\ \A m, n \in 1..N : R[m] = R[n] => m = n
      /\ \A k : k \in keys <=> \E n \in 1..N : k \in R[n]
  BY <1>1 DEF AllParse, IsInjective, Range
<1>5. \A n \in 1..N : R[n] = ParseAuthorized(E[n])
  OBVIOUS
<1> HIDE DEF R
<1>6. /\ \A n \in 1..N : at[n] \in Said(file)
      /\ \A m, n \in 1..N : at[m] = at[n] => m = n
      /\ \A i \in Said(file) : \E n \in 1..N : at[n] = i
  BY <1>2 DEF Bijection, Injection, Surjection, IsInjective
<1>7. ASSUME NEW n \in 1..N, NEW k \in R[n]
      PROVE  Names(file[at[n]], k) /\ R[n] = {k} /\ k \in Keys
  <2>1. k \in ParseAuthorized(E[n]) /\ E[n] \in Lines
    BY <1>2, <1>5
  <2>2. PICK c \in BOOLEAN : Words(E[n]) = <<Kind, KeyText(k, c)>>
    BY <2>1, AuthorizedText
  <2>3. Words(file[at[n]]) = <<Kind, KeyText(k, c)>>
    BY <1>2, <2>2
  <2>4. R[n] = {k}
    BY <1>5, <2>1, OneResult
  <2>5. k \in Keys
    BY <2>1, AuthorizedText
  <2> QED BY <2>3, <2>4, <2>5 DEF Names, Reads
<1>8. ASSUME NEW i, NEW k \in Keys, NEW l \in Keys, Names(file[i], k), Names(file[i], l)
      PROVE  k = l
  <2>1. PICK c \in BOOLEAN : Words(file[i]) = <<Kind, KeyText(k, c)>>
    BY <1>8 DEF Names, Reads
  <2>2. PICK d \in BOOLEAN : Words(file[i]) = <<Kind, KeyText(l, d)>>
    BY <1>8 DEF Names, Reads
  <2>3. KeyText(k, c) = KeyText(l, d)
    BY <2>1, <2>2
  <2> QED BY <2>3, SymbolsApart
<1>9. ASSUME NEW i \in Said(file) PROVE \E k \in keys : Names(file[i], k)
  <2>1. PICK n \in 1..N : at[n] = i
    BY <1>6
  <2>2. PICK k : k \in R[n]
    BY <1>4
  <2> QED BY <1>4, <1>7, <2>1, <2>2
<1>10. ASSUME NEW k \in keys
       PROVE  Cardinality({i \in Said(file) : Names(file[i], k)}) = 1
  <2>1. PICK n \in 1..N : k \in R[n]
    BY <1>4
  <2>2. Names(file[at[n]], k) /\ R[n] = {k} /\ k \in Keys
    BY <1>7, <2>1
  <2>3. ASSUME NEW i \in Said(file), Names(file[i], k) PROVE i = at[n]
    <3>1. PICK m \in 1..N : at[m] = i
      BY <1>6
    <3>2. PICK l : l \in R[m]
      BY <1>4
    <3>3. Names(file[at[m]], l) /\ R[m] = {l} /\ l \in Keys
      BY <1>7, <3>2
    <3>4. k = l
      BY <1>8, <2>2, <2>3, <3>1, <3>3
    <3> QED BY <1>4, <2>2, <3>1, <3>3, <3>4
  <2>4. {i \in Said(file) : Names(file[i], k)} = {at[n]}
    BY <1>6, <2>2, <2>3
  <2> QED BY <2>4, FS_Singleton
<1> QED BY <1>9, <1>10

(* axshd authorizes the keys its file names, whatever else is in it        *)
(* (load_authorized_keys).                                                 *)
THEOREM AuthorizedExact == FormatsSpec => []AuthorizedAsListed
<1>1. InputOK => AuthorizedAsListed
  <2>1. Seq(TextLines) \subseteq Seq(Lines)
    BY InputsAssumption
  <2> QED BY <2>1, AuthorizedAlways DEF InputOK, AuthorizedAsListed
<1> QED BY <1>1, InputsRead, PTL

(* Three words, of which two are known.                                    *)
LEMMA CutOfThree ==
  ASSUME NEW S, NEW w \in Seq(S), NEW x \in S, NEW y \in S, NEW a \in S, NEW b \in S, NEW c \in S,
         Cat(w, <<x, y>>) = <<a, b, c>>
  PROVE  w = <<a>> /\ x = b /\ y = c
<1> DEFINE end == <<x, y>>
           all == <<a, b, c>>
           one == <<a>>
<1>1. end \in Seq(S) /\ Len(end) = 2 /\ end[1] = x /\ end[2] = y
  OBVIOUS
<1>2. all \in Seq(S) /\ Len(all) = 3 /\ all[1] = a /\ all[2] = b /\ all[3] = c
  OBVIOUS
<1>3. one \in Seq(S) /\ Len(one) = 1 /\ one[1] = a
  OBVIOUS
<1>4. Cat(w, end) = all
  OBVIOUS
<1> HIDE DEF end, all, one
<1>5. /\ Len(all) = Len(w) + Len(end) /\ Len(w) \in Nat
      /\ \A i \in 1..(Len(w) + Len(end)) :
           all[i] = IF i <= Len(w) THEN w[i] ELSE end[i - Len(w)]
  BY <1>1, <1>4, ConcatProperties, LenProperties DEF Cat
<1>6. Len(w) = 1
  <2> DEFINE n == Len(w)
  <2>1. Len(all) = n + Len(end) /\ n \in Nat
    BY <1>5
  <2> HIDE DEF n
  <2>2. 3 = n + 2
    BY <1>1, <1>2, <2>1
  <2>3. n = 1
    BY <2>1, <2>2
  <2> QED BY <2>3 DEF n
<1>7. w[1] = a /\ x = b /\ y = c
  BY <1>1, <1>2, <1>5, <1>6
<1>8. w = one
  <2>1. \A i \in 1..Len(w) : w[i] = one[i]
    BY <1>3, <1>6, <1>7
  <2> QED BY <1>3, <1>6, <2>1, SeqEqual
<1> QED BY <1>7, <1>8 DEF one

(* What stands on a line that a host and a key are read from.              *)
LEMMA KnownWords ==
  ASSUME NEW line \in Lines, NEW p \in ParseKnownHost(line)
  PROVE  \E c \in BOOLEAN :
           /\ p[2] \in Keys
           /\ Words(line) = Cat(Words(p[1]), <<Kind, KeyText(p[2], c)>>)
           /\ After(line) = <<Kind, Blank, KeyText(p[2], c)>>
<1> DEFINE b == After(line)
<1>1. p[2] \in ParseAuthorized(b) /\ b \in Lines /\ Words(line) = Cat(Words(p[1]), Words(b))
  BY KnownText
<1> HIDE DEF b
<1>2. PICK c \in BOOLEAN : b = <<Kind, Blank, KeyText(p[2], c)>> /\ Words(b) = <<Kind, KeyText(p[2], c)>>
  BY <1>1, AuthorizedText
<1>3. p[2] \in Keys
  BY <1>1, AuthorizedText
<1> QED BY <1>1, <1>2, <1>3 DEF b

(* The words of a line are a sequence.                                     *)
LEMMA WordsType ==
  ASSUME NEW line \in Lines
  PROVE  Words(line) \in Seq(TextWords \cup Spaces)
BY KeptType DEF Words, Lines

(* A host of one word.                                                     *)
LEMMA OneWordHost ==
  ASSUME NEW line \in Lines, NEW h \in Hosts, NEW k \in Keys,
         <<<<HostWord(h)>>, k>> \in ParseKnownHost(line)
  PROVE  /\ \E c \in BOOLEAN : Words(line) = <<HostWord(h), Kind, KeyText(k, c)>>
         /\ Tab \notin Range(line)
<1> DEFINE S == TextWords \cup Spaces
           w == HostWord(h)
           one == <<w>>
           q == <<Blank>>
           b == After(line)
           p == <<one, k>>
<1>1. p \in ParseKnownHost(line) /\ p[1] = one /\ p[2] = k
  OBVIOUS
<1>2. w \in S /\ Kind \in S /\ Blank \in S /\ w \in TextWords
  BY SymbolsApart
<1>3. one \in Seq(S) /\ Len(one) = 1 /\ one[1] = w
  BY <1>2
<1>4. q \in Seq(S) /\ Len(q) = 1 /\ q[1] = Blank
  BY <1>2
<1> HIDE DEF p
<1>5. PICK c \in BOOLEAN : /\ Words(line) = Cat(Words(one), <<Kind, KeyText(k, c)>>)
                           /\ b = <<Kind, Blank, KeyText(k, c)>>
  BY <1>1, KnownWords
<1>6. line = Cat(Cat(one, q), b)
  BY <1>1, KnownText
<1> DEFINE t == KeyText(k, c)
<1>7. t \in S /\ t # Tab /\ w # Tab /\ Kind # Tab /\ Blank # Tab
  BY SymbolsApart
<1>8. b \in Seq(S) /\ Len(b) = 3 /\ b[1] = Kind /\ b[2] = Blank /\ b[3] = t
  <2> HIDE DEF S, t, b
  <2>1. <<Kind, Blank, t>> \in Seq(S)
    BY <1>2, <1>7
  <2> QED BY <1>5, <2>1 DEF t
<1>9. Words(one) = one
  <2>1. \A i \in 1..Len(one) : one[i] \in TextWords
    BY <1>2, <1>3
  <2> HIDE DEF one, S
  <2> QED BY <1>3, <2>1, KeptNoneOrAll DEF Words
<1>10. Cat(one, <<Kind, t>>) = <<w, Kind, t>>
  <2> HIDE DEF S, t, w
  <2> QED BY <1>2, <1>7, ShortCats DEF one
<1> HIDE DEF one, q, b, t, S, w
<1>11. Cat(one, q) \in Seq(S)
  BY <1>3, <1>4, ConcatProperties DEF Cat
<1>12. Range(line) = (Range(one) \cup Range(q)) \cup Range(b)
  <2>1. Range(Cat(one, q)) = Range(one) \cup Range(q)
    BY <1>3, <1>4, RangeConcatenation DEF Cat
  <2>2. Range(Cat(Cat(one, q), b)) = Range(Cat(one, q)) \cup Range(b)
    BY <1>8, <1>11, RangeConcatenation, ZenonT(30) DEF Cat
  <2> QED BY <1>6, <2>1, <2>2
<1>13. Tab \notin Range(one) /\ Tab \notin Range(q) /\ Tab \notin Range(b)
  <2>1. /\ Range(one) = {one[i] : i \in 1..Len(one)} /\ Range(q) = {q[i] : i \in 1..Len(q)}
        /\ Range(b) = {b[i] : i \in 1..Len(b)}
    BY <1>3, <1>4, <1>8, RangeEquality
  <2>2. \A i \in 1..3 : i = 1 \/ i = 2 \/ i = 3
    OBVIOUS
  <2>3. \A i \in 1..1 : i = 1
    OBVIOUS
  <2>4. (\A i \in 1..Len(one) : one[i] # Tab) /\ (\A i \in 1..Len(q) : q[i] # Tab)
        /\ (\A i \in 1..Len(b) : b[i] # Tab)
    BY <1>3, <1>4, <1>7, <1>8, <2>2, <2>3
  <2> QED BY <2>1, <2>4
<1>14. Words(line) = <<HostWord(h), Kind, KeyText(k, c)>>
  BY <1>5, <1>9, <1>10 DEF t, w
<1> QED BY <1>12, <1>13, <1>14

(* The other way round: a line with these words and no tab.                *)
LEMMA HostOfOneWord ==
  ASSUME NEW line \in Lines, NEW p \in ParseKnownHost(line), NEW h \in Hosts, NEW k \in Keys,
         NEW d \in BOOLEAN, Words(line) = <<HostWord(h), Kind, KeyText(k, d)>>,
         Tab \notin Range(line)
  PROVE  p = <<<<HostWord(h)>>, k>>
<1> DEFINE S == TextWords \cup Spaces
           w == HostWord(h)
           a == p[1]
           l == p[2]
           g == Words(a)
<1>1. PICK c \in BOOLEAN : l \in Keys /\ Words(line) = Cat(g, <<Kind, KeyText(l, c)>>)
  BY KnownWords
<1>2. /\ p = <<a, l>> /\ a \in Lines /\ \A i \in 1..Len(a) : a[i] # Blank
      /\ \A i \in 1..Len(a) : i \in 1..Len(line) /\ a[i] = line[i]
  BY KnownText
<1>3. g \in Seq(S)
  BY <1>2, WordsType
<1>4. KeyText(l, c) \in S /\ KeyText(k, d) \in S /\ w \in S /\ Kind \in S
  BY <1>1, SymbolsApart
<1>5. Cat(g, <<Kind, KeyText(l, c)>>) = <<w, Kind, KeyText(k, d)>>
  BY <1>1
<1>6. g = <<w>> /\ KeyText(l, c) = KeyText(k, d)
  <2> HIDE DEF g, S, w, l
  <2> QED BY <1>3, <1>4, <1>5, CutOfThree
<1>7. l = k
  BY <1>1, <1>6, SymbolsApart
<1>8. \A i \in 1..Len(a) : a[i] \in TextWords
  <2>1. Range(line) = {line[i] : i \in 1..Len(line)}
    BY RangeEquality DEF Lines
  <2>2. a \in Seq(S)
    BY <1>2 DEF Lines
  <2>3. \A i \in 1..Len(a) : a[i] # Tab
    <3> HIDE DEF a
    <3> QED BY <1>2, <2>1
  <2>4. \A i \in 1..Len(a) : a[i] \in S
    BY <2>2, ElementOfSeq
  <2> HIDE DEF a
  <2> QED BY <1>2, <2>3, <2>4 DEF Spaces
<1>9. g = a
  <2>1. a \in Seq(S)
    BY <1>2 DEF Lines
  <2> HIDE DEF a, S
  <2> QED BY <1>8, <2>1, KeptNoneOrAll DEF Words, g
<1> QED BY <1>2, <1>6, <1>7, <1>9

(* The lines of known_hosts make known just what they list.                *)
LEMMA KnownAlways ==
  ASSUME NEW file \in Seq(Lines)
  PROVE  KnowsAsListed(file)
<1> DEFINE E == Entries(file)
           N == Len(E)
           R == [n \in 1..N |-> ParseKnownHost(E[n])]
<1> SUFFICES ASSUME NEW hosts \in LoadKnownHosts(file)
             PROVE  /\ Cardinality(hosts) = Cardinality(Said(file))
                    /\ \A h \in Hosts, k \in Keys :
                         <<<<HostWord(h)>>, k>> \in hosts <=>
                           \E i \in Said(file) : /\ NamesHost(file[i], HostWord(h), k)
                                                 /\ Tab \notin Range(Trim(file[i]))
                    /\ \A p, q \in hosts : p[1] = q[1] => p[2] = q[2]
  BY DEF KnowsAsListed
<1>1. AllParse(R) /\ HostsDiffer(R) /\ hosts = UNION Range(R)
  BY DEF LoadKnownHosts
<1>2. PICK at \in Bijection(1..N, Said(file)) :
        \A n \in 1..N : /\ E[n] = Trim(file[at[n]]) /\ E[n] \in Lines
                        /\ Words(E[n]) = Words(file[at[n]])
  BY EntryPlaces
<1>3. N \in Nat
  BY EntryPlaces
<1> HIDE DEF E, N
<1>4. /\ \A n \in 1..N : R[n] # {}
      /\ \A m, n \in 1..N : HostsOf(R[m]) = HostsOf(R[n]) => m = n
      /\ \A p : p \in hosts <=> \E n \in 1..N : p \in R[n]
  BY <1>1 DEF AllParse, HostsDiffer, Range
<1>5. \A n \in 1..N : R[n] = ParseKnownHost(E[n])
  OBVIOUS
<1> HIDE DEF R
<1>6. /\ \A n \in 1..N : at[n] \in Said(file)
      /\ \A i \in Said(file) : \E n \in 1..N : at[n] = i
  BY <1>2 DEF Bijection, Injection, Surjection
<1>7. ASSUME NEW n \in 1..N, NEW p \in R[n]
      PROVE  R[n] = {p} /\ p = <<p[1], p[2]>> /\ HostsOf(R[n]) = {p[1]}
  <2>1. p \in ParseKnownHost(E[n]) /\ E[n] \in Lines
    BY <1>2, <1>5
  <2>2. After(E[n]) \in Lines /\ p = <<p[1], p[2]>>
    BY <2>1, KnownText
  <2>3. \A q \in R[n] : q = p
    BY <1>5, <2>1, <2>2, OneResult
  <2>4. R[n] = {p}
    BY <2>3
  <2> QED BY <2>2, <2>4 DEF HostsOf
<1>8. Cardinality(hosts) = Cardinality(Said(file))
  <2> DEFINE f == [n \in 1..N |-> CHOOSE p : p \in R[n]]
  <2>1. \A n \in 1..N : f[n] \in R[n] /\ R[n] = {f[n]}
    BY <1>4, <1>7
  <2>2. \A m, n \in 1..N : f[m] = f[n] => m = n
    BY <1>4, <2>1
  <2>3. f \in [1..N -> hosts]
    BY <1>4, <2>1
  <2>4. \A p \in hosts : \E n \in 1..N : f[n] = p
    BY <1>4, <2>1
  <2> HIDE DEF f
  <2>5. f \in Bijection(1..N, hosts)
    BY <2>2, <2>3, <2>4 DEF Bijection, Injection, Surjection, IsInjective
  <2> QED BY <1>2, <1>3, <2>5, CountedBy
<1>9. ASSUME NEW h \in Hosts, NEW k \in Keys, <<<<HostWord(h)>>, k>> \in hosts
      PROVE  \E i \in Said(file) : /\ NamesHost(file[i], HostWord(h), k)
                                   /\ Tab \notin Range(Trim(file[i]))
  <2>1. PICK n \in 1..N : <<<<HostWord(h)>>, k>> \in R[n]
    BY <1>4, <1>9
  <2>2. <<<<HostWord(h)>>, k>> \in ParseKnownHost(E[n]) /\ E[n] \in Lines
    BY <1>2, <1>5, <2>1
  <2>3. Tab \notin Range(E[n])
    BY <2>2, OneWordHost
  <2>4. PICK c \in BOOLEAN : Words(E[n]) = <<HostWord(h), Kind, KeyText(k, c)>>
    BY <2>2, OneWordHost
  <2>5. NamesHost(file[at[n]], HostWord(h), k)
    BY <1>2, <2>4 DEF NamesHost, Reads
  <2> QED BY <1>2, <1>6, <2>3, <2>5
<1>10. ASSUME NEW h \in Hosts, NEW k \in Keys, NEW i \in Said(file),
              NamesHost(file[i], HostWord(h), k), Tab \notin Range(Trim(file[i]))
       PROVE  <<<<HostWord(h)>>, k>> \in hosts
  <2>1. PICK n \in 1..N : at[n] = i
    BY <1>6
  <2>2. PICK p : p \in R[n]
    BY <1>4
  <2>3. PICK d \in BOOLEAN : Words(file[i]) = <<HostWord(h), Kind, KeyText(k, d)>>
    BY <1>10 DEF NamesHost, Reads
  <2>4. /\ p \in ParseKnownHost(E[n]) /\ E[n] \in Lines
        /\ Words(E[n]) = <<HostWord(h), Kind, KeyText(k, d)>>
        /\ Tab \notin Range(E[n])
    BY <1>2, <1>5, <1>10, <2>1, <2>2, <2>3
  <2>5. p = <<<<HostWord(h)>>, k>>
    BY <2>4, HostOfOneWord
  <2> QED BY <1>4, <2>2, <2>5
<1>11. ASSUME NEW p \in hosts, NEW q \in hosts, p[1] = q[1] PROVE p[2] = q[2]
  <2>1. PICK m \in 1..N : p \in R[m]
    BY <1>4
  <2>2. PICK n \in 1..N : q \in R[n]
    BY <1>4
  <2>3. HostsOf(R[m]) = {p[1]} /\ HostsOf(R[n]) = {q[1]} /\ R[m] = {p} /\ R[n] = {q}
    BY <1>7, <2>1, <2>2
  <2>4. m = n
    BY <1>4, <1>11, <2>3
  <2> QED BY <2>3, <2>4
<1> QED BY <1>8, <1>9, <1>10, <1>11

(* axsh knows the hosts its file names, and the keys it names them with,   *)
(* whatever else is in it (load_known_hosts).                              *)
THEOREM KnownExact == FormatsSpec => []KnownAsListed
<1>1. InputOK => KnownAsListed
  <2>1. Seq(TextLines) \subseteq Seq(Lines)
    BY InputsAssumption
  <2> QED BY <2>1, KnownAlways DEF InputOK, KnownAsListed
<1> QED BY <1>1, InputsRead, PTL

(* How many words the lines have that a key is read from.                  *)
LEMMA WordCounts ==
  ASSUME NEW line \in Lines
  PROVE  /\ \A k \in ParseAuthorized(line) : k \in Keys /\ Len(Words(line)) = 2
         /\ \A p \in ParseKnownHost(line) : /\ p[2] \in Keys
                                            /\ Len(Words(line)) = 3 <=> Len(Words(p[1])) = 1
                                            /\ Len(Words(line)) # 2 \/ Words(p[1]) = <<>>
<1>1. ASSUME NEW k \in ParseAuthorized(line) PROVE k \in Keys /\ Len(Words(line)) = 2
  <2>1. PICK c \in BOOLEAN : Words(line) = <<Kind, KeyText(k, c)>>
    BY AuthorizedText
  <2> QED BY <2>1, AuthorizedText
<1>2. ASSUME NEW p \in ParseKnownHost(line)
      PROVE  /\ p[2] \in Keys
             /\ Len(Words(line)) = 3 <=> Len(Words(p[1])) = 1
             /\ Len(Words(line)) # 2 \/ Words(p[1]) = <<>>
  <2> DEFINE S == TextWords \cup Spaces
             g == Words(p[1])
             w == Words(line)
  <2>1. PICK c \in BOOLEAN : p[2] \in Keys /\ w = Cat(g, <<Kind, KeyText(p[2], c)>>)
    BY KnownWords
  <2> DEFINE t == KeyText(p[2], c)
             end == <<Kind, t>>
  <2>2. t \in S /\ Kind \in S
    BY <2>1, SymbolsApart
  <2>3. g \in Seq(S)
    BY KnownText, WordsType
  <2>4. w = Cat(g, end)
    BY <2>1
  <2> HIDE DEF S, g, w, t
  <2>5. end \in Seq(S) /\ Len(end) = 2
    BY <2>2
  <2> HIDE DEF end
  <2>6. Len(w) = Len(g) + Len(end)
    BY <2>3, <2>4, <2>5, ConcatProperties DEF Cat
  <2>7. Len(g) \in Nat /\ (Len(g) = 0 => g = <<>>)
    BY <2>3, LenProperties, EmptySeq
  <2> DEFINE m == Len(g)
             n == Len(w)
  <2>8. n = m + 2 /\ m \in Nat /\ (m = 0 => g = <<>>)
    BY <2>5, <2>6, <2>7
  <2> HIDE DEF m, n
  <2>9. (n = 3 <=> m = 1) /\ (n # 2 \/ m = 0)
    BY <2>8
  <2> QED BY <2>1, <2>8, <2>9 DEF m, n, g, w
<1> QED BY <1>1, <1>2

(* axsh-fingerprint takes from an entry what the others take from it.      *)
LEMMA KeyOfEntry ==
  ASSUME NEW line \in Lines, NEW k
  PROVE  k \in PublicKey(line) <=>
           \/ k \in ParseAuthorized(line)
           \/ \E p \in ParseKnownHost(line) : p[2] = k /\ Len(Words(p[1])) = 1
<1> DEFINE n == Len(Words(line))
<1>1. /\ \A l \in ParseAuthorized(line) : n = 2
      /\ \A p \in ParseKnownHost(line) : n = 3 <=> Len(Words(p[1])) = 1
  BY WordCounts
<1>2. PublicKey(line) = CASE n = 2 -> ParseAuthorized(line)
                          [] n = 3 -> {p[2] : p \in ParseKnownHost(line)}
                          [] OTHER -> {}
  BY DEF PublicKey
<1> HIDE DEF n
<1>3. CASE n = 2
  BY <1>1, <1>2, <1>3
<1>4. CASE n = 3
  BY <1>1, <1>2, <1>4
<1>5. CASE n # 2 /\ n # 3
  BY <1>1, <1>2, <1>5
<1> QED BY <1>3, <1>4, <1>5

(* What the files of one entry, and those of none or more, are read as.    *)
LEMMA OfOneEntry ==
  ASSUME NEW file \in Seq(Lines), NEW k
  PROVE  /\ {k} \in LoadAuthorized(file) <=>
              Len(Entries(file)) = 1 /\ k \in ParseAuthorized(Entries(file)[1])
         /\ \A p : {p} \in LoadKnownHosts(file) <=>
              Len(Entries(file)) = 1 /\ p \in ParseKnownHost(Entries(file)[1])
<1> DEFINE E == Entries(file)
           N == Len(E)
           A == [n \in 1..N |-> ParseAuthorized(E[n])]
           H == [n \in 1..N |-> ParseKnownHost(E[n])]
<1>1. N \in Nat /\ \A n \in 1..N : E[n] \in Lines
  BY EntryPlaces
<1>2. LoadAuthorized(file) = IF AllParse(A) /\ IsInjective(A) THEN {UNION Range(A)} ELSE {}
  BY DEF LoadAuthorized
<1>3. LoadKnownHosts(file) = IF AllParse(H) /\ HostsDiffer(H) THEN {UNION Range(H)} ELSE {}
  BY DEF LoadKnownHosts
<1>4. /\ \A n \in 1..N : \A x, y \in A[n] : x = y
      /\ \A n \in 1..N : \A x, y \in H[n] : x = y
  <2>1. \A line \in Lines : \A x, y \in ParseKnownHost(line) : x = y
    BY KnownText, OneResult
  <2> QED BY <1>1, <2>1, OneResult
<1>5. /\ N = 1 => A[1] = ParseAuthorized(E[1]) /\ H[1] = ParseKnownHost(E[1])
      /\ DOMAIN A = 1..N /\ DOMAIN H = 1..N
  OBVIOUS
<1> HIDE DEF E, N, A, H
<1>6. CASE N = 1
  <2>1. 1..N = {1}
    BY <1>6
  <2>2. Range(A) = {A[1]} /\ Range(H) = {H[1]}
    BY <1>5, <2>1 DEF Range
  <2>3. IsInjective(A) /\ HostsDiffer(H)
    BY <1>5, <2>1 DEF IsInjective, HostsDiffer
  <2>4. (AllParse(A) <=> A[1] # {}) /\ (AllParse(H) <=> H[1] # {})
    BY <2>2 DEF AllParse
  <2>5. UNION Range(A) = A[1] /\ UNION Range(H) = H[1]
    BY <2>2
  <2>6. {k} \in LoadAuthorized(file) <=> k \in A[1]
    BY <1>2, <1>4, <2>1, <2>3, <2>4, <2>5, SMTT(30)
  <2>7. ASSUME NEW p PROVE {p} \in LoadKnownHosts(file) <=> p \in H[1]
    <3>1. \A x, y \in H[1] : x = y
      BY <1>4, <2>1
    <3>2. LoadKnownHosts(file) = IF H[1] # {} THEN {H[1]} ELSE {}
      BY <1>3, <2>3, <2>4, <2>5
    <3>3. {p} = H[1] <=> p \in H[1]
      BY <3>1
    <3> QED BY <3>2, <3>3
  <2> QED BY <1>5, <1>6, <2>6, <2>7 DEF E, N
<1>7. CASE N = 0
  <2>1. UNION Range(A) = {} /\ UNION Range(H) = {}
    <3>1. 1..N = {}
      BY <1>7
    <3> QED BY <1>5, <3>1 DEF Range
  <2> QED BY <1>2, <1>3, <1>7, <2>1 DEF E, N
<1>8. CASE N > 1
  <2>1. 1 \in 1..N /\ 2 \in 1..N
    BY <1>1, <1>8
  <2>2. A[1] \in Range(A) /\ A[2] \in Range(A) /\ H[1] \in Range(H) /\ H[2] \in Range(H)
    BY <1>5, <2>1 DEF Range
  <2>3. ASSUME NEW x, AllParse(A), UNION Range(A) = {x} PROVE A[1] = A[2]
    <3>1. A[1] # {} /\ A[2] # {} /\ A[1] \subseteq {x} /\ A[2] \subseteq {x}
      BY <2>2, <2>3 DEF AllParse
    <3>2. \A S : S # {} /\ S \subseteq {x} => S = {x}
      OBVIOUS
    <3> QED BY <3>1, <3>2
  <2>4. ASSUME NEW x, AllParse(H), UNION Range(H) = {x} PROVE H[1] = H[2]
    <3>1. H[1] # {} /\ H[2] # {} /\ H[1] \subseteq {x} /\ H[2] \subseteq {x}
      BY <2>2, <2>4 DEF AllParse
    <3>2. \A S : S # {} /\ S \subseteq {x} => S = {x}
      OBVIOUS
    <3> QED BY <3>1, <3>2
  <2>5. {k} \notin LoadAuthorized(file)
    BY <1>2, <1>5, <2>1, <2>3 DEF IsInjective
  <2>6. \A p : {p} \notin LoadKnownHosts(file)
    <3>1. ASSUME NEW p, {p} \in LoadKnownHosts(file) PROVE FALSE
      <4>1. AllParse(H) /\ HostsDiffer(H) /\ UNION Range(H) = {p}
        BY <1>3, <3>1
      <4>2. H[1] = H[2]
        BY <2>4, <4>1
      <4> QED BY <1>5, <2>1, <4>1, <4>2 DEF HostsDiffer
    <3> QED BY <3>1
  <2>7. N # 1
    BY <1>8
  <2> QED BY <2>5, <2>6, <2>7 DEF E, N
<1> QED BY <1>1, <1>6, <1>7, <1>8

(* axsh-fingerprint shows the key axsh would use.                          *)
LEMMA ShownAlways ==
  ASSUME NEW file \in Seq(Lines)
  PROVE  ShowsWhatIsUsed(file)
<1> DEFINE E == Entries(file)
           Used(k) == \/ {k} \in LoadAuthorized(file)
                      \/ \E hosts \in LoadKnownHosts(file) : \E p \in hosts :
                           hosts = {p} /\ p[2] = k /\ Len(Words(p[1])) = 1
<1>1. ASSUME NEW k PROVE Used(k) <=> /\ Len(E) = 1
                                     /\ \/ k \in ParseAuthorized(E[1])
                                        \/ \E p \in ParseKnownHost(E[1]) :
                                             p[2] = k /\ Len(Words(p[1])) = 1
  <2>1. (\E hosts \in LoadKnownHosts(file) : \E p \in hosts :
           hosts = {p} /\ p[2] = k /\ Len(Words(p[1])) = 1) <=>
        \E p : {p} \in LoadKnownHosts(file) /\ p[2] = k /\ Len(Words(p[1])) = 1
    OBVIOUS
  <2> HIDE DEF E
  <2>2. {k} \in LoadAuthorized(file) <=> Len(E) = 1 /\ k \in ParseAuthorized(E[1])
    BY OfOneEntry DEF E
  <2>3. \A p : {p} \in LoadKnownHosts(file) <=> Len(E) = 1 /\ p \in ParseKnownHost(E[1])
    BY OfOneEntry DEF E
  <2> QED BY <2>1, <2>2, <2>3
<1>2. Len(E) = 1 => E[1] \in Lines
  <2>1. \A n \in 1..Len(E) : E[n] \in Lines
    BY EntryPlaces
  <2> QED BY <2>1
<1>3. ASSUME NEW k PROVE k \in LoadPublicKey(file) <=> Used(k)
  <2>1. k \in LoadPublicKey(file) <=> Len(E) = 1 /\ k \in PublicKey(E[1])
    BY DEF LoadPublicKey
  <2>2. CASE Len(E) = 1
    <3> HIDE DEF E, Used
    <3> QED BY <1>1, <1>2, <2>1, <2>2, KeyOfEntry
  <2>3. CASE Len(E) # 1
    <3> HIDE DEF E, Used
    <3> QED BY <1>1, <2>1, <2>3
  <2> QED BY <2>2, <2>3
<1>4. ASSUME NEW k, Used(k) PROVE k \in Keys
  <2>1. E[1] \in Lines
    BY <1>1, <1>2, <1>4
  <2> HIDE DEF E
  <2> QED BY <1>1, <1>4, <2>1, WordCounts
<1> QED BY <1>3, <1>4 DEF ShowsWhatIsUsed

(* axsh-fingerprint reads a key from just the files that one of the others *)
(* would take one entry from, and reads the same key (load_public_key,     *)
(* load_authorized_keys, load_known_hosts).                                *)
THEOREM ShownExact == FormatsSpec => []FingerprintsWhatIsUsed
<1>1. InputOK => FingerprintsWhatIsUsed
  <2>1. Seq(TextLines) \subseteq Seq(Lines)
    BY InputsAssumption
  <2> QED BY <2>1, ShownAlways DEF InputOK, FingerprintsWhatIsUsed
<1> QED BY <1>1, InputsRead, PTL

(* A turn of the register loses nothing.                                   *)
LEMMA BitKeeps ==
  ASSUME NEW r \in Word, NEW s \in Word, UpdateBit(r) = UpdateBit(s)
  PROVE  r = s
<1>1. ASSUME NEW w \in Word
      PROVE  /\ 15 \in UpdateBit(w) <=> 0 \in w
             /\ \A x : x \in ShiftRight(w) <=> x + 1 \in w /\ x \in 0..14
             /\ 0 \in w => UpdateBit(w) = Xor(ShiftRight(w), FcsPoly)
             /\ 0 \notin w => UpdateBit(w) = ShiftRight(w)
  <2>1. ASSUME NEW x PROVE x \in ShiftRight(w) <=> x + 1 \in w /\ x \in 0..14
    <3>1. ASSUME x \in ShiftRight(w) PROVE x + 1 \in w /\ x \in 0..14
      <4>1. PICK b \in w \ {0} : x = b - 1
        BY <3>1 DEF ShiftRight
      <4>2. b \in 1..15 /\ b \in w
        BY DEF Word
      <4> QED BY <4>1, <4>2
    <3>2. ASSUME x + 1 \in w, x \in 0..14 PROVE x \in ShiftRight(w)
      <4>1. x + 1 \in w \ {0} /\ x = (x + 1) - 1
        BY <3>2
      <4> QED BY <4>1 DEF ShiftRight
    <3> QED BY <3>1, <3>2
  <2>2. 15 \notin ShiftRight(w)
    BY <2>1
  <2>3. 15 \in FcsPoly
    BY DEF FcsPoly
  <2>4. 15 \in UpdateBit(w) <=> 0 \in w
    <3>1. 0 \in w => UpdateBit(w) = Xor(ShiftRight(w), FcsPoly)
      BY DEF UpdateBit
    <3>2. 0 \notin w => UpdateBit(w) = ShiftRight(w)
      BY DEF UpdateBit
    <3>3. 15 \in Xor(ShiftRight(w), FcsPoly)
      BY <2>2, <2>3 DEF Xor
    <3> QED BY <2>2, <3>1, <3>2, <3>3
  <2> QED BY <2>1, <2>4 DEF UpdateBit
<1>2. 0 \in r <=> 0 \in s
  BY <1>1
<1>3. ShiftRight(r) = ShiftRight(s)
  <2>1. CASE 0 \notin r
    BY <1>1, <1>2, <2>1
  <2>2. CASE 0 \in r
    <3>1. Xor(ShiftRight(r), FcsPoly) = Xor(ShiftRight(s), FcsPoly)
      BY <1>1, <1>2, <2>2
    <3>2. \A x : x \in ShiftRight(r) <=> x \in ShiftRight(s)
      BY <3>1 DEF Xor
    <3> QED BY <3>2
  <2> QED BY <2>1, <2>2
<1>4. ASSUME NEW x PROVE x \in r <=> x \in s
  <2>1. x \in r \/ x \in s => x \in 0..15
    BY DEF Word
  <2>2. ASSUME x \in 1..15 PROVE x \in r <=> x \in s
    <3>1. x - 1 \in 0..14 /\ (x - 1) + 1 = x
      BY <2>2
    <3> QED BY <1>1, <1>3, <3>1
  <2>3. x \in 0..15 => x = 0 \/ x \in 1..15
    OBVIOUS
  <2> QED BY <1>2, <2>1, <2>2, <2>3
<1> QED BY <1>4

(* Nor does an octet.                                                      *)
LEMMA OctetKeeps ==
  ASSUME NEW r \in Word, NEW s \in Word, NEW o \in Byte, NEW p \in Byte,
         UpdateFcs(r, o) = UpdateFcs(s, p)
  PROVE  Xor(r, o) = Xor(s, p)
<1> DEFINE x == Xor(r, o)
           y == Xor(s, p)
<1>1. x \in Word /\ y \in Word
  BY FcsType
<1>2. /\ UpdateFcs(r, o) = UpdateBit(UpdateBit(UpdateBit(UpdateBit(UpdateBit(UpdateBit(UpdateBit(UpdateBit(x))))))))
      /\ UpdateFcs(s, p) = UpdateBit(UpdateBit(UpdateBit(UpdateBit(UpdateBit(UpdateBit(UpdateBit(UpdateBit(y))))))))
  BY <1>1, EightBits DEF UpdateFcs
<1> HIDE DEF x, y
<1>3. \A w \in Word : UpdateBit(w) \in Word
  BY EightBits
<1>4. \A v, w \in Word : UpdateBit(v) = UpdateBit(w) => v = w
  BY BitKeeps
<1>5. \A v, w \in Word :
        /\ UpdateBit(UpdateBit(v)) \in Word
        /\ UpdateBit(UpdateBit(v)) = UpdateBit(UpdateBit(w)) => v = w
  BY <1>3, <1>4
<1> DEFINE Two(v) == UpdateBit(UpdateBit(v))
           Four(v) == Two(Two(v))
<1>6. \A v, w \in Word : Two(v) \in Word /\ (Two(v) = Two(w) => v = w)
  BY <1>5
<1>7. \A v, w \in Word : Four(v) \in Word /\ (Four(v) = Four(w) => v = w)
  <2> HIDE DEF Two
  <2> QED BY <1>6
<1>8. UpdateFcs(r, o) = Four(Four(x)) /\ UpdateFcs(s, p) = Four(Four(y))
  BY <1>2
<1> HIDE DEF Two, Four
<1>9. x = y
  BY <1>1, <1>7, <1>8
<1> QED BY <1>9 DEF x, y

(* What differs, differs after the same bits were turned.                  *)
LEMMA XorKeeps ==
  /\ \A a, b, c : Xor(a, c) = Xor(b, c) => a = b
  /\ \A a, b, c : Xor(a, b) = Xor(a, c) => b = c
<1>1. ASSUME NEW a, NEW b, NEW c, Xor(a, c) = Xor(b, c) PROVE a = b
  <2>1. \A x : x \in a <=> x \in b
    BY <1>1 DEF Xor
  <2> QED BY <2>1
<1>2. ASSUME NEW a, NEW b, NEW c, Xor(a, b) = Xor(a, c) PROVE b = c
  <2>1. \A x : x \in b <=> x \in c
    BY <1>2 DEF Xor
  <2> QED BY <2>1
<1> QED BY <1>1, <1>2

(* Two registers that differ go on to differ.                              *)
LEMMA DifferOn ==
  ASSUME NEW r \in Word, NEW s \in Word, r # s, NEW v \in Seq(Byte)
  PROVE  Loop(FcsStep, r, v) # Loop(FcsStep, s, v)
<1> DEFINE L(q, t) == Loop(FcsStep, q, t)
           A == {t \in Seq(Byte) : L(r, t) # L(s, t)}
<1>1. <<>> \in A
  BY LoopEmpty
<1>2. ASSUME NEW t \in Seq(Byte), NEW b \in Byte, t \in A PROVE Append(t, b) \in A
  <2> DEFINE x == L(r, t)
             y == L(s, t)
  <2>1. L(r, Append(t, b)) = FcsStep[b][x] /\ L(s, Append(t, b)) = FcsStep[b][y]
    BY LoopAppend
  <2>2. x \in Word /\ y \in Word
    BY RegisterType, LoopType
  <2>3. x # y
    BY <1>2
  <2>4. Append(t, b) \in Seq(Byte)
    BY AppendProperties
  <2> HIDE DEF x, y
  <2>5. FcsStep[b][x] = UpdateFcs(x, b) /\ FcsStep[b][y] = UpdateFcs(y, b)
    BY <2>2, FcsType
  <2>6. UpdateFcs(x, b) # UpdateFcs(y, b)
    BY <2>2, <2>3, OctetKeeps, XorKeeps
  <2> QED BY <2>1, <2>4, <2>5, <2>6
<1>3. Seq(Byte) \subseteq A
  <2> HIDE DEF A
  <2> QED BY <1>1, <1>2, AllSeqs
<1> QED BY <1>3

(* Two sequences that differ in one octet have different check sequences.  *)
LEMMA OneChangeTold ==
  ASSUME NEW u \in Seq(Byte), NEW c \in Byte, NEW e \in Byte, c # e, NEW v \in Seq(Byte)
  PROVE  Register(Cat(Append(u, c), v)) # Register(Cat(Append(u, e), v))
<1> DEFINE r == Register(u)
           x == Append(u, c)
           y == Append(u, e)
<1>1. r \in Word
  BY RegisterType
<1>2. x \in Seq(Byte) /\ y \in Seq(Byte)
  BY AppendProperties
<1>3. Register(x) = FcsStep[c][r] /\ Register(y) = FcsStep[e][r]
  BY LoopAppend DEF Register
<1> HIDE DEF r, x, y
<1>4. FcsStep[c][r] = UpdateFcs(r, c) /\ FcsStep[e][r] = UpdateFcs(r, e)
      /\ UpdateFcs(r, c) \in Word /\ UpdateFcs(r, e) \in Word
  BY <1>1, FcsType
<1>5. UpdateFcs(r, c) # UpdateFcs(r, e)
  BY <1>1, OctetKeeps, XorKeeps
<1>6. Register(Cat(x, v)) = Loop(FcsStep, Register(x), v)
      /\ Register(Cat(y, v)) = Loop(FcsStep, Register(y), v)
  BY <1>2, LoopConcat DEF Register, Cat
<1> QED BY <1>3, <1>4, <1>5, <1>6, DifferOn DEF x, y

(* An element put in the place of another.                                 *)
LEMMA Replaced ==
  ASSUME NEW S, NEW a \in Seq(S), NEW x \in S, NEW y \in S, NEW b \in Seq(S)
  PROVE  LET s == Cat(Append(a, x), b)
         IN  /\ s \in Seq(S) /\ Len(s) = (Len(a) + 1) + Len(b) /\ s[Len(a) + 1] = x
             /\ [s EXCEPT ![Len(a) + 1] = y] = Cat(Append(a, y), b)
<1> DEFINE p == Append(a, x)
           q == Append(a, y)
           n == Len(a)
           m == Len(b)
           s == Cat(p, b)
           t == Cat(q, b)
           r == [s EXCEPT ![n + 1] = y]
<1>1. /\ p \in Seq(S) /\ Len(p) = n + 1 /\ p[n + 1] = x /\ \A i \in 1..n : p[i] = a[i]
      /\ q \in Seq(S) /\ Len(q) = n + 1 /\ q[n + 1] = y /\ \A i \in 1..n : q[i] = a[i]
  BY AppendProperties
<1>2. n \in Nat /\ m \in Nat
  BY LenProperties
<1> HIDE DEF p, q, n
<1>3. /\ s \in Seq(S) /\ Len(s) = Len(p) + m
      /\ \A i \in 1..(Len(p) + m) : s[i] = IF i <= Len(p) THEN p[i] ELSE b[i - Len(p)]
  BY <1>1, ConcatProperties DEF Cat
<1>4. /\ t \in Seq(S) /\ Len(t) = Len(q) + m
      /\ \A i \in 1..(Len(q) + m) : t[i] = IF i <= Len(q) THEN q[i] ELSE b[i - Len(q)]
  BY <1>1, ConcatProperties DEF Cat
<1> HIDE DEF s, t, m
<1>5. n + 1 \in 1..Len(s) /\ s[n + 1] = x
  BY <1>1, <1>2, <1>3
<1>6. /\ r \in Seq(S) /\ Len(r) = Len(s)
      /\ \A j \in 1..Len(s) : r[j] = IF j = n + 1 THEN y ELSE s[j]
  BY <1>3, <1>5, ExceptSeq
<1> HIDE DEF r
<1>7. Len(r) = Len(t)
  BY <1>1, <1>3, <1>4, <1>6
<1>8. ASSUME NEW j \in 1..Len(r) PROVE r[j] = t[j]
  <2>0. j \in 1..((n + 1) + m)
    BY <1>1, <1>3, <1>6
  <2>1. CASE j <= n
    <3>1. j \in 1..n
      BY <1>2, <2>0, <2>1
    <3> QED BY <1>1, <1>2, <1>3, <1>4, <1>6, <2>0, <2>1, <3>1
  <2>2. CASE j = n + 1
    BY <1>1, <1>2, <1>3, <1>4, <1>6, <2>0, <2>2
  <2>3. CASE j > n + 1
    <3>1. r[j] = s[j]
      BY <1>2, <1>6, <2>3
    <3>2. j \in 1..(Len(p) + m) /\ j \in 1..(Len(q) + m) /\ ~(j <= Len(p)) /\ ~(j <= Len(q))
      BY <1>1, <1>2, <2>0, <2>3
    <3>3. s[j] = b[j - Len(p)] /\ t[j] = b[j - Len(q)]
      BY <1>3, <1>4, <3>2
    <3> QED BY <1>1, <3>1, <3>3
  <2> QED BY <1>2, <2>0, <2>1, <2>2, <2>3
<1>9. r = t
  BY <1>4, <1>6, <1>7, <1>8, SeqEqual
<1>10. Len(s) = (n + 1) + m
  BY <1>1, <1>3
<1> QED BY <1>3, <1>5, <1>9, <1>10 DEF r, s, t, p, q, n, m

(* An element more behind two sequences.                                   *)
LEMMA CatAppend ==
  ASSUME NEW S, NEW x \in Seq(S), NEW y \in Seq(S), NEW b \in S
  PROVE  Append(Cat(x, y), b) = Cat(x, Append(y, b))
<1>1. <<b>> \in Seq(S) /\ x \o y \in Seq(S)
  BY ConcatProperties
<1>2. Append(y, b) = y \o <<b>> /\ Append(x \o y, b) = (x \o y) \o <<b>>
  BY <1>1, AppendIsConcat
<1>3. (x \o y) \o <<b>> = x \o (y \o <<b>>)
  BY <1>1, ConcatAssociative
<1> QED BY <1>2, <1>3 DEF Cat

(* The octet a place of the escaped sequence belongs to.                   *)
LEMMA Where ==
  ASSUME NEW s \in Seq(Byte), NEW i \in 1..Len(EscapeInto(s))
  PROVE  \E u \in Seq(Byte), c \in Byte, v \in Seq(Byte) :
           /\ s = Cat(Append(u, c), v)
           /\ Len(EscapeInto(u)) < i
           /\ i <= Len(EscapeInto(u)) + Len(EscapeOne(c))
<1> DEFINE At(t, j, u, c, v) == /\ t = Cat(Append(u, c), v)
                                /\ Len(EscapeInto(u)) < j
                                /\ j <= Len(EscapeInto(u)) + Len(EscapeOne(c))
           Found(t) == \A j \in 1..Len(EscapeInto(t)) :
                         \E u \in Seq(Byte), c \in Byte, v \in Seq(Byte) : At(t, j, u, c, v)
           A == {t \in Seq(Byte) : Found(t)}
<1>1. <<>> \in A
  <2>1. Len(EscapeInto(<<>>)) = 0 /\ <<>> \in Seq(Byte)
    BY EscapedAppend
  <2> QED BY <2>1
<1>2. ASSUME NEW t \in Seq(Byte), NEW b \in Byte, t \in A PROVE Append(t, b) \in A
  <2> DEFINE w == Append(t, b)
             e == EscapeInto(t)
             o == EscapeOne(b)
  <2>1. w \in Seq(Byte) /\ EscapeInto(w) = Cat(e, o)
    BY AppendProperties, EscapedAppend
  <2>2. e \in Seq(Byte) /\ o \in Seq(Byte)
    BY EscapedAppend, OneEscapedType
  <2>3. Len(Cat(e, o)) = Len(e) + Len(o) /\ Len(e) \in Nat /\ Len(o) \in Nat
    <3> HIDE DEF e, o
    <3> QED BY <2>2, ConcatProperties, LenProperties DEF Cat
  <2>4. ASSUME NEW j \in 1..Len(e)
        PROVE  \E u \in Seq(Byte), c \in Byte, v \in Seq(Byte) : At(w, j, u, c, v)
    <3>1. PICK u \in Seq(Byte), c \in Byte, v \in Seq(Byte) : At(t, j, u, c, v)
      BY <1>2
    <3> DEFINE p == Append(u, c)
               z == Append(v, b)
    <3>2. p \in Seq(Byte) /\ z \in Seq(Byte) /\ <<b>> \in Seq(Byte)
      BY AppendProperties
    <3>3. t = Cat(p, v)
      BY <3>1
    <3>4. w = Cat(p, z)
      <4> HIDE DEF p
      <4>1. Append(Cat(p, v), b) = Cat(p, Append(v, b))
        BY <3>2, CatAppend
      <4> QED BY <3>3, <4>1
    <3> HIDE DEF w
    <3>5. At(w, j, u, c, z)
      BY <3>1, <3>4
    <3> QED BY <3>2, <3>5
  <2>5. ASSUME NEW j \in Nat, Len(e) < j, j <= Len(e) + Len(o) PROVE At(w, j, t, b, <<>>)
    <3>1. w = Cat(w, <<>>)
      BY <2>1, ConcatEmptySeq DEF Cat
    <3> QED BY <2>5, <3>1
  <2>6. Found(w)
    <3> SUFFICES ASSUME NEW j \in 1..Len(EscapeInto(w))
                 PROVE  \E u \in Seq(Byte), c \in Byte, v \in Seq(Byte) : At(w, j, u, c, v)
      OBVIOUS
    <3>1. CASE j \in 1..Len(e)
      BY <2>4, <3>1
    <3>2. CASE j \notin 1..Len(e)
      <4>1. j \in Nat /\ Len(e) < j /\ j <= Len(e) + Len(o)
        <5> DEFINE l == Len(e)
                   m == Len(o)
        <5>1. j \in 1..(l + m) /\ j \notin 1..l /\ l \in Nat /\ m \in Nat
          BY <2>1, <2>3, <3>2
        <5> HIDE DEF l, m
        <5>2. j \in Nat /\ l < j /\ j <= l + m
          BY <5>1
        <5> QED BY <5>2 DEF l, m
      <4>2. At(w, j, t, b, <<>>) /\ <<>> \in Seq(Byte)
        BY <2>5, <4>1
      <4> HIDE DEF At
      <4> QED BY <4>2
    <3> QED BY <3>1, <3>2
  <2> HIDE DEF w, Found
  <2>7. w \in A
    BY <2>1, <2>6
  <2> QED BY <2>7 DEF w
<1>3. Seq(Byte) \subseteq A
  <2> HIDE DEF A
  <2> QED BY <1>1, <1>2, AllSeqs
<1>4. Found(s)
  BY <1>3
<1> QED BY <1>4

(* decode goes on behind what it has read.                                 *)
LEMMA UnescapedOn ==
  ASSUME NEW t \in Seq(Byte), NEW v \in Seq(Byte)
  PROVE  Loop(UnescapeStep, Read(t), EscapeInto(v)) = Read(Cat(t, v))
<1> DEFINE e == EscapeInto(t)
           f == EscapeInto(v)
           c == Cat(t, v)
<1>1. e \in Seq(Byte) /\ f \in Seq(Byte) /\ c \in Seq(Byte)
  BY EscapedAppend, ConcatProperties DEF Cat
<1>2. Unescaped(e) = Read(t) /\ Unescaped(EscapeInto(c)) = Read(c)
  BY <1>1, UnescapedBack
<1>3. EscapeInto(c) = Cat(e, f)
  BY EscapedCat
<1> HIDE DEF e, f, c
<1>4. \A o : Unescaped(o) = Loop(UnescapeStep, Read(<<>>), o)
  BY DEF Unescaped, Read
<1>5. Loop(UnescapeStep, Read(<<>>), Cat(e, f)) = Loop(UnescapeStep, Loop(UnescapeStep, Read(<<>>), e), f)
  BY <1>1, LoopConcat DEF Cat
<1> QED BY <1>2, <1>3, <1>4, <1>5 DEF c, f

(* An escape is read with the octet behind it, whatever that is.           *)
LEMMA EscapeRead ==
  ASSUME NEW t \in Seq(Byte), NEW x \in Byte
  PROVE  /\ Loop(UnescapeStep, Read(t), <<ESCAPE, x>>) = Read(Append(t, Xor(x, EscapeXor)))
         /\ Loop(UnescapeStep, Read(t), <<ESCAPE>>).escaped = TRUE
<1> DEFINE two == <<ESCAPE, x>>
           mid == [out |-> t, escaped |-> TRUE, flag |-> FALSE]
<1>1. FLAG \in Byte /\ ESCAPE \in Byte /\ ESCAPE # FLAG
  BY OneEscaped
<1>2. \A c \in Byte, s \in Unescaping : UnescapeStep[c][s] = Unescape(s, c)
  BY DEF UnescapeStep
<1>3. Read(t) \in Unescaping /\ mid \in Unescaping
  BY DEF Read, Unescaping
<1>4. Unescape(Read(t), ESCAPE) = mid
  BY DEF Unescape, Read
<1>5. Unescape(mid, x) = Read(Append(t, Xor(x, EscapeXor)))
  BY DEF Unescape, Read
<1>6. two \in Seq(Byte) /\ Len(two) = 2 /\ two[1] = ESCAPE /\ two[2] = x
  BY <1>1
<1>7. Loop(UnescapeStep, Read(t), <<ESCAPE>>) = UnescapeStep[ESCAPE][Read(t)]
  BY LoopOne
<1>8. mid.escaped = TRUE
  OBVIOUS
<1> HIDE DEF two, mid
<1>9. Loop(UnescapeStep, Read(t), two) = UnescapeStep[x][UnescapeStep[ESCAPE][Read(t)]]
  BY <1>6, LoopTwo
<1> QED BY <1>1, <1>2, <1>3, <1>4, <1>5, <1>7, <1>8, <1>9 DEF two

(* What decode returns was, with its check sequence, between the flags.    *)
LEMMA DecodeGives ==
  ASSUME NEW w \in Seq(Byte), Unescaped(w) \in Unescaping,
         NEW d \in DecodeFrame(Cat(Cat(<<FLAG>>, w), <<FLAG>>))
  PROVE  /\ ~Unescaped(w).escaped /\ d \in Seq(Byte)
         /\ Unescaped(w).out = Cat(d, LeBytes(FrameFcs(d)))
<1> DEFINE f == Cat(Cat(<<FLAG>>, w), <<FLAG>>)
           s == Unescaped(w)
           out == s.out
           n == Len(out) - 2
           l == Len(w)
<1>1. Len(f) = l + 2 /\ SubSeq(f, 2, l + 1) = w /\ l \in Nat
  <2>1. FLAG \in Byte
    BY OneEscaped
  <2> QED BY <2>1, Between, LenProperties
<1>2. out \in Seq(Byte)
  BY DEF Unescaping
<1>3. Len(out) \in Nat
  BY <1>2, LenProperties
<1> HIDE DEF f, l
<1>4. SubSeq(f, 2, Len(f) - 1) = w
  <2>1. Len(f) - 1 = l + 1
    BY <1>1
  <2> QED BY <1>1, <2>1
<1>5. DecodeFrame(f) =
        IF Len(f) \notin 4..MaxFrameSize \/ f[1] # FLAG \/ f[Len(f)] # FLAG THEN {}
        ELSE IF s.flag \/ s.escaped \/ Len(out) < 2 THEN {}
        ELSE IF FcsMatches(SubSeq(out, 1, n), SubSeq(out, n + 1, n + 2)) THEN {SubSeq(out, 1, n)}
        ELSE {}
  BY <1>4 DEF DecodeFrame
<1>6. d \in DecodeFrame(f)
  BY DEF f
<1> HIDE DEF s, out, n
<1>7. ~s.escaped /\ ~(Len(out) < 2) /\ d = SubSeq(out, 1, n)
      /\ FcsMatches(SubSeq(out, 1, n), SubSeq(out, n + 1, n + 2))
  BY <1>5, <1>6
<1>8. n \in 0..Len(out) /\ n + 2 = Len(out)
  BY <1>3, <1>7 DEF n
<1>9. Part(out, 0, n) = d /\ From(out, n) = SubSeq(out, n + 1, n + 2)
  <2>1. 0 + 1 = 1 /\ 0 + n = n
    BY <1>8
  <2> QED BY <1>7, <1>8, <2>1 DEF Part, From
<1>10. out = Part(out, 0, n) \o From(out, n)
  BY <1>2, <1>8, CutApart
<1>11. Part(out, 0, n) \in Seq(Byte)
  <2>1. 0 \in Nat /\ n \in Nat /\ 0 + n <= Len(out)
    BY <1>3, <1>8
  <2> QED BY <1>2, <2>1, PartType
<1> QED BY <1>7, <1>9, <1>10, <1>11 DEF FcsMatches, Cat, out, s

(* No frame ends where no flag follows the first.                          *)
LEMMA NoFrame ==
  ASSUME NEW frames \in Seq(Seq(Byte)), NEW s \in Seq(Plain)
  PROVE  /\ Loop(ReadStep, Waiting(frames), Cat(s, <<FLAG>>)).frames = frames
         /\ Loop(ReadStep, Waiting(frames), Cat(<<FLAG>>, s)).frames = frames
<1> DEFINE one == <<FLAG>>
           W == Waiting(frames)
           R == Reading(one, frames)
           M == Loop(ReadStep, R, s)
<1>1. FLAG \in Byte /\ <<>> \in Seq(Byte)
  BY OneEscaped
<1>2. one \in Seq(Byte)
  BY <1>1
<1>3. s \in Seq(Byte) /\ Plain \in SUBSET Byte
  <2>1. Plain \subseteq Byte
    BY DEF Plain
  <2> QED BY <2>1, SeqMonotonic
<1>4. Loop(ReadStep, W, s) = W
  <2>1. \A b \in Plain : ReadStep[b][W] = W
    BY <1>1, OneRead DEF Plain
  <2> HIDE DEF W
  <2> QED BY <1>3, <2>1, Unmoved
<1>5. Loop(ReadStep, W, one) = R
  <2>1. Loop(ReadStep, W, one) = ReadStep[FLAG][W]
    BY LoopOne
  <2> QED BY <1>1, <2>1, OneRead
<1>6. M = Reading(Cat(one, s), frames) \/ \E f \in Seq(Byte) : M = GivenUp(f, frames)
  BY Collected
<1>7. R.frames = frames /\ M.frames = frames
  <2>1. R.frames = frames
    BY DEF Reading
  <2>2. \A f : Reading(f, frames).frames = frames /\ GivenUp(f, frames).frames = frames
    BY DEF Reading, GivenUp
  <2> HIDE DEF M, R
  <2> QED BY <1>6, <2>1, <2>2
<1> HIDE DEF one, W
<1>8. Loop(ReadStep, W, Cat(s, one)) = Loop(ReadStep, Loop(ReadStep, W, s), one)
  BY <1>2, <1>3, LoopConcat DEF Cat
<1>9. Loop(ReadStep, W, Cat(one, s)) = Loop(ReadStep, Loop(ReadStep, W, one), s)
  BY <1>2, <1>3, LoopConcat DEF Cat
<1> QED BY <1>4, <1>5, <1>7, <1>8, <1>9 DEF one, W

(* One frame and octets behind it are one frame, or none.                  *)
LEMMA OneFrameAtMost ==
  ASSUME NEW w \in Seq(Plain), NEW z \in Seq(Plain)
  PROVE  LET f == Cat(Cat(<<FLAG>>, w), <<FLAG>>)
         IN  /\ FramesOf(f) \in {<<>>, <<f>>}
             /\ FramesOf(Cat(f, Cat(z, <<FLAG>>))) \in {<<>>, <<f>>}
<1> DEFINE f == Cat(Cat(<<FLAG>>, w), <<FLAG>>)
           none == <<>>
           one == <<f>>
           y == Cat(z, <<FLAG>>)
           L(r, s) == Loop(ReadStep, r, s)
           W == Waiting(none)
<1>1. FLAG \in Byte /\ Plain \subseteq Byte
  BY OneEscaped DEF Plain
<1>2. w \in Seq(Byte) /\ z \in Seq(Byte)
  BY <1>1, SeqMonotonic
<1>3. f \in Seq(Byte) /\ y \in Seq(Byte)
  BY <1>1, <1>2, Between, ConcatProperties DEF Cat
<1>4. none \in Seq(Seq(Byte))
  OBVIOUS
<1>5. one \in Seq(Seq(Byte)) /\ Append(none, f) = one
  <2> DEFINE T == Seq(Byte)
  <2>1. f \in T
    BY <1>3
  <2> HIDE DEF T, f
  <2> QED BY <2>1, InTurn DEF T
<1>6. /\ Fits(f) => L(W, f) = Waiting(Append(none, f))
      /\ ~Fits(f) => \E g \in Seq(Byte) : L(W, f) = GivenUp(g, none)
  <2> HIDE DEF none
  <2> QED BY <1>4, FrameRead
<1>7. L(Waiting(one), y).frames = one
  <2> HIDE DEF one
  <2> QED BY <1>5, NoFrame
<1>8. \A s : FramesOf(s) = L(W, s).frames
  BY DEF FramesOf, Waiting
<1> HIDE DEF f, one, y, none, W
<1>9. L(W, Cat(f, y)) = L(L(W, f), y)
  BY <1>3, LoopConcat DEF Cat
<1>10. CASE Fits(f)
  <2>1. L(W, f) = Waiting(one)
    BY <1>5, <1>6, <1>10
  <2>2. Waiting(one).frames = one
    BY DEF Waiting
  <2> QED BY <1>7, <1>8, <1>9, <2>1, <2>2 DEF f, one, y
<1>11. CASE ~Fits(f)
  <2>1. PICK g \in Seq(Byte) : L(W, f) = GivenUp(g, none)
    BY <1>6, <1>11
  <2>2. L(GivenUp(g, none), y) = GivenUp(g, none)
    BY <1>3, <1>4, GivenUpStays
  <2>3. GivenUp(g, none).frames = none
    BY DEF GivenUp
  <2> QED BY <1>8, <1>9, <2>1, <2>2, <2>3 DEF f, y, none
<1> QED BY <1>10, <1>11

(* What is decoded of such a stream.                                       *)
LEMMA DecodedOfOne ==
  ASSUME NEW frames, NEW f, frames \in {<<>>, <<f>>}, NEW k \in 1..Len(frames)
  PROVE  k = 1 /\ frames[k] = f
<1>1. CASE frames = <<>>
  BY <1>1
<1>2. CASE frames = <<f>>
  <2>1. Len(frames) = 1 /\ frames[1] = f
    BY <1>2
  <2>2. k = 1
    BY <2>1
  <2> QED BY <2>1, <2>2
<1> QED BY <1>1, <1>2

(* What a turned bit makes of an octet.                                    *)
LEMMA BitTurned ==
  ASSUME NEW x \in Byte, NEW b \in 0..7
  PROVE  /\ Xor(x, {b}) \in Byte /\ Xor(x, {b}) # x
         /\ Xor(Xor(Xor(x, EscapeXor), {b}), EscapeXor) = Xor(x, {b})
<1>1. Xor(x, {b}) \in Byte
  BY DEF Xor, Byte
<1>2. b \in x <=> b \notin Xor(x, {b})
  BY DEF Xor
<1>3. \A z : z \in Xor(Xor(Xor(x, EscapeXor), {b}), EscapeXor) <=> z \in Xor(x, {b})
  BY DEF Xor
<1> QED BY <1>1, <1>2, <1>3

(* A decoded frame with a changed octet would have passed a check sequence *)
(* that tells one changed octet.                                           *)
LEMMA ChangeTold ==
  ASSUME NEW payload \in Seq(Byte), NEW u \in Seq(Byte), NEW c \in Byte, NEW e \in Byte, c # e,
         NEW v \in Seq(Byte), Cat(payload, LeBytes(FrameFcs(payload))) = Cat(Append(u, c), v),
         NEW w \in Seq(Byte), Unescaped(w) = Read(Cat(Append(u, e), v))
  PROVE  DecodeFrame(Cat(Cat(<<FLAG>>, w), <<FLAG>>)) = {}
<1> DEFINE s == Cat(Append(u, c), v)
           t == Cat(Append(u, e), v)
<1>1. t \in Seq(Byte)
  BY AppendProperties, ConcatProperties DEF Cat
<1>2. Register(s) # Register(t)
  BY OneChangeTold
<1>3. s = Cat(payload, LeBytes(FrameFcs(payload)))
  OBVIOUS
<1> HIDE DEF s, t
<1>4. Read(t) \in Unescaping /\ Read(t).out = t
  BY <1>1 DEF Read, Unescaping
<1>5. Unescaped(w) = Read(t)
  BY DEF t
<1> SUFFICES ASSUME NEW d \in DecodeFrame(Cat(Cat(<<FLAG>>, w), <<FLAG>>)) PROVE FALSE
  OBVIOUS
<1>6. d \in Seq(Byte) /\ t = Cat(d, LeBytes(FrameFcs(d)))
  BY <1>4, <1>5, DecodeGives
<1>7. Register(s) = GoodFcs /\ Register(t) = GoodFcs
  BY <1>3, <1>6, ResidueAlways DEF ResidueGood, Cat
<1> QED BY <1>2, <1>7

(* Three sequences one behind the other.                                   *)
LEMMA CatAssoc ==
  ASSUME NEW S, NEW x \in Seq(S), NEW y \in Seq(S), NEW z \in Seq(S)
  PROVE  Cat(Cat(x, y), z) = Cat(x, Cat(y, z))
<1>1. (x \o y) \o z = x \o (y \o z)
  BY ConcatAssociative
<1> QED BY <1>1 DEF Cat

(* Append is a sequence of one behind.                                     *)
LEMMA AppendCat ==
  ASSUME NEW S, NEW x \in Seq(S), NEW b \in S
  PROVE  /\ <<b>> \in Seq(S) /\ Append(x, b) \in Seq(S)
         /\ Append(x, b) = Cat(x, <<b>>)
<1>1. Append(x, b) = x \o <<b>>
  BY AppendIsConcat
<1>2. <<b>> \in Seq(S) /\ Append(x, b) \in Seq(S)
  BY AppendProperties
<1> QED BY <1>1, <1>2 DEF Cat

(* decode goes on with what is left of a sequence.                         *)
LEMMA UnescapedRest ==
  ASSUME NEW s \in Seq(Byte), NEW r \in Seq(Byte)
  PROVE  Unescaped(Cat(s, r)) = Loop(UnescapeStep, Unescaped(s), r)
<1> DEFINE start == Read(<<>>)
<1>0. s \in Seq(Byte) /\ r \in Seq(Byte)
  OBVIOUS
<1> HIDE DEF start
<1>1. Loop(UnescapeStep, start, Cat(s, r)) = Loop(UnescapeStep, Loop(UnescapeStep, start, s), r)
  BY ONLY <1>0, LoopConcat DEF Cat
<1>2. \A o : Unescaped(o) = Loop(UnescapeStep, start, o)
  BY DEF Unescaped, Read, start
<1> QED BY <1>1, <1>2

(* The octet at a place between the flags, and what it was escaped from.   *)
LEMMA Place ==
  ASSUME NEW s \in Seq(Byte), NEW i \in 1..Len(EscapeInto(s))
  PROVE  \E a \in Seq(Plain), z \in Plain, b \in Seq(Plain) :
           /\ EscapeInto(s) = Cat(Append(a, z), b) /\ Len(a) + 1 = i
           /\ \/ z = ESCAPE
              \/ \E u \in Seq(Byte), c \in Byte, v \in Seq(Byte) :
                   /\ s = Cat(Append(u, c), v) /\ b = EscapeInto(v)
                   /\ \/ a = EscapeInto(u) /\ z = c /\ c \notin Escaped
                      \/ a = Append(EscapeInto(u), ESCAPE) /\ z = Xor(c, EscapeXor)
<1>1. PICK u \in Seq(Byte), c \in Byte, v \in Seq(Byte) :
        /\ s = Cat(Append(u, c), v)
        /\ Len(EscapeInto(u)) < i
        /\ i <= Len(EscapeInto(u)) + Len(EscapeOne(c))
  BY Where
<1> DEFINE p == Append(u, c)
           a == EscapeInto(u)
           o == EscapeOne(c)
           b == EscapeInto(v)
           n == Len(a)
<1>2. p \in Seq(Byte) /\ EscapeInto(p) = Cat(a, o)
  BY EscapedAppend, AppendProperties
<1>3. EscapeInto(s) = Cat(Cat(a, o), b)
  <2> HIDE DEF p, a, o, b
  <2>1. EscapeInto(Cat(p, v)) = Cat(EscapeInto(p), EscapeInto(v))
    BY <1>2, EscapedCat
  <2> QED BY <1>1, <1>2, <2>1 DEF b, p
<1>4. a \in Seq(Plain) /\ b \in Seq(Plain) /\ o \in Seq(Plain) /\ n \in Nat
  BY NoFlagInside, OneEscapedType, LenProperties
<1>5. i \in Nat /\ n < i /\ i <= n + Len(o)
  <2>1. Len(EscapeInto(s)) \in Nat
    BY EscapedAppend, LenProperties
  <2> QED BY <1>1, <2>1
<1>6. ESCAPE \in Plain
  BY OneEscaped DEF Plain
<1>7. CASE c \notin Escaped
  <2>1. o = <<c>> /\ c \in Plain
    BY <1>7, OneEscaped
  <2> HIDE DEF a, b, n, p
  <2>2. Len(o) = 1
    BY <2>1
  <2> HIDE DEF o
  <2>3. Cat(a, o) = Append(a, c)
    BY <1>4, <2>1, AppendIsConcat DEF Cat
  <2>4. i = n + 1
    BY <1>4, <1>5, <2>2
  <2> QED BY <1>1, <1>3, <1>4, <1>7, <2>1, <2>3, <2>4 DEF a, b, n
<1>8. CASE c \in Escaped
  <2> DEFINE y == Xor(c, EscapeXor)
             q == Append(a, ESCAPE)
             r == Cat(<<y>>, b)
  <2>1. o = <<ESCAPE, y>> /\ y \in Plain
    BY <1>8, OneEscaped
  <2> HIDE DEF y
  <2>2. Len(o) = 2 /\ <<y>> \in Seq(Plain)
    BY <2>1
  <2>3. q \in Seq(Plain) /\ Len(q) = n + 1 /\ r \in Seq(Plain)
    BY <1>4, <1>6, <2>2, AppendProperties, ConcatProperties DEF Cat
  <2>4. Cat(a, o) = Append(q, y)
    <3> DEFINE one == <<ESCAPE>>
               sec == <<y>>
    <3>1. Cat(one, sec) = <<ESCAPE, y>>
      BY <1>6, <2>1, ShortCats
    <3>2. one \in Seq(Plain) /\ sec \in Seq(Plain)
      BY <1>6, <2>1
    <3>3. q = Cat(a, one) /\ Append(q, y) = Cat(q, sec)
      BY <1>4, <1>6, <2>1, <2>3, AppendCat
    <3> HIDE DEF one, sec, q, a, o
    <3>4. Cat(Cat(a, one), sec) = Cat(a, Cat(one, sec))
      BY <1>4, <3>2, CatAssoc
    <3> QED BY <2>1, <3>1, <3>3, <3>4
  <2>5. CASE i = n + 1
    <3>1. Cat(Append(q, y), b) = Cat(q, r)
      <4> DEFINE sec == <<y>>
      <4>1. Append(q, y) = Cat(q, sec)
        BY <2>1, <2>3, AppendCat
      <4>2. sec \in Seq(Plain)
        BY <2>2
      <4> HIDE DEF q, b, sec
      <4>3. Cat(Cat(q, sec), b) = Cat(q, Cat(sec, b))
        BY <1>4, <2>3, <4>2, CatAssoc
      <4> QED BY <4>1, <4>3 DEF sec
    <3> HIDE DEF r, b, o, p
    <3> QED BY <1>3, <1>4, <1>6, <2>3, <2>4, <2>5, <3>1
  <2>6. CASE i = n + 2
    <3>1. i = (n + 1) + 1
      BY <1>4, <2>6
    <3>2. Len(q) + 1 = i
      BY <2>3, <3>1
    <3>3. EscapeInto(s) = Cat(Append(q, y), b)
      BY <1>3, <2>4
    <3> HIDE DEF r, o, p
    <3> QED BY <1>1, <1>4, <2>1, <2>3, <3>2, <3>3 DEF y
  <2>7. i = n + 1 \/ i = n + 2
    <3> HIDE DEF n, o
    <3> QED BY <1>4, <1>5, <2>2
  <2> QED BY <2>5, <2>6, <2>7
<1> QED BY <1>7, <1>8

(* An octet z behind a in what is escaped, x what a bit makes of it, and   *)
(* c between u and v what it was escaped from.                             *)
TurnedPlace(payload, u, c, v, a, z, bit, x) ==
  /\ payload \in Seq(Byte) /\ u \in Seq(Byte) /\ c \in Byte /\ v \in Seq(Byte)
  /\ Cat(payload, LeBytes(FrameFcs(payload))) = Cat(Append(u, c), v)
  /\ a \in Seq(Plain) /\ z \in Plain /\ z # ESCAPE /\ bit \in 0..7
  /\ \/ a = EscapeInto(u) /\ z = c /\ c \notin Escaped
     \/ a = Append(EscapeInto(u), ESCAPE) /\ z = Xor(c, EscapeXor)
  /\ x \in Byte /\ x = Xor(z, {bit}) /\ x # ESCAPE

(* What is decoded when an octet is turned that escapes nothing.           *)
LEMMA TurnedInside ==
  ASSUME NEW payload, NEW u, NEW c, NEW v, NEW a, NEW z, NEW bit, NEW x,
         TurnedPlace(payload, u, c, v, a, z, bit, x)
  PROVE  /\ x # FLAG =>
              DecodeFrame(Cat(Cat(<<FLAG>>, Cat(Append(a, x), EscapeInto(v))), <<FLAG>>)) = {}
         /\ \A d \in DecodeFrame(Cat(Cat(<<FLAG>>, a), <<FLAG>>)) : StartsWithFrameOf(payload, d)
<1>0. /\ payload \in Seq(Byte) /\ u \in Seq(Byte) /\ c \in Byte /\ v \in Seq(Byte)
      /\ Cat(payload, LeBytes(FrameFcs(payload))) = Cat(Append(u, c), v)
      /\ a \in Seq(Plain) /\ z \in Plain /\ z # ESCAPE /\ bit \in 0..7
      /\ \/ a = EscapeInto(u) /\ z = c /\ c \notin Escaped
         \/ a = Append(EscapeInto(u), ESCAPE) /\ z = Xor(c, EscapeXor)
      /\ x \in Byte /\ x = Xor(z, {bit}) /\ x # ESCAPE
  BY DEF TurnedPlace
<1> USE <1>0
<1> DEFINE e == EscapeInto(u)
           f == EscapeInto(v)
           g == Xor(c, {bit})
           t == Append(u, g)
           w == Cat(Append(a, x), f)
           q == Append(e, ESCAPE)
<1>1. e \in Seq(Byte) /\ f \in Seq(Byte)
  BY EscapedAppend
<1>2. z \in Byte /\ Plain \subseteq Byte /\ ESCAPE \in Byte /\ FLAG \in Byte /\ EscapeXor \in Byte
  BY OneEscaped DEF Plain, EscapeXor, Byte
<1>3. x \in Byte /\ g \in Byte /\ g # c
  BY <1>2, BitTurned
<1>4. t \in Seq(Byte) /\ a \in Seq(Byte)
  BY <1>2, <1>3, AppendProperties, SeqMonotonic
<1>5. w \in Seq(Byte)
  BY <1>1, <1>3, <1>4, AppendProperties, ConcatProperties DEF Cat
<1>6. Unescaped(e) = Read(u)
  BY UnescapedBack
<1>7. \A s : Unescaped(s) = Loop(UnescapeStep, Read(<<>>), s)
  BY DEF Unescaped, Read
<1>8. Loop(UnescapeStep, Read(t), f) = Read(Cat(t, v))
  BY <1>4, UnescapedOn
<1>9. \A s \in Seq(Byte), r \in Seq(Byte) :
        Loop(UnescapeStep, Read(<<>>), Cat(s, r)) = Loop(UnescapeStep, Loop(UnescapeStep, Read(<<>>), s), r)
  BY LoopConcat DEF Cat
<1>10. q \in Seq(Byte) /\ q = Cat(e, <<ESCAPE>>) /\ <<ESCAPE>> \in Seq(Byte)
  BY <1>1, <1>2, AppendProperties, AppendIsConcat DEF Cat
<1>11. Append(a, x) = Cat(a, <<x>>) /\ <<x>> \in Seq(Byte) /\ Append(a, x) \in Seq(Byte)
  BY <1>3, <1>4, AppendCat
<1> HIDE DEF e, f, g, q
<1>12. ASSUME x # FLAG PROVE Unescaped(w) = Read(Cat(t, v))
  <2>1. CASE a = e /\ z = c /\ c \notin Escaped
    <3>1. x \notin Escaped /\ x = g
      BY <1>12, <2>1 DEF Escaped, g
    <3>2. EscapeOne(x) = <<x>>
      BY <1>3, <3>1, OneEscaped
    <3>3. Loop(UnescapeStep, Read(u), <<x>>) = Read(Append(u, x))
      BY <1>3, <3>2, OneUnescaped
    <3>4. Loop(UnescapeStep, Read(<<>>), Append(a, x)) = Read(t)
      <4> DEFINE one == <<x>>
      <4>1. one \in Seq(Byte) /\ Append(a, x) = Cat(e, one) /\ Loop(UnescapeStep, Read(u), one) = Read(t)
        BY <1>11, <2>1, <3>1, <3>3
      <4> HIDE DEF one
      <4>2. Unescaped(Cat(e, one)) = Loop(UnescapeStep, Unescaped(e), one)
        BY <1>1, <4>1, UnescapedRest
      <4> QED BY <1>6, <1>7, <4>1, <4>2
    <3> DEFINE ax == Append(a, x)
    <3>5. Unescaped(Cat(ax, f)) = Loop(UnescapeStep, Read(t), f)
      <4>1. ax \in Seq(Byte) /\ Loop(UnescapeStep, Read(<<>>), ax) = Read(t)
        BY <1>11, <3>4
      <4>2. Unescaped(ax) = Read(t)
        BY <1>7, <4>1
      <4> HIDE DEF t, ax
      <4> QED BY <1>1, <4>1, <4>2, UnescapedRest
    <3> HIDE DEF t
    <3> QED BY <1>8, <3>5 DEF f
  <2>2. CASE a = q /\ z = Xor(c, EscapeXor)
    <3> DEFINE two == <<ESCAPE, x>>
    <3>1. Xor(x, EscapeXor) = g
      BY <2>2, BitTurned DEF g
    <3>2. Loop(UnescapeStep, Read(u), two) = Read(t)
      BY <1>3, <3>1, EscapeRead
    <3>3. two \in Seq(Byte)
      BY <1>2, <1>3
    <3>4. Append(a, x) = Cat(e, two)
      <4> DEFINE one == <<ESCAPE>>
                 sec == <<x>>
      <4>1. Cat(one, sec) = two
        BY <1>2, <1>3, ShortCats
      <4>2. one \in Seq(Byte) /\ sec \in Seq(Byte)
        BY <1>10, <1>11
      <4>3. a = Cat(e, one) /\ Append(a, x) = Cat(a, sec)
        BY <1>10, <1>11, <2>2
      <4> HIDE DEF one, sec, two
      <4>4. Cat(Cat(e, one), sec) = Cat(e, Cat(one, sec))
        BY <1>1, <4>2, CatAssoc
      <4> QED BY <4>1, <4>3, <4>4
    <3> HIDE DEF two
    <3>5. Loop(UnescapeStep, Read(<<>>), Append(a, x)) = Read(t)
      <4>1. Loop(UnescapeStep, Read(<<>>), Cat(e, two)) = Loop(UnescapeStep, Read(u), two)
        BY <1>1, <1>6, <1>7, <1>9, <3>3
      <4> QED BY <3>2, <3>4, <4>1
    <3> DEFINE ax == Append(a, x)
    <3>6. Unescaped(Cat(ax, f)) = Loop(UnescapeStep, Read(t), f)
      <4>1. ax \in Seq(Byte) /\ Loop(UnescapeStep, Read(<<>>), ax) = Read(t)
        BY <1>11, <3>5
      <4>2. Unescaped(ax) = Read(t)
        BY <1>7, <4>1
      <4> HIDE DEF t, ax
      <4> QED BY <1>1, <4>1, <4>2, UnescapedRest
    <3> HIDE DEF t
    <3> QED BY <1>8, <3>6 DEF f
  <2> QED BY <2>1, <2>2 DEF e, q
<1>13. ASSUME x # FLAG PROVE DecodeFrame(Cat(Cat(<<FLAG>>, w), <<FLAG>>)) = {}
  <2>1. Unescaped(w) = Read(Cat(Append(u, g), v))
    BY <1>12, <1>13
  <2> HIDE DEF w, t
  <2> QED BY <1>3, <1>5, <2>1, ChangeTold, SMTT(30)
<1>14. ASSUME NEW d \in DecodeFrame(Cat(Cat(<<FLAG>>, a), <<FLAG>>)) PROVE StartsWithFrameOf(payload, d)
  <2>1. CASE a = e
    <3>1. Unescaped(a) = Read(u) /\ Read(u) \in Unescaping /\ Read(u).out = u
      BY <1>6, <2>1 DEF Read, Unescaping
    <3>2. u = Cat(d, LeBytes(FrameFcs(d)))
      BY <1>4, <3>1, DecodeGives
    <3> DEFINE all == Cat(payload, LeBytes(FrameFcs(payload)))
               r == Cat(<<c>>, v)
               n == Len(u)
    <3>3. all = Cat(u, r) /\ r \in Seq(Byte)
      <4> DEFINE one == <<c>>
      <4>1. one \in Seq(Byte) /\ Append(u, c) = u \o one
        BY AppendIsConcat
      <4>2. all = Cat(Append(u, c), v)
        OBVIOUS
      <4> HIDE DEF one, all
      <4>3. (u \o one) \o v = u \o (one \o v) /\ one \o v \in Seq(Byte)
        BY <4>1, ConcatAssociative, ConcatProperties, SMTT(30)
      <4> QED BY <4>1, <4>2, <4>3 DEF Cat, one
    <3> HIDE DEF all, r
    <3>4. Len(all) = n + Len(r) /\ Len(r) \in Nat /\ n \in Nat
      BY <3>3, ConcatProperties, LenProperties DEF Cat
    <3>5. Part(all, 0, n) = u
      BY <3>3, CutBack DEF Cat
    <3>6. SubSeq(all, 1, n) = u
      <4>1. 0 + 1 = 1 /\ 0 + n = n
        BY <3>4
      <4> QED BY <3>5, <4>1 DEF Part
    <3>7. SubSeq(u, 1, n) = u
      BY SubSeqFull
    <3>8. n <= Len(all)
      BY <3>4
    <3>9. IsPrefix(u, all)
      BY <3>6, <3>7, <3>8 DEF IsPrefix
    <3> QED BY <3>2, <3>9 DEF StartsWithFrameOf, Cat, all
  <2>2. CASE a = q
    <3>1. Unescaped(a) = Loop(UnescapeStep, Read(u), <<ESCAPE>>)
      BY <1>1, <1>6, <1>7, <1>9, <1>10, <2>2, ZenonT(30)
    <3>2. Unescaped(a).escaped = TRUE
      BY <1>3, <3>1, EscapeRead
    <3>3. Unescaped(a) \in Unescaping
      <4>1. Unescape(Read(u), ESCAPE) \in Unescaping /\ Read(u) \in Unescaping
        BY DEF Unescape, Read, Unescaping
      <4>2. Unescaped(a) = UnescapeStep[ESCAPE][Read(u)]
        BY <3>1, LoopOne
      <4> QED BY <1>2, <4>1, <4>2 DEF UnescapeStep
    <3> QED BY <1>4, <3>2, <3>3, DecodeGives
  <2> QED BY <2>1, <2>2 DEF e, q
<1> QED BY <1>13, <1>14 DEF f

(* A bit turned at a place makes of f just g.                              *)
TurnsTo(f, i, bit, g) == Turned(f, i, bit) = g

(* A bit turned behind some octets turns nothing else.                     *)
LEMMA TurnedAt ==
  ASSUME NEW a \in Seq(Byte), NEW z \in Byte, NEW b \in Seq(Byte), NEW bit \in 0..7
  PROVE  LET f == Cat(Append(a, z), b)
             i == Len(a) + 1
             x == Xor(z, {bit})
         IN  /\ f[i] = z
             /\ TurnsTo(f, i, bit, Cat(Append(a, x), b))
             /\ Cat(Append(a, x), b)[i] = x
<1> DEFINE x == Xor(z, {bit})
           f == Cat(Append(a, z), b)
           i == Len(a) + 1
<1>1. x \in Byte
  BY BitTurned
<1> HIDE DEF x
<1>2. f[i] = z /\ [f EXCEPT ![i] = x] = Cat(Append(a, x), b)
  BY <1>1, Replaced
<1>3. Cat(Append(a, x), b)[i] = x
  BY <1>1, Replaced
<1> HIDE DEF f, i
<1>4. Turned(f, i, bit) = [f EXCEPT ![i] = Xor(f[i], {bit})]
  BY DEF Turned
<1>5. Xor(f[i], {bit}) = x
  BY <1>2 DEF x
<1>6. TurnsTo(f, i, bit, Cat(Append(a, x), b))
  BY <1>2, <1>4, <1>5 DEF TurnsTo
<1> QED BY <1>2, <1>3, <1>6 DEF f, i, x

(* An octet between others, told by what is before it and behind it.       *)
LEMMA Regroup ==
  ASSUME NEW S, NEW o \in Seq(S), NEW a \in Seq(S), NEW z \in S, NEW b \in Seq(S)
  PROVE  /\ Cat(Cat(o, Cat(Append(a, z), b)), o) = Cat(Append(Cat(o, a), z), Cat(b, o))
         /\ Cat(o, a) \in Seq(S) /\ Cat(b, o) \in Seq(S) /\ Cat(Append(a, z), b) \in Seq(S)
         /\ Len(Cat(o, a)) = Len(o) + Len(a)
<1> DEFINE p == Append(a, z)
           q == Append(Cat(o, a), z)
<1>1. p \in Seq(S) /\ q = Cat(o, p)
  BY AppendCat, CatAppend
<1>2. Cat(o, a) \in Seq(S) /\ Cat(b, o) \in Seq(S) /\ Len(Cat(o, a)) = Len(o) + Len(a)
  BY ConcatProperties DEF Cat
<1> HIDE DEF p, q
<1>3. Cat(p, b) \in Seq(S) /\ Cat(o, p) \in Seq(S)
  BY <1>1, ConcatProperties DEF Cat
<1>4. Cat(o, Cat(p, b)) = Cat(Cat(o, p), b)
  BY <1>1, CatAssoc
<1>5. Cat(Cat(Cat(o, p), b), o) = Cat(Cat(o, p), Cat(b, o))
  BY <1>3, CatAssoc
<1> QED BY <1>1, <1>2, <1>3, <1>4, <1>5 DEF p, q

(* The frame with a bit of its first flag turned, or of its last.          *)
LEMMA FlagTurned ==
  ASSUME NEW in \in Seq(Plain), NEW bit \in 0..7
  PROVE  LET F == Cat(Cat(<<FLAG>>, in), <<FLAG>>)
         IN  /\ Turned(F, 1, bit)[1] # ESCAPE => FramesOf(Turned(F, 1, bit)) = <<>>
             /\ Turned(F, Len(in) + 2, bit)[Len(in) + 2] # ESCAPE =>
                  FramesOf(Turned(F, Len(in) + 2, bit)) = <<>>
<1> DEFINE one == <<FLAG>>
           none == <<>>
           x == Xor(FLAG, {bit})
           F == Cat(Cat(one, in), one)
           n == Len(in)
<1>1. FLAG \in Byte /\ Plain \subseteq Byte
  BY OneEscaped DEF Plain
<1>2. in \in Seq(Byte) /\ one \in Seq(Byte) /\ Len(one) = 1 /\ n \in Nat
  BY <1>1, SeqMonotonic, LenProperties
<1>3. x \in Byte /\ x # FLAG
  BY <1>1, BitTurned
<1>4. none \in Seq(Byte) /\ Len(none) = 0 /\ none \in Seq(Seq(Byte)) /\ none = <<>>
  OBVIOUS
<1>5. \A y \in Byte : Append(none, y) = <<y>>
  OBVIOUS
<1>6. \A s : FramesOf(s) = Loop(ReadStep, Waiting(none), s).frames
  BY DEF FramesOf, Waiting
<1> HIDE DEF none
<1>7. ASSUME x # ESCAPE PROVE <<x>> \in Seq(Plain) /\ x \in Plain
  <2>1. x \in Plain
    BY <1>3, <1>7 DEF Plain
  <2> QED BY <2>1
<1> DEFINE r == Cat(in, one)
           h == Append(none, x)
           t == Cat(h, r)
<1>8. r \in Seq(Byte) /\ F = Cat(one, r)
  <2> HIDE DEF one
  <2>1. Cat(in, one) \in Seq(Byte)
    BY <1>2, ConcatProperties DEF Cat
  <2>2. Cat(Cat(one, in), one) = Cat(one, Cat(in, one))
    BY <1>2, CatAssoc
  <2> QED BY <2>1, <2>2
<1>9. Turned(F, 1, bit) = t /\ t[1] = x
  <2>1. Append(none, FLAG) = one
    BY <1>1, <1>5
  <2>2. Len(none) + 1 = 1
    BY <1>4
  <2>3. TurnsTo(Cat(Append(none, FLAG), r), Len(none) + 1, bit, t) /\ t[Len(none) + 1] = x
    <3>1. none \in Seq(Byte) /\ FLAG \in Byte /\ r \in Seq(Byte) /\ bit \in 0..7
      BY <1>1, <1>4, <1>8
    <3> HIDE DEF r
    <3> QED BY ONLY <3>1, TurnedAt DEF t, h, x
  <2> HIDE DEF t, r, F, one
  <2> QED BY <1>8, <2>1, <2>2, <2>3 DEF TurnsTo
<1>10. ASSUME x # ESCAPE PROVE FramesOf(t) = none
  <2>1. h = <<x>>
    BY <1>3, <1>5
  <2>2. h \in Seq(Plain)
    BY <1>7, <1>10, <2>1
  <2> HIDE DEF h, one
  <2>3. Cat(h, in) \in Seq(Plain)
    BY <2>2, ConcatProperties DEF Cat
  <2>4. t = Cat(Cat(h, in), one)
    <3>1. h \in Seq(Byte)
      BY <1>1, <2>2, SeqMonotonic
    <3> QED BY <1>2, <3>1, CatAssoc
  <2>5. Loop(ReadStep, Waiting(none), Cat(Cat(h, in), one)).frames = none
    BY <1>4, <2>3, NoFrame DEF one
  <2> QED BY <1>6, <2>4, <2>5
<1> DEFINE e == Append(in, x)
           l == Cat(one, in)
<1>11. l \in Seq(Byte) /\ Len(l) = n + 1
  <2> HIDE DEF one, n
  <2>1. l \in Seq(Byte) /\ Len(l) = Len(one) + Len(in)
    BY <1>2, ConcatProperties DEF Cat
  <2>2. Len(l) = 1 + n
    BY <1>2, <2>1 DEF n
  <2> QED BY <1>2, <2>1, <2>2
<1>12. Turned(F, n + 2, bit) = Cat(one, e) /\ Cat(one, e)[n + 2] = x
  <2>1. F = Append(l, FLAG) /\ Append(l, FLAG) \in Seq(Byte) /\ Append(l, x) \in Seq(Byte)
    <3> HIDE DEF l
    <3> QED BY <1>1, <1>3, <1>11, AppendCat DEF l
  <2>2. Append(l, x) = Cat(one, e)
    <3>1. one \in Seq(Byte) /\ in \in Seq(Byte) /\ x \in Byte
      BY <1>2, <1>3
    <3> HIDE DEF one, x
    <3> QED BY ONLY <3>1, CatAppend DEF l, e
  <2>3. Len(l) + 1 = n + 2
    BY <1>2, <1>11
  <2>4. \A s \in Seq(Byte) : Cat(s, none) = s
    BY <1>4, ConcatEmptySeq DEF Cat
  <2> DEFINE g == Append(l, FLAG)
             k == Append(l, x)
  <2>5. TurnsTo(Cat(g, none), Len(l) + 1, bit, Cat(k, none)) /\ Cat(k, none)[Len(l) + 1] = x
    <3>1. l \in Seq(Byte) /\ FLAG \in Byte /\ none \in Seq(Byte) /\ bit \in 0..7
      BY <1>1, <1>4, <1>11
    <3> HIDE DEF l
    <3> QED BY ONLY <3>1, TurnedAt, ZenonT(30) DEF g, k, x
  <2>6. Cat(g, none) = g /\ Cat(k, none) = k
    BY <2>1, <2>4
  <2> HIDE DEF g, k, l, F, e, one, n
  <2> QED BY <2>1, <2>2, <2>3, <2>5, <2>6 DEF g, k, TurnsTo
<1>13. ASSUME x # ESCAPE PROVE FramesOf(Cat(one, e)) = none
  <2>1. e \in Seq(Plain)
    BY <1>7, <1>13, AppendProperties
  <2>2. Loop(ReadStep, Waiting(none), Cat(one, e)).frames = none
    <3> HIDE DEF e
    <3> QED BY <1>4, <2>1, NoFrame
  <2> QED BY <1>6, <2>2
<1> HIDE DEF t, e, F, x
<1> QED BY <1>4, <1>9, <1>10, <1>12, <1>13 DEF F, n

(* What BitTold says of one place.                                         *)
ToldAt(payload, i, b) ==
  LET F == EncodeFrame(payload)
      G == Turned(F, i, b)
  IN  ESCAPE \notin {G[i], F[i]} =>
        \A k \in 1..Len(FramesOf(G)) : \A d \in DecodeFrame(FramesOf(G)[k]) :
          StartsWithFrameOf(payload, d) /\ G[i] = FLAG /\ k = 1

(* A turned bit between the flags of the frame.                            *)
LEMMA InsideTold ==
  ASSUME NEW payload \in Seq(Byte), NEW i \in 1..Len(Inside(payload)), NEW bit \in 0..7
  PROVE  ToldAt(payload, i + 1, bit)
<1> DEFINE F == EncodeFrame(payload)
           G == Turned(F, i + 1, bit)
<1> SUFFICES ASSUME ESCAPE \notin {G[i + 1], F[i + 1]}, NEW k \in 1..Len(FramesOf(G)),
                    NEW d \in DecodeFrame(FramesOf(G)[k])
             PROVE  StartsWithFrameOf(payload, d) /\ G[i + 1] = FLAG /\ k = 1
  BY DEF ToldAt
<1>0. F = Cat(Cat(<<FLAG>>, Inside(payload)), <<FLAG>>) /\ G = Turned(F, i + 1, bit)
  BY Encoded
<1> HIDE DEF F, G
<1> DEFINE all == Cat(payload, LeBytes(FrameFcs(payload)))
           in == Inside(payload)
           one == <<FLAG>>
<1>1. all \in Seq(Byte) /\ in = EscapeInto(all)
  <2>1. LeBytes(FrameFcs(payload)) \in Seq(Byte)
    BY RegisterType, LeType
  <2> QED BY <2>1, ConcatProperties DEF Cat, Inside
<1>2. FLAG \in Byte /\ Plain \subseteq Byte /\ one \in Seq(Byte) /\ Len(one) = 1
  BY OneEscaped DEF Plain
<1>3. PICK a \in Seq(Plain), z \in Plain, b \in Seq(Plain) :
        /\ in = Cat(Append(a, z), b) /\ Len(a) + 1 = i
        /\ \/ z = ESCAPE
           \/ \E u \in Seq(Byte), c \in Byte, v \in Seq(Byte) :
                /\ all = Cat(Append(u, c), v) /\ b = EscapeInto(v)
                /\ \/ a = EscapeInto(u) /\ z = c /\ c \notin Escaped
                   \/ a = Append(EscapeInto(u), ESCAPE) /\ z = Xor(c, EscapeXor)
  <2> HIDE DEF all
  <2> QED BY <1>1, Place DEF in
<1> DEFINE x == Xor(z, {bit})
           l == Cat(one, a)
           r == Cat(b, one)
           w == Cat(Append(a, x), b)
           n == Len(a)
<1>4. a \in Seq(Byte) /\ z \in Byte /\ b \in Seq(Byte) /\ n \in Nat /\ n + 1 = i
  BY <1>2, <1>3, SeqMonotonic, LenProperties
<1>5. x \in Byte
  BY <1>4, BitTurned
<1> HIDE DEF all, one, x, n
<1>6. /\ Cat(Cat(one, Cat(Append(a, z), b)), one) = Cat(Append(l, z), r)
      /\ l \in Seq(Byte) /\ r \in Seq(Byte) /\ Len(l) = Len(one) + Len(a)
  <2>1. one \in Seq(Byte) /\ a \in Seq(Byte) /\ z \in Byte /\ b \in Seq(Byte)
    BY <1>2, <1>4
  <2> QED BY ONLY <2>1, Regroup, SMTT(30) DEF l, r
<1>7. Cat(Cat(one, w), one) = Cat(Append(l, x), r)
  BY <1>2, <1>4, <1>5, Regroup
<1>8. Len(l) + 1 = i + 1
  <2>1. Len(l) = 1 + n
    BY <1>2, <1>6 DEF n
  <2> QED BY <1>4, <2>1
<1>9. F = Cat(Append(l, z), r)
  <2>1. F = Cat(Cat(one, in), one)
    BY <1>0 DEF one
  <2> HIDE DEF in, l, r
  <2> QED BY <1>3, <1>6, <2>1
<1>10. F[i + 1] = z /\ G = Cat(Append(l, x), r) /\ G[i + 1] = x
  <2>1. l \in Seq(Byte) /\ z \in Byte /\ r \in Seq(Byte) /\ bit \in 0..7
    BY <1>4, <1>6
  <2> DEFINE f == Cat(Append(l, z), r)
             g == Cat(Append(l, x), r)
  <2>2. f[Len(l) + 1] = z /\ Turned(f, Len(l) + 1, bit) = g /\ g[Len(l) + 1] = x
    <3> DEFINE y == Xor(z, {bit})
               m == Len(l) + 1
    <3> HIDE DEF l, r
    <3>1. f[m] = z
      BY ONLY <2>1, TurnedAt DEF f, m
    <3>2. TurnsTo(f, m, bit, Cat(Append(l, y), r))
      BY ONLY <2>1, TurnedAt DEF f, m, y
    <3>3. Cat(Append(l, y), r)[m] = y
      BY ONLY <2>1, TurnedAt, ZenonT(30) DEF m, y
    <3> QED BY ONLY <3>1, <3>2, <3>3 DEF g, m, y, x, TurnsTo
  <2>3. F = f /\ G = Turned(F, i + 1, bit)
    BY <1>0, <1>9
  <2> HIDE DEF f, l
  <2> QED BY <1>8, <2>2, <2>3 DEF l
<1>11. z # ESCAPE /\ x # ESCAPE
  BY <1>10
<1>12. PICK u \in Seq(Byte), c \in Byte, v \in Seq(Byte) :
         /\ all = Cat(Append(u, c), v) /\ b = EscapeInto(v)
         /\ \/ a = EscapeInto(u) /\ z = c /\ c \notin Escaped
            \/ a = Append(EscapeInto(u), ESCAPE) /\ z = Xor(c, EscapeXor)
  BY <1>3, <1>11
<1> DEFINE f1 == Cat(Cat(<<FLAG>>, a), <<FLAG>>)
<1>13. /\ x # FLAG => DecodeFrame(Cat(Cat(<<FLAG>>, w), <<FLAG>>)) = {}
       /\ \A e \in DecodeFrame(f1) : StartsWithFrameOf(payload, e)
  <2>1. Cat(payload, LeBytes(FrameFcs(payload))) = Cat(Append(u, c), v)
    BY <1>12 DEF all
  <2>2. x = Xor(z, {bit}) /\ z # ESCAPE /\ x # ESCAPE
    BY <1>11 DEF x
  <2>3. b = EscapeInto(v)
    BY <1>12
  <2>4. \/ a = EscapeInto(u) /\ z = c /\ c \notin Escaped
        \/ a = Append(EscapeInto(u), ESCAPE) /\ z = Xor(c, EscapeXor)
    BY <1>12
  <2>5. TurnedPlace(payload, u, c, v, a, z, bit, x)
    BY <1>5, <2>1, <2>2, <2>4 DEF TurnedPlace
  <2>6. /\ x # FLAG => DecodeFrame(Cat(Cat(<<FLAG>>, Cat(Append(a, x), EscapeInto(v))), <<FLAG>>)) = {}
        /\ \A e \in DecodeFrame(Cat(Cat(<<FLAG>>, a), <<FLAG>>)) : StartsWithFrameOf(payload, e)
    BY ONLY <2>5, TurnedInside
  <2> QED BY <2>3, <2>6
<1>14. CASE x # FLAG
  <2>1. w \in Seq(Plain)
    <3>1. x \in Plain
      BY <1>5, <1>11, <1>14 DEF Plain
    <3>2. Append(a, x) \in Seq(Plain)
      BY <3>1, AppendProperties
    <3> QED BY <3>2, ConcatProperties DEF Cat
  <2>2. G = Cat(Cat(one, w), one)
    BY <1>7, <1>10
  <2> HIDE DEF w, l, r
  <2>3. FramesOf(G) \in {<<>>, <<G>>}
    BY <2>1, <2>2, OneFrameAtMost DEF one
  <2>4. FramesOf(G)[k] = G
    BY <2>3, DecodedOfOne
  <2>5. d \in DecodeFrame(Cat(Cat(<<FLAG>>, w), <<FLAG>>))
    BY <2>2, <2>4 DEF one
  <2> QED BY <1>13, <1>14, <2>5
<1>15. CASE x = FLAG
  <2>1. G = Cat(f1, r)
    <3>1. Append(l, x) = Cat(l, one)
      <4> HIDE DEF l
      <4> QED BY <1>2, <1>6, <1>15, AppendCat DEF one
    <3> QED BY <1>10, <3>1 DEF one
  <2>2. FramesOf(Cat(f1, Cat(b, <<FLAG>>))) \in {<<>>, <<f1>>}
    BY OneFrameAtMost
  <2> HIDE DEF f1
  <2>3. FramesOf(G) \in {<<>>, <<f1>>}
    BY <2>1, <2>2 DEF one
  <2>4. k = 1 /\ FramesOf(G)[k] = f1
    BY <2>3, DecodedOfOne
  <2> QED BY <1>10, <1>13, <1>15, <2>4
<1> QED BY <1>14, <1>15

(* A turned bit is told, whatever the payload.                             *)
LEMMA ToldAlways ==
  ASSUME NEW payload \in Seq(Byte)
  PROVE  BitTold(payload)
<1> DEFINE F == EncodeFrame(payload)
           in == Inside(payload)
           n == Len(in)
<1>1. F = Cat(Cat(<<FLAG>>, in), <<FLAG>>) /\ in \in Seq(Plain) /\ in \in Seq(Byte)
  BY Encoded
<1>2. Len(F) = n + 2 /\ n \in Nat
  <2> HIDE DEF F, in
  <2>1. FLAG \in Byte
    BY OneEscaped
  <2>2. Len(Cat(Cat(<<FLAG>>, in), <<FLAG>>)) = Len(in) + 2
    BY <1>1, <2>1, Between
  <2>3. Len(in) \in Nat
    BY <1>1, LenProperties
  <2> QED BY <1>1, <2>2, <2>3
<1> SUFFICES ASSUME NEW i \in 1..Len(F), NEW bit \in 0..7 PROVE ToldAt(payload, i, bit)
  BY DEF BitTold, ToldAt
<1>3. CASE i = 1 \/ i = n + 2
  <2> DEFINE G == Turned(F, i, bit)
  <2>1. SUFFICES ASSUME G[i] # ESCAPE PROVE FramesOf(G) = <<>>
    <3>1. CASE G[i] = ESCAPE
      BY <3>1 DEF ToldAt
    <3>2. CASE FramesOf(G) = <<>>
      <4>1. Len(FramesOf(G)) = 0
        BY <3>2
      <4>2. 1..Len(FramesOf(G)) = {}
        BY <4>1
      <4> HIDE DEF G
      <4> QED BY <4>2 DEF ToldAt, G
    <3> QED BY <3>1, <3>2
  <2> HIDE DEF F, in, n
  <2> QED BY <1>1, <1>3, <2>1, FlagTurned DEF n
<1>4. CASE ~(i = 1 \/ i = n + 2)
  <2> DEFINE j == i - 1
  <2> HIDE DEF F, n
  <2>1. j \in 1..n /\ i = j + 1
    BY <1>2, <1>4
  <2>2. j \in 1..Len(Inside(payload))
    BY <2>1 DEF n
  <2> HIDE DEF j
  <2>3. ToldAt(payload, j + 1, bit)
    BY <2>2, InsideTold
  <2> QED BY <2>1, <2>3
<1> QED BY <1>3, <1>4

(* Whatever bit of a frame is turned on the air, read_frame and decode     *)
(* give nothing for it, unless the bit makes an escape or unmakes one, or  *)
(* makes a flag behind what happens to be a whole frame (hdlc.rs:74-113).  *)
THEOREM TurnedBitExact == FormatsSpec => []OneBitTold
<1>1. InputOK => OneBitTold
  <2>1. Seq(FrameBytes) \subseteq Seq(Byte)
    BY InputsAssumption
  <2> QED BY <2>1, ToldAlways DEF InputOK, OneBitTold
<1> QED BY <1>1, InputsRead, PTL

(* The characters of a text.                                               *)
TextChars == Sextet \cup {Pad, Invalid}

(* A text of n quartets of which all but at most two paddings at the end   *)
(* stand for a value, the first m.                                         *)
Shaped(text, n, m) ==
  /\ text \in Seq(TextChars) /\ n \in Nat /\ m \in Nat
  /\ Len(text) = 4 * n /\ m <= 4 * n /\ 4 * n <= m + 2
  /\ \A i \in 1..m : text[i] \in Sextet
  /\ \A i \in 1..Len(text) : i > m => text[i] = Pad

(* Paddings and what is outside the alphabet stand for no value.           *)
LEMMA CharsApart ==
  /\ Pad \notin Sextet /\ Invalid \notin Sextet /\ Pad # Invalid
  /\ Pad \notin Sextet \cup {Invalid}
BY AlphabetAssumption DEF Sextet

(* The body of such a text is what is before the paddings.                 *)
LEMMA BodyOfShaped ==
  ASSUME NEW text, NEW n, NEW m, Shaped(text, n, m)
  PROVE  /\ Len(Body(text)) = m
         /\ \A i \in 1..m : Body(text)[i] = text[i]
<1> DEFINE A == Sextet \cup {Invalid}
           p == Part(text, 0, m)
           r == From(text, m)
<1>1. text \in Seq(TextChars) /\ m \in Nat /\ m <= Len(text) /\ Len(text) \in Nat
  BY LenProperties DEF Shaped
<1>2. p \in Seq(TextChars) /\ Len(p) = m /\ \A i \in 1..m : p[i] = text[0 + i]
  <2>1. 0 \in Nat /\ 0 + m <= Len(text)
    BY <1>1
  <2> QED BY <1>1, <2>1, PartType
<1>3. r \in Seq(TextChars) /\ Len(r) = Len(text) - m /\ \A i \in 1..Len(r) : r[i] = text[m + i]
  BY <1>1, FromType
<1>4. text = Cat(p, r)
  <2>1. m \in 0..Len(text)
    BY <1>1
  <2> QED BY <1>1, <2>1, CutApart DEF Cat
<1> HIDE DEF p, r
<1>5. Kept(text, A) = Cat(Kept(p, A), Kept(r, A))
  <2> HIDE DEF A
  <2> QED BY <1>2, <1>3, <1>4, KeptCat
<1>6. Kept(p, A) = p
  <2>1. \A i \in 1..Len(p) : p[i] \in A
    <3> SUFFICES ASSUME NEW i \in 1..m PROVE p[i] \in A
      BY <1>2
    <3>1. p[i] = text[i]
      <4>1. 0 + i = i
        OBVIOUS
      <4> QED BY <1>2, <4>1
    <3>2. text[i] \in Sextet
      BY DEF Shaped
    <3> QED BY <3>1, <3>2
  <2> HIDE DEF A
  <2> QED BY <1>2, <2>1, KeptNoneOrAll
<1>7. Kept(r, A) = <<>>
  <2>1. \A i \in 1..Len(r) : r[i] \notin A
    <3> SUFFICES ASSUME NEW i \in 1..Len(r) PROVE r[i] \notin A
      OBVIOUS
    <3>1. r[i] = text[m + i] /\ m + i \in 1..Len(text) /\ m + i > m
      BY <1>1, <1>3
    <3>2. text[m + i] = Pad
      BY <3>1 DEF Shaped
    <3> QED BY <3>1, <3>2, CharsApart
  <2> HIDE DEF A
  <2> QED BY <1>3, <2>1, KeptNoneOrAll
<1>8. Cat(p, <<>>) = p
  BY <1>2, ConcatEmptySeq DEF Cat
<1>9. Body(text) = p
  BY <1>5, <1>6, <1>7, <1>8 DEF Body
<1>10. \A i \in 1..m : p[i] = text[i]
  <2>1. \A i \in 1..m : 0 + i = i
    BY <1>1
  <2> QED BY <1>2, <2>1
<1> QED BY <1>2, <1>9, <1>10

(* The texts of the standard have such a shape.                            *)
LEMMA WellFormedShaped ==
  ASSUME NEW text \in Seq(TextChars), NEW n \in Nat, Len(text) = 4 * n, WellFormed(text)
  PROVE  Shaped(text, n, Len(Body(text)))
<1> DEFINE A == Sextet \cup {Invalid}
           b == Kept(text, A)
           m == Len(b)
           l == Len(text)
<1>1. b \in Seq(TextChars) /\ Body(text) = b /\ m = Len(b)
  BY KeptType DEF Body
<1>2. m \in Nat /\ l \in Nat
  BY <1>1, LenProperties
<1>3. l - m <= 2 /\ \A i \in 1..l : text[i] # Invalid /\ (text[i] = Pad => i > m)
  BY <1>1 DEF WellFormed
<1>4. \A i \in 1..l : i <= m => text[i] \in Sextet
  <2> SUFFICES ASSUME NEW i \in 1..l, i <= m PROVE text[i] \in Sextet
    OBVIOUS
  <2>1. text[i] \in TextChars
    BY ElementOfSeq
  <2>2. ~(i > m)
    BY <1>2
  <2> QED BY <1>3, <2>1, <2>2 DEF TextChars
<1>5. m <= l
  <2> SUFFICES ASSUME m > l PROVE FALSE
    BY <1>2
  <2>1. \A i \in 1..l : text[i] \in A
    <3>1. \A i \in 1..l : i <= m
      BY <1>2
    <3> QED BY <1>4, <3>1
  <2>2. b = text
    <3> HIDE DEF A
    <3> QED BY <2>1, KeptNoneOrAll
  <2> QED BY <1>2, <2>2
<1> HIDE DEF b, m
<1> DEFINE p == Part(text, 0, m)
           r == From(text, m)
           k == Kept(r, A)
<1>6. p \in Seq(TextChars) /\ Len(p) = m /\ \A i \in 1..m : p[i] = text[0 + i]
  <2>1. 0 \in Nat /\ 0 + m <= Len(text)
    BY <1>2, <1>5
  <2> QED BY <1>2, <2>1, PartType
<1>7. r \in Seq(TextChars) /\ Len(r) = l - m /\ \A i \in 1..Len(r) : r[i] = text[m + i]
  <2>1. m \in 0..Len(text)
    BY <1>2, <1>5
  <2>2. r \in Seq(TextChars) /\ Len(r) = l - m /\ \A i \in 1..(l - m) : r[i] = text[m + i]
    BY <2>1, FromType
  <2> HIDE DEF r
  <2> QED BY <2>2
<1>8. text = Cat(p, r)
  <2>1. m \in 0..Len(text)
    BY <1>2, <1>5
  <2> QED BY <1>2, <2>1, CutApart DEF Cat
<1> HIDE DEF p, r
<1>9. b = Cat(Kept(p, A), k)
  <2> HIDE DEF A
  <2> QED BY <1>6, <1>7, <1>8, KeptCat DEF b
<1>10. Kept(p, A) = p
  <2>1. \A i \in 1..Len(p) : p[i] \in A
    <3> SUFFICES ASSUME NEW i \in 1..m PROVE p[i] \in A
      BY <1>6
    <3>1. p[i] = text[i] /\ i \in 1..l /\ i <= m
      <4>1. 0 + i = i
        BY <1>2
      <4> QED BY <1>2, <1>5, <1>6, <4>1
    <3> QED BY <1>4, <3>1
  <2> HIDE DEF A
  <2> QED BY <1>6, <2>1, KeptNoneOrAll
<1>11. k \in Seq(TextChars) /\ Len(k) \in Nat
  BY <1>7, KeptType, LenProperties
<1>12. Len(k) = 0
  <2> HIDE DEF k, A
  <2>1. m = Len(p) + Len(k)
    BY <1>1, <1>6, <1>9, <1>10, <1>11, ConcatProperties DEF Cat
  <2> QED BY <1>2, <1>6, <1>11, <2>1
<1>13. \A i \in 1..Len(r) : r[i] \notin A
  <2> DEFINE P == {i \in 1..Len(r) : r[i] \in A}
  <2>1. \E at \in Bijection(1..Len(k), P) : \A j \in 1..Len(k) : k[j] = r[at[j]]
    <3> HIDE DEF A
    <3> QED BY ONLY <1>7, KeptPlaces, SMTT(30) DEF k, P
  <2>2. PICK at \in Bijection(1..Len(k), P) : \A j \in 1..Len(k) : k[j] = r[at[j]]
    BY <2>1
  <2>3. \A j \in P : \E i \in 1..Len(k) : at[i] = j
    <3> HIDE DEF P, k
    <3> QED BY <2>2 DEF Bijection, Surjection
  <2>4. 1..Len(k) = {}
    BY <1>12
  <2>5. P = {}
    BY <2>3, <2>4
  <2> QED BY <2>5
<1>14. \A i \in 1..l : i > m => text[i] = Pad
  <2> SUFFICES ASSUME NEW i \in 1..l, i > m PROVE text[i] = Pad
    OBVIOUS
  <2>1. i - m \in 1..Len(r) /\ m + (i - m) = i
    BY <1>2, <1>5, <1>7
  <2>2. text[i] \notin A
    BY <1>7, <1>13, <2>1
  <2>3. text[i] \in TextChars
    BY ElementOfSeq
  <2> QED BY <2>2, <2>3 DEF TextChars
<1>15. \A i \in 1..m : text[i] \in Sextet
  BY <1>2, <1>4, <1>5
<1>16. m <= 4 * n /\ 4 * n <= m + 2
  BY <1>2, <1>3, <1>5
<1> QED BY <1>1, <1>2, <1>14, <1>15, <1>16 DEF Shaped

(* And the texts of such a shape are of the standard.                      *)
LEMMA ShapedWellFormed ==
  ASSUME NEW text, NEW n, NEW m, Shaped(text, n, m)
  PROVE  WellFormed(text)
<1>1. Len(Body(text)) = m
  BY BodyOfShaped
<1>2. text \in Seq(TextChars) /\ m \in Nat /\ n \in Nat /\ Len(text) = 4 * n
  BY DEF Shaped
<1>3. (4 * n) % 4 = 0
  BY <1>2
<1>4. \A i \in 1..Len(text) : (i <= m /\ text[i] \in Sextet) \/ (i > m /\ text[i] = Pad)
  BY <1>2 DEF Shaped
<1>5. \A i \in 1..Len(text) : text[i] # Invalid /\ (text[i] = Pad => i > m)
  BY <1>4, CharsApart
<1>6. Len(text) - m <= 2
  BY <1>2 DEF Shaped
<1> QED BY <1>1, <1>2, <1>3, <1>5, <1>6 DEF WellFormed

(* Four characters that stand for octets.                                  *)
Quartet(a, b, c, d, isLast) ==
  /\ a \in Sextet /\ b \in Sextet
  /\ \/ c \in Sextet /\ d \in Sextet
     \/ isLast /\ c \in Sextet /\ d = Pad
     \/ isLast /\ c = Pad /\ d = Pad

(* What a quartet is decoded to.                                           *)
LEMMA ChunkGives ==
  ASSUME NEW a \in TextChars, NEW b \in TextChars, NEW c \in TextChars, NEW d \in TextChars,
         NEW isLast \in BOOLEAN
  PROVE  /\ ~Quartet(a, b, c, d, isLast) => DecodeChunk(a, b, c, d, isLast) = {}
         /\ Quartet(a, b, c, d, isLast) =>
              \E o : /\ DecodeChunk(a, b, c, d, isLast) = {o}
                     /\ Len(o) = IF d # Pad THEN 3 ELSE IF c # Pad THEN 2 ELSE 1
                     /\ o[1] = Joined(a, b, 4, 16)
                     /\ c # Pad => o[2] = Joined(b, c, 16, 4)
                     /\ d # Pad => o[3] = Joined(c, d, 64, 1)
<1> DEFINE D == DecodeChunk(a, b, c, d, isLast)
           o1 == Joined(a, b, 4, 16)
           o2 == Joined(b, c, 16, 4)
           o3 == Joined(c, d, 64, 1)
<1>1. /\ {a, b} \cap {Pad, Invalid} # {} => D = {}
      /\ {a, b} \cap {Pad, Invalid} = {} =>
           /\ c = Pad /\ d = Pad => D = IF isLast THEN {<<o1>>} ELSE {}
           /\ c = Pad /\ d # Pad => D = {}
           /\ c # Pad /\ d = Pad => D = IF isLast /\ c # Invalid THEN {<<o1, o2>>} ELSE {}
           /\ c # Pad /\ d # Pad => D = IF Invalid \notin {c, d} THEN {<<o1, o2, o3>>} ELSE {}
  BY DEF DecodeChunk, MayPad
<1>2. \A x \in TextChars : x \in Sextet <=> x # Pad /\ x # Invalid
  BY CharsApart DEF TextChars
<1>3. {a, b} \cap {Pad, Invalid} = {} <=> a \in Sextet /\ b \in Sextet
  BY <1>2
<1> HIDE DEF D, o1, o2, o3
<1>4. /\ Len(<<o1>>) = 1 /\ <<o1>>[1] = o1
      /\ Len(<<o1, o2>>) = 2 /\ <<o1, o2>>[1] = o1 /\ <<o1, o2>>[2] = o2
      /\ Len(<<o1, o2, o3>>) = 3 /\ <<o1, o2, o3>>[1] = o1 /\ <<o1, o2, o3>>[2] = o2
      /\ <<o1, o2, o3>>[3] = o3
  OBVIOUS
<1>5. ASSUME ~Quartet(a, b, c, d, isLast) PROVE D = {}
  <2>1. CASE ~(a \in Sextet /\ b \in Sextet)
    BY <1>1, <1>3, <2>1
  <2>2. CASE a \in Sextet /\ b \in Sextet
    <3>1. /\ ~(c \in Sextet /\ d \in Sextet)
          /\ ~(isLast /\ c \in Sextet /\ d = Pad)
          /\ ~(isLast /\ c = Pad /\ d = Pad)
      BY <1>5, <2>2 DEF Quartet
    <3> QED BY <1>1, <1>2, <1>3, <2>2, <3>1
  <2> QED BY <2>1, <2>2
<1>6. ASSUME Quartet(a, b, c, d, isLast)
      PROVE  \E o : /\ D = {o}
                    /\ Len(o) = IF d # Pad THEN 3 ELSE IF c # Pad THEN 2 ELSE 1
                    /\ o[1] = o1 /\ (c # Pad => o[2] = o2) /\ (d # Pad => o[3] = o3)
  <2>1. {a, b} \cap {Pad, Invalid} = {}
    BY <1>3, <1>6 DEF Quartet
  <2> DEFINE one == <<o1>>
             two == <<o1, o2>>
             all == <<o1, o2, o3>>
  <2>2. CASE c \in Sextet /\ d \in Sextet
    <3>1. D = {all} /\ c # Pad /\ d # Pad
      BY <1>1, <1>2, <2>1, <2>2
    <3>2. Len(all) = 3 /\ all[1] = o1 /\ all[2] = o2 /\ all[3] = o3
      BY <1>4
    <3> HIDE DEF all
    <3> QED BY <3>1, <3>2
  <2>3. CASE isLast /\ c \in Sextet /\ d = Pad
    <3>1. D = {two} /\ c # Pad /\ d = Pad
      BY <1>1, <1>2, <2>1, <2>3
    <3>2. Len(two) = 2 /\ two[1] = o1 /\ two[2] = o2
      BY <1>4
    <3> HIDE DEF two
    <3> QED BY <3>1, <3>2
  <2>4. CASE isLast /\ c = Pad /\ d = Pad
    <3>1. D = {one} /\ c = Pad /\ d = Pad
      BY <1>1, <2>1, <2>4
    <3>2. Len(one) = 1 /\ one[1] = o1
      BY <1>4
    <3> HIDE DEF one
    <3> QED BY <3>1, <3>2
  <2> QED BY <1>6, <2>2, <2>3, <2>4 DEF Quartet
<1> QED BY <1>5, <1>6 DEF D, o1, o2, o3

(* The quartet at a place of a text.                                       *)
QuartetAt(text, n, i) ==
  Quartet(text[4*i - 3], text[4*i - 2], text[4*i - 1], text[4*i], i = n)

(* What the chunks of a text are decoded to,                               *)
ChunksOf(text, n) ==
  [i \in 1..n |->
     DecodeChunk(text[4*i - 3], text[4*i - 2], text[4*i - 1], text[4*i], i = n)]

(* the octets of each,                                                     *)
OctetsOf(text, n) == [i \in 1..n |-> CHOOSE data \in ChunksOf(text, n)[i] : TRUE]

(* and how many octets these are.                                          *)
SizeOf(text, n) == IF n = 0 THEN 0 ELSE 3 * (n - 1) + Len(OctetsOf(text, n)[n])

(* decode_base64 in terms of these.                                        *)
LEMMA DecodeIs ==
  ASSUME NEW text
  PROVE  LET n == Len(text) \div 4
         IN  DecodeBase64(text) =
               IF Len(text) % 4 # 0 \/ \E i \in 1..n : ChunksOf(text, n)[i] = {} THEN {}
               ELSE {[j \in 1..SizeOf(text, n) |->
                        OctetsOf(text, n)[ChunkOf(j, 3)][PlaceOf(j, 3)]]}
BY Zenon DEF DecodeBase64, ChunksOf, OctetsOf, SizeOf

(* The characters of a quartet.                                            *)
LEMMA QuartetPlaces ==
  ASSUME NEW text \in Seq(TextChars), NEW n \in Nat, Len(text) = 4 * n, NEW i \in 1..n
  PROVE  /\ 4*i - 3 \in 1..Len(text) /\ 4*i - 2 \in 1..Len(text)
         /\ 4*i - 1 \in 1..Len(text) /\ 4*i \in 1..Len(text)
         /\ text[4*i - 3] \in TextChars /\ text[4*i - 2] \in TextChars
         /\ text[4*i - 1] \in TextChars /\ text[4*i] \in TextChars
<1>1. /\ 4*i - 3 \in 1..Len(text) /\ 4*i - 2 \in 1..Len(text)
      /\ 4*i - 1 \in 1..Len(text) /\ 4*i \in 1..Len(text)
  OBVIOUS
<1>2. \A k \in 1..Len(text) : text[k] \in TextChars
  BY ElementOfSeq
<1> HIDE DEF TextChars
<1> QED BY <1>1, <1>2

(* Quartets all over, or a shape.                                          *)
LEMMA QuartetsOfShaped ==
  ASSUME NEW text, NEW n, NEW m, Shaped(text, n, m), NEW i \in 1..n
  PROVE  /\ QuartetAt(text, n, i)
         /\ text[4*i - 1] # Pad <=> 4*i - 1 <= m
         /\ text[4*i] # Pad <=> 4*i <= m
<1>1. /\ text \in Seq(TextChars) /\ n \in Nat /\ m \in Nat /\ Len(text) = 4 * n
      /\ m <= 4 * n /\ 4 * n <= m + 2
      /\ \A k \in 1..m : text[k] \in Sextet
      /\ \A k \in 1..Len(text) : k > m => text[k] = Pad
  BY DEF Shaped
<1>2. /\ 4*i - 3 \in 1..Len(text) /\ 4*i - 2 \in 1..Len(text)
      /\ 4*i - 1 \in 1..Len(text) /\ 4*i \in 1..Len(text)
  BY <1>1, QuartetPlaces
<1> DEFINE p == 4*i - 3
           q == 4*i - 2
           r == 4*i - 1
           s == 4*i
<1>3. i < n => s <= m
  BY <1>1
<1>4. p \in 1..m /\ q \in 1..m
  BY <1>1
<1>5. s <= m => r <= m
  BY <1>1
<1>6. r \in Nat /\ s \in Nat /\ m \in Nat /\ r >= 1 /\ s >= 1
  BY <1>1
<1> HIDE DEF p, q, r, s
<1>7. /\ \A k \in {r, s} : k <= m => text[k] \in Sextet
      /\ \A k \in {r, s} : ~(k <= m) => text[k] = Pad
  <2>1. r \in 1..Len(text) /\ s \in 1..Len(text)
    BY <1>2 DEF r, s
  <2>2. \A k \in {r, s} : k <= m => k \in 1..m
    BY <1>6
  <2>3. \A k \in {r, s} : ~(k <= m) => k > m
    BY <1>6
  <2> QED BY <1>1, <2>1, <2>2, <2>3
<1>8. text[p] \in Sextet /\ text[q] \in Sextet
  BY <1>1, <1>4
<1>9. i = n \/ s <= m
  BY <1>1, <1>3
<1>10. Quartet(text[p], text[q], text[r], text[s], i = n)
  BY <1>5, <1>7, <1>8, <1>9 DEF Quartet
<1>11. (text[r] # Pad <=> r <= m) /\ (text[s] # Pad <=> s <= m)
  BY <1>7, CharsApart
<1> QED BY <1>10, <1>11 DEF QuartetAt, p, q, r, s

(* And with quartets all over it has that shape.                           *)
LEMMA ShapedOfQuartets ==
  ASSUME NEW text \in Seq(TextChars), NEW n \in Nat, Len(text) = 4 * n,
         \A i \in 1..n : QuartetAt(text, n, i)
  PROVE  \E m \in Nat : Shaped(text, n, m)
<1> DEFINE m == IF n = 0 \/ text[4 * n] # Pad THEN 4 * n
                ELSE IF text[4 * n - 1] # Pad THEN 4 * n - 1 ELSE 4 * n - 2
<1>1. m \in Nat /\ m <= 4 * n /\ 4 * n <= m + 2
  OBVIOUS
<1>2. ASSUME NEW k \in 1..Len(text)
      PROVE  (k <= m /\ text[k] \in Sextet) \/ (k > m /\ text[k] = Pad)
  <2> DEFINE i == ((k - 1) \div 4) + 1
  <2>1. i \in 1..n /\ k \in {4*i - 3, 4*i - 2, 4*i - 1, 4*i} /\ i \in Nat
    OBVIOUS
  <2> HIDE DEF i
  <2>2. QuartetAt(text, n, i)
    BY <2>1
  <2> DEFINE a == text[4*i - 3]
             b == text[4*i - 2]
             c == text[4*i - 1]
             d == text[4*i]
  <2>3. /\ a \in Sextet /\ b \in Sextet
        /\ \/ c \in Sextet /\ d \in Sextet
           \/ i = n /\ c \in Sextet /\ d = Pad
           \/ i = n /\ c = Pad /\ d = Pad
    BY <2>2 DEF QuartetAt, Quartet
  <2>4. /\ text[k] \in {a, b, c, d}
        /\ k = 4*i - 3 => text[k] = a
        /\ k = 4*i - 2 => text[k] = b
        /\ k = 4*i - 1 => text[k] = c
        /\ k = 4*i => text[k] = d
    BY <2>1
  <2>5. CASE i # n
    <3>1. 4*i <= 4*n - 4
      BY <2>1, <2>5
    <3>2. k <= m
      BY <1>1, <2>1, <3>1
    <3> HIDE DEF a, b, c, d, m
    <3> QED BY <2>1, <2>3, <2>4, <2>5, <3>2
  <2>6. CASE i = n
    <3>1. m = IF d # Pad THEN 4*i ELSE IF c # Pad THEN 4*i - 1 ELSE 4*i - 2
      BY <2>1, <2>6
    <3>2. Pad \notin Sextet
      BY CharsApart
    <3> HIDE DEF a, b, c, d, m
    <3>3. CASE c \in Sextet /\ d \in Sextet
      <4>1. m = 4*i
        BY <3>1, <3>2, <3>3
      <4> QED BY <2>1, <2>3, <2>4, <3>3, <4>1
    <3>4. CASE c \in Sextet /\ d = Pad
      <4>1. m = 4*i - 1
        BY <3>1, <3>2, <3>4
      <4> QED BY <2>1, <2>3, <2>4, <3>4, <4>1
    <3>5. CASE c = Pad /\ d = Pad
      <4>1. m = 4*i - 2
        BY <3>1, <3>5
      <4> QED BY <2>1, <2>3, <2>4, <3>5, <4>1
    <3> QED BY <2>3, <3>3, <3>4, <3>5
  <2> QED BY <2>5, <2>6
<1> HIDE DEF m
<1>3. \A k \in 1..m : text[k] \in Sextet
  <2> SUFFICES ASSUME NEW k \in 1..m PROVE text[k] \in Sextet
    OBVIOUS
  <2>1. k \in 1..Len(text) /\ ~(k > m)
    BY <1>1
  <2> QED BY <1>2, <2>1
<1>4. \A k \in 1..Len(text) : k > m => text[k] = Pad
  <2> SUFFICES ASSUME NEW k \in 1..Len(text), k > m PROVE text[k] = Pad
    OBVIOUS
  <2>1. ~(k <= m)
    BY <1>1
  <2> QED BY <1>2, <2>1
<1> QED BY <1>1, <1>3, <1>4 DEF Shaped

(* Two neighbouring characters give an octet.                              *)
LEMMA JoinedOctet ==
  ASSUME NEW a \in Sextet, NEW b \in Sextet
  PROVE  /\ Joined(a, b, 4, 16) = 4 * a + b \div 16 /\ Joined(a, b, 4, 16) \in Octet
         /\ Joined(a, b, 16, 4) = 16 * (a % 16) + b \div 4 /\ Joined(a, b, 16, 4) \in Octet
         /\ Joined(a, b, 64, 1) = 64 * (a % 4) + b /\ Joined(a, b, 64, 1) \in Octet
<1>0. a \in 0..63 /\ b \in 0..63
  BY DEF Sextet
<1>1. (a * 4) % 256 = 4 * a /\ b \div 16 \in 0..3
  BY <1>0
<1>2. (a * 16) % 256 = 16 * (a % 16) /\ b \div 4 \in 0..15 /\ a % 16 \in 0..15
  BY <1>0
<1>3. (a * 64) % 256 = 64 * (a % 4) /\ b \div 1 = b /\ a % 4 \in 0..3
  BY <1>0
<1>4. Joined(a, b, 4, 16) = 4 * a + b \div 16
  BY <1>1 DEF Joined
<1>5. Joined(a, b, 16, 4) = 16 * (a % 16) + b \div 4
  BY <1>2 DEF Joined
<1>6. Joined(a, b, 64, 1) = 64 * (a % 4) + b
  BY <1>3 DEF Joined
<1>7. 4 * a + b \div 16 \in 0..255
  <2> DEFINE q == b \div 16
  <2>1. q \in 0..3
    BY <1>1
  <2> HIDE DEF q
  <2>2. 4 * a + q \in 0..255
    BY <1>0, <2>1
  <2> QED BY <2>2 DEF q
<1>8. 16 * (a % 16) + b \div 4 \in 0..255
  <2> DEFINE p == a % 16
             q == b \div 4
  <2>1. p \in 0..15 /\ q \in 0..15
    BY <1>2
  <2> HIDE DEF p, q
  <2>2. 16 * p + q \in 0..255
    BY <2>1
  <2> QED BY <2>2 DEF p, q
<1>9. 64 * (a % 4) + b \in 0..255
  <2> DEFINE p == a % 4
  <2>1. p \in 0..3
    BY <1>3
  <2> HIDE DEF p
  <2>2. 64 * p + b \in 0..255
    BY <1>0, <2>1
  <2> QED BY <2>2 DEF p
<1> QED BY <1>4, <1>5, <1>6, <1>7, <1>8, <1>9 DEF Octet

(* The data a text of that shape stands for.                               *)
StandsFor(text, n, m, data) ==
  /\ data \in Seq(Octet) /\ Len(data) = m - n
  /\ \A i \in 1..n :
       /\ data[3*i - 2] = Joined(text[4*i - 3], text[4*i - 2], 4, 16)
       /\ 4*i - 1 <= m => data[3*i - 1] = Joined(text[4*i - 2], text[4*i - 1], 16, 4)
       /\ 4*i <= m => data[3*i] = Joined(text[4*i - 1], text[4*i], 64, 1)

(* What the chunk at a place gives.                                        *)
LEMMA OctetsGive ==
  ASSUME NEW text, NEW n, NEW m, Shaped(text, n, m), NEW i \in 1..n
  PROVE  /\ ChunksOf(text, n)[i] # {}
         /\ Len(OctetsOf(text, n)[i]) = IF 4*i <= m THEN 3 ELSE IF 4*i - 1 <= m THEN 2 ELSE 1
         /\ OctetsOf(text, n)[i][1] = Joined(text[4*i - 3], text[4*i - 2], 4, 16)
         /\ 4*i - 1 <= m => OctetsOf(text, n)[i][2] = Joined(text[4*i - 2], text[4*i - 1], 16, 4)
         /\ 4*i <= m => OctetsOf(text, n)[i][3] = Joined(text[4*i - 1], text[4*i], 64, 1)
<1> DEFINE a == text[4*i - 3]
           b == text[4*i - 2]
           c == text[4*i - 1]
           d == text[4*i]
           last == i = n
           C == DecodeChunk(a, b, c, d, last)
           o == OctetsOf(text, n)[i]
<1>1. text \in Seq(TextChars) /\ n \in Nat /\ Len(text) = 4 * n
  BY DEF Shaped
<1>2. a \in TextChars /\ b \in TextChars /\ c \in TextChars /\ d \in TextChars
  BY <1>1, QuartetPlaces
<1>3. Quartet(a, b, c, d, last)
  BY QuartetsOfShaped DEF QuartetAt
<1>4. (c # Pad <=> 4*i - 1 <= m) /\ (d # Pad <=> 4*i <= m)
  BY QuartetsOfShaped
<1>5. ChunksOf(text, n)[i] = C /\ o = CHOOSE data \in C : TRUE
  BY DEF ChunksOf, OctetsOf
<1>6. last \in BOOLEAN
  OBVIOUS
<1> HIDE DEF a, b, c, d, last, C, o
<1>7. PICK x : /\ C = {x}
               /\ Len(x) = IF d # Pad THEN 3 ELSE IF c # Pad THEN 2 ELSE 1
               /\ x[1] = Joined(a, b, 4, 16)
               /\ c # Pad => x[2] = Joined(b, c, 16, 4)
               /\ d # Pad => x[3] = Joined(c, d, 64, 1)
  BY <1>2, <1>3, <1>6, ChunkGives DEF C
<1>8. o = x /\ C # {}
  BY <1>5, <1>7
<1> QED BY <1>4, <1>5, <1>7, <1>8 DEF a, b, c, d, o

(* Such a text is decoded, to what it stands for.                          *)
LEMMA ShapedDecodes ==
  ASSUME NEW text, NEW n, NEW m, Shaped(text, n, m)
  PROVE  \E data : DecodeBase64(text) = {data} /\ StandsFor(text, n, m, data)
<1> DEFINE O == OctetsOf(text, n)
           size == SizeOf(text, n)
           D == [j \in 1..size |-> O[ChunkOf(j, 3)][PlaceOf(j, 3)]]
<1>1. /\ text \in Seq(TextChars) /\ n \in Nat /\ m \in Nat /\ Len(text) = 4 * n
      /\ m <= 4 * n /\ 4 * n <= m + 2 /\ \A k \in 1..m : text[k] \in Sextet
  BY DEF Shaped
<1>2. (4 * n) % 4 = 0 /\ (4 * n) \div 4 = n
  BY <1>1
<1>3. \A i \in 1..n : ChunksOf(text, n)[i] # {}
  BY OctetsGive
<1>4. DecodeBase64(text) = {D}
  <2> DEFINE k == Len(text) \div 4
             E == [j \in 1..SizeOf(text, k) |-> OctetsOf(text, k)[ChunkOf(j, 3)][PlaceOf(j, 3)]]
  <2>1. DecodeBase64(text) =
          IF Len(text) % 4 # 0 \/ \E i \in 1..k : ChunksOf(text, k)[i] = {} THEN {} ELSE {E}
    BY DecodeIs
  <2>2. k = n /\ Len(text) % 4 = 0
    BY <1>1, <1>2
  <2>3. E = D
    BY <2>2
  <2> HIDE DEF E, D, k
  <2> QED BY <1>3, <2>1, <2>2, <2>3
<1>5. size = m - n
  <2>1. CASE n = 0
    <3>1. size = 0
      BY <2>1 DEF SizeOf
    <3> QED BY <1>1, <2>1, <3>1
  <2>2. CASE n # 0
    <3> DEFINE l == Len(O[n])
    <3>1. size = 3 * (n - 1) + l
      BY <2>2 DEF SizeOf
    <3>2. l = IF 4*n <= m THEN 3 ELSE IF 4*n - 1 <= m THEN 2 ELSE 1
      <4>1. n \in 1..n
        BY <1>1, <2>2
      <4> QED BY <4>1, OctetsGive
    <3> HIDE DEF l, size
    <3> QED BY <1>1, <2>2, <3>1, <3>2
  <2> QED BY <2>1, <2>2
<1>6. \A i \in 1..n :
        /\ O[i][1] = Joined(text[4*i - 3], text[4*i - 2], 4, 16)
        /\ 4*i - 1 <= m => O[i][2] = Joined(text[4*i - 2], text[4*i - 1], 16, 4)
        /\ 4*i <= m => O[i][3] = Joined(text[4*i - 1], text[4*i], 64, 1)
  BY OctetsGive
<1> HIDE DEF O, size
<1>7. \A j \in 1..(m - n) : D[j] = O[ChunkOf(j, 3)][PlaceOf(j, 3)]
  BY <1>5
<1> HIDE DEF D
<1>8. ASSUME NEW i \in 1..n
      PROVE  /\ D[3*i - 2] = Joined(text[4*i - 3], text[4*i - 2], 4, 16)
             /\ 4*i - 1 <= m => D[3*i - 1] = Joined(text[4*i - 2], text[4*i - 1], 16, 4)
             /\ 4*i <= m => D[3*i] = Joined(text[4*i - 1], text[4*i], 64, 1)
  <2>1. /\ 3*i - 2 \in 1..(m - n)
        /\ 4*i - 1 <= m => 3*i - 1 \in 1..(m - n)
        /\ 4*i <= m => 3*i \in 1..(m - n)
    BY <1>1
  <2>2. /\ ChunkOf(3*i - 2, 3) = i /\ PlaceOf(3*i - 2, 3) = 1
        /\ ChunkOf(3*i - 1, 3) = i /\ PlaceOf(3*i - 1, 3) = 2
        /\ ChunkOf(3*i, 3) = i /\ PlaceOf(3*i, 3) = 3
    BY <1>1 DEF ChunkOf, PlaceOf
  <2> QED BY <1>6, <1>7, <2>1, <2>2
<1>9. \A j \in 1..(m - n) : D[j] \in Octet
  <2> SUFFICES ASSUME NEW j \in 1..(m - n) PROVE D[j] \in Octet
    OBVIOUS
  <2> DEFINE i == ((j - 1) \div 3) + 1
  <2>1. i \in 1..n /\ j \in {3*i - 2, 3*i - 1, 3*i}
    BY <1>1
  <2> HIDE DEF i
  <2>2. CASE j = 3*i - 2
    <3>1. 4*i - 3 \in 1..m /\ 4*i - 2 \in 1..m
      BY <1>1, <2>1
    <3>2. text[4*i - 3] \in Sextet /\ text[4*i - 2] \in Sextet
      BY <1>1, <3>1
    <3> QED BY <1>8, <2>1, <2>2, <3>2, JoinedOctet
  <2>3. CASE j = 3*i - 1
    <3>1. 4*i - 1 <= m /\ 4*i - 2 \in 1..m /\ 4*i - 1 \in 1..m
      BY <1>1, <2>1, <2>3
    <3>2. text[4*i - 2] \in Sextet /\ text[4*i - 1] \in Sextet
      BY <1>1, <3>1
    <3> QED BY <1>8, <2>1, <2>3, <3>1, <3>2, JoinedOctet
  <2>4. CASE j = 3*i
    <3>1. 4*i <= m /\ 4*i - 1 \in 1..m /\ 4*i \in 1..m
      BY <1>1, <2>1, <2>4
    <3>2. text[4*i - 1] \in Sextet /\ text[4*i] \in Sextet
      BY <1>1, <3>1
    <3> QED BY <1>8, <2>1, <2>4, <3>1, <3>2, JoinedOctet
  <2> QED BY <2>1, <2>2, <2>3, <2>4
<1>10. m - n \in Nat
  BY <1>1
<1>11. D \in Seq(Octet) /\ Len(D) = m - n
  <2> DEFINE k == m - n
  <2>1. D = [j \in 1..k |-> D[j]]
    BY <1>5 DEF D
  <2> HIDE DEF k
  <2>2. D \in [1..k -> Octet]
    BY <1>9, <2>1 DEF k
  <2>3. k \in Nat
    BY <1>10 DEF k
  <2>4. D \in Seq(Octet) /\ Len(D) = k
    BY <2>2, <2>3
  <2> QED BY <2>4 DEF k
<1>12. StandsFor(text, n, m, D)
  BY <1>8, <1>11 DEF StandsFor
<1> QED BY <1>4, <1>12

(* Quotient and rest, for the divisors of encode_base64.                   *)
LEMMA Divided ==
  ASSUME NEW p \in Nat, NEW r \in Nat
  PROVE  /\ r < 64 => (64 * p + r) \div 64 = p /\ (64 * p + r) % 64 = r
         /\ r < 4096 => (4096 * p + r) \div 4096 = p
         /\ r < 262144 => (262144 * p + r) \div 262144 = p
OBVIOUS

(* The four characters of three octets.                                    *)
LEMMA WordSplit ==
  ASSUME NEW x \in Octet, NEW y \in Octet, NEW z \in Octet
  PROVE  LET word == x * 65536 + y * 256 + z
         IN  /\ word \div 262144 = x \div 4
             /\ (word \div 4096) % 64 = 16 * (x % 4) + y \div 16
             /\ (word \div 64) % 64 = 4 * (y % 16) + z \div 64
             /\ word % 64 = z % 64
<1> DEFINE word == x * 65536 + y * 256 + z
           a == x \div 4
           b == x % 4
           c == y \div 16
           d == y % 16
           e == z \div 64
           f == z % 64
<1>1. x = 4 * a + b /\ a \in 0..63 /\ b \in 0..3
  BY DEF Octet
<1>2. y = 16 * c + d /\ c \in 0..15 /\ d \in 0..15
  BY DEF Octet
<1>3. z = 64 * e + f /\ e \in 0..3 /\ f \in 0..63
  BY DEF Octet
<1> HIDE DEF a, b, c, d, e, f
<1>4. word \div 262144 = a
  <2> DEFINE r == 65536 * b + 256 * y + z
  <2>1. r \in Nat /\ r < 262144 /\ a \in Nat
    BY <1>1 DEF Octet
  <2>2. word = 262144 * a + r
    BY <1>1 DEF Octet
  <2> HIDE DEF r, word
  <2> QED BY <2>1, <2>2, Divided
<1>5. word \div 4096 = 64 * a + (16 * b + c)
  <2> DEFINE r == 256 * d + z
             p == 64 * a + (16 * b + c)
  <2>1. r \in Nat /\ r < 4096 /\ p \in Nat
    BY <1>1, <1>2 DEF Octet
  <2>2. word = 4096 * p + r
    BY <1>1, <1>2 DEF Octet
  <2> HIDE DEF r, word, p
  <2>3. word \div 4096 = p
    BY <2>1, <2>2, Divided
  <2> QED BY <2>3 DEF p
<1>6. (word \div 4096) % 64 = 16 * b + c
  <2> DEFINE r == 16 * b + c
  <2>1. r \in Nat /\ r < 64 /\ a \in Nat
    BY <1>1, <1>2
  <2> HIDE DEF r, word
  <2> QED BY <1>5, <2>1, Divided DEF r
<1>7. word \div 64 = 64 * (16 * x + c) + (4 * d + e)
  <2> DEFINE p == 64 * (16 * x + c) + (4 * d + e)
  <2>1. f \in Nat /\ f < 64 /\ p \in Nat
    BY <1>2, <1>3 DEF Octet
  <2>2. word = 64 * p + f
    BY <1>2, <1>3 DEF Octet
  <2> HIDE DEF word, p
  <2>3. word \div 64 = p
    BY <2>1, <2>2, Divided
  <2> QED BY <2>3 DEF p
<1>8. (word \div 64) % 64 = 4 * d + e
  <2> DEFINE r == 4 * d + e
             p == 16 * x + c
  <2>1. r \in Nat /\ r < 64 /\ p \in Nat
    BY <1>2, <1>3 DEF Octet
  <2> HIDE DEF r, word, p
  <2>2. word \div 64 = 64 * p + r
    BY <1>7 DEF p, r
  <2> QED BY <2>1, <2>2, Divided DEF r
<1>9. word % 64 = f
  <2> DEFINE p == 1024 * x + 4 * y + e
  <2>1. f \in Nat /\ f < 64 /\ p \in Nat
    BY <1>3 DEF Octet
  <2>2. word = 64 * p + f
    BY <1>3 DEF Octet
  <2> HIDE DEF word, p
  <2> QED BY <2>1, <2>2, Divided
<1> QED BY <1>4, <1>6, <1>8, <1>9 DEF a, b, c, d, e, f

(* Joined again they are the octets.                                       *)
LEMMA JoinedBack ==
  ASSUME NEW x \in Octet, NEW y \in Octet, NEW z \in Octet
  PROVE  LET a == x \div 4
             b == 16 * (x % 4) + y \div 16
             c == 4 * (y % 16) + z \div 64
             d == z % 64
         IN  /\ a \in Sextet /\ b \in Sextet /\ c \in Sextet /\ d \in Sextet
             /\ Joined(a, b, 4, 16) = x
             /\ Joined(b, c, 16, 4) = y
             /\ Joined(c, d, 64, 1) = z
<1> DEFINE x1 == x \div 4
           x0 == x % 4
           y1 == y \div 16
           y0 == y % 16
           z1 == z \div 64
           z0 == z % 64
           b == 16 * x0 + y1
           c == 4 * y0 + z1
<1>1. x = 4 * x1 + x0 /\ x1 \in 0..63 /\ x0 \in 0..3
  BY DEF Octet
<1>2. y = 16 * y1 + y0 /\ y1 \in 0..15 /\ y0 \in 0..15
  BY DEF Octet
<1>3. z = 64 * z1 + z0 /\ z1 \in 0..3 /\ z0 \in 0..63
  BY DEF Octet
<1> HIDE DEF x1, x0, y1, y0, z1, z0
<1>4. b \in Sextet /\ c \in Sextet /\ x1 \in Sextet /\ z0 \in Sextet
  BY <1>1, <1>2, <1>3 DEF Sextet
<1>5. b \div 16 = x0 /\ b % 16 = y1
  BY <1>1, <1>2
<1>6. c \div 4 = y0 /\ c % 4 = z1
  BY <1>2, <1>3
<1> HIDE DEF b, c
<1>7. Joined(x1, b, 4, 16) = x
  BY <1>1, <1>4, <1>5, JoinedOctet
<1>8. Joined(b, c, 16, 4) = y
  BY <1>2, <1>4, <1>5, <1>6, JoinedOctet
<1>9. Joined(c, z0, 64, 1) = z
  BY <1>3, <1>4, <1>6, JoinedOctet
<1> QED BY <1>4, <1>7, <1>8, <1>9 DEF x1, x0, y1, y0, z1, z0, b, c

(* A text stands for one data.                                             *)
LEMMA StandsForOne ==
  ASSUME NEW text, NEW n \in Nat, NEW m \in Nat, m <= 4 * n, 4 * n <= m + 2, NEW d, NEW e,
         StandsFor(text, n, m, d), StandsFor(text, n, m, e)
  PROVE  d = e
<1>1. d \in Seq(Octet) /\ e \in Seq(Octet) /\ Len(d) = m - n /\ Len(e) = m - n
  BY DEF StandsFor
<1>2. ASSUME NEW j \in 1..Len(d) PROVE d[j] = e[j]
  <2> DEFINE i == ((j - 1) \div 3) + 1
  <2>1. i \in 1..n /\ j \in {3*i - 2, 3*i - 1, 3*i}
    BY <1>1
  <2>2. (j = 3*i - 1 => 4*i - 1 <= m) /\ (j = 3*i => 4*i <= m)
    BY <1>1, <2>1
  <2> HIDE DEF i
  <2> QED BY <2>1, <2>2 DEF StandsFor
<1> QED BY <1>1, <1>2, SeqEqual

(* The bits of an octet are those of the characters it is joined from.     *)
LEMMA FirstBits ==
  ASSUME NEW a \in Sextet, NEW b \in Sextet
  PROVE  LET v == Joined(a, b, 4, 16)
         IN  /\ (v \div 128) % 2 = (a \div 32) % 2
             /\ (v \div 64) % 2 = (a \div 16) % 2
             /\ (v \div 32) % 2 = (a \div 8) % 2
             /\ (v \div 16) % 2 = (a \div 4) % 2
             /\ (v \div 8) % 2 = (a \div 2) % 2
             /\ (v \div 4) % 2 = (a \div 1) % 2
             /\ (v \div 2) % 2 = (b \div 32) % 2
             /\ (v \div 1) % 2 = (b \div 16) % 2
<1> DEFINE u == b \div 16
           v == 4 * a + u
<1>1. a \in Nat /\ u \in 0..3 /\ Joined(a, b, 4, 16) = v
  BY JoinedOctet DEF Sextet
<1>2. (u \div 2) % 2 = (b \div 32) % 2 /\ (u \div 1) % 2 = (b \div 16) % 2
  BY DEF Sextet
<1> HIDE DEF u
<1>3. v \div 4 = a /\ v % 4 = u
  BY <1>1
<1>4. v \div 8 = a \div 2 /\ v \div 16 = a \div 4 /\ v \div 32 = a \div 8
  BY <1>1
<1>5. v \div 64 = a \div 16 /\ v \div 128 = a \div 32
  BY <1>1
<1>6. (v \div 2) % 2 = (u \div 2) % 2
  BY <1>1
<1>7. (v \div 1) % 2 = (u \div 1) % 2
  BY <1>1
<1>8. a \div 1 = a
  BY <1>1
<1> HIDE DEF v
<1> QED BY <1>1, <1>2, <1>3, <1>4, <1>5, <1>6, <1>7, <1>8

(* And so for the second octet of a quartet                                *)
LEMMA SecondBits ==
  ASSUME NEW a \in Sextet, NEW b \in Sextet
  PROVE  LET v == Joined(a, b, 16, 4)
         IN  /\ (v \div 128) % 2 = (a \div 8) % 2
             /\ (v \div 64) % 2 = (a \div 4) % 2
             /\ (v \div 32) % 2 = (a \div 2) % 2
             /\ (v \div 16) % 2 = (a \div 1) % 2
             /\ (v \div 8) % 2 = (b \div 32) % 2
             /\ (v \div 4) % 2 = (b \div 16) % 2
             /\ (v \div 2) % 2 = (b \div 8) % 2
             /\ (v \div 1) % 2 = (b \div 4) % 2
<1> DEFINE u == b \div 4
           w == a % 16
           v == 16 * w + u
<1>1. w \in 0..15 /\ u \in 0..15 /\ Joined(a, b, 16, 4) = v
  BY JoinedOctet DEF Sextet
<1>2. /\ (u \div 8) % 2 = (b \div 32) % 2 /\ (u \div 4) % 2 = (b \div 16) % 2
      /\ (u \div 2) % 2 = (b \div 8) % 2 /\ (u \div 1) % 2 = (b \div 4) % 2
  BY DEF Sextet
<1>3. /\ (w \div 8) % 2 = (a \div 8) % 2 /\ (w \div 4) % 2 = (a \div 4) % 2
      /\ (w \div 2) % 2 = (a \div 2) % 2 /\ (w \div 1) % 2 = (a \div 1) % 2
  BY DEF Sextet
<1> HIDE DEF u, w
<1>4. v \div 16 = w \div 1 /\ v \div 32 = w \div 2 /\ v \div 64 = w \div 4 /\ v \div 128 = w \div 8
  BY <1>1
<1>5. (v \div 8) % 2 = (u \div 8) % 2 /\ (v \div 4) % 2 = (u \div 4) % 2
  BY <1>1
<1>6. (v \div 2) % 2 = (u \div 2) % 2 /\ (v \div 1) % 2 = (u \div 1) % 2
  BY <1>1
<1> HIDE DEF v
<1> QED BY <1>1, <1>2, <1>3, <1>4, <1>5, <1>6

(* and the third.                                                          *)
LEMMA ThirdBits ==
  ASSUME NEW a \in Sextet, NEW b \in Sextet
  PROVE  LET v == Joined(a, b, 64, 1)
         IN  /\ (v \div 128) % 2 = (a \div 2) % 2
             /\ (v \div 64) % 2 = (a \div 1) % 2
             /\ (v \div 32) % 2 = (b \div 32) % 2
             /\ (v \div 16) % 2 = (b \div 16) % 2
             /\ (v \div 8) % 2 = (b \div 8) % 2
             /\ (v \div 4) % 2 = (b \div 4) % 2
             /\ (v \div 2) % 2 = (b \div 2) % 2
             /\ (v \div 1) % 2 = (b \div 1) % 2
<1> DEFINE w == a % 4
           v == 64 * w + b
<1>1. w \in 0..3 /\ b \in 0..63 /\ Joined(a, b, 64, 1) = v
  BY JoinedOctet DEF Sextet
<1>2. (w \div 2) % 2 = (a \div 2) % 2 /\ (w \div 1) % 2 = (a \div 1) % 2
  BY DEF Sextet
<1> HIDE DEF w
<1>3. v \div 64 = w \div 1 /\ v \div 128 = w \div 2
  BY <1>1
<1>4. (v \div 32) % 2 = (b \div 32) % 2 /\ (v \div 16) % 2 = (b \div 16) % 2
  BY <1>1
<1>5. (v \div 8) % 2 = (b \div 8) % 2 /\ (v \div 4) % 2 = (b \div 4) % 2
  BY <1>1
<1>6. (v \div 2) % 2 = (b \div 2) % 2 /\ (v \div 1) % 2 = (b \div 1) % 2
  BY <1>1
<1> HIDE DEF v
<1> QED BY <1>1, <1>2, <1>3, <1>4, <1>5, <1>6

(* The bits of the data are those of the body of the text, in their order. *)
LEMMA SameBits ==
  ASSUME NEW text, NEW n, NEW m, Shaped(text, n, m),
         NEW data, StandsFor(text, n, m, data),
         NEW body, \A k \in 1..m : body[k] = text[k],
         NEW i \in 0..(8 * Len(data) - 1)
  PROVE  DataBit(data, i) = TextBit(body, i)
<1> DEFINE k == (i \div 24) + 1
           t == i % 24
<1>1. /\ n \in Nat /\ m \in Nat /\ m <= 4 * n /\ 4 * n <= m + 2
      /\ \A j \in 1..m : text[j] \in Sextet /\ body[j] = text[j]
  BY DEF Shaped
<1>2. i \in 0..(8 * (m - n) - 1)
  BY DEF StandsFor
<1>3. i = 24 * (k - 1) + t /\ t \in 0..23 /\ k \in 1..n
  BY <1>1, <1>2
<1>4. /\ 4*k - 3 \in 1..m /\ 4*k - 2 \in 1..m
      /\ t >= 8 => 4*k - 1 <= m /\ 4*k - 1 \in 1..m
      /\ t >= 16 => 4*k <= m /\ 4*k \in 1..m
  BY <1>1, <1>2, <1>3
<1> HIDE DEF k, t
<1>5. /\ data[3*k - 2] = Joined(text[4*k - 3], text[4*k - 2], 4, 16)
      /\ 4*k - 1 <= m => data[3*k - 1] = Joined(text[4*k - 2], text[4*k - 1], 16, 4)
      /\ 4*k <= m => data[3*k] = Joined(text[4*k - 1], text[4*k], 64, 1)
  BY <1>3 DEF StandsFor
<1>6. /\ Power[1] = 1 /\ Power[2] = 2 /\ Power[3] = 4 /\ Power[4] = 8
      /\ Power[5] = 16 /\ Power[6] = 32 /\ Power[7] = 64 /\ Power[8] = 128
  BY DEF Power
<1>7. k \in Nat /\ k >= 1
  BY <1>1, <1>3
<1> DEFINE a == text[4*k - 3]
           b == text[4*k - 2]
           c == text[4*k - 1]
           d == text[4*k]
           DB(p, e) == (data[p] \div Power[e]) % 2
           TB(p, e) == (body[p] \div Power[e]) % 2
<1>8. a \in Sextet /\ b \in Sextet /\ body[4*k - 3] = a /\ body[4*k - 2] = b
  BY <1>1, <1>4
<1>9. t >= 8 => c \in Sextet /\ body[4*k - 1] = c
  BY <1>1, <1>4
<1>10. t >= 16 => d \in Sextet /\ body[4*k] = d
  BY <1>1, <1>4
<1>11. ASSUME NEW p, NEW e, NEW q, NEW f,
              (i \div 8) + 1 = p, 8 - (i % 8) = e, (i \div 6) + 1 = q, 6 - (i % 6) = f,
              DB(p, e) = TB(q, f)
       PROVE  DataBit(data, i) = TextBit(body, i)
  BY <1>11 DEF DataBit, TextBit
<1>12. CASE t \in 0..7
  <2>1. /\ DB(3*k - 2, 8) = TB(4*k - 3, 6) /\ DB(3*k - 2, 7) = TB(4*k - 3, 5)
        /\ DB(3*k - 2, 6) = TB(4*k - 3, 4) /\ DB(3*k - 2, 5) = TB(4*k - 3, 3)
        /\ DB(3*k - 2, 4) = TB(4*k - 3, 2) /\ DB(3*k - 2, 3) = TB(4*k - 3, 1)
        /\ DB(3*k - 2, 2) = TB(4*k - 2, 6) /\ DB(3*k - 2, 1) = TB(4*k - 2, 5)
    <3> HIDE DEF a, b
    <3> QED BY <1>5, <1>6, <1>8, FirstBits DEF a, b
  <2> HIDE DEF DB, TB
  <2>2. CASE t = 0
    <3> DEFINE j == k - 1
    <3>1. i = 24 * j + 0 /\ j \in Nat /\ k = j + 1
      BY <1>3, <1>7, <2>2
    <3> HIDE DEF j
    <3>2. (i \div 8) + 1 = 3*k - 2 /\ 8 - (i % 8) = 8
      BY <3>1
    <3>3. (i \div 6) + 1 = 4*k - 3 /\ 6 - (i % 6) = 6
      BY <3>1
    <3> QED BY <1>11, <2>1, <3>2, <3>3
  <2>3. CASE t = 1
    BY <1>3, <1>7, <1>11, <2>1, <2>3
  <2>4. CASE t = 2
    BY <1>3, <1>7, <1>11, <2>1, <2>4
  <2>5. CASE t = 3
    BY <1>3, <1>7, <1>11, <2>1, <2>5
  <2>6. CASE t = 4
    BY <1>3, <1>7, <1>11, <2>1, <2>6
  <2>7. CASE t = 5
    BY <1>3, <1>7, <1>11, <2>1, <2>7
  <2>8. CASE t = 6
    BY <1>3, <1>7, <1>11, <2>1, <2>8
  <2>9. CASE t = 7
    BY <1>3, <1>7, <1>11, <2>1, <2>9
  <2> QED BY <1>12, <2>2, <2>3, <2>4, <2>5, <2>6, <2>7, <2>8, <2>9
<1>13. CASE t \in 8..15
  <2>1. /\ DB(3*k - 1, 8) = TB(4*k - 2, 4) /\ DB(3*k - 1, 7) = TB(4*k - 2, 3)
        /\ DB(3*k - 1, 6) = TB(4*k - 2, 2) /\ DB(3*k - 1, 5) = TB(4*k - 2, 1)
        /\ DB(3*k - 1, 4) = TB(4*k - 1, 6) /\ DB(3*k - 1, 3) = TB(4*k - 1, 5)
        /\ DB(3*k - 1, 2) = TB(4*k - 1, 4) /\ DB(3*k - 1, 1) = TB(4*k - 1, 3)
    <3>1. t >= 8 /\ 4*k - 1 <= m
      BY <1>4, <1>13
    <3> QED BY <1>5, <1>6, <1>8, <1>9, <3>1, SecondBits
  <2> HIDE DEF DB, TB
  <2>2. CASE t = 8
    <3> DEFINE j == k - 1
    <3>1. i = 24 * j + 8 /\ j \in Nat /\ k = j + 1
      BY <1>3, <1>7, <2>2
    <3> HIDE DEF j
    <3>2. (i \div 8) + 1 = 3*k - 1 /\ 8 - (i % 8) = 8
      BY <3>1
    <3>3. (i \div 6) + 1 = 4*k - 2 /\ 6 - (i % 6) = 4
      BY <3>1
    <3> QED BY <1>11, <2>1, <3>2, <3>3
  <2>3. CASE t = 9
    BY <1>3, <1>7, <1>11, <2>1, <2>3
  <2>4. CASE t = 10
    BY <1>3, <1>7, <1>11, <2>1, <2>4
  <2>5. CASE t = 11
    BY <1>3, <1>7, <1>11, <2>1, <2>5
  <2>6. CASE t = 12
    BY <1>3, <1>7, <1>11, <2>1, <2>6
  <2>7. CASE t = 13
    BY <1>3, <1>7, <1>11, <2>1, <2>7
  <2>8. CASE t = 14
    BY <1>3, <1>7, <1>11, <2>1, <2>8
  <2>9. CASE t = 15
    BY <1>3, <1>7, <1>11, <2>1, <2>9
  <2> QED BY <1>13, <2>2, <2>3, <2>4, <2>5, <2>6, <2>7, <2>8, <2>9
<1>14. CASE t \in 16..23
  <2>1. /\ DB(3*k, 8) = TB(4*k - 1, 2) /\ DB(3*k, 7) = TB(4*k - 1, 1)
        /\ DB(3*k, 6) = TB(4*k, 6) /\ DB(3*k, 5) = TB(4*k, 5)
        /\ DB(3*k, 4) = TB(4*k, 4) /\ DB(3*k, 3) = TB(4*k, 3)
        /\ DB(3*k, 2) = TB(4*k, 2) /\ DB(3*k, 1) = TB(4*k, 1)
    <3>1. t >= 8 /\ t >= 16 /\ 4*k <= m
      BY <1>4, <1>14
    <3> QED BY <1>5, <1>6, <1>9, <1>10, <3>1, ThirdBits
  <2> HIDE DEF DB, TB
  <2>2. CASE t = 16
    <3> DEFINE j == k - 1
    <3>1. i = 24 * j + 16 /\ j \in Nat /\ k = j + 1
      BY <1>3, <1>7, <2>2
    <3> HIDE DEF j
    <3>2. (i \div 8) + 1 = 3*k /\ 8 - (i % 8) = 8
      BY <3>1
    <3>3. (i \div 6) + 1 = 4*k - 1 /\ 6 - (i % 6) = 2
      BY <3>1
    <3> QED BY <1>11, <2>1, <3>2, <3>3
  <2>3. CASE t = 17
    BY <1>3, <1>7, <1>11, <2>1, <2>3
  <2>4. CASE t = 18
    BY <1>3, <1>7, <1>11, <2>1, <2>4
  <2>5. CASE t = 19
    BY <1>3, <1>7, <1>11, <2>1, <2>5
  <2>6. CASE t = 20
    BY <1>3, <1>7, <1>11, <2>1, <2>6
  <2>7. CASE t = 21
    BY <1>3, <1>7, <1>11, <2>1, <2>7
  <2>8. CASE t = 22
    BY <1>3, <1>7, <1>11, <2>1, <2>8
  <2>9. CASE t = 23
    BY <1>3, <1>7, <1>11, <2>1, <2>9
  <2> QED BY <1>14, <2>2, <2>3, <2>4, <2>5, <2>6, <2>7, <2>8, <2>9
<1> QED BY <1>3, <1>12, <1>13, <1>14

(* The four characters of a chunk.                                         *)
LEMMA ChunkOfFour ==
  ASSUME NEW data \in Seq(Octet), NEW i \in Nat, i >= 1, i <= Len(data)
  PROVE  LET x == data[i]
             y == OctetAt(data, i + 1)
             z == OctetAt(data, i + 2)
             four == EncodeChunk(data, i)
         IN  /\ x \in Octet /\ y \in Octet /\ z \in Octet
             /\ four[1] = x \div 4
             /\ four[2] = 16 * (x % 4) + y \div 16
             /\ four[3] = IF i + 1 <= Len(data) THEN 4 * (y % 16) + z \div 64 ELSE Pad
             /\ four[4] = IF i + 2 <= Len(data) THEN z % 64 ELSE Pad
<1> DEFINE x == data[i]
           y == OctetAt(data, i + 1)
           z == OctetAt(data, i + 2)
           word == x * 65536 + y * 256 + z
           c == IF i + 1 <= Len(data) THEN (word \div 64) % 64 ELSE Pad
           d == IF i + 2 <= Len(data) THEN word % 64 ELSE Pad
           four == <<word \div 262144, (word \div 4096) % 64, c, d>>
<1>1. x \in Octet /\ y \in Octet /\ z \in Octet
  <2>1. \A j \in 1..Len(data) : data[j] \in Octet
    BY ElementOfSeq
  <2>2. i \in 1..Len(data)
    BY LenProperties
  <2>3. 0 \in Octet
    BY DEF Octet
  <2>4. \A j \in Nat : j >= 1 => OctetAt(data, j) \in Octet
    <3> SUFFICES ASSUME NEW j \in Nat, j >= 1 PROVE OctetAt(data, j) \in Octet
      OBVIOUS
    <3>1. j <= Len(data) => j \in 1..Len(data)
      BY LenProperties
    <3> QED BY <2>1, <2>3, <3>1 DEF OctetAt
  <2> HIDE DEF Octet
  <2> QED BY <2>1, <2>2, <2>4
<1>2. OctetAt(data, i) = x
  BY DEF OctetAt
<1>3. EncodeChunk(data, i) = four
  BY <1>2 DEF EncodeChunk
<1>4. /\ word \div 262144 = x \div 4
      /\ (word \div 4096) % 64 = 16 * (x % 4) + y \div 16
      /\ (word \div 64) % 64 = 4 * (y % 16) + z \div 64
      /\ word % 64 = z % 64
  <2> HIDE DEF x, y, z
  <2> QED BY <1>1, WordSplit
<1>5. /\ four[1] = word \div 262144 /\ four[2] = (word \div 4096) % 64
      /\ four[3] = c /\ four[4] = d
  <2> DEFINE p == word \div 262144
             q == (word \div 4096) % 64
  <2> HIDE DEF p, q, c, d
  <2>1. LET f == <<p, q, c, d>> IN f[1] = p /\ f[2] = q /\ f[3] = c /\ f[4] = d
    OBVIOUS
  <2> QED BY <2>1 DEF p, q
<1> HIDE DEF four
<1>6. /\ c = IF i + 1 <= Len(data) THEN 4 * (y % 16) + z \div 64 ELSE Pad
      /\ d = IF i + 2 <= Len(data) THEN z % 64 ELSE Pad
  <2> HIDE DEF word, y, z
  <2> QED BY <1>4
<1> HIDE DEF c, d, word, x, y, z
<1> QED BY <1>1, <1>3, <1>4, <1>5, <1>6 DEF x, y, z

(* Data is written as a text of the standard that stands for it.           *)
LEMMA EncodesTo ==
  ASSUME NEW data \in Seq(Octet), NEW n \in Nat, NEW s \in Nat, s = Len(data),
         s <= 3 * n, 3 * n <= s + 2
  PROVE  /\ Shaped(EncodeBase64(data), n, n + s)
         /\ StandsFor(EncodeBase64(data), n, n + s, data)
         /\ Len(EncodeBase64(data)) = 4 * n
<1> DEFINE m == n + s
           E == EncodeBase64(data)
           F(i) == EncodeChunk(data, 3 * i - 2)
<1>1. Chunks(s, 3) = n
  BY DEF Chunks
<1>2. E = [j \in 1..(4 * n) |-> F(ChunkOf(j, 4))[PlaceOf(j, 4)]]
  BY <1>1 DEF EncodeBase64
<1>3. m \in Nat /\ m <= 4 * n /\ 4 * n <= m + 2 /\ 4 * n \in Nat
  OBVIOUS
<1> HIDE DEF E, F
<1>4. ASSUME NEW i \in 1..n
      PROVE  E[4*i - 3] = F(i)[1] /\ E[4*i - 2] = F(i)[2] /\ E[4*i - 1] = F(i)[3] /\ E[4*i] = F(i)[4]
  <2>1. /\ 4*i - 3 \in 1..(4 * n) /\ 4*i - 2 \in 1..(4 * n)
        /\ 4*i - 1 \in 1..(4 * n) /\ 4*i \in 1..(4 * n)
    OBVIOUS
  <2>2. /\ ChunkOf(4*i - 3, 4) = i /\ PlaceOf(4*i - 3, 4) = 1
        /\ ChunkOf(4*i - 2, 4) = i /\ PlaceOf(4*i - 2, 4) = 2
        /\ ChunkOf(4*i - 1, 4) = i /\ PlaceOf(4*i - 1, 4) = 3
        /\ ChunkOf(4*i, 4) = i /\ PlaceOf(4*i, 4) = 4
    BY DEF ChunkOf, PlaceOf
  <2> QED BY <1>2, <2>1, <2>2
<1>5. ASSUME NEW i \in 1..n
      PROVE  /\ E[4*i - 3] \in Sextet /\ E[4*i - 2] \in Sextet
             /\ (E[4*i - 1] = Pad /\ ~(4*i - 1 <= m)) \/ (E[4*i - 1] \in Sextet /\ 4*i - 1 <= m)
             /\ (E[4*i] = Pad /\ ~(4*i <= m)) \/ (E[4*i] \in Sextet /\ 4*i <= m)
             /\ data[3*i - 2] = Joined(E[4*i - 3], E[4*i - 2], 4, 16)
             /\ 4*i - 1 <= m => data[3*i - 1] = Joined(E[4*i - 2], E[4*i - 1], 16, 4)
             /\ 4*i <= m => data[3*i] = Joined(E[4*i - 1], E[4*i], 64, 1)
  <2> DEFINE p == 3*i - 2
             x == data[p]
             y == OctetAt(data, p + 1)
             z == OctetAt(data, p + 2)
  <2>1. p \in Nat /\ p >= 1 /\ p <= Len(data) /\ p + 1 = 3*i - 1 /\ p + 2 = 3*i
    OBVIOUS
  <2>2. (p + 1 <= Len(data) <=> 4*i - 1 <= m) /\ (p + 2 <= Len(data) <=> 4*i <= m)
    OBVIOUS
  <2>3. F(i) = EncodeChunk(data, p)
    BY DEF F
  <2> HIDE DEF p
  <2>4. /\ x \in Octet /\ y \in Octet /\ z \in Octet
        /\ F(i)[1] = x \div 4
        /\ F(i)[2] = 16 * (x % 4) + y \div 16
        /\ F(i)[3] = IF p + 1 <= Len(data) THEN 4 * (y % 16) + z \div 64 ELSE Pad
        /\ F(i)[4] = IF p + 2 <= Len(data) THEN z % 64 ELSE Pad
    BY <2>1, <2>3, ChunkOfFour
  <2> DEFINE a == x \div 4
             b == 16 * (x % 4) + y \div 16
             c == 4 * (y % 16) + z \div 64
             d == z % 64
  <2>5. /\ a \in Sextet /\ b \in Sextet /\ c \in Sextet /\ d \in Sextet
        /\ Joined(a, b, 4, 16) = x /\ Joined(b, c, 16, 4) = y /\ Joined(c, d, 64, 1) = z
    <3> HIDE DEF x, y, z
    <3> QED BY <2>4, JoinedBack
  <2>6. (p + 1 <= Len(data) => y = data[p + 1]) /\ (p + 2 <= Len(data) => z = data[p + 2])
    BY DEF OctetAt
  <2>7. 4*i <= m => 4*i - 1 <= m
    BY <1>3
  <2>8. /\ E[4*i - 3] = a /\ E[4*i - 2] = b
        /\ E[4*i - 1] = IF 4*i - 1 <= m THEN c ELSE Pad
        /\ E[4*i] = IF 4*i <= m THEN d ELSE Pad
    <3> HIDE DEF x, y, z, m
    <3> QED BY <1>4, <2>2, <2>4
  <2>9. /\ x = data[3*i - 2]
        /\ 4*i - 1 <= m => y = data[3*i - 1]
        /\ 4*i <= m => z = data[3*i]
    <3>1. x = data[3*i - 2]
      BY DEF p
    <3> HIDE DEF x, y, z, m
    <3> QED BY <2>1, <2>2, <2>6, <3>1
  <2> HIDE DEF x, y, z, a, b, c, d, m
  <2>10. CASE ~(4*i - 1 <= m)
    <3>1. ~(4*i <= m)
      BY <2>7, <2>10
    <3> QED BY <1>3, <2>5, <2>8, <2>9, <2>10, <3>1
  <2>11. CASE 4*i - 1 <= m /\ ~(4*i <= m)
    BY <1>3, <2>5, <2>8, <2>9, <2>11
  <2>12. CASE 4*i - 1 <= m /\ 4*i <= m
    BY <2>5, <2>8, <2>9, <2>12
  <2> QED BY <2>10, <2>11, <2>12
<1>6. ASSUME NEW j \in 1..(4 * n)
      PROVE  (j <= m /\ E[j] \in Sextet) \/ (j > m /\ E[j] = Pad)
  <2> DEFINE i == ((j - 1) \div 4) + 1
  <2>1. i \in 1..n /\ j \in {4*i - 3, 4*i - 2, 4*i - 1, 4*i} /\ i \in Nat
    OBVIOUS
  <2> HIDE DEF i
  <2>2. 4*i - 2 <= m /\ 4*i - 3 <= m
    BY <1>3, <2>1
  <2>3. j \in Nat /\ (~(j <= m) => j > m)
    BY <1>3
  <2> HIDE DEF m
  <2>4. /\ E[4*i - 3] \in Sextet /\ E[4*i - 2] \in Sextet
        /\ (E[4*i - 1] = Pad /\ ~(4*i - 1 <= m)) \/ (E[4*i - 1] \in Sextet /\ 4*i - 1 <= m)
        /\ (E[4*i] = Pad /\ ~(4*i <= m)) \/ (E[4*i] \in Sextet /\ 4*i <= m)
    BY <1>5, <2>1
  <2>5. CASE j = 4*i - 3 \/ j = 4*i - 2
    BY <2>2, <2>4, <2>5
  <2>6. CASE j = 4*i - 1
    BY <2>3, <2>4, <2>6
  <2>7. CASE j = 4*i
    BY <2>3, <2>4, <2>7
  <2> QED BY <2>1, <2>5, <2>6, <2>7
<1>7. E \in Seq(TextChars) /\ Len(E) = 4 * n
  <2> DEFINE k == 4 * n
  <2>1. E = [j \in 1..k |-> E[j]]
    BY <1>2
  <2>2. \A j \in 1..k : E[j] \in TextChars
    BY <1>6 DEF TextChars
  <2>3. k \in Nat
    BY <1>3
  <2> HIDE DEF k, TextChars
  <2>4. E \in [1..k -> TextChars]
    BY <2>1, <2>2
  <2>5. E \in Seq(TextChars) /\ Len(E) = k
    BY <2>3, <2>4
  <2> QED BY <2>5 DEF k
<1>8. Shaped(E, n, m)
  <2>1. \A k \in 1..m : E[k] \in Sextet
    <3> SUFFICES ASSUME NEW k \in 1..m PROVE E[k] \in Sextet
      OBVIOUS
    <3>1. k \in 1..(4 * n) /\ ~(k > m)
      BY <1>3
    <3> QED BY <1>6, <3>1
  <2>2. \A k \in 1..Len(E) : k > m => E[k] = Pad
    <3> SUFFICES ASSUME NEW k \in 1..(4 * n), k > m PROVE E[k] = Pad
      BY <1>7
    <3>1. ~(k <= m)
      BY <1>3
    <3> QED BY <1>6, <3>1
  <2> HIDE DEF m
  <2> QED BY <1>3, <1>7, <2>1, <2>2 DEF Shaped
<1>9. StandsFor(E, n, m, data)
  <2>1. Len(data) = m - n
    OBVIOUS
  <2> HIDE DEF m
  <2> QED BY <1>5, <2>1 DEF StandsFor
<1> QED BY <1>7, <1>8, <1>9 DEF E

(* What is written is read again, whatever its length.                     *)
LEMMA ThereAndBack ==
  ASSUME NEW data \in Seq(Octet), NEW n \in Nat, NEW s \in Nat, s = Len(data),
         s <= 3 * n, 3 * n <= s + 2
  PROVE  DecodeBase64(EncodeBase64(data)) = {data}
<1> DEFINE E == EncodeBase64(data)
           m == n + s
<1>1. Shaped(E, n, m) /\ StandsFor(E, n, m, data)
  BY EncodesTo
<1>2. m \in Nat /\ m <= 4 * n /\ 4 * n <= m + 2
  OBVIOUS
<1> HIDE DEF E, m
<1>3. PICK d : DecodeBase64(E) = {d} /\ StandsFor(E, n, m, d)
  BY <1>1, ShapedDecodes
<1>4. d = data
  BY <1>1, <1>2, <1>3, StandsForOne
<1> QED BY <1>3, <1>4 DEF E

(* What TextDecodes says, of every text.                                   *)
LEMMA DecodesAlways ==
  ASSUME NEW text \in Seq(TextChars)
  PROVE  TextDecodes(text)
<1>0. Len(text) \in Nat
  BY LenProperties
<1>1. CASE Len(text) % 4 # 0
  <2>1. DecodeBase64(text) = {}
    BY <1>1, DecodeIs
  <2>2. ~WellFormed(text)
    BY <1>1 DEF WellFormed
  <2> QED BY <2>1, <2>2 DEF TextDecodes
<1>2. CASE Len(text) % 4 = 0
  <2> DEFINE n == Len(text) \div 4
  <2>1. n \in Nat /\ Len(text) = 4 * n
    BY <1>0, <1>2
  <2>2. DecodeBase64(text) =
          IF \E i \in 1..n : ChunksOf(text, n)[i] = {} THEN {}
          ELSE {[j \in 1..SizeOf(text, n) |-> OctetsOf(text, n)[ChunkOf(j, 3)][PlaceOf(j, 3)]]}
    BY <1>2, DecodeIs
  <2> HIDE DEF n
  <2>3. CASE \E m \in Nat : Shaped(text, n, m)
    <3>1. PICK m \in Nat : Shaped(text, n, m)
      BY <2>3
    <3>2. PICK d : DecodeBase64(text) = {d} /\ StandsFor(text, n, m, d)
      BY <3>1, ShapedDecodes
    <3>3. WellFormed(text)
      BY <3>1, ShapedWellFormed
    <3> DEFINE s == Len(d)
               B == Body(text)
    <3>4. d \in Seq(Octet) /\ s = m - n
      BY <3>2 DEF StandsFor
    <3>5. Len(B) = m /\ \A k \in 1..m : B[k] = text[k]
      BY <3>1, BodyOfShaped
    <3>6. m <= 4 * n /\ 4 * n <= m + 2
      BY <3>1 DEF Shaped
    <3> HIDE DEF s, B
    <3>7. s = (6 * m) \div 8
      BY <2>1, <3>4, <3>6
    <3>8. \A i \in 1..s : d[i] \in Octet
      BY <3>4, ElementOfSeq DEF s
    <3>9. \A i \in 0..(8 * s - 1) : DataBit(d, i) = TextBit(B, i)
      BY <3>1, <3>2, <3>5, SameBits DEF s
    <3>10. s \in Nat /\ s <= 3 * n /\ 3 * n <= s + 2
      BY <2>1, <3>4, <3>6
    <3>11. DecodeBase64(EncodeBase64(d)) = {d} /\ Len(EncodeBase64(d)) = Len(text)
      BY <2>1, <3>4, <3>10, ThereAndBack, EncodesTo DEF s
    <3> QED BY <3>2, <3>3, <3>5, <3>7, <3>8, <3>9, <3>11 DEF TextDecodes, s, B
  <2>4. CASE ~\E m \in Nat : Shaped(text, n, m)
    <3>1. ~WellFormed(text)
      <4>1. WellFormed(text) => Shaped(text, n, Len(Body(text)))
        BY <2>1, WellFormedShaped
      <4>2. Shaped(text, n, Len(Body(text))) => Len(Body(text)) \in Nat
        BY DEF Shaped
      <4> QED BY <2>4, <4>1, <4>2
    <3>2. PICK i \in 1..n : ~QuartetAt(text, n, i)
      BY <2>1, <2>4, ShapedOfQuartets
    <3>3. ChunksOf(text, n)[i] = {}
      <4> DEFINE a == text[4*i - 3]
                 b == text[4*i - 2]
                 c == text[4*i - 1]
                 d == text[4*i]
                 last == i = n
      <4>1. a \in TextChars /\ b \in TextChars /\ c \in TextChars /\ d \in TextChars
        BY <2>1, QuartetPlaces
      <4>2. ChunksOf(text, n)[i] = DecodeChunk(a, b, c, d, last)
        BY DEF ChunksOf
      <4>3. ~Quartet(a, b, c, d, last) /\ last \in BOOLEAN
        BY <3>2 DEF QuartetAt
      <4> HIDE DEF a, b, c, d, last
      <4> QED BY <4>1, <4>2, <4>3, ChunkGives
    <3>4. DecodeBase64(text) = {}
      BY <2>2, <3>3
    <3> QED BY <3>1, <3>4 DEF TextDecodes
  <2> QED BY <2>3, <2>4
<1> QED BY <1>1, <1>2

(* Just the texts of the standard are decoded, to their bits, and what is  *)
(* decoded is written as a text that is decoded to it (decode_base64,      *)
(* encode_base64).                                                         *)
THEOREM DecodedExact == FormatsSpec => []DecodesBits
<1>1. InputOK => DecodesBits
  <2>1. Seq(Characters) \subseteq Seq(TextChars)
    <3>1. Characters \subseteq TextChars
      BY InputsAssumption DEF TextChars
    <3> QED BY <3>1, SeqMonotonic
  <2> QED BY <2>1, DecodesAlways DEF InputOK, DecodesBits
<1> QED BY <1>1, InputsRead, PTL
=============================================================================
