----------------------------- MODULE Durations -----------------------------
(***************************************************************************)
(* The --handshake-timeout option (parse_duration in src/src/lib.rs).  An  *)
(* argument is a sequence of characters; a result is a number of seconds,  *)
(* an error, or a panic: Duration::from_mins and from_hours panic on a     *)
(* number of seconds that is no u64.                                       *)
(***************************************************************************)
EXTENDS Octets, SequencesExt

CONSTANTS
  Plus,           \* the character "+"
  LetterS, LetterM, LetterH,
  Stray,          \* any other character that is no digit
  Error, Panic,   \* results
  MaxU64,         \* the largest u64
  Minute,         \* seconds of a minute (60)
  Hour            \* seconds of an hour (3600)

Digits  == 0..9
Letters == {Plus, LetterS, LetterM, LetterH, Stray}

ASSUME DurationAssumption ==
  /\ Letters \cap Nat = {} /\ Error \notin Nat /\ Panic \notin Nat
  /\ LetterS \notin {LetterM, LetterH} /\ LetterM # LetterH
  /\ Plus \notin {LetterS, LetterM, LetterH}
  /\ MaxU64 \in Nat /\ Minute \in Nat /\ Hour \in Nat

Value(digits) == FromDigits(10, digits)

-----------------------------------------------------------------------------
(* <u64 as FromStr>::from_str: digits, behind one plus at most.            *)
Unsigned(chars) ==
  LET digits == IF chars # <<>> /\ Head(chars) = Plus THEN Tail(chars) ELSE chars
  IN  IF \/ digits = <<>>
         \/ Range(digits) \cap Letters # {}
         \/ Value(digits) > MaxU64
      THEN Error ELSE Value(digits)

Wrapping(n, unit) == (n * unit) % (MaxU64 + 1)

(* Duration::from_secs, from_mins and from_hours.                          *)
Times(n, unit) == IF n * unit > MaxU64 THEN Panic ELSE n * unit

InUnits(chars, unit) ==
  IF Unsigned(chars) = Error THEN Error ELSE Times(Unsigned(chars), unit)

EndsIn(chars, c) == chars # <<>> /\ Last(chars) = c

ParseDuration(chars) ==
  CASE EndsIn(chars, LetterS) -> InUnits(Front(chars), 1)
    [] EndsIn(chars, LetterM) -> InUnits(Front(chars), Minute)
    [] EndsIn(chars, LetterH) -> InUnits(Front(chars), Hour)
    [] OTHER                  -> InUnits(chars, 1)

-----------------------------------------------------------------------------
(* Properties.                                                             *)

(* The suffixes of the comment (lib.rs:51), and how many milliseconds each *)
(* stands for.                                                             *)
UnitSuffixes ==
  {<<<<>>, 1000>>, <<<<LetterM, LetterS>>, 1>>, <<<<LetterS>>, 1000>>,
   <<<<LetterM>>, 1000 * Minute>>, <<<<LetterH>>, 1000 * Hour>>}

(* The milliseconds an argument says: a number, with a plus or without,    *)
(* and behind it one of the suffixes.                                      *)
SignLen(arg) == IF arg # <<>> /\ Head(arg) = Plus THEN 1 ELSE 0

Number(arg, i) == SubSeq(arg, SignLen(arg) + 1, i)

Says(arg) ==
  {Value(Number(arg, p[1])) * p[2][2] : p \in
     {q \in ((SignLen(arg) + 1)..Len(arg)) \X UnitSuffixes :
        From(arg, q[1]) = q[2][1] /\ Range(Number(arg, q[1])) \cap Letters = {}}}

(* A timeout that is accepted is the one the argument says, whatever its   *)
(* suffix and size: one that is too large is never taken for a small one   *)
(* (parse_duration).                                                       *)
AcceptedMeant(arg) ==
  ParseDuration(arg) \notin {Error, Panic} => Says(arg) = {1000 * ParseDuration(arg)}

(* Each suffix of the comment is accepted behind a number of seconds that  *)
(* a u64 holds: "The suffixes `ms`, `s`, `m`, and `h` are also accepted."  *)
(* (lib.rs:51).                                                            *)
SuffixAccepted(arg) ==
  \A said \in Says(arg) : said <= 1000 * MaxU64 => ParseDuration(arg) # Error
=============================================================================
