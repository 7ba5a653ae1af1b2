---------------------------- MODULE SemverParse ----------------------------
(***************************************************************************)
(* Semver::parse: up to three numbers separated by dots, read from the     *)
(* start of a text after any white space.  What follows them is ignored;   *)
(* numbers that are missing are 0; a text that starts with no number has   *)
(* no version.  The numbers are C++ ints: they wrap at the width of int    *)
(* (signed overflow, in the builds at hand), and nothing notices.          *)
(***************************************************************************)
EXTENDS Integers, SequencesExt

CONSTANTS
  Digit,       (* the digits that texts are made of                            *)
  MaxLength,   (* bound on the length of the text                              *)
  Limit        (* 2^(w-1) for ints of w bits                                   *)

Ten == <<"0", "1", "2", "3", "4", "5", "6", "7", "8", "9">>

ASSUME DigitAssumption  == Digit \subseteq ToSet(Ten)
ASSUME LengthAssumption == MaxLength \in Nat
ASSUME LimitAssumption  == Limit \in Nat \ {0}

Value(c) == (CHOOSE k \in 1 .. 10 : Ten[k] = c) - 1
Space == {" "}
Char == Digit \cup Space \cup {".", "x"}

VARIABLES
  text,     (* the text                                                        *)
  i,        (* the position of the next character                              *)
  n,        (* how many numbers have been read                                 *)
  nums,     (* the numbers                                                     *)
  pc        (* "space", "number" (at the head of the outer loop), "digits"     *)
            (* (inside it) or "done"                                           *)

vars == <<text, i, n, nums, pc>>

TypeOK ==
  /\ text \in Seq(Char) /\ i \in 1 .. Len(text) + 1
  /\ n \in 0 .. 3 /\ nums \in [0 .. 2 -> -Limit .. Limit - 1]
  /\ pc \in {"space", "number", "digits", "done"}

Init ==
  /\ text \in UNION {[1 .. k -> Char] : k \in 0 .. MaxLength}
  /\ i = 1 /\ n = 0 /\ nums = [k \in 0 .. 2 |-> 0] /\ pc = "space"

At(C) == i <= Len(text) /\ text[i] \in C

(* What an int of that width holds. *)
Wrap(x) == ((x + Limit) % (2 * Limit)) - Limit

WrongSkipSpace ==                \* does not move on
  /\ pc = "space" /\ ~At(Space) /\ pc' = "number"
  /\ UNCHANGED <<text, i, n, nums>>

SkipSpace ==
  /\ pc = "space"
  /\ IF At(Space) THEN i' = i + 1 /\ UNCHANGED pc ELSE pc' = "number" /\ UNCHANGED i
  /\ UNCHANGED <<text, n, nums>>

BeginNumber ==
  /\ pc = "number"
  /\ pc' = IF n < 3 /\ At(Digit) THEN "digits" ELSE "done"
  /\ UNCHANGED <<text, i, n, nums>>

WrongReadDigit ==                \* keeps the last digit only
  /\ pc = "digits" /\ At(Digit)
  /\ nums' = [nums EXCEPT ![n] = Wrap(Value(text[i]))]
  /\ i' = i + 1
  /\ UNCHANGED <<text, n, pc>>

ReadDigit ==
  /\ pc = "digits" /\ At(Digit)
  /\ nums' = [nums EXCEPT ![n] = Wrap(@ * 10 + Value(text[i]))]
  /\ i' = i + 1
  /\ UNCHANGED <<text, n, pc>>

(* After a number, a dot leads to the next one. *)
EndNumber ==
  /\ pc = "digits" /\ ~At(Digit)
  /\ n' = n + 1
  /\ IF At({"."}) THEN i' = i + 1 /\ pc' = "number" ELSE pc' = "done" /\ UNCHANGED i
  /\ UNCHANGED <<text, nums>>

Next == SkipSpace \/ BeginNumber \/ ReadDigit \/ EndNumber

Spec == Init /\ [][Next]_vars
FairSpec == Spec /\ WF_vars(Next)

(* The answer: no version, or the numbers. *)
Parsed == IF n = 0 THEN <<>> ELSE <<nums[0], nums[1], nums[2]>>

----------------------------------------------------------------------------
(* Properties *)

(* The reference: in a text t, the longest run of members of C from         *)
(* position p on.                                                           *)
RunEnd(t, p, C) == CHOOSE q \in p .. Len(t) + 1 :
  /\ \A k \in p .. q - 1 : t[k] \in C
  /\ q > Len(t) \/ t[q] \notin C

(* The number written in positions p to q - 1. *)
Written(t, p, q) ==
  LET value[k \in p .. q] == IF k = p THEN 0 ELSE value[k - 1] * 10 + Value(t[k - 1])
  IN  value[q]

(* Where the numbers of t are: each begins right behind the dot that ends   *)
(* the one before it; an empty span stands for a number that is not there.  *)
FirstSpan(t) == LET p == RunEnd(t, 1, Space) IN <<p, RunEnd(t, p, Digit)>>
IsNumber(s) == s[1] < s[2]
DotBehind(t, s) == s[2] <= Len(t) /\ t[s[2]] = "."
NextSpan(t, s) ==
  IF IsNumber(s) /\ DotBehind(t, s) THEN <<s[2] + 1, RunEnd(t, s[2] + 1, Digit)>>
  ELSE <<Len(t) + 1, Len(t) + 1>>
Spans(t) == <<FirstSpan(t), NextSpan(t, FirstSpan(t)), NextSpan(t, NextSpan(t, FirstSpan(t)))>>
Numbers(t) == [k \in 1 .. 3 |-> Written(t, Spans(t)[k][1], Spans(t)[k][2])]

(* The parser returns the version that is written, if its numbers fit an    *)
(* int, and nothing if there is none.  (Semver.cpp:12-39)                   *)
ParsesWhatIsWritten ==
  pc = "done" /\ (\A k \in 1 .. 3 : Numbers(text)[k] < Limit) =>
    Parsed = IF IsNumber(FirstSpan(text)) THEN Numbers(text) ELSE <<>>

(* It comes to an end on every text. *)
ParseEnds == <>(pc = "done")

============================================================================
