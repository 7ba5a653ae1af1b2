---------------------------- MODULE VersionProofs ----------------------------
(***************************************************************************)
(* Versions, for all texts and all versions: Semver::parse returns the     *)
(* version that is written (Semver.cpp), if its numbers fit an int, and    *)
(* operator< (Semver.h) is a strict total order, so that a host that is    *)
(* upgraded within a major version keeps every plugin it accepted.         *)
(***************************************************************************)
EXTENDS ManifestRules, SemverParse, WellFoundedInduction, TLAPS

----------------------------------------------------------------------------
(* Comparing *)

(* No version is less than itself, and two versions are never each less     *)
(* than the other.  (Semver.h, operator<)                                   *)
THEOREM LessIsStrict ==
  ASSUME NEW a \in Semver, NEW b \in Semver, Less(a, b)
  PROVE  a # b /\ ~Less(b, a)
BY DEF Less, Semver

(* Of two different versions one is less than the other. *)
THEOREM LessIsTotal ==
  ASSUME NEW a \in Semver, NEW b \in Semver, a # b
  PROVE  Less(a, b) \/ Less(b, a)
BY DEF Less, Semver

(* Comparison carries over from version to version. *)
THEOREM LessIsTransitive ==
  ASSUME NEW a \in Semver, NEW b \in Semver, NEW c \in Semver, Less(a, b), Less(b, c)
  PROVE  Less(a, c)
BY DEF Less, Semver

(* A host no older than one that satisfies a minimum satisfies it too. *)
THEOREM NewerHostStillSatisfies ==
  ASSUME NEW old \in Semver, NEW new \in Semver, NEW min \in Semver,
         SatisfiesMinHost(old, min), ~Less(new, old)
  PROVE  SatisfiesMinHost(new, min)
BY DEF SatisfiesMinHost, Less, Semver

(* A host SDK no older, of the same major version, still supports a plugin  *)
(* whichever rules of the policy apply.                                     *)
THEOREM NewerSdkStillSupports ==
  ASSUME NEW old \in Semver, NEW new \in Semver, NEW sdk \in Semver,
         SupportsSdk(old, sdk), new.major = old.major, ~Less(new, old)
  PROVE  SupportsSdk(new, sdk)
BY PolicyAssumption DEF SupportsSdk, Less, Semver

----------------------------------------------------------------------------
(* The number that is written in a part of a text *)

(* Induction over the natural numbers, for a set of them. *)
LEMMA InductionOnNat ==
  ASSUME NEW T, 0 \in T, \A m \in Nat : m \in T => m + 1 \in T
  PROVE  Nat \subseteq T
<1> DEFINE R == OpToRel(<, Nat)  rest == Nat \ T
<1> SUFFICES ASSUME rest # {} PROVE FALSE
  OBVIOUS
<1>1. IsWellFoundedOn(R, Nat)
  BY NatLessThanWellFounded
<1>2. PICK x \in rest : \A y \in rest : ~ (<<y, x>> \in R)
  <2> HIDE DEF R
  <2> rest \subseteq Nat
    OBVIOUS
  <2> QED BY <1>1, WFMin
<1>3. x - 1 \in Nat /\ x - 1 < x
  BY SMT
<1>4. x - 1 \in T
  BY <1>2, <1>3 DEF OpToRel
<1> QED
  BY <1>3, <1>4, (x - 1) + 1 = x

(* v holds the numbers that a reader of t from p on has after each digit,   *)
(* up to position q.                                                        *)
IsReading(v, t, p, q) ==
  v = [k \in p .. q |-> IF k = p THEN 0 ELSE v[k - 1] * 10 + Value(t[k - 1])]

LEMMA ReadingExists ==
  ASSUME NEW t, NEW p \in Int, NEW q \in Int, p <= q
  PROVE  \E v : IsReading(v, t, p, q)
<1> DEFINE T == {m \in Nat : \E v : IsReading(v, t, p, p + m)}
<1>1. 0 \in T
  <2> DEFINE v == [k \in p .. p |-> 0]
  <2>1. IsReading(v, t, p, p)
    BY DEF IsReading
  <2> QED BY <2>1, p + 0 = p
<1>2. ASSUME NEW m \in Nat, m \in T PROVE m + 1 \in T
  <2>1. PICK v : IsReading(v, t, p, p + m)
    BY <1>2
  <2> DEFINE r == p + m
             last == v[r] * 10 + Value(t[r])
             w == [k \in p .. r + 1 |-> IF k = r + 1 THEN last ELSE v[k]]
  <2>2. ASSUME NEW k \in p .. r + 1
        PROVE  w[k] = IF k = p THEN 0 ELSE w[k - 1] * 10 + Value(t[k - 1])
    <3> HIDE DEF last
    <3>1. CASE k = r + 1
      <4>1. w[k] = last /\ w[k - 1] = v[r] /\ k - 1 = r /\ k # p
        BY <3>1
      <4> QED BY <4>1 DEF last
    <3>2. CASE k \in p .. r
      <4>1. w[k] = v[k] /\ (k # p => w[k - 1] = v[k - 1])
        BY <3>2
      <4>2. v[k] = IF k = p THEN 0 ELSE v[k - 1] * 10 + Value(t[k - 1])
        BY <2>1, <3>2 DEF IsReading
      <4> QED BY <4>1, <4>2
    <3> QED BY <3>1, <3>2
  <2>3. w = [k \in p .. r + 1 |-> IF k = p THEN 0 ELSE w[k - 1] * 10 + Value(t[k - 1])]
    BY <2>2
  <2>4. IsReading(w, t, p, r + 1)
    BY <2>3 DEF IsReading
  <2> QED BY <2>4, p + (m + 1) = r + 1
<1>3. q - p \in T
  BY <1>1, <1>2, InductionOnNat, q - p \in Nat
<1> QED BY <1>3, p + (q - p) = q

LEMMA ReadingsAgree ==
  ASSUME NEW t, NEW p \in Int, NEW q \in Int, NEW r \in Int, p <= q, q <= r,
         NEW v, IsReading(v, t, p, q), NEW w, IsReading(w, t, p, r)
  PROVE  v[q] = w[q]
<1> DEFINE T == {m \in Nat : p + m <= q => v[p + m] = w[p + m]}
<1>1. ASSUME NEW k \in p .. q
      PROVE  /\ v[k] = IF k = p THEN 0 ELSE v[k - 1] * 10 + Value(t[k - 1])
             /\ w[k] = IF k = p THEN 0 ELSE w[k - 1] * 10 + Value(t[k - 1])
  BY k \in p .. r DEF IsReading
<1>2. 0 \in T
  BY <1>1, p + 0 = p
<1>3. ASSUME NEW m \in Nat, m \in T, p + (m + 1) <= q PROVE v[p + (m + 1)] = w[p + (m + 1)]
  <2>1. /\ p + (m + 1) \in p .. q /\ p + (m + 1) # p /\ (p + (m + 1)) - 1 = p + m
        /\ p + m <= q
    BY <1>3
  <2>2. v[p + m] = w[p + m]
    BY <2>1, <1>3
  <2> QED BY <1>1, <2>1, <2>2
<1>4. \A m \in Nat : m \in T => m + 1 \in T
  BY <1>3
<1>5. Nat \subseteq T
  <2> HIDE DEF T
  <2> QED BY <1>2, <1>4, InductionOnNat
<1> QED BY <1>5, q - p \in Nat, p + (q - p) = q

LEMMA WrittenIsReading ==
  ASSUME NEW t, NEW p \in Int, NEW q \in Int, p <= q
  PROVE  \E v : IsReading(v, t, p, q) /\ Written(t, p, q) = v[q]
<1> DEFINE v == CHOOSE u : IsReading(u, t, p, q)
<1>1. IsReading(v, t, p, q)
  BY ReadingExists
<1>2. Written(t, p, q) = v[q]
  BY DEF Written, IsReading
<1> QED BY <1>1, <1>2

LEMMA WrittenUnfolds ==
  ASSUME NEW t, NEW p \in Int, NEW q \in Int, p <= q
  PROVE  /\ Written(t, p, p) = 0
         /\ Written(t, p, q + 1) = Written(t, p, q) * 10 + Value(t[q])
<1>1. PICK u : IsReading(u, t, p, p) /\ Written(t, p, p) = u[p]
  BY WrittenIsReading
<1>2. PICK v : IsReading(v, t, p, q) /\ Written(t, p, q) = v[q]
  BY WrittenIsReading
<1>3. PICK w : IsReading(w, t, p, q + 1) /\ Written(t, p, q + 1) = w[q + 1]
  BY WrittenIsReading
<1>4. u[p] = 0
  BY <1>1 DEF IsReading
<1>5. v[q] = w[q]
  BY <1>2, <1>3, ReadingsAgree
<1>6. w[q + 1] = w[q] * 10 + Value(t[q])
  BY <1>3, q + 1 \in p .. q + 1, q + 1 # p, (q + 1) - 1 = q DEF IsReading
<1> QED BY <1>1, <1>2, <1>3, <1>4, <1>5, <1>6

----------------------------------------------------------------------------
(* Numbers *)

LEMMA DigitValue ==
  ASSUME NEW c \in Digit
  PROVE  Value(c) \in 0 .. 9
<1>1. PICK k \in 1 .. 10 : Ten[k] = c
  BY DigitAssumption DEF ToSet, Ten
<1>2. (CHOOSE j \in 1 .. 10 : Ten[j] = c) \in 1 .. 10
  BY <1>1
<1> QED BY <1>2 DEF Value

(* An int holds what fits it. *)
LEMMA WrapFits ==
  ASSUME NEW x \in Int
  PROVE  /\ Wrap(x) \in -Limit .. Limit - 1
         /\ x \in 0 .. Limit - 1 => Wrap(x) = x
<1>1. Limit \in Nat /\ Limit > 0
  BY LimitAssumption
<1> DEFINE L == 2 * Limit
<1>2. L \in Nat /\ L > 0
  BY <1>1
<1>3. ((x + Limit) % L) \in 0 .. L - 1
  BY <1>1, <1>2
<1>4. x \in 0 .. Limit - 1 => (x + Limit) % L = x + Limit
  BY <1>1
<1> QED BY <1>1, <1>3, <1>4 DEF Wrap

(* The run from p on ends where a reader of members of C stops. *)
LEMMA RunEndIs ==
  ASSUME NEW t, Len(t) \in Nat, NEW p \in Int, NEW C, NEW q \in p .. Len(t) + 1,
         \A k \in p .. q - 1 : t[k] \in C,
         q > Len(t) \/ t[q] \notin C
  PROVE  RunEnd(t, p, C) = q
<1>1. ASSUME NEW r \in p .. Len(t) + 1, \A k \in p .. r - 1 : t[k] \in C,
             r > Len(t) \/ t[r] \notin C
      PROVE  r = q
  <2>1. ~ r < q
    BY <1>1
  <2>2. ~ q < r
    BY <1>1
  <2> QED BY <2>1, <2>2
<1> QED BY <1>1 DEF RunEnd

----------------------------------------------------------------------------
(* Where the numbers are *)

(* Where the k-th number of t has to begin; that it is looked for there.    *)
SpanStart(t, k) == IF k = 1 THEN RunEnd(t, 1, Space) ELSE Spans(t)[k - 1][2] + 1
Follows(t, k) == k > 1 => IsNumber(Spans(t)[k - 1]) /\ DotBehind(t, Spans(t)[k - 1])
NotThere(t, k) == Spans(t)[k] \in {<<p, p>> : p \in Nat}

LEMMA SpanIs ==
  ASSUME NEW t, Len(t) \in Nat, NEW k \in 1 .. 3
  PROVE  /\ Follows(t, k) => Spans(t)[k] = <<SpanStart(t, k), RunEnd(t, SpanStart(t, k), Digit)>>
         /\ ~Follows(t, k) => NotThere(t, k)
<1>1. Spans(t)[1] = FirstSpan(t)
  BY DEF Spans
<1>2. Spans(t)[2] = NextSpan(t, Spans(t)[1])
  BY DEF Spans
<1>3. Spans(t)[3] = NextSpan(t, Spans(t)[2])
  BY DEF Spans
<1>4. CASE k = 1
  <2>1. Follows(t, k) /\ SpanStart(t, k) = RunEnd(t, 1, Space)
    BY <1>4 DEF Follows, SpanStart
  <2>2. FirstSpan(t) = <<RunEnd(t, 1, Space), RunEnd(t, RunEnd(t, 1, Space), Digit)>>
    BY DEF FirstSpan
  <2> QED BY <1>1, <1>4, <2>1, <2>2
<1>5. CASE k > 1
  <2> PICK s : s = Spans(t)[k - 1]
    OBVIOUS
  <2>1. Spans(t)[k] = NextSpan(t, s)
    BY <1>2, <1>3, <1>5
  <2>2. SpanStart(t, k) = s[2] + 1
    BY <1>5 DEF SpanStart
  <2>3. Follows(t, k) <=> IsNumber(s) /\ DotBehind(t, s)
    BY <1>5 DEF Follows
  <2>4. CASE Follows(t, k)
    BY <2>1, <2>2, <2>3, <2>4 DEF NextSpan
  <2>5. CASE ~Follows(t, k)
    <3>1. Spans(t)[k] = <<Len(t) + 1, Len(t) + 1>> /\ Len(t) + 1 \in Nat
      BY <2>1, <2>3, <2>5 DEF NextSpan
    <3> QED BY <2>5, <3>1 DEF NotThere
  <2> QED BY <2>4, <2>5
<1> QED BY <1>4, <1>5

(* Behind a number that is not there is none. *)
LEMMA NoneFollows ==
  ASSUME NEW t, Len(t) \in Nat, NEW k \in 1 .. 3, NotThere(t, k), NEW j \in k .. 3
  PROVE  NotThere(t, j)
<1>1. ASSUME NEW m \in 1 .. 2, NotThere(t, m) PROVE NotThere(t, m + 1)
  <2>1. ~IsNumber(Spans(t)[m])
    BY <1>1 DEF NotThere, IsNumber
  <2> QED BY <2>1, SpanIs, (m + 1) - 1 = m, m + 1 > 1, m + 1 \in 1 .. 3 DEF Follows
<1>2. j = k \/ j = k + 1 \/ (j = (k + 1) + 1 /\ k = 1)
  OBVIOUS
<1> QED BY <1>1, <1>2

----------------------------------------------------------------------------
(* The parser *)

(* What the parser knows.  Of the numbers it has read: they are there, and  *)
(* were read right if they fit an int; the others are still 0.  Of its      *)
(* place: it is where the next number has to begin, or at a digit of that   *)
(* number and has read the part before it.  Once it is done, the numbers it *)
(* has not read are not there.                                              *)
IsRead(k) ==
  /\ IsNumber(Spans(text)[k])
  /\ Numbers(text)[k] < Limit => nums[k - 1] = Numbers(text)[k]

InDigits(p) ==
  /\ n < 3 /\ p \in 1 .. i /\ p <= Len(text) /\ text[p] \in Digit
  /\ \A k \in p .. i - 1 : text[k] \in Digit
  /\ Written(text, p, i) \in Nat
  /\ Written(text, p, i) < Limit => nums[n] = Written(text, p, i)

ParserInv ==
  /\ TypeOK
  /\ pc = "space" => n = 0 /\ \A k \in 1 .. i - 1 : text[k] \in Space
  /\ \A k \in 1 .. n : IsRead(k)
  /\ \A k \in n + 1 .. 3 : (pc = "digits" /\ k = n + 1) \/ nums[k - 1] = 0
  /\ pc \in {"number", "digits"} /\ n > 0 => DotBehind(text, Spans(text)[n])
  /\ pc = "number" => i = SpanStart(text, n + 1)
  /\ pc = "digits" => InDigits(SpanStart(text, n + 1))
  /\ pc = "done" => \A k \in n + 1 .. 3 : NotThere(text, k)

LEMMA InitParser == Init => ParserInv
<1> SUFFICES ASSUME Init PROVE ParserInv
  OBVIOUS
<1>1. text \in Seq(Char) /\ Len(text) \in Nat
  BY LengthAssumption DEF Init
<1> QED BY <1>1, LimitAssumption DEF Init, ParserInv, TypeOK

LEMMA AtNumber ==
  ParserInv /\ pc \in {"number", "digits"} /\ n < 3 => 
    Spans(text)[n + 1] = <<SpanStart(text, n + 1), RunEnd(text, SpanStart(text, n + 1), Digit)>>
<1> SUFFICES ASSUME ParserInv, pc \in {"number", "digits"}, n < 3
             PROVE  Spans(text)[n + 1] = <<SpanStart(text, n + 1), RunEnd(text, SpanStart(text, n + 1), Digit)>>
  OBVIOUS
<1>1. /\ TypeOK /\ \A k \in 1 .. n : IsRead(k)
      /\ n > 0 => DotBehind(text, Spans(text)[n])
  BY DEF ParserInv
<1>2. n \in 0 .. 2 /\ text \in Seq(Char) /\ Len(text) \in Nat
  BY <1>1 DEF TypeOK
<1>3. n + 1 \in 1 .. 3 /\ (n + 1) - 1 = n
  BY <1>2
<1>4. Follows(text, n + 1)
  BY <1>1, <1>2, <1>3 DEF Follows, IsRead
<1> QED BY <1>2, <1>3, <1>4, SpanIs

LEMMA StepSkipSpace == ParserInv /\ SkipSpace => ParserInv'
<1> SUFFICES ASSUME ParserInv, SkipSpace PROVE ParserInv'
  OBVIOUS
<1>1. /\ TypeOK /\ pc = "space" /\ n = 0 /\ \A k \in 1 .. i - 1 : text[k] \in Space
      /\ \A k \in 1 .. 3 : nums[k - 1] = 0
  BY DEF ParserInv, SkipSpace
<1>2. /\ text \in Seq(Char) /\ Len(text) \in Nat /\ i \in 1 .. Len(text) + 1
  BY <1>1 DEF TypeOK
<1>3. text' = text /\ n' = n /\ nums' = nums
  BY DEF SkipSpace
<1>4. CASE At(Space)
  <2>1. i' = i + 1 /\ pc' = pc /\ i <= Len(text) /\ text[i] \in Space
    BY <1>4 DEF SkipSpace, At
  <2>2. TypeOK'
    BY <1>1, <1>2, <1>3, <2>1 DEF TypeOK
  <2>3. \A k \in 1 .. i' - 1 : text[k] \in Space
    BY <1>1, <1>2, <2>1
  <2> QED BY <1>1, <1>3, <2>1, <2>2, <2>3 DEF ParserInv
<1>5. CASE ~At(Space)
  <2>1. pc' = "number" /\ i' = i
    BY <1>5 DEF SkipSpace
  <2>2. RunEnd(text, 1, Space) = i
    <3>1. i > Len(text) \/ text[i] \notin Space
      BY <1>2, <1>5 DEF At
    <3>2. \A k \in 1 .. i - 1 : text[k] \in Space
      BY <1>1
    <3>3. 1 \in Int /\ i \in 1 .. Len(text) + 1
      BY <1>2
    <3> HIDE DEF Space
    <3> QED BY <1>2, <3>1, <3>2, <3>3, RunEndIs
  <2>3. SpanStart(text, n + 1) = i
    BY <2>2, <1>1 DEF SpanStart
  <2>4. TypeOK'
    BY <1>1, <1>3, <2>1 DEF TypeOK
  <2> QED BY <1>1, <1>3, <2>1, <2>3, <2>4 DEF ParserInv
<1> QED BY <1>4, <1>5

LEMMA StepBeginNumber == ParserInv /\ BeginNumber => ParserInv'
<1> SUFFICES ASSUME ParserInv, BeginNumber PROVE ParserInv'
  OBVIOUS
<1>1. /\ text \in Seq(Char) /\ Len(text) \in Nat /\ i \in 1 .. Len(text) + 1 /\ n \in 0 .. 3
      /\ i = SpanStart(text, n + 1) /\ pc = "number"
      /\ n > 0 => DotBehind(text, Spans(text)[n])
      /\ \A k \in n + 1 .. 3 : nums[k - 1] = 0
      /\ \A k \in 1 .. n : IsRead(k)
  BY DEF ParserInv, TypeOK, BeginNumber
<1>2. CASE n < 3 /\ At(Digit)
  <2>1. Written(text, i, i) = 0 /\ nums[n] = 0
    <3>1. n + 1 \in n + 1 .. 3 /\ (n + 1) - 1 = n /\ i \in Int /\ i <= i
      BY <1>1, <1>2
    <3>2. Written(text, i, i) = 0
      BY <3>1, WrittenUnfolds
    <3> QED BY <1>1, <3>1, <3>2
  <2>2. InDigits(i)
    BY <1>1, <1>2, <2>1 DEF InDigits, At
  <2> QED BY <1>1, <1>2, <2>2 DEF ParserInv, TypeOK, BeginNumber, IsRead, InDigits
<1>3. CASE ~(n < 3 /\ At(Digit))
  <2>1. ASSUME NEW k \in n + 1 .. 3 PROVE NotThere(text, k)
    <3>1. n < 3 /\ ~At(Digit)
      BY <1>1, <1>3
    <3>2. RunEnd(text, i, Digit) = i
      <4>1. i \in Int /\ i \in i .. Len(text) + 1 /\ i .. i - 1 = {}
        BY <1>1
      <4>2. i > Len(text) \/ text[i] \notin Digit
        BY <1>1, <3>1 DEF At
      <4> QED BY <1>1, <4>1, <4>2, RunEndIs
    <3>3. Spans(text)[n + 1] = <<i, i>>
      BY <1>1, <3>1, <3>2, AtNumber
    <3>4. NotThere(text, n + 1) /\ n + 1 \in 1 .. 3 /\ k \in n + 1 .. 3
      BY <1>1, <3>1, <3>3 DEF NotThere
    <3> QED BY <1>1, <3>4, NoneFollows
  <2> QED BY <1>1, <1>3, <2>1 DEF ParserInv, TypeOK, BeginNumber, IsRead
<1> QED BY <1>2, <1>3

LEMMA StepReadDigit == ParserInv /\ ReadDigit => ParserInv'
<1> SUFFICES ASSUME ParserInv, ReadDigit PROVE ParserInv'
  OBVIOUS
<1> DEFINE p == SpanStart(text, n + 1)
           d == Value(text[i])
<1>1. /\ text \in Seq(Char) /\ Len(text) \in Nat /\ i \in 1 .. Len(text) + 1 /\ n \in 0 .. 2
      /\ nums \in [0 .. 2 -> -Limit .. Limit - 1] /\ pc = "digits"
      /\ i <= Len(text) /\ text[i] \in Digit /\ InDigits(p)
  BY DEF ParserInv, TypeOK, ReadDigit, At, InDigits
<1>2. d \in 0 .. 9
  BY <1>1, DigitValue
<1>3. Limit \in Nat /\ nums[n] \in Int
  BY <1>1, LimitAssumption
<1>4. nums' = [nums EXCEPT ![n] = Wrap(nums[n] * 10 + d)]
  BY DEF ReadDigit
<1>5. p \in 1 .. i /\ Written(text, p, i + 1) = Written(text, p, i) * 10 + d
  BY <1>1, WrittenUnfolds DEF InDigits
<1> HIDE DEF p, d
<1>6. Wrap(nums[n] * 10 + d) \in -Limit .. Limit - 1
  BY <1>2, <1>3, WrapFits, nums[n] * 10 + d \in Int
<1>7. /\ nums' \in [0 .. 2 -> -Limit .. Limit - 1]
      /\ nums'[n] = Wrap(nums[n] * 10 + d)
      /\ \A k \in 0 .. 2 : k # n => nums'[k] = nums[k]
  BY <1>1, <1>4, <1>6
<1>8. /\ Written(text, p, i + 1) \in Nat
      /\ Written(text, p, i + 1) < Limit => nums'[n] = Written(text, p, i + 1)
  <2>1. PICK w \in Nat : w = Written(text, p, i)
    BY <1>1 DEF InDigits
  <2>2. w * 10 + d \in Nat
    BY <1>2
  <2>3. w * 10 + d < Limit => nums[n] = w
    <3>1. w < Limit => nums[n] = w
      BY <1>1, <2>1 DEF InDigits
    <3>2. w * 10 + d < Limit => w < Limit
      BY <1>2, <1>3
    <3> QED BY <3>1, <3>2
  <2>4. w * 10 + d < Limit => Wrap(w * 10 + d) = w * 10 + d
    BY <1>3, <2>2, WrapFits
  <2> QED BY <1>5, <1>7, <2>1, <2>2, <2>3, <2>4
<1>9. text' = text /\ n' = n /\ pc' = pc /\ i' = i + 1
  BY DEF ReadDigit
<1>10. PICK q : q = p
  OBVIOUS
<1>11. q = SpanStart(text, n + 1) /\ q = SpanStart(text', n' + 1)
  BY <1>9, <1>10 DEF p
<1>12. InDigits(q)'
  <2>1. /\ n < 3 /\ q \in 1 .. i /\ q <= Len(text) /\ text[q] \in Digit
        /\ \A k \in q .. i - 1 : text[k] \in Digit
    BY <1>1, <1>10 DEF InDigits
  <2>2. q \in 1 .. i + 1 /\ \A k \in q .. (i + 1) - 1 : text[k] \in Digit
    BY <1>1, <2>1
  <2> QED BY <1>8, <1>9, <1>10, <2>1, <2>2 DEF InDigits
<1>13. \A k \in 1 .. n : IsRead(k)'
  <2> TAKE k \in 1 .. n
  <2>1. k - 1 \in 0 .. 2 /\ k - 1 # n
    BY <1>1
  <2> QED BY <1>7, <1>9, <2>1 DEF ParserInv, IsRead
<1>14. \A k \in n + 1 .. 3 : k = n + 1 \/ nums'[k - 1] = 0
  <2> TAKE k \in n + 1 .. 3
  <2>1. k = n + 1 \/ (k - 1 \in 0 .. 2 /\ k - 1 # n)
    BY <1>1
  <2> QED BY <1>1, <1>7, <2>1 DEF ParserInv
<1>15. TypeOK'
  BY <1>1, <1>7, <1>9 DEF TypeOK
<1>16. n > 0 => DotBehind(text, Spans(text)[n])
  BY <1>1 DEF ParserInv
<1> QED BY <1>1, <1>9, <1>11, <1>12, <1>13, <1>14, <1>15, <1>16 DEF ParserInv

LEMMA StepEndNumber == ParserInv /\ EndNumber => ParserInv'
<1> SUFFICES ASSUME ParserInv, EndNumber PROVE ParserInv'
  OBVIOUS
<1> DEFINE p == SpanStart(text, n + 1)
<1>1. /\ text \in Seq(Char) /\ Len(text) \in Nat /\ i \in 1 .. Len(text) + 1 /\ n \in 0 .. 2
      /\ pc = "digits" /\ ~At(Digit) /\ InDigits(p)
      /\ \A k \in 1 .. n : IsRead(k)
      /\ \A k \in n + 2 .. 3 : nums[k - 1] = 0
  BY DEF ParserInv, TypeOK, EndNumber, InDigits
<1>2. n' = n + 1 /\ text' = text /\ nums' = nums
  BY DEF EndNumber
<1>3. p \in 1 .. i /\ p # i
  BY <1>1 DEF InDigits, At
<1>4. RunEnd(text, p, Digit) = i
  <2>1. p \in Int /\ i \in p .. Len(text) + 1
    BY <1>1, <1>3
  <2>2. \A k \in p .. i - 1 : text[k] \in Digit
    BY <1>1 DEF InDigits
  <2>3. i > Len(text) \/ text[i] \notin Digit
    BY <1>1 DEF At
  <2> QED BY <1>1, <2>1, <2>2, <2>3, RunEndIs
<1>5. Spans(text)[n + 1] = <<p, i>>
  BY <1>1, <1>4, AtNumber
<1> HIDE DEF p
<1>6. IsNumber(Spans(text)[n + 1])
  <2>1. p < i
    BY <1>1, <1>3
  <2> QED BY <1>5, <2>1 DEF IsNumber
<1>7. Numbers(text)[n + 1] = Written(text, p, i)
  <2>1. n + 1 \in 1 .. 3
    BY <1>1
  <2> QED BY <1>5, <2>1 DEF Numbers
<1>8. \A k \in 1 .. n + 1 : IsRead(k)
  <2>1. IsRead(n + 1)
    BY <1>1, <1>6, <1>7, (n + 1) - 1 = n DEF IsRead, InDigits
  <2> QED BY <1>1, <2>1
<1>9. \A k \in 1 .. n' : IsRead(k)'
  BY <1>2, <1>8 DEF IsRead
<1>10. CASE At({"."})
  <2>1. pc' = "number" /\ i' = i + 1 /\ i <= Len(text) /\ text[i] = "."
    BY <1>10 DEF EndNumber, At
  <2>2. DotBehind(text, Spans(text)[n + 1])
    BY <1>5, <2>1 DEF DotBehind
  <2>3. SpanStart(text, n' + 1) = i'
    BY <1>1, <1>2, <1>5, <2>1, (n' + 1) - 1 = n + 1, n' + 1 # 1 DEF SpanStart
  <2>4. TypeOK'
    BY <1>1, <1>2, <2>1 DEF ParserInv, TypeOK
  <2> QED BY <1>1, <1>2, <1>9, <2>1, <2>2, <2>3, <2>4 DEF ParserInv
<1>11. CASE ~At({"."})
  <2>1. pc' = "done" /\ i' = i
    BY <1>11 DEF EndNumber
  <2>2. ~DotBehind(text, Spans(text)[n + 1])
    BY <1>1, <1>5, <1>11 DEF DotBehind, At
  <2>3. ASSUME NEW k \in n + 2 .. 3 PROVE NotThere(text, k)
    <3>1. n + 2 \in 1 .. 3 /\ (n + 2) - 1 = n + 1 /\ n + 2 > 1 /\ k \in n + 2 .. 3
      BY <1>1
    <3>2. ~Follows(text, n + 2)
      BY <2>2, <3>1 DEF Follows
    <3>3. NotThere(text, n + 2)
      BY <1>1, <3>1, <3>2, SpanIs
    <3> QED BY <1>1, <3>1, <3>3, NoneFollows
  <2>4. TypeOK'
    BY <1>1, <1>2, <2>1 DEF ParserInv, TypeOK
  <2> QED BY <1>1, <1>2, <1>9, <2>1, <2>3, <2>4 DEF ParserInv
<1> QED BY <1>10, <1>11

LEMMA ParserInvariant == Spec => []ParserInv
<1>1. ParserInv /\ [Next]_vars => ParserInv'
  <2>1. ParserInv /\ UNCHANGED vars => ParserInv'
    BY DEF ParserInv, TypeOK, vars, IsRead, InDigits
  <2> QED BY <2>1, StepSkipSpace, StepBeginNumber, StepReadDigit, StepEndNumber DEF Next
<1> QED BY InitParser, <1>1, PTL DEF Spec

(* The variables keep their types: the numbers stay in the range of int.    *)
THEOREM ParserTypeCorrect == Spec => []TypeOK
<1>1. ParserInv => TypeOK
  BY DEF ParserInv
<1> QED BY <1>1, ParserInvariant, PTL

(* The parser returns the version that is written, whatever the text, the   *)
(* digits and the width of int, if the numbers fit an int.                  *)
THEOREM ParserIsCorrect == Spec => []ParsesWhatIsWritten
<1>1. ParserInv => ParsesWhatIsWritten
  <2> SUFFICES ASSUME ParserInv, pc = "done", \A k \in 1 .. 3 : Numbers(text)[k] < Limit
               PROVE  Parsed = IF IsNumber(FirstSpan(text)) THEN Numbers(text) ELSE <<>>
    BY DEF ParsesWhatIsWritten
  <2>1. /\ n \in 0 .. 3 /\ \A k \in n + 1 .. 3 : NotThere(text, k) /\ nums[k - 1] = 0
        /\ \A k \in 1 .. n : IsRead(k)
    BY DEF ParserInv, TypeOK
  <2>2. Spans(text)[1] = FirstSpan(text)
    BY DEF Spans
  <2>3. CASE n = 0
    <3>1. NotThere(text, 1)
      BY <2>1, <2>3
    <3>2. ~IsNumber(FirstSpan(text))
      BY <2>2, <3>1 DEF NotThere, IsNumber
    <3> QED BY <2>3, <3>2 DEF Parsed
  <2>4. CASE n > 0
    <3>1. IsNumber(FirstSpan(text))
      BY <2>1, <2>2, <2>4 DEF IsRead
    <3>2. ASSUME NEW k \in 1 .. 3 PROVE Numbers(text)[k] = nums[k - 1]
      <4>1. CASE k <= n
        BY <2>1, <4>1 DEF IsRead
      <4>2. CASE k > n
        <5>1. NotThere(text, k) /\ nums[k - 1] = 0
          BY <2>1, <4>2
        <5>2. PICK q \in Nat : Spans(text)[k] = <<q, q>>
          BY <5>1 DEF NotThere
        <5>3. Numbers(text)[k] = Written(text, q, q)
          BY <5>2 DEF Numbers
        <5> QED BY <5>1, <5>3, WrittenUnfolds
      <4> QED BY <2>1, <4>1, <4>2
    <3>3. Numbers(text) = [k \in 1 .. 3 |-> Numbers(text)[k]]
      BY DEF Numbers
    <3>4. Numbers(text) = <<nums[0], nums[1], nums[2]>>
      <4>1. /\ Numbers(text)[1] = nums[0] /\ Numbers(text)[2] = nums[1]
            /\ Numbers(text)[3] = nums[2]
        BY <3>2, 1 - 1 = 0, 2 - 1 = 1, 3 - 1 = 2
      <4> QED BY <3>3, <4>1
    <3> QED BY <2>4, <3>1, <3>4 DEF Parsed
  <2> QED BY <2>1, <2>3, <2>4
<1> QED BY <1>1, ParserInvariant, PTL

=============================================================================
