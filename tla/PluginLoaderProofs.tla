------------------------- MODULE PluginLoaderProofs -------------------------
(***************************************************************************)
(* Machine-checked proofs about PluginLoader: its verdicts and what it     *)
(* starts, for any entries, documents, versions and any number of changes  *)
(* others make to the disk meanwhile.                                      *)
(***************************************************************************)
EXTENDS PluginLoader, SequenceTheorems, FiniteSetTheorems, TLAPS

USE NamesAssumption, ChangesAssumption, DirAssumption

(* The loader is about to judge, or judging, an entry of the listing. *)
Judging == pc \in {"check", "read", "validate", "load"}

(* The listing holds no entry twice, and the loader is inside it while it   *)
(* judges; nothing has been judged before there is a listing.               *)
ListingShape ==
  /\ \A i, j \in 1 .. Len(listed) : listed[i] = listed[j] => i = j
  /\ Judging => at \in 1 .. Len(listed)
  /\ pc = "root" => errors = <<>> /\ successes = <<>> /\ at = 1

(* What has been established of the manifest in hand, and of those given to *)
(* the host.                                                                *)
DocumentInHand ==
  /\ pc \in {"validate", "load"} => doc \in Document
  /\ pc = "load" => Valid(doc)
  /\ \A i \in 1 .. Len(hosted) : hosted[i].doc \in Document /\ Valid(hosted[i].doc)

(* Where manifests come from: the history knows what is on the disk now,    *)
(* the one in hand is the current directory's, and so is each one started.  *)
FoundOnDisk ==
  /\ \A d \in Dir : disk[d].doc \in held[d] \cup {NoDocument}
  /\ pc \in {"validate", "load"} => doc \in held[Current]
  /\ StartsWhatItFound

LoaderInv == TypeOK /\ ListingShape /\ DocumentInHand /\ OneVerdictEach /\ FoundOnDisk

----------------------------------------------------------------------------
(* Sequences *)

(* Appending something new to either part of a concatenation without        *)
(* repetitions gives one without repetitions.                               *)
LEMMA AddToFirst ==
  ASSUME NEW S, NEW a \in Seq(S), NEW b \in Seq(S), NEW x \in S,
         IsInjective(a \o b), x \notin ToSet(a \o b)
  PROVE  /\ IsInjective(Append(a, x) \o b)
         /\ ToSet(Append(a, x) \o b) \subseteq ToSet(a \o b) \cup {x}
<1> DEFINE p == Len(a)
           q == Len(b)
           c == a \o b
           d == Append(a, x) \o b
           From(i) == IF i <= p THEN i ELSE i - 1
<1>0. p \in Nat /\ q \in Nat
  BY LenProperties
<1>1. /\ DOMAIN c = 1 .. p + q
      /\ \A i \in 1 .. p + q : c[i] = IF i <= p THEN a[i] ELSE b[i - p]
  BY ConcatProperties, LenProperties
<1>2. /\ Append(a, x) \in Seq(S) /\ Len(Append(a, x)) = p + 1
      /\ \A i \in 1 .. p : Append(a, x)[i] = a[i]
      /\ Append(a, x)[p + 1] = x
  BY AppendProperties
<1>3. /\ DOMAIN d = 1 .. (p + 1) + q
      /\ \A i \in 1 .. (p + 1) + q :
           d[i] = IF i <= p + 1 THEN Append(a, x)[i] ELSE b[i - (p + 1)]
  BY <1>2, ConcatProperties, LenProperties
<1> HIDE DEF p, q, c, d
<1>4. d[p + 1] = x
  BY <1>0, <1>2, <1>3
<1>5. ASSUME NEW i \in DOMAIN d, i # p + 1
      PROVE  From(i) \in DOMAIN c /\ d[i] = c[From(i)]
  <2>1. CASE i <= p
    BY <2>1, <1>0, <1>1, <1>2, <1>3
  <2>2. CASE ~(i <= p)
    <3>1. i - 1 \in DOMAIN c /\ ~(i - 1 <= p) /\ (i - 1) - p = i - (p + 1)
      BY <2>2, <1>5, <1>0, <1>1, <1>3
    <3>2. d[i] = b[i - (p + 1)]
      BY <2>2, <1>5, <1>0, <1>3
    <3>3. c[i - 1] = b[(i - 1) - p]
      BY <3>1, <1>1
    <3> QED BY <2>2, <3>1, <3>2, <3>3
  <2> QED BY <2>1, <2>2
<1>6. \A i \in DOMAIN c : c[i] # x /\ c[i] \in ToSet(c)
  BY DEF ToSet, c
<1>7. ASSUME NEW i \in DOMAIN d, NEW j \in DOMAIN d, d[i] = d[j]
      PROVE  i = j
  <2>1. CASE i # p + 1 /\ j # p + 1
    <3>1. c[From(i)] = c[From(j)] /\ From(i) \in DOMAIN c /\ From(j) \in DOMAIN c
      BY <2>1, <1>5, <1>7
    <3>2. From(i) = From(j)
      BY <3>1 DEF IsInjective, c
    <3> QED BY <3>2, <2>1, <1>0, <1>3
  <2>2. CASE i = p + 1 \/ j = p + 1
    BY <2>2, <1>4, <1>5, <1>6, <1>7
  <2> QED BY <2>1, <2>2
<1>8. \A y \in ToSet(d) : y \in ToSet(c) \cup {x}
  BY <1>4, <1>5, <1>6 DEF ToSet
<1> QED BY <1>7, <1>8 DEF IsInjective, c, d

(* The same for the second part. *)
LEMMA AddToSecond ==
  ASSUME NEW S, NEW a \in Seq(S), NEW b \in Seq(S), NEW x \in S,
         IsInjective(a \o b), x \notin ToSet(a \o b)
  PROVE  /\ IsInjective(a \o Append(b, x))
         /\ ToSet(a \o Append(b, x)) \subseteq ToSet(a \o b) \cup {x}
<1> DEFINE p == Len(a)
           q == Len(b)
           c == a \o b
           d == a \o Append(b, x)
<1>0. p \in Nat /\ q \in Nat
  BY LenProperties
<1>1. /\ DOMAIN c = 1 .. p + q
      /\ \A i \in 1 .. p + q : c[i] = IF i <= p THEN a[i] ELSE b[i - p]
  BY ConcatProperties, LenProperties
<1>2. /\ Append(b, x) \in Seq(S) /\ Len(Append(b, x)) = q + 1
      /\ \A i \in 1 .. q : Append(b, x)[i] = b[i]
      /\ Append(b, x)[q + 1] = x
  BY AppendProperties
<1>3. /\ DOMAIN d = 1 .. p + (q + 1)
      /\ \A i \in 1 .. p + (q + 1) :
           d[i] = IF i <= p THEN a[i] ELSE Append(b, x)[i - p]
  BY SMTT(20), <1>2, ConcatProperties, LenProperties
<1> HIDE DEF p, q, c, d
<1>4. d[p + q + 1] = x
  <2>1. ~(p + q + 1 <= p) /\ (p + q + 1) - p = q + 1 /\ p + q + 1 \in 1 .. p + (q + 1)
    BY <1>0
  <2> QED BY <2>1, <1>2, <1>3
<1>5. ASSUME NEW i \in DOMAIN d, i # p + q + 1
      PROVE  i \in DOMAIN c /\ d[i] = c[i]
  <2>1. i \in 1 .. p + q
    BY <1>5, <1>0, <1>3
  <2>2. ~(i <= p) => i - p \in 1 .. q
    BY <2>1, <1>0
  <2> QED BY <2>1, <2>2, <1>0, <1>1, <1>2, <1>3
<1>6. \A i \in DOMAIN c : c[i] # x /\ c[i] \in ToSet(c)
  BY DEF ToSet, c
<1>7. ASSUME NEW i \in DOMAIN d, NEW j \in DOMAIN d, d[i] = d[j]
      PROVE  i = j
  <2>1. CASE i # p + q + 1 /\ j # p + q + 1
    BY <2>1, <1>5, <1>7 DEF IsInjective, c
  <2>2. CASE i = p + q + 1 \/ j = p + q + 1
    BY <2>2, <1>4, <1>5, <1>6, <1>7
  <2> QED BY <2>1, <2>2
<1>8. \A y \in ToSet(d) : y \in ToSet(c) \cup {x}
  BY <1>4, <1>5, <1>6 DEF ToSet
<1> QED BY <1>7, <1>8 DEF IsInjective, c, d

----------------------------------------------------------------------------
(* Steps that have something in common *)

(* What is judged now is an entry that has no verdict yet. *)
LEMMA CurrentIsFresh ==
  ASSUME LoaderInv, Judging
  PROVE  /\ at \in 1 .. Len(listed) /\ Len(listed) \in Nat
         /\ Current \in Dir /\ Current \notin ToSet(Verdicts)
         /\ {listed[i] : i \in 1 .. (at + 1) - 1}
              = {listed[i] : i \in 1 .. at - 1} \cup {Current}
<1>1. at \in 1 .. Len(listed) /\ Len(listed) \in Nat /\ Current \in Dir
  BY ElementOfSeq, LenProperties DEF LoaderInv, ListingShape, TypeOK, Current
<1>2. Current # Root
  BY <1>1
<1>3. Current \notin {listed[i] : i \in 1 .. at - 1}
  BY <1>1 DEF LoaderInv, ListingShape, Current
<1>4. {listed[i] : i \in 1 .. (at + 1) - 1}
        = {listed[i] : i \in 1 .. at - 1} \cup {Current}
  BY <1>1 DEF Current
<1> QED BY <1>1, <1>2, <1>3, <1>4 DEF LoaderInv, OneVerdictEach

(* A longer listing has the positions of a shorter one. *)
LEMMA LongerRange ==
  ASSUME NEW m \in Nat, NEW n \in Nat, m <= n
  PROVE  \A i \in 1 .. m - 1 : i \in 1 .. n - 1
OBVIOUS

(* A verdict may go to an entry the loop has passed: the range only grows.  *)
LEMMA SameVerdicts ==
  ASSUME LoaderInv, UNCHANGED <<listed, errors, successes>>, at' \in {at, at + 1}
  PROVE  OneVerdictEach'
<1>1. at \in Nat
  BY LenProperties DEF LoaderInv, TypeOK
<1>2. at' \in Nat /\ at <= at'
  <2>1. CASE at' = at
    BY <2>1, <1>1
  <2>2. CASE at' = at + 1
    BY <2>2, <1>1
  <2> QED BY <2>1, <2>2
<1>3. \A i \in 1 .. at - 1 : i \in 1 .. at' - 1
  BY <1>1, <1>2, LongerRange
<1> QED BY <1>3 DEF LoaderInv, OneVerdictEach, Verdicts

(* A step that starts nothing and changes nothing on the disk, and either    *)
(* keeps the manifest in hand or has none in hand afterwards.               *)
LEMMA SameFinds ==
  ASSUME LoaderInv, UNCHANGED <<disk, hosted, held>>,
         \/ pc' \notin {"validate", "load"}
         \/ pc = "validate" /\ UNCHANGED <<listed, at, doc>>
  PROVE  FoundOnDisk'
BY DEF LoaderInv, FoundOnDisk, StartsWhatItFound, Current

(* A directory that fails at any step gets its one verdict. *)
LEMMA FailKeepsInv ==
  ASSUME LoaderInv, Judging, Fail, UNCHANGED <<disk, changes, listed, successes, hosted, held>>,
         doc' \in Document \cup {NoDocument}
  PROVE  LoaderInv'
<1>1. /\ at \in 1 .. Len(listed) /\ Len(listed) \in Nat
      /\ Current \in Dir /\ Current \notin ToSet(Verdicts)
      /\ {listed[i] : i \in 1 .. (at + 1) - 1}
           = {listed[i] : i \in 1 .. at - 1} \cup {Current}
  BY CurrentIsFresh
<1>2. errors' = Append(errors, Current) /\ pc' = "next" /\ at' = at + 1
  BY DEF Fail
<1>3. errors \in Seq(Dir \cup {Root}) /\ successes \in Seq(Dir \cup {Root})
  <2>1. \A i \in 1 .. Len(successes) : successes[i] \in Dir \cup {Root}
    BY ElementOfSeq DEF LoaderInv, TypeOK
  <2> QED BY <2>1 DEF LoaderInv, TypeOK
<1>4. TypeOK'
  BY <1>1, <1>2, AppendProperties DEF LoaderInv, TypeOK
<1>5. ListingShape' /\ DocumentInHand'
  BY <1>2 DEF LoaderInv, ListingShape, DocumentInHand, Judging
<1>6. OneVerdictEach'
  <2>1. /\ IsInjective(Append(errors, Current) \o successes)
        /\ ToSet(Append(errors, Current) \o successes) \subseteq ToSet(Verdicts) \cup {Current}
    BY <1>1, <1>3, AddToFirst DEF LoaderInv, OneVerdictEach, Verdicts
  <2>2. Verdicts' = Append(errors, Current) \o successes
    BY <1>2 DEF Verdicts
  <2>3. ToSet(Verdicts) \subseteq {Root} \cup {listed[i] : i \in 1 .. at - 1}
    BY DEF LoaderInv, OneVerdictEach
  <2>4. ToSet(Verdicts') \subseteq {Root} \cup {listed[i] : i \in 1 .. (at + 1) - 1}
    BY <2>1, <2>2, <2>3, <1>1
  <2> QED BY <2>1, <2>2, <2>4, <1>2 DEF OneVerdictEach
<1>7. FoundOnDisk'
  BY <1>2, SameFinds
<1> QED BY <1>4, <1>5, <1>6, <1>7 DEF LoaderInv

----------------------------------------------------------------------------
(* The invariant *)

LEMMA InitLoader == Init => LoaderInv
<1> SUFFICES ASSUME Init PROVE LoaderInv
  OBVIOUS
<1>1. TypeOK
  <2>1. \A d \in Dir : disk[d].doc \in Document \cup {NoDocument}
    BY DEF Init, Entry
  <2>2. held \in [Dir -> SUBSET Document]
    BY <2>1 DEF Init
  <2> QED BY <2>2, EmptySeq DEF Init, TypeOK
<1>2. ListingShape /\ DocumentInHand /\ FoundOnDisk
  BY DEF Init, ListingShape, DocumentInHand, FoundOnDisk, StartsWhatItFound, Judging
<1>3. Verdicts = <<>>
  BY DEF Init, Verdicts
<1>4. OneVerdictEach
  BY <1>3 DEF OneVerdictEach, IsInjective, ToSet
<1> QED BY <1>1, <1>2, <1>4 DEF LoaderInv

LEMMA StepLoader == LoaderInv /\ [Next]_vars => LoaderInv'
<1> SUFFICES ASSUME LoaderInv, [Next]_vars PROVE LoaderInv'
  OBVIOUS
<1> USE DEF LoaderInv
<1>1. CASE LoadAll
  <2> DEFINE S == {d \in Dir : disk[d].kind # "absent"}
  <2>1. IsFiniteSet(S)
    BY FS_Subset
  <2>2. Cardinality(S) \in Nat
    BY <2>1, FS_CardinalityType
  <2>3. listed' \in [1 .. Cardinality(S) -> Dir]
        /\ \A i, j \in 1 .. Cardinality(S) : i # j => listed'[i] # listed'[j]
    BY <1>1 DEF LoadAll, SetToSeqs
  <2> HIDE DEF S
  <2>4. listed' \in Seq(Dir) /\ Len(listed') = Cardinality(S)
    BY <2>2, <2>3
  <2>5. /\ pc = "root" /\ pc' = "next" /\ at = 1 /\ errors = <<>> /\ successes = <<>>
        /\ UNCHANGED <<disk, changes, at, doc, successes, errors, hosted, held>>
    BY <1>1 DEF LoadAll, ListingShape
  <2>6. TypeOK'
    BY <2>2, <2>4, <2>5 DEF TypeOK
  <2>7. ListingShape'
    BY <2>3, <2>4, <2>5 DEF ListingShape, Judging
  <2>8. DocumentInHand' /\ FoundOnDisk'
    BY <2>5, SameFinds DEF DocumentInHand
  <2>9. OneVerdictEach'
    <3>1. Verdicts' = <<>>
      BY <2>5 DEF Verdicts
    <3> QED BY <3>1 DEF OneVerdictEach, IsInjective, ToSet
  <2> QED BY <2>6, <2>7, <2>8, <2>9
<1>2. CASE NoRoot
  <2>1. /\ errors' = <<Root>> /\ pc' = "done" /\ successes' = <<>>
        /\ UNCHANGED <<disk, changes, listed, at, doc, successes, hosted, held>>
    BY <1>2 DEF NoRoot, ListingShape
  <2>2. TypeOK'
    BY <2>1 DEF TypeOK
  <2>3. ListingShape' /\ DocumentInHand' /\ FoundOnDisk'
    BY <2>1, SameFinds DEF ListingShape, DocumentInHand, Judging
  <2>4. OneVerdictEach'
    <3>1. Verdicts' = <<Root>>
      BY <2>1 DEF Verdicts
    <3> QED BY <3>1 DEF OneVerdictEach, IsInjective, ToSet
  <2> QED BY <2>2, <2>3, <2>4
<1>3. CASE NextEntry
  <2>1. /\ pc = "next" /\ at <= Len(listed) /\ Len(listed) \in Nat
        /\ UNCHANGED <<disk, changes, listed, doc, successes, errors, hosted, held>>
        /\ \/ pc' = "check" /\ at' = at
           \/ pc' = "next" /\ at' = at + 1
    BY <1>3, LenProperties DEF NextEntry, TypeOK
  <2>2. TypeOK'
    BY <2>1 DEF TypeOK
  <2>3. ListingShape'
    BY <2>1 DEF ListingShape, Judging, TypeOK
  <2>4. DocumentInHand'
    BY <2>1 DEF DocumentInHand
  <2>5. OneVerdictEach' /\ FoundOnDisk'
    BY <2>1, SameVerdicts, SameFinds
  <2> QED BY <2>2, <2>3, <2>4, <2>5
<1>4. CASE ListingEnds \/ ListingFails
  <2>1. pc' = "done" /\ UNCHANGED <<disk, changes, listed, at, doc, successes, errors, hosted, held>>
    BY <1>4 DEF ListingEnds, ListingFails
  <2>2. OneVerdictEach' /\ FoundOnDisk'
    BY <2>1, SameVerdicts, SameFinds
  <2> QED BY <2>1, <2>2 DEF TypeOK, ListingShape, DocumentInHand, Judging
<1>5. CASE CheckDirectory
  <2>1. CASE disk[Current].kind = "dir"
    <3>1. /\ pc = "check" /\ pc' = "read"
          /\ UNCHANGED <<disk, changes, listed, at, doc, successes, errors, hosted, held>>
      BY <1>5, <2>1 DEF CheckDirectory
    <3>2. OneVerdictEach' /\ FoundOnDisk'
      BY <3>1, SameVerdicts, SameFinds
    <3> QED BY <3>1, <3>2 DEF TypeOK, ListingShape, DocumentInHand, Judging
  <2>2. CASE disk[Current].kind # "dir"
    <3>1. Judging /\ Fail /\ UNCHANGED <<disk, changes, listed, doc, successes, hosted, held>>
      BY <1>5, <2>2 DEF CheckDirectory, Judging
    <3> QED BY <3>1, FailKeepsInv DEF TypeOK
  <2> QED BY <2>1, <2>2
<1>6. CASE ReadManifest
  <2> DEFINE d == disk[Current].doc
  <2>1. d \in Document \cup {NoDocument}
    <3>1. Current \in Dir
      BY <1>6, CurrentIsFresh DEF ReadManifest, Judging
    <3> QED BY <3>1 DEF TypeOK, Entry
  <2>2. CASE d # NoDocument /\ Readable(d)
    <3>1. /\ pc = "read" /\ pc' = "validate" /\ doc' = d
          /\ UNCHANGED <<disk, changes, listed, at, successes, errors, hosted, held>>
      BY <1>6, <2>2 DEF ReadManifest
    <3>2. doc' \in Document
      BY <2>1, <2>2, <3>1
    <3>4. FoundOnDisk'
      <4>1. Current \in Dir /\ Current' = Current
        BY <3>1, CurrentIsFresh DEF Judging, Current
      <4>2. doc' \in held[Current]
        BY <2>2, <3>1, <4>1 DEF FoundOnDisk
      <4> QED BY <3>1, <4>1, <4>2 DEF FoundOnDisk, StartsWhatItFound
    <3> HIDE DEF d
    <3>3. OneVerdictEach'
      BY <3>1, SameVerdicts
    <3> QED BY <3>1, <3>2, <3>3, <3>4 DEF TypeOK, ListingShape, DocumentInHand, Judging
  <2>3. CASE ~(d # NoDocument /\ Readable(d))
    <3>1. Judging /\ Fail /\ UNCHANGED <<disk, changes, listed, doc, successes, hosted, held>>
      BY <1>6, <2>3 DEF ReadManifest, Judging
    <3> QED BY <3>1, FailKeepsInv DEF TypeOK
  <2> QED BY <2>2, <2>3
<1>7. CASE Validate
  <2>1. CASE Valid(doc)
    <3>1. /\ pc = "validate" /\ pc' = "load"
          /\ UNCHANGED <<disk, changes, listed, at, doc, successes, errors, hosted, held>>
      BY <1>7, <2>1 DEF Validate
    <3>2. OneVerdictEach' /\ FoundOnDisk'
      BY <3>1, SameVerdicts, SameFinds
    <3>3. DocumentInHand'
      BY <3>1, <2>1 DEF DocumentInHand
    <3> QED BY <3>1, <3>2, <3>3 DEF TypeOK, ListingShape, Judging
  <2>2. CASE ~Valid(doc)
    <3>1. Judging /\ Fail /\ UNCHANGED <<disk, changes, listed, doc, successes, hosted, held>>
      BY <1>7, <2>2 DEF Validate, Judging
    <3> QED BY <3>1, FailKeepsInv DEF TypeOK
  <2> QED BY <2>1, <2>2
<1>8. CASE Started
  <2>1. /\ pc = "load" /\ pc' = "next" /\ at' = at + 1
        /\ hosted' = Append(hosted, [dir |-> Current, doc |-> doc])
        /\ successes' = Append(successes, Current)
        /\ UNCHANGED <<disk, changes, listed, doc, errors, held>>
    BY <1>8 DEF Started
  <2>2. /\ at \in 1 .. Len(listed) /\ Len(listed) \in Nat
        /\ Current \in Dir /\ Current \notin ToSet(Verdicts)
        /\ {listed[i] : i \in 1 .. (at + 1) - 1}
             = {listed[i] : i \in 1 .. at - 1} \cup {Current}
    BY <2>1, CurrentIsFresh DEF Judging
  <2>3. doc \in Document /\ Valid(doc)
    BY <2>1 DEF DocumentInHand
  <2>4. /\ Len(hosted) \in Nat /\ Len(hosted') = Len(hosted) + 1
        /\ hosted' \in Seq([dir : Dir, doc : Document])
        /\ \A i \in 1 .. Len(hosted) : hosted'[i] = hosted[i]
        /\ hosted'[Len(hosted) + 1] = [dir |-> Current, doc |-> doc]
    BY <2>1, <2>2, <2>3, AppendProperties, LenProperties DEF TypeOK
  <2>5. TypeOK'
    BY <2>1, <2>2, <2>4, AppendProperties DEF TypeOK
  <2>6. ListingShape'
    BY <2>1 DEF ListingShape, Judging
  <2>7. DocumentInHand'
    BY <2>1, <2>3, <2>4 DEF DocumentInHand
  <2>8. FoundOnDisk'
    <3>1. hosted'[Len(hosted) + 1].doc \in held[hosted'[Len(hosted) + 1].dir]
      BY <2>1, <2>4 DEF FoundOnDisk
    <3>2. \A i \in 1 .. Len(hosted) : hosted'[i].doc \in held[hosted'[i].dir]
      BY <2>4 DEF FoundOnDisk, StartsWhatItFound
    <3>3. \A i \in 1 .. Len(hosted') : i \in 1 .. Len(hosted) \/ i = Len(hosted) + 1
      BY <2>4
    <3> QED BY <2>1, <3>1, <3>2, <3>3 DEF FoundOnDisk, StartsWhatItFound
  <2>9. OneVerdictEach'
    <3>1. errors \in Seq(Dir \cup {Root}) /\ successes \in Seq(Dir \cup {Root})
      <4>1. \A i \in 1 .. Len(successes) : successes[i] \in Dir \cup {Root}
        BY ElementOfSeq DEF TypeOK
      <4> QED BY <4>1 DEF TypeOK
    <3>2. /\ IsInjective(errors \o Append(successes, Current))
          /\ ToSet(errors \o Append(successes, Current)) \subseteq ToSet(Verdicts) \cup {Current}
      BY <2>2, <3>1, AddToSecond DEF OneVerdictEach, Verdicts
    <3>3. Verdicts' = errors \o Append(successes, Current)
      BY <2>1 DEF Verdicts
    <3>4. ToSet(Verdicts) \subseteq {Root} \cup {listed[i] : i \in 1 .. at - 1}
      BY DEF OneVerdictEach
    <3>5. ToSet(Verdicts') \subseteq {Root} \cup {listed[i] : i \in 1 .. (at + 1) - 1}
      BY <3>2, <3>3, <3>4, <2>2
    <3> QED BY <3>2, <3>3, <3>5, <2>1 DEF OneVerdictEach
  <2> QED BY <2>5, <2>6, <2>7, <2>8, <2>9
<1>9. CASE NotStarted
  <2>1. Judging /\ Fail /\ UNCHANGED <<disk, changes, listed, doc, successes, hosted, held>>
    BY <1>9 DEF NotStarted, Judging
  <2> QED BY <2>1, FailKeepsInv DEF TypeOK
<1>10. ASSUME NEW d \in Dir, NEW e \in Entry, Change(d, e) PROVE LoaderInv'
  <2>1. /\ changes < MaxChanges /\ changes' = changes + 1 /\ disk' = [disk EXCEPT ![d] = e]
        /\ held' = [held EXCEPT ![d] = @ \cup ({e.doc} \ {NoDocument})]
        /\ UNCHANGED <<pc, listed, at, doc, successes, errors, hosted>>
    BY <1>10 DEF Change
  <2>0. e.doc \in Document \cup {NoDocument}
    BY DEF Entry
  <2>2. TypeOK'
    BY <2>0, <2>1 DEF TypeOK
  <2>3. ListingShape' /\ DocumentInHand'
    BY <2>1 DEF ListingShape, DocumentInHand, Judging
  <2>4. OneVerdictEach'
    BY <2>1, SameVerdicts
  <2>5. held' \in [Dir -> SUBSET Document] /\ \A x \in Dir : held[x] \subseteq held'[x]
    BY <2>1, <2>2 DEF TypeOK
  <2>6. \A x \in Dir : disk'[x].doc \in held'[x] \cup {NoDocument}
    BY <2>0, <2>1 DEF FoundOnDisk, TypeOK
  <2>7. pc \in {"validate", "load"} => doc \in held'[Current]
    BY <2>5, CurrentIsFresh DEF FoundOnDisk, Judging
  <2>8. StartsWhatItFound'
    <3>1. ASSUME NEW i \in 1 .. Len(hosted) PROVE hosted[i].dir \in Dir
      <4>1. hosted[i] \in [dir : Dir, doc : Document]
        BY ElementOfSeq DEF TypeOK
      <4> QED BY <4>1
    <3> QED BY <2>1, <2>5, <3>1 DEF FoundOnDisk, StartsWhatItFound
  <2> QED BY <2>1, <2>2, <2>3, <2>4, <2>6, <2>7, <2>8 DEF FoundOnDisk, Current
<1>11. CASE UNCHANGED vars
  <2>1. OneVerdictEach'
    BY <1>11, SameVerdicts DEF vars
  <2>2. FoundOnDisk'
    BY <1>11 DEF vars, FoundOnDisk, StartsWhatItFound, Current
  <2> QED BY <1>11, <2>1, <2>2 DEF vars, TypeOK, ListingShape, DocumentInHand, Judging
<1> QED
  BY <1>1, <1>2, <1>3, <1>4, <1>5, <1>6, <1>7, <1>8, <1>9, <1>10, <1>11 DEF Next, Loader

----------------------------------------------------------------------------
(* Theorems *)

(* The invariant holds in every reachable state. *)
THEOREM LoaderInvariance == Spec => []LoaderInv
<1>1. Init => LoaderInv
  BY InitLoader
<1>2. LoaderInv /\ [Next]_vars => LoaderInv'
  BY StepLoader
<1> QED BY <1>1, <1>2, PTL DEF Spec

(* The loader's variables keep their types.  (LoaderFacadeMulti.cpp) *)
THEOREM LoaderTypes == Spec => []TypeOK
<1>1. LoaderInv => TypeOK
  BY DEF LoaderInv
<1> QED BY <1>1, LoaderInvariance, PTL

(* No directory is judged twice, whatever others do to it meanwhile.        *)
(* (LoaderFacadeMulti.cpp:74-83)                                            *)
THEOREM NothingJudgedTwice == Spec => []OneVerdictEach
<1>1. LoaderInv => OneVerdictEach
  BY DEF LoaderInv
<1> QED BY <1>1, LoaderInvariance, PTL

(* Each plugin is started with a manifest of its own directory, for any     *)
(* number of directories and of changes made under the loader's hands.      *)
(* (LoaderFacadeMulti.cpp:35-56, 77-82)                                     *)
THEOREM StartsAsFound == Spec => []StartsWhatItFound
<1>1. LoaderInv => StartsWhatItFound
  BY DEF LoaderInv, FoundOnDisk
<1> QED BY <1>1, LoaderInvariance, PTL

----------------------------------------------------------------------------
(* Nothing is lost *)

(* What has a verdict, and what should get one. *)
Judged == ToSet(errors) \cup ToSet(successes)
Directories == {d \in Dir : disk[d].kind = "dir"}

(* The invariant behind NoneIsLost, for an undisturbed disk: the listing    *)
(* has every directory, those passed have a verdict, and nothing else has.  *)
NothingPassedBy ==
  /\ pc # "root" /\ Root \notin Judged =>
       \A d \in Directories : \E i \in 1 .. Len(listed) : listed[i] = d
  /\ \A i \in 1 .. at - 1 : listed[i] \in Directories => listed[i] \in Judged
  /\ Judged \subseteq {Root} \cup Directories
  /\ Judging => Current \in Directories

(* The elements of longer sequences. *)
LEMMA ToSetAppended ==
  ASSUME NEW S, NEW s \in Seq(S), NEW x \in S
  PROVE  ToSet(Append(s, x)) = ToSet(s) \cup {x}
<1> DEFINE n == Len(s)  t == Append(s, x)
<1>1. /\ n \in Nat /\ DOMAIN s = 1 .. n /\ DOMAIN t = 1 .. (n + 1)
      /\ t[n + 1] = x /\ \A i \in 1 .. n : t[i] = s[i]
  BY AppendProperties, LenProperties
<1> HIDE DEF t, n
<1>2. ToSet(t) = ToSet(s) \cup {x}
  <2>1. ASSUME NEW i \in DOMAIN t PROVE t[i] \in ToSet(s) \cup {x}
    BY <1>1 DEF ToSet
  <2>2. ASSUME NEW i \in DOMAIN s PROVE s[i] \in ToSet(t)
    BY <1>1 DEF ToSet
  <2>3. x \in ToSet(t)
    BY <1>1 DEF ToSet
  <2> QED BY <2>1, <2>2, <2>3 DEF ToSet
<1> QED BY <1>2 DEF t

LEMMA ToSetConcat ==
  ASSUME NEW S, NEW a \in Seq(S), NEW b \in Seq(S)
  PROVE  ToSet(a \o b) = ToSet(a) \cup ToSet(b)
<1> DEFINE p == Len(a)  q == Len(b)  c == a \o b
<1>1. /\ p \in Nat /\ q \in Nat /\ DOMAIN a = 1 .. p /\ DOMAIN b = 1 .. q
      /\ DOMAIN c = 1 .. p + q
      /\ \A i \in 1 .. p + q : c[i] = IF i <= p THEN a[i] ELSE b[i - p]
  BY ConcatProperties, LenProperties
<1> HIDE DEF p, q, c
<1>2. ASSUME NEW i \in DOMAIN c PROVE c[i] \in ToSet(a) \cup ToSet(b)
  <2>1. CASE i <= p
    BY <1>1, <2>1 DEF ToSet
  <2>2. CASE ~ (i <= p)
    <3>1. i - p \in DOMAIN b /\ c[i] = b[i - p]
      BY <1>1, <2>2
    <3> QED BY <3>1 DEF ToSet
  <2> QED BY <2>1, <2>2
<1>3. ASSUME NEW i \in DOMAIN a PROVE a[i] \in ToSet(c)
  <2>1. i \in DOMAIN c /\ c[i] = a[i]
    BY <1>1
  <2> QED BY <2>1 DEF ToSet
<1>4. ASSUME NEW i \in DOMAIN b PROVE b[i] \in ToSet(c)
  <2>1. i + p \in DOMAIN c /\ ~ (i + p <= p) /\ (i + p) - p = i
    BY <1>1
  <2>2. c[i + p] = b[i]
    BY <1>1, <2>1
  <2> QED BY <2>1, <2>2 DEF ToSet
<1>5. ToSet(c) = ToSet(a) \cup ToSet(b)
  BY <1>2, <1>3, <1>4 DEF ToSet
<1> QED BY <1>5 DEF c

(* The list of verdicts, as a set. *)
LEMMA VerdictsAreJudged ==
  ASSUME TypeOK
  PROVE  ToSet(Verdicts) = Judged
<1>1. \A i \in 1 .. Len(successes) : successes[i] \in Dir \cup {Root}
  BY ElementOfSeq DEF TypeOK
<1>2. errors \in Seq(Dir \cup {Root}) /\ successes \in Seq(Dir \cup {Root})
  BY <1>1 DEF TypeOK
<1> QED BY <1>2, ToSetConcat DEF Verdicts, Judged

(* A listing of a finite set leaves nothing out: an injection into a set as *)
(* large as its domain.                                                     *)
LEMMA SetToSeqsCovers ==
  ASSUME NEW S, IsFiniteSet(S), NEW f \in SetToSeqs(S)
  PROVE  /\ Len(f) = Cardinality(S) /\ Cardinality(S) \in Nat
         /\ \A x \in S : \E i \in 1 .. Len(f) : f[i] = x
<1> DEFINE n == Cardinality(S)  D == 1 .. n
<1>1. n \in Nat
  BY FS_CardinalityType
<1>2. f \in [D -> S] /\ \A i, j \in D : i # j => f[i] # f[j]
  BY DEF SetToSeqs
<1>3. Len(f) = n
  BY <1>1, <1>2
<1>4. IsFiniteSet(D) /\ Cardinality(D) = n
  BY <1>1, FS_Interval
<1> HIDE DEF n, D
<1>5. ASSUME NEW x \in S, \A i \in D : f[i] # x
      PROVE  FALSE
  <2> DEFINE T == S \ {x}
  <2>1. IsFiniteSet(T) /\ Cardinality(T) = n - 1
    BY FS_RemoveElement DEF n
  <2>2. f \in [D -> T]
    BY <1>2, <1>5
  <2>3. Cardinality(T) < Cardinality(D)
    BY <1>1, <1>4, <2>1
  <2> HIDE DEF T
  <2>4. \E i, j \in D : i # j /\ f[i] = f[j]
    BY <1>4, <2>1, <2>2, <2>3, FS_PigeonHole
  <2> QED BY <1>2, <2>4
<1> QED BY <1>1, <1>3, <1>5 DEF n, D

(* Nothing is listed or judged at first. *)
LEMMA CompleteAtFirst ==
  ASSUME Init
  PROVE  NothingPassedBy
BY DEF Init, NothingPassedBy, Judged, Judging, ToSet

(* A verdict for the directory in hand. *)
LEMMA JudgingCompletes ==
  ASSUME LoaderInv, NothingPassedBy, Judging,
         pc' = "next", at' = at + 1, UNCHANGED <<disk, listed>>,
         Judged' = Judged \cup {Current}
  PROVE  NothingPassedBy'
<1>1. at \in 1 .. Len(listed) /\ Len(listed) \in Nat /\ Current \in Dir
  BY CurrentIsFresh
<1>2. Directories' = Directories /\ Current \in Directories
  BY DEF Directories, NothingPassedBy
<1>3. \A i \in 1 .. at' - 1 : i \in 1 .. at - 1 \/ i = at
  BY <1>1
<1>4. \A i \in 1 .. at' - 1 : listed[i] \in Directories => listed[i] \in Judged'
  BY <1>3 DEF NothingPassedBy, Current
<1>5. pc # "root"
  BY DEF Judging
<1> QED
  BY <1>2, <1>4, <1>5 DEF NothingPassedBy, Judging

(* A failure is a verdict. *)
LEMMA FailCompletes ==
  ASSUME LoaderInv, NothingPassedBy, Judging, Fail, UNCHANGED <<disk, listed, successes>>
  PROVE  NothingPassedBy'
<1>1. errors \in Seq(Dir \cup {Root}) /\ Current \in Dir \cup {Root}
  BY CurrentIsFresh DEF LoaderInv, TypeOK
<1>2. errors' = Append(errors, Current) /\ pc' = "next" /\ at' = at + 1
  BY DEF Fail
<1>3. Judged' = Judged \cup {Current}
  BY <1>1, <1>2, ToSetAppended DEF Judged
<1> QED BY <1>2, <1>3, JudgingCompletes

(* Every step of the loader goes over the listing without a gap. *)
LEMMA StepCompletes ==
  ASSUME LoaderInv, NothingPassedBy, Next, changes' = 0
  PROVE  NothingPassedBy'
<1> TypeOK /\ Len(listed) \in Nat
  BY LenProperties DEF LoaderInv, TypeOK
<1>0. ASSUME NEW d \in Dir, NEW e \in Entry, Change(d, e) PROVE FALSE
  BY <1>0 DEF Change, TypeOK
<1> USE DEF Judging
<1>1. CASE LoadAll
  <2> DEFINE S == {d \in Dir : disk[d].kind # "absent"}
  <2>1. IsFiniteSet(S)
    BY FS_Subset
  <2>2. \A x \in S : \E i \in 1 .. Len(listed') : listed'[i] = x
    <3> listed' \in SetToSeqs(S)
      BY <1>1 DEF LoadAll
    <3> HIDE DEF S
    <3> QED BY <2>1, SetToSeqsCovers
  <2>3. /\ pc = "root" /\ pc' = "next" /\ at' = 1
        /\ UNCHANGED <<disk, errors, successes>>
    BY <1>1 DEF LoadAll, LoaderInv, ListingShape
  <2>4. Directories' = Directories /\ Directories \subseteq S /\ Judged' = Judged
    BY <2>3 DEF Directories, Judged
  <2> HIDE DEF S
  <2>5. \A d \in Directories' : \E i \in 1 .. Len(listed') : listed'[i] = d
    BY <2>2, <2>4
  <2>6. 1 .. at' - 1 = {}
    BY <2>3
  <2> QED BY <2>3, <2>4, <2>5, <2>6 DEF NothingPassedBy
<1>2. CASE NoRoot
  <2>1. /\ errors' = <<Root>> /\ successes' = <<>> /\ at' = 1 /\ pc' = "done" /\ disk' = disk
    BY <1>2 DEF NoRoot, LoaderInv, ListingShape
  <2>2. Judged' = {Root} /\ 1 .. at' - 1 = {}
    BY <2>1 DEF Judged, ToSet
  <2> QED BY <2>1, <2>2 DEF NothingPassedBy
<1>3. CASE NextEntry
  <2>1. /\ pc = "next" /\ at <= Len(listed)
        /\ UNCHANGED <<disk, changes, listed, successes, errors>>
        /\ \/ pc' = "check" /\ at' = at /\ disk[Current].kind = "dir"
           \/ pc' = "next" /\ at' = at + 1 /\ disk[Current].kind # "dir"
    BY <1>3 DEF NextEntry, IsDirectory
  <2>2. at \in 1 .. Len(listed) /\ Current \in Dir
    BY <2>1, ElementOfSeq DEF TypeOK, Current
  <2>3. Directories' = Directories /\ Judged' = Judged
    BY <2>1 DEF Directories, Judged
  <2>4. CASE pc' = "check"
    <3>1. Current' = Current /\ Current \in Directories
      BY <2>1, <2>2, <2>4 DEF Current, Directories
    <3> QED BY <2>1, <2>3, <2>4, <3>1 DEF NothingPassedBy
  <2>5. CASE pc' = "next"
    <3>1. Current \notin Directories /\ at' = at + 1
      BY <2>1, <2>2, <2>5 DEF Directories
    <3>2. \A i \in 1 .. at' - 1 : i \in 1 .. at - 1 \/ i = at
      BY <2>2, <3>1
    <3>3. \A i \in 1 .. at' - 1 : listed[i] \in Directories => listed[i] \in Judged
      BY <3>1, <3>2 DEF NothingPassedBy, Current
    <3> QED BY <2>1, <2>3, <2>5, <3>3 DEF NothingPassedBy
  <2> QED BY <2>1, <2>4, <2>5
<1>4. CASE ListingEnds \/ ListingFails
  BY <1>4 DEF ListingEnds, ListingFails, NothingPassedBy, Directories, Judged
<1>5. CASE CheckDirectory \/ ReadManifest \/ Validate \/ NotStarted
  <2>1. CASE Fail
    <3>1. pc \in {"check", "read", "validate", "load"} /\ UNCHANGED <<disk, listed, successes>>
      BY <1>5 DEF CheckDirectory, ReadManifest, Validate, NotStarted
    <3> QED BY <2>1, <3>1, FailCompletes
  <2>2. CASE ~Fail
    <3>1. /\ pc \in {"check", "read", "validate"} /\ pc' \in {"read", "validate", "load"}
          /\ UNCHANGED <<disk, listed, at, successes, errors>>
      BY <1>5, <2>2 DEF CheckDirectory, ReadManifest, Validate, NotStarted
    <3> QED BY <3>1 DEF NothingPassedBy, Directories, Judged, Current
  <2> QED BY <2>1, <2>2
<1>6. CASE Started
  <2>1. /\ pc = "load" /\ pc' = "next" /\ at' = at + 1
        /\ successes' = Append(successes, Current)
        /\ UNCHANGED <<disk, listed, errors>>
    BY <1>6 DEF Started
  <2>2. Current \in Dir
    BY <2>1, CurrentIsFresh
  <2>3. Judged' = Judged \cup {Current}
    BY <2>1, <2>2, ToSetAppended DEF Judged, TypeOK
  <2> QED BY <2>1, <2>3, JudgingCompletes
<1> QED
  BY <1>0, <1>1, <1>2, <1>3, <1>4, <1>5, <1>6 DEF Next, Loader

(* Once somebody has changed the disk there is no going back. *)
LEMMA UndisturbedCompletes ==
  ASSUME LoaderInv, changes = 0 => NothingPassedBy, [Next]_vars
  PROVE  changes' = 0 => NothingPassedBy'
<1> SUFFICES ASSUME changes' = 0 PROVE NothingPassedBy'
  OBVIOUS
<1>1. CASE UNCHANGED vars
  BY <1>1 DEF vars, NothingPassedBy, Directories, Judged, Judging, Current
<1>2. CASE Next
  <2>1. changes = 0
    BY <1>2 DEF Next, Loader, LoadAll, NoRoot, NextEntry, ListingEnds, ListingFails, CheckDirectory,
       ReadManifest, Validate, Started, NotStarted, Change, LoaderInv, TypeOK
  <2> QED BY <1>2, <2>1, StepCompletes
<1> QED BY <1>1, <1>2

(* Undisturbed, a listing read to its end gives every sub-directory its     *)
(* verdict, those behind a failure included.  (LoaderFacadeMulti.cpp:79-82) *)
THEOREM NoneIsPassedBy == Spec => []NoneIsLost
<1> DEFINE Complete == changes = 0 => NothingPassedBy
<1>1. Init => Complete
  BY CompleteAtFirst
<1>2. LoaderInv /\ Complete /\ [Next]_vars => Complete'
  BY UndisturbedCompletes
<1>3. LoaderInv /\ Complete => NoneIsLost
  <2> SUFFICES ASSUME LoaderInv, NothingPassedBy,
                      pc = "done", at > Len(listed), Root \notin ToSet(errors)
               PROVE  ToSet(Verdicts) = Directories
    BY DEF NoneIsLost, Directories
  <2>1. TypeOK /\ Len(listed) \in Nat
    BY LenProperties DEF LoaderInv, TypeOK
  <2>2. ToSet(Verdicts) = Judged
    BY <2>1, VerdictsAreJudged
  <2>3. Root \notin Judged
    BY <2>1, ElementOfSeq, LenProperties DEF Judged, ToSet, TypeOK
  <2>4. \A i \in 1 .. Len(listed) : i \in 1 .. at - 1
    BY <2>1 DEF TypeOK
  <2>5. Directories \subseteq Judged
    BY <2>3, <2>4 DEF NothingPassedBy
  <2> QED BY <2>2, <2>3, <2>5 DEF NothingPassedBy
<1> QED
  BY <1>1, <1>2, <1>3, LoaderInvariance, PTL DEF Spec

----------------------------------------------------------------------------
(* The rules against their reference *)

Small(v) == v.major \in 0 .. 99 /\ v.minor \in 0 .. 99 /\ v.patch \in 0 .. 99

(* The versions of the host and of the manifests have components below 100. *)
SmallVersions ==
  /\ Small(HostVersion)
  /\ \A d \in Document : d.minHost \notin {NoValue, Unparsable} => Small(d.minHost)

(* The policy makeValidationInput uses: both rules apply. *)
DefaultPolicy == Policy.requireSameMajor /\ Policy.requireHostMinorGreaterEqual

(* Numbers to base 100 compare digit by digit. *)
LEMMA Digits ==
  ASSUME NEW x1 \in 0 .. 99, NEW x2 \in 0 .. 99, NEW x3 \in 0 .. 99,
         NEW y1 \in 0 .. 99, NEW y2 \in 0 .. 99, NEW y3 \in 0 .. 99
  PROVE  (x1 * 100 + x2) * 100 + x3 < (y1 * 100 + y2) * 100 + y3
           <=> \/ x1 < y1
               \/ x1 = y1 /\ x2 < y2
               \/ x1 = y1 /\ x2 = y2 /\ x3 < y3
OBVIOUS

(* Below 100 the numbers of two versions compare as the versions do. *)
LEMMA LessIsByNumber ==
  ASSUME NEW a \in Semver, NEW b \in Semver, Small(a), Small(b)
  PROVE  Less(a, b) <=> Number(a) < Number(b)
<1>1. /\ a.major \in 0 .. 99 /\ a.minor \in 0 .. 99 /\ a.patch \in 0 .. 99
      /\ b.major \in 0 .. 99 /\ b.minor \in 0 .. 99 /\ b.patch \in 0 .. 99
  BY DEF Small
<1>2. PICK x1 \in 0 .. 99, x2 \in 0 .. 99, x3 \in 0 .. 99 :
        x1 = a.major /\ x2 = a.minor /\ x3 = a.patch
  BY <1>1
<1>3. PICK y1 \in 0 .. 99, y2 \in 0 .. 99, y3 \in 0 .. 99 :
        y1 = b.major /\ y2 = b.minor /\ y3 = b.patch
  BY <1>1
<1>4. /\ Number(a) = (x1 * 100 + x2) * 100 + x3
      /\ Number(b) = (y1 * 100 + y2) * 100 + y3
  BY <1>2, <1>3 DEF Number
<1>5. Less(a, b) <=> \/ x1 < y1
                     \/ x1 = y1 /\ x2 < y2
                     \/ x1 = y1 /\ x2 = y2 /\ x3 < y3
  BY <1>2, <1>3 DEF Less
<1>6. (x1 * 100 + x2) * 100 + x3 < (y1 * 100 + y2) * 100 + y3
        <=> \/ x1 < y1
            \/ x1 = y1 /\ x2 < y2
            \/ x1 = y1 /\ x2 = y2 /\ x3 < y3
  OBVIOUS
<1> QED BY <1>4, <1>5, <1>6

(* Whatever PLUGIN_VERSION says, the host has a version. *)
LEMMA HostHasVersion == HostVersion \in Semver
BY HostAssumption DEF HostVersion, Semver

(* Under the default policy validate accepts a manifest exactly when the    *)
(* plugin is fit for this host, whatever the manifest says.                 *)
(* (ManifestValidator.cpp, Semver.cpp:48-60)                                *)
LEMMA ValidIsFit ==
  ASSUME SmallVersions, DefaultPolicy, NEW d \in Document
  PROVE  Valid(d) <=> Fit(d)
<1> USE HostAssumption, PlatformAssumption, NoValueAssumption
<1>1. {d.sdk, d.minHost} \subseteq Semver \cup {NoValue, Unparsable}
  BY DocumentAssumption
<1>2. ASSUME d.minHost \notin {NoValue, Unparsable}
      PROVE  SatisfiesMinHost(HostVersion, d.minHost)
               <=> Number(d.minHost) <= Number(HostVersion)
  <2>1. d.minHost \in Semver /\ Small(d.minHost) /\ Small(HostVersion)
    BY <1>1, <1>2 DEF SmallVersions
  <2>2. Less(HostVersion, d.minHost) <=> Number(HostVersion) < Number(d.minHost)
    BY <2>1, LessIsByNumber, HostHasVersion
  <2>3. Number(d.minHost) \in Int /\ Number(HostVersion) \in Int
    BY <2>1, HostHasVersion DEF Number, Semver
  <2> QED BY <2>2, <2>3 DEF SatisfiesMinHost
<1>3. ASSUME d.sdk \notin {NoValue, Unparsable}
      PROVE  SupportsSdk(HostSdk, d.sdk)
               <=> d.sdk.major = HostSdk.major /\ d.sdk.minor <= HostSdk.minor
  <2>1. d.sdk \in Semver
    BY <1>1, <1>3
  <2> QED BY <2>1 DEF SupportsSdk, DefaultPolicy, Semver
<1> QED
  BY <1>2, <1>3 DEF Valid, Fit, Readable, EntryFor

(* Only plugins this host can run are ever started: the reader, the         *)
(* comparison of versions and the validator together let nothing else       *)
(* through.  (LoaderFacadeMulti.cpp:35-56)                                  *)
THEOREM OnlyFitStart ==
  ASSUME SmallVersions, DefaultPolicy
  PROVE  Spec => []OnlyFitPluginsStart
<1>1. LoaderInv => OnlyFitPluginsStart
  BY ValidIsFit DEF LoaderInv, DocumentInHand, OnlyFitPluginsStart
<1> QED BY <1>1, LoaderInvariance, PTL

(* And they refuse nothing that is fit.  (ManifestValidator.cpp) *)
THEOREM RulesAreExact ==
  ASSUME SmallVersions, DefaultPolicy
  PROVE  Spec => []RulesAcceptTheFit
<1>1. LoaderInv => RulesAcceptTheFit
  BY ValidIsFit DEF LoaderInv, DocumentInHand, RulesAcceptTheFit
<1> QED BY <1>1, LoaderInvariance, PTL

============================================================================
