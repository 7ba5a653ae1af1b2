------------------------- MODULE MenuRegistryProofs -------------------------
(***************************************************************************)
(* Machine-checked proofs about MenuRegistry: the records agree with the   *)
(* menu bar, whatever ids, callbacks and objects there are and however the *)
(* registry's calls interleave with what others do to the bar.             *)
(***************************************************************************)
EXTENDS MenuRegistry, SequenceTheorems, WellFoundedInduction, TLAPS

USE NullAssumption, IdAssumption, BodyAssumption, ForeignAssumption, QueueAssumption

(* What is not there belongs to nobody; what the registry made is a child   *)
(* of the bar; only existing menus are on the bar, and none without a       *)
(* window; a listed action exists.                                          *)
ObjectsAreSound ==
  /\ \A m \in Menu : menu[m].state = "free" => ~menu[m].ours /\ ~menu[m].parentIsBar
  /\ \A m \in Menu : menu[m].ours => menu[m].parentIsBar
  /\ \A m \in OnBar : menu[m].state # "free"
  /\ ~window => OnBar = {}
  /\ \A a \in Action : action[a].shown => action[a].menu # NoMenu

(* RecordsAreFit in two parts: what a record says of its menu, and of its   *)
(* actions.                                                                 *)
MenusFit ==
  \A i \in DOMAIN record :
    LET m == record[i].menu
    IN  m # NoMenu => menu[m].state # "free" /\ menu[m].name = i /\ (window => m \in OnBar)

ActionsFit ==
  \A i \in DOMAIN record : \A k \in DOMAIN record[i].actions :
    LET a == record[i].actions[k].action
    IN  a # NoAction => /\ action[a].menu = record[i].menu /\ action[a].shown
                        /\ action[a].id = i /\ action[a].key = k

(* Every listed action is the one recorded under its ids, clickable or not. *)
ShownAreRecorded ==
  \A a \in Action : action[a].shown =>
    LET id == action[a].id  key == action[a].key
    IN  /\ id \in DOMAIN record /\ key \in DOMAIN record[id].actions
        /\ record[id].actions[key].action = a

(* The types of what the registry and the bar consist of. *)
CoreTypes ==
  /\ window \in BOOLEAN
  /\ bar \in Seq(Menu)
  /\ menu \in [Menu -> MenuObject]
  /\ action \in [Action -> ActionObject]
  /\ DOMAIN record \subseteq MenuId
  /\ \A i \in DOMAIN record : record[i] \in MenuRecord

(* The inductive invariant, of the objects and of the calls. *)
CoreInv == /\ CoreTypes /\ ObjectsAreSound /\ MenusFit /\ ActionsFit
           /\ ShownAreRecorded /\ NothingLeaks /\ DoomedAreOffBar

CallInv == /\ queue \in Seq(Request)
           /\ ui \in [act : Action \cup {NoAction}, todo : Seq(Request)]
           /\ locked = FALSE
           /\ ActionOutlivesItsCallback

MenuInv == CoreInv /\ CallInv

----------------------------------------------------------------------------
(* Sequences *)

(* Induction over the natural numbers, for a set of them. *)
LEMMA InductionOnNat ==
  ASSUME NEW T, 0 \in T, \A n \in Nat : n \in T => n + 1 \in T
  PROVE  Nat \subseteq T
<1> DEFINE R == OpToRel(<, Nat)  rest == Nat \ T
<1> SUFFICES ASSUME rest # {} PROVE FALSE
  OBVIOUS
<1>1. IsWellFoundedOn(R, Nat)
  BY NatLessThanWellFounded
<1>2. PICK x \in rest : \A y \in rest : ~ (<<y, x>> \in R)
  <2> HIDE DEF R
  <2> rest \subseteq Nat
    OBVIOUS
  <2> QED BY <1>1, WFMin
<1>3. x - 1 \in Nat /\ x - 1 < x
  BY SMT
<1>4. x - 1 \in T
  BY <1>2, <1>3 DEF OpToRel
<1> QED
  BY <1>3, <1>4, (x - 1) + 1 = x

(* What Append does to the elements. *)
LEMMA ToSetAppend ==
  ASSUME NEW S, NEW s \in Seq(S), NEW x \in S
  PROVE  ToSet(Append(s, x)) = ToSet(s) \cup {x}
<1> DEFINE n == Len(s)  t == Append(s, x)
<1>1. /\ n \in Nat /\ DOMAIN s = 1 .. n
      /\ t \in Seq(S) /\ Len(t) = n + 1 /\ DOMAIN t = 1 .. (n + 1)
      /\ t[n + 1] = x /\ \A i \in 1 .. n : t[i] = s[i]
  OBVIOUS
<1> HIDE DEF t, n
<1>2. ASSUME NEW y PROVE y \in ToSet(t) <=> y \in ToSet(s) \cup {x}
  <2>1. ASSUME NEW i \in DOMAIN t PROVE t[i] \in ToSet(s) \cup {x}
    BY <1>1 DEF ToSet
  <2>2. ASSUME NEW i \in DOMAIN s PROVE s[i] \in ToSet(t)
    BY <1>1 DEF ToSet
  <2>3. x \in ToSet(t)
    BY <1>1 DEF ToSet
  <2> QED BY <2>1, <2>2, <2>3 DEF ToSet
<1> QED BY <1>2 DEF t

(* Without drops exactly the elements of M. *)
LEMMA WithoutKeepsTheRest ==
  ASSUME NEW S, NEW s \in Seq(S), NEW M
  PROVE  /\ Without(s, M) \in Seq(S)
         /\ ToSet(Without(s, M)) = ToSet(s) \ M
<1> DEFINE Nth(g, n) ==
      IF n = 0 THEN <<>>
      ELSE IF s[n] \in M THEN g[n - 1] ELSE Append(g[n - 1], s[n])
    Upto(n) == 0 .. n
    Def(g, n) == g = [i \in Upto(n) |-> Nth(g, i)]
    kept == CHOOSE g : Def(g, Len(s))
    first(n) == {s[i] : i \in 1 .. n}
<1> Len(s) \in Nat /\ \A i \in 1 .. Len(s) : s[i] \in S
  OBVIOUS
<1>1. \E g : Def(g, Len(s))
  <2> DEFINE T == {n \in Nat : \E g : Def(g, n)}
  <2>1. 0 \in T
    <3> Def([i \in Upto(0) |-> <<>>], 0)
      OBVIOUS
    <3> QED OBVIOUS
  <2>2. ASSUME NEW n \in Nat, n \in T
        PROVE  n + 1 \in T
    <3>1. PICK g : Def(g, n)
      BY <2>2
    <3> DEFINE h == [i \in Upto(n + 1) |-> IF i = n + 1 THEN Nth(g, n + 1) ELSE g[i]]
    <3>2. \A i \in Upto(n + 1) : h[i] = Nth(h, i)
      <4> TAKE i \in Upto(n + 1)
      <4>1. CASE i = n + 1
        BY <4>1
      <4>2. CASE i # n + 1
        <5>1. i \in Upto(n)
          BY <4>2
        <5>2. g[i] = Nth(g, i)
          BY <3>1, <5>1
        <5>3. h[i] = g[i] /\ (i # 0 => h[i - 1] = g[i - 1])
          BY <4>2, <5>1
        <5> QED BY <5>2, <5>3
      <4> QED BY <4>1, <4>2
    <3>3. Def(h, n + 1)
      BY <3>2
    <3> HIDE DEF Def
    <3> QED BY <3>3
  <2>3. Nat \subseteq T
    BY <2>1, <2>2, InductionOnNat
  <2> QED BY <2>3
<1>2. Def(kept, Len(s))
  BY <1>1
<1>3. Without(s, M) = kept[Len(s)]
  BY DEF Without
<1> HIDE DEF kept
<1>4. \A n \in Nat : n <= Len(s) => kept[n] \in Seq(S) /\ ToSet(kept[n]) = first(n) \ M
  <2> DEFINE T == {n \in Nat : n <= Len(s) =>
                     kept[n] \in Seq(S) /\ ToSet(kept[n]) = first(n) \ M}
  <2>1. 0 \in T
    <3>1. 0 \in Upto(Len(s))
      OBVIOUS
    <3>2. kept[0] = Nth(kept, 0)
      BY <1>2, <3>1
    <3>3. kept[0] = <<>> /\ first(0) = {}
      BY <3>2
    <3>4. ToSet(<<>>) = {}
      BY DEF ToSet
    <3>5. kept[0] \in Seq(S) /\ ToSet(kept[0]) = first(0) \ M
      BY <3>3, <3>4
    <3> HIDE DEF first
    <3> QED BY <3>5
  <2>2. ASSUME NEW n \in Nat, n \in T
        PROVE  n + 1 \in T
    <3> SUFFICES ASSUME n + 1 <= Len(s)
                 PROVE  kept[n + 1] \in Seq(S) /\ ToSet(kept[n + 1]) = first(n + 1) \ M
      OBVIOUS
    <3>1. kept[n] \in Seq(S) /\ ToSet(kept[n]) = first(n) \ M
      BY <2>2
    <3>2. first(n + 1) = first(n) \cup {s[n + 1]}
      OBVIOUS
    <3>3. kept[n + 1] = IF s[n + 1] \in M THEN kept[n] ELSE Append(kept[n], s[n + 1])
      <4>1. n + 1 \in Upto(Len(s)) /\ n + 1 # 0 /\ (n + 1) - 1 = n
        OBVIOUS
      <4>2. kept[n + 1] = Nth(kept, n + 1)
        BY <1>2, <4>1
      <4> QED BY <4>1, <4>2
    <3>4. s[n + 1] \in S
      OBVIOUS
    <3> HIDE DEF first
    <3>5. ToSet(Append(kept[n], s[n + 1])) = ToSet(kept[n]) \cup {s[n + 1]}
      BY <3>1, <3>4, ToSetAppend
    <3> QED BY <3>1, <3>2, <3>3, <3>4, <3>5
  <2>3. Nat \subseteq T
    <3> HIDE DEF T
    <3> QED BY <2>1, <2>2, InductionOnNat
  <2> QED BY <2>3
<1>5. ToSet(s) = first(Len(s))
  BY DEF ToSet
<1> HIDE DEF first
<1>6. kept[Len(s)] \in Seq(S) /\ ToSet(kept[Len(s)]) = first(Len(s)) \ M
  BY <1>4
<1> QED
  BY <1>3, <1>5, <1>6

----------------------------------------------------------------------------
(* The bar and the records *)

(* The search along the bar finds a menu of that name if there is one. *)
LEMMA NamedOnBarFinds ==
  ASSUME bar \in Seq(Menu), NEW id
  PROVE  \/ NamedOnBar(id) = NoMenu /\ \A m \in OnBar : menu[m].name # id
         \/ NamedOnBar(id) \in OnBar /\ menu[NamedOnBar(id)].name = id
<1> DEFINE at == {n \in 1 .. Len(bar) : menu[bar[n]].name = id}
           n == IF at # {} THEN Min(at) ELSE 0
<1>1. NamedOnBar(id) = IF n = 0 THEN NoMenu ELSE bar[n]
  BY DEF NamedOnBar, SelectInSeq
<1>2. OnBar = {bar[i] : i \in 1 .. Len(bar)} /\ Len(bar) \in Nat
  BY DEF OnBar, ToSet
<1>3. CASE at = {}
  BY <1>1, <1>2, <1>3
<1>4. CASE at # {}
  <2> DEFINE R == OpToRel(<, Nat)
  <2>1. PICK x \in at : \A y \in at : ~ (<<y, x>> \in R)
    <3> IsWellFoundedOn(R, Nat)
      BY NatLessThanWellFounded
    <3> HIDE DEF R
    <3> at \subseteq Nat
      BY <1>2
    <3> HIDE DEF at
    <3> QED BY <1>4, WFMin
  <2>2. \A y \in at : x <= y
    <3> TAKE y \in at
    <3>1. x \in Nat /\ y \in Nat
      BY <1>2
    <3>2. ~ (y < x)
      BY <2>1, <3>1 DEF OpToRel
    <3> QED BY <3>1, <3>2
  <2>3. Min(at) \in at
    <3> HIDE DEF at
    <3> QED BY <2>2 DEF Min
  <2>4. n = Min(at)
    BY <1>4
  <2>5. n \in 1 .. Len(bar) /\ menu[bar[n]].name = id
    BY <2>3, <2>4
  <2>6. NamedOnBar(id) = bar[n]
    BY SMTT(20), <1>1, <2>5
  <2> HIDE DEF n
  <2> QED BY <1>2, <2>5, <2>6
<1> QED BY <1>3, <1>4

(* Maps: the empty one, and setting a key. *)
LEMMA NoneIsPartial ==
  ASSUME NEW S, NEW T
  PROVE  <<>> \in PartialFunction(S, T) /\ DOMAIN <<>> = {}
<1>1. <<>> \in Seq(T) /\ Len(<<>>) = 0
  OBVIOUS
<1>2. <<>> \in [{} -> T] /\ DOMAIN <<>> = {}
  BY <1>1, LenProperties, 1 .. 0 = {}
<1> QED BY <1>2 DEF PartialFunction

LEMMA PutIsPartial ==
  ASSUME NEW S, NEW T, NEW f \in PartialFunction(S, T), NEW k \in S, NEW v \in T
  PROVE  Put(f, k, v) \in PartialFunction(S, T)
<1>1. PICK D \in SUBSET S : f \in [D -> T]
  BY DEF PartialFunction
<1>2. DOMAIN f = D
  BY <1>1
<1>3. Put(f, k, v) \in [D \cup {k} -> T]
  BY <1>1, <1>2 DEF Put
<1>4. D \cup {k} \in SUBSET S
  OBVIOUS
<1> QED
  BY <1>3, <1>4 DEF PartialFunction

(* The parts of a record. *)
LEMMA RecordTyped ==
  ASSUME CoreTypes, NEW i \in DOMAIN record
  PROVE  /\ i \in MenuId /\ record[i].menu \in Menu \cup {NoMenu}
         /\ record[i].actions \in PartialFunction(ActionId, ActionRecord)
         /\ DOMAIN record[i].actions \subseteq ActionId
         /\ \A k \in DOMAIN record[i].actions :
              record[i].actions[k] \in ActionRecord
<1>1. record[i] \in MenuRecord /\ i \in MenuId
  BY DEF CoreTypes
<1>2. record[i].actions \in PartialFunction(ActionId, ActionRecord)
  BY <1>1 DEF MenuRecord
<1>3. PICK D \in SUBSET ActionId : record[i].actions \in [D -> ActionRecord]
  BY <1>2 DEF PartialFunction
<1> QED BY <1>1, <1>2, <1>3 DEF MenuRecord

----------------------------------------------------------------------------
(* Finding a menu, and recording it *)

(* The menu found for id is on the bar afterwards, under that name; nothing *)
(* else changes but, if it is new, itself.                                  *)
LEMMA FoundMenu ==
  ASSUME CoreInv, window, NEW id \in MenuId, NEW m \in Menu, FindOrCreate(id, m)
  PROVE  /\ bar' \in Seq(Menu) /\ OnBar' = OnBar \cup {m}
         /\ menu' \in [Menu -> MenuObject]
         /\ \A b \in Menu \ {m} : menu'[b] = menu[b]
         /\ menu'[m].name = id /\ menu'[m].state # "free"
         /\ \/ menu[m].state # "free" /\ menu'[m] = menu[m] /\ m \in OnBar
            \/ /\ menu[m].state = "free"
               /\ menu'[m] = [state |-> "alive", name |-> id, parentIsBar |-> TRUE, ours |-> TRUE]
               /\ \A b \in OnBar : menu[b].name # id
         /\ id \in DOMAIN record => record[id].menu \in {m, NoMenu}
<1>1. /\ bar \in Seq(Menu) /\ menu \in [Menu -> MenuObject]
      /\ \A b \in OnBar : menu[b].state # "free"
  BY DEF CoreInv, CoreTypes, ObjectsAreSound
<1>2. CASE Known(id) /\ m = record[id].menu /\ UNCHANGED <<bar, menu>>
  <2>1. m \in OnBar /\ menu[m].name = id /\ menu[m].state # "free"
    BY <1>2 DEF CoreInv, MenusFit, Known
  <2> QED BY <1>1, <1>2, <2>1 DEF OnBar
<1>3. CASE ~Known(id) /\ m = NamedOnBar(id) /\ m # NoMenu /\ UNCHANGED <<bar, menu>>
  <2>1. m \in OnBar /\ menu[m].name = id
    BY <1>1, <1>3, NamedOnBarFinds
  <2>2. id \in DOMAIN record => record[id].menu = NoMenu
    BY <1>3 DEF Known
  <2> QED BY <1>1, <1>3, <2>1, <2>2 DEF OnBar
<1>4. CASE /\ ~Known(id) /\ NamedOnBar(id) = NoMenu
           /\ m \in FreeMenus
           /\ bar' = Append(bar, m)
           /\ menu' = [menu EXCEPT ![m] = [state |-> "alive", name |-> id,
                                           parentIsBar |-> TRUE, ours |-> TRUE]]
  <2>1. \A b \in OnBar : menu[b].name # id
    <3>1. OnBar \subseteq Menu
      BY <1>1 DEF OnBar, ToSet
    <3> QED BY <1>1, <1>4, <3>1, NamedOnBarFinds
  <2>2. bar' \in Seq(Menu) /\ OnBar' = OnBar \cup {m}
    BY <1>1, <1>4, ToSetAppend DEF OnBar
  <2>3. menu[m].state = "free"
    BY <1>4 DEF FreeMenus
  <2>4. id \in DOMAIN record => record[id].menu = NoMenu
    BY <1>4 DEF Known
  <2>5. [state |-> "alive", name |-> id, parentIsBar |-> TRUE, ours |-> TRUE] \in MenuObject
    BY DEF MenuObject
  <2> QED BY <1>1, <1>4, <2>1, <2>2, <2>3, <2>4, <2>5
<1> QED
  BY <1>2, <1>3, <1>4 DEF FindOrCreate

(* Recording a menu found for id, whatever becomes of its actions. *)
LEMMA RecordingKeeps ==
  ASSUME CoreInv, window, window' = window,
         NEW id \in MenuId, NEW m \in Menu, FindOrCreate(id, m),
         DOMAIN record' = DOMAIN record \cup {id},
         \A i \in DOMAIN record' : record'[i] \in MenuRecord,
         record'[id].menu = m,
         \A i \in DOMAIN record \ {id} : record'[i] = record[i],
         action' \in [Action -> ActionObject],
         \A a \in Action : action'[a].shown => action'[a].menu # NoMenu,
         ActionsFit', ShownAreRecorded'
  PROVE  CoreInv'
<1>1. /\ bar' \in Seq(Menu) /\ OnBar' = OnBar \cup {m}
      /\ menu' \in [Menu -> MenuObject]
      /\ \A b \in Menu \ {m} : menu'[b] = menu[b]
      /\ menu'[m].name = id /\ menu'[m].state # "free"
      /\ \/ menu[m].state # "free" /\ menu'[m] = menu[m] /\ m \in OnBar
         \/ /\ menu[m].state = "free"
            /\ menu'[m] = [state |-> "alive", name |-> id, parentIsBar |-> TRUE, ours |-> TRUE]
            /\ \A b \in OnBar : menu[b].name # id
      /\ id \in DOMAIN record => record[id].menu \in {m, NoMenu}
  BY FoundMenu
<1>2. OnBar \subseteq Menu /\ DOMAIN record \subseteq MenuId
      /\ \A i \in DOMAIN record : record[i].menu \in Menu \cup {NoMenu}
  BY RecordTyped DEF CoreInv, CoreTypes, OnBar, ToSet
<1>3. CoreTypes'
  <2>1. window' \in BOOLEAN /\ DOMAIN record' \subseteq MenuId
    BY <1>2 DEF CoreInv, CoreTypes
  <2> QED BY <1>1, <2>1 DEF CoreTypes
<1>4. ObjectsAreSound'
  <2>1. \A b \in Menu : menu'[b].state = "free" => ~menu'[b].ours /\ ~menu'[b].parentIsBar
    <3>1. \A b \in Menu : menu[b].state = "free" => ~menu[b].ours /\ ~menu[b].parentIsBar
      BY DEF CoreInv, ObjectsAreSound
    <3> QED BY <1>1, <3>1
  <2>2. \A b \in Menu : menu'[b].ours => menu'[b].parentIsBar
    <3>1. \A b \in Menu : menu[b].ours => menu[b].parentIsBar
      BY DEF CoreInv, ObjectsAreSound
    <3> QED BY <1>1, <3>1
  <2>3. \A b \in OnBar' : menu'[b].state # "free"
    BY <1>1, <1>2 DEF CoreInv, ObjectsAreSound
  <2> QED BY <2>1, <2>2, <2>3 DEF ObjectsAreSound
<1>5. MenusFit'
  <2> SUFFICES ASSUME NEW i \in DOMAIN record', record'[i].menu # NoMenu
               PROVE  /\ menu'[record'[i].menu].state # "free"
                      /\ menu'[record'[i].menu].name = i
                      /\ window' => record'[i].menu \in OnBar'
    BY DEF MenusFit
  <2>1. CASE i = id
    BY <1>1, <2>1
  <2>2. CASE i # id
    <3> DEFINE b == record[i].menu
    <3>1. i \in DOMAIN record /\ record'[i].menu = b /\ b \in Menu
      BY <1>2, <2>2
    <3>2. menu[b].state # "free" /\ menu[b].name = i /\ b \in OnBar
      BY <3>1 DEF CoreInv, MenusFit
    <3>3. b # m
      BY <1>1, <2>2, <3>1, <3>2
    <3> QED BY <1>1, <3>1, <3>2, <3>3
  <2> QED BY <2>1, <2>2
<1>6. NothingLeaks'
  <2> SUFFICES ASSUME NEW b \in Menu, menu'[b].state = "alive", menu'[b].ours
               PROVE  \E i \in DOMAIN record' : record'[i].menu = b
    BY DEF NothingLeaks, RecordedMenus
  <2>1. CASE b = m
    BY <2>1
  <2>2. CASE b # m
    <3>1. PICK i \in DOMAIN record : record[i].menu = b
      BY <1>1, <2>2 DEF CoreInv, NothingLeaks, RecordedMenus
    <3>2. i # id
      BY <1>1, <2>2, <3>1
    <3> QED BY <3>1, <3>2
  <2> QED BY <2>1, <2>2
<1>7. DoomedAreOffBar'
  <2> SUFFICES ASSUME NEW b \in OnBar', menu'[b].state = "doomed"
               PROVE  ~menu'[b].ours /\ ~menu'[b].parentIsBar
    BY DEF DoomedAreOffBar
  <2>1. CASE b # m
    BY <1>1, <1>2, <2>1 DEF CoreInv, DoomedAreOffBar
  <2>2. CASE b = m
    <3>1. menu'[m] = menu[m]
      BY <1>1, <2>2
    <3>2. m \in OnBar
      BY <1>1, <2>2, <3>1
    <3> QED BY <2>2, <3>1, <3>2 DEF CoreInv, DoomedAreOffBar
  <2> QED BY <2>1, <2>2
<1> QED
  BY <1>3, <1>4, <1>5, <1>6, <1>7 DEF CoreInv

(* ensureTopLevelMenu *)
LEMMA EnsureKeeps ==
  ASSUME CoreInv, NEW id \in MenuId, EnsureTopLevelMenu(id)
  PROVE  CoreInv'
<1>1. CASE NoWindow
  BY <1>1 DEF NoWindow, CoreInv, CoreTypes, ObjectsAreSound, MenusFit, ActionsFit,
              ShownAreRecorded, NothingLeaks, DoomedAreOffBar, OnBar, RecordedMenus
<1>2. ASSUME window, window' = window, action' = action, NEW m \in Menu,
             FindOrCreate(id, m), record' = Put(record, id, Entry(id, m))
      PROVE  CoreInv'
  <2>1. /\ DOMAIN record' = DOMAIN record \cup {id}
        /\ record'[id] = Entry(id, m)
        /\ \A i \in DOMAIN record \ {id} : record'[i] = record[i]
    BY <1>2 DEF Put
  <2>2. Entry(id, m) \in MenuRecord /\ Entry(id, m).menu = m
    BY RecordTyped, NoneIsPartial DEF CoreInv, Entry, MenuRecord
  <2>3. Entry(id, m).actions = IF id \in DOMAIN record THEN record[id].actions ELSE <<>>
    BY DEF Entry
  <2>4. \A i \in DOMAIN record' : record'[i] \in MenuRecord
    BY <2>1, <2>2 DEF CoreInv, CoreTypes
  <2>5. ActionsFit'
    <3> SUFFICES ASSUME NEW i \in DOMAIN record', NEW k \in DOMAIN record'[i].actions,
                        record'[i].actions[k].action # NoAction
                 PROVE  LET a == record'[i].actions[k].action
                        IN  /\ action[a].menu = record'[i].menu /\ action[a].shown
                            /\ action[a].id = i /\ action[a].key = k
      BY <1>2 DEF ActionsFit
    <3>1. i \in DOMAIN record /\ record'[i].actions = record[i].actions
      BY <2>1, <2>3, NoneIsPartial
    <3> DEFINE a == record[i].actions[k].action
    <3>2. /\ action[a].menu = record[i].menu /\ action[a].shown
          /\ action[a].id = i /\ action[a].key = k
      BY <3>1 DEF CoreInv, ActionsFit
    <3>3. record[i].menu # NoMenu
      <4>1. a \in Action
        BY <3>1, RecordTyped DEF CoreInv, ActionRecord
      <4> QED BY <3>2, <4>1 DEF CoreInv, ObjectsAreSound
    <3>4. record'[i].menu = record[i].menu
      <4>1. CASE i = id
        BY <2>1, <2>2, <3>1, <3>3, <4>1, <1>2, FoundMenu
      <4> QED BY <2>1, <3>1, <4>1
    <3> QED BY <3>1, <3>2, <3>4
  <2>6. ShownAreRecorded'
    <3> SUFFICES ASSUME NEW a \in Action, action[a].shown
                 PROVE  LET i == action[a].id  key == action[a].key
                        IN  /\ i \in DOMAIN record' /\ key \in DOMAIN record'[i].actions
                            /\ record'[i].actions[key].action = a
      BY <1>2 DEF ShownAreRecorded
    <3>1. \A i \in DOMAIN record : record'[i].actions = record[i].actions
      BY <2>1, <2>3
    <3> QED BY <2>1, <3>1 DEF CoreInv, ShownAreRecorded
  <2>7. /\ action' \in [Action -> ActionObject]
        /\ \A a \in Action : action'[a].shown => action'[a].menu # NoMenu
    BY <1>2 DEF CoreInv, CoreTypes, ObjectsAreSound
  <2> QED BY <1>2, <2>1, <2>2, <2>4, <2>5, <2>6, <2>7, RecordingKeeps
<1> QED
  BY <1>1, <1>2 DEF EnsureTopLevelMenu

(* Without a window nothing happens. *)
LEMMA NoWindowKeeps ==
  ASSUME CoreInv, NoWindow
  PROVE  CoreInv'
BY DEF NoWindow, CoreInv, CoreTypes, ObjectsAreSound, MenusFit, ActionsFit,
       ShownAreRecorded, NothingLeaks, DoomedAreOffBar, OnBar, RecordedMenus

(* The actions recorded under id before a registry call looks at them. *)
ActionsUnder(id) == IF id \in DOMAIN record THEN record[id].actions ELSE <<>>

(* They are a map from action ids to action records. *)
LEMMA ActionsUnderTyped ==
  ASSUME CoreInv, NEW id
  PROVE  ActionsUnder(id) \in PartialFunction(ActionId, ActionRecord)
BY RecordTyped, NoneIsPartial DEF CoreInv, ActionsUnder

(* Recording action a under id and key in menu m: new are the actions under *)
(* id afterwards.                                                           *)
Fills(id, key, m, a, new) ==
  /\ DOMAIN record' = DOMAIN record \cup {id}
  /\ record'[id] = [menu |-> m, actions |-> new]
  /\ \A i \in DOMAIN record \ {id} : record'[i] = record[i]
  /\ DOMAIN new = DOMAIN ActionsUnder(id) \cup {key}
  /\ new[key].action = a
  /\ \A k \in DOMAIN ActionsUnder(id) \ {key} : new[k] = ActionsUnder(id)[k]
  /\ key \in DOMAIN ActionsUnder(id) => ActionsUnder(id)[key].action \in {a, NoAction}
  /\ action' \in [Action -> ActionObject]
  /\ action'[a].menu = m /\ action'[a].shown
  /\ \A x \in Action \ {a} : action'[x] = action[x]
  /\ action'[a].id = id /\ action'[a].key = key
  /\ action[a].shown => action'[a] = action[a]

(* Filling a place that is empty, or holds a already, breaks nothing. *)
LEMMA FillingKeeps ==
  ASSUME CoreInv, window, window' = window,
         NEW id \in MenuId, NEW key \in ActionId, NEW m \in Menu, NEW a \in Action,
         NEW new \in PartialFunction(ActionId, ActionRecord),
         FindOrCreate(id, m), Fills(id, key, m, a, new)
  PROVE  CoreInv'
<1> USE DEF Fills
<1> DEFINE old == ActionsUnder(id)
<1>0. id \in DOMAIN record => record[id].menu \in {m, NoMenu}
  BY FoundMenu
<1>1. old = IF id \in DOMAIN record THEN record[id].actions ELSE <<>>
  BY DEF ActionsUnder
<1>3. /\ DOMAIN new = DOMAIN old \cup {key}
      /\ new[key].action = a
      /\ \A k \in DOMAIN old \ {key} : new[k] = old[k]
  OBVIOUS
<1>4. /\ DOMAIN record' = DOMAIN record \cup {id}
      /\ record'[id] = [menu |-> m, actions |-> new]
      /\ \A i \in DOMAIN record \ {id} : record'[i] = record[i]
  OBVIOUS
<1>5. \A k \in DOMAIN old : id \in DOMAIN record /\ record[id].actions = old
  BY <1>1, NoneIsPartial
<1> HIDE DEF old
<1>6. record'[id].menu = m /\ record'[id].actions = new
  BY <1>4
<1>7. \A i \in DOMAIN record' : record'[i] \in MenuRecord
  <2>1. [menu |-> m, actions |-> new] \in MenuRecord
    BY DEF MenuRecord
  <2> QED BY <1>4, <2>1 DEF CoreInv, CoreTypes
<1>8. ASSUME NEW i \in DOMAIN record, NEW k \in DOMAIN record[i].actions,
             record[i].actions[k].action # NoAction, i # id \/ k # key
      PROVE  LET x == record[i].actions[k].action
             IN  /\ action'[x].menu = record'[i].menu /\ action'[x].shown
                 /\ action'[x].id = i /\ action'[x].key = k
  <2> DEFINE x == record[i].actions[k].action
  <2>1. x \in Action
    BY <1>8, RecordTyped DEF CoreInv, ActionRecord
  <2>2. /\ action[x].menu = record[i].menu /\ action[x].shown /\ record[i].menu # NoMenu
        /\ action[x].id = i /\ action[x].key = k
    BY <1>8, <2>1 DEF CoreInv, ActionsFit, ObjectsAreSound
  <2>3. record'[i].menu = record[i].menu
    <3>1. CASE i = id
      BY <1>0, <1>6, <2>2, <3>1
    <3> QED BY <1>4, <3>1
  <2>4. x = a => action'[a] = action[a]
    BY <2>2
  <2> QED BY <2>1, <2>2, <2>3, <2>4
<1>9. ActionsFit'
  <2> SUFFICES ASSUME NEW i \in DOMAIN record', NEW k \in DOMAIN record'[i].actions,
                      record'[i].actions[k].action # NoAction
               PROVE  LET x == record'[i].actions[k].action
                      IN  /\ action'[x].menu = record'[i].menu /\ action'[x].shown
                          /\ action'[x].id = i /\ action'[x].key = k
    BY DEF ActionsFit
  <2>1. CASE i = id /\ k = key
    BY <1>3, <1>6, <2>1
  <2>2. CASE ~ (i = id /\ k = key)
    <3>1. /\ i \in DOMAIN record /\ k \in DOMAIN record[i].actions
          /\ record'[i].actions[k] = record[i].actions[k]
      BY <1>3, <1>4, <1>5, <1>6, <2>2
    <3> QED BY <1>8, <2>2, <3>1
  <2> QED BY <2>1, <2>2
<1>10. ShownAreRecorded'
  <2> SUFFICES ASSUME NEW x \in Action, action'[x].shown
               PROVE  LET i == action'[x].id  k == action'[x].key
                      IN  /\ i \in DOMAIN record' /\ k \in DOMAIN record'[i].actions
                          /\ record'[i].actions[k].action = x
    BY DEF ShownAreRecorded
  <2>1. CASE x = a /\ ~action[a].shown
    BY <1>3, <1>4, <1>6, <2>1
  <2>2. CASE ~ (x = a /\ ~action[a].shown)
    <3> DEFINE i == action[x].id  k == action[x].key
    <3>1. action'[x] = action[x] /\ action[x].shown
      BY <2>2
    <3>2. /\ i \in DOMAIN record /\ k \in DOMAIN record[i].actions
          /\ record[i].actions[k].action = x
      BY <3>1 DEF CoreInv, ShownAreRecorded
    <3> HIDE DEF i, k
    <3>3. CASE i # id
      BY <1>4, <3>1, <3>2, <3>3 DEF i, k
    <3>4. CASE i = id
      <4>1. old = record[id].actions
        BY <1>1, <3>2, <3>4
      <4>2. k = key => x = a
        BY <3>2, <3>4, <4>1 DEF old
      <4>3. k \in DOMAIN new /\ new[k].action = x
        BY <1>3, <3>2, <3>4, <4>1, <4>2
      <4>4. i \in DOMAIN record' /\ record'[i].actions = new
        BY <1>4, <1>6, <3>4
      <4> QED BY <3>1, <4>3, <4>4 DEF i, k
    <3> QED BY <3>3, <3>4
  <2> QED BY <2>1, <2>2
<1>11. \A x \in Action : action'[x].shown => action'[x].menu # NoMenu
  BY DEF CoreInv, ObjectsAreSound
<1> QED
  BY <1>4, <1>6, <1>7, <1>9, <1>10, <1>11, RecordingKeeps

(* addMenuAction *)
LEMMA AddKeeps ==
  ASSUME CoreInv, NEW r \in Request, r.op = "add", AddMenuAction(r)
  PROVE  CoreInv'
<1>1. r.menu \in MenuId /\ r.key \in ActionId /\ r.callback \in Callback
  BY DEF Request
<1>2. CASE NoWindow
  BY <1>2, NoWindowKeeps
<1>3. ASSUME window, window' = window, NEW m \in Menu, FindOrCreate(r.menu, m),
             NEW a,
             record' = Put(record, r.menu, WithAction(Entry(r.menu, m), r, a)),
             \/ /\ Lives(Entry(r.menu, m), r.key)
                /\ a = Entry(r.menu, m).actions[r.key].action /\ action' = action
             \/ /\ ~Lives(Entry(r.menu, m), r.key) /\ a \in FreeActions
                /\ action' = [action EXCEPT ![a] =
                     [menu |-> m, shown |-> TRUE, id |-> r.menu, key |-> r.key]]
      PROVE  CoreInv'
  <2> DEFINE old == ActionsUnder(r.menu)
             v == [action |-> a, callback |-> r.callback]
             new == Put(old, r.key, v)
  <2>1. /\ action \in [Action -> ActionObject]
        /\ \A x \in Action : action[x].shown => action[x].menu # NoMenu
    BY DEF CoreInv, CoreTypes, ObjectsAreSound
  <2>2. Entry(r.menu, m) = [menu |-> m, actions |-> old]
    BY DEF Entry, ActionsUnder
  <2>3. record' = Put(record, r.menu, [menu |-> m, actions |-> new])
    BY <1>3, <2>2 DEF WithAction
  <2>4. /\ DOMAIN record' = DOMAIN record \cup {r.menu}
        /\ record'[r.menu] = [menu |-> m, actions |-> new]
        /\ \A i \in DOMAIN record \ {r.menu} : record'[i] = record[i]
    BY <2>3 DEF Put
  <2>5. ASSUME a \in Action
        PROVE  /\ new \in PartialFunction(ActionId, ActionRecord)
               /\ DOMAIN new = DOMAIN old \cup {r.key}
               /\ new[r.key].action = a
               /\ \A k \in DOMAIN old \ {r.key} : new[k] = old[k]
    <3>1. v \in ActionRecord /\ v.action = a
      BY <1>1, <2>5 DEF ActionRecord
    <3>2. old \in PartialFunction(ActionId, ActionRecord)
      BY <1>1, ActionsUnderTyped
    <3> HIDE DEF v, old
    <3>3. new \in PartialFunction(ActionId, ActionRecord)
      BY <1>1, <3>1, <3>2, PutIsPartial
    <3>4. /\ DOMAIN new = DOMAIN old \cup {r.key}
          /\ new[r.key] = v
          /\ \A k \in DOMAIN old \ {r.key} : new[k] = old[k]
      BY DEF Put
    <3> QED BY <3>1, <3>3, <3>4
  <2>6. Lives(Entry(r.menu, m), r.key) <=> r.key \in DOMAIN old /\ old[r.key].action # NoAction
    BY <2>2 DEF Lives
  <2>7. Entry(r.menu, m).actions = old
    BY <2>2
  <2> HIDE DEF old, new, v
  <2>8. CASE /\ Lives(Entry(r.menu, m), r.key)
             /\ a = Entry(r.menu, m).actions[r.key].action /\ action' = action
    <3>1. r.key \in DOMAIN old /\ a = old[r.key].action /\ a # NoAction
      BY <2>6, <2>7, <2>8
    <3>2. /\ r.menu \in DOMAIN record /\ r.key \in DOMAIN record[r.menu].actions
          /\ a = record[r.menu].actions[r.key].action
      BY <3>1, NoneIsPartial DEF old, ActionsUnder
    <3>3. a \in Action
      BY <3>1, <3>2, RecordTyped DEF CoreInv, ActionRecord
    <3>4. /\ action[a].menu = record[r.menu].menu /\ action[a].shown /\ action[a].menu # NoMenu
          /\ action[a].id = r.menu /\ action[a].key = r.key
      <4>1. ActionsFit
        BY DEF CoreInv
      <4>2. /\ action[a].menu = record[r.menu].menu /\ action[a].shown
            /\ action[a].id = r.menu /\ action[a].key = r.key
        <5>1. \A i \in DOMAIN record : \A k \in DOMAIN record[i].actions :
                LET x == record[i].actions[k].action
                IN  x # NoAction => /\ action[x].menu = record[i].menu /\ action[x].shown
                                    /\ action[x].id = i /\ action[x].key = k
          BY <4>1 DEF ActionsFit
        <5> QED BY <3>1, <3>2, <5>1
      <4> QED BY <2>1, <3>3, <4>2
    <3>5. action[a].menu = m
      <4>1. record[r.menu].menu \in {m, NoMenu}
        BY <1>1, <1>3, <3>2, FoundMenu
      <4> QED BY <3>4, <4>1
    <3>6. /\ action' \in [Action -> ActionObject]
          /\ action'[a] = action[a]
          /\ action'[a].menu = m /\ action'[a].shown
          /\ action'[a].id = r.menu /\ action'[a].key = r.key
          /\ \A x \in Action \ {a} : action'[x] = action[x]
      BY <2>1, <2>8, <3>4, <3>5
    <3> QED
      <4>1. PICK n \in PartialFunction(ActionId, ActionRecord) : n = new
        BY <2>5, <3>3
      <4>2. Fills(r.menu, r.key, m, a, n)
        BY <2>4, <2>5, <3>1, <3>3, <3>6, <4>1 DEF Fills, old
      <4> QED BY <1>1, <1>3, <3>3, <4>2, FillingKeeps
  <2>9. CASE /\ ~Lives(Entry(r.menu, m), r.key) /\ a \in FreeActions
             /\ action' = [action EXCEPT ![a] =
                  [menu |-> m, shown |-> TRUE, id |-> r.menu, key |-> r.key]]
    <3>1. a \in Action /\ ~action[a].shown
      BY <2>1, <2>9 DEF FreeActions
    <3>2. [menu |-> m, shown |-> TRUE, id |-> r.menu, key |-> r.key] \in ActionObject
      BY <1>1 DEF ActionObject
    <3>3. /\ action' \in [Action -> ActionObject]
          /\ action'[a].menu = m /\ action'[a].shown
          /\ action'[a].id = r.menu /\ action'[a].key = r.key
          /\ \A x \in Action \ {a} : action'[x] = action[x]
      BY <2>1, <2>9, <3>1, <3>2
    <3>4. r.key \in DOMAIN old => old[r.key].action = NoAction
      BY <2>6, <2>9
    <3> QED
      <4>1. PICK n \in PartialFunction(ActionId, ActionRecord) : n = new
        BY <2>5, <3>1
      <4>2. Fills(r.menu, r.key, m, a, n)
        BY <2>4, <2>5, <3>1, <3>3, <3>4, <4>1 DEF Fills, old
      <4> QED BY <1>1, <1>3, <3>1, <4>2, FillingKeeps
  <2> QED BY <1>3, <2>8, <2>9
<1>4. CASE ~NoWindow
  BY <1>3, <1>4 DEF AddMenuAction
<1> QED BY <1>2, <1>4

----------------------------------------------------------------------------
(* Teardown, and what others do *)

(* The bar holds menus. *)
LEMMA BarTyped ==
  ASSUME CoreInv
  PROVE  bar \in Seq(Menu) /\ OnBar \subseteq Menu
BY DEF CoreInv, CoreTypes, OnBar, ToSet

(* teardownAll *)
LEMMA TeardownKeeps ==
  ASSUME CoreInv, TeardownAll
  PROVE  CoreInv'
<1>1. /\ bar' \in Seq(Menu) /\ OnBar' = OnBar \ OffBar
      /\ menu' = DeletedLater(RecordedMenus)
      /\ action' = Unlisted /\ record' = <<>> /\ window' = window
  BY BarTyped, WithoutKeepsTheRest DEF TeardownAll, TeardownEffect, OnBar
<1>2. DOMAIN record' = {}
  BY <1>1, NoneIsPartial
<1>3. menu \in [Menu -> MenuObject] /\ action \in [Action -> ActionObject]
  BY DEF CoreInv, CoreTypes
<1>4. /\ menu' \in [Menu -> MenuObject]
      /\ \A m \in Menu : menu'[m].name = menu[m].name /\ menu'[m].ours = menu[m].ours
                         /\ menu'[m].parentIsBar = menu[m].parentIsBar
                         /\ menu'[m].state = IF m \in RecordedMenus THEN "doomed" ELSE menu[m].state
  BY SMTT(20), <1>1, <1>3 DEF DeletedLater, MenuObject
<1>5. /\ action' \in [Action -> ActionObject]
      /\ \A a \in Action : action'[a].menu = action[a].menu /\ ~action'[a].shown
  <2> SUFFICES ASSUME NEW a \in Action
               PROVE  /\ action'[a] \in ActionObject
                      /\ action'[a].menu = action[a].menu /\ ~action'[a].shown
    BY <1>1 DEF Unlisted
  <2> DEFINE listed == \E i \in DOMAIN record :
               record[i].menu = action[a].menu /\ a \in RecordedActions(i)
  <2>1. action'[a] = [action[a] EXCEPT !.shown = @ /\ ~listed]
    BY <1>1 DEF Unlisted
  <2>2. action[a].shown => listed
    <3> SUFFICES ASSUME action[a].shown PROVE listed
      OBVIOUS
    <3> DEFINE i == action[a].id  k == action[a].key
    <3>1. i \in DOMAIN record /\ k \in DOMAIN record[i].actions /\ record[i].actions[k].action = a
      BY DEF CoreInv, ShownAreRecorded
    <3>2. action[a].menu = record[i].menu
      BY <3>1 DEF CoreInv, ActionsFit
    <3>3. a \in RecordedActions(i)
      BY <3>1 DEF RecordedActions
    <3> QED BY <3>1, <3>2, <3>3
  <2> HIDE DEF listed
  <2>3. action[a] \in ActionObject
    BY <1>3
  <2> QED BY <2>1, <2>2, <2>3 DEF ActionObject
<1>6. CoreTypes'
  BY <1>1, <1>2, <1>4, <1>5 DEF CoreInv, CoreTypes
<1>7. ObjectsAreSound'
  <2>1. \A m \in Menu : menu[m].state = "free" => m \notin RecordedMenus
    BY DEF CoreInv, MenusFit, RecordedMenus
  <2>2. \A m \in Menu : menu'[m].state = "free" => ~menu'[m].ours /\ ~menu'[m].parentIsBar
    BY <1>4 DEF CoreInv, ObjectsAreSound
  <2>3. \A m \in Menu : menu'[m].ours => menu'[m].parentIsBar
    BY <1>4 DEF CoreInv, ObjectsAreSound
  <2>4. \A m \in OnBar' : menu'[m].state # "free"
    BY <1>1, <1>4, BarTyped DEF CoreInv, ObjectsAreSound
  <2>5. ~window' => OnBar' = {}
    BY <1>1 DEF CoreInv, ObjectsAreSound
  <2> QED BY <1>5, <2>2, <2>3, <2>4, <2>5 DEF ObjectsAreSound
<1>8. MenusFit' /\ ActionsFit' /\ ShownAreRecorded'
  BY <1>2, <1>5 DEF MenusFit, ActionsFit, ShownAreRecorded
<1>9. NothingLeaks'
  <2> SUFFICES ASSUME NEW m \in Menu, menu'[m].state = "alive", menu'[m].ours
               PROVE  FALSE
    BY DEF NothingLeaks
  <2> QED BY <1>4 DEF CoreInv, NothingLeaks
<1>10. DoomedAreOffBar'
  <2> SUFFICES ASSUME NEW m \in OnBar', menu'[m].state = "doomed"
               PROVE  ~menu'[m].ours /\ ~menu'[m].parentIsBar
    BY DEF DoomedAreOffBar
  <2>1. m \in OnBar /\ m \in Menu /\ m \notin OffBar
    BY <1>1, BarTyped
  <2>2. CASE m \in RecordedMenus
    BY <1>4, <2>1, <2>2 DEF OffBar, CoreInv, ObjectsAreSound
  <2>3. CASE m \notin RecordedMenus
    BY <1>4, <2>1, <2>3 DEF CoreInv, DoomedAreOffBar
  <2> QED BY <2>2, <2>3
<1> QED
  BY <1>6, <1>7, <1>8, <1>9, <1>10 DEF CoreInv

(* Destroying menus and actions, with what becomes of the bar. *)
LEMMA DestroyedKeeps ==
  ASSUME CoreInv, NEW M \in SUBSET Menu, NEW A \in SUBSET Action, Destroyed(M, A),
         window' \in BOOLEAN, bar' \in Seq(Menu),
         window' => window /\ OnBar' = OnBar \ M,
         ~window' => OnBar' = {}
  PROVE  CoreInv'
<1> DEFINE gone == A \cup {a \in Action : action[a].menu \in M}
<1>1. menu \in [Menu -> MenuObject] /\ action \in [Action -> ActionObject]
      /\ OnBar' \subseteq OnBar \ M
  BY DEF CoreInv, CoreTypes, ObjectsAreSound
<1>2. /\ menu' \in [Menu -> MenuObject]
      /\ \A m \in Menu \ M : menu'[m] = menu[m]
      /\ \A m \in M : menu'[m].state = "free" /\ ~menu'[m].ours /\ ~menu'[m].parentIsBar
  <2>1. menu' = [m \in Menu |-> IF m \in M THEN FreeMenu ELSE menu[m]]
    BY DEF Destroyed
  <2>2. FreeMenu \in MenuObject /\ FreeMenu.state = "free" /\ ~FreeMenu.ours /\ ~FreeMenu.parentIsBar
    BY DEF FreeMenu, MenuObject
  <2> QED BY <1>1, <2>1, <2>2
<1>3. /\ action' \in [Action -> ActionObject]
      /\ \A a \in Action \ gone : action'[a] = action[a]
      /\ \A a \in gone : action'[a].menu = NoMenu /\ ~action'[a].shown
  <2>1. action' = [a \in Action |-> IF a \in gone THEN FreeAction ELSE action[a]]
    BY DEF Destroyed
  <2>2. FreeAction.menu = NoMenu /\ ~FreeAction.shown
    BY DEF FreeAction
  <2>3. FreeAction \in ActionObject
    BY DEF FreeAction, ActionObject
  <2> QED BY <1>1, <2>1, <2>2, <2>3
<1>4. /\ DOMAIN record' = DOMAIN record
      /\ \A i \in DOMAIN record :
           /\ record'[i] \in [menu : Menu \cup {NoMenu}, actions : {record'[i].actions}]
           /\ record'[i].menu = IF record[i].menu \in M THEN NoMenu ELSE record[i].menu
           /\ DOMAIN record'[i].actions = DOMAIN record[i].actions
           /\ record'[i].actions = [k \in DOMAIN record[i].actions |-> record'[i].actions[k]]
           /\ \A k \in DOMAIN record[i].actions :
                record'[i].actions[k] =
                  [record[i].actions[k] EXCEPT !.action = IF @ \in gone THEN NoAction ELSE @]
  BY RecordTyped DEF Destroyed, CoreInv
<1> HIDE DEF gone
<1>5. ASSUME NEW i \in DOMAIN record, NEW k \in DOMAIN record[i].actions
      PROVE  /\ record'[i].actions[k] \in ActionRecord
             /\ record'[i].actions[k].action = IF record[i].actions[k].action \in gone
                                                THEN NoAction ELSE record[i].actions[k].action
  <2>1. PICK old \in ActionRecord : old = record[i].actions[k]
    BY RecordTyped DEF CoreInv
  <2>2. record'[i].actions[k] = [old EXCEPT !.action = IF @ \in gone THEN NoAction ELSE @]
    BY <1>4, <2>1
  <2>3. [old EXCEPT !.action = IF @ \in gone THEN NoAction ELSE @] \in ActionRecord
    BY DEF ActionRecord
  <2>4. [old EXCEPT !.action = IF @ \in gone THEN NoAction ELSE @].action
          = IF old.action \in gone THEN NoAction ELSE old.action
    BY DEF ActionRecord
  <2> QED BY <2>1, <2>2, <2>3, <2>4
<1>6. CoreTypes'
  <2>1. ASSUME NEW i \in DOMAIN record PROVE record'[i] \in MenuRecord
    <3> DEFINE new == record'[i].actions
    <3>1. new \in [DOMAIN record[i].actions -> ActionRecord]
      BY <1>4, <1>5
    <3>2. DOMAIN record[i].actions \in SUBSET ActionId
      BY RecordTyped DEF CoreInv
    <3>3. new \in PartialFunction(ActionId, ActionRecord)
      BY <3>1, <3>2 DEF PartialFunction
    <3> QED BY <1>4, <3>3 DEF MenuRecord
  <2> QED BY <1>2, <1>3, <1>4, <2>1 DEF CoreInv, CoreTypes
<1>7. ObjectsAreSound'
  <2>1. \A m \in Menu : menu'[m].state = "free" => ~menu'[m].ours /\ ~menu'[m].parentIsBar
    BY <1>2 DEF CoreInv, ObjectsAreSound
  <2>2. \A m \in Menu : menu'[m].ours => menu'[m].parentIsBar
    BY <1>2 DEF CoreInv, ObjectsAreSound
  <2>3. \A m \in OnBar' : menu'[m].state # "free"
    BY <1>1, <1>2, BarTyped DEF CoreInv, ObjectsAreSound
  <2>4. \A a \in Action : action'[a].shown => action'[a].menu # NoMenu
    BY <1>3 DEF CoreInv, ObjectsAreSound
  <2> QED BY <2>1, <2>2, <2>3, <2>4 DEF ObjectsAreSound
<1>8. MenusFit'
  <2> SUFFICES ASSUME NEW i \in DOMAIN record', record'[i].menu # NoMenu
               PROVE  /\ menu'[record'[i].menu].state # "free"
                      /\ menu'[record'[i].menu].name = i
                      /\ window' => record'[i].menu \in OnBar'
    BY DEF MenusFit
  <2> DEFINE m == record[i].menu
  <2>1. i \in DOMAIN record /\ m \notin M /\ record'[i].menu = m /\ m # NoMenu
    BY <1>4
  <2>2. m \in Menu
    BY <2>1, RecordTyped DEF CoreInv
  <2>3. menu[m].state # "free" /\ menu[m].name = i /\ (window => m \in OnBar)
    BY <2>1 DEF CoreInv, MenusFit
  <2> QED BY <1>2, <2>1, <2>2, <2>3
<1>9. ActionsFit'
  <2> SUFFICES ASSUME NEW i \in DOMAIN record', NEW k \in DOMAIN record'[i].actions,
                      record'[i].actions[k].action # NoAction
               PROVE  LET a == record'[i].actions[k].action
                      IN  /\ action'[a].menu = record'[i].menu /\ action'[a].shown
                          /\ action'[a].id = i /\ action'[a].key = k
    BY DEF ActionsFit
  <2> DEFINE a == record[i].actions[k].action
  <2>1. /\ i \in DOMAIN record /\ k \in DOMAIN record[i].actions
        /\ record'[i].actions[k].action = a /\ a \notin gone /\ a # NoAction
    BY <1>4, <1>5
  <2>2. a \in Action
    BY <2>1, RecordTyped DEF CoreInv, ActionRecord
  <2>3. /\ action[a].menu = record[i].menu /\ action[a].shown
        /\ action[a].id = i /\ action[a].key = k
    BY <2>1 DEF CoreInv, ActionsFit
  <2>4. record[i].menu \notin M
    BY <2>1, <2>2, <2>3 DEF gone
  <2>5. action'[a] = action[a]
    BY <1>3, <2>1, <2>2
  <2>6. record'[i].menu = record[i].menu
    BY <1>4, <2>1, <2>4
  <2> HIDE DEF a
  <2> QED BY <2>1, <2>3, <2>5, <2>6
<1>10. ShownAreRecorded'
  <2> SUFFICES ASSUME NEW a \in Action, action'[a].shown
               PROVE  LET i == action'[a].id  k == action'[a].key
                      IN  /\ i \in DOMAIN record' /\ k \in DOMAIN record'[i].actions
                          /\ record'[i].actions[k].action = a
    BY DEF ShownAreRecorded
  <2>1. a \notin gone /\ action'[a] = action[a]
    BY <1>3
  <2> DEFINE i == action[a].id  k == action[a].key
  <2>2. i \in DOMAIN record /\ k \in DOMAIN record[i].actions /\ record[i].actions[k].action = a
    BY <2>1 DEF CoreInv, ShownAreRecorded
  <2> HIDE DEF i, k
  <2>3. /\ i \in DOMAIN record' /\ k \in DOMAIN record'[i].actions
        /\ record'[i].actions[k].action = a
    BY <1>4, <1>5, <2>1, <2>2
  <2> QED BY <2>1, <2>3 DEF i, k
<1>11. NothingLeaks'
  <2> SUFFICES ASSUME NEW m \in Menu, menu'[m].state = "alive", menu'[m].ours
               PROVE  \E i \in DOMAIN record' : record'[i].menu = m
    BY DEF NothingLeaks, RecordedMenus
  <2>1. m \notin M /\ menu'[m] = menu[m]
    BY <1>2
  <2>2. PICK i \in DOMAIN record : record[i].menu = m
    BY <2>1 DEF CoreInv, NothingLeaks, RecordedMenus
  <2> QED BY <1>4, <2>1, <2>2
<1>12. DoomedAreOffBar'
  BY <1>1, <1>2, BarTyped DEF CoreInv, DoomedAreOffBar
<1> QED
  BY <1>6, <1>7, <1>8, <1>9, <1>10, <1>11, <1>12 DEF CoreInv

(* A menu of somebody else's. *)
LEMMA ForeignKeeps ==
  ASSUME CoreInv, NEW id \in MenuId, NEW onBar \in BOOLEAN, ForeignMenu(id, onBar)
  PROVE  CoreInv'
<1>1. PICK m \in FreeMenus :
        /\ bar' = Append(bar, m)
        /\ menu' = [menu EXCEPT ![m] = [state |-> "alive", name |-> id,
                                        parentIsBar |-> onBar, ours |-> FALSE]]
  BY DEF ForeignMenu
<1>2. window /\ UNCHANGED <<window, action, record>>
  BY DEF ForeignMenu
<1>3. m \in Menu /\ menu[m].state = "free"
  BY <1>1 DEF FreeMenus
<1>4. bar' \in Seq(Menu) /\ OnBar' = OnBar \cup {m}
  BY <1>1, <1>3, BarTyped, ToSetAppend DEF OnBar
<1>5. /\ menu' \in [Menu -> MenuObject]
      /\ \A b \in Menu \ {m} : menu'[b] = menu[b]
      /\ menu'[m].state = "alive" /\ ~menu'[m].ours
  <2>1. [state |-> "alive", name |-> id, parentIsBar |-> onBar, ours |-> FALSE] \in MenuObject
    BY DEF MenuObject
  <2> QED BY <1>1, <1>3, <2>1 DEF CoreInv, CoreTypes
<1>6. CoreTypes'
  BY <1>2, <1>4, <1>5 DEF CoreInv, CoreTypes
<1>7. ObjectsAreSound'
  <2>1. \A b \in OnBar' : menu'[b].state # "free"
    BY <1>4, <1>5, BarTyped DEF CoreInv, ObjectsAreSound
  <2> QED BY <1>2, <1>5, <2>1 DEF CoreInv, ObjectsAreSound
<1>8. MenusFit'
  <2> SUFFICES ASSUME NEW i \in DOMAIN record, record[i].menu # NoMenu
               PROVE  /\ menu'[record[i].menu].state # "free"
                      /\ menu'[record[i].menu].name = i
                      /\ record[i].menu \in OnBar'
    BY <1>2 DEF MenusFit
  <2>1. record[i].menu \in Menu
    BY RecordTyped DEF CoreInv
  <2> QED BY <1>2, <1>3, <1>4, <1>5, <2>1 DEF CoreInv, MenusFit
<1>9. ActionsFit' /\ ShownAreRecorded'
  BY <1>2 DEF CoreInv, ActionsFit, ShownAreRecorded
<1>10. NothingLeaks'
  BY <1>2, <1>5 DEF CoreInv, NothingLeaks, RecordedMenus
<1>11. DoomedAreOffBar'
  BY <1>4, <1>5, BarTyped DEF CoreInv, DoomedAreOffBar
<1> QED
  BY <1>6, <1>7, <1>8, <1>9, <1>10, <1>11 DEF CoreInv

(* Steps that leave the objects alone. *)
LEMMA CoreStutters ==
  ASSUME CoreInv, UNCHANGED <<window, bar, menu, action, record>>
  PROVE  CoreInv'
BY DEF CoreInv, CoreTypes, ObjectsAreSound, MenusFit, ActionsFit,
       ShownAreRecorded, NothingLeaks, DoomedAreOffBar, OnBar, RecordedMenus

(* A registry call. *)
LEMMA PerformKeeps ==
  ASSUME CoreInv, NEW r \in Request, Perform(r)
  PROVE  CoreInv'
<1>1. CASE r.op = "ensure" /\ EnsureTopLevelMenu(r.menu)
  <2>1. r.menu \in MenuId
    BY <1>1 DEF Request
  <2> QED BY <1>1, <2>1, EnsureKeeps
<1>2. CASE r.op = "add" /\ AddMenuAction(r)
  BY <1>2, AddKeeps
<1>3. CASE r.op = "teardown" /\ TeardownAll
  BY <1>3, TeardownKeeps
<1> QED
  BY <1>1, <1>2, <1>3 DEF Perform

(* A registry call destroys no action. *)
LEMMA PerformKeepsActions ==
  ASSUME CoreInv, NEW r \in Request, Perform(r), NEW a \in Action, action[a].menu # NoMenu
  PROVE  action'[a].menu # NoMenu
<1>1. action \in [Action -> ActionObject]
  BY DEF CoreInv, CoreTypes
<1>2. CASE EnsureTopLevelMenu(r.menu) \/ NoWindow
  BY <1>2 DEF EnsureTopLevelMenu, NoWindow
<1>3. ASSUME NEW m \in Menu, NEW b \in FreeActions,
             action' = [action EXCEPT ![b] =
               [menu |-> m, shown |-> TRUE, id |-> r.menu, key |-> r.key]]
      PROVE  action'[a].menu # NoMenu
  BY <1>1, <1>3 DEF FreeActions
<1>4. CASE AddMenuAction(r)
  BY <1>2, <1>3, <1>4 DEF AddMenuAction
<1>5. CASE TeardownAll
  <2>1. action'[a].menu = action[a].menu
    BY <1>1, <1>5 DEF TeardownAll, TeardownEffect, Unlisted, ActionObject
  <2> QED BY <2>1
<1> QED
  BY <1>2, <1>4, <1>5 DEF Perform

(* One menu is destroyed. *)
LEMMA VanishKeeps ==
  ASSUME CoreInv, NEW m \in Menu, Vanish(m)
  PROVE  CoreInv'
<1>1. /\ Destroyed({m}, {}) /\ window' = window
      /\ bar' \in Seq(Menu) /\ OnBar' = OnBar \ {m}
  BY BarTyped, WithoutKeepsTheRest DEF Vanish, OnBar
<1>2. window \in BOOLEAN /\ (~window => OnBar = {})
  BY DEF CoreInv, CoreTypes, ObjectsAreSound
<1> QED BY <1>1, <1>2, DestroyedKeeps

(* Whatever others destroy or add. *)
LEMMA EnvironmentKeeps ==
  ASSUME CoreInv, Environment
  PROVE  CoreInv'
<1>1. ASSUME NEW m \in Menu, DestroyMenu(m) PROVE CoreInv'
  BY <1>1, VanishKeeps DEF DestroyMenu
<1>2. ASSUME NEW a \in Action, DestroyAction(a) PROVE CoreInv'
  <2>1. /\ Destroyed({}, {a}) /\ window' = window /\ bar' \in Seq(Menu) /\ OnBar' = OnBar \ {}
    BY <1>2, BarTyped DEF DestroyAction, OnBar
  <2>2. window \in BOOLEAN /\ (~window => OnBar = {})
    BY DEF CoreInv, CoreTypes, ObjectsAreSound
  <2> QED BY <2>1, <2>2, DestroyedKeeps
<1>3. CASE DestroyWindow
  <2> DEFINE M == {m \in Menu : menu[m].parentIsBar}
  <2>1. Destroyed(M, {}) /\ window' = FALSE /\ bar' = <<>>
    BY <1>3 DEF DestroyWindow
  <2>2. bar' \in Seq(Menu) /\ OnBar' = {}
    BY <2>1, NoneIsPartial DEF OnBar, ToSet
  <2>3. M \in SUBSET Menu
    OBVIOUS
  <2> HIDE DEF M
  <2> QED BY <2>1, <2>2, <2>3, DestroyedKeeps
<1>4. ASSUME NEW id \in MenuId, NEW onBar \in ForeignIsChild, ForeignMenu(id, onBar)
      PROVE  CoreInv'
  <2> onBar \in BOOLEAN
    OBVIOUS
  <2> QED BY <1>4, ForeignKeeps
<1> QED
  BY <1>1, <1>2, <1>3, <1>4 DEF Environment

(* Every step keeps the objects sound ... *)
LEMMA NextKeepsCore ==
  ASSUME MenuInv, [Next]_vars
  PROVE  CoreInv'
<1> CoreInv /\ CallInv
  BY DEF MenuInv
<1>1. ASSUME NEW r \in Request, CallFromThread(r) PROVE CoreInv'
  BY <1>1, CoreStutters DEF CallFromThread
<1>2. ASSUME NEW r \in Request, CallFromUi(r) PROVE CoreInv'
  BY <1>2, PerformKeeps DEF CallFromUi
<1>3. CASE Dispatch
  <2>1. Head(queue) \in Request /\ Perform(Head(queue))
    BY <1>3, HeadTailProperties DEF Dispatch, CallInv
  <2>2. PICK r \in Request : r = Head(queue)
    BY <2>1
  <2> QED BY <2>1, <2>2, PerformKeeps
<1>4. ASSUME NEW a \in Action, Trigger(a) PROVE CoreInv'
  BY <1>4, CoreStutters DEF Trigger
<1>5. CASE CallFromCallback
  <2>1. Head(ui.todo) \in Request /\ Perform(Head(ui.todo))
    BY <1>5, HeadTailProperties DEF CallFromCallback, CallInv
  <2>2. PICK r \in Request : r = Head(ui.todo)
    BY <2>1
  <2> QED BY <2>1, <2>2, PerformKeeps
<1>6. CASE CallbackReturns
  BY <1>6, CoreStutters DEF CallbackReturns
<1>7. ASSUME NEW m \in Menu, DeferredDelete(m) PROVE CoreInv'
  BY <1>7, VanishKeeps DEF DeferredDelete
<1>8. CASE Environment
  BY <1>8, EnvironmentKeeps
<1>9. CASE UNCHANGED vars
  BY <1>9, CoreStutters DEF vars
<1> QED
  BY <1>1, <1>2, <1>3, <1>4, <1>5, <1>6, <1>7, <1>8, <1>9 DEF Next

(* ... and the calls. *)
LEMMA NextKeepsCalls ==
  ASSUME MenuInv, [Next]_vars
  PROVE  CallInv'
<1> CoreInv /\ CallInv
  BY DEF MenuInv
<1> USE DEF CallInv, ActionOutlivesItsCallback
<1>0. UNCHANGED <<ui, locked>> /\ queue' \in Seq(Request) /\ InEventLoop => CallInv'
  BY DEF InEventLoop, Idle
<1>1. ASSUME NEW r \in Request, CallFromThread(r) PROVE CallInv'
  <2>1. queue' \in Seq(Request)
    BY <1>1 DEF CallFromThread
  <2> QED BY <1>1, <2>1 DEF CallFromThread
<1>2. ASSUME NEW r \in Request, CallFromUi(r) PROVE CallInv'
  BY <1>0, <1>2 DEF CallFromUi, uiVars
<1>3. CASE Dispatch
  <2>1. queue' \in Seq(Request)
    BY <1>3, HeadTailProperties DEF Dispatch
  <2> QED BY <1>0, <1>3, <2>1 DEF Dispatch
<1>4. ASSUME NEW a \in Action, Trigger(a) PROVE CallInv'
  <2>1. PICK c \in Slot(a) : ui' = [act |-> a, todo |-> BodyOf[c]]
    BY <1>4 DEF Trigger
  <2>2. c \in Callback
    <3> DEFINE i == action[a].id  k == action[a].key
    <3>1. /\ i \in DOMAIN record /\ k \in DOMAIN record[i].actions
          /\ c = record[i].actions[k].callback
      BY <2>1 DEF Slot
    <3> QED BY <3>1, RecordTyped DEF CoreInv, ActionRecord
  <2>3. BodyOf[c] \in Seq(Request)
    BY <2>2
  <2> QED BY <1>4, <2>1, <2>3 DEF Trigger, Clickable
<1>5. CASE CallFromCallback
  <2>1. /\ Head(ui.todo) \in Request /\ Perform(Head(ui.todo))
        /\ Tail(ui.todo) \in Seq(Request)
    BY <1>5, HeadTailProperties DEF CallFromCallback
  <2>2. PICK r \in Request : r = Head(ui.todo)
    BY <2>1
  <2>3. ui'.act = ui.act /\ ui' \in [act : Action \cup {NoAction}, todo : Seq(Request)]
    BY <1>5, <2>1 DEF CallFromCallback
  <2>4. ui.act # NoAction => action'[ui.act].menu # NoMenu
    BY <2>1, <2>2, PerformKeepsActions
  <2> QED BY <1>5, <2>3, <2>4 DEF CallFromCallback
<1>6. CASE CallbackReturns
  BY <1>6 DEF CallbackReturns, Idle
<1>7. ASSUME NEW m \in Menu, DeferredDelete(m) PROVE CallInv'
  BY <1>0, <1>7 DEF DeferredDelete, Vanish
<1>8. CASE Environment
  BY <1>0, <1>8 DEF Environment, DestroyMenu, Vanish, DestroyAction, DestroyWindow, ForeignMenu, uiVars
<1>9. CASE UNCHANGED vars
  BY <1>9 DEF vars
<1> QED
  BY <1>1, <1>2, <1>3, <1>4, <1>5, <1>6, <1>7, <1>8, <1>9 DEF Next

(* The invariant holds at first, and so always. *)
LEMMA InitHolds ==
  ASSUME Init
  PROVE  MenuInv
<1>1. /\ DOMAIN record = {} /\ OnBar = {} /\ bar \in Seq(Menu)
      /\ queue \in Seq(Request) /\ <<>> \in Seq(Request)
  BY NoneIsPartial DEF Init, OnBar, ToSet
<1>2. /\ menu \in [Menu -> MenuObject]
      /\ \A m \in Menu : menu[m].state = "free" /\ ~menu[m].ours /\ ~menu[m].parentIsBar
  BY DEF Init, FreeMenu, MenuObject
<1>3. action \in [Action -> ActionObject] /\ \A a \in Action : ~action[a].shown
  BY DEF Init, FreeAction, ActionObject
<1>4. CoreTypes
  BY <1>1, <1>2, <1>3 DEF Init, CoreTypes
<1>5. CoreInv
  BY <1>1, <1>2, <1>3, <1>4 DEF Init, CoreInv, ObjectsAreSound, MenusFit, ActionsFit,
     ShownAreRecorded, NothingLeaks, DoomedAreOffBar
<1>6. CallInv
  BY <1>1 DEF Init, CallInv, ActionOutlivesItsCallback, Idle
<1> QED BY <1>5, <1>6 DEF MenuInv

LEMMA MenuInvariance == Spec => []MenuInv
<1>1. MenuInv /\ [Next]_vars => MenuInv'
  BY NextKeepsCore, NextKeepsCalls DEF MenuInv
<1> QED BY InitHolds, <1>1, PTL DEF Spec

----------------------------------------------------------------------------
(* Theorems *)

(* The variables of the registry keep their types. *)
THEOREM RegistryTypes == Spec => []TypeOK
<1>1. MenuInv => TypeOK
  BY DEF MenuInv, CoreInv, CallInv, CoreTypes, TypeOK
<1> QED BY <1>1, MenuInvariance, PTL

(* A record never speaks of a menu or an action that is gone or elsewhere   *)
(* (ObsMenuRegistry.cpp:39-86, 145-181).                                    *)
THEOREM RecordsStayFit == Spec => []RecordsAreFit
<1>1. MenuInv => RecordsAreFit
  BY DEF MenuInv, CoreInv, MenusFit, ActionsFit, RecordsAreFit, RecordedActions
<1> QED BY <1>1, MenuInvariance, PTL

(* Every action that can be clicked is the one recorded for its ids          *)
(* (ObsMenuRegistry.cpp:147-156, 163-178).                                  *)
THEOREM ClicksAreServed == Spec => []ClicksReachTheirRecord
<1>1. MenuInv => ClicksReachTheirRecord
  BY DEF MenuInv, CoreInv, ShownAreRecorded, ClicksReachTheirRecord, Clickable
<1> QED BY <1>1, MenuInvariance, PTL

(* teardownAll reaches every menu the registry has made (lines 187-203).    *)
THEOREM NoMenuLeaks == Spec => []NothingLeaks
<1>1. MenuInv => NothingLeaks
  BY DEF MenuInv, CoreInv
<1> QED BY <1>1, MenuInvariance, PTL

(* A menu given to deleteLater is off the bar at once, if it was the bar's   *)
(* child (lines 195-200).                                                   *)
THEOREM DyingMenusAreOffBar == Spec => []DoomedAreOffBar
<1>1. MenuInv => DoomedAreOffBar
  BY DEF MenuInv, CoreInv
<1> QED BY <1>1, MenuInvariance, PTL

(* The action whose callback runs exists until the callback returns (line   *)
(* 200).                                                                    *)
THEOREM RunningActionLives == Spec => []ActionOutlivesItsCallback
<1>1. MenuInv => ActionOutlivesItsCallback
  BY DEF MenuInv, CallInv
<1> QED BY <1>1, MenuInvariance, PTL

----------------------------------------------------------------------------
(* What a call does to the offer *)

(* The record of id and key names an action that exists, with callback c. *)
Registered(id, key, c) ==
  /\ id \in DOMAIN record /\ key \in DOMAIN record[id].actions
  /\ record[id].actions[key].action # NoAction
  /\ record[id].actions[key].callback = c

(* The records are what the user is offered. *)
LEMMA OfferIsRecorded ==
  CoreInv /\ window =>
    \A o : o \in Offer <=> \E i, k, c : o = <<i, k, c>> /\ Registered(i, k, c)
<1> SUFFICES ASSUME CoreInv, window, NEW o
             PROVE  o \in Offer <=> \E i, k, c : o = <<i, k, c>> /\ Registered(i, k, c)
  OBVIOUS
<1>1. ASSUME o \in Offer
      PROVE  \E i, k, c : o = <<i, k, c>> /\ Registered(i, k, c)
  <2>1. PICK a \in Action : /\ Clickable(a)
                            /\ \E c \in Slot(a) : o = <<action[a].id, action[a].key, c>>
    BY <1>1 DEF Offer
  <2>2. /\ action[a].id \in DOMAIN record
        /\ action[a].key \in DOMAIN record[action[a].id].actions
        /\ record[action[a].id].actions[action[a].key].action = a
    BY <2>1 DEF Clickable, CoreInv, ShownAreRecorded
  <2>3. o = <<action[a].id, action[a].key, record[action[a].id].actions[action[a].key].callback>>
    BY <2>1, <2>2 DEF Slot
  <2>4. a # NoAction
    OBVIOUS
  <2> QED BY <2>2, <2>3, <2>4 DEF Registered
<1>2. ASSUME NEW i, NEW k, NEW c, o = <<i, k, c>>, Registered(i, k, c)
      PROVE  o \in Offer
  <2> DEFINE a == record[i].actions[k].action
  <2>1. i \in DOMAIN record /\ k \in DOMAIN record[i].actions /\ a # NoAction
        /\ record[i].actions[k].callback = c
    BY <1>2 DEF Registered
  <2>2. a \in Action
    BY <2>1, RecordTyped DEF CoreInv, ActionRecord
  <2>3. /\ action[a].menu = record[i].menu /\ action[a].shown
        /\ action[a].id = i /\ action[a].key = k
    BY <2>1 DEF CoreInv, ActionsFit
  <2>4. record[i].menu # NoMenu
    BY <2>2, <2>3 DEF CoreInv, ObjectsAreSound
  <2>5. record[i].menu \in OnBar
    BY <2>1, <2>4 DEF CoreInv, MenusFit
  <2> HIDE DEF a
  <2>6. Clickable(a)
    BY <2>3, <2>4, <2>5 DEF Clickable
  <2>7. c \in Slot(a)
    BY <2>1, <2>3 DEF Slot
  <2> QED BY <1>2, <2>2, <2>3, <2>6, <2>7 DEF Offer
<1> QED BY <1>1, <1>2

(* ensureTopLevelMenu registers and forgets no action. *)
LEMMA EnsureRegistersNothing ==
  ASSUME NEW id \in MenuId, window, EnsureTopLevelMenu(id),
         NEW i, NEW k, NEW c
  PROVE  Registered(i, k, c)' <=> Registered(i, k, c)
<1>1. PICK m \in Menu : record' = Put(record, id, Entry(id, m))
  BY DEF EnsureTopLevelMenu, NoWindow
<1>2. /\ DOMAIN record' = DOMAIN record \cup {id}
      /\ record'[id] = Entry(id, m)
      /\ \A j \in DOMAIN record \ {id} : record'[j] = record[j]
  BY <1>1 DEF Put
<1>3. Entry(id, m).actions = IF id \in DOMAIN record THEN record[id].actions ELSE <<>>
  BY DEF Entry
<1>4. DOMAIN <<>> = {}
  BY NoneIsPartial
<1>5. CASE i = id
  BY <1>2, <1>3, <1>4, <1>5 DEF Registered
<1>6. CASE i # id
  BY <1>2, <1>6 DEF Registered
<1> QED BY <1>5, <1>6

(* addMenuAction registers its own callback under its ids, and nothing else. *)
LEMMA AddRegisters ==
  ASSUME NEW r \in Request, r.op = "add", window, AddMenuAction(r),
         NEW i, NEW k, NEW c
  PROVE  Registered(i, k, c)' <=>
           IF <<i, k>> = <<r.menu, r.key>> THEN c = r.callback ELSE Registered(i, k, c)
<1>0. PICK m \in Menu : \E a :
        /\ record' = Put(record, r.menu, WithAction(Entry(r.menu, m), r, a))
        /\ a # NoAction
  <2>1. \A a \in FreeActions : a # NoAction
    BY DEF FreeActions
  <2> QED BY <2>1 DEF AddMenuAction, NoWindow, Lives
<1>1. PICK a :
        /\ record' = Put(record, r.menu, WithAction(Entry(r.menu, m), r, a))
        /\ a # NoAction
  BY <1>0
<1> DEFINE old == ActionsUnder(r.menu)
           v == [action |-> a, callback |-> r.callback]
           new == Put(old, r.key, v)
<1>2. Entry(r.menu, m) = [menu |-> m, actions |-> old]
  BY DEF Entry, ActionsUnder
<1>3. WithAction(Entry(r.menu, m), r, a) = [menu |-> m, actions |-> new]
  BY <1>2 DEF WithAction
<1>4. /\ DOMAIN record' = DOMAIN record \cup {r.menu}
      /\ record'[r.menu].actions = new
      /\ \A j \in DOMAIN record \ {r.menu} : record'[j] = record[j]
  BY <1>1, <1>3 DEF Put
<1>5. v.action = a /\ v.callback = r.callback
  OBVIOUS
<1> HIDE DEF old, v
<1>6. /\ DOMAIN new = DOMAIN old \cup {r.key}
      /\ new[r.key] = v
      /\ \A j \in DOMAIN old \ {r.key} : new[j] = old[j]
  BY DEF Put
<1> HIDE DEF new
<1>7. /\ r.menu \in DOMAIN record => old = record[r.menu].actions
      /\ r.menu \notin DOMAIN record => DOMAIN old = {}
  BY NoneIsPartial DEF old, ActionsUnder
<1>8. CASE i = r.menu /\ k = r.key
  BY <1>1, <1>4, <1>5, <1>6, <1>8 DEF Registered
<1>9. CASE i = r.menu /\ k # r.key
  BY <1>4, <1>6, <1>7, <1>9 DEF Registered
<1>10. CASE i # r.menu
  BY <1>4, <1>10 DEF Registered
<1> QED BY <1>8, <1>9, <1>10

(* A call changes the offer as it promises. *)
LEMMA PerformHasItsEffect ==
  ASSUME CoreInv, window, NEW r \in Request, Perform(r)
  PROVE  Offer' = OfferAfter(r)
<1>1. CoreInv' /\ window'
  BY PerformKeeps DEF Perform, EnsureTopLevelMenu, AddMenuAction, TeardownAll, NoWindow
<1>2. \A o : o \in Offer <=> \E i, k, c : o = <<i, k, c>> /\ Registered(i, k, c)
  BY OfferIsRecorded
<1>3. \A o : o \in Offer' <=> \E i, k, c : o = <<i, k, c>> /\ Registered(i, k, c)'
  <2>1. CoreInv' /\ window' =>
          (\A o : o \in Offer <=> \E i, k, c : o = <<i, k, c>> /\ Registered(i, k, c))'
    BY OfferIsRecorded, PTL
  <2> QED BY <1>1, <2>1
<1>4. CASE r.op = "ensure" /\ EnsureTopLevelMenu(r.menu)
  <2>1. r.menu \in MenuId
    BY <1>4 DEF Request
  <2>2. \A i, k, c : Registered(i, k, c)' <=> Registered(i, k, c)
    BY <1>4, <2>1, EnsureRegistersNothing
  <2>3. Offer' = Offer
    BY <1>2, <1>3, <2>2
  <2> QED BY <1>4, <2>3 DEF OfferAfter
<1>5. CASE r.op = "add" /\ AddMenuAction(r)
  <2>1. \A i, k, c : Registered(i, k, c)' <=>
          IF <<i, k>> = <<r.menu, r.key>> THEN c = r.callback ELSE Registered(i, k, c)
    BY <1>5, AddRegisters
  <2>2. OfferAfter(r) = {o \in Offer : <<o[1], o[2]>> # <<r.menu, r.key>>}
                          \cup {<<r.menu, r.key, r.callback>>}
    BY <1>5 DEF OfferAfter
  <2>3. ASSUME NEW o PROVE o \in Offer' <=> o \in OfferAfter(r)
    <3>1. o \in Offer' <=> \E i, k, c : o = <<i, k, c>> /\ Registered(i, k, c)'
      BY <1>3
    <3>2. o \in OfferAfter(r) <=> \/ o = <<r.menu, r.key, r.callback>>
                                  \/ o \in Offer /\ <<o[1], o[2]>> # <<r.menu, r.key>>
      BY <2>2
    <3>3. ASSUME NEW i, NEW k, NEW c, o = <<i, k, c>>
          PROVE  /\ o[1] = i /\ o[2] = k
                 /\ o = <<r.menu, r.key, r.callback>> <=>
                      <<i, k>> = <<r.menu, r.key>> /\ c = r.callback
      BY <3>3
    <3>4. ASSUME o \in Offer' PROVE o \in OfferAfter(r)
      <4>1. PICK i, k, c : o = <<i, k, c>> /\ Registered(i, k, c)'
        BY <3>1, <3>4
      <4>2. CASE <<i, k>> = <<r.menu, r.key>>
        BY <2>1, <3>2, <3>3, <4>1, <4>2
      <4>3. CASE <<i, k>> # <<r.menu, r.key>>
        <5>1. Registered(i, k, c)
          BY <2>1, <4>1, <4>3
        <5>2. o \in Offer
          BY <1>2, <4>1, <5>1
        <5> QED BY <3>2, <3>3, <4>1, <4>3, <5>2
      <4> QED BY <4>2, <4>3
    <3>5. ASSUME o \in OfferAfter(r) PROVE o \in Offer'
      <4>1. CASE o = <<r.menu, r.key, r.callback>>
        <5>1. Registered(r.menu, r.key, r.callback)'
          BY <2>1
        <5> QED BY <3>1, <4>1, <5>1
      <4>2. CASE o \in Offer /\ <<o[1], o[2]>> # <<r.menu, r.key>>
        <5>1. PICK i, k, c : o = <<i, k, c>> /\ Registered(i, k, c)
          BY <1>2, <4>2
        <5>2. <<i, k>> # <<r.menu, r.key>>
          BY <3>3, <4>2, <5>1
        <5>3. Registered(i, k, c)'
          BY <2>1, <5>1, <5>2
        <5> QED BY <3>1, <5>1, <5>3
      <4> QED BY <3>2, <3>5, <4>1, <4>2
    <3> QED BY <3>4, <3>5
  <2> QED BY <2>3
<1>6. CASE r.op = "teardown" /\ TeardownAll
  <2>1. DOMAIN record' = {}
    BY <1>6, NoneIsPartial DEF TeardownAll, TeardownEffect
  <2>2. \A i, k, c : ~ Registered(i, k, c)'
    BY <2>1 DEF Registered
  <2>3. Offer' = {}
    BY <1>3, <2>2
  <2> QED BY <1>6, <2>3 DEF OfferAfter
<1> QED
  BY <1>4, <1>5, <1>6 DEF Perform

(* A step that runs a waiting call performs it. *)
LEMMA RunsPerforms ==
  ASSUME MenuInv, Next, NEW r \in Request, Runs(r)
  PROVE  Perform(r)
<1> /\ queue \in Seq(Request)
    /\ ui \in [act : Action \cup {NoAction}, todo : Seq(Request)]
  BY DEF MenuInv, CallInv
<1>0. /\ queue # <<>> => Tail(queue) # queue
      /\ ui.todo # <<>> => Tail(ui.todo) # ui.todo
  BY HeadTailProperties, LenProperties
<1>1. ASSUME NEW q \in Request, CallFromThread(q) PROVE FALSE
  <2>1. queue' = Append(queue, q) /\ ui' = ui
    BY <1>1 DEF CallFromThread
  <2>2. queue # <<>> => Tail(queue) # Append(queue, q)
    BY HeadTailProperties, AppendProperties
  <2> QED BY <1>0, <2>1, <2>2 DEF Runs
<1>2. CASE UNCHANGED <<queue, ui>>
  BY <1>0, <1>2 DEF Runs
<1>3. CASE Dispatch
  <2>1. ui' = ui /\ ui.todo = <<>> /\ Perform(Head(queue))
    BY <1>3 DEF Dispatch, InEventLoop, Idle
  <2> QED BY <2>1 DEF Runs
<1>4. ASSUME NEW a \in Action, Trigger(a) PROVE FALSE
  <2>1. queue' = queue /\ ui.todo = <<>>
    BY <1>4 DEF Trigger, InEventLoop, Idle
  <2> QED BY <1>0, <2>1 DEF Runs
<1>5. CASE CallFromCallback
  <2>1. queue' = queue /\ Perform(Head(ui.todo))
    BY <1>5 DEF CallFromCallback
  <2> QED BY <1>0, <2>1 DEF Runs
<1>6. CASE CallbackReturns
  <2>1. queue' = queue /\ ui.todo = <<>>
    BY <1>6 DEF CallbackReturns
  <2> QED BY <1>0, <2>1 DEF Runs
<1> QED
  BY <1>1, <1>2, <1>3, <1>4, <1>5, <1>6
     DEF Next, CallFromUi, uiVars, DeferredDelete, Environment, DestroyMenu, Vanish,
         DestroyAction, DestroyWindow, ForeignMenu

(* Every call that waited its turn, in the event loop's queue or in a        *)
(* callback, changes what the user is offered exactly as it promises,        *)
(* whatever happened while it waited (lines 39-86, 145-181, 187-203).        *)
THEOREM CallsTakeEffect == Spec => CallsHaveTheirEffect
<1>1. MenuInv /\ [Next]_vars =>
        [\A r \in Request : window /\ Runs(r) => Offer' = OfferAfter(r)]_vars
  <2> SUFFICES ASSUME MenuInv, Next, NEW r \in Request, window, Runs(r)
               PROVE  Offer' = OfferAfter(r)
    OBVIOUS
  <2>1. Perform(r)
    BY RunsPerforms
  <2> QED BY <2>1, PerformHasItsEffect DEF MenuInv
<1> QED BY <1>1, MenuInvariance, PTL DEF Spec, CallsHaveTheirEffect

============================================================================
