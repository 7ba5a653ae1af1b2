-------------------------- MODULE PluginHostProofs --------------------------
(***************************************************************************)
(* Machine-checked proofs about PluginHost: HostInv is inductive, and the  *)
(* safety properties of the host follow from it, for any callers, any      *)
(* libraries and any finite set of plugin objects.                         *)
(***************************************************************************)
EXTENDS PluginHost, SequenceTheorems, FiniteSetTheorems, TLAPS

USE CallersAssumption, ModuleAssumption, ObjectAssumption

(***************************************************************************)
(* Sequences and counts                                                    *)
(***************************************************************************)

(* RemoveAt drops the i-th element and closes the gap. *)
LEMMA RemoveAtProperties ==
  ASSUME NEW S, NEW s \in Seq(S), NEW i \in 1 .. Len(s)
  PROVE  /\ RemoveAt(s, i) \in Seq(S)
         /\ Len(RemoveAt(s, i)) = Len(s) - 1
         /\ \A j \in 1 .. Len(s) - 1 :
              RemoveAt(s, i)[j] = IF j < i THEN s[j] ELSE s[j+1]
  <1> DEFINE a == SubSeq(s, 1, i - 1)
             b == SubSeq(s, i + 1, Len(s))
  <1>0. Len(s) \in Nat
    BY LenProperties
  <1>e. \A k \in 1 .. Len(s) : s[k] \in S
    BY ElementOfSeq
  <1>1. a \in Seq(S) /\ Len(a) = i - 1 /\ \A k \in 1 .. i - 1 : a[k] = s[k]
    BY <1>0, <1>e, SubSeqProperties
  <1>2. /\ b \in Seq(S) /\ Len(b) = Len(s) - i
        /\ \A k \in 1 .. Len(s) - i : b[k] = s[i + k]
    BY <1>0, <1>e, SubSeqProperties
  <1>3. RemoveAt(s, i) = a \o b
    BY DEF RemoveAt
  <1> HIDE DEF a, b
  <1>4. /\ a \o b \in Seq(S)
        /\ Len(a \o b) = Len(s) - 1
        /\ \A j \in 1 .. Len(s) - 1 :
             (a \o b)[j] = IF j <= i - 1 THEN a[j] ELSE b[j - (i - 1)]
    <2>1. /\ a \o b \in Seq(S)
          /\ Len(a \o b) = Len(a) + Len(b)
          /\ \A j \in 1 .. Len(a) + Len(b) :
               (a \o b)[j] = IF j <= Len(a) THEN a[j] ELSE b[j - Len(a)]
      BY <1>1, <1>2, ConcatProperties
    <2>2. Len(a) = i - 1 /\ Len(b) = Len(s) - i /\ Len(a) + Len(b) = Len(s) - 1
      BY <1>0, <1>1, <1>2
    <2> QED
      BY <2>1, <2>2
  <1>5. ASSUME NEW j \in 1 .. Len(s) - 1
        PROVE  (a \o b)[j] = IF j < i THEN s[j] ELSE s[j+1]
    <2>1. CASE j < i
      BY <2>1, <1>0, <1>1, <1>4
    <2>2. CASE ~(j < i)
      <3>1. j - (i - 1) \in 1 .. Len(s) - i
        BY <2>2, <1>0
      <3>2. b[j - (i - 1)] = s[i + (j - (i - 1))]
        BY <3>1, <1>2
      <3>3. i + (j - (i - 1)) = j + 1
        BY <1>0
      <3> QED
        BY <2>2, <3>2, <3>3, <1>0, <1>4
    <2> QED
      BY <2>1, <2>2
  <1> QED
    BY <1>3, <1>4, <1>5

(* The objects that hold a handle of library m. *)
Handles(f, m) == {o \in Object : f[o] = m}

(* Finitely many objects hold a library. *)
LEMMA HandlesAreFinite ==
  \A f, m : IsFiniteSet(Handles(f, m)) /\ Cardinality(Handles(f, m)) \in Nat
  BY FS_Subset, FS_CardinalityType DEF Handles

(* An object that takes a handle of m adds one to m's count only. *)
LEMMA OpenedHandles ==
  ASSUME NEW f \in [Object -> Module \cup {NoModule}], NEW o \in Object,
         NEW m \in Module, f[o] = NoModule
  PROVE  LET g == [f EXCEPT ![o] = m] IN
         /\ Cardinality(Handles(g, m)) = Cardinality(Handles(f, m)) + 1
         /\ \A k \in Module \ {m} : Handles(g, k) = Handles(f, k)
  <1> DEFINE g == [f EXCEPT ![o] = m]
  <1>1. Handles(g, m) = Handles(f, m) \cup {o} /\ o \notin Handles(f, m)
    BY DEF Handles
  <1>2. \A k \in Module \ {m} : Handles(g, k) = Handles(f, k)
    BY DEF Handles
  <1>3. Cardinality(Handles(g, m)) = Cardinality(Handles(f, m)) + 1
    BY <1>1, HandlesAreFinite, FS_AddElement
  <1> QED
    BY <1>2, <1>3

(* An object that gives up its handle takes one from its library's count. *)
LEMMA ClosedHandles ==
  ASSUME NEW f \in [Object -> Module \cup {NoModule}], NEW o \in Object,
         f[o] \in Module
  PROVE  LET g == [f EXCEPT ![o] = NoModule]
             m == f[o] IN
         /\ Cardinality(Handles(f, m)) = Cardinality(Handles(g, m)) + 1
         /\ \A k \in Module \ {m} : Handles(g, k) = Handles(f, k)
  <1> DEFINE g == [f EXCEPT ![o] = NoModule]
             m == f[o]
  <1>1. Handles(f, m) = Handles(g, m) \cup {o} /\ o \notin Handles(g, m)
    BY DEF Handles
  <1>2. \A k \in Module \ {m} : Handles(g, k) = Handles(f, k)
    BY DEF Handles
  <1>3. Cardinality(Handles(f, m)) = Cardinality(Handles(g, m)) + 1
    BY <1>1, HandlesAreFinite, FS_AddElement
  <1> QED
    BY <1>2, <1>3

(***************************************************************************)
(* The initial state, and facts about the states HostInv allows            *)
(***************************************************************************)

(* A host without plugins satisfies the invariant. *)
LEMMA InitInv == Init => HostInv
  <1> SUFFICES ASSUME Init PROVE HostInv
    OBVIOUS
  <1>1. TypeOK
    BY EmptySeq DEF Init, TypeOK, ThreadState, CallerState
  <1>2. \A m \in Module : {o \in Object : mod[o] = m} = {}
    BY DEF Init
  <1>3. RefsMatchHandles
    BY <1>2, FS_EmptySet DEF RefsMatchHandles, Init
  <1>4. HandsShape /\ UniqueOwner /\ UnusedIsFresh /\ OwnedIsStarted /\ ListedIsLive
    BY DEF Init, HandsShape, UniqueOwner, UnusedIsFresh, OwnedIsStarted,
           ListedIsLive, Listed, HeldBy, Fresh
  <1>5. CodeIsMapped /\ ClearedIsJoined /\ PassedIsStopped
        /\ TerminatedByFailedInit
    BY DEF Init, CodeIsMapped, NeedsLibrary, ClearedIsJoined, PassedIsStopped,
           Passed, TerminatedByFailedInit
  <1> QED
    BY <1>1, <1>3, <1>4, <1>5 DEF HostInv

(* A caller in the middle of a call works on a plugin it holds. *)
LEMMA TargetIsHeld ==
  ASSUME HostInv, process # "terminated", NEW c \in Caller, pc[c] # "idle"
  PROVE  /\ own[c] \in Seq(Object)
         /\ own[c] # <<>>
         /\ Len(own[c]) \in Nat
         /\ cursor[c] \in 1 .. Len(own[c])
         /\ Target(c) \in Object
         /\ HeldBy(c, Target(c))
         /\ mod[Target(c)] \in Module
  <1>1. own[c] \in Seq(Object) /\ Len(own[c]) \in Nat /\ cursor[c] \in 1 .. Len(own[c])
    BY LenProperties DEF HostInv, TypeOK, HandsShape
  <1>2. own[c] # <<>> 
    BY <1>1, EmptySeq
  <1>3. Target(c) \in Object /\ HeldBy(c, Target(c))
    BY <1>1, ElementOfSeq DEF Target, HeldBy
  <1> QED
    BY <1>1, <1>2, <1>3 DEF HostInv, TypeOK, UniqueOwner

(* A handle that is held is counted. *)
LEMMA RefsArePositive ==
  ASSUME HostInv, NEW o \in Object, mod[o] \in Module
  PROVE  refs[mod[o]] > 0
  <1> DEFINE H == Handles(mod, mod[o])
  <1>1. o \in H /\ IsFiniteSet(H) /\ Cardinality(H) \in Nat
    BY HandlesAreFinite DEF Handles
  <1>2. refs[mod[o]] = Cardinality(H)
    BY DEF HostInv, RefsMatchHandles, Handles
  <1> HIDE DEF H
  <1>3. Cardinality(H) # 0
    BY <1>1, FS_EmptySet
  <1> QED
    BY <1>1, <1>2, <1>3

(* loadAndStart has opened the library (ModuleLoader.cpp:56). *)
LEMMA LoadInv ==
  ASSUME HostInv, NEW c \in Caller, NEW m \in Module, NEW o \in Object, Load(c, m, o)
  PROVE  HostInv'
  <1> USE DEF HostInv, Load, Free, Goto, OpenLibrary
  <1>o. /\ own'[c] = <<o>> /\ \A d \in Caller \ {c} : own'[d] = own[d]
        /\ pc'[c] = "resolve" /\ \A d \in Caller \ {c} : pc'[d] = pc[d]
        /\ own[c] = <<>> /\ cursor[c] = 1 /\ Len(own'[c]) = 1
    BY DEF TypeOK, HandsShape
  <1>h. /\ \A p \in Object : HeldBy(c, p)' <=> p = o
        /\ \A p \in Object : ~HeldBy(c, p)
        /\ \A d \in Caller \ {c}, p \in Object : HeldBy(d, p)' <=> HeldBy(d, p)
        /\ \A p \in Object : Listed(p)' <=> Listed(p)
    BY <1>o DEF HeldBy, Listed
  <1>1. TypeOK'
    BY DEF TypeOK, CallerState
  <1>2. HandsShape'
    <2> SUFFICES ASSUME NEW d \in Caller
                 PROVE  /\ pc'[d] = "idle" => own'[d] = <<>>
                        /\ pc'[d] # "idle" => cursor'[d] \in 1 .. Len(own'[d])
                        /\ pc'[d] \notin {"stop", "join"} => cursor'[d] = 1
                        /\ pc'[d] \in {"resolve", "start", "publish"} => Len(own'[d]) = 1
      BY DEF HandsShape
    <2>1. CASE d = c
      <3>1. cursor'[d] = 1 /\ 1 \in 1 .. 1
        BY <2>1, <1>o
      <3> QED
        BY <2>1, <3>1, <1>o
    <2>2. CASE d # c
      BY <2>2, <1>o DEF HandsShape
    <2> QED
      BY <2>1, <2>2
  <1>3. UniqueOwner'
    <2>1. mod'[o] = m /\ \A p \in Object \ {o} : mod'[p] = mod[p]
      BY DEF TypeOK
    <2>2. (\A p \in Object : mod[p] # NoModule <=> Listed(p) \/ \E d \in Caller : HeldBy(d, p))'
      BY <2>1, <1>h DEF UniqueOwner
    <2>3. (\A d \in Caller : \A i, j \in 1 .. Len(own[d]) : own[d][i] = own[d][j] => i = j)'
      BY <1>o DEF UniqueOwner
    <2>4. (\A d \in Caller, p \in Object : HeldBy(d, p) => ~Listed(p))'
      BY <1>h DEF UniqueOwner
    <2>5. (\A d, e \in Caller, p \in Object : HeldBy(d, p) /\ HeldBy(e, p) => d = e)'
      BY <1>h DEF UniqueOwner
    <2> QED
      BY <2>2, <2>3, <2>4, <2>5 DEF UniqueOwner
  <1>4. RefsMatchHandles'
    <2>1. mod \in [Object -> Module \cup {NoModule}] /\ mod[o] = NoModule
      BY DEF TypeOK
    <2>2. LET g == [mod EXCEPT ![o] = m] IN
          /\ Cardinality(Handles(g, m)) = Cardinality(Handles(mod, m)) + 1
          /\ \A k \in Module \ {m} : Handles(g, k) = Handles(mod, k)
      BY <2>1, OpenedHandles
    <2>3. mod' = [mod EXCEPT ![o] = m]
      OBVIOUS
    <2>4. /\ Cardinality(Handles(mod', m)) = Cardinality(Handles(mod, m)) + 1
          /\ \A k \in Module \ {m} : Handles(mod', k) = Handles(mod, k)
      BY <2>2, <2>3
    <2>5. ASSUME NEW k \in Module PROVE refs'[k] = Cardinality(Handles(mod', k))
      <3>1. refs[k] = Cardinality(Handles(mod, k)) /\ refs[k] \in Nat
        BY DEF TypeOK, RefsMatchHandles, Handles
      <3>2. refs'[k] = IF k = m THEN refs[k] + 1 ELSE refs[k]
        BY DEF TypeOK
      <3>3. CASE k = m
        BY <2>4, <3>1, <3>2, <3>3
      <3>4. CASE k # m
        BY <2>4, <3>1, <3>2, <3>4
      <3> QED
        BY <3>3, <3>4
    <2> QED
      BY <2>5 DEF RefsMatchHandles, Handles
  <1>5. CodeIsMapped'
    BY DEF CodeIsMapped, NeedsLibrary, TypeOK
  <1>6. UnusedIsFresh'
    BY <1>o DEF UnusedIsFresh, TypeOK, Fresh, Target
  <1>7. OwnedIsStarted'
    BY <1>o DEF OwnedIsStarted, Target
  <1>8. ListedIsLive'
    BY <1>o DEF ListedIsLive, UniqueOwner, Listed, TypeOK
  <1>9. ClearedIsJoined'
    BY <1>o DEF ClearedIsJoined, Joining, Target
  <1>10. PassedIsStopped' /\ TerminatedByFailedInit'
    BY <1>o DEF PassedIsStopped, Passed, TerminatedByFailedInit, ThreadEnded
  <1> QED
    BY <1>1, <1>2, <1>3, <1>4, <1>5, <1>6, <1>7, <1>8, <1>9, <1>10

(* A step that moves no plugin and no handle keeps owners and counts. *)
LEMMA SameHands ==
  ASSUME HostInv, UNCHANGED <<refs, mod, items, own>>
  PROVE  UniqueOwner' /\ RefsMatchHandles'
  BY DEF HostInv, UniqueOwner, RefsMatchHandles, Listed, HeldBy

(* The list and the callers' hands hold plugin objects. *)
LEMMA OwnedAreObjects ==
  ASSUME HostInv
  PROVE  /\ \A i \in 1 .. Len(items) : items[i] \in Object
         /\ \A c \in Caller : \A i \in 1 .. Len(own[c]) : own[c][i] \in Object
  BY ElementOfSeq DEF HostInv, TypeOK

(* A plugin in somebody's hands is not on the list. *)
LEMMA HeldIsNotListed ==
  ASSUME HostInv, NEW c \in Caller, NEW o \in Object, HeldBy(c, o)
  PROVE  \A i \in 1 .. Len(items) : items[i] # o
  BY DEF HostInv, UniqueOwner, Listed

(* A caller that is not concerned by a step which leaves ended threads     *)
(* ended still has only stopped plugins behind it.                         *)
LEMMA OthersPassed ==
  ASSUME HostInv, NEW d \in Caller, process # "terminated",
         process' = "up" => process = "up",
         pc'[d] = pc[d], own'[d] = own[d], cursor'[d] = cursor[d],
         \A o \in Object : HeldBy(d, o) /\ ThreadEnded(o) => ThreadEnded(o)'
  PROVE  Passed(d)'
  <1>1. \A i \in 1 .. Len(own[d]) : own[d][i] \in Object /\ HeldBy(d, own[d][i])
    BY OwnedAreObjects DEF HeldBy
  <1>2. pc[d] # "idle" => \A i \in 1 .. cursor[d] - 1 : i \in 1 .. Len(own[d])
    BY LenProperties DEF HostInv, TypeOK, HandsShape
  <1>3. \A i \in 1 .. Len(own[d]) : ThreadEnded(own[d][i]) => ThreadEnded(own[d][i])'
    BY <1>1
  <1> HIDE <1>1
  <1> QED
    BY <1>2, <1>3 DEF Passed, HostInv, PassedIsStopped, ThreadEnded

(* A plugin in somebody's hands is in nobody else's. *)
LEMMA OthersHands ==
  ASSUME HostInv, NEW c \in Caller, NEW o \in Object, HeldBy(c, o)
  PROVE  \A d \in Caller \ {c} : \A i \in 1 .. Len(own[d]) : own[d][i] \in Object \ {o}
  <1> SUFFICES ASSUME NEW d \in Caller \ {c}, NEW i \in 1 .. Len(own[d])
               PROVE  own[d][i] \in Object \ {o}
    OBVIOUS
  <1>1. own[d][i] \in Object
    BY OwnedAreObjects
  <1>2. HeldBy(d, own[d][i])
    BY DEF HeldBy
  <1>3. \A q \in Object : HeldBy(c, q) /\ HeldBy(d, q) => c = d
    BY DEF HostInv, UniqueOwner
  <1> QED
    BY <1>1, <1>2, <1>3

(* The ThreadedPlugin is constructed (MultiPluginHost.cpp:22). *)
LEMMA ConstructInv ==
  ASSUME HostInv, NEW c \in Caller, Construct(c)
  PROVE  HostInv'
  <1> USE DEF HostInv, Construct, At, Goto, objVars
  <1>p. /\ pc[c] = "resolve" /\ pc'[c] = "start"
        /\ \A d \in Caller \ {c} : pc'[d] = pc[d]
    BY DEF TypeOK
  <1>1. TypeOK'
    BY DEF TypeOK, CallerState
  <1>2. HandsShape'
    BY <1>p DEF HandsShape
  <1>3. UniqueOwner' /\ RefsMatchHandles'
    BY SameHands
  <1>5. CodeIsMapped'
    BY DEF CodeIsMapped, NeedsLibrary
  <1>6. UnusedIsFresh'
    BY <1>p DEF UnusedIsFresh, Fresh, Target
  <1>7. OwnedIsStarted'
    BY <1>p DEF OwnedIsStarted, Target
  <1>8. ListedIsLive'
    BY DEF ListedIsLive
  <1>9. ClearedIsJoined'
    BY <1>p DEF ClearedIsJoined, Joining, Target
  <1>10. PassedIsStopped' /\ TerminatedByFailedInit'
    BY <1>p DEF PassedIsStopped, Passed, TerminatedByFailedInit, ThreadEnded
  <1> QED
    BY <1>1, <1>2, <1>3, <1>5, <1>6, <1>7, <1>8, <1>9, <1>10

(* The worker is started (ThreadedPlugin.cpp:18-25). *)
LEMMA StartInv ==
  ASSUME HostInv, NEW c \in Caller, Start(c)
  PROVE  HostInv'
  <1> USE DEF HostInv, Start, At, Goto
  <1> DEFINE o == Target(c)
  <1>o. /\ o = Target(c) /\ o \in Object /\ HeldBy(c, o) /\ mod[o] \in Module
        /\ own[c][1] = o /\ Len(own[c]) = 1 /\ cursor[c] = 1
    BY TargetIsHeld DEF HandsShape, Target
  <1>p. /\ pc[c] = "start" /\ pc'[c] = "publish"
        /\ \A d \in Caller \ {c} : pc'[d] = pc[d]
        /\ running'[o] /\ joinable'[o] /\ thread'[o] = "init"
        /\ \A q \in Object \ {o} : running'[q] = running[q] /\ joinable'[q] = joinable[q]
                                    /\ thread'[q] = thread[q]
    BY <1>o DEF TypeOK
  <1>l. \A i \in 1 .. Len(items) : items[i] \in Object \ {o}
    BY <1>o, HeldIsNotListed, OwnedAreObjects
  <1>d. \A d \in Caller \ {c} : \A i \in 1 .. Len(own[d]) : own[d][i] \in Object \ {o}
    BY <1>o, OthersHands
  <1> HIDE DEF o
  <1>1. TypeOK'
    BY <1>o DEF TypeOK, CallerState, ThreadState, o
  <1>2. HandsShape'
    BY <1>p DEF HandsShape
  <1>3. UniqueOwner' /\ RefsMatchHandles'
    BY SameHands
  <1>5. CodeIsMapped'
    BY <1>o, <1>p, RefsArePositive DEF CodeIsMapped, NeedsLibrary
  <1>6. UnusedIsFresh'
    BY <1>o, <1>p, <1>d DEF UnusedIsFresh, Fresh, Target, HandsShape
  <1>7. OwnedIsStarted'
    BY <1>o, <1>p, <1>l, <1>d DEF OwnedIsStarted, Target
  <1>8. ListedIsLive'
    BY <1>o, <1>p, <1>l DEF ListedIsLive
  <1>9. ClearedIsJoined'
    BY <1>o, <1>p DEF ClearedIsJoined, Joining, Target
  <1>10. PassedIsStopped' /\ TerminatedByFailedInit'
    <2>1. \A q \in Object : ThreadEnded(q) => ThreadEnded(q)'
      BY <1>o, <1>p DEF UnusedIsFresh, Fresh, ThreadEnded
    <2> QED
      BY <1>p, <2>1, OthersPassed DEF Passed, PassedIsStopped, TerminatedByFailedInit
  <1> QED
    BY <1>1, <1>2, <1>3, <1>5, <1>6, <1>7, <1>8, <1>9, <1>10

(***************************************************************************)
(* The worker                                                              *)
(***************************************************************************)

(* What the worker's steps have in common: thread[o] moves on, and the     *)
(* flag is cleared only by a failed init.                                  *)
LEMMA WorkerStepInv ==
  ASSUME HostInv, NEW o \in Object, NEW s, process # "terminated",
         thread[o] \in {"init", "failing", "idle", "deinit"},
         s \in {"idle", "failing", "failed", "deinit", "finished"},
         s \in {"idle", "deinit"} => thread[o] \in {"init", "idle"},
         thread' = [thread EXCEPT ![o] = s],
         IF s = "failed" THEN running' = [running EXCEPT ![o] = FALSE]
                         ELSE UNCHANGED running,
         UNCHANGED <<refs, mod, joinable, callVars>>
  PROVE  HostInv'
  <1> USE DEF HostInv, callVars
  <1>p. /\ thread'[o] = s
        /\ \A q \in Object \ {o} : thread'[q] = thread[q] /\ running'[q] = running[q]
        /\ s # "failed" => running'[o] = running[o]
        /\ running' \in [Object -> BOOLEAN]
    BY DEF TypeOK
  <1>1. TypeOK'
    BY <1>p DEF TypeOK, ThreadState
  <1>2. HandsShape'
    BY DEF HandsShape
  <1>3. UniqueOwner' /\ RefsMatchHandles'
    BY SameHands
  <1>5. CodeIsMapped'
    BY <1>p DEF CodeIsMapped, NeedsLibrary
  <1>6. UnusedIsFresh'
    <2>1. \A q \in Object : Fresh(q) => Fresh(q)'
      BY <1>p DEF Fresh
    <2>2. \A q \in Object : thread'[q] = "none" => thread[q] = "none"
      BY <1>p
    <2>3. \A c \in Caller : pc[c] \in {"resolve", "start"} => Target(c) \in Object
      BY TargetIsHeld
    <2> QED
      BY <2>1, <2>2, <2>3 DEF UnusedIsFresh, Target
  <1>7. OwnedIsStarted'
    <2>1. \A q \in Object : thread[q] # "none" => thread'[q] # "none"
      BY <1>p
    <2>2. \A q \in Object : running[q] \/ thread[q] = "failed"
                              => running'[q] \/ thread'[q] = "failed"
      BY <1>p
    <2>3. \A c \in Caller : pc[c] = "publish" => Target(c) \in Object
      BY TargetIsHeld
    <2> QED
      BY <2>1, <2>2, <2>3, OwnedAreObjects DEF OwnedIsStarted, Target
  <1>8. ListedIsLive'
    BY <1>p, OwnedAreObjects DEF ListedIsLive
  <1>9. ClearedIsJoined'
    BY <1>p DEF ClearedIsJoined, Joining, Target
  <1>10. PassedIsStopped'
    <2>1. \A q \in Object : ThreadEnded(q) => ThreadEnded(q)'
      BY <1>p DEF ThreadEnded
    <2> QED
      BY <2>1, OthersPassed DEF PassedIsStopped
  <1>11. TerminatedByFailedInit'
    BY DEF TerminatedByFailedInit
  <1> QED
    BY <1>1, <1>2, <1>3, <1>5, <1>6, <1>7, <1>8, <1>9, <1>10, <1>11

(* Every step of threadMain (ThreadedPlugin.cpp:35-56). *)
LEMMA WorkerInv ==
  ASSUME HostInv, NEW o \in Object, Worker(o)
  PROVE  HostInv'
  <1>1. CASE \E ok \in BOOLEAN : InitReturns(o, ok)
    BY <1>1, WorkerStepInv DEF InitReturns, Running, Advance
  <1>2. CASE GiveUp(o)
    BY <1>2, WorkerStepInv DEF GiveUp, Running, Advance
  <1>3. CASE LeaveLoop(o)
    BY <1>3, WorkerStepInv DEF LeaveLoop, Running, Advance
  <1>4. CASE DeinitReturns(o)
    BY <1>4, WorkerStepInv DEF DeinitReturns, Running, Advance
  <1> QED
    BY <1>1, <1>2, <1>3, <1>4 DEF Worker

(***************************************************************************)
(* Stopping and joining                                                    *)
(***************************************************************************)

(* If the flag of the plugin that c is to stop or destroy is already       *)
(* clear, and c is not joining it, its worker has ended, and was joined    *)
(* unless its init has failed.                                             *)
LEMMA ClearedHasEnded ==
  ASSUME HostInv, NEW c \in Caller, NEW o \in Object, HeldBy(c, o),
         process # "terminated", pc[c] \in {"stop", "destroy"},
         ~running[o]
  PROVE  ThreadEnded(o) /\ (joinable[o] => thread[o] = "failed")
  <1>1. thread[o] \in ThreadState /\ thread[o] # "none"
    BY DEF HostInv, TypeOK, OwnedIsStarted, HeldBy
  <1>2. ~ \E d \in Caller : Joining(d, o)
    <2> SUFFICES ASSUME NEW d \in Caller, Joining(d, o) PROVE FALSE
      OBVIOUS
    <2>1. HeldBy(d, o)
      BY TargetIsHeld DEF Joining
    <2>2. d = c
      BY <2>1 DEF HostInv, UniqueOwner
    <2> QED
      BY <2>2 DEF Joining
  <1>3. joinable[o] => thread[o] = "failed"
    BY <1>2 DEF HostInv, ClearedIsJoined
  <1> QED
    BY <1>1, <1>3 DEF HostInv, ClearedIsJoined, ThreadState, ThreadEnded

(* The loop of stopAndUnloadAll stays within the plugins that c holds. *)
LEMMA NextToStopEffect ==
  ASSUME HostInv, NEW c \in Caller, process # "terminated",
         pc[c] \in {"stop", "join"}, NextToStop(c)
  PROVE  /\ pc' \in [Caller -> CallerState]
         /\ cursor' \in [Caller -> Nat \ {0}]
         /\ \A d \in Caller \ {c} : pc'[d] = pc[d] /\ cursor'[d] = cursor[d]
         /\ \/ /\ pc'[c] = "destroy"
               /\ cursor'[c] = 1
               /\ cursor[c] = Len(own[c])
            \/ /\ pc'[c] = "stop"
               /\ cursor'[c] = cursor[c] + 1
         /\ cursor'[c] \in 1 .. Len(own[c])
  <1>1. Len(own[c]) \in Nat /\ cursor[c] \in 1 .. Len(own[c])
    BY TargetIsHeld
  <1>t. pc \in [Caller -> CallerState] /\ cursor \in [Caller -> Nat \ {0}]
    BY DEF HostInv, TypeOK
  <1>2. CASE LoopDone(c)
    <2>1. pc' = [pc EXCEPT ![c] = "destroy"] /\ cursor' = [cursor EXCEPT ![c] = 1]
      BY <1>2 DEF NextToStop, Goto
    <2> QED
      BY <1>1, <1>2, <1>t, <2>1 DEF LoopDone, CallerState
  <1>3. CASE ~LoopDone(c)
    <2>1. pc' = [pc EXCEPT ![c] = "stop"] /\ cursor' = [cursor EXCEPT ![c] = @ + 1]
      BY <1>3 DEF NextToStop, Goto
    <2>2. cursor[c] + 1 \in 1 .. Len(own[c])
      BY <1>1, <1>3 DEF LoopDone
    <2> QED
      BY <1>t, <2>1, <2>2 DEF CallerState
  <1> QED
    BY <1>2, <1>3

(* If c's current plugin has ended, then after the step to the next one    *)
(* all that c has passed have ended.                                       *)
LEMMA NextToStopPasses ==
  ASSUME HostInv, NEW c \in Caller, process # "terminated",
         pc[c] \in {"stop", "join"}, NextToStop(c),
         UNCHANGED <<thread, own, process>>, ThreadEnded(Target(c))
  PROVE  Passed(c)'
  <1>1. Len(own[c]) \in Nat /\ cursor[c] \in 1 .. Len(own[c])
    BY TargetIsHeld
  <1>2. \A i \in 1 .. cursor[c] : ThreadEnded(own[c][i])
    BY <1>1 DEF HostInv, PassedIsStopped, Passed, Target
  <1> QED
    BY <1>1, <1>2, NextToStopEffect DEF Passed, ThreadEnded

(* What the steps that stop or join a plugin have in common. *)
LEMMA StopStepInv ==
  ASSUME HostInv, NEW c \in Caller, process # "terminated",
         pc[c] \in {"stop", "join", "destroy", "dtorjoin"},
         NEW o, o = Target(c),
         UNCHANGED <<refs, mod, thread, items, own, process>>,
         running' \in [Object -> BOOLEAN], joinable' \in [Object -> BOOLEAN],
         \A q \in Object \ {o} : running'[q] = running[q] /\ joinable'[q] = joinable[q],
         running'[o] => running[o],
         joinable'[o] => joinable[o],
         ~joinable'[o] => ~joinable[o] \/ ThreadEnded(o),
         joinable'[o] /\ ~running'[o] /\ thread[o] # "failed"
           => pc'[c] \in {"join", "dtorjoin"} /\ cursor'[c] = cursor[c],
         pc' \in [Caller -> CallerState], cursor' \in [Caller -> Nat \ {0}],
         \A d \in Caller \ {c} : pc'[d] = pc[d] /\ cursor'[d] = cursor[d],
         pc'[c] \in {"stop", "join", "destroy", "dtorjoin"},
         cursor'[c] \in 1 .. Len(own[c]),
         pc'[c] \in {"destroy", "dtorjoin"} => cursor'[c] = 1,
         Passed(c)'
  PROVE  HostInv'
  <1> USE DEF HostInv
  <1>o. o \in Object /\ HeldBy(c, o) /\ thread[o] # "none"
    BY TargetIsHeld DEF HeldBy, OwnedIsStarted
  <1>l. \A i \in 1 .. Len(items) : items[i] \in Object \ {o}
    BY <1>o, HeldIsNotListed, OwnedAreObjects
  <1>d. \A d \in Caller \ {c} : \A i \in 1 .. Len(own[d]) : own[d][i] \in Object \ {o}
    BY <1>o, OthersHands
  <1>t. \A d \in Caller \ {c} : pc[d] # "idle" => Target(d) \in Object \ {o}
    BY <1>d, TargetIsHeld DEF Target
  <1>1. TypeOK'
    BY DEF TypeOK
  <1>2. HandsShape'
    BY DEF HandsShape
  <1>3. UniqueOwner' /\ RefsMatchHandles'
    BY SameHands
  <1>5. CodeIsMapped'
    BY DEF CodeIsMapped, NeedsLibrary
  <1>6. UnusedIsFresh'
    <2>1. \A q \in Object : Fresh(q) => Fresh(q)'
      BY <1>o DEF Fresh
    <2> QED
      BY <2>1, <1>t DEF UnusedIsFresh, Target
  <1>7. OwnedIsStarted'
    <2>1. (\A d \in Caller :
             pc[d] \in {"publish", "stop", "join", "destroy", "dtorjoin"} =>
               \A i \in 1 .. Len(own[d]) : thread[own[d][i]] # "none")'
      BY DEF OwnedIsStarted
    <2>2. (\A d \in Caller :
             pc[d] = "publish" => running[Target(d)] \/ thread[Target(d)] = "failed")'
      BY <1>t DEF OwnedIsStarted, Target
    <2> QED
      BY <2>1, <2>2 DEF OwnedIsStarted
  <1>8. ListedIsLive'
    BY <1>l DEF ListedIsLive
  <1>9. ClearedIsJoined'
    <2> SUFFICES ASSUME NEW q \in Object
                 PROVE  /\ thread[q] \in {"init", "failing", "idle", "deinit"} => joinable'[q]
                        /\ joinable'[q] /\ ~running'[q] /\ thread[q] # "failed"
                             => \E d \in Caller : Joining(d, q)'
      BY DEF ClearedIsJoined
    <2>1. CASE q = o
      BY <2>1, <1>o DEF ClearedIsJoined, Joining, Target, ThreadEnded
    <2>2. CASE q # o
      <3>1. running'[q] = running[q] /\ joinable'[q] = joinable[q]
        BY <2>2
      <3>2. thread[q] \in {"init", "failing", "idle", "deinit"} => joinable[q]
        BY DEF ClearedIsJoined
      <3>3. ASSUME joinable[q], ~running[q], thread[q] # "failed"
            PROVE  \E d \in Caller : Joining(d, q)'
        <4>1. PICK d \in Caller : Joining(d, q)
          BY <3>3 DEF ClearedIsJoined
        <4>2. d # c
          BY <2>2, <4>1 DEF Joining
        <4>3. Joining(d, q)'
          BY <4>1, <4>2 DEF Joining, Target
        <4> QED
          BY <4>3
      <3> QED
        BY <3>1, <3>2, <3>3
    <2> QED
      BY <2>1, <2>2
  <1>10. PassedIsStopped'
    BY OthersPassed DEF PassedIsStopped, ThreadEnded
  <1>11. TerminatedByFailedInit'
    BY DEF TerminatedByFailedInit
  <1> QED
    BY <1>1, <1>2, <1>3, <1>5, <1>6, <1>7, <1>8, <1>9, <1>10, <1>11

(* stop with the flag set (ThreadedPlugin.cpp:29-32). *)
LEMMA StopInv ==
  ASSUME HostInv, NEW c \in Caller, Stop(c)
  PROVE  HostInv'
  <1> DEFINE o == Target(c)
  <1>o. o \in Object /\ HeldBy(c, o) /\ thread[o] # "none"
    BY TargetIsHeld DEF Stop, At, HostInv, OwnedIsStarted, HeldBy
  <1>p. /\ process # "terminated" /\ pc[c] = "stop"
        /\ UNCHANGED <<refs, mod, joinable, thread, items, own, process>>
        /\ running' = [running EXCEPT ![o] = FALSE]
        /\ running[o]
    BY DEF Stop, At, ExchangeRunning
  <1>t. /\ running \in [Object -> BOOLEAN] /\ joinable \in [Object -> BOOLEAN]
        /\ pc \in [Caller -> CallerState] /\ cursor \in [Caller -> Nat \ {0}]
        /\ thread[o] \in ThreadState
    BY <1>o DEF HostInv, TypeOK
  <1>1. CASE joinable[o]
    <2>1. pc' = [pc EXCEPT ![c] = "join"] /\ cursor' = cursor
      BY <1>1 DEF Stop, Goto
    <2>2. Passed(c)'
      BY <1>p, <1>t, <2>1 DEF HostInv, PassedIsStopped, Passed, ThreadEnded
    <2>3. cursor[c] \in 1 .. Len(own[c])
      BY <1>p, TargetIsHeld
    <2> HIDE DEF o
    <2> QED
      BY <1>o, <1>p, <1>t, <2>1, <2>2, <2>3, StopStepInv DEF CallerState, o
  <1>2. CASE ~joinable[o]
    <2>1. NextToStop(c)
      BY <1>2 DEF Stop
    <2>2. ThreadEnded(o)
      BY <1>2, <1>o, <1>t DEF HostInv, ClearedIsJoined, ThreadState, ThreadEnded
    <2>3. Passed(c)'
      BY <1>p, <2>1, <2>2, NextToStopPasses
    <2>4. /\ pc' \in [Caller -> CallerState]
          /\ cursor' \in [Caller -> Nat \ {0}]
          /\ \A d \in Caller \ {c} : pc'[d] = pc[d] /\ cursor'[d] = cursor[d]
          /\ pc'[c] \in {"stop", "destroy"}
          /\ pc'[c] = "destroy" => cursor'[c] = 1
          /\ cursor'[c] \in 1 .. Len(own[c])
      BY <1>p, <2>1, NextToStopEffect
    <2> HIDE DEF o
    <2> QED
      BY <1>o, <1>p, <1>t, <1>2, <2>2, <2>3, <2>4, StopStepInv DEF o
  <1> QED
    BY <1>1, <1>2

(* stop with the flag clear (ThreadedPlugin.cpp:29-30). *)
LEMMA StopReturnsEarlyInv ==
  ASSUME HostInv, NEW c \in Caller, StopReturnsEarly(c)
  PROVE  HostInv'
  <1> DEFINE o == Target(c)
  <1>p. /\ process # "terminated" /\ pc[c] = "stop"
        /\ UNCHANGED <<objVars, items, own, process>>
        /\ ~running[o] /\ NextToStop(c)
    BY DEF StopReturnsEarly, At
  <1>o. o \in Object /\ HeldBy(c, o)
    BY <1>p, TargetIsHeld
  <1>t. running \in [Object -> BOOLEAN] /\ joinable \in [Object -> BOOLEAN]
    BY DEF HostInv, TypeOK
  <1>1. ThreadEnded(o) /\ (joinable[o] => thread[o] = "failed")
    BY <1>o, <1>p, ClearedHasEnded
  <1>2. Passed(c)'
    BY <1>p, <1>1, NextToStopPasses DEF objVars
  <1>3. /\ pc' \in [Caller -> CallerState]
        /\ cursor' \in [Caller -> Nat \ {0}]
        /\ \A d \in Caller \ {c} : pc'[d] = pc[d] /\ cursor'[d] = cursor[d]
        /\ pc'[c] \in {"stop", "destroy"}
        /\ pc'[c] = "destroy" => cursor'[c] = 1
        /\ cursor'[c] \in 1 .. Len(own[c])
    BY <1>p, NextToStopEffect
  <1> HIDE DEF o
  <1> QED
    BY <1>o, <1>p, <1>t, <1>1, <1>2, <1>3, StopStepInv DEF o, objVars

(* The join in stop returns (ThreadedPlugin.cpp:32). *)
LEMMA JoinInv ==
  ASSUME HostInv, NEW c \in Caller, Join(c)
  PROVE  HostInv'
  <1> DEFINE o == Target(c)
  <1>p. /\ process # "terminated" /\ pc[c] = "join"
        /\ UNCHANGED <<refs, mod, running, thread, items, own, process>>
        /\ ThreadEnded(o) /\ NextToStop(c)
        /\ joinable' = [joinable EXCEPT ![o] = FALSE]
    BY DEF Join, At
  <1>o. o \in Object
    BY <1>p, TargetIsHeld
  <1>t. running \in [Object -> BOOLEAN] /\ joinable \in [Object -> BOOLEAN]
    BY DEF HostInv, TypeOK
  <1>2. Passed(c)'
    BY <1>p, NextToStopPasses
  <1>3. /\ pc' \in [Caller -> CallerState]
        /\ cursor' \in [Caller -> Nat \ {0}]
        /\ \A d \in Caller \ {c} : pc'[d] = pc[d] /\ cursor'[d] = cursor[d]
        /\ pc'[c] \in {"stop", "destroy"}
        /\ pc'[c] = "destroy" => cursor'[c] = 1
        /\ cursor'[c] \in 1 .. Len(own[c])
    BY <1>p, NextToStopEffect
  <1> HIDE DEF o
  <1> QED
    BY <1>o, <1>p, <1>t, <1>2, <1>3, StopStepInv DEF o

(* The destructor's stop (ThreadedPlugin.cpp:14). *)
LEMMA DtorStopInv ==
  ASSUME HostInv, NEW c \in Caller, DtorStop(c)
  PROVE  HostInv'
  <1> DEFINE o == Target(c)
  <1>p. /\ process # "terminated" /\ pc[c] = "destroy"
        /\ UNCHANGED <<refs, mod, joinable, thread, items, own, cursor, process>>
        /\ running' = [running EXCEPT ![o] = FALSE]
        /\ pc' = IF joinable[o] THEN [pc EXCEPT ![c] = "dtorjoin"] ELSE pc
    BY DEF DtorStop, At, ExchangeRunning, Goto
  <1>o. o \in Object /\ cursor[c] \in 1 .. Len(own[c]) /\ cursor[c] = 1
    BY <1>p, TargetIsHeld DEF HostInv, HandsShape
  <1>t. /\ running \in [Object -> BOOLEAN] /\ joinable \in [Object -> BOOLEAN]
        /\ pc \in [Caller -> CallerState] /\ cursor \in [Caller -> Nat \ {0}]
    BY DEF HostInv, TypeOK
  <1>1. pc'[c] \in {"destroy", "dtorjoin"} /\ (joinable[o] => pc'[c] = "dtorjoin")
    BY <1>p, <1>t
  <1>2. Passed(c)'
    BY <1>p, <1>1 DEF HostInv, PassedIsStopped, Passed, ThreadEnded
  <1>3. pc' \in [Caller -> CallerState] /\ \A d \in Caller \ {c} : pc'[d] = pc[d]
    BY <1>p, <1>t DEF CallerState
  <1> HIDE DEF o
  <1> QED
    BY <1>o, <1>p, <1>t, <1>1, <1>2, <1>3, StopStepInv DEF o

(* The join in the destructor's stop returns. *)
LEMMA DtorJoinInv ==
  ASSUME HostInv, NEW c \in Caller, DtorJoin(c)
  PROVE  HostInv'
  <1> DEFINE o == Target(c)
  <1>p. /\ process # "terminated" /\ pc[c] = "dtorjoin"
        /\ UNCHANGED <<refs, mod, running, thread, items, own, cursor, process>>
        /\ ThreadEnded(o)
        /\ joinable' = [joinable EXCEPT ![o] = FALSE]
        /\ pc' = [pc EXCEPT ![c] = "destroy"]
    BY DEF DtorJoin, At, Goto
  <1>o. o \in Object /\ cursor[c] \in 1 .. Len(own[c]) /\ cursor[c] = 1
    BY <1>p, TargetIsHeld DEF HostInv, HandsShape
  <1>t. /\ running \in [Object -> BOOLEAN] /\ joinable \in [Object -> BOOLEAN]
        /\ pc \in [Caller -> CallerState] /\ cursor \in [Caller -> Nat \ {0}]
    BY DEF HostInv, TypeOK
  <1>1. pc'[c] = "destroy" /\ \A d \in Caller \ {c} : pc'[d] = pc[d]
    BY <1>p, <1>t
  <1>2. Passed(c)'
    BY <1>p, <1>1 DEF HostInv, PassedIsStopped, Passed, ThreadEnded
  <1>3. pc' \in [Caller -> CallerState]
    BY <1>p, <1>t DEF CallerState
  <1> HIDE DEF o
  <1> QED
    BY <1>o, <1>p, <1>t, <1>1, <1>2, <1>3, StopStepInv DEF o

(***************************************************************************)
(* Handing plugins over and releasing them                                 *)
(***************************************************************************)

(* Closing the library of a handle that is given up keeps the counts. *)
LEMMA ReleaseRefs ==
  ASSUME HostInv, NEW o \in Object, mod[o] \in Module,
         CloseLibrary(mod[o]), mod' = [mod EXCEPT ![o] = NoModule]
  PROVE  /\ RefsMatchHandles'
         /\ refs' \in [Module -> Nat]
         /\ \A q \in Object \ {o} : mod[q] \in Module /\ refs[mod[q]] > 0
                                      => refs'[mod[q]] > 0
  <1> DEFINE m == mod[o]
  <1>1. mod \in [Object -> Module \cup {NoModule}] /\ refs \in [Module -> Nat]
    BY DEF HostInv, TypeOK
  <1>2. /\ Cardinality(Handles(mod, m)) = Cardinality(Handles(mod', m)) + 1
        /\ \A k \in Module \ {m} : Handles(mod', k) = Handles(mod, k)
    BY <1>1, ClosedHandles
  <1>3. \A k \in Module : refs[k] = Cardinality(Handles(mod, k))
    BY DEF HostInv, RefsMatchHandles, Handles
  <1>4. refs' = [refs EXCEPT ![m] = @ - 1]
    BY DEF CloseLibrary
  <1>5. \A k \in Module : Cardinality(Handles(mod', k)) \in Nat
    BY HandlesAreFinite
  <1>6. \A k \in Module : refs'[k] = Cardinality(Handles(mod', k))
    <2>0. m \in Module
      OBVIOUS
    <2> HIDE DEF m
    <2>1. refs'[m] = Cardinality(Handles(mod', m))
      <3> DEFINE k == Cardinality(Handles(mod', m))
      <3>1. k \in Nat /\ refs[m] = k + 1
        BY <2>0, <1>2, <1>3, <1>5
      <3>2. refs'[m] = refs[m] - 1
        BY <2>0, <1>1, <1>4
      <3> HIDE DEF k
      <3>3. refs'[m] = k
        BY <3>1, <3>2
      <3> QED
        BY <3>3 DEF k
    <2>2. \A k \in Module \ {m} : refs'[k] = Cardinality(Handles(mod', k))
      BY <1>1, <1>2, <1>3, <1>4
    <2> QED
      BY <2>1, <2>2
  <1>7. refs' \in [Module -> Nat]
    <2>1. m \in Module /\ refs'[m] \in Nat
      BY <1>5, <1>6
    <2> HIDE DEF m
    <2> QED
      BY <1>1, <1>4, <2>1
  <1>8. ASSUME NEW q \in Object \ {o}, mod[q] \in Module
        PROVE  refs'[mod[q]] > 0
    <2> DEFINE H == Handles(mod', mod[q])
    <2>1. q \in H
      BY <1>1 DEF Handles
    <2>2. IsFiniteSet(H) /\ Cardinality(H) \in Nat
      BY HandlesAreFinite
    <2>3. refs'[mod[q]] = Cardinality(H)
      BY <1>6, <1>8
    <2> HIDE DEF H
    <2>4. Cardinality(H) # 0
      BY <2>1, <2>2, FS_EmptySet
    <2> QED
      BY <2>2, <2>3, <2>4
  <1>9. RefsMatchHandles'
    BY <1>6 DEF RefsMatchHandles, Handles
  <1> QED
    BY <1>7, <1>8, <1>9

(* An entry point is missing (ModuleLoader.cpp:63-66), or there is no       *)
(* thread (ThreadedPlugin.cpp:23).                                          *)
LEMMA AbandonInv ==
  ASSUME HostInv, NEW c \in Caller, LoadFails(c) \/ StartThrows(c)
  PROVE  HostInv'
  <1> USE DEF HostInv
  <1> DEFINE o == Target(c)
  <1>o. /\ o \in Object /\ HeldBy(c, o) /\ mod[o] \in Module
        /\ own[c][1] = o /\ Len(own[c]) = 1 /\ cursor[c] = 1
        /\ process # "terminated" /\ pc[c] \in {"resolve", "start"}
        /\ own[c] \in Seq(Object)
    BY TargetIsHeld DEF HandsShape, Target, LoadFails, StartThrows, At
  <1>p. /\ own' = [own EXCEPT ![c] = <<>>] /\ pc' = [pc EXCEPT ![c] = "idle"]
        /\ mod' = [mod EXCEPT ![o] = NoModule] /\ CloseLibrary(mod[o])
        /\ UNCHANGED <<running, joinable, thread, items, cursor, process>>
    BY DEF LoadFails, StartThrows, Abandon, Goto
  <1>e. /\ own'[c] = <<>> /\ pc'[c] = "idle"
        /\ \A d \in Caller \ {c} : own'[d] = own[d] /\ pc'[d] = pc[d]
        /\ mod'[o] = NoModule
        /\ \A q \in Object \ {o} : mod'[q] = mod[q]
    BY <1>p, <1>o DEF TypeOK
  <1>f. Fresh(o)
    BY <1>o DEF UnusedIsFresh
  <1>l. \A i \in 1 .. Len(items) : items[i] \in Object \ {o}
    BY <1>o, HeldIsNotListed, OwnedAreObjects
  <1>h. /\ \A q \in Object : ~HeldBy(c, q)'
        /\ \A q \in Object : HeldBy(c, q) => q = o
        /\ \A d \in Caller \ {c}, q \in Object : HeldBy(d, q)' <=> HeldBy(d, q)
        /\ \A q \in Object : Listed(q)' <=> Listed(q)
        /\ \A d \in Caller \ {c} : ~HeldBy(d, o)
        /\ ~Listed(o)
    BY <1>o, <1>p, <1>e, <1>l, OthersHands DEF HeldBy, Listed
  <1>r. /\ RefsMatchHandles' /\ refs' \in [Module -> Nat]
        /\ \A q \in Object \ {o} : mod[q] \in Module /\ refs[mod[q]] > 0
                                     => refs'[mod[q]] > 0
    BY <1>o, <1>p, ReleaseRefs
  <1> HIDE DEF o
  <1>1. TypeOK'
    BY <1>p, <1>r, EmptySeq DEF TypeOK, CallerState
  <1>2. HandsShape'
    BY <1>o, <1>p, <1>e DEF HandsShape
  <1>3. UniqueOwner'
    <2>1. (\A q \in Object : mod[q] # NoModule <=> Listed(q) \/ \E d \in Caller : HeldBy(d, q))'
      BY <1>e, <1>h DEF UniqueOwner
    <2>2. (\A i, j \in 1 .. Len(items) : items[i] = items[j] => i = j)'
      BY <1>p DEF UniqueOwner
    <2>3. (\A d \in Caller : \A i, j \in 1 .. Len(own[d]) : own[d][i] = own[d][j] => i = j)'
      BY <1>e DEF UniqueOwner
    <2>4. (\A d \in Caller, q \in Object : HeldBy(d, q) => ~Listed(q))'
      BY <1>h DEF UniqueOwner
    <2>5. (\A d, e \in Caller, q \in Object : HeldBy(d, q) /\ HeldBy(e, q) => d = e)'
      BY <1>h DEF UniqueOwner
    <2> QED
      BY <2>1, <2>2, <2>3, <2>4, <2>5 DEF UniqueOwner
  <1>5. CodeIsMapped'
    BY <1>p, <1>e, <1>f, <1>r DEF CodeIsMapped, NeedsLibrary, Fresh, TypeOK
  <1>6. UnusedIsFresh'
    BY <1>p, <1>e, <1>f DEF UnusedIsFresh, Fresh, Target
  <1>7. OwnedIsStarted'
    BY <1>p, <1>e DEF OwnedIsStarted, Target
  <1>8. ListedIsLive'
    BY <1>p, <1>e, <1>l DEF ListedIsLive
  <1>9. ClearedIsJoined'
    BY <1>o, <1>p, <1>e DEF ClearedIsJoined, Joining, Target
  <1>10. PassedIsStopped'
    <2>1. Passed(c)'
      BY <1>e DEF Passed
    <2> QED
      BY <1>o, <1>p, <1>e, <2>1, OthersPassed DEF PassedIsStopped, ThreadEnded
  <1>11. TerminatedByFailedInit'
    BY <1>o, <1>p DEF TerminatedByFailedInit
  <1> QED
    BY <1>1, <1>2, <1>3, <1>r, <1>5, <1>6, <1>7, <1>8, <1>9, <1>10, <1>11

(* The started plugin is put on the list (MultiPluginHost.cpp:30-31). *)
LEMMA PublishInv ==
  ASSUME HostInv, NEW c \in Caller, Publish(c)
  PROVE  HostInv'
  <1> USE DEF HostInv
  <1> DEFINE o == Target(c)
             n == Len(items)
  <1>o. /\ o \in Object /\ HeldBy(c, o) /\ mod[o] \in Module
        /\ own[c][1] = o /\ Len(own[c]) = 1 /\ cursor[c] = 1
        /\ process # "terminated" /\ pc[c] = "publish"
        /\ own[c] \in Seq(Object)
    BY TargetIsHeld DEF HandsShape, Target, Publish, At
  <1>p. /\ own' = [own EXCEPT ![c] = <<>>] /\ pc' = [pc EXCEPT ![c] = "idle"]
        /\ items' = Append(items, o)
        /\ UNCHANGED <<refs, mod, running, joinable, thread, cursor, process>>
    BY DEF Publish, Goto, objVars
  <1>e. /\ own'[c] = <<>> /\ pc'[c] = "idle"
        /\ \A d \in Caller \ {c} : own'[d] = own[d] /\ pc'[d] = pc[d]
    BY <1>p, <1>o DEF TypeOK
  <1>i. /\ n \in Nat /\ items' \in Seq(Object) /\ Len(items') = n + 1
        /\ \A i \in 1 .. n : items'[i] = items[i]
        /\ items'[n + 1] = o
    BY <1>o, <1>p, AppendProperties, LenProperties DEF TypeOK
  <1>l. \A i \in 1 .. n : items[i] \in Object \ {o}
    BY <1>o, HeldIsNotListed, OwnedAreObjects
  <1> HIDE DEF n
  <1>h. /\ \A q \in Object : ~HeldBy(c, q)'
        /\ \A q \in Object : HeldBy(c, q) <=> q = o
        /\ \A d \in Caller \ {c}, q \in Object : HeldBy(d, q)' <=> HeldBy(d, q)
        /\ \A d \in Caller \ {c} : ~HeldBy(d, o)
    BY <1>o, <1>p, <1>e, OthersHands DEF HeldBy
  <1>k. \A q \in Object : Listed(q)' <=> Listed(q) \/ q = o
    <2>1. \A q \in Object : Listed(q) <=> \E i \in 1 .. n : items[i] = q
      BY DEF Listed, n
    <2>2. \A q \in Object : Listed(q)' <=> \E i \in 1 .. n + 1 : items'[i] = q
      BY <1>i DEF Listed
    <2> QED
      BY <1>i, <2>1, <2>2
  <1> HIDE DEF o
  <1>1. TypeOK'
    BY <1>p, <1>i, EmptySeq DEF TypeOK, CallerState
  <1>2. HandsShape'
    BY <1>o, <1>p, <1>e DEF HandsShape
  <1>3. UniqueOwner'
    <2>1. (\A q \in Object : mod[q] # NoModule <=> Listed(q) \/ \E d \in Caller : HeldBy(d, q))'
      BY <1>o, <1>p, <1>h, <1>k DEF UniqueOwner
    <2>2. (\A i, j \in 1 .. Len(items) : items[i] = items[j] => i = j)'
      <3>1. \A i, j \in 1 .. n : items[i] = items[j] => i = j
        BY DEF UniqueOwner, n
      <3> QED
        BY <1>i, <1>l, <3>1
    <2>3. (\A d \in Caller : \A i, j \in 1 .. Len(own[d]) : own[d][i] = own[d][j] => i = j)'
      BY <1>e DEF UniqueOwner
    <2>4. (\A d \in Caller, q \in Object : HeldBy(d, q) => ~Listed(q))'
      BY <1>h, <1>k DEF UniqueOwner
    <2>5. (\A d, e \in Caller, q \in Object : HeldBy(d, q) /\ HeldBy(e, q) => d = e)'
      BY <1>h DEF UniqueOwner
    <2> QED
      BY <2>1, <2>2, <2>3, <2>4, <2>5 DEF UniqueOwner
  <1>4. RefsMatchHandles' /\ CodeIsMapped'
    BY <1>p DEF RefsMatchHandles, CodeIsMapped, NeedsLibrary
  <1>6. UnusedIsFresh'
    BY <1>p, <1>e DEF UnusedIsFresh, Fresh, Target
  <1>7. OwnedIsStarted'
    <2>1. thread[o] # "none"
      BY <1>o DEF OwnedIsStarted
    <2>2. (\A i \in 1 .. Len(items) : thread[items[i]] # "none")'
      BY <1>p, <1>i, <2>1 DEF OwnedIsStarted, n
    <2> QED
      BY <1>p, <1>e, <2>2 DEF OwnedIsStarted, Target
  <1>8. ListedIsLive'
    <2>1. mod[o] # NoModule /\ (running[o] \/ thread[o] = "failed")
      BY <1>o DEF OwnedIsStarted, o
    <2>2. \A i \in 1 .. n : /\ mod[items[i]] # NoModule
                            /\ running[items[i]] \/ thread[items[i]] = "failed"
      BY DEF ListedIsLive, n
    <2> QED
      BY <1>p, <1>i, <2>1, <2>2 DEF ListedIsLive
  <1>9. ClearedIsJoined'
    BY <1>o, <1>p, <1>e DEF ClearedIsJoined, Joining, Target
  <1>10. PassedIsStopped'
    <2>1. Passed(c)'
      BY <1>e DEF Passed
    <2> QED
      BY <1>o, <1>p, <1>e, <2>1, OthersPassed DEF PassedIsStopped, ThreadEnded
  <1>11. TerminatedByFailedInit'
    BY <1>o, <1>p DEF TerminatedByFailedInit
  <1> QED
    BY <1>1, <1>2, <1>3, <1>4, <1>6, <1>7, <1>8, <1>9, <1>10, <1>11

(* One plugin is taken off the list (MultiPluginHost.cpp:40-47). *)
LEMMA StopAndUnloadByIdInv ==
  ASSUME HostInv, NEW c \in Caller, NEW i \in 1 .. Len(items), StopAndUnloadById(c, i)
  PROVE  HostInv'
  <1> USE DEF HostInv
  <1> DEFINE o == items[i]
             n == Len(items)
  <1>o. /\ o \in Object /\ Listed(o) /\ mod[o] # NoModule /\ thread[o] # "none"
        /\ process # "terminated" /\ pc[c] = "idle" /\ cursor[c] = 1
        /\ n \in Nat /\ i \in 1 .. n
    BY OwnedAreObjects, LenProperties
       DEF StopAndUnloadById, Free, Listed, ListedIsLive, OwnedIsStarted, HandsShape, TypeOK
  <1>p. /\ own' = [own EXCEPT ![c] = <<o>>] /\ pc' = [pc EXCEPT ![c] = "stop"]
        /\ items' = RemoveAt(items, i)
        /\ UNCHANGED <<refs, mod, running, joinable, thread, cursor, process>>
    BY DEF StopAndUnloadById, Erase, Goto, objVars
  <1>e. /\ own'[c] = <<o>> /\ Len(own'[c]) = 1 /\ own'[c][1] = o /\ pc'[c] = "stop"
        /\ \A d \in Caller \ {c} : own'[d] = own[d] /\ pc'[d] = pc[d]
    BY <1>p, <1>o DEF TypeOK
  <1>i. /\ items' \in Seq(Object) /\ Len(items') = n - 1
        /\ \A j \in 1 .. n - 1 : items'[j] = IF j < i THEN items[j] ELSE items[j + 1]
    <2>1. items \in Seq(Object)
      BY DEF TypeOK
    <2>2. /\ RemoveAt(items, i) \in Seq(Object)
          /\ Len(RemoveAt(items, i)) = Len(items) - 1
          /\ \A j \in 1 .. Len(items) - 1 :
               RemoveAt(items, i)[j] = IF j < i THEN items[j] ELSE items[j + 1]
      BY <2>1, RemoveAtProperties
    <2>3. items' = RemoveAt(items, i)
      BY <1>p
    <2> QED
      BY <2>2, <2>3
  <1>u. \A j, k \in 1 .. n : items[j] = items[k] => j = k
    BY DEF UniqueOwner
  <1>q. \A q \in Object : Listed(q) <=> \E j \in 1 .. n : items[j] = q
    BY DEF Listed
  <1> HIDE DEF n
  <1>j. /\ \A j \in 1 .. n - 1 : \E k \in 1 .. n : k # i /\ items'[j] = items[k]
        /\ \A k \in 1 .. n : k # i => \E j \in 1 .. n - 1 : items'[j] = items[k]
    <2>1. ASSUME NEW j \in 1 .. n - 1
          PROVE  \E k \in 1 .. n : k # i /\ items'[j] = items[k]
      <3>1. CASE j < i
        <4>1. j \in 1 .. n /\ j # i /\ items'[j] = items[j]
          BY <1>i, <1>o, <3>1
        <4> QED
          BY <4>1
      <3>2. CASE ~(j < i)
        <4>1. j + 1 \in 1 .. n /\ j + 1 # i /\ items'[j] = items[j + 1]
          BY <1>i, <1>o, <3>2
        <4> QED
          BY <4>1
      <3> QED
        BY <3>1, <3>2
    <2>2. ASSUME NEW k \in 1 .. n, k # i
          PROVE  \E j \in 1 .. n - 1 : items'[j] = items[k]
      <3>1. CASE k < i
        <4>1. k \in 1 .. n - 1 /\ items'[k] = items[k]
          BY <1>i, <1>o, <3>1
        <4> QED
          BY <4>1
      <3>2. CASE ~(k < i)
        <4>1. k - 1 \in 1 .. n - 1 /\ ~(k - 1 < i) /\ (k - 1) + 1 = k
          BY <1>o, <2>2, <3>2
        <4> QED
          BY <1>i, <4>1
      <3> QED
        BY <3>1, <3>2
    <2> QED
      BY <2>1, <2>2
  <1>h. /\ \A q \in Object : HeldBy(c, q)' <=> q = o
        /\ \A q \in Object : ~HeldBy(c, q)
        /\ \A d \in Caller \ {c}, q \in Object : HeldBy(d, q)' <=> HeldBy(d, q)
        /\ \A d \in Caller : ~HeldBy(d, o)
    BY <1>o, <1>p, <1>e DEF HeldBy, HandsShape, UniqueOwner
  <1>k. \A q \in Object : Listed(q)' <=> Listed(q) /\ q # o
    <2>1. \A q \in Object : Listed(q)' <=> \E j \in 1 .. n - 1 : items'[j] = q
      BY <1>i DEF Listed
    <2>2. ASSUME NEW q \in Object, NEW j \in 1 .. n - 1, items'[j] = q
          PROVE  Listed(q) /\ q # o
      <3>1. PICK k \in 1 .. n : k # i /\ items'[j] = items[k]
        BY <1>j
      <3> QED
        BY <3>1, <2>2, <1>q, <1>u, <1>o
    <2>3. ASSUME NEW q \in Object, Listed(q), q # o
          PROVE  \E j \in 1 .. n - 1 : items'[j] = q
      BY <2>3, <1>j, <1>q
    <2> QED
      BY <2>1, <2>2, <2>3
  <1>v. \A j, k \in 1 .. n - 1 : items'[j] = items'[k] => j = k
    BY <1>i, <1>u, <1>o
  <1> HIDE DEF o
  <1>1. TypeOK'
    <2>1. own' \in [Caller -> Seq(Object)]
      BY <1>p, <1>o DEF TypeOK
    <2> QED
      BY <1>p, <1>i, <2>1 DEF TypeOK, CallerState
  <1>2. HandsShape'
    BY <1>o, <1>p, <1>e DEF HandsShape
  <1>3. UniqueOwner'
    <2>1. (\A q \in Object : mod[q] # NoModule <=> Listed(q) \/ \E d \in Caller : HeldBy(d, q))'
      BY <1>o, <1>p, <1>h, <1>k DEF UniqueOwner
    <2>2. (\A j, k \in 1 .. Len(items) : items[j] = items[k] => j = k)'
      BY <1>i, <1>v
    <2>3. (\A d \in Caller : \A j, k \in 1 .. Len(own[d]) : own[d][j] = own[d][k] => j = k)'
      BY <1>e DEF UniqueOwner
    <2>4. (\A d \in Caller, q \in Object : HeldBy(d, q) => ~Listed(q))'
      BY <1>h, <1>k DEF UniqueOwner
    <2>5. (\A d, e \in Caller, q \in Object : HeldBy(d, q) /\ HeldBy(e, q) => d = e)'
      BY <1>h DEF UniqueOwner
    <2> QED
      BY <2>1, <2>2, <2>3, <2>4, <2>5 DEF UniqueOwner
  <1>4. RefsMatchHandles' /\ CodeIsMapped'
    BY <1>p DEF RefsMatchHandles, CodeIsMapped, NeedsLibrary
  <1>6. UnusedIsFresh'
    BY <1>p, <1>e DEF UnusedIsFresh, Fresh, Target
  <1>7. OwnedIsStarted'
    <2>1. \A k \in 1 .. n : thread[items[k]] # "none"
      BY DEF OwnedIsStarted, n
    <2>2. ASSUME NEW j \in 1 .. n - 1 PROVE thread'[items'[j]] # "none"
      <3>1. PICK k \in 1 .. n : items'[j] = items[k]
        BY <1>j
      <3> QED
        BY <1>p, <2>1, <3>1
    <2>3. \A j \in 1 .. Len(items') : thread'[items'[j]] # "none"
      BY <1>i, <2>2
    <2> QED
      BY <1>o, <1>p, <1>e, <2>3 DEF OwnedIsStarted, Target
  <1>8. ListedIsLive'
    <2>1. \A k \in 1 .. n : /\ mod[items[k]] # NoModule
                            /\ running[items[k]] \/ thread[items[k]] = "failed"
      BY DEF ListedIsLive, n
    <2>2. \A j \in 1 .. n - 1 : /\ mod[items'[j]] # NoModule
                                /\ running[items'[j]] \/ thread[items'[j]] = "failed"
      <3> SUFFICES ASSUME NEW j \in 1 .. n - 1
                   PROVE  /\ mod[items'[j]] # NoModule
                          /\ running[items'[j]] \/ thread[items'[j]] = "failed"
        OBVIOUS
      <3>1. PICK k \in 1 .. n : items'[j] = items[k]
        BY <1>j
      <3> QED
        BY <2>1, <3>1
    <2> QED
      BY <1>p, <1>i, <2>2 DEF ListedIsLive
  <1>9. ClearedIsJoined'
    BY <1>o, <1>p, <1>e DEF ClearedIsJoined, Joining, Target
  <1>10. PassedIsStopped'
    <2>1. Passed(c)'
      BY <1>o, <1>p, <1>e DEF Passed
    <2> QED
      BY <1>o, <1>p, <1>e, <2>1, OthersPassed DEF PassedIsStopped, ThreadEnded
  <1>11. TerminatedByFailedInit'
    BY <1>o, <1>p DEF TerminatedByFailedInit
  <1> QED
    BY <1>1, <1>2, <1>3, <1>4, <1>6, <1>7, <1>8, <1>9, <1>10, <1>11

(* Taking the whole list, for stopAndUnloadAll or for static destruction. *)
LEMMA SwapItemsInv ==
  ASSUME HostInv, NEW c \in Caller, NEW state \in {"stop", "destroy"},
         Free(c), items # <<>>, SwapItems(c), Goto(c, state),
         process' \in {"up", "exiting"},
         state = "destroy" => process' = "exiting",
         UNCHANGED <<objVars, cursor>>
  PROVE  HostInv'
  <1> USE DEF HostInv
  <1>o. /\ process # "terminated" /\ pc[c] = "idle" /\ cursor[c] = 1 /\ own[c] = <<>>
        /\ process = "up"
        /\ items \in Seq(Object) /\ Len(items) \in Nat /\ Len(items) # 0
    BY LenProperties, EmptySeq DEF Free, HandsShape, TypeOK
  <1>p. /\ own' = [own EXCEPT ![c] = items] /\ pc' = [pc EXCEPT ![c] = state]
        /\ items' = <<>> /\ Len(items') = 0
        /\ UNCHANGED <<refs, mod, running, joinable, thread, cursor>>
    BY DEF SwapItems, Goto, objVars
  <1>e. /\ own'[c] = items /\ pc'[c] = state
        /\ \A d \in Caller \ {c} : own'[d] = own[d] /\ pc'[d] = pc[d]
    BY <1>p, <1>o DEF TypeOK
  <1>h. /\ \A q \in Object : HeldBy(c, q)' <=> Listed(q)
        /\ \A q \in Object : ~HeldBy(c, q)
        /\ \A q \in Object : ~Listed(q)'
        /\ \A d \in Caller \ {c}, q \in Object : HeldBy(d, q)' <=> HeldBy(d, q)
    BY <1>o, <1>p, <1>e DEF HeldBy, Listed
  <1>1. TypeOK'
    BY <1>o, <1>p, EmptySeq DEF TypeOK, CallerState
  <1>2. HandsShape'
    BY <1>o, <1>p, <1>e DEF HandsShape
  <1>3. UniqueOwner'
    <2>1. (\A q \in Object : mod[q] # NoModule <=> Listed(q) \/ \E d \in Caller : HeldBy(d, q))'
      BY <1>p, <1>h DEF UniqueOwner
    <2>2. (\A j, k \in 1 .. Len(items) : items[j] = items[k] => j = k)'
      BY <1>p
    <2>3. (\A d \in Caller : \A j, k \in 1 .. Len(own[d]) : own[d][j] = own[d][k] => j = k)'
      BY <1>e DEF UniqueOwner
    <2>4. (\A d \in Caller, q \in Object : HeldBy(d, q) => ~Listed(q))'
      BY <1>h DEF UniqueOwner
    <2>5. (\A d, e \in Caller, q \in Object : HeldBy(d, q) /\ HeldBy(e, q) => d = e)'
      BY <1>h DEF UniqueOwner
    <2> QED
      BY <2>1, <2>2, <2>3, <2>4, <2>5 DEF UniqueOwner
  <1>4. RefsMatchHandles' /\ CodeIsMapped'
    BY <1>p DEF RefsMatchHandles, CodeIsMapped, NeedsLibrary
  <1>6. UnusedIsFresh'
    BY <1>o, <1>p, <1>e DEF UnusedIsFresh, Fresh, Target
  <1>7. OwnedIsStarted'
    BY <1>p, <1>e DEF OwnedIsStarted, Target
  <1>8. ListedIsLive'
    BY <1>p DEF ListedIsLive
  <1>9. ClearedIsJoined'
    BY <1>o, <1>p, <1>e DEF ClearedIsJoined, Joining, Target
  <1>10. PassedIsStopped'
    <2>1. Passed(c)'
      BY <1>o, <1>p, <1>e DEF Passed
    <2> QED
      BY <1>o, <1>p, <1>e, <2>1, OthersPassed DEF PassedIsStopped, ThreadEnded
  <1>11. TerminatedByFailedInit'
    BY DEF TerminatedByFailedInit
  <1> QED
    BY <1>1, <1>2, <1>3, <1>4, <1>6, <1>7, <1>8, <1>9, <1>10, <1>11

(* All plugins are taken off the list (MultiPluginHost.cpp:57-61). *)
LEMMA StopAndUnloadAllInv ==
  ASSUME HostInv, NEW c \in Caller, StopAndUnloadAll(c)
  PROVE  HostInv'
  BY SwapItemsInv DEF StopAndUnloadAll, Free

(* The host itself is destroyed (MultiPluginHost.cpp:10). *)
LEMMA DestroyHostInv ==
  ASSUME HostInv, NEW c \in Caller, DestroyHost(c)
  PROVE  HostInv'
  <1>1. CASE items # <<>>
    BY <1>1, SwapItemsInv DEF DestroyHost
  <1>2. CASE items = <<>>
    <2> USE DEF HostInv
    <2>p. /\ process' = "exiting" /\ process = "up" /\ pc' = pc
          /\ own' = own /\ items' = items /\ UNCHANGED <<objVars, cursor>>
      BY <1>2 DEF DestroyHost, SwapItems, Goto, TypeOK, Free, HandsShape
    <2>1. TypeOK' /\ HandsShape' /\ TerminatedByFailedInit'
      BY <2>p DEF TypeOK, HandsShape, TerminatedByFailedInit, objVars
    <2>2. UniqueOwner' /\ RefsMatchHandles'
      BY <2>p, SameHands DEF objVars
    <2>3. UnusedIsFresh' /\ CodeIsMapped' /\ OwnedIsStarted' /\ ListedIsLive' /\ ClearedIsJoined'
      BY <2>p DEF UnusedIsFresh, Fresh, CodeIsMapped, NeedsLibrary, OwnedIsStarted,
                  ListedIsLive, ClearedIsJoined, Joining, Target, objVars
    <2>4. PassedIsStopped'
      BY <2>p DEF PassedIsStopped, Passed, ThreadEnded, objVars
    <2> QED
      BY <2>1, <2>2, <2>3, <2>4
  <1> QED
    BY <1>1, <1>2

(* ~ThreadedPlugin of the first plugin that c holds. *)
LEMMA DtorReleaseInv ==
  ASSUME HostInv, NEW c \in Caller, DtorRelease(c)
  PROVE  HostInv'
  <1> USE DEF HostInv
  <1> DEFINE o == Target(c)
             s == own[c]
             n == Len(s)
  <1>o. /\ o \in Object /\ HeldBy(c, o) /\ mod[o] \in Module /\ ~running[o]
        /\ process # "terminated" /\ pc[c] = "destroy" /\ cursor[c] = 1
        /\ s \in Seq(Object) /\ s # <<>> /\ n \in Nat /\ n >= 1 /\ s[1] = o
    BY TargetIsHeld DEF DtorRelease, At, HandsShape, Target
  <1>x. ThreadEnded(o) /\ (joinable[o] => thread[o] = "failed")
    BY <1>o, ClearedHasEnded
  <1>p. /\ own' = [own EXCEPT ![c] = Tail(s)]
        /\ mod' = [mod EXCEPT ![o] = NoModule] /\ CloseLibrary(mod[o])
        /\ UNCHANGED <<running, joinable, items, cursor>>
        /\ IF joinable[o]
           THEN process' = "terminated" /\ thread' = thread /\ pc' = pc
           ELSE /\ thread' = [thread EXCEPT ![o] = "none"]
                /\ pc' = [pc EXCEPT ![c] = IF n = 1 THEN "idle" ELSE "destroy"]
                /\ process' = process
    <2>1. Forgotten(thread[o]) = "none"
      BY <1>x DEF ThreadEnded, Forgotten
    <2> QED
      BY <2>1 DEF DtorRelease, Goto
  <1>s. /\ Tail(s) \in Seq(Object) /\ Len(Tail(s)) = n - 1
        /\ \A i \in 1 .. n - 1 : Tail(s)[i] = s[i + 1]
    BY <1>o, HeadTailProperties
  <1>u. \A i, j \in 1 .. n : s[i] = s[j] => i = j
    BY DEF UniqueOwner
  <1>q. \A q \in Object : HeldBy(c, q) <=> \E i \in 1 .. n : s[i] = q
    BY DEF HeldBy
  <1>t. /\ own \in [Caller -> Seq(Object)] /\ pc \in [Caller -> CallerState]
        /\ mod \in [Object -> Module \cup {NoModule}] /\ thread \in [Object -> ThreadState]
        /\ \A i \in 1 .. n : s[i] \in Object
    BY OwnedAreObjects DEF TypeOK
  <1>l. \A i \in 1 .. Len(items) : items[i] \in Object \ {o}
    BY <1>o, HeldIsNotListed, OwnedAreObjects
  <1>d. \A d \in Caller \ {c} : \A i \in 1 .. Len(own[d]) : own[d][i] \in Object \ {o}
    BY <1>o, OthersHands
  <1>r. /\ RefsMatchHandles' /\ refs' \in [Module -> Nat]
        /\ \A q \in Object \ {o} : mod[q] \in Module /\ refs[mod[q]] > 0
                                     => refs'[mod[q]] > 0
    BY <1>o, <1>p, ReleaseRefs
  <1>dt. \A d \in Caller \ {c} : pc[d] # "idle" => Target(d) \in Object \ {o}
    BY <1>d, <1>o, TargetIsHeld DEF Target
  <1>e. /\ own'[c] = Tail(s)
        /\ \A d \in Caller \ {c} : own'[d] = own[d] /\ pc'[d] = pc[d]
        /\ mod'[o] = NoModule
        /\ \A q \in Object \ {o} : mod'[q] = mod[q] /\ thread'[q] = thread[q]
        /\ thread'[o] = IF joinable[o] THEN "failed" ELSE "none"
        /\ pc'[c] = IF n = 1 /\ ~joinable[o] THEN "idle" ELSE "destroy"
    BY <1>p, <1>t, <1>o, <1>x
  <1>i. \A i \in 1 .. n - 1 : Tail(s)[i] \in Object \ {o}
    BY <1>s, <1>u, <1>o, <1>t
  <1>h. /\ \A q \in Object : HeldBy(c, q)' <=> HeldBy(c, q) /\ q # o
        /\ \A d \in Caller \ {c}, q \in Object : HeldBy(d, q)' <=> HeldBy(d, q)
        /\ \A d \in Caller \ {c} : ~HeldBy(d, o)
        /\ \A q \in Object : Listed(q)' <=> Listed(q)
        /\ ~Listed(o)
    <2>1. \A q \in Object : HeldBy(c, q)' <=> \E i \in 1 .. n - 1 : Tail(s)[i] = q
      BY <1>e, <1>s DEF HeldBy
    <2>2. ASSUME NEW q \in Object, HeldBy(c, q), q # o
          PROVE  \E i \in 1 .. n - 1 : Tail(s)[i] = q
      <3>1. PICK k \in 1 .. n : s[k] = q
        BY <1>q, <2>2
      <3>2. k - 1 \in 1 .. n - 1 /\ (k - 1) + 1 = k
        BY <1>o, <2>2, <3>1
      <3> QED
        BY <1>s, <3>1, <3>2
    <2>3. ASSUME NEW q \in Object, NEW i \in 1 .. n - 1, Tail(s)[i] = q
          PROVE  HeldBy(c, q) /\ q # o
      <3>1. i + 1 \in 1 .. n /\ s[i + 1] = q
        BY <1>s, <1>o, <2>3
      <3> QED
        BY <3>1, <1>q, <1>i, <2>3
    <2>4. \A q \in Object : HeldBy(c, q)' <=> HeldBy(c, q) /\ q # o
      BY <2>1, <2>2, <2>3
    <2>5. \A d \in Caller \ {c}, q \in Object : HeldBy(d, q)' <=> HeldBy(d, q)
      BY <1>e DEF HeldBy
    <2>6. \A d \in Caller \ {c} : ~HeldBy(d, o)
      BY <1>d DEF HeldBy
    <2>7. (\A q \in Object : Listed(q)' <=> Listed(q)) /\ ~Listed(o)
      BY <1>p, <1>l DEF Listed
    <2> QED
      BY <2>4, <2>5, <2>6, <2>7
  <1> HIDE DEF o, n, s
  <1>1. TypeOK'
    BY <1>p, <1>s, <1>t, <1>r DEF TypeOK, CallerState, ThreadState
  <1>2. HandsShape'
    <2> SUFFICES ASSUME process' # "terminated", NEW d \in Caller
                 PROVE  /\ pc'[d] = "idle" => own'[d] = <<>>
                        /\ pc'[d] # "idle" => cursor'[d] \in 1 .. Len(own'[d])
                        /\ pc'[d] \notin {"stop", "join"} => cursor'[d] = 1
                        /\ pc'[d] \in {"resolve", "start", "publish"} => Len(own'[d]) = 1
      BY DEF HandsShape
    <2>1. CASE d = c
      <3>1. ASSUME n = 1 PROVE Tail(s) = <<>>
        <4>1. Tail(s) \in Seq(Object) /\ Len(Tail(s)) = 0
          BY <1>s, <3>1
        <4> QED
          BY <4>1, EmptySeq
      <3> QED
        BY <2>1, <3>1, <1>o, <1>p, <1>e, <1>s
    <2>2. CASE d # c
      BY <2>2, <1>o, <1>p, <1>e DEF HandsShape
    <2> QED
      BY <2>1, <2>2
  <1>3. UniqueOwner'
    <2>1. (\A q \in Object : mod[q] # NoModule <=> Listed(q) \/ \E d \in Caller : HeldBy(d, q))'
      BY <1>e, <1>h DEF UniqueOwner
    <2>2. (\A j, k \in 1 .. Len(items) : items[j] = items[k] => j = k)'
      BY <1>p DEF UniqueOwner
    <2>3. (\A d \in Caller : \A j, k \in 1 .. Len(own[d]) : own[d][j] = own[d][k] => j = k)'
      <3>1. ASSUME NEW j \in 1 .. n - 1, NEW k \in 1 .. n - 1, Tail(s)[j] = Tail(s)[k]
            PROVE  j = k
        <4>1. s[j + 1] = s[k + 1]
          BY <1>s, <3>1
        <4>2. j + 1 \in 1 .. n /\ k + 1 \in 1 .. n
          BY <1>o
        <4>3. j + 1 = k + 1
          BY <1>u, <4>1, <4>2
        <4> QED
          BY <1>o, <4>3
      <3>2. \A d \in Caller \ {c} :
              \A j, k \in 1 .. Len(own[d]) : own[d][j] = own[d][k] => j = k
        BY DEF UniqueOwner
      <3>3. ASSUME NEW d \in Caller
            PROVE  \A j, k \in 1 .. Len(own'[d]) : own'[d][j] = own'[d][k] => j = k
        <4>1. CASE d = c
          <5>1. own'[d] = Tail(s) /\ Len(own'[d]) = n - 1
            BY <4>1, <1>e, <1>s
          <5> QED
            BY <3>1, <5>1
        <4>2. CASE d # c
          BY <4>2, <3>2, <1>e
        <4> QED
          BY <4>1, <4>2
      <3> QED
        BY <3>3
    <2>4. (\A d \in Caller, q \in Object : HeldBy(d, q) => ~Listed(q))'
      BY <1>h DEF UniqueOwner
    <2>5. (\A d, e \in Caller, q \in Object : HeldBy(d, q) /\ HeldBy(e, q) => d = e)'
      BY <1>h DEF UniqueOwner
    <2> QED
      BY <2>1, <2>2, <2>3, <2>4, <2>5 DEF UniqueOwner
  <1>5. CodeIsMapped'
    <2>1. ASSUME NEW q \in Object \ {o}, NeedsLibrary(q)'
          PROVE  mod'[q] # NoModule /\ refs'[mod'[q]] > 0
      <3>1. mod[q] \in Module /\ refs[mod[q]] > 0
        BY <2>1, <1>e, <1>t DEF CodeIsMapped, NeedsLibrary
      <3> QED
        BY <3>1, <1>e, <1>r
    <2>2. thread'[o] \notin {"init", "idle", "deinit"}
      BY <1>e, <1>o
    <2> QED
      BY <2>1, <2>2 DEF CodeIsMapped, NeedsLibrary
  <1>6. UnusedIsFresh'
    BY <1>o, <1>p, <1>e, <1>dt DEF UnusedIsFresh, Fresh, Target
  <1>7. OwnedIsStarted'
    <2>1. (\A j \in 1 .. Len(items) : thread[items[j]] # "none")'
      BY <1>p, <1>e, <1>l DEF OwnedIsStarted
    <2>2. ASSUME NEW d \in Caller,
                 pc'[d] \in {"publish", "stop", "join", "destroy", "dtorjoin"}
          PROVE  \A i \in 1 .. Len(own'[d]) : thread'[own'[d][i]] # "none"
      <3>1. CASE d = c
        <4>1. \A i \in 1 .. n : thread[s[i]] # "none"
          BY <1>o DEF OwnedIsStarted, s, n
        <4>2. \A i \in 1 .. n - 1 : thread[Tail(s)[i]] # "none"
          BY <4>1, <1>s, <1>o
        <4> QED
          <5>1. own'[d] = Tail(s) /\ Len(own'[d]) = n - 1
            BY <3>1, <1>e, <1>s
          <5>2. \A i \in 1 .. n - 1 : thread'[Tail(s)[i]] # "none"
            BY <4>2, <1>e, <1>i
          <5> QED
            BY <5>1, <5>2
      <3>2. CASE d # c
        BY <2>2, <3>2, <1>e, <1>d DEF OwnedIsStarted
      <3> QED
        BY <3>1, <3>2
    <2>3. (\A d \in Caller :
             pc[d] = "publish" => running[Target(d)] \/ thread[Target(d)] = "failed")'
      BY <1>p, <1>e, <1>dt DEF OwnedIsStarted, Target
    <2> QED
      BY <2>1, <2>2, <2>3 DEF OwnedIsStarted
  <1>8. ListedIsLive'
    BY <1>p, <1>e, <1>l DEF ListedIsLive
  <1>9. ClearedIsJoined'
    BY <1>o, <1>x, <1>p, <1>e DEF ClearedIsJoined, Joining, Target
  <1>10. PassedIsStopped'
    <2>1. Passed(c)'
      <3> SUFFICES ASSUME pc'[c] = "destroy", process' = "up"
                   PROVE  \A i \in 1 .. n - 1 : thread'[Tail(s)[i]] \in {"finished", "failed"}
        BY <1>e, <1>s DEF Passed, ThreadEnded
      <3>1. \A i \in 1 .. n : ThreadEnded(s[i])
        BY <1>o, <1>p DEF PassedIsStopped, Passed, s, n
      <3>2. \A i \in 1 .. n - 1 : ThreadEnded(Tail(s)[i])
        BY <3>1, <1>s, <1>o
      <3> QED
        BY <3>2, <1>e, <1>i DEF ThreadEnded
    <2>2. \A d \in Caller \ {c}, q \in Object :
            HeldBy(d, q) /\ ThreadEnded(q) => ThreadEnded(q)'
      BY <1>e, <1>h DEF ThreadEnded
    <2>3. process' = "up" => process = "up"
      BY <1>p
    <2> QED
      BY <1>o, <1>p, <1>e, <2>1, <2>2, <2>3, OthersPassed DEF PassedIsStopped
  <1>11. TerminatedByFailedInit'
    BY <1>o, <1>x, <1>p, <1>e DEF TerminatedByFailedInit
  <1> QED
    BY <1>1, <1>2, <1>3, <1>r, <1>5, <1>6, <1>7, <1>8, <1>9, <1>10, <1>11

(***************************************************************************)
(* The theorems                                                            *)
(***************************************************************************)

(* Every step preserves the invariant. *)
LEMMA NextInv == HostInv /\ [Next]_vars => HostInv'
  <1> SUFFICES ASSUME HostInv, [Next]_vars PROVE HostInv'
    OBVIOUS
  <1>1. ASSUME NEW c \in Caller, Call(c) PROVE HostInv'
    BY <1>1, LoadInv, StopAndUnloadByIdInv, StopAndUnloadAllInv, DestroyHostInv DEF Call
  <1>2. ASSUME NEW c \in Caller, CallerStep(c) PROVE HostInv'
    BY <1>2, AbandonInv, ConstructInv, StartInv, PublishInv, StopInv,
       StopReturnsEarlyInv, JoinInv, DtorStopInv, DtorJoinInv, DtorReleaseInv
       DEF CallerStep
  <1>3. CASE \E o \in Object : Worker(o)
    BY <1>3, WorkerInv
  <1>4. CASE UNCHANGED vars
    BY <1>4 DEF HostInv, vars, TypeOK, HandsShape, UniqueOwner, RefsMatchHandles,
       CodeIsMapped, NeedsLibrary, UnusedIsFresh, Fresh, OwnedIsStarted, ListedIsLive,
       ClearedIsJoined, Joining, Target, PassedIsStopped, Passed, ThreadEnded,
       TerminatedByFailedInit, Listed, HeldBy
  <1> QED
    BY <1>1, <1>2, <1>3, <1>4 DEF Next

(* The host's inductive invariant holds for ever. *)
THEOREM HostInvariance == Spec => []HostInv
  BY InitInv, NextInv, PTL DEF Spec

(* Every variable keeps its type. *)
THEOREM TypeCorrect == Spec => []TypeOK
  <1>1. HostInv => TypeOK
    BY DEF HostInv
  <1> QED
    BY <1>1, HostInvariance, PTL

(* ~ThreadedPlugin (ThreadedPlugin.cpp:12-16) never closes a library whose *)
(* code the worker runs or is still to call.                               *)
THEOREM CodeStaysMapped == Spec => []CodeIsMapped
  <1>1. HostInv => CodeIsMapped
    BY DEF HostInv
  <1> QED
    BY <1>1, HostInvariance, PTL

(* Every library is loaded as often as plugins hold it, through every path *)
(* of loadAndStart, stop and destruction.                                  *)
THEOREM HandlesBalance == Spec => []RefsMatchHandles
  <1>1. HostInv => RefsMatchHandles
    BY DEF HostInv
  <1> QED
    BY <1>1, HostInvariance, PTL

(* The unique_ptrs of MultiPluginHost (MultiPluginHost.cpp:30-31, 46-47,   *)
(* 60) move between the list and the callers without loss or duplication.  *)
THEOREM OneOwner == Spec => []UniqueOwner
  <1>1. HostInv => UniqueOwner
    BY DEF HostInv
  <1> QED
    BY <1>1, HostInvariance, PTL

(* What list() shows (MultiPluginHost.cpp:67-76) is open and has not been  *)
(* told to stop, unless its init failed.                                   *)
THEOREM ListShowsLive == Spec => []ListedIsLive
  <1>1. HostInv => ListedIsLive
    BY DEF HostInv
  <1> QED
    BY <1>1, HostInvariance, PTL

(* stopAndUnloadAll (MultiPluginHost.cpp:62-64) ends every worker before   *)
(* the first library is closed.                                            *)
THEOREM StopBeforeUnload == Spec => []AllStopBeforeUnload
  <1>1. HostInv => AllStopBeforeUnload
    BY DEF HostInv, PassedIsStopped, Passed, AllStopBeforeUnload
  <1> QED
    BY <1>1, HostInvariance, PTL

(* std::terminate is called only for a plugin whose init failed before it  *)
(* was told to stop (ThreadedPlugin.cpp:29-30, 42).                        *)
THEOREM OnlyFailedInitTerminates == Spec => []TerminatedByFailedInit
  <1>1. HostInv => TerminatedByFailedInit
    BY DEF HostInv
  <1> QED
    BY <1>1, HostInvariance, PTL

(***************************************************************************)
(* The host implements PluginLifecycle                                     *)
(***************************************************************************)

(* A plugin's deinit runs only once it has been told to stop. *)
ToldBeforeDeinit == \A o \in Object : thread[o] = "deinit" => ~running[o]

RefinementInv == HostInv /\ ToldBeforeDeinit

Withdrawing(c) == pc[c] \in {"stop", "join", "destroy", "dtorjoin"}

(* Where a plugin stands on the register is told by who holds it. *)
StatusIsByHands ==
  \A o \in Object :
    /\ mod[o] = NoModule => StatusOf(o) = "no"
    /\ \A c \in Caller : HeldBy(c, o) =>
         StatusOf(o) = IF Withdrawing(c) THEN "withdrawn" ELSE "no"
    /\ mod[o] # NoModule /\ (\A c \in Caller : ~HeldBy(c, o)) => StatusOf(o) = "listed"

LEMMA StatusByHands == HostInv => StatusIsByHands
  <1> SUFFICES ASSUME HostInv, NEW o \in Object
               PROVE  /\ mod[o] = NoModule => StatusOf(o) = "no"
                      /\ \A c \in Caller : HeldBy(c, o) =>
                           StatusOf(o) = IF Withdrawing(c) THEN "withdrawn" ELSE "no"
                      /\ mod[o] # NoModule /\ (\A c \in Caller : ~HeldBy(c, o))
                           => StatusOf(o) = "listed"
    BY DEF StatusIsByHands
  <1>1. /\ mod[o] # NoModule <=> Listed(o) \/ \E c \in Caller : HeldBy(c, o)
        /\ \A c \in Caller : HeldBy(c, o) => ~Listed(o)
        /\ \A c, d \in Caller : HeldBy(c, o) /\ HeldBy(d, o) => c = d
    BY DEF HostInv, UniqueOwner
  <1> QED
    BY <1>1 DEF StatusOf, Withdrawing

LEMMA StatusByHandsNext == HostInv' => StatusIsByHands'
  BY StatusByHands, PTL

(* Nothing changes for a plugin whose library and holder stay what they are. *)
LEMMA StatusKept ==
  ASSUME HostInv, HostInv', NEW o \in Object, mod'[o] = mod[o],
         \A c \in Caller : HeldBy(c, o)' <=> HeldBy(c, o),
         \A c \in Caller : HeldBy(c, o) => (Withdrawing(c)' <=> Withdrawing(c))
  PROVE  StatusOf(o)' = StatusOf(o)
  <1>1. CASE mod[o] = NoModule
    BY <1>1, StatusByHands, StatusByHandsNext DEF StatusIsByHands
  <1>2. CASE \E c \in Caller : HeldBy(c, o)
    <2>1. PICK c \in Caller : HeldBy(c, o)
      BY <1>2
    <2>2. StatusOf(o) = IF Withdrawing(c) THEN "withdrawn" ELSE "no"
      BY <2>1, StatusByHands DEF StatusIsByHands
    <2>3. StatusOf(o)' = IF Withdrawing(c)' THEN "withdrawn" ELSE "no"
      BY <2>1, StatusByHandsNext DEF StatusIsByHands
    <2> QED
      BY <2>1, <2>2, <2>3
  <1>3. CASE mod[o] # NoModule /\ \A c \in Caller : ~HeldBy(c, o)
    BY <1>3, StatusByHands, StatusByHandsNext DEF StatusIsByHands
  <1> QED
    BY <1>1, <1>2, <1>3

LEMMA PhaseKept ==
  ASSUME NEW o, mod'[o] = mod[o], thread'[o] = thread[o]
  PROVE  PhaseOf(o)' = PhaseOf(o)
  BY DEF PhaseOf

(* A step that moves one plugin's phase and nobody's status. *)
LEMMA PhaseMoves ==
  ASSUME NEW o \in Object, NEW from, NEW to,
         PhaseOf(o) = from, PhaseOf(o)' = to,
         \A q \in Object \ {o} : PhaseOf(q)' = PhaseOf(q),
         \A q \in Object : StatusOf(q)' = StatusOf(q)
  PROVE  Lifecycle!Move(o, from, to)
  BY DEF Lifecycle!Move

LEMMA Stutters ==
  ASSUME \A q \in Object : PhaseOf(q)' = PhaseOf(q) /\ StatusOf(q)' = StatusOf(q)
  PROVE  UNCHANGED Lifecycle!vars
  BY DEF Lifecycle!vars

(* Callers that go on without handing plugins over or closing libraries. *)
LEMMA StatusesKept ==
  ASSUME HostInv, HostInv', UNCHANGED <<mod, own>>,
         \A c \in Caller : Withdrawing(c)' <=> Withdrawing(c)
  PROVE  \A q \in Object : StatusOf(q)' = StatusOf(q)
  BY StatusKept DEF HeldBy

(* The worker's steps are the plugin's own steps of the life cycle. *)
LEMMA WorkerRefines ==
  ASSUME RefinementInv, HostInv', NEW o \in Object, Worker(o)
  PROVE  Lifecycle!Next \/ UNCHANGED Lifecycle!vars
  <1> USE DEF RefinementInv
  <1>1. /\ UNCHANGED <<mod, own, pc>> /\ process # "terminated"
        /\ \E s \in ThreadState : thread' = [thread EXCEPT ![o] = s]
    BY DEF Worker, InitReturns, GiveUp, LeaveLoop, DeinitReturns, Running, Advance, callVars,
           ThreadState
  <1>2. \A q \in Object : StatusOf(q)' = StatusOf(q)
    BY <1>1, StatusesKept DEF Withdrawing
  <1>3. \A q \in Object \ {o} : PhaseOf(q)' = PhaseOf(q)
    BY <1>1, PhaseKept DEF HostInv, TypeOK
  <1>t. thread \in [Object -> ThreadState]
    BY DEF HostInv, TypeOK
  <1>4. ASSUME NEW ok \in BOOLEAN, InitReturns(o, ok)
        PROVE  Lifecycle!Next
    <2>1. mod[o] # NoModule
      BY <1>4 DEF InitReturns, Running, HostInv, CodeIsMapped, NeedsLibrary
    <2>2. PhaseOf(o) = "starting" /\ PhaseOf(o)' = IF ok THEN "live" ELSE "quiet"
      BY <1>1, <1>4, <1>t, <2>1 DEF InitReturns, Running, Advance, PhaseOf
    <2>3. CASE ok
      BY <1>2, <1>3, <2>2, <2>3, PhaseMoves DEF Lifecycle!Next, Lifecycle!InitSucceeds
    <2>4. CASE ~ok
      BY <1>2, <1>3, <2>2, <2>4, PhaseMoves DEF Lifecycle!Next, Lifecycle!InitFails
    <2> QED
      BY <2>3, <2>4
  <1>5. CASE GiveUp(o)
    <2>1. PhaseOf(o)' = PhaseOf(o)
      BY <1>1, <1>5, <1>t DEF GiveUp, Running, Advance, PhaseOf
    <2> QED
      BY <1>2, <1>3, <2>1, Stutters
  <1>6. CASE LeaveLoop(o)
    <2>1. /\ mod[o] # NoModule /\ thread[o] = "idle" /\ thread'[o] = "deinit"
          /\ mod'[o] = mod[o]
      BY <1>1, <1>6, <1>t DEF LeaveLoop, Running, Advance, HostInv, CodeIsMapped, NeedsLibrary
    <2>2. PhaseOf(o) = "live" /\ PhaseOf(o)' = "deinit"
      BY <2>1 DEF PhaseOf
    <2>3. PICK c \in Caller : Joining(c, o)
      BY <1>6, <2>1 DEF LeaveLoop, ToldToStop, HostInv, ClearedIsJoined
    <2>4. HeldBy(c, o) /\ Withdrawing(c)
      BY <1>1, <2>3, TargetIsHeld DEF Joining, Withdrawing
    <2>5. StatusOf(o) = "withdrawn"
      BY <2>4, StatusByHands DEF StatusIsByHands
    <2> QED
      BY <1>2, <1>3, <2>2, <2>5, PhaseMoves DEF Lifecycle!Next, Lifecycle!BeginDeinit
  <1>7. CASE DeinitReturns(o)
    <2>1. /\ mod[o] # NoModule /\ thread[o] = "deinit" /\ thread'[o] = "finished"
          /\ mod'[o] = mod[o]
      BY <1>1, <1>7, <1>t DEF DeinitReturns, Running, Advance, HostInv, CodeIsMapped, NeedsLibrary
    <2>2. PhaseOf(o) = "deinit" /\ PhaseOf(o)' = "quiet"
      BY <2>1 DEF PhaseOf
    <2> QED
      BY <1>2, <1>3, <2>2, PhaseMoves DEF Lifecycle!Next, Lifecycle!EndDeinit
  <1> QED
    BY <1>4, <1>5, <1>6, <1>7 DEF Worker

(* Loading and constructing, and giving up on either. *)
LEMMA LoadRefines ==
  ASSUME HostInv, HostInv', NEW c \in Caller, NEW m \in Module, NEW o \in Object, Load(c, m, o)
  PROVE  Lifecycle!Next
  <1>1. /\ mod[o] = NoModule /\ mod'[o] = m /\ thread' = thread /\ thread[o] = "none"
        /\ \A q \in Object \ {o} : mod'[q] = mod[q]
        /\ own[c] = <<>> /\ own'[c] = <<o>> /\ pc'[c] = "resolve"
        /\ \A d \in Caller \ {c} : own'[d] = own[d] /\ pc'[d] = pc[d]
    BY DEF Load, Free, Goto, HostInv, TypeOK, HandsShape, UnusedIsFresh, Fresh
  <1>2. PhaseOf(o) = "absent" /\ PhaseOf(o)' = "opened"
    BY <1>1 DEF PhaseOf
  <1>3. \A q \in Object \ {o} : PhaseOf(q)' = PhaseOf(q)
    BY <1>1, PhaseKept
  <1>4. \A q \in Object \ {o}, d \in Caller :
          (HeldBy(d, q)' <=> HeldBy(d, q)) /\ (HeldBy(d, q) => (Withdrawing(d)' <=> Withdrawing(d)))
    BY <1>1 DEF HeldBy, Withdrawing
  <1>5. \A q \in Object \ {o} : StatusOf(q)' = StatusOf(q)
    BY <1>1, <1>4, StatusKept
  <1>6. StatusOf(o) = "no" /\ StatusOf(o)' = "no"
    <2>1. HeldBy(c, o)' /\ ~Withdrawing(c)'
      BY <1>1 DEF HeldBy, Withdrawing
    <2> QED
      BY <1>1, <2>1, StatusByHands, StatusByHandsNext DEF StatusIsByHands
  <1> QED
    BY <1>2, <1>3, <1>5, <1>6, PhaseMoves DEF Lifecycle!Next, Lifecycle!Open

LEMMA AbandonRefines ==
  ASSUME HostInv, HostInv', NEW c \in Caller, LoadFails(c) \/ StartThrows(c)
  PROVE  Lifecycle!Next
  <1>t. Target(c) \in Object
    BY TargetIsHeld DEF LoadFails, StartThrows, At
  <1> PICK o \in Object : o = Target(c)
    BY <1>t
  <1>o. /\ HeldBy(c, o) /\ mod[o] \in Module
        /\ own[c][1] = o /\ Len(own[c]) = 1
        /\ pc[c] \in {"resolve", "start"} /\ thread[o] = "none"
    BY TargetIsHeld DEF HostInv, HandsShape, Target, LoadFails, StartThrows, At, UnusedIsFresh, Fresh
  <1>1. /\ mod'[o] = NoModule /\ thread' = thread
        /\ \A q \in Object \ {o} : mod'[q] = mod[q]
        /\ own'[c] = <<>>
        /\ \A d \in Caller \ {c} : own'[d] = own[d] /\ pc'[d] = pc[d]
    BY <1>o DEF LoadFails, StartThrows, Abandon, Goto, HostInv, TypeOK
  <1>2. PhaseOf(o) = "opened" /\ PhaseOf(o)' = "absent"
    BY <1>o, <1>1 DEF PhaseOf
  <1>3. \A q \in Object \ {o} : PhaseOf(q)' = PhaseOf(q)
    BY <1>1, PhaseKept
  <1>4. \A q \in Object \ {o}, d \in Caller :
          (HeldBy(d, q)' <=> HeldBy(d, q)) /\ (HeldBy(d, q) => (Withdrawing(d)' <=> Withdrawing(d)))
    BY <1>o, <1>1 DEF HeldBy, Withdrawing
  <1>5. \A q \in Object \ {o} : StatusOf(q)' = StatusOf(q)
    BY <1>1, <1>4, StatusKept
  <1>6. StatusOf(o) = "no" /\ StatusOf(o)' = "no"
    <2>1. ~Withdrawing(c)
      BY <1>o DEF Withdrawing
    <2> QED
      BY <1>o, <1>1, <2>1, StatusByHands, StatusByHandsNext DEF StatusIsByHands
  <1> QED
    BY <1>o, <1>2, <1>3, <1>5, <1>6, PhaseMoves DEF Lifecycle!Next, Lifecycle!Discard

LEMMA ConstructRefines ==
  ASSUME HostInv, HostInv', NEW c \in Caller, Construct(c)
  PROVE  UNCHANGED Lifecycle!vars
  <1>1. /\ UNCHANGED <<mod, thread, own>> /\ \A d \in Caller : Withdrawing(d)' <=> Withdrawing(d)
    BY DEF Construct, At, Goto, objVars, Withdrawing, HostInv, TypeOK
  <1> QED
    BY <1>1, StatusesKept, PhaseKept, Stutters

LEMMA StartRefines ==
  ASSUME HostInv, HostInv', NEW c \in Caller, Start(c)
  PROVE  Lifecycle!Next
  <1>t. Target(c) \in Object
    BY TargetIsHeld DEF Start, At
  <1> PICK o \in Object : o = Target(c)
    BY <1>t
  <1>o. mod[o] # NoModule /\ thread[o] = "none"
    BY TargetIsHeld, ModuleAssumption DEF Start, At, HostInv, UnusedIsFresh, Fresh
  <1>1. /\ UNCHANGED <<mod, own>> /\ thread'[o] = "init"
        /\ \A q \in Object \ {o} : thread'[q] = thread[q]
        /\ \A d \in Caller : Withdrawing(d)' <=> Withdrawing(d)
    BY <1>o DEF Start, At, Goto, Withdrawing, HostInv, TypeOK
  <1>2. PhaseOf(o) = "opened" /\ PhaseOf(o)' = "starting"
    BY <1>o, <1>1 DEF PhaseOf
  <1> QED
    BY <1>o, <1>1, <1>2, PhaseKept, StatusesKept, PhaseMoves DEF Lifecycle!Next, Lifecycle!Start

LEMMA PublishRefines ==
  ASSUME RefinementInv, HostInv', NEW c \in Caller, Publish(c)
  PROVE  Lifecycle!Next
  <1> USE DEF RefinementInv
  <1>t. Target(c) \in Object
    BY TargetIsHeld DEF Publish, At
  <1> PICK o \in Object : o = Target(c)
    BY <1>t
  <1>o. /\ HeldBy(c, o) /\ mod[o] # NoModule /\ own[c][1] = o /\ Len(own[c]) = 1
        /\ pc[c] = "publish" /\ thread[o] \in ThreadState \ {"none"}
        /\ running[o] \/ thread[o] = "failed"
    BY SMTT(20), TargetIsHeld DEF HostInv, TypeOK, HandsShape, Target, Publish, At, OwnedIsStarted
  <1>1. /\ UNCHANGED <<mod, thread>> /\ own'[c] = <<>>
        /\ \A d \in Caller \ {c} : own'[d] = own[d] /\ pc'[d] = pc[d]
    BY DEF Publish, Goto, objVars, HostInv, TypeOK
  <1>2. PhaseOf(o) \in {"starting", "live", "quiet"}
    BY <1>o DEF PhaseOf, ToldBeforeDeinit
  <1>3. \A q \in Object : PhaseOf(q)' = PhaseOf(q)
    BY <1>1, PhaseKept
  <1>4. /\ \A q \in Object \ {o}, d \in Caller :
             /\ HeldBy(d, q)' <=> HeldBy(d, q)
             /\ HeldBy(d, q) => (Withdrawing(d)' <=> Withdrawing(d))
        /\ \A d \in Caller : ~HeldBy(d, o)'
    BY <1>o, <1>1, OthersHands DEF HeldBy, Withdrawing
  <1>5. \A q \in Object \ {o} : StatusOf(q)' = StatusOf(q)
    BY <1>1, <1>4, StatusKept
  <1>6. StatusOf(o) = "no" /\ StatusOf(o)' = "listed"
    <2>1. ~Withdrawing(c)
      BY <1>o DEF Withdrawing
    <2> QED
      BY <1>o, <1>1, <1>4, <2>1, StatusByHands, StatusByHandsNext DEF StatusIsByHands
  <1> QED
    BY <1>2, <1>3, <1>5, <1>6 DEF Lifecycle!Next, Lifecycle!List

(* Plugins leave the list for the hands of a caller that is to stop them. *)
LEMMA WithdrawRefines ==
  ASSUME HostInv, HostInv', NEW c \in Caller, UNCHANGED <<mod, thread>>,
         NEW S \in SUBSET Object, S # {}, own[c] = <<>>, Withdrawing(c)',
         \A q \in Object : HeldBy(c, q)' <=> q \in S,
         \A q \in S : Listed(q),
         \A d \in Caller \ {c} : own'[d] = own[d] /\ pc'[d] = pc[d]
  PROVE  Lifecycle!Next
  <1>1. \A q \in Object : PhaseOf(q)' = PhaseOf(q)
    BY PhaseKept
  <1>2. ASSUME NEW q \in S PROVE StatusOf(q) = "listed"
    <2>1. mod[q] # NoModule /\ \A d \in Caller : ~HeldBy(d, q)
      BY DEF HostInv, UniqueOwner
    <2> QED
      BY <2>1, StatusByHands DEF StatusIsByHands
  <1>3. \A q \in S : StatusOf(q)' = "withdrawn"
    BY StatusByHandsNext DEF StatusIsByHands
  <1>4. \A q \in Object \ S, d \in Caller :
          (HeldBy(d, q)' <=> HeldBy(d, q)) /\ (HeldBy(d, q) => (Withdrawing(d)' <=> Withdrawing(d)))
    BY DEF HeldBy, Withdrawing
  <1>5. \A q \in Object \ S : StatusOf(q)' = StatusOf(q)
    BY <1>4, StatusKept
  <1>6. Lifecycle!Withdraw(S)
    BY <1>1, <1>2, <1>3, <1>5 DEF Lifecycle!Withdraw
  <1> QED
    BY <1>6 DEF Lifecycle!Next

LEMMA StopByIdRefines ==
  ASSUME HostInv, HostInv', NEW c \in Caller, NEW i \in 1 .. Len(items), StopAndUnloadById(c, i)
  PROVE  Lifecycle!Next
  <1>t. items[i] \in Object
    BY OwnedAreObjects
  <1> PICK o \in Object : o = items[i]
    BY <1>t
  <1>1. /\ UNCHANGED <<mod, thread>> /\ own[c] = <<>> /\ own'[c] = <<o>> /\ pc'[c] = "stop"
        /\ \A d \in Caller \ {c} : own'[d] = own[d] /\ pc'[d] = pc[d]
    BY DEF StopAndUnloadById, Free, Goto, objVars, HostInv, TypeOK, HandsShape
  <1>2. /\ Listed(o) /\ Withdrawing(c)' /\ {o} # {} /\ {o} \in SUBSET Object
        /\ \A q \in Object : HeldBy(c, q)' <=> q \in {o}
    BY <1>1 DEF Listed, Withdrawing, HeldBy
  <1> QED
    BY <1>1, <1>2, WithdrawRefines

LEMMA SwapItemsRefines ==
  ASSUME HostInv, HostInv', NEW c \in Caller, Free(c), items # <<>>, SwapItems(c),
         NEW state \in {"stop", "destroy"}, Goto(c, state), UNCHANGED objVars
  PROVE  Lifecycle!Next
  <1> DEFINE S == {q \in Object : Listed(q)}
  <1>1. /\ UNCHANGED <<mod, thread>> /\ own[c] = <<>> /\ own'[c] = items /\ pc'[c] = state
        /\ \A d \in Caller \ {c} : own'[d] = own[d] /\ pc'[d] = pc[d]
    BY DEF SwapItems, Free, Goto, objVars, HostInv, TypeOK, HandsShape
  <1>2. Withdrawing(c)' /\ \A q \in Object : HeldBy(c, q)' <=> q \in S
    BY <1>1 DEF Listed, Withdrawing, HeldBy
  <1>3. S # {}
    <2>1. items \in Seq(Object) /\ Len(items) \in Nat /\ Len(items) # 0
      BY LenProperties, EmptySeq DEF HostInv, TypeOK
    <2>2. 1 \in 1 .. Len(items) /\ items[1] \in Object
      BY <2>1, OwnedAreObjects
    <2> QED
      BY <2>2 DEF Listed
  <1>4. S \in SUBSET Object /\ \A q \in S : Listed(q)
    OBVIOUS
  <1> SUFFICES ASSUME NEW T \in SUBSET Object, T = S
               PROVE  Lifecycle!Next
    BY <1>4
  <1> HIDE DEF S
  <1>5. T # {} /\ (\A q \in T : Listed(q)) /\ \A q \in Object : HeldBy(c, q)' <=> q \in T
    BY <1>2, <1>3, <1>4
  <1> QED
    BY <1>1, <1>2, <1>5, WithdrawRefines

(* Stopping and joining are told by the worker's steps alone. *)
LEMMA StopStepsStutter ==
  ASSUME HostInv, HostInv', NEW c \in Caller,
         Stop(c) \/ StopReturnsEarly(c) \/ Join(c) \/ DtorStop(c) \/ DtorJoin(c)
  PROVE  UNCHANGED Lifecycle!vars
  <1>1. UNCHANGED <<mod, thread, own>>
    BY DEF Stop, StopReturnsEarly, Join, DtorStop, DtorJoin, objVars
  <1>2. /\ Withdrawing(c) /\ Withdrawing(c)'
        /\ \A d \in Caller \ {c} : pc'[d] = pc[d]
    BY DEF Stop, StopReturnsEarly, Join, DtorStop, DtorJoin, objVars, At, Goto, NextToStop,
           Withdrawing, HostInv, TypeOK
  <1> QED
    BY <1>1, <1>2, StatusesKept, PhaseKept, Stutters DEF Withdrawing

LEMMA ReleaseRefines ==
  ASSUME HostInv, HostInv', NEW c \in Caller, DtorRelease(c)
  PROVE  Lifecycle!Next
  <1>t. Target(c) \in Object
    BY TargetIsHeld DEF DtorRelease, At
  <1> PICK o \in Object : o = Target(c)
    BY <1>t
  <1> DEFINE s == own[c]
             n == Len(s)
  <1>o. /\ HeldBy(c, o) /\ mod[o] # NoModule /\ ~running[o]
        /\ process # "terminated" /\ pc[c] = "destroy" /\ cursor[c] = 1
        /\ s \in Seq(Object) /\ s # <<>> /\ n \in Nat /\ n >= 1 /\ s[1] = o
    BY TargetIsHeld DEF DtorRelease, At, HandsShape, Target, HostInv
  <1>x. ThreadEnded(o)
    BY <1>o, ClearedHasEnded
  <1>1. /\ mod'[o] = NoModule /\ own'[c] = Tail(s)
        /\ \A q \in Object \ {o} : mod'[q] = mod[q] /\ thread'[q] = thread[q]
        /\ \A d \in Caller \ {c} : own'[d] = own[d] /\ pc'[d] = pc[d]
        /\ pc'[c] = "destroy" \/ (n = 1 /\ pc'[c] = "idle")
    BY <1>o DEF DtorRelease, Goto, HostInv, TypeOK
  <1>s. /\ Len(Tail(s)) = n - 1
        /\ \A i \in 1 .. n - 1 : Tail(s)[i] = s[i + 1]
    BY <1>o, HeadTailProperties
  <1>h. \A q \in Object \ {o} : HeldBy(c, q)' <=> HeldBy(c, q)
    <2>1. \A q \in Object : HeldBy(c, q)' <=> \E i \in 1 .. n - 1 : Tail(s)[i] = q
      BY <1>1, <1>s DEF HeldBy
    <2>2. ASSUME NEW q \in Object \ {o}, HeldBy(c, q)
          PROVE  \E i \in 1 .. n - 1 : Tail(s)[i] = q
      <3>1. PICK k \in 1 .. n : s[k] = q
        BY <2>2 DEF HeldBy
      <3>2. k - 1 \in 1 .. n - 1 /\ (k - 1) + 1 = k
        BY <1>o, <3>1
      <3> QED
        BY <1>s, <3>1, <3>2
    <2>3. ASSUME NEW q \in Object, NEW i \in 1 .. n - 1, Tail(s)[i] = q
          PROVE  HeldBy(c, q)
      <3>1. i + 1 \in 1 .. n /\ s[i + 1] = q
        BY <1>s, <1>o, <2>3
      <3> QED
        BY <3>1 DEF HeldBy
    <2> QED
      BY <2>1, <2>2, <2>3
  <1>2. PhaseOf(o) = "quiet" /\ PhaseOf(o)' = "absent"
    BY <1>o, <1>x, <1>1 DEF PhaseOf, ThreadEnded
  <1>3. \A q \in Object \ {o} : PhaseOf(q)' = PhaseOf(q)
    BY <1>1, PhaseKept
  <1>4. \A q \in Object \ {o}, d \in Caller :
          (HeldBy(d, q)' <=> HeldBy(d, q)) /\ (HeldBy(d, q) => (Withdrawing(d)' <=> Withdrawing(d)))
    <2>1. ASSUME NEW q \in Object \ {o}, HeldBy(c, q) PROVE Withdrawing(c)' <=> Withdrawing(c)
      <3>1. PICK k \in 1 .. n : s[k] = q
        BY <2>1 DEF HeldBy
      <3>2. n # 1
        BY <3>1, <1>o
      <3> QED
        BY <3>2, <1>1, <1>o DEF Withdrawing
    <2>2. ASSUME NEW q \in Object \ {o}, NEW d \in Caller \ {c}
          PROVE  (HeldBy(d, q)' <=> HeldBy(d, q)) /\ (Withdrawing(d)' <=> Withdrawing(d))
      BY <1>1 DEF HeldBy, Withdrawing
    <2> QED
      BY <1>h, <2>1, <2>2
  <1>5. \A q \in Object \ {o} : StatusOf(q)' = StatusOf(q)
    BY <1>1, <1>4, StatusKept
  <1>6. StatusOf(o) = "withdrawn" /\ StatusOf(o)' = "no"
    <2>1. Withdrawing(c)
      BY <1>o DEF Withdrawing
    <2> QED
      BY <1>o, <1>1, <2>1, StatusByHands, StatusByHandsNext DEF StatusIsByHands
  <1> QED
    BY <1>2, <1>3, <1>5, <1>6 DEF Lifecycle!Next, Lifecycle!Close

(* Every step of the host is a step of the life cycle, or none. *)
LEMMA NextRefines ==
  RefinementInv /\ HostInv' /\ [Next]_vars => [Lifecycle!Next]_(Lifecycle!vars)
  <1> SUFFICES ASSUME RefinementInv, HostInv', [Next]_vars
               PROVE  Lifecycle!Next \/ UNCHANGED Lifecycle!vars
    OBVIOUS
  <1> USE DEF RefinementInv
  <1>1. ASSUME NEW c \in Caller, Call(c) PROVE Lifecycle!Next \/ UNCHANGED Lifecycle!vars
    <2>1. ASSUME NEW m \in Module, NEW o \in Object, Load(c, m, o) PROVE Lifecycle!Next
      BY <2>1, LoadRefines
    <2>2. ASSUME NEW i \in 1 .. Len(items), StopAndUnloadById(c, i) PROVE Lifecycle!Next
      BY <2>2, StopByIdRefines
    <2>3. CASE StopAndUnloadAll(c)
      BY <2>3, SwapItemsRefines DEF StopAndUnloadAll
    <2>4. CASE DestroyHost(c)
      <3>1. CASE items # <<>>
        BY <2>4, <3>1, SwapItemsRefines DEF DestroyHost
      <3>2. CASE items = <<>>
        <4>1. UNCHANGED <<mod, thread, own, pc>>
          BY <2>4, <3>2 DEF DestroyHost, SwapItems, Goto, objVars, Free, HostInv, TypeOK, HandsShape
        <4> QED
          BY <4>1, StatusesKept, PhaseKept, Stutters DEF Withdrawing
      <3> QED
        BY <3>1, <3>2
    <2> QED
      BY <1>1, <2>1, <2>2, <2>3, <2>4 DEF Call
  <1>2. ASSUME NEW c \in Caller, CallerStep(c) PROVE Lifecycle!Next \/ UNCHANGED Lifecycle!vars
    BY <1>2, AbandonRefines, ConstructRefines, StartRefines, PublishRefines, StopStepsStutter,
       ReleaseRefines DEF CallerStep
  <1>3. ASSUME NEW o \in Object, Worker(o) PROVE Lifecycle!Next \/ UNCHANGED Lifecycle!vars
    BY <1>3, WorkerRefines
  <1>4. CASE UNCHANGED vars
    BY <1>4, StatusesKept, PhaseKept, Stutters DEF vars, Withdrawing
  <1> QED
    BY <1>1, <1>2, <1>3, <1>4 DEF Next

(* The flag is set once, before the thread is there. *)
LEMMA ToldInv ==
  RefinementInv /\ [Next]_vars => ToldBeforeDeinit'
  <1> SUFFICES ASSUME RefinementInv, [Next]_vars, NEW o \in Object, thread'[o] = "deinit"
               PROVE  ~running'[o]
    BY DEF ToldBeforeDeinit
  <1> USE DEF RefinementInv
  <1>t. /\ thread \in [Object -> ThreadState] /\ running \in [Object -> BOOLEAN]
        /\ thread[o] = "deinit" => ~running[o]
    BY DEF HostInv, TypeOK, ToldBeforeDeinit
  <1>1. ASSUME NEW c \in Caller, Call(c) PROVE ~running'[o]
    BY <1>1, <1>t DEF Call, Load, StopAndUnloadById, StopAndUnloadAll, DestroyHost, objVars
  <1>2. ASSUME NEW c \in Caller, CallerStep(c) PROVE ~running'[o]
    BY <1>2, <1>t DEF CallerStep, LoadFails, Construct, Start, StartThrows, Abandon, Publish,
       Stop, StopReturnsEarly, Join, DtorStop, DtorJoin, DtorRelease, ExchangeRunning, objVars,
       Forgotten
  <1>3. ASSUME NEW q \in Object, Worker(q) PROVE ~running'[o]
    BY <1>3, <1>t DEF Worker, InitReturns, GiveUp, LeaveLoop, DeinitReturns, Advance, ToldToStop
  <1>4. CASE UNCHANGED vars
    BY <1>4, <1>t DEF vars
  <1> QED
    BY <1>1, <1>2, <1>3, <1>4 DEF Next

LEMMA RefinementInvariance == Spec => []RefinementInv
  <1>1. Init => ToldBeforeDeinit
    BY DEF Init, ToldBeforeDeinit
  <1> QED
    BY <1>1, InitInv, NextInv, ToldInv, PTL DEF Spec, RefinementInv

(* The host implements the life cycle it promises of each plugin: with     *)
(* threads, locks and loops left out, its steps are those of               *)
(* PluginLifecycle (MultiPluginHost.cpp, ThreadedPlugin.cpp).              *)
THEOREM HostImplementsLifecycle == Spec => LifecycleSpec
  <1>1. Init => Lifecycle!Init
    BY DEF Init, Lifecycle!Init, PhaseOf, StatusOf, Listed, HeldBy
  <1>2. RefinementInv => HostInv
    BY DEF RefinementInv
  <1> QED
    BY <1>1, <1>2, NextRefines, RefinementInvariance, PTL DEF Spec, LifecycleSpec, Lifecycle!Spec

=============================================================================
