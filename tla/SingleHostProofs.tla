-------------------------- MODULE SingleHostProofs --------------------------
(***************************************************************************)
(* Proofs about the single-plugin host, for any libraries and directories. *)
(* SingleInv is inductive: the load counts alone are not, because closing  *)
(* and initialising depend on what is loaded at each point of a call.      *)
(***************************************************************************)
EXTENDS SingleHost, SequenceTheorems, TLAPS

USE ModuleAssumption, ExportAssumption, EntryAssumption, BoundAssumption

(* A listing is a sequence of directories. *)
LEMMA ListingsAreSequences == ASSUME NEW s \in Listings PROVE s \in Seq(Dir)
<1>1. PICK n \in 0 .. MaxListed : s \in [1 .. n -> Dir]
  BY DEF Listings
<1> QED BY <1>1, n \in Nat

(* The initial state satisfies the invariant. *)
LEMMA InitSingle == Init => SingleInv
<1> SUFFICES ASSUME Init PROVE SingleInv
  OBVIOUS
<1>1. call \in [dirs : Seq(Dir), opt : Options, successes : Seq(Module)]
  BY DEF Init, NoCall, Options
<1>2. TypeOK
  BY <1>1 DEF Init, TypeOK
<1>3. OpenIsHeld
  BY DEF Init, OpenIsHeld
<1>4. CallState
  BY DEF Init, CallState
<1> QED BY <1>2, <1>3, <1>4 DEF SingleInv

(* Ending a load keeps the facade's loop well-typed and its target cleared. *)
LEMMA FinishStep ==
  ASSUME TypeOK, target \in Module, NEW ok \in BOOLEAN, Finish(ok)
  PROVE  /\ pc' \in {"idle", "next"} /\ target' = NoModule
         /\ call' \in [dirs : Seq(Dir), opt : Options, successes : Seq(Module)]
<1>1. CASE call.dirs = <<>>
  BY <1>1 DEF Finish, NoCall, Options
<1>2. CASE call.dirs # <<>>
  <2>1. Tail(call.dirs) \in Seq(Dir)
    BY <1>2 DEF TypeOK
  <2>2. Append(call.successes, target) \in Seq(Module)
    BY DEF TypeOK
  <2> QED BY <1>2, <2>1, <2>2 DEF Finish, TypeOK
<1> QED BY <1>1, <1>2

(* A load that fails with nothing left open keeps the invariant. *)
LEMMA FailedLoad ==
  ASSUME SingleInv, target \in Module, Finish(FALSE), handle = NoModule,
         pc = "open" \/ pc = "discard",
         UNCHANGED <<handle, deinit, live, api>>,
         refs' = IF pc = "open" THEN refs ELSE [refs EXCEPT ![target] = @ - 1]
  PROVE  SingleInv'
<1> USE DEF SingleInv
<1>1. /\ pc' \in {"idle", "next"} /\ target' = NoModule
      /\ call' \in [dirs : Seq(Dir), opt : Options, successes : Seq(Module)]
  BY FinishStep
<1>2. refs' \in [Module -> Nat]
  <2>1. pc = "discard" => refs[target] = 1
    BY DEF TypeOK, OpenIsHeld
  <2> QED BY <2>1 DEF TypeOK
<1>3. TypeOK'
  BY <1>1, <1>2 DEF TypeOK
<1>4. OpenIsHeld'
  <2> SUFFICES ASSUME NEW m \in Module PROVE refs'[m] = 0
    BY <1>1 DEF OpenIsHeld
  <2>1. refs[m] = IF target = m /\ pc = "discard" THEN 1 ELSE 0
    BY DEF OpenIsHeld
  <2> QED BY <2>1 DEF TypeOK
<1>5. CallState'
  BY <1>1 DEF CallState
<1> QED BY <1>3, <1>4, <1>5

(* Every step keeps the invariant. *)
LEMMA SingleStep == SingleInv /\ [Next]_vars => SingleInv'
<1> SUFFICES ASSUME SingleInv, [Next]_vars PROVE SingleInv'
  OBVIOUS
<1> USE DEF SingleInv
<1>1. ASSUME NEW m \in Module, Load(m) PROVE SingleInv'
  <2>1. TypeOK'
    BY <1>1 DEF Load, EntryPoint, IsLoaded, TypeOK
  <2>2. OpenIsHeld'
    BY <1>1 DEF Load, EntryPoint, IsLoaded, OpenIsHeld, CallState
  <2>3. CallState'
    BY <1>1 DEF Load, EntryPoint, IsLoaded, CallState, TypeOK
  <2> QED BY <2>1, <2>2, <2>3
<1>2. CASE Unload
  BY <1>2 DEF Unload, IsLoaded, TypeOK, OpenIsHeld, CallState
<1>3. CASE CallDeinit
  BY <1>3 DEF CallDeinit, TypeOK, OpenIsHeld, CallState
<1>4. CASE CloseLoaded
  <2>1. pc = "close" /\ handle \in Module /\ refs[handle] = 1
    BY <1>4 DEF CloseLoaded, TypeOK, OpenIsHeld, CallState
  <2>2. TypeOK'
    <3>1. refs' \in [Module -> Nat]
      BY <1>4, <2>1 DEF CloseLoaded, TypeOK
    <3>2. pc' \in {"idle", "open"} /\ handle' = NoModule /\ deinit' = NoModule
      BY <1>4 DEF CloseLoaded
    <3> QED BY <1>4, <3>1, <3>2 DEF CloseLoaded, TypeOK
  <2>3. OpenIsHeld'
    BY <1>4, <2>1 DEF CloseLoaded, TypeOK, OpenIsHeld, CallState
  <2>4. CallState'
    BY <1>4, <2>1 DEF CloseLoaded, TypeOK, CallState
  <2> QED BY <2>2, <2>3, <2>4
<1>5. CASE Open
  <2>1. CASE target \in Openable
    <3>1. /\ pc = "open" /\ handle = NoModule /\ target \in Module /\ pc' = "init"
          /\ refs' = [refs EXCEPT ![target] = @ + 1]
          /\ UNCHANGED <<handle, deinit, live, api, target, call>>
      BY <1>5, <2>1 DEF Open, Finish, CallState
    <3>2. TypeOK'
      BY <3>1 DEF TypeOK
    <3>3. OpenIsHeld'
      BY <3>1 DEF TypeOK, OpenIsHeld
    <3>4. CallState'
      BY <3>1 DEF CallState
    <3> QED BY <3>2, <3>3, <3>4
  <2>2. CASE target \notin Openable
    <3>1. Finish(FALSE) /\ target \in Module
      BY <1>5, <2>2 DEF Open, TypeOK, CallState
    <3>2. /\ pc = "open" /\ handle = NoModule
          /\ UNCHANGED <<refs, handle, deinit, live, api>>
      BY <1>5, <2>2 DEF Open, CallState
    <3> QED BY <3>1, <3>2, FailedLoad
  <2> QED BY <2>1, <2>2
<1>6. CASE CallInit
  BY <1>6 DEF CallInit, TypeOK, OpenIsHeld, CallState
<1>7. ASSUME NEW ok \in BOOLEAN, InitReturns(ok) PROVE SingleInv'
  <2>1. pc = "running" /\ target \in Module /\ handle = NoModule
    BY <1>7 DEF InitReturns, TypeOK, CallState
  <2>2. CASE ok
    <3>1. Finish(TRUE)
      BY <1>7, <2>2 DEF InitReturns
    <3>2. /\ pc' \in {"idle", "next"} /\ target' = NoModule
          /\ call' \in [dirs : Seq(Dir), opt : Options, successes : Seq(Module)]
      BY <2>1, <3>1, FinishStep
    <3>3. /\ handle' = target /\ UNCHANGED refs
          /\ deinit' = IF target \in HasDeinit THEN target ELSE NoModule
          /\ live' = [live EXCEPT ![target] = TRUE] /\ api' = [api EXCEPT ![target] = FALSE]
      BY <1>7, <2>2 DEF InitReturns
    <3>4. TypeOK'
      BY <2>1, <3>2, <3>3 DEF TypeOK
    <3>5. OpenIsHeld'
      <4>1. ASSUME NEW m \in Module PROVE refs[m] = IF target = m THEN 1 ELSE 0
        BY <2>1, <4>1, ModuleAssumption DEF OpenIsHeld
      <4>2. pc' \notin {"init", "running", "discard"} /\ handle' = target /\ refs' = refs
        BY <3>2, <3>3
      <4> QED BY <4>1, <4>2 DEF OpenIsHeld
    <3>6. CallState'
      BY <2>1, <3>2, <3>3 DEF TypeOK, CallState
    <3> QED BY <3>4, <3>5, <3>6
  <2>3. CASE ~ok
    BY <1>7, <2>1, <2>3 DEF InitReturns, TypeOK, OpenIsHeld, CallState
  <2> QED BY <2>2, <2>3
<1>8. CASE Discard
  <2>1. /\ Finish(FALSE) /\ target \in Module
        /\ pc = "discard" /\ handle = NoModule
        /\ refs' = [refs EXCEPT ![target] = @ - 1]
        /\ UNCHANGED <<handle, deinit, live, api>>
    BY <1>8 DEF Discard, TypeOK, CallState
  <2> QED BY <2>1, FailedLoad
<1>9. ASSUME NEW d \in Dir, NEW opt \in Options, LoadOne(d, opt) PROVE SingleInv'
  BY <1>9 DEF LoadOne, TypeOK, OpenIsHeld, CallState
<1>10. ASSUME NEW s \in Listings, NEW opt \in Options, LoadAll(s, opt) PROVE SingleInv'
  BY <1>10, ListingsAreSequences DEF LoadAll, TypeOK, OpenIsHeld, CallState
<1>11. CASE LoopEnds
  BY <1>11 DEF LoopEnds, NoCall, Options, TypeOK, OpenIsHeld, CallState
<1>12. CASE Refuse
  <2>1. Tail(call.dirs) \in Seq(Dir)
    BY <1>12 DEF Refuse, TypeOK
  <2> QED BY <1>12, <2>1 DEF Refuse, TypeOK, OpenIsHeld, CallState
<1>13. CASE Try
  <2>1. Head(call.dirs) \in Dir
    BY <1>13 DEF Try, TypeOK
  <2> QED BY <1>13, <2>1 DEF Try, EntryPoint, IsLoaded, TypeOK, OpenIsHeld, CallState
<1>14. CASE UNCHANGED vars
  BY <1>14 DEF vars, TypeOK, OpenIsHeld, CallState
<1> QED BY <1>1, <1>2, <1>3, <1>4, <1>5, <1>6, <1>7, <1>8, <1>9, <1>10, <1>11, <1>12, <1>13, <1>14 DEF Next

(* The single host's invariant always holds. *)
THEOREM SingleInvariance == Spec => []SingleInv
BY InitSingle, SingleStep, PTL DEF Spec

(* No load count is ever left over, whatever succeeds and fails. *)
THEOREM LoadsBalance == Spec => []OpenIsHeld
BY SingleInvariance, PTL DEF SingleInv

(* A plugin with a deinit is never unmapped before its own deinit has run,  *)
(* and no deinit on record points into an unmapped library.                 *)
THEOREM ShutDownBeforeClose == Spec => []DeinitBeforeClose
<1>1. SingleInv => DeinitBeforeClose
  BY DEF SingleInv, TypeOK, OpenIsHeld, CallState, DeinitBeforeClose
<1> QED BY <1>1, SingleInvariance, PTL

(* Two plugins are never initialised, and mapped, at the same time. *)
THEOREM NeverTwo == Spec => []OneAtATime
<1>1. SingleInv => OneAtATime
  <2> SUFFICES ASSUME SingleInv, NEW m \in Module, NEW n \in Module, m # n,
                      refs[m] > 0, refs[n] > 0
               PROVE  FALSE
    BY DEF OneAtATime
  <2>1. \A k \in {m, n} : handle = k \/ (target = k /\ handle = NoModule)
    BY DEF SingleInv, OpenIsHeld, CallState
  <2> QED BY <2>1
<1> QED BY <1>1, SingleInvariance, PTL

(* The invariant behind ReportedIsLoaded: once a success is enough, the     *)
(* facade's loop is about to end, and has touched nothing since.            *)
OneIsEnough ==
  call.opt.stopOnFirstSuccess /\ call.successes # <<>> =>
    pc = "next" /\ handle = Last(call.successes) /\ Len(call.successes) = 1

(* Ending a load adds at most its own library, when there was none before.  *)
LEMMA FinishAdds ==
  ASSUME TypeOK, OneIsEnough, pc # "next", target \in Module, NEW ok \in BOOLEAN, Finish(ok),
         ok => handle' = target
  PROVE  OneIsEnough'
<1>1. CASE call.dirs = <<>>
  BY <1>1 DEF Finish, NoCall, OneIsEnough
<1>2. CASE call.dirs # <<>> /\ ~ok
  <2>1. pc' = "next" /\ call'.successes = call.successes /\ call'.opt = call.opt
    BY <1>2 DEF Finish, TypeOK
  <2> QED BY <2>1 DEF OneIsEnough
<1>3. CASE call.dirs # <<>> /\ ok
  <2>1. /\ pc' = "next" /\ call'.opt = call.opt
        /\ call'.successes = Append(call.successes, target)
    BY <1>3 DEF Finish, TypeOK
  <2>2. CASE ~call.opt.stopOnFirstSuccess
    BY <2>1, <2>2 DEF OneIsEnough
  <2>3. CASE call.opt.stopOnFirstSuccess
    <3>1. call.successes = <<>>
      BY <2>3 DEF OneIsEnough
    <3>2. Append(<<>>, target) = <<target>>
      OBVIOUS
    <3> QED BY <1>3, <2>1, <3>1, <3>2 DEF OneIsEnough, Last
  <2> QED BY <2>2, <2>3
<1> QED BY <1>1, <1>2, <1>3

(* Every other step either starts a loop, ends one, or finds that no        *)
(* success was enough yet.                                                  *)
LEMMA OneIsEnoughStep == SingleInv /\ OneIsEnough /\ [Next]_vars => OneIsEnough'
<1> SUFFICES ASSUME SingleInv, OneIsEnough, [Next]_vars PROVE OneIsEnough'
  OBVIOUS
<1> TypeOK /\ CallState
  BY DEF SingleInv
<1>1. CASE Open \/ (\E ok \in BOOLEAN : InitReturns(ok)) \/ Discard
  <2>1. CASE \E ok \in BOOLEAN : Finish(ok) /\ (ok => handle' = target)
    <3>1. target \in Module /\ pc # "next"
      BY <1>1 DEF Open, InitReturns, Discard, CallState, TypeOK
    <3> QED BY <2>1, <3>1, FinishAdds
  <2>2. CASE UNCHANGED call /\ pc # "next"
    BY <2>2 DEF OneIsEnough
  <2> QED BY <1>1, <2>1, <2>2 DEF Open, InitReturns, Discard
<1>2. CASE \/ \E m \in Module : Load(m)
           \/ Unload \/ CallDeinit \/ CloseLoaded \/ CallInit
  BY <1>2 DEF Load, Unload, CallDeinit, CloseLoaded, CallInit, OneIsEnough
<1>3. CASE \E opt \in Options :
            (\E d \in Dir : LoadOne(d, opt)) \/ (\E s \in Listings : LoadAll(s, opt))
  BY <1>3 DEF LoadOne, LoadAll, OneIsEnough
<1>4. CASE LoopEnds
  BY <1>4 DEF LoopEnds, NoCall, OneIsEnough
<1>5. CASE Refuse \/ Try
  <2>1. call'.successes = call.successes /\ call'.opt = call.opt /\ ~Stops
    BY <1>5 DEF Refuse, Try, TypeOK
  <2> QED BY <2>1 DEF Stops, OneIsEnough
<1>6. CASE UNCHANGED vars
  BY <1>6 DEF vars, OneIsEnough
<1> QED BY <1>1, <1>2, <1>3, <1>4, <1>5, <1>6 DEF Next

(* With stopOnFirstSuccess the plugin reported is the one loaded, whatever  *)
(* was loaded before and whatever fails on the way.                         *)
(* (LoaderFacade.cpp:114-118)                                               *)
THEOREM FirstSuccessStays == Spec => []ReportedIsLoaded
<1>1. Init => OneIsEnough
  BY DEF Init, NoCall, OneIsEnough
<1>2. OneIsEnough => ReportedIsLoaded
  BY DEF OneIsEnough, ReportedIsLoaded
<1> QED BY <1>1, <1>2, OneIsEnoughStep, SingleInvariance, PTL DEF Spec

============================================================================
