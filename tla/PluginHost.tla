----------------------------- MODULE PluginHost -----------------------------
(***************************************************************************)
(* The threaded plugin host: MultiPluginHost (the list of hosted plugins), *)
(* ThreadedPlugin (one plugin on a thread of its own) and ModuleLoader     *)
(* (the shared library behind it).                                         *)
(*                                                                         *)
(* Callers run the host's operations; every ThreadedPlugin also has a      *)
(* worker that runs threadMain.  The list is touched only under the host's *)
(* mutex, so one critical section is one step; everything the code does    *)
(* outside the mutex, and every point where it can block, is a step of its *)
(* own.  A thread that cannot be had is modelled, want of memory is not.    *)
(*                                                                         *)
(* An operator Wrong... is a deliberately faulty variant of the operator   *)
(* defined after it: it serves to see that the properties notice.          *)
(***************************************************************************)
EXTENDS Naturals, FiniteSets, SequencesExt

CONSTANTS
  Caller,    (* threads that call MultiPluginHost                            *)
  Module,    (* shared libraries, by path                                    *)
  Object,    (* ThreadedPlugin objects; the bound on how many exist at once  *)
  IdOf,      (* IdOf[m]: the manifest id the loader gives with library m     *)
  NoModule   (* the null handle                                              *)

ASSUME CallersAssumption == Caller # {}
ASSUME ModuleAssumption  == NoModule \notin Module
ASSUME ObjectAssumption  == IsFiniteSet(Object)

VARIABLES
  refs,       (* refs[m]: the operating system's load count of library m     *)
  mod,        (* mod[o]: the library whose handle o holds, or NoModule       *)
  running,    (* running[o]: the atomic flag of o                            *)
  joinable,   (* joinable[o]: o's std::thread member stands for a thread     *)
  thread,     (* thread[o]: where o's worker is in threadMain                *)
  items,      (* the host's vector of plugins                                *)
  pc,         (* pc[c]: where caller c is                                    *)
  own,        (* own[c]: the plugins only c holds: tp, victim or tmp         *)
  cursor,     (* cursor[c]: the position of c's loop over own[c]             *)
  process     (* is the process up, in static destruction, or terminated?    *)

objVars  == <<refs, mod, running, joinable, thread>>
callVars == <<items, pc, own, cursor, process>>
vars     == <<refs, mod, running, joinable, thread, items, pc, own, cursor, process>>

----------------------------------------------------------------------------

ThreadState == {"none", "init", "failing", "failed", "idle", "deinit", "finished"}
CallerState == {"idle", "resolve", "start", "publish", "stop", "join",
                "destroy", "dtorjoin"}

(* The steps of threadMain in which the plugin's own code, or a call into  *)
(* it that is still to come, needs the library.                            *)
NeedsLibrary(o) == thread[o] \in {"init", "idle", "deinit"}

TypeOK ==
  /\ refs \in [Module -> Nat]
  /\ mod \in [Object -> Module \cup {NoModule}]
  /\ running \in [Object -> BOOLEAN]
  /\ joinable \in [Object -> BOOLEAN]
  /\ thread \in [Object -> ThreadState]
  /\ items \in Seq(Object)
  /\ pc \in [Caller -> CallerState]
  /\ own \in [Caller -> Seq(Object)]
  /\ cursor \in [Caller -> Nat \ {0}]
  /\ process \in {"up", "exiting", "terminated"}

Init ==
  /\ refs = [m \in Module |-> 0]
  /\ mod = [o \in Object |-> NoModule]
  /\ running = [o \in Object |-> FALSE]
  /\ joinable = [o \in Object |-> FALSE]
  /\ thread = [o \in Object |-> "none"]
  /\ items = <<>>
  /\ pc = [c \in Caller |-> "idle"]
  /\ own = [c \in Caller |-> <<>>]
  /\ cursor = [c \in Caller |-> 1]
  /\ process = "up"

(* The object caller c is working on. *)
Target(c) == own[c][cursor[c]]

At(c, state) == process # "terminated" /\ pc[c] = state
Goto(c, state) == pc' = [pc EXCEPT ![c] = state]

(* A caller that is between calls, in a process that still takes calls. *)
Free(c) == process = "up" /\ pc[c] = "idle"

----------------------------------------------------------------------------
(* ModuleLoader *)

OpenLibrary(m) == refs' = [refs EXCEPT ![m] = @ + 1]

WrongCloseLibrary(m) == UNCHANGED refs
CloseLibrary(m) == refs' = [refs EXCEPT ![m] = @ - 1]

(* The library is mapped; its two entry points are still to be resolved.   *)
(* A library that cannot be opened changes nothing.                        *)
Load(c, m, o) ==
  /\ Free(c)
  /\ mod[o] = NoModule
  /\ OpenLibrary(m)
  /\ mod' = [mod EXCEPT ![o] = m]
  /\ own' = [own EXCEPT ![c] = <<o>>]
  /\ Goto(c, "resolve")
  /\ UNCHANGED <<running, joinable, thread, items, cursor, process>>

(* What only c has seen is given back, and c's call is over. *)
Abandon(c) ==
  /\ CloseLibrary(mod[Target(c)])
  /\ mod' = [mod EXCEPT ![Target(c)] = NoModule]
  /\ own' = [own EXCEPT ![c] = <<>>]
  /\ Goto(c, "idle")
  /\ UNCHANGED <<running, joinable, thread, items, cursor, process>>

(* init or deinit is not exported: the library is closed again. *)
LoadFails(c) == At(c, "resolve") /\ Abandon(c)

(* Both entry points are there: the ThreadedPlugin is constructed. *)
Construct(c) ==
  /\ At(c, "resolve")
  /\ Goto(c, "start")
  /\ UNCHANGED <<objVars, items, own, cursor, process>>

----------------------------------------------------------------------------
(* MultiPluginHost::loadAndStart, from the constructed object on *)

Start(c) ==
  LET o == Target(c) IN
  /\ At(c, "start")
  /\ running' = [running EXCEPT ![o] = TRUE]
  /\ joinable' = [joinable EXCEPT ![o] = TRUE]
  /\ thread' = [thread EXCEPT ![o] = "init"]
  /\ Goto(c, "publish")
  /\ UNCHANGED <<refs, mod, items, own, cursor, process>>

(* No thread can be had: the exception leaves loadAndStart, and the object's *)
(* destructor, on the way, clears the flag, finds no thread to join and      *)
(* closes the library.                                                       *)
StartThrows(c) == At(c, "start") /\ Abandon(c)

Publish(c) ==
  /\ At(c, "publish")
  /\ items' = Append(items, Target(c))
  /\ own' = [own EXCEPT ![c] = <<>>]
  /\ Goto(c, "idle")
  /\ UNCHANGED <<objVars, cursor, process>>

----------------------------------------------------------------------------
(* Taking plugins off the list, under the mutex *)

WrongErase(i) == UNCHANGED items
Erase(i) == items' = RemoveAt(items, i)

Id(o) == IdOf[mod[o]]

(* stopAndUnloadById: find_if takes the first plugin with the wanted id.   *)
(* An id that is not listed changes nothing.                               *)
StopAndUnloadById(c, i) ==
  /\ Free(c)
  /\ \A j \in 1 .. i - 1 : Id(items[j]) # Id(items[i])
  /\ own' = [own EXCEPT ![c] = <<items[i]>>]
  /\ Erase(i)
  /\ Goto(c, "stop")
  /\ UNCHANGED <<objVars, cursor, process>>

WrongSwapItems(c) ==
  /\ own' = [own EXCEPT ![c] = items]
  /\ UNCHANGED items
SwapItems(c) ==
  /\ own' = [own EXCEPT ![c] = items]
  /\ items' = <<>>

(* stopAndUnloadAll takes the whole vector; an empty one changes nothing. *)
StopAndUnloadAll(c) ==
  /\ Free(c)
  /\ items # <<>>
  /\ SwapItems(c)
  /\ Goto(c, "stop")
  /\ UNCHANGED <<objVars, cursor, process>>

(* The singleton's own destruction, when the process ends: the vector's    *)
(* destructor runs over the plugins that are still listed.                 *)
DestroyHost(c) ==
  /\ Free(c)
  /\ \A d \in Caller : pc[d] = "idle"
  /\ process' = "exiting"
  /\ SwapItems(c)
  /\ Goto(c, IF items = <<>> THEN "idle" ELSE "destroy")
  /\ UNCHANGED <<objVars, cursor>>

----------------------------------------------------------------------------
(* ThreadedPlugin::stop, outside the mutex *)

WrongLoopDone(c) == cursor[c] + 1 >= Len(own[c])
LoopDone(c) == cursor[c] = Len(own[c])

(* To the next plugin of the loop, or on to the destructors, which start   *)
(* over at the first one.                                                  *)
NextToStop(c) ==
  IF LoopDone(c)
  THEN Goto(c, "destroy") /\ cursor' = [cursor EXCEPT ![c] = 1]
  ELSE Goto(c, "stop") /\ cursor' = [cursor EXCEPT ![c] = @ + 1]

ExchangeRunning(o) == running' = [running EXCEPT ![o] = FALSE]

WrongStop(c) ==
  /\ At(c, "stop")
  /\ running[Target(c)]
  /\ ExchangeRunning(Target(c))
  /\ NextToStop(c)
  /\ UNCHANGED <<refs, mod, joinable, thread, items, own, process>>

(* The flag was set: the worker is told to leave, and is joined. *)
Stop(c) ==
  LET o == Target(c) IN
  /\ At(c, "stop")
  /\ running[o]
  /\ ExchangeRunning(o)
  /\ IF joinable[o] THEN Goto(c, "join") /\ UNCHANGED cursor
                    ELSE NextToStop(c)
  /\ UNCHANGED <<refs, mod, joinable, thread, items, own, process>>

(* The flag was already clear: stop returns at once, without joining. *)
StopReturnsEarly(c) ==
  /\ At(c, "stop")
  /\ ~running[Target(c)]
  /\ NextToStop(c)
  /\ UNCHANGED <<objVars, items, own, process>>

WrongThreadEnded(o) == TRUE
ThreadEnded(o) == thread[o] \in {"finished", "failed"}

Join(c) ==
  LET o == Target(c) IN
  /\ At(c, "join")
  /\ ThreadEnded(o)
  /\ joinable' = [joinable EXCEPT ![o] = FALSE]
  /\ NextToStop(c)
  /\ UNCHANGED <<refs, mod, running, thread, items, own, process>>

----------------------------------------------------------------------------
(* ~ThreadedPlugin: stop again, close the library, destroy the members *)

DtorStop(c) ==
  LET o == Target(c) IN
  /\ At(c, "destroy")
  /\ running[o]
  /\ ExchangeRunning(o)
  /\ IF joinable[o] THEN Goto(c, "dtorjoin") ELSE UNCHANGED pc
  /\ UNCHANGED <<refs, mod, joinable, thread, items, own, cursor, process>>

DtorJoin(c) ==
  LET o == Target(c) IN
  /\ At(c, "dtorjoin")
  /\ ThreadEnded(o)
  /\ joinable' = [joinable EXCEPT ![o] = FALSE]
  /\ Goto(c, "destroy")
  /\ UNCHANGED <<refs, mod, running, thread, items, own, cursor, process>>

(* An object is free to be constructed anew only once its worker is gone:  *)
(* a worker that outlived the object would go on running.                  *)
Forgotten(state) == IF state \in {"finished", "failed"} THEN "none" ELSE state

(* The std::thread member of a plugin that was never joined is still       *)
(* joinable when it is destroyed: that terminates the process.             *)
DtorRelease(c) ==
  LET o == Target(c) IN
  /\ At(c, "destroy")
  /\ ~running[o]
  /\ CloseLibrary(mod[o])
  /\ mod' = [mod EXCEPT ![o] = NoModule]
  /\ own' = [own EXCEPT ![c] = Tail(own[c])]
  /\ IF joinable[o]
     THEN /\ process' = "terminated"
          /\ UNCHANGED <<thread, pc>>
     ELSE /\ thread' = [thread EXCEPT ![o] = Forgotten(@)]
          /\ Goto(c, IF Len(own[c]) = 1 THEN "idle" ELSE "destroy")
          /\ UNCHANGED process
  /\ UNCHANGED <<running, joinable, items, cursor>>

----------------------------------------------------------------------------
(* ThreadedPlugin::threadMain, on the worker of o *)

Running(o, state) == process # "terminated" /\ thread[o] = state
Advance(o, state) ==
  /\ thread' = [thread EXCEPT ![o] = state]
  /\ UNCHANGED <<refs, mod, joinable, callVars>>

InitReturns(o, ok) ==
  /\ Running(o, "init")
  /\ Advance(o, IF ok THEN "idle" ELSE "failing")
  /\ UNCHANGED running

(* init failed: the worker clears the flag itself and returns. *)
GiveUp(o) ==
  /\ Running(o, "failing")
  /\ running' = [running EXCEPT ![o] = FALSE]
  /\ Advance(o, "failed")

WrongToldToStop(o) == FALSE
ToldToStop(o) == ~running[o]

LeaveLoop(o) ==
  /\ Running(o, "idle")
  /\ ToldToStop(o)
  /\ Advance(o, "deinit")
  /\ UNCHANGED running

DeinitReturns(o) ==
  /\ Running(o, "deinit")
  /\ Advance(o, "finished")
  /\ UNCHANGED running

----------------------------------------------------------------------------

CallerStep(c) ==
  \/ LoadFails(c) \/ Construct(c) \/ Start(c) \/ StartThrows(c) \/ Publish(c)
  \/ Stop(c) \/ StopReturnsEarly(c) \/ Join(c)
  \/ DtorStop(c) \/ DtorJoin(c) \/ DtorRelease(c)

Call(c) ==
  \/ \E m \in Module, o \in Object : Load(c, m, o)
  \/ \E i \in 1 .. Len(items) : StopAndUnloadById(c, i)
  \/ StopAndUnloadAll(c)
  \/ DestroyHost(c)

Worker(o) ==
  \/ \E ok \in BOOLEAN : InitReturns(o, ok)
  \/ GiveUp(o) \/ LeaveLoop(o) \/ DeinitReturns(o)

Next ==
  \/ \E c \in Caller : Call(c) \/ CallerStep(c)
  \/ \E o \in Object : Worker(o)

Spec == Init /\ [][Next]_vars

(* A thread that can run is run eventually, and a plugin's init and deinit *)
(* return.  Nobody is obliged to call the host.                            *)
Fairness ==
  /\ \A c \in Caller : WF_vars(CallerStep(c))
  /\ \A o \in Object : WF_vars(Worker(o))

FairSpec == Spec /\ Fairness

----------------------------------------------------------------------------
(* Properties *)

Listed(o) == \E i \in 1 .. Len(items) : items[i] = o
HeldBy(c, o) == \E i \in 1 .. Len(own[c]) : own[c][i] = o

(* No plugin code runs, or is still to run, in a library that has been     *)
(* closed: the destructor in ThreadedPlugin.cpp:12-16 may call             *)
(* ModuleLoader::unload only once threadMain has made its last call.       *)
CodeIsMapped ==
  \A o \in Object : NeedsLibrary(o) => mod[o] # NoModule /\ refs[mod[o]] > 0

(* A library's load count is the number of handles still held: no path of  *)
(* load, stop or destruction closes a handle twice or forgets one.         *)
RefsMatchHandles ==
  \A m \in Module : refs[m] = Cardinality({o \in Object : mod[o] = m})

(* Every plugin that holds a library has exactly one owner, one place in   *)
(* the list or in one caller's hands, although unique_ptrs are moved       *)
(* between the two by callers that race: none is leaked or owned twice.    *)
UniqueOwner ==
  /\ \A o \in Object : mod[o] # NoModule <=> Listed(o) \/ \E c \in Caller : HeldBy(c, o)
  /\ \A i, j \in 1 .. Len(items) : items[i] = items[j] => i = j
  /\ \A c \in Caller : \A i, j \in 1 .. Len(own[c]) : own[c][i] = own[c][j] => i = j
  /\ \A c \in Caller, o \in Object : HeldBy(c, o) => ~Listed(o)
  /\ \A c, d \in Caller, o \in Object : HeldBy(c, o) /\ HeldBy(d, o) => c = d

(* What list() shows has not been told to stop: a listed plugin has its    *)
(* library open and its flag set, unless its init failed.                  *)
ListedIsLive ==
  \A i \in 1 .. Len(items) :
    /\ mod[items[i]] # NoModule
    /\ running[items[i]] \/ thread[items[i]] = "failed"

(* stopAndUnloadAll stops every plugin before it unloads any: outside      *)
(* static destruction, a caller that has reached the destructors holds     *)
(* only plugins whose workers will not call plugin code again.             *)
AllStopBeforeUnload ==
  \A c \in Caller :
    pc[c] = "destroy" /\ process = "up"
      => \A i \in 1 .. Len(own[c]) : ThreadEnded(own[c][i])

(* The only way the host terminates the process: a plugin whose init       *)
(* failed before anyone asked it to stop is destroyed without a join.      *)
TerminatedByFailedInit ==
  process = "terminated" =>
    \E o \in Object : thread[o] = "failed" /\ joinable[o] /\ ~running[o]

(* stop's contract, ThreadedPlugin.h:23: it calls deinit and joins the     *)
(* thread.  Whoever is past stop holds no joinable thread.                 *)
StopJoins ==
  \A c \in Caller :
    pc[c] = "destroy" /\ process = "up"
      => \A i \in 1 .. Len(own[c]) : ~joinable[own[c][i]]

(* Every call returns, unless the process is terminated: no join waits     *)
(* for ever.  With UniqueOwner, since a caller between calls holds nothing, *)
(* a plugin once taken off the list has its library closed.                *)
CallsReturn ==
  \A c \in Caller : pc[c] # "idle" ~> pc[c] = "idle" \/ process = "terminated"

----------------------------------------------------------------------------
(* The inductive invariant behind the safety properties *)

(* What a caller holds, and where its loop is, at each of its points. *)
HandsShape ==
  process # "terminated" =>
    \A c \in Caller :
      /\ pc[c] = "idle" => own[c] = <<>>
      /\ pc[c] # "idle" => cursor[c] \in 1 .. Len(own[c])
      /\ pc[c] \notin {"stop", "join"} => cursor[c] = 1
      /\ pc[c] \in {"resolve", "start", "publish"} => Len(own[c]) = 1

Fresh(o) == thread[o] = "none" /\ ~running[o] /\ ~joinable[o]

(* A plugin without a library, or not yet started, is as constructed. *)
UnusedIsFresh ==
  /\ \A o \in Object : thread[o] = "none" => Fresh(o)
  /\ process # "terminated" => \A o \in Object : mod[o] = NoModule => Fresh(o)
  /\ \A c \in Caller : pc[c] \in {"resolve", "start"} => Fresh(Target(c))

(* A plugin to be listed, listed or withdrawn has been started. *)
OwnedIsStarted ==
  /\ \A i \in 1 .. Len(items) : thread[items[i]] # "none"
  /\ \A c \in Caller :
       pc[c] \in {"publish", "stop", "join", "destroy", "dtorjoin"} =>
         \A i \in 1 .. Len(own[c]) : thread[own[c][i]] # "none"
  /\ \A c \in Caller :
       pc[c] = "publish" => running[Target(c)] \/ thread[Target(c)] = "failed"

Joining(c, o) == pc[c] \in {"join", "dtorjoin"} /\ Target(c) = o

(* A worker that has not ended can be joined; once its flag is clear, and  *)
(* its init has not failed, somebody is joining it.                        *)
ClearedIsJoined ==
  \A o \in Object :
    /\ thread[o] \in {"init", "failing", "idle", "deinit"} => joinable[o]
    /\ joinable[o] /\ ~running[o] /\ thread[o] # "failed"
         => \E c \in Caller : Joining(c, o)

(* The plugins c's loop has passed are stopped, and all of them once the   *)
(* loop is over.                                                           *)
Passed(c) ==
  /\ pc[c] \in {"stop", "join"} =>
       \A i \in 1 .. cursor[c] - 1 : ThreadEnded(own[c][i])
  /\ pc[c] \in {"destroy", "dtorjoin"} /\ process = "up" =>
       \A i \in 1 .. Len(own[c]) : ThreadEnded(own[c][i])

PassedIsStopped == \A c \in Caller : Passed(c)

(* Every safety property of the host follows from this invariant, and each *)
(* step of Next preserves it.                                              *)
HostInv ==
  /\ TypeOK
  /\ HandsShape
  /\ UniqueOwner
  /\ RefsMatchHandles
  /\ CodeIsMapped
  /\ UnusedIsFresh
  /\ OwnedIsStarted
  /\ ListedIsLive
  /\ ClearedIsJoined
  /\ PassedIsStopped
  /\ TerminatedByFailedInit

----------------------------------------------------------------------------
(* The host implements the life cycle it promises. *)

PhaseOf(o) ==
  CASE mod[o] = NoModule                            -> "absent"
    [] mod[o] # NoModule /\ thread[o] = "none"      -> "opened"
    [] mod[o] # NoModule /\ thread[o] = "init"      -> "starting"
    [] mod[o] # NoModule /\ thread[o] = "idle"      -> "live"
    [] mod[o] # NoModule /\ thread[o] = "deinit"    -> "deinit"
    [] OTHER                                        -> "quiet"

StatusOf(o) ==
  CASE Listed(o) -> "listed"
    [] \E c \in Caller : /\ HeldBy(c, o)
                         /\ pc[c] \in {"stop", "join", "destroy", "dtorjoin"}
                 -> "withdrawn"
    [] OTHER     -> "no"

Lifecycle == INSTANCE PluginLifecycle
               WITH phase    <- [o \in Object |-> PhaseOf(o)],
                    register <- [o \in Object |-> StatusOf(o)]

LifecycleSpec == Lifecycle!Spec

============================================================================
