---------------------------- MODULE MenuRegistry ----------------------------
(***************************************************************************)
(* ObsMenuRegistry: the menus and actions FoxClip puts on OBS's menu bar.  *)
(*                                                                         *)
(* The registry keeps a map from menu ids to a guarded pointer (QPointer)  *)
(* to the QMenu and to the actions added to it.  Its operations run on the *)
(* UI thread: a call made there runs at once, a call made on another       *)
(* thread is queued to the event loop.  Around it, the rest of OBS and     *)
(* other modules add menus of their own and destroy whatever they like     *)
(* while the UI thread is in its event loop; Qt nulls the guarded pointers *)
(* of what is destroyed and runs deleteLater when it is back in the loop.  *)
(*                                                                         *)
(* Titles, the checkable flag and empty callbacks are left out.  Callbacks *)
(* are assumed not to run an event loop of their own.                      *)
(***************************************************************************)
EXTENDS Naturals, FiniteSets, SequencesExt

CONSTANTS
  MenuId, ActionId,   (* the ids of top-level menus and of actions             *)
  Callback,           (* what a menu action calls                              *)
  BodyOf,             (* BodyOf[c]: the registry calls callback c makes        *)
  Menu, Action,       (* the QMenu and QAction objects; bounds on both         *)
  NoMenu, NoAction,   (* null pointers                                         *)
  ForeignIsChild,     (* the values foreign menus on the bar take for          *)
                      (* parentIsBar: {} for no foreign menus                  *)
  MaxQueue            (* bound on the calls queued by other threads            *)

Request ==
       [op : {"ensure"}, menu : MenuId]
  \cup [op : {"add"}, menu : MenuId, key : ActionId, callback : Callback]
  \cup [op : {"teardown"}]

ASSUME NullAssumption == NoMenu \notin Menu /\ NoAction \notin Action
ASSUME IdAssumption == MenuId # {} /\ ActionId # {}
ASSUME BodyAssumption == BodyOf \in [Callback -> Seq(Request)]
ASSUME ForeignAssumption == ForeignIsChild \subseteq BOOLEAN
ASSUME QueueAssumption == MaxQueue \in Nat

VARIABLES
  window,   (* does OBS's main window, and its menu bar, exist?                *)
  bar,      (* the menus on the menu bar, left to right                        *)
  menu,     (* menu[m]: what QMenu m is                                        *)
  action,   (* action[a]: what QAction a is                                    *)
  record,   (* menuMap(): per menu id the guarded pointer and the actions      *)
  queue,    (* the calls posted to the event loop                              *)
  ui,       (* the action whose callback the UI thread runs, and what is left  *)
            (* of that callback                                                *)
  locked    (* is mtx() held by the UI thread across a callback?               *)

uiVars == <<queue, ui, locked>>
vars   == <<window, bar, menu, action, record, queue, ui, locked>>

----------------------------------------------------------------------------

(* parentIsBar: qobject_cast<QMenuBar *>(parentWidget()) succeeds; ours: made *)
(* by the registry; a "doomed" menu has been given to deleteLater.            *)
MenuObject == [state : {"free", "alive", "doomed"}, name : MenuId,
               parentIsBar : BOOLEAN, ours : BOOLEAN]

(* menu: the parent; shown: listed in that menu; id and key: the ids its      *)
(* triggered slot looks up.                                                   *)
ActionObject == [menu : Menu \cup {NoMenu}, shown : BOOLEAN, id : MenuId, key : ActionId]

ActionRecord == [action : Action \cup {NoAction}, callback : Callback]
PartialFunction(S, T) == UNION {[D -> T] : D \in SUBSET S}
MenuRecord == [menu : Menu \cup {NoMenu}, actions : PartialFunction(ActionId, ActionRecord)]

(* An object that does not exist. *)
FreeMenu == [state |-> "free", name |-> CHOOSE i \in MenuId : TRUE,
             parentIsBar |-> FALSE, ours |-> FALSE]
FreeAction == [menu |-> NoMenu, shown |-> FALSE,
               id |-> CHOOSE i \in MenuId : TRUE, key |-> CHOOSE k \in ActionId : TRUE]

Idle == [act |-> NoAction, todo |-> <<>>]

TypeOK ==
  /\ window \in BOOLEAN
  /\ bar \in Seq(Menu)
  /\ menu \in [Menu -> MenuObject]
  /\ action \in [Action -> ActionObject]
  /\ DOMAIN record \subseteq MenuId
  /\ \A i \in DOMAIN record : record[i] \in MenuRecord
  /\ queue \in Seq(Request)
  /\ ui \in [act : Action \cup {NoAction}, todo : Seq(Request)]
  /\ locked \in BOOLEAN

Init ==
  /\ window = TRUE
  /\ bar = <<>>
  /\ menu = [m \in Menu |-> FreeMenu]
  /\ action = [a \in Action |-> FreeAction]
  /\ record = <<>>
  /\ queue = <<>>
  /\ ui = Idle
  /\ locked = FALSE

OnBar == ToSet(bar)
FreeMenus == {m \in Menu : menu[m].state = "free"}
FreeActions == {a \in Action : action[a].menu = NoMenu}

(* The menus of s that are not in M, in the order of s. *)
Without(s, M) ==
  LET kept[n \in 0 .. Len(s)] ==
        IF n = 0 THEN <<>>
        ELSE IF s[n] \in M THEN kept[n - 1] ELSE Append(kept[n - 1], s[n])
  IN  kept[Len(s)]

(* Setting one key of a map. *)
Put(f, k, v) == [x \in DOMAIN f \cup {k} |-> IF x = k THEN v ELSE f[x]]

----------------------------------------------------------------------------
(* findOrCreateMenuLocked *)

Known(id) == id \in DOMAIN record /\ record[id].menu # NoMenu

(* The first menu on the bar with that object name, or none. *)
NamedOnBar(id) ==
  LET n == SelectInSeq(bar, LAMBDA m : menu[m].name = id)
  IN  IF n = 0 THEN NoMenu ELSE bar[n]

(* m is the menu found for id: the recorded one, else the one on the bar,  *)
(* else a new one, child of the bar and last on it.                        *)
FindOrCreate(id, m) ==
  \/ Known(id) /\ m = record[id].menu /\ UNCHANGED <<bar, menu>>
  \/ ~Known(id) /\ m = NamedOnBar(id) /\ m # NoMenu /\ UNCHANGED <<bar, menu>>
  \/ /\ ~Known(id) /\ NamedOnBar(id) = NoMenu
     /\ m \in FreeMenus
     /\ bar' = Append(bar, m)
     /\ menu' = [menu EXCEPT ![m] = [state |-> "alive", name |-> id,
                                     parentIsBar |-> TRUE, ours |-> TRUE]]

(* The record of id once m is found for it: its actions are kept. *)
Entry(id, m) ==
  [menu |-> m, actions |-> IF id \in DOMAIN record THEN record[id].actions ELSE <<>>]

----------------------------------------------------------------------------
(* The three operations, as they run on the UI thread. *)

NoWindow == ~window /\ UNCHANGED <<window, bar, menu, action, record>>

EnsureTopLevelMenu(id) ==
  \/ NoWindow
  \/ /\ window
     /\ \E m \in Menu : FindOrCreate(id, m) /\ record' = Put(record, id, Entry(id, m))
     /\ UNCHANGED <<window, action>>

(* A recorded action that still exists gets the new callback; one that has *)
(* been destroyed is replaced.                                             *)
Lives(entry, key) == key \in DOMAIN entry.actions /\ entry.actions[key].action # NoAction

WrongWithAction(entry, r, a) ==  \* keeps the callback of an action that exists
  IF Lives(entry, r.key) THEN entry
  ELSE [entry EXCEPT !.actions = Put(@, r.key, [action |-> a, callback |-> r.callback])]

WithAction(entry, r, a) ==
  [entry EXCEPT !.actions = Put(@, r.key, [action |-> a, callback |-> r.callback])]

AddMenuAction(r) ==
  \/ NoWindow
  \/ /\ window
     /\ \E m \in Menu :
          LET entry == Entry(r.menu, m)
              Filled(a) == Put(record, r.menu, WithAction(entry, r, a))
          IN  /\ FindOrCreate(r.menu, m)
              /\ \/ /\ Lives(entry, r.key)
                    /\ record' = Filled(entry.actions[r.key].action)
                    /\ UNCHANGED action
                 \/ /\ ~Lives(entry, r.key)
                    /\ \E a \in FreeActions :
                         /\ action' = [action EXCEPT ![a] =
                              [menu |-> m, shown |-> TRUE, id |-> r.menu, key |-> r.key]]
                         /\ record' = Filled(a)
     /\ UNCHANGED window

RecordedMenus == {record[i].menu : i \in DOMAIN record} \ {NoMenu}
RecordedActions(i) == {record[i].actions[k].action : k \in DOMAIN record[i].actions} \ {NoAction}

(* What teardownAll does to the action objects, the bar and the menus. *)
WrongUnlisted == action          \* leaves the actions in their menus
Unlisted ==
  [a \in Action |->
     [action[a] EXCEPT !.shown = @ /\ ~\E i \in DOMAIN record :
         record[i].menu = action[a].menu /\ a \in RecordedActions(i)]]

WrongOffBar == {}                \* leaves the menus on the bar
OffBar == {m \in RecordedMenus : menu[m].parentIsBar}

WrongDeletedLater(M) == menu     \* forgets deleteLater
DeletedLater(M) == [m \in Menu |-> IF m \in M THEN [menu[m] EXCEPT !.state = "doomed"] ELSE menu[m]]

WrongTeardownEffect ==           \* delete instead of deleteLater
  /\ bar' = Without(bar, RecordedMenus)
  /\ menu' = [m \in Menu |-> IF m \in RecordedMenus THEN FreeMenu ELSE menu[m]]
  /\ action' = [a \in Action |-> IF action[a].menu \in RecordedMenus THEN FreeAction ELSE action[a]]
  /\ record' = <<>>

TeardownEffect ==
  /\ bar' = Without(bar, OffBar)
  /\ menu' = DeletedLater(RecordedMenus)
  /\ action' = Unlisted
  /\ record' = <<>>

TeardownAll == TeardownEffect /\ UNCHANGED window

(* One registry call on the UI thread; it needs the mutex. *)
Perform(r) ==
  /\ ~locked
  /\ \/ r.op = "ensure" /\ EnsureTopLevelMenu(r.menu)
     \/ r.op = "add" /\ AddMenuAction(r)
     \/ r.op = "teardown" /\ TeardownAll

----------------------------------------------------------------------------
(* The UI thread and the others: callUi, the event loop, the triggered slot *)

(* The bound on objects, as a guard: the UI thread takes up calls only when *)
(* there are objects for all they may make.                                 *)
Room(calls) ==
  /\ Len(SelectSeq(calls, LAMBDA r : r.op # "teardown")) <= Cardinality(FreeMenus)
  /\ Len(SelectSeq(calls, LAMBDA r : r.op = "add")) <= Cardinality(FreeActions)

InEventLoop == ui = Idle

(* Another thread calls the registry: the call is queued. *)
CallFromThread(r) ==
  /\ Len(queue) < MaxQueue
  /\ queue' = Append(queue, r)
  /\ UNCHANGED <<window, bar, menu, action, record, ui, locked>>

(* The event loop runs the call queued first. *)
Dispatch ==
  /\ InEventLoop /\ queue # <<>> /\ Room(<<Head(queue)>>)
  /\ Perform(Head(queue))
  /\ queue' = Tail(queue)
  /\ UNCHANGED <<ui, locked>>

(* A caller on the UI thread (OBS loading or unloading FoxClip). *)
CallFromUi(r) == InEventLoop /\ Room(<<r>>) /\ Perform(r) /\ UNCHANGED uiVars

(* The callback the triggered slot of action a finds: none if the record of *)
(* its ids is gone.                                                         *)
Slot(a) ==
  LET id == action[a].id  key == action[a].key
  IN  IF id \in DOMAIN record /\ key \in DOMAIN record[id].actions
      THEN {record[id].actions[key].callback} ELSE {}

Clickable(a) == action[a].menu # NoMenu /\ action[a].menu \in OnBar /\ action[a].shown

WrongTrigger(a) ==               \* runs the callback inside the critical section
  /\ InEventLoop /\ Clickable(a)
  /\ \E c \in Slot(a) : Room(BodyOf[c]) /\ ui' = [act |-> a, todo |-> BodyOf[c]]
  /\ locked' = TRUE
  /\ UNCHANGED <<window, bar, menu, action, record, queue>>

(* The user triggers a: its callback is copied under the mutex and starts   *)
(* when the mutex is released.                                              *)
Trigger(a) ==
  /\ InEventLoop /\ Clickable(a)
  /\ \E c \in Slot(a) : Room(BodyOf[c]) /\ ui' = [act |-> a, todo |-> BodyOf[c]]
  /\ UNCHANGED <<window, bar, menu, action, record, queue, locked>>

(* The callback makes its next registry call, on the UI thread. *)
CallFromCallback ==
  /\ ui.todo # <<>>
  /\ Perform(Head(ui.todo))
  /\ ui' = [ui EXCEPT !.todo = Tail(@)]
  /\ UNCHANGED <<queue, locked>>

CallbackReturns ==
  /\ ui.act # NoAction /\ ui.todo = <<>>
  /\ ui' = Idle /\ locked' = FALSE
  /\ UNCHANGED <<window, bar, menu, action, record, queue>>

----------------------------------------------------------------------------
(* Qt, OBS and other modules; all in the event loop *)

WrongDestroyed(M, A) ==          \* raw pointers: nothing is nulled
  LET gone == A \cup {a \in Action : action[a].menu \in M}
  IN  /\ menu' = [m \in Menu |-> IF m \in M THEN FreeMenu ELSE menu[m]]
      /\ action' = [a \in Action |-> IF a \in gone THEN FreeAction ELSE action[a]]
      /\ UNCHANGED record

(* The menus in M and the actions in A are destroyed: a menu's actions go  *)
(* with it, and the guarded pointers to any of them become null.           *)
Destroyed(M, A) ==
  LET gone == A \cup {a \in Action : action[a].menu \in M}
      Guarded(arec) == [arec EXCEPT !.action = IF @ \in gone THEN NoAction ELSE @]
  IN  /\ menu' = [m \in Menu |-> IF m \in M THEN FreeMenu ELSE menu[m]]
      /\ action' = [a \in Action |-> IF a \in gone THEN FreeAction ELSE action[a]]
      /\ record' = [i \in DOMAIN record |->
           [menu |-> IF record[i].menu \in M THEN NoMenu ELSE record[i].menu,
            actions |-> [k \in DOMAIN record[i].actions |-> Guarded(record[i].actions[k])]]]

Vanish(m) ==
  /\ Destroyed({m}, {}) /\ bar' = Without(bar, {m})
  /\ UNCHANGED <<window, queue, ui, locked>>

(* Qt destroys a menu given to deleteLater. *)
DeferredDelete(m) == InEventLoop /\ menu[m].state = "doomed" /\ Vanish(m)

(* Somebody else destroys a menu or an action. *)
DestroyMenu(m) == InEventLoop /\ menu[m].state = "alive" /\ Vanish(m)

DestroyAction(a) ==
  /\ InEventLoop /\ action[a].menu # NoMenu
  /\ Destroyed({}, {a})
  /\ UNCHANGED <<window, bar, queue, ui, locked>>

(* The main window goes, with the bar and the bar's children. *)
DestroyWindow ==
  /\ InEventLoop /\ window /\ window' = FALSE
  /\ bar' = <<>>
  /\ Destroyed({m \in Menu : menu[m].parentIsBar}, {})
  /\ UNCHANGED uiVars

(* Somebody else puts a menu on the bar whose object name is an id. *)
ForeignMenu(id, onBar) ==
  /\ InEventLoop /\ window
  /\ \E m \in FreeMenus :
       /\ bar' = Append(bar, m)
       /\ menu' = [menu EXCEPT ![m] = [state |-> "alive", name |-> id,
                                       parentIsBar |-> onBar, ours |-> FALSE]]
  /\ UNCHANGED <<window, action, record, queue, ui, locked>>

Environment ==
  \/ \E m \in Menu : DestroyMenu(m)
  \/ \E a \in Action : DestroyAction(a)
  \/ DestroyWindow
  \/ \E id \in MenuId, onBar \in ForeignIsChild : ForeignMenu(id, onBar)

Next ==
  \/ \E r \in Request : CallFromThread(r) \/ CallFromUi(r)
  \/ Dispatch
  \/ \E a \in Action : Trigger(a)
  \/ CallFromCallback
  \/ CallbackReturns
  \/ \E m \in Menu : DeferredDelete(m)
  \/ Environment

Spec == Init /\ [][Next]_vars

----------------------------------------------------------------------------
(* Properties *)

(* A record says the truth about the objects it points to: its menu exists  *)
(* and is on the bar under the record's id, and each of its actions is a listed child *)
(* of that menu.  (lines 39-86, 145-181: the record, the bar and the        *)
(* destruction of objects change independently of each other.)              *)
RecordsAreFit ==
  \A i \in DOMAIN record :
    LET m == record[i].menu
    IN  /\ m # NoMenu =>
             menu[m].state # "free" /\ menu[m].name = i /\ (window => m \in OnBar)
        /\ \A a \in RecordedActions(i) : action[a].menu = m /\ action[a].shown

(* A click on any action the registry has put on the bar runs the callback  *)
(* registered last for its ids: there is no action left over from an        *)
(* earlier registration, or from before a teardown.  (lines 147-156,        *)
(* 163-178, 189-203)                                                        *)
ClicksReachTheirRecord ==
  \A a \in Action : Clickable(a) =>
    LET id == action[a].id  key == action[a].key
    IN  /\ id \in DOMAIN record /\ key \in DOMAIN record[id].actions
        /\ record[id].actions[key].action = a

(* Every menu the registry has made is either in its records or on its way  *)
(* to destruction, so that teardownAll destroys all of them ("reliably",    *)
(* plugin-main.cpp:148).                                                    *)
NothingLeaks ==
  \A m \in Menu : menu[m].state = "alive" /\ menu[m].ours => m \in RecordedMenus

(* A menu given to deleteLater leaves the bar at once, so that no later     *)
(* call adopts a dying menu -- unless it is a menu of somebody else's that  *)
(* is on the bar without being its child.  (lines 195-200)                  *)
DoomedAreOffBar ==
  \A m \in OnBar : menu[m].state = "doomed" => ~menu[m].ours /\ ~menu[m].parentIsBar

(* The action whose callback is running exists until the callback returns,  *)
(* even when the callback tears the registry down.  (line 200: deleteLater) *)
ActionOutlivesItsCallback ==
  ui.act # NoAction => action[ui.act].menu # NoMenu

(* What the user is offered: the ids of the items to be clicked and, for    *)
(* each, the callback a click runs.                                         *)
Offer == UNION {{<<action[a].id, action[a].key, c>> : c \in Slot(a)} :
                a \in {b \in Action : Clickable(b)}}

(* What a call promises, in terms of the offer alone.  *)
OfferAfter(r) ==
  CASE r.op = "ensure"   -> Offer
    [] r.op = "teardown" -> {}
    [] r.op = "add"      -> {o \in Offer : <<o[1], o[2]>> # <<r.menu, r.key>>}
                              \cup {<<r.menu, r.key, r.callback>>}

(* The step runs call r, which has waited in the queue or in a callback.    *)
Runs(r) ==
  \/ queue # <<>> /\ queue' = Tail(queue) /\ r = Head(queue)
  \/ ui.todo # <<>> /\ ui'.todo = Tail(ui.todo) /\ r = Head(ui.todo)

(* A call has its whole effect on what the user is offered, and no other,   *)
(* whatever was destroyed, adopted, registered or torn down while it waited *)
(* its turn: the item added is there and runs the callback given last, the  *)
(* other items run what they ran before, teardownAll leaves none.           *)
(* (lines 39-86, 145-181, 187-203)                                          *)
CallsHaveTheirEffect ==
  [][\A r \in Request : window /\ Runs(r) => Offer' = OfferAfter(r)]_vars

(* A callback is never stuck in the registry: each of its calls finds the   *)
(* mutex free, and so it returns after as many steps as it makes calls.     *)
(* (lines 162-178)                                                          *)
CallbacksReturn ==
  ui.act # NoAction => ENABLED (CallFromCallback \/ CallbackReturns)

============================================================================
