------------------------------- MODULE LogApi -------------------------------
(***************************************************************************)
(* FoxclipLogApi: the log functions plugins call, through the host's table *)
(* (HostApiV1) or, linked with the module, directly.                       *)
(*                                                                         *)
(* One minimum level, a plain static, serves all plugins: any of them sets *)
(* it while others are in the middle of a call.  (Reads and writes of one  *)
(* word are taken as atomic, as they are on the platforms at hand.)  What  *)
(* a line says, and the OBS level it is given, is left out.                *)
(***************************************************************************)
EXTENDS Naturals

CONSTANTS
  Caller,   (* the plugins                                                   *)
  Level     (* FoxclipLogLevel: numbers, the least important first           *)

VARIABLES
  minLevel,   (* the level below which lines are dropped                     *)
  logCall     (* logCall[c]: the log call c is in the middle of              *)

logVars == <<minLevel, logCall>>

(* seen: the minimum levels there have been since the call began. *)
None == [at |-> "none"]
InCall == [at : {"log", "logVa", "format", "write"}, level : Level, seen : SUBSET Level]

LogTypeOK == minLevel \in Level /\ logCall \in [Caller -> InCall \cup {None}]

(* By default some level in the middle. *)
LogInit == minLevel \in Level /\ logCall = [c \in Caller |-> None]

Busy(c) == logCall[c] # None
Goto(c, point) == logCall' = [logCall EXCEPT ![c].at = point]
Return(c) == logCall' = [logCall EXCEPT ![c] = None]

----------------------------------------------------------------------------

SetMinLevel(level) ==
  /\ minLevel' = level
  /\ logCall' = [c \in Caller |-> IF Busy(c) THEN [logCall[c] EXCEPT !.seen = @ \cup {level}]
                                             ELSE logCall[c]]

(* Linked directly, foxclipLog looks at the level before it calls           *)
(* foxclipLogVa, which looks again; the table leads to foxclipLogVa alone.  *)
Log(c, level, entry) ==
  /\ ~Busy(c)
  /\ logCall' = [logCall EXCEPT ![c] = [at |-> entry, level |-> level, seen |-> {minLevel}]]
  /\ UNCHANGED minLevel

WrongLetThrough(c) == logCall[c].level > minLevel      \* and not the level itself
LetThrough(c) == logCall[c].level >= minLevel

CheckFirst(c) ==
  /\ logCall[c].at = "log"
  /\ IF LetThrough(c) THEN Goto(c, "logVa") ELSE Return(c)
  /\ UNCHANGED minLevel

Check(c) ==
  /\ logCall[c].at = "logVa"
  /\ IF LetThrough(c) THEN Goto(c, "format") ELSE Return(c)
  /\ UNCHANGED minLevel

(* A bad format, or no memory, and the line is lost. *)
Format(c) ==
  /\ logCall[c].at = "format"
  /\ Goto(c, "write") \/ Return(c)
  /\ UNCHANGED minLevel

(* obs_log *)
Write(c) ==
  /\ logCall[c].at = "write" /\ Return(c)
  /\ UNCHANGED minLevel

LogStep(c) == CheckFirst(c) \/ Check(c) \/ Format(c) \/ Write(c)

LogNext ==
  \/ \E level \in Level : SetMinLevel(level)
  \/ \E c \in Caller, level \in Level, entry \in {"log", "logVa"} : Log(c, level, entry)
  \/ \E c \in Caller : LogStep(c)

LogSpec == LogInit /\ [][LogNext]_logVars

----------------------------------------------------------------------------
(* Properties *)

Drops(c)  == logCall[c].at \in {"log", "logVa"} /\ ~Busy(c)'
Writes(c) == logCall[c].at = "write" /\ ~Busy(c)'

(* Although the level may change between the two looks, and again before    *)
(* the line is written: every line written was called for by a level in     *)
(* force during its call, and every line the filter drops was refused by    *)
(* one.  (FoxclipLogApi.c:40-49, 95-104)                                    *)
FilterIsFair ==
  [][\A c \in Caller :
       /\ Writes(c) => \E m \in logCall[c].seen : logCall[c].level >= m
       /\ Drops(c) => \E m \in logCall[c].seen : logCall[c].level < m]_logVars

============================================================================
