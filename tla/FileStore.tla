----------------------------- MODULE FileStore -----------------------------
(***************************************************************************)
(* FileStore: text files under the configuration root, written and read by *)
(* callers that share no lock.                                             *)
(*                                                                         *)
(* A call resolves its path (PathResolver), and a write then makes the     *)
(* directory, opens the file, which empties it, and hands the text over in *)
(* pieces, each of which may fail; a reader takes the pieces one by one.   *)
(* Between any two steps other callers move, somebody else removes a file  *)
(* that nobody has open or an empty directory, or the process dies and is  *)
(* started again.  exists() only looks and is not an action; reserving the *)
(* reader's memory by the file's size changes nothing either.              *)
(***************************************************************************)
EXTENDS PathResolver, FiniteSets

CONSTANTS
  Caller,     (* the threads that use the store                              *)
  Home,       (* the platforms and root directories to look at:              *)
              (* [windows, base], base empty when OBS has none               *)
  Relative,   (* the relative paths callers pass                             *)
  Text,       (* the texts they write, as sequences of pieces                *)
  Hole        (* what a file holds where nothing was written                 *)

Piece == UNION {ToSet(t) : t \in Text}

ASSUME HomeAssumption ==
  \A h \in Home : h.windows \in BOOLEAN /\ (h.base = EmptyPath \/ IsRoot(h.windows, h.base))
ASSUME TextAssumption == Text \subseteq Seq(Piece)

VARIABLES
  home,    (* the platform and the root directory                            *)
  dirs,    (* the directories that exist                                     *)
  files,   (* the files that exist, with their contents                      *)
  mixed,   (* the files two writers have had open at a time since they were  *)
           (* last opened by one alone                                       *)
  call     (* call[c]: what caller c is doing                                *)

vars == <<home, dirs, files, mixed, call>>

(* A call under way has a point it is at, its operation and its path; with  *)
(* the file open also the text to write, or what the reader's output holds  *)
(* (got), how many pieces are done, and whether no writer has been at the   *)
(* file while the reader has had it open (calm).                            *)
Ended(answer) == [at |-> "idle", answer |-> answer]
Ready == Ended("none")

Init ==
  /\ home \in Home
  /\ dirs = {} /\ files = <<>> /\ mixed = {}
  /\ call = [c \in Caller |-> Ready]

At(c, point) == call[c].at = point
Set(c, r) == call' = [call EXCEPT ![c] = r]
Goto(c, point) == call' = [call EXCEPT ![c].at = point]
Return(c, answer) == Set(c, Ended(answer))

(* The place a call's path names; a path that ends in a separator names a   *)
(* directory only.                                                          *)
Target(c) == Place(call[c].path)
NamesFile(c) == Target(c) = call[c].path

HasOpen(c, p) == call[c].at \in {"put", "close", "get", "broken"} /\ Target(c) = p
Writing(c, p) == HasOpen(c, p) /\ call[c].op = "write"

(* The call's record once the file is open. *)
Opened(c, text, got, calm) ==
  [at |-> IF call[c].op = "write" THEN "put" ELSE "get", op |-> call[c].op,
   path |-> call[c].path, text |-> text, got |-> got, pos |-> 0, calm |-> calm]

----------------------------------------------------------------------------
(* resolvePath *)

Call(c, op, relative) ==
  /\ At(c, "idle") /\ relative \in PathOn(home.windows)
  /\ Set(c, [at |-> "resolve", op |-> op, path |-> relative])
  /\ UNCHANGED <<home, dirs, files, mixed>>

Full(c) == ToFull(home.windows, home.base, call[c].path)

ResolvePath(c) ==
  /\ At(c, "resolve")
  /\ IF Full(c) = NoPath THEN Return(c, "no")
     ELSE Set(c, [call[c] EXCEPT !.path = Full(c),
                                 !.at = IF call[c].op = "read" THEN "open" ELSE "mkdir"])
  /\ UNCHANGED <<home, dirs, files, mixed>>

----------------------------------------------------------------------------
(* createDirs *)

(* The directory itself, or its parent for a file to be written. *)
Directory(c) ==
  IF call[c].op = "write"
  THEN [call[c].path EXCEPT !.names = Front(@)] ELSE Target(c)

Upto(p, n) == [p EXCEPT !.names = SubSeq(@, 1, n)]

(* Directories are made from the top down, up to the n-th name; a file in   *)
(* the way, or the system, may stop it.                                     *)
CreateDirs(c) ==
  LET d == Directory(c) IN
  /\ At(c, "mkdir")
  /\ \E n \in 0 .. Len(d.names) :
       /\ \A i \in 1 .. n : Upto(d, i) \notin DOMAIN files
       /\ dirs' = dirs \cup {Upto(d, i) : i \in 1 .. n}
       /\ IF n < Len(d.names) THEN Return(c, "no")
          ELSE IF call[c].op = "mkdir" THEN Return(c, "yes") ELSE Goto(c, "open")
  /\ UNCHANGED <<home, files, mixed>>

----------------------------------------------------------------------------
(* writeText *)

Put(f, k, v) == [x \in DOMAIN f \cup {k} |-> IF x = k THEN v ELSE f[x]]

WrongEmptied(p) == IF p \in DOMAIN files THEN files[p] ELSE <<>>   \* no trunc
Emptied(p) == <<>>

(* The file is made if need be, and emptied.  (Which text the caller has    *)
(* passed matters only from here on.)                                       *)
OpenToWrite(c) ==
  LET p == Target(c)
      disturbed == {d \in Caller : HasOpen(d, p)}
  IN  /\ At(c, "open") /\ call[c].op = "write"
      /\ NamesFile(c) /\ p \notin dirs
      /\ Upto(p, Len(p.names) - 1) \in dirs \/ Len(p.names) = 1
      /\ files' = Put(files, p, Emptied(p))
      /\ mixed' = IF \E d \in disturbed : Writing(d, p) THEN mixed \cup {p} ELSE mixed \ {p}
      /\ \E text \in Text :
           call' = [d \in Caller |->
             CASE d = c           -> Opened(c, text, <<>>, TRUE)
               [] d \in disturbed -> [call[d] EXCEPT !.calm = FALSE]
               [] OTHER           -> call[d]]
      /\ UNCHANGED <<home, dirs>>

(* No rights, no such directory, a directory in its place. *)
OpenFails(c) ==
  /\ At(c, "open") /\ Return(c, "no")
  /\ UNCHANGED <<home, dirs, files, mixed>>

(* Writing at a position of one's own: beyond the end of a file that has    *)
(* been emptied meanwhile, it leaves a hole.                                *)
Written(old, pos, piece) ==
  [i \in 1 .. IF Len(old) > pos THEN Len(old) ELSE pos |->
     CASE i = pos -> piece [] i # pos /\ i <= Len(old) -> old[i] [] OTHER -> Hole]

(* The next piece of the text reaches the file, from write, from flush or,  *)
(* after a failure, from the stream's destructor.                           *)
PutPiece(c) ==
  LET pos == call[c].pos + 1 IN
  /\ call[c].at \in {"put", "close"} /\ pos <= Len(call[c].text)
  /\ files' = [files EXCEPT ![Target(c)] = Written(@, pos, call[c].text[pos])]
  /\ call' = [call EXCEPT ![c].pos = pos]
  /\ UNCHANGED <<home, dirs, mixed>>

WrongPutFails(c) ==                  \* does not look at the stream's state
  /\ At(c, "put") /\ call[c].pos < Len(call[c].text)
  /\ Set(c, [call[c] EXCEPT !.pos = @ + 1])
  /\ UNCHANGED <<home, dirs, files, mixed>>

PutFails(c) ==
  /\ At(c, "put") /\ call[c].pos < Len(call[c].text)
  /\ Goto(c, "close")
  /\ UNCHANGED <<home, dirs, files, mixed>>

(* Everything is handed over, or writing has failed; the stream is closed.  *)
WriteReturns(c) ==
  /\ \/ At(c, "put") /\ call[c].pos = Len(call[c].text) /\ Return(c, "yes")
     \/ At(c, "close") /\ Return(c, "no")
  /\ UNCHANGED <<home, dirs, files, mixed>>

----------------------------------------------------------------------------
(* readText *)

WrongAssigned(old) == old      \* appends
Assigned(old) == <<>>

(* A directory can be opened too; reading it fails.  The caller's output    *)
(* may hold anything before.                                                *)
OpenToRead(c) ==
  /\ At(c, "open") /\ call[c].op = "read"
  /\ Target(c) \in dirs \/ (NamesFile(c) /\ Target(c) \in DOMAIN files)
  /\ \E old \in {<<>>, <<Hole>>} :
       Set(c, Opened(c, <<>>, Assigned(old), ~\E d \in Caller : Writing(d, Target(c))))
  /\ UNCHANGED <<home, dirs, files, mixed>>

IsFile(c) == Target(c) \in DOMAIN files
Size(c) == Len(files[Target(c)])

GetPiece(c) ==
  /\ At(c, "get") /\ IsFile(c) /\ call[c].pos < Size(c)
  /\ Set(c, [call[c] EXCEPT !.pos = @ + 1, !.got = Append(@, files[Target(c)][call[c].pos + 1])])
  /\ UNCHANGED <<home, dirs, files, mixed>>

AtEnd(c) == IsFile(c) /\ call[c].pos >= Size(c)

ReadReturns(c) ==
  /\ At(c, "get") /\ AtEnd(c) /\ Return(c, "yes")
  /\ UNCHANGED <<home, dirs, files, mixed>>

(* An istreambuf_iterator leaves the stream's state alone: what becomes of  *)
(* a failed read is up to the library.  GNU's throws, others see the end of *)
(* the file, and readText finds the stream good.                            *)
GetFails(c) ==
  /\ At(c, "get")
  /\ Goto(c, "broken")
  /\ UNCHANGED <<home, dirs, files, mixed>>

BreakOff(c) ==
  /\ At(c, "broken") /\ \E answer \in {"yes", "thrown"} : Return(c, answer)
  /\ UNCHANGED <<home, dirs, files, mixed>>

----------------------------------------------------------------------------
(* Everybody else *)

Below(p, d) == p # d /\ IsPrefix(d.names, p.names)

RemoveFile(p) ==
  /\ \A c \in Caller : ~HasOpen(c, p)
  /\ files' = Restrict(files, DOMAIN files \ {p})
  /\ mixed' = mixed \ {p}
  /\ UNCHANGED <<home, dirs, call>>

RemoveDirectory(d) ==
  /\ \A c \in Caller : ~HasOpen(c, d)
  /\ \A p \in dirs \cup DOMAIN files : ~Below(p, d)
  /\ dirs' = dirs \ {d}
  /\ UNCHANGED <<home, files, mixed, call>>

Crash ==
  /\ call' = [c \in Caller |-> Ready]
  /\ UNCHANGED <<home, dirs, files, mixed>>

----------------------------------------------------------------------------

Step(c) ==
  \/ ResolvePath(c) \/ CreateDirs(c)
  \/ OpenToWrite(c) \/ OpenFails(c) \/ PutPiece(c) \/ PutFails(c) \/ WriteReturns(c)
  \/ OpenToRead(c) \/ GetPiece(c) \/ ReadReturns(c) \/ GetFails(c) \/ BreakOff(c)

Next ==
  \/ \E c \in Caller : Step(c)
  \/ \E c \in Caller, op \in {"write", "read", "mkdir"}, relative \in Relative :
       Call(c, op, relative)
  \/ \E p \in DOMAIN files : RemoveFile(p)
  \/ \E d \in dirs : RemoveDirectory(d)
  \/ Crash

Spec == Init /\ [][Next]_vars

(* A caller goes on with its call. *)
FairSpec == Spec /\ \A c \in Caller : WF_vars(Step(c))

----------------------------------------------------------------------------
(* Properties *)

Answers(c, answer) == call[c].at # "idle" /\ call'[c] = Ended(answer)

(* Nothing is ever looked up, made or written outside the root: not by a    *)
(* rooted path or one with a drive of its own, which the first tests let    *)
(* through on Windows, nor in a directory whose name only begins like the   *)
(* root's.  (PathResolver.cpp:27-71, 78-116)                                *)
StaysWithinRoot ==
  /\ \A p \in DOMAIN files : Within(home.base, p)
  /\ \A d \in dirs : Within(home.base, d) \/ LeadsTo(d, home.base)
  /\ \A c \in Caller : call[c].at \notin {"idle", "resolve"} => Within(home.base, Target(c))

(* And nothing else is refused: a path that leads down from a known root is *)
(* resolved, however it and the root are written.                           *)
(* (PathResolver.cpp:40-44, 73-116)                                         *)
DescendingIsResolved ==
  [][\A c \in Caller :
       call[c].at = "resolve" /\ Answers(c, "no") =>
         home.base = EmptyPath \/ ~Descends(call[c].path)]_vars

(* When writeText says yes the file holds the text, unless another writer   *)
(* had it open at the same time.  (FileStore.cpp:49-70)                     *)
YesMeansWritten ==
  [][\A c \in Caller :
       call[c].at = "put" /\ Answers(c, "yes") /\ Target(c) \notin mixed =>
         files[Target(c)] = call[c].text]_vars

(* Whatever fails, and wherever the process dies: a file that one writer at *)
(* a time has had holds the beginning of one text, and never the end of an  *)
(* older one behind it.  (FileStore.cpp:49, 57-69)                          *)
NoOldInNew ==
  \A p \in DOMAIN files \ mixed : \E t \in Text : IsPrefix(files[p], t)

(* When readText says yes, and neither a writer nor a failing disk has come *)
(* in between, the output is the file's content and nothing else.           *)
(* (FileStore.cpp:83-107)                                                   *)
YesMeansRead ==
  [][\A c \in Caller :
       call[c].at = "get" /\ Answers(c, "yes") /\ call[c].calm =>
         call[c].got = files[Target(c)]]_vars

(* FileStore.cpp:100: a failure to read sets the error code.  A call whose  *)
(* read has failed answers no.                                              *)
ReadErrorIsReported ==
  [][\A c \in Caller : ~(call[c].at = "broken" /\ Answers(c, "yes"))]_vars

============================================================================
