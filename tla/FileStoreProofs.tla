-------------------------- MODULE FileStoreProofs --------------------------
(***************************************************************************)
(* What the file store promises, for any callers, roots, paths and texts.  *)
(*                                                                         *)
(* First, of a file's contents: there the proofs only need that a call     *)
(* keeps its path while it has the file open, whatever the path is.  Then, *)
(* of where the paths lead: lexically_normal, the texts of paths and the   *)
(* test isPathTraversalSafe makes on them, and with these that a resolved  *)
(* path is the root or below it.                                           *)
(***************************************************************************)
EXTENDS FileStore, WellFoundedInduction, TLAPS

Writer(c) == call[c].at \in {"put", "close"}
Reader(c) == call[c].at \in {"get", "broken"}

Cell == Piece \cup {Hole}

(* A record as Call and ResolvePath leave it, and one as Opened makes it.   *)
Short(r) == r = [at |-> r.at, op |-> r.op, path |-> r.path]
Long(r) == r = [at |-> r.at, op |-> r.op, path |-> r.path, text |-> r.text,
                got |-> r.got, pos |-> r.pos, calm |-> r.calm]

IdleCall == [at : {"idle"}, answer : {"none", "yes", "no", "thrown"}]

Waiting(r) ==
  \/ r \in IdleCall
  \/ r.at = "resolve" /\ r.op \in {"write", "read", "mkdir"} /\ Short(r)
  \/ r.at = "mkdir" /\ r.op \in {"write", "mkdir"} /\ Short(r)
  \/ r.at = "open" /\ r.op \in {"write", "read"} /\ Short(r)

WriteUnderWay(r) ==
  /\ r.at \in {"put", "close"} /\ r.op = "write" /\ Long(r)
  /\ r.text \in Text /\ r.pos \in 0 .. Len(r.text)

ReadUnderWay(r) ==
  /\ r.at \in {"get", "broken"} /\ r.op = "read" /\ Long(r)
  /\ r.pos \in Nat /\ r.calm \in BOOLEAN

CallTypes ==
  /\ call = [c \in Caller |-> call[c]]
  /\ \A c \in Caller : Waiting(call[c]) \/ WriteUnderWay(call[c]) \/ ReadUnderWay(call[c])

FileTypes ==
  /\ files = [p \in DOMAIN files |-> files[p]]
  /\ \A p \in DOMAIN files : files[p] \in Seq(Cell)

(* A file that is being written is not removed. *)
WritersHaveAFile == \A c \in Caller : Writer(c) => Target(c) \in DOMAIN files

(* Two writers at one file are noticed. *)
OneWriter ==
  \A c, d \in Caller :
    c # d /\ Writer(c) /\ Writer(d) /\ Target(c) = Target(d) => Target(c) \in mixed

(* One writer alone has put what it has handed over, and nothing else. *)
SoFarWritten ==
  \A c \in Caller : Writer(c) /\ Target(c) \notin mixed =>
    files[Target(c)] = SubSeq(call[c].text, 1, call[c].pos)

(* A writer at the file ends every reader's calm. *)
CalmHasNoWriter ==
  \A c, d \in Caller : Reader(c) /\ call[c].calm /\ Writer(d) => Target(c) # Target(d)

(* A calm reader has the beginning of the file. *)
SoFarRead ==
  \A c \in Caller : Reader(c) /\ call[c].calm /\ Target(c) \in DOMAIN files =>
    /\ call[c].pos <= Len(files[Target(c)])
    /\ call[c].got = SubSeq(files[Target(c)], 1, call[c].pos)

StoreInv ==
  /\ CallTypes /\ FileTypes
  /\ WritersHaveAFile /\ OneWriter /\ SoFarWritten /\ NoOldInNew
  /\ CalmHasNoWriter /\ SoFarRead

----------------------------------------------------------------------------
(* Sequences *)

LEMMA TextsAreSequences ==
  ASSUME NEW t \in Text
  PROVE  t \in Seq(Piece) /\ t \in Seq(Cell) /\ Len(t) \in Nat
<1>1. t \in Seq(Piece) BY TextAssumption
<1> QED BY <1>1 DEF Cell

LEMMA BeginningIsPrefix ==
  ASSUME NEW S, NEW t \in Seq(S), NEW n \in 0 .. Len(t)
  PROVE  IsPrefix(SubSeq(t, 1, n), t)
<1>1. /\ SubSeq(t, 1, n) \in Seq(S) /\ Len(SubSeq(t, 1, n)) = n
      /\ \A i \in 1 .. n : SubSeq(t, 1, n)[i] = t[i]
  OBVIOUS
<1> DEFINE s == SubSeq(t, 1, n)
<1>2. SubSeq(s, 1, n) = s BY <1>1
<1> QED BY <1>1, <1>2 DEF IsPrefix

LEMMA WholeSequence ==
  ASSUME NEW S, NEW t \in Seq(S)
  PROVE  SubSeq(t, 1, Len(t)) = t
OBVIOUS

LEMMA OneMore ==
  ASSUME NEW S, NEW t \in Seq(S), NEW n \in Nat, n < Len(t)
  PROVE  Append(SubSeq(t, 1, n), t[n + 1]) = SubSeq(t, 1, n + 1)
OBVIOUS

(* Writing on at the end of what has been written. *)
LEMMA WrittenAtTheEnd ==
  ASSUME NEW S, NEW t \in Seq(S), NEW n \in Nat, n < Len(t)
  PROVE  Written(SubSeq(t, 1, n), n + 1, t[n + 1]) = SubSeq(t, 1, n + 1)
<1> DEFINE s == SubSeq(t, 1, n)
           w == Written(s, n + 1, t[n + 1])
           u == SubSeq(t, 1, n + 1)
<1>1. Len(s) = n /\ \A i \in 1 .. n : s[i] = t[i] OBVIOUS
<1>2. u = [i \in 1 .. n + 1 |-> t[i]] OBVIOUS
<1>3. w = [i \in 1 .. IF Len(s) > n + 1 THEN Len(s) ELSE n + 1 |->
             CASE i = n + 1 -> t[n + 1]
               [] i # n + 1 /\ i <= Len(s) -> s[i]
               [] OTHER -> Hole]
  BY DEF Written
<1> HIDE DEF s, w, u
<1>4. (IF Len(s) > n + 1 THEN Len(s) ELSE n + 1) = n + 1 BY <1>1
<1>5. \A i \in 1 .. n + 1 : i # n + 1 => i \in 1 .. n OBVIOUS
<1>6. w = u BY <1>1, <1>2, <1>3, <1>4, <1>5
<1> QED BY <1>6 DEF s, w, u

LEMMA WrittenIsASequence ==
  ASSUME NEW s \in Seq(Cell), NEW n \in Nat \ {0}, NEW e \in Cell
  PROVE  Written(s, n, e) \in Seq(Cell)
<1> DEFINE m == IF Len(s) > n THEN Len(s) ELSE n
           w == Written(s, n, e)
<1>1. m \in Nat OBVIOUS
<1>2. w = [i \in 1 .. m |->
             CASE i = n -> e [] i # n /\ i <= Len(s) -> s[i] [] OTHER -> Hole]
  BY DEF Written
<1>3. \A i \in 1 .. m : i # n /\ i <= Len(s) => s[i] \in Cell OBVIOUS
<1>4. Hole \in Cell BY DEF Cell
<1> HIDE DEF m
<1>5. w \in [1 .. m -> Cell] BY <1>2, <1>3, <1>4
<1> QED BY <1>1, <1>5

----------------------------------------------------------------------------
(* Calls *)

LEMMA OpenIsOneOfTwo ==
  ASSUME NEW c, NEW p
  PROVE  /\ HasOpen(c, p) <=> (Writer(c) \/ Reader(c)) /\ Target(c) = p
         /\ ~(Writer(c) /\ Reader(c))
BY DEF HasOpen, Writer, Reader

LEMMA WritersWrite ==
  ASSUME CallTypes, NEW c \in Caller
  PROVE  /\ Writer(c) => WriteUnderWay(call[c])
         /\ Reader(c) => ReadUnderWay(call[c])
         /\ Waiting(call[c]) => ~Writer(c) /\ ~Reader(c)
         /\ \A p : Writing(c, p) <=> Writer(c) /\ Target(c) = p
BY DEF CallTypes, Waiting, IdleCall, WriteUnderWay, ReadUnderWay, Writer, Reader, HasOpen,
       Writing

(* One call's record replaced. *)
LEMMA OneChanges ==
  ASSUME CallTypes, NEW c \in Caller, NEW r, call' = [call EXCEPT ![c] = r],
         Waiting(r) \/ WriteUnderWay(r) \/ ReadUnderWay(r)
  PROVE  CallTypes' /\ call'[c] = r /\ \A d \in Caller \ {c} : call'[d] = call[d]
BY DEF CallTypes

LEMMA SameCallSameView ==
  ASSUME NEW d, call'[d] = call[d]
  PROVE  /\ Target(d)' = Target(d)
         /\ Writer(d)' <=> Writer(d)
         /\ Reader(d)' <=> Reader(d)
BY DEF Target, Writer, Reader

(* A step that leaves the files alone and after which its caller has no     *)
(* file open.                                                               *)
LEMMA LettingGoKeeps ==
  ASSUME StoreInv, NEW c \in Caller, UNCHANGED <<files, mixed>>,
         \E r : Waiting(r) /\ call' = [call EXCEPT ![c] = r]
  PROVE  StoreInv'
<1>1. PICK r : Waiting(r) /\ call' = [call EXCEPT ![c] = r] OBVIOUS
<1>2. CallTypes' /\ call'[c] = r /\ \A d \in Caller \ {c} : call'[d] = call[d]
  BY <1>1, OneChanges DEF StoreInv
<1>3. ~Writer(c)' /\ ~Reader(c)' BY <1>1, <1>2 DEF Waiting, IdleCall, Writer, Reader
<1>4. \A d \in Caller : Writer(d)' \/ Reader(d)' =>
        /\ d # c /\ call'[d] = call[d] /\ Target(d)' = Target(d)
        /\ (Writer(d)' <=> Writer(d)) /\ (Reader(d)' <=> Reader(d))
  BY <1>2, <1>3, SameCallSameView
<1>5. FileTypes' /\ NoOldInNew' BY DEF StoreInv, FileTypes, NoOldInNew
<1>6. WritersHaveAFile' /\ OneWriter' /\ SoFarWritten'
  BY <1>4 DEF StoreInv, WritersHaveAFile, OneWriter, SoFarWritten
<1>7. CalmHasNoWriter' /\ SoFarRead' BY <1>4 DEF StoreInv, CalmHasNoWriter, SoFarRead
<1> QED BY <1>2, <1>5, <1>6, <1>7 DEF StoreInv

(* Steps that begin, go on with or end a call that has no file open. *)
LEMMA ReturnKeeps ==
  ASSUME StoreInv, NEW c \in Caller, NEW answer \in {"none", "yes", "no", "thrown"},
         Return(c, answer), UNCHANGED <<files, mixed>>
  PROVE  StoreInv'
<1> DEFINE r == Ended(answer)
<1>1. Waiting(r) BY DEF Waiting, IdleCall, Ended
<1>2. call' = [call EXCEPT ![c] = r] BY DEF Return, Set
<1> HIDE DEF r
<1> QED BY <1>1, <1>2, LettingGoKeeps

LEMMA CallKeeps ==
  ASSUME StoreInv, NEW c \in Caller, NEW op \in {"write", "read", "mkdir"}, NEW relative,
         Call(c, op, relative)
  PROVE  StoreInv'
<1> DEFINE r == [at |-> "resolve", op |-> op, path |-> relative]
<1>1. Waiting(r) BY DEF Waiting, Short
<1>2. call' = [call EXCEPT ![c] = r] /\ UNCHANGED <<files, mixed>> BY DEF Call, Set
<1> HIDE DEF r
<1> QED BY <1>1, <1>2, LettingGoKeeps

LEMMA ResolvePathKeeps ==
  ASSUME StoreInv, NEW c \in Caller, ResolvePath(c)
  PROVE  StoreInv'
<1>1. CASE Full(c) = NoPath
  <2>1. Return(c, "no") /\ UNCHANGED <<files, mixed>> BY <1>1 DEF ResolvePath
  <2> QED BY <2>1, ReturnKeeps
<1>2. CASE Full(c) # NoPath
  <2>1. PICK r : r = [call[c] EXCEPT !.path = Full(c),
                        !.at = IF call[c].op = "read" THEN "open" ELSE "mkdir"]
    OBVIOUS
  <2>2. call' = [call EXCEPT ![c] = r] /\ UNCHANGED <<files, mixed>>
    BY <1>2, <2>1 DEF ResolvePath, Set
  <2>3. call[c].op \in {"write", "read", "mkdir"} /\ Short(call[c])
    BY DEF StoreInv, CallTypes, Waiting, IdleCall, WriteUnderWay, ReadUnderWay, ResolvePath, At
  <2>4. r = [at |-> IF call[c].op = "read" THEN "open" ELSE "mkdir", op |-> call[c].op,
             path |-> Full(c)]
    BY <2>1, <2>3 DEF Short
  <2>5. Waiting(r) BY <2>3, <2>4 DEF Waiting, Short
  <2> QED BY <2>2, <2>5, LettingGoKeeps
<1> QED BY <1>1, <1>2

LEMMA CreateDirsKeeps ==
  ASSUME StoreInv, NEW c \in Caller, CreateDirs(c)
  PROVE  StoreInv'
<1>1. UNCHANGED <<files, mixed>>
      /\ (Return(c, "no") \/ Return(c, "yes") \/ (call[c].op # "mkdir" /\ Goto(c, "open")))
  BY DEF CreateDirs
<1>2. CASE Return(c, "no") \/ Return(c, "yes") BY <1>1, <1>2, ReturnKeeps
<1>3. CASE call[c].op # "mkdir" /\ Goto(c, "open")
  <2>1. call[c].op = "write" /\ Short(call[c])
    BY <1>3 DEF StoreInv, CallTypes, Waiting, IdleCall, WriteUnderWay, ReadUnderWay,
                CreateDirs, At
  <2>2. PICK r : r = [call[c] EXCEPT !.at = "open"] OBVIOUS
  <2>3. r = [at |-> "open", op |-> call[c].op, path |-> call[c].path]
    BY <2>1, <2>2 DEF Short
  <2>4. Waiting(r) BY <2>1, <2>3 DEF Waiting, Short
  <2>5. call' = [call EXCEPT ![c] = r] BY <1>3, <2>2 DEF Goto
  <2> QED BY <1>1, <2>4, <2>5, LettingGoKeeps
<1> QED BY <1>1, <1>2, <1>3

LEMMA ReturnsKeep ==
  ASSUME StoreInv, NEW c \in Caller,
         OpenFails(c) \/ WriteReturns(c) \/ ReadReturns(c) \/ BreakOff(c)
  PROVE  StoreInv'
<1>1. UNCHANGED <<files, mixed>> BY DEF OpenFails, WriteReturns, ReadReturns, BreakOff
<1>2. \E answer \in {"none", "yes", "no", "thrown"} : Return(c, answer)
  BY DEF OpenFails, WriteReturns, ReadReturns, BreakOff
<1> QED BY <1>1, <1>2, ReturnKeeps

LEMMA CrashKeeps ==
  ASSUME StoreInv, Crash
  PROVE  StoreInv'
<1>1. call' = [c \in Caller |-> Ready] /\ UNCHANGED <<files, mixed>> BY DEF Crash
<1>2. Waiting(Ready) BY DEF Waiting, IdleCall, Ready, Ended
<1>3. \A c \in Caller : call'[c] = Ready BY <1>1
<1>4. CallTypes'
  <2>1. call' = [c \in Caller |-> call'[c]] BY <1>1
  <2> QED BY <2>1, <1>2, <1>3 DEF CallTypes
<1>5. \A c \in Caller : ~Writer(c)' /\ ~Reader(c)'
  BY <1>3 DEF Writer, Reader, Ready, Ended
<1>6. FileTypes' /\ NoOldInNew' BY <1>1 DEF StoreInv, FileTypes, NoOldInNew
<1>7. WritersHaveAFile' /\ OneWriter' /\ SoFarWritten' /\ CalmHasNoWriter' /\ SoFarRead'
  BY <1>5 DEF WritersHaveAFile, OneWriter, SoFarWritten, CalmHasNoWriter, SoFarRead
<1> QED BY <1>4, <1>6, <1>7 DEF StoreInv

(* Nobody has the file open: what is said of open files is said of others.  *)
LEMMA RemoveFileKeeps ==
  ASSUME StoreInv, NEW p \in DOMAIN files, RemoveFile(p)
  PROVE  StoreInv'
<1>1. call' = call /\ mixed' = mixed \ {p}
      /\ files' = [q \in DOMAIN files \ {p} |-> files[q]]
  BY DEF RemoveFile, Restrict
<1>2. DOMAIN files' = DOMAIN files \ {p} /\ \A q \in DOMAIN files' : files'[q] = files[q]
  BY <1>1
<1>3. \A c \in Caller : Writer(c) \/ Reader(c) => Target(c) # p
  BY OpenIsOneOfTwo DEF RemoveFile
<1>4. \A c \in Caller : /\ Target(c)' = Target(c)
                        /\ Writer(c)' = Writer(c) /\ Reader(c)' = Reader(c)
  BY <1>1 DEF Target, Writer, Reader
<1>5. CallTypes' BY <1>1 DEF StoreInv, CallTypes
<1>6. FileTypes' BY <1>1, <1>2 DEF StoreInv, FileTypes
<1>7. WritersHaveAFile' /\ OneWriter' /\ CalmHasNoWriter'
  BY <1>1, <1>2, <1>3, <1>4 DEF StoreInv, WritersHaveAFile, OneWriter, CalmHasNoWriter
<1>8. SoFarWritten'
  <2> SUFFICES ASSUME NEW c \in Caller, Writer(c), Target(c) # p, Target(c) \notin mixed
               PROVE  files'[Target(c)] = SubSeq(call[c].text, 1, call[c].pos)
    BY <1>1, <1>3, <1>4 DEF SoFarWritten
  <2>1. Target(c) \in DOMAIN files' BY <1>2 DEF StoreInv, WritersHaveAFile
  <2> QED BY <1>2, <2>1 DEF StoreInv, SoFarWritten
<1>9. SoFarRead' BY <1>1, <1>2, <1>4 DEF StoreInv, SoFarRead
<1>10. NoOldInNew' BY <1>1, <1>2 DEF StoreInv, NoOldInNew
<1> QED BY <1>5, <1>6, <1>7, <1>8, <1>9, <1>10 DEF StoreInv

----------------------------------------------------------------------------
(* Steps of a call with a file open *)

(* A writer that goes from put to close stays the writer it was. *)
LEMMA PutFailsKeeps ==
  ASSUME StoreInv, NEW c \in Caller, PutFails(c)
  PROVE  StoreInv'
<1>1. PICK r : r = [call[c] EXCEPT !.at = "close"] OBVIOUS
<1>2. call' = [call EXCEPT ![c] = r] /\ UNCHANGED <<files, mixed>>
  BY <1>1 DEF PutFails, Goto
<1>3. Writer(c) /\ WriteUnderWay(call[c])
  BY WritersWrite DEF StoreInv, PutFails, At, Writer
<1>4. r = [at |-> "close", op |-> call[c].op, path |-> call[c].path, text |-> call[c].text,
           got |-> call[c].got, pos |-> call[c].pos, calm |-> call[c].calm]
  BY <1>1, <1>3 DEF WriteUnderWay, Long
<1>5. WriteUnderWay(r) BY <1>3, <1>4 DEF WriteUnderWay, Long
<1>6. CallTypes' /\ call'[c] = r /\ \A d \in Caller \ {c} : call'[d] = call[d]
  BY <1>2, <1>5, OneChanges DEF StoreInv
<1>7. \A d \in Caller :
        /\ (Writer(d)' <=> Writer(d)) /\ (Reader(d)' <=> Reader(d))
        /\ Target(d)' = Target(d)
        /\ Writer(d) => call'[d].text = call[d].text /\ call'[d].pos = call[d].pos
        /\ Reader(d) => call'[d] = call[d]
  BY <1>3, <1>4, <1>6 DEF Writer, Reader, Target
<1>8. FileTypes' /\ NoOldInNew' BY <1>2 DEF StoreInv, FileTypes, NoOldInNew
<1>9. WritersHaveAFile' /\ OneWriter' /\ SoFarWritten' /\ CalmHasNoWriter' /\ SoFarRead'
  BY <1>2, <1>7 DEF StoreInv, WritersHaveAFile, OneWriter, SoFarWritten, CalmHasNoWriter,
                    SoFarRead
<1> QED BY <1>6, <1>8, <1>9 DEF StoreInv

(* A step of one reader that leaves the files alone. *)
LEMMA ReaderKeeps ==
  ASSUME StoreInv, NEW c \in Caller, ~Writer(c), UNCHANGED <<files, mixed>>,
         \E r : /\ ReadUnderWay(r) /\ call' = [call EXCEPT ![c] = r]
                /\ r.calm =>
                     /\ \A d \in Caller : Writer(d) => Target(d) # Place(r.path)
                     /\ Place(r.path) \in DOMAIN files =>
                          /\ r.pos <= Len(files[Place(r.path)])
                          /\ r.got = SubSeq(files[Place(r.path)], 1, r.pos)
  PROVE  StoreInv'
<1>1. PICK r : /\ ReadUnderWay(r) /\ call' = [call EXCEPT ![c] = r]
               /\ r.calm =>
                    /\ \A d \in Caller : Writer(d) => Target(d) # Place(r.path)
                    /\ Place(r.path) \in DOMAIN files =>
                         /\ r.pos <= Len(files[Place(r.path)])
                         /\ r.got = SubSeq(files[Place(r.path)], 1, r.pos)
  OBVIOUS
<1>2. CallTypes' /\ call'[c] = r /\ \A d \in Caller \ {c} : call'[d] = call[d]
  BY <1>1, OneChanges DEF StoreInv
<1>3. ~Writer(c)' /\ Target(c)' = Place(r.path)
  BY <1>1, <1>2 DEF ReadUnderWay, Writer, Target
<1>4. \A d \in Caller : d # c =>
        /\ call'[d] = call[d] /\ Target(d)' = Target(d)
        /\ (Writer(d)' <=> Writer(d)) /\ (Reader(d)' <=> Reader(d))
  BY <1>2, SameCallSameView
<1>5. FileTypes' /\ NoOldInNew' BY DEF StoreInv, FileTypes, NoOldInNew
<1>6. WritersHaveAFile' /\ OneWriter' /\ SoFarWritten'
  BY <1>3, <1>4 DEF StoreInv, WritersHaveAFile, OneWriter, SoFarWritten
<1>7. CalmHasNoWriter'
  <2> SUFFICES ASSUME NEW d \in Caller, NEW e \in Caller, Reader(d)', call'[d].calm,
                      Writer(e)'
               PROVE  Target(d)' # Target(e)'
    BY DEF CalmHasNoWriter
  <2>1. e # c /\ Writer(e) /\ Target(e)' = Target(e) BY <1>3, <1>4
  <2>2. CASE d = c BY <1>1, <1>2, <1>3, <2>1, <2>2
  <2>3. CASE d # c BY <1>4, <2>1, <2>3 DEF StoreInv, CalmHasNoWriter
  <2> QED BY <2>2, <2>3
<1>8. SoFarRead'
  <2> SUFFICES ASSUME NEW d \in Caller, Reader(d)', call'[d].calm, Target(d)' \in DOMAIN files
               PROVE  /\ call'[d].pos <= Len(files[Target(d)'])
                      /\ call'[d].got = SubSeq(files[Target(d)'], 1, call'[d].pos)
    BY DEF SoFarRead
  <2>1. CASE d = c BY <1>1, <1>2, <1>3, <2>1
  <2>2. CASE d # c BY <1>4, <2>2 DEF StoreInv, SoFarRead
  <2> QED BY <2>1, <2>2
<1> QED BY <1>2, <1>5, <1>6, <1>7, <1>8 DEF StoreInv

LEMMA OpenToReadKeeps ==
  ASSUME StoreInv, NEW c \in Caller, OpenToRead(c)
  PROVE  StoreInv'
<1>1. At(c, "open") /\ call[c].op = "read" /\ UNCHANGED <<files, mixed>> BY DEF OpenToRead
<1>2. ~Writer(c) BY <1>1 DEF Writer, At
<1>3. PICK r : /\ call' = [call EXCEPT ![c] = r]
               /\ \E old : r = Opened(c, <<>>, Assigned(old),
                                      ~\E d \in Caller : Writing(d, Target(c)))
  BY DEF OpenToRead, Set
<1>4. r = [at |-> "get", op |-> "read", path |-> call[c].path, text |-> <<>>, got |-> <<>>,
           pos |-> 0, calm |-> ~\E d \in Caller : Writing(d, Target(c))]
  BY <1>1, <1>3 DEF Opened, Assigned
<1>5. ReadUnderWay(r) BY <1>4 DEF ReadUnderWay, Long
<1>6. r.calm => \A d \in Caller : Writer(d) => Target(d) # Place(r.path)
  BY <1>4, WritersWrite DEF Target, StoreInv
<1>7. Place(r.path) \in DOMAIN files =>
        /\ r.pos <= Len(files[Place(r.path)])
        /\ r.got = SubSeq(files[Place(r.path)], 1, r.pos)
  <2> SUFFICES ASSUME Place(r.path) \in DOMAIN files
               PROVE  0 <= Len(files[Place(r.path)]) /\ <<>> = SubSeq(files[Place(r.path)], 1, 0)
    BY <1>4
  <2>1. files[Place(r.path)] \in Seq(Cell) BY DEF StoreInv, FileTypes
  <2> QED BY <2>1
<1> QED BY <1>1, <1>2, <1>3, <1>5, <1>6, <1>7, ReaderKeeps

LEMMA GetPieceKeeps ==
  ASSUME StoreInv, NEW c \in Caller, GetPiece(c)
  PROVE  StoreInv'
<1>1. /\ At(c, "get") /\ IsFile(c) /\ call[c].pos < Size(c) /\ UNCHANGED <<files, mixed>>
      /\ Reader(c) /\ ~Writer(c)
  BY DEF GetPiece, At, Reader, Writer
<1>2. ReadUnderWay(call[c]) BY <1>1, WritersWrite DEF StoreInv
<1>3. PICK r : r = [call[c] EXCEPT !.pos = @ + 1,
                      !.got = Append(@, files[Target(c)][call[c].pos + 1])]
  OBVIOUS
<1>4. call' = [call EXCEPT ![c] = r] BY <1>3 DEF GetPiece, Set
<1>5. r = [at |-> call[c].at, op |-> call[c].op, path |-> call[c].path,
           text |-> call[c].text,
           got |-> Append(call[c].got, files[Target(c)][call[c].pos + 1]),
           pos |-> call[c].pos + 1, calm |-> call[c].calm]
  BY <1>2, <1>3 DEF ReadUnderWay, Long
<1>6. ReadUnderWay(r) BY <1>2, <1>5 DEF ReadUnderWay, Long
<1>7. Place(r.path) = Target(c) BY <1>5 DEF Target
<1>8. r.calm => \A d \in Caller : Writer(d) => Target(d) # Place(r.path)
  BY <1>1, <1>5, <1>7 DEF StoreInv, CalmHasNoWriter
<1>9. r.calm => /\ r.pos <= Len(files[Place(r.path)])
                /\ r.got = SubSeq(files[Place(r.path)], 1, r.pos)
  <2> SUFFICES ASSUME call[c].calm
               PROVE  /\ call[c].pos + 1 <= Len(files[Target(c)])
                      /\ Append(call[c].got, files[Target(c)][call[c].pos + 1])
                           = SubSeq(files[Target(c)], 1, call[c].pos + 1)
    BY <1>5, <1>7
  <2>1. files[Target(c)] \in Seq(Cell) /\ call[c].pos < Len(files[Target(c)])
    BY <1>1 DEF StoreInv, FileTypes, IsFile, Size
  <2>2. call[c].got = SubSeq(files[Target(c)], 1, call[c].pos)
    BY <1>1 DEF StoreInv, SoFarRead, IsFile
  <2>3. call[c].pos \in Nat BY <1>2 DEF ReadUnderWay
  <2>4. PICK f, n : f = files[Target(c)] /\ n = call[c].pos OBVIOUS
  <2>5. Append(SubSeq(f, 1, n), f[n + 1]) = SubSeq(f, 1, n + 1)
    BY <2>1, <2>3, <2>4, OneMore
  <2> QED BY <2>1, <2>2, <2>3, <2>4, <2>5
<1> QED BY <1>1, <1>4, <1>6, <1>8, <1>9, ReaderKeeps

LEMMA GetFailsKeeps ==
  ASSUME StoreInv, NEW c \in Caller, GetFails(c)
  PROVE  StoreInv'
<1>1. /\ At(c, "get") /\ UNCHANGED <<files, mixed>> /\ Reader(c) /\ ~Writer(c)
  BY DEF GetFails, At, Reader, Writer
<1>2. ReadUnderWay(call[c]) BY <1>1, WritersWrite DEF StoreInv
<1>3. PICK r : r = [call[c] EXCEPT !.at = "broken"] OBVIOUS
<1>4. call' = [call EXCEPT ![c] = r] BY <1>3 DEF GetFails, Goto
<1>5. r = [at |-> "broken", op |-> call[c].op, path |-> call[c].path,
           text |-> call[c].text, got |-> call[c].got, pos |-> call[c].pos,
           calm |-> call[c].calm]
  BY <1>2, <1>3 DEF ReadUnderWay, Long
<1>6. ReadUnderWay(r) BY <1>2, <1>5 DEF ReadUnderWay, Long
<1>7. Place(r.path) = Target(c) BY <1>5 DEF Target
<1>8. r.calm => \A d \in Caller : Writer(d) => Target(d) # Place(r.path)
  BY <1>1, <1>5, <1>7 DEF StoreInv, CalmHasNoWriter
<1>9. r.calm /\ Place(r.path) \in DOMAIN files =>
        /\ r.pos <= Len(files[Place(r.path)])
        /\ r.got = SubSeq(files[Place(r.path)], 1, r.pos)
  BY <1>1, <1>5, <1>7 DEF StoreInv, SoFarRead
<1> QED BY <1>1, <1>4, <1>6, <1>8, <1>9, ReaderKeeps

(* Of one writer alone the file has one piece more; two were noticed; and   *)
(* whoever reads the file is not calm.                                      *)
LEMMA PutPieceKeeps ==
  ASSUME StoreInv, NEW c \in Caller, PutPiece(c)
  PROVE  StoreInv'
<1>1. Writer(c) /\ WriteUnderWay(call[c]) BY WritersWrite DEF StoreInv, PutPiece, Writer
<1>2. PICK p, t, n, r :
        /\ p = Target(c) /\ t = call[c].text /\ n = call[c].pos
        /\ r = [call[c] EXCEPT !.pos = n + 1]
  OBVIOUS
<1>3. /\ t \in Text /\ n \in Nat /\ n < Len(t) /\ p \in DOMAIN files
      /\ t \in Seq(Piece) /\ t \in Seq(Cell)
  <2>1. t \in Text /\ n \in 0 .. Len(t) BY <1>1, <1>2 DEF WriteUnderWay
  <2>2. t \in Seq(Piece) /\ t \in Seq(Cell) BY <2>1, TextsAreSequences
  <2>3. n + 1 <= Len(t) BY <1>2 DEF PutPiece
  <2>4. p \in DOMAIN files BY <1>1, <1>2 DEF StoreInv, WritersHaveAFile
  <2> QED BY <2>1, <2>2, <2>3, <2>4
<1>4. /\ files' = [files EXCEPT ![p] = Written(files[p], n + 1, t[n + 1])]
      /\ call' = [call EXCEPT ![c].pos = n + 1] /\ mixed' = mixed
  BY <1>2 DEF PutPiece
<1>5. /\ DOMAIN files' = DOMAIN files
      /\ files'[p] = Written(files[p], n + 1, t[n + 1])
      /\ \A q \in DOMAIN files : q # p => files'[q] = files[q]
  BY <1>3, <1>4
<1>6. call' = [call EXCEPT ![c] = r] BY <1>2, <1>4
<1>7. r = [at |-> call[c].at, op |-> call[c].op, path |-> call[c].path,
           text |-> call[c].text, got |-> call[c].got, pos |-> n + 1,
           calm |-> call[c].calm]
  BY <1>1, <1>2 DEF WriteUnderWay, Long
<1>8. WriteUnderWay(r) BY <1>1, <1>2, <1>3, <1>7 DEF WriteUnderWay, Long
<1>9. CallTypes' /\ call'[c] = r /\ \A d \in Caller \ {c} : call'[d] = call[d]
  BY <1>6, <1>8, OneChanges DEF StoreInv
<1>10. \A d \in Caller :
         /\ (Writer(d)' <=> Writer(d)) /\ (Reader(d)' <=> Reader(d))
         /\ Target(d)' = Target(d)
         /\ d # c => call'[d] = call[d]
  BY <1>1, <1>7, <1>9 DEF Writer, Reader, Target
<1>11. FileTypes'
  <2>1. files[p] \in Seq(Cell) BY <1>3 DEF StoreInv, FileTypes
  <2>2. t[n + 1] \in Cell BY <1>3
  <2>3. PICK old : old = files[p] OBVIOUS
  <2>4. Written(old, n + 1, t[n + 1]) \in Seq(Cell)
    BY <1>3, <2>1, <2>2, <2>3, WrittenIsASequence
  <2>5. files'[p] \in Seq(Cell) BY <1>5, <2>3, <2>4
  <2>6. files' = [q \in DOMAIN files' |-> files'[q]] BY <1>4 DEF StoreInv, FileTypes
  <2> QED BY <1>5, <2>5, <2>6 DEF StoreInv, FileTypes
<1>12. p \notin mixed => files'[p] = SubSeq(t, 1, n + 1)
  <2>1. p \notin mixed => files[p] = SubSeq(t, 1, n)
    BY <1>1, <1>2 DEF StoreInv, SoFarWritten
  <2>2. Written(SubSeq(t, 1, n), n + 1, t[n + 1]) = SubSeq(t, 1, n + 1)
    BY <1>3, WrittenAtTheEnd
  <2> QED BY <1>5, <2>1, <2>2
<1>13. WritersHaveAFile' /\ OneWriter' /\ CalmHasNoWriter'
  <2>1. WritersHaveAFile' BY <1>5, <1>10 DEF StoreInv, WritersHaveAFile
  <2>2. OneWriter' BY <1>4, <1>10 DEF StoreInv, OneWriter
  <2>3. \A d \in Caller : Reader(d) => d # c BY <1>1, OpenIsOneOfTwo
  <2>4. CalmHasNoWriter' BY <1>10, <2>3 DEF StoreInv, CalmHasNoWriter
  <2> QED BY <2>1, <2>2, <2>4
<1>14. SoFarWritten'
  <2> SUFFICES ASSUME NEW d \in Caller, Writer(d), Target(d) \notin mixed
               PROVE  files'[Target(d)] = SubSeq(call'[d].text, 1, call'[d].pos)
    BY <1>4, <1>10 DEF SoFarWritten
  <2>1. CASE d = c
    <3>1. call'[d].text = t /\ call'[d].pos = n + 1 BY <1>2, <1>7, <1>9, <2>1
    <3> QED BY <1>2, <1>12, <2>1, <3>1
  <2>2. CASE d # c
    <3>1. Target(d) # p BY <1>1, <1>2, <2>2 DEF StoreInv, OneWriter
    <3>2. Target(d) \in DOMAIN files BY DEF StoreInv, WritersHaveAFile
    <3> QED BY <1>5, <1>10, <2>2, <3>1, <3>2 DEF StoreInv, SoFarWritten
  <2> QED BY <2>1, <2>2
<1>15. NoOldInNew'
  <2> SUFFICES ASSUME NEW q \in DOMAIN files, q \notin mixed
               PROVE  \E u \in Text : IsPrefix(files'[q], u)
    BY <1>4, <1>5 DEF NoOldInNew
  <2>1. CASE q = p
    <3>1. IsPrefix(SubSeq(t, 1, n + 1), t) BY <1>3, BeginningIsPrefix
    <3> QED BY <1>3, <1>12, <2>1, <3>1
  <2>2. CASE q # p BY <1>5, <2>2 DEF StoreInv, NoOldInNew
  <2> QED BY <2>1, <2>2
<1>16. SoFarRead'
  <2> SUFFICES ASSUME NEW d \in Caller, Reader(d), call'[d].calm, Target(d) \in DOMAIN files
               PROVE  /\ call'[d].pos <= Len(files'[Target(d)])
                      /\ call'[d].got = SubSeq(files'[Target(d)], 1, call'[d].pos)
    BY <1>5, <1>10 DEF SoFarRead
  <2>1. d # c /\ call'[d] = call[d] BY <1>1, <1>10, OpenIsOneOfTwo
  <2>2. Target(d) # p BY <1>1, <1>2, <2>1 DEF StoreInv, CalmHasNoWriter
  <2> QED BY <1>5, <2>1, <2>2 DEF StoreInv, SoFarRead
<1> QED BY <1>9, <1>11, <1>13, <1>14, <1>15, <1>16 DEF StoreInv

(* The file is empty; whoever has it open already is disturbed.             *)
LEMMA OpenToWriteKeeps ==
  ASSUME StoreInv, NEW c \in Caller, OpenToWrite(c)
  PROVE  StoreInv'
<1>1. PICK p : p = Target(c) OBVIOUS
<1>2. /\ At(c, "open") /\ call[c].op = "write"
      /\ files' = Put(files, p, <<>>)
      /\ mixed' = IF \E d \in Caller : HasOpen(d, p) /\ Writing(d, p)
                  THEN mixed \cup {p} ELSE mixed \ {p}
  BY <1>1 DEF OpenToWrite, Emptied
<1>3. PICK text \in Text :
        call' = [d \in Caller |->
          CASE d = c -> Opened(c, text, <<>>, TRUE)
            [] d \in {e \in Caller : HasOpen(e, p)} -> [call[d] EXCEPT !.calm = FALSE]
            [] OTHER -> call[d]]
  BY <1>1 DEF OpenToWrite
<1>4. /\ DOMAIN files' = DOMAIN files \cup {p} /\ files'[p] = <<>>
      /\ \A q \in DOMAIN files : q # p => files'[q] = files[q]
      /\ files' = [q \in DOMAIN files' |-> files'[q]]
  BY <1>2 DEF Put
<1>5. ~HasOpen(c, p) /\ ~Writer(c) /\ ~Reader(c) BY <1>2 DEF At, HasOpen, Writer, Reader
<1>6. /\ call' = [d \in Caller |-> call'[d]]
      /\ call'[c] = Opened(c, text, <<>>, TRUE)
      /\ \A d \in Caller : d # c /\ HasOpen(d, p) => call'[d] = [call[d] EXCEPT !.calm = FALSE]
      /\ \A d \in Caller : d # c /\ ~HasOpen(d, p) => call'[d] = call[d]
  <2>1. call' = [d \in Caller |-> call'[d]] BY <1>3
  <2>2. call'[c] = Opened(c, text, <<>>, TRUE) BY <1>3, <1>5
  <2> SUFFICES ASSUME NEW d \in Caller, d # c
               PROVE  call'[d] = IF HasOpen(d, p) THEN [call[d] EXCEPT !.calm = FALSE]
                                 ELSE call[d]
    BY <2>1, <2>2
  <2>3. call'[d] = CASE d = c -> Opened(c, text, <<>>, TRUE)
                     [] d \in {e \in Caller : HasOpen(e, p)} -> [call[d] EXCEPT !.calm = FALSE]
                     [] OTHER -> call[d]
    BY <1>3
  <2>4. d \in {e \in Caller : HasOpen(e, p)} <=> HasOpen(d, p) OBVIOUS
  <2>5. CASE HasOpen(d, p) BY <2>3, <2>4, <2>5
  <2>6. CASE ~HasOpen(d, p) BY <2>3, <2>4, <2>6
  <2> QED BY <2>5, <2>6
<1>7. call'[c] = [at |-> "put", op |-> "write", path |-> call[c].path, text |-> text,
                  got |-> <<>>, pos |-> 0, calm |-> TRUE]
  BY <1>2, <1>6 DEF Opened
<1>8. WriteUnderWay(call[c])' /\ Writer(c)' /\ ~Reader(c)' /\ Target(c)' = p
  <2>1. 0 \in 0 .. Len(text) BY TextsAreSequences
  <2>2. WriteUnderWay(call[c])' BY <1>7, <2>1 DEF WriteUnderWay, Long
  <2> QED BY <1>1, <1>7, <2>2 DEF Writer, Reader, Target
<1>9. \A d \in Caller : d # c /\ HasOpen(d, p) =>
        call'[d] = [at |-> call[d].at, op |-> call[d].op, path |-> call[d].path,
                    text |-> call[d].text, got |-> call[d].got, pos |-> call[d].pos,
                    calm |-> FALSE]
  <2> SUFFICES ASSUME NEW d \in Caller, d # c, HasOpen(d, p)
               PROVE  call'[d] = [at |-> call[d].at, op |-> call[d].op,
                         path |-> call[d].path, text |-> call[d].text,
                         got |-> call[d].got, pos |-> call[d].pos, calm |-> FALSE]
    OBVIOUS
  <2>1. Long(call[d])
    BY OpenIsOneOfTwo, WritersWrite DEF StoreInv, WriteUnderWay, ReadUnderWay
  <2>2. call'[d] = [call[d] EXCEPT !.calm = FALSE] BY <1>6
  <2> QED BY <2>1, <2>2 DEF Long
<1>10. \A d \in Caller : d # c =>
         /\ (Writer(d)' <=> Writer(d)) /\ (Reader(d)' <=> Reader(d))
         /\ Target(d)' = Target(d)
         /\ Writer(d) => call'[d].text = call[d].text /\ call'[d].pos = call[d].pos
         /\ Reader(d) /\ call'[d].calm => call'[d] = call[d] /\ Target(d) # p
  <2> SUFFICES ASSUME NEW d \in Caller, d # c
               PROVE  /\ (Writer(d)' <=> Writer(d)) /\ (Reader(d)' <=> Reader(d))
                      /\ Target(d)' = Target(d)
                      /\ Writer(d) => call'[d].text = call[d].text /\ call'[d].pos = call[d].pos
                      /\ Reader(d) /\ call'[d].calm => call'[d] = call[d] /\ Target(d) # p
    OBVIOUS
  <2>1. CASE HasOpen(d, p)
    <3>1. /\ call'[d].at = call[d].at /\ call'[d].path = call[d].path
          /\ call'[d].text = call[d].text /\ call'[d].pos = call[d].pos
          /\ call'[d].calm = FALSE
      <4>1. PICK o : o = call[d] OBVIOUS
      <4>2. call'[d] = [at |-> o.at, op |-> o.op, path |-> o.path, text |-> o.text,
                        got |-> o.got, pos |-> o.pos, calm |-> FALSE]
        BY <1>9, <2>1, <4>1
      <4> QED BY <4>1, <4>2
    <3>2. Target(d)' = Target(d) BY <3>1 DEF Target
    <3>3. (Writer(d)' <=> Writer(d)) /\ (Reader(d)' <=> Reader(d)) BY <3>1 DEF Writer, Reader
    <3> QED BY <3>1, <3>2, <3>3
  <2>2. CASE ~HasOpen(d, p)
    <3>1. call'[d] = call[d] BY <1>6, <2>2
    <3>2. Reader(d) => Target(d) # p BY <2>2 DEF HasOpen, Reader
    <3>3. Target(d)' = Target(d) BY <3>1 DEF Target
    <3>4. (Writer(d)' <=> Writer(d)) /\ (Reader(d)' <=> Reader(d)) BY <3>1 DEF Writer, Reader
    <3> QED BY <3>1, <3>2, <3>3, <3>4
  <2> QED BY <2>1, <2>2
<1>11. CallTypes'
  <2> SUFFICES ASSUME NEW d \in Caller
               PROVE  Waiting(call'[d]) \/ WriteUnderWay(call'[d]) \/ ReadUnderWay(call'[d])
    BY <1>6 DEF CallTypes
  <2>1. CASE d = c BY <1>8, <2>1
  <2>2. CASE d # c /\ HasOpen(d, p)
    <3>1. WriteUnderWay(call[d]) \/ ReadUnderWay(call[d])
      BY <2>2, OpenIsOneOfTwo, WritersWrite DEF StoreInv
    <3>2. PICK o : o = call[d] OBVIOUS
    <3>3. PICK n : n = call'[d] OBVIOUS
    <3>4. n = [at |-> o.at, op |-> o.op, path |-> o.path, text |-> o.text, got |-> o.got,
               pos |-> o.pos, calm |-> FALSE]
      BY <1>9, <2>2, <3>2, <3>3
    <3>5. WriteUnderWay(o) \/ ReadUnderWay(o) BY <3>1, <3>2
    <3>6. WriteUnderWay(n) \/ ReadUnderWay(n)
      BY <3>4, <3>5 DEF WriteUnderWay, ReadUnderWay, Long
    <3> QED BY <3>3, <3>6
  <2>3. CASE d # c /\ ~HasOpen(d, p) BY <1>6, <2>3 DEF StoreInv, CallTypes
  <2> QED BY <2>1, <2>2, <2>3
<1>12. FileTypes'
  <2>1. <<>> \in Seq(Cell) OBVIOUS
  <2> QED BY <1>4, <2>1 DEF StoreInv, FileTypes
<1>13. WritersHaveAFile' BY <1>4, <1>8, <1>10 DEF StoreInv, WritersHaveAFile
<1>14. \A d \in Caller : d # c /\ Writer(d) /\ Target(d) = p => p \in mixed'
  BY <1>2, OpenIsOneOfTwo, WritersWrite DEF StoreInv
<1>15. \A q : q # p => (q \in mixed' <=> q \in mixed) BY <1>2
<1>16. OneWriter'
  <2> SUFFICES ASSUME NEW d \in Caller, NEW e \in Caller, d # e, Writer(d)', Writer(e)',
                      Target(d)' = Target(e)'
               PROVE  Target(d)' \in mixed'
    BY DEF OneWriter
  <2>1. CASE Target(d)' = p BY <1>8, <1>10, <1>14, <2>1
  <2>2. CASE Target(d)' # p
    <3>1. d # c /\ e # c BY <1>8, <2>2
    <3> QED BY <1>10, <1>15, <2>2, <3>1 DEF StoreInv, OneWriter
  <2> QED BY <2>1, <2>2
<1>17. SoFarWritten'
  <2> SUFFICES ASSUME NEW d \in Caller, Writer(d)', Target(d)' \notin mixed'
               PROVE  files'[Target(d)'] = SubSeq(call'[d].text, 1, call'[d].pos)
    BY DEF SoFarWritten
  <2>1. CASE d = c
    <3>1. SubSeq(text, 1, 0) = <<>> BY TextsAreSequences
    <3>2. call'[c].text = text /\ call'[c].pos = 0 BY <1>7
    <3> QED BY <1>4, <1>8, <2>1, <3>1, <3>2
  <2>2. CASE d # c
    <3>1. Writer(d) /\ Target(d) # p /\ Target(d) \notin mixed BY <1>10, <1>14, <1>15, <2>2
    <3>2. Target(d) \in DOMAIN files BY <3>1 DEF StoreInv, WritersHaveAFile
    <3>3. files[Target(d)] = SubSeq(call[d].text, 1, call[d].pos)
      BY <3>1 DEF StoreInv, SoFarWritten
    <3> QED BY <1>4, <1>10, <2>2, <3>1, <3>2, <3>3
  <2> QED BY <2>1, <2>2
<1>18. NoOldInNew'
  <2> SUFFICES ASSUME NEW q \in DOMAIN files', q \notin mixed'
               PROVE  \E u \in Text : IsPrefix(files'[q], u)
    BY DEF NoOldInNew
  <2>1. CASE q = p
    <3>1. IsPrefix(SubSeq(text, 1, 0), text) BY TextsAreSequences, BeginningIsPrefix
    <3>2. SubSeq(text, 1, 0) = <<>> BY TextsAreSequences
    <3> QED BY <1>4, <2>1, <3>1, <3>2
  <2>2. CASE q # p BY <1>4, <1>15, <2>2 DEF StoreInv, NoOldInNew
  <2> QED BY <2>1, <2>2
<1>19. CalmHasNoWriter'
  <2> SUFFICES ASSUME NEW d \in Caller, NEW e \in Caller, Reader(d)', call'[d].calm,
                      Writer(e)'
               PROVE  Target(d)' # Target(e)'
    BY DEF CalmHasNoWriter
  <2>1. d # c /\ Reader(d) /\ Target(d) # p /\ call[d].calm /\ Target(d)' = Target(d)
    BY <1>8, <1>10
  <2>2. CASE e = c BY <1>8, <2>1, <2>2
  <2>3. CASE e # c BY <1>10, <2>1, <2>3 DEF StoreInv, CalmHasNoWriter
  <2> QED BY <2>2, <2>3
<1>20. SoFarRead'
  <2> SUFFICES ASSUME NEW d \in Caller, Reader(d)', call'[d].calm,
                      Target(d)' \in DOMAIN files'
               PROVE  /\ call'[d].pos <= Len(files'[Target(d)'])
                      /\ call'[d].got = SubSeq(files'[Target(d)'], 1, call'[d].pos)
    BY DEF SoFarRead
  <2>1. /\ d # c /\ Reader(d) /\ Target(d) # p /\ call'[d] = call[d]
        /\ Target(d)' = Target(d)
    BY <1>8, <1>10
  <2>2. Target(d) \in DOMAIN files /\ files'[Target(d)] = files[Target(d)] BY <1>4, <2>1
  <2> QED BY <2>1, <2>2 DEF StoreInv, SoFarRead
<1> QED BY <1>11, <1>12, <1>13, <1>16, <1>17, <1>18, <1>19, <1>20 DEF StoreInv

----------------------------------------------------------------------------
(* The theorems *)

LEMMA InitHolds == Init => StoreInv
<1> SUFFICES ASSUME Init PROVE StoreInv OBVIOUS
<1>1. files = <<>> /\ call = [c \in Caller |-> Ready] BY DEF Init
<1>2. DOMAIN files = {} BY <1>1
<1>3. \A c \in Caller : call[c] = Ready /\ Waiting(Ready) /\ ~Writer(c) /\ ~Reader(c)
  BY <1>1 DEF Ready, Ended, Waiting, IdleCall, Writer, Reader
<1>4. CallTypes BY <1>1, <1>3 DEF CallTypes
<1>5. FileTypes BY <1>1, <1>2 DEF FileTypes
<1> QED BY <1>2, <1>3, <1>4, <1>5
      DEF StoreInv, WritersHaveAFile, OneWriter, SoFarWritten, NoOldInNew, CalmHasNoWriter,
          SoFarRead

LEMMA StutterKeeps ==
  ASSUME StoreInv, UNCHANGED <<files, mixed, call>>
  PROVE  StoreInv'
<1>1. CallTypes' /\ FileTypes' /\ NoOldInNew'
  BY DEF StoreInv, CallTypes, FileTypes, NoOldInNew
<1>2. \A c \in Caller : /\ Target(c)' = Target(c)
                        /\ (Writer(c)' <=> Writer(c)) /\ (Reader(c)' <=> Reader(c))
  BY SameCallSameView
<1>3. WritersHaveAFile' /\ OneWriter' /\ SoFarWritten' /\ CalmHasNoWriter' /\ SoFarRead'
  BY <1>2 DEF StoreInv, WritersHaveAFile, OneWriter, SoFarWritten, CalmHasNoWriter, SoFarRead
<1> QED BY <1>1, <1>3 DEF StoreInv

LEMMA NextKeeps == StoreInv /\ [Next]_vars => StoreInv'
<1> SUFFICES ASSUME StoreInv, [Next]_vars PROVE StoreInv' OBVIOUS
<1>1. CASE \E c \in Caller : Step(c)
  <2>1. PICK c \in Caller : Step(c) BY <1>1
  <2> QED BY <2>1, ResolvePathKeeps, CreateDirsKeeps, ReturnsKeep, OpenToWriteKeeps,
             PutPieceKeeps, PutFailsKeeps, OpenToReadKeeps, GetPieceKeeps, GetFailsKeeps
          DEF Step
<1>2. CASE \E c \in Caller, op \in {"write", "read", "mkdir"}, relative \in Relative :
             Call(c, op, relative)
  BY <1>2, CallKeeps
<1>3. CASE \E p \in DOMAIN files : RemoveFile(p) BY <1>3, RemoveFileKeeps
<1>4. CASE \E d \in dirs : RemoveDirectory(d)
  <2>1. UNCHANGED <<files, mixed, call>> BY <1>4 DEF RemoveDirectory
  <2> QED BY <2>1, StutterKeeps
<1>5. CASE Crash BY <1>5, CrashKeeps
<1>6. CASE UNCHANGED vars
  <2>1. UNCHANGED <<files, mixed, call>> BY <1>6 DEF vars
  <2> QED BY <2>1, StutterKeeps
<1> QED BY <1>1, <1>2, <1>3, <1>4, <1>5, <1>6 DEF Next

(* What is known of open files holds always.                                *)
THEOREM StoreIsSound == Spec => []StoreInv
<1> QED BY InitHolds, NextKeeps, PTL DEF Spec

(* Whatever fails, and wherever the process dies: a file that one writer at *)
(* a time has had holds the beginning of one text, and nothing of an older  *)
(* one (FileStore.cpp:49, 57-69).                                           *)
THEOREM NothingOldRemains == Spec => []NoOldInNew
<1>1. StoreInv => NoOldInNew BY DEF StoreInv
<1> QED BY <1>1, StoreIsSound, PTL

(* While another caller moves, a call stays where it is. *)
LEMMA OthersStay ==
  ASSUME StoreInv, NEW c \in Caller, NEW d \in Caller, d # c, Step(d)
  PROVE  call'[c].at = call[c].at
<1>1. CASE OpenToWrite(d)
  <2>1. PICK p, text :
          call' = [e \in Caller |->
            CASE e = d -> Opened(d, text, <<>>, TRUE)
              [] e \in {x \in Caller : HasOpen(x, p)} -> [call[e] EXCEPT !.calm = FALSE]
              [] OTHER -> call[e]]
    BY <1>1 DEF OpenToWrite
  <2>2. call'[c] = CASE c = d -> Opened(d, text, <<>>, TRUE)
                     [] c \in {x \in Caller : HasOpen(x, p)} -> [call[c] EXCEPT !.calm = FALSE]
                     [] OTHER -> call[c]
    BY <2>1
  <2>3. c \in {x \in Caller : HasOpen(x, p)} <=> HasOpen(c, p) OBVIOUS
  <2>4. CASE ~HasOpen(c, p) BY <2>2, <2>3, <2>4
  <2>5. CASE HasOpen(c, p)
    <3>1. call'[c] = [call[c] EXCEPT !.calm = FALSE] BY <2>2, <2>3, <2>5
    <3>2. Long(call[c])
      BY <2>5, OpenIsOneOfTwo, WritersWrite DEF StoreInv, WriteUnderWay, ReadUnderWay
    <3> QED BY <3>1, <3>2 DEF Long
  <2> QED BY <2>4, <2>5
<1>2. CASE ~OpenToWrite(d)
  <2>1. \E r : call' = [call EXCEPT ![d] = r]
    BY <1>2 DEF Step, ResolvePath, CreateDirs, OpenFails, PutPiece, PutFails, WriteReturns,
                OpenToRead, GetPiece, ReadReturns, GetFails, BreakOff, Return, Set, Goto
  <2> QED BY <2>1 DEF StoreInv, CallTypes
<1> QED BY <1>1, <1>2

(* A call that has begun is ended with an answer by a step of its own only. *)
LEMMA OwnStepAnswers ==
  ASSUME StoreInv, [Next]_vars, NEW c \in Caller,
         NEW answer \in {"yes", "no", "thrown"}, Answers(c, answer)
  PROVE  Step(c)
<1>1. call[c].at # "idle" /\ call'[c].at = "idle" /\ call'[c].answer # "none"
  BY DEF Answers, Ended
<1>2. CASE \E d \in Caller : Step(d) BY <1>1, <1>2, OthersStay
<1>3. CASE \E d \in Caller, op \in {"write", "read", "mkdir"}, relative \in Relative :
             Call(d, op, relative)
  <2>1. PICK d \in Caller, op \in {"write", "read", "mkdir"}, relative \in Relative :
          Call(d, op, relative)
    BY <1>3
  <2>2. call' = [call EXCEPT ![d] = [at |-> "resolve", op |-> op, path |-> relative]]
    BY <2>1 DEF Call, Set
  <2>3. call'[c] = call[c] \/ call'[c].at = "resolve" BY <2>2 DEF StoreInv, CallTypes
  <2> QED BY <1>1, <2>3
<1>4. CASE Crash
  <2>1. call'[c] = [at |-> "idle", answer |-> "none"] BY <1>4 DEF Crash, Ready, Ended
  <2> QED BY <1>1, <2>1
<1>5. CASE UNCHANGED call BY <1>1, <1>5
<1> QED BY <1>2, <1>3, <1>4, <1>5 DEF Next, vars, RemoveFile, RemoveDirectory

(* What a writer's or a reader's own step looks like when it ends the call. *)
LEMMA YesAtTheEnd ==
  ASSUME StoreInv, [Next]_vars, NEW c \in Caller, Answers(c, "yes")
  PROVE  /\ call[c].at = "put" => WriteReturns(c) /\ call[c].pos = Len(call[c].text)
         /\ call[c].at = "get" => ReadReturns(c) /\ AtEnd(c)
<1>1. call'[c].at = "idle" BY DEF Answers, Ended
<1>2. Step(c) BY OwnStepAnswers
<1>3. call[c].at \in {"put", "get"} => \A point \in {"close", "broken"} : ~Goto(c, point)
  <2> SUFFICES ASSUME call[c].at \in {"put", "get"}, NEW point \in {"close", "broken"},
                      Goto(c, point)
               PROVE  FALSE
    OBVIOUS
  <2>1. Long(call[c])
    BY WritersWrite DEF StoreInv, Writer, Reader, WriteUnderWay, ReadUnderWay
  <2>2. call'[c] = [call[c] EXCEPT !.at = point] BY DEF Goto, StoreInv, CallTypes
  <2>3. call'[c].at = point BY <2>1, <2>2 DEF Long
  <2> QED BY <1>1, <2>3
<1>4. CASE call[c].at = "put"
  <2>1. PutPiece(c) \/ PutFails(c) \/ WriteReturns(c)
    BY <1>2, <1>4 DEF Step, ResolvePath, CreateDirs, OpenToWrite, OpenFails, OpenToRead,
                      GetPiece, ReadReturns, GetFails, BreakOff, At
  <2>2. ~PutFails(c) BY <1>3, <1>4 DEF PutFails
  <2>3. ~PutPiece(c)
    <3> SUFFICES ASSUME PutPiece(c) PROVE FALSE OBVIOUS
    <3>1. WriteUnderWay(call[c]) BY <1>4, WritersWrite DEF StoreInv, Writer
    <3>2. PICK n : call' = [call EXCEPT ![c].pos = n] BY DEF PutPiece
    <3>3. call'[c] = [call[c] EXCEPT !.pos = n] BY <3>2 DEF StoreInv, CallTypes
    <3>4. call'[c].at = call[c].at BY <3>1, <3>3 DEF WriteUnderWay, Long
    <3> QED BY <1>1, <1>4, <3>4
  <2>4. WriteReturns(c) BY <2>1, <2>2, <2>3
  <2>5. call[c].pos = Len(call[c].text) BY <1>4, <2>4 DEF WriteReturns, At
  <2> QED BY <1>4, <2>4, <2>5
<1>5. CASE call[c].at = "get"
  <2>1. GetPiece(c) \/ ReadReturns(c) \/ GetFails(c)
    BY <1>2, <1>5 DEF Step, ResolvePath, CreateDirs, OpenToWrite, OpenFails, OpenToRead,
                      PutPiece, PutFails, WriteReturns, BreakOff, At
  <2>2. ~GetFails(c) BY <1>3, <1>5 DEF GetFails
  <2>3. ~GetPiece(c)
    <3> SUFFICES ASSUME GetPiece(c) PROVE FALSE OBVIOUS
    <3>1. ReadUnderWay(call[c]) BY <1>5, WritersWrite DEF StoreInv, Reader
    <3>2. PICK n, g : call' = [call EXCEPT ![c] = [call[c] EXCEPT !.pos = n, !.got = g]]
      BY DEF GetPiece, Set
    <3>3. call'[c] = [call[c] EXCEPT !.pos = n, !.got = g] BY <3>2 DEF StoreInv, CallTypes
    <3>4. call'[c].at = call[c].at BY <3>1, <3>3 DEF ReadUnderWay, Long
    <3> QED BY <1>1, <1>5, <3>4
  <2>4. ReadReturns(c) BY <2>1, <2>2, <2>3
  <2> QED BY <1>5, <2>4 DEF ReadReturns
<1> QED BY <1>4, <1>5

(* When writeText says yes the file holds the text, unless another writer   *)
(* had it open at the same time: every piece is there by then, and nothing  *)
(* else (FileStore.cpp:49-70).                                              *)
THEOREM YesIsWritten == Spec => YesMeansWritten
<1>1. StoreInv /\ [Next]_vars =>
        \A c \in Caller : call[c].at = "put" /\ Answers(c, "yes") /\ Target(c) \notin mixed =>
          files[Target(c)] = call[c].text
  <2> SUFFICES ASSUME StoreInv, [Next]_vars, NEW c \in Caller, call[c].at = "put",
                      Answers(c, "yes"), Target(c) \notin mixed
               PROVE  files[Target(c)] = call[c].text
    OBVIOUS
  <2>1. call[c].pos = Len(call[c].text) BY YesAtTheEnd
  <2>2. Writer(c) /\ call[c].text \in Text
    BY WritersWrite DEF StoreInv, Writer, WriteUnderWay
  <2>3. files[Target(c)] = SubSeq(call[c].text, 1, call[c].pos)
    BY <2>2 DEF StoreInv, SoFarWritten
  <2>4. PICK t : t = call[c].text OBVIOUS
  <2>5. t \in Seq(Piece) BY <2>2, <2>4, TextsAreSequences
  <2>6. SubSeq(t, 1, Len(t)) = t BY <2>5, WholeSequence
  <2> QED BY <2>1, <2>3, <2>4, <2>6
<1> QED BY <1>1, StoreIsSound, PTL DEF Spec, YesMeansWritten

(* When readText says yes, and neither a writer nor a failing disk has come *)
(* in between, the output is the file's content, all of it and nothing      *)
(* else (FileStore.cpp:83-107).                                             *)
THEOREM YesIsRead == Spec => YesMeansRead
<1>1. StoreInv /\ [Next]_vars =>
        \A c \in Caller : call[c].at = "get" /\ Answers(c, "yes") /\ call[c].calm =>
          call[c].got = files[Target(c)]
  <2> SUFFICES ASSUME StoreInv, [Next]_vars, NEW c \in Caller, call[c].at = "get",
                      Answers(c, "yes"), call[c].calm
               PROVE  call[c].got = files[Target(c)]
    OBVIOUS
  <2>1. Target(c) \in DOMAIN files /\ call[c].pos >= Len(files[Target(c)])
    BY YesAtTheEnd DEF AtEnd, IsFile, Size
  <2>2. Reader(c) /\ call[c].pos \in Nat
    BY WritersWrite DEF StoreInv, Reader, ReadUnderWay
  <2>3. /\ call[c].pos <= Len(files[Target(c)])
        /\ call[c].got = SubSeq(files[Target(c)], 1, call[c].pos)
    BY <2>1, <2>2 DEF StoreInv, SoFarRead
  <2>4. PICK f : f = files[Target(c)] OBVIOUS
  <2>5. f \in Seq(Cell) BY <2>1, <2>4 DEF StoreInv, FileTypes
  <2>6. SubSeq(f, 1, Len(f)) = f BY <2>5, WholeSequence
  <2>7. call[c].pos = Len(f) BY <2>1, <2>2, <2>3, <2>4, <2>5
  <2> QED BY <2>3, <2>4, <2>6, <2>7
<1> QED BY <1>1, StoreIsSound, PTL DEF Spec, YesMeansRead

----------------------------------------------------------------------------
(* Induction *)

(* Induction over the natural numbers, for a set of them. *)
LEMMA InductionOnNat ==
  ASSUME NEW T, 0 \in T, \A m \in Nat : m \in T => m + 1 \in T
  PROVE  Nat \subseteq T
<1> DEFINE R == OpToRel(<, Nat)  rest == Nat \ T
<1> SUFFICES ASSUME rest # {} PROVE FALSE OBVIOUS
<1>1. IsWellFoundedOn(R, Nat) BY NatLessThanWellFounded
<1>2. PICK x \in rest : \A y \in rest : ~ (<<y, x>> \in R)
  <2> HIDE DEF R
  <2> rest \subseteq Nat OBVIOUS
  <2> QED BY <1>1, WFMin
<1>3. x - 1 \in Nat /\ x - 1 < x BY SMT
<1>4. x - 1 \in T BY <1>2, <1>3 DEF OpToRel
<1> QED
  BY <1>3, <1>4, (x - 1) + 1 = x

----------------------------------------------------------------------------
(* lexically_normal, name by name *)

(* v holds what is kept of ns after each of the first m names. *)
IsKeeping(v, r, ns, m) ==
  v = [k \in 0 .. m |-> IF k = 0 THEN <<>> ELSE Keep(r, v[k - 1], ns[k])]

(* The recursive function that Kept is defined by exists, for any names. *)
LEMMA KeepingExists ==
  ASSUME NEW r, NEW ns, NEW m \in Nat
  PROVE  \E v : IsKeeping(v, r, ns, m)
<1> DEFINE T == {k \in Nat : \E v : IsKeeping(v, r, ns, k)}
<1>1. 0 \in T
  <2> DEFINE v == [k \in 0 .. 0 |-> <<>>]
  <2>1. IsKeeping(v, r, ns, 0) BY DEF IsKeeping
  <2> QED BY <2>1
<1>2. ASSUME NEW l \in Nat, l \in T PROVE l + 1 \in T
  <2>1. PICK v : IsKeeping(v, r, ns, l) BY <1>2
  <2> DEFINE last == Keep(r, v[l], ns[l + 1])
             w == [k \in 0 .. l + 1 |-> IF k = l + 1 THEN last ELSE v[k]]
  <2>2. ASSUME NEW k \in 0 .. l + 1
        PROVE  w[k] = IF k = 0 THEN <<>> ELSE Keep(r, w[k - 1], ns[k])
    <3> HIDE DEF last
    <3>1. CASE k = l + 1
      <4>1. w[k] = last /\ w[k - 1] = v[l] /\ k # 0 BY <3>1
      <4> QED BY <3>1, <4>1 DEF last
    <3>2. CASE k \in 0 .. l
      <4>1. w[k] = v[k] /\ (k # 0 => w[k - 1] = v[k - 1]) BY <3>2
      <4>2. v[k] = IF k = 0 THEN <<>> ELSE Keep(r, v[k - 1], ns[k])
        BY <2>1, <3>2 DEF IsKeeping
      <4> QED BY <4>1, <4>2
    <3> QED BY <3>1, <3>2
  <2>3. w = [k \in 0 .. l + 1 |-> IF k = 0 THEN <<>> ELSE Keep(r, w[k - 1], ns[k])]
    BY <2>2
  <2>4. IsKeeping(w, r, ns, l + 1) BY <2>3 DEF IsKeeping
  <2> QED BY <2>4
<1> HIDE DEF T
<1>3. m \in T BY <1>1, <1>2, InductionOnNat
<1> QED BY <1>3 DEF T

LEMMA KeptIsReached ==
  ASSUME NEW r, NEW ns, Len(ns) \in Nat
  PROVE  \E v : IsKeeping(v, r, ns, Len(ns)) /\ Kept(r, ns) = v[Len(ns)]
<1> DEFINE v == CHOOSE u : IsKeeping(u, r, ns, Len(ns))
<1>1. IsKeeping(v, r, ns, Len(ns)) BY KeepingExists
<1>2. Kept(r, ns) = v[Len(ns)] BY DEF Kept, IsKeeping
<1> QED BY <1>1, <1>2

(* It does name by name what Keep says. *)
LEMMA KeepingUnfolds ==
  ASSUME NEW v, NEW r, NEW ns, NEW m \in Nat, IsKeeping(v, r, ns, m)
  PROVE  /\ v[0] = <<>>
         /\ \A k \in 0 .. m - 1 : v[k + 1] = Keep(r, v[k], ns[k + 1])
<1>1. v[0] = <<>> BY DEF IsKeeping
<1>2. ASSUME NEW k \in 0 .. m - 1 PROVE v[k + 1] = Keep(r, v[k], ns[k + 1])
  <2>1. k + 1 \in 0 .. m /\ k + 1 # 0 /\ (k + 1) - 1 = k OBVIOUS
  <2> QED BY <2>1 DEF IsKeeping
<1> QED BY <1>1, <1>2

(* What is kept depends on the names so far only. *)
LEMMA KeepingsAgree ==
  ASSUME NEW r, NEW ns, NEW ms, NEW m \in Nat, NEW l \in Nat, NEW j \in Nat, j <= m, j <= l,
         \A k \in 1 .. j : ns[k] = ms[k],
         NEW v, IsKeeping(v, r, ns, m), NEW w, IsKeeping(w, r, ms, l)
  PROVE  v[j] = w[j]
<1> DEFINE T == {k \in Nat : k <= j => v[k] = w[k]}
<1>1. 0 \in T BY KeepingUnfolds
<1>2. ASSUME NEW k \in Nat, k \in T PROVE k + 1 \in T
  <2> SUFFICES ASSUME k + 1 <= j PROVE v[k + 1] = w[k + 1] OBVIOUS
  <2>1. v[k + 1] = Keep(r, v[k], ns[k + 1]) BY KeepingUnfolds, k \in 0 .. m - 1
  <2>2. w[k + 1] = Keep(r, w[k], ms[k + 1]) BY KeepingUnfolds, k \in 0 .. l - 1
  <2>3. v[k] = w[k] /\ ns[k + 1] = ms[k + 1] BY <1>2
  <2> QED BY <2>1, <2>2, <2>3
<1>3. Nat \subseteq T
  <2> HIDE DEF T
  <2> QED BY <1>1, <1>2, InductionOnNat
<1> QED BY <1>3

(* Names that lexically_normal leaves alone: no dots, and ways up only at   *)
(* the front of a path that is not rooted.                                  *)
IsNormal(r, ns) ==
  \A i \in 1 .. Len(ns) :
    /\ ns[i] \notin {Dot, <<>>}
    /\ ns[i] = Parent => ~r /\ (i = 1 \/ ns[i - 1] = Parent)

LEMMA DotsDiffer == Dot # Parent /\ Dot # <<>> /\ Parent # <<>>
BY DEF Dot, Parent

(* One more name keeps names normal. *)
LEMMA KeepIsNormal ==
  ASSUME NEW S, NEW ks \in Seq(S), NEW n \in S, NEW r \in BOOLEAN, IsNormal(r, ks)
  PROVE  Keep(r, ks, n) \in Seq(S) /\ IsNormal(r, Keep(r, ks, n))
<1>1. CASE n \in {Dot, <<>>}
  <2>1. Keep(r, ks, n) = ks BY <1>1, DotsDiffer DEF Keep
  <2> QED BY <2>1
<1>2. CASE n = Parent /\ ks # <<>> /\ Last(ks) # Parent
  <2>1. Keep(r, ks, n) = Front(ks) BY <1>2, DotsDiffer DEF Keep
  <2>2. /\ Len(ks) \in Nat /\ Front(ks) \in Seq(S) /\ Len(Front(ks)) = Len(ks) - 1
        /\ \A i \in 1 .. Len(ks) - 1 : Front(ks)[i] = ks[i]
    <3>1. Len(ks) \in Nat /\ Len(ks) # 0 BY <1>2
    <3>2. PICK m \in Nat : m + 1 = Len(ks) BY <3>1, Len(ks) - 1 \in Nat
    <3>3. Front(ks) = SubSeq(ks, 1, m) /\ Len(ks) - 1 = m BY <3>1, <3>2 DEF Front
    <3>4. /\ SubSeq(ks, 1, m) \in Seq(S) /\ Len(SubSeq(ks, 1, m)) = m
          /\ \A i \in 1 .. m : SubSeq(ks, 1, m)[i] = ks[i]
      BY <3>2
    <3> QED BY <3>1, <3>3, <3>4
  <2> QED BY <2>1, <2>2 DEF IsNormal
<1>3. CASE n = Parent /\ ks = <<>> /\ r
  <2>1. Keep(r, ks, n) = ks BY <1>3, DotsDiffer DEF Keep
  <2> QED BY <2>1
<1>4. CASE /\ n \notin {Dot, <<>>}
           /\ n = Parent => (ks = <<>> /\ ~r) \/ (ks # <<>> /\ Last(ks) = Parent)
  <2>1. Keep(r, ks, n) = Append(ks, n) BY <1>4 DEF Keep
  <2>2. /\ Len(ks) \in Nat /\ Append(ks, n) \in Seq(S) /\ Len(Append(ks, n)) = Len(ks) + 1
        /\ \A i \in 1 .. Len(ks) : Append(ks, n)[i] = ks[i]
        /\ Append(ks, n)[Len(ks) + 1] = n
    OBVIOUS
  <2> DEFINE ls == Append(ks, n)
  <2>3. ASSUME NEW i \in 1 .. Len(ks) + 1
        PROVE  /\ ls[i] \notin {Dot, <<>>}
               /\ ls[i] = Parent => ~r /\ (i = 1 \/ ls[i - 1] = Parent)
    <3> HIDE DEF ls
    <3>1. CASE i \in 1 .. Len(ks)
      <4>1. i # 1 => i - 1 \in 1 .. Len(ks) BY <3>1, <2>2
      <4> QED BY <3>1, <4>1, <2>2 DEF IsNormal, ls
    <3>2. CASE i = Len(ks) + 1
      <4>1. ks # <<>> => Len(ks) \in 1 .. Len(ks) /\ i - 1 = Len(ks) BY <3>2, <2>2
      <4>2. ks = <<>> => i = 1 BY <3>2
      <4>3. ls[i] = n /\ (ks # <<>> => ls[i - 1] = Last(ks))
        BY <3>2, <2>2, <4>1 DEF ls, Last
      <4>4. ks # <<>> /\ Last(ks) = Parent => ~r BY <4>1 DEF IsNormal, Last
      <4> QED BY <1>4, <4>2, <4>3, <4>4
    <3> QED BY <2>2, <3>1, <3>2
  <2> QED BY <2>1, <2>2, <2>3 DEF IsNormal
<1> QED BY <1>1, <1>2, <1>3, <1>4

LEMMA KeepingIsNormal ==
  ASSUME NEW S, NEW ns \in Seq(S), NEW r \in BOOLEAN, NEW v, IsKeeping(v, r, ns, Len(ns)),
         NEW j \in 0 .. Len(ns)
  PROVE  v[j] \in Seq(S) /\ IsNormal(r, v[j])
<1> DEFINE T == {k \in Nat : k <= Len(ns) => v[k] \in Seq(S) /\ IsNormal(r, v[k])}
<1>0. Len(ns) \in Nat OBVIOUS
<1>1. 0 \in T
  <2>1. v[0] = <<>> BY <1>0, KeepingUnfolds
  <2>2. <<>> \in Seq(S) /\ IsNormal(r, <<>>) BY DEF IsNormal
  <2> QED BY <2>1, <2>2
<1>2. ASSUME NEW k \in Nat, k \in T PROVE k + 1 \in T
  <2> SUFFICES ASSUME k + 1 <= Len(ns) PROVE v[k + 1] \in Seq(S) /\ IsNormal(r, v[k + 1])
    OBVIOUS
  <2>1. v[k + 1] = Keep(r, v[k], ns[k + 1])
    BY <1>0, KeepingUnfolds, k \in 0 .. Len(ns) - 1
  <2>2. v[k] \in Seq(S) /\ IsNormal(r, v[k]) /\ ns[k + 1] \in S
    BY <1>2, <1>0, k <= Len(ns), k + 1 \in 1 .. Len(ns)
  <2> QED BY <2>1, <2>2, KeepIsNormal
<1>3. Nat \subseteq T
  <2> HIDE DEF T
  <2> QED BY <1>1, <1>2, InductionOnNat
<1> QED BY <1>0, <1>3

(* What lexically_normal keeps is normal. *)
LEMMA KeptIsNormal ==
  ASSUME NEW S, NEW ns \in Seq(S), NEW r \in BOOLEAN
  PROVE  Kept(r, ns) \in Seq(S) /\ IsNormal(r, Kept(r, ns))
<1>1. Len(ns) \in Nat /\ Len(ns) \in 0 .. Len(ns) OBVIOUS
<1>2. PICK v : IsKeeping(v, r, ns, Len(ns)) /\ Kept(r, ns) = v[Len(ns)]
  BY <1>1, KeptIsReached
<1> QED BY <1>1, <1>2, KeepingIsNormal

(* And what is normal it keeps: doing it twice changes nothing. *)
LEMMA NormalIsKept ==
  ASSUME NEW S, NEW ks \in Seq(S), NEW r \in BOOLEAN, IsNormal(r, ks)
  PROVE  Kept(r, ks) = ks
<1>0. Len(ks) \in Nat OBVIOUS
<1>1. PICK v : IsKeeping(v, r, ks, Len(ks)) /\ Kept(r, ks) = v[Len(ks)]
  BY <1>0, KeptIsReached
<1> DEFINE T == {k \in Nat : k <= Len(ks) => v[k] = SubSeq(ks, 1, k)}
<1>2. 0 \in T
  <2>1. v[0] = <<>> BY <1>0, <1>1, KeepingUnfolds
  <2>2. SubSeq(ks, 1, 0) = <<>> OBVIOUS
  <2> QED BY <2>1, <2>2
<1>3. ASSUME NEW k \in Nat, k \in T PROVE k + 1 \in T
  <2> SUFFICES ASSUME k + 1 <= Len(ks) PROVE v[k + 1] = SubSeq(ks, 1, k + 1) OBVIOUS
  <2> DEFINE ls == SubSeq(ks, 1, k)  n == ks[k + 1]
  <2>1. v[k + 1] = Keep(r, ls, n)
    <3>1. v[k + 1] = Keep(r, v[k], ks[k + 1])
      BY <1>0, <1>1, KeepingUnfolds, k \in 0 .. Len(ks) - 1
    <3>2. v[k] = ls BY <1>0, <1>3
    <3> QED BY <3>1, <3>2
  <2>2. /\ n \notin {Dot, <<>>}
        /\ n = Parent => ~r /\ (k + 1 = 1 \/ ks[(k + 1) - 1] = Parent)
    BY <1>0, k + 1 \in 1 .. Len(ks) DEF IsNormal
  <2>3. ls \in Seq(S) /\ Len(ls) = k /\ (k # 0 => ls[k] = ks[k]) BY <1>0
  <2>4. Append(ls, n) = SubSeq(ks, 1, k + 1) BY <1>0
  <2> HIDE DEF ls, n
  <2>5. n = Parent => (ls = <<>> /\ ~r) \/ (ls # <<>> /\ Last(ls) = Parent)
    <3>1. CASE k = 0 BY <2>2, <2>3, <3>1
    <3>2. CASE k # 0
      <4>1. ls # <<>> /\ Last(ls) = ks[k] /\ (k + 1) - 1 = k /\ k + 1 # 1
        BY <2>3, <3>2 DEF Last
      <4> QED BY <2>2, <4>1
    <3> QED BY <3>1, <3>2
  <2>6. Keep(r, ls, n) = Append(ls, n) BY <2>2, <2>5 DEF Keep
  <2> QED BY <2>1, <2>4, <2>6
<1>4. Nat \subseteq T
  <2> HIDE DEF T
  <2> QED BY <1>2, <1>3, InductionOnNat
<1>5. SubSeq(ks, 1, Len(ks)) = ks OBVIOUS
<1> QED BY <1>0, <1>1, <1>4, <1>5

(* A separator at the end changes nothing. *)
LEMMA KeptIgnoresEmpty ==
  ASSUME NEW S, NEW ns \in Seq(S), NEW r \in BOOLEAN, NEW ms,
         Len(ms) = Len(ns) + 1, \A k \in 1 .. Len(ns) : ms[k] = ns[k], ms[Len(ms)] = <<>>
  PROVE  Kept(r, ms) = Kept(r, ns)
<1>0. Len(ns) \in Nat /\ Len(ms) \in Nat OBVIOUS
<1>1. PICK v : IsKeeping(v, r, ns, Len(ns)) /\ Kept(r, ns) = v[Len(ns)]
  BY <1>0, KeptIsReached
<1>2. PICK w : IsKeeping(w, r, ms, Len(ms)) /\ Kept(r, ms) = w[Len(ms)]
  BY <1>0, KeptIsReached
<1>3. w[Len(ns)] = v[Len(ns)]
  <2>1. Len(ns) <= Len(ns) /\ Len(ns) <= Len(ms) /\ \A k \in 1 .. Len(ns) : ns[k] = ms[k]
    BY <1>0
  <2> QED BY <1>0, <1>1, <1>2, <2>1, KeepingsAgree
<1>4. w[Len(ns) + 1] = Keep(r, w[Len(ns)], ms[Len(ns) + 1])
  BY <1>0, <1>2, KeepingUnfolds, Len(ns) \in 0 .. Len(ms) - 1
<1>5. \A ks : Keep(r, ks, <<>>) = ks BY DEF Keep, Parent
<1> QED BY <1>0, <1>1, <1>2, <1>3, <1>4, <1>5

(* ls begins with ks, and goes down from there. *)
GoesDown(ks, ls) ==
  /\ Len(ks) <= Len(ls)
  /\ \A i \in 1 .. Len(ks) : ls[i] = ks[i]
  /\ \A i \in Len(ks) + 1 .. Len(ls) : ls[i] # Parent

(* A name that is not ".." leads on down. *)
LEMMA KeepGoesDown ==
  ASSUME NEW S, NEW base \in Seq(S), NEW ks \in Seq(S), GoesDown(base, ks),
         NEW n \in S, n # Parent, NEW r
  PROVE  GoesDown(base, Keep(r, ks, n))
<1>1. Keep(r, ks, n) = ks \/ Keep(r, ks, n) = Append(ks, n) BY DEF Keep
<1>2. /\ Len(base) \in Nat /\ Len(ks) \in Nat /\ Len(Append(ks, n)) = Len(ks) + 1
      /\ \A i \in 1 .. Len(ks) : Append(ks, n)[i] = ks[i]
      /\ Append(ks, n)[Len(ks) + 1] = n
  OBVIOUS
<1> PICK ls : ls = Append(ks, n) OBVIOUS
<1>3. \A i \in Len(base) + 1 .. Len(ls) : i \in Len(base) + 1 .. Len(ks) \/ i = Len(ks) + 1
  BY <1>2
<1>4. GoesDown(base, ls)
  <2>1. Len(base) <= Len(ls) BY <1>2 DEF GoesDown
  <2>2. ASSUME NEW i \in 1 .. Len(base) PROVE ls[i] = base[i]
    <3>1. i \in 1 .. Len(ks) BY <1>2 DEF GoesDown
    <3> QED BY <1>2, <3>1 DEF GoesDown
  <2>3. ASSUME NEW i \in Len(base) + 1 .. Len(ls) PROVE ls[i] # Parent
    <3>1. CASE i \in Len(base) + 1 .. Len(ks)
      <4>1. i \in 1 .. Len(ks) BY <1>2, <3>1
      <4> QED BY <1>2, <3>1, <4>1 DEF GoesDown
    <3>2. CASE i = Len(ks) + 1 BY <1>2, <3>2
    <3> QED BY <1>3, <3>1, <3>2
  <2> QED BY <2>1, <2>2, <2>3 DEF GoesDown
<1> QED BY <1>1, <1>4

(* Names without ".." behind others leave what is kept of those alone. *)
LEMMA KeptGoesDown ==
  ASSUME NEW S, NEW bs \in Seq(S), NEW ds \in Seq(S), NEW r \in BOOLEAN,
         \A i \in DOMAIN ds : ds[i] # Parent
  PROVE  GoesDown(Kept(r, bs), Kept(r, bs \o ds))
<1>1. PICK p \in Nat, q \in Nat : p = Len(bs) /\ q = Len(ds) OBVIOUS
<1>2. PICK cs \in Seq(S) : cs = bs \o ds BY bs \o ds \in Seq(S)
<1>3. /\ Len(cs) = p + q /\ p + q \in Nat
      /\ \A i \in 1 .. p : cs[i] = bs[i]
      /\ \A i \in 1 .. q : cs[p + i] = ds[i]
  BY <1>1, <1>2
<1>4. PICK v : IsKeeping(v, r, bs, p) /\ Kept(r, bs) = v[p] BY <1>1, KeptIsReached
<1>5. PICK w : IsKeeping(w, r, cs, p + q) /\ Kept(r, cs) = w[p + q] BY <1>3, KeptIsReached
<1>6. w[p] = v[p]
  <2>1. PICK l \in Nat : l = p + q BY <1>3
  <2>2. p <= p /\ p <= l /\ \A k \in 1 .. p : bs[k] = cs[k] BY <1>3, <2>1
  <2>3. IsKeeping(v, r, bs, p) /\ IsKeeping(w, r, cs, l) BY <1>4, <1>5, <2>1
  <2> QED BY <2>2, <2>3, KeepingsAgree
<1>7. PICK base : base = v[p] OBVIOUS
<1>8. base \in Seq(S) BY <1>1, <1>4, <1>7, KeepingIsNormal, p \in 0 .. p
<1> DEFINE T == {k \in Nat : k <= q => GoesDown(base, w[p + k])}
<1>9. 0 \in T
  <2>1. w[p + 0] = base BY <1>6, <1>7, p + 0 = p
  <2>2. GoesDown(base, base) BY <1>8 DEF GoesDown
  <2> QED BY <2>1, <2>2
<1>10. ASSUME NEW k \in Nat, k \in T PROVE k + 1 \in T
  <2> SUFFICES ASSUME k + 1 <= q PROVE GoesDown(base, w[p + (k + 1)]) OBVIOUS
  <2>1. GoesDown(base, w[p + k]) BY <1>10
  <2> HIDE DEF T
  <2>2. PICK j \in Nat : j = p + k OBVIOUS
  <2>3. j \in 0 .. (p + q) - 1 /\ j \in 0 .. p + q /\ j + 1 = p + (k + 1)
    <3>1. j + 1 = p + (k + 1) BY <2>2
    <3>2. p + (k + 1) <= p + q OBVIOUS
    <3> QED BY <3>1, <3>2
  <2>4. w[j + 1] = Keep(r, w[j], cs[j + 1])
    <3>1. PICK l \in Nat : l = p + q BY <1>3
    <3>2. IsKeeping(w, r, cs, l) BY <1>5, <3>1
    <3>3. j \in 0 .. l - 1 BY <2>3, <3>1
    <3>4. \A i \in 0 .. l - 1 : w[i + 1] = Keep(r, w[i], cs[i + 1]) BY <3>2, KeepingUnfolds
    <3> QED BY <3>3, <3>4
  <2>5. w[j] \in Seq(S) BY <1>3, <1>5, <2>3, KeepingIsNormal
  <2>6. cs[j + 1] # Parent /\ cs[j + 1] \in S
    <3>1. k + 1 \in 1 .. q /\ DOMAIN ds = 1 .. q BY <1>1
    <3>2. cs[j + 1] = ds[k + 1] /\ ds[k + 1] \in S BY <1>3, <2>3, <3>1
    <3> QED BY <3>1, <3>2
  <2> QED BY <1>8, <2>1, <2>2, <2>3, <2>4, <2>5, <2>6, KeepGoesDown
<1>11. Nat \subseteq T
  <2> HIDE DEF T
  <2> QED BY <1>9, <1>10, InductionOnNat
<1>12. GoesDown(base, w[p + q]) BY <1>11
<1> QED BY <1>2, <1>4, <1>5, <1>7, <1>12

----------------------------------------------------------------------------
(* Texts: names with separators between them *)

(* The text t of the names before the k-th, and the k-th name n.            *)
Link(sep, t, k, n) == t \o (IF k = 1 THEN <<>> ELSE <<sep>>) \o n

(* v holds the text of the first k of the names ns, up to m. *)
IsJoining(v, sep, ns, m) ==
  v = [k \in 0 .. m |-> IF k = 0 THEN <<>> ELSE Link(sep, v[k - 1], k, ns[k])]

(* The recursive function that Joined is defined by exists, for any        *)
(* names.                                                                  *)
LEMMA JoiningExists ==
  ASSUME NEW sep, NEW ns, NEW m \in Nat
  PROVE  \E v : IsJoining(v, sep, ns, m)
<1> DEFINE T == {k \in Nat : \E v : IsJoining(v, sep, ns, k)}
<1>1. 0 \in T
  <2> DEFINE v == [k \in 0 .. 0 |-> <<>>]
  <2>1. IsJoining(v, sep, ns, 0) BY DEF IsJoining
  <2> QED BY <2>1
<1>2. ASSUME NEW l \in Nat, l \in T PROVE l + 1 \in T
  <2>1. PICK v : IsJoining(v, sep, ns, l) BY <1>2
  <2> DEFINE last == Link(sep, v[l], l + 1, ns[l + 1])
             w == [k \in 0 .. l + 1 |-> IF k = l + 1 THEN last ELSE v[k]]
  <2>2. ASSUME NEW k \in 0 .. l + 1
        PROVE  w[k] = IF k = 0 THEN <<>> ELSE Link(sep, w[k - 1], k, ns[k])
    <3> HIDE DEF last
    <3>1. CASE k = l + 1
      <4>1. w[k] = last /\ w[k - 1] = v[l] /\ k # 0 BY <3>1
      <4> QED BY <3>1, <4>1 DEF last
    <3>2. CASE k \in 0 .. l
      <4>1. w[k] = v[k] /\ (k # 0 => w[k - 1] = v[k - 1]) BY <3>2
      <4>2. v[k] = IF k = 0 THEN <<>> ELSE Link(sep, v[k - 1], k, ns[k])
        BY <2>1, <3>2 DEF IsJoining
      <4> QED BY <4>1, <4>2
    <3> QED BY <3>1, <3>2
  <2>3. w = [k \in 0 .. l + 1 |-> IF k = 0 THEN <<>> ELSE Link(sep, w[k - 1], k, ns[k])]
    BY <2>2
  <2>4. IsJoining(w, sep, ns, l + 1) BY <2>3 DEF IsJoining
  <2> QED BY <2>4
<1> HIDE DEF T
<1>3. m \in T BY <1>1, <1>2, InductionOnNat
<1> QED BY <1>3 DEF T

LEMMA JoinedIsReached ==
  ASSUME NEW sep, NEW ns, Len(ns) \in Nat
  PROVE  \E v : IsJoining(v, sep, ns, Len(ns)) /\ Joined(sep, ns) = v[Len(ns)]
<1> DEFINE v == CHOOSE u : IsJoining(u, sep, ns, Len(ns))
<1>1. IsJoining(v, sep, ns, Len(ns)) BY JoiningExists
<1>2. Joined(sep, ns) = v[Len(ns)] BY DEF Joined, IsJoining, Link
<1> QED BY <1>1, <1>2

LEMMA JoiningUnfolds ==
  ASSUME NEW v, NEW sep, NEW ns, NEW m \in Nat, IsJoining(v, sep, ns, m)
  PROVE  /\ v[0] = <<>>
         /\ \A k \in 0 .. m - 1 : v[k + 1] = Link(sep, v[k], k + 1, ns[k + 1])
<1>1. v[0] = <<>> BY DEF IsJoining
<1>2. ASSUME NEW k \in 0 .. m - 1 PROVE v[k + 1] = Link(sep, v[k], k + 1, ns[k + 1])
  <2>1. k + 1 \in 0 .. m /\ k + 1 # 0 /\ (k + 1) - 1 = k  OBVIOUS
  <2> QED BY <2>1 DEF IsJoining
<1> QED BY <1>1, <1>2

AgreeUpTo(j, ns, ms) == \A k \in 1 .. j : ns[k] = ms[k]

(* The same names have the same text. *)
LEMMA JoiningsAgree ==
  ASSUME NEW sep, NEW ns, NEW m \in Nat, NEW v, IsJoining(v, sep, ns, m),
         NEW ms, NEW l \in Nat, NEW w, IsJoining(w, sep, ms, l),
         NEW j \in Nat, j <= m, j <= l, AgreeUpTo(j, ns, ms)
  PROVE  v[j] = w[j]
<1> DEFINE T == {k \in Nat : k <= j => v[k] = w[k]}
<1>1. 0 \in T BY JoiningUnfolds
<1>2. ASSUME NEW k \in Nat, k \in T PROVE k + 1 \in T
  <2> SUFFICES ASSUME k + 1 <= j PROVE v[k + 1] = w[k + 1] OBVIOUS
  <2>1. v[k + 1] = Link(sep, v[k], k + 1, ns[k + 1]) BY JoiningUnfolds, k \in 0 .. m - 1
  <2>2. w[k + 1] = Link(sep, w[k], k + 1, ms[k + 1]) BY JoiningUnfolds, k \in 0 .. l - 1
  <2>3. v[k] = w[k] /\ ns[k + 1] = ms[k + 1] BY <1>2 DEF AgreeUpTo
  <2> QED BY <2>1, <2>2, <2>3
<1>3. Nat \subseteq T
  <2> HIDE DEF T
  <2> QED BY <1>1, <1>2, InductionOnNat
<1> QED BY <1>3

(* t begins with s; and goes on, if it does, with a member of Q.            *)
Begins(s, t) == Len(s) <= Len(t) /\ \A i \in 1 .. Len(s) : t[i] = s[i]
BreaksOff(s, t, Q) == Begins(s, t) /\ (Len(s) < Len(t) => t[Len(s) + 1] \in Q)

(* IsPrefix, character by character. *)
LEMMA BeginsIsPrefix ==
  ASSUME NEW X, NEW s \in Seq(X), NEW t \in Seq(X)
  PROVE  IsPrefix(s, t) <=> Begins(s, t)
<1>0. Len(s) \in Nat /\ Len(t) \in Nat /\ SubSeq(s, 1, Len(s)) = s OBVIOUS
<1>1. CASE Len(s) <= Len(t)
  <2>1. /\ SubSeq(t, 1, Len(s)) \in Seq(X) /\ Len(SubSeq(t, 1, Len(s))) = Len(s)
        /\ \A i \in 1 .. Len(s) : SubSeq(t, 1, Len(s))[i] = t[i]
    BY <1>0, <1>1
  <2> PICK u \in Seq(X) : u = SubSeq(t, 1, Len(s)) BY <2>1
  <2>2. s = u <=> \A i \in 1 .. Len(s) : t[i] = s[i] BY <2>1
  <2> QED BY <1>0, <1>1, <2>2 DEF IsPrefix, Begins
<1>2. CASE ~(Len(s) <= Len(t)) BY <1>2 DEF IsPrefix, Begins
<1> QED BY <1>1, <1>2

LEMMA Concatenated ==
  ASSUME NEW X, NEW s \in Seq(X), NEW t \in Seq(X), NEW u, u = s \o t
  PROVE  /\ u \in Seq(X) /\ Len(u) = Len(s) + Len(t)
         /\ \A i \in 1 .. Len(s) : u[i] = s[i]
         /\ \A i \in 1 .. Len(t) : u[Len(s) + i] = t[i]
OBVIOUS

(* One name more: the text so far, a separator if it is not the first, and  *)
(* the name.                                                                *)
Gap(k) == IF k = 1 THEN 0 ELSE 1

IsLinked(sep, t, k, n, u) ==
  /\ Begins(t, u)
  /\ Len(u) = Len(t) + Gap(k) + Len(n)
  /\ k # 1 => u[Len(t) + 1] = sep
  /\ \A i \in 1 .. Len(n) : u[Len(t) + Gap(k) + i] = n[i]

LEMMA JoiningGrows ==
  ASSUME NEW X, NEW sep \in X, NEW t \in Seq(X), NEW n \in Seq(X), NEW k \in Nat \ {0},
         NEW u, u = Link(sep, t, k, n)
  PROVE  u \in Seq(X) /\ IsLinked(sep, t, k, n, u)
<1>1. PICK g : g = IF k = 1 THEN <<>> ELSE <<sep>> OBVIOUS
<1>2. g \in Seq(X) /\ Len(g) = Gap(k) /\ (k # 1 => g[1] = sep)
  <2>1. CASE k = 1 BY <1>1, <2>1 DEF Gap
  <2>2. CASE k # 1 BY <1>1, <2>2 DEF Gap
  <2> QED BY <2>1, <2>2
<1>3. PICK h \in Seq(X) : h = t \o g BY <1>2, t \o g \in Seq(X)
<1>4. /\ Len(h) = Len(t) + Len(g)
      /\ \A i \in 1 .. Len(t) : h[i] = t[i]
      /\ k # 1 => h[Len(t) + 1] = sep
  <2>1. /\ Len(h) = Len(t) + Len(g)
        /\ \A i \in 1 .. Len(t) : h[i] = t[i]
        /\ \A i \in 1 .. Len(g) : h[Len(t) + i] = g[i]
    <3>1. g \in Seq(X) BY <1>2
    <3>2. h = t \o g BY <1>3
    <3> QED BY <3>1, <3>2, Concatenated
  <2>2. k # 1 => 1 \in 1 .. Len(g) BY <1>2 DEF Gap
  <2> QED BY <1>2, <2>1, <2>2
<1>5. u = h \o n BY <1>1, <1>3 DEF Link
<1>6. /\ u \in Seq(X) /\ Len(u) = Len(h) + Len(n)
      /\ \A i \in 1 .. Len(h) : u[i] = h[i]
      /\ \A i \in 1 .. Len(n) : u[Len(h) + i] = n[i]
  BY <1>5, Concatenated
<1>7. Len(t) \in Nat /\ Len(g) \in Nat /\ Len(n) \in Nat BY <1>2
<1>8. Begins(t, u)
  <2>1. Len(t) <= Len(u) BY <1>4, <1>6, <1>7
  <2>2. \A i \in 1 .. Len(t) : i \in 1 .. Len(h) BY <1>4, <1>7
  <2>3. \A i \in 1 .. Len(t) : u[i] = t[i] BY <1>4, <1>6, <2>2
  <2> QED BY <2>1, <2>3 DEF Begins
<1>9. k # 1 => u[Len(t) + 1] = sep BY <1>2, <1>4, <1>6, <1>7 DEF Gap
<1> QED BY <1>2, <1>4, <1>6, <1>7, <1>8, <1>9 DEF IsLinked

LEMMA JoiningIsText ==
  ASSUME NEW X, NEW sep \in X, NEW ns \in Seq(Seq(X)), NEW v, IsJoining(v, sep, ns, Len(ns)),
         NEW j \in 0 .. Len(ns)
  PROVE  v[j] \in Seq(X)
<1>0. Len(ns) \in Nat OBVIOUS
<1> DEFINE T == {k \in Nat : k <= Len(ns) => v[k] \in Seq(X)}
<1>1. 0 \in T
  <2>1. v[0] = <<>> /\ <<>> \in Seq(X) BY <1>0, JoiningUnfolds
  <2> QED BY <2>1
<1>2. ASSUME NEW k \in Nat, k \in T PROVE k + 1 \in T
  <2> SUFFICES ASSUME k + 1 <= Len(ns) PROVE v[k + 1] \in Seq(X) OBVIOUS
  <2>1. v[k + 1] = Link(sep, v[k], k + 1, ns[k + 1])
    BY <1>0, JoiningUnfolds, k \in 0 .. Len(ns) - 1
  <2>2. v[k] \in Seq(X) /\ ns[k + 1] \in Seq(X) BY <1>2, <1>0, k + 1 \in 1 .. Len(ns)
  <2>3. PICK t \in Seq(X), n \in Seq(X), l \in Nat \ {0} :
          t = v[k] /\ n = ns[k + 1] /\ l = k + 1
    BY <2>2
  <2>4. PICK u : u = Link(sep, t, l, n) OBVIOUS
  <2>5. u \in Seq(X) BY <2>4, JoiningGrows
  <2> QED BY <2>1, <2>3, <2>4, <2>5
<1>3. Nat \subseteq T
  <2> HIDE DEF T
  <2> QED BY <1>1, <1>2, InductionOnNat
<1> QED BY <1>0, <1>3

(* Every text on the way is the beginning of the whole one, and behind it   *)
(* there is a separator.                                                    *)
LEMMA JoiningBegins ==
  ASSUME NEW X, NEW sep \in X, NEW ns \in Seq(Seq(X)), NEW v, IsJoining(v, sep, ns, Len(ns)),
         NEW j \in 0 .. Len(ns)
  PROVE  /\ Begins(v[j], v[Len(ns)])
         /\ j \in 1 .. Len(ns) - 1 =>
              Len(v[j]) < Len(v[Len(ns)]) /\ v[Len(ns)][Len(v[j]) + 1] = sep
<1>0. Len(ns) \in Nat OBVIOUS
<1> DEFINE Good(k) == /\ Begins(v[j], v[k])
                      /\ j # 0 /\ j # k => Len(v[j]) < Len(v[k]) /\ v[k][Len(v[j]) + 1] = sep
           T == {k \in Nat : j <= k /\ k <= Len(ns) => Good(k)}
<1>1. \A k \in 0 .. Len(ns) : v[k] \in Seq(X) /\ Len(v[k]) \in Nat BY JoiningIsText
<1>2. ASSUME NEW k \in Nat, k \in T PROVE k + 1 \in T
  <2> SUFFICES ASSUME j <= k + 1, k + 1 <= Len(ns) PROVE Good(k + 1) OBVIOUS
  <2>1. PICK s \in Seq(X) : s = v[j] BY <1>1
  <2>2. CASE j = k + 1 BY <2>1, <2>2 DEF Begins
  <2>3. CASE j <= k
    <3>1. PICK t \in Seq(X) : t = v[k] BY <1>0, <1>1, k \in 0 .. Len(ns)
    <3>2. Begins(s, t) /\ (j # 0 /\ j # k => Len(s) < Len(t) /\ t[Len(s) + 1] = sep)
      BY <1>0, <1>2, <2>1, <2>3, <3>1
    <3>3. PICK n \in Seq(X) : n = ns[k + 1] BY <1>0, k + 1 \in 1 .. Len(ns)
    <3>4. PICK u : u = Link(sep, t, k + 1, n) OBVIOUS
    <3>5. v[k + 1] = u BY <1>0, <3>1, <3>3, <3>4, JoiningUnfolds, k \in 0 .. Len(ns) - 1
    <3>6. /\ u \in Seq(X) /\ Begins(t, u) /\ (k # 0 => Len(t) < Len(u))
          /\ k # 0 => u[Len(t) + 1] = sep
      <4>1. PICK l \in Nat \ {0} : l = k + 1 OBVIOUS
      <4>2. u = Link(sep, t, l, n) BY <3>4, <4>1
      <4>3. u \in Seq(X) /\ IsLinked(sep, t, l, n, u) BY <4>2, JoiningGrows
      <4>4. l # 1 => Len(t) < Len(u) BY <4>3 DEF IsLinked, Gap
      <4> QED BY <4>1, <4>3, <4>4 DEF IsLinked
    <3>7. Len(s) \in Nat /\ Len(t) \in Nat /\ Len(u) \in Nat BY <3>6
    <3>8. Begins(s, u) BY <3>2, <3>6, <3>7 DEF Begins
    <3>9. j # 0 => Len(s) < Len(u) /\ u[Len(s) + 1] = sep
      <4> SUFFICES ASSUME j # 0 PROVE Len(s) < Len(u) /\ u[Len(s) + 1] = sep OBVIOUS
      <4>1. CASE j = k
        <5>1. s = t /\ k # 0 BY <2>1, <3>1, <4>1
        <5> QED BY <3>6, <5>1
      <4>2. CASE j # k
        <5>1. Len(s) < Len(t) /\ t[Len(s) + 1] = sep BY <3>2, <4>2
        <5>2. Len(s) + 1 \in 1 .. Len(t) BY <3>7, <5>1
        <5> QED BY <3>6, <3>7, <5>1, <5>2 DEF Begins
      <4> QED BY <4>1, <4>2
    <3> QED BY <2>1, <3>5, <3>8, <3>9
  <2> QED BY <2>2, <2>3
<1>3. 0 \in T
  <2> SUFFICES ASSUME j <= 0, 0 <= Len(ns) PROVE Good(0) OBVIOUS
  <2>1. j = 0 OBVIOUS
  <2> QED BY <2>1 DEF Begins
<1>4. Nat \subseteq T
  <2> HIDE DEF T
  <2> QED BY <1>2, <1>3, InductionOnNat
<1>5. Good(Len(ns)) BY <1>0, <1>4
<1> QED BY <1>0, <1>5

(* Breaking off at a separator is transitive. *)
LEMMA BreaksOffAgain ==
  ASSUME NEW X, NEW s \in Seq(X), NEW t \in Seq(X), NEW u \in Seq(X), NEW Q,
         BreaksOff(s, t, Q), BreaksOff(t, u, Q)
  PROVE  BreaksOff(s, u, Q)
<1>1. Len(s) \in Nat /\ Len(t) \in Nat /\ Len(u) \in Nat OBVIOUS
<1>2. Begins(s, u) BY <1>1 DEF BreaksOff, Begins
<1>3. ASSUME Len(s) < Len(u) PROVE u[Len(s) + 1] \in Q
  <2>1. CASE Len(s) < Len(t)
    <3>1. Len(s) + 1 \in 1 .. Len(t) BY <1>1, <2>1
    <3> QED BY <2>1, <3>1 DEF BreaksOff, Begins
  <2>2. CASE ~(Len(s) < Len(t))
    <3>1. Len(s) = Len(t) BY <1>1, <2>2 DEF BreaksOff, Begins
    <3> QED BY <1>3, <3>1 DEF BreaksOff
  <2> QED BY <2>1, <2>2
<1> QED BY <1>2, <1>3 DEF BreaksOff

(* Of two names read off the same text at the same place, both up to a      *)
(* separator, neither is shorter.                                           *)
LEMMA NoneIsShorter ==
  ASSUME NEW X, NEW sep, NEW t \in Seq(X), NEW n \in Seq(X), NEW m \in Seq(X), NEW k, NEW Q,
         NEW u \in Seq(X), IsLinked(sep, t, k, n, u),
         NEW w \in Seq(X), IsLinked(sep, t, k, m, w),
         NEW f \in Seq(X), BreaksOff(u, f, Q), Begins(w, f), Len(n) < Len(m)
  PROVE  \E i \in 1 .. Len(m) : m[i] \in Q
<1>1. /\ Len(t) \in Nat /\ Len(n) \in Nat /\ Len(m) \in Nat /\ Len(f) \in Nat
      /\ Gap(k) \in Nat
  BY DEF Gap
<1>2. PICK o \in Nat : o = Len(t) + Gap(k) BY <1>1
<1>3. /\ Len(u) = o + Len(n) /\ Len(w) = o + Len(m) /\ w[o + (Len(n) + 1)] = m[Len(n) + 1]
      /\ Len(n) + 1 \in 1 .. Len(m)
  <2>1. Len(n) + 1 \in 1 .. Len(m) BY <1>1
  <2>2. Len(u) = o + Len(n) /\ Len(w) = o + Len(m) /\ \A i \in 1 .. Len(m) : w[o + i] = m[i]
    BY <1>2 DEF IsLinked
  <2> QED BY <2>1, <2>2
<1>4. f[Len(u) + 1] = w[Len(u) + 1] /\ Len(u) + 1 = o + (Len(n) + 1)
  BY <1>1, <1>3 DEF Begins
<1>5. f[Len(u) + 1] \in Q BY <1>1, <1>3 DEF BreaksOff, Begins
<1> QED BY <1>3, <1>4, <1>5

(* Two names read off the same text at the same place are the same. *)
LEMMA NextNameIs ==
  ASSUME NEW X, NEW sep, NEW t \in Seq(X), NEW n \in Seq(X), NEW m \in Seq(X), NEW k, NEW Q,
         NEW u \in Seq(X), IsLinked(sep, t, k, n, u), \A i \in 1 .. Len(n) : n[i] \notin Q,
         NEW w \in Seq(X), IsLinked(sep, t, k, m, w), \A i \in 1 .. Len(m) : m[i] \notin Q,
         NEW f \in Seq(X), BreaksOff(u, f, Q), BreaksOff(w, f, Q)
  PROVE  n = m
<1>1. Begins(u, f) /\ Begins(w, f) BY DEF BreaksOff
<1>2. ~(Len(n) < Len(m)) BY <1>1, NoneIsShorter
<1>3. ~(Len(m) < Len(n)) BY <1>1, NoneIsShorter
<1>4. Len(n) = Len(m) /\ Len(n) \in Nat /\ Len(t) + Gap(k) \in Nat BY <1>2, <1>3 DEF Gap
<1>5. ASSUME NEW i \in 1 .. Len(n) PROVE n[i] = m[i]
  <2>1. PICK j : j = Len(t) + Gap(k) + i OBVIOUS
  <2>2. u[j] = n[i] /\ w[j] = m[i] BY <1>4, <2>1 DEF IsLinked
  <2>3. j \in 1 .. Len(u) /\ j \in 1 .. Len(w) BY <1>4, <2>1 DEF IsLinked
  <2> QED BY <1>1, <2>2, <2>3 DEF Begins
<1>6. n = [i \in 1 .. Len(n) |-> n[i]] /\ m = [i \in 1 .. Len(m) |-> m[i]] OBVIOUS
<1>7. [i \in 1 .. Len(n) |-> n[i]] = [i \in 1 .. Len(n) |-> m[i]] BY <1>5
<1> QED BY <1>4, <1>6, <1>7

(* Names that a text can be taken apart into again. *)
AreSeparable(X, Q, ns) ==
  /\ ns \in Seq(Seq(X))
  /\ \A i \in 1 .. Len(ns) : \A j \in 1 .. Len(ns[i]) : ns[i][j] \notin Q

(* A text that breaks off behind names can only be the text of names that  *)
(* begin with them.                                                        *)
LEMMA NamesAreRead ==
  ASSUME NEW X, NEW sep \in X, NEW Q, sep \in Q,
         NEW ns, AreSeparable(X, Q, ns), NEW ms, AreSeparable(X, Q, ms),
         \A i \in 1 .. Len(ns) : ns[i] # <<>>,
         BreaksOff(Joined(sep, ns), Joined(sep, ms), Q)
  PROVE  Len(ns) <= Len(ms) /\ AgreeUpTo(Len(ns), ns, ms)
<1>1. PICK p \in Nat, q \in Nat : p = Len(ns) /\ q = Len(ms)
  <2>1. ns \in Seq(Seq(X)) /\ ms \in Seq(Seq(X)) BY DEF AreSeparable
  <2> QED BY <2>1
<1>2. /\ ns \in Seq(Seq(X))
      /\ \A i \in 1 .. p : /\ ns[i] \in Seq(X) /\ ns[i] # <<>>
                           /\ \A j \in 1 .. Len(ns[i]) : ns[i][j] \notin Q
      /\ ms \in Seq(Seq(X))
      /\ \A i \in 1 .. q : /\ ms[i] \in Seq(X)
                           /\ \A j \in 1 .. Len(ms[i]) : ms[i][j] \notin Q
  <2>1. /\ ns \in Seq(Seq(X)) /\ DOMAIN ns = 1 .. p
        /\ ms \in Seq(Seq(X)) /\ DOMAIN ms = 1 .. q
    BY <1>1 DEF AreSeparable
  <2>2. ASSUME NEW i \in 1 .. p
        PROVE  ns[i] \in Seq(X) /\ \A j \in 1 .. Len(ns[i]) : ns[i][j] \notin Q
    <3>1. PICK n \in Seq(X) : n = ns[i] BY <1>1, <2>1
    <3>2. \A j \in 1 .. Len(n) : n[j] \notin Q BY <1>1, <3>1 DEF AreSeparable
    <3> QED BY <3>1, <3>2
  <2>3. ASSUME NEW i \in 1 .. q
        PROVE  ms[i] \in Seq(X) /\ \A j \in 1 .. Len(ms[i]) : ms[i][j] \notin Q
    <3>1. PICK n \in Seq(X) : n = ms[i] BY <1>1, <2>1
    <3>2. \A j \in 1 .. Len(n) : n[j] \notin Q BY <1>1, <3>1 DEF AreSeparable
    <3> QED BY <3>1, <3>2
  <2> QED BY <2>1, <2>2, <2>3
<1>3. PICK v : IsJoining(v, sep, ns, p) /\ Joined(sep, ns) = v[p] BY <1>1, JoinedIsReached
<1>4. PICK w : IsJoining(w, sep, ms, q) /\ Joined(sep, ms) = w[q] BY <1>1, JoinedIsReached
<1>5. \A j \in 0 .. p : /\ v[j] \in Seq(X) /\ Len(v[j]) \in Nat
                        /\ j # 0 => BreaksOff(v[j], v[p], Q)
  <2> TAKE j \in 0 .. p
  <2>1. v[j] \in Seq(X) /\ v[p] \in Seq(X)
    BY <1>1, <1>2, <1>3, JoiningIsText, p \in 0 .. p
  <2>2. Begins(v[j], v[p]) /\ (j \in 1 .. p - 1 => v[p][Len(v[j]) + 1] = sep)
    BY <1>1, <1>2, <1>3, JoiningBegins
  <2> QED BY <2>1, <2>2 DEF BreaksOff
<1>6. \A j \in 0 .. q : /\ w[j] \in Seq(X) /\ Len(w[j]) \in Nat
                        /\ j # 0 => BreaksOff(w[j], w[q], Q)
  <2> TAKE j \in 0 .. q
  <2>1. w[j] \in Seq(X) /\ w[q] \in Seq(X)
    BY <1>1, <1>2, <1>4, JoiningIsText, q \in 0 .. q
  <2>2. Begins(w[j], w[q]) /\ (j \in 1 .. q - 1 => w[q][Len(w[j]) + 1] = sep)
    BY <1>1, <1>2, <1>4, JoiningBegins
  <2> QED BY <2>1, <2>2 DEF BreaksOff
<1>7. PICK b \in Seq(X), f \in Seq(X) : b = v[p] /\ f = w[q]
  BY <1>5, <1>6, p \in 0 .. p, q \in 0 .. q
<1>8. BreaksOff(b, f, Q) /\ Len(b) \in Nat /\ Len(f) \in Nat BY <1>3, <1>4, <1>7
<1> DEFINE T == {j \in Nat : j <= p => j <= q /\ \A i \in 1 .. j : ns[i] = ms[i]}
<1>9. 0 \in T OBVIOUS
<1>10. ASSUME NEW j \in Nat, j \in T PROVE j + 1 \in T
  <2> SUFFICES ASSUME j + 1 <= p
               PROVE  j + 1 <= q /\ \A i \in 1 .. j + 1 : ns[i] = ms[i]
    OBVIOUS
  <2>1. j <= p /\ j <= q /\ \A i \in 1 .. j : ns[i] = ms[i] BY <1>10
  <2> HIDE DEF T
  <2>2. PICK t \in Seq(X) : t = v[j] BY <1>5, <2>1, j \in 0 .. p
  <2>3. t = w[j]
    <3>1. AgreeUpTo(j, ns, ms) BY <2>1 DEF AgreeUpTo
    <3>2. v[j] = w[j] BY <1>3, <1>4, <2>1, <3>1, JoiningsAgree
    <3> QED BY <2>2, <3>2
  <2>4. PICK k \in Nat \ {0} : k = j + 1 OBVIOUS
  <2>5. PICK n \in Seq(X) : n = ns[k] /\ n # <<>> /\ \A i \in 1 .. Len(n) : n[i] \notin Q
    BY <1>2, <2>4, j + 1 \in 1 .. p
  <2>6. PICK u \in Seq(X) : u = v[k] BY <1>5, <2>4, j + 1 \in 0 .. p
  <2>7. u = Link(sep, t, k, n)
    BY <1>3, <2>2, <2>4, <2>5, <2>6, JoiningUnfolds, j \in 0 .. p - 1
  <2>8. IsLinked(sep, t, k, n, u) BY <2>7, JoiningGrows
  <2>9. BreaksOff(u, f, Q)
    <3>1. BreaksOff(u, b, Q) BY <1>5, <1>7, <2>4, <2>6, j + 1 \in 0 .. p
    <3> QED BY <1>8, <3>1, BreaksOffAgain
  <2>10. j + 1 <= q
    <3> SUFFICES ASSUME j = q PROVE FALSE BY <2>1
    <3>1. f = t BY <1>7, <2>3
    <3>2. Len(u) <= Len(f) /\ Len(u) > Len(t)
      <4>1. Len(n) \in Nat \ {0} /\ Len(t) \in Nat BY <2>5
      <4> QED BY <2>8, <2>9, <4>1 DEF BreaksOff, Begins, IsLinked, Gap
    <3> QED BY <1>8, <3>1, <3>2
  <2>11. PICK m \in Seq(X) : m = ms[k] /\ \A i \in 1 .. Len(m) : m[i] \notin Q
    BY <1>2, <2>4, <2>10, j + 1 \in 1 .. q
  <2>12. PICK x \in Seq(X) : x = w[k] BY <1>6, <2>4, <2>10, j + 1 \in 0 .. q
  <2>13. x = Link(sep, t, k, m)
    BY <1>4, <2>3, <2>4, <2>10, <2>11, <2>12, JoiningUnfolds, j \in 0 .. q - 1
  <2>14. IsLinked(sep, t, k, m, x) BY <2>13, JoiningGrows
  <2>15. BreaksOff(x, f, Q) BY <1>6, <1>7, <2>4, <2>10, <2>12, j + 1 \in 0 .. q
  <2>16. n = m BY <2>5, <2>8, <2>9, <2>11, <2>14, <2>15, NextNameIs
  <2>17. \A i \in 1 .. j + 1 : i \in 1 .. j \/ i = k BY <2>4
  <2> QED BY <2>1, <2>5, <2>10, <2>11, <2>16, <2>17
<1>11. Nat \subseteq T
  <2> HIDE DEF T
  <2> QED BY <1>9, <1>10, InductionOnNat
<1> QED BY <1>1, <1>11 DEF AgreeUpTo

----------------------------------------------------------------------------
(* Paths *)

IsAPath(S, p) ==
  /\ p = [drive |-> p.drive, rooted |-> p.rooted, names |-> p.names]
  /\ p.rooted \in BOOLEAN /\ p.names \in Seq(S)

KeptOf(p) == Kept(p.rooted, p.names)

(* Its normal form is not the one that stands for an empty path. *)
LeadsSomewhere(p) == KeptOf(p) # <<>> \/ p.rooted \/ p.drive # NoDrive

(* What lexically_normal makes of a path: the names it keeps, and an       *)
(* empty one for a trailing separator.                                     *)
LEMMA NormalNames ==
  ASSUME NEW p, LeadsSomewhere(p)
  PROVE  \E m : /\ LexicallyNormal(p) = [p EXCEPT !.names = m]
                /\ m = KeptOf(p) \/ (KeptOf(p) # <<>> /\ m = Append(KeptOf(p), <<>>))
<1> DEFINE k == Kept(p.rooted, p.names)
           m == CASE k = <<>> /\ ~p.rooted /\ p.drive = NoDrive -> <<Dot>>
                  [] k # <<>> /\ Last(k) # Parent /\ Last(p.names) \in {Dot, Parent, <<>>}
                                                                -> Append(k, <<>>)
                  [] OTHER                                      -> k
<1>1. LexicallyNormal(p) = [p EXCEPT !.names = m] BY DEF LexicallyNormal
<1>2. k = KeptOf(p) /\ ~(k = <<>> /\ ~p.rooted /\ p.drive = NoDrive)
  BY DEF LeadsSomewhere, KeptOf
<1>3. m = k \/ (k # <<>> /\ m = Append(k, <<>>))
  <2>1. CASE k # <<>> /\ Last(k) # Parent /\ Last(p.names) \in {Dot, Parent, <<>>}
    BY <2>1, <1>2
  <2>2. CASE ~(k # <<>> /\ Last(k) # Parent /\ Last(p.names) \in {Dot, Parent, <<>>})
    BY <2>2, <1>2
  <2> QED BY <2>1, <2>2
<1> HIDE DEF k, m
<1> QED BY <1>1, <1>2, <1>3

(* The normal form of a path leads where the path leads, and is its own    *)
(* normal form.                                                            *)
LEMMA NormalForm ==
  ASSUME NEW S, <<>> \in S, NEW p, IsAPath(S, p), LeadsSomewhere(p),
         NEW q, q = LexicallyNormal(p)
  PROVE  /\ IsAPath(S, q) /\ q.drive = p.drive /\ q.rooted = p.rooted
         /\ KeptOf(q) = KeptOf(p) /\ LeadsSomewhere(q)
         /\ q.names = KeptOf(p) \/ (KeptOf(p) # <<>> /\ q.names = Append(KeptOf(p), <<>>))
         /\ Place(q) = [drive |-> p.drive, rooted |-> p.rooted, names |-> KeptOf(p)]
<1>1. PICK k : k = KeptOf(p) OBVIOUS
<1>2. PICK r \in BOOLEAN : r = p.rooted BY DEF IsAPath
<1>3. k \in Seq(S) /\ IsNormal(r, k) BY <1>1, <1>2, KeptIsNormal DEF IsAPath, KeptOf
<1>4. PICK m : /\ q = [p EXCEPT !.names = m]
               /\ m = k \/ (k # <<>> /\ m = Append(k, <<>>))
  BY <1>1, NormalNames
<1>5. m \in Seq(S) BY <1>3, <1>4
<1>6. q = [drive |-> p.drive, rooted |-> r, names |-> m] BY <1>2, <1>4 DEF IsAPath
<1>7. q.drive = p.drive /\ q.rooted = r /\ q.names = m BY <1>6
<1>8. IsAPath(S, q) BY <1>5, <1>6, <1>7 DEF IsAPath
<1>9. Len(k) \in Nat /\ (k # <<>> => Len(k) \in 1 .. Len(k) /\ Last(k) # <<>>)
  <2>1. Len(k) \in Nat /\ (k # <<>> => Len(k) \in 1 .. Len(k)) BY <1>3
  <2> QED BY <1>3, <2>1 DEF IsNormal, Last
<1>10. Kept(r, m) = k
  <2>1. Kept(r, k) = k BY <1>3, NormalIsKept
  <2>2. CASE m = k BY <2>1, <2>2
  <2>3. CASE m = Append(k, <<>>)
    <3>1. Len(m) = Len(k) + 1 /\ (\A i \in 1 .. Len(k) : m[i] = k[i]) /\ m[Len(m)] = <<>>
      BY <1>3, <2>3
    <3>2. Kept(r, m) = Kept(r, k) BY <1>3, <3>1, KeptIgnoresEmpty
    <3> QED BY <2>1, <3>2
  <2> QED BY <1>4, <2>2, <2>3
<1>11. KeptOf(q) = k BY <1>7, <1>10 DEF KeptOf
<1>12. Place(q) = [drive |-> p.drive, rooted |-> r, names |-> k]
  <2>1. CASE m = k
    <3>1. ~(q.names # <<>> /\ Last(q.names) = <<>>) BY <1>7, <1>9, <2>1
    <3>2. Place(q) = q BY <3>1 DEF Place
    <3> QED BY <1>6, <2>1, <3>2
  <2>2. CASE m = Append(k, <<>>)
    <3>1. m # <<>> /\ Last(m) = <<>> /\ Front(m) = k
      <4>1. Len(m) = Len(k) + 1 /\ m[Len(m)] = <<>> BY <1>3, <2>2
      <4>2. SubSeq(m, 1, Len(k)) = k BY <1>3, <2>2
      <4>3. (Len(k) + 1) - 1 = Len(k) BY <1>9
      <4>4. m # <<>> BY <1>9, <4>1
      <4> QED BY <4>1, <4>2, <4>3, <4>4 DEF Last, Front
    <3>2. Place(q) = [q EXCEPT !.names = Front(m)] BY <1>7, <3>1 DEF Place
    <3> QED BY <1>6, <3>1, <3>2
  <2> QED BY <1>4, <2>1, <2>2
<1> QED BY <1>1, <1>2, <1>4, <1>7, <1>8, <1>11, <1>12 DEF LeadsSomewhere

(* Without the trailing separator the names lead to the same place. *)
LEMMA PlaceKeepsNames ==
  ASSUME NEW S, NEW p, IsAPath(S, p), NEW r \in BOOLEAN
  PROVE  Place(p).names \in Seq(S) /\ Kept(r, Place(p).names) = Kept(r, p.names)
<1>1. PICK ns \in Seq(S) : ns = p.names BY DEF IsAPath
<1>2. CASE ns # <<>> /\ Last(ns) = <<>>
  <2>1. Place(p) = [p EXCEPT !.names = Front(ns)] BY <1>1, <1>2 DEF Place
  <2>2. Place(p).names = Front(ns) BY <2>1 DEF IsAPath
  <2>3. PICK j \in Nat : j + 1 = Len(ns)
    <3>1. Len(ns) \in Nat /\ Len(ns) # 0 BY <1>2
    <3> QED BY <3>1, Len(ns) - 1 \in Nat
  <2>4. Front(ns) = SubSeq(ns, 1, j) BY <2>3, Len(ns) - 1 = j DEF Front
  <2>5. PICK ms : ms = SubSeq(ns, 1, j) OBVIOUS
  <2>6. ms \in Seq(S) /\ Len(ms) = j /\ \A i \in 1 .. j : ms[i] = ns[i] BY <2>3, <2>5
  <2>7. Len(ns) = Len(ms) + 1 /\ (\A i \in 1 .. Len(ms) : ns[i] = ms[i]) /\ ns[Len(ns)] = <<>>
    BY <1>2, <2>3, <2>6 DEF Last
  <2>8. Kept(r, ns) = Kept(r, ms) BY <2>7, <2>6, KeptIgnoresEmpty
  <2> QED BY <1>1, <2>2, <2>4, <2>5, <2>6, <2>8
<1>3. CASE ~(ns # <<>> /\ Last(ns) = <<>>)
  <2>1. Place(p) = p BY <1>1, <1>3 DEF Place
  <2> QED BY <1>1, <2>1
<1> QED BY <1>2, <1>3

(* operator/, for a path that is not of another drive. *)
LEMMA CombineJoins ==
  ASSUME NEW S, NEW base, IsAPath(S, base), NEW rel, IsAPath(S, rel),
         rel.drive \in {NoDrive, base.drive}
  PROVE  LET ns == IF rel.rooted THEN rel.names ELSE Place(base).names \o rel.names
         IN  /\ ns \in Seq(S)
             /\ Combine(base, rel) = [drive |-> base.drive, rooted |-> base.rooted \/ rel.rooted,
                                      names |-> ns]
<1>1. PICK ns : ns = IF rel.rooted THEN rel.names ELSE Place(base).names \o rel.names
  OBVIOUS
<1>2. ns \in Seq(S)
  <2>1. Place(base).names \in Seq(S) /\ rel.names \in Seq(S)
    BY PlaceKeepsNames, TRUE \in BOOLEAN DEF IsAPath
  <2> QED BY <1>1, <2>1
<1>3. Combine(base, rel) = [base EXCEPT !.rooted = base.rooted \/ rel.rooted, !.names = ns]
  BY <1>1 DEF Combine
<1>4. Combine(base, rel) = [drive |-> base.drive, rooted |-> base.rooted \/ rel.rooted,
                            names |-> ns]
  BY <1>3 DEF IsAPath
<1> QED BY <1>1, <1>2, <1>4

----------------------------------------------------------------------------
(* Roots *)

LEMMA PathOnIsAPath ==
  ASSUME NEW w \in BOOLEAN, NEW p \in PathOn(w)
  PROVE  IsAPath(Name(w), p) /\ p.drive \in Drive(w)
BY DEF PathOn, IsAPath

LEMMA EmptyIsAName == \A w \in BOOLEAN : <<>> \in Name(w)
BY DEF Name

(* A root leads somewhere: it is rooted, or has a name left. *)
LEMMA RootLeadsDown ==
  ASSUME NEW w \in BOOLEAN, NEW base, IsRoot(w, base)
  PROVE  /\ IsAPath(Name(w), base) /\ base.drive \in Drive(w) /\ LeadsSomewhere(base)
         /\ base.rooted \/ KeptOf(base) # <<>>
<1>1. base \in PathOn(w) /\ (base.rooted \/ LexicallyNormal(base).names \notin {<<>>, <<Dot>>})
  BY DEF IsRoot
<1>2. IsAPath(Name(w), base) /\ base.drive \in Drive(w) BY <1>1, PathOnIsAPath
<1>3. base.rooted \/ KeptOf(base) # <<>>
  <2> SUFFICES ASSUME ~base.rooted, KeptOf(base) = <<>> PROVE FALSE OBVIOUS
  <2>1. LexicallyNormal(base).names \in {<<>>, <<Dot>>}
    <3> DEFINE k == Kept(base.rooted, base.names)
               m == CASE k = <<>> /\ ~base.rooted /\ base.drive = NoDrive -> <<Dot>>
                      [] k # <<>> /\ Last(k) # Parent
                           /\ Last(base.names) \in {Dot, Parent, <<>>} -> Append(k, <<>>)
                      [] OTHER                                         -> k
    <3>1. LexicallyNormal(base) = [base EXCEPT !.names = m] BY DEF LexicallyNormal
    <3>2. k = <<>> BY DEF KeptOf
    <3>3. m = <<>> \/ m = <<Dot>> BY <3>2
    <3> HIDE DEF m
    <3>4. LexicallyNormal(base).names = m BY <1>2, <3>1 DEF IsAPath
    <3> QED BY <3>3, <3>4
  <2> QED BY <1>1, <2>1
<1> QED BY <1>2, <1>3 DEF LeadsSomewhere

(* GoesDown is what Within asks of the names. *)
LEMMA DownIsBelow ==
  ASSUME NEW S, NEW ks \in Seq(S), NEW ls \in Seq(S), GoesDown(ks, ls)
  PROVE  /\ IsPrefix(ks, ls)
         /\ \A i \in DOMAIN SubSeq(ls, Len(ks) + 1, Len(ls)) :
              SubSeq(ls, Len(ks) + 1, Len(ls))[i] # Parent
<1>1. PICK p \in Nat, q \in Nat : p = Len(ks) /\ q = Len(ls) /\ p <= q BY DEF GoesDown
<1>2. IsPrefix(ks, ls)
  <2>1. Begins(ks, ls) BY DEF GoesDown, Begins
  <2> QED BY <2>1, BeginsIsPrefix
<1>3. PICK b : b = SubSeq(ls, p + 1, q) OBVIOUS
<1>4. DOMAIN b = 1 .. q - p /\ \A i \in 1 .. q - p : b[i] = ls[p + i] BY <1>1, <1>3
<1>5. ASSUME NEW i \in 1 .. q - p PROVE b[i] # Parent
  <2>1. p + i \in p + 1 .. q BY <1>1
  <2> QED BY <1>1, <1>4, <2>1 DEF GoesDown
<1> QED BY <1>1, <1>2, <1>3, <1>4, <1>5

(* A path whose names go down from those of the base is within it. *)
LEMMA DownIsWithin ==
  ASSUME NEW w \in BOOLEAN, NEW base, IsRoot(w, base),
         NEW p, p.drive = base.drive, p.rooted = base.rooted, p.names \in Seq(Name(w)),
         GoesDown(KeptOf(base), p.names)
  PROVE  Within(base, p)
<1>1. IsAPath(Name(w), base) /\ LeadsSomewhere(base) BY RootLeadsDown
<1>2. PICK b : b = Place(LexicallyNormal(base)) OBVIOUS
<1>3. b = [drive |-> base.drive, rooted |-> base.rooted, names |-> KeptOf(base)]
  BY <1>1, <1>2, NormalForm, EmptyIsAName
<1>4. b.drive = base.drive /\ b.rooted = base.rooted /\ b.names = KeptOf(base) BY <1>3
<1>5. KeptOf(base) \in Seq(Name(w)) BY <1>1, KeptIsNormal DEF IsAPath, KeptOf
<1>6. PICK ks \in Seq(Name(w)), ls \in Seq(Name(w)) : ks = KeptOf(base) /\ ls = p.names
  BY <1>5
<1>7. /\ IsPrefix(ks, ls)
      /\ \A i \in DOMAIN SubSeq(ls, Len(ks) + 1, Len(ls)) :
           SubSeq(ls, Len(ks) + 1, Len(ls))[i] # Parent
  BY <1>6, DownIsBelow
<1> QED BY <1>2, <1>4, <1>6, <1>7 DEF Within

(* A path that leads down, and is not one of another drive or from a root,  *)
(* leads down from the base.                                                *)
LEMMA DownwardsStaysWithin ==
  ASSUME NEW w \in BOOLEAN, NEW base, IsRoot(w, base), NEW rel \in PathOn(w),
         ~ContainsParentRef(rel), ~rel.rooted, rel.drive \in {NoDrive, base.drive},
         NEW c, c = Combine(base, rel)
  PROVE  /\ IsAPath(Name(w), c) /\ LeadsSomewhere(c)
         /\ c.drive = base.drive /\ c.rooted = base.rooted
         /\ GoesDown(KeptOf(base), KeptOf(c))
<1>1. /\ IsAPath(Name(w), base) /\ LeadsSomewhere(base)
      /\ base.rooted \/ KeptOf(base) # <<>>
  BY RootLeadsDown
<1>2. IsAPath(Name(w), rel) BY PathOnIsAPath
<1>3. PICK bs \in Seq(Name(w)) : bs = Place(base).names
  BY <1>1, PlaceKeepsNames, TRUE \in BOOLEAN
<1>4. PICK ds \in Seq(Name(w)) : ds = rel.names BY <1>2 DEF IsAPath
<1>5. /\ IsAPath(Name(w), c) /\ c.drive = base.drive /\ c.rooted = base.rooted
      /\ c.names = bs \o ds
  <2>1. (base.rooted \/ rel.rooted) = base.rooted BY <1>1 DEF IsAPath
  <2>2. bs \o ds \in Seq(Name(w)) OBVIOUS
  <2>3. c = [drive |-> base.drive, rooted |-> base.rooted \/ rel.rooted, names |-> bs \o ds]
    BY <1>1, <1>2, <1>3, <1>4, CombineJoins
  <2>4. c = [drive |-> base.drive, rooted |-> base.rooted, names |-> bs \o ds]
    BY <2>1, <2>3
  <2> QED BY <1>1, <2>2, <2>4 DEF IsAPath
<1>6. PICK r \in BOOLEAN : r = base.rooted BY <1>1 DEF IsAPath
<1>7. Kept(r, bs) = KeptOf(base) BY <1>1, <1>3, <1>6, PlaceKeepsNames DEF KeptOf
<1>8. \A i \in DOMAIN ds : ds[i] # Parent BY <1>4 DEF ContainsParentRef
<1>9. GoesDown(Kept(r, bs), Kept(r, bs \o ds)) BY <1>8, KeptGoesDown
<1>10. KeptOf(c) = Kept(r, bs \o ds) BY <1>5, <1>6 DEF KeptOf
<1>11. LeadsSomewhere(c)
  <2>1. CASE base.rooted BY <1>5, <2>1 DEF LeadsSomewhere
  <2>2. CASE KeptOf(base) # <<>>
    <3>1. PICK ks \in Seq(Name(w)), ls \in Seq(Name(w)) : ks = KeptOf(base) /\ ls = KeptOf(c)
      BY <1>1, <1>5, KeptIsNormal DEF IsAPath, KeptOf
    <3>2. ks # <<>> /\ Len(ks) <= Len(ls) BY <1>7, <1>9, <1>10, <2>2, <3>1 DEF GoesDown
    <3>3. ls # <<>> BY <3>2
    <3> QED BY <3>1, <3>3 DEF LeadsSomewhere
  <2> QED BY <1>1, <2>1, <2>2
<1> QED BY <1>5, <1>7, <1>9, <1>10, <1>11

----------------------------------------------------------------------------
(* Texts of paths *)

AnyCharacter == Character \cup Letter \cup Separator \cup {":"}
Sep(w) == IF w THEN "\\" ELSE "/"
Top(w, p) == p.drive \o (IF p.rooted THEN <<Sep(w)>> ELSE <<>>)

LEMMA SepIsSeparator ==
  ASSUME NEW w \in BOOLEAN
  PROVE  Sep(w) \in Separator /\ Sep(w) \in AnyCharacter /\ ":" \notin Separator
BY DEF Sep, Separator, AnyCharacter

LEMMA NamesAreTexts ==
  ASSUME NEW w \in BOOLEAN, NEW ns \in Seq(Name(w))
  PROVE  ns \in Seq(Seq(AnyCharacter))
<1>1. Name(w) \subseteq Seq(AnyCharacter) BY DEF Name, AnyCharacter
<1> QED BY <1>1

LEMMA WindowsNamesAreSeparable ==
  ASSUME NEW ns \in Seq(Name(TRUE))
  PROVE  AreSeparable(AnyCharacter, Separator, ns)
<1>1. ns \in Seq(Seq(AnyCharacter)) BY NamesAreTexts, TRUE \in BOOLEAN
<1>2. ASSUME NEW i \in 1 .. Len(ns), NEW j \in 1 .. Len(ns[i]) PROVE ns[i][j] \notin Separator
  <2>1. ns[i] \in Seq(Character \ Separator) BY DEF Name
  <2> QED BY <2>1
<1> QED BY <1>1, <1>2 DEF AreSeparable

LEMMA TopIsText ==
  ASSUME NEW w \in BOOLEAN, NEW p, p.drive \in Drive(w)
  PROVE  p.drive \in Seq(AnyCharacter) /\ Top(w, p) \in Seq(AnyCharacter)
<1>1. p.drive \in Seq(AnyCharacter)
  <2>1. CASE p.drive = NoDrive
    <3>1. <<>> \in Seq(AnyCharacter) OBVIOUS
    <3> QED BY <2>1, <3>1 DEF NoDrive
  <2>2. CASE p.drive # NoDrive
    <3>1. PICK l \in Letter : p.drive = <<l, ":">> BY <2>2 DEF Drive
    <3>2. l \in AnyCharacter /\ ":" \in AnyCharacter BY DEF AnyCharacter
    <3>3. PICK m \in AnyCharacter, n \in AnyCharacter : m = l /\ n = ":" BY <3>2
    <3>4. <<m, n>> \in Seq(AnyCharacter) OBVIOUS
    <3> QED BY <3>1, <3>3, <3>4
  <2> QED BY <2>1, <2>2
<1>2. PICK s \in AnyCharacter : s = Sep(w) BY SepIsSeparator
<1>3. (IF p.rooted THEN <<s>> ELSE <<>>) \in Seq(AnyCharacter) OBVIOUS
<1> QED BY <1>1, <1>2, <1>3 DEF Top

LEMMA JoinedIsText ==
  ASSUME NEW X, NEW sep \in X, NEW ns \in Seq(Seq(X))
  PROVE  Joined(sep, ns) \in Seq(X)
<1>1. Len(ns) \in Nat /\ Len(ns) \in 0 .. Len(ns) OBVIOUS
<1>2. PICK v : IsJoining(v, sep, ns, Len(ns)) /\ Joined(sep, ns) = v[Len(ns)]
  BY <1>1, JoinedIsReached
<1> QED BY <1>1, <1>2, JoiningIsText

LEMMA JoinedNone ==
  ASSUME NEW sep
  PROVE  Joined(sep, <<>>) = <<>>
<1>1. Len(<<>>) = 0 OBVIOUS
<1>2. PICK v : IsJoining(v, sep, <<>>, 0) /\ Joined(sep, <<>>) = v[0]
  BY <1>1, JoinedIsReached
<1> QED BY <1>2, JoiningUnfolds

(* The text of the first names is where the text of them all may break off. *)
LEMMA JoinedBreaksOff ==
  ASSUME NEW X, NEW sep \in X, NEW Q, sep \in Q,
         NEW ks \in Seq(Seq(X)), NEW ns \in Seq(Seq(X)), ks # <<>>, Len(ks) <= Len(ns),
         AgreeUpTo(Len(ks), ks, ns)
  PROVE  BreaksOff(Joined(sep, ks), Joined(sep, ns), Q)
<1>1. PICK p \in Nat, q \in Nat : p = Len(ks) /\ q = Len(ns) OBVIOUS
<1>2. PICK v : IsJoining(v, sep, ks, p) /\ Joined(sep, ks) = v[p] BY <1>1, JoinedIsReached
<1>3. PICK w : IsJoining(w, sep, ns, q) /\ Joined(sep, ns) = w[q] BY <1>1, JoinedIsReached
<1>4. v[p] = w[p]
  <2>1. p <= p /\ p <= q /\ AgreeUpTo(p, ks, ns) BY <1>1
  <2> QED BY <1>2, <1>3, <2>1, JoiningsAgree
<1>5. p \in 1 .. q BY <1>1
<1>6. Begins(w[p], w[q]) /\ (p \in 1 .. q - 1 => w[q][Len(w[p]) + 1] = sep)
  <2>1. IsJoining(w, sep, ns, Len(ns)) /\ p \in 0 .. Len(ns) BY <1>1, <1>3, <1>5
  <2>2. Begins(w[p], w[Len(ns)]) BY <2>1, JoiningBegins
  <2>3. p \in 1 .. Len(ns) - 1 => w[Len(ns)][Len(w[p]) + 1] = sep BY <2>1, JoiningBegins
  <2> QED BY <1>1, <2>2, <2>3
<1>7. p = q => ~(Len(w[p]) < Len(w[q]))
  <2>1. w[q] \in Seq(X) BY <1>1, <1>3, JoiningIsText, q \in 0 .. q
  <2>2. Len(w[q]) \in Nat BY <2>1
  <2> QED BY <2>2
<1>8. p # q => p \in 1 .. q - 1 BY <1>1, <1>5
<1>9. BreaksOff(w[p], w[q], Q) BY <1>6, <1>7, <1>8 DEF BreaksOff
<1> QED BY <1>2, <1>3, <1>4, <1>9

(* The text begins with the first name. *)
LEMMA JoinedFirst ==
  ASSUME NEW X, NEW sep \in X, NEW ks \in Seq(Seq(X)), ks # <<>>, ks[1] # <<>>
  PROVE  Len(Joined(sep, ks)) >= 1 /\ Joined(sep, ks)[1] = ks[1][1]
<1>1. PICK p \in Nat : p = Len(ks) /\ p >= 1 OBVIOUS
<1>2. PICK v : IsJoining(v, sep, ks, p) /\ Joined(sep, ks) = v[p] BY <1>1, JoinedIsReached
<1>3. PICK n \in Seq(X) : n = ks[1] BY <1>1, 1 \in 1 .. p
<1>4. PICK t \in Seq(X) : t = v[p] BY <1>1, <1>2, JoiningIsText, p \in 0 .. p
<1>5. v[0] = <<>> /\ v[0 + 1] = Link(sep, v[0], 0 + 1, ks[0 + 1])
  <2>1. v[0] = <<>> /\ \A i \in 0 .. p - 1 : v[i + 1] = Link(sep, v[i], i + 1, ks[i + 1])
    BY <1>2, JoiningUnfolds
  <2>2. 0 \in 0 .. p - 1 BY <1>1
  <2> QED BY <2>1, <2>2
<1>6. v[1] = n
  <2>1. v[1] = Link(sep, <<>>, 1, n) BY <1>3, <1>5, 0 + 1 = 1
  <2>2. Link(sep, <<>>, 1, n) = n BY DEF Link
  <2> QED BY <2>1, <2>2
<1>7. Begins(n, t) BY <1>1, <1>2, <1>4, <1>6, JoiningBegins, 1 \in 0 .. p
<1>8. Len(n) >= 1 /\ Len(t) \in Nat BY <1>3
<1>9. Len(t) >= 1 /\ t[1] = n[1] BY <1>7, <1>8 DEF Begins
<1> QED BY <1>2, <1>3, <1>4, <1>9

(* An empty name at the end shows as a separator at the end. *)
LEMMA JoinedAppendEmpty ==
  ASSUME NEW X, NEW sep \in X, NEW ks \in Seq(Seq(X)), ks # <<>>
  PROVE  Joined(sep, Append(ks, <<>>)) = Joined(sep, ks) \o <<sep>>
<1>1. PICK p \in Nat \ {0} : p = Len(ks) BY Len(ks) \in Nat \ {0}
<1>2. PICK ls \in Seq(Seq(X)) : ls = Append(ks, <<>>)
  BY <<>> \in Seq(X), Append(ks, <<>>) \in Seq(Seq(X))
<1>3. Len(ls) = p + 1 /\ ls[p + 1] = <<>> /\ AgreeUpTo(p, ks, ls)
  BY <1>1, <1>2 DEF AgreeUpTo
<1>4. PICK v : IsJoining(v, sep, ks, p) /\ Joined(sep, ks) = v[p] BY <1>1, JoinedIsReached
<1>5. PICK q \in Nat : q = p + 1 OBVIOUS
<1>6. PICK w : IsJoining(w, sep, ls, q) /\ Joined(sep, ls) = w[q]
  BY <1>3, <1>5, JoinedIsReached
<1>7. v[p] = w[p]
  <2>1. p <= p /\ p <= q BY <1>5
  <2> QED BY <1>3, <1>4, <1>6, <2>1, JoiningsAgree
<1>8. w[q] = Link(sep, w[p], q, <<>>)
  <2>1. p \in 0 .. q - 1 BY <1>5
  <2>2. w[p + 1] = Link(sep, w[p], p + 1, ls[p + 1]) BY <1>6, <2>1, JoiningUnfolds
  <2> QED BY <1>3, <1>5, <2>2
<1>9. PICK t \in Seq(X) : t = v[p] BY <1>1, <1>4, JoiningIsText, p \in 0 .. p
<1>10. Link(sep, t, q, <<>>) = t \o <<sep>>
  <2>1. q # 1 BY <1>5
  <2>2. Link(sep, t, q, <<>>) = t \o <<sep>> \o <<>> BY <2>1 DEF Link
  <2>3. t \o <<sep>> \in Seq(X) OBVIOUS
  <2>4. \A s \in Seq(X) : s \o <<>> = s OBVIOUS
  <2> QED BY <2>2, <2>3, <2>4
<1> QED BY <1>2, <1>4, <1>6, <1>7, <1>8, <1>9, <1>10

(* The text ends with the last name. *)
LEMMA JoinedLast ==
  ASSUME NEW X, NEW sep \in X, NEW ks \in Seq(Seq(X)), ks # <<>>, ks[Len(ks)] # <<>>
  PROVE  Joined(sep, ks) # <<>> /\ Last(Joined(sep, ks)) = Last(ks[Len(ks)])
<1>1. PICK p \in Nat \ {0} : p = Len(ks) BY Len(ks) \in Nat \ {0}
<1>2. PICK v : IsJoining(v, sep, ks, p) /\ Joined(sep, ks) = v[p] BY <1>1, JoinedIsReached
<1>3. PICK n \in Seq(X) : n = ks[p] BY <1>1, p \in 1 .. p
<1>4. PICK q \in Nat : q + 1 = p BY p - 1 \in Nat
<1>5. PICK s \in Seq(X), t \in Seq(X) : s = v[q] /\ t = v[p]
  BY <1>1, <1>2, <1>4, JoiningIsText, p \in 0 .. p, q \in 0 .. p
<1>6. t = Link(sep, s, p, n)
  <2>1. v[q + 1] = Link(sep, v[q], q + 1, ks[q + 1])
    BY <1>2, <1>4, JoiningUnfolds, q \in 0 .. p - 1
  <2> QED BY <1>3, <1>4, <1>5, <2>1
<1>7. IsLinked(sep, s, p, n, t) BY <1>6, JoiningGrows
<1>8. Len(n) \in 1 .. Len(n) /\ Len(s) + Gap(p) \in Nat BY <1>1, <1>3 DEF Gap
<1>9. t[Len(s) + Gap(p) + Len(n)] = n[Len(n)] /\ Len(t) = Len(s) + Gap(p) + Len(n)
  BY <1>7, <1>8 DEF IsLinked
<1>10. t # <<>> BY <1>8, <1>9
<1> QED BY <1>1, <1>2, <1>3, <1>5, <1>9, <1>10 DEF Last

(* Behind the same beginning. *)
LEMMA BreaksOffBehind ==
  ASSUME NEW X, NEW s \in Seq(X), NEW x \in Seq(X), NEW y \in Seq(X), NEW Q
  PROVE  BreaksOff(s \o x, s \o y, Q) <=> BreaksOff(x, y, Q)
<1>1. PICK l \in Nat, m \in Nat, n \in Nat : l = Len(s) /\ m = Len(x) /\ n = Len(y)
  OBVIOUS
<1>2. PICK u \in Seq(X) : u = s \o x BY s \o x \in Seq(X)
<1>3. PICK v \in Seq(X) : v = s \o y BY s \o y \in Seq(X)
<1>4. /\ Len(u) = l + m /\ (\A i \in 1 .. l : u[i] = s[i]) /\ \A i \in 1 .. m : u[l + i] = x[i]
      /\ Len(v) = l + n /\ (\A i \in 1 .. l : v[i] = s[i]) /\ \A i \in 1 .. n : v[l + i] = y[i]
  BY <1>1, <1>2, <1>3, Concatenated
<1>5. ASSUME BreaksOff(x, y, Q) PROVE BreaksOff(u, v, Q)
  <2>1. m <= n /\ (\A i \in 1 .. m : y[i] = x[i]) /\ (m < n => y[m + 1] \in Q)
    BY <1>1, <1>5 DEF BreaksOff, Begins
  <2>2. ASSUME NEW i \in 1 .. l + m PROVE v[i] = u[i]
    <3>1. CASE i \in 1 .. l BY <1>4, <3>1
    <3>2. CASE i \notin 1 .. l
      <4>1. PICK j \in 1 .. m : i = l + j BY <3>2, i - l \in 1 .. m, i = l + (i - l)
      <4>2. j \in 1 .. n BY <2>1
      <4>3. u[l + j] = x[j] /\ v[l + j] = y[j] /\ y[j] = x[j] BY <1>4, <2>1, <4>2
      <4> QED BY <4>1, <4>3
    <3> QED BY <3>1, <3>2
  <2>3. m < n => v[(l + m) + 1] \in Q
    <3> SUFFICES ASSUME m < n PROVE v[(l + m) + 1] \in Q OBVIOUS
    <3>1. m + 1 \in 1 .. n /\ (l + m) + 1 = l + (m + 1) OBVIOUS
    <3>2. v[l + (m + 1)] = y[m + 1] BY <1>4, <3>1
    <3> QED BY <2>1, <3>1, <3>2
  <2> QED BY <1>4, <2>1, <2>2, <2>3 DEF BreaksOff, Begins
<1>6. ASSUME BreaksOff(u, v, Q) PROVE BreaksOff(x, y, Q)
  <2>1. l + m <= l + n /\ (\A i \in 1 .. l + m : v[i] = u[i])
        /\ (l + m < l + n => v[(l + m) + 1] \in Q)
    BY <1>4, <1>6 DEF BreaksOff, Begins
  <2>2. m <= n BY <2>1
  <2>3. ASSUME NEW i \in 1 .. m PROVE y[i] = x[i]
    <3>1. i \in 1 .. n /\ l + i \in 1 .. l + m BY <2>2
    <3>2. u[l + i] = x[i] /\ v[l + i] = y[i] /\ v[l + i] = u[l + i] BY <1>4, <2>1, <3>1
    <3> QED BY <3>2
  <2>4. m < n => y[m + 1] \in Q
    <3> SUFFICES ASSUME m < n PROVE y[m + 1] \in Q OBVIOUS
    <3>1. m + 1 \in 1 .. n /\ (l + m) + 1 = l + (m + 1) OBVIOUS
    <3>2. v[l + (m + 1)] = y[m + 1] BY <1>4, <3>1
    <3>3. l + m < l + n OBVIOUS
    <3>4. v[(l + m) + 1] \in Q BY <2>1, <3>3
    <3> QED BY <3>1, <3>2, <3>4
  <2>5. Begins(x, y) BY <1>1, <2>2, <2>3 DEF Begins
  <2> QED BY <1>1, <2>4, <2>5 DEF BreaksOff
<1> QED BY <1>2, <1>3, <1>5, <1>6

(* The text of a path in its normal form. *)
Ends(ks, ns) == ns = ks \/ (ks # <<>> /\ ns = Append(ks, <<>>))

(* The text of a normal form, with or without a separator at the end. *)
LEMMA NormalText ==
  ASSUME NEW w \in BOOLEAN, NEW p, IsAPath(Name(w), p), LeadsSomewhere(p)
  PROVE  \E ns \in Seq(Name(w)) :
           /\ Ends(KeptOf(p), ns)
           /\ PathText(w, LexicallyNormal(p)) = Top(w, p) \o Joined(Sep(w), ns)
<1>1. PICK q : q = LexicallyNormal(p) OBVIOUS
<1>2. /\ IsAPath(Name(w), q) /\ q.drive = p.drive /\ q.rooted = p.rooted
      /\ q.names = KeptOf(p) \/ (KeptOf(p) # <<>> /\ q.names = Append(KeptOf(p), <<>>))
  BY <1>1, EmptyIsAName, NormalForm
<1>3. PICK ns \in Seq(Name(w)) : ns = q.names BY <1>2 DEF IsAPath
<1>4. Ends(KeptOf(p), ns) BY <1>2, <1>3 DEF Ends
<1>5. PathText(w, q) = Top(w, q) \o Joined(Sep(w), ns) BY <1>3 DEF PathText, Top, Sep
<1>6. Top(w, q) = Top(w, p) BY <1>2 DEF Top
<1> QED BY <1>1, <1>4, <1>5, <1>6

(* The text up to the last name. *)
PlainText(w, p) == Top(w, p) \o Joined(Sep(w), KeptOf(p))

LEMMA KeptAreNames ==
  ASSUME NEW w \in BOOLEAN, NEW p, IsAPath(Name(w), p)
  PROVE  /\ KeptOf(p) \in Seq(Name(w)) /\ KeptOf(p) \in Seq(Seq(AnyCharacter))
         /\ IsNormal(p.rooted, KeptOf(p))
<1>1. KeptOf(p) \in Seq(Name(w)) /\ IsNormal(p.rooted, KeptOf(p))
  BY KeptIsNormal DEF IsAPath, KeptOf
<1> QED BY <1>1, NamesAreTexts

LEMMA PlainTextIsText ==
  ASSUME NEW w \in BOOLEAN, NEW p, IsAPath(Name(w), p), p.drive \in Drive(w)
  PROVE  PlainText(w, p) \in Seq(AnyCharacter)
<1>1. PICK ks \in Seq(Seq(AnyCharacter)) : ks = KeptOf(p) BY KeptAreNames
<1>2. PICK s \in AnyCharacter : s = Sep(w) BY SepIsSeparator
<1>3. Joined(s, ks) \in Seq(AnyCharacter) BY JoinedIsText
<1>4. Top(w, p) \in Seq(AnyCharacter) BY TopIsText
<1> QED BY <1>1, <1>2, <1>3, <1>4 DEF PlainText

(* The base's text is its plain text; on POSIX it may lack a backslash at   *)
(* the end.                                                                 *)
IsBaseText(w, b, t) ==
  /\ b = t \/ (b = Front(t) /\ t # <<>> /\ Last(t) \in Separator)
  /\ w => b = t

(* The base that isPathTraversalSafe compares with, if the base has a      *)
(* name left.                                                              *)
LEMMA BaseTextIs ==
  ASSUME NEW w \in BOOLEAN, NEW base, IsRoot(w, base), KeptOf(base) # <<>>
  PROVE  IsBaseText(w, BaseText(w, base), PlainText(w, base))
<1>1. /\ IsAPath(Name(w), base) /\ base.drive \in Drive(w) /\ LeadsSomewhere(base)
  BY RootLeadsDown
<1>2. PICK ks : ks = KeptOf(base) OBVIOUS
<1>3. /\ ks \in Seq(Name(w)) /\ ks \in Seq(Seq(AnyCharacter))
      /\ IsNormal(base.rooted, ks) /\ ks # <<>>
  BY <1>1, <1>2, KeptAreNames
<1>4. PICK s : s = Sep(w) OBVIOUS
<1>5. s \in AnyCharacter /\ s \in Separator BY <1>4, SepIsSeparator
<1>6. PICK j \in Seq(AnyCharacter) : j = Joined(s, ks) BY <1>3, <1>5, JoinedIsText
<1>7. PICK x \in Seq(AnyCharacter) : x = Top(w, base) BY <1>1, TopIsText
<1>8. PICK t \in Seq(AnyCharacter) : t = x \o j BY x \o j \in Seq(AnyCharacter)
<1>9. t = PlainText(w, base) BY <1>2, <1>4, <1>6, <1>7, <1>8 DEF PlainText
<1>10. PICK ns \in Seq(Name(w)) :
         Ends(ks, ns) /\ PathText(w, LexicallyNormal(base)) = x \o Joined(s, ns)
  BY <1>1, <1>2, <1>4, <1>7, NormalText
<1>11. PICK u : u = PathText(w, LexicallyNormal(base)) OBVIOUS
<1>12. BaseText(w, base) = IF u # <<>> /\ Last(u) \in Separator THEN Front(u) ELSE u
  BY <1>11 DEF BaseText
<1>13. CASE ns = Append(ks, <<>>)
  <2>1. Joined(s, ns) = j \o <<s>> BY <1>3, <1>5, <1>6, <1>13, JoinedAppendEmpty
  <2>2. u = t \o <<s>> BY <1>5, <1>8, <1>10, <1>11, <2>1
  <2>3. u # <<>> /\ Last(u) = s /\ Front(u) = t
    <3>1. u \in Seq(AnyCharacter) /\ Len(u) = Len(t) + 1 /\ u[Len(t) + 1] = s /\ Len(t) \in Nat
      BY <1>5, <2>2
    <3>2. SubSeq(u, 1, Len(t)) = t BY <1>5, <2>2
    <3>3. (Len(t) + 1) - 1 = Len(t) /\ u # <<>> BY <3>1
    <3> QED BY <3>1, <3>2, <3>3 DEF Last, Front
  <2> QED BY <1>5, <1>9, <1>12, <2>3 DEF IsBaseText
<1>14. CASE ns = ks
  <2>1. u = t BY <1>6, <1>8, <1>10, <1>11, <1>14
  <2>2. w => Last(t) \notin Separator
    <3> SUFFICES ASSUME w PROVE Last(t) \notin Separator OBVIOUS
    <3>1. PICK m \in Nat \ {0} : m = Len(ks) BY <1>3, Len(ks) \in Nat \ {0}
    <3>2. PICK n : n = ks[m] OBVIOUS
    <3>3. n \in Seq(Character \ Separator) /\ n # <<>>
      BY <1>3, <3>1, <3>2, m \in 1 .. m DEF IsNormal, Name
    <3>4. j # <<>> /\ Last(j) = Last(n) BY <1>3, <1>5, <1>6, <3>1, <3>2, <3>3, JoinedLast
    <3>5. Last(n) \notin Separator
      <4>1. Len(n) \in 1 .. Len(n) BY <3>3
      <4> QED BY <3>3, <4>1 DEF Last
    <3>6. Last(t) = Last(j)
      <4>1. Len(j) \in 1 .. Len(j) /\ Len(x) \in Nat BY <3>4
      <4>2. Len(t) = Len(x) + Len(j) /\ t[Len(x) + Len(j)] = j[Len(j)]
        BY <1>8, <4>1, Concatenated
      <4> QED BY <4>2 DEF Last
    <3> QED BY <3>4, <3>5, <3>6
  <2> QED BY <1>9, <1>12, <2>1, <2>2 DEF IsBaseText
<1> QED BY <1>10, <1>13, <1>14 DEF Ends

(* The base that isPathTraversalSafe compares with, if there is none. *)
LEMMA TopOfTheTree ==
  ASSUME NEW w \in BOOLEAN, NEW base, IsRoot(w, base), KeptOf(base) = <<>>
  PROVE  base.rooted /\ BaseText(w, base) = base.drive
<1>1. /\ IsAPath(Name(w), base) /\ base.drive \in Drive(w)
      /\ LeadsSomewhere(base) /\ base.rooted
  BY RootLeadsDown
<1>2. PICK s : s = Sep(w) OBVIOUS
<1>3. s \in AnyCharacter /\ s \in Separator BY <1>2, SepIsSeparator
<1>4. PICK d \in Seq(AnyCharacter) : d = base.drive BY <1>1, TopIsText
<1>5. Top(w, base) = d \o <<s>> BY <1>1, <1>2, <1>4 DEF Top
<1>6. PICK u : u = PathText(w, LexicallyNormal(base)) OBVIOUS
<1>7. u = d \o <<s>>
  <2>1. PICK ns \in Seq(Name(w)) : Ends(<<>>, ns) /\ u = Top(w, base) \o Joined(s, ns)
    BY <1>1, <1>2, <1>6, NormalText
  <2>2. Joined(s, ns) = <<>> BY <2>1, JoinedNone DEF Ends
  <2>3. d \o <<s>> \in Seq(AnyCharacter) BY <1>3
  <2> QED BY <1>5, <2>1, <2>2, <2>3
<1>8. u # <<>> /\ Last(u) = s /\ Front(u) = d
  <2>1. u \in Seq(AnyCharacter) /\ Len(u) = Len(d) + 1 /\ u[Len(d) + 1] = s /\ Len(d) \in Nat
    BY <1>3, <1>7
  <2>2. SubSeq(u, 1, Len(d)) = d BY <1>3, <1>7
  <2>3. (Len(d) + 1) - 1 = Len(d) /\ u # <<>> BY <2>1
  <2> QED BY <2>1, <2>2, <2>3 DEF Last, Front
<1>9. BaseText(w, base) = IF u # <<>> /\ Last(u) \in Separator THEN Front(u) ELSE u
  BY <1>6 DEF BaseText
<1> QED BY <1>1, <1>3, <1>4, <1>8, <1>9

(* The text that is compared with it: toFull and then isPathTraversalSafe   *)
(* put the path into its normal form.                                       *)
FullText(w, c) == PathText(w, LexicallyNormal(LexicallyNormal(c)))

LEMMA FullTextIs ==
  ASSUME NEW w \in BOOLEAN, NEW c, IsAPath(Name(w), c), LeadsSomewhere(c)
  PROVE  \E ns \in Seq(Name(w)) :
           /\ Ends(KeptOf(c), ns)
           /\ FullText(w, c) = Top(w, c) \o Joined(Sep(w), ns)
<1>1. PICK q : q = LexicallyNormal(c) OBVIOUS
<1>2. /\ IsAPath(Name(w), q) /\ q.drive = c.drive /\ q.rooted = c.rooted
      /\ KeptOf(q) = KeptOf(c) /\ LeadsSomewhere(q)
  BY <1>1, EmptyIsAName, NormalForm
<1>3. Top(w, q) = Top(w, c) BY <1>2 DEF Top
<1>4. PICK ns \in Seq(Name(w)) :
        /\ Ends(KeptOf(q), ns)
        /\ PathText(w, LexicallyNormal(q)) = Top(w, q) \o Joined(Sep(w), ns)
  BY <1>2, NormalText
<1> QED BY <1>1, <1>2, <1>3, <1>4 DEF FullText

LEMMA BaseTextIsText ==
  ASSUME NEW w \in BOOLEAN, NEW base, IsRoot(w, base)
  PROVE  BaseText(w, base) \in Seq(AnyCharacter)
<1>1. IsAPath(Name(w), base) /\ base.drive \in Drive(w) BY RootLeadsDown
<1>2. CASE KeptOf(base) = <<>> BY <1>1, <1>2, TopOfTheTree, TopIsText
<1>3. CASE KeptOf(base) # <<>>
  <2>1. PICK t \in Seq(AnyCharacter) : t = PlainText(w, base) BY <1>1, PlainTextIsText
  <2>2. IsBaseText(w, BaseText(w, base), t) BY <1>3, <2>1, BaseTextIs
  <2>3. t # <<>> => Front(t) \in Seq(AnyCharacter) BY DEF Front
  <2> QED BY <2>2, <2>3 DEF IsBaseText
<1> QED BY <1>2, <1>3

(* What isPathTraversalSafe looks at, character by character. *)
LEMMA SafeIsBreaksOff ==
  ASSUME NEW w \in BOOLEAN, NEW base, NEW full, NEW X,
         NEW b \in Seq(X), b = BaseText(w, base),
         NEW f \in Seq(X), f = PathText(w, LexicallyNormal(full))
  PROVE  IsPathTraversalSafe(w, base, full) <=> BreaksOff(b, f, Separator)
<1>1. IsPrefix(b, f) <=> Begins(b, f) BY BeginsIsPrefix
<1>2. Len(f) > Len(b) <=> Len(b) < Len(f) OBVIOUS
<1> QED BY <1>1, <1>2 DEF IsPathTraversalSafe, BreaksOff

----------------------------------------------------------------------------
(* What comes out leads to the base or below it *)

(* The resolved path of c, as far as it leads. *)
LeadsWithin(w, base, c) ==
  /\ IsAPath(Name(w), c) /\ LeadsSomewhere(c)
  /\ c.drive = base.drive /\ c.rooted = base.rooted
  /\ GoesDown(KeptOf(base), KeptOf(c))

LEMMA SequenceOf ==
  ASSUME NEW S, NEW T, NEW s \in Seq(S), \A i \in 1 .. Len(s) : s[i] \in T
  PROVE  s \in Seq(T)
<1>1. PICK n \in Nat : n = Len(s) OBVIOUS
<1>2. s = [i \in 1 .. n |-> s[i]] BY <1>1
<1>3. s \in [1 .. n -> T] BY <1>1, <1>2
<1> QED BY <1>1, <1>3

LEMMA DrivesDiffer ==
  ASSUME NEW d \in Drive(TRUE), d # NoDrive
  PROVE  \E l \in Letter :
           /\ d = <<l, ":">> /\ d[1] = l /\ d[2] = ":" /\ Len(d) = 2
           /\ l \notin Separator /\ l # ":"
<1>1. PICK l \in Letter : d = <<l, ":">> BY DEF Drive
<1>2. l \notin Separator /\ l # ":" BY LetterAssumption
<1> QED BY <1>1, <1>2

(* The base's text begins with its drive. *)
LEMMA BaseBeginsWithDrive ==
  ASSUME NEW base, IsRoot(TRUE, base), NEW b, b = BaseText(TRUE, base)
  PROVE  Begins(base.drive, b)
<1>1. IsAPath(Name(TRUE), base) /\ base.drive \in Drive(TRUE)
  BY RootLeadsDown, TRUE \in BOOLEAN
<1>2. PICK d \in Seq(AnyCharacter) : d = base.drive BY <1>1, TopIsText, TRUE \in BOOLEAN
<1>3. CASE KeptOf(base) = <<>>
  <2>1. b = d BY <1>2, <1>3, TopOfTheTree, TRUE \in BOOLEAN
  <2>2. Begins(d, d) BY DEF Begins
  <2> QED BY <1>2, <2>1, <2>2
<1>4. CASE KeptOf(base) # <<>>
  <2>1. IsBaseText(TRUE, b, PlainText(TRUE, base)) BY <1>4, BaseTextIs, TRUE \in BOOLEAN
  <2>2. PICK j \in Seq(AnyCharacter) : j = Joined(Sep(TRUE), KeptOf(base))
    <3>1. KeptOf(base) \in Seq(Seq(AnyCharacter)) BY <1>1, KeptAreNames, TRUE \in BOOLEAN
    <3> QED BY <3>1, JoinedIsText, SepIsSeparator, TRUE \in BOOLEAN
  <2>3. PICK s \in AnyCharacter : s = Sep(TRUE) BY SepIsSeparator, TRUE \in BOOLEAN
  <2>4. PICK r \in Seq(AnyCharacter) : r = (IF base.rooted THEN <<s>> ELSE <<>>)
    BY <<s>> \in Seq(AnyCharacter), <<>> \in Seq(AnyCharacter)
  <2>5. PICK x \in Seq(AnyCharacter) : x = d \o r BY d \o r \in Seq(AnyCharacter)
  <2>6. b = x \o j BY <1>2, <2>1, <2>2, <2>3, <2>4, <2>5 DEF IsBaseText, PlainText, Top
  <2>7. PICK u \in Seq(AnyCharacter) : u = b BY <2>6, x \o j \in Seq(AnyCharacter)
  <2>8. Len(u) = Len(x) + Len(j) /\ \A i \in 1 .. Len(x) : u[i] = x[i]
    BY <2>6, <2>7, Concatenated
  <2>9. Len(x) = Len(d) + Len(r) /\ \A i \in 1 .. Len(d) : x[i] = d[i]
    BY <2>5, Concatenated
  <2>10. Len(d) \in Nat /\ Len(r) \in Nat /\ Len(j) \in Nat OBVIOUS
  <2>11. Begins(d, u) BY <2>8, <2>9, <2>10 DEF Begins
  <2> QED BY <1>2, <2>7, <2>11
<1> QED BY <1>3, <1>4

(* A path of another drive fails the comparison of texts. *)
LEMMA AnotherDriveIsRefused ==
  ASSUME NEW base, IsRoot(TRUE, base), NEW c, IsAPath(Name(TRUE), c), c.drive \in Drive(TRUE),
         c.drive \notin {NoDrive, base.drive}
  PROVE  ~IsPathTraversalSafe(TRUE, base, LexicallyNormal(c))
<1> SUFFICES ASSUME IsPathTraversalSafe(TRUE, base, LexicallyNormal(c)) PROVE FALSE
  OBVIOUS
<1>0. TRUE \in BOOLEAN /\ LeadsSomewhere(c) BY DEF LeadsSomewhere
<1>1. /\ IsAPath(Name(TRUE), base) /\ base.drive \in Drive(TRUE)
      /\ base.rooted \/ KeptOf(base) # <<>>
  BY <1>0, RootLeadsDown
<1>2. PICK l \in Letter : /\ c.drive = <<l, ":">> /\ c.drive[1] = l /\ c.drive[2] = ":"
                          /\ Len(c.drive) = 2 /\ l \notin Separator /\ l # ":"
  BY DrivesDiffer
<1>3. PICK d \in Seq(AnyCharacter) : d = c.drive BY <1>0, TopIsText
<1>4. PICK b \in Seq(AnyCharacter) : b = BaseText(TRUE, base) BY <1>0, BaseTextIsText
<1>5. PICK ns \in Seq(Name(TRUE)) :
        FullText(TRUE, c) = Top(TRUE, c) \o Joined(Sep(TRUE), ns)
  BY <1>0, FullTextIs
<1>6. PICK s \in AnyCharacter : s = Sep(TRUE) /\ s \in Separator BY <1>0, SepIsSeparator
<1>7. PICK j \in Seq(AnyCharacter) : j = Joined(s, ns)
  <2>1. ns \in Seq(Seq(AnyCharacter)) BY <1>0, NamesAreTexts
  <2> QED BY <2>1, JoinedIsText
<1>8. PICK r \in Seq(AnyCharacter) : r = (IF c.rooted THEN <<s>> ELSE <<>>)
  BY <<s>> \in Seq(AnyCharacter), <<>> \in Seq(AnyCharacter)
<1>9. PICK x \in Seq(AnyCharacter) : x = d \o r BY d \o r \in Seq(AnyCharacter)
<1>10. PICK f \in Seq(AnyCharacter) : f = x \o j BY x \o j \in Seq(AnyCharacter)
<1>11. f = FullText(TRUE, c)
  BY <1>3, <1>5, <1>6, <1>7, <1>8, <1>9, <1>10 DEF Top
<1>12. Len(f) >= 2 /\ f[1] = l /\ f[2] = ":"
  <2>1. /\ Len(f) = Len(x) + Len(j) /\ \A i \in 1 .. Len(x) : f[i] = x[i]
        /\ Len(x) = Len(d) + Len(r) /\ \A i \in 1 .. Len(d) : x[i] = d[i]
    BY <1>9, <1>10, Concatenated
  <2>2. Len(r) \in Nat /\ Len(j) \in Nat /\ Len(d) = 2 /\ d[1] = l /\ d[2] = ":"
    BY <1>2, <1>3
  <2> QED BY <2>1, <2>2
<1>13. BreaksOff(b, f, Separator) BY <1>0, <1>4, <1>11, SafeIsBreaksOff DEF FullText
<1>14. /\ Len(b) <= Len(f) /\ (\A i \in 1 .. Len(b) : f[i] = b[i])
       /\ (Len(b) < Len(f) => f[Len(b) + 1] \in Separator)
       /\ Len(b) \in Nat
  BY <1>13 DEF BreaksOff, Begins
<1>15. CASE base.drive # NoDrive
  <2>1. PICK m \in Letter : base.drive = <<m, ":">> /\ base.drive[1] = m /\ Len(base.drive) = 2
    BY <1>1, <1>15, DrivesDiffer
  <2>2. Begins(base.drive, b) BY <1>4, BaseBeginsWithDrive
  <2>3. Len(b) >= 2 /\ b[1] = m
    <3>1. 2 <= Len(b) /\ \A i \in 1 .. 2 : b[i] = base.drive[i] BY <2>1, <2>2 DEF Begins
    <3> QED BY <1>14, <2>1, <3>1
  <2>4. f[1] = b[1]
    <3>1. 1 \in 1 .. Len(b) BY <1>14, <2>3
    <3>2. \A i \in 1 .. Len(b) : f[i] = b[i] BY <1>14
    <3> QED BY <3>1, <3>2
  <2>5. m = l BY <1>12, <2>3, <2>4
  <2> QED BY <1>2, <2>1, <2>5
<1>16. CASE base.drive = NoDrive /\ KeptOf(base) = <<>>
  <2>1. b = <<>> BY <1>0, <1>4, <1>16, TopOfTheTree DEF NoDrive
  <2>2. f[0 + 1] \in Separator BY <1>12, <1>14, <2>1
  <2> QED BY <1>2, <1>12, <2>2
<1>17. CASE base.drive = NoDrive /\ KeptOf(base) # <<>>
  <2>1. b = PlainText(TRUE, base) BY <1>0, <1>4, <1>17, BaseTextIs DEF IsBaseText
  <2>2. PICK k \in Seq(AnyCharacter) : k = Joined(s, KeptOf(base))
    <3>1. KeptOf(base) \in Seq(Seq(AnyCharacter)) BY <1>0, <1>1, KeptAreNames
    <3> QED BY <3>1, JoinedIsText
  <2>3. CASE base.rooted
    <3>1. Top(TRUE, base) = <<s>>
      <4>1. Top(TRUE, base) = <<>> \o <<s>> BY <1>6, <1>17, <2>3 DEF Top, NoDrive
      <4>2. <<s>> \in Seq(AnyCharacter) OBVIOUS
      <4>3. \A t \in Seq(AnyCharacter) : <<>> \o t = t OBVIOUS
      <4> QED BY <4>1, <4>2, <4>3
    <3>2. b = <<s>> \o k BY <1>6, <2>1, <2>2, <3>1 DEF PlainText
    <3>3. b[1] = s /\ 1 \in 1 .. Len(b) BY <3>2
    <3>4. f[1] = b[1] BY <1>14, <3>3
    <3>5. l = s BY <1>12, <3>3, <3>4
    <3> QED BY <1>2, <1>6, <3>5
  <2>4. CASE ~base.rooted
    <3>1. Top(TRUE, base) = <<>>
      <4>1. Top(TRUE, base) = <<>> \o <<>> BY <1>17, <2>4 DEF Top, NoDrive
      <4>2. <<>> \in Seq(AnyCharacter) /\ \A t \in Seq(AnyCharacter) : <<>> \o t = t
        OBVIOUS
      <4> QED BY <4>1, <4>2
    <3>2. b = k
      <4>1. b = <<>> \o k BY <1>6, <2>1, <2>2, <3>1 DEF PlainText
      <4> QED BY <4>1
    <3> DEFINE X == (Character \ {":"}) \cup {s}
    <3>3. KeptOf(base) \in Seq(Seq(X))
      <4>1. base.names \in Seq(Seq(X))
        <5>1. /\ base.names \in Seq(Name(TRUE))
              /\ \A i \in DOMAIN base.names : ":" \notin ToSet(base.names[i])
          BY <1>1 DEF IsAPath, IsRoot
        <5>2. PICK bs \in Seq(Name(TRUE)) : bs = base.names BY <5>1
        <5>3. ASSUME NEW i \in 1 .. Len(bs) PROVE bs[i] \in Seq(X)
          <6>1. PICK n : n = bs[i] OBVIOUS
          <6>2. n \in Seq(Character) BY <6>1 DEF Name
          <6>3. ":" \notin {n[m] : m \in DOMAIN n} BY <5>1, <5>2, <6>1 DEF ToSet
          <6>4. \A m \in 1 .. Len(n) : n[m] \in X BY <6>2, <6>3
          <6> HIDE DEF X
          <6>5. n \in Seq(X) BY <6>2, <6>4, SequenceOf
          <6> QED BY <6>1, <6>5
        <5> HIDE DEF X
        <5>4. bs \in Seq(Seq(X)) BY <5>3, SequenceOf
        <5> QED BY <5>2, <5>4
      <4>2. base.rooted \in BOOLEAN BY <1>1 DEF IsAPath
      <4> HIDE DEF X
      <4> QED BY <4>1, <4>2, KeptIsNormal DEF KeptOf
    <3>4. k \in Seq(X)
      <4>1. s \in X OBVIOUS
      <4> HIDE DEF X
      <4> QED BY <2>2, <3>3, <4>1, JoinedIsText
    <3>5. \A i \in 1 .. Len(k) : k[i] # ":"
      <4>1. s # ":" BY <1>0, <1>6, SepIsSeparator
      <4>2. \A i \in 1 .. Len(k) : k[i] \in X BY <3>4
      <4> QED BY <4>1, <4>2
    <3>6. Len(k) >= 1
      <4>1. IsNormal(base.rooted, KeptOf(base)) /\ KeptOf(base) \in Seq(Seq(AnyCharacter))
        BY <1>0, <1>1, KeptAreNames
      <4>2. PICK ks \in Seq(Seq(AnyCharacter)) : ks = KeptOf(base) BY <4>1
      <4>3. ks # <<>> /\ ks[1] # <<>>
        <5>1. ks # <<>> /\ 1 \in 1 .. Len(ks) BY <1>17, <4>2
        <5> QED BY <4>1, <4>2, <5>1 DEF IsNormal
      <4> QED BY <2>2, <4>2, <4>3, JoinedFirst
    <3>7. CASE Len(k) = 1
      <4>1. f[2] \in Separator BY <1>12, <1>14, <3>2, <3>7
      <4> QED BY <1>0, <1>12, <4>1, SepIsSeparator
    <3>8. CASE Len(k) # 1
      <4>1. 2 \in 1 .. Len(k)
        <5>1. PICK m \in Nat : m = Len(k) OBVIOUS
        <5>2. m >= 1 /\ m # 1 BY <3>6, <3>8, <5>1
        <5>3. 2 \in 1 .. m BY <5>2
        <5> QED BY <5>1, <5>3
      <4>2. f[2] = b[2] /\ b[2] # ":" BY <1>14, <3>2, <3>5, <4>1
      <4> QED BY <1>12, <4>2
    <3> QED BY <3>7, <3>8
  <2> QED BY <2>3, <2>4
<1> QED BY <1>15, <1>16, <1>17

(* Nor does a path from the root of the base's drive pass, unless it leads  *)
(* down from the base.                                                      *)
LEMMA RootedStaysWithin ==
  ASSUME NEW base, IsRoot(TRUE, base),
         NEW rel \in PathOn(TRUE), rel.rooted, rel.drive = NoDrive,
         NEW c, c = Combine(base, rel), IsPathTraversalSafe(TRUE, base, LexicallyNormal(c))
  PROVE  LeadsWithin(TRUE, base, c)
<1>0. TRUE \in BOOLEAN OBVIOUS
<1>1. /\ IsAPath(Name(TRUE), base) /\ base.drive \in Drive(TRUE)
      /\ base.rooted \/ KeptOf(base) # <<>>
  BY <1>0, RootLeadsDown
<1>2. PICK ds \in Seq(Name(TRUE)) : ds = rel.names BY DEF PathOn
<1>3. c = [drive |-> base.drive, rooted |-> TRUE, names |-> ds]
  <2>1. c = [base EXCEPT !.rooted = base.rooted \/ rel.rooted, !.names = ds]
    BY <1>2 DEF Combine
  <2>2. (base.rooted \/ rel.rooted) = TRUE OBVIOUS
  <2> QED BY <1>1, <2>1, <2>2 DEF IsAPath
<1>4. /\ IsAPath(Name(TRUE), c) /\ c.drive = base.drive /\ c.rooted = TRUE
      /\ LeadsSomewhere(c)
  <2>1. c.drive = base.drive /\ c.rooted = TRUE /\ c.names = ds BY <1>3
  <2>2. c = [drive |-> c.drive, rooted |-> c.rooted, names |-> c.names] BY <1>3, <2>1
  <2>3. c.rooted \in BOOLEAN /\ c.names \in Seq(Name(TRUE)) /\ c.rooted BY <2>1
  <2>4. IsAPath(Name(TRUE), c) BY <2>2, <2>3 DEF IsAPath
  <2>5. LeadsSomewhere(c) BY <2>3 DEF LeadsSomewhere
  <2> QED BY <2>1, <2>4, <2>5
<1>5. PICK kc \in Seq(Name(TRUE)) : kc = KeptOf(c) /\ IsNormal(TRUE, kc)
  BY <1>0, <1>4, KeptAreNames
<1>6. \A i \in 1 .. Len(kc) : kc[i] # Parent /\ kc[i] # <<>> BY <1>5 DEF IsNormal
<1>7. PICK ns \in Seq(Name(TRUE)) :
        /\ Ends(kc, ns)
        /\ FullText(TRUE, c) = Top(TRUE, c) \o Joined(Sep(TRUE), ns)
  BY <1>0, <1>4, <1>5, FullTextIs
<1>8. PICK s \in AnyCharacter : s = Sep(TRUE) /\ s \in Separator BY <1>0, SepIsSeparator
<1>9. PICK d \in Seq(AnyCharacter) : d = base.drive BY <1>0, <1>1, TopIsText
<1>10. PICK x \in Seq(AnyCharacter) : x = d \o <<s>> BY d \o <<s>> \in Seq(AnyCharacter)
<1>11. Top(TRUE, c) = x BY <1>3, <1>8, <1>9, <1>10 DEF Top
<1>12. PICK j \in Seq(AnyCharacter) : j = Joined(s, ns)
  BY <1>0, NamesAreTexts, JoinedIsText
<1>13. PICK f \in Seq(AnyCharacter) : f = x \o j BY x \o j \in Seq(AnyCharacter)
<1>14. f = FullText(TRUE, c)
  BY <1>7, <1>8, <1>11, <1>12, <1>13
<1>15. PICK b \in Seq(AnyCharacter) : b = BaseText(TRUE, base) BY <1>0, BaseTextIsText
<1>16. BreaksOff(b, f, Separator) BY <1>0, <1>14, <1>15, SafeIsBreaksOff DEF FullText
<1>17. PICK ks \in Seq(Name(TRUE)) : ks = KeptOf(base) /\ IsNormal(base.rooted, ks)
  BY <1>0, <1>1, KeptAreNames
<1>18. \A i \in 1 .. Len(ks) : ks[i] # <<>> BY <1>17 DEF IsNormal
<1>19. PICK k \in Seq(AnyCharacter) : k = Joined(s, ks)
  BY <1>0, NamesAreTexts, JoinedIsText
<1>20. base.rooted
  <2> SUFFICES ASSUME ~base.rooted PROVE FALSE OBVIOUS
  <2>1. ks # <<>> BY <1>1, <1>17
  <2>2. Top(TRUE, base) = d BY <1>9 DEF Top
  <2>3. b = d \o k
    BY <1>0, <1>8, <1>15, <1>17, <1>19, <2>1, <2>2, BaseTextIs DEF IsBaseText, PlainText
  <2>4. PICK n : n = ks[1] OBVIOUS
  <2>5. n \in Seq(Character \ Separator) /\ n # <<>>
    BY <1>17, <1>18, <2>1, <2>4, 1 \in 1 .. Len(ks) DEF Name
  <2>6. Len(k) >= 1 /\ k[1] = n[1]
    <3>1. ks \in Seq(Seq(AnyCharacter)) BY <1>0, NamesAreTexts
    <3> QED BY <1>19, <2>1, <2>4, <2>5, <3>1, JoinedFirst
  <2>7. n[1] \notin Separator BY <2>5, 1 \in 1 .. Len(n)
  <2>8. b[Len(d) + 1] = n[1] /\ Len(d) + 1 \in 1 .. Len(b)
    BY <2>3, <2>6, Concatenated, 1 \in 1 .. Len(k)
  <2>9. f[Len(d) + 1] = s
    <3>1. x[Len(d) + 1] = s /\ Len(x) = Len(d) + 1 /\ Len(d) \in Nat BY <1>10
    <3> QED BY <1>13, <3>1, Concatenated, Len(d) + 1 \in 1 .. Len(x)
  <2>10. f[Len(d) + 1] = b[Len(d) + 1] BY <1>16, <2>8 DEF BreaksOff, Begins
  <2> QED BY <1>8, <2>7, <2>8, <2>9, <2>10
<1>21. c.rooted = base.rooted BY <1>1, <1>4, <1>20 DEF IsAPath
<1>22. Len(ks) <= Len(kc) /\ \A i \in 1 .. Len(ks) : kc[i] = ks[i]
  <2>1. CASE ks = <<>> BY <2>1
  <2>2. CASE ks # <<>>
    <3>1. Top(TRUE, base) = x BY <1>8, <1>9, <1>10, <1>20 DEF Top
    <3>2. b = x \o k
      BY <1>0, <1>8, <1>15, <1>17, <1>19, <2>2, <3>1, BaseTextIs DEF IsBaseText, PlainText
    <3>3. BreaksOff(k, j, Separator) BY <1>13, <1>16, <3>2, BreaksOffBehind
    <3>4. /\ AreSeparable(AnyCharacter, Separator, ks)
          /\ AreSeparable(AnyCharacter, Separator, ns)
      BY WindowsNamesAreSeparable
    <3>5. Len(ks) <= Len(ns) /\ \A i \in 1 .. Len(ks) : ks[i] = ns[i]
      <4>1. BreaksOff(Joined(s, ks), Joined(s, ns), Separator) BY <1>12, <1>19, <3>3
      <4>2. Len(ks) <= Len(ns) BY <1>8, <1>18, <3>4, <4>1, NamesAreRead
      <4>3. AgreeUpTo(Len(ks), ks, ns) BY <1>8, <1>18, <3>4, <4>1, NamesAreRead
      <4> QED BY <4>2, <4>3 DEF AgreeUpTo
    <3>6. CASE ns = kc BY <3>5, <3>6
    <3>7. CASE ns = Append(kc, <<>>)
      <4>1. /\ Len(ns) = Len(kc) + 1 /\ ns[Len(kc) + 1] = <<>>
            /\ \A i \in 1 .. Len(kc) : ns[i] = kc[i]
        BY <3>7
      <4>2. Len(ks) # Len(kc) + 1
        <5> SUFFICES ASSUME Len(ks) = Len(kc) + 1 PROVE FALSE OBVIOUS
        <5>1. Len(ks) \in 1 .. Len(ks) BY <2>2
        <5>2. ks[Len(ks)] = ns[Len(ks)] BY <3>5, <5>1
        <5>3. ks[Len(ks)] # <<>> BY <1>18, <5>1
        <5> QED BY <4>1, <5>2, <5>3
      <4>3. Len(ks) <= Len(kc) BY <3>5, <4>1, <4>2
      <4>4. ASSUME NEW i \in 1 .. Len(ks) PROVE kc[i] = ks[i]
        <5>1. i \in 1 .. Len(kc) BY <4>3
        <5> QED BY <3>5, <4>1, <5>1
      <4> QED BY <4>3, <4>4
    <3> QED BY <1>7, <3>6, <3>7 DEF Ends
  <2> QED BY <2>1, <2>2
<1>23. GoesDown(ks, kc) BY <1>6, <1>22 DEF GoesDown
<1> QED BY <1>4, <1>5, <1>17, <1>21, <1>23 DEF LeadsWithin

(* What toFull gives leads to the base or below it: a path that leads      *)
(* down from it does, one from the root of a drive only if the texts       *)
(* agree, and one of another drive is refused.                             *)
LEMMA ResolvedIsWithin ==
  ASSUME NEW w \in BOOLEAN, NEW base, IsRoot(w, base), NEW rel \in PathOn(w),
         NEW full, full = ToFull(w, base, rel), full # NoPath
  PROVE  /\ IsAPath(Name(w), full) /\ IsAPath(Name(w), Place(full))
         /\ Within(base, Place(full))
<1>1. PICK c : c = Combine(base, rel) OBVIOUS
<1>2. /\ full = LexicallyNormal(c) /\ Acceptable(w, rel)
      /\ IsPathTraversalSafe(w, base, LexicallyNormal(c))
  BY <1>1 DEF ToFull
<1>3. ~ContainsParentRef(rel) /\ ~IsAbsolute(w, rel) BY <1>2 DEF Acceptable
<1>4. LeadsWithin(w, base, c)
  <2>1. CASE ~rel.rooted /\ rel.drive \in {NoDrive, base.drive}
    BY <1>1, <1>3, <2>1, DownwardsStaysWithin DEF LeadsWithin
  <2>2. CASE rel.rooted
    <3>1. w = TRUE /\ rel.drive = NoDrive BY <1>3, <2>2 DEF IsAbsolute
    <3> QED BY <1>1, <1>2, <2>2, <3>1, RootedStaysWithin
  <2>3. CASE rel.drive \notin {NoDrive, base.drive}
    <3>1. IsAPath(Name(w), rel) /\ rel.drive \in Drive(w) BY PathOnIsAPath
    <3>2. w = TRUE BY <2>3, <3>1 DEF Drive
    <3>3. c = rel BY <1>1, <2>3 DEF Combine
    <3> QED BY <1>2, <2>3, <3>1, <3>2, <3>3, AnotherDriveIsRefused
  <2> QED BY <2>1, <2>2, <2>3
<1>5. /\ IsAPath(Name(w), c) /\ LeadsSomewhere(c)
      /\ c.drive = base.drive /\ c.rooted = base.rooted
      /\ GoesDown(KeptOf(base), KeptOf(c))
  BY <1>4 DEF LeadsWithin
<1>6. /\ IsAPath(Name(w), full)
      /\ Place(full) = [drive |-> c.drive, rooted |-> c.rooted, names |-> KeptOf(c)]
  BY <1>2, <1>5, EmptyIsAName, NormalForm
<1>7. PICK p : p = Place(full) OBVIOUS
<1>8. p.drive = c.drive /\ p.rooted = c.rooted /\ p.names = KeptOf(c) BY <1>6, <1>7
<1>9. KeptOf(c) \in Seq(Name(w)) /\ c.rooted \in BOOLEAN BY <1>5, KeptAreNames DEF IsAPath
<1>10. IsAPath(Name(w), p) BY <1>6, <1>7, <1>8, <1>9 DEF IsAPath
<1>11. Within(base, p) BY <1>5, <1>8, <1>9, DownIsWithin
<1> QED BY <1>6, <1>7, <1>10, <1>11

----------------------------------------------------------------------------
(* A path that leads down gets through *)

(* On POSIX a name may end in a backslash, which the base then loses. *)
LEMMA BackslashAtTheEnd ==
  ASSUME NEW X, NEW t \in Seq(X), t # <<>>, NEW Q, Last(t) \in Q, NEW f \in Seq(X),
         BreaksOff(t, f, Q)
  PROVE  BreaksOff(Front(t), f, Q)
<1>1. PICK m \in Nat : m + 1 = Len(t) BY Len(t) \in Nat \ {0}, Len(t) - 1 \in Nat
<1>2. PICK s \in Seq(X) : s = Front(t) /\ Len(s) = m /\ \A i \in 1 .. m : s[i] = t[i]
  <2>1. Front(t) = SubSeq(t, 1, m) BY <1>1 DEF Front
  <2> QED BY <1>1, <2>1
<1>3. m + 1 <= Len(f) /\ \A i \in 1 .. m + 1 : f[i] = t[i] BY <1>1 DEF BreaksOff, Begins
<1>4. f[m + 1] \in Q BY <1>1, <1>3 DEF Last
<1>5. BreaksOff(s, f, Q) BY <1>2, <1>3, <1>4 DEF BreaksOff, Begins
<1> QED BY <1>2, <1>5

(* toFull refuses no path that leads down from the base. *)
LEMMA DescendingGetsThrough ==
  ASSUME NEW w \in BOOLEAN, NEW base, IsRoot(w, base), NEW rel \in PathOn(w), Descends(rel),
         base # EmptyPath
  PROVE  ToFull(w, base, rel) # NoPath
<1>1. rel # EmptyPath /\ rel.drive = NoDrive /\ ~rel.rooted /\ ~ContainsParentRef(rel)
  BY DEF Descends
<1>2. Acceptable(w, rel) BY <1>1 DEF Acceptable, IsAbsolute
<1>3. PICK c : c = Combine(base, rel) OBVIOUS
<1>4. /\ IsAPath(Name(w), c) /\ LeadsSomewhere(c)
      /\ c.drive = base.drive /\ c.rooted = base.rooted
      /\ GoesDown(KeptOf(base), KeptOf(c))
  BY <1>1, <1>3, DownwardsStaysWithin
<1>5. IsAPath(Name(w), base) /\ base.drive \in Drive(w) BY RootLeadsDown
<1>6. PICK ns \in Seq(Name(w)) :
        /\ Ends(KeptOf(c), ns)
        /\ FullText(w, c) = Top(w, c) \o Joined(Sep(w), ns)
  BY <1>4, FullTextIs
<1>7. PICK s \in AnyCharacter : s = Sep(w) /\ s \in Separator BY SepIsSeparator
<1>8. PICK x \in Seq(AnyCharacter) : x = Top(w, base) BY <1>5, TopIsText
<1>9. Top(w, c) = x BY <1>4, <1>8 DEF Top
<1>10. ns \in Seq(Seq(AnyCharacter)) BY NamesAreTexts
<1>11. PICK j \in Seq(AnyCharacter) : j = Joined(s, ns) BY <1>10, JoinedIsText
<1>12. PICK f \in Seq(AnyCharacter) : f = x \o j BY x \o j \in Seq(AnyCharacter)
<1>13. f = FullText(w, c)
  BY <1>6, <1>7, <1>9, <1>11, <1>12
<1>14. PICK b \in Seq(AnyCharacter) : b = BaseText(w, base) BY BaseTextIsText
<1>15. BreaksOff(b, f, Separator)
  <2>1. CASE KeptOf(base) = <<>>
    <3>1. base.rooted /\ b = base.drive BY <1>14, <2>1, TopOfTheTree
    <3>2. x = b \o <<s>> BY <1>7, <1>8, <3>1 DEF Top
    <3>3. /\ Len(x) = Len(b) + 1 /\ x[Len(b) + 1] = s /\ (\A i \in 1 .. Len(b) : x[i] = b[i])
          /\ Len(b) \in Nat
      BY <3>2
    <3>4. Len(f) = Len(x) + Len(j) /\ (\A i \in 1 .. Len(x) : f[i] = x[i]) /\ Len(j) \in Nat
      BY <1>12, Concatenated
    <3> QED BY <1>7, <3>3, <3>4 DEF BreaksOff, Begins
  <2>2. CASE KeptOf(base) # <<>>
    <3>1. PICK ks \in Seq(Seq(AnyCharacter)) : ks = KeptOf(base) /\ ks # <<>>
      BY <1>5, <2>2, KeptAreNames
    <3>2. PICK k \in Seq(AnyCharacter) : k = Joined(s, ks) BY JoinedIsText
    <3>3. PICK t \in Seq(AnyCharacter) : t = x \o k BY x \o k \in Seq(AnyCharacter)
    <3>4. t = PlainText(w, base) BY <1>7, <1>8, <3>1, <3>2, <3>3 DEF PlainText
    <3>5. IsBaseText(w, b, t) BY <1>14, <2>2, <3>4, BaseTextIs
    <3>6. Len(ks) <= Len(ns) /\ AgreeUpTo(Len(ks), ks, ns)
      <4>1. PICK kc \in Seq(Name(w)) : kc = KeptOf(c) BY <1>4, KeptAreNames
      <4>2. Len(ks) <= Len(kc) /\ \A i \in 1 .. Len(ks) : kc[i] = ks[i]
        BY <1>4, <3>1, <4>1 DEF GoesDown
      <4>3. Len(kc) <= Len(ns) /\ \A i \in 1 .. Len(kc) : ns[i] = kc[i]
        <5>1. CASE ns = kc BY <5>1
        <5>2. CASE ns = Append(kc, <<>>) BY <5>2
        <5> QED BY <1>6, <4>1, <5>1, <5>2 DEF Ends
      <4>4. Len(ks) \in Nat /\ Len(kc) \in Nat /\ Len(ns) \in Nat OBVIOUS
      <4> QED BY <4>2, <4>3, <4>4 DEF AgreeUpTo
    <3>7. BreaksOff(k, j, Separator)
      BY <1>7, <1>10, <1>11, <3>1, <3>2, <3>6, JoinedBreaksOff
    <3>8. BreaksOff(t, f, Separator) BY <1>12, <3>3, <3>7, BreaksOffBehind
    <3> QED BY <3>5, <3>8, BackslashAtTheEnd DEF IsBaseText
  <2> QED BY <2>1, <2>2
<1>16. IsPathTraversalSafe(w, base, LexicallyNormal(c))
  BY <1>13, <1>14, <1>15, SafeIsBreaksOff DEF FullText
<1>17. ToFull(w, base, rel) = LexicallyNormal(c) BY <1>2, <1>3, <1>16 DEF ToFull
<1>18. LexicallyNormal(c) # NoPath
  <2>1. LexicallyNormal(c).drive = base.drive BY <1>4, EmptyIsAName, NormalForm
  <2>2. NoPath.drive = <<"none">> BY DEF NoPath
  <2>3. base.drive # <<"none">>
    <3>1. CASE base.drive = NoDrive BY <3>1 DEF NoDrive
    <3>2. CASE base.drive # NoDrive
      <4>1. PICK l \in Letter : base.drive = <<l, ":">> BY <1>5, <3>2 DEF Drive
      <4> QED BY <4>1
    <3> QED BY <3>1, <3>2
  <2> QED BY <2>1, <2>2, <2>3
<1> QED BY <1>17, <1>18

----------------------------------------------------------------------------
(* Where the calls are *)

(* The base is known, and a resolved path is it or below it. *)
IsResolved(f) ==
  /\ IsRoot(home.windows, home.base)
  /\ IsAPath(Name(home.windows), f) /\ IsAPath(Name(home.windows), Place(f))
  /\ Within(home.base, Place(f))

CallPaths ==
  \A c \in Caller :
    /\ call[c].at = "resolve" => call[c].path \in PathOn(home.windows)
    /\ call[c].at \notin {"idle", "resolve"} => IsResolved(call[c].path)

FilesWithin == \A p \in DOMAIN files : Within(home.base, p)
DirsWithin == \A d \in dirs : Within(home.base, d) \/ LeadsTo(d, home.base)

RootInv == home \in Home /\ CallPaths /\ FilesWithin /\ DirsWithin

(* A call's record goes on with the path it had, or the call ends. *)
PathStays(o, n) ==
  \/ n.at = "idle"
  \/ n = o
  \/ o.at \notin {"idle", "resolve"} /\ n.at \notin {"idle", "resolve"} /\ n.path = o.path

LEMMA ReturnEnds ==
  ASSUME CallTypes, NEW c \in Caller, NEW answer, Return(c, answer)
  PROVE  \A d \in Caller : PathStays(call[d], call'[d])
<1>1. /\ call'[c] = [at |-> "idle", answer |-> answer]
      /\ \A d \in Caller \ {c} : call'[d] = call[d]
  BY DEF CallTypes, Return, Set, Ended
<1>2. call'[c].at = "idle" BY <1>1
<1> QED BY <1>1, <1>2 DEF PathStays

LEMMA OneGoesOn ==
  ASSUME CallTypes, NEW c \in Caller, NEW r, call' = [call EXCEPT ![c] = r],
         PathStays(call[c], r)
  PROVE  \A d \in Caller : PathStays(call[d], call'[d])
<1>1. call'[c] = r /\ \A d \in Caller \ {c} : call'[d] = call[d] BY DEF CallTypes
<1> QED BY <1>1 DEF PathStays

(* No step but a call's first two gives it a path. *)
LEMMA StepsKeepPaths ==
  ASSUME StoreInv, NEW c \in Caller, Step(c), ~ResolvePath(c)
  PROVE  \A d \in Caller : PathStays(call[d], call'[d])
<1>0. CallTypes BY DEF StoreInv
<1>1. CASE \E answer : Return(c, answer) BY <1>0, <1>1, ReturnEnds
<1>2. CASE CreateDirs(c) /\ Goto(c, "open")
  <2>1. Short(call[c]) /\ call[c].at = "mkdir"
    BY <1>2 DEF StoreInv, CallTypes, Waiting, IdleCall, WriteUnderWay, ReadUnderWay,
                CreateDirs, At
  <2>2. PICK r : r = [call[c] EXCEPT !.at = "open"] OBVIOUS
  <2>3. r = [at |-> "open", op |-> call[c].op, path |-> call[c].path]
    BY <2>1, <2>2 DEF Short
  <2>4. PathStays(call[c], r) BY <2>1, <2>3 DEF PathStays
  <2>5. call' = [call EXCEPT ![c] = r] BY <1>2, <2>2 DEF Goto
  <2> QED BY <1>0, <2>4, <2>5, OneGoesOn
<1>3. CASE OpenToWrite(c)
  <2>1. PICK p : p = Target(c) OBVIOUS
  <2>2. PICK text \in Text : call' = [d \in Caller |->
             CASE d = c                             -> Opened(c, text, <<>>, TRUE)
               [] d \in {e \in Caller : HasOpen(e, p)} -> [call[d] EXCEPT !.calm = FALSE]
               [] OTHER                             -> call[d]]
    BY <1>3, <2>1 DEF OpenToWrite
  <2>3. call[c].at = "open" /\ call[c].op = "write" BY <1>3 DEF OpenToWrite, At
  <2>4. ~HasOpen(c, p) BY <2>3 DEF HasOpen
  <2>5. ASSUME NEW d \in Caller PROVE PathStays(call[d], call'[d])
    <3>1. CASE d = c
      <4>1. call'[c] = Opened(c, text, <<>>, TRUE)
        <5>1. c \notin {e \in Caller : HasOpen(e, p)} BY <2>4
        <5> QED BY <2>2, <5>1
      <4>2. call'[c].at = "put" /\ call'[c].path = call[c].path BY <2>3, <4>1 DEF Opened
      <4> QED BY <2>3, <3>1, <4>2 DEF PathStays
    <3>2. CASE d # c /\ HasOpen(d, p)
      <4>1. PICK o : o = call[d] OBVIOUS
      <4>2. call'[d] = [o EXCEPT !.calm = FALSE] BY <2>2, <3>2, <4>1
      <4>3. Long(o) /\ o.at \notin {"idle", "resolve"}
        BY <3>2, <4>1, OpenIsOneOfTwo, WritersWrite DEF StoreInv, WriteUnderWay, ReadUnderWay
      <4>4. call'[d] = [at |-> o.at, op |-> o.op, path |-> o.path, text |-> o.text,
                        got |-> o.got, pos |-> o.pos, calm |-> FALSE]
        BY <4>2, <4>3 DEF Long
      <4>5. call'[d].at = o.at /\ call'[d].path = o.path BY <4>4
      <4> QED BY <4>1, <4>3, <4>5 DEF PathStays
    <3>3. CASE d # c /\ ~HasOpen(d, p)
      <4>1. call'[d] = call[d] BY <2>2, <3>3
      <4> QED BY <4>1 DEF PathStays
    <3> QED BY <3>1, <3>2, <3>3
  <2> QED BY <2>5
<1>4. CASE PutPiece(c)
  <2>1. PICK o : o = call[c] OBVIOUS
  <2>2. Long(o) /\ o.at \in {"put", "close"}
    BY <1>4, <2>1, WritersWrite DEF StoreInv, Writer, PutPiece, WriteUnderWay
  <2>3. PICK n : call' = [call EXCEPT ![c].pos = n] BY <1>4 DEF PutPiece
  <2>4. PICK r : r = [o EXCEPT !.pos = n] OBVIOUS
  <2>5. call' = [call EXCEPT ![c] = r] BY <2>1, <2>3, <2>4
  <2>6. r.at = o.at /\ r.path = o.path BY <2>2, <2>4 DEF Long
  <2>7. PathStays(call[c], r) BY <2>1, <2>2, <2>6 DEF PathStays
  <2> QED BY <1>0, <2>5, <2>7, OneGoesOn
<1>5. CASE PutFails(c) \/ GetFails(c)
  <2>1. PICK o : o = call[c] OBVIOUS
  <2>2. Long(o) /\ o.at \in {"put", "get"}
    BY <1>5, <2>1, WritersWrite
       DEF StoreInv, Writer, Reader, PutFails, GetFails, At, WriteUnderWay, ReadUnderWay
  <2>3. PICK point \in {"close", "broken"} : call' = [call EXCEPT ![c].at = point]
    BY <1>5 DEF PutFails, GetFails, Goto
  <2>4. PICK r : r = [o EXCEPT !.at = point] OBVIOUS
  <2>5. call' = [call EXCEPT ![c] = r] BY <2>1, <2>3, <2>4
  <2>6. r.at = point /\ r.path = o.path BY <2>2, <2>4 DEF Long
  <2>7. PathStays(call[c], r) BY <2>1, <2>2, <2>6 DEF PathStays
  <2> QED BY <1>0, <2>5, <2>7, OneGoesOn
<1>6. CASE OpenToRead(c)
  <2>1. PICK got, calm : call' = [call EXCEPT ![c] = Opened(c, <<>>, got, calm)]
    BY <1>6 DEF OpenToRead, Set
  <2>2. PICK r : r = Opened(c, <<>>, got, calm) OBVIOUS
  <2>3. r.path = call[c].path /\ r.at \in {"put", "get"} BY <2>2 DEF Opened
  <2>4. call[c].at = "open" BY <1>6 DEF OpenToRead, At
  <2>5. PathStays(call[c], r) BY <2>3, <2>4 DEF PathStays
  <2> QED BY <1>0, <2>1, <2>2, <2>5, OneGoesOn
<1>7. CASE GetPiece(c)
  <2>1. PICK o : o = call[c] OBVIOUS
  <2>2. Long(o) /\ o.at = "get"
    BY <1>7, <2>1, WritersWrite DEF StoreInv, Reader, GetPiece, At, ReadUnderWay
  <2>3. PICK n, g : call' = [call EXCEPT ![c] = [o EXCEPT !.pos = n, !.got = g]]
    BY <1>7, <2>1 DEF GetPiece, Set
  <2>4. PICK r : r = [o EXCEPT !.pos = n, !.got = g] OBVIOUS
  <2>5. r.at = o.at /\ r.path = o.path BY <2>2, <2>4 DEF Long
  <2>6. PathStays(call[c], r) BY <2>1, <2>2, <2>5 DEF PathStays
  <2> QED BY <1>0, <2>3, <2>4, <2>6, OneGoesOn
<1> QED BY <1>1, <1>2, <1>3, <1>4, <1>5, <1>6, <1>7
        DEF Step, CreateDirs, OpenFails, WriteReturns, ReadReturns, BreakOff

(* As long as calls go on with their paths, these stay where they lead. *)
LEMMA PathsStay ==
  ASSUME CallPaths, home' = home, \A d \in Caller : PathStays(call[d], call'[d])
  PROVE  CallPaths'
<1> SUFFICES ASSUME NEW c \in Caller
             PROVE  /\ call'[c].at = "resolve" => call'[c].path \in PathOn(home.windows)
                    /\ call'[c].at \notin {"idle", "resolve"} => IsResolved(call'[c].path)
  BY DEF CallPaths, IsResolved
<1>1. PathStays(call[c], call'[c]) OBVIOUS
<1> QED BY <1>1 DEF CallPaths, PathStays
(* No step changes the root. *)
LEMMA HomeStays ==
  ASSUME [Next]_vars
  PROVE  home' = home
BY DEF Next, Step, vars, ResolvePath, CreateDirs, OpenToWrite, OpenFails, PutPiece, PutFails,
       WriteReturns, OpenToRead, GetPiece, ReadReturns, GetFails, BreakOff, Call, RemoveFile,
       RemoveDirectory, Crash

(* The paths of calls lead where they may. *)
LEMMA CallPathsHold ==
  ASSUME StoreInv, RootInv, [Next]_vars
  PROVE  CallPaths'
<1>1. home' = home /\ CallPaths BY HomeStays DEF RootInv
<1>2. CASE \E c \in Caller : Step(c) /\ ~ResolvePath(c)
  BY <1>1, <1>2, StepsKeepPaths, PathsStay
<1>3. ASSUME NEW c \in Caller, ResolvePath(c) PROVE CallPaths'
  <2>1. CASE Full(c) = NoPath
    <3>1. Return(c, "no") /\ CallTypes BY <1>3, <2>1 DEF ResolvePath, StoreInv
    <3> QED BY <1>1, <3>1, ReturnEnds, PathsStay
  <2>2. CASE Full(c) # NoPath
    <3>1. PICK w \in BOOLEAN, base \in {home.base} : w = home.windows
      BY HomeAssumption DEF RootInv
    <3>2. base # EmptyPath BY <2>2, <3>1 DEF Full, ToFull
    <3>3. IsRoot(w, base) BY <3>1, <3>2, HomeAssumption DEF RootInv
    <3>4. PICK rel \in PathOn(w) : rel = call[c].path
      BY <1>1, <1>3, <3>1 DEF CallPaths, ResolvePath, At
    <3>5. PICK full : full = ToFull(w, base, rel) /\ full # NoPath /\ full = Full(c)
      BY <2>2, <3>1, <3>4 DEF Full
    <3>6. IsAPath(Name(w), full) /\ IsAPath(Name(w), Place(full)) /\ Within(base, Place(full))
      BY <3>3, <3>5, ResolvedIsWithin
    <3>7. IsResolved(full) BY <3>1, <3>3, <3>6 DEF IsResolved
    <3>8. PICK point \in {"open", "mkdir"} :
            point = IF call[c].op = "read" THEN "open" ELSE "mkdir"
      OBVIOUS
    <3>9. PICK r : r = [call[c] EXCEPT !.path = full, !.at = point] OBVIOUS
    <3>10. call' = [call EXCEPT ![c] = r]
      BY <1>3, <2>2, <3>5, <3>8, <3>9 DEF ResolvePath, Set
    <3>11. Short(call[c])
      BY <1>3 DEF StoreInv, CallTypes, Waiting, IdleCall, WriteUnderWay, ReadUnderWay,
                  ResolvePath, At
    <3>12. r.at = point /\ r.path = full BY <3>9, <3>11 DEF Short
    <3>13. call'[c] = r /\ \A d \in Caller \ {c} : call'[d] = call[d]
      BY <3>10 DEF StoreInv, CallTypes
    <3>14. ASSUME NEW d \in Caller
           PROVE  /\ call'[d].at = "resolve" => call'[d].path \in PathOn(home.windows)
                  /\ call'[d].at \notin {"idle", "resolve"} => IsResolved(call'[d].path)
      <4>1. CASE d = c BY <3>7, <3>12, <3>13, <4>1
      <4>2. CASE d # c BY <1>1, <3>13, <4>2 DEF CallPaths
      <4> QED BY <4>1, <4>2
    <3> QED BY <1>1, <3>14 DEF CallPaths, IsResolved
  <2> QED BY <2>1, <2>2
<1>4. ASSUME NEW c \in Caller, NEW op, NEW relative, Call(c, op, relative) PROVE CallPaths'
  <2>1. PICK r : r = [at |-> "resolve", op |-> op, path |-> relative] OBVIOUS
  <2>2. call'[c] = r /\ \A d \in Caller \ {c} : call'[d] = call[d]
    BY <1>4, <2>1 DEF Call, Set, StoreInv, CallTypes
  <2>3. r.at = "resolve" /\ r.path \in PathOn(home.windows) BY <1>4, <2>1 DEF Call
  <2>4. ASSUME NEW d \in Caller
        PROVE  /\ call'[d].at = "resolve" => call'[d].path \in PathOn(home.windows)
               /\ call'[d].at \notin {"idle", "resolve"} => IsResolved(call'[d].path)
    <3>1. CASE d = c BY <2>2, <2>3, <3>1
    <3>2. CASE d # c BY <1>1, <2>2, <3>2 DEF CallPaths
    <3> QED BY <3>1, <3>2
  <2> QED BY <1>1, <2>4 DEF CallPaths, IsResolved
<1>5. CASE Crash
  <2>1. \A d \in Caller : call'[d] = [at |-> "idle", answer |-> "none"]
    BY <1>5 DEF Crash, Ready, Ended
  <2>2. \A d \in Caller : PathStays(call[d], call'[d]) BY <2>1 DEF PathStays
  <2> QED BY <1>1, <2>2, PathsStay
<1>6. CASE UNCHANGED call
  <2>1. \A d \in Caller : PathStays(call[d], call'[d]) BY <1>6 DEF PathStays
  <2> QED BY <1>1, <2>1, PathsStay
<1> QED BY <1>2, <1>3, <1>4, <1>5, <1>6 DEF Next, vars, RemoveFile, RemoveDirectory

----------------------------------------------------------------------------
(* What the calls leave in the file system *)

(* Files are made at a resolved path only. *)
LEMMA FilesStayWithin ==
  ASSUME StoreInv, RootInv, [Next]_vars
  PROVE  FilesWithin'
<1>1. home' = home /\ FilesWithin BY HomeStays DEF RootInv
<1>2. CASE DOMAIN files' \subseteq DOMAIN files BY <1>1, <1>2 DEF FilesWithin
<1>3. ASSUME NEW c \in Caller, OpenToWrite(c) PROVE FilesWithin'
  <2>1. DOMAIN files' = DOMAIN files \cup {Target(c)} BY <1>3 DEF OpenToWrite, Put
  <2>2. Within(home.base, Target(c))
    BY <1>3 DEF RootInv, CallPaths, IsResolved, Target, OpenToWrite, At
  <2> QED BY <1>1, <2>1, <2>2 DEF FilesWithin
<1>4. ASSUME NEW c \in Caller, PutPiece(c) PROVE DOMAIN files' \subseteq DOMAIN files
  BY <1>4 DEF PutPiece
<1>5. ASSUME NEW p, RemoveFile(p) PROVE DOMAIN files' \subseteq DOMAIN files
  BY <1>5 DEF RemoveFile, Restrict
<1>6. CASE UNCHANGED files BY <1>2, <1>6
<1> QED BY <1>2, <1>3, <1>4, <1>5, <1>6
        DEF Next, Step, vars, ResolvePath, CreateDirs, OpenFails, PutFails,
            WriteReturns, OpenToRead, GetPiece, ReadReturns, GetFails, BreakOff, Call,
            RemoveDirectory, Crash

LEMMA AllButTheLast ==
  ASSUME NEW S, NEW ns \in Seq(S), ns # <<>>
  PROVE  \E m \in Nat : m + 1 = Len(ns) /\ Front(ns) = SubSeq(ns, 1, m)
<1>1. PICK n \in Nat : n = Len(ns) /\ n # 0 OBVIOUS
<1>2. n - 1 \in Nat /\ (n - 1) + 1 = n BY <1>1
<1> QED BY <1>1, <1>2 DEF Front

LEMMA TheFirst ==
  ASSUME NEW S, NEW s \in Seq(S), NEW i \in Nat, i <= Len(s)
  PROVE  /\ SubSeq(s, 1, i) \in Seq(S) /\ Len(SubSeq(s, 1, i)) = i
         /\ \A k \in 1 .. i : SubSeq(s, 1, i)[k] = s[k]
OBVIOUS

(* What leads to a path within the base is within it, or leads to it.       *)
LEMMA OnTheWay ==
  ASSUME NEW w \in BOOLEAN, NEW base, IsRoot(w, base),
         NEW p, IsAPath(Name(w), p), Within(base, p), NEW i \in 0 .. Len(p.names),
         NEW d, d = [drive |-> p.drive, rooted |-> p.rooted, names |-> SubSeq(p.names, 1, i)]
  PROVE  Within(base, d) \/ LeadsTo(d, base)
<1>1. PICK b : b = Place(LexicallyNormal(base)) OBVIOUS
<1>2. PICK bs \in Seq(Name(w)) : bs = b.names
  <2>1. IsAPath(Name(w), base) /\ LeadsSomewhere(base) BY RootLeadsDown
  <2>2. b = [drive |-> base.drive, rooted |-> base.rooted, names |-> KeptOf(base)]
    BY <1>1, <2>1, EmptyIsAName, NormalForm
  <2>3. b.names = KeptOf(base) BY <2>2
  <2> QED BY <2>1, <2>3, KeptAreNames
<1>3. PICK ps \in Seq(Name(w)) : ps = p.names BY DEF IsAPath
<1>4. PICK m \in Nat, n \in Nat, j \in Nat : m = Len(bs) /\ n = Len(ps) /\ j = i /\ j <= n
  BY <1>3
<1>5. /\ p.drive = b.drive /\ p.rooted = b.rooted /\ IsPrefix(bs, ps)
      /\ \A k \in DOMAIN SubSeq(ps, m + 1, n) : SubSeq(ps, m + 1, n)[k] # Parent
  BY <1>1, <1>2, <1>3, <1>4 DEF Within
<1>6. m <= n /\ \A k \in 1 .. m : ps[k] = bs[k] BY <1>4, <1>5, BeginsIsPrefix DEF Begins
<1>7. PICK ds \in Seq(Name(w)) : ds = SubSeq(ps, 1, j) BY <1>4, TheFirst
<1>8. Len(ds) = j /\ \A k \in 1 .. j : ds[k] = ps[k] BY <1>4, <1>7, TheFirst
<1>9. d.drive = b.drive /\ d.rooted = b.rooted /\ d.names = ds BY <1>3, <1>4, <1>5, <1>7
<1>10. CASE j <= m
  <2>1. Begins(ds, bs) BY <1>4, <1>6, <1>8, <1>10 DEF Begins
  <2>2. IsPrefix(ds, bs) BY <2>1, BeginsIsPrefix
  <2> QED BY <1>1, <1>2, <1>9, <2>2 DEF LeadsTo
<1>11. CASE ~(j <= m)
  <2>1. Begins(bs, ds) BY <1>4, <1>6, <1>8, <1>11 DEF Begins
  <2>2. IsPrefix(bs, ds) BY <2>1, BeginsIsPrefix
  <2>3. PICK t : t = SubSeq(ps, m + 1, n) OBVIOUS
  <2>4. DOMAIN t = 1 .. n - m /\ \A k \in 1 .. n - m : t[k] = ps[m + k]
    BY <1>4, <1>6, <2>3
  <2>5. PICK u : u = SubSeq(ds, m + 1, j) OBVIOUS
  <2>6. DOMAIN u = 1 .. j - m /\ \A k \in 1 .. j - m : u[k] = ds[m + k]
    BY <1>4, <1>8, <1>11, <2>5
  <2>7. ASSUME NEW k \in DOMAIN u PROVE u[k] # Parent
    <3>1. k \in 1 .. j - m /\ k \in 1 .. n - m /\ m + k \in 1 .. j BY <1>4, <1>11, <2>6
    <3>2. u[k] = ps[m + k] /\ t[k] = ps[m + k] BY <1>8, <2>4, <2>6, <3>1
    <3> QED BY <1>5, <2>3, <2>4, <3>1, <3>2
  <2>8. u = SubSeq(d.names, Len(b.names) + 1, Len(d.names)) BY <1>2, <1>4, <1>8, <1>9, <2>5
  <2> QED BY <1>1, <1>2, <1>9, <2>2, <2>7, <2>8 DEF Within
<1> QED BY <1>10, <1>11

IsOnTheWay(e, p) ==
  \E j \in 0 .. Len(p.names) :
    e = [drive |-> p.drive, rooted |-> p.rooted, names |-> SubSeq(p.names, 1, j)]

(* The directories of a file's path, and those of its place.                *)
LEMMA DirectoriesLeadThere ==
  ASSUME NEW S, NEW f, IsAPath(S, f), IsAPath(S, Place(f)),
         NEW d, d = Place(f) \/ d = [f EXCEPT !.names = Front(f.names)],
         NEW i \in 1 .. Len(d.names)
  PROVE  IsOnTheWay(Upto(d, i), Place(f))
<1>1. PICK p : p = Place(f) OBVIOUS
<1>2. p = [drive |-> p.drive, rooted |-> p.rooted, names |-> p.names] /\ p.names \in Seq(S)
  BY <1>1 DEF IsAPath
<1>3. CASE d = p
  <2>1. Upto(d, i) = [drive |-> p.drive, rooted |-> p.rooted, names |-> SubSeq(p.names, 1, i)]
    <3>1. PICK l : l = SubSeq(d.names, 1, i) OBVIOUS
    <3>2. Upto(d, i) = [d EXCEPT !.names = l] BY <3>1 DEF Upto
    <3>3. d = [drive |-> p.drive, rooted |-> p.rooted, names |-> p.names] /\ d.names = p.names
      BY <1>2, <1>3
    <3> QED BY <3>1, <3>2, <3>3
  <2>2. i \in 0 .. Len(p.names) BY <1>2, <1>3
  <2> QED BY <1>1, <2>1, <2>2 DEF IsOnTheWay
<1>4. CASE d # p
  <2>1. d = [f EXCEPT !.names = Front(f.names)] BY <1>1, <1>4
  <2>2. p = f BY <1>1, <1>4, <2>1 DEF Place
  <2>3. PICK ns \in Seq(S) : ns = p.names BY <1>2
  <2>4. d = [drive |-> p.drive, rooted |-> p.rooted, names |-> Front(ns)]
    BY <1>2, <2>1, <2>2, <2>3
  <2>5. d.drive = p.drive /\ d.rooted = p.rooted /\ d.names = Front(ns) BY <2>4
  <2>6. Upto(d, i) = [drive |-> p.drive, rooted |-> p.rooted,
                      names |-> SubSeq(Front(ns), 1, i)]
    <3>1. PICK l : l = SubSeq(d.names, 1, i) OBVIOUS
    <3>2. Upto(d, i) = [d EXCEPT !.names = l] BY <3>1 DEF Upto
    <3> QED BY <2>4, <2>5, <3>1, <3>2
  <2>7. ns # <<>>
    <3> SUFFICES ASSUME ns = <<>> PROVE FALSE OBVIOUS
    <3>1. Front(ns) = <<>> BY DEF Front
    <3>2. Len(d.names) = 0 BY <2>5, <3>1
    <3> QED BY <3>2
  <2>8. PICK m \in Nat : m + 1 = Len(ns) /\ Front(ns) = SubSeq(ns, 1, m)
    BY <2>7, AllButTheLast
  <2>9. PICK fs \in Seq(S) : fs = SubSeq(ns, 1, m) BY <2>8, TheFirst, m <= Len(ns)
  <2>10. Front(ns) = fs /\ Len(fs) = m /\ \A k \in 1 .. m : fs[k] = ns[k]
    BY <2>8, <2>9, TheFirst, m <= Len(ns)
  <2>11. PICK j \in 1 .. m : j = i BY <2>5, <2>10
  <2>12. SubSeq(fs, 1, j) = SubSeq(ns, 1, j) BY <2>8, <2>9
  <2>13. j \in 0 .. Len(ns) BY <2>8
  <2> QED BY <1>1, <2>3, <2>6, <2>10, <2>11, <2>12, <2>13 DEF IsOnTheWay
<1> QED BY <1>3, <1>4

LEMMA DirectoryHasNames ==
  ASSUME NEW S, NEW f, IsAPath(S, f), IsAPath(S, Place(f)),
         NEW d, d = Place(f) \/ d = [f EXCEPT !.names = Front(f.names)]
  PROVE  Len(d.names) \in Nat
<1>1. CASE d = Place(f) BY <1>1 DEF IsAPath
<1>2. CASE d # Place(f)
  <2>1. PICK ns \in Seq(S) : ns = f.names BY DEF IsAPath
  <2>2. d.names = Front(ns) BY <1>2, <2>1 DEF IsAPath
  <2>3. CASE ns = <<>> BY <2>2, <2>3 DEF Front
  <2>4. CASE ns # <<>>
    <3>1. PICK m \in Nat : m + 1 = Len(ns) /\ Front(ns) = SubSeq(ns, 1, m)
      BY <2>4, AllButTheLast
    <3>2. Len(SubSeq(ns, 1, m)) = m BY <3>1, TheFirst, m <= Len(ns)
    <3> QED BY <2>2, <3>1, <3>2
  <2> QED BY <2>3, <2>4
<1> QED BY <1>1, <1>2

(* Directories are made on the way to a resolved path only. *)
LEMMA DirsStayWithin ==
  ASSUME RootInv, [Next]_vars
  PROVE  DirsWithin'
<1>1. home' = home /\ DirsWithin BY HomeStays DEF RootInv
<1>2. CASE dirs' \subseteq dirs BY <1>1, <1>2 DEF DirsWithin
<1>3. ASSUME NEW c \in Caller, CreateDirs(c) PROVE DirsWithin'
  <2>1. PICK f : f = call[c].path OBVIOUS
  <2>2. PICK w \in BOOLEAN, base \in {home.base} : w = home.windows
    BY HomeAssumption DEF RootInv
  <2>3. /\ IsRoot(w, base) /\ IsAPath(Name(w), f) /\ IsAPath(Name(w), Place(f))
        /\ Within(base, Place(f))
    BY <1>3, <2>1, <2>2 DEF RootInv, CallPaths, IsResolved, CreateDirs, At
  <2>4. PICK d : d = Directory(c) OBVIOUS
  <2>5. d = Place(f) \/ d = [f EXCEPT !.names = Front(f.names)]
    BY <2>1, <2>4 DEF Directory, Target
  <2>6. PICK n \in 0 .. Len(d.names) : dirs' = dirs \cup {Upto(d, i) : i \in 1 .. n}
    BY <1>3, <2>4 DEF CreateDirs
  <2>7. ASSUME NEW i \in 1 .. n PROVE Within(base, Upto(d, i)) \/ LeadsTo(Upto(d, i), base)
    <3>1. Len(d.names) \in Nat BY <2>3, <2>5, DirectoryHasNames
    <3>2. i \in 1 .. Len(d.names) BY <3>1
    <3>3. PICK p : p = Place(f) OBVIOUS
    <3>4. IsOnTheWay(Upto(d, i), p)
      <4>1. PICK S : S = Name(w) OBVIOUS
      <4>2. PICK k \in 1 .. Len(d.names) : k = i BY <3>2
      <4>3. IsAPath(S, f) /\ IsAPath(S, Place(f)) BY <2>3, <4>1
      <4> QED BY <2>5, <3>3, <4>2, <4>3, DirectoriesLeadThere
    <3>5. PICK e : e = Upto(d, i) OBVIOUS
    <3>6. PICK j \in 0 .. Len(p.names) :
            e = [drive |-> p.drive, rooted |-> p.rooted, names |-> SubSeq(p.names, 1, j)]
      BY <3>4, <3>5 DEF IsOnTheWay
    <3>7. Within(base, e) \/ LeadsTo(e, base) BY <2>3, <3>3, <3>6, OnTheWay
    <3> QED BY <3>5, <3>7
  <2> QED BY <1>1, <2>2, <2>6, <2>7 DEF DirsWithin
<1>4. ASSUME NEW d, RemoveDirectory(d) PROVE dirs' \subseteq dirs
  BY <1>4 DEF RemoveDirectory
<1>5. CASE UNCHANGED dirs BY <1>2, <1>5
<1> QED BY <1>2, <1>3, <1>4, <1>5
        DEF Next, Step, vars, ResolvePath, OpenToWrite, OpenFails, PutPiece, PutFails,
            WriteReturns, OpenToRead, GetPiece, ReadReturns, GetFails, BreakOff, Call,
            RemoveFile, Crash

----------------------------------------------------------------------------
(* The theorems about the root *)

LEMMA RootInitHolds == Init => RootInv
<1> SUFFICES ASSUME Init PROVE RootInv OBVIOUS
<1>1. home \in Home /\ files = <<>> /\ dirs = {} /\ \A c \in Caller : call[c] = Ready
  BY DEF Init
<1>2. DOMAIN files = {} BY <1>1
<1> QED BY <1>1, <1>2 DEF RootInv, CallPaths, FilesWithin, DirsWithin, Ready, Ended

LEMMA RootNextKeeps == StoreInv /\ RootInv /\ [Next]_vars => RootInv'
<1> SUFFICES ASSUME StoreInv, RootInv, [Next]_vars PROVE RootInv' OBVIOUS
<1>1. home' \in Home BY HomeStays DEF RootInv
<1> QED BY <1>1, CallPathsHold, FilesStayWithin, DirsStayWithin DEF RootInv

(* Nothing is ever looked up, made or written outside the root, whatever    *)
(* the platform, the root and the paths the callers pass                    *)
(* (PathResolver.cpp:27-71, 78-116).                                        *)
THEOREM RootIsKept == Spec => []StaysWithinRoot
<1>1. RootInv => StaysWithinRoot
  BY DEF RootInv, CallPaths, FilesWithin, DirsWithin, IsResolved, StaysWithinRoot, Target
<1> QED BY <1>1, RootInitHolds, RootNextKeeps, StoreIsSound, PTL DEF Spec

(* And no path that leads down from a known root is refused                 *)
(* (PathResolver.cpp:40-44, 73-116).                                        *)
THEOREM DownIsResolved == Spec => DescendingIsResolved
<1>1. StoreInv /\ RootInv /\ [Next]_vars =>
        \A c \in Caller :
          call[c].at = "resolve" /\ Answers(c, "no") =>
            home.base = EmptyPath \/ ~Descends(call[c].path)
  <2> SUFFICES ASSUME StoreInv, RootInv, [Next]_vars, NEW c \in Caller,
                      call[c].at = "resolve", Answers(c, "no"),
                      home.base # EmptyPath, Descends(call[c].path)
               PROVE  FALSE
    OBVIOUS
  <2>1. Step(c) BY OwnStepAnswers
  <2>2. ResolvePath(c)
    BY <2>1 DEF Step, CreateDirs, OpenToWrite, OpenFails, PutPiece, PutFails, WriteReturns,
                OpenToRead, GetPiece, ReadReturns, GetFails, BreakOff, At
  <2>3. PICK w \in BOOLEAN, base \in {home.base} : w = home.windows /\ IsRoot(w, base)
    BY HomeAssumption DEF RootInv
  <2>4. PICK rel \in PathOn(w) : rel = call[c].path BY <2>3 DEF RootInv, CallPaths
  <2>5. Full(c) # NoPath BY <2>3, <2>4, DescendingGetsThrough DEF Full
  <2>6. PICK point \in {"open", "mkdir"} :
          point = IF call[c].op = "read" THEN "open" ELSE "mkdir"
    OBVIOUS
  <2>7. PICK r : r = [call[c] EXCEPT !.path = Full(c), !.at = point] OBVIOUS
  <2>8. call'[c] = r BY <2>2, <2>5, <2>6, <2>7 DEF ResolvePath, Set, StoreInv, CallTypes
  <2>9. Short(call[c])
    BY DEF StoreInv, CallTypes, Waiting, IdleCall, WriteUnderWay, ReadUnderWay
  <2>10. r.at = point BY <2>7, <2>9 DEF Short
  <2> QED BY <2>8, <2>10 DEF Answers, Ended
<1> QED BY <1>1, StoreIsSound, RootInitHolds, RootNextKeeps, PTL DEF Spec, DescendingIsResolved

============================================================================
