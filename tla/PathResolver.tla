---------------------------- MODULE PathResolver ----------------------------
(***************************************************************************)
(* PathResolver: from the root directory and a relative path to a full     *)
(* path within the root.                                                   *)
(*                                                                         *)
(* A path is what std::filesystem takes a text apart into: its drive (the  *)
(* root name, none on POSIX), whether it is rooted, and its file names;    *)
(* the last name is empty after a trailing separator.  The code compares   *)
(* texts, so names are sequences of characters and PathText puts a text    *)
(* together.                                                               *)
(***************************************************************************)
EXTENDS Naturals, SequencesExt

CONSTANTS
  Character,   (* the characters of names                                    *)
  Letter       (* the letters of drives                                      *)

NoDrive   == <<>>
Dot       == <<".">>
Parent    == <<".", ".">>
Separator == {"/", "\\"}     (* kUnixSeparator, kWindowsSeparator *)

EmptyPath == [drive |-> NoDrive, rooted |-> FALSE, names |-> <<>>]
NoPath    == [drive |-> <<"none">>, rooted |-> FALSE, names |-> <<>>]

ASSUME LetterAssumption == Letter \cap (Separator \cup {":"}) = {}

(* The paths of a platform: only Windows has drives, and the backslash is a *)
(* separator there and an ordinary character elsewhere.                     *)
Drive(windows) == {NoDrive} \cup (IF windows THEN {<<l, ":">> : l \in Letter} ELSE {})
Name(windows) == Seq(Character \ (IF windows THEN Separator ELSE {"/"}))
PathOn(windows) ==
  [drive : Drive(windows), rooted : BOOLEAN, names : Seq(Name(windows))]

----------------------------------------------------------------------------
(* std::filesystem::path *)

IsAbsolute(windows, p) == p.rooted /\ (windows => p.drive # NoDrive)

(* Without the empty name after a trailing separator. *)
Place(p) ==
  IF p.names # <<>> /\ Last(p.names) = <<>> THEN [p EXCEPT !.names = Front(@)] ELSE p

(* operator/: another drive replaces the path, a root replaces its names.   *)
Combine(base, p) ==
  IF p.drive \notin {NoDrive, base.drive} THEN p
  ELSE [base EXCEPT !.rooted = @ \/ p.rooted,
                    !.names = IF p.rooted THEN p.names ELSE Place(base).names \o p.names]

(* lexically_normal.  "a/." and "a/b/.." become "a/". *)
Keep(rooted, names, n) ==
  CASE n \in {Dot, <<>>}                                  -> names
    [] n = Parent /\ names # <<>> /\ Last(names) # Parent -> Front(names)
    [] n = Parent /\ names = <<>> /\ rooted               -> names
    [] OTHER                                              -> Append(names, n)

Kept(rooted, names) ==
  LET kept[k \in 0 .. Len(names)] ==
        IF k = 0 THEN <<>> ELSE Keep(rooted, kept[k - 1], names[k])
  IN  kept[Len(names)]

LexicallyNormal(p) ==
  LET kept == Kept(p.rooted, p.names)
  IN  [p EXCEPT !.names =
        CASE kept = <<>> /\ ~p.rooted /\ p.drive = NoDrive -> <<Dot>>
          [] kept # <<>> /\ Last(kept) # Parent /\ Last(p.names) \in {Dot, Parent, <<>>}
                                                           -> Append(kept, <<>>)
          [] OTHER                                         -> kept]

(* The names with a separator between each and the next. *)
Joined(sep, names) ==
  LET joined[k \in 0 .. Len(names)] ==
        IF k = 0 THEN <<>>
        ELSE joined[k - 1] \o (IF k = 1 THEN <<>> ELSE <<sep>>) \o names[k]
  IN  joined[Len(names)]

PathText(windows, p) ==
  LET sep == IF windows THEN "\\" ELSE "/"
  IN  p.drive \o (IF p.rooted THEN <<sep>> ELSE <<>>) \o Joined(sep, p.names)

----------------------------------------------------------------------------
(* isPathTraversalSafe *)

ContainsParentRef(p) == \E i \in DOMAIN p.names : p.names[i] = Parent

WrongBaseText(windows, base) == PathText(windows, LexicallyNormal(base))  \* keeps it

(* The base's text without its trailing separator. *)
BaseText(windows, base) ==
  LET text == PathText(windows, LexicallyNormal(base))
  IN  IF text # <<>> /\ Last(text) \in Separator THEN Front(text) ELSE text

WrongPathTraversalSafe(windows, base, full) ==   \* a prefix is enough
  IsPrefix(BaseText(windows, base), PathText(windows, LexicallyNormal(full)))

IsPathTraversalSafe(windows, base, full) ==
  LET b == BaseText(windows, base)
      f == PathText(windows, LexicallyNormal(full))
  IN  IsPrefix(b, f) /\ (Len(f) > Len(b) => f[Len(b) + 1] \in Separator)

----------------------------------------------------------------------------
(* toFull *)

(* A root directory is a path of its platform and leads somewhere; none has *)
(* a colon in a name on Windows.                                            *)
IsRoot(windows, base) ==
  /\ base \in PathOn(windows)
  /\ base.rooted \/ LexicallyNormal(base).names \notin {<<>>, <<Dot>>}
  /\ windows => \A i \in DOMAIN base.names : ":" \notin ToSet(base.names[i])

Acceptable(windows, relative) ==
  relative # EmptyPath /\ ~IsAbsolute(windows, relative) /\ ~ContainsParentRef(relative)

(* The root provider gives an empty base when OBS has no path. *)
ToFull(windows, base, relative) ==
  LET full == LexicallyNormal(Combine(base, relative))
  IN  IF /\ Acceptable(windows, relative)
         /\ base # EmptyPath
         /\ IsPathTraversalSafe(windows, base, full)
      THEN full ELSE NoPath

----------------------------------------------------------------------------
(* What a reader of the result expects of it, name by name. *)

(* p is the base or below it. *)
Within(base, p) ==
  LET b == Place(LexicallyNormal(base))
      below == SubSeq(p.names, Len(b.names) + 1, Len(p.names))
  IN  /\ p.drive = b.drive /\ p.rooted = b.rooted
      /\ IsPrefix(b.names, p.names)
      /\ \A i \in DOMAIN below : below[i] # Parent

(* d is on the way from the top down to the base. *)
LeadsTo(d, base) ==
  LET b == Place(LexicallyNormal(base))
  IN  d.drive = b.drive /\ d.rooted = b.rooted /\ IsPrefix(d.names, b.names)

(* A relative path that leads down from wherever it is used. *)
Descends(p) ==
  p # EmptyPath /\ p.drive = NoDrive /\ ~p.rooted /\ ~ContainsParentRef(p)

============================================================================
