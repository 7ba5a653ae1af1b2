---------------------------- MODULE MCFileStore ----------------------------
(* A small instance of the file store for model checking. *)
EXTENDS FileStore, TLC

Path(drive, rooted, names) == [drive |-> drive, rooted |-> rooted, names |-> names]

a  == <<"a">>
b  == <<"b">>
ab == <<"a", "b">>
C  == <<"C", ":">>
D  == <<"D", ":">>

(* "/ab"; "C:\ab\", with the separator OBS leaves at the end; a portable    *)
(* installation's "..\..\a"; no root at all.                                *)
MCHome == {
  [windows |-> FALSE, base |-> Path(NoDrive, TRUE, <<ab>>)],
  [windows |-> TRUE,  base |-> Path(C, TRUE, <<a, <<>>>>)],
  [windows |-> TRUE,  base |-> Path(NoDrive, FALSE, <<Parent, Parent, a>>)],
  [windows |-> TRUE,  base |-> EmptyPath]}

(* Ordinary paths: a file, and a directory of that name with a file in it,  *)
(* one of them written with dots; the root itself.  On Windows: from the    *)
(* drive's root, once beside and once below the root; with a drive of its   *)
(* own, the root's and another.  And a way up.                              *)
MCRelative == {
  Path(NoDrive, FALSE, <<a>>), Path(NoDrive, FALSE, <<Dot, a, b>>),
  Path(NoDrive, FALSE, <<a, <<>>>>), Path(NoDrive, FALSE, <<Dot>>),
  Path(NoDrive, TRUE, <<ab>>), Path(NoDrive, TRUE, <<a, a>>),
  Path(C, FALSE, <<a>>), Path(D, FALSE, <<a>>), Path(C, TRUE, <<a>>),
  Path(NoDrive, FALSE, <<Parent, a>>), EmptyPath}

(* Two pieces, and another piece alone. *)
MCText == {<<"x1", "x2">>, <<"y1">>}

Symmetry == Permutations(Caller)

============================================================================
