----------------------------- MODULE MCMetadata -----------------------------
EXTENDS Metadata, TLC

CONSTANTS root, d, e, a, x, t1, t2, app

(* A directory d of the root with a directory e in it, and another         *)
(* directory x of the root, whose name is, as a pattern, like that of d.   *)
Tree == (d :> root) @@ (e :> d) @@ (x :> root)
TreeAlike == (d :> {}) @@ (e :> {}) @@ (x :> {d})

(* A directory d of the root and a file a in it.                           *)
FlatTree == (d :> root) @@ (a :> d)
FlatAlike == (d :> {}) @@ (a :> {})
=============================================================================
