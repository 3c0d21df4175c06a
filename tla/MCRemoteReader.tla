--------------------------- MODULE MCRemoteReader ---------------------------
EXTENDS RemoteReader, TLC

CONSTANTS c1, c2

Header(form, first, last) == [form |-> form, first |-> first, last |-> last]

(* Requests whose chunks at one offset have one length: one of two pieces  *)
(* for the whole file and one across the border of a window for its last   *)
(* two bytes; and one for what is behind the file.                         *)
EvenRequests ==
  {NoHeader, Header("suffix", 0, 2), Header("from", 5, 0)}

(* Requests that start together and end apart.                             *)
UnevenRequests == {Header("span", 0, 2), Header("span", 0, 3)}

SymCallers == Permutations(Callers)
=============================================================================
