------------------------------- MODULE Lists -------------------------------
(***************************************************************************)
(* Lists that are kept in the order of use and have a byte budget: the LRU *)
(* of chunks in memory and of chunk files (internal/stream/store.go) and   *)
(* that of read windows (internal/remote/remote.go).                       *)
(***************************************************************************)
EXTENDS Integers, Sequences

Elems(s) == {s[i] : i \in DOMAIN s}
Distinct(s) == \A i, j \in DOMAIN s : s[i] = s[j] => i = j

Front(s, n) == SubSeq(s, 1, n)
Drop(s, n) == SubSeq(s, n + 1, Len(s))

(* What the elements of s weigh together, w being the weight of each.      *)
Total(w, s) ==
  LET sum[i \in 0..Len(s)] == IF i = 0 THEN 0 ELSE sum[i - 1] + w[s[i]]
  IN  sum[Len(s)]

(* s without the elements of S.                                            *)
Without(s, S) ==
  LET rest[i \in 0..Len(s)] ==
        IF i = 0 THEN <<>>
        ELSE IF s[i] \in S THEN rest[i - 1]
        ELSE Append(rest[i - 1], s[i])
  IN  rest[Len(s)]

(* How many elements a loop removes from the front of s, given its counter *)
(* of bytes and its limit.                                                 *)
Excess(w, s, bytes, limit) ==
  CHOOSE n \in 0..Len(s) :
    /\ n = Len(s) \/ bytes - Total(w, Front(s, n)) <= limit
    /\ \A m \in 0..(n - 1) : bytes - Total(w, Front(s, m)) > limit
=============================================================================
