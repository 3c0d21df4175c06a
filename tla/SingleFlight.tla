---------------------------- MODULE SingleFlight ----------------------------
(***************************************************************************)
(* What the streaming engine promises about the downloads of one chunk.    *)
(*                                                                         *)
(* A ticket stands for one promised download of a key (a chunk of a file   *)
(* version).  Tickets are issued, may be abandoned (their request is       *)
(* cancelled), and are settled exactly once with a result that everybody   *)
(* who waits for the ticket receives.  While a ticket of a key is live -   *)
(* neither settled nor abandoned - no second ticket is issued for the key: *)
(* every other reader shares it.                                           *)
(*                                                                         *)
(* The module says nothing of queues, workers, hedged requests or sessions *)
(* and is implemented by StreamScheduler.                                  *)
(***************************************************************************)
CONSTANTS Key,      \* what is downloaded
          Ticket,   \* identities of promised downloads
          NoKey     \* not a key: the ticket has not been issued

VARIABLES tkey,       \* the key a ticket was issued for
          abandoned,  \* tickets whose request has been cancelled
          result      \* the result a ticket was settled with

vars == <<tkey, abandoned, result>>

Result == {"pending", "ok", "err"}

Issued == {t \in Ticket : tkey[t] # NoKey}

Live == {t \in Issued \ abandoned : result[t] = "pending"}

Init ==
  /\ tkey = [t \in Ticket |-> NoKey]
  /\ abandoned = {}
  /\ result = [t \in Ticket |-> "pending"]

(* A new download is promised for k: nobody else is downloading k.         *)
Issue(t, k) ==
  /\ t \notin Issued
  /\ \A u \in Live : tkey[u] # k
  /\ tkey' = [tkey EXCEPT ![t] = k]
  /\ UNCHANGED <<abandoned, result>>

(* Requests are cancelled; whoever waits for one still gets a result.      *)
Abandon(S) ==
  /\ S \subseteq Issued
  /\ abandoned' = abandoned \cup S
  /\ UNCHANGED <<tkey, result>>

(* Tickets receive their result r; their requests may be cancelled.        *)
Settle(S, r) ==
  /\ S \subseteq Issued
  /\ \A t \in S : result[t] = "pending"
  /\ r \in Result \ {"pending"}
  /\ result' = [t \in Ticket |-> IF t \in S THEN r ELSE result[t]]
  /\ abandoned' \in {abandoned, abandoned \cup S}
  /\ UNCHANGED tkey

Next ==
  \/ \E t \in Ticket, k \in Key : Issue(t, k)
  \/ \E S \in SUBSET Ticket : Abandon(S)
  \/ \E S \in SUBSET Ticket, r \in Result : Settle(S, r)

Spec == Init /\ [][Next]_vars
=============================================================================
