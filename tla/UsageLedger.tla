---------------------------- MODULE UsageLedger ----------------------------
(***************************************************************************)
(* What the usage worker promises: exactly-once accounting.  Producers put *)
(* entries that name a request into the stream, possibly several for one   *)
(* request; the ledger charges them, several at a time, but charges a      *)
(* request only while none of its entries has been charged.                *)
(***************************************************************************)
EXTENDS Naturals

CONSTANTS Id, RequestId

VARIABLES
  request, \* the request each accepted entry names
  charges  \* how often each accepted entry has been charged

vars == <<request, charges>>

Accepted == DOMAIN request

Init ==
  /\ request = [i \in {} |-> i]
  /\ charges = [i \in {} |-> 0]

Accept(i, r) ==
  /\ i \notin Accepted
  /\ request' = [j \in Accepted \cup {i} |-> IF j = i THEN r ELSE request[j]]
  /\ charges' = [j \in Accepted \cup {i} |-> IF j = i THEN 0 ELSE charges[j]]

Uncharged(r) == \A i \in Accepted : request[i] = r => charges[i] = 0

Charge(S) ==
  /\ \A i \in S : Uncharged(request[i])
  /\ \A i, j \in S : request[i] = request[j] => i = j
  /\ charges' = [i \in Accepted |-> IF i \in S THEN 1 ELSE charges[i]]
  /\ UNCHANGED request

Next ==
  \/ \E i \in Id, r \in RequestId : Accept(i, r)
  \/ \E S \in SUBSET Accepted : Charge(S)

Spec == Init /\ [][Next]_vars
============================================================================
