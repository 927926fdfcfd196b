----------------------------- MODULE BatchLease -----------------------------
(***************************************************************************)
(* What the pool set promises to those who ask it for containers: a request *)
(* names some pools and is granted one item of each, all at once, or is     *)
(* refused and has none.  An item is lent to one client at a time.          *)
(***************************************************************************)
CONSTANTS Pools,    \* names of the configured pools
          Stock,    \* Stock[p]: the items that pool p lends
          Clients   \* users of the HTTP API, one request at a time each

VARIABLES
  ask,       \* ask[c]: the configured pools that the request of c names
  verdict,   \* verdict[c]: "none" (no request), "pending" or "granted"
  lent       \* lent[c]: the items c has been given and not returned

leaseVars == <<ask, verdict, lent>>

LeaseInit ==
  /\ ask = [c \in Clients |-> {}]
  /\ verdict = [c \in Clients |-> "none"]
  /\ lent = [c \in Clients |-> {}]

Ask(c) ==
  /\ verdict[c] = "none"
  /\ verdict' = [verdict EXCEPT ![c] = "pending"]
  /\ \E names \in SUBSET Pools : ask' = [ask EXCEPT ![c] = names]
  /\ UNCHANGED lent

\* S is one item of each pool in names.
OneOfEach(S, names) ==
  /\ \A p \in names : \E i \in Stock[p] : S \cap Stock[p] = {i}
  /\ \A i \in S : \E p \in names : i \in Stock[p]

Grant(c) ==
  /\ verdict[c] = "pending"
  /\ verdict' = [verdict EXCEPT ![c] = "granted"]
  /\ \E S \in SUBSET UNION {Stock[p] : p \in Pools} :
       /\ OneOfEach(S, ask[c])
       /\ \A d \in Clients : S \cap lent[d] = {}
       /\ lent' = [lent EXCEPT ![c] = S]
  /\ UNCHANGED ask

Refuse(c) ==
  /\ verdict[c] = "pending"
  /\ verdict' = [verdict EXCEPT ![c] = "none"]
  /\ UNCHANGED <<ask, lent>>

\* Items come back one by one, by DELETE /return or /return/{pool}/{id}.
GiveBack(c) ==
  /\ verdict[c] = "granted"
  /\ \E i \in lent[c] : lent' = [lent EXCEPT ![c] = @ \ {i}]
  /\ verdict' = [verdict EXCEPT ![c] = IF lent'[c] = {} THEN "none" ELSE "granted"]
  /\ UNCHANGED ask

LeaseNext == \E c \in Clients : Ask(c) \/ Grant(c) \/ Refuse(c) \/ GiveBack(c)

LeaseSpec == LeaseInit /\ [][LeaseNext]_leaseVars
=============================================================================
