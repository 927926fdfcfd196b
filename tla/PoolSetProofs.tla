--------------------------- MODULE PoolSetProofs ---------------------------
(***************************************************************************)
(* Proofs about PoolSet, for any pools of any size and any clients: types,  *)
(* the conservation of items, what WaitReady says, and that PoolSet         *)
(* implements BatchLease.                                                              *)
(***************************************************************************)
EXTENDS PoolSet, TLAPS

\* Nothing of a pool is anywhere before the pool is initialized, nor if it cannot be.
Unmade ==
  \A p \in Pools : \A i \in ItemsOf(p) :
    ~Settled(p) \/ pools[p] = "stuck" =>
      i \notin ready /\ i \notin busy /\ \A c \in Clients : ~Has(c, i)

\* A request collects results as long as goroutines run for it; what they carry
\* has not been collected.
Collecting(c) ==
  /\ call[c] # "collecting" => \A p \in Pools : fork[c][p] = "none"
  /\ \A p \in Pools :
       /\ fork[c][p] \notin {"sending", "returning"} => carry[c][p] = {}
       /\ carry[c][p] # {} => \E i \in ItemsOf(p) : carry[c][p] = {i}
       /\ fork[c][p] # "none" => p \in ask[c] /\ set[c] \cap ItemsOf(p) = {}

\* The set of a request has one item of each pool that has answered without an
\* error, and none of a pool that it did not name.
Gathered(c) ==
  /\ \A p \in Pools : p \notin ask[c] => set[c] \cap ItemsOf(p) = {}
  /\ call[c] = "collecting" =>
       \A p \in ask[c] :
         fork[c][p] = "none" =>
           failed[c] \/ \E i \in ItemsOf(p) : set[c] \cap ItemsOf(p) = {i}
  /\ call[c] = "idle" => set[c] = {} /\ ~failed[c]
  /\ call[c] \in {"granted", "lost"} => ~failed[c]

\* What the loop of WaitReady has heard of a pool is so, and stays so: no error was
\* the last word of a pool that is initialized.
Heard ==
  /\ server = "awaiting" =>
       unwell \/ \A p \in Pools \ unheard : Settled(p) /\ pools[p] # "stuck"
  /\ unwell => expired \/ \E p \in Pools : pools[p] = "stuck"

IInv ==
  /\ TypeOK
  /\ Conserved
  /\ Unmade
  /\ ReadyMeansReady
  /\ Heard
  /\ \A c \in Clients : Collecting(c) /\ Gathered(c)

----------------------------------------------------------------------------
(* Items and pools *)

\* Every item belongs to one pool, the one it names (the keys of poolSet.pools).
LEMMA ItemPool ==
  /\ \A p \in Pools : ItemsOf(p) \subseteq Items
  /\ \A i \in Items : PoolOf(i) \in Pools /\ i \in ItemsOf(PoolOf(i))
  /\ \A p \in Pools : \A i \in ItemsOf(p) : PoolOf(i) = p
  BY DEF Items, ItemsOf, PoolOf

----------------------------------------------------------------------------
(* Types *)

\* Every step of the pool set, of a request or of a pool keeps the types.
LEMMA TypeStep ==
  ASSUME TypeOK, [Next]_vars
  PROVE  TypeOK'
<1> USE ItemPool DEF TypeOK, PoolStates, waitVars
<1>1. ASSUME NEW p \in Pools, CreatePool(p) \/ Initialized(p) \/ InitFails(p)
      PROVE  TypeOK'
  BY <1>1 DEF CreatePool, Initialized, InitFails, callVars
<1>2. CASE Listen
  BY <1>2 DEF Listen, poolVars, callVars
<1>3. CASE CreateFails
  BY <1>3 DEF CreateFails, poolVars, callVars
<1>4. CASE Close
  BY <1>4 DEF Close, poolVars, callVars
<1>5. CASE Stopped
  BY <1>5 DEF Stopped, poolVars, callVars
<1>6. ASSUME NEW p \in Pools,
             Wedges(p) \/ StopPool(p) \/ BufferStops(p) \/ Lingers(p) \/ PoolDone(p)
      PROVE  TypeOK'
  BY <1>6 DEF Wedges, StopPool, BufferStops, Lingers, PoolDone, callVars
<1>7. ASSUME NEW c \in Clients, Post(c) PROVE TypeOK'
  BY <1>7 DEF Post, Batches, othersThanCalls, poolVars
<1>8. ASSUME NEW c \in Clients, HangUp(c) PROVE TypeOK'
  BY <1>8 DEF HangUp, othersThanCalls, poolVars
<1>9. ASSUME NEW c \in Clients, NEW p \in Pools, Take(c, p) \/ HandBack(c, p) PROVE TypeOK'
  <2>1. CASE Take(c, p)
    <3>1. PICK i \in ready \cap ItemsOf(p) :
            ready' = ready \ {i} /\ carry' = [carry EXCEPT ![c][p] = {i}]
      BY <2>1 DEF Take
    <3>2. PICK next \in {"sending", "returning"} : fork' = [fork EXCEPT ![c][p] = next]
      BY <2>1 DEF Take
    <3> QED
      BY <2>1, <3>1, <3>2 DEF Take
  <2>2. CASE HandBack(c, p)
    BY <2>2 DEF HandBack, ReturnItem
  <2> QED
    BY <1>9, <2>1, <2>2
<1>10. ASSUME NEW c \in Clients, NEW p \in Pools, TakeFails(c, p) PROVE TypeOK'
  BY <1>10 DEF TakeFails, othersThanCalls, poolVars
<1>11. ASSUME NEW c \in Clients, NEW p \in Pools, Collect(c, p) PROVE TypeOK'
  BY <1>11 DEF Collect, othersThanCalls, poolVars
<1>12. ASSUME NEW c \in Clients, Decide(c) PROVE TypeOK'
  BY <1>12 DEF Decide, othersThanCalls, poolVars
<1>13. ASSUME NEW c \in Clients, PutBack(c) PROVE TypeOK'
  BY <1>13 DEF PutBack, ReturnItem
<1>14. ASSUME NEW c \in Clients, AnswerError(c) PROVE TypeOK'
  BY <1>14 DEF AnswerError, othersThanCalls, poolVars
<1>15. ASSUME NEW c \in Clients, Return(c) PROVE TypeOK'
  BY <1>15 DEF Return, ReturnItem
<1>16. ASSUME NEW i \in Items, BecomesReady(i) PROVE TypeOK'
  BY <1>16 DEF BecomesReady, callVars
<1>17. ASSUME NEW p \in Pools, Hear(p) PROVE TypeOK'
  BY <1>17 DEF Hear, Answers, poolVars, callVars
<1>18. CASE WaitReady \/ WaitReadyReturns \/ Expire
  BY <1>18 DEF WaitReady, WaitReadyReturns, Expire, poolVars, callVars
<1>19. CASE UNCHANGED vars
  BY <1>19 DEF vars, poolVars, callVars
<1> QED
  BY <1>1, <1>2, <1>3, <1>4, <1>5, <1>6, <1>7, <1>8, <1>9, <1>10, <1>11, <1>12,
     <1>13, <1>14, <1>15, <1>16, <1>17, <1>18, <1>19
  DEF Next, SetStep, CallStep

----------------------------------------------------------------------------
(* Requests *)

\* Steps that are not of a request leave what it has gathered alone.
LEMMA OtherStep ==
  ASSUME NEW c \in Clients, Collecting(c), Gathered(c), UNCHANGED callVars
  PROVE  Collecting(c)' /\ Gathered(c)'
  BY DEF Collecting, Gathered, callVars

\* A goroutine of CheckoutWith gets an item: it carries one of its pool.
LEMMA TakeStep ==
  ASSUME TypeOK, NEW c \in Clients, Collecting(c), Gathered(c),
         NEW d \in Clients, NEW p \in Pools, Take(d, p)
  PROVE  Collecting(c)' /\ Gathered(c)'
<1> USE DEF TypeOK
<1>1. PICK i \in ready \cap ItemsOf(p) : carry' = [carry EXCEPT ![d][p] = {i}]
  BY DEF Take
<1>2. PICK next \in {"sending", "returning"} : fork' = [fork EXCEPT ![d][p] = next]
  BY DEF Take
<1>3. fork[d][p] = "waiting" /\ UNCHANGED <<ask, call, set, failed>>
  BY DEF Take
<1>4. Collecting(c)'
  BY <1>1, <1>2, <1>3 DEF Collecting
<1>5. Gathered(c)'
  BY <1>2, <1>3 DEF Gathered
<1> QED
  BY <1>4, <1>5

\* The loop over the results receives one: an item of a pool that the set has
\* none of, or an error.
LEMMA CollectStep ==
  ASSUME TypeOK, NEW c \in Clients, Collecting(c), Gathered(c),
         NEW p \in Pools, Collect(c, p)
  PROVE  Collecting(c)' /\ Gathered(c)'
<1>1. /\ call[c] = "collecting" /\ p \in ask[c]
      /\ set[c] \cap ItemsOf(p) = {}
      /\ carry[c][p] \subseteq ItemsOf(p)
      /\ fork' = [fork EXCEPT ![c][p] = "none"]
      /\ carry' = [carry EXCEPT ![c][p] = {}]
      /\ set'[c] = set[c] \cup carry[c][p]
      /\ failed'[c] = (failed[c] \/ carry[c][p] = {})
      /\ UNCHANGED <<ask, call>>
  BY DEF Collect, Collecting, TypeOK
<1>2. fork'[c][p] = "none" /\ carry'[c][p] = {}
  BY <1>1 DEF TypeOK
<1>3. ASSUME NEW q \in Pools, q # p
      PROVE  /\ fork'[c][q] = fork[c][q] /\ carry'[c][q] = carry[c][q]
             /\ set'[c] \cap ItemsOf(q) = set[c] \cap ItemsOf(q)
  <2>1. fork'[c][q] = fork[c][q] /\ carry'[c][q] = carry[c][q]
    BY <1>1, <1>3 DEF TypeOK
  <2>2. ItemsOf(p) \cap ItemsOf(q) = {}
    BY <1>3, ItemPool
  <2> QED
    BY <1>1, <2>1, <2>2
<1>4. ask[c] \subseteq Pools
  BY DEF TypeOK
<1>5. Collecting(c)'
  BY <1>1, <1>2, <1>3 DEF Collecting
<1>6. failed'[c] \/ \E i \in ItemsOf(p) : set'[c] \cap ItemsOf(p) = {i}
  <2>1. CASE carry[c][p] = {}
    BY <1>1, <2>1
  <2>2. ASSUME NEW i \in ItemsOf(p), carry[c][p] = {i}
        PROVE  set'[c] \cap ItemsOf(p) = {i}
    BY <1>1, <2>2
  <2> QED
    BY <2>1, <2>2 DEF Collecting
<1>7. Gathered(c)'
  <2>1. ASSUME NEW q \in Pools, q \notin ask'[c] PROVE set'[c] \cap ItemsOf(q) = {}
    BY <1>1, <1>3, <2>1 DEF Gathered
  <2>2. ASSUME NEW q \in ask[c], fork'[c][q] = "none"
        PROVE  failed'[c] \/ \E i \in ItemsOf(q) : set'[c] \cap ItemsOf(q) = {i}
    <3>1. CASE q = p
      BY <3>1, <1>6
    <3>2. CASE q # p
      <4>1. /\ q \in Pools /\ fork[c][q] = "none"
            /\ set'[c] \cap ItemsOf(q) = set[c] \cap ItemsOf(q)
        BY <1>3, <1>4, <2>2, <3>2
      <4>2. failed[c] \/ \E i \in ItemsOf(q) : set[c] \cap ItemsOf(q) = {i}
        BY <1>1, <4>1 DEF Gathered
      <4> QED
        BY <1>1, <4>1, <4>2
    <3> QED
      BY <3>1, <3>2
  <2>3. call'[c] = "collecting" /\ ask'[c] = ask[c]
    BY <1>1
  <2> QED
    BY <2>1, <2>2, <2>3 DEF Gathered
<1> QED
  BY <1>5, <1>7

\* Every step keeps what a request has gathered in order.
LEMMA RequestStep ==
  ASSUME TypeOK, NEW c \in Clients, Collecting(c), Gathered(c), [Next]_vars
  PROVE  Collecting(c)' /\ Gathered(c)'
<1> USE DEF TypeOK
<1>1. ASSUME SetStep \/ \E i \in Items : BecomesReady(i)
      PROVE  UNCHANGED callVars
  BY <1>1 DEF SetStep, CreatePool, Initialized, InitFails, WaitReady, Hear,
     WaitReadyReturns, Listen, CreateFails, Close, Stopped, Expire, Wedges, StopPool,
     BufferStops, Lingers, PoolDone, BecomesReady
<1>2. ASSUME NEW d \in Clients, CallStep(d)
      PROVE  Collecting(c)' /\ Gathered(c)'
  <2>1. CASE Post(d)
    <3>1. CASE c = d
      <4>1. /\ call[c] = "idle" /\ call'[c] = "collecting"
            /\ \A p \in Pools : carry[c][p] = {}
            /\ set[c] = {} /\ UNCHANGED <<carry, set>>
        BY <2>1, <3>1 DEF Post, Collecting, Gathered
      <4>2. \A p \in Pools : fork'[c][p] # "none" <=> p \in ask'[c]
        BY <2>1, <3>1 DEF Post, Batches
      <4>3. ask'[c] \subseteq Pools
        BY <2>1, TypeStep
      <4> QED
        BY <4>1, <4>2, <4>3 DEF Collecting, Gathered
    <3>2. CASE c # d
      BY <2>1, <3>2 DEF Post, Collecting, Gathered
    <3> QED
      BY <3>1, <3>2
  <2>2. CASE HangUp(d)
    BY <2>2 DEF HangUp, Collecting, Gathered
  <2>3. ASSUME NEW p \in Pools, Take(d, p) PROVE Collecting(c)' /\ Gathered(c)'
    BY <2>3, TakeStep
  <2>4. ASSUME NEW p \in Pools, TakeFails(d, p) \/ HandBack(d, p)
        PROVE  Collecting(c)' /\ Gathered(c)'
    <3>1. /\ fork[d][p] # "none" /\ fork' = [fork EXCEPT ![d][p] = "sending"]
          /\ carry' = carry \/ carry' = [carry EXCEPT ![d][p] = {}]
          /\ UNCHANGED <<ask, call, set, failed>>
      BY <2>4 DEF TakeFails, HandBack
    <3>2. Collecting(c)'
      BY <3>1 DEF Collecting
    <3>3. Gathered(c)'
      BY <3>1 DEF Gathered
    <3> QED
      BY <3>2, <3>3
  <2>5. ASSUME NEW p \in Pools, Collect(d, p) PROVE Collecting(c)' /\ Gathered(c)'
    <3>1. CASE c = d
      BY <2>5, <3>1, CollectStep
    <3>2. CASE c # d
      BY <2>5, <3>2 DEF Collect, Collecting, Gathered
    <3> QED
      BY <3>1, <3>2
  <2>6. CASE Decide(d)
    <3>1. PICK next \in {"refusing", "granted", "lost"} :
            /\ call' = [call EXCEPT ![d] = next]
            /\ next # "refusing" => ~failed[d]
      BY <2>6 DEF Decide
    <3>2. UNCHANGED <<ask, fork, carry, set, failed>> /\ \A p \in Pools : fork[d][p] = "none"
      BY <2>6 DEF Decide
    <3> QED
      BY <3>1, <3>2 DEF Collecting, Gathered
  <2>7. CASE PutBack(d)
    <3>1. PICK i \in set[d] : set' = [set EXCEPT ![d] = @ \ {i}]
      BY <2>7 DEF PutBack
    <3>2. call[d] = "refusing" /\ UNCHANGED <<ask, call, fork, carry, failed>>
      BY <2>7 DEF PutBack
    <3> QED
      BY <3>1, <3>2 DEF Collecting, Gathered
  <2>8. CASE AnswerError(d)
    BY <2>8 DEF AnswerError, Collecting, Gathered
  <2>9. CASE Return(d)
    <3>1. PICK i \in set[d] : set' = [set EXCEPT ![d] = @ \ {i}]
      BY <2>9 DEF Return
    <3>2. /\ call[d] = "granted" /\ UNCHANGED <<ask, fork, carry, failed>>
          /\ call' = [call EXCEPT ![d] = IF set'[d] = {} THEN "idle" ELSE "granted"]
      BY <2>9 DEF Return
    <3> QED
      BY <3>1, <3>2 DEF Collecting, Gathered
  <2> QED
    BY <1>2, <2>1, <2>2, <2>3, <2>4, <2>5, <2>6, <2>7, <2>8, <2>9 DEF CallStep
<1>3. CASE UNCHANGED vars
  BY <1>3, OtherStep DEF vars
<1> QED
  BY <1>1, <1>2, <1>3, OtherStep DEF Next

----------------------------------------------------------------------------
(* Conservation: Placed says where items are.  A step either leaves all that  *)
(* requests have in place, or moves one item between a request and a pool.    *)

Placed == Conserved /\ Unmade

\* A pool that is initialized makes its items, which were nowhere.
LEMMA FillConserves ==
  ASSUME TypeOK, Placed, NEW p \in Pools, Initialized(p)
  PROVE  Placed'
<1> USE ItemPool DEF TypeOK, Settled
<1>1. /\ pools[p] = "initializing"
      /\ pools' = [pools EXCEPT ![p] = "serving"]
      /\ busy' = busy \cup ItemsOf(p)
      /\ UNCHANGED <<ready, set, carry>>
  BY DEF Initialized, callVars
<1>2. \A c \in Clients, i \in Items : Has(c, i)' <=> Has(c, i)
  BY <1>1 DEF Has
<1>3. \A i \in ItemsOf(p) : i \notin ready /\ \A c \in Clients : ~Has(c, i)
  BY <1>1 DEF Placed, Unmade
<1>4. Conserved'
  BY <1>1, <1>2, <1>3 DEF Placed, Conserved
<1>5. Unmade'
  BY <1>1, <1>2 DEF Placed, Unmade
<1> QED
  BY <1>4, <1>5 DEF Placed

\* A pool that is created, or could not be initialized, has no items.
LEMMA EmptyConserves ==
  ASSUME TypeOK, Placed, NEW p \in Pools, CreatePool(p) \/ InitFails(p)
  PROVE  Placed'
<1> USE ItemPool DEF TypeOK
<1>1. /\ pools[p] \in {"none", "initializing"}
      /\ pools' = [pools EXCEPT ![p] = pools'[p]]
      /\ pools'[p] \in {"initializing", "stuck"}
      /\ UNCHANGED <<ready, busy, set, carry>>
  BY DEF CreatePool, InitFails, callVars
<1>2. \A c \in Clients, i \in Items : Has(c, i)' <=> Has(c, i)
  BY <1>1 DEF Has
<1>3. Conserved'
  BY <1>1, <1>2 DEF Placed, Conserved
<1>4. Unmade'
  BY <1>1, <1>2 DEF Placed, Unmade, Settled
<1> QED
  BY <1>3, <1>4 DEF Placed

\* A pool that stops drops what it has; one that hangs keeps it.
LEMMA StopConserves ==
  ASSUME TypeOK, Placed, NEW p \in Pools,
         Wedges(p) \/ StopPool(p) \/ BufferStops(p) \/ Lingers(p) \/ PoolDone(p)
  PROVE  Placed'
<1> USE ItemPool DEF TypeOK
<1>1. /\ ready' \subseteq ready /\ busy' \subseteq busy
      /\ \A q \in Pools : pools'[q] \in {"serving", "wedged"} =>
           /\ pools[q] \in {"serving", "wedged"}
           /\ q # p \/ UNCHANGED <<ready, busy>>
      /\ \A q \in Pools : ~Settled(q)' \/ pools'[q] = "stuck" => pools'[q] = pools[q]
      /\ \A i \in Items : i \notin ItemsOf(p) => (i \in ready => i \in ready') /\ (i \in busy => i \in busy')
      /\ UNCHANGED <<set, carry>>
  BY DEF Wedges, StopPool, BufferStops, Lingers, PoolDone, Ending, Settled, callVars
<1>2. \A c \in Clients, i \in Items : Has(c, i)' <=> Has(c, i)
  BY <1>1 DEF Has
<1>3. Conserved'
  BY <1>1, <1>2 DEF Placed, Conserved
<1>4. Unmade'
  BY <1>1, <1>2 DEF Placed, Unmade, Settled
<1> QED
  BY <1>3, <1>4 DEF Placed

\* An item goes from the buffer of its pool to a request.
LEMMA TakeConserves ==
  ASSUME TypeOK, Placed, NEW c \in Clients, Collecting(c), NEW p \in Pools, Take(c, p)
  PROVE  Placed'
<1> USE ItemPool DEF TypeOK
<1>1. PICK i \in ready \cap ItemsOf(p) :
        ready' = ready \ {i} /\ carry' = [carry EXCEPT ![c][p] = {i}]
  BY DEF Take
<1>2. carry[c][p] = {} /\ UNCHANGED <<pools, busy, set>>
  BY DEF Take, Collecting
<1>3. \A d \in Clients, j \in Items : Has(d, j)' <=> Has(d, j) \/ (d = c /\ j = i)
  BY <1>1, <1>2 DEF Has
<1>4. i \in Items /\ i \notin busy /\ \A d \in Clients : ~Has(d, i)
  BY <1>1 DEF Placed, Conserved
<1>5. Conserved'
  BY <1>1, <1>2, <1>3, <1>4 DEF Placed, Conserved
<1>6. Unmade'
  BY <1>1, <1>2, <1>3 DEF Placed, Unmade, Settled
<1> QED
  BY <1>5, <1>6 DEF Placed

\* An item goes from a request or from a client back to its pool, or is gone with
\* it.
LEMMA ReturnConserves ==
  ASSUME TypeOK, Placed, NEW c \in Clients, NEW i \in Items, Has(c, i), ReturnItem(i),
         \A d \in Clients, j \in Items : Has(d, j)' <=> Has(d, j) /\ ~(d = c /\ j = i),
         UNCHANGED <<pools, ready>>
  PROVE  Placed'
<1> USE ItemPool DEF TypeOK
<1>1. /\ i \notin ready /\ i \notin busy
      /\ \A d \in Clients : ~Has(d, i)'
  BY DEF Placed, Conserved
<1>2. /\ pools[PoolOf(i)] \in {"serving", "draining", "lingering", "done"}
      /\ busy' = IF pools[PoolOf(i)] = "serving" THEN busy \cup {i} ELSE busy
  BY DEF ReturnItem, Receives
<1>3. Conserved'
  BY <1>1, <1>2 DEF Placed, Conserved
<1>4. Unmade'
  BY <1>1, <1>2 DEF Placed, Unmade, Settled
<1> QED
  BY <1>3, <1>4 DEF Placed

\* One of a set that has been collected (ReturnAll, handleReturn).
LEMMA SetReturns ==
  ASSUME TypeOK, NEW c \in Clients, Collecting(c), call[c] # "collecting",
         NEW i \in set[c], set' = [set EXCEPT ![c] = @ \ {i}], UNCHANGED carry
  PROVE  /\ i \in Items /\ Has(c, i)
         /\ \A d \in Clients, j \in Items : Has(d, j)' <=> Has(d, j) /\ ~(d = c /\ j = i)
<1>1. \A p \in Pools : carry[c][p] = {}
  BY DEF Collecting
<1> QED
  BY <1>1 DEF TypeOK, Has

\* The one that a goroutine carries, and has nowhere else (CheckoutWith).
LEMMA CarryReturns ==
  ASSUME TypeOK, NEW c \in Clients, Collecting(c), NEW p \in Pools, fork[c][p] # "none",
         NEW i \in carry[c][p], carry' = [carry EXCEPT ![c][p] = {}], UNCHANGED set
  PROVE  /\ i \in Items /\ Has(c, i)
         /\ \A d \in Clients, j \in Items : Has(d, j)' <=> Has(d, j) /\ ~(d = c /\ j = i)
<1> USE ItemPool DEF TypeOK
<1>1. carry[c][p] = {i} /\ i \in ItemsOf(p) /\ i \notin set[c]
  BY DEF Collecting
<1>2. \A q \in Pools : q # p => i \notin carry[c][q]
  BY <1>1
<1> QED
  BY <1>1, <1>2 DEF Has

\* Steps that move no item.
LEMMA StillConserves ==
  ASSUME TypeOK, Placed, UNCHANGED <<pools, ready, busy, set, carry>>
  PROVE  Placed'
  BY DEF Placed, Conserved, Unmade, Settled, Has

\* Every step keeps items where they belong.
LEMMA PlacedStep ==
  ASSUME TypeOK, Placed, \A c \in Clients : Collecting(c), [Next]_vars
  PROVE  Placed'
<1>1. CASE SetStep
  <2>1. ASSUME NEW p \in Pools, Initialized(p) PROVE Placed'
    BY <2>1, FillConserves
  <2>2. ASSUME NEW p \in Pools,
               Wedges(p) \/ StopPool(p) \/ BufferStops(p) \/ Lingers(p) \/ PoolDone(p)
        PROVE  Placed'
    BY <2>2, StopConserves
  <2>3. CASE CreateFails \/ Listen \/ Close \/ Stopped \/ Expire
    BY <2>3, StillConserves DEF CreateFails, Listen, Close, Stopped, Expire, poolVars, callVars
  <2>4. ASSUME NEW p \in Pools, CreatePool(p) \/ InitFails(p) PROVE Placed'
    BY <2>4, EmptyConserves
  <2>5. CASE WaitReady \/ WaitReadyReturns \/ \E p \in Pools : Hear(p)
    BY <2>5, StillConserves DEF WaitReady, WaitReadyReturns, Hear, poolVars, callVars
  <2> QED
    BY <1>1, <2>1, <2>2, <2>3, <2>4, <2>5 DEF SetStep
<1>2. ASSUME NEW c \in Clients, CallStep(c) PROVE Placed'
  <2>1. CASE Post(c) \/ HangUp(c) \/ Decide(c) \/ AnswerError(c)
    BY <2>1, StillConserves
    DEF Post, HangUp, Decide, AnswerError, othersThanCalls, poolVars
  <2>2. ASSUME NEW p \in Pools, Take(c, p) PROVE Placed'
    BY <2>2, TakeConserves
  <2>3. ASSUME NEW p \in Pools, TakeFails(c, p) PROVE Placed'
    BY <2>3, StillConserves DEF TakeFails, othersThanCalls, poolVars
  <2>4. ASSUME NEW p \in Pools, Collect(c, p) PROVE Placed'
    <3>1. \A d \in Clients, i \in Items : Has(d, i)' <=> Has(d, i)
      BY <2>4 DEF Collect, Has, TypeOK
    <3>2. UNCHANGED <<pools, ready, busy>>
      BY <2>4 DEF Collect, othersThanCalls, poolVars
    <3> QED
      BY <3>1, <3>2, ItemPool DEF Placed, Conserved, Unmade, Settled
  <2>5. CASE PutBack(c) \/ Return(c)
    <3>1. PICK i \in set[c] : ReturnItem(i) /\ set' = [set EXCEPT ![c] = @ \ {i}]
      BY <2>5 DEF PutBack, Return
    <3>2. call[c] # "collecting" /\ UNCHANGED <<pools, ready, carry>>
      BY <2>5 DEF PutBack, Return
    <3> QED
      BY <3>1, <3>2, SetReturns, ReturnConserves
  <2>6. ASSUME NEW p \in Pools, HandBack(c, p) PROVE Placed'
    <3>1. PICK i \in carry[c][p] : ReturnItem(i)
      BY <2>6 DEF HandBack
    <3>2. /\ fork[c][p] # "none" /\ carry' = [carry EXCEPT ![c][p] = {}]
          /\ UNCHANGED <<pools, ready, set>>
      BY <2>6 DEF HandBack
    <3> QED
      BY <3>1, <3>2, CarryReturns, ReturnConserves
  <2> QED
    BY <1>2, <2>1, <2>2, <2>3, <2>4, <2>5, <2>6 DEF CallStep
<1>3. ASSUME NEW i \in Items, BecomesReady(i) PROVE Placed'
  <2>1. /\ i \in busy /\ busy' = busy \ {i} /\ ready' = ready \cup {i}
        /\ UNCHANGED <<pools, set, carry>>
    BY <1>3 DEF BecomesReady, callVars
  <2>2. \A d \in Clients, j \in Items : Has(d, j)' <=> Has(d, j)
    BY <2>1 DEF Has
  <2> QED
    BY <2>1, <2>2, ItemPool DEF Placed, Conserved, Unmade, Settled
<1>4. CASE UNCHANGED vars
  BY <1>4, StillConserves DEF vars, poolVars, callVars
<1> QED
  BY <1>1, <1>2, <1>3, <1>4 DEF Next

----------------------------------------------------------------------------
(* WaitReady *)

\* A pool whose initialization is over is never initialized again, and one that
\* could not be stays so: what WaitReady has heard of a pool remains true.
LEMMA HeardStep ==
  ASSUME TypeOK, ReadyMeansReady, Heard, [Next]_vars
  PROVE  ReadyMeansReady' /\ Heard'
<1> USE DEF TypeOK, Settled
<1> DEFINE Lasting == \A p \in Pools :
             /\ Settled(p) => Settled(p)'
             /\ pools'[p] = "stuck" <=> pools[p] = "stuck"
<1>1. ASSUME Lasting, UNCHANGED <<server, unheard, unwell>>, expired => expired'
      PROVE  ReadyMeansReady' /\ Heard'
  BY <1>1 DEF ReadyMeansReady, Heard
<1>2. CASE SetStep
  <2>1. ASSUME NEW p \in Pools, CreatePool(p) PROVE ReadyMeansReady' /\ Heard'
    BY <2>1 DEF CreatePool, ReadyMeansReady, Heard, waitVars
  <2>2. ASSUME NEW p \in Pools, InitFails(p) PROVE ReadyMeansReady' /\ Heard'
    BY <2>2 DEF InitFails, ReadyMeansReady, Heard, waitVars
  <2>3. ASSUME NEW p \in Pools, Initialized(p) PROVE Lasting /\ UNCHANGED <<server, waitVars>>
    BY <2>3 DEF Initialized
  <2>4. ASSUME NEW p \in Pools,
               Wedges(p) \/ StopPool(p) \/ BufferStops(p) \/ Lingers(p) \/ PoolDone(p)
        PROVE  Lasting /\ UNCHANGED <<server, waitVars>>
    BY <2>4 DEF Wedges, StopPool, BufferStops, Lingers, PoolDone
  <2>5. CASE WaitReady
    BY <2>5 DEF WaitReady, ReadyMeansReady, Heard, poolVars
  <2>6. ASSUME NEW p \in Pools, Hear(p) PROVE ReadyMeansReady' /\ Heard'
    BY <2>6 DEF Hear, Answers, ReadyMeansReady, Heard, poolVars
  <2>7. CASE WaitReadyReturns
    BY <2>7 DEF WaitReadyReturns, ReadyMeansReady, Heard, poolVars, waitVars
  <2>8. CASE CreateFails \/ Listen \/ Close \/ Stopped
    BY <2>8 DEF CreateFails, Listen, Close, Stopped, ReadyMeansReady, Heard, poolVars,
       waitVars
  <2>9. CASE Expire
    BY <1>1, <2>9 DEF Expire, poolVars
  <2> QED
    BY <1>1, <1>2, <2>1, <2>2, <2>3, <2>4, <2>5, <2>6, <2>7, <2>8, <2>9
    DEF SetStep, waitVars
<1>3. ASSUME NEW c \in Clients, CallStep(c) PROVE UNCHANGED <<server, waitVars, pools>>
  BY <1>3 DEF CallStep, Post, HangUp, Decide, AnswerError, PutBack, Return, Take,
     TakeFails, HandBack, Collect, othersThanCalls, poolVars
<1>4. ASSUME NEW i \in Items, BecomesReady(i) PROVE UNCHANGED <<server, waitVars, pools>>
  BY <1>4 DEF BecomesReady
<1>5. CASE UNCHANGED vars
  BY <1>1, <1>5 DEF vars, waitVars, poolVars
<1> QED
  BY <1>1, <1>2, <1>3, <1>4, <1>5 DEF Next, waitVars

----------------------------------------------------------------------------
(* The inductive invariant *)

\* Before the first pool is created there are no items and no requests.
LEMMA InitInv == Init => IInv
<1> SUFFICES ASSUME Init PROVE IInv
  OBVIOUS
<1>1. TypeOK
  BY DEF Init, TypeOK, PoolStates
<1>2. \A i \in Items : PoolOf(i) \in Pools /\ \A c \in Clients : ~Has(c, i)
  BY ItemPool DEF Init, Has
<1>3. Conserved /\ Unmade
  BY <1>2, ItemPool DEF Init, Conserved, Unmade
<1>4. ReadyMeansReady /\ Heard
  BY DEF Init, ReadyMeansReady, Heard
<1>5. \A c \in Clients : Collecting(c) /\ Gathered(c)
  BY DEF Init, Collecting, Gathered
<1> QED
  BY <1>1, <1>3, <1>4, <1>5 DEF IInv

\* Every step keeps the invariant.
LEMMA StepInv == IInv /\ [Next]_vars => IInv'
<1> SUFFICES ASSUME IInv, [Next]_vars PROVE IInv'
  OBVIOUS
<1>1. TypeOK'
  BY TypeStep DEF IInv
<1>2. Conserved' /\ Unmade'
  BY PlacedStep DEF IInv, Placed
<1>3. ReadyMeansReady' /\ Heard'
  BY HeardStep DEF IInv
<1>4. ASSUME NEW c \in Clients PROVE Collecting(c)' /\ Gathered(c)'
  BY RequestStep DEF IInv
<1> QED
  BY <1>1, <1>2, <1>3, <1>4 DEF IInv

\* The inductive invariant of the pool set and its requests.
THEOREM SetInvariance == Spec => []IInv
  BY InitInv, StepInv, PTL DEF Spec

\* No item is lost or in two places (CheckoutWith, ReturnAll, the handlers).
THEOREM ItemsConserved == Spec => []Conserved
<1>1. IInv => Conserved
  BY DEF IInv
<1> QED
  BY <1>1, SetInvariance, PTL

\* WaitReady reports no error only of pools that are initialized, and an error only
\* if one could not be or the context of the pools ended.
THEOREM ReadyIsReady == Spec => []ReadyMeansReady
<1>1. IInv => ReadyMeansReady
  BY DEF IInv
<1> QED
  BY <1>1, SetInvariance, PTL

----------------------------------------------------------------------------
(* PoolSet implements BatchLease *)

\* Steps that change neither the state of a request nor what clients have.
LEMMA Unseen ==
  ASSUME TypeOK, UNCHANGED <<ask, call>>,
         \A c \in Clients : call[c] \in {"granted", "lost"} => set'[c] = set[c]
  PROVE  UNCHANGED Lease!leaseVars
<1>1. Verdict' = Verdict
  BY DEF Verdict
<1>2. Lent' = Lent
  BY DEF Lent
<1> QED
  BY <1>1, <1>2 DEF Lease!leaseVars

\* A function that differs from another at one place.
LEMMA DiffersAt ==
  ASSUME NEW S, NEW f, NEW g, f = [d \in S |-> f[d]], g = [d \in S |-> g[d]],
         NEW c \in S, \A d \in S : d # c => g[d] = f[d]
  PROVE  g = [f EXCEPT ![c] = g[c]]
  OBVIOUS

\* A step that changes the state of one request changes its verdict and what it
\* has, and those of no other.
LEMMA OneChanges ==
  ASSUME NEW c \in Clients,
         \A d \in Clients : d # c => call'[d] = call[d] /\ set'[d] = set[d]
  PROVE  /\ Verdict' = [Verdict EXCEPT ![c] = Verdict'[c]]
         /\ Lent' = [Lent EXCEPT ![c] = Lent'[c]]
<1>1. \A d \in Clients : d # c => Verdict'[d] = Verdict[d] /\ Lent'[d] = Lent[d]
  BY DEF Verdict, Lent
<1>2. /\ Verdict = [d \in Clients |-> Verdict[d]] /\ Verdict' = [d \in Clients |-> Verdict'[d]]
      /\ Lent = [d \in Clients |-> Lent[d]] /\ Lent' = [d \in Clients |-> Lent'[d]]
  BY DEF Verdict, Lent
<1>3. Verdict' = [Verdict EXCEPT ![c] = Verdict'[c]]
  BY <1>1, <1>2, DiffersAt
<1>4. Lent' = [Lent EXCEPT ![c] = Lent'[c]]
  BY <1>1, <1>2, DiffersAt
<1> QED
  BY <1>3, <1>4

\* A request that gets its answer has an item of each of the pools it names, and
\* nobody else has them: this is a grant (Decide, the end of CheckoutWith).
LEMMA DecideGrants ==
  ASSUME IInv, TypeOK', NEW c \in Clients, Decide(c), call'[c] \in {"granted", "lost"}
  PROVE  Lease!Grant(c)
<1> USE DEF IInv, TypeOK
<1>1. /\ call[c] = "collecting" /\ ~failed[c]
      /\ \A p \in Pools : fork[c][p] = "none"
      /\ call' = [call EXCEPT ![c] = call'[c]]
      /\ UNCHANGED <<ask, set>>
  BY DEF Decide
<1>2. Verdict[c] = "pending" /\ Verdict'[c] = "granted" /\ Lent'[c] = set[c]
  BY <1>1 DEF Verdict, Lent
<1>3. /\ Verdict' = [Verdict EXCEPT ![c] = "granted"]
      /\ Lent' = [Lent EXCEPT ![c] = set[c]]
  <2>1. \A d \in Clients : d # c => call'[d] = call[d] /\ set'[d] = set[d]
    BY <1>1
  <2> QED
    BY <1>2, <2>1, OneChanges
<1>4. \A p \in ask[c] : \E i \in ItemsOf(p) : set[c] \cap ItemsOf(p) = {i}
  BY <1>1 DEF Gathered
<1>5. \A i \in set[c] : \E p \in ask[c] : i \in ItemsOf(p)
  BY ItemPool DEF Gathered
<1>6. Lease!OneOfEach(set[c], ask[c])
  BY <1>4, <1>5 DEF Lease!OneOfEach
<1>7. ASSUME NEW d \in Clients PROVE set[c] \cap Lent[d] = {}
  <2>1. CASE d = c
    BY <1>1, <2>1 DEF Lent
  <2>2. CASE d # c
    BY <2>2 DEF Lent, Conserved, Has
  <2> QED
    BY <2>1, <2>2
<1>8. set[c] \in SUBSET UNION {[q \in Pools |-> ItemsOf(q)][p] : p \in Pools}
  BY DEF Items
<1> QED
  BY <1>1, <1>2, <1>3, <1>6, <1>7, <1>8 DEF Lease!Grant

\* Every step of a request is one of its lease or is not seen by clients.
LEMMA CallRefines ==
  ASSUME IInv, TypeOK', NEW c \in Clients, CallStep(c)
  PROVE  Lease!Ask(c) \/ Lease!Grant(c) \/ Lease!Refuse(c) \/ Lease!GiveBack(c)
         \/ UNCHANGED Lease!leaseVars
<1> USE DEF IInv, TypeOK
<1>1. CASE Post(c)
  <2>1. /\ call[c] = "idle" /\ call' = [call EXCEPT ![c] = "collecting"] /\ UNCHANGED set
        /\ \E names \in SUBSET Pools : ask' = [ask EXCEPT ![c] = names]
    <3>1. Batches \subseteq SUBSET Pools
      BY DEF Batches
    <3> QED
      BY <1>1, <3>1 DEF Post
  <2>2. Verdict[c] = "none" /\ Verdict'[c] = "pending" /\ Lent[c] = {} /\ Lent'[c] = {}
    BY <2>1 DEF Verdict, Lent
  <2>3. Verdict' = [Verdict EXCEPT ![c] = "pending"] /\ Lent' = [Lent EXCEPT ![c] = {}]
    <3>1. \A d \in Clients : d # c => call'[d] = call[d] /\ set'[d] = set[d]
      BY <2>1
    <3> QED
      BY <2>2, <3>1, OneChanges
  <2>4. Lent' = Lent
    BY <2>2, <2>3 DEF Lent
  <2> QED
    BY <2>1, <2>2, <2>3, <2>4 DEF Lease!Ask
<1>2. CASE HangUp(c)
  BY <1>2, Unseen DEF HangUp
<1>3. CASE Decide(c)
  <2>1. CASE call'[c] \in {"granted", "lost"}
    BY <1>3, <2>1, DecideGrants
  <2>2. CASE call'[c] = "refusing"
    <3>1. call[c] = "collecting" /\ call' = [call EXCEPT ![c] = "refusing"] /\ UNCHANGED <<ask, set>>
      BY <1>3, <2>2 DEF Decide
    <3>2. Verdict' = Verdict /\ Lent' = Lent
      BY <3>1 DEF Verdict, Lent
    <3> QED
      BY <3>1, <3>2 DEF Lease!leaseVars
  <2>3. call'[c] \in {"granted", "lost", "refusing"}
    BY <1>3 DEF Decide
  <2> QED
    BY <2>1, <2>2, <2>3
<1>4. CASE PutBack(c)
  BY <1>4, Unseen DEF PutBack
<1>5. CASE AnswerError(c)
  <2>1. call[c] = "refusing" /\ call' = [call EXCEPT ![c] = "idle"] /\ UNCHANGED <<ask, set>>
    BY <1>5 DEF AnswerError
  <2>2. Verdict[c] = "pending" /\ Verdict'[c] = "none" /\ Lent' = Lent
    BY <2>1 DEF Verdict, Lent
  <2>3. Verdict' = [Verdict EXCEPT ![c] = "none"]
    <3>1. \A d \in Clients : d # c => call'[d] = call[d] /\ set'[d] = set[d]
      BY <2>1
    <3> QED
      BY <2>2, <3>1, OneChanges
  <2> QED
    BY <2>1, <2>2, <2>3 DEF Lease!Refuse
<1>6. CASE Return(c)
  <2>1. PICK i \in set[c] : set' = [set EXCEPT ![c] = @ \ {i}]
    BY <1>6 DEF Return
  <2> DEFINE next == IF set'[c] = {} THEN "idle" ELSE "granted"
  <2>2. call[c] = "granted" /\ call' = [call EXCEPT ![c] = next] /\ UNCHANGED ask
    BY <1>6 DEF Return
  <2>3. /\ Verdict[c] = "granted" /\ Lent[c] = set[c]
        /\ Lent'[c] = set[c] \ {i}
        /\ Verdict'[c] = IF Lent'[c] = {} THEN "none" ELSE "granted"
    BY <2>1, <2>2 DEF Verdict, Lent
  <2>4. /\ Verdict' = [Verdict EXCEPT ![c] = Verdict'[c]]
        /\ Lent' = [Lent EXCEPT ![c] = Lent'[c]]
    <3>1. \A d \in Clients : d # c => call'[d] = call[d] /\ set'[d] = set[d]
      BY <2>1, <2>2
    <3> QED
      BY <3>1, OneChanges
  <2> QED
    BY <2>1, <2>2, <2>3, <2>4 DEF Lease!GiveBack
<1>7. ASSUME NEW p \in Pools, Take(c, p) \/ TakeFails(c, p) \/ HandBack(c, p)
      PROVE  UNCHANGED Lease!leaseVars
  BY <1>7, Unseen DEF Take, TakeFails, HandBack
<1>8. ASSUME NEW p \in Pools, Collect(c, p)
      PROVE  UNCHANGED Lease!leaseVars
  BY <1>8, Unseen DEF Collect
<1> QED
  BY <1>1, <1>2, <1>3, <1>4, <1>5, <1>6, <1>7, <1>8 DEF CallStep

\* Every step of the pool set is one of the lease or is not seen by clients.
LEMMA StepRefines ==
  IInv /\ TypeOK' /\ [Next]_vars => [Lease!LeaseNext]_Lease!leaseVars
<1> SUFFICES ASSUME IInv, TypeOK', [Next]_vars PROVE [Lease!LeaseNext]_Lease!leaseVars
  OBVIOUS
<1>1. CASE SetStep
  BY <1>1, Unseen DEF IInv, SetStep, CreatePool, Initialized, InitFails, WaitReady, Hear,
     WaitReadyReturns, Listen, CreateFails, Close, Stopped, Expire, Wedges, StopPool,
     BufferStops, Lingers, PoolDone, callVars
<1>2. ASSUME NEW c \in Clients, CallStep(c) PROVE [Lease!LeaseNext]_Lease!leaseVars
  BY <1>2, CallRefines DEF Lease!LeaseNext
<1>3. ASSUME NEW i \in Items, BecomesReady(i) PROVE UNCHANGED Lease!leaseVars
  BY <1>3, Unseen DEF IInv, BecomesReady, callVars
<1>4. CASE UNCHANGED vars
  BY <1>4, Unseen DEF IInv, vars, callVars
<1> QED
  BY <1>1, <1>2, <1>3, <1>4 DEF Next

\* The pool set keeps the lease that BatchLease describes: a batch has all of its
\* items or none, and nobody else has them (CheckoutWith, ReturnAll, Return).
THEOREM LeaseKept == Spec => KeepsLease
<1>1. Init => Lease!LeaseInit
  BY DEF Init, Lease!LeaseInit, Verdict, Lent
<1>2. IInv => TypeOK
  BY DEF IInv
<1> QED
  BY <1>1, <1>2, StepRefines, SetInvariance, PTL DEF Spec, KeepsLease, Lease!LeaseSpec
=============================================================================
