--------------------------- MODULE BacklogProofs ---------------------------
(***************************************************************************)
(* Proofs about Backlog, for every Size, ReqCap and MaxExits.  The          *)
(* invariants of the runs are not inductive: SpawnCovers says nothing of    *)
(* the state of the spawner's goroutine, and OvershootBound nothing of the  *)
(* requests that are still queued.  IInv adds what is missing.              *)
(***************************************************************************)
EXTENDS Backlog, SequenceTheorems, TLAPS

\* What the queued requests can still add: every one but the last may be
\* served in full, the last one adds its own value.
Outstanding(ch) ==
  IF ch = <<>> THEN 0 ELSE (Len(ch) - 1) * Size + ch[Len(ch)]

\* While the pool serves, requestch is open and the spawner in fillRequests.
Serving ==
  pool \in {"initializing", "priming", "running", "selfStop"} =>
    ~reqClosed /\ sp \in {"select", "send"}

\* The request in progress is what the pool lacks.
WantIsLack == pool = "priming" => want \in 1 .. Size /\ want = Size - nitems

\* Creations are counted until the item they make is handed over.
PendingBound == pending + InFlight <= Size

\* fill has started a creation for each item still needed.
Filling == sp \in {"select", "send"} => pending >= needed

\* The strengthening of OvershootBound by the requests still queued.
GrowthBound ==
  nitems + pending + InFlight + Outstanding(requestch) <= (ReqCap + 1) * Size

\* The spawner's goroutine has returned when the pool drains its items.
SpawnerGone ==
  /\ pool \in {"drainItems", "done"} => sp = "done"
  /\ pool = "done" => nitems = 0
  /\ sp = "done" => pending = 0

IInv ==
  /\ TypeOK
  /\ Serving
  /\ WantIsLack
  /\ PendingBound
  /\ Filling
  /\ SpawnCovers
  /\ GrowthBound
  /\ SpawnerGone

----------------------------------------------------------------------------
(* The channel *)

\* Appending to a channel of requests that is not full: the new request is
\* the last one (request, a send on requestch).
LEMMA AppendRequest ==
  ASSUME NEW s \in Seq(1 .. Size), NEW n \in 1 .. Size, Len(s) < ReqCap
  PROVE  /\ Append(s, n) \in Seq(1 .. Size)
         /\ Append(s, n) # <<>>
         /\ Len(Append(s, n)) = Len(s) + 1
         /\ Append(s, n)[Len(s) + 1] = n
  OBVIOUS

\* Receiving from it: what is left is a channel of requests one shorter, with
\* the same last request unless it is empty now.
LEMMA ReceiveRequest ==
  ASSUME NEW s \in Seq(1 .. Size), s # <<>>
  PROVE  /\ Head(s) \in 1 .. Size
         /\ Tail(s) \in Seq(1 .. Size)
         /\ Len(Tail(s)) = Len(s) - 1
         /\ Len(s) \in Nat \ {0}
         /\ Tail(s) = <<>> => Len(s) = 1 /\ s[Len(s)] = Head(s)
         /\ Tail(s) # <<>> => Tail(s)[Len(Tail(s))] = s[Len(s)]
<1> DEFINE S == 1 .. Size
<1> HIDE DEF S
<1>1. s \in Seq(S) /\ s # <<>>
  BY DEF S
<1>2. Len(s) \in Nat \ {0} /\ s \in [1 .. Len(s) -> S]
  BY <1>1, EmptySeq, LenProperties
<1>3. /\ Head(s) \in S
      /\ Tail(s) \in Seq(S)
      /\ Len(Tail(s)) = Len(s) - 1
      /\ \A i \in 1 .. Len(Tail(s)) : Tail(s)[i] = s[i + 1]
  BY <1>1, HeadTailProperties
<1>4. ASSUME Tail(s) = <<>>
      PROVE  Len(s) = 1 /\ s[Len(s)] = Head(s)
  BY <1>2, <1>3, <1>4
<1>5. ASSUME Tail(s) # <<>>
      PROVE  Tail(s)[Len(Tail(s))] = s[Len(s)]
  <2>1. Len(Tail(s)) \in Nat \ {0}
    BY <1>3, <1>5, EmptySeq
  <2> QED
    BY <2>1, <1>2, <1>3
<1> QED
  BY <1>2, <1>3, <1>4, <1>5 DEF S

\* The last of the queued requests is one.
LEMMA LastRequest ==
  ASSUME NEW s \in Seq(1 .. Size), s # <<>>
  PROVE  s[Len(s)] \in 1 .. Size /\ Len(s) \in Nat \ {0}
<1> DEFINE S == 1 .. Size
<1> HIDE DEF S
<1>1. s \in Seq(S) /\ s # <<>>
  BY DEF S
<1>2. Len(s) \in Nat \ {0}
  BY <1>1, EmptySeq
<1>3. s[Len(s)] \in S
  BY <1>1, <1>2, ElementOfSeq
<1> QED
  BY <1>2, <1>3 DEF S

----------------------------------------------------------------------------
(* Type correctness *)

\* Every step of the pool or of the spawner keeps the variables in their
\* types; WantIsLack is what keeps the requests positive.
LEMMA TypeStep ==
  ASSUME TypeOK, WantIsLack, [Next]_backlogVars
  PROVE  TypeOK'
<1> USE SizeAssumption, ReqCapAssumption DEF TypeOK, SpawnerTypeOK
<1>1. CASE ImageReady
  BY <1>1 DEF ImageReady, PrimeBacklog, spawnerVars, PoolStates
<1>2. CASE ImageFails
  BY <1>2 DEF ImageFails, spawnerVars, PoolStates
<1>3. CASE SendRequest
  <2>1. want \in 1 .. Size /\ Len(requestch) < ReqCap
    BY <1>3 DEF SendRequest, Request, WantIsLack
  <2>2. requestch' \in Seq(1 .. Size) /\ Len(requestch') <= ReqCap
    BY <1>3, <2>1, AppendRequest DEF SendRequest, Request
  <2> QED
    BY <1>3, <2>2 DEF SendRequest, Request, PoolStates
<1>4. CASE TakeItem
  BY <1>4 DEF TakeItem, Deliver, Filled, SpawnerStates
<1>5. CASE ItemExit
  BY <1>5 DEF ItemExit, PrimeBacklog, spawnerVars, PoolStates
<1>6. CASE Shutdown
  BY <1>6 DEF Shutdown, CloseRequests, PoolStates
<1>7. CASE DrainTake
  BY <1>7 DEF DrainTake, Deliver, Filled, SpawnerStates
<1>8. CASE DrainExit
  BY <1>8 DEF DrainExit, spawnerVars
<1>9. CASE SpawnerDrained \/ ItemsDrained
  BY <1>9 DEF SpawnerDrained, ItemsDrained, spawnerVars, PoolStates
<1>10. CASE SpawnerStep
  <2>1. CASE ReadRequest
    <3>1. /\ Head(requestch) \in 1 .. Size
          /\ requestch' \in Seq(1 .. Size)
          /\ Len(requestch') <= ReqCap
      BY <2>1, ReceiveRequest DEF ReadRequest
    <3> QED
      BY <1>10, <2>1, <3>1 DEF SpawnerStep, ReadRequest, Filled
  <2>2. CASE RequestsClosed \/ SpawnerDone
    BY <1>10, <2>2 DEF SpawnerStep, RequestsClosed, SpawnerDone, SpawnerStates
  <2>3. CASE SpawnFailed
    BY <1>10, <2>3 DEF SpawnerStep, SpawnFailed, Filled
  <2>4. CASE SpawnOk
    BY <1>10, <2>4 DEF SpawnerStep, SpawnOk, SpawnerStates
  <2> QED
    BY <1>10, <2>1, <2>2, <2>3, <2>4 DEF SpawnerStep
<1>11. CASE UNCHANGED backlogVars
  BY <1>11 DEF backlogVars
<1> QED
  BY <1>1, <1>2, <1>3, <1>4, <1>5, <1>6, <1>7, <1>8, <1>9, <1>10, <1>11
     DEF Next, PoolStep

----------------------------------------------------------------------------
(* The parts of the invariant *)

\* Where the goroutines stand and what is handed over between them: these
\* parts need no arithmetic on the channel.
LEMMA ControlStep ==
  ASSUME IInv, [Next]_backlogVars
  PROVE  Serving' /\ WantIsLack' /\ PendingBound' /\ Filling' /\ SpawnerGone'
<1> USE SizeAssumption
    DEF IInv, TypeOK, SpawnerTypeOK, Serving, WantIsLack, PendingBound, Filling,
        SpawnerGone, InFlight, PoolStates, SpawnerStates
<1>1. CASE ImageReady
  BY <1>1 DEF ImageReady, PrimeBacklog, spawnerVars
<1>2. CASE ImageFails
  BY <1>2 DEF ImageFails, spawnerVars
<1>3. CASE SendRequest
  BY <1>3 DEF SendRequest, Request
<1>4. CASE TakeItem
  BY <1>4 DEF TakeItem, Deliver, Filled
<1>5. CASE ItemExit
  BY <1>5 DEF ItemExit, PrimeBacklog, spawnerVars
<1>6. CASE Shutdown
  BY <1>6 DEF Shutdown, CloseRequests
<1>7. CASE DrainTake
  BY <1>7 DEF DrainTake, Deliver, Filled
<1>8. CASE DrainExit
  BY <1>8 DEF DrainExit, Draining, spawnerVars
<1>9. CASE SpawnerDrained \/ ItemsDrained
  BY <1>9 DEF SpawnerDrained, ItemsDrained, spawnerVars
<1>10. CASE SpawnerStep
  <2>1. CASE ReadRequest
    <3>1. Head(requestch) \in 1 .. Size
      BY <2>1, ReceiveRequest DEF ReadRequest
    <3> QED
      BY <1>10, <2>1, <3>1 DEF SpawnerStep, ReadRequest, Filled
  <2>2. CASE RequestsClosed \/ SpawnerDone
    BY <1>10, <2>2 DEF SpawnerStep, RequestsClosed, SpawnerDone
  <2>3. CASE SpawnFailed
    BY <1>10, <2>3 DEF SpawnerStep, SpawnFailed, Filled
  <2>4. CASE SpawnOk
    BY <1>10, <2>4 DEF SpawnerStep, SpawnOk
  <2> QED
    BY <1>10, <2>1, <2>2, <2>3, <2>4 DEF SpawnerStep
<1>11. CASE UNCHANGED backlogVars
  BY <1>11 DEF backlogVars
<1> QED
  BY <1>1, <1>2, <1>3, <1>4, <1>5, <1>6, <1>7, <1>8, <1>9, <1>10, <1>11
     DEF Next, PoolStep

\* What is promised covers what is missing: an exit computes the lack anew, a
\* request in the channel replaces older ones, a creation in flight counts.
LEMMA CoverStep ==
  ASSUME IInv, [Next]_backlogVars
  PROVE  SpawnCovers'
<1> USE SizeAssumption
    DEF IInv, TypeOK, SpawnerTypeOK, Serving, WantIsLack, SpawnCovers, Promised,
        InFlight
<1>1. CASE ImageReady
  BY <1>1 DEF ImageReady, PrimeBacklog, spawnerVars
<1>2. CASE SendRequest
  <2>1. want \in 1 .. Size /\ Len(requestch) < ReqCap
    BY <1>2 DEF SendRequest, Request
  <2>2. requestch' # <<>> /\ requestch'[Len(requestch')] = want
    BY <1>2, <2>1, AppendRequest DEF SendRequest, Request
  <2> QED
    BY <1>2, <2>1, <2>2 DEF SendRequest, Request
<1>3. CASE TakeItem
  <2>1. requestch # <<>> => requestch[Len(requestch)] \in 1 .. Size
    BY LastRequest
  <2> QED
    BY <1>3, <2>1 DEF TakeItem, Deliver
<1>4. CASE ItemExit
  BY <1>4 DEF ItemExit, PrimeBacklog, spawnerVars
<1>5. CASE ImageFails \/ Shutdown \/ DrainTake \/ DrainExit \/ SpawnerDrained
           \/ ItemsDrained
  BY <1>5 DEF ImageFails, Shutdown, DrainTake, DrainExit, Draining,
              SpawnerDrained, ItemsDrained
<1>6. CASE SpawnerStep
  <2>1. CASE ReadRequest
    <3>1. /\ Head(requestch) \in 1 .. Size
          /\ requestch' = <<>> => requestch[Len(requestch)] = Head(requestch)
          /\ requestch' # <<>> =>
               requestch'[Len(requestch')] = requestch[Len(requestch)]
      BY <2>1, ReceiveRequest DEF ReadRequest
    <3> QED
      BY <1>6, <2>1, <3>1, SMTT(30) DEF SpawnerStep, ReadRequest
  <2>2. CASE RequestsClosed \/ SpawnerDone
    BY <1>6, <2>2 DEF SpawnerStep, RequestsClosed, SpawnerDone
  <2>3. CASE SpawnFailed
    BY <1>6, <2>3 DEF SpawnerStep, SpawnFailed
  <2>4. CASE SpawnOk
    BY <1>6, <2>4 DEF SpawnerStep, SpawnOk
  <2> QED
    BY <1>6, <2>1, <2>2, <2>3, <2>4 DEF SpawnerStep
<1>7. CASE UNCHANGED backlogVars
  BY <1>7 DEF backlogVars
<1> QED
  BY <1>1, <1>2, <1>3, <1>4, <1>5, <1>6, <1>7 DEF Next, PoolStep

\* Queued requests weigh at least nothing and at most what a full channel holds.
LEMMA ChannelWeight ==
  ASSUME NEW l \in Nat, NEW r \in 1 .. Size
  PROVE  /\ l * Size \in Nat
         /\ (l + 1) * Size = l * Size + Size
         /\ l <= ReqCap => l * Size <= ReqCap * Size
         /\ (ReqCap + 1) * Size = ReqCap * Size + Size
  BY SizeAssumption, ReqCapAssumption

\* Sending a request: what is queued now weighs its value and at most a whole
\* Size for each request before it.
LEMMA RequestGrowth ==
  ASSUME IInv, pool = "priming", Request(want)
  PROVE  nitems + pending + InFlight + Outstanding(requestch') <= (ReqCap + 1) * Size
<1> USE SizeAssumption, ReqCapAssumption
<1>1. /\ want \in 1 .. Size /\ want + nitems = Size
      /\ pending + InFlight <= Size
      /\ requestch \in Seq(1 .. Size) /\ Len(requestch) < ReqCap
      /\ pending \in Nat /\ nitems \in Nat /\ InFlight \in Nat
  BY DEF IInv, TypeOK, SpawnerTypeOK, WantIsLack, PendingBound, Request, InFlight
<1>2. Outstanding(requestch') = Len(requestch) * Size + want
  BY <1>1, AppendRequest DEF Request, Outstanding
<1>3. (Len(requestch) + 1) * Size <= ReqCap * Size
  <2>1. Len(requestch) \in Nat
    BY <1>1, LenProperties
  <2>2. Len(requestch) + 1 \in Nat /\ Len(requestch) + 1 <= ReqCap /\ Size \in 1 .. Size
    BY <1>1, <2>1
  <2> QED
    BY <2>2, ChannelWeight
<1>4. Len(requestch) * Size + Size <= ReqCap * Size
  BY <1>1, <1>3, LenProperties, ChannelWeight
<1>5. Len(requestch) * Size \in Nat /\ ReqCap * Size \in Nat
  BY <1>1, LenProperties, ChannelWeight
<1> QED
  BY <1>1, <1>2, <1>4, <1>5, ChannelWeight

\* Receiving a request: the creations fill starts for it are no more than the
\* request weighed in the channel.
LEMMA ReceiveGrowth ==
  ASSUME IInv, ReadRequest
  PROVE  pending' + InFlight' + Outstanding(requestch') <= pending + InFlight + Outstanding(requestch)
<1> USE SizeAssumption
<1>1. /\ requestch \in Seq(1 .. Size) /\ requestch # <<>>
      /\ pending \in Nat /\ InFlight = 0 /\ InFlight' = 0
  BY DEF IInv, TypeOK, SpawnerTypeOK, ReadRequest, InFlight
<1>2. /\ Head(requestch) \in 1 .. Size
      /\ Len(requestch) \in Nat \ {0}
      /\ requestch' \in Seq(1 .. Size)
      /\ Len(requestch') = Len(requestch) - 1
      /\ requestch' = <<>> =>
           Len(requestch) = 1 /\ requestch[Len(requestch)] = Head(requestch)
      /\ requestch' # <<>> =>
           requestch'[Len(requestch')] = requestch[Len(requestch)]
  BY <1>1, ReceiveRequest DEF ReadRequest
<1>3. pending' \in Nat /\ pending' <= pending + Head(requestch)
  BY <1>1, <1>2 DEF ReadRequest, Filled
<1>4. CASE requestch' = <<>>
  <2>1. Len(requestch) - 1 = 0 /\ requestch[Len(requestch)] = Head(requestch)
    BY <1>2, <1>4
  <2>2. Outstanding(requestch) = 0 * Size + Head(requestch)
    BY <1>1, <2>1 DEF Outstanding
  <2>3. Outstanding(requestch') = 0 /\ Outstanding(requestch) = Head(requestch)
    BY <1>2, <1>4, <2>2 DEF Outstanding
  <2> QED
    BY <1>1, <1>2, <1>3, <2>3
<1>5. CASE requestch' # <<>>
  <2>1. Len(requestch') \in Nat \ {0} /\ requestch[Len(requestch)] \in 1 .. Size
    BY <1>1, <1>2, <1>5, LastRequest
  <2>2. Outstanding(requestch) = Outstanding(requestch') + Size /\ Outstanding(requestch') \in Nat
    <3> DEFINE l == Len(requestch') - 1
               r == requestch[Len(requestch)]
    <3>1. l \in Nat /\ r \in 1 .. Size
      BY <2>1
    <3>2. Outstanding(requestch') = l * Size + r /\ Outstanding(requestch) = (l + 1) * Size + r
      BY <1>1, <1>2, <1>5, <2>1 DEF Outstanding
    <3> HIDE DEF l, r
    <3> QED
      BY <3>1, <3>2, ChannelWeight
  <2>3. pending' <= pending + Size
    BY <1>1, <1>2, <1>3
  <2> QED
    BY ONLY <1>1, <1>3, <2>2, <2>3, SizeAssumption
<1> QED
  BY <1>4, <1>5

\* No step makes the containers of the pool, with what is queued, more than
\* the channel and the goroutines can hold.
LEMMA GrowthStep ==
  ASSUME IInv, [Next]_backlogVars
  PROVE  GrowthBound'
<1> DEFINE Bound == (ReqCap + 1) * Size
<1>1. /\ pending \in Nat /\ nitems \in Nat /\ needed \in 0 .. Size
      /\ InFlight \in 0 .. 1 /\ Outstanding(requestch) \in Nat /\ Bound \in Nat
  <2>1. Outstanding(requestch) \in Nat
    <3>1. CASE requestch = <<>>
      BY <3>1 DEF Outstanding
    <3>2. CASE requestch # <<>>
      <4>1. /\ Len(requestch) - 1 \in Nat
            /\ requestch[Len(requestch)] \in 1 .. Size
        BY <3>2, LastRequest DEF IInv, TypeOK, SpawnerTypeOK
      <4> QED
        BY <3>2, <4>1, ChannelWeight, SizeAssumption DEF Outstanding
    <3> QED
      BY <3>1, <3>2
  <2>2. Bound \in Nat
    BY SizeAssumption, ReqCapAssumption
  <2> QED
    BY <2>1, <2>2 DEF IInv, TypeOK, SpawnerTypeOK, InFlight
<1> HIDE DEF Bound
<1>2. nitems + pending + InFlight + Outstanding(requestch) <= Bound
  BY DEF IInv, GrowthBound, Bound
<1>3. SUFFICES nitems' + pending' + InFlight' + Outstanding(requestch') <= Bound
  BY DEF GrowthBound, Bound
<1>4. ASSUME UNCHANGED <<requestch, pending, sp>>, nitems' <= nitems, nitems' \in Nat
      PROVE  nitems' + pending' + InFlight' + Outstanding(requestch') <= Bound
  BY <1>1, <1>2, <1>4 DEF InFlight, Outstanding
<1>5. CASE \/ ImageReady \/ ImageFails \/ ItemExit \/ Shutdown \/ DrainExit
           \/ SpawnerDrained \/ ItemsDrained \/ UNCHANGED backlogVars
  <2>1. UNCHANGED <<requestch, pending, sp>> /\ nitems' <= nitems /\ nitems' \in Nat
    BY <1>1, <1>5 DEF ImageReady, ImageFails, ItemExit, Shutdown, CloseRequests,
                DrainExit, SpawnerDrained, ItemsDrained, spawnerVars, backlogVars
  <2> QED
    BY <1>4, <2>1
<1>6. CASE SendRequest
  <2>1. UNCHANGED <<nitems, pending, sp>> /\ Request(want) /\ pool = "priming"
    BY <1>6 DEF SendRequest, Request
  <2>2. nitems + pending + InFlight + Outstanding(requestch') <= Bound
    BY <2>1, RequestGrowth DEF Bound
  <2> QED
    BY <2>1, <2>2 DEF InFlight
<1>7. CASE TakeItem \/ DrainTake
  <2>1. PICK n \in Nat : nitems' = n /\ n <= nitems + 1
    BY <1>1, <1>7 DEF TakeItem, DrainTake
  <2>2. InFlight = 1 /\ InFlight' = 0 /\ pending' = pending
    BY <1>1, <1>7 DEF TakeItem, DrainTake, Deliver, Filled, InFlight, IInv, Filling
  <2>3. Outstanding(requestch') = Outstanding(requestch)
    BY <1>7 DEF TakeItem, DrainTake, Deliver, Outstanding
  <2> QED
    BY ONLY <1>1, <1>2, <2>1, <2>2, <2>3
<1>8. CASE SpawnerStep
  <2>1. CASE ReadRequest
    <3>1. pending' \in Nat /\ InFlight' \in Nat /\ Outstanding(requestch') \in Int
      <4>1. \/ requestch' = <<>>
            \/ /\ requestch'[Len(requestch')] \in 1 .. Size
               /\ Len(requestch') \in Nat \ {0}
        <5>1. requestch' \in Seq(1 .. Size)
          BY <2>1, ReceiveRequest DEF ReadRequest, IInv, TypeOK, SpawnerTypeOK
        <5> QED
          BY <5>1, LastRequest
      <4>2. Outstanding(requestch') \in Int
        BY <4>1, SizeAssumption DEF Outstanding
      <4>3. Head(requestch) \in 1 .. Size
        BY <2>1, ReceiveRequest DEF ReadRequest, IInv, TypeOK, SpawnerTypeOK
      <4> QED
        BY <1>1, <2>1, <4>2, <4>3, SizeAssumption DEF ReadRequest, Filled, InFlight
    <3>2. nitems' = nitems
      BY <1>8 DEF SpawnerStep
    <3>3. pending' + InFlight' + Outstanding(requestch') <= pending + InFlight + Outstanding(requestch)
      BY <2>1, ReceiveGrowth
    <3> QED
      BY ONLY <1>1, <1>2, <3>1, <3>2, <3>3
  <2>2. CASE RequestsClosed \/ SpawnerDone \/ SpawnFailed \/ SpawnOk
    <3>1. PICK p \in Nat, f \in Nat :
            pending' = p /\ InFlight' = f /\ p + f <= pending + InFlight
      <4>1. /\ pending' \in Nat /\ InFlight' \in Nat
            /\ pending' + InFlight' <= pending + InFlight
        BY <1>1, <2>2 DEF RequestsClosed, SpawnerDone, SpawnFailed, SpawnOk, Filled,
                          InFlight, IInv, Filling
      <4> QED
        BY <4>1
    <3>2. nitems' = nitems /\ Outstanding(requestch') = Outstanding(requestch)
      BY <1>8, <2>2 DEF SpawnerStep, RequestsClosed, SpawnerDone, SpawnFailed,
                        SpawnOk, Outstanding
    <3> QED
      BY ONLY <1>1, <1>2, <3>1, <3>2
  <2> QED
    BY <1>8, <2>1, <2>2 DEF SpawnerStep
<1> QED
  BY <1>5, <1>6, <1>7, <1>8 DEF Next, PoolStep

----------------------------------------------------------------------------
(* The theorems *)

\* The invariant holds when NewPool has started the goroutines.
LEMMA InitInv == Init => IInv
<1> SUFFICES ASSUME Init PROVE IInv
  OBVIOUS
<1>1. TypeOK
  <2>1. requestch \in Seq(1 .. Size) /\ Len(requestch) = 0
    BY EmptySeq DEF Init, SpawnerInit
  <2>2. SpawnerTypeOK
    <3>1. Len(requestch) <= ReqCap
      BY <2>1, ReqCapAssumption
    <3>2. needed \in 0 .. Size /\ pending \in Nat
      BY SizeAssumption DEF Init, SpawnerInit
    <3>3. reqClosed \in BOOLEAN /\ sp \in SpawnerStates
      BY DEF Init, SpawnerInit, SpawnerStates
    <3> QED
      BY <2>1, <3>1, <3>2, <3>3 DEF SpawnerTypeOK
  <2>3. want \in 0 .. Size
    BY SizeAssumption DEF Init
  <2> QED
    BY <2>2, <2>3 DEF Init, TypeOK, PoolStates
<1>2. (ReqCap + 1) * Size \in Nat
  BY SizeAssumption, ReqCapAssumption
<1> QED
  BY <1>1, <1>2, SizeAssumption
     DEF Init, SpawnerInit, IInv, Serving, WantIsLack, PendingBound, Filling,
         SpawnCovers, GrowthBound, SpawnerGone, InFlight, Outstanding

\* It holds ever after.
THEOREM Invariance == Spec => []IInv
<1>1. IInv /\ [Next]_backlogVars => IInv'
  BY TypeStep, ControlStep, CoverStep, GrowthStep DEF IInv
<1> QED
  BY <1>1, InitInv, PTL DEF Spec

\* The variables keep their types, whatever the size of the pool, the capacity
\* of requestch and the exits.
THEOREM TypeCorrect == Spec => []TypeOK
<1>1. IInv => TypeOK
  BY DEF IInv
<1> QED
  BY <1>1, Invariance, PTL

\* A pool that serves always has, or is promised by its spawner, as many items
\* as it is to maintain (primeBacklog, fillRequests).
THEOREM CoversSize == Spec => []SpawnCovers
<1>1. IInv => SpawnCovers
  BY DEF IInv
<1> QED
  BY <1>1, Invariance, PTL

\* A pool never has, is offered or is creating more than ReqCap + 1 times the
\* containers it is to maintain, however its requests and creations interleave.
THEOREM BoundedGrowth == Spec => []OvershootBound
<1>1. IInv => OvershootBound
  <2> SUFFICES ASSUME IInv PROVE OvershootBound
    OBVIOUS
  <2>1. /\ nitems \in Nat /\ pending \in Nat /\ InFlight \in Nat
        /\ requestch \in Seq(1 .. Size)
    BY DEF IInv, TypeOK, SpawnerTypeOK, InFlight
  <2>2. Outstanding(requestch) \in Nat
    BY <2>1, LastRequest, ChannelWeight, SizeAssumption DEF Outstanding
  <2>3. (ReqCap + 1) * Size \in Nat
    BY SizeAssumption, ReqCapAssumption
  <2> QED
    BY <2>1, <2>2, <2>3 DEF IInv, GrowthBound, OvershootBound
<1> QED
  BY <1>1, Invariance, PTL

\* When donech is closed nothing of the pool is left behind that it has
\* counted: no item, no creation, no goroutine of the spawner.
THEOREM DrainedWhenDone == Spec => []DoneMeansDrained
<1>1. IInv => DoneMeansDrained
  BY DEF IInv, SpawnerGone, DoneMeansDrained
<1> QED
  BY <1>1, Invariance, PTL

----------------------------------------------------------------------------
(* A pool of one container *)

\* Where its item is: in the pool, on nextch, being created or requested.
OnTheWay == nitems + InFlight + needed + Len(requestch)

\* It is in one of these places, or about to be requested; nothing else is created.
Single ==
  /\ pool \in {"initializing", "priming"} => OnTheWay = 0
  /\ pool = "running" => OnTheWay = 1
  /\ pool \in {"initializing", "priming", "running"} => pending = needed

\* Every step keeps it so.
LEMMA SingleStep ==
  ASSUME Size = 1, IInv, Single, [Next]_backlogVars
  PROVE  Single'
<1> USE DEF IInv, TypeOK, SpawnerTypeOK, Serving, Single, OnTheWay, InFlight
<1>0. /\ Len(requestch) \in Nat /\ nitems \in Nat /\ pending \in Nat /\ needed \in 0 .. 1
      /\ requestch \in Seq(1 .. Size)
  BY LenProperties
<1>1. CASE ImageReady
  BY <1>0, <1>1 DEF ImageReady, PrimeBacklog, spawnerVars
<1>2. CASE SendRequest
  <2>1. want \in 1 .. Size /\ Len(requestch) < ReqCap
    BY <1>2 DEF SendRequest, Request, WantIsLack
  <2>2. Len(requestch') = Len(requestch) + 1
    BY <1>2, <2>1, AppendRequest DEF SendRequest, Request
  <2> QED
    BY <1>0, <1>2, <2>2 DEF SendRequest, Request
<1>3. CASE TakeItem
  BY <1>0, <1>3 DEF TakeItem, Deliver, Filled
<1>4. CASE ItemExit
  BY <1>0, <1>4 DEF ItemExit, PrimeBacklog, spawnerVars
<1>5. CASE ImageFails \/ Shutdown \/ DrainTake \/ DrainExit \/ SpawnerDrained \/ ItemsDrained
  BY <1>5 DEF ImageFails, Shutdown, DrainTake, DrainExit, Draining, SpawnerDrained, ItemsDrained
<1>6. CASE SpawnerStep
  <2>1. CASE ReadRequest
    <3>1. Head(requestch) = 1 /\ Len(requestch') = Len(requestch) - 1 /\ Len(requestch) > 0
      BY <1>0, <2>1, HeadTailProperties, EmptySeq DEF ReadRequest
    <3> QED
      BY <1>0, <1>6, <2>1, <3>1 DEF SpawnerStep, ReadRequest, Filled
  <2>2. CASE RequestsClosed \/ SpawnerDone
    BY <1>0, <1>6, <2>2 DEF SpawnerStep, RequestsClosed, SpawnerDone
  <2>3. CASE SpawnFailed
    BY <1>0, <1>6, <2>3 DEF SpawnerStep, SpawnFailed, Filled
  <2>4. CASE SpawnOk
    <3>1. UNCHANGED <<pool, nitems, requestch>>
      BY <1>6, <2>4 DEF SpawnerStep, SpawnOk
    <3>2. CASE pool \in {"initializing", "priming", "running"}
      <4>1. sp = "select" /\ sp' = "send"
        BY <2>4, <3>2 DEF SpawnOk
      <4>2. needed' = needed - 1 /\ pending' = pending - 1
        BY <1>0, <2>4, <3>2, <4>1 DEF SpawnOk
      <4> QED
        BY <1>0, <3>1, <3>2, <4>1, <4>2
    <3>3. CASE pool \notin {"initializing", "priming", "running"}
      BY <3>1, <3>3
    <3> QED
      BY <3>2, <3>3
  <2> QED
    BY <1>6, <2>1, <2>2, <2>3, <2>4 DEF SpawnerStep
<1>7. CASE UNCHANGED backlogVars
  BY <1>7 DEF backlogVars
<1> QED
  BY <1>1, <1>2, <1>3, <1>4, <1>5, <1>6, <1>7 DEF Next, PoolStep

----------------------------------------------------------------------------
(* How many items must exit before a pool can be wedged *)

Busy == pending > 0 \/ sp = "send"

\* Every request but the first answers an exit, and the spawner is busy with one that
\* it has received; those that wait and the one about to be sent are others.
ExitsBehind ==
  /\ pool = "initializing" => requestch = <<>> /\ ~Busy
  /\ pool = "priming" =>
       Len(requestch) <= exits /\ (Busy => Len(requestch) < exits)
  /\ pool = "running" =>
       Len(requestch) <= exits + 1 /\ (Busy => Len(requestch) <= exits)

\* Every step keeps it so.
LEMMA ExitsStep ==
  ASSUME IInv, ExitsBehind, [Next]_backlogVars
  PROVE  ExitsBehind'
<1> USE DEF IInv, TypeOK, SpawnerTypeOK, Serving, Filling, ExitsBehind, Busy
<1>0. /\ Len(requestch) \in Nat /\ pending \in Nat /\ needed \in 0 .. Size /\ exits \in Nat
      /\ requestch \in Seq(1 .. Size) /\ (requestch = <<>> => Len(requestch) = 0)
  BY LenProperties
<1>1. CASE ImageReady
  BY <1>0, <1>1 DEF ImageReady, PrimeBacklog, spawnerVars
<1>2. CASE SendRequest
  <2>1. want \in 1 .. Size /\ Len(requestch) < ReqCap
    BY <1>2 DEF SendRequest, Request, WantIsLack
  <2>2. Len(requestch') = Len(requestch) + 1
    BY <1>2, <2>1, AppendRequest DEF SendRequest, Request
  <2> QED
    BY <1>0, <1>2, <2>2 DEF SendRequest, Request
<1>3. CASE TakeItem
  BY <1>0, <1>3 DEF TakeItem, Deliver, Filled
<1>4. CASE ItemExit
  <2>1. /\ pool = "running" /\ pool' \in {"priming", "running"} /\ exits' = exits + 1
        /\ requestch' = requestch /\ (Busy' <=> Busy)
    BY <1>4 DEF ItemExit, PrimeBacklog, spawnerVars
  <2> QED
    BY ONLY <1>0, <2>1, ExitsBehind DEF ExitsBehind
<1>5. CASE ImageFails \/ Shutdown \/ DrainTake \/ DrainExit \/ SpawnerDrained \/ ItemsDrained
  BY <1>5 DEF ImageFails, Shutdown, DrainTake, DrainExit, Draining, SpawnerDrained, ItemsDrained
<1>6. CASE SpawnerStep
  <2>0. UNCHANGED <<pool, exits>>
    BY <1>6 DEF SpawnerStep
  <2>1. CASE ReadRequest
    <3>1. Len(requestch') = Len(requestch) - 1 /\ requestch # <<>>
      BY <1>0, <2>1, HeadTailProperties DEF ReadRequest
    <3>2. pool = "initializing" => FALSE
      BY <3>1
    <3> QED
      BY ONLY <1>0, <2>0, <3>1, <3>2, ExitsBehind DEF ExitsBehind
  <2>2. CASE RequestsClosed \/ SpawnerDone
    BY <1>0, <1>6, <2>2 DEF SpawnerStep, RequestsClosed, SpawnerDone
  <2>3. CASE SpawnFailed
    <3>1. Busy /\ requestch' = requestch
      BY <2>3 DEF SpawnFailed
    <3> QED
      BY ONLY <1>0, <2>0, <3>1, ExitsBehind DEF ExitsBehind
  <2>4. CASE SpawnOk
    BY <1>0, <1>6, <2>4 DEF SpawnerStep, SpawnOk
  <2> QED
    BY <1>6, <2>1, <2>2, <2>3, <2>4 DEF SpawnerStep
<1>7. CASE UNCHANGED backlogVars
  BY <1>7 DEF backlogVars
<1> QED
  BY <1>1, <1>2, <1>3, <1>4, <1>5, <1>6, <1>7 DEF Next, PoolStep

\* The pool and its spawner wait for each other only if the pool has more than one
\* item and more items have exited than the channel holds requests (request, next).
THEOREM WedgeNeedsLoad == Spec => []WedgedUnderLoad
<1>1. Init => Single /\ ExitsBehind
  BY EmptySeq DEF Init, SpawnerInit, Single, OnTheWay, InFlight, ExitsBehind, Busy
<1>2. IInv /\ (Size = 1 => Single) /\ [Next]_backlogVars => (Size = 1 => Single')
  BY SingleStep
<1>3. IInv /\ ExitsBehind /\ [Next]_backlogVars => ExitsBehind'
  BY ExitsStep
<1>4. IInv /\ (Size = 1 => Single) /\ ExitsBehind => WedgedUnderLoad
  <2> SUFFICES ASSUME IInv, Size = 1 => Single, ExitsBehind, Wedged
               PROVE  Size > 1 /\ exits > ReqCap
    BY DEF WedgedUnderLoad
  <2>1. /\ nitems \in Nat /\ needed \in Nat /\ exits \in Nat
        /\ Len(requestch) = ReqCap /\ InFlight = 1 /\ Busy
    BY DEF IInv, TypeOK, SpawnerTypeOK, Wedged, InFlight, Busy
  <2>2. Size # 1
    BY <2>1, ReqCapAssumption DEF Wedged, Single, OnTheWay
  <2>3. exits > ReqCap
    BY <2>1, ReqCapAssumption DEF Wedged, ExitsBehind
  <2> QED
    BY <2>2, <2>3, SizeAssumption
<1>5. Spec => [](Size = 1 => Single)
  <2>1. Init => (Size = 1 => Single)
    BY <1>1
  <2>2. IInv /\ (Size = 1 => Single) /\ [Next]_backlogVars => (Size = 1 => Single)'
    BY <1>2
  <2> QED
    BY <2>1, <2>2, Invariance, PTL DEF Spec
<1>6. Spec => []ExitsBehind
  BY <1>1, <1>3, Invariance, PTL DEF Spec
<1> QED
  BY <1>4, <1>5, <1>6, Invariance, PTL
=============================================================================
