------------------------------- MODULE PoolSet -------------------------------
(***************************************************************************)
(* The pool set (poolset.go) and the HTTP handlers above it (net/server.go) *)
(* with their clients: creation of the pools and the wait for them, batch   *)
(* checkouts with one goroutine per pool, returns, and the stop of all.     *)
(*                                                                          *)
(* A pool is taken for what Pool shows of it: once it is initialized it     *)
(* offers its items one by one, makes a returned item ready again or        *)
(* replaces it, and answers a Stop.  It may also hang, in the three ways    *)
(* that a Stop of Pool may (Hung there).  A replacement goes by the name of *)
(* what it replaces.                                                        *)
(***************************************************************************)
EXTENDS Naturals

CONSTANTS Pools,       \* names of the configured pools
          Size,        \* Size[p]: number of items of pool p
          Clients,     \* users of the HTTP API, one request at a time each
          MayFail,     \* whether creations, initializations and templates may fail
          MayHang,     \* whether a pool may hang that has been initialized
          MayExpire,   \* whether the context of the pools may end
          MayHangUp,   \* whether clients may disconnect
          MayClose     \* whether the server may be closed

ASSUME PoolSetAssumption ==
  /\ Size \in [Pools -> Nat \ {0}]
  /\ {MayFail, MayHang, MayExpire, MayHangUp, MayClose} \subseteq BOOLEAN

\* An item is known by its pool and a number.
ItemsOf(p) == {p} \X (1 .. Size[p])
Items == UNION {ItemsOf(p) : p \in Pools}
PoolOf(i) == i[1]

\* POST /checkout names all pools, POST /checkout/{pool} one, or none if there is
\* no such pool.
Batches == {Pools, {}} \cup {{p} : p \in Pools}

VARIABLES
  server,   \* where the program stands: in NewPoolSet, WaitReady, Server.Run ...
  unheard,  \* the pools whose results the loop of WaitReady has not received
  unwell,   \* err of WaitReady is set
  expired,  \* the context given to NewPoolSet is done
  pools,    \* pools[p]: see PoolStates
  ready,    \* the items in the ready buffers
  busy,     \* the items being initialized, reset or replaced
  ask,      \* ask[c]: the configured pools that the request of c names
  call,     \* call[c]: where the request of c stands
  fork,     \* fork[c][p]: where the goroutine for p stands
  carry,    \* carry[c][p]: what it has checked out, if anything
  set,      \* set[c]: the params.Set of c's request, later of c itself
  failed,   \* failed[c]: an error was collected
  gone      \* gone[c]: the context of c's request is done

waitVars == <<unheard, unwell, expired>>
poolVars == <<pools, ready, busy>>
callVars == <<ask, call, fork, carry, set, failed, gone>>
vars == <<server, waitVars, poolVars, callVars>>

(***************************************************************************)
(* server: "creating" (in NewPoolSet), "unwinding" (stopping the pools that *)
(*         were created), "failed", "created", "awaiting" (in WaitReady),   *)
(*         "ready" and "unready" (its answer), "serving", "closing" (in     *)
(*         stopPools), "closed"                                             *)
(* pools:  "stuck" if it could not be initialized and waits for its own     *)
(*         Stop (Pool, selfStop), "wedged" if its loop and its spawner wait *)
(*         for each other (Backlog, Wedged), "lingering" if it waits for an *)
(*         item that never exits (PoolItem, KillExits)                      *)
(* call:   "idle", "collecting" (in CheckoutWith), "refusing" (in           *)
(*         ReturnAll, to answer with an error), "granted", "lost" (answered *)
(*         with items, but nobody is there to read it)                      *)
(* fork:   "waiting" for an item, "returning" it (makeParams has failed),   *)
(*         "sending" the result, or "none"                                  *)
(***************************************************************************)
PoolStates == {"none", "initializing", "stuck", "serving", "wedged", "draining",
               "lingering", "done"}

TypeOK ==
  /\ server \in {"creating", "unwinding", "failed", "created", "awaiting", "ready",
                "unready", "serving", "closing", "closed"}
  /\ unheard \subseteq Pools /\ unwell \in BOOLEAN /\ expired \in BOOLEAN
  /\ pools \in [Pools -> PoolStates]
  /\ ready \subseteq Items /\ busy \subseteq Items
  /\ ask \in [Clients -> SUBSET Pools]
  /\ call \in [Clients -> {"idle", "collecting", "refusing", "granted", "lost"}]
  /\ fork \in [Clients -> [Pools -> {"none", "waiting", "returning", "sending"}]]
  /\ carry \in [Clients -> [Pools -> SUBSET Items]]
  /\ \A c \in Clients, p \in Pools : carry[c][p] \subseteq ItemsOf(p)
  /\ set \in [Clients -> SUBSET Items]
  /\ failed \in [Clients -> BOOLEAN] /\ gone \in [Clients -> BOOLEAN]

Init ==
  /\ server = "creating"
  /\ unheard = {} /\ unwell = FALSE /\ expired = FALSE
  /\ pools = [p \in Pools |-> "none"]
  /\ ready = {} /\ busy = {}
  /\ ask = [c \in Clients |-> {}]
  /\ call = [c \in Clients |-> "idle"]
  /\ fork = [c \in Clients |-> [p \in Pools |-> "none"]]
  /\ carry = [c \in Clients |-> [p \in Pools |-> {}]]
  /\ set = [c \in Clients |-> {}]
  /\ failed = [c \in Clients |-> FALSE]
  /\ gone = [c \in Clients |-> FALSE]

----------------------------------------------------------------------------
(* Creation and stop *)

\* NewPoolSet: the next pool; its goroutine starts to initialize it.
CreatePool(p) ==
  /\ server = "creating"
  /\ pools[p] = "none"
  /\ pools' = [pools EXCEPT ![p] = "initializing"]
  /\ server' = IF \A q \in Pools : pools'[q] # "none" THEN "created" ELSE server
  /\ UNCHANGED <<waitVars, ready, busy, callVars>>

\* A pool has its image and starts to fill.
Initialized(p) ==
  /\ pools[p] = "initializing"
  /\ pools' = [pools EXCEPT ![p] = "serving"]
  /\ busy' = busy \cup ItemsOf(p)
  /\ UNCHANGED <<server, waitVars, ready, callVars>>

\* It has not: run calls Stop on itself, and nobody is there to be told.
InitFails(p) ==
  /\ MayFail
  /\ pools[p] = "initializing"
  /\ pools' = [pools EXCEPT ![p] = "stuck"]
  /\ UNCHANGED <<server, waitVars, ready, busy, callVars>>

\* initch of the pool is closed.
Settled(p) == pools[p] \notin {"none", "initializing"}

\* WaitReady of the pool set starts a goroutine for each pool.
WaitReady ==
  /\ server = "created"
  /\ server' = "awaiting"
  /\ unheard' = Pools
  /\ UNCHANGED <<unwell, expired, poolVars, callVars>>

\* What WaitReady of pool p may return: an error if p could not be initialized, and
\* one if the context ends, also when there would have been no other.
Answers(p) ==
  {error \in BOOLEAN : \/ Settled(p) /\ error = (pools[p] = "stuck")
                       \/ expired /\ error}

\* A faulty loop that keeps the last result instead of the first error.
HearLast(p) ==
  /\ server = "awaiting"
  /\ p \in unheard
  /\ unheard' = unheard \ {p}
  /\ unwell' \in Answers(p)
  /\ UNCHANGED <<server, expired, poolVars, callVars>>

\* The loop over the results receives that of p, whose WaitReady has returned.
Hear(p) ==
  /\ server = "awaiting"
  /\ p \in unheard
  /\ unheard' = unheard \ {p}
  /\ \E error \in Answers(p) : unwell' = (unwell \/ error)
  /\ UNCHANGED <<server, expired, poolVars, callVars>>

\* It has received as many as there are pools.
WaitReadyReturns ==
  /\ server = "awaiting"
  /\ unheard = {}
  /\ server' = IF unwell THEN "unready" ELSE "ready"
  /\ UNCHANGED <<waitVars, poolVars, callVars>>

\* Create of the server, and Run: main does not wait for the pools.
Listen ==
  /\ server \in {"created", "ready"}
  /\ server' = "serving"
  /\ UNCHANGED <<waitVars, poolVars, callVars>>

\* NewPoolSet fails at a pool and stops those before it; or all are there, the
\* server cannot listen or WaitReady has failed, and the program stops them.
CreateFails ==
  /\ MayFail
  /\ server \in {"creating", "created", "ready", "unready"}
  /\ server' = "unwinding"
  /\ UNCHANGED <<waitVars, poolVars, callVars>>

\* Close closes the listener: Serve returns and Run stops the pools.  Handlers
\* that run go on, and so do connections.
Close ==
  /\ MayClose
  /\ server = "serving"
  /\ server' = "closing"
  /\ UNCHANGED <<waitVars, poolVars, callVars>>

\* The context that the pools have been given ends.
Expire ==
  /\ MayExpire
  /\ ~expired
  /\ expired' = TRUE
  /\ UNCHANGED <<server, unheard, unwell, poolVars, callVars>>

\* Every pool there is has a caller of its Stop: a goroutine of poolSet.Stop or of
\* NewPoolSet, or its own monitorCtx.
StopCalled == server \in {"unwinding", "closing"} \/ expired

\* A pool that receives the Stop kills what it has, and offers nothing that was not
\* offered before.
StopPool(p) ==
  /\ StopCalled
  /\ pools[p] = "serving"
  /\ pools' = [pools EXCEPT ![p] = "draining"]
  /\ busy' = busy \ ItemsOf(p)
  /\ UNCHANGED <<server, waitVars, ready, callVars>>

\* The loop of a pool of several items waits for room in the channel to its spawner,
\* which waits for the loop.  It receives nothing any more; the buffer goes on.
Wedges(p) ==
  /\ MayHang
  /\ Size[p] > 1
  /\ pools[p] = "serving"
  /\ pools' = [pools EXCEPT ![p] = "wedged"]
  /\ UNCHANGED <<server, waitVars, ready, busy, callVars>>

\* An item of a pool that drains has used up its kill before it ran.
Lingers(p) ==
  /\ MayHang
  /\ pools[p] = "draining"
  /\ pools' = [pools EXCEPT ![p] = "lingering"]
  /\ UNCHANGED <<server, waitVars, ready, busy, callVars>>

\* The pool has been told to stop.
Ending(p) == pools[p] \in {"draining", "lingering", "done"}

\* Its buffer is closed: what was not taken by then is dropped.
BufferStops(p) ==
  /\ Ending(p)
  /\ ready \cap ItemsOf(p) # {}
  /\ ready' = ready \ ItemsOf(p)
  /\ UNCHANGED <<server, waitVars, pools, busy, callVars>>

PoolDone(p) ==
  /\ pools[p] = "draining"
  /\ pools' = [pools EXCEPT ![p] = "done"]
  /\ UNCHANGED <<server, waitVars, ready, busy, callVars>>

\* A faulty NewPoolSet that waits for as many pools as there are configurations.
StoppedAll ==
  /\ server \in {"unwinding", "closing"}
  /\ \A p \in Pools : pools[p] = "done"
  /\ server' = IF server = "closing" THEN "closed" ELSE "failed"
  /\ UNCHANGED <<waitVars, poolVars, callVars>>

\* The wait group is done: every pool that was created is.
Stopped ==
  /\ server \in {"unwinding", "closing"}
  /\ \A p \in Pools : pools[p] \in {"none", "done"}
  /\ server' = IF server = "closing" THEN "closed" ELSE "failed"
  /\ UNCHANGED <<waitVars, poolVars, callVars>>

----------------------------------------------------------------------------
(* A checkout *)

othersThanCalls == <<server, waitVars, poolVars>>

\* A handler is called and CheckoutWith starts a goroutine for each pool.
Post(c) ==
  /\ server \in {"serving", "closing", "closed"}
  /\ call[c] = "idle"
  /\ call' = [call EXCEPT ![c] = "collecting"]
  /\ \E names \in Batches :
       /\ ask' = [ask EXCEPT ![c] = names]
       /\ fork' = [fork EXCEPT ![c] =
                     [p \in Pools |-> IF p \in names THEN "waiting" ELSE "none"]]
  /\ UNCHANGED <<othersThanCalls, carry, set, failed, gone>>

\* The client disconnects, which ends r.Context().
HangUp(c) ==
  /\ MayHangUp
  /\ call[c] = "collecting"
  /\ gone' = [gone EXCEPT ![c] = TRUE]
  /\ UNCHANGED <<othersThanCalls, ask, call, fork, carry, set, failed>>

\* pool.CheckoutWith gets an item, even if the context is done as well or the pool
\* is being stopped; if makeParams fails it returns the item itself.
Take(c, p) ==
  /\ fork[c][p] = "waiting"
  /\ \E i \in ready \cap ItemsOf(p) :
       /\ ready' = ready \ {i}
       /\ carry' = [carry EXCEPT ![c][p] = {i}]
  /\ \E next \in {"sending"} \cup (IF MayFail THEN {"returning"} ELSE {}) :
       fork' = [fork EXCEPT ![c][p] = next]
  /\ UNCHANGED <<server, waitVars, pools, busy, ask, call, set, failed, gone>>

\* A faulty CheckoutWith that does not look at its context.
TakeFailsClosed(c, p) ==
  /\ fork[c][p] = "waiting"
  /\ Ending(p) /\ ready \cap ItemsOf(p) = {}
  /\ fork' = [fork EXCEPT ![c][p] = "sending"]
  /\ UNCHANGED <<othersThanCalls, ask, call, carry, set, failed, gone>>

\* It fails: the context is done or the buffer closed.
TakeFails(c, p) ==
  /\ fork[c][p] = "waiting"
  /\ gone[c] \/ (Ending(p) /\ ready \cap ItemsOf(p) = {})
  /\ fork' = [fork EXCEPT ![c][p] = "sending"]
  /\ UNCHANGED <<othersThanCalls, ask, call, carry, set, failed, gone>>

\* The loop over the results receives one.
Collect(c, p) ==
  /\ call[c] = "collecting"
  /\ fork[c][p] = "sending"
  /\ fork' = [fork EXCEPT ![c][p] = "none"]
  /\ set' = [set EXCEPT ![c] = @ \cup carry[c][p]]
  /\ failed' = [failed EXCEPT ![c] = @ \/ carry[c][p] = {}]
  /\ carry' = [carry EXCEPT ![c][p] = {}]
  /\ UNCHANGED <<othersThanCalls, ask, call, gone>>

\* A faulty handler that answers with what it has got.
DecidePartly(c) ==
  /\ call[c] = "collecting"
  /\ \A p \in Pools : fork[c][p] = "none"
  /\ \E next \in IF set[c] = {} THEN {"refusing"} ELSE {"granted"} :
       call' = [call EXCEPT ![c] = next]
  /\ UNCHANGED <<othersThanCalls, ask, fork, carry, set, failed, gone>>

\* All goroutines have sent.  After an error, and if there is no such pool, what
\* was checked out is to be returned; also if ForHost fails.  Else the handler
\* writes the answer, whether it is read or not.
Decide(c) ==
  /\ call[c] = "collecting"
  /\ \A p \in Pools : fork[c][p] = "none"
  /\ \E next \in IF failed[c] \/ ask[c] = {} THEN {"refusing"}
                 ELSE (IF MayFail THEN {"refusing"} ELSE {})
                      \cup (IF gone[c] THEN {"lost"} ELSE {"granted"}) :
       call' = [call EXCEPT ![c] = next]
  /\ UNCHANGED <<othersThanCalls, ask, fork, carry, set, failed, gone>>

----------------------------------------------------------------------------
(* Returns *)

\* The loop of pool p receives events, or donech is closed.
Receives(p) == pools[p] \in {"serving", "draining", "lingering", "done"}

\* A faulty Return that does not look at donech.
ReturnItemUndone(i) ==
  /\ Receives(PoolOf(i)) /\ pools[PoolOf(i)] # "done"
  /\ busy' = IF pools[PoolOf(i)] = "serving" THEN busy \cup {i} ELSE busy

\* pool.Return(i), which blocks as long as the pool does not receive it.  A pool that
\* serves resets the item, one that is stopped has killed it or is gone.
ReturnItem(i) ==
  /\ Receives(PoolOf(i))
  /\ busy' = IF pools[PoolOf(i)] = "serving" THEN busy \cup {i} ELSE busy

\* pool.CheckoutWith returns an item whose parameters it could not make.
HandBack(c, p) ==
  /\ fork[c][p] = "returning"
  /\ \E i \in carry[c][p] : ReturnItem(i)
  /\ fork' = [fork EXCEPT ![c][p] = "sending"]
  /\ carry' = [carry EXCEPT ![c][p] = {}]
  /\ UNCHANGED <<server, waitVars, pools, ready, ask, call, set, failed, gone>>

\* A goroutine of ReturnAll, after a failed checkout.
PutBack(c) ==
  /\ call[c] = "refusing"
  /\ \E i \in set[c] :
       /\ ReturnItem(i)
       /\ set' = [set EXCEPT ![c] = @ \ {i}]
  /\ UNCHANGED <<server, waitVars, pools, ready, ask, call, fork, carry, failed, gone>>

\* A faulty handler that answers with an error and keeps what it has.
RefuseUnreturned(c) ==
  /\ call[c] = "refusing"
  /\ call' = [call EXCEPT ![c] = "idle"]
  /\ set' = [set EXCEPT ![c] = {}]
  /\ failed' = [failed EXCEPT ![c] = FALSE]
  /\ gone' = [gone EXCEPT ![c] = FALSE]
  /\ UNCHANGED <<othersThanCalls, ask, fork, carry>>

\* ReturnAll's wait group is done: the request is answered with an error.
AnswerError(c) ==
  /\ call[c] = "refusing"
  /\ set[c] = {}
  /\ call' = [call EXCEPT ![c] = "idle"]
  /\ failed' = [failed EXCEPT ![c] = FALSE]
  /\ gone' = [gone EXCEPT ![c] = FALSE]
  /\ UNCHANGED <<othersThanCalls, ask, fork, carry, set>>

\* handleReturn, or a goroutine of handleReturnBatch: the client returns an item.
Return(c) ==
  /\ call[c] = "granted"
  /\ \E i \in set[c] :
       /\ ReturnItem(i)
       /\ set' = [set EXCEPT ![c] = @ \ {i}]
  /\ call' = [call EXCEPT ![c] = IF set'[c] = {} THEN "idle" ELSE "granted"]
  /\ UNCHANGED <<server, waitVars, pools, ready, ask, fork, carry, failed, gone>>

\* A pool has initialized, reset or replaced an item.
BecomesReady(i) ==
  /\ i \in busy
  /\ pools[PoolOf(i)] = "serving"
  /\ busy' = busy \ {i}
  /\ ready' = ready \cup {i}
  /\ UNCHANGED <<server, waitVars, pools, callVars>>

----------------------------------------------------------------------------
SetStep ==
  \/ CreateFails \/ WaitReady \/ WaitReadyReturns \/ Listen \/ Close \/ Stopped \/ Expire
  \/ \E p \in Pools :
       \/ CreatePool(p) \/ Initialized(p) \/ InitFails(p) \/ Hear(p)
       \/ Wedges(p) \/ StopPool(p) \/ BufferStops(p) \/ Lingers(p) \/ PoolDone(p)

CallStep(c) ==
  \/ Post(c) \/ HangUp(c) \/ Decide(c) \/ PutBack(c) \/ AnswerError(c) \/ Return(c)
  \/ \E p \in Pools : Take(c, p) \/ TakeFails(c, p) \/ HandBack(c, p) \/ Collect(c, p)

Next ==
  \/ SetStep
  \/ \E c \in Clients : CallStep(c)
  \/ \E i \in Items : BecomesReady(i)

Spec == Init /\ [][Next]_vars

(***************************************************************************)
(* Fairness.  Goroutines run; pools are created or not, are initialized or  *)
(* not, and stop or hang (Pool).  Nobody has to call WaitReady.  A client   *)
(* that has got an answer returns everything.  Requests, disconnections,    *)
(* Close and the end of the context are not fair.                           *)
(***************************************************************************)
Fairness ==
  /\ WF_vars(\/ CreateFails \/ WaitReadyReturns \/ Listen
             \/ \E p \in Pools : CreatePool(p) \/ Hear(p))
  /\ \A p \in Pools : WF_vars(Initialized(p) \/ InitFails(p))
  /\ WF_vars(Stopped \/ \E p \in Pools : StopPool(p) \/ PoolDone(p))
  /\ \A p \in Pools : WF_vars(BufferStops(p))
  /\ \A c \in Clients :
       WF_vars(\/ Decide(c) \/ PutBack(c) \/ AnswerError(c) \/ Return(c)
               \/ \E p \in Pools : TakeFails(c, p) \/ HandBack(c, p) \/ Collect(c, p))

FairSpec == Spec /\ Fairness

\* Moreover every item becomes ready, and a channel serves its receivers in turn.
ServingSpec ==
  /\ FairSpec
  /\ \A i \in Items : WF_vars(BecomesReady(i))
  /\ \A c \in Clients, p \in Pools : SF_vars(Take(c, p))

----------------------------------------------------------------------------
(* Properties *)

\* Whether the request of c, or c itself, has item i.
Has(c, i) == i \in set[c] \/ \E p \in Pools : i \in carry[c][p]

\* No item is in two places, and none of a pool that is not stopped is lost on the way:
\* the pool has it, or one request, or the client that it was given to.  So a
\* checkout that fails for one pool does not keep what it got from another
\* (CheckoutWith, ReturnAll, the error paths of the handlers).
Conserved ==
  \A i \in Items :
    /\ ~(i \in ready /\ i \in busy)
    /\ \A c \in Clients :
         Has(c, i) => /\ i \notin ready /\ i \notin busy
                      /\ \A d \in Clients : Has(d, i) => c = d
    /\ pools[PoolOf(i)] \in {"serving", "wedged"} =>
         i \in ready \/ i \in busy \/ \E c \in Clients : Has(c, i)

\* The state of BatchLease: what clients see.
Verdict ==
  [c \in Clients |-> CASE call[c] = "idle" -> "none"
                       [] call[c] \in {"collecting", "refusing"} -> "pending"
                       [] OTHER -> "granted"]
Lent == [c \in Clients |-> IF call[c] \in {"granted", "lost"} THEN set[c] ELSE {}]

Lease ==
  INSTANCE BatchLease WITH
    Stock <- [p \in Pools |-> ItemsOf(p)],
    verdict <- Verdict,
    lent <- Lent

\* Clients see whole batches or none of them, and never the same item twice:
\* CheckoutWith with the handlers above it implements BatchLease.
KeepsLease == Lease!LeaseSpec

\* The request of c is in a return to a pool that does not receive it.
InReturn(c) ==
  \E p \in ask[c] :
    /\ ~Receives(p)
    /\ \/ fork[c][p] = "returning"
       \/ call[c] = "refusing" /\ set[c] \cap ItemsOf(p) # {}

\* A request whose client is gone does not go on waiting with what it has got: it
\* ends, and the items it kept from others are back, unless the answer was
\* complete before the end of the context was seen (CheckoutWith, r.Context).  Only a
\* pool that is wedged can hold it: Return does not look at the context.
CancelledEnds ==
  \A c \in Clients :
    gone[c] /\ call[c] = "collecting" ~> call[c] \in {"idle", "lost"} \/ InReturn(c)

\* WaitReady of the pool set says what the pools say: after no error all of them have
\* been initialized, after an error one of them could not be or the context has
\* ended, whatever order they answered in (the loop over the responses, first error
\* kept).
ReadyMeansReady ==
  /\ server = "ready" => \A p \in Pools : Settled(p) /\ pools[p] # "stuck"
  /\ server = "unready" => expired \/ \E p \in Pools : pools[p] = "stuck"

\* A call of WaitReady comes to an end; so do a close of the server and a NewPoolSet
\* that has failed, however many pools there were by then, and even if the context of
\* the pools has stopped some of them.  A pool that hangs is excepted, in one of
\* the three ways that Pool knows: no Stop of it ever returns.
ClosingEnds ==
  /\ server = "awaiting" ~> server \in {"ready", "unready"}
  /\ server \in {"closing", "unwinding"}
       ~> \/ server \in {"closed", "failed"}
          \/ \E p \in Pools : pools[p] \in {"stuck", "wedged", "lingering"}

\* Once the pools are stopped every request that was under way comes to an end: none
\* is left in a checkout, nor in a return to a pool that is done or that drains for
\* ever.  One that names a pool without a loop to receive anything is excepted: such
\* a pool neither closes its buffer nor takes an item back.
RequestsEnd ==
  \A c \in Clients :
    StopCalled /\ call[c] \in {"collecting", "refusing"}
      ~> \/ call[c] \in {"idle", "granted", "lost"}
         \/ \E p \in ask[c] : pools[p] \in {"stuck", "wedged"}

\* README.md:292: "`POST /checkout` checks out an instance from every configured
\* pool."  So a request is answered, if those who have items return them.
BatchAnswered == \A c \in Clients : call[c] = "collecting" ~> call[c] # "collecting"
=============================================================================
