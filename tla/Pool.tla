-------------------------------- MODULE Pool --------------------------------
(***************************************************************************)
(* A pool (pool.go) with its spawner (spawner.go), its buffer of ready      *)
(* items (buffer.go), its items as ItemContract describes them, clients     *)
(* that check items out and return them, and callers of Stop.               *)
(*                                                                          *)
(* The channels between goroutines are unbuffered except requestch, so a    *)
(* send and its receive are one step, guarded by where both goroutines are. *)
(* The buffer's goroutine is always in its select while it runs: put never  *)
(* blocks.                                                                  *)
(***************************************************************************)
EXTENDS Spawner, ItemContract, FiniteSets

CONSTANTS Clients,        \* users of CheckoutWith and Return
          Stoppers,       \* callers of WaitReady and of Stop, monitorCtx among them
          MaxFaults,      \* bound: unasked exits, failures and returns of items
          ImageMayFail,   \* whether ensureImage may fail
          Deaf,           \* the containers that a kill may have no effect on
          MayRepeat,      \* whether Return may be called for any item, any time
          Weathers,       \* the kinds of surroundings a pool may find: see calm
          NoItem

ASSUME PoolAssumption ==
  /\ MaxFaults \in Nat
  /\ {ImageMayFail, MayRepeat} \cup Weathers \subseteq BOOLEAN
  /\ NoItem \notin Items
  /\ Deaf \subseteq Items

\* Finitely many containers are created, as in Backlog finitely many exit.
ASSUME ItemsAssumption == IsFiniteSet(Items)

VARIABLES
  calm,     \* clients return what they have, once, resets do not fail, and the
            \* image is there; this never changes
  image,    \* the image that containers are created from is there
  pool,     \* where the pool's goroutine stands: see Backlog
  initch,   \* "open", or closed with "none" or an "error" in initErr
  items,    \* pool.items
  want,     \* the argument of the spawner.request call in progress
  faults,   \* unasked exits, failures and returns of items so far
  buf,      \* the items in the ready buffer, oldest first
  bufst,    \* "open", "closing" (inch is closed) or "closed" (outch is too)
  cl,       \* cl[c]: where client c stands
  has,      \* has[c]: the item client c has checked out or is returning
  stopper   \* stopper[s]: where the call of s stands

initVars == <<image, initch>>
envVars == <<stopper, calm, initVars>>
loopVars == <<pool, items, want>>
bufVars == <<buf, bufst>>
clientVars == <<cl, has>>
othersThanSpawner == <<contractVars, loopVars, bufVars, clientVars, envVars, faults>>
poolVars == <<spawnerVars, contractVars, loopVars, bufVars, clientVars, envVars,
              faults>>

PoolStates == {"initializing", "priming", "running", "drainSpawner",
               "drainItems", "done", "selfStop"}
ClientStates == {"idle", "waiting", "holding", "returning"}
StopperStates == {"idle", "waitReady", "sending", "waiting", "returned"}

Draining == pool \in {"drainSpawner", "drainItems"}
Receiving == pool = "running" \/ Draining

TypeOK ==
  /\ SpawnerTypeOK
  /\ ContractTypeOK
  /\ calm \in Weathers
  /\ image \in BOOLEAN
  /\ pool \in PoolStates
  /\ initch \in {"open", "none", "error"}
  /\ items \subseteq Items
  /\ want \in 0 .. Size
  /\ faults \in 0 .. MaxFaults
  /\ buf \in Seq(Items)
  /\ bufst \in {"open", "closing", "closed"}
  /\ cl \in [Clients -> ClientStates]
  /\ has \in [Clients -> Items \cup {NoItem}]
  /\ stopper \in [Stoppers -> StopperStates]

Init ==
  /\ SpawnerInit
  /\ ContractInit
  /\ calm \in Weathers
  /\ image \in IF calm THEN {TRUE} ELSE BOOLEAN
  /\ pool = "initializing"
  /\ initch = "open"
  /\ items = {}
  /\ want = 0
  /\ faults = 0
  /\ buf = <<>>
  /\ bufst = "open"
  /\ cl = [c \in Clients |-> "idle"]
  /\ has = [c \in Clients |-> NoItem]
  /\ stopper = [s \in Stoppers |-> "idle"]

----------------------------------------------------------------------------
(* The pool's goroutine: initialization and the main loop *)

\* primeBacklog() with n items: request what is missing, if anything.
PrimeBacklog(n) ==
  IF n < Size
    THEN pool' = "priming" /\ want' = Size - n
    ELSE pool' = "running" /\ want' = 0

\* ensureImage returns no error: the image is there or has been pulled.  A pull need
\* not have brought it: what the daemon reports in the stream is discarded, and
\* the image is pulled with the tag that the configuration names, but looked for,
\* and used, without.
ensureImage == image' \in IF image THEN {TRUE} ELSE BOOLEAN

\* runInitialize: there is an image, it is thought; the backlog is primed.
ImageReady ==
  /\ pool = "initializing"
  /\ ensureImage
  /\ PrimeBacklog(Cardinality(items))
  /\ UNCHANGED <<spawnerVars, contractVars, items, bufVars, clientVars, stopper, calm,
                 initch, faults>>

\* runInitialize fails: run() calls Stop on its own goroutine and stays there.
ImageFails ==
  /\ ImageMayFail
  /\ pool = "initializing"
  /\ pool' = "selfStop"
  /\ initch' = "error"
  /\ UNCHANGED <<spawnerVars, contractVars, items, want, bufVars, clientVars, stopper,
                 calm, image, faults>>

\* spawner.request returns; the first time runInitialize does as well.
SendRequest ==
  /\ pool = "priming"
  /\ Request(want)
  /\ pool' = "running"
  /\ want' = 0
  /\ initch' = "none"
  /\ UNCHANGED <<contractVars, items, bufVars, clientVars, stopper, calm, image, faults>>

\* The id of the next container: one that no other had, and no matter which.
IsNext(i) == i = CHOOSE j \in Items : phase[j] = "none"

\* An item comes from the spawner: it is kept, joined and started.
TakeItem(i) ==
  /\ pool = "running"
  /\ sp = "send"
  /\ Deliver
  /\ StartItem(i)
  /\ IsNext(i)
  /\ items' = items \cup {i}
  /\ UNCHANGED <<pool, want, bufVars, clientVars, envVars, faults>>

\* An exit, failure or return that nobody asked for counts against the bound.
Fault(asked) ==
  /\ asked \/ faults < MaxFaults
  /\ faults' = IF asked THEN faults ELSE faults + 1

\* The call of client c is over, and what it had is out of its hands.
LetGo(c) ==
  /\ cl' = [cl EXCEPT ![c] = "idle"]
  /\ has' = [has EXCEPT ![c] = NoItem]

\* A faulty main loop that offers an item again when it is returned.
ReturnReceivedUnreset(c) ==
  /\ pool = "running"
  /\ cl[c] = "returning"
  /\ IF has[c] \in items
       THEN /\ ResetItem(has[c])
            /\ buf' = Append(buf, has[c])
       ELSE UNCHANGED <<contractVars, buf>>
  /\ LetGo(c)
  /\ UNCHANGED <<spawnerVars, loopVars, bufst, envVars, faults>>

\* eventItemReady: the item goes into the buffer.
ItemReady(i) ==
  /\ pool = "running"
  /\ SendReady(i)
  /\ buf' = IF i \in items THEN Append(buf, i) ELSE buf
  /\ UNCHANGED <<spawnerVars, loopVars, bufst, clientVars, envVars, faults>>

\* A faulty main loop that takes a returned item and does nothing with it.
ReturnReceivedDropped(c) ==
  /\ pool = "running"
  /\ cl[c] = "returning"
  /\ LetGo(c)
  /\ UNCHANGED <<spawnerVars, contractVars, loopVars, bufVars, envVars, faults>>

\* eventItemReturned: the item is reset if the pool still has it.
ReturnReceived(c) ==
  /\ pool = "running"
  /\ cl[c] = "returning"
  /\ IF has[c] \in items THEN ResetItem(has[c]) ELSE UNCHANGED contractVars
  /\ LetGo(c)
  /\ UNCHANGED <<spawnerVars, loopVars, bufVars, envVars, faults>>

\* The same for a Return that no checkout precedes, or that a client repeats:
\* Return takes any item from anybody, as the server does with any id.
StrayReturn(i) ==
  /\ MayRepeat /\ ~calm
  /\ pool = "running"
  /\ i \in items
  /\ ResetItem(i)
  /\ Fault(FALSE)
  /\ UNCHANGED <<spawnerVars, loopVars, bufVars, clientVars, envVars>>

\* A faulty main loop that does not replace an item that exits.
ItemExitUnprimed(i) ==
  /\ pool = "running"
  /\ Fault(killed[i])
  /\ SendExit(i)
  /\ items' = items \ {i}
  /\ UNCHANGED <<spawnerVars, pool, want, bufVars, clientVars, envVars>>

\* eventItemExit: the item is forgotten and the backlog primed; the buffer and
\* the clients may still have it.
ItemExit(i) ==
  /\ pool = "running"
  /\ Fault(killed[i])
  /\ SendExit(i)
  /\ items' = items \ {i}
  /\ PrimeBacklog(Cardinality(items'))
  /\ UNCHANGED <<spawnerVars, bufVars, clientVars, envVars>>

\* A faulty Stop that does not kill the items.
ShutdownUnkilled(s) ==
  /\ pool = "running"
  /\ stopper[s] = "sending"
  /\ stopper' = [stopper EXCEPT ![s] = "waiting"]
  /\ pool' = "drainSpawner"
  /\ bufst' = "closing"
  /\ CloseRequests
  /\ UNCHANGED <<contractVars, items, want, buf, clientVars, calm, initVars, faults>>

\* A Stop is received: the buffer and the spawner are stopped, the items killed.
Shutdown(s) ==
  /\ pool = "running"
  /\ stopper[s] = "sending"
  /\ stopper' = [stopper EXCEPT ![s] = "waiting"]
  /\ pool' = "drainSpawner"
  /\ bufst' = "closing"
  /\ CloseRequests
  /\ KillItems(items)
  /\ UNCHANGED <<items, want, buf, clientVars, calm, initVars, faults>>

----------------------------------------------------------------------------
(* The pool's goroutine: draining.  Its loops kill all items again before     *)
(* each select; they were killed by Shutdown, and none is added.              *)

\* runDrainSpawner: a late item is killed, never joined and not kept.
DrainTake(i) ==
  /\ pool = "drainSpawner"
  /\ Deliver
  /\ DiscardItem(i)
  /\ IsNext(i)
  /\ UNCHANGED <<loopVars, bufVars, clientVars, envVars, faults>>

\* A faulty handler that still offers an item that becomes ready.
DrainReadyPuts(i) ==
  /\ Draining
  /\ SendReady(i)
  /\ buf' = Append(buf, i)
  /\ UNCHANGED <<spawnerVars, loopVars, bufst, clientVars, envVars, faults>>

\* handleDrainingEvent, eventItemReady: the item is killed (again).
DrainReady(i) ==
  /\ Draining
  /\ SendReady(i)
  /\ UNCHANGED <<spawnerVars, loopVars, bufVars, clientVars, envVars, faults>>

\* handleDrainingEvent, eventItemReturned: the same.
DrainReturn(c) ==
  /\ Draining
  /\ cl[c] = "returning"
  /\ LetGo(c)
  /\ UNCHANGED <<spawnerVars, contractVars, loopVars, bufVars, envVars, faults>>

\* handleDrainingEvent, eventItemExit.
DrainExit(i) ==
  /\ Draining
  /\ SendExit(i)
  /\ items' = items \ {i}
  /\ UNCHANGED <<spawnerVars, pool, want, bufVars, clientVars, envVars, faults>>

\* nextch is closed.
SpawnerDrained ==
  /\ pool = "drainSpawner"
  /\ sp = "done"
  /\ pool' = "drainItems"
  /\ UNCHANGED <<spawnerVars, contractVars, items, want, bufVars, clientVars,
                 envVars, faults>>

\* A faulty runDrainItems that does not wait for the items to exit.
ItemsNotDrained ==
  /\ pool = "drainItems"
  /\ pool' = "done"
  /\ UNCHANGED <<spawnerVars, contractVars, items, want, bufVars, clientVars,
                 envVars, faults>>

\* No item is left: run() returns and closes donech.
ItemsDrained ==
  /\ pool = "drainItems"
  /\ items = {}
  /\ pool' = "done"
  /\ UNCHANGED <<spawnerVars, contractVars, items, want, bufVars, clientVars,
                 envVars, faults>>

----------------------------------------------------------------------------
(* Items, buffer, clients, callers of Stop *)

\* What an item does without the pool.
ItemAlone(i) ==
  /\ \/ GiveUp(i) /\ Fault(FALSE)
     \/ ~calm /\ LoseReset(i) /\ UNCHANGED faults
  /\ UNCHANGED <<spawnerVars, loopVars, bufVars, clientVars, envVars>>

\* The spawner's goroutine on its own.  No creation succeeds without the image, nor
\* when the bound on containers, Items, is reached.
SpawnerReads == (ReadRequest \/ RequestsClosed) /\ UNCHANGED othersThanSpawner
CreationFails == SpawnFailed /\ UNCHANGED othersThanSpawner
CreationSucceeds ==
  /\ image
  /\ \E i \in Items : phase[i] = "none"
  /\ SpawnOk
  /\ UNCHANGED othersThanSpawner
SpawnerEnds == SpawnerDone /\ UNCHANGED othersThanSpawner

SpawnerStep == SpawnerReads \/ CreationFails \/ CreationSucceeds \/ SpawnerEnds

\* The buffer's goroutine sees that inch is closed; what it has is dropped.
BufferStop ==
  /\ bufst = "closing"
  /\ bufst' = "closed"
  /\ buf' = <<>>
  /\ UNCHANGED <<spawnerVars, contractVars, loopVars, clientVars, envVars, faults>>

othersThanClients == <<spawnerVars, contractVars, loopVars, bufst, envVars, faults>>

\* CheckoutWith is called.
CallCheckout(c) ==
  /\ cl[c] = "idle"
  /\ cl' = [cl EXCEPT ![c] = "waiting"]
  /\ UNCHANGED <<othersThanClients, buf, has>>

\* It receives the oldest ready item.  If makeParams fails it returns the item
\* itself, else the caller has it.
Checkout(c) ==
  /\ cl[c] = "waiting"
  /\ bufst # "closed"
  /\ buf # <<>>
  /\ buf' = Tail(buf)
  /\ has' = [has EXCEPT ![c] = Head(buf)]
  /\ \E next \in {"holding", "returning"} : cl' = [cl EXCEPT ![c] = next]
  /\ UNCHANGED othersThanClients

\* It fails: its context is done, or outch is closed.
CheckoutFails(c) ==
  /\ cl[c] = "waiting"
  /\ cl' = [cl EXCEPT ![c] = "idle"]
  /\ UNCHANGED <<othersThanClients, buf, has>>

\* Return is called.
CallReturn(c) ==
  /\ cl[c] = "holding"
  /\ cl' = [cl EXCEPT ![c] = "returning"]
  /\ UNCHANGED <<othersThanClients, buf, has>>

\* Return finds donech closed.
ReturnAfterDone(c) ==
  /\ pool = "done"
  /\ cl[c] = "returning"
  /\ LetGo(c)
  /\ UNCHANGED <<othersThanClients, buf>>

\* The client is gone: nothing in the pool notices.
Vanish(c) ==
  /\ ~calm
  /\ cl[c] = "holding"
  /\ LetGo(c)
  /\ UNCHANGED <<othersThanClients, buf>>

\* WaitReady is called.
CallWaitReady(s) ==
  /\ stopper[s] = "idle"
  /\ stopper' = [stopper EXCEPT ![s] = "waitReady"]
  /\ UNCHANGED <<spawnerVars, contractVars, loopVars, bufVars, clientVars, calm, initVars, faults>>

\* It returns, with initErr or because the context of the pool is done, which it may
\* be at any time.  The caller may go on to Stop.
WaitReadyReturns(s) ==
  /\ stopper[s] = "waitReady"
  /\ stopper' = [stopper EXCEPT ![s] = "idle"]
  /\ UNCHANGED <<spawnerVars, contractVars, loopVars, bufVars, clientVars, calm, initVars, faults>>

\* Stop is called; it sends on shutdownch.
CallStop(s) ==
  /\ stopper[s] = "idle"
  /\ stopper' = [stopper EXCEPT ![s] = "sending"]
  /\ UNCHANGED <<spawnerVars, contractVars, loopVars, bufVars, clientVars, calm, initVars, faults>>

\* Stop finds donech closed.
StopReturns(s) ==
  /\ pool = "done"
  /\ stopper[s] \in {"sending", "waiting"}
  /\ stopper' = [stopper EXCEPT ![s] = "returned"]
  /\ UNCHANGED <<spawnerVars, contractVars, loopVars, bufVars, clientVars, calm, initVars, faults>>

----------------------------------------------------------------------------
LoopStep ==
  \/ ImageReady \/ ImageFails \/ SendRequest
  \/ \E i \in Items : TakeItem(i) \/ ItemReady(i) \/ ItemExit(i) \/ StrayReturn(i)
  \/ \E c \in Clients : ReturnReceived(c)
  \/ \E s \in Stoppers : Shutdown(s)

DrainStep ==
  \/ \E i \in Items : DrainTake(i) \/ DrainReady(i) \/ DrainExit(i)
  \/ \E c \in Clients : DrainReturn(c)
  \/ SpawnerDrained \/ ItemsDrained

ClientStep(c) ==
  \/ CallCheckout(c) \/ Checkout(c) \/ CheckoutFails(c)
  \/ CallReturn(c) \/ ReturnAfterDone(c) \/ Vanish(c)

Next ==
  \/ LoopStep \/ DrainStep \/ SpawnerStep \/ BufferStop
  \/ \E i \in Items : ItemAlone(i)
  \/ \E c \in Clients : ClientStep(c)
  \/ \E s \in Stoppers :
       CallWaitReady(s) \/ WaitReadyReturns(s) \/ CallStop(s) \/ StopReturns(s)

Spec == Init /\ [][Next]_poolVars

(***************************************************************************)
(* Fairness.  Goroutines run.  Of the receivers blocked on a channel Go     *)
(* serves the one that came first, which is strong fairness for a client    *)
(* that waits on the buffer; the pool's loop is back in its select for good *)
(* once no more items exit, so weak fairness does for its senders.  The     *)
(* Docker daemon answers: ensureImage returns, creations end and some       *)
(* succeed if the image is there, a killed item exits.  That may fail for   *)
(* those in Deaf: a kill that comes before the container runs is spent      *)
(* (PoolItem, KillExits).  Lifecycle actions end (they have timeouts).      *)
(* Clients return what they have, or vanish.  Calls of CheckoutWith,        *)
(* WaitReady and Stop, timeouts and unasked exits are not fair.             *)
(***************************************************************************)
Fairness ==
  /\ WF_poolVars(ImageReady \/ ImageFails)
  /\ WF_poolVars(SendRequest)
  /\ WF_poolVars(\E i \in Items : TakeItem(i) \/ DrainTake(i))
  /\ WF_poolVars(SpawnerReads)
  /\ WF_poolVars(CreationSucceeds)
  /\ WF_poolVars(CreationFails \/ CreationSucceeds)
  /\ WF_poolVars(SpawnerEnds)
  /\ WF_poolVars(BufferStop)
  /\ WF_poolVars(SpawnerDrained \/ ItemsDrained)
  /\ \A i \in Items :
       /\ WF_poolVars(ItemReady(i) \/ DrainReady(i) \/ ItemAlone(i))
       /\ WF_poolVars(i \notin Deaf /\ killed[i] /\ (ItemExit(i) \/ DrainExit(i)))
  /\ \A c \in Clients :
       /\ SF_poolVars(Checkout(c))
       /\ WF_poolVars(bufst = "closed" /\ CheckoutFails(c))
       /\ WF_poolVars(CallReturn(c))
       /\ WF_poolVars(ReturnReceived(c) \/ DrainReturn(c) \/ ReturnAfterDone(c))
  /\ \A s \in Stoppers :
       /\ WF_poolVars(initch # "open" /\ WaitReadyReturns(s))
       /\ WF_poolVars(Shutdown(s)) /\ WF_poolVars(StopReturns(s))

FairSpec == Spec /\ Fairness

----------------------------------------------------------------------------
(* Properties *)

Holders(i) == {c \in Clients : has[c] = i}
Offers(i) == {k \in DOMAIN buf : buf[k] = i}

\* An item is in one place at a time: being made ready or reset, offered in the
\* buffer, or with a client that has it or is returning it.  So no two clients
\* have the same item, and none is reset under a client that uses it, as long as
\* every client returns an item once (MayRepeat is FALSE).
InOnePlace ==
  \A i \in Items :
    owed[i] + Cardinality(Offers(i)) + Cardinality(Holders(i)) <= 1

\* When donech is closed the items the pool started have exited, the spawner's
\* goroutine has returned and no creation is on its way (runDrainSpawner,
\* runDrainItems).
DoneMeansDown ==
  pool = "done" => /\ \A i \in Items : ~Joined(i)
                   /\ sp = "done"
                   /\ pending = 0

\* Once the buffer is stopped nothing is offered that was not offered before:
\* the pool never puts into a buffer it has closed, which would panic (put).
NoPutAfterStop ==
  [][bufst # "open" => Len(buf') <= Len(buf)]_poolVars

\* A pool is a backlog: counting its items, each of its steps is one of Backlog.
BacklogOfPool ==
  INSTANCE Backlog WITH
    nitems <- Cardinality(items),
    exits <- Cardinality({i \in Items : phase[i] = "exited"}),
    MaxExits <- Cardinality(Items)

KeepsBacklog == BacklogOfPool!Spec

\* The ways a pool can hang for good: it has called its own Stop, its loop and its
\* spawner wait for each other, or an item it has killed does not exit.
Hung ==
  \/ pool = "selfStop"
  \/ BacklogOfPool!Wedged
  \/ \E i \in Deaf \cap items : killed[i]

\* A caller of Stop gets its answer, whatever clients do and wherever the loop, the
\* spawner, creations and items are when it calls, unless the pool hangs; there is no
\* fourth way (Stop, run).
StopAnsweredUnlessHung ==
  \A s \in Stoppers : stopper[s] = "sending" ~> stopper[s] = "returned" \/ Hung

\* testutil/testutil.go:68 stops its pool and goes on: a caller of Stop gets its
\* answer, whether or not there is an image.
StopAnswered ==
  \A s \in Stoppers : stopper[s] = "sending" ~> stopper[s] = "returned"

\* A client that waits for an item gets one or an error, without a timeout, in calm
\* surroundings, where clients return what they check out: items are reset or replaced, and the
\* buffer hands them out (CheckoutWith, runRunning).
CheckoutAnswered ==
  \A c \in Clients : calm /\ cl[c] = "waiting" ~> cl[c] # "waiting"

\* An item that is returned is offered again or exits (runRunning, reset), if resets
\* do not fail and unless the pool is stopped first.  README.md:147: "If `reset` is not given, the
\* container will be killed and a new one will be created to replace it."
ReturnedComesBack ==
  \A c \in Clients, i \in Items :
    (calm /\ cl[c] = "returning" /\ has[c] = i /\ Joined(i))
      ~> \/ \E k \in DOMAIN buf : buf[k] = i
         \/ phase[i] = "exited"
         \/ pool \in {"drainSpawner", "drainItems", "done"}
=============================================================================
