------------------------------ MODULE Backlog ------------------------------
(***************************************************************************)
(* How a pool keeps its size: the main loop of pool.go seen as a counter of *)
(* items, composed with the spawner.  Items have no identity; Pool refines  *)
(* this module, with nitems the cardinality of its set of items.            *)
(***************************************************************************)
EXTENDS Spawner

CONSTANT MaxExits   \* bound: item exits while the pool is running

ASSUME MaxExitsAssumption == MaxExits \in Nat

VARIABLES
  pool,     \* where the pool's goroutine (pool.run) stands
  nitems,   \* len(pool.items)
  want,     \* the argument of the spawner.request call in progress
  exits     \* item exits handled so far

backlogVars == <<requestch, reqClosed, pending, needed, sp,
                 pool, nitems, want, exits>>

(***************************************************************************)
(* "initializing"  runInitialize, in adapter.ensureImage                    *)
(* "priming"       primeBacklog, in spawner.request(want)                   *)
(* "running"       runRunning, in its select                                *)
(* "drainSpawner"  runDrainSpawner          "drainItems"  runDrainItems     *)
(* "done"          donech is closed                                         *)
(* "selfStop"      run() calling its own Stop after an initialization error *)
(***************************************************************************)
PoolStates == {"initializing", "priming", "running", "drainSpawner",
               "drainItems", "done", "selfStop"}

Draining == pool \in {"drainSpawner", "drainItems"}

TypeOK ==
  /\ SpawnerTypeOK
  /\ pool \in PoolStates
  /\ nitems \in Nat
  /\ want \in 0 .. Size
  /\ exits \in Nat

Init ==
  /\ SpawnerInit
  /\ pool = "initializing"
  /\ nitems = 0
  /\ want = 0
  /\ exits = 0

----------------------------------------------------------------------------
\* primeBacklog(), called with n items: request what is missing, if anything.
PrimeBacklog(n) ==
  IF n < Size
    THEN /\ pool' = "priming"
         /\ want' = Size - n
    ELSE /\ pool' = "running"
         /\ want' = 0

\* The image is there (or was pulled); the backlog is primed.
ImageReady ==
  /\ pool = "initializing"
  /\ PrimeBacklog(nitems)
  /\ UNCHANGED <<spawnerVars, nitems, exits>>

\* ensureImage fails.  run() then calls p.Stop(), which sends on shutdownch
\* and waits for donech; only run() itself would receive or close those.
ImageFails ==
  /\ pool = "initializing"
  /\ pool' = "selfStop"
  /\ UNCHANGED <<spawnerVars, nitems, want, exits>>

\* spawner.request returns.
SendRequest ==
  /\ pool = "priming"
  /\ Request(want)
  /\ pool' = "running"
  /\ want' = 0
  /\ UNCHANGED <<nitems, exits>>

\* A faulty main loop that primes the backlog with every item it takes.
TakeItemPrimes ==
  /\ pool = "running"
  /\ sp = "send"
  /\ Deliver
  /\ nitems' = nitems + 1
  /\ PrimeBacklog(nitems')
  /\ UNCHANGED exits

\* The main loop takes an item from the spawner.
TakeItem ==
  /\ pool = "running"
  /\ sp = "send"
  /\ Deliver
  /\ nitems' = nitems + 1
  /\ UNCHANGED <<pool, want, exits>>

\* A faulty main loop that does not replace an item that exits.
ItemExitUnprimed ==
  /\ pool = "running"
  /\ nitems > 0
  /\ exits < MaxExits
  /\ nitems' = nitems - 1
  /\ exits' = exits + 1
  /\ UNCHANGED <<spawnerVars, pool, want>>

\* eventItemExit in the main loop: forget the item and prime the backlog.
ItemExit ==
  /\ pool = "running"
  /\ nitems > 0
  /\ exits < MaxExits
  /\ nitems' = nitems - 1
  /\ exits' = exits + 1
  /\ PrimeBacklog(nitems')
  /\ UNCHANGED spawnerVars

\* A faulty Stop that leaves the spawner running.
ShutdownSpawnerOn ==
  /\ pool = "running"
  /\ pool' = "drainSpawner"
  /\ UNCHANGED <<spawnerVars, nitems, want, exits>>

\* A Stop is received: the spawner is stopped and the items are killed.
Shutdown ==
  /\ pool = "running"
  /\ pool' = "drainSpawner"
  /\ CloseRequests
  /\ UNCHANGED <<nitems, want, exits>>

\* runDrainSpawner receives a late item and kills it; it never joins.
DrainTake ==
  /\ pool = "drainSpawner"
  /\ Deliver
  /\ UNCHANGED <<pool, nitems, want, exits>>

\* eventItemExit while draining.
DrainExit ==
  /\ Draining
  /\ nitems > 0
  /\ nitems' = nitems - 1
  /\ exits' = exits + 1
  /\ UNCHANGED <<spawnerVars, pool, want>>

\* nextch is closed: the spawner is drained.
SpawnerDrained ==
  /\ pool = "drainSpawner"
  /\ sp = "done"
  /\ pool' = "drainItems"
  /\ UNCHANGED <<spawnerVars, nitems, want, exits>>

\* No item is left: run() returns and closes donech.
ItemsDrained ==
  /\ pool = "drainItems"
  /\ nitems = 0
  /\ pool' = "done"
  /\ UNCHANGED <<spawnerVars, nitems, want, exits>>

\* The spawner's goroutine on its own.
SpawnerStep ==
  /\ ReadRequest \/ RequestsClosed \/ SpawnFailed \/ SpawnOk \/ SpawnerDone
  /\ UNCHANGED <<pool, nitems, want, exits>>

PoolStep ==
  \/ ImageReady \/ ImageFails \/ SendRequest \/ TakeItem \/ ItemExit \/ Shutdown
  \/ DrainTake \/ DrainExit \/ SpawnerDrained \/ ItemsDrained

Next == PoolStep \/ SpawnerStep

Spec == Init /\ [][Next]_backlogVars

(***************************************************************************)
(* Every goroutine that can take a step takes one in the end.  ensureImage, *)
(* the creations and the deaths of killed items are answered by the Docker  *)
(* daemon: fairness on ImageReady \/ ImageFails and DrainExit says it       *)
(* answers, fairness on SpawnOk that not every creation fails for ever.     *)
(* Exits of running items and Shutdown come from outside and are not fair.  *)
(***************************************************************************)
Fairness ==
  /\ WF_backlogVars(ImageReady \/ ImageFails)
  /\ WF_backlogVars(SendRequest)
  /\ WF_backlogVars(TakeItem)
  /\ WF_backlogVars(DrainTake)
  /\ WF_backlogVars(DrainExit)
  /\ WF_backlogVars(SpawnerDrained \/ ItemsDrained)
  /\ WF_backlogVars(SpawnOk /\ UNCHANGED <<pool, nitems, want, exits>>)
  /\ WF_backlogVars(SpawnerStep)

FairSpec == Spec /\ Fairness

----------------------------------------------------------------------------
(* Properties *)

\* What the pool has asked for, as far as the spawner will still serve it: a
\* request replaces the one before it, so only the last one counts.
Promised ==
  IF pool = "priming" THEN want
  ELSE IF requestch # <<>> THEN requestch[Len(requestch)]
  ELSE needed + InFlight

\* While the pool serves, the items it has and those the spawner will still
\* make add up to the size of the pool at least, in every interleaving of
\* exits (runRunning, primeBacklog), requests and creations (fillRequests).
SpawnCovers ==
  pool \in {"priming", "running"} => nitems + Promised >= Size

\* Stale requests make the pool grow beyond its size (request is absolute, and
\* what is in flight when it is computed is not counted), but the containers it
\* has, is offered or is creating never exceed what the capacity of requestch
\* lets through: six times its size in the code.  TLC reaches the bound.
OvershootBound == nitems + pending + InFlight <= (ReqCap + 1) * Size

\* donech is closed only when no item is left, the spawner's goroutine has
\* returned and no creation is still on its way (run, drain).
DoneMeansDrained ==
  pool = "done" => nitems = 0 /\ sp = "done" /\ pending = 0

\* The pool sends a request and the spawner sends an item, each waiting for
\* the other: requestch is full and nobody receives from it or from nextch.
Wedged == pool = "priming" /\ Len(requestch) = ReqCap /\ sp = "send"

\* That takes a pool of more than one item, and more exits than the channel holds
\* requests: before that, and in a pool of one item at any time, the two goroutines
\* do not wait for each other (request, next, primeBacklog).
WedgedUnderLoad == Wedged => Size > 1 /\ exits > ReqCap

\* pool.go:64 calls size the "number of items to maintain": a pool that has
\* lost items gets them back, unless it is stopped.
MaintainsSize ==
  (pool = "running" /\ nitems < Size)
    ~> (nitems >= Size \/ pool \in {"drainSpawner", "drainItems", "done"})

\* The only way not to get them back is the embrace of Wedged.
MaintainsSizeUnlessWedged ==
  (pool = "running" /\ nitems < Size)
    ~> \/ nitems >= Size
       \/ pool \in {"drainSpawner", "drainItems", "done"}
       \/ Wedged

\* Once a Stop is received the pool comes to its end (runDrainSpawner,
\* runDrainItems), whatever was requested, pending or in flight.
DrainTerminates == (pool = "drainSpawner") ~> (pool = "done")
=============================================================================
