------------------------------ MODULE PoolItem ------------------------------
(***************************************************************************)
(* One item of a pool: its goroutine (item.go), its container (container.go)*)
(* with the goroutines of doStart, doStop and monitor, the goroutines that  *)
(* run lifecycle actions, and the Docker daemon.  The pool is the           *)
(* environment: it joins and starts the item or discards it, resets it,     *)
(* kills it, and receives its events.                                       *)
(*                                                                          *)
(* All channels are unbuffered.  A goroutine blocked in a send on           *)
(* item.events is counted in `inbox`; a send to the pool is one step with   *)
(* its receive, and so is a send on container.eventch.                      *)
(***************************************************************************)
EXTENDS Naturals

CONSTANTS MaxKills,    \* bound: kill calls of the pool
          MaxResets,   \* bound: reset calls of the pool
          Weathers     \* the kinds of surroundings an item may find: see calm

ASSUME ItemAssumption ==
  /\ MaxKills \in Nat /\ MaxResets \in Nat
  /\ Weathers \subseteq BOOLEAN

VARIABLES
  calm,     \* the daemon does not fail, its events are not lost, and the pool
            \* resets an item only when it is out; all this never changes
  hasReset, \* whether a reset action is configured for the pool
  use,      \* what the pool has done with the item
  mpc,      \* where the item's goroutine stands
  inbox,    \* inbox[e]: goroutines blocked sending e on item.events
  tasks,    \* tasks[t]: goroutines running lifecycle function t
  served,   \* the pool has received a ready event
  kills,    \* kill calls so far
  resets,   \* reset calls so far
  dstart,   \* startOnce and the goroutine of doStart
  dstop,    \* stopOnce and the goroutine of doStop
  cont,     \* the container, as the Docker daemon has it
  mon,      \* the goroutine of monitor
  exitq     \* the daemon has sent the monitor a destroy event it has not read

itemVars == <<mpc, inbox, tasks>>
poolSide == <<calm, hasReset, use, served, kills, resets>>
containerVars == <<dstart, dstop, cont, mon, exitq>>
vars == <<itemVars, poolSide, containerVars>>

PoolEvents == {"start", "reset", "kill"}
LifecycleEvents == {"live", "live-error", "ready", "ready-error", "reset-error"}
Functions == {"onChildStarted", "onChildLive", "onChildReset"}

(***************************************************************************)
(* mpc:    "waitJoin", "main" (its select), "sendReady" and "sendExit"      *)
(*         (sending to the pool), "drain", "done"                           *)
(* dstart: "none", "start" (in containerStart), "inspect", "sendStarted",   *)
(*         "sendFailed", "done"                                             *)
(* dstop:  "none", "kill" (in containerKill), "done"                        *)
(* mon:    "subscribing", "listening", "send", "ended"                      *)
(***************************************************************************)
TypeOK ==
  /\ {calm, hasReset} \subseteq BOOLEAN
  /\ use \in {"created", "started", "discarded"}
  /\ mpc \in {"waitJoin", "main", "sendReady", "sendExit", "drain", "done"}
  /\ inbox \in [PoolEvents \cup LifecycleEvents -> Nat]
  /\ tasks \in [Functions -> Nat]
  /\ served \in BOOLEAN
  /\ kills \in 0 .. MaxKills + 1
  /\ resets \in 0 .. MaxResets
  /\ dstart \in {"none", "start", "inspect", "sendStarted", "sendFailed", "done"}
  /\ dstop \in {"none", "kill", "done"}
  /\ cont \in {"created", "running", "gone"}
  /\ mon \in {"subscribing", "listening", "send", "ended"}
  /\ exitq \in BOOLEAN

\* createPoolItem has returned.
Init ==
  /\ calm \in Weathers
  /\ hasReset \in BOOLEAN
  /\ use = "created"
  /\ mpc = "waitJoin"
  /\ inbox = [e \in PoolEvents \cup LifecycleEvents |-> 0]
  /\ tasks = [t \in Functions |-> 0]
  /\ served = FALSE
  /\ kills = 0
  /\ resets = 0
  /\ dstart = "none"
  /\ dstop = "none"
  /\ cont = "created"
  /\ mon = "subscribing"
  /\ exitq = FALSE

\* i.exited is closed, i.ctx is cancelled.
Exited == mpc \in {"drain", "done"}

\* What the item still owes the pool: its start and every reset end in a ready
\* event, in a kill, or in nothing, and until then are one goroutine or event.
Owed ==
  IF Exited THEN 0
  ELSE inbox["start"] + inbox["reset"] + inbox["live"] + inbox["live-error"]
       + inbox["ready"] + inbox["ready-error"] + inbox["reset-error"]
       + tasks["onChildStarted"] + tasks["onChildLive"] + tasks["onChildReset"]
       + (IF dstart \in {"start", "inspect", "sendStarted", "sendFailed"} THEN 1 ELSE 0)
       + (IF mpc = "sendReady" THEN 1 ELSE 0)

\* A faulty receive that does not wait for a sender.
TakeUnsent(e) == inbox' = [inbox EXCEPT ![e] = @ - 1]

Put(e) == inbox' = [inbox EXCEPT ![e] = @ + 1]
Take(e) == inbox[e] > 0 /\ inbox' = [inbox EXCEPT ![e] = @ - 1]
Begin(t) == tasks' = [tasks EXCEPT ![t] = @ + 1]
End(t) == tasks[t] > 0 /\ tasks' = [tasks EXCEPT ![t] = @ - 1]

\* container.start() and container.stop(): each starts its goroutine once.
ContainerStart == dstart' = IF dstart = "none" THEN "start" ELSE dstart
ContainerStop == dstop' = IF dstop = "none" THEN "kill" ELSE dstop

----------------------------------------------------------------------------
(* The pool *)

\* join, a rendezvous with runWaitJoin, and start, which starts a sender.
JoinAndStart ==
  /\ use = "created"
  /\ mpc = "waitJoin"
  /\ use' = "started"
  /\ mpc' = "main"
  /\ Put("start")
  /\ UNCHANGED <<tasks, calm, hasReset, served, kills, resets, containerVars>>

\* kill instead of join.
Discard ==
  /\ use = "created"
  /\ use' = "discarded"
  /\ kills' = kills + 1
  /\ Put("kill")
  /\ UNCHANGED <<mpc, tasks, calm, hasReset, served, resets, containerVars>>

\* kill: a sender that gives up once the item has exited.
Kill ==
  /\ use = "started"
  /\ kills < MaxKills
  /\ kills' = kills + 1
  /\ IF Exited THEN UNCHANGED inbox ELSE Put("kill")
  /\ UNCHANGED <<mpc, tasks, calm, hasReset, use, served, resets, containerVars>>

\* reset: likewise, for in calm surroundings for an item that is with a client.
Reset ==
  /\ use = "started"
  /\ resets < MaxResets
  /\ calm => served /\ Owed = 0
  /\ resets' = resets + 1
  /\ IF Exited THEN UNCHANGED inbox ELSE Put("reset")
  /\ UNCHANGED <<mpc, tasks, calm, hasReset, use, served, kills, containerVars>>

----------------------------------------------------------------------------
(* The item's goroutine *)

\* runWaitJoin reads an event: a kill stops the container, others are dropped.
WaitJoinEvent(e) ==
  /\ mpc = "waitJoin"
  /\ Take(e)
  /\ IF e = "kill" THEN ContainerStop ELSE UNCHANGED dstop
  /\ UNCHANGED <<mpc, tasks, poolSide, dstart, cont, mon, exitq>>

\* A faulty main loop that checks and initializes a container at once.
ContainerStartedParallel ==
  /\ mpc = "main"
  /\ dstart = "sendStarted"
  /\ dstart' = "done"
  /\ tasks' = [tasks EXCEPT !["onChildStarted"] = @ + 1, !["onChildLive"] = @ + 1]
  /\ UNCHANGED <<mpc, inbox, poolSide, dstop, cont, mon, exitq>>

\* runMainLoop: the container has started, its health is checked.
ContainerStarted ==
  /\ mpc = "main"
  /\ dstart = "sendStarted"
  /\ dstart' = "done"
  /\ Begin("onChildStarted")
  /\ UNCHANGED <<mpc, inbox, poolSide, dstop, cont, mon, exitq>>

\* runMainLoop: the container exited or could not be started.
ContainerExited ==
  /\ mpc = "main"
  /\ \/ /\ mon = "send"
        /\ mon' = "listening"
        /\ UNCHANGED dstart
     \/ /\ dstart = "sendFailed"
        /\ dstart' = "done"
        /\ UNCHANGED mon
  /\ mpc' = "sendExit"
  /\ UNCHANGED <<inbox, tasks, poolSide, dstop, cont, exitq>>

\* The main loop reads an event of its own channel, and stops the container if that
\* is one of `fatal`.  "reset-error" has no case.
MainEventStopping(e, fatal) ==
  /\ mpc = "main"
  /\ Take(e)
  /\ IF e = "live" THEN Begin("onChildLive")
     ELSE IF e = "reset" THEN Begin("onChildReset") ELSE UNCHANGED tasks
  /\ IF e = "start" THEN ContainerStart ELSE UNCHANGED dstart
  /\ IF e \in fatal THEN ContainerStop ELSE UNCHANGED dstop
  /\ mpc' = IF e = "ready" THEN "sendReady" ELSE "main"
  /\ UNCHANGED <<poolSide, cont, mon, exitq>>

\* A faulty main loop that ignores a kill.
MainEventUnkilled(e) == MainEventStopping(e, {"live-error", "ready-error"})

\* A faulty main loop that takes a failed healthcheck for an exit.
MainEventHasty(e) ==
  IF e # "live-error" THEN MainEventStopping(e, {"kill", "ready-error"})
  ELSE /\ mpc = "main"
       /\ Take(e)
       /\ mpc' = "sendExit"
       /\ UNCHANGED <<tasks, poolSide, containerVars>>

\* runMainLoop: a kill, a failed healthcheck or a failed initialization stops it.
MainEvent(e) == MainEventStopping(e, {"kill", "live-error", "ready-error"})

\* The pool receives eventItemReady.
PoolTakesReady ==
  /\ mpc = "sendReady"
  /\ mpc' = "main"
  /\ served' = TRUE
  /\ UNCHANGED <<inbox, tasks, calm, hasReset, use, kills, resets, containerVars>>

\* The pool receives eventItemExit.  runMainLoop returns: the context of the
\* lifecycle actions is cancelled and exited is closed, which frees the senders
\* of the pool.
PoolTakesExit ==
  /\ mpc = "sendExit"
  /\ mpc' = "drain"
  /\ inbox' = [e \in DOMAIN inbox |-> IF e \in PoolEvents THEN 0 ELSE inbox[e]]
  /\ UNCHANGED <<tasks, poolSide, containerVars>>

\* A faulty drain that reads the events of the pool only.
DrainPoolEvent(e) ==
  /\ mpc = "drain"
  /\ e \in PoolEvents
  /\ Take(e)
  /\ UNCHANGED <<mpc, tasks, poolSide, containerVars>>

\* drain reads what lifecycle functions still send.
DrainEvent(e) ==
  /\ mpc = "drain"
  /\ Take(e)
  /\ UNCHANGED <<mpc, tasks, poolSide, containerVars>>

\* A faulty drain that does not wait for the lifecycle functions (wg).
DrainedEarly ==
  /\ mpc = "drain"
  /\ mpc' = "done"
  /\ UNCHANGED <<inbox, tasks, poolSide, containerVars>>

\* No lifecycle function is left: drain, and run, return.
Drained ==
  /\ mpc = "drain"
  /\ \A t \in Functions : tasks[t] = 0
  /\ \A e \in LifecycleEvents : inbox[e] = 0
  /\ mpc' = "done"
  /\ UNCHANGED <<inbox, tasks, poolSide, containerVars>>

----------------------------------------------------------------------------
(* Lifecycle functions: makeParams, an action if there is one, and an event *)

\* A faulty function that reports its failure and goes on.
FunctionEndsTwice(t, events) ==
  /\ End(t)
  /\ inbox' = [e \in DOMAIN inbox |-> IF e \in events THEN inbox[e] + 1 ELSE inbox[e]]
  /\ UNCHANGED <<mpc, poolSide, containerVars>>

\* A function ends with the event its success or its failure is reported by.
FunctionEnds(t, events) ==
  /\ End(t)
  /\ \E e \in events : Put(e)
  /\ UNCHANGED <<mpc, poolSide, containerVars>>

OnChildStarted == FunctionEnds("onChildStarted", {"live", "live-error"})
OnChildLive == FunctionEnds("onChildLive", {"ready", "ready-error"})

\* A reset reports as well; without a reset action the container is stopped.
OnChildReset ==
  IF hasReset
    THEN FunctionEnds("onChildReset", {"ready", "reset-error"})
    ELSE /\ End("onChildReset")
         /\ ContainerStop
         /\ UNCHANGED <<mpc, inbox, poolSide, dstart, cont, mon, exitq>>

----------------------------------------------------------------------------
(* The goroutines of the container, and the daemon *)

\* The container is gone (it is created with AutoRemove); whoever listens to its
\* events is told.
ContainerGone ==
  /\ cont' = "gone"
  /\ exitq' = (mon = "listening")

\* doStart, containerStart.  A container that does not start may be removed.
DoStart ==
  /\ dstart = "start"
  /\ \/ /\ cont = "created"
        /\ cont' = "running"
        /\ dstart' = "inspect"
        /\ UNCHANGED exitq
     \/ /\ cont = "created"
        /\ ContainerGone
        /\ dstart' = "sendFailed"
     \/ /\ dstart' = "sendFailed"
        /\ UNCHANGED <<cont, exitq>>
  /\ UNCHANGED <<itemVars, poolSide, dstop, mon>>

\* doStart, containerInspect: an error is reported as a failed start.
DoInspect ==
  /\ dstart = "inspect"
  /\ \/ /\ cont = "running"
        /\ dstart' = "sendStarted"
     \/ /\ ~calm \/ cont = "gone"
        /\ dstart' = "sendFailed"
  /\ UNCHANGED <<itemVars, poolSide, dstop, cont, mon, exitq>>

\* doStop, containerKill: without effect unless the container is running.
DoStop ==
  /\ dstop = "kill"
  /\ \/ cont = "running" /\ ContainerGone
     \/ (cont # "running" \/ ~calm) /\ UNCHANGED <<cont, exitq>>
  /\ dstop' = "done"
  /\ UNCHANGED <<itemVars, poolSide, dstart, mon>>

\* The container's process ends on its own.
ContainerDies ==
  /\ cont = "running"
  /\ ContainerGone
  /\ UNCHANGED <<itemVars, poolSide, dstart, dstop, mon>>

\* doMonitor: the daemon answers the subscription; earlier events are lost.
Subscribed ==
  /\ mon = "subscribing"
  /\ mon' = "listening"
  /\ UNCHANGED <<itemVars, poolSide, dstart, dstop, cont, exitq>>

\* doMonitor reads the destroy event and offers the exit on eventch.
MonitorReads ==
  /\ mon = "listening"
  /\ exitq
  /\ mon' = "send"
  /\ exitq' = FALSE
  /\ UNCHANGED <<itemVars, poolSide, dstart, dstop, cont>>

\* The stream breaks: monitor subscribes again, or ends on io.EOF.
StreamBreaks ==
  /\ ~calm
  /\ mon \in {"subscribing", "listening"}
  /\ ~exitq
  /\ mon' \in {"subscribing", "ended"}
  /\ UNCHANGED <<itemVars, poolSide, dstart, dstop, cont, exitq>>

----------------------------------------------------------------------------
PoolStep == JoinAndStart \/ Discard \/ Kill \/ Reset

ItemStep ==
  \/ \E e \in PoolEvents \cup LifecycleEvents :
       WaitJoinEvent(e) \/ MainEvent(e) \/ DrainEvent(e)
  \/ ContainerStarted \/ ContainerExited
  \/ PoolTakesReady \/ PoolTakesExit \/ Drained

LifecycleStep == OnChildStarted \/ OnChildLive \/ OnChildReset

ContainerStep ==
  DoStart \/ DoInspect \/ DoStop \/ Subscribed \/ MonitorReads

Next ==
  \/ PoolStep \/ ItemStep \/ LifecycleStep \/ ContainerStep
  \/ ContainerDies \/ StreamBreaks

Spec == Init /\ [][Next]_vars

(***************************************************************************)
(* Goroutines run, the pool receives events, lifecycle actions end, the     *)
(* daemon answers.  The calls of the pool, the end of a container's process *)
(* and a broken stream are not fair.                                        *)
(***************************************************************************)
Fairness ==
  /\ \A e \in PoolEvents \cup LifecycleEvents :
       WF_vars(WaitJoinEvent(e) \/ MainEvent(e) \/ DrainEvent(e))
  /\ WF_vars(ContainerStarted)
  /\ WF_vars(ContainerExited)
  /\ WF_vars(PoolTakesReady \/ PoolTakesExit \/ Drained)
  /\ WF_vars(OnChildStarted)
  /\ WF_vars(OnChildLive)
  /\ WF_vars(OnChildReset)
  /\ WF_vars(DoStart \/ DoInspect)
  /\ WF_vars(DoStop)
  /\ WF_vars(Subscribed)
  /\ WF_vars(MonitorReads)

FairSpec == Spec /\ Fairness

----------------------------------------------------------------------------
(* Properties *)

\* An item keeps the contract the pool is built on: in particular it sends one
\* exit, last, and one ready event at most for its start and for each reset.
Contract ==
  INSTANCE ItemContract WITH
    Items <- {"item"},
    MaxOwed <- MaxResets + 1,
    phase <- [i \in {"item"} |->
               IF use = "created" THEN "none"
               ELSE IF use = "discarded" THEN "idle"
               ELSE IF Exited THEN "exited"
               ELSE IF served THEN "serving" ELSE "starting"],
    owed <- [i \in {"item"} |-> Owed],
    killed <- [i \in {"item"} |->
                kills > 0 \/ dstop # "none" \/ mpc = "sendExit" \/ Exited]

KeepsContract == Contract!ContractSpec

\* No two lifecycle functions work on a container at a time, as long as the pool
\* resets only items that are out (do, InOnePlace of Pool).
OneFunctionAtATime ==
  calm /\ ~Exited =>
    tasks["onChildStarted"] + tasks["onChildLive"] + tasks["onChildReset"] <= 1

\* Once the item's goroutine has returned no goroutine of its own is left that
\* waits to send on item.events: drain has read them all (wg).
NobodyLeftBehind ==
  mpc = "done" => /\ \A t \in Functions : tasks[t] = 0
                  /\ \A e \in DOMAIN inbox : inbox[e] = 0

\* An item that has exited is drained (drain), whatever its lifecycle functions
\* were doing, and with it the goroutines that start, reset and kill it with
\* (sendEvent).
ExitEnds == Exited ~> mpc = "done"

\* A kill of a container that runs, watched by its monitor and not killed
\* before, makes the item exit if the daemon does not fail.
KillOfRunningExits ==
  (calm /\ cont = "running" /\ mon = "listening" /\ dstop = "none" /\ inbox["kill"] > 0)
    ~> Exited

\* pool.go:88 says donech is "closed when completely shut down", and for that the
\* pool kills its items and waits until each has exited: a kill makes an item exit.
KillExits == (use = "started" /\ kills > 0) ~> Exited

\* item.go:44 says exited is "closed when exited": no container runs after that,
\* if the daemon does not fail.
ExitedMeansGone == calm /\ Exited => cont # "running"
=============================================================================
