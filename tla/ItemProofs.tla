----------------------------- MODULE ItemProofs -----------------------------
(***************************************************************************)
(* Proofs about PoolItem, for any number of kills and resets and in any     *)
(* surroundings: that an item implements ItemContract, on which Pool is     *)
(* built, and the safety properties of its run.                             *)
(***************************************************************************)
EXTENDS PoolItem, TLAPS

Events == PoolEvents \cup LifecycleEvents

\* What the pool does with an item, the item's goroutine and the kill calls agree on.
UseFollows ==
  /\ mpc = "waitJoin" <=> use # "started"
  /\ use = "created" => kills = 0
  /\ use = "discarded" \/ inbox["kill"] > 0 => kills > 0

\* Before it is joined an item has done nothing.
Untouched ==
  mpc = "waitJoin" => /\ ~served /\ dstart = "none"
                      /\ \A t \in Functions : tasks[t] = 0
                      /\ \A e \in Events \ {"kill"} : inbox[e] = 0

\* An item is started once; its container runs only if it was.
StartsOnce ==
  /\ inbox["start"] > 0 => inbox["start"] = 1 /\ dstart = "none"
  /\ dstart \in {"none", "start"} => cont # "running"

\* Of an item that has exited the calls of the pool are over; at the end all are.
CallsEnd ==
  /\ Exited => \A e \in PoolEvents : inbox[e] = 0
  /\ NobodyLeftBehind

\* An item owes a ready event for its start and one for each reset at most, and one
\* altogether if it is only reset while it owes none.
OwedBound ==
  /\ use = "started" => Owed <= resets + 1
  /\ calm => Owed <= 1

Killed == kills > 0 \/ dstop # "none" \/ mpc = "sendExit" \/ Exited

\* What is under way from the start to the first ready event, resets left aside.
FirstOwed ==
  inbox["start"] + inbox["live"] + inbox["live-error"] + inbox["ready"] + inbox["ready-error"]
  + tasks["onChildStarted"] + tasks["onChildLive"]
  + (IF dstart \in {"start", "inspect", "sendStarted", "sendFailed"} THEN 1 ELSE 0)
  + (IF mpc = "sendReady" THEN 1 ELSE 0)

\* An item that has not been ready yet is on its way to be, or killed.
FirstReady == use = "started" => served \/ Killed \/ FirstOwed > 0

\* An exit is reported of a container that is gone or, if the daemon does not fail,
\* of one that has never run and never will.
ExitIsTrue ==
  /\ mon = "send" \/ exitq => cont = "gone"
  /\ calm /\ dstart = "sendFailed" => cont # "running"
  /\ calm /\ (mpc = "sendExit" \/ Exited) =>
       cont = "gone" \/ (cont = "created" /\ dstart = "done")

IInv ==
  /\ TypeOK /\ UseFollows /\ Untouched /\ StartsOnce /\ CallsEnd
  /\ OwedBound /\ FirstReady /\ ExitIsTrue

----------------------------------------------------------------------------
(* Sending, receiving, beginning and ending *)

Inbox == inbox \in [Events -> Nat]
Tasks == tasks \in [Functions -> Nat]

\* One more goroutine waits to send e (a call of the pool, a lifecycle function).
LEMMA PutOne ==
  ASSUME Inbox, NEW e \in Events, Put(e)
  PROVE  /\ Inbox'
         /\ inbox'[e] = inbox[e] + 1
         /\ \A f \in Events \ {e} : inbox'[f] = inbox[f]
BY DEF Inbox, Put

\* One less: its event has been received.
LEMMA TakeOne ==
  ASSUME Inbox, NEW e \in Events, Take(e)
  PROVE  /\ Inbox'
         /\ inbox[e] > 0 /\ inbox'[e] = inbox[e] - 1
         /\ \A f \in Events \ {e} : inbox'[f] = inbox[f]
BY DEF Inbox, Take

\* One more goroutine runs the lifecycle function t.
LEMMA BeginOne ==
  ASSUME Tasks, NEW t \in Functions, Begin(t)
  PROVE  /\ Tasks'
         /\ tasks'[t] = tasks[t] + 1
         /\ \A u \in Functions \ {t} : tasks'[u] = tasks[u]
BY DEF Tasks, Begin

\* One less: it has ended.
LEMMA EndOne ==
  ASSUME Tasks, NEW t \in Functions, End(t)
  PROVE  /\ Tasks'
         /\ tasks[t] > 0 /\ tasks'[t] = tasks[t] - 1
         /\ \A u \in Functions \ {t} : tasks'[u] = tasks[u]
BY DEF Tasks, End

----------------------------------------------------------------------------
(* Type correctness *)

\* Every step keeps the variables in their types; an item that is discarded has not
\* been killed before.
LEMMA TypeStep ==
  ASSUME TypeOK, UseFollows, [Next]_vars
  PROVE  TypeOK'
<1> USE ItemAssumption DEF TypeOK, itemVars, poolSide, containerVars
<1>0. Inbox /\ Tasks
  BY DEF Inbox, Tasks, Events
<1>1. CASE PoolStep
  <2>0. \A e \in {"start", "reset", "kill"} : Put(e) => Inbox'
    BY <1>0, PutOne DEF Events, PoolEvents
  <2>1. CASE JoinAndStart
    BY <2>0, <2>1 DEF JoinAndStart, Inbox, Events
  <2>2. CASE Discard
    BY <2>0, <2>2 DEF Discard, Inbox, Events, UseFollows
  <2>3. CASE Kill
    BY <1>0, <2>0, <2>3 DEF Kill, Inbox, Events
  <2>4. CASE Reset
    BY <1>0, <2>0, <2>4 DEF Reset, Inbox, Events
  <2> QED
    BY <1>1, <2>1, <2>2, <2>3, <2>4 DEF PoolStep
<1>2. CASE ItemStep
  <2>1. ASSUME NEW e \in Events, WaitJoinEvent(e) PROVE TypeOK'
    BY <1>0, <2>1, TakeOne DEF WaitJoinEvent, ContainerStop, Inbox, Events
  <2>2. ASSUME NEW e \in Events, MainEvent(e) PROVE TypeOK'
    <3>1. Inbox'
      BY <1>0, <2>2, TakeOne DEF MainEvent, MainEventStopping
    <3>2. Tasks'
      BY <1>0, <2>2, BeginOne DEF MainEvent, MainEventStopping, Tasks, Functions
    <3> QED
      BY <2>2, <3>1, <3>2
      DEF MainEvent, MainEventStopping, ContainerStart, ContainerStop, Inbox, Tasks, Events
  <2>3. ASSUME NEW e \in Events, DrainEvent(e) PROVE TypeOK'
    BY <1>0, <2>3, TakeOne DEF DrainEvent, Inbox, Events
  <2>4. CASE ContainerStarted
    <3>1. Tasks'
      BY <1>0, <2>4, BeginOne DEF ContainerStarted, Functions
    <3> QED
      BY <2>4, <3>1 DEF ContainerStarted, Tasks
  <2>5. CASE ContainerExited \/ PoolTakesReady \/ Drained
    BY <2>5 DEF ContainerExited, PoolTakesReady, Drained
  <2>6. CASE PoolTakesExit
    BY <2>6 DEF PoolTakesExit
  <2> QED
    BY <1>2, <2>1, <2>2, <2>3, <2>4, <2>5, <2>6 DEF ItemStep, Events
<1>3. CASE LifecycleStep
  <2>1. ASSUME NEW t \in Functions, NEW E \in SUBSET Events, FunctionEnds(t, E)
        PROVE  TypeOK'
    <3>1. Tasks' /\ Inbox'
      BY <1>0, <2>1, EndOne, PutOne DEF FunctionEnds
    <3> QED
      BY <2>1, <3>1 DEF FunctionEnds, Inbox, Tasks, Events
  <2>2. CASE OnChildStarted \/ OnChildLive
    BY <2>1, <2>2 DEF OnChildStarted, OnChildLive, Events, LifecycleEvents, Functions
  <2>3. CASE OnChildReset
    <3>1. CASE hasReset
      BY <2>1, <2>3, <3>1 DEF OnChildReset, Events, LifecycleEvents, Functions
    <3>2. CASE ~hasReset
      <4>1. Tasks'
        BY <1>0, <2>3, <3>2, EndOne DEF OnChildReset, Functions
      <4> QED
        BY <2>3, <3>2, <4>1 DEF OnChildReset, ContainerStop, Tasks
    <3> QED
      BY <3>1, <3>2
  <2> QED
    BY <1>3, <2>2, <2>3 DEF LifecycleStep
<1>4. CASE ContainerStep \/ ContainerDies \/ StreamBreaks
  <2>1. UNCHANGED <<itemVars, poolSide>>
    BY <1>4 DEF ContainerStep, DoStart, DoInspect, DoStop, Subscribed, MonitorReads,
       ContainerDies, StreamBreaks
  <2>2. /\ dstart' \in {"none", "start", "inspect", "sendStarted", "sendFailed", "done"}
        /\ dstop' \in {"none", "kill", "done"}
    BY <1>4 DEF ContainerStep, DoStart, DoInspect, DoStop, Subscribed, MonitorReads,
       ContainerDies, StreamBreaks
  <2>3. /\ cont' \in {"created", "running", "gone"}
        /\ mon' \in {"subscribing", "listening", "send", "ended"}
    BY <1>4 DEF ContainerStep, DoStart, DoInspect, DoStop, Subscribed, MonitorReads,
       ContainerDies, StreamBreaks, ContainerGone
  <2>4. exitq' \in BOOLEAN
    BY <1>4 DEF ContainerStep, DoStart, DoInspect, DoStop, Subscribed, MonitorReads,
       ContainerDies, StreamBreaks, ContainerGone
  <2> QED
    BY ONLY <2>1, <2>2, <2>3, <2>4, TypeOK DEF TypeOK, itemVars, poolSide
<1>5. CASE UNCHANGED vars
  BY <1>5 DEF vars
<1> QED
  BY <1>1, <1>2, <1>3, <1>4, <1>5 DEF Next

----------------------------------------------------------------------------
(* What a step does to events and functions *)

\* A step that receives an event of the item leaves the others and does not begin
\* anything but what the main loop begins for it.
LEMMA EventStep ==
  ASSUME TypeOK, NEW e \in Events, WaitJoinEvent(e) \/ MainEvent(e) \/ DrainEvent(e)
  PROVE  /\ Inbox /\ Inbox' /\ Tasks /\ Tasks'
         /\ inbox[e] > 0 /\ inbox'[e] = inbox[e] - 1
         /\ \A f \in Events \ {e} : inbox'[f] = inbox[f]
         /\ \A t \in Functions :
              tasks'[t] = IF \/ mpc = "main" /\ t = "onChildLive" /\ e = "live"
                             \/ mpc = "main" /\ t = "onChildReset" /\ e = "reset"
                          THEN tasks[t] + 1 ELSE tasks[t]
<1>1. Inbox /\ Tasks /\ Take(e)
  BY DEF TypeOK, Inbox, Tasks, Events, WaitJoinEvent, MainEvent, MainEventStopping, DrainEvent
<1>2. CASE mpc = "main"
  <2>1. MainEvent(e)
    BY <1>2 DEF WaitJoinEvent, DrainEvent
  <2>2. CASE e = "live"
    BY <1>1, <1>2, <2>1, <2>2, TakeOne, BeginOne DEF MainEvent, MainEventStopping, Functions
  <2>3. CASE e = "reset"
    BY <1>1, <1>2, <2>1, <2>3, TakeOne, BeginOne DEF MainEvent, MainEventStopping, Functions
  <2>4. CASE e \notin {"live", "reset"}
    BY <1>1, <1>2, <2>1, <2>4, TakeOne DEF MainEvent, MainEventStopping, Tasks
  <2> QED
    BY <2>2, <2>3, <2>4
<1>3. CASE mpc # "main"
  BY <1>1, <1>3, TakeOne DEF WaitJoinEvent, MainEvent, MainEventStopping, DrainEvent, Tasks
<1> QED
  BY <1>2, <1>3

\* A function that ends is one less, and one of the events it reports by one more; a
\* reset without an action reports nothing.
LEMMA FunctionStep ==
  ASSUME TypeOK, LifecycleStep
  PROVE  /\ Inbox /\ Inbox' /\ Tasks /\ Tasks'
         /\ UNCHANGED <<mpc, poolSide, dstart, cont, mon, exitq>>
         /\ \A f \in PoolEvents : inbox'[f] = inbox[f]
         /\ \E t \in Functions :
              /\ tasks[t] > 0 /\ tasks'[t] = tasks[t] - 1
              /\ \A u \in Functions \ {t} : tasks'[u] = tasks[u]
              /\ \/ /\ UNCHANGED dstop
                    /\ \E e \in CASE t = "onChildStarted" -> {"live", "live-error"}
                                [] t = "onChildLive" -> {"ready", "ready-error"}
                                [] t = "onChildReset" -> {"ready", "reset-error"} :
                         /\ inbox'[e] = inbox[e] + 1
                         /\ \A f \in Events \ {e} : inbox'[f] = inbox[f]
                 \/ t = "onChildReset" /\ ContainerStop /\ UNCHANGED inbox
<1>1. Inbox /\ Tasks
  BY DEF TypeOK, Inbox, Tasks, Events
<1>2. ASSUME NEW t \in Functions, NEW E \in SUBSET LifecycleEvents, FunctionEnds(t, E)
      PROVE  /\ Inbox' /\ Tasks'
             /\ \A f \in PoolEvents : inbox'[f] = inbox[f]
             /\ UNCHANGED <<mpc, poolSide, dstart, cont, mon, exitq, dstop>>
             /\ tasks[t] > 0 /\ tasks'[t] = tasks[t] - 1
             /\ \A u \in Functions \ {t} : tasks'[u] = tasks[u]
             /\ \E e \in E : /\ inbox'[e] = inbox[e] + 1
                             /\ \A f \in Events \ {e} : inbox'[f] = inbox[f]
  <2>1. PICK e \in E : Put(e)
    BY <1>2 DEF FunctionEnds
  <2>2. e \in Events \ PoolEvents /\ PoolEvents \subseteq Events
    BY <2>1 DEF Events, PoolEvents, LifecycleEvents
  <2>3. /\ Inbox' /\ inbox'[e] = inbox[e] + 1
        /\ \A f \in Events \ {e} : inbox'[f] = inbox[f]
    BY <1>1, <2>1, <2>2, PutOne
  <2>4. \A f \in PoolEvents : inbox'[f] = inbox[f]
    BY <2>2, <2>3
  <2> QED
    BY <1>1, <1>2, <2>3, <2>4, EndOne DEF FunctionEnds, containerVars
<1>3. CASE OnChildStarted
  <2>1. {"live", "live-error"} \in SUBSET LifecycleEvents /\ "onChildStarted" \in Functions
    BY DEF LifecycleEvents, Functions
  <2> QED
    BY <1>1, <1>2, <1>3, <2>1 DEF OnChildStarted
<1>4. CASE OnChildLive
  <2>1. {"ready", "ready-error"} \in SUBSET LifecycleEvents /\ "onChildLive" \in Functions
    BY DEF LifecycleEvents, Functions
  <2> QED
    BY <1>1, <1>2, <1>4, <2>1 DEF OnChildLive
<1>5. CASE OnChildReset
  <2>1. {"ready", "reset-error"} \in SUBSET LifecycleEvents /\ "onChildReset" \in Functions
    BY DEF LifecycleEvents, Functions
  <2>2. CASE hasReset
    BY <1>1, <1>2, <1>5, <2>1, <2>2 DEF OnChildReset
  <2>3. CASE ~hasReset
    BY <1>1, <1>5, <2>1, <2>3, EndOne DEF OnChildReset, Inbox
  <2> QED
    BY <2>2, <2>3
<1> QED
  BY <1>3, <1>4, <1>5 DEF LifecycleStep

----------------------------------------------------------------------------
(* The parts of the invariant that count nothing *)

\* Being joined, being killed and the start of the container go together.
LEMMA UseStep ==
  ASSUME IInv, [Next]_vars
  PROVE  UseFollows' /\ Untouched' /\ StartsOnce'
<1> USE DEF IInv, UseFollows, Untouched, StartsOnce, poolSide, containerVars, itemVars
<1>0. Inbox /\ Tasks /\ kills \in Nat
  BY ItemAssumption DEF TypeOK, Inbox, Tasks, Events
<1>1. CASE PoolStep
  <2>1. CASE JoinAndStart
    <3>1. /\ inbox'["start"] = 1 /\ inbox'["kill"] = inbox["kill"] /\ inbox["start"] = 0
      BY <1>0, <2>1, PutOne DEF JoinAndStart, Inbox, Events, PoolEvents
    <3> QED
      BY <2>1, <3>1 DEF JoinAndStart
  <2>2. CASE Discard
    <3>1. \A e \in Events \ {"kill"} : inbox'[e] = inbox[e]
      BY <1>0, <2>2, PutOne DEF Discard, Events, PoolEvents
    <3> QED
      BY <1>0, <2>2, <3>1 DEF Discard, Events, PoolEvents
  <2>3. CASE Kill
    <3>1. inbox'["start"] = inbox["start"]
      BY <1>0, <2>3, PutOne DEF Kill, Events, PoolEvents
    <3> QED
      BY <1>0, <2>3, <3>1 DEF Kill
  <2>4. CASE Reset
    <3>1. inbox'["start"] = inbox["start"] /\ inbox'["kill"] = inbox["kill"]
      BY <1>0, <2>4, PutOne DEF Reset, Events, PoolEvents
    <3> QED
      BY <1>0, <2>4, <3>1 DEF Reset
  <2> QED
    BY <1>1, <2>1, <2>2, <2>3, <2>4 DEF PoolStep
<1>2. CASE ItemStep
  <2>1. ASSUME NEW e \in Events, WaitJoinEvent(e) PROVE UseFollows' /\ Untouched' /\ StartsOnce'
    <3>1. /\ inbox[e] > 0 /\ inbox'[e] = inbox[e] - 1
          /\ \A f \in Events \ {e} : inbox'[f] = inbox[f]
          /\ "kill" \in Events /\ "start" \in Events
      BY <2>1, EventStep DEF Events, PoolEvents
    <3>2. e = "kill" /\ inbox["start"] = 0
      BY <2>1, <3>1 DEF WaitJoinEvent
    <3> QED
      BY <2>1, <3>1, <3>2 DEF WaitJoinEvent
  <2>2. ASSUME NEW e \in Events, MainEvent(e) PROVE UseFollows' /\ Untouched' /\ StartsOnce'
    <3>1. /\ inbox[e] > 0 /\ inbox'[e] = inbox[e] - 1
          /\ \A f \in Events \ {e} : inbox'[f] = inbox[f]
          /\ "kill" \in Events /\ "start" \in Events
          /\ inbox["kill"] \in Nat
      BY <1>0, <2>2, EventStep DEF Events, PoolEvents, Inbox
    <3>2. inbox'["kill"] > 0 => inbox["kill"] > 0
      BY <3>1
    <3>3. CASE e = "start"
      BY <2>2, <3>1, <3>2, <3>3 DEF MainEvent, MainEventStopping, ContainerStart
    <3>4. CASE e # "start"
      BY <2>2, <3>1, <3>2, <3>4 DEF MainEvent, MainEventStopping
    <3> QED
      BY <3>3, <3>4
  <2>3. ASSUME NEW e \in Events, DrainEvent(e) PROVE UseFollows' /\ Untouched' /\ StartsOnce'
    <3>1. /\ inbox[e] > 0 /\ inbox'[e] = inbox[e] - 1
          /\ \A f \in Events \ {e} : inbox'[f] = inbox[f]
          /\ "kill" \in Events /\ "start" \in Events
          /\ inbox["kill"] \in Nat /\ inbox["start"] \in Nat
      BY <1>0, <2>3, EventStep DEF Events, PoolEvents, Inbox
    <3>2. /\ inbox'["kill"] > 0 => inbox["kill"] > 0
          /\ inbox'["start"] > 0 => inbox'["start"] = inbox["start"]
      BY <3>1
    <3> QED
      BY <2>3, <3>2 DEF DrainEvent
  <2>4. CASE ContainerStarted \/ ContainerExited
    BY <2>4 DEF ContainerStarted, ContainerExited
  <2>5. CASE PoolTakesReady \/ Drained
    BY <2>5 DEF PoolTakesReady, Drained
  <2>6. CASE PoolTakesExit
    BY <2>6 DEF PoolTakesExit, PoolEvents, TypeOK
  <2> QED
    BY <1>2, <2>1, <2>2, <2>3, <2>4, <2>5, <2>6 DEF ItemStep, Events
<1>3. CASE LifecycleStep
  <2>1. inbox'["kill"] = inbox["kill"] /\ inbox'["start"] = inbox["start"]
    BY <1>3, FunctionStep DEF PoolEvents
  <2>2. mpc # "waitJoin" /\ UNCHANGED <<mpc, use, kills, served, dstart, cont>>
    BY <1>3, FunctionStep
  <2> QED
    BY <2>1, <2>2
<1>4. CASE ContainerStep \/ ContainerDies \/ StreamBreaks
  BY <1>4 DEF ContainerStep, DoStart, DoInspect, DoStop, Subscribed, MonitorReads,
     ContainerDies, StreamBreaks, ContainerGone
<1>5. CASE UNCHANGED vars
  BY <1>5 DEF vars
<1> QED
  BY <1>1, <1>2, <1>3, <1>4, <1>5 DEF Next

\* Nobody calls an item that has exited, and drain waits for its functions.
LEMMA EndStep ==
  ASSUME IInv, [Next]_vars
  PROVE  CallsEnd'
<1> USE DEF IInv, CallsEnd, NobodyLeftBehind, Exited, poolSide, containerVars, itemVars
<1>0. /\ Inbox /\ Tasks /\ DOMAIN inbox = Events /\ PoolEvents \subseteq Events
      /\ LifecycleEvents \subseteq Events
  BY DEF TypeOK, Inbox, Tasks, Events
<1>1. CASE PoolStep
  BY <1>1 DEF PoolStep, JoinAndStart, Discard, Kill, Reset, UseFollows
<1>2. CASE ItemStep
  <2>1. ASSUME NEW e \in Events, WaitJoinEvent(e) \/ MainEvent(e) PROVE CallsEnd'
    BY <2>1 DEF WaitJoinEvent, MainEvent, MainEventStopping
  <2>2. ASSUME NEW e \in Events, DrainEvent(e) PROVE CallsEnd'
    <3>1. /\ inbox[e] > 0
          /\ \A f \in Events \ {e} : inbox'[f] = inbox[f]
      BY <2>2, EventStep
    <3>2. e \notin PoolEvents /\ mpc' = "drain"
      BY <2>2, <3>1 DEF DrainEvent
    <3>3. \A f \in PoolEvents : inbox'[f] = 0
      BY <1>0, <2>2, <3>1, <3>2 DEF DrainEvent
    <3> QED
      BY <3>2, <3>3
  <2>3. CASE ContainerStarted \/ ContainerExited \/ PoolTakesReady
    BY <2>3 DEF ContainerStarted, ContainerExited, PoolTakesReady
  <2>4. CASE PoolTakesExit
    BY <1>0, <2>4 DEF PoolTakesExit
  <2>5. CASE Drained
    BY <1>0, <2>5 DEF Drained, Events
  <2> QED
    BY <1>2, <2>1, <2>2, <2>3, <2>4, <2>5 DEF ItemStep, Events
<1>3. CASE LifecycleStep
  <2>1. \A e \in PoolEvents : inbox'[e] = inbox[e]
    BY <1>3, FunctionStep
  <2>2. mpc # "done" /\ mpc' = mpc
    BY <1>3, FunctionStep
  <2> QED
    BY <2>1, <2>2
<1>4. CASE ContainerStep \/ ContainerDies \/ StreamBreaks
  BY <1>4 DEF ContainerStep, DoStart, DoInspect, DoStop, Subscribed, MonitorReads,
     ContainerDies, StreamBreaks, ContainerGone
<1>5. CASE UNCHANGED vars
  BY <1>5 DEF vars
<1> QED
  BY <1>1, <1>2, <1>3, <1>4, <1>5 DEF Next

\* The monitor tells of a container that is gone, a failed start of one that has not
\* come to run.
LEMMA ExitStep ==
  ASSUME IInv, [Next]_vars
  PROVE  ExitIsTrue'
<1> USE DEF IInv, TypeOK, StartsOnce, UseFollows, Untouched, ExitIsTrue, Exited, poolSide,
            containerVars, itemVars
<1>1. CASE PoolStep
  BY <1>1 DEF PoolStep, JoinAndStart, Discard, Kill, Reset
<1>2. CASE ItemStep
  <2>1. ASSUME NEW e \in Events, WaitJoinEvent(e) \/ MainEvent(e) \/ DrainEvent(e)
        PROVE  ExitIsTrue'
    BY <2>1 DEF WaitJoinEvent, MainEvent, MainEventStopping, ContainerStart, DrainEvent
  <2>2. CASE ContainerStarted \/ ContainerExited
    BY <2>2 DEF ContainerStarted, ContainerExited
  <2>3. CASE PoolTakesReady \/ PoolTakesExit \/ Drained
    BY <2>3 DEF PoolTakesReady, PoolTakesExit, Drained
  <2> QED
    BY <1>2, <2>1, <2>2, <2>3 DEF ItemStep, Events
<1>3. CASE LifecycleStep
  BY <1>3, FunctionStep
<1>4. CASE DoStart
  BY <1>4 DEF DoStart, ContainerGone
<1>5. CASE DoInspect \/ DoStop \/ Subscribed \/ MonitorReads
  BY <1>5 DEF DoInspect, DoStop, Subscribed, MonitorReads, ContainerGone
<1>6. CASE ContainerDies \/ StreamBreaks
  BY <1>6 DEF ContainerDies, StreamBreaks, ContainerGone
<1>7. CASE UNCHANGED vars
  BY <1>7 DEF vars
<1> QED
  BY <1>1, <1>2, <1>3, <1>4, <1>5, <1>6, <1>7 DEF Next, ContainerStep

----------------------------------------------------------------------------
(* What is owed *)

\* What an item owes before the first ready event is part of all it owes.
LEMMA OwedTypes ==
  ASSUME TypeOK
  PROVE  /\ Owed \in Nat /\ FirstOwed \in Nat
         /\ ~Exited => Owed = FirstOwed + inbox["reset"] + inbox["reset-error"]
                              + tasks["onChildReset"]
         /\ \A e \in Events : inbox[e] \in Nat
         /\ \A t \in Functions : tasks[t] \in Nat
<1>1. /\ \A e \in Events : inbox[e] \in Nat
      /\ \A t \in Functions : tasks[t] \in Nat
  BY DEF TypeOK, Events
<1>2. FirstOwed \in Nat
  BY ONLY <1>1 DEF FirstOwed, Events, PoolEvents, LifecycleEvents, Functions
<1>3. CASE Exited
  BY <1>1, <1>2, <1>3 DEF Owed
<1>4. CASE ~Exited
  <2>1. Owed = FirstOwed + inbox["reset"] + inbox["reset-error"] + tasks["onChildReset"]
    BY ONLY <1>1, <1>4 DEF Owed, FirstOwed, Events, PoolEvents, LifecycleEvents, Functions
  <2> QED
    BY ONLY <1>1, <1>2, <1>4, <2>1 DEF Events, PoolEvents, LifecycleEvents, Functions
<1> QED
  BY <1>1, <1>2, <1>3, <1>4

\* The same of the state after a step.
LEMMA OwedTypesNext ==
  ASSUME TypeOK'
  PROVE  Owed' \in Nat /\ FirstOwed' \in Nat
<1>1. /\ \A e \in Events : inbox'[e] \in Nat
      /\ \A t \in Functions : tasks'[t] \in Nat
  BY DEF TypeOK, Events
<1>2. FirstOwed' \in Nat
  BY ONLY <1>1 DEF FirstOwed, Events, PoolEvents, LifecycleEvents, Functions
<1>3. Owed' \in Nat
  BY ONLY <1>1 DEF Owed, Events, PoolEvents, LifecycleEvents, Functions
<1> QED
  BY <1>2, <1>3

\* An event that the main loop reads is followed up, unless it reports a failure.
LEMMA OwedEvent ==
  ASSUME IInv, NEW e \in Events, MainEvent(e)
  PROVE  /\ ~Exited /\ ~Exited'
         /\ Owed' = IF e \in {"live-error", "ready-error", "reset-error"}
                      THEN Owed - 1 ELSE Owed
         /\ e \notin {"live-error", "ready-error"} => FirstOwed' >= FirstOwed
<1>1. /\ inbox[e] > 0 /\ inbox'[e] = inbox[e] - 1
      /\ \A f \in Events \ {e} : inbox'[f] = inbox[f]
      /\ \A t \in Functions :
           tasks'[t] = IF \/ t = "onChildLive" /\ e = "live"
                          \/ t = "onChildReset" /\ e = "reset"
                       THEN tasks[t] + 1 ELSE tasks[t]
  <2>1. mpc = "main"
    BY DEF MainEvent, MainEventStopping
  <2> QED
    BY <2>1, EventStep DEF IInv
<1>2. /\ mpc = "main" /\ mpc' = IF e = "ready" THEN "sendReady" ELSE "main"
      /\ e # "start" => dstart' = dstart
      /\ e = "start" => dstart = "none" /\ dstart' = "start"
  BY <1>1 DEF IInv, StartsOnce, MainEvent, MainEventStopping, ContainerStart
<1>3. /\ \A f \in Events : inbox[f] \in Nat
      /\ \A t \in Functions : tasks[t] \in Nat
  BY OwedTypes DEF IInv
<1> USE <1>1, <1>2, <1>3 DEF Owed, FirstOwed, Exited, Events, PoolEvents, LifecycleEvents,
                          Functions
<1>4. CASE e \in {"start", "kill"}
  BY <1>4
<1>5. CASE e = "reset"
  <2>1. /\ inbox'["start"] = inbox["start"] /\ inbox'["live"] = inbox["live"]
        /\ inbox'["live-error"] = inbox["live-error"] /\ inbox'["ready"] = inbox["ready"]
        /\ inbox'["ready-error"] = inbox["ready-error"] /\ inbox'["reset-error"] = inbox["reset-error"]
        /\ inbox["reset"] > 0 /\ inbox'["reset"] = inbox["reset"] - 1
    BY <1>5
  <2>2. /\ tasks'["onChildStarted"] = tasks["onChildStarted"]
        /\ tasks'["onChildLive"] = tasks["onChildLive"]
        /\ tasks'["onChildReset"] = tasks["onChildReset"] + 1
    BY <1>5
  <2>3. dstart' = dstart /\ mpc = "main" /\ mpc' = "main"
    BY <1>5
  <2> QED
    BY ONLY <1>3, <1>5, <2>1, <2>2, <2>3
    DEF Owed, FirstOwed, Exited, Events, PoolEvents, LifecycleEvents, Functions
<1>6. CASE e = "live"
  <2>1. /\ inbox'["start"] = inbox["start"] /\ inbox'["reset"] = inbox["reset"]
        /\ inbox'["live-error"] = inbox["live-error"] /\ inbox'["ready"] = inbox["ready"]
        /\ inbox'["ready-error"] = inbox["ready-error"] /\ inbox'["reset-error"] = inbox["reset-error"]
        /\ inbox["live"] > 0 /\ inbox'["live"] = inbox["live"] - 1
    BY <1>6
  <2>2. /\ tasks'["onChildStarted"] = tasks["onChildStarted"]
        /\ tasks'["onChildLive"] = tasks["onChildLive"] + 1
        /\ tasks'["onChildReset"] = tasks["onChildReset"]
    BY <1>6
  <2>3. dstart' = dstart /\ mpc = "main" /\ mpc' = "main"
    BY <1>6
  <2> QED
    BY ONLY <1>3, <1>6, <2>1, <2>2, <2>3
    DEF Owed, FirstOwed, Exited, Events, PoolEvents, LifecycleEvents, Functions
<1>7. CASE e = "ready"
  BY <1>7
<1>8. CASE e \in {"live-error", "ready-error", "reset-error"}
  BY <1>8
<1> QED
  BY <1>4, <1>5, <1>6, <1>7, <1>8

\* A function that ends reports its end, except a reset that kills the item.
LEMMA OwedFunction ==
  ASSUME IInv, LifecycleStep, ~Exited
  PROVE  /\ ~Exited' /\ FirstOwed' >= FirstOwed
         /\ \/ Owed' = Owed /\ UNCHANGED dstop
            \/ Owed > 0 /\ Owed' = Owed - 1 /\ ContainerStop
<1>0. ~Exited
  OBVIOUS
<1>1. UNCHANGED <<mpc, dstart>>
  BY FunctionStep DEF IInv
<1>2. /\ \A f \in Events : inbox[f] \in Nat
      /\ \A t \in Functions : tasks[t] \in Nat
  BY OwedTypes DEF IInv
<1>3. PICK t \in Functions :
        /\ tasks[t] > 0 /\ tasks'[t] = tasks[t] - 1
        /\ \A u \in Functions \ {t} : tasks'[u] = tasks[u]
        /\ \/ /\ UNCHANGED dstop
              /\ \E e \in CASE t = "onChildStarted" -> {"live", "live-error"}
                          [] t = "onChildLive" -> {"ready", "ready-error"}
                          [] t = "onChildReset" -> {"ready", "reset-error"} :
                   /\ inbox'[e] = inbox[e] + 1
                   /\ \A f \in Events \ {e} : inbox'[f] = inbox[f]
           \/ t = "onChildReset" /\ ContainerStop /\ UNCHANGED inbox
  BY FunctionStep DEF IInv
<1> USE <1>1, <1>2, <1>3 DEF Owed, FirstOwed, Exited, Events, PoolEvents, LifecycleEvents,
                          Functions
<1>4. CASE t = "onChildStarted"
  BY <1>4
<1>5. CASE t = "onChildLive"
  BY <1>5
<1>6. CASE t = "onChildReset"
  <2>1. CASE UNCHANGED inbox /\ ContainerStop
    BY <1>6, <2>1
  <2>2. CASE /\ UNCHANGED dstop /\ inbox'["ready"] = inbox["ready"] + 1
             /\ \A f \in Events \ {"ready"} : inbox'[f] = inbox[f]
    BY <1>6, <2>2
  <2>3. CASE /\ UNCHANGED dstop /\ inbox'["reset-error"] = inbox["reset-error"] + 1
             /\ \A f \in Events \ {"reset-error"} : inbox'[f] = inbox[f]
    <3>1. /\ inbox'["start"] = inbox["start"] /\ inbox'["reset"] = inbox["reset"]
          /\ inbox'["live"] = inbox["live"] /\ inbox'["live-error"] = inbox["live-error"]
          /\ inbox'["ready"] = inbox["ready"] /\ inbox'["ready-error"] = inbox["ready-error"]
      BY <2>3
    <3>2. /\ tasks'["onChildReset"] = tasks["onChildReset"] - 1
          /\ tasks'["onChildStarted"] = tasks["onChildStarted"]
          /\ tasks'["onChildLive"] = tasks["onChildLive"]
      BY <1>6
    <3> QED
      BY ONLY <1>0, <1>1, <1>2, <1>6, <2>3, <3>1, <3>2
      DEF Owed, FirstOwed, Exited, Events, PoolEvents, LifecycleEvents, Functions
  <2> QED
    BY <1>6, <2>1, <2>2, <2>3
<1> QED
  BY <1>4, <1>5, <1>6

\* Kills are no answer, and nothing else is owed.
LEMMA OwedSame ==
  ASSUME \A e \in Events \ {"kill"} : inbox'[e] = inbox[e], UNCHANGED <<tasks, dstart, mpc>>
  PROVE  Owed' = Owed /\ FirstOwed' = FirstOwed /\ Exited' = Exited
BY DEF Owed, FirstOwed, Exited, Events, PoolEvents, LifecycleEvents

\* The start of the container goes on to its healthcheck, or to its failure.
LEMMA OwedStart ==
  ASSUME IInv, ContainerStarted \/ DoStart \/ DoInspect
  PROVE  /\ Owed' = Owed /\ FirstOwed' = FirstOwed /\ Exited' = Exited
         /\ UNCHANGED <<poolSide, dstop>> /\ (mpc' = mpc)
<1>1. /\ \A f \in Events : inbox[f] \in Nat
      /\ \A t \in Functions : tasks[t] \in Nat
  BY OwedTypes DEF IInv
<1>2. CASE DoStart \/ DoInspect
  BY <1>2 DEF DoStart, DoInspect, Owed, FirstOwed, Exited, itemVars
<1>3. CASE ContainerStarted
  <2>1. /\ dstart = "sendStarted" /\ dstart' = "done"
        /\ UNCHANGED <<inbox, mpc, poolSide, dstop>>
        /\ tasks'["onChildStarted"] = tasks["onChildStarted"] + 1
        /\ tasks'["onChildLive"] = tasks["onChildLive"]
        /\ tasks'["onChildReset"] = tasks["onChildReset"]
    BY <1>3, BeginOne DEF ContainerStarted, IInv, TypeOK, Tasks, Functions
  <2> QED
    BY ONLY <1>1, <2>1 DEF Owed, FirstOwed, Exited, Events, PoolEvents, LifecycleEvents,
       Functions
<1> QED
  BY <1>2, <1>3

\* What a call of the pool adds to what is owed: joining the first, a reset one more.
LEMMA OwedCall ==
  ASSUME IInv, PoolStep
  PROVE  /\ Exited' = Exited
         /\ JoinAndStart => Owed = 0 /\ Owed' = 1 /\ FirstOwed' = 1
         /\ Discard \/ Kill \/ Exited => Owed' = Owed /\ FirstOwed' = FirstOwed
         /\ Reset /\ ~Exited => Owed' = Owed + 1 /\ FirstOwed' = FirstOwed
<1>1. /\ \A f \in Events : inbox[f] \in Nat
      /\ \A t \in Functions : tasks[t] \in Nat
  BY OwedTypes DEF IInv
<1>2. Inbox /\ {"start", "reset", "kill"} \subseteq Events
  BY DEF IInv, TypeOK, Inbox, Events, PoolEvents
<1>3. CASE JoinAndStart
  <2>1. /\ inbox["start"] = 0 /\ inbox'["start"] = 1
        /\ \A f \in Events \ {"start", "kill"} : inbox[f] = 0 /\ inbox'[f] = 0
        /\ \A t \in Functions : tasks[t] = 0 /\ tasks'[t] = 0
        /\ mpc = "waitJoin" /\ mpc' = "main" /\ dstart = "none" /\ dstart' = "none"
    BY <1>2, <1>3, PutOne DEF JoinAndStart, IInv, Untouched, containerVars
  <2>2. ~JoinAndStart \/ ~(Discard \/ Kill \/ Reset)
    BY DEF JoinAndStart, Discard, Kill, Reset
  <2> QED
    BY ONLY <1>3, <2>1, <2>2
    DEF Owed, FirstOwed, Exited, Events, PoolEvents, LifecycleEvents, Functions
<1>4. CASE Discard \/ Kill
  <2>1. (\A e \in Events \ {"kill"} : inbox'[e] = inbox[e]) /\ UNCHANGED <<tasks, dstart, mpc>>
    BY <1>2, <1>4, PutOne DEF Discard, Kill, containerVars
  <2>2. ~Reset /\ ~JoinAndStart
    BY <1>1, <1>4 DEF Discard, Kill, Reset, JoinAndStart, IInv, TypeOK, poolSide
  <2> QED
    BY <2>1, <2>2, OwedSame
<1>5. CASE Reset
  <2>1. UNCHANGED <<tasks, dstart, mpc>> /\ ~JoinAndStart
    BY <1>5 DEF Reset, JoinAndStart, containerVars
  <2>2. CASE Exited
    BY <1>5, <2>1, <2>2 DEF Reset, Owed, Exited, FirstOwed
  <2>3. CASE ~Exited
    <3>1. inbox'["reset"] = inbox["reset"] + 1 /\ \A e \in Events \ {"reset"} : inbox'[e] = inbox[e]
      BY <1>2, <1>5, <2>3, PutOne DEF Reset
    <3>2. ~Discard /\ ~Kill
      BY <1>5 DEF Reset, Discard, Kill, IInv, TypeOK, poolSide
    <3> QED
      BY ONLY <1>1, <2>1, <2>3, <3>1, <3>2
      DEF Owed, FirstOwed, Exited, Events, PoolEvents, LifecycleEvents, Functions
  <2> QED
    BY <2>2, <2>3
<1> QED
  BY <1>3, <1>4, <1>5 DEF PoolStep

\* What was a kill, or an exit, remains one.
LEMMA KilledStays ==
  ASSUME IInv, [Next]_vars, Killed
  PROVE  Killed'
<1> USE DEF Killed, Exited, itemVars, poolSide, containerVars
<1>0. kills \in Nat
  BY DEF IInv, TypeOK
<1>1. CASE PoolStep
  BY <1>0, <1>1 DEF PoolStep, JoinAndStart, Discard, Kill, Reset, IInv, UseFollows
<1>2. CASE ItemStep
  BY <1>2 DEF ItemStep, WaitJoinEvent, MainEvent, MainEventStopping, ContainerStop, DrainEvent,
     ContainerStarted, ContainerExited, PoolTakesReady, PoolTakesExit, Drained
<1>3. CASE LifecycleStep
  BY <1>3, FunctionStep DEF ContainerStop, IInv
<1>4. CASE ContainerStep \/ ContainerDies \/ StreamBreaks
  BY <1>4 DEF ContainerStep, DoStart, DoInspect, DoStop, Subscribed, MonitorReads,
     ContainerDies, StreamBreaks
<1>5. CASE UNCHANGED vars
  BY <1>5 DEF vars
<1> QED
  BY <1>1, <1>2, <1>3, <1>4, <1>5 DEF Next

\* An item owes no more than it was asked for, and until it is ready it is on its way
\* there or killed: no step loses its start.
LEMMA OwedStep ==
  ASSUME IInv, [Next]_vars
  PROVE  OwedBound' /\ FirstReady'
<1> USE DEF IInv, OwedBound, FirstReady
<1>0. /\ Owed \in Nat /\ FirstOwed \in Nat /\ resets \in Nat
      /\ Killed => Killed'
  BY OwedTypes, KilledStays DEF TypeOK
<1>1. ASSUME Owed' = Owed, FirstOwed' >= FirstOwed \/ Killed', UNCHANGED <<use, resets, calm, served>>
      PROVE  OwedBound' /\ FirstReady'
  <2>1. FirstOwed' \in Nat
    BY TypeStep, OwedTypesNext
  <2> QED
    BY <1>0, <1>1, <2>1
<1>2. ASSUME Owed' < Owed, FirstOwed' >= FirstOwed \/ Killed' \/ served',
             UNCHANGED <<use, resets, calm>>, served => served'
      PROVE  OwedBound' /\ FirstReady'
  <2>1. FirstOwed' \in Nat /\ Owed' \in Nat
    BY TypeStep, OwedTypesNext
  <2> QED
    BY <1>0, <1>2, <2>1
<1>3. CASE PoolStep
  <2>1. CASE JoinAndStart
    BY <1>0, <1>3, <2>1, OwedCall DEF JoinAndStart
  <2>2. CASE Discard
    BY <1>0, <1>3, <2>2, OwedCall DEF Discard
  <2>3. CASE Kill
    BY <1>0, <1>1, <1>3, <2>3, OwedCall DEF Kill
  <2>4. CASE Reset
    <3>1. CASE Exited
      <4>1. Killed'
        BY <1>0, <3>1 DEF Killed
      <4>2. Owed' = Owed
        BY <1>3, <3>1, OwedCall
      <4>3. UNCHANGED <<use, calm>> /\ resets' = resets + 1
        BY <2>4 DEF Reset
      <4> QED
        BY <1>0, <4>1, <4>2, <4>3
    <3>2. CASE ~Exited
      BY <1>0, <1>3, <2>4, <3>2, OwedCall DEF Reset
    <3> QED
      BY <3>1, <3>2
  <2> QED
    BY <1>3, <2>1, <2>2, <2>3, <2>4 DEF PoolStep
<1>4. CASE ItemStep
  <2>1. ASSUME NEW e \in Events, WaitJoinEvent(e) PROVE OwedBound' /\ FirstReady'
    <3>1. e = "kill"
      BY <2>1, EventStep DEF WaitJoinEvent, Untouched
    <3>2. /\ \A f \in Events \ {"kill"} : inbox'[f] = inbox[f]
          /\ UNCHANGED <<tasks, dstart, mpc, poolSide>>
      BY <2>1, <3>1, EventStep DEF WaitJoinEvent
    <3> QED
      BY <1>0, <1>1, <3>2, OwedSame DEF poolSide
  <2>2. ASSUME NEW e \in Events, MainEvent(e) PROVE OwedBound' /\ FirstReady'
    <3>1. UNCHANGED <<use, resets, calm, served>>
      BY <2>2 DEF MainEvent, MainEventStopping, poolSide
    <3>2. CASE e \in {"live-error", "ready-error"}
      <4>1. Killed'
        BY <2>2, <3>2 DEF MainEvent, MainEventStopping, ContainerStop, Killed
      <4> QED
        BY <1>0, <1>2, <2>2, <3>1, <3>2, <4>1, OwedEvent
    <3>3. CASE e \notin {"live-error", "ready-error"}
      BY <1>0, <1>1, <1>2, <2>2, <3>1, <3>3, OwedEvent
    <3> QED
      BY <3>2, <3>3
  <2>3. ASSUME NEW e \in Events, DrainEvent(e) PROVE OwedBound' /\ FirstReady'
    BY <1>0, <1>1, <2>3 DEF DrainEvent, Owed, Exited, Killed, poolSide
  <2>4. CASE ContainerStarted
    BY <1>0, <1>1, <2>4, OwedStart DEF poolSide
  <2>5. CASE ContainerExited
    <3>1. Killed' /\ UNCHANGED <<use, resets, calm, served>>
      BY <2>5 DEF ContainerExited, Killed, poolSide
    <3>2. Owed' = Owed \/ Owed' < Owed
      BY <2>5, OwedTypes DEF ContainerExited, Owed, Exited, Events, PoolEvents,
         LifecycleEvents, Functions
    <3> QED
      BY <1>1, <1>2, <3>1, <3>2
  <2>6. CASE PoolTakesReady
    <3>1. Owed' < Owed
      BY <2>6, OwedTypes DEF PoolTakesReady, Owed, Exited, Events, PoolEvents,
         LifecycleEvents, Functions, containerVars
    <3> QED
      BY <1>2, <2>6, <3>1 DEF PoolTakesReady
  <2>7. CASE PoolTakesExit
    BY <1>0, <2>7 DEF PoolTakesExit, Owed, Exited, Killed, poolSide
  <2>8. CASE Drained
    BY <1>0, <2>8 DEF Drained, Owed, Exited, Killed, poolSide
  <2> QED
    BY <1>4, <2>1, <2>2, <2>3, <2>4, <2>5, <2>6, <2>7, <2>8 DEF ItemStep, Events
<1>5. CASE LifecycleStep
  <2>1. UNCHANGED <<mpc, use, resets, calm, served>>
    BY <1>5, FunctionStep DEF poolSide
  <2>2. CASE Exited
    BY <1>0, <2>1, <2>2 DEF Owed, Exited, Killed
  <2>3. CASE ~Exited
    BY <1>0, <1>1, <1>2, <1>5, <2>1, <2>3, OwedFunction
  <2> QED
    BY <2>2, <2>3
<1>6. CASE DoStart \/ DoInspect
  BY <1>0, <1>1, <1>6, OwedStart DEF poolSide
<1>7. CASE DoStop \/ Subscribed \/ MonitorReads \/ ContainerDies \/ StreamBreaks
  <2>1. UNCHANGED <<inbox, tasks, dstart, mpc, use, resets, calm, served>>
    BY <1>7 DEF DoStop, Subscribed, MonitorReads, ContainerDies, StreamBreaks, itemVars,
       poolSide
  <2> QED
    BY <1>0, <1>1, <2>1, OwedSame
<1>8. CASE UNCHANGED vars
  <2>1. UNCHANGED <<inbox, tasks, dstart, mpc, use, resets, calm, served>>
    BY <1>8 DEF vars, itemVars, poolSide, containerVars
  <2> QED
    BY <1>0, <1>1, <2>1, OwedSame
<1> QED
  BY <1>3, <1>4, <1>5, <1>6, <1>7, <1>8 DEF Next, ContainerStep

----------------------------------------------------------------------------
(* The invariant and the properties *)

\* IInv holds when createPoolItem has returned.
LEMMA InitInv == Init => IInv
<1> SUFFICES ASSUME Init PROVE IInv
  OBVIOUS
<1>1. TypeOK
  <2>1. {calm, hasReset} \subseteq BOOLEAN
    BY ItemAssumption DEF Init
  <2>2. kills \in 0 .. MaxKills + 1 /\ resets \in 0 .. MaxResets
    BY ItemAssumption DEF Init
  <2>3. /\ inbox \in [PoolEvents \cup LifecycleEvents -> Nat]
        /\ tasks \in [Functions -> Nat]
    BY DEF Init
  <2> QED
    BY <2>1, <2>2, <2>3 DEF Init, TypeOK
<1>2. Owed = 0
  BY DEF Init, Owed, Exited, PoolEvents, LifecycleEvents, Functions
<1> QED
  BY <1>1, <1>2, ItemAssumption
  DEF Init, IInv, UseFollows, Untouched, StartsOnce, CallsEnd, NobodyLeftBehind, OwedBound,
      FirstReady, ExitIsTrue, Exited, TypeOK, Events, PoolEvents

\* It holds ever after.
THEOREM ItemInvariance == Spec => []IInv
<1>1. IInv /\ [Next]_vars => IInv'
  BY TypeStep, UseStep, EndStep, ExitStep, OwedStep DEF IInv
<1> QED
  BY <1>1, InitInv, PTL DEF Spec

\* The variables keep their types, however often the item is killed and reset.
THEOREM TypeCorrect == Spec => []TypeOK
<1>1. IInv => TypeOK
  BY DEF IInv
<1> QED
  BY <1>1, ItemInvariance, PTL

\* When the item's goroutine has returned nobody waits for it: drain has waited for
\* the lifecycle functions, and the senders of the pool have given up.
THEOREM NobodyWaits == Spec => []NobodyLeftBehind
<1>1. IInv => NobodyLeftBehind
  BY DEF IInv, CallsEnd
<1> QED
  BY <1>1, ItemInvariance, PTL

\* At most one lifecycle function works on the container of an item that is reset only
\* while it is out, which is what ResetsOnlyWhenOut says of Pool.
THEOREM OneAtATime == Spec => []OneFunctionAtATime
<1>1. IInv => OneFunctionAtATime
  <2> SUFFICES ASSUME IInv, calm, ~Exited
               PROVE  tasks["onChildStarted"] + tasks["onChildLive"] + tasks["onChildReset"] <= 1
    BY DEF OneFunctionAtATime
  <2>1. /\ \A e \in Events : inbox[e] \in Nat
        /\ \A t \in Functions : tasks[t] \in Nat
    BY OwedTypes DEF IInv
  <2>2. Owed <= 1 /\ ~Exited
    BY DEF IInv, OwedBound
  <2> QED
    BY ONLY <2>1, <2>2 DEF Owed, Events, PoolEvents, LifecycleEvents, Functions
<1> QED
  BY <1>1, ItemInvariance, PTL

\* An item whose exit the pool has been told of has no running container, if the daemon
\* does not fail: not even one that would start later.
THEOREM ExitedIsGone == Spec => []ExitedMeansGone
<1>1. IInv => ExitedMeansGone
  BY DEF IInv, ExitIsTrue, ExitedMeansGone
<1> QED
  BY <1>1, ItemInvariance, PTL

----------------------------------------------------------------------------
(* An item keeps its contract: its state as the contract sees it *)

Phase ==
  IF use = "created" THEN "none"
  ELSE IF use = "discarded" THEN "idle"
  ELSE IF Exited THEN "exited"
  ELSE IF served THEN "serving" ELSE "starting"

\* Nothing of the contract changes.
LEMMA ContractSame ==
  ASSUME UNCHANGED <<Phase, Owed, Killed>>
  PROVE  UNCHANGED Contract!contractVars
BY DEF Contract!contractVars, Phase, Killed

\* It is joined and started.
LEMMA ContractStarts ==
  ASSUME Phase = "none", Phase' = "starting", Owed' = 1, UNCHANGED Killed
  PROVE  Contract!StartItem("item")
BY DEF Contract!StartItem, Phase, Killed

\* It is killed instead.
LEMMA ContractDiscards ==
  ASSUME Phase = "none", Phase' = "idle", UNCHANGED Owed, Killed'
  PROVE  Contract!DiscardItem("item")
BY DEF Contract!DiscardItem, Phase, Killed

\* It is reset.
LEMMA ContractResets ==
  ASSUME Phase \in {"starting", "serving"}, Owed < MaxResets + 1, Owed' = Owed + 1,
         UNCHANGED <<Phase, Killed>>
  PROVE  Contract!ResetItem("item")
BY DEF Contract!ResetItem, Contract!Joined, Phase, Killed

\* It is killed, by the pool or because its container has exited.
LEMMA ContractKills ==
  ASSUME Phase \in {"starting", "serving"}, Killed', UNCHANGED <<Phase, Owed>>
  PROVE  Contract!KillItems({"item"})
BY DEF Contract!KillItems, Contract!Joined, Phase, Killed

\* It becomes ready.
LEMMA ContractReadies ==
  ASSUME Owed > 0, Owed' = Owed - 1, Phase' = "serving", UNCHANGED Killed
  PROVE  Contract!SendReady("item")
BY DEF Contract!SendReady, Phase, Killed

\* It kills itself instead of becoming ready.
LEMMA ContractGivesUp ==
  ASSUME Owed > 0, Owed' = Owed - 1, UNCHANGED Phase, Killed'
  PROVE  Contract!GiveUp("item")
BY DEF Contract!GiveUp, Phase, Killed

\* It does not become ready after a reset, and is not killed.
LEMMA ContractLoses ==
  ASSUME Owed > 0, Owed' = Owed - 1, Phase = "serving" \/ Killed \/ Owed > 1,
         UNCHANGED <<Phase, Killed>>
  PROVE  Contract!LoseReset("item")
BY DEF Contract!LoseReset, Phase, Killed

\* It exits.
LEMMA ContractExits ==
  ASSUME Phase \in {"starting", "serving"}, Phase' = "exited", Owed' = 0, Killed'
  PROVE  Contract!SendExit("item")
BY DEF Contract!SendExit, Contract!Joined, Phase, Killed

\* createPoolItem returns an item of which nothing has been asked.
LEMMA ContractStarted == Init => Contract!ContractInit
<1> SUFFICES ASSUME Init PROVE Contract!ContractInit
  OBVIOUS
<1>1. Owed = 0 /\ ~Killed /\ Phase = "none"
  BY DEF Init, Owed, Exited, Killed, Phase, PoolEvents, LifecycleEvents, Functions
<1> QED
  BY <1>1 DEF Contract!ContractInit, Killed, Phase

\* Every step of an item is one of the contract, or none.
LEMMA ContractStep ==
  ASSUME IInv, [Next]_vars
  PROVE  Contract!ContractNext \/ UNCHANGED Contract!contractVars
<1> DEFINE Keeps == Contract!ContractNext \/ UNCHANGED Contract!contractVars
<1> USE DEF IInv, Contract!ContractNext
<1>0. /\ Owed \in Nat /\ FirstOwed \in Nat /\ resets \in Nat /\ served \in BOOLEAN
      /\ use \in {"created", "started", "discarded"}
      /\ Exited => use = "started" /\ Owed = 0 /\ Killed
      /\ Exited' => Owed' = 0 /\ Killed'
  BY OwedTypes DEF TypeOK, UseFollows, Exited, Owed, Killed
<1>1. ASSUME Owed' = Owed, UNCHANGED <<use, served, Killed>>, Exited' <=> Exited
      PROVE  Keeps
  <2>1. UNCHANGED <<Phase, Owed, Killed>>
    BY <1>1 DEF Phase, Killed
  <2> QED
    BY <2>1, ContractSame
<1>2. ASSUME mpc # "waitJoin", ~Exited, UNCHANGED <<use, served>>, ~Exited', Killed',
             Owed' = Owed \/ (Owed > 0 /\ Owed' = Owed - 1)
      PROVE  Keeps
  <2>1. Phase \in {"starting", "serving"} /\ Phase' = Phase
    BY <1>2 DEF Phase, UseFollows
  <2> QED
    BY <1>2, <2>1, ContractKills, ContractGivesUp
<1>3. CASE PoolStep
  <2>1. CASE JoinAndStart
    <3>1. Phase = "none" /\ Phase' = "starting" /\ UNCHANGED Killed
      BY <2>1 DEF JoinAndStart, Untouched, Phase, Killed, Exited, containerVars
    <3> QED
      BY <1>3, <2>1, <3>1, OwedCall, ContractStarts
  <2>2. CASE Discard
    <3>1. Phase = "none" /\ Phase' = "idle" /\ Killed'
      BY <2>2 DEF Discard, UseFollows, Phase, Killed
    <3> QED
      BY <1>3, <2>2, <3>1, OwedCall, ContractDiscards
  <2>3. CASE Kill
    <3>1. Owed' = Owed /\ Exited' = Exited
      BY <1>3, <2>3, OwedCall
    <3>2. Killed' /\ UNCHANGED <<use, served, mpc>> /\ mpc # "waitJoin"
      BY <2>3 DEF Kill, Killed, UseFollows, TypeOK
    <3>3. CASE Exited
      BY <1>0, <1>1, <3>1, <3>2, <3>3
    <3>4. CASE ~Exited
      BY <1>2, <3>1, <3>2, <3>4
    <3> QED
      BY <3>3, <3>4
  <2>4. CASE Reset
    <3>1. UNCHANGED <<use, served, mpc, kills, dstop>> /\ use = "started" /\ resets < MaxResets
      BY <2>4 DEF Reset, containerVars
    <3>2. UNCHANGED <<Exited, Killed>>
      BY <3>1 DEF Exited, Killed
    <3>3. CASE Exited
      BY <1>0, <1>1, <1>3, <2>4, <3>1, <3>2, <3>3, OwedCall
    <3>4. CASE ~Exited
      <4>1. Phase \in {"starting", "serving"} /\ Phase' = Phase
        BY <3>1, <3>2, <3>4 DEF Phase
      <4>2. Owed < MaxResets + 1
        BY <1>0, <3>1, ItemAssumption DEF OwedBound
      <4> QED
        BY <1>3, <2>4, <3>2, <3>4, <4>1, <4>2, OwedCall, ContractResets
    <3> QED
      BY <3>3, <3>4
  <2> QED
    BY <1>3, <2>1, <2>2, <2>3, <2>4 DEF PoolStep
<1>4. CASE ItemStep
  <2>1. ASSUME NEW e \in Events, WaitJoinEvent(e) PROVE Keeps
    <3>1. e = "kill"
      BY <2>1, EventStep DEF WaitJoinEvent, Untouched
    <3>2. /\ \A f \in Events \ {"kill"} : inbox'[f] = inbox[f]
          /\ UNCHANGED <<tasks, dstart, mpc, use, served, kills>>
      BY <2>1, <3>1, EventStep DEF WaitJoinEvent, poolSide
    <3>3. kills > 0
      BY <2>1, <3>1, EventStep DEF UseFollows
    <3> QED
      BY <1>1, <3>2, <3>3, OwedSame DEF Killed
  <2>2. ASSUME NEW e \in Events, MainEvent(e) PROVE Keeps
    <3>1. /\ UNCHANGED <<use, served, kills>> /\ mpc = "main" /\ Take(e)
          /\ mpc' # "sendExit"
      BY <2>2 DEF MainEvent, MainEventStopping, poolSide
    <3>2. /\ ~Exited /\ ~Exited'
          /\ Owed' = IF e \in {"live-error", "ready-error", "reset-error"}
                       THEN Owed - 1 ELSE Owed
      BY <2>2, OwedEvent
    <3>3. CASE e \in {"live-error", "ready-error"}
      <4>1. Owed > 0
        BY <1>0, <3>2, <3>3, TypeStep, OwedTypesNext
      <4>2. Killed'
        BY <2>2, <3>3 DEF MainEvent, MainEventStopping, ContainerStop, Killed
      <4> QED
        BY <1>2, <3>1, <3>2, <3>3, <4>1, <4>2
    <3>4. CASE e = "reset-error"
      <4>1. UNCHANGED Killed
        BY <2>2, <3>1, <3>2, <3>4 DEF MainEvent, MainEventStopping, Killed
      <4>2. Owed >= FirstOwed + 1
        BY <3>1, <3>2, <3>4, OwedTypes DEF Take, Events, PoolEvents, LifecycleEvents, Functions
      <4>3. Phase = "serving" \/ Killed \/ Owed > 1
        BY <1>0, <3>1, <3>2, <4>2 DEF FirstReady, Phase, UseFollows
      <4>4. UNCHANGED Phase
        BY <3>1, <3>2 DEF Phase
      <4> QED
        BY <1>0, <3>2, <3>4, <4>1, <4>2, <4>3, <4>4, ContractLoses
    <3>5. CASE e = "kill"
      <4>1. kills > 0
        BY <3>1, <3>5 DEF Take, UseFollows
      <4>2. Killed /\ UNCHANGED Killed
        BY <3>1, <4>1 DEF Killed
      <4> QED
        BY <1>1, <3>1, <3>2, <3>5, <4>2
    <3>6. CASE e \notin {"live-error", "ready-error", "reset-error", "kill"}
      <4>1. UNCHANGED Killed
        BY <2>2, <3>1, <3>2, <3>6 DEF MainEvent, MainEventStopping, Killed
      <4> QED
        BY <1>1, <3>1, <3>2, <3>6, <4>1
    <3> QED
      BY <3>3, <3>4, <3>5, <3>6
  <2>3. ASSUME NEW e \in Events, DrainEvent(e) PROVE Keeps
    <3>1. Exited /\ Exited' /\ UNCHANGED <<use, served>>
      BY <2>3 DEF DrainEvent, Exited, poolSide
    <3> QED
      BY <1>0, <1>1, <3>1
  <2>4. CASE ContainerStarted
    <3>1. UNCHANGED Killed
      BY <2>4, OwedStart DEF Killed, poolSide
    <3> QED
      BY <1>1, <2>4, <3>1, OwedStart DEF poolSide
  <2>5. CASE ContainerExited
    <3>1. /\ Killed' /\ UNCHANGED <<use, served>> /\ mpc = "main"
          /\ ~Exited /\ ~Exited'
      BY <2>5 DEF ContainerExited, Killed, Exited, poolSide
    <3>2. Owed' = Owed \/ (Owed > 0 /\ Owed' = Owed - 1)
      <4>1. /\ UNCHANGED <<inbox, tasks>> /\ mpc = "main" /\ mpc' = "sendExit"
        BY <2>5 DEF ContainerExited
      <4>2. /\ \A f \in Events : inbox[f] \in Nat
            /\ \A t \in Functions : tasks[t] \in Nat
        BY OwedTypes
      <4>3. CASE dstart' = dstart
        BY ONLY <4>1, <4>2, <4>3
        DEF Owed, Exited, Events, PoolEvents, LifecycleEvents, Functions
      <4>4. CASE dstart = "sendFailed" /\ dstart' = "done"
        BY ONLY <4>1, <4>2, <4>4
        DEF Owed, Exited, Events, PoolEvents, LifecycleEvents, Functions
      <4> QED
        BY <2>5, <4>3, <4>4 DEF ContainerExited
    <3> QED
      BY <1>2, <3>1, <3>2
  <2>6. CASE PoolTakesReady
    <3>1. Owed > 0 /\ Owed' = Owed - 1
      <4>1. UNCHANGED <<inbox, tasks, dstart>> /\ mpc = "sendReady" /\ mpc' = "main"
        BY <2>6 DEF PoolTakesReady, containerVars
      <4>2. /\ \A f \in Events : inbox[f] \in Nat
            /\ \A t \in Functions : tasks[t] \in Nat
        BY OwedTypes
      <4> QED
        BY ONLY <4>1, <4>2
        DEF Owed, Exited, Events, PoolEvents, LifecycleEvents, Functions
    <3>2. Phase' = "serving" /\ UNCHANGED Killed
      BY <2>6 DEF PoolTakesReady, Phase, Killed, Exited, UseFollows, containerVars
    <3> QED
      BY <3>1, <3>2, ContractReadies
  <2>7. CASE PoolTakesExit
    <3>1. Phase \in {"starting", "serving"} /\ Phase' = "exited" /\ Exited'
      BY <2>7 DEF PoolTakesExit, Phase, Exited, UseFollows, poolSide
    <3> QED
      BY <1>0, <3>1, ContractExits
  <2>8. CASE Drained
    <3>1. Exited /\ Exited' /\ UNCHANGED <<use, served>>
      BY <2>8 DEF Drained, Exited, poolSide
    <3> QED
      BY <1>0, <1>1, <3>1
  <2> QED
    BY <1>4, <2>1, <2>2, <2>3, <2>4, <2>5, <2>6, <2>7, <2>8 DEF ItemStep, Events
<1>5. CASE LifecycleStep
  <2>1. UNCHANGED <<mpc, use, kills, served>>
    BY <1>5, FunctionStep DEF poolSide
  <2>2. UNCHANGED Exited
    BY <2>1 DEF Exited
  <2>3. CASE Exited
    BY <1>0, <1>1, <2>1, <2>2, <2>3
  <2>4. CASE ~Exited /\ Owed' = Owed /\ UNCHANGED dstop
    BY <1>1, <2>1, <2>2, <2>4 DEF Killed
  <2>5. CASE ~Exited /\ Owed > 0 /\ Owed' = Owed - 1 /\ ContainerStop
    <3>1. Killed'
      BY <2>5 DEF ContainerStop, Killed
    <3>2. mpc # "waitJoin"
      BY <1>0, <2>5, <1>5, FunctionStep DEF Untouched
    <3> QED
      BY <1>2, <2>1, <2>2, <2>5, <3>1, <3>2
  <2> QED
    BY <1>5, <2>3, <2>4, <2>5, OwedFunction
<1>6. CASE DoStart \/ DoInspect
  <2>1. UNCHANGED Killed
    BY <1>6, OwedStart DEF Killed, poolSide, DoStart, DoInspect
  <2> QED
    BY <1>1, <1>6, <2>1, OwedStart DEF poolSide
<1>7. CASE DoStop \/ Subscribed \/ MonitorReads \/ ContainerDies \/ StreamBreaks
           \/ UNCHANGED vars
  <2>1. UNCHANGED <<inbox, tasks, dstart, mpc, use, kills, served, dstop # "none">>
    BY <1>7 DEF DoStop, Subscribed, MonitorReads, ContainerDies, StreamBreaks, vars, itemVars,
       poolSide, containerVars
  <2> QED
    BY <1>1, <2>1, OwedSame DEF Killed
<1> QED
  BY <1>3, <1>4, <1>5, <1>6, <1>7 DEF Next, ContainerStep

\* An item keeps the contract the pool is built on, whatever its container, the daemon
\* and its lifecycle actions do, and however often it is killed and reset: Pool may be
\* reasoned about with ItemContract in the place of its items.
THEOREM ItemKeepsContract == Spec => KeepsContract
<1>1. IInv /\ [Next]_vars => [Contract!ContractNext]_(Contract!contractVars)
  BY ContractStep
<1> QED
  BY <1>1, ContractStarted, ItemInvariance, PTL DEF Spec, KeepsContract, Contract!ContractSpec
=============================================================================
