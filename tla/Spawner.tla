------------------------------ MODULE Spawner ------------------------------
(***************************************************************************)
(* The item spawner of a pool (spawner.go): one goroutine that keeps        *)
(* `pending` creations running until it has served the last request of the  *)
(* pool, and hands every created item over on the unbuffered channel        *)
(* `nextch`.  This module declares the spawner's state and one action per   *)
(* step of its goroutine; each action constrains the spawner's variables    *)
(* only.  Backlog and Pool compose these actions with the pool's main loop. *)
(*                                                                          *)
(* Items are anonymous here: `pending` counts the goroutines started by     *)
(* fill, each of which ends with one send on `resultch`.                    *)
(***************************************************************************)
EXTENDS Naturals, Sequences

CONSTANTS Size,     \* pool.size: how many items the pool is to maintain
          ReqCap    \* capacity of requestch: 5 in newPoolItemSpawner

ASSUME SizeAssumption == Size \in Nat \ {0}
ASSUME ReqCapAssumption == ReqCap \in Nat \ {0}

VARIABLES
  requestch,   \* requests buffered in the channel, oldest first
  reqClosed,   \* stop() has closed requestch
  pending,     \* creations that have not reported on resultch yet
  needed,      \* what is left of the last request
  sp           \* where the spawner goroutine stands

spawnerVars == <<requestch, reqClosed, pending, needed, sp>>

(***************************************************************************)
(* "select"     in fillRequests, waiting for a request or a result          *)
(* "send"       in fillRequests, blocked sending an item on nextch          *)
(* "drain"      in drain, waiting for the results still pending             *)
(* "drainSend"  in drain, blocked sending an item on nextch                 *)
(* "done"       returned; nextch is closed                                  *)
(***************************************************************************)
SpawnerStates == {"select", "send", "drain", "drainSend", "done"}

SpawnerTypeOK ==
  /\ requestch \in Seq(1 .. Size)
  /\ Len(requestch) <= ReqCap
  /\ reqClosed \in BOOLEAN
  /\ pending \in Nat
  /\ needed \in 0 .. Size
  /\ sp \in SpawnerStates

\* fill(): start creations until as many are pending as are needed.
Filled(p, n) == IF p < n THEN n ELSE p

SpawnerInit ==
  /\ requestch = <<>>
  /\ reqClosed = FALSE
  /\ pending = 0
  /\ needed = 0
  /\ sp = "select"

----------------------------------------------------------------------------
(* Calls of the pool's goroutine *)

\* request(n): blocks while the channel is full.
Request(n) ==
  /\ Len(requestch) < ReqCap
  /\ requestch' = Append(requestch, n)
  /\ UNCHANGED <<reqClosed, pending, needed, sp>>

\* stop(): closes requestch; what is buffered can still be received.
CloseRequests ==
  /\ reqClosed' = TRUE
  /\ UNCHANGED <<requestch, pending, needed, sp>>

\* A receive from next(): the goroutine goes round its loop, filling first.
Deliver ==
  /\ \/ /\ sp = "send"
        /\ sp' = "select"
        /\ pending' = Filled(pending, needed)
     \/ /\ sp = "drainSend"
        /\ sp' = "drain"
        /\ UNCHANGED pending
  /\ UNCHANGED <<requestch, reqClosed, needed>>

----------------------------------------------------------------------------
(* Steps of the spawner's goroutine *)

\* A faulty spawner that adds a request to what is left of the last one.
ReadRequestAdds ==
  /\ sp = "select"
  /\ requestch # <<>>
  /\ requestch' = Tail(requestch)
  /\ needed' = needed + Head(requestch)
  /\ pending' = Filled(pending, needed')
  /\ UNCHANGED <<reqClosed, sp>>

\* A request replaces whatever was left of the one before it.
ReadRequest ==
  /\ sp = "select"
  /\ requestch # <<>>
  /\ requestch' = Tail(requestch)
  /\ needed' = Head(requestch)
  /\ pending' = Filled(pending, needed')
  /\ UNCHANGED <<reqClosed, sp>>

\* fillRequests returns once the channel is closed and empty.
RequestsClosed ==
  /\ sp = "select"
  /\ requestch = <<>>
  /\ reqClosed
  /\ sp' = "drain"
  /\ UNCHANGED <<requestch, reqClosed, pending, needed>>

\* A creation reports an error: it is not counted, and fill starts another.
\* In drain nothing is filled.
SpawnFailed ==
  /\ pending > 0
  /\ \/ /\ sp = "select"
        /\ pending' = Filled(pending - 1, needed)
     \/ /\ sp = "drain"
        /\ pending' = pending - 1
  /\ UNCHANGED <<requestch, reqClosed, needed, sp>>

\* A faulty spawner that counts a created item twice.
SpawnOkDoubleCount ==
  /\ pending > 0
  /\ \/ /\ sp = "select"
        /\ needed' = IF needed > 1 THEN needed - 2 ELSE 0
        /\ sp' = "send"
     \/ /\ sp = "drain"
        /\ sp' = "drainSend"
        /\ UNCHANGED needed
  /\ pending' = pending - 1
  /\ UNCHANGED <<requestch, reqClosed>>

\* A creation reports an item, which the goroutine now offers on nextch.
SpawnOk ==
  /\ pending > 0
  /\ \/ /\ sp = "select"
        /\ needed' = IF needed > 0 THEN needed - 1 ELSE 0
        /\ sp' = "send"
     \/ /\ sp = "drain"
        /\ sp' = "drainSend"
        /\ UNCHANGED needed
  /\ pending' = pending - 1
  /\ UNCHANGED <<requestch, reqClosed>>

\* drain returns, closing nextch.
SpawnerDone ==
  /\ sp = "drain"
  /\ pending = 0
  /\ sp' = "done"
  /\ UNCHANGED <<requestch, reqClosed, pending, needed>>

\* The item the goroutine holds while it is blocked on nextch.
InFlight == IF sp \in {"send", "drainSend"} THEN 1 ELSE 0
=============================================================================
