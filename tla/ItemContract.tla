---------------------------- MODULE ItemContract ----------------------------
(***************************************************************************)
(* What a pool may rely on of its items, whatever their containers do: the  *)
(* abstract specification of item.go and container.go.  A pool creates,     *)
(* joins, starts, resets and kills items; an item answers with ready events *)
(* and, once and last, an exit event.  Pool is built on this contract and   *)
(* PoolItem implements it.                                                  *)
(***************************************************************************)
EXTENDS Naturals

CONSTANTS Items,          \* the containers that are ever created
          MaxOwed         \* bound: resets of one item under way at a time

ASSUME ContractAssumption == MaxOwed \in Nat \ {0}

VARIABLES
  phase,    \* phase[i]: what has become of item i
  owed,     \* owed[i]: ready events item i may still send
  killed    \* killed[i]: a kill of i has been asked for

contractVars == <<phase, owed, killed>>

(***************************************************************************)
(* "none"      not created yet                                              *)
(* "idle"      created, waiting to be joined (runWaitJoin)                  *)
(* "starting"  joined and started, not ready yet                            *)
(* "serving"   has been ready at least once                                 *)
(* "exited"    its exit event has been sent: it sends nothing any more      *)
(***************************************************************************)
Phases == {"none", "idle", "starting", "serving", "exited"}

ContractTypeOK ==
  /\ phase \in [Items -> Phases]
  /\ owed \in [Items -> 0 .. MaxOwed]
  /\ killed \in [Items -> BOOLEAN]

Joined(i) == phase[i] \in {"starting", "serving"}

ContractInit ==
  /\ phase = [i \in Items |-> "none"]
  /\ owed = [i \in Items |-> 0]
  /\ killed = [i \in Items |-> FALSE]

----------------------------------------------------------------------------
(* Calls of the pool *)

\* createPoolItem, join and start: the item will report when it is ready.
StartItem(i) ==
  /\ phase[i] = "none"
  /\ phase' = [phase EXCEPT ![i] = "starting"]
  /\ owed' = [owed EXCEPT ![i] = 1]
  /\ UNCHANGED killed

\* createPoolItem and kill: an item that nobody joins.
DiscardItem(i) ==
  /\ phase[i] = "none"
  /\ phase' = [phase EXCEPT ![i] = "idle"]
  /\ killed' = [killed EXCEPT ![i] = TRUE]
  /\ UNCHANGED owed

\* reset: without effect once the item has exited.
ResetItem(i) ==
  /\ Joined(i) => owed[i] < MaxOwed
  /\ owed' = [owed EXCEPT ![i] = IF Joined(i) THEN @ + 1 ELSE @]
  /\ UNCHANGED <<phase, killed>>

\* kill of all items in S: only asks for it, the exit comes later if at all.
KillItems(S) ==
  /\ killed' = [i \in Items |-> killed[i] \/ (i \in S /\ Joined(i))]
  /\ UNCHANGED <<phase, owed>>

----------------------------------------------------------------------------
(* Answers of an item *)

\* It becomes ready, for the first time or after a reset.
SendReady(i) ==
  /\ owed[i] > 0
  /\ owed' = [owed EXCEPT ![i] = @ - 1]
  /\ phase' = [phase EXCEPT ![i] = "serving"]
  /\ UNCHANGED killed

\* Its healthcheck, initialization or parameters fail, or it has no reset
\* action: it kills itself instead of becoming ready.
GiveUp(i) ==
  /\ owed[i] > 0
  /\ owed' = [owed EXCEPT ![i] = @ - 1]
  /\ killed' = [killed EXCEPT ![i] = TRUE]
  /\ UNCHANGED phase

\* Its reset action fails: runMainLoop has no case for the event.  What is lost
\* is never the first ready event of an item, unless it is killed instead.
LoseReset(i) ==
  /\ owed[i] > 0
  /\ phase[i] = "serving" \/ killed[i] \/ owed[i] > 1
  /\ owed' = [owed EXCEPT ![i] = @ - 1]
  /\ UNCHANGED <<phase, killed>>

\* Its container is gone, killed or on its own, or never started.
SendExit(i) ==
  /\ Joined(i)
  /\ phase' = [phase EXCEPT ![i] = "exited"]
  /\ owed' = [owed EXCEPT ![i] = 0]
  /\ killed' = [killed EXCEPT ![i] = TRUE]

ContractNext ==
  \E i \in Items :
    \/ StartItem(i) \/ DiscardItem(i) \/ ResetItem(i) \/ KillItems({i})
    \/ SendReady(i) \/ GiveUp(i) \/ LoseReset(i) \/ SendExit(i)

ContractSpec == ContractInit /\ [][ContractNext]_contractVars
=============================================================================
