----------------------------- MODULE ExecAction -----------------------------
(***************************************************************************)
(* A run of an action of type exec: ActionRunner with Do as                 *)
(* lifecycle/action_exec.go has it.  Do starts a process, whose output and  *)
(* errors two goroutines copy to the log until nobody has the pipes open    *)
(* for writing any more; then it waits for the process.  A goroutine of     *)
(* os/exec kills the process when the context of the attempt ends.  What    *)
(* the process has started itself (its "child") is not killed, and has the  *)
(* pipes open as well.                                                      *)
(***************************************************************************)
EXTENDS ActionRunner

Streams == {"stdout", "stderr"}

VARIABLES
  step,      \* step[k]: where Do of attempt k stands
  proc,      \* proc[k]: its process
  holds,     \* holds[k]: who has the pipes open for writing
  unread,    \* unread[k]: the pipes with something in them
  copiers    \* copiers[k]: the pipes whose goroutine runs

execVars == <<step, proc, holds, unread, copiers>>

(***************************************************************************)
(* step:  "none", "copying" (in wg.Wait), "waiting" (in cmd.Wait), "done"   *)
(* proc:  "none", "running", "exited" and "failed" (by its exit code),      *)
(*        "killed", "reaped"                                                *)
(***************************************************************************)
ExecTypeOK ==
  /\ step \in [Attempts -> {"none", "copying", "waiting", "done"}]
  /\ proc \in [Attempts -> {"none", "running", "exited", "failed", "killed", "reaped"}]
  /\ holds \in [Attempts -> SUBSET {"process", "child"}]
  /\ unread \in [Attempts -> SUBSET Streams]
  /\ copiers \in [Attempts -> SUBSET Streams]

ExecInit ==
  /\ Init
  /\ step = [k \in Attempts |-> "none"]
  /\ proc = [k \in Attempts |-> "none"]
  /\ holds = [k \in Attempts |-> {}]
  /\ unread = [k \in Attempts |-> {}]
  /\ copiers = [k \in Attempts |-> {}]

----------------------------------------------------------------------------
\* An environment that is no template, a command that cannot be started, or
\* (os/exec looks at it) a context that has ended.
StartFails(k) ==
  /\ step[k] = "none"
  /\ step' = [step EXCEPT ![k] = "done"]
  /\ DoReturns(k, "error")
  /\ UNCHANGED <<proc, holds, unread, copiers>>

Start(k) ==
  /\ step[k] = "none"
  /\ work[k] = "doing"
  /\ ~over[k]
  /\ step' = [step EXCEPT ![k] = "copying"]
  /\ proc' = [proc EXCEPT ![k] = "running"]
  /\ \E h \in {{"process"}, {"process", "child"}} : holds' = [holds EXCEPT ![k] = h]
  /\ copiers' = [copiers EXCEPT ![k] = Streams]
  /\ UNCHANGED <<vars, unread>>

\* copyLogs reads what there is, and ends once nobody can write any more.
Copy(k, s) ==
  /\ s \in copiers[k]
  /\ \/ s \in unread[k] /\ unread' = [unread EXCEPT ![k] = @ \ {s}] /\ UNCHANGED copiers
     \/ /\ s \notin unread[k] /\ holds[k] = {}
        /\ copiers' = [copiers EXCEPT ![k] = @ \ {s}]
        /\ UNCHANGED unread
  /\ UNCHANGED <<vars, step, proc, holds>>

\* A faulty Do that does not wait for the copies.
CopiedEarly(k) ==
  /\ step[k] = "copying"
  /\ step' = [step EXCEPT ![k] = "waiting"]
  /\ UNCHANGED <<vars, proc, holds, unread, copiers>>

\* wg.Wait returns.
Copied(k) ==
  /\ step[k] = "copying"
  /\ copiers[k] = {}
  /\ step' = [step EXCEPT ![k] = "waiting"]
  /\ UNCHANGED <<vars, proc, holds, unread, copiers>>

\* cmd.Wait returns: the process is reaped and the pipes are closed.
Reaped(k) ==
  /\ step[k] = "waiting"
  /\ proc[k] \in {"exited", "failed", "killed"}
  /\ step' = [step EXCEPT ![k] = "done"]
  /\ proc' = [proc EXCEPT ![k] = "reaped"]
  /\ copiers' = [copiers EXCEPT ![k] = {}]
  /\ DoReturns(k, IF proc[k] = "exited" THEN "ok" ELSE "error")
  /\ UNCHANGED <<holds, unread>>

\* A faulty command that does not have the context.
KillNever(k) == FALSE /\ UNCHANGED <<vars, execVars>>

\* The process ends as p; what it has started goes on.
ProcessEnds(k, p) ==
  /\ proc[k] = "running"
  /\ proc' = [proc EXCEPT ![k] = p]
  /\ holds' = [holds EXCEPT ![k] = @ \ {"process"}]
  /\ UNCHANGED <<vars, step, unread, copiers>>

\* CommandContext: the attempt is over, and its process killed.
Kill(k) == over[k] /\ ProcessEnds(k, "killed")

----------------------------------------------------------------------------
(* The processes: they write, close the pipes and end, or go on for ever *)

Write(k, s) ==
  /\ holds[k] # {}
  /\ unread' = [unread EXCEPT ![k] = @ \cup {s}]
  /\ UNCHANGED <<vars, step, proc, holds, copiers>>

LetsGo(k, who) ==
  /\ who \in holds[k]
  /\ holds' = [holds EXCEPT ![k] = @ \ {who}]
  /\ UNCHANGED <<vars, step, proc, unread, copiers>>

----------------------------------------------------------------------------
DoExec(k) == StartFails(k) \/ Start(k) \/ Copied(k) \/ Reaped(k)

ExecStep(k) ==
  \/ DoExec(k) \/ Kill(k)
  \/ \E s \in Streams : Copy(k, s) \/ Write(k, s)
  \/ \E p \in {"exited", "failed"} : ProcessEnds(k, p)
  \/ \E who \in {"process", "child"} : LetsGo(k, who)

ExecNext ==
  \/ RunStep /\ UNCHANGED execVars
  \/ \E k \in Attempts :
       \/ config.Type = "exec" /\ ExecStep(k)
       \/ config.Type # "exec" /\ DoStep(k) /\ UNCHANGED execVars

ExecSpec == ExecInit /\ [][ExecNext]_<<vars, execVars>>

\* The goroutines of Do, of the copies and of os/exec run.  Processes need not do
\* anything, and never end unless they are killed.
ExecFairness ==
  \A k \in Attempts :
    /\ WF_execVars(config.Type = "exec" /\ DoExec(k))
    /\ WF_execVars(Kill(k))
    /\ \A s \in Streams : WF_execVars(Copy(k, s))

ExecFairSpec == ExecSpec /\ Fairness /\ ExecFairness

----------------------------------------------------------------------------
(* Properties *)

\* When Do has returned, everything that was written to the pipes has been
\* logged: cmd.Wait closes them, and comes after both copies (Do).
OutputKept == \A k \in Attempts : step[k] = "done" => unread[k] = {}

\* The process of an attempt that is over, by its timeout or by the exit of the
\* item, does not go on beside the next attempt: it is killed, and reaped unless
\* something that it has started keeps its pipes (CommandContext, Do).
ExpiredDies ==
  \A k \in Attempts :
    (over[k] /\ proc[k] = "running")
      ~> \/ proc[k] = "reaped"
         \/ proc[k] # "running" /\ "child" \in holds[k]
=============================================================================
