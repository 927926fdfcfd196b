---------------------------- MODULE ActionRunner ----------------------------
(***************************************************************************)
(* One run of a lifecycle action (lifecycle/runner.go): attempts, each in a *)
(* goroutine of its own with a deadline, retries after a delay, and the     *)
(* cancellation of the item's context.  PoolItem takes such a run as one    *)
(* step that ends in a success or in a failure.                             *)
(*                                                                          *)
(* An attempt answers on an unbuffered channel of its own.  The runner and  *)
(* the goroutine of the attempt both select between that channel and the    *)
(* end of the attempt's context: once the context has ended no answer is    *)
(* passed any more, since whoever comes second does not wait.               *)
(*                                                                          *)
(* Time passes in Tick only, and not while the runner has something to do:  *)
(* timers fire when they are due, and the code itself takes no time.        *)
(***************************************************************************)
EXTENDS ActionConfig

CONSTANTS Configurations,  \* the "actions" sections of pools to look at
          MaxAttempts,     \* bound: the most attempts any of their actions has
          MayCancel        \* whether the item may exit during the run

ASSUME RunnerAssumption ==
  /\ MaxAttempts \in Nat
  /\ MayCancel \in BOOLEAN
  /\ \A c \in Configurations :
       /\ DOMAIN c \subseteq Names
       /\ \A n \in DOMAIN c : /\ IsEntry(c[n])
                              /\ ParseAction(c[n]).Retries < MaxAttempts

VARIABLES
  actions,     \* the actions of the item's containerManager; never changes
  name,        \* the one that is run; never changes
  run,         \* where the goroutine of Run stands
  attempt,     \* the number of the current attempt
  result,      \* what Run has returned
  cancelled,   \* ar.ctx, the context of the item, is done
  over,        \* over[k]: the context of attempt k is done
  work,        \* work[k]: where the goroutine of attempt k stands
  answer,      \* answer[k]: what Do has returned to it
  timer,       \* ticks left until the attempt's deadline, or of the delay
  elapsed      \* ticks since Run was called

settings == <<actions, name>>
clock == <<timer, elapsed>>
vars == <<settings, run, attempt, result, cancelled, over, work, answer, clock>>

config == actions[name]
maxAttempts == config.Retries + 1
Attempts == 1 .. MaxAttempts

(***************************************************************************)
(* run:   "check"    about to look at ar.ctx                                *)
(*        "begin"    about to start an attempt                              *)
(*        "select"   in the select of doAttempt                             *)
(*        "delay"    in the select between two attempts                     *)
(*        "returned"                                                        *)
(*        "crashed"  not Run alone: the program is gone                     *)
(* work:  "none", "doing" (in Do), "select" (has an answer), "ended"        *)
(***************************************************************************)
TypeOK ==
  /\ DOMAIN actions \subseteq Names
  /\ \A n \in DOMAIN actions : actions[n] \in Action
  /\ name \in DOMAIN actions
  /\ run \in {"check", "begin", "select", "delay", "returned", "crashed"}
  /\ attempt \in 1 .. maxAttempts
  /\ maxAttempts <= MaxAttempts
  /\ result \in {"none", "ok", "exceeded", "cancelled"}
  /\ cancelled \in BOOLEAN
  /\ over \in [Attempts -> BOOLEAN]
  /\ work \in [Attempts -> {"none", "doing", "select", "ended"}]
  /\ answer \in [Attempts -> {"none", "ok", "error"}]
  /\ timer \in Nat /\ elapsed \in Nat

\* DoHealthcheck, DoInitialize or DoReset of an action the item has seen to be
\* configured; the run begins.
Init ==
  /\ actions \in {ParseConfig(c) : c \in Configurations}
  /\ name \in {n \in Names : HasAction(actions, n)}
  /\ run = "check"
  /\ attempt = 1
  /\ result = "none"
  /\ cancelled = FALSE
  /\ over = [k \in Attempts |-> FALSE]
  /\ work = [k \in Attempts |-> "none"]
  /\ answer = [k \in Attempts |-> "none"]
  /\ timer = 0
  /\ elapsed = 0

----------------------------------------------------------------------------
(* The runner *)

Return(r) == run' = "returned" /\ result' = r

\* The head of the loop: Run returns if the item has exited.
Check ==
  /\ run = "check"
  /\ IF cancelled THEN Return("cancelled") ELSE run' = "begin" /\ UNCHANGED result
  /\ UNCHANGED <<settings, attempt, cancelled, over, work, answer, clock>>

\* doAttempt: a context with the timeout of the action, a goroutine.  A timeout
\* of zero is over at once.
BeginAttempt ==
  /\ run = "begin"
  /\ run' = "select"
  /\ work' = [work EXCEPT ![attempt] = "doing"]
  /\ over' = [over EXCEPT ![attempt] = config.Timeout = 0 \/ cancelled]
  /\ timer' = config.Timeout
  /\ UNCHANGED <<settings, attempt, result, cancelled, answer, elapsed>>

\* After a failed attempt: a delay and the next one, if there was none after
\* this many retries.
RetryUpTo(retries) ==
  IF attempt > retries
    THEN Return("exceeded") /\ UNCHANGED <<attempt, timer>>
    ELSE /\ run' = "delay"
         /\ attempt' = attempt + 1
         /\ timer' = config.Delay
         /\ UNCHANGED result

\* A faulty runner that gives up one attempt early.
RetryOrGiveUpEarly == IF attempt >= config.Retries THEN RetryUpTo(0) ELSE RetryUpTo(attempt)

\* A faulty runner that makes one attempt too many.
RetryOnceMore == RetryUpTo(config.Retries + 1)

RetryOrGiveUp == RetryUpTo(config.Retries)

\* The attempt k answers before the current context ends, which doAttempt then
\* ends.
TakeAnswer(k) ==
  /\ run = "select"
  /\ work[k] = "select"
  /\ ~over[attempt]
  /\ work' = [work EXCEPT ![k] = "ended"]
  /\ over' = [over EXCEPT ![attempt] = TRUE]
  /\ IF answer[k] = "ok" THEN Return("ok") /\ UNCHANGED <<attempt, timer>> ELSE RetryOrGiveUp
  /\ UNCHANGED <<settings, cancelled, answer, elapsed>>

\* A faulty runner with one channel for all attempts, that takes a late answer.
AnswerOfAny == \E k \in 1 .. attempt : TakeAnswer(k)

\* doAttempt makes a channel for each attempt.
Answer == TakeAnswer(attempt)

\* A faulty doAttempt that does not look at the context of the attempt.
AttemptOverUnseen == FALSE /\ UNCHANGED vars

\* The context of the attempt ends first: a failed attempt, or the exit of the
\* item if that has ended it or happens before doAttempt returns.
AttemptOver ==
  /\ run = "select"
  /\ over[attempt]
  /\ IF cancelled THEN Return("cancelled") /\ UNCHANGED <<attempt, timer>> ELSE RetryOrGiveUp
  /\ UNCHANGED <<settings, cancelled, over, work, answer, elapsed>>

\* The delay is over, or the item exits; if both, either may be seen.
Delayed ==
  /\ run = "delay"
  /\ \/ timer = 0 /\ run' = "check" /\ UNCHANGED result
     \/ cancelled /\ Return("cancelled")
  /\ UNCHANGED <<settings, attempt, cancelled, over, work, answer, clock>>

----------------------------------------------------------------------------
(* The goroutine of an attempt *)

\* Do returns with a, in time or late.
DoReturns(k, a) ==
  /\ work[k] = "doing"
  /\ work' = [work EXCEPT ![k] = "select"]
  /\ answer' = [answer EXCEPT ![k] = a]
  /\ UNCHANGED <<settings, run, attempt, result, cancelled, over, clock>>

\* What Do may return: a noop cannot fail, a tcp.connect not return an error.
Outcomes == IF config.Type \in {"noop", "tcp.connect"} THEN {"ok"} ELSE {"ok", "error"}

\* A tcp.connect that fails: Do closes the connection it does not have, and the
\* panic of its goroutine ends the program.
DialFails(k) ==
  /\ config.Type = "tcp.connect"
  /\ work[k] = "doing"
  /\ run' = "crashed"
  /\ work' = [j \in Attempts |-> IF work[j] = "none" THEN "none" ELSE "ended"]
  /\ UNCHANGED <<settings, attempt, result, cancelled, over, answer, clock>>

\* A faulty goroutine that waits for the runner to take its answer, which it
\* does not do any more once it has begun another attempt or returned.
AnswerDroppedNever(k) ==
  /\ work[k] = "select"
  /\ run = "select" /\ attempt = k
  /\ UNCHANGED vars

\* The context has ended: nobody takes the answer, and the goroutine ends.
AnswerDropped(k) ==
  /\ work[k] = "select"
  /\ over[k]
  /\ work' = [work EXCEPT ![k] = "ended"]
  /\ UNCHANGED <<settings, run, attempt, result, cancelled, over, answer, clock>>

----------------------------------------------------------------------------
(* Time, and the item *)

\* Half a second passes while the runner waits, for Do or for its delay.
Tick ==
  /\ \/ run = "delay"
     \/ run = "select" /\ ~over[attempt] /\ work[attempt] = "doing"
  /\ ~cancelled
  /\ timer > 0
  /\ timer' = timer - 1
  /\ elapsed' = elapsed + 1
  /\ UNCHANGED <<settings, run, attempt, result, cancelled, over, work, answer>>

\* The timeout of the current attempt; or the cancellation reaches its context.
AttemptExpires ==
  /\ run = "select"
  /\ timer = 0 \/ cancelled
  /\ ~over[attempt]
  /\ over' = [over EXCEPT ![attempt] = TRUE]
  /\ UNCHANGED <<settings, run, attempt, result, cancelled, work, answer, clock>>

\* The item exits (runMainLoop cancels i.ctx).
Cancel ==
  /\ MayCancel
  /\ run \notin {"returned", "crashed"}
  /\ ~cancelled
  /\ cancelled' = TRUE
  /\ UNCHANGED <<settings, run, attempt, result, over, work, answer, clock>>

----------------------------------------------------------------------------
RunnerStep == Check \/ BeginAttempt \/ Answer \/ AttemptOver \/ Delayed

\* Everything but Do.
RunStep ==
  \/ RunnerStep \/ AttemptExpires \/ Tick \/ Cancel
  \/ \E k \in Attempts : AnswerDropped(k)

DoStep(k) == DialFails(k) \/ \E a \in Outcomes : DoReturns(k, a)

Next == RunStep \/ \E k \in Attempts : DoStep(k)

Spec == Init /\ [][Next]_vars

\* The runner runs, time passes and timers fire.  Do need not ever return: only
\* some actions look at the context they are given.
Fairness ==
  /\ WF_vars(RunnerStep)
  /\ WF_vars(AttemptExpires)
  /\ WF_vars(Tick)
  /\ \A k \in Attempts : WF_vars(AnswerDropped(k))

FairSpec == Spec /\ Fairness

----------------------------------------------------------------------------
(* Properties *)

\* A run succeeds only if its last attempt does: what an attempt that timed out
\* still answers, however late, is not taken for an answer of a later one
\* (doAttempt makes a channel for each).
LateAnswersIgnored ==
  result = "ok" => answer[attempt] = "ok" /\ \A k \in Attempts : k > attempt => work[k] = "none"

\* Run gives up only when the action was tried once and retried Retries times
\* (README.md:154).
AllAttemptsMade ==
  result = "exceeded" => \A k \in 1 .. maxAttempts : work[k] # "none"

\* No run takes longer than MaxDelay makes of the configuration, whatever
\* becomes of its attempts.  So a client that checks out while an item is being
\* reset, with the default timeout, is still there when the reset ends
\* (defaultCheckoutTimeout of pool.go).
RunInTime == elapsed < defaultCheckoutTimeout(actions)

\* Run returns, even if no attempt ever answers, if a tcp.connect does not end the
\* program first.
RunReturns == <>(run \in {"returned", "crashed"})

\* No goroutine waits for ever with an answer that nobody takes: not after a
\* timeout, not after a cancellation, not after Run has returned.
AnswerersEnd == \A k \in Attempts : work[k] = "select" ~> work[k] = "ended"
=============================================================================
