---------------------------- MODULE RunnerProofs ----------------------------
(***************************************************************************)
(* Proofs about ActionRunner, for any configuration of actions, whether or  *)
(* not an action fails, hangs, has no time at all or is cancelled; and      *)
(* about the attempts of an exec.                                           *)
(***************************************************************************)
EXTENDS ExecAction, TLAPS

\* Attempts are made in order, one by one: those before the current one have
\* been begun, those after it have not, and the current one has been begun
\* when doAttempt waits for it.
InOrder ==
  /\ \A k \in Attempts : k < attempt => work[k] # "none"
  /\ \A k \in Attempts : k > attempt => work[k] = "none"
  /\ run = "select" => work[attempt] # "none"

\* What Run returns, and when.
Verdict ==
  /\ result # "none" => run \in {"returned", "crashed"}
  /\ result = "ok" => answer[attempt] = "ok" /\ work[attempt] = "ended"
  /\ result = "exceeded" => attempt = maxAttempts /\ work[attempt] # "none"

\* The time for one attempt and one delay.
Turn == config.Delay + config.Timeout

\* What has passed and what the timer still allows: a turn for each attempt that
\* is behind, and the timeout of the one that is under way.
OnTime ==
  /\ run \in {"check", "begin"} => elapsed <= (attempt - 1) * Turn
  /\ run = "select" => elapsed + timer <= (attempt - 1) * Turn + config.Timeout
  /\ run = "delay" => elapsed + timer <= (attempt - 1) * Turn
  /\ elapsed <= attempt * Turn

IInv == TypeOK /\ InOrder /\ Verdict /\ OnTime

\* In Do of an exec a copy goes on until nobody can write any more, and the
\* process is waited for when both have ended.
CopiesFirst ==
  \A k \in Attempts :
    /\ step[k] # "copying" => copiers[k] = {} /\ holds[k] = {}
    /\ \A s \in Streams : s \notin copiers[k] => holds[k] = {} /\ s \notin unread[k]

ExecIInv == IInv /\ ExecTypeOK /\ CopiesFirst
----------------------------------------------------------------------------
\* What a parser makes of an entry is an action.
LEMMA ParseActionType ==
  ASSUME NEW e, IsEntry(e)
  PROVE  ParseAction(e) \in Action
<1>1. PluginDefaults(e.type) \in [Retries : Nat, Timeout : Nat, Delay : Nat]
  BY DEF PluginDefaults, DefaultActionConfig, actionNoopParse, actionExecParse, actionPGExecParse
<1> QED
  BY <1>1 DEF ParseAction, UnmarshalJSON, IsEntry, Action

\* The allowance of a configured action is at most MaxDelay, and time for a turn
\* of each attempt.
LEMMA WithinMaxDelay ==
  ASSUME TypeOK
  PROVE  /\ Turn \in Nat
         /\ maxAttempts * Turn \in Nat
         /\ maxAttempts * Turn <= MaxDelay(actions)
         /\ MaxDelay(actions) \in Nat
<1>1. \A n \in DOMAIN actions : Allowance(actions[n]) \in Nat
  BY DEF TypeOK, Action, Allowance
<1>2. MaxDelay(actions) \in Nat /\ \A n \in DOMAIN actions : Allowance(actions[n]) <= MaxDelay(actions)
  <2> DEFINE Longer(max, n) == IF HasAction(actions, n) /\ Allowance(actions[n]) > max
                                 THEN Allowance(actions[n]) ELSE max
  <2>1. ASSUME NEW max \in Nat, NEW n
        PROVE  /\ Longer(max, n) \in Nat
               /\ Longer(max, n) >= max
               /\ n \in DOMAIN actions => Longer(max, n) >= Allowance(actions[n])
    BY <1>1 DEF HasAction
  <2> HIDE DEF Longer
  <2> DEFINE a == Longer(0, "initialize")
             b == Longer(a, "healthcheck")
             c == Longer(b, "reset")
  <2>2. a \in Nat /\ ("initialize" \in DOMAIN actions => a >= Allowance(actions["initialize"]))
    BY <2>1
  <2>3. /\ b \in Nat /\ b >= a
        /\ "healthcheck" \in DOMAIN actions => b >= Allowance(actions["healthcheck"])
    BY <2>1, <2>2
  <2>4. /\ c \in Nat /\ c >= b
        /\ "reset" \in DOMAIN actions => c >= Allowance(actions["reset"])
    BY <2>1, <2>3
  <2>5. MaxDelay(actions) = c
    BY DEF MaxDelay, Longer
  <2> QED
    BY <1>1, <2>2, <2>3, <2>4, <2>5 DEF TypeOK, Names
<1>3. config \in Action
  BY DEF TypeOK, config
<1>4. Turn \in Nat /\ maxAttempts \in Nat /\ maxAttempts * Turn = Allowance(config)
  BY <1>3 DEF Turn, maxAttempts, Allowance, Action
<1> QED
  BY <1>1, <1>2, <1>4 DEF TypeOK, config

\* One attempt more is one turn more.
LEMMA TurnByTurn ==
  ASSUME NEW n \in Nat, NEW t \in Nat
  PROVE  n * t \in Nat /\ (n + 1) * t = n * t + t
  OBVIOUS

\* An attempt that fails: Run gives up at the last one, and goes on to the next
\* one otherwise (the end of the loop of Run).
LEMMA AfterFailure ==
  ASSUME IInv, run = "select", RetryOrGiveUp, settings' = settings, elapsed' = elapsed
  PROVE  /\ attempt' \in 1 .. maxAttempts
         /\ run' \in {"delay", "returned"}
         /\ result' \in {"none", "exceeded"}
         /\ result' = "exceeded" => run' = "returned" /\ attempt' = attempt /\ attempt = maxAttempts
         /\ attempt' # attempt => attempt' = attempt + 1
         /\ timer' \in Nat
         /\ OnTime'
<1> USE DEF IInv, TypeOK
<1>1. config \in Action /\ config' = config /\ Turn' = Turn
  BY DEF config, settings, Turn
<1>2. Turn \in Nat /\ (attempt - 1) * Turn \in Nat /\ attempt * Turn = (attempt - 1) * Turn + Turn
  <2>1. Turn \in Nat /\ attempt - 1 \in Nat /\ (attempt - 1) + 1 = attempt
    BY <1>1 DEF Turn, Action, maxAttempts
  <2> QED
    BY <2>1, TurnByTurn
<1>3. attempt' = attempt + 1 => attempt' * Turn = attempt * Turn + Turn /\ (attempt' - 1) * Turn = attempt * Turn
  <2>1. attempt \in Nat
    BY <1>1 DEF Action, maxAttempts
  <2> QED
    BY <2>1, <1>2, TurnByTurn
<1>4. CASE attempt > config.Retries
  BY <1>1, <1>4 DEF RetryOrGiveUp, RetryUpTo, Return, Verdict, maxAttempts, Action, OnTime
<1>5. CASE ~(attempt > config.Retries)
  <2>1. run' = "delay" /\ attempt' = attempt + 1 /\ timer' = config.Delay /\ result' = result
    BY <1>5 DEF RetryOrGiveUp, RetryUpTo
  <2>2. attempt' \in 1 .. maxAttempts /\ result' = "none" /\ timer' \in Nat
    BY <1>1, <1>5, <2>1 DEF Verdict, maxAttempts, Action
  <2>3. elapsed + timer' <= attempt * Turn
    BY <1>1, <1>2, <2>1 DEF OnTime, Turn, Action
  <2>4. OnTime'
    BY <1>1, <1>2, <1>3, <2>1, <2>2, <2>3 DEF OnTime
  <2> QED
    BY <2>1, <2>2, <2>4
<1> QED
  BY <1>4, <1>5

\* The state Run starts in.
LEMMA InitInv == Init => IInv
<1> SUFFICES ASSUME Init PROVE IInv
  OBVIOUS
<1>1. PICK c \in Configurations : actions = ParseConfig(c)
  BY DEF Init
<1>2. /\ DOMAIN actions = DOMAIN c /\ DOMAIN c \subseteq Names
      /\ \A n \in DOMAIN c : actions[n] = ParseAction(c[n]) /\ IsEntry(c[n])
      /\ \A n \in DOMAIN c : actions[n].Retries < MaxAttempts
  BY <1>1, RunnerAssumption DEF ParseConfig
<1>3. \A n \in DOMAIN actions : actions[n] \in Action
  BY <1>2, ParseActionType
<1>4. name \in DOMAIN actions /\ config \in Action /\ config.Retries < MaxAttempts
  BY <1>2, <1>3 DEF Init, HasAction, config
<1>5. maxAttempts \in Nat /\ attempt \in 1 .. maxAttempts /\ maxAttempts <= MaxAttempts /\ 1 \in Attempts
  BY <1>4, RunnerAssumption DEF Init, Attempts, maxAttempts, Action
<1>6. TypeOK
  BY <1>2, <1>3, <1>4, <1>5 DEF Init, TypeOK
<1>7. ~\E k \in Attempts : k < attempt
  BY RunnerAssumption DEF Init, Attempts
<1>8. InOrder /\ Verdict
  BY <1>7 DEF Init, InOrder, Verdict
<1>9. OnTime
  <2>1. Turn \in Nat
    BY <1>6, WithinMaxDelay
  <2> QED
    BY <2>1 DEF Init, OnTime
<1> QED
  BY <1>6, <1>8, <1>9 DEF IInv

\* Every step keeps the types, the order of the attempts, the verdict and the time.
LEMMA StepInv == IInv /\ [Next]_vars => IInv'
<1> SUFFICES ASSUME IInv, [Next]_vars PROVE IInv'
  OBVIOUS
<1> USE RunnerAssumption DEF IInv, TypeOK, InOrder, Verdict, Attempts
<1>1. /\ config \in Action /\ Turn \in Nat
      /\ attempt \in Nat /\ attempt - 1 \in Nat /\ maxAttempts \in Nat
      /\ (attempt - 1) * Turn \in Nat
      /\ attempt * Turn = (attempt - 1) * Turn + Turn
  <2>1. config \in Action /\ Turn \in Nat
    BY WithinMaxDelay DEF config
  <2>2. attempt \in Nat /\ attempt - 1 \in Nat /\ maxAttempts \in Nat /\ (attempt - 1) + 1 = attempt
    BY <2>1 DEF Action, maxAttempts
  <2> QED
    BY <2>1, <2>2, TurnByTurn
<1>2. settings' = settings
  BY DEF Next, RunStep, RunnerStep, DoStep, Check, BeginAttempt, Answer, TakeAnswer, AttemptOver,
         Delayed, AttemptExpires, Tick, Cancel, AnswerDropped, DialFails, DoReturns, vars
<1>3. actions' = actions /\ name' = name /\ config' = config /\ maxAttempts' = maxAttempts /\ Turn' = Turn
  BY <1>2 DEF settings, config, maxAttempts, Turn
<1>4. CASE Check
  BY <1>1, <1>3, <1>4 DEF Check, Return, OnTime, clock
<1>5. CASE BeginAttempt
  BY <1>1, <1>3, <1>5 DEF BeginAttempt, OnTime, Action
<1>6. CASE Answer
  <2>1. CASE answer[attempt] = "ok"
    BY <1>1, <1>3, <1>6, <2>1 DEF Answer, TakeAnswer, Return, OnTime
  <2>2. CASE answer[attempt] # "ok"
    <3>1. /\ attempt \in Attempts /\ UNCHANGED <<settings, cancelled, answer, elapsed>>
          /\ work' = [work EXCEPT ![attempt] = "ended"] /\ over' = [over EXCEPT ![attempt] = TRUE]
      BY <1>1, <1>6 DEF Answer, TakeAnswer
    <3>2. /\ attempt' \in 1 .. maxAttempts
          /\ run' \in {"delay", "returned"}
          /\ result' \in {"none", "exceeded"}
          /\ result' = "exceeded" => run' = "returned" /\ attempt' = attempt /\ attempt = maxAttempts
          /\ attempt' # attempt => attempt' = attempt + 1
          /\ timer' \in Nat
          /\ OnTime'
      BY <1>6, <2>2, <3>1, AfterFailure DEF Answer, TakeAnswer
    <3>3. TypeOK'
      BY <1>1, <1>3, <3>1, <3>2
    <3>4. InOrder'
      BY <1>1, <3>1, <3>2, SMTT(30)
    <3>5. Verdict'
      BY <1>1, <1>3, <3>1, <3>2
    <3> QED
      BY <3>2, <3>3, <3>4, <3>5
  <2> QED
    BY <2>1, <2>2
<1>7. CASE AttemptOver
  <2>1. CASE cancelled
    BY <1>1, <1>3, <1>7, <2>1 DEF AttemptOver, Return, OnTime
  <2>2. CASE ~cancelled
    BY <1>2, <1>3, <1>7, <2>2, AfterFailure DEF AttemptOver
  <2> QED
    BY <2>1, <2>2
<1>8. CASE Delayed
  BY <1>1, <1>3, <1>8 DEF Delayed, Return, OnTime, clock
<1>9. CASE AttemptExpires
  BY <1>1, <1>3, <1>9 DEF AttemptExpires, OnTime, clock
<1>10. CASE Tick
  <2>1. config.Timeout \in Nat /\ config.Timeout <= Turn
    BY <1>1 DEF Turn, Action
  <2>2. /\ elapsed' = elapsed + 1 /\ timer' = timer - 1
        /\ timer \in Nat /\ timer > 0 /\ elapsed \in Nat
        /\ UNCHANGED <<run, attempt, result, cancelled, over, work, answer>>
        /\ run \in {"delay", "select"}
    BY <1>10 DEF Tick
  <2>3. elapsed + timer <= attempt * Turn
    BY <1>1, <1>10, <2>1 DEF Tick, OnTime
  <2>4. OnTime'
    <3>1. elapsed' + timer' = elapsed + timer /\ elapsed' <= elapsed + timer
      BY <2>2
    <3>2. /\ run = "select" => elapsed' + timer' <= (attempt - 1) * Turn + config.Timeout
          /\ run = "delay" => elapsed' + timer' <= (attempt - 1) * Turn
      BY <3>1 DEF OnTime
    <3>3. elapsed' <= attempt * Turn
      <4>1. attempt * Turn \in Nat /\ elapsed' \in Nat /\ elapsed + timer \in Nat
        BY <1>1, <2>2
      <4> QED
        BY <4>1, <3>1, <2>3
    <3>4. attempt' = attempt /\ run' = run
      BY <2>2
    <3> HIDE DEF IInv, TypeOK, InOrder, Verdict
    <3> QED
      BY <1>3, <2>2, <3>2, <3>3, <3>4 DEF OnTime
  <2>5. timer' \in Nat /\ elapsed' \in Nat
    BY <2>2
  <2>6. TypeOK'
    BY <1>3, <2>2, <2>5
  <2>7. InOrder' /\ Verdict'
    BY <1>3, <2>2
  <2> QED
    BY <2>4, <2>6, <2>7
<1>11. CASE Cancel
  BY <1>1, <1>3, <1>11 DEF Cancel, OnTime, clock
<1>12. ASSUME NEW k \in Attempts, AnswerDropped(k) PROVE IInv'
  BY <1>1, <1>3, <1>12 DEF AnswerDropped, OnTime, clock
<1>13. ASSUME NEW k \in Attempts, DialFails(k) PROVE IInv'
  BY <1>1, <1>3, <1>13 DEF DialFails, OnTime, clock
<1>14. ASSUME NEW k \in Attempts, NEW a \in Outcomes, DoReturns(k, a) PROVE IInv'
  BY <1>1, <1>3, <1>14 DEF DoReturns, Outcomes, OnTime, clock
<1>15. CASE UNCHANGED vars
  BY <1>1, <1>3, <1>15 DEF vars, OnTime, clock
<1> QED
  BY <1>4, <1>5, <1>6, <1>7, <1>8, <1>9, <1>10, <1>11, <1>12, <1>13, <1>14, <1>15
  DEF Next, RunStep, RunnerStep, DoStep

----------------------------------------------------------------------------
\* The inductive invariant of a run of a lifecycle action.
THEOREM RunnerInvariance == Spec => []IInv
  BY InitInv, StepInv, PTL DEF Spec

\* A run succeeds only if its last attempt does: the late answer of an attempt
\* that timed out is never taken for that of another (doAttempt).
THEOREM NoLateAnswer == Spec => []LateAnswersIgnored
<1>1. IInv => LateAnswersIgnored
  BY DEF IInv, InOrder, Verdict, LateAnswersIgnored
<1> QED
  BY <1>1, RunnerInvariance, PTL

\* Run gives up only after Retries + 1 attempts (Run).
THEOREM AllAttempts == Spec => []AllAttemptsMade
<1>1. IInv => AllAttemptsMade
  BY RunnerAssumption
  DEF IInv, TypeOK, InOrder, Verdict, AllAttemptsMade, Attempts, maxAttempts, config, Action
<1> QED
  BY <1>1, RunnerInvariance, PTL

\* A run of any configured action ends before a checkout with the default timeout
\* does that began when it began (MaxDelay, defaultCheckoutTimeout).
THEOREM EndsInTime == Spec => []RunInTime
<1>1. IInv => RunInTime
  <2> SUFFICES ASSUME IInv PROVE RunInTime
    OBVIOUS
  <2>1. /\ Turn \in Nat /\ maxAttempts * Turn \in Nat
        /\ maxAttempts * Turn <= MaxDelay(actions) /\ MaxDelay(actions) \in Nat
    BY WithinMaxDelay DEF IInv
  <2>2. attempt \in Nat /\ maxAttempts \in Nat /\ attempt <= maxAttempts /\ elapsed \in Nat
    BY DEF IInv, TypeOK, maxAttempts, config, Action
  <2>3. attempt * Turn <= maxAttempts * Turn
    <3>1. maxAttempts - attempt \in Nat
      BY <2>2
    <3>2. (maxAttempts - attempt) * Turn \in Nat
      BY <3>1, <2>1, TurnByTurn
    <3> QED
      BY <3>2, <2>1, <2>2
  <2> QED
    BY <2>1, <2>2, <2>3 DEF IInv, OnTime, RunInTime, defaultCheckoutTimeout
<1> QED
  BY <1>1, RunnerInvariance, PTL

----------------------------------------------------------------------------
(* The attempts of an exec *)

\* A run with processes is a run: what a process does changes nothing of the
\* runner, and Do returns like any other.
LEMMA ExecStepRuns == [ExecNext]_<<vars, execVars>> => [Next]_vars
<1> SUFFICES ASSUME [ExecNext]_<<vars, execVars>> PROVE [Next]_vars
  OBVIOUS
<1>1. CASE RunStep
  BY <1>1 DEF Next
<1>2. ASSUME NEW k \in Attempts, config.Type = "exec", ExecStep(k) PROVE [Next]_vars
  <2>1. Outcomes = {"ok", "error"}
    BY <1>2 DEF Outcomes
  <2>2. CASE StartFails(k)
    BY <2>1, <2>2 DEF StartFails, Next, DoStep
  <2>3. CASE Reaped(k)
    BY <2>1, <2>3 DEF Reaped, Next, DoStep
  <2> QED
    BY <1>2, <2>2, <2>3 DEF ExecStep, DoExec, Start, Copied, Kill, ProcessEnds, Copy, Write, LetsGo
<1>3. ASSUME NEW k \in Attempts, DoStep(k) PROVE [Next]_vars
  BY <1>3 DEF Next
<1>4. CASE UNCHANGED <<vars, execVars>>
  BY <1>4
<1> QED
  BY <1>1, <1>2, <1>3, <1>4 DEF ExecNext

\* So all of the above holds of it as well: ExecAction implements ActionRunner.
THEOREM ExecIsRun == ExecSpec => Spec
  BY ExecStepRuns, PTL DEF ExecSpec, Spec, ExecInit

\* Every step of an exec keeps the order of copies and wait.
LEMMA ExecStepInv ==
  ASSUME ExecTypeOK, CopiesFirst, [ExecNext]_<<vars, execVars>>
  PROVE  ExecTypeOK' /\ CopiesFirst'
<1> USE DEF ExecTypeOK, CopiesFirst, Streams
<1>1. CASE UNCHANGED execVars
  BY <1>1 DEF execVars
<1>2. ASSUME NEW k \in Attempts, ExecStep(k) PROVE ExecTypeOK' /\ CopiesFirst'
  <2>1. CASE StartFails(k)
    BY <2>1 DEF StartFails
  <2>2. CASE Start(k)
    BY <2>2 DEF Start
  <2>3. CASE Copied(k)
    BY <2>3 DEF Copied
  <2>4. CASE Reaped(k)
    BY <2>4 DEF Reaped
  <2>5. ASSUME NEW p \in {"exited", "failed", "killed"}, ProcessEnds(k, p)
        PROVE  ExecTypeOK' /\ CopiesFirst'
    BY <2>5 DEF ProcessEnds
  <2>6. ASSUME NEW s \in Streams, Copy(k, s) PROVE ExecTypeOK' /\ CopiesFirst'
    BY <2>6 DEF Copy
  <2>7. ASSUME NEW s \in Streams, Write(k, s) PROVE ExecTypeOK' /\ CopiesFirst'
    BY <2>7 DEF Write
  <2>8. ASSUME NEW who, LetsGo(k, who) PROVE ExecTypeOK' /\ CopiesFirst'
    BY <2>8 DEF LetsGo
  <2> QED
    BY <1>2, <2>1, <2>2, <2>3, <2>4, <2>5, <2>6, <2>7, <2>8 DEF ExecStep, DoExec, Kill
<1> QED
  BY <1>1, <1>2 DEF ExecNext

\* The inductive invariant of a run of an exec.
THEOREM ExecInvariance == ExecSpec => []ExecIInv
<1>1. ExecInit => ExecTypeOK /\ CopiesFirst
  BY DEF ExecInit, ExecTypeOK, CopiesFirst
<1>2. ExecTypeOK /\ CopiesFirst /\ [ExecNext]_<<vars, execVars>> => (ExecTypeOK /\ CopiesFirst)'
  BY ExecStepInv
<1>3. ExecIInv <=> IInv /\ ExecTypeOK /\ CopiesFirst
  BY DEF ExecIInv
<1> QED
  BY <1>1, <1>2, <1>3, ExecIsRun, RunnerInvariance, PTL DEF ExecSpec

\* When Do of an exec has returned, all that was written has been logged: the
\* pipes are closed by cmd.Wait, after the copies (Do, copyLogs).
THEOREM NoOutputLost == ExecSpec => []OutputKept
<1>1. ExecIInv => OutputKept
  BY DEF ExecIInv, ExecTypeOK, CopiesFirst, OutputKept
<1> QED
  BY <1>1, ExecInvariance, PTL
=============================================================================
