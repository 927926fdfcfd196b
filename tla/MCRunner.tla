------------------------------ MODULE MCRunner ------------------------------
(***************************************************************************)
(* The configurations that the runs of ActionRunner and ExecAction look at. *)
(***************************************************************************)
EXTENDS RunnerProofs

Plain == [x \in {} |-> 0]

\* An action with the default number of retries; a migration, given one retry and
\* little time, or no delay at all; a tcp.connect; a noop that is given its time,
\* and one as README.md:164 recommends it, which has none.
RetryConfigurations ==
  LET brief == [s \in {"Retries", "Timeout"} |-> 1]
      prompt == [s \in {"Retries", "Delay"} |-> IF s = "Retries" THEN 1 ELSE 0]
      patient == [s \in {"Timeout"} |-> 1]
  IN  {[n \in {"healthcheck", "initialize"} |->
          IF n = "healthcheck" THEN [type |-> "http.get", given |-> Plain]
                               ELSE [type |-> "exec", given |-> brief]],
       [n \in {"healthcheck", "initialize", "reset"} |->
          IF n = "healthcheck" THEN [type |-> "tcp.connect", given |-> prompt]
          ELSE [type |-> "noop", given |-> IF n = "initialize" THEN patient ELSE Plain]]}
=============================================================================
