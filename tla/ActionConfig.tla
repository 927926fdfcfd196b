---------------------------- MODULE ActionConfig ----------------------------
(***************************************************************************)
(* The lifecycle actions of a pool as its configuration yields them         *)
(* (lifecycle/action.go, lifecycle/manager.go and the parsers of the        *)
(* plugins): how often each is retried, how long an attempt may take, how   *)
(* long the runner waits between two; and what the pool makes of it all for *)
(* a checkout that names no deadline.  Durations are counted in ticks of    *)
(* 500 ms.  What the actions do with the rest of their settings is left out.*)
(***************************************************************************)
EXTENDS Naturals

Names == {"initialize", "healthcheck", "reset"}

PostgresPlugins == {"postgres.exec", "postgres.ping", "postgres.truncate"}
RedisPlugins == {"redis.exec", "redis.ping", "redis.truncate"}
Plugins == {"noop", "exec", "http.get", "tcp.connect"} \cup PostgresPlugins \cup RedisPlugins

Settings == {"Retries", "Timeout", "Delay"}

Action == [Type : Plugins, Retries : Nat, Timeout : Nat, Delay : Nat]

\* An entry of the configuration: a type and the settings it gives, if any.
IsEntry(e) ==
  /\ e.type \in Plugins
  /\ DOMAIN e.given \subseteq Settings
  /\ \A s \in DOMAIN e.given : e.given[s] \in Nat

DefaultActionConfig == [Retries |-> 3, Timeout |-> 2, Delay |-> 1]

\* What the parsers of the plugins start from.
actionNoopParse == [Retries |-> 0, Timeout |-> 0, Delay |-> 0]
actionExecParse == [DefaultActionConfig EXCEPT !.Timeout = 10]
actionPGExecParse == [DefaultActionConfig EXCEPT !.Retries = 10]

PluginDefaults(type) ==
  IF type = "noop" THEN actionNoopParse
  ELSE IF type = "exec" THEN actionExecParse
  ELSE IF type \in PostgresPlugins THEN actionPGExecParse
  ELSE DefaultActionConfig

\* UnmarshalJSON: what is given takes the place of the default.
UnmarshalJSON(ac, e) ==
  LET Setting(s, default) == IF s \in DOMAIN e.given THEN e.given[s] ELSE default
  IN  [Type |-> e.type,
       Retries |-> Setting("Retries", ac.Retries),
       Timeout |-> Setting("Timeout", ac.Timeout),
       Delay |-> Setting("Delay", ac.Delay)]

ParseAction(e) == UnmarshalJSON(PluginDefaults(e.type), e)

\* An action that the configuration does not name is not configured.
ParseConfig(c) == [n \in DOMAIN c |-> ParseAction(c[n])]

----------------------------------------------------------------------------
(* The manager: `actions` maps the names of the configured actions to them *)

HasAction(actions, name) == name \in DOMAIN actions

\* A faulty allowance that forgets the first attempt.
AllowanceOfRetries(ac) == (ac.Delay + ac.Timeout) * ac.Retries

\* The time a run of the action may take: every attempt and a delay after each.
Allowance(ac) == (ac.Delay + ac.Timeout) * (ac.Retries + 1)

\* MaxDelay: the longest of the configured actions.
MaxDelay(actions) ==
  LET Longer(max, name) ==
        IF HasAction(actions, name) /\ Allowance(actions[name]) > max
          THEN Allowance(actions[name]) ELSE max
  IN  Longer(Longer(Longer(0, "initialize"), "healthcheck"), "reset")

\* The deadline of a checkout that names none (Pool.Checkout).
defaultCheckoutTimeout(actions) == MaxDelay(actions) + 1
=============================================================================
