# Verification of ephemerald

ephemerald keeps pools of short-lived Docker containers ready for tests: a
client checks a container out over HTTP, uses it and returns it; the server
resets it or replaces it. This directory holds TLA+ models of the Go code in
`src/`, the TLC runs that check them on small instances, and TLAPS proofs for
every value of the constants.

## The system

Everything happens in goroutines that talk through unbuffered channels (one
channel has a capacity). There is no persistent state.

| Part | State it keeps | Operations | Talks to |
|---|---|---|---|
| pool main loop, `pool.go` | `items`, where `run()` stands, `shutdownch`, `donech`, `initch` | events of items (ready, returned, exit), a new item, a stop; `CheckoutWith`, `Return`, `Stop`, `WaitReady` by others | requests to the spawner, puts to the buffer, calls of its items |
| item spawner, `spawner.go` | `pending`, `needed`, the queue `requestch` (capacity 5) | `request`, `stop`, `next`; a result of a creation | offers items on `nextch`, starts creations |
| ready buffer, `buffer.go` | `buf` | `put`, `get`, `stop` | clients of the pool |
| pool item, `item.go` | where `run()` stands, `exited`, the wait group of its lifecycle functions | `join`, `start`, `reset`, `kill`; events of the container and of lifecycle functions | ready and exit events to the pool, `start` and `stop` to the container |
| container, `container.go` | `startOnce`, `stopOnce`, goroutines of `doStart`, `doStop`, `monitor` | `start`, `stop`, events of the Docker daemon | one event at a time to the item |
| lifecycle runner, `lifecycle/runner.go` | number of the attempt, a context and a channel per attempt | an attempt answers, times out, is cancelled | the item's lifecycle function |
| pool set, `poolset.go` | the pools by name | batch checkout, return, `WaitReady`, `Stop` | one goroutine per pool |
| HTTP server and client, `net/` | none beyond the pool set | four handlers | the pool set |
| program, `ephemerald/main.go` | none | creation of everything, signals, the order of the stop | pool set, server, user interface |
| user interface, `ui/` | a table of pools and containers | events from everywhere | the terminal |
| lifecycle manager, `lifecycle/manager.go` | the configured actions | parsing, `Has...`, `Do...`, `MaxDelay` | the runner; `Checkout` of the pool for its timeout |
| exec action, `lifecycle/action_exec.go` | a process, two pipes and the goroutines that copy them | `Do` | the operating system; the runner through the context |
| Docker adapter, `adapter.go` | a reference to the image | `ensureImage`, `createContainer`, calls of the daemon | the Docker daemon |
| configuration, parameters, other actions | none | parsing, templates, protocols | |

What is hard here, and what each part has to get right:

* **Pool and spawner.** The spawner forgets what is left of a request when the
  next one arrives, requests queue up and are computed from `len(items)` alone,
  and the two goroutines send to each other. The pool must never be left with
  less than its size and nothing on the way (`SpawnCovers`), grow without bound
  (`OvershootBound`) or be stuck (`MaintainsSizeUnlessWedged`, `WedgedUnderLoad`, `MaintainsSize`).
* **Stop.** It arrives while items are being created, made ready, used and
  returned. It must end (`DrainTerminates`, `StopAnswered`), which it does unless the
  pool hangs in one of three ways (`StopAnsweredUnlessHung`); not too early
  (`DoneMeansDown`), and without a panic (`NoPutAfterStop`).
* **Leases.** An item travels between lifecycle functions, buffer and clients.
  It must not be in two places (`InOnePlace`) and not get lost
  (`ReturnedComesBack`, `CheckoutAnswered`).
* **Items.** Kills, resets, container events and the ends of lifecycle functions
  arrive in any order, also after the exit. The pool needs one exit, last, and
  not more ready events than it asked for (`KeepsContract`); no goroutine of the
  item may stay behind (`NobodyLeftBehind`, `ExitEnds`); a kill must work
  (`KillOfRunningExits`, `KillExits`); functions must not overlap
  (`OneFunctionAtATime`).
* **Batches.** A checkout of several pools runs a goroutine for each, under one
  context that may end at any point. What it has got when another part fails must
  go back (`Conserved`), clients see all of a batch or nothing (`KeepsLease`), a
  request must end when its client is gone (`CancelledEnds`) or the pools are stopped
  (`RequestsEnd`), and in any case (`BatchAnswered`). `WaitReady`, a close and a failed
  creation must come to an end (`ClosingEnds`), and `WaitReady` must
  not call ready what is not (`ReadyMeansReady`, a part of `IInv`).
* **Display.** Events of one row come from two goroutines, go through four channels
  and two maps, and reach the screen in frames that another goroutine shows. The row
  must end up as the events say (`RowSettles`) and not go back (`NeverBack`), and
  neither a full channel, an application that hangs nor a screen that never comes
  may hold up the pools (`EmittersGoOn`) or the end of the program (`StopEnds`).
* **The image.** A pull may end without an error and without the image that
  containers are created from. The pool then creates for ever in vain, and must
  still answer those who stop it (`StopAnsweredUnlessHung`).
* **Attempts.** A timed-out attempt goes on and answers late
  (`LateAnswersIgnored`, `AnswerersEnd`), retries are counted
  (`AllAttemptsMade`, `RunReturns`), and a client that waits with the default
  timeout must not give up before the run has (`RunInTime`).
* **Commands.** An exec has a process, its copies and whatever the process leaves
  behind. None of the output may be lost (`OutputKept`), and a command that is out of
  time must not go on beside the next one (`ExpiredDies`).

`PROJECT.json` lists every hazard at its line with the properties that cover it.

## Modules

    Spawner ------> Backlog ------> BacklogProofs
       |               ^                  | its theorems, for a pool (Counted)
       |               | refines          v
       |               | (KeepsBacklog)
       +-------------> Pool -------> PoolProofs
                       ^
    ItemContract ------+
         ^
         | refines (KeepsContract)
      PoolItem ------> ItemProofs

    ActionConfig ---> ActionRunner <--- refines (ExecIsRun) --- ExecAction
                                                                    |
                                         MCRunner <--- RunnerProofs <+

    BatchLease <--- refines (KeepsLease) --- PoolSet ---> PoolSetProofs ---> MCSet

    Display -------> DisplayProofs

* `Spawner` declares the spawner's state and one action for each step of its
  goroutine and each call. The actions constrain the spawner's variables only.
  `pending` counts the goroutines that `fill` starts. `sp` says where the
  goroutine stands; `send` and `drainSend` are the blocked sends on `nextch`.
* `Backlog` composes it with the main loop reduced to a count of items: what a
  pool promises about its size. `pool = "priming"` is the blocked send in
  `spawner.request`.
* `ItemContract` is the abstract specification of an item: phases, the ready
  events it still owes (`owed`), whether a kill was asked for. An exit may come
  at any time and need never come.
* `Pool` is the whole pool: spawner, items with identity under the contract, the
  buffer, clients (`cl`, `has`), and callers of `WaitReady` and `Stop` (`monitorCtx` is
  one). The containers of `Items` are made one after the other (`IsNext`): which id one gets
  makes no difference. `Deaf` are those that may outlive a kill, and `Hung` says in which ways a
  pool may never answer a `Stop`. `image` says whether the image that containers are created from is there; no
  creation succeeds without it. A
  send on an unbuffered channel and its receive are one step. `BacklogOfPool`
  is its refinement mapping: `nitems` is the cardinality of `items`. The buffer's
  goroutine is always back in its select, so `put` is part of `ItemReady`.
* `PoolItem` is one item in detail: its goroutine (`mpc`), the goroutines blocked
  in a send on `item.events` (`inbox`, counted by event), the running lifecycle
  functions (`tasks`), the goroutines of the container (`dstart`, `dstop`, `mon`)
  and the container as the daemon has it (`cont`, `exitq`). Its environment is
  the pool. `Contract` maps it to `ItemContract`.
* `BatchLease` is the abstract specification of checkouts over several pools: a
  request names pools, is granted one item of each at once, or is refused.
* `PoolSet` is `poolset.go` with the HTTP handlers above it, their clients, and the
  creation and stop of everything by `main.go` and the wait for the pools by the tests
  (`server` is where the one goroutine stands that does this). `call[c]` is the handler of client
  `c`, `fork[c][p]` its goroutine for pool `p` and `carry[c][p]` what that goroutine is
  sending to the loop over the results; `set[c]` is the `params.Set`, of the handler
  and then of the client. A pool is reduced to what `Pool` shows of it: `ready` and
  `busy` items, and where its initialization and its stop stand, or in which of the ways
  of `Hung` it hangs (`"stuck"`, `"wedged"`, `"lingering"`). A return blocks where
  `pool.Return` does (`Receives`), and makeParams may fail after an item was taken
  (`HandBack`). `expired` is the end of the context that the pools were given: it makes
  every `WaitReady` return an error and every `monitorCtx` call `Stop`. `Verdict` and
  `Lent` are what clients see of it all and map it to `BatchLease`.
* `ActionConfig` has no state: it is what the parsers make of the `actions` section
  of a pool (retries, timeout and delay of each action, with the defaults of its
  plugin), and what `MaxDelay` and the default checkout timeout make of that. An entry
  is a type and the settings it gives; durations are in ticks of 500 ms.
* `ActionRunner` is one run of a configured action (`actions` and `name`, which do not
  change): the runner's goroutine (`run`), one goroutine per attempt (`work`), their
  contexts (`over`, `cancelled`), and time: `timer` is the running deadline or delay,
  `elapsed` what the run has taken.
* `ExecAction` adds to it what `Do` of an exec does in each attempt: where it stands
  (`step`), its process (`proc`), who has the pipes open (`holds`), what is in them
  (`unread`) and the goroutines that read them (`copiers`). Actions of other types
  answer, fail or hang as `ActionRunner` has it.
* `Display` is the way of one row from the emitters to the screen: `inch` and `known`
  are a channel and a map of the processor, `rowch`, `delch`, `update` and `delete`
  those of the writer, `posted` the goroutines that `PostFunc` starts, `screen` the row
  in the widgets of the application. `draining` is `shuttingdown` of the writer. What
  the row says is abstracted to the number of the last event of each goroutine in it.
* `MCSet` adds the sizes of the pools and symmetry for the safety run of `PoolSet`,
  `MCRunner` the configurations of the runs of actions. `BacklogProofs`, `PoolProofs`, `ItemProofs`,
  `PoolSetProofs`, `RunnerProofs` and `DisplayProofs` hold invariants and proofs. Of each,
  one run checks the proof module in place of the component, so that TLC checks the
  inductive invariant (`IInv`, which has the type invariant) as well.

Operators whose comment begins "A faulty ..." are not part of any specification:
each is a variant of the action after it with a plausible mistake, and the
property it is listed with in `PROJECT.json` fails when it takes that action's
place.

## Runs

| Run | Checks | Bounds |
|---|---|---|
| `Backlog_keep` | `IInv` (which has the type invariant and `DoneMeansDrained`), `SpawnCovers`, `OvershootBound`, `WedgedUnderLoad`, `MaintainsSizeUnlessWedged`, `DrainTerminates` | Size 2, channel capacity 2, 12 exits. The bound 6 is reached with equality, and the wedge is reached, within these. |
| `Backlog_wedge` | `MaintainsSize`, violated | Size 7, capacity 5 as in the code, 6 exits. |
| `Pool_leases` | `IInv`, `InOnePlace`, `DoneMeansDown`, `KeepsBacklog`, `NoPutAfterStop`, `StopAnsweredUnlessHung` | Size 2, a channel of one request, 4 containers of which one may outlive its kill, 2 clients, 3 unasked faults; the initialization and resets may fail, the image may be missing, clients vanish. Three exits are enough for the wedge here. |
| `Pool_serve` | `CheckoutAnswered`, `ReturnedComesBack` in calm surroundings | Size 1, 4 containers, 2 clients, 3 faults. In calm surroundings the image is there, clients return what they have and resets do not fail; otherwise clients vanish, resets fail, any id may be returned at any time, and the image may be missing after a pull. Initialization reports no error. |
| `Pool_selfstop` | `StopAnswered`, violated | Initialization may fail; no container outlives its kill, and one item is too few for a wedge. |
| `Item_contract` | `IInv`, `NobodyLeftBehind`, `KeepsContract`, `ExitEnds`; `OneFunctionAtATime`, `ExitedMeansGone`, `KillOfRunningExits` in calm surroundings | 2 kills, 2 resets. In calm surroundings the daemon is reliable and only items that were out are reset; otherwise the daemon's calls fail, its event stream breaks and resets come at any time. |
| `Item_startkill` | `KillExits`, violated | 2 kills, calm surroundings. |
| `Set_batches` | `IInv` (which has the type invariant and `ReadyMeansReady`), `Conserved`, `KeepsLease` | a pool of two items and one of one, 2 clients; creations, initializations and templates fail, pools hang, clients disconnect, the context of the pools ends, `WaitReady` is called or not. The end of the context stops pools under requests, as a close does. |
| `Set_ends` | `CancelledEnds`, `ClosingEnds`, `RequestsEnd` | the same with one client, without symmetry, and with the server closed at any time. |
| `Set_embrace` | `BatchAnswered`, violated | 2 pools of one item, 2 clients, with nothing of that kind, items that always become ready and clients that return them. |
| `Runner_retries` | `ExecIInv` (which has the type invariants), `LateAnswersIgnored`, `AllAttemptsMade`, `RunInTime`, `OutputKept`, `RunReturns`, `AnswerersEnd`, `ExpiredDies` | two configurations: an http.get with the defaults (3 retries) beside an exec with one retry; a tcp.connect without a delay beside a noop that has a timeout and one that has none. The run of each of the five actions; the item may exit. |
| `Display_rows` | `IInv`, `EmittersGoOn`, `StopEnds`; `RowSettles`, `NeverBack` in calm surroundings | channels of capacity 1 (15 in the code), 2 events of each goroutine and an exit. In calm surroundings the screen is there, frames keep their order, deletes do not overtake updates and the exit is the last event. |

Both item runs start with and without a reset action.

Why the bounds are enough: the interesting cases of `Backlog` are a full channel
and several stale requests in it, which capacity 2 has; a lease needs two
clients and an item to replace; a pool hangs at a stop with one request in a channel of one,
another to send and an item on offer, or with one deaf container; a batch needs two pools and a rival, but what ends for
one client (`Set_ends`) does so for any, since that run does not assume that items ever
become ready or are taken; a late answer
needs a second attempt, a wrong allowance shows at the last of them; what is left of
a command needs one process beside its child; a row needs two events to go back, and a channel of one is
full, and the frames under way differ, with as many. The only bounds on behaviour are
`MaxExits`, `MaxFaults` and the set of `Items`, `MaxKills`, `MaxResets` and `MaxEvents`,
all of them in guards of steps of the environment, and `MaxAttempts`, which the
configurations are chosen to respect. Creations end with the last of `Items`; the fairness of
`CreationSucceeds` asks for no more. `MaxOwed` bounds resets of one item under way at a
time. The proofs hold for any value of these bounds and of all other constants, so what is
proved does not depend on them; liveness does.

Deadlock is checked in `Pool_serve` and `Pool_selfstop`. In the others the system may rightly
stop (a pool that is done, an item that has returned) or is wedged.

### Fairness

Goroutines that can take a step take one: weak fairness of each goroutine's
steps. Beyond that:

* a Go channel serves the receiver that waited longest, so a client waiting on
  the buffer is served in the end: strong fairness of `Checkout`;
* the Docker daemon answers: `ensureImage` returns, creations end, a killed item of
  `Pool` exits, and not every creation fails for ever if the image is there (weak
  fairness of `CreationSucceeds`). The `select` of the spawner does not pass over a
  request for ever while creations fail (weak fairness of `SpawnerReads`);
* lifecycle functions end. This is what `RunReturns` shows of `ActionRunner`,
  under the fairness of the runner, of time and of timers alone: `Do` need not return.
  In an exec the goroutines of `Do` and of os/exec run; the processes need not do
  anything, write for ever or end;
* a client returns what it has checked out, where the run says so (where clients
  may vanish, the step that vanishes competes with the return);
* in `PoolSet` creations and initializations of pools end, and so do stops of pools that
  do not hang, which is what `Pool_leases` says of them: it has the same three exceptions. A
  return to a pool that receives ends; to one that is stuck or wedged it blocks. That an item becomes ready again and is
  given to those that wait in turn is assumed only for `BatchAnswered`, which fails
  even so;
* the writer draws in the end when it has received something, and at its maximal
  period otherwise; the application shows the frames that have been posted while it
  polls.

Stops, checkouts, the events of a row, the coming of a screen, keys, timeouts, unasked exits, deaths of containers, broken streams,
disconnections, cancellations, closes and the end of the context of the pools have no fairness.
That a killed item exits is assumed in `Pool` of containers outside `Deaf`, since
`Item_startkill` shows that the code does not always see to it. `Pool_serve` has none in
`Deaf`: it asks whether clients are served.

Time in `ActionRunner` passes while the runner waits, for `Do` or for its delay, and
timers fire when they are due: the steps of the code take none, which a real run
makes up for with the half second that the default timeout adds (`RunInTime` is strict).

## What the violated runs show

* `Backlog_wedge`: `requestch` holds five requests. If six exits are handled while
  the spawner is blocked in `nextch <- item`, the main loop blocks in `request`,
  and neither ever receives from the other. The pool does not serve, replace or
  stop any more. It takes at least six exits, and a pool of more than one container
  (`WedgeNeedsLoad`); a pool of two gets there as well, in more of them, since its stale
  requests make it grow.
* `Pool_selfstop`: if the image cannot be had, `run()` calls `Stop` on itself.
  `donech` is never closed; `Stop` of any caller hangs, and so does that of the pool
  set (`ClosingEnds` excepts a pool that is `"stuck"`, as it does the two others).
* `Item_startkill`: `stopOnce` is consumed by a kill that Docker refuses because
  the container is not running yet; later kills do nothing. `runDrainItems` waits
  for that item's exit.
* `Set_embrace`: two batches start to wait on both pools; one gets the item of the
  first, the other that of the second. The context of a request ends with its
  client only, so both wait for as long as their clients do.

The models admit more behaviours that no run is devoted to; each can be seen by
relaxing what is named. A failed reset leaves an item neither
offered nor killed (`ReturnedComesBack` without `calm`). A container that
cannot be inspected is reported as not started and keeps running
(`ExitedMeansGone` without `calm`). An item that exits while buffered is still
handed out (`ItemExit` leaves `buf` alone). An item created during a stop is
killed before it was started and so never removed (`DrainTake` leaves it `idle`;
in `PoolItem` its container stays `created`). A pool may also rest above its
size, up to the bound of `OvershootBound`, because requests do not count what is in
flight. A pull that fails in its stream counts as a success, and an image with a tag is
pulled with it and looked for and used without (`a.ref.Name()`): `ensureImage` may
return no error with no image to create from (`image` stays `FALSE`), and the spawner then
starts one failing creation after the other; `CheckoutAnswered` would not hold.
An action `noop` without a `timeout` gets a timeout of zero and no retries
(`actionNoopParse`), so that its one attempt is over before it can answer and the run gives
up: it cannot serve as the `reset` action README.md:164 recommends it for.
A `tcp.connect` that is refused closes the connection it does not have
and the panic ends the program (`DialFails`; `RunReturns` admits it), so as a
healthcheck it does not survive a container that is slow to listen. What an exec's
command has started itself is not killed with it and keeps `Do` of a timed-out attempt
from returning (`ExpiredDies` admits it). In the display (`RowSettles` without `calm`) the row of a container that is
gone stays when its delete overtakes an update in the other channel or two frames
change places, and comes back with an action's late result; frames that are drawn
before the application has its screen are lost.

## Proofs

`BacklogProofs` proves, for every `Size`, `ReqCap` (positive) and `MaxExits`:

| Theorem | Statement |
|---|---|
| `Invariance` | `Spec => []IInv` |
| `TypeCorrect` | `Spec => []TypeOK` |
| `CoversSize` | `Spec => []SpawnCovers` |
| `BoundedGrowth` | `Spec => []OvershootBound` |
| `DrainedWhenDone` | `Spec => []DoneMeansDrained` |
| `WedgeNeedsLoad` | `Spec => []WedgedUnderLoad` |

None of the invariants is inductive alone. `SpawnCovers` needs to know that the
spawner is in `fillRequests` while the pool serves (`Serving`), that the request
about to be sent is exactly the lack (`WantIsLack`), and, when a creation reports,
that at least `needed` creations are pending (`Filling`). `OvershootBound` needs what
the queued requests can still add (`GrowthBound`: all but the last may be served in
full, the last adds its value); a send adds at most `Size` because the queue was
not full, and a receive only moves weight from the queue to `pending`, which is
why `PendingBound` is there. `DoneMeansDrained` needs that the pool drains its items
only after the spawner has returned (`SpawnerGone`). `IInv` is the conjunction.
The proof has a lemma per part (`TypeStep`, `ControlStep`, `CoverStep`,
`GrowthStep`) with a step per action, and lemmas about the channel
(`AppendRequest`, `ReceiveRequest`, `LastRequest`, `ChannelWeight`).

`WedgeNeedsLoad` has two reasons. Every request but the first answers an exit, and while
the spawner offers an item it has received a request that is no longer in the channel: so a
full channel and one more request have that many exits behind them (`ExitsBehind`). And in a pool
of one container everything that is present, on `nextch`, to be created or requested adds up
to one (`Single`), so that a request and an offer never meet.

`PoolProofs` proves, for any size, clients, callers, faults and resets under way, and any
finite set of containers, whatever clients do unless it is said:

| Theorem | Statement |
|---|---|
| `OwnInvariance` | `Spec => []OwnInv` |
| `ItemsInOnePlace` | `Spec => []InOnePlace`, if `~MayRepeat` |
| `ResetsOnlyWhenOut` | `Spec => ResetWhenOut`, if `~MayRepeat` |
| `StoppedBufferShrinks` | `Spec => NoPutAfterStop` |
| `PoolIsBacklog` | `Spec => KeepsBacklog`: `Pool`, its items counted, implements `Backlog` |
| `PoolInvariance` | `Spec => []IInv` |
| `TypeCorrect` | `Spec => []TypeOK` |
| `DownWhenDone` | `Spec => []DoneMeansDown` |
| `PoolKeepsSize` | `Spec => [](SpawnCovers /\ OvershootBound)` of the items of the pool |
| `PoolWedgeNeedsLoad` | `Spec => []WedgedUnderLoad` of the pool and its spawner |

The argument goes in three steps. `OwnInv` is what concerns the items, the buffer and the
clients, and is inductive without the spawner. `InOnePlace` counts, so it is said there
without counting (`OnePlace`), and strengthened: an item that has not been ready yet is
nowhere, and one that owes a ready event is neither offered nor held. That every client
returns an item once is needed exactly where a returned item is reset. It also follows that
only items which have been ready, are out and owe nothing are reset (`ResetWhenOut`), which
is what `PoolItem` assumes of its pool in calm surroundings. An item moves in four
ways, each a lemma (`NewItemMoves`, `ReadyItemMoves`, `ReturnedItemMoves`,
`OfferedItemMoves`); every other step moves none (`NothingMoves`).
`Owning` says that `items` holds the joined ones and no others owe anything, and
`BufferFollows` that the buffer is stopped when a stop has been received and not before:
`StoppedBufferShrinks` is this, with the one step that puts being a step of the loop that
serves.

With `OwnInv`, each step maps to one of `Backlog` or to none
(`PoolStepIsBacklog`): what is left is to count (`StartCounts`, `ExitCounts`), and this is why
a set of items must be finite and `items` must have no item that has exited, whose second exit
would be counted again. The third step takes the theorems of `BacklogProofs` for the counted
pool (`Counted`), so that nothing about the spawner is proved twice: `DownWhenDone`
needs that `Backlog` is drained when done, and that no item at all is in `items` then,
which is that its cardinality is 0.

`ItemProofs` proves, for any number of kills and resets and in any surroundings, with `calm`
in the properties that are about calm ones:

| Theorem | Statement |
|---|---|
| `ItemInvariance` | `Spec => []IInv` |
| `TypeCorrect` | `Spec => []TypeOK` |
| `NobodyWaits` | `Spec => []NobodyLeftBehind` |
| `OneAtATime` | `Spec => []OneFunctionAtATime` |
| `ExitedIsGone` | `Spec => []ExitedMeansGone` |
| `ItemKeepsContract` | `Spec => KeepsContract`: `PoolItem` implements `ItemContract` |

`Owed` is the sum of everything that may still become a ready event: calls, goroutines of
the container, lifecycle functions and their results. Each step moves one unit of it, uses it up
or adds one for a call of the pool (`OwedEvent`, `OwedFunction`, `OwedStart`, `OwedCall`);
that no step adds one otherwise is the heart of the contract, and it bounds it
(`OwedBound`). In calm surroundings the bound is one, from which `OneAtATime` follows: a
function that runs is owed for. For the contract an item must also not fall silent before its
first ready event (`FirstReady`: unless it is killed, something is on the way to it), be started
only once (`StartsOnce`), and have no call of the pool under way when it has exited, since that
would be an event after the exit (`CallsEnd`, which is also `NobodyWaits`). `ExitIsTrue`
follows the container from the daemon's event to the item's exit. `ContractStep` maps
each step to a step of the contract or to none, with one lemma for each of its actions
(`ContractStarts`, `ContractKills` ...) that says when an action of the item is one.

`PoolSetProofs` proves, for any set of pools, any size and any clients:

| Theorem | Statement |
|---|---|
| `SetInvariance` | `Spec => []IInv` |
| `ItemsConserved` | `Spec => []Conserved` |
| `ReadyIsReady` | `Spec => []ReadyMeansReady` |
| `LeaseKept` | `Spec => KeepsLease`: `PoolSet` implements `BatchLease` |

`Conserved` needs that nothing of a pool exists before the pool (`Unmade`) and that
a goroutine that is sent to a pool carries nothing until it has an item
(`Collecting`). For the refinement the set of a request must be known pool by
pool: one item of each pool that has answered, none of one that was not asked
(`Gathered`). `ReadyMeansReady` needs that what the loop of `WaitReady` has heard stays
true (`Heard`): a pool that gave no error has been initialized for good, and an error has
its reason in a pool that is stuck or in a context that has ended. The three kinds of
return have one lemma (`ReturnConserves`). `TypeStep`, `RequestStep`, `PlacedStep` and `HeardStep` prove
the parts of `IInv`; `DecideGrants` is the heart of the refinement, and `StepRefines` maps
every step to a step of `BatchLease` or to none.

`RunnerProofs` proves, for any configuration of actions:

| Theorem | Statement |
|---|---|
| `RunnerInvariance` | `Spec => []IInv` |
| `NoLateAnswer` | `Spec => []LateAnswersIgnored` |
| `AllAttempts` | `Spec => []AllAttemptsMade` |
| `EndsInTime` | `Spec => []RunInTime` |
| `ExecIsRun` | `ExecSpec => Spec`: `ExecAction` implements `ActionRunner` |
| `ExecInvariance` | `ExecSpec => []ExecIInv` |
| `NoOutputLost` | `ExecSpec => []OutputKept` |

`IInv` there says that attempts are begun in order (`InOrder`), ties the result to the
last one (`Verdict`), and bounds what has passed together with what the timer still
allows by one turn, a timeout and a delay, for each attempt (`OnTime`). `EndsInTime` then
needs only that the allowance of the action that runs is one of those `MaxDelay` takes
the longest of (`WithinMaxDelay`); `ParseActionType` gives the types of what the parsers
yield, `AfterFailure` is the one step in which an attempt is counted. For an exec,
`CopiesFirst` says that a copy goes on until nobody can write any more and that the
process is waited for after both.

`DisplayProofs` proves, for channels of any capacity and any number of events:

| Theorem | Statement |
|---|---|
| `DisplayInvariance` | `Spec => []IInv` |
| `TypeCorrect` | `Spec => []TypeOK` |
| `RowNeverBack` | `Spec => NeverBack` |

That a row does not go back is a matter of everything that is under way to the screen:
the rows on it, in posted frames, in the writer, in its channel and in the hands of the processor
are younger the farther they are from it (`StagesInOrder`, and `QueuesInOrder` within a
queue) - they say more of the main goroutine, or as much and no less of the other, whose field
a reset clears (`NotBefore`, an order by `NotBeforeOrder`) -, the map has the youngest (`MapIsYoungest`), and the events still in the processor's channel
have later numbers in the field they fill, in order (`EventsInOrder`, `FieldOf`); so a merge
makes a row that is not before the old one (`MergedNotBefore`). The map is cleared by the exit, and a row
made from nothing would be an old one: so the exit must be the last event, which
is where calm surroundings are needed, besides the frames keeping their order. There is a lemma for
each way a row goes on (`EventHandled`, `RowHandedOver`, `RowTaken`, `RowDrawn`, `FrameShown`).

The assumptions are those on the constants, named in the modules that declare
them: `SizeAssumption` and `ReqCapAssumption` (positive; the code has 5 for the
latter), `MaxExitsAssumption`, `ContractAssumption`, `PoolAssumption`, `ItemsAssumption` (the
containers that are ever made are finitely many), `ItemAssumption`, `RunnerAssumption`,
`PoolSetAssumption`, `DisplayAssumption`. They give types and exclude zero where the code does.
`ItemsInOnePlace` assumes `~MayRepeat` besides.

Every invariant, action property and refinement that a passing run checks is proved. The
liveness properties are only model-checked: with fairness and `ENABLED` they are beyond
the prover.

## What is not modelled

* The `state` field of the pool (never read), UI counters and logs in every part.
* Configurations that are refused, and settings below zero, which the parsers accept:
  with a negative `retries` the allowance of an action is zero or less, and one attempt is
  made all the same.
* What an action does with the rest of its settings. Some of it never arrives: the
  `UnmarshalJSON` of the embedded `ActionConfig` takes the place of the action's own, so
  fields that the parser does not fetch itself, such as `command` of redis.exec
  (README.md:243), keep their defaults; and the path of an exec is read from `path`, not
  from `command` (README.md:174).
* The protocols of http.get and of the database actions: they answer, fail or hang.
* The stream and the empty user interface, the texts, widths and order of rows, and
  that main returns without waiting for the application to restore the terminal.
* `dumpLogs`, and a `detach` event, which the code takes for an exit.
* Nil dereferences after a failed `newDockerAdapter` or `containerLogs`: straight-line
  code (that after `net.DialTimeout` is `DialFails`).
* The strings: parameters, templates, configuration, requests to Docker.
* That Go's `select` may pick any ready case is modelled; that it is fair among
  ready cases is used only where the fairness section says so.
* `InOnePlace` is checked for clients that return an item once. The server accepts
  any id at any time, and then it does not hold.
* In `PoolSet`: requests that are malformed and rejected before the pool set is
  called, and items that a client keeps for ever (in `Pool` clients may).

## Plan

1. Done: `Spawner`, `Backlog`, `ItemContract`, `Pool`, `PoolItem`, `BatchLease`, `PoolSet`,
   `ActionConfig`, `ActionRunner`, `ExecAction`, `Display`, and the proofs about each of
   them.
2. The row of a container that is never started in `Display`.
3. Proofs: the safety side of the liveness properties, that is, which states an item, a pool
   set or the display can be stuck in, as `WedgeNeedsLoad` says of `Wedged`.
