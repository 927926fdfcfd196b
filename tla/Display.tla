------------------------------- MODULE Display -------------------------------
(***************************************************************************)
(* The terminal user interface (ui/): the way of the events of a pool or of *)
(* a container from the goroutines that emit them, through the event        *)
(* processor and the writer with its frames, to a row on the screen; and    *)
(* the stop of it all at the end of the program.                            *)
(*                                                                          *)
(* One row is modelled, of the table of pools or of that of containers: the *)
(* tables have channels and a goroutine of the processor of their own, and  *)
(* the rows of a table are values of a map.  A row has two fields, each     *)
(* filled by a goroutine of its own:                                        *)
(*   of a pool, "main" is from its main loop (state and number of items),   *)
(*   "side" from its spawner or its buffer;                                 *)
(*   of a container, "main" is from its item (the state), "side" from the   *)
(*   runner of an action (attempts and results).                            *)
(* What a goroutine says is known by the number of the event.               *)
(***************************************************************************)
EXTENDS Naturals, Sequences

CONSTANTS Cap,        \* capacity of the channels (pBufSiz, tuiCHBufsiz)
          MaxEvents,  \* bound: events of each goroutine that emits
          Weathers    \* the kinds of surroundings the display may find: see calm

ASSUME DisplayAssumption ==
  /\ Cap \in Nat \ {0}
  /\ MaxEvents \in Nat
  /\ Weathers \subseteq BOOLEAN

VARIABLES
  calm,     \* the screen is there from the beginning, the frames come to it in
            \* order, Q is pressed once at most and heard before a signal, the writer
            \* reads an update before a later delete, and no event follows the exit;
            \* this never changes
  kind,     \* "pool" or "container"
  emitted,  \* emitted[f]: how many events goroutine f has emitted
  said,     \* the row that all events emitted so far amount to, {} if there is none
  exited,   \* EmitExited has been called
  inch,     \* poolch or containerch of the processor
  known,    \* the row in the processor's map, or {}
  hand,     \* what the processor's goroutine is sending to the writer, or <<>>
  rowch,    \* pch or cch of the writer
  delch,    \* dch of the writer
  update,   \* pupdate or cupdate of the writer: the row, or {}
  delete,   \* cdelete of the writer: whether it names the row
  draining, \* shuttingdown in run of the writer; 4 when run has returned
  posted,   \* the goroutines that post a frame to the application, oldest first
  screen,   \* the row in the table's widgets, or {}
  app,      \* where the application's goroutine stands
  asked,    \* the goroutine of handleSignals has heard of the end of the program
  ui        \* where main and processor.stop stand

emitterVars == <<calm, kind, emitted, said, exited>>
processorVars == <<known, hand>>
writerVars == <<update, delete, draining>>
screenVars == <<screen, app, asked>>
vars == <<emitterVars, inch, processorVars, rowch, delch, writerVars, posted,
          screenVars, ui>>

Fields == {"main", "side"}
Row == [Fields -> 0 .. MaxEvents]
AtMostOne(S) == {{}} \cup {{x} : x \in S}

\* An event has its goroutine and number; of the item's, "reset" are those that
\* clear what is said of an action (created, started, ready, resetting).
Event == [from : {"main", "side", "reset", "exit"}, n : 1 .. MaxEvents + 1]
Message == [do : {"update", "delete"}, row : Row]
Frame == [update : AtMostOne(Row), delete : BOOLEAN]

(***************************************************************************)
(* app: "starting" (no screen yet), "polling", "quitting" (sending on       *)
(*      shutdownch after Q), "over"                                         *)
(* ui:  "up", "stopping" (sending on drainch), "waiting" (for the writer),  *)
(*      "down" (donech of the processor is closed; main returns)            *)
(***************************************************************************)
TypeOK ==
  /\ calm \in Weathers
  /\ kind \in {"pool", "container"}
  /\ emitted \in Row
  /\ {said, known, update, screen} \subseteq AtMostOne(Row)
  /\ {exited, delete, asked} \subseteq BOOLEAN
  /\ inch \in Seq(Event) /\ Len(inch) <= Cap
  /\ hand \in Seq(Message) /\ Len(hand) <= 1
  /\ rowch \in Seq(Row) /\ Len(rowch) <= Cap
  /\ delch \in 0 .. Cap
  /\ draining \in 0 .. 4
  /\ posted \in Seq(Frame)
  /\ app \in {"starting", "polling", "quitting", "over"}
  /\ ui \in {"up", "stopping", "waiting", "down"}

Init ==
  /\ calm \in Weathers
  /\ kind \in {"pool", "container"}
  /\ emitted = [f \in Fields |-> 0]
  /\ said = {} /\ known = {} /\ update = {} /\ screen = {}
  /\ exited = FALSE /\ delete = FALSE /\ asked = FALSE
  /\ inch = <<>> /\ hand = <<>> /\ rowch = <<>> /\ posted = <<>>
  /\ delch = 0
  /\ draining = 0
  /\ app = IF calm THEN "polling" ELSE "starting"
  /\ ui = "up"

----------------------------------------------------------------------------
(* Emitters and the processor *)

\* handlePoolUpdate, handleContainerUpdate: a row with an event merged into it.
Merged(row, e) ==
  CASE e.from = "exit" -> row
    [] e.from = "reset" -> [main |-> e.n, side |-> 0]
    [] OTHER -> [row EXCEPT ![e.from] = e.n]

\* The row it starts from: a new one if the map has none.
RowOf(S) == IF S = {} THEN [f \in Fields |-> 0] ELSE CHOOSE row \in S : TRUE

After(S, e) == IF e.from = "exit" THEN {} ELSE {Merged(RowOf(S), e)}

\* An event is sent to the processor while it runs.
Send(e) ==
  /\ ui # "down"
  /\ Len(inch) < Cap
  /\ inch' = Append(inch, e)
  /\ said' = After(said, e)

othersThanEmitters ==
  <<calm, kind, processorVars, rowch, delch, writerVars, posted, screenVars, ui>>

\* A pool's goroutine or an item's emits the next of its events.
Emit(f) ==
  /\ emitted[f] < MaxEvents
  /\ f = "main" => ~exited
  /\ exited => ~calm
  /\ emitted' = [emitted EXCEPT ![f] = @ + 1]
  /\ \E from \in IF f = "main" /\ kind = "container" THEN {f, "reset"} ELSE {f} :
       Send([from |-> from, n |-> emitted'[f]])
  /\ UNCHANGED <<exited, othersThanEmitters>>

\* EmitExited of an item.
EmitExited ==
  /\ kind = "container"
  /\ emitted["main"] > 0 /\ ~exited
  /\ exited' = TRUE
  /\ Send([from |-> "exit", n |-> emitted["main"] + 1])
  /\ UNCHANGED <<emitted, othersThanEmitters>>

othersThanProcessor ==
  <<emitterVars, writerVars, posted, screenVars, ui>>

\* A faulty processor that makes a new row of every event.
HandleEventAnew ==
  /\ ui # "down"
  /\ hand = <<>> /\ inch # <<>>
  /\ LET e == Head(inch)
     IN /\ known' = IF e.from = "exit" THEN {} ELSE {Merged(RowOf({}), e)}
        /\ hand' = <<[do |-> IF e.from = "exit" THEN "delete" ELSE "update",
                      row |-> Merged(RowOf({}), e)]>>
  /\ inch' = Tail(inch)
  /\ UNCHANGED <<rowch, delch, othersThanProcessor>>

\* handlePoolEvents, handleContainerEvents: an event is received.
HandleEvent ==
  /\ ui # "down"
  /\ hand = <<>> /\ inch # <<>>
  /\ LET e == Head(inch)
     IN /\ known' = After(known, e)
        /\ hand' = <<[do |-> IF e.from = "exit" THEN "delete" ELSE "update",
                      row |-> Merged(RowOf(known), e)]>>
  /\ inch' = Tail(inch)
  /\ UNCHANGED <<rowch, delch, othersThanProcessor>>

\* updatePool, updateContainer, deleteContainer: the writer's channel has room, or
\* the writer has returned.
HandOver ==
  /\ hand # <<>>
  /\ hand' = <<>>
  /\ \/ /\ Head(hand).do = "update" /\ Len(rowch) < Cap
        /\ rowch' = Append(rowch, Head(hand).row)
        /\ UNCHANGED delch
     \/ /\ Head(hand).do = "delete" /\ delch < Cap
        /\ delch' = delch + 1
        /\ UNCHANGED rowch
     \/ draining = 4 /\ UNCHANGED <<rowch, delch>>
  /\ UNCHANGED <<inch, known, othersThanProcessor>>

----------------------------------------------------------------------------
(* The writer *)

othersThanWriter == <<emitterVars, inch, processorVars, screenVars>>

\* A faulty run that keeps the first of several rows until it draws.
TakeRowFirst ==
  /\ draining < 4
  /\ rowch # <<>>
  /\ update' = IF update = {} THEN {Head(rowch)} ELSE update
  /\ rowch' = Tail(rowch)
  /\ UNCHANGED <<delch, delete, draining, posted, ui, othersThanWriter>>

\* A faulty run that waits for the application to show the last frame.
TakeRowShown ==
  /\ draining < 4
  /\ posted = <<>>
  /\ rowch # <<>>
  /\ update' = {Head(rowch)}
  /\ rowch' = Tail(rowch)
  /\ UNCHANGED <<delch, delete, draining, posted, ui, othersThanWriter>>

\* run receives a row (handlePool, handleContainer).
TakeRow ==
  /\ draining < 4
  /\ rowch # <<>>
  /\ update' = {Head(rowch)}
  /\ rowch' = Tail(rowch)
  /\ UNCHANGED <<delch, delete, draining, posted, ui, othersThanWriter>>

\* A faulty receive that does not wait for a sender.
TakeDeleteUnsent ==
  /\ draining < 4
  /\ delch' = delch - 1
  /\ delete' = TRUE
  /\ UNCHANGED <<rowch, update, draining, posted, ui, othersThanWriter>>

\* run receives a delete (handleDeleteContainer), which may overtake an update in
\* the other channel.
TakeDelete ==
  /\ draining < 4
  /\ delch > 0
  /\ calm => rowch = <<>>
  /\ delch' = delch - 1
  /\ delete' = TRUE
  /\ UNCHANGED <<rowch, update, draining, posted, ui, othersThanWriter>>

\* run receives from drawch and draws: PostFunc starts a goroutine that posts a
\* frame, if there is a screen.  A frame without changes is left out, except that
\* it counts when the writer is stopping.
Draw ==
  /\ draining < 3
  /\ update # {} \/ delete \/ draining > 0
  /\ update' = {} /\ delete' = FALSE
  /\ draining' = IF draining > 0 THEN draining + 1 ELSE 0
  /\ posted' = IF app # "starting" /\ (update # {} \/ delete)
                 THEN Append(posted, [update |-> update, delete |-> delete])
                 ELSE posted
  /\ UNCHANGED <<rowch, delch, ui, othersThanWriter>>


\* A faulty run that waits for its frames to be shown before it returns.
WriterReturnsShown ==
  /\ draining = 3
  /\ posted = <<>>
  /\ draining' = 4
  /\ UNCHANGED <<rowch, delch, update, delete, posted, ui, othersThanWriter>>

\* The last draw: run returns.
WriterReturns ==
  /\ draining = 3
  /\ draining' = 4
  /\ UNCHANGED <<rowch, delch, update, delete, posted, ui, othersThanWriter>>

----------------------------------------------------------------------------
(* The application and the end of the program *)

othersThanScreen ==
  <<emitterVars, inch, processorVars, rowch, delch, writerVars, ui>>

\* app.run has got its screen.
AppStarts ==
  /\ app = "starting"
  /\ app' = "polling"
  /\ UNCHANGED <<posted, screen, asked, othersThanScreen>>

\* The goroutine of some frame posts it, and the application runs its function:
\* updateContainers or updatePools, which upserts first and removes then.
ShowFrame ==
  /\ app = "polling"
  /\ \E k \in DOMAIN posted :
       /\ calm => k = 1
       /\ screen' = IF posted[k].delete THEN {}
                    ELSE IF posted[k].update # {} THEN posted[k].update ELSE screen
       /\ posted' = SubSeq(posted, 1, k - 1) \o SubSeq(posted, k + 1, Len(posted))
  /\ UNCHANGED <<app, asked, othersThanScreen>>

\* Q is pressed: HandleEvent sends on shutdownch, on the application's goroutine.
PressQ ==
  /\ app = "polling"
  /\ calm => ~asked
  /\ app' = "quitting"
  /\ UNCHANGED <<posted, screen, asked, othersThanScreen>>

\* handleSignals receives it, or a signal, or sees that the server is closed; it
\* does so once, so that nobody receives a Q that its select has passed over.
HandleSignals ==
  /\ ~asked
  /\ asked' = TRUE
  /\ app' \in IF app = "quitting" THEN {"polling", "quitting"} ELSE {app}
  /\ calm => app' # "quitting"
  /\ UNCHANGED <<posted, screen, othersThanScreen>>

\* The writer's run has called Quit when it returned.
AppQuits ==
  /\ draining = 4
  /\ app = "polling"
  /\ app' = "over"
  /\ UNCHANGED <<posted, screen, asked, othersThanScreen>>

othersThanMain ==
  <<emitterVars, inch, processorVars, rowch, delch, update, delete, posted, screenVars>>

\* The server is closed, by Close or after an error; main calls Stop.
CallStop ==
  /\ ui = "up"
  /\ ui' = "stopping"
  /\ UNCHANGED <<draining, othersThanMain>>

\* writer.stop: the writer receives from drainch.
StopWriter ==
  /\ ui = "stopping"
  /\ draining = 0
  /\ draining' = 1
  /\ ui' = "waiting"
  /\ UNCHANGED othersThanMain

\* The writer's donech is closed; processor.stop closes its own.
StopReturns ==
  /\ ui = "waiting"
  /\ draining = 4
  /\ ui' = "down"
  /\ UNCHANGED <<draining, othersThanMain>>

----------------------------------------------------------------------------
Next ==
  \/ \E f \in Fields : Emit(f)
  \/ EmitExited
  \/ HandleEvent \/ HandOver
  \/ TakeRow \/ TakeDelete \/ Draw \/ WriterReturns
  \/ AppStarts \/ ShowFrame \/ PressQ \/ HandleSignals \/ AppQuits
  \/ CallStop \/ StopWriter \/ StopReturns

(***************************************************************************)
(* Goroutines run, and the writer draws some time after it has received     *)
(* something (the throttle).  Nobody has to emit an event, to press Q or to *)
(* end the program, and a screen need not come.                             *)
(***************************************************************************)
Fairness ==
  /\ WF_vars(HandleEvent) /\ WF_vars(HandOver)
  /\ WF_vars(TakeRow) /\ WF_vars(TakeDelete) /\ WF_vars(Draw) /\ WF_vars(WriterReturns)
  /\ WF_vars(ShowFrame)
  /\ WF_vars(app = "quitting" /\ HandleSignals)
  /\ WF_vars(StopWriter) /\ WF_vars(StopReturns)

Spec == Init /\ [][Next]_vars
FairSpec == Spec /\ Fairness

----------------------------------------------------------------------------
(* Properties *)

\* The display never holds up a pool: a goroutine that emits an event into a full
\* channel goes on, also when the application's goroutine does not run any more or
\* there is no screen, and when the display is being stopped (sendPoolEvent,
\* sendContainerEvent).
EmittersGoOn == Len(inch) = Cap ~> (Len(inch) < Cap \/ ui = "down")

\* Stop of the user interface returns, whatever is still under way (stop, run).
StopEnds == ui = "stopping" ~> ui = "down"

\* In calm surroundings the row shows in the end what the events amount to, and
\* goes when its container has exited, unless the display is stopped before: no
\* event of one goroutine hides one of the other, none is lost between the channels,
\* the maps and the frames (handleContainerUpdate, run, draw, handleUpdates).
RowSettles == calm => <>[](ui # "up" \/ screen = said)

\* A row says no less than another did: more of the main goroutine, which may have
\* cleared the other field, or no less of either.
NotBefore(new, old) ==
  \/ new.main > old.main
  \/ new.main = old.main /\ new.side >= old.side

\* In calm surroundings a row does not go back to what it showed before, in neither of
\* its fields (handlePoolUpdate, handleContainerUpdate, run, draw, handleUpdates).
NeverBack ==
  [][calm => \A old \in screen, new \in screen' : NotBefore(new, old)]_vars
=============================================================================
