---------------------------- MODULE DisplayProofs ----------------------------
(***************************************************************************)
(* Proofs about Display, for channels of any capacity and any number of     *)
(* events: the types, and that in calm surroundings a row does not go back. *)
(***************************************************************************)
EXTENDS Display, SequenceTheorems, TLAPS

\* Only the exit may have a number beyond the last event.
EventsCounted == \A k \in DOMAIN inch : inch[k].from # "exit" => inch[k].n <= MaxEvents

\* The rows under way, by the stage they have reached.
Posted == UNION {posted[k].update : k \in DOMAIN posted}
Channel == {rowch[k] : k \in DOMAIN rowch}
Hand == {hand[k].row : k \in {j \in DOMAIN hand : hand[j].do = "update"}}
UnderWay == screen \cup Posted \cup update \cup Channel \cup Hand

Older(S, T) == \A x \in S, y \in T : NotBefore(y, x)

\* The rows are no younger the farther they have come.
StagesInOrder ==
  /\ Older(screen, Posted \cup update \cup Channel \cup Hand)
  /\ Older(Posted, update \cup Channel \cup Hand)
  /\ Older(update, Channel \cup Hand)
  /\ Older(Channel, Hand)

\* So are the frames among themselves, and the rows in the channel.
QueuesInOrder ==
  /\ \A j, k \in DOMAIN posted : j < k => Older(posted[j].update, posted[k].update)
  /\ \A j, k \in DOMAIN rowch : j < k => NotBefore(rowch[k], rowch[j])

\* The map has the youngest row, until its last event has been received.
MapIsYoungest ==
  /\ Older(UnderWay, known)
  /\ known = {} => UnderWay = {} \/ (exited /\ inch = <<>>)

\* The field of a row that an event fills.
FieldOf(e) == IF e.from = "reset" THEN "main" ELSE e.from

\* The events in the channel are younger still, those of a goroutine are in order, and
\* the exit is last.
EventsInOrder ==
  /\ \A f \in Fields : RowOf(known)[f] <= emitted[f]
  /\ \A k \in DOMAIN inch :
       /\ inch[k].from = "exit" => k = Len(inch) /\ exited
       /\ inch[k].from # "exit" =>
            RowOf(known)[FieldOf(inch[k])] < inch[k].n /\ inch[k].n <= emitted[FieldOf(inch[k])]
  /\ \A j, k \in DOMAIN inch :
       j < k /\ FieldOf(inch[j]) = FieldOf(inch[k]) => inch[j].n < inch[k].n

RowsInOrder == StagesInOrder /\ QueuesInOrder /\ MapIsYoungest /\ EventsInOrder

IInv ==
  /\ TypeOK
  /\ EventsCounted
  /\ calm => RowsInOrder
----------------------------------------------------------------------------
(* Rows and events *)

\* The row that the handling of an event starts from is one, and the one in the map.
LEMMA RowOfOne ==
  ASSUME NEW S \in AtMostOne(Row)
  PROVE  RowOf(S) \in Row /\ (S # {} => S = {RowOf(S)})
BY DisplayAssumption DEF AtMostOne, Row, RowOf

\* An event merged into a row makes a row: the field of its goroutine has its number,
\* and the other one says no more than before.
LEMMA MergedRow ==
  ASSUME NEW row \in Row, NEW e \in Event, e.from # "exit" => e.n <= MaxEvents
  PROVE  /\ Merged(row, e) \in Row
         /\ e.from = "exit" => Merged(row, e) = row
         /\ e.from # "exit" =>
              /\ FieldOf(e) \in Fields
              /\ Merged(row, e)[FieldOf(e)] = e.n
              /\ \A f \in Fields \ {FieldOf(e)} : Merged(row, e)[f] <= row[f]
         /\ FieldOf(e) = "side" => Merged(row, e).main = row.main
<1> USE DisplayAssumption DEF Row, Event, Fields, FieldOf, Merged
<1>1. CASE e.from = "exit"
  BY <1>1
<1>2. CASE e.from = "reset"
  BY <1>2
<1>3. CASE e.from = "main"
  BY <1>3
<1>4. CASE e.from = "side"
  BY <1>4
<1> QED
  BY <1>1, <1>2, <1>3, <1>4

\* An event that is younger than a row makes it one that is not before it.
LEMMA MergedNotBefore ==
  ASSUME NEW row \in Row, NEW e \in Event,
         e.from # "exit" => e.n <= MaxEvents /\ row[FieldOf(e)] < e.n
  PROVE  NotBefore(Merged(row, e), row)
<1>1. /\ row.main \in Nat /\ row.side \in Nat
      /\ Merged(row, e).main \in Nat /\ Merged(row, e).side \in Nat
  BY MergedRow, DisplayAssumption DEF Row, Fields
<1>2. CASE e.from = "exit"
  BY <1>1, <1>2, MergedRow DEF NotBefore
<1>3. CASE e.from \in {"main", "reset"}
  BY <1>1, <1>3, MergedRow, DisplayAssumption DEF NotBefore, FieldOf, Event
<1>4. CASE e.from = "side"
  BY <1>1, <1>4, MergedRow, DisplayAssumption DEF NotBefore, FieldOf, Event
<1> QED
  BY <1>2, <1>3, <1>4 DEF Event

\* Rows are compared as numbers are: fields first to last.
LEMMA NotBeforeOrder ==
  ASSUME NEW x \in Row, NEW y \in Row, NEW z \in Row
  PROVE  /\ NotBefore(x, x)
         /\ NotBefore(y, x) /\ NotBefore(z, y) => NotBefore(z, x)
<1>1. /\ x.main \in Nat /\ x.side \in Nat /\ y.main \in Nat /\ y.side \in Nat
      /\ z.main \in Nat /\ z.side \in Nat
  BY DisplayAssumption DEF Row, Fields
<1> QED
  BY <1>1 DEF NotBefore

\* So does an event received: a row, or none after an exit.
LEMMA AfterOne ==
  ASSUME NEW S \in AtMostOne(Row), NEW e \in Event, e.from # "exit" => e.n <= MaxEvents
  PROVE  After(S, e) \in AtMostOne(Row)
BY RowOfOne, MergedRow DEF After, AtMostOne

----------------------------------------------------------------------------
(* Types *)

\* An event that is sent has the type of one, and leaves a row or none.
LEMMA SendTypes ==
  ASSUME TypeOK, EventsCounted, NEW e \in Event, e.from # "exit" => e.n <= MaxEvents,
         Send(e)
  PROVE  /\ inch' \in Seq(Event) /\ Len(inch') <= Cap
         /\ said' \in AtMostOne(Row)
         /\ EventsCounted'
<1>1. inch \in Seq(Event) /\ said \in AtMostOne(Row)
  BY DEF TypeOK
<1>2. inch' = Append(inch, e) /\ said' = After(said, e) /\ Len(inch) < Cap
  BY DEF Send
<1>3. /\ inch' \in Seq(Event) /\ Len(inch') = Len(inch) + 1
      /\ \A k \in 1 .. Len(inch) : inch'[k] = inch[k]
      /\ inch'[Len(inch) + 1] = e
  BY <1>1, <1>2, AppendProperties
<1>4. EventsCounted'
  BY <1>1, <1>3, LenProperties DEF EventsCounted
<1> QED
  BY <1>1, <1>2, <1>3, <1>4, AfterOne, DisplayAssumption

\* Every step keeps the types, and events numbered within the bound.
LEMMA TypeStep ==
  ASSUME TypeOK, EventsCounted, [Next]_vars
  PROVE  TypeOK' /\ EventsCounted'
<1>0. ASSUME UNCHANGED inch PROVE EventsCounted'
  BY <1>0 DEF EventsCounted
<1>1. ASSUME NEW f \in Fields, Emit(f) PROVE TypeOK' /\ EventsCounted'
  <2>1. emitted[f] \in Nat /\ emitted[f] < MaxEvents /\ emitted' \in Row
        /\ emitted'[f] = emitted[f] + 1
    BY <1>1, DisplayAssumption DEF Emit, TypeOK, Row, Fields
  <2>2. PICK from \in {f, "reset"} : Send([from |-> from, n |-> emitted'[f]])
    BY <1>1 DEF Emit
  <2>3. [from |-> from, n |-> emitted'[f]] \in Event
    BY <2>1, DisplayAssumption DEF Event, Fields
  <2>4. /\ inch' \in Seq(Event) /\ Len(inch') <= Cap
        /\ said' \in AtMostOne(Row)
        /\ EventsCounted'
    BY <2>1, <2>2, <2>3, SendTypes, DisplayAssumption
  <2> QED
    BY <1>1, <2>1, <2>4
    DEF Emit, TypeOK, othersThanEmitters, processorVars, writerVars, screenVars
<1>2. CASE EmitExited
  <2>1. [from |-> "exit", n |-> emitted["main"] + 1] \in Event
    BY DisplayAssumption DEF Event, TypeOK, Row, Fields
  <2>2. /\ inch' \in Seq(Event) /\ Len(inch') <= Cap
        /\ said' \in AtMostOne(Row)
        /\ EventsCounted'
    BY <1>2, <2>1, SendTypes DEF EmitExited
  <2> QED
    BY <1>2, <2>2
    DEF EmitExited, TypeOK, othersThanEmitters, processorVars, writerVars, screenVars
<1>3. CASE HandleEvent
  <2> DEFINE e == Head(inch)
  <2>1. /\ inch \in Seq(Event) /\ inch # <<>>
        /\ e \in Event /\ e = inch[1] /\ Len(inch) >= 1
        /\ inch' \in Seq(Event) /\ Len(inch') = Len(inch) - 1
        /\ \A k \in 1 .. Len(inch') : inch'[k] = inch[k + 1]
    BY <1>3, HeadTailProperties, LenProperties, EmptySeq DEF HandleEvent, TypeOK
  <2>2. e.from # "exit" => e.n <= MaxEvents
    BY <2>1, LenProperties DEF EventsCounted
  <2>3. known \in AtMostOne(Row)
    BY DEF TypeOK
  <2>4. known' \in AtMostOne(Row)
    BY <1>3, <2>1, <2>2, <2>3, AfterOne DEF HandleEvent
  <2>5. hand' \in Seq(Message) /\ Len(hand') = 1
    <3>1. Merged(RowOf(known), e) \in Row
      BY <2>1, <2>2, <2>3, RowOfOne, MergedRow
    <3> DEFINE m == [do |-> IF e.from = "exit" THEN "delete" ELSE "update",
                     row |-> Merged(RowOf(known), e)]
    <3>2. m \in Message
      BY <3>1 DEF Message
    <3>3. hand' = <<m>>
      BY <1>3 DEF HandleEvent
    <3> HIDE DEF m
    <3> QED
      BY <3>2, <3>3
  <2>6. EventsCounted'
    BY <2>1, LenProperties DEF EventsCounted
  <2>7. UNCHANGED <<rowch, delch, othersThanProcessor>>
    BY <1>3 DEF HandleEvent
  <2>8. Len(inch) <= Cap /\ Len(inch) \in Nat /\ Cap \in Nat
    BY <2>1, LenProperties, DisplayAssumption DEF TypeOK
  <2>9. Len(inch') <= Cap /\ Len(hand') <= 1
    BY <2>1, <2>5, <2>8
  <2>10. inch' \in Seq(Event)
    BY <2>1
  <2> HIDE DEF e
  <2> QED
    BY <2>4, <2>5, <2>6, <2>7, <2>9, <2>10
    DEF TypeOK, othersThanProcessor, emitterVars, writerVars, screenVars
<1>4. CASE HandOver
  <2>1. hand \in Seq(Message) /\ hand # <<>> /\ hand' = <<>> /\ Head(hand).row \in Row
    <3>1. hand \in Seq(Message) /\ hand # <<>> /\ hand' = <<>>
      BY <1>4 DEF HandOver, TypeOK
    <3>2. Head(hand) \in Message
      BY <3>1, HeadTailProperties
    <3> QED
      BY <3>1, <3>2 DEF Message
  <2>2. rowch' \in Seq(Row) /\ Len(rowch') <= Cap /\ delch' \in 0 .. Cap
    <3>1. rowch \in Seq(Row) /\ Len(rowch) <= Cap /\ delch \in 0 .. Cap
      BY DEF TypeOK
    <3>2. CASE Len(rowch) < Cap /\ rowch' = Append(rowch, Head(hand).row) /\ delch' = delch
      BY <2>1, <3>1, <3>2, AppendProperties, DisplayAssumption
    <3>3. CASE delch < Cap /\ delch' = delch + 1 /\ rowch' = rowch
      BY <3>1, <3>3, DisplayAssumption
    <3>4. CASE rowch' = rowch /\ delch' = delch
      BY <3>1, <3>4
    <3> QED
      BY <1>4, <3>2, <3>3, <3>4 DEF HandOver
  <2> QED
    BY <1>0, <1>4, <2>1, <2>2
    DEF HandOver, TypeOK, othersThanProcessor, emitterVars, writerVars, screenVars
<1>5. CASE TakeRow
  <2>1. /\ rowch' \in Seq(Row) /\ Len(rowch') <= Cap
        /\ update' \in AtMostOne(Row)
    BY <1>5, DisplayAssumption DEF TakeRow, TypeOK, AtMostOne
  <2> QED
    BY <1>0, <1>5, <2>1
    DEF TakeRow, TypeOK, othersThanWriter, emitterVars, processorVars, screenVars
<1>6. CASE TakeDelete
  <2>1. delch' \in 0 .. Cap
    BY <1>6, DisplayAssumption DEF TakeDelete, TypeOK
  <2> QED
    BY <1>0, <1>6, <2>1
    DEF TakeDelete, TypeOK, othersThanWriter, emitterVars, processorVars, screenVars
<1>7. CASE Draw
  <2>1. posted \in Seq(Frame) /\ [update |-> update, delete |-> delete] \in Frame
    BY DEF TypeOK, Frame
  <2>2. posted' \in Seq(Frame)
    BY <1>7, <2>1, AppendProperties DEF Draw
  <2>3. draining' \in 0 .. 4 /\ update' \in AtMostOne(Row)
    BY <1>7 DEF Draw, TypeOK, AtMostOne
  <2> QED
    BY <1>0, <1>7, <2>2, <2>3
    DEF Draw, TypeOK, othersThanWriter, emitterVars, processorVars, screenVars
<1>8. CASE ShowFrame
  <2>1. posted \in Seq(Frame)
    BY DEF TypeOK
  <2>2. PICK k \in DOMAIN posted :
          /\ screen' = IF posted[k].delete THEN {}
                       ELSE IF posted[k].update # {} THEN posted[k].update ELSE screen
          /\ posted' = SubSeq(posted, 1, k - 1) \o SubSeq(posted, k + 1, Len(posted))
    BY <1>8 DEF ShowFrame
  <2>3. k \in 1 .. Len(posted) /\ Len(posted) \in Nat /\ posted[k] \in Frame
    BY <2>1, LenProperties, ElementOfSeq
  <2>4. SubSeq(posted, 1, k - 1) \in Seq(Frame)
    BY <2>1, <2>3, SubSeqProperties, ElementOfSeq
  <2>5. SubSeq(posted, k + 1, Len(posted)) \in Seq(Frame)
    BY <2>1, <2>3, SubSeqProperties, ElementOfSeq
  <2>6. posted' \in Seq(Frame)
    BY <2>2, <2>4, <2>5, ConcatProperties
  <2>7. screen' \in AtMostOne(Row)
    BY <2>2, <2>3 DEF TypeOK, AtMostOne, Frame
  <2> QED
    BY <1>0, <1>8, <2>6, <2>7
    DEF ShowFrame, TypeOK, othersThanScreen, emitterVars, processorVars, writerVars
<1>9. CASE WriterReturns \/ StopWriter \/ StopReturns \/ CallStop
  BY <1>0, <1>9
  DEF WriterReturns, StopWriter, StopReturns, CallStop, TypeOK, othersThanWriter,
      othersThanMain, emitterVars, processorVars, screenVars
<1>10. CASE AppStarts \/ PressQ \/ HandleSignals \/ AppQuits
  BY <1>0, <1>10
  DEF AppStarts, PressQ, HandleSignals, AppQuits, TypeOK, othersThanScreen, emitterVars,
      processorVars, writerVars
<1>11. CASE UNCHANGED vars
  BY <1>0, <1>11
  DEF vars, TypeOK, emitterVars, processorVars, writerVars, screenVars
<1> QED
  BY <1>1, <1>2, <1>3, <1>4, <1>5, <1>6, <1>7, <1>8, <1>9, <1>10, <1>11 DEF Next
----------------------------------------------------------------------------
(* The order of rows *)

\* What is under way is rows.
LEMMA RowsUnderWay ==
  ASSUME TypeOK
  PROVE  UnderWay \subseteq Row /\ known \subseteq Row
<1>1. \A k \in DOMAIN posted : posted[k].update \in AtMostOne(Row)
  <2>1. posted \in Seq(Frame)
    BY DEF TypeOK
  <2>2. \A k \in DOMAIN posted : posted[k] \in Frame
    BY <2>1, ElementOfSeq, LenProperties
  <2> QED
    BY <2>2 DEF Frame
<1>2. \A k \in DOMAIN hand : hand[k].row \in Row
  <2>1. hand \in Seq(Message)
    BY DEF TypeOK
  <2>2. \A k \in DOMAIN hand : hand[k] \in Message
    BY <2>1, ElementOfSeq, LenProperties
  <2> QED
    BY <2>2 DEF Message
<1>3. \A k \in DOMAIN rowch : rowch[k] \in Row
  BY ElementOfSeq, LenProperties DEF TypeOK
<1>4. \A S \in AtMostOne(Row) : S \subseteq Row
  BY DEF AtMostOne
<1>5. screen \subseteq Row /\ update \subseteq Row /\ known \subseteq Row
  BY <1>4 DEF TypeOK
<1>6. Posted \subseteq Row
  BY <1>1, <1>4 DEF Posted
<1>7. Channel \subseteq Row /\ Hand \subseteq Row
  BY <1>2, <1>3 DEF Channel, Hand
<1> QED
  BY <1>5, <1>6, <1>7 DEF UnderWay

\* A step that moves no row keeps them in order.
LEMMA NoRowMoves ==
  ASSUME UNCHANGED <<screen, posted, update, rowch, hand>>
  PROVE  /\ UnderWay' = UnderWay
         /\ StagesInOrder => StagesInOrder'
         /\ QueuesInOrder => QueuesInOrder'
BY DEF UnderWay, StagesInOrder, QueuesInOrder, Posted, Channel, Hand, Older

\* Neither does one that only throws rows away.
LEMMA RowsDropped ==
  ASSUME /\ screen' \subseteq screen /\ Posted' \subseteq Posted /\ update' \subseteq update
         /\ Channel' \subseteq Channel /\ Hand' \subseteq Hand
  PROVE  /\ UnderWay' \subseteq UnderWay
         /\ StagesInOrder => StagesInOrder'
BY DEF UnderWay, StagesInOrder, Older

\* A step that leaves the events and the map alone keeps them, if no row is new.
LEMMA SameMap ==
  ASSUME UNCHANGED <<known, inch, exited, emitted>>, UnderWay' \subseteq UnderWay
  PROVE  /\ MapIsYoungest => MapIsYoungest'
         /\ EventsInOrder => EventsInOrder'
BY DEF MapIsYoungest, EventsInOrder, Older

\* An event that is sent is the youngest of its goroutine, and none follows the exit.
LEMMA EventSent ==
  ASSUME TypeOK, calm, RowsInOrder, NEW e \in Event, Send(e), ~exited,
         UNCHANGED <<known, screen, posted, update, rowch, hand>>,
         emitted' \in Row, \A f \in Fields : emitted[f] <= emitted'[f],
         e.from # "exit" => e.n = emitted'[FieldOf(e)] /\ emitted[FieldOf(e)] < e.n,
         e.from = "exit" => exited'
  PROVE  RowsInOrder'
<1>1. inch \in Seq(Event) /\ inch' = Append(inch, e)
  BY DEF TypeOK, Send
<1>2. /\ Len(inch) \in Nat /\ DOMAIN inch = 1 .. Len(inch)
      /\ Len(inch') = Len(inch) + 1 /\ DOMAIN inch' = 1 .. Len(inch) + 1
      /\ \A k \in 1 .. Len(inch) : inch'[k] = inch[k] /\ inch[k] \in Event
      /\ inch'[Len(inch) + 1] = e
  BY <1>1, AppendProperties, LenProperties, ElementOfSeq
<1>3. \A f \in Fields :
        /\ emitted[f] \in Nat /\ emitted'[f] \in Nat /\ RowOf(known)[f] \in Nat
        /\ RowOf(known)[f] <= emitted[f] /\ emitted[f] <= emitted'[f]
  <2>1. RowOf(known) \in Row /\ emitted \in Row
    BY RowOfOne DEF TypeOK
  <2>2. \A f \in Fields : emitted[f] \in Nat /\ emitted'[f] \in Nat /\ RowOf(known)[f] \in Nat
    BY <2>1, DisplayAssumption DEF Row
  <2> QED
    BY <2>2 DEF RowsInOrder, EventsInOrder
<1>4. /\ e.n \in Nat
      /\ e.from # "exit" => FieldOf(e) \in Fields
      /\ \A k \in 1 .. Len(inch) :
           /\ inch[k].from # "exit" /\ inch[k].n \in Nat /\ FieldOf(inch[k]) \in Fields
           /\ RowOf(known)[FieldOf(inch[k])] < inch[k].n
           /\ inch[k].n <= emitted[FieldOf(inch[k])]
  BY <1>2, DisplayAssumption DEF RowsInOrder, EventsInOrder, Event, FieldOf, Fields
<1>5. EventsInOrder'
  <2>1. ASSUME NEW k \in 1 .. Len(inch) + 1
        PROVE  /\ inch'[k].from = "exit" => k = Len(inch) + 1 /\ exited'
               /\ inch'[k].from # "exit" =>
                    /\ RowOf(known)[FieldOf(inch'[k])] < inch'[k].n
                    /\ inch'[k].n <= emitted'[FieldOf(inch'[k])]
    <3>1. CASE k \in 1 .. Len(inch)
      BY <1>2, <1>3, <1>4, <3>1
    <3>2. CASE k = Len(inch) + 1
      <4>1. inch'[k] = e
        BY <1>2, <3>2
      <4>2. e.from # "exit" =>
              /\ FieldOf(e) \in Fields /\ e.n = emitted'[FieldOf(e)]
              /\ emitted[FieldOf(e)] < e.n
        BY <1>4
      <4>3. e.from # "exit" =>
              RowOf(known)[FieldOf(e)] < e.n /\ e.n <= emitted'[FieldOf(e)]
        BY <1>3, <1>4, <4>2
      <4> QED
        BY <3>2, <4>1, <4>3
    <3> QED
      BY <1>2, <3>1, <3>2
  <2>2. ASSUME NEW j \in 1 .. Len(inch) + 1, NEW k \in 1 .. Len(inch) + 1,
               j < k, FieldOf(inch'[j]) = FieldOf(inch'[k])
        PROVE  inch'[j].n < inch'[k].n
    <3>1. j \in 1 .. Len(inch) /\ inch'[j] = inch[j]
      BY <1>2, <2>2
    <3>2. CASE k \in 1 .. Len(inch)
      BY <1>2, <2>2, <3>1, <3>2 DEF RowsInOrder, EventsInOrder
    <3>3. CASE k = Len(inch) + 1
      <4>1. FieldOf(inch[j]) = FieldOf(e) /\ inch'[k] = e
        BY <1>2, <2>2, <3>1, <3>3
      <4>2. e.from # "exit"
        BY <1>4, <3>1, <4>1 DEF FieldOf, Fields
      <4> QED
        BY <1>3, <1>4, <3>1, <4>1, <4>2
    <3> QED
      BY <1>2, <3>2, <3>3
  <2>3. \A f \in Fields : RowOf(known')[f] <= emitted'[f]
    BY <1>3
  <2> QED
    BY <1>2, <2>1, <2>2, <2>3 DEF EventsInOrder, FieldOf
<1>6. MapIsYoungest'
  BY NoRowMoves DEF RowsInOrder, MapIsYoungest
<1> QED
  BY <1>5, <1>6, NoRowMoves DEF RowsInOrder

\* The row made of the next event is the youngest of all.
LEMMA EventHandled ==
  ASSUME TypeOK, EventsCounted, calm, RowsInOrder, HandleEvent
  PROVE  RowsInOrder'
<1> DEFINE e == Head(inch)
           r == Merged(RowOf(known), e)
<1>1. /\ inch \in Seq(Event) /\ inch # <<>>
      /\ e \in Event /\ e = inch[1] /\ Len(inch) \in Nat \ {0}
      /\ DOMAIN inch = 1 .. Len(inch) /\ DOMAIN inch' = 1 .. Len(inch) - 1
      /\ \A k \in 1 .. Len(inch) - 1 : inch'[k] = inch[k + 1]
      /\ Len(inch') = Len(inch) - 1
  BY HeadTailProperties, LenProperties, EmptySeq DEF HandleEvent, TypeOK
<1>2. UNCHANGED <<screen, posted, update, rowch, exited, emitted>>
  BY DEF HandleEvent, othersThanProcessor, emitterVars, writerVars, screenVars
<1>3. /\ known' = After(known, e)
      /\ hand' = <<[do |-> IF e.from = "exit" THEN "delete" ELSE "update", row |-> r]>>
      /\ hand = <<>>
  BY DEF HandleEvent
<1>4. known \in AtMostOne(Row) /\ RowOf(known) \in Row /\ (known # {} => known = {RowOf(known)})
  BY RowOfOne DEF TypeOK
<1>5. DOMAIN inch = 1 .. Len(inch) /\ 1 \in DOMAIN inch
  BY <1>1
<1>6. e.from # "exit" =>
        /\ e.n <= MaxEvents
        /\ RowOf(known)[FieldOf(e)] < e.n /\ e.n <= emitted[FieldOf(e)]
  BY <1>1, <1>5 DEF EventsCounted, RowsInOrder, EventsInOrder
<1>7. r \in Row /\ NotBefore(r, RowOf(known))
  BY <1>1, <1>4, <1>6, MergedRow, MergedNotBefore
<1>8. /\ Posted' = Posted /\ Channel' = Channel /\ Hand = {}
      /\ Hand' = IF e.from = "exit" THEN {} ELSE {r}
  <2>1. Posted' = Posted /\ Channel' = Channel /\ Hand = {}
    BY <1>2, <1>3 DEF Posted, Channel, Hand
  <2>2. Hand' = IF e.from = "exit" THEN {} ELSE {r}
    BY <1>3 DEF Hand
  <2> QED
    BY <2>1, <2>2
<1>9. Older(UnderWay, {r})
  <2>1. CASE known = {}
    BY <1>1, <2>1 DEF RowsInOrder, MapIsYoungest, Older
  <2>2. CASE known # {}
    <3>1. ASSUME NEW x \in UnderWay PROVE NotBefore(r, x)
      <4>1. x \in Row /\ NotBefore(RowOf(known), x)
        BY <1>4, <2>2, RowsUnderWay DEF RowsInOrder, MapIsYoungest, Older
      <4> QED
        BY <1>4, <1>7, <4>1, NotBeforeOrder
    <3> QED
      BY <3>1 DEF Older
  <2> QED
    BY <2>1, <2>2
<1>10. StagesInOrder' /\ QueuesInOrder'
  <2> HIDE DEF e, r
  <2>1. QueuesInOrder'
    BY <1>2 DEF RowsInOrder, QueuesInOrder, Older
  <2>2. StagesInOrder'
    BY <1>2, <1>8, <1>9 DEF RowsInOrder, StagesInOrder, Older, UnderWay
  <2> QED
    BY <2>1, <2>2
<1>11. CASE e.from = "exit"
  <2>1. exited /\ Len(inch) = 1
    BY <1>1, <1>11 DEF RowsInOrder, EventsInOrder
  <2>2. inch' = <<>>
    BY <1>1, <2>1, HeadTailProperties, EmptySeq DEF HandleEvent
  <2>3. known' = {} /\ \A f \in Fields : RowOf(known')[f] = 0 /\ emitted[f] \in Nat
    BY <1>3, <1>11, DisplayAssumption DEF After, RowOf, TypeOK, Row
  <2>4. EventsInOrder'
    BY <1>2, <2>2, <2>3 DEF EventsInOrder
  <2>5. MapIsYoungest'
    BY <1>2, <2>1, <2>2, <2>3 DEF MapIsYoungest, Older
  <2> QED
    BY <1>10, <2>4, <2>5 DEF RowsInOrder
<1>12. CASE e.from # "exit"
  <2>1. known' = {r} /\ RowOf(known') = r
    BY <1>3, <1>12 DEF After, RowOf
  <2> HIDE DEF r
  <2>2. UnderWay' = UnderWay \cup {r}
    BY <1>2, <1>8, <1>12 DEF UnderWay
  <2>3. MapIsYoungest'
    BY <1>7, <1>9, <2>1, <2>2, NotBeforeOrder DEF MapIsYoungest, Older
  <2>4. \A f \in Fields :
          /\ r[f] \in Nat /\ RowOf(known)[f] \in Nat /\ emitted[f] \in Nat
          /\ r[f] <= IF f = FieldOf(e) THEN e.n ELSE RowOf(known)[f]
          /\ r[f] <= emitted[f]
    <3>1. \A f \in Fields :
            /\ r[f] \in Nat /\ RowOf(known)[f] \in Nat /\ emitted[f] \in Nat
            /\ RowOf(known)[f] <= emitted[f]
      BY <1>4, <1>7, DisplayAssumption DEF TypeOK, Row, RowsInOrder, EventsInOrder
    <3>2. /\ FieldOf(e) \in Fields /\ r[FieldOf(e)] = e.n
          /\ \A f \in Fields \ {FieldOf(e)} : r[f] <= RowOf(known)[f]
      BY <1>1, <1>4, <1>6, <1>12, MergedRow DEF r
    <3> QED
      BY <1>6, <1>12, <3>1, <3>2
  <2> HIDE DEF e
  <2>5. /\ \A k \in 1 .. Len(inch) :
             /\ inch[k].from = "exit" => k = Len(inch) /\ exited
             /\ inch[k].from # "exit" =>
                  /\ RowOf(known)[FieldOf(inch[k])] < inch[k].n
                  /\ inch[k].n <= emitted[FieldOf(inch[k])]
             /\ inch[k].n \in Nat
             /\ inch[k].from # "exit" => FieldOf(inch[k]) \in Fields
        /\ \A j, k \in 1 .. Len(inch) :
             j < k /\ FieldOf(inch[j]) = FieldOf(inch[k]) => inch[j].n < inch[k].n
    <3>1. \A k \in 1 .. Len(inch) : inch[k] \in Event
      BY <1>1, ElementOfSeq
    <3>2. \A k \in 1 .. Len(inch) :
            inch[k].n \in Nat /\ (inch[k].from # "exit" => FieldOf(inch[k]) \in Fields)
      BY <3>1, DisplayAssumption DEF Event, FieldOf, Fields
    <3> QED
      BY <1>5, <3>2 DEF RowsInOrder, EventsInOrder
  <2>6. ASSUME NEW k \in 1 .. Len(inch) - 1
        PROVE  /\ inch'[k].from = "exit" => k = Len(inch) - 1 /\ exited
               /\ inch'[k].from # "exit" =>
                    /\ r[FieldOf(inch'[k])] < inch'[k].n
                    /\ inch'[k].n <= emitted[FieldOf(inch'[k])]
    <3>1. /\ inch'[k] = inch[k + 1] /\ k + 1 \in 1 .. Len(inch)
          /\ 1 \in 1 .. Len(inch) /\ 1 < k + 1 /\ k \in Nat /\ Len(inch) \in Nat
      BY <1>1
    <3>2. inch'[k].from = "exit" => k + 1 = Len(inch) /\ exited
      BY <2>5, <3>1
    <3>3. FieldOf(inch'[k]) = FieldOf(e) => e.n < inch'[k].n
      BY <1>1, <2>5, <3>1
    <3>4. inch'[k].from # "exit" =>
            /\ FieldOf(inch'[k]) \in Fields
            /\ RowOf(known)[FieldOf(inch'[k])] < inch'[k].n
            /\ inch'[k].n <= emitted[FieldOf(inch'[k])]
      BY <2>5, <3>1
    <3>5. inch'[k].n \in Nat /\ e.n \in Nat
      BY <1>1, <2>5, <3>1
    <3> QED
      BY <2>4, <3>1, <3>2, <3>3, <3>4, <3>5
  <2>7. ASSUME NEW j \in 1 .. Len(inch) - 1, NEW k \in 1 .. Len(inch) - 1,
               j < k, FieldOf(inch'[j]) = FieldOf(inch'[k])
        PROVE  inch'[j].n < inch'[k].n
    <3>1. /\ inch'[j] = inch[j + 1] /\ inch'[k] = inch[k + 1]
          /\ j + 1 \in 1 .. Len(inch) /\ k + 1 \in 1 .. Len(inch) /\ j + 1 < k + 1
      BY <1>1, <2>7
    <3> QED
      BY <2>5, <2>7, <3>1
  <2>8. EventsInOrder'
    BY <1>1, <1>2, <2>1, <2>4, <2>6, <2>7 DEF EventsInOrder, FieldOf
  <2> QED
    BY <1>10, <2>3, <2>8 DEF RowsInOrder
<1> QED
  BY <1>11, <1>12

\* What the processor holds goes to the end of the channel, or is dropped.
LEMMA RowHandedOver ==
  ASSUME TypeOK, RowsInOrder, HandOver
  PROVE  RowsInOrder'
<1>1. UNCHANGED <<screen, posted, update, known, inch, exited, emitted>> /\ hand' = <<>>
  BY DEF HandOver, othersThanProcessor, emitterVars, writerVars, screenVars
<1>2. Posted' = Posted /\ Hand' = {}
  BY <1>1 DEF Posted, Hand
<1>3. CASE rowch' = rowch
  <2>1. Channel' = Channel
    BY <1>3 DEF Channel
  <2>2. StagesInOrder' /\ UnderWay' \subseteq UnderWay
    BY <1>1, <1>2, <2>1, RowsDropped DEF RowsInOrder
  <2>3. QueuesInOrder'
    BY <1>1, <1>3 DEF RowsInOrder, QueuesInOrder, Older
  <2> QED
    BY <1>1, <2>2, <2>3, SameMap DEF RowsInOrder
<1>4. CASE Head(hand).do = "update" /\ rowch' = Append(rowch, Head(hand).row)
  <2>1. PICK r : r = Head(hand).row
    OBVIOUS
  <2>2. /\ hand \in Seq(Message) /\ hand # <<>> /\ rowch \in Seq(Row)
        /\ Len(rowch) \in Nat /\ DOMAIN rowch = 1 .. Len(rowch)
    BY LenProperties DEF HandOver, TypeOK
  <2>3. Head(hand) = hand[1] /\ 1 \in DOMAIN hand /\ hand[1] \in Message
    BY <2>2, EmptySeq, LenProperties, ElementOfSeq
  <2>4. r \in Hand /\ r \in Row
    BY <1>4, <2>1, <2>3 DEF Hand, Message
  <2>5. /\ Len(rowch') = Len(rowch) + 1 /\ DOMAIN rowch' = 1 .. Len(rowch) + 1
        /\ \A k \in 1 .. Len(rowch) : rowch'[k] = rowch[k]
        /\ rowch'[Len(rowch) + 1] = r
    BY <1>4, <2>1, <2>2, <2>4, AppendProperties, LenProperties
  <2>6. Channel' = Channel \cup {r}
    BY <2>2, <2>5 DEF Channel
  <2>7. StagesInOrder' /\ UnderWay' \subseteq UnderWay
    BY <1>1, <1>2, <2>4, <2>6 DEF RowsInOrder, StagesInOrder, Older, UnderWay
  <2>8. \A k \in 1 .. Len(rowch) : NotBefore(r, rowch[k])
    BY <2>2, <2>4 DEF RowsInOrder, StagesInOrder, Older, Channel
  <2>9. \A j, k \in DOMAIN rowch' : j < k => NotBefore(rowch'[k], rowch'[j])
    BY <2>2, <2>5, <2>8 DEF RowsInOrder, QueuesInOrder
  <2>10. QueuesInOrder'
    BY <1>1, <2>9 DEF RowsInOrder, QueuesInOrder, Older
  <2> QED
    BY <1>1, <2>7, <2>10, SameMap DEF RowsInOrder
<1> QED
  BY <1>3, <1>4 DEF HandOver

\* The writer takes the oldest row of the channel, in place of one that is older.
LEMMA RowTaken ==
  ASSUME TypeOK, RowsInOrder, TakeRow
  PROVE  RowsInOrder'
<1>1. /\ UNCHANGED <<screen, posted, hand, known, inch, exited, emitted>>
      /\ update' = {Head(rowch)} /\ rowch' = Tail(rowch) /\ rowch # <<>>
  BY DEF TakeRow, othersThanWriter, emitterVars, processorVars, screenVars
<1>2. Posted' = Posted /\ Hand' = Hand
  BY <1>1 DEF Posted, Hand
<1>3. PICK r : r = Head(rowch)
  OBVIOUS
<1>4. /\ rowch \in Seq(Row) /\ DOMAIN rowch = 1 .. Len(rowch) /\ Len(rowch) \in Nat \ {0}
      /\ r = rowch[1] /\ r \in Row
      /\ DOMAIN rowch' = 1 .. Len(rowch) - 1
      /\ \A k \in 1 .. Len(rowch) - 1 : rowch'[k] = rowch[k + 1]
  BY <1>1, <1>3, HeadTailProperties, LenProperties, EmptySeq DEF TypeOK
<1>5. Channel' \subseteq Channel /\ r \in Channel
  <2>1. \A k \in DOMAIN rowch' : rowch'[k] = rowch[k + 1] /\ k + 1 \in DOMAIN rowch
    BY <1>4
  <2>2. 1 \in DOMAIN rowch
    BY <1>4
  <2> QED
    BY <1>4, <2>1, <2>2 DEF Channel
<1>6. \A x \in Channel' : NotBefore(x, r)
  <2>1. \A k \in DOMAIN rowch' :
          1 < k + 1 /\ rowch'[k] = rowch[k + 1] /\ k + 1 \in DOMAIN rowch /\ 1 \in DOMAIN rowch
    BY <1>4
  <2> QED
    BY <1>4, <2>1 DEF RowsInOrder, QueuesInOrder, Channel
<1>7. StagesInOrder' /\ UnderWay' \subseteq UnderWay
  BY <1>1, <1>2, <1>3, <1>5, <1>6 DEF RowsInOrder, StagesInOrder, Older, UnderWay
<1>8. QueuesInOrder'
  <2>1. \A j, k \in 1 .. Len(rowch) - 1 : j < k => NotBefore(rowch'[k], rowch'[j])
    BY <1>4 DEF RowsInOrder, QueuesInOrder
  <2> QED
    BY <1>1, <1>4, <2>1 DEF RowsInOrder, QueuesInOrder, Older
<1> QED
  BY <1>1, <1>7, <1>8, SameMap DEF RowsInOrder

\* The row that is drawn goes behind the frames that have been posted.
LEMMA RowDrawn ==
  ASSUME TypeOK, RowsInOrder, Draw
  PROVE  RowsInOrder'
<1>1. UNCHANGED <<screen, rowch, hand, known, inch, exited, emitted>> /\ update' = {}
  BY DEF Draw, othersThanWriter, emitterVars, processorVars, screenVars
<1>2. Channel' = Channel /\ Hand' = Hand
  BY <1>1 DEF Channel, Hand
<1>3. CASE posted' = posted
  <2>1. Posted' = Posted
    BY <1>3 DEF Posted
  <2>2. StagesInOrder' /\ UnderWay' \subseteq UnderWay
    BY <1>1, <1>2, <2>1, RowsDropped DEF RowsInOrder
  <2>3. QueuesInOrder'
    BY <1>1, <1>3 DEF RowsInOrder, QueuesInOrder, Older
  <2> QED
    BY <1>1, <2>2, <2>3, SameMap DEF RowsInOrder
<1>4. CASE posted' = Append(posted, [update |-> update, delete |-> delete])
  <2>1. PICK f : f = [update |-> update, delete |-> delete]
    OBVIOUS
  <2>2. f \in Frame /\ f.update = update /\ posted \in Seq(Frame)
    BY <2>1 DEF TypeOK, Frame
  <2>3. /\ Len(posted) \in Nat /\ DOMAIN posted = 1 .. Len(posted)
        /\ Len(posted') = Len(posted) + 1 /\ DOMAIN posted' = 1 .. Len(posted) + 1
        /\ \A k \in 1 .. Len(posted) : posted'[k] = posted[k]
        /\ posted'[Len(posted) + 1].update = update
    BY <1>4, <2>1, <2>2, AppendProperties, LenProperties
  <2>4. Posted' = Posted \cup update
    BY <2>3 DEF Posted
  <2>5. StagesInOrder' /\ UnderWay' \subseteq UnderWay
    BY <1>1, <1>2, <2>4 DEF RowsInOrder, StagesInOrder, Older, UnderWay
  <2>6. \A k \in 1 .. Len(posted) : Older(posted[k].update, update)
    BY <2>3 DEF RowsInOrder, StagesInOrder, Older, Posted
  <2>7. \A j, k \in DOMAIN posted' : j < k => Older(posted'[j].update, posted'[k].update)
    BY <2>3, <2>6 DEF RowsInOrder, QueuesInOrder
  <2>8. QueuesInOrder'
    BY <1>1, <2>7 DEF RowsInOrder, QueuesInOrder, Older
  <2> QED
    BY <1>1, <2>5, <2>8, SameMap DEF RowsInOrder
<1> QED
  BY <1>3, <1>4 DEF Draw

\* In calm surroundings the application shows the oldest frame.
LEMMA FirstFrame ==
  ASSUME TypeOK, calm, ShowFrame
  PROVE  /\ posted \in Seq(Frame) /\ posted # <<>> /\ posted' = Tail(posted)
         /\ screen' = IF posted[1].delete THEN {}
                      ELSE IF posted[1].update # {} THEN posted[1].update ELSE screen
         /\ DOMAIN posted = 1 .. Len(posted) /\ Len(posted) \in Nat \ {0}
<1>1. PICK k \in DOMAIN posted :
        /\ k = 1
        /\ screen' = IF posted[k].delete THEN {}
                     ELSE IF posted[k].update # {} THEN posted[k].update ELSE screen
        /\ posted' = SubSeq(posted, 1, k - 1) \o SubSeq(posted, k + 1, Len(posted))
  BY DEF ShowFrame
<1>2. posted \in Seq(Frame) /\ DOMAIN posted = 1 .. Len(posted) /\ Len(posted) \in Nat \ {0}
  BY <1>1, LenProperties DEF TypeOK
<1>3. posted # <<>>
  BY <1>2, EmptySeq
<1>4. SubSeq(posted, 1, 0) = <<>>
  BY SubSeqEmpty
<1>5. SubSeq(posted, 2, Len(posted)) = Tail(posted) /\ Tail(posted) \in Seq(Frame)
  BY <1>2, <1>3, TailIsSubSeq, HeadTailProperties
<1>6. posted' = <<>> \o Tail(posted)
  BY <1>1, <1>4, <1>5
<1>7. posted' = Tail(posted)
  BY <1>5, <1>6, ConcatEmptySeq
<1> QED
  BY <1>1, <1>2, <1>3, <1>7

\* It takes the place of an older row.
LEMMA FrameShown ==
  ASSUME TypeOK, calm, RowsInOrder, ShowFrame
  PROVE  /\ RowsInOrder'
         /\ \A old \in screen, new \in screen' : NotBefore(new, old)
<1>1. /\ UNCHANGED <<update, rowch, hand, known, inch, exited, emitted>>
      /\ posted \in Seq(Frame) /\ posted # <<>> /\ posted' = Tail(posted)
      /\ DOMAIN posted = 1 .. Len(posted) /\ Len(posted) \in Nat \ {0}
      /\ screen' = {} \/ screen' = screen \/ screen' = posted[1].update
  BY FirstFrame DEF ShowFrame, othersThanScreen, emitterVars, processorVars, writerVars
<1>2. Channel' = Channel /\ Hand' = Hand
  BY <1>1 DEF Channel, Hand
<1>3. /\ DOMAIN posted' = 1 .. Len(posted) - 1
      /\ \A k \in 1 .. Len(posted) - 1 : posted'[k] = posted[k + 1]
  BY <1>1, HeadTailProperties, LenProperties
<1>4. \A k \in DOMAIN posted' :
        1 < k + 1 /\ posted'[k] = posted[k + 1] /\ k + 1 \in DOMAIN posted /\ 1 \in DOMAIN posted
  BY <1>1, <1>3
<1>5. Posted' \subseteq Posted /\ posted[1].update \subseteq Posted
  BY <1>1, <1>4 DEF Posted
<1>6. Older(posted[1].update, Posted')
  BY <1>4 DEF RowsInOrder, QueuesInOrder, Older, Posted
<1>7. StagesInOrder' /\ UnderWay' \subseteq UnderWay
  <2>1. CASE screen' = {} \/ screen' = screen
    BY <1>1, <1>2, <1>5, <2>1, RowsDropped DEF RowsInOrder
  <2>2. CASE screen' = posted[1].update
    BY <1>1, <1>2, <1>5, <1>6, <2>2 DEF RowsInOrder, StagesInOrder, Older, UnderWay
  <2> QED
    BY <1>1, <2>1, <2>2
<1>8. QueuesInOrder'
  <2>1. \A j, k \in 1 .. Len(posted) - 1 :
          j < k => Older(posted'[j].update, posted'[k].update)
    BY <1>1, <1>3 DEF RowsInOrder, QueuesInOrder
  <2> QED
    BY <1>1, <1>3, <2>1 DEF RowsInOrder, QueuesInOrder, Older
<1>9. \A old \in screen, new \in screen' : NotBefore(new, old)
  <2>1. screen \subseteq Row /\ screen \in AtMostOne(Row)
    BY RowsUnderWay DEF TypeOK, UnderWay
  <2>2. CASE screen' = {}
    BY <2>2
  <2>3. CASE screen' = screen
    BY <2>1, <2>3, NotBeforeOrder DEF AtMostOne
  <2>4. CASE screen' = posted[1].update
    BY <1>5, <2>4 DEF RowsInOrder, StagesInOrder, Older
  <2> QED
    BY <1>1, <2>2, <2>3, <2>4
<1> QED
  BY <1>1, <1>7, <1>8, <1>9, SameMap DEF RowsInOrder

\* In calm surroundings every step keeps the rows in order.
LEMMA OrderStep ==
  ASSUME TypeOK, EventsCounted, calm, RowsInOrder, [Next]_vars
  PROVE  RowsInOrder'
<1>0. ASSUME UNCHANGED <<screen, posted, update, rowch, hand>>,
             UNCHANGED <<known, inch, exited, emitted>>
      PROVE  RowsInOrder'
  BY <1>0, NoRowMoves, SameMap DEF RowsInOrder
<1>1. ASSUME NEW f \in Fields, Emit(f) PROVE RowsInOrder'
  <2>1. PICK from \in {f, "reset"} :
          /\ Send([from |-> from, n |-> emitted'[f]])
          /\ from = "reset" => f = "main"
    BY <1>1 DEF Emit, Fields
  <2>2. PICK e : e = [from |-> from, n |-> emitted'[f]]
    OBVIOUS
  <2>3. /\ ~exited
        /\ UNCHANGED <<known, screen, posted, update, rowch, hand>>
    BY <1>1 DEF Emit, othersThanEmitters, processorVars, writerVars, screenVars
  <2>4. /\ emitted' \in Row /\ \A g \in Fields : emitted[g] <= emitted'[g]
        /\ emitted'[f] \in 1 .. MaxEvents /\ emitted[f] < emitted'[f]
    BY <1>1, DisplayAssumption DEF Emit, TypeOK, Row, Fields
  <2>5. /\ e \in Event /\ e.from # "exit"
        /\ FieldOf(e) = f /\ e.n = emitted'[f]
    BY <2>1, <2>2, <2>4, DisplayAssumption DEF Event, Fields, FieldOf
  <2> QED
    BY <2>1, <2>2, <2>3, <2>4, <2>5, EventSent
<1>2. CASE EmitExited
  <2>1. PICK e : e = [from |-> "exit", n |-> emitted["main"] + 1]
    OBVIOUS
  <2>2. /\ ~exited /\ exited' /\ Send(e)
        /\ UNCHANGED <<emitted, known, screen, posted, update, rowch, hand>>
    BY <1>2, <2>1 DEF EmitExited, othersThanEmitters, processorVars, writerVars, screenVars
  <2>3. emitted \in Row /\ \A f \in Fields : emitted[f] \in 0 .. MaxEvents
    BY DEF TypeOK, Row
  <2>4. e \in Event /\ e.from = "exit"
    BY <2>1, <2>3, DisplayAssumption DEF Event, Fields
  <2>5. \A f \in Fields : emitted[f] <= emitted'[f]
    BY <2>2, <2>3, DisplayAssumption
  <2> QED
    BY <2>2, <2>3, <2>4, <2>5, EventSent
<1>3. CASE HandleEvent
  BY <1>3, EventHandled
<1>4. CASE HandOver
  BY <1>4, RowHandedOver
<1>5. CASE TakeRow
  BY <1>5, RowTaken
<1>6. CASE Draw
  BY <1>6, RowDrawn
<1>7. CASE ShowFrame
  BY <1>7, FrameShown
<1>8. CASE TakeDelete \/ WriterReturns
  BY <1>0, <1>8
  DEF TakeDelete, WriterReturns, othersThanWriter, emitterVars, processorVars, screenVars
<1>9. CASE AppStarts \/ PressQ \/ HandleSignals \/ AppQuits
  BY <1>0, <1>9
  DEF AppStarts, PressQ, HandleSignals, AppQuits, othersThanScreen, emitterVars,
      processorVars, writerVars
<1>10. CASE CallStop \/ StopWriter \/ StopReturns
  BY <1>0, <1>10
  DEF CallStop, StopWriter, StopReturns, othersThanMain, emitterVars, processorVars,
      screenVars
<1>11. CASE UNCHANGED vars
  BY <1>0, <1>11 DEF vars, emitterVars, processorVars, writerVars, screenVars
<1> QED
  BY <1>1, <1>2, <1>3, <1>4, <1>5, <1>6, <1>7, <1>8, <1>9, <1>10, <1>11 DEF Next

\* The surroundings do not change.
LEMMA SameWeather == ASSUME [Next]_vars PROVE calm' = calm
<1>1. CASE EmitExited \/ \E f \in Fields : Emit(f)
  BY <1>1 DEF EmitExited, Emit, othersThanEmitters
<1>2. CASE HandleEvent \/ HandOver
  BY <1>2 DEF HandleEvent, HandOver, othersThanProcessor, emitterVars
<1>3. CASE TakeRow \/ TakeDelete \/ Draw \/ WriterReturns
  BY <1>3 DEF TakeRow, TakeDelete, Draw, WriterReturns, othersThanWriter, emitterVars
<1>4. CASE AppStarts \/ ShowFrame \/ PressQ \/ HandleSignals \/ AppQuits
  BY <1>4
  DEF AppStarts, ShowFrame, PressQ, HandleSignals, AppQuits, othersThanScreen, emitterVars
<1>5. CASE CallStop \/ StopWriter \/ StopReturns
  BY <1>5 DEF CallStop, StopWriter, StopReturns, othersThanMain, emitterVars
<1>6. CASE UNCHANGED vars
  BY <1>6 DEF vars, emitterVars
<1> QED
  BY <1>1, <1>2, <1>3, <1>4, <1>5, <1>6 DEF Next

\* Only the application changes the screen.
LEMMA SameScreen == ASSUME [Next]_vars PROVE ShowFrame \/ screen' = screen
<1>1. CASE EmitExited \/ \E f \in Fields : Emit(f)
  BY <1>1 DEF EmitExited, Emit, othersThanEmitters, screenVars
<1>2. CASE HandleEvent \/ HandOver
  BY <1>2 DEF HandleEvent, HandOver, othersThanProcessor, screenVars
<1>3. CASE TakeRow \/ TakeDelete \/ Draw \/ WriterReturns
  BY <1>3 DEF TakeRow, TakeDelete, Draw, WriterReturns, othersThanWriter, screenVars
<1>4. CASE AppStarts \/ PressQ \/ HandleSignals \/ AppQuits
  BY <1>4 DEF AppStarts, PressQ, HandleSignals, AppQuits
<1>5. CASE CallStop \/ StopWriter \/ StopReturns
  BY <1>5 DEF CallStop, StopWriter, StopReturns, othersThanMain, screenVars
<1>6. CASE UNCHANGED vars
  BY <1>6 DEF vars, screenVars
<1> QED
  BY <1>1, <1>2, <1>3, <1>4, <1>5, <1>6 DEF Next

----------------------------------------------------------------------------
(* Theorems *)

\* At the start there are no rows and no events.
LEMMA InitInv == Init => IInv
<1> SUFFICES ASSUME Init PROVE IInv
  OBVIOUS
<1>1. TypeOK
  <2>1. emitted \in Row
    BY DisplayAssumption DEF Init, Row, Fields
  <2>2. app \in {"starting", "polling", "quitting", "over"} /\ calm \in Weathers
    BY DEF Init
  <2>3. {said, known, update, screen} \subseteq AtMostOne(Row)
    BY DEF Init, AtMostOne
  <2>4. /\ inch \in Seq(Event) /\ hand \in Seq(Message)
        /\ rowch \in Seq(Row) /\ posted \in Seq(Frame)
        /\ Len(inch) = 0 /\ Len(hand) = 0 /\ Len(rowch) = 0
    BY DEF Init
  <2>5. /\ kind \in {"pool", "container"} /\ {exited, delete, asked} \subseteq BOOLEAN
        /\ delch = 0 /\ draining = 0 /\ ui = "up"
    BY DEF Init
  <2> QED
    BY <2>1, <2>2, <2>3, <2>4, <2>5, DisplayAssumption DEF TypeOK
<1>2. EventsCounted
  BY DEF Init, EventsCounted
<1>3. Posted = {} /\ Channel = {} /\ Hand = {} /\ screen = {} /\ update = {}
  BY DEF Init, Posted, Channel, Hand
<1>4. \A f \in Fields : RowOf(known)[f] = 0 /\ emitted[f] = 0
  BY DEF Init, RowOf
<1>5. StagesInOrder /\ MapIsYoungest
  BY <1>3 DEF Init, StagesInOrder, MapIsYoungest, UnderWay, Older
<1>6. QueuesInOrder /\ EventsInOrder
  BY <1>4 DEF Init, QueuesInOrder, EventsInOrder
<1> QED
  BY <1>1, <1>2, <1>5, <1>6 DEF IInv, RowsInOrder

\* The types, and in calm surroundings the order of events and rows from the
\* emitters to the screen (processor, run, draw, handleUpdates).
THEOREM DisplayInvariance == Spec => []IInv
<1>1. IInv /\ [Next]_vars => IInv'
  <2> SUFFICES ASSUME IInv, [Next]_vars PROVE IInv'
    OBVIOUS
  <2>1. TypeOK' /\ EventsCounted'
    BY TypeStep DEF IInv
  <2>2. calm' = calm
    BY SameWeather
  <2>3. calm => RowsInOrder'
    BY <2>1, OrderStep DEF IInv
  <2> QED
    BY <2>1, <2>2, <2>3 DEF IInv
<1> QED
  BY InitInv, <1>1, PTL DEF Spec

\* Type correctness: in particular no channel holds more than it may.
THEOREM TypeCorrect == Spec => []TypeOK
BY DisplayInvariance, PTL DEF IInv

\* In calm surroundings a row does not go back to what it showed before, in its first
\* field or, while that stays, in its second, for any capacity of the channels, any number of events and of frames under way.
THEOREM RowNeverBack == Spec => NeverBack
<1>1. IInv /\ [Next]_vars =>
        [calm => \A old \in screen, new \in screen' : NotBefore(new, old)]_vars
  <2> SUFFICES ASSUME IInv, [Next]_vars, calm
               PROVE  \A old \in screen, new \in screen' : NotBefore(new, old)
    OBVIOUS
  <2>1. CASE ShowFrame
    BY <2>1, FrameShown DEF IInv
  <2>2. CASE screen' = screen
    <3>1. screen \in AtMostOne(Row)
      BY DEF IInv, TypeOK
    <3> QED
      BY <2>2, <3>1, NotBeforeOrder DEF AtMostOne
  <2> QED
    BY <2>1, <2>2, SameScreen
<1> QED
  BY <1>1, DisplayInvariance, PTL DEF Spec, NeverBack
=============================================================================
