----------------------------- MODULE PoolProofs -----------------------------
(***************************************************************************)
(* Proofs about Pool, for every size, any clients and any finite number of  *)
(* containers.  First what concerns the items, the buffer and the clients   *)
(* (OwnInv); with it, that Pool implements Backlog; and from that what is   *)
(* proved of Backlog, for Pool.                                             *)
(***************************************************************************)
EXTENDS Pool, FiniteSetTheorems, SequenceTheorems, TLAPS

\* The types of what Pool adds to the spawner and the main loop of Backlog.
PlaceTypes ==
  /\ calm \in Weathers /\ image \in BOOLEAN
  /\ initch \in {"open", "none", "error"}
  /\ items \subseteq Items
  /\ faults \in 0 .. MaxFaults
  /\ buf \in Seq(Items)
  /\ bufst \in {"open", "closing", "closed"}
  /\ cl \in [Clients -> ClientStates]
  /\ has \in [Clients -> Items \cup {NoItem}]
  /\ stopper \in [Stoppers -> StopperStates]

OwnTypes == ContractTypeOK /\ PlaceTypes

\* The pool has the items that are joined and have not exited; only those answer.
Owning ==
  \A i \in Items : /\ i \in items <=> Joined(i)
                   /\ owed[i] > 0 => Joined(i)

\* The buffer is stopped when a Stop has been received, not before.
BufferFollows ==
  bufst = "open" <=> pool \notin {"drainSpawner", "drainItems", "done"}

Offered(i) == \E k \in DOMAIN buf : buf[k] = i
Held(i) == \E c \in Clients : has[c] = i

\* The phases of an item that has not been ready yet.
Unready == {"none", "starting"}

\* InOnePlace said without counting, and what it needs: an item that has not been
\* ready yet is nowhere.
OnePlace ==
  /\ \A j, k \in DOMAIN buf : buf[j] = buf[k] => j = k
  /\ \A c, d \in Clients : has[c] = has[d] /\ has[c] # NoItem => c = d
  /\ \A i \in Items :
       /\ owed[i] <= 1
       /\ ~(Offered(i) /\ Held(i))
       /\ owed[i] > 0 \/ phase[i] \in Unready => ~Offered(i) /\ ~Held(i)

OwnInv ==
  /\ OwnTypes
  /\ Owning
  /\ BufferFollows
  /\ ~MayRepeat => OnePlace

IInv == TypeOK /\ OwnInv

----------------------------------------------------------------------------
(* The contract *)

\* What items do and what is done to them keeps their types (ItemContract).
LEMMA ContractTypes ==
  ASSUME ContractTypeOK, NEW i \in Items,
         \/ StartItem(i) \/ DiscardItem(i) \/ ResetItem(i)
         \/ SendReady(i) \/ GiveUp(i) \/ LoseReset(i) \/ SendExit(i)
  PROVE  ContractTypeOK'
<1> USE ContractAssumption DEF ContractTypeOK, Phases
<1>1. CASE StartItem(i)
  BY <1>1 DEF StartItem
<1>2. CASE DiscardItem(i)
  BY <1>2 DEF DiscardItem
<1>3. CASE ResetItem(i)
  BY <1>3 DEF ResetItem
<1>4. CASE SendReady(i)
  BY <1>4 DEF SendReady
<1>5. CASE GiveUp(i)
  BY <1>5 DEF GiveUp
<1>6. CASE LoseReset(i)
  BY <1>6 DEF LoseReset
<1>7. CASE SendExit(i)
  BY <1>7 DEF SendExit
<1> QED
  BY <1>1, <1>2, <1>3, <1>4, <1>5, <1>6, <1>7

\* A step keeps the types of the contract.
LEMMA ContractStep ==
  ASSUME ContractTypeOK, items \subseteq Items, [Next]_poolVars
  PROVE  ContractTypeOK'
<1>1. ASSUME UNCHANGED contractVars PROVE ContractTypeOK'
  BY <1>1 DEF ContractTypeOK, contractVars
<1>2. CASE LoopStep
  <2>1. CASE ImageReady \/ ImageFails \/ SendRequest
    BY <1>1, <2>1 DEF ImageReady, ImageFails, SendRequest
  <2>2. ASSUME NEW i \in Items, TakeItem(i) \/ ItemReady(i) \/ ItemExit(i) \/ StrayReturn(i)
        PROVE  ContractTypeOK'
    BY <2>2, ContractTypes DEF TakeItem, ItemReady, ItemExit, StrayReturn
  <2>3. ASSUME NEW c \in Clients, ReturnReceived(c) PROVE ContractTypeOK'
    BY <1>1, <2>3, ContractTypes DEF ReturnReceived
  <2>4. ASSUME NEW s \in Stoppers, Shutdown(s) PROVE ContractTypeOK'
    BY <2>4 DEF Shutdown, KillItems, ContractTypeOK
  <2> QED
    BY <1>2, <2>1, <2>2, <2>3, <2>4 DEF LoopStep
<1>3. CASE DrainStep
  <2>1. ASSUME NEW i \in Items, DrainTake(i) \/ DrainReady(i) \/ DrainExit(i)
        PROVE  ContractTypeOK'
    BY <2>1, ContractTypes DEF DrainTake, DrainReady, DrainExit
  <2>2. CASE SpawnerDrained \/ ItemsDrained \/ \E c \in Clients : DrainReturn(c)
    BY <1>1, <2>2 DEF SpawnerDrained, ItemsDrained, DrainReturn
  <2> QED
    BY <1>3, <2>1, <2>2 DEF DrainStep
<1>4. ASSUME NEW i \in Items, ItemAlone(i) PROVE ContractTypeOK'
  BY <1>4, ContractTypes DEF ItemAlone
<1>5. CASE SpawnerStep \/ BufferStop
  BY <1>1, <1>5
  DEF SpawnerStep, SpawnerReads, CreationFails, CreationSucceeds, SpawnerEnds,
      othersThanSpawner, BufferStop
<1>6. ASSUME NEW c \in Clients, ClientStep(c) PROVE ContractTypeOK'
  BY <1>1, <1>6
  DEF ClientStep, CallCheckout, Checkout, CheckoutFails, CallReturn, ReturnAfterDone,
      Vanish, othersThanClients
<1>7. ASSUME NEW s \in Stoppers,
             CallWaitReady(s) \/ WaitReadyReturns(s) \/ CallStop(s) \/ StopReturns(s)
      PROVE  ContractTypeOK'
  BY <1>1, <1>7 DEF CallWaitReady, WaitReadyReturns, CallStop, StopReturns
<1>8. CASE UNCHANGED poolVars
  BY <1>1, <1>8 DEF poolVars
<1> QED
  BY <1>2, <1>3, <1>4, <1>5, <1>6, <1>7, <1>8 DEF Next

----------------------------------------------------------------------------
(* The buffer, the clients and the callers *)

\* A step keeps what clients, callers, the buffer and the pool have in their types.
LEMMA PlaceStep ==
  ASSUME PlaceTypes, [Next]_poolVars
  PROVE  PlaceTypes'
<1> USE PoolAssumption DEF PlaceTypes, ClientStates, StopperStates
<1>1. CASE LoopStep
  <2>1. CASE ImageReady \/ ImageFails \/ SendRequest
    BY <2>1 DEF ImageReady, ensureImage, ImageFails, SendRequest, bufVars, clientVars
  <2>2. ASSUME NEW i \in Items, TakeItem(i) PROVE PlaceTypes'
    BY <2>2 DEF TakeItem, bufVars, clientVars, envVars, initVars
  <2>3. ASSUME NEW i \in Items, ItemReady(i) PROVE PlaceTypes'
    BY <2>3 DEF ItemReady, loopVars, clientVars, envVars, initVars
  <2>4. ASSUME NEW i \in Items, ItemExit(i) \/ StrayReturn(i) PROVE PlaceTypes'
    BY <2>4 DEF ItemExit, StrayReturn, Fault, loopVars, bufVars, clientVars, envVars, initVars
  <2>5. ASSUME NEW c \in Clients, ReturnReceived(c) PROVE PlaceTypes'
    BY <2>5 DEF ReturnReceived, LetGo, loopVars, bufVars, envVars, initVars
  <2>6. ASSUME NEW s \in Stoppers, Shutdown(s) PROVE PlaceTypes'
    BY <2>6 DEF Shutdown, clientVars, initVars
  <2> QED
    BY <1>1, <2>1, <2>2, <2>3, <2>4, <2>5, <2>6 DEF LoopStep
<1>2. CASE DrainStep
  <2>1. ASSUME NEW i \in Items, DrainTake(i) \/ DrainReady(i) \/ DrainExit(i)
        PROVE  PlaceTypes'
    BY <2>1 DEF DrainTake, DrainReady, DrainExit, loopVars, bufVars, clientVars, envVars,
       initVars
  <2>2. ASSUME NEW c \in Clients, DrainReturn(c) PROVE PlaceTypes'
    BY <2>2 DEF DrainReturn, LetGo, loopVars, bufVars, envVars, initVars
  <2>3. CASE SpawnerDrained \/ ItemsDrained
    BY <2>3 DEF SpawnerDrained, ItemsDrained, bufVars, clientVars, envVars, initVars
  <2> QED
    BY <1>2, <2>1, <2>2, <2>3 DEF DrainStep
<1>3. ASSUME NEW i \in Items, ItemAlone(i) PROVE PlaceTypes'
  BY <1>3 DEF ItemAlone, Fault, loopVars, bufVars, clientVars, envVars, initVars
<1>4. CASE SpawnerStep
  BY <1>4 DEF SpawnerStep, SpawnerReads, CreationFails, CreationSucceeds, SpawnerEnds,
     othersThanSpawner, loopVars, bufVars, clientVars, envVars, initVars
<1>5. CASE BufferStop
  BY <1>5 DEF BufferStop, loopVars, clientVars, envVars, initVars
<1>6. ASSUME NEW c \in Clients, ClientStep(c) PROVE PlaceTypes'
  <2>1. CASE CallCheckout(c) \/ CheckoutFails(c) \/ CallReturn(c)
    BY <2>1 DEF CallCheckout, CheckoutFails, CallReturn, othersThanClients, loopVars, envVars,
       initVars
  <2>2. CASE Checkout(c)
    BY <2>2 DEF Checkout, othersThanClients, loopVars, envVars, initVars
  <2>3. CASE ReturnAfterDone(c) \/ Vanish(c)
    BY <2>3 DEF ReturnAfterDone, Vanish, LetGo, othersThanClients, loopVars, envVars,
       initVars
  <2> QED
    BY <1>6, <2>1, <2>2, <2>3 DEF ClientStep
<1>7. ASSUME NEW s \in Stoppers,
             CallWaitReady(s) \/ WaitReadyReturns(s) \/ CallStop(s) \/ StopReturns(s)
      PROVE  PlaceTypes'
  BY <1>7 DEF CallWaitReady, WaitReadyReturns, CallStop, StopReturns, loopVars, bufVars,
     clientVars, initVars
<1>8. CASE UNCHANGED poolVars
  BY <1>8 DEF poolVars, loopVars, bufVars, clientVars, envVars, initVars
<1> QED
  BY <1>1, <1>2, <1>3, <1>4, <1>5, <1>6, <1>7, <1>8 DEF Next

----------------------------------------------------------------------------
(* Items and their owners *)

\* What the pool does to an item, and what the item does, keeps it in pool.items
\* exactly while it is joined and has not exited.
LEMMA OwningStep ==
  ASSUME OwnTypes, Owning, [Next]_poolVars
  PROVE  Owning'
<1> USE DEF OwnTypes, ContractTypeOK, PlaceTypes, Phases, Owning, Joined
<1>1. ASSUME UNCHANGED <<phase, owed, items>> PROVE Owning'
  BY <1>1
<1>2. CASE LoopStep
  <2>1. CASE ImageReady \/ ImageFails \/ SendRequest
    BY <1>1, <2>1 DEF ImageReady, ImageFails, SendRequest, contractVars
  <2>2. ASSUME NEW i \in Items, TakeItem(i) PROVE Owning'
    BY <2>2 DEF TakeItem, StartItem
  <2>3. ASSUME NEW i \in Items, ItemReady(i) PROVE Owning'
    BY <2>3 DEF ItemReady, SendReady, loopVars
  <2>4. ASSUME NEW i \in Items, ItemExit(i) PROVE Owning'
    BY <2>4 DEF ItemExit, SendExit
  <2>5. ASSUME NEW i \in Items, StrayReturn(i) PROVE Owning'
    BY <2>5 DEF StrayReturn, ResetItem, loopVars
  <2>6. ASSUME NEW c \in Clients, ReturnReceived(c) PROVE Owning'
    BY <1>1, <2>6 DEF ReturnReceived, ResetItem, loopVars, contractVars
  <2>7. ASSUME NEW s \in Stoppers, Shutdown(s) PROVE Owning'
    BY <1>1, <2>7 DEF Shutdown, KillItems
  <2> QED
    BY <1>2, <2>1, <2>2, <2>3, <2>4, <2>5, <2>6, <2>7 DEF LoopStep
<1>3. CASE DrainStep
  <2>1. ASSUME NEW i \in Items, DrainTake(i) PROVE Owning'
    BY <2>1 DEF DrainTake, DiscardItem, loopVars
  <2>2. ASSUME NEW i \in Items, DrainReady(i) PROVE Owning'
    BY <2>2 DEF DrainReady, SendReady, loopVars
  <2>3. ASSUME NEW i \in Items, DrainExit(i) PROVE Owning'
    BY <2>3 DEF DrainExit, SendExit
  <2>4. CASE SpawnerDrained \/ ItemsDrained \/ \E c \in Clients : DrainReturn(c)
    BY <1>1, <2>4 DEF SpawnerDrained, ItemsDrained, DrainReturn, loopVars, contractVars
  <2> QED
    BY <1>3, <2>1, <2>2, <2>3, <2>4 DEF DrainStep
<1>4. ASSUME NEW i \in Items, ItemAlone(i) PROVE Owning'
  <2>1. CASE GiveUp(i)
    BY <1>4, <2>1 DEF ItemAlone, GiveUp, loopVars
  <2>2. CASE LoseReset(i)
    BY <1>4, <2>2 DEF ItemAlone, LoseReset, loopVars
  <2> QED
    BY <1>4, <2>1, <2>2 DEF ItemAlone
<1>5. CASE SpawnerStep \/ BufferStop
  BY <1>1, <1>5
  DEF SpawnerStep, SpawnerReads, CreationFails, CreationSucceeds, SpawnerEnds,
      othersThanSpawner, BufferStop, loopVars, contractVars
<1>6. ASSUME NEW c \in Clients, ClientStep(c) PROVE Owning'
  BY <1>1, <1>6
  DEF ClientStep, CallCheckout, Checkout, CheckoutFails, CallReturn, ReturnAfterDone,
      Vanish, othersThanClients, loopVars, contractVars
<1>7. ASSUME NEW s \in Stoppers,
             CallWaitReady(s) \/ WaitReadyReturns(s) \/ CallStop(s) \/ StopReturns(s)
      PROVE  Owning'
  BY <1>1, <1>7 DEF CallWaitReady, WaitReadyReturns, CallStop, StopReturns, loopVars,
     contractVars
<1>8. CASE UNCHANGED poolVars
  BY <1>1, <1>8 DEF poolVars, loopVars, contractVars
<1> QED
  BY <1>2, <1>3, <1>4, <1>5, <1>6, <1>7, <1>8 DEF Next

\* Only a Stop that is received stops the buffer, and no step opens it again.
LEMMA BufferStep ==
  ASSUME PlaceTypes, BufferFollows, [Next]_poolVars
  PROVE  BufferFollows'
<1> USE DEF PlaceTypes, BufferFollows
<1>1. ASSUME UNCHANGED <<pool, bufst>> PROVE BufferFollows'
  BY <1>1
<1>2. CASE LoopStep
  <2>1. CASE ImageReady
    BY <2>1 DEF ImageReady, PrimeBacklog, bufVars
  <2>2. CASE ImageFails \/ SendRequest
    BY <2>2 DEF ImageFails, SendRequest, bufVars
  <2>3. ASSUME NEW i \in Items, TakeItem(i) \/ ItemReady(i) \/ StrayReturn(i)
        PROVE  BufferFollows'
    BY <1>1, <2>3 DEF TakeItem, ItemReady, StrayReturn, loopVars, bufVars
  <2>4. ASSUME NEW i \in Items, ItemExit(i) PROVE BufferFollows'
    BY <2>4 DEF ItemExit, PrimeBacklog, bufVars
  <2>5. ASSUME NEW c \in Clients, ReturnReceived(c) PROVE BufferFollows'
    BY <1>1, <2>5 DEF ReturnReceived, loopVars, bufVars
  <2>6. ASSUME NEW s \in Stoppers, Shutdown(s) PROVE BufferFollows'
    BY <2>6 DEF Shutdown
  <2> QED
    BY <1>2, <2>1, <2>2, <2>3, <2>4, <2>5, <2>6 DEF LoopStep
<1>3. CASE DrainStep
  <2>1. CASE \/ \E i \in Items : DrainTake(i) \/ DrainReady(i) \/ DrainExit(i)
             \/ \E c \in Clients : DrainReturn(c)
    BY <1>1, <2>1 DEF DrainTake, DrainReady, DrainExit, DrainReturn, loopVars, bufVars
  <2>2. CASE SpawnerDrained \/ ItemsDrained
    BY <2>2 DEF SpawnerDrained, ItemsDrained, bufVars
  <2> QED
    BY <1>3, <2>1, <2>2 DEF DrainStep
<1>4. CASE SpawnerStep \/ \E i \in Items : ItemAlone(i)
  BY <1>1, <1>4
  DEF ItemAlone, SpawnerStep, SpawnerReads, CreationFails, CreationSucceeds, SpawnerEnds,
      othersThanSpawner, loopVars, bufVars
<1>5. CASE BufferStop
  BY <1>5 DEF BufferStop, loopVars
<1>6. ASSUME NEW c \in Clients, ClientStep(c) PROVE BufferFollows'
  BY <1>1, <1>6
  DEF ClientStep, CallCheckout, Checkout, CheckoutFails, CallReturn, ReturnAfterDone,
      Vanish, othersThanClients, loopVars
<1>7. ASSUME NEW s \in Stoppers,
             CallWaitReady(s) \/ WaitReadyReturns(s) \/ CallStop(s) \/ StopReturns(s)
      PROVE  BufferFollows'
  BY <1>1, <1>7 DEF CallWaitReady, WaitReadyReturns, CallStop, StopReturns, loopVars, bufVars
<1>8. CASE UNCHANGED poolVars
  BY <1>1, <1>8 DEF poolVars, loopVars, bufVars
<1> QED
  BY <1>2, <1>3, <1>4, <1>5, <1>6, <1>7, <1>8 DEF Next

----------------------------------------------------------------------------
(* One place for an item: the ways in which items move *)

\* Nothing moves to a new place: some items leave the buffer or a client, some ready
\* events are sent or lost.
LEMMA NothingMoves ==
  ASSUME OwnTypes, OwnTypes', OnePlace,
         buf' \in {buf, <<>>},
         \A c \in Clients : has'[c] \in {has[c], NoItem},
         \A i \in Items : /\ owed'[i] <= owed[i]
                          /\ phase'[i] \in Unready => phase[i] \in Unready
  PROVE  OnePlace'
<1> USE DEF OwnTypes, ContractTypeOK, PlaceTypes, OnePlace, Unready
<1>1. \A i \in Items : Offered(i)' => Offered(i)
  BY EmptySeq DEF Offered
<1>2. \A i \in Items : Held(i)' => Held(i)
  BY PoolAssumption DEF Held
<1>3. \A j, k \in DOMAIN buf' : buf'[j] = buf'[k] => j = k
  BY EmptySeq
<1>4. \A c, d \in Clients : has'[c] = has'[d] /\ has'[c] # NoItem => c = d
  OBVIOUS
<1>5. \A i \in Items : owed[i] \in Nat /\ owed'[i] \in Nat
  OBVIOUS
<1> QED
  BY <1>1, <1>2, <1>3, <1>4, <1>5

\* An item that nobody has and that owes nothing yet is to become ready: it is new.
LEMMA NewItemMoves ==
  ASSUME OwnTypes, OwnTypes', OnePlace, NEW i \in Items, StartItem(i), UNCHANGED <<buf, has>>
  PROVE  OnePlace'
<1> USE DEF OwnTypes, ContractTypeOK, PlaceTypes, OnePlace, Unready
<1>1. ~Offered(i)' /\ ~Held(i)' /\ owed'[i] = 1
  BY DEF StartItem, Offered, Held
<1>2. ASSUME NEW j \in Items, j # i
      PROVE  owed'[j] = owed[j] /\ phase'[j] = phase[j]
  BY <1>2 DEF StartItem
<1>3. \A j \in Items : (Offered(j)' <=> Offered(j)) /\ (Held(j)' <=> Held(j))
  BY DEF Offered, Held
<1>4. ASSUME NEW j \in Items
      PROVE  /\ owed'[j] <= 1
             /\ ~(Offered(j)' /\ Held(j)')
             /\ owed'[j] > 0 \/ phase'[j] \in Unready => ~Offered(j)' /\ ~Held(j)'
  <2>1. CASE j = i
    BY <1>1, <2>1
  <2>2. CASE j # i
    BY <1>2, <1>3, <2>2
  <2> QED
    BY <2>1, <2>2
<1> QED
  BY <1>4

\* An item that becomes ready goes into the buffer; it owed that, so it was not there.
LEMMA ReadyItemMoves ==
  ASSUME OwnTypes, OwnTypes', OnePlace, NEW i \in Items, SendReady(i),
         buf' = Append(buf, i), UNCHANGED has
  PROVE  OnePlace'
<1> USE DEF OwnTypes, ContractTypeOK, PlaceTypes, OnePlace, Unready
<1>1. /\ buf \in Seq(Items) /\ buf' \in Seq(Items)
      /\ Len(buf) \in Nat /\ Len(buf') = Len(buf) + 1
      /\ DOMAIN buf = 1 .. Len(buf) /\ DOMAIN buf' = 1 .. (Len(buf) + 1)
      /\ \A k \in 1 .. Len(buf) : buf'[k] = buf[k]
      /\ buf'[Len(buf) + 1] = i
  BY AppendProperties, LenProperties
<1>2. ~Offered(i) /\ ~Held(i) /\ owed[i] = 1
  BY DEF SendReady
<1>3. \A j, k \in DOMAIN buf' : buf'[j] = buf'[k] => j = k
  <2> TAKE j, k \in DOMAIN buf'
  <2>1. CASE j \in DOMAIN buf /\ k \in DOMAIN buf
    BY <1>1, <2>1
  <2>2. CASE j = Len(buf) + 1 \/ k = Len(buf) + 1
    <3>1. \A l \in DOMAIN buf : buf[l] # i
      BY <1>2 DEF Offered
    <3> QED
      BY <1>1, <2>2, <3>1
  <2> QED
    BY <1>1, <2>1, <2>2
<1>4. owed'[i] = 0 /\ phase'[i] = "serving"
  BY <1>2 DEF SendReady
<1>5. ASSUME NEW j \in Items, j # i
      PROVE  /\ owed'[j] = owed[j] /\ phase'[j] = phase[j]
             /\ Offered(j)' => Offered(j)
  BY <1>1, <1>5 DEF SendReady, Offered
<1>6. \A j \in Items : Held(j)' <=> Held(j)
  BY DEF Held
<1> QED
  BY <1>2, <1>3, <1>4, <1>5, <1>6

\* A client gives up an item, and it is reset: no one else has it, and it owed nothing.
LEMMA ReturnedItemMoves ==
  ASSUME OwnTypes, OwnTypes', OnePlace, NEW c \in Clients, has[c] \in Items,
         Joined(has[c]), ResetItem(has[c]),
         has' = [has EXCEPT ![c] = NoItem], UNCHANGED buf
  PROVE  OnePlace'
<1> USE PoolAssumption DEF OwnTypes, ContractTypeOK, PlaceTypes, OnePlace, Unready
<1>0. PICK i \in Items : i = has[c]
  OBVIOUS
<1>1. Held(i) /\ owed[i] = 0 /\ phase[i] \notin Unready /\ ~Offered(i)
  <2>1. Held(i)
    BY <1>0 DEF Held
  <2>2. ~(owed[i] > 0)
    BY <2>1
  <2> QED
    BY <2>1, <2>2
<1>2. owed'[i] = 1 /\ phase' = phase
  BY <1>0, <1>1 DEF ResetItem
<1>3. ~Held(i)'
  BY <1>0 DEF Held
<1>4. ~Offered(i)'
  BY <1>1 DEF Offered
<1>5. ASSUME NEW j \in Items, j # i
      PROVE  /\ owed'[j] = owed[j]
             /\ Offered(j)' <=> Offered(j)
             /\ Held(j)' => Held(j)
  BY <1>0, <1>5 DEF ResetItem, Offered, Held
<1>6. \A d, e \in Clients : has'[d] = has'[e] /\ has'[d] # NoItem => d = e
  OBVIOUS
<1>7. \A j, k \in DOMAIN buf' : buf'[j] = buf'[k] => j = k
  OBVIOUS
<1>8. ASSUME NEW j \in Items
      PROVE  /\ owed'[j] <= 1
             /\ ~(Offered(j)' /\ Held(j)')
             /\ owed'[j] > 0 \/ phase'[j] \in Unready => ~Offered(j)' /\ ~Held(j)'
  <2>1. CASE j = i
    BY <1>2, <1>3, <1>4, <2>1
  <2>2. CASE j # i
    BY <1>2, <1>5, <2>2
  <2> QED
    BY <2>1, <2>2
<1> QED
  BY <1>6, <1>7, <1>8

\* The oldest item of the buffer goes to a client; it was there once only.
LEMMA OfferedItemMoves ==
  ASSUME OwnTypes, OwnTypes', OnePlace, NEW c \in Clients, buf # <<>>,
         buf' = Tail(buf), has' = [has EXCEPT ![c] = Head(buf)],
         UNCHANGED <<phase, owed>>
  PROVE  OnePlace'
<1> USE PoolAssumption DEF OwnTypes, ContractTypeOK, PlaceTypes, OnePlace, Unready
<1>0. PICK i : i = Head(buf)
  OBVIOUS
<1>1. /\ Len(buf) \in Nat \ {0} /\ DOMAIN buf = 1 .. Len(buf)
      /\ i \in Items /\ i = buf[1]
      /\ DOMAIN buf' = 1 .. (Len(buf) - 1)
      /\ \A k \in DOMAIN buf' : buf'[k] = buf[k + 1] /\ k + 1 \in DOMAIN buf
  BY <1>0, HeadTailProperties, EmptySeq, LenProperties
<1>2. Offered(i) /\ ~Held(i) /\ owed[i] = 0 /\ phase[i] \notin Unready
  <2>1. Offered(i)
    <3>1. 1 \in DOMAIN buf /\ buf[1] = i
      BY <1>1
    <3> QED
      BY ONLY <3>1 DEF Offered
  <2>2. ~(owed[i] > 0)
    BY <1>1, <2>1
  <2> QED
    BY <1>1, <2>1, <2>2
<1>3. ~Offered(i)'
  <2> SUFFICES ASSUME NEW k \in DOMAIN buf', buf'[k] = i PROVE FALSE
    BY DEF Offered
  <2>1. buf[k + 1] = buf[1] /\ k + 1 # 1 /\ 1 \in DOMAIN buf
    BY <1>1
  <2> QED
    BY <1>1, <2>1
<1>4. \A j, k \in DOMAIN buf' : buf'[j] = buf'[k] => j = k
  BY <1>1
<1>5. \A d, e \in Clients : has'[d] = has'[e] /\ has'[d] # NoItem => d = e
  BY <1>0, <1>2 DEF Held
<1>6. ASSUME NEW j \in Items, j # i
      PROVE  (Offered(j)' => Offered(j)) /\ (Held(j)' => Held(j))
  BY <1>0, <1>1, <1>6 DEF Offered, Held
<1> QED
  BY <1>2, <1>3, <1>4, <1>5, <1>6

\* As long as clients return an item once, every step moves items in these ways only.
LEMMA OnePlaceStep ==
  ASSUME OwnTypes, OwnTypes', Owning, OnePlace, ~MayRepeat, [Next]_poolVars
  PROVE  OnePlace'
<1>0. \A i \in Items : owed[i] \in Nat
  BY DEF OwnTypes, ContractTypeOK
<1>1. ASSUME UNCHANGED <<phase, owed, buf, has>> PROVE OnePlace'
  BY <1>0, <1>1, NothingMoves
<1>2. ASSUME NEW i \in Items, UNCHANGED <<buf, has>>,
             DiscardItem(i) \/ SendReady(i) \/ GiveUp(i) \/ LoseReset(i) \/ SendExit(i)
      PROVE  OnePlace'
  <2> USE DEF OwnTypes, ContractTypeOK, Phases, Unready
  <2>1. CASE DiscardItem(i)
    BY <1>0, <1>2, <2>1, NothingMoves DEF DiscardItem
  <2>2. CASE SendReady(i)
    BY <1>0, <1>2, <2>2, NothingMoves DEF SendReady
  <2>3. CASE GiveUp(i)
    BY <1>0, <1>2, <2>3, NothingMoves DEF GiveUp
  <2>4. CASE LoseReset(i)
    BY <1>0, <1>2, <2>4, NothingMoves DEF LoseReset
  <2>5. CASE SendExit(i)
    BY <1>0, <1>2, <2>5, NothingMoves DEF SendExit
  <2> QED
    BY <1>2, <2>1, <2>2, <2>3, <2>4, <2>5
<1>3. ASSUME NEW c \in Clients, LetGo(c), UNCHANGED <<phase, owed, buf>>
      PROVE  OnePlace'
  BY <1>0, <1>3, NothingMoves DEF LetGo, OwnTypes, PlaceTypes
<1>4. CASE LoopStep
  <2>1. CASE ImageReady \/ ImageFails \/ SendRequest
    BY <1>1, <2>1 DEF ImageReady, ImageFails, SendRequest, contractVars, bufVars, clientVars
  <2>2. ASSUME NEW i \in Items, TakeItem(i) PROVE OnePlace'
    BY <2>2, NewItemMoves DEF TakeItem, bufVars, clientVars
  <2>3. ASSUME NEW i \in Items, ItemReady(i) PROVE OnePlace'
    <3>1. CASE i \in items
      BY <2>3, <3>1, ReadyItemMoves DEF ItemReady, clientVars
    <3>2. CASE i \notin items
      BY <1>2, <2>3, <3>2 DEF ItemReady, clientVars
    <3> QED
      BY <3>1, <3>2
  <2>4. ASSUME NEW i \in Items, ItemExit(i) PROVE OnePlace'
    BY <1>2, <2>4 DEF ItemExit, bufVars, clientVars
  <2>5. ASSUME NEW i \in Items, StrayReturn(i) PROVE OnePlace'
    BY <2>5 DEF StrayReturn
  <2>6. ASSUME NEW c \in Clients, ReturnReceived(c) PROVE OnePlace'
    <3>1. CASE has[c] \in items
      <4>1. has[c] \in Items /\ Joined(has[c])
        BY <3>1 DEF OwnTypes, PlaceTypes, Owning
      <4> QED
        BY <2>6, <3>1, <4>1, ReturnedItemMoves DEF ReturnReceived, LetGo, bufVars
    <3>2. CASE has[c] \notin items
      BY <1>3, <2>6, <3>2 DEF ReturnReceived, contractVars, bufVars
    <3> QED
      BY <3>1, <3>2
  <2>7. ASSUME NEW s \in Stoppers, Shutdown(s) PROVE OnePlace'
    BY <1>1, <2>7 DEF Shutdown, KillItems, clientVars
  <2> QED
    BY <1>4, <2>1, <2>2, <2>3, <2>4, <2>5, <2>6, <2>7 DEF LoopStep
<1>5. CASE DrainStep
  <2>1. ASSUME NEW i \in Items, DrainTake(i) \/ DrainReady(i) \/ DrainExit(i)
        PROVE  OnePlace'
    BY <1>2, <2>1 DEF DrainTake, DrainReady, DrainExit, bufVars, clientVars
  <2>2. ASSUME NEW c \in Clients, DrainReturn(c) PROVE OnePlace'
    BY <1>3, <2>2 DEF DrainReturn, contractVars, bufVars
  <2>3. CASE SpawnerDrained \/ ItemsDrained
    BY <1>1, <2>3 DEF SpawnerDrained, ItemsDrained, contractVars, bufVars, clientVars
  <2> QED
    BY <1>5, <2>1, <2>2, <2>3 DEF DrainStep
<1>6. ASSUME NEW i \in Items, ItemAlone(i) PROVE OnePlace'
  BY <1>2, <1>6 DEF ItemAlone, bufVars, clientVars
<1>7. CASE SpawnerStep
  BY <1>1, <1>7
  DEF SpawnerStep, SpawnerReads, CreationFails, CreationSucceeds, SpawnerEnds,
      othersThanSpawner, contractVars, bufVars, clientVars
<1>8. CASE BufferStop
  BY <1>0, <1>8, NothingMoves DEF BufferStop, contractVars, clientVars
<1>9. ASSUME NEW c \in Clients, ClientStep(c) PROVE OnePlace'
  <2>1. CASE CallCheckout(c) \/ CheckoutFails(c) \/ CallReturn(c)
    BY <1>1, <2>1 DEF CallCheckout, CheckoutFails, CallReturn, othersThanClients, contractVars
  <2>2. CASE Checkout(c)
    BY <2>2, OfferedItemMoves DEF Checkout, othersThanClients, contractVars
  <2>3. CASE ReturnAfterDone(c) \/ Vanish(c)
    BY <1>3, <2>3 DEF ReturnAfterDone, Vanish, othersThanClients, contractVars
  <2> QED
    BY <1>9, <2>1, <2>2, <2>3 DEF ClientStep
<1>10. ASSUME NEW s \in Stoppers,
              CallWaitReady(s) \/ WaitReadyReturns(s) \/ CallStop(s) \/ StopReturns(s)
       PROVE  OnePlace'
  BY <1>1, <1>10 DEF CallWaitReady, WaitReadyReturns, CallStop, StopReturns, contractVars,
     bufVars, clientVars
<1>11. CASE UNCHANGED poolVars
  BY <1>1, <1>11 DEF poolVars, contractVars, bufVars, clientVars
<1> QED
  BY <1>4, <1>5, <1>6, <1>7, <1>8, <1>9, <1>10, <1>11 DEF Next

----------------------------------------------------------------------------
(* What holds of the items, the buffer and the clients *)

\* OwnInv holds when NewPool has started the goroutines.
LEMMA OwnInit == Init => OwnInv
<1> SUFFICES ASSUME Init PROVE OwnInv
  OBVIOUS
<1>1. OwnTypes
  <2>1. ContractTypeOK
    BY ContractAssumption DEF Init, ContractInit, ContractTypeOK, Phases
  <2>2. PlaceTypes
    <3>1. buf \in Seq(Items)
      BY EmptySeq DEF Init
    <3>2. image \in BOOLEAN
      BY DEF Init
    <3> QED
      BY <3>1, <3>2, PoolAssumption DEF Init, PlaceTypes, ClientStates, StopperStates
  <2> QED
    BY <2>1, <2>2 DEF OwnTypes
<1>2. Owning
  BY DEF Init, ContractInit, Owning, Joined
<1>3. BufferFollows
  BY DEF Init, BufferFollows
<1>4. OnePlace
  <2>1. DOMAIN buf = {}
    BY EmptySeq, LenProperties DEF Init
  <2>2. \A i \in Items : owed[i] = 0 /\ ~Offered(i) /\ ~Held(i)
    BY <2>1, PoolAssumption DEF Init, ContractInit, Offered, Held
  <2>3. \A c \in Clients : has[c] = NoItem
    BY DEF Init
  <2> QED
    BY <2>1, <2>2, <2>3 DEF OnePlace
<1> QED
  BY <1>1, <1>2, <1>3, <1>4 DEF OwnInv

\* It holds ever after.
THEOREM OwnInvariance == Spec => []OwnInv
<1>1. OwnInv /\ [Next]_poolVars => OwnInv'
  <2> SUFFICES ASSUME OwnInv, [Next]_poolVars PROVE OwnInv'
    OBVIOUS
  <2>1. OwnTypes'
    BY ContractStep, PlaceStep DEF OwnInv, OwnTypes, PlaceTypes
  <2>2. Owning' /\ BufferFollows'
    BY OwningStep, BufferStep DEF OwnInv, OwnTypes
  <2>3. ~MayRepeat => OnePlace'
    BY <2>1, OnePlaceStep DEF OwnInv
  <2> QED
    BY <2>1, <2>2, <2>3 DEF OwnInv
<1> QED
  BY <1>1, OwnInit, PTL DEF Spec

\* OnePlace counts: at most one of the things that could have an item has it.
LEMMA OnePlaceCounts ==
  ASSUME OwnTypes, OnePlace
  PROVE  InOnePlace
<1> SUFFICES ASSUME NEW i \in Items
             PROVE  owed[i] + Cardinality(Offers(i)) + Cardinality(Holders(i)) <= 1
  BY DEF InOnePlace
<1>1. owed[i] \in 0 .. 1
  BY ContractAssumption DEF OwnTypes, ContractTypeOK, OnePlace
<1>2. Cardinality(Offers(i)) = IF Offered(i) THEN 1 ELSE 0
  <2>1. CASE Offered(i)
    <3>1. PICK k \in DOMAIN buf : buf[k] = i
      BY <2>1 DEF Offered
    <3>2. Offers(i) = {k}
      BY <3>1 DEF OnePlace, Offers
    <3> QED
      BY <2>1, <3>2, FS_Singleton
  <2>2. CASE ~Offered(i)
    <3>1. Offers(i) = {}
      BY <2>2 DEF Offered, Offers
    <3> QED
      BY <2>2, <3>1, FS_EmptySet
  <2> QED
    BY <2>1, <2>2
<1>3. Cardinality(Holders(i)) = IF Held(i) THEN 1 ELSE 0
  <2>1. CASE Held(i)
    <3>1. PICK c \in Clients : has[c] = i
      BY <2>1 DEF Held
    <3>2. Holders(i) = {c}
      BY <3>1, PoolAssumption DEF OnePlace, Holders
    <3> QED
      BY <2>1, <3>2, FS_Singleton
  <2>2. CASE ~Held(i)
    <3>1. Holders(i) = {}
      BY <2>2 DEF Held, Holders
    <3> QED
      BY <2>2, <3>1, FS_EmptySet
  <2> QED
    BY <2>1, <2>2
<1>4. ~(Offered(i) /\ Held(i)) /\ (owed[i] > 0 => ~Offered(i) /\ ~Held(i))
  BY DEF OnePlace
<1> QED
  BY <1>1, <1>2, <1>3, <1>4

\* As long as every client returns an item once, an item is being made ready, or
\* offered, or with one client: no two clients ever have the same container.
THEOREM ItemsInOnePlace ==
  ASSUME ~MayRepeat
  PROVE  Spec => []InOnePlace
<1>1. OwnInv => InOnePlace
  BY OnePlaceCounts DEF OwnInv
<1> QED
  BY <1>1, OwnInvariance, PTL

\* Only an item that has been ready and is with a client is reset: this is what
\* PoolItem takes for granted in calm surroundings.
ResetWhenOut ==
  [][\A i \in Items :
       Joined(i) /\ owed'[i] > owed[i] => owed[i] = 0 /\ phase[i] = "serving"]_poolVars

\* An item owes more when a client that had it returns it, and only then.
LEMMA OwedRises ==
  ASSUME OwnTypes, ~MayRepeat, [Next]_poolVars,
         NEW i \in Items, Joined(i), owed'[i] > owed[i]
  PROVE  Held(i)
<1>0. owed[i] \in Nat
  BY DEF OwnTypes, ContractTypeOK
<1>1. ASSUME owed' = owed PROVE FALSE
  BY <1>0, <1>1
<1>2. ASSUME NEW j \in Items,
             \/ StartItem(j) \/ DiscardItem(j) \/ SendReady(j)
             \/ GiveUp(j) \/ LoseReset(j) \/ SendExit(j)
      PROVE  FALSE
  <2> USE <1>0 DEF OwnTypes, ContractTypeOK
  <2>1. CASE StartItem(j)
    BY <2>1 DEF StartItem, Joined
  <2>2. CASE DiscardItem(j)
    BY <1>1, <2>2 DEF DiscardItem
  <2>3. CASE SendReady(j)
    BY <2>3 DEF SendReady
  <2>4. CASE GiveUp(j)
    BY <2>4 DEF GiveUp
  <2>5. CASE LoseReset(j)
    BY <2>5 DEF LoseReset
  <2>6. CASE SendExit(j)
    BY <2>6 DEF SendExit
  <2> QED
    BY <1>2, <2>1, <2>2, <2>3, <2>4, <2>5, <2>6
<1>3. CASE LoopStep
  <2>1. CASE ImageReady \/ ImageFails \/ SendRequest
    BY <1>1, <2>1 DEF ImageReady, ImageFails, SendRequest, contractVars
  <2>2. ASSUME NEW j \in Items, TakeItem(j) \/ ItemReady(j) \/ ItemExit(j) PROVE FALSE
    BY <1>2, <2>2 DEF TakeItem, ItemReady, ItemExit
  <2>3. ASSUME NEW j \in Items, StrayReturn(j) PROVE FALSE
    BY <2>3 DEF StrayReturn
  <2>4. ASSUME NEW c \in Clients, ReturnReceived(c) PROVE Held(i)
    <3>1. CASE has[c] \in items
      BY <1>0, <2>4, <3>1 DEF ReturnReceived, ResetItem, Held, OwnTypes, ContractTypeOK
    <3>2. CASE has[c] \notin items
      BY <1>1, <2>4, <3>2 DEF ReturnReceived, contractVars
    <3> QED
      BY <3>1, <3>2
  <2>5. ASSUME NEW s \in Stoppers, Shutdown(s) PROVE FALSE
    BY <1>1, <2>5 DEF Shutdown, KillItems
  <2> QED
    BY <1>3, <2>1, <2>2, <2>3, <2>4, <2>5 DEF LoopStep
<1>4. CASE DrainStep
  <2>1. ASSUME NEW j \in Items, DrainTake(j) \/ DrainReady(j) \/ DrainExit(j) PROVE FALSE
    BY <1>2, <2>1 DEF DrainTake, DrainReady, DrainExit
  <2>2. CASE SpawnerDrained \/ ItemsDrained \/ \E c \in Clients : DrainReturn(c)
    BY <1>1, <2>2 DEF SpawnerDrained, ItemsDrained, DrainReturn, contractVars
  <2> QED
    BY <1>4, <2>1, <2>2 DEF DrainStep
<1>5. ASSUME NEW j \in Items, ItemAlone(j) PROVE FALSE
  BY <1>2, <1>5 DEF ItemAlone
<1>6. CASE SpawnerStep \/ BufferStop
  BY <1>1, <1>6
  DEF SpawnerStep, SpawnerReads, CreationFails, CreationSucceeds, SpawnerEnds,
      othersThanSpawner, BufferStop, contractVars
<1>7. ASSUME NEW c \in Clients, ClientStep(c) PROVE FALSE
  BY <1>1, <1>7
  DEF ClientStep, CallCheckout, Checkout, CheckoutFails, CallReturn, ReturnAfterDone,
      Vanish, othersThanClients, contractVars
<1>8. ASSUME NEW s \in Stoppers,
             CallWaitReady(s) \/ WaitReadyReturns(s) \/ CallStop(s) \/ StopReturns(s)
      PROVE  FALSE
  BY <1>1, <1>8 DEF CallWaitReady, WaitReadyReturns, CallStop, StopReturns, contractVars
<1>9. CASE UNCHANGED poolVars
  BY <1>1, <1>9 DEF poolVars, contractVars
<1> QED
  BY <1>3, <1>4, <1>5, <1>6, <1>7, <1>8, <1>9 DEF Next

\* As long as every client returns an item once, the pool resets items only when they
\* are out (reset in the handler of returns), so that OneAtATime of ItemProofs holds of them.
THEOREM ResetsOnlyWhenOut ==
  ASSUME ~MayRepeat
  PROVE  Spec => ResetWhenOut
<1>1. OwnInv /\ OwnInv' /\ [Next]_poolVars =>
        [\A i \in Items :
           Joined(i) /\ owed'[i] > owed[i] => owed[i] = 0 /\ phase[i] = "serving"]_poolVars
  <2> SUFFICES ASSUME OwnInv, OwnInv', [Next]_poolVars,
                      NEW i \in Items, Joined(i), owed'[i] > owed[i]
               PROVE  owed[i] = 0 /\ phase[i] = "serving"
    OBVIOUS
  <2>1. owed[i] \in Nat /\ owed'[i] \in Nat /\ owed'[i] <= 1
    BY DEF OwnInv, OwnTypes, ContractTypeOK, OnePlace
  <2>2. owed[i] = 0
    BY <2>1
  <2> QED
    BY <2>2, OwedRises DEF OwnInv, OnePlace, Joined, Unready
<1> QED
  BY <1>1, OwnInvariance, PTL DEF Spec, ResetWhenOut

----------------------------------------------------------------------------
(* The buffer once it is stopped *)

\* No step puts into a buffer that is stopped: only the main loop puts, and it has
\* been left by then.
LEMMA StoppedBufferStep ==
  ASSUME OwnTypes, BufferFollows, bufst # "open", [Next]_poolVars
  PROVE  Len(buf') <= Len(buf)
<1>1. buf \in Seq(Items) /\ Len(buf) \in Nat
  BY LenProperties DEF OwnTypes, PlaceTypes
<1>2. pool \in {"drainSpawner", "drainItems", "done"}
  BY DEF BufferFollows
<1>3. ASSUME UNCHANGED buf PROVE Len(buf') <= Len(buf)
  BY <1>1, <1>3
<1>4. ~LoopStep
  BY <1>2 DEF LoopStep, ImageReady, ImageFails, SendRequest, TakeItem, ItemReady, ItemExit,
     StrayReturn, ReturnReceived, Shutdown
<1>5. CASE DrainStep
  BY <1>3, <1>5 DEF DrainStep, DrainTake, DrainReady, DrainExit, DrainReturn, SpawnerDrained,
     ItemsDrained, bufVars
<1>6. CASE SpawnerStep \/ \E i \in Items : ItemAlone(i)
  BY <1>3, <1>6
  DEF ItemAlone, SpawnerStep, SpawnerReads, CreationFails, CreationSucceeds, SpawnerEnds,
      othersThanSpawner, bufVars
<1>7. CASE BufferStop
  <2>1. Len(buf') = 0
    BY <1>7, EmptySeq DEF BufferStop
  <2> QED
    BY <1>1, <2>1
<1>8. ASSUME NEW c \in Clients, ClientStep(c) PROVE Len(buf') <= Len(buf)
  <2>1. CASE Checkout(c)
    <3>1. Len(buf') = Len(buf) - 1
      BY <1>1, <2>1, HeadTailProperties DEF Checkout
    <3> QED
      BY <1>1, <3>1
  <2>2. CASE ~Checkout(c)
    BY <1>3, <1>8, <2>2
    DEF ClientStep, CallCheckout, CheckoutFails, CallReturn, ReturnAfterDone, Vanish
  <2> QED
    BY <2>1, <2>2
<1>9. ASSUME NEW s \in Stoppers,
             CallWaitReady(s) \/ WaitReadyReturns(s) \/ CallStop(s) \/ StopReturns(s)
      PROVE  Len(buf') <= Len(buf)
  BY <1>3, <1>9 DEF CallWaitReady, WaitReadyReturns, CallStop, StopReturns, bufVars
<1>10. CASE UNCHANGED poolVars
  BY <1>3, <1>10 DEF poolVars, bufVars
<1> QED
  BY <1>4, <1>5, <1>6, <1>7, <1>8, <1>9, <1>10 DEF Next

\* A buffer is only ever emptied once it is stopped, so put never sends on the
\* channel that Stop has closed, whatever is returned or becomes ready late.
THEOREM StoppedBufferShrinks == Spec => NoPutAfterStop
<1>1. OwnInv /\ [Next]_poolVars => [bufst # "open" => Len(buf') <= Len(buf)]_poolVars
  BY StoppedBufferStep DEF OwnInv
<1> QED
  BY <1>1, OwnInvariance, PTL DEF Spec, NoPutAfterStop

----------------------------------------------------------------------------
(* A pool is a backlog: its steps, counted *)

Exited == {i \in Items : phase[i] = "exited"}

nitems == Cardinality(items)
exits == Cardinality(Exited)

\* What is counted are natural numbers, as long as finitely many items are created.
LEMMA CountsAreNumbers ==
  ASSUME items \subseteq Items
  PROVE  /\ IsFiniteSet(items) /\ IsFiniteSet(Exited)
         /\ nitems \in Nat /\ exits \in Nat /\ Cardinality(Items) \in Nat
         /\ nitems = 0 <=> items = {}
<1>1. Exited \subseteq Items
  BY DEF Exited
<1> QED
  BY <1>1, ItemsAssumption, FS_Subset, FS_CardinalityType, FS_EmptySet DEF nitems, exits

\* No item comes or goes.
LEMMA NothingCounts ==
  ASSUME UNCHANGED items,
         \A i \in Items : phase'[i] = "exited" <=> phase[i] = "exited"
  PROVE  UNCHANGED <<nitems, exits>>
<1>1. Exited' = Exited
  BY DEF Exited
<1> QED
  BY <1>1 DEF nitems, exits

\* An item is started: the pool has one more.
LEMMA StartCounts ==
  ASSUME OwnTypes, Owning, NEW i \in Items, StartItem(i), items' = items \cup {i}
  PROVE  nitems' = nitems + 1 /\ exits' = exits
<1>1. i \notin items /\ IsFiniteSet(items)
  BY CountsAreNumbers DEF OwnTypes, PlaceTypes, Owning, Joined, StartItem
<1>2. nitems' = nitems + 1
  BY <1>1, FS_AddElement DEF nitems
<1>3. Exited' = Exited
  BY DEF OwnTypes, ContractTypeOK, StartItem, Exited
<1> QED
  BY <1>2, <1>3 DEF exits

\* An item exits: the pool had it and has one less, and one more has exited.
LEMMA ExitCounts ==
  ASSUME OwnTypes, Owning, NEW i \in Items, SendExit(i), items' = items \ {i}
  PROVE  /\ nitems > 0 /\ nitems' = nitems - 1
         /\ exits < Cardinality(Items) /\ exits' = exits + 1
<1>1. items \subseteq Items /\ i \in items /\ i \notin Exited /\ Exited \subseteq Items
  BY DEF OwnTypes, PlaceTypes, Owning, Joined, SendExit, Exited
<1>2. /\ IsFiniteSet(items) /\ IsFiniteSet(Exited)
      /\ nitems \in Nat /\ exits \in Nat /\ Cardinality(Items) \in Nat
  BY <1>1, CountsAreNumbers
<1>3. nitems' = nitems - 1 /\ nitems > 0
  <2>1. nitems' = nitems - 1
    BY <1>1, <1>2, FS_RemoveElement DEF nitems
  <2>2. nitems # 0
    BY <1>1, CountsAreNumbers
  <2> QED
    BY <1>2, <2>1, <2>2
<1>4. Exited' = Exited \cup {i}
  BY DEF OwnTypes, ContractTypeOK, SendExit, Exited
<1>5. exits' = exits + 1
  BY <1>1, <1>2, <1>4, FS_AddElement DEF exits
<1>6. Exited \subseteq Items \ {i}
  BY <1>1
<1>7. Cardinality(Items \ {i}) = Cardinality(Items) - 1 /\ IsFiniteSet(Items \ {i})
  BY ItemsAssumption, FS_RemoveElement
<1>8. exits <= Cardinality(Items \ {i})
  BY <1>6, <1>7, FS_Subset DEF exits
<1> QED
  BY <1>2, <1>3, <1>5, <1>7, <1>8

\* A pool starts as a backlog does.
LEMMA PoolInitIsBacklog == Init => BacklogOfPool!Init
<1> SUFFICES ASSUME Init PROVE BacklogOfPool!Init
  OBVIOUS
<1>1. items = {} /\ Exited = {}
  BY DEF Init, ContractInit, Exited
<1>2. nitems = 0 /\ exits = 0
  BY <1>1, FS_EmptySet DEF nitems, exits
<1> QED
  BY <1>2 DEF Init, SpawnerInit, BacklogOfPool!Init, BacklogOfPool!SpawnerInit, nitems, exits,
     Exited

\* Every step of a pool is one of a backlog, or none.
LEMMA PoolStepIsBacklog ==
  ASSUME OwnInv, [Next]_poolVars
  PROVE  BacklogOfPool!Next \/ UNCHANGED BacklogOfPool!backlogVars
<1> DEFINE Refines == BacklogOfPool!Next \/ UNCHANGED BacklogOfPool!backlogVars
<1>0. OwnTypes /\ Owning
  BY DEF OwnInv
<1>1. ASSUME UNCHANGED <<spawnerVars, pool, want, items>>,
             \A i \in Items : phase'[i] = "exited" <=> phase[i] = "exited"
      PROVE  Refines
  <2>1. UNCHANGED <<nitems, exits>>
    BY <1>1, NothingCounts
  <2> QED
    BY <1>1, <2>1 DEF spawnerVars, BacklogOfPool!backlogVars, nitems, exits, Exited
<1>2. ASSUME UNCHANGED <<spawnerVars, pool, want, contractVars, items>> PROVE Refines
  BY <1>1, <1>2 DEF contractVars
<1>3. ASSUME NEW i \in Items,
             SendReady(i) \/ ResetItem(i) \/ GiveUp(i) \/ LoseReset(i) \/ DiscardItem(i)
      PROVE  \A j \in Items : phase'[j] = "exited" <=> phase[j] = "exited"
  BY <1>0, <1>3
  DEF SendReady, ResetItem, GiveUp, LoseReset, DiscardItem, OwnTypes, ContractTypeOK,
      Owning, Joined
<1>4. CASE LoopStep
  <2> USE DEF BacklogOfPool!Next, BacklogOfPool!PoolStep, spawnerVars,
              BacklogOfPool!spawnerVars
  <2>1. CASE ImageReady
    <3>1. UNCHANGED <<nitems, exits>>
      BY <2>1, NothingCounts DEF ImageReady, contractVars
    <3>2. BacklogOfPool!ImageReady
      BY <2>1, <3>1 DEF ImageReady, PrimeBacklog, BacklogOfPool!ImageReady,
         BacklogOfPool!PrimeBacklog, nitems, exits, Exited
    <3> QED
      BY <3>2
  <2>2. CASE ImageFails
    <3>1. UNCHANGED <<nitems, exits>>
      BY <2>2, NothingCounts DEF ImageFails, contractVars
    <3>2. BacklogOfPool!ImageFails
      BY <2>2, <3>1 DEF ImageFails, BacklogOfPool!ImageFails, nitems, exits, Exited
    <3> QED
      BY <3>2
  <2>3. CASE SendRequest
    <3>1. UNCHANGED <<nitems, exits>>
      BY <2>3, NothingCounts DEF SendRequest, contractVars
    <3>2. BacklogOfPool!SendRequest
      BY <2>3, <3>1 DEF SendRequest, Request, BacklogOfPool!SendRequest,
         BacklogOfPool!Request, nitems, exits, Exited
    <3> QED
      BY <3>2
  <2>4. ASSUME NEW i \in Items, TakeItem(i) PROVE Refines
    <3>1. nitems' = nitems + 1 /\ exits' = exits
      BY <1>0, <2>4, StartCounts DEF TakeItem
    <3>2. BacklogOfPool!TakeItem
      BY <2>4, <3>1 DEF TakeItem, Deliver, Filled, BacklogOfPool!TakeItem,
         BacklogOfPool!Deliver, BacklogOfPool!Filled, nitems, exits, Exited
    <3> QED
      BY <3>2
  <2>5. ASSUME NEW i \in Items, ItemReady(i) \/ StrayReturn(i) PROVE Refines
    BY <1>1, <1>3, <2>5 DEF ItemReady, StrayReturn, loopVars
  <2>6. ASSUME NEW i \in Items, ItemExit(i) PROVE Refines
    <3>1. /\ nitems > 0 /\ nitems' = nitems - 1
          /\ exits < Cardinality(Items) /\ exits' = exits + 1
      BY <1>0, <2>6, ExitCounts DEF ItemExit
    <3>2. BacklogOfPool!ItemExit
      BY <2>6, <3>1 DEF ItemExit, PrimeBacklog, BacklogOfPool!ItemExit,
         BacklogOfPool!PrimeBacklog, nitems, exits, Exited
    <3> QED
      BY <3>2
  <2>7. ASSUME NEW c \in Clients, ReturnReceived(c) PROVE Refines
    BY <1>1, <2>7 DEF ReturnReceived, ResetItem, contractVars, loopVars
  <2>8. ASSUME NEW s \in Stoppers, Shutdown(s) PROVE Refines
    <3>1. UNCHANGED <<nitems, exits>>
      BY <2>8, NothingCounts DEF Shutdown, KillItems
    <3>2. BacklogOfPool!Shutdown
      BY <2>8, <3>1 DEF Shutdown, CloseRequests, BacklogOfPool!Shutdown,
         BacklogOfPool!CloseRequests, nitems, exits, Exited
    <3> QED
      BY <3>2
  <2> QED
    BY <1>4, <2>1, <2>2, <2>3, <2>4, <2>5, <2>6, <2>7, <2>8 DEF LoopStep
<1>5. CASE DrainStep
  <2> USE DEF BacklogOfPool!Next, BacklogOfPool!PoolStep, spawnerVars,
              BacklogOfPool!spawnerVars
  <2>1. ASSUME NEW i \in Items, DrainTake(i) PROVE Refines
    <3>1. UNCHANGED <<nitems, exits>>
      BY <1>3, <2>1, NothingCounts DEF DrainTake, loopVars
    <3>2. BacklogOfPool!DrainTake
      BY <2>1, <3>1 DEF DrainTake, Deliver, Filled, BacklogOfPool!DrainTake, loopVars,
         BacklogOfPool!Deliver, BacklogOfPool!Filled, nitems, exits, Exited
    <3> QED
      BY <3>2
  <2>2. ASSUME NEW i \in Items, DrainReady(i) PROVE Refines
    BY <1>1, <1>3, <2>2 DEF DrainReady, loopVars
  <2>3. ASSUME NEW i \in Items, DrainExit(i) PROVE Refines
    <3>1. nitems > 0 /\ nitems' = nitems - 1 /\ exits' = exits + 1
      BY <1>0, <2>3, ExitCounts DEF DrainExit
    <3>2. BacklogOfPool!DrainExit
      BY <2>3, <3>1 DEF DrainExit, Draining, BacklogOfPool!DrainExit,
         BacklogOfPool!Draining, nitems, exits, Exited
    <3> QED
      BY <3>2
  <2>4. ASSUME NEW c \in Clients, DrainReturn(c) PROVE Refines
    BY <1>2, <2>4 DEF DrainReturn, loopVars
  <2>5. CASE SpawnerDrained
    <3>1. UNCHANGED <<nitems, exits>>
      BY <2>5, NothingCounts DEF SpawnerDrained, contractVars
    <3>2. BacklogOfPool!SpawnerDrained
      BY <2>5, <3>1 DEF SpawnerDrained, BacklogOfPool!SpawnerDrained, nitems, exits, Exited
    <3> QED
      BY <3>2
  <2>6. CASE ItemsDrained
    <3>1. UNCHANGED <<nitems, exits>>
      BY <2>6, NothingCounts DEF ItemsDrained, contractVars
    <3>2. nitems = 0
      BY <2>6, FS_EmptySet DEF ItemsDrained, nitems
    <3>3. BacklogOfPool!ItemsDrained
      BY <2>6, <3>1, <3>2 DEF ItemsDrained, BacklogOfPool!ItemsDrained, nitems, exits, Exited
    <3> QED
      BY <3>3
  <2> QED
    BY <1>5, <2>1, <2>2, <2>3, <2>4, <2>5, <2>6 DEF DrainStep
<1>6. CASE SpawnerStep
  <2>1. UNCHANGED <<pool, want, nitems, exits>>
    BY <1>6, NothingCounts
    DEF SpawnerStep, SpawnerReads, CreationFails, CreationSucceeds, SpawnerEnds,
        othersThanSpawner, loopVars, contractVars
  <2>2. BacklogOfPool!SpawnerStep
    BY <1>6, <2>1
    DEF SpawnerStep, SpawnerReads, CreationFails, CreationSucceeds, SpawnerEnds,
        ReadRequest, RequestsClosed, SpawnFailed, SpawnOk, SpawnerDone, Filled,
        BacklogOfPool!SpawnerStep, BacklogOfPool!ReadRequest, BacklogOfPool!RequestsClosed,
        BacklogOfPool!SpawnFailed, BacklogOfPool!SpawnOk, BacklogOfPool!SpawnerDone,
        BacklogOfPool!Filled, nitems, exits, Exited
  <2> QED
    BY <2>2 DEF BacklogOfPool!Next
<1>7. CASE BufferStop \/ UNCHANGED poolVars
  BY <1>2, <1>7 DEF BufferStop, poolVars, loopVars
<1>8. ASSUME NEW i \in Items, ItemAlone(i) PROVE Refines
  BY <1>1, <1>3, <1>8 DEF ItemAlone, loopVars
<1>9. ASSUME NEW c \in Clients, ClientStep(c) PROVE Refines
  BY <1>2, <1>9
  DEF ClientStep, CallCheckout, Checkout, CheckoutFails, CallReturn, ReturnAfterDone,
      Vanish, othersThanClients, loopVars
<1>10. ASSUME NEW s \in Stoppers,
              CallWaitReady(s) \/ WaitReadyReturns(s) \/ CallStop(s) \/ StopReturns(s)
       PROVE  Refines
  BY <1>2, <1>10 DEF CallWaitReady, WaitReadyReturns, CallStop, StopReturns, loopVars
<1> QED
  BY <1>4, <1>5, <1>6, <1>7, <1>8, <1>9, <1>10 DEF Next

\* A pool is a backlog: with identities, a buffer, clients and callers its main loop
\* still asks for, gets and forgets items as the counter of Backlog does.
THEOREM PoolIsBacklog == Spec => KeepsBacklog
<1>1. OwnInv /\ [Next]_poolVars => [BacklogOfPool!Next]_(BacklogOfPool!backlogVars)
  BY PoolStepIsBacklog
<1> QED
  BY <1>1, PoolInitIsBacklog, OwnInvariance, PTL DEF Spec, KeepsBacklog, BacklogOfPool!Spec

----------------------------------------------------------------------------
(* What is proved of a backlog holds of a pool *)

\* BacklogOfPool with the theorems about Backlog.
Counted ==
  INSTANCE BacklogProofs WITH
    nitems <- Cardinality(items),
    exits <- Cardinality({i \in Items : phase[i] = "exited"}),
    MaxExits <- Cardinality(Items)

\* It is the same specification.
LEMMA CountedIsBacklog == BacklogOfPool!Spec => Counted!Spec
<1>1. BacklogOfPool!Init => Counted!Init
  BY DEF BacklogOfPool!Init, BacklogOfPool!SpawnerInit, Counted!Init, Counted!SpawnerInit
<1>2. [BacklogOfPool!Next]_(BacklogOfPool!backlogVars) => [Counted!Next]_(Counted!backlogVars)
  <2>1. BacklogOfPool!PoolStep => Counted!PoolStep
    BY DEF BacklogOfPool!PoolStep, Counted!PoolStep,
           BacklogOfPool!ImageReady, Counted!ImageReady,
           BacklogOfPool!ImageFails, Counted!ImageFails,
           BacklogOfPool!SendRequest, Counted!SendRequest,
           BacklogOfPool!TakeItem, Counted!TakeItem,
           BacklogOfPool!ItemExit, Counted!ItemExit,
           BacklogOfPool!Shutdown, Counted!Shutdown,
           BacklogOfPool!DrainTake, Counted!DrainTake,
           BacklogOfPool!DrainExit, Counted!DrainExit,
           BacklogOfPool!SpawnerDrained, Counted!SpawnerDrained,
           BacklogOfPool!ItemsDrained, Counted!ItemsDrained,
           BacklogOfPool!PrimeBacklog, Counted!PrimeBacklog,
           BacklogOfPool!Draining, Counted!Draining,
           BacklogOfPool!Request, Counted!Request,
           BacklogOfPool!Deliver, Counted!Deliver,
           BacklogOfPool!Filled, Counted!Filled,
           BacklogOfPool!CloseRequests, Counted!CloseRequests,
           BacklogOfPool!spawnerVars, Counted!spawnerVars
  <2>2. BacklogOfPool!SpawnerStep => Counted!SpawnerStep
    BY DEF BacklogOfPool!SpawnerStep, Counted!SpawnerStep,
           BacklogOfPool!ReadRequest, Counted!ReadRequest,
           BacklogOfPool!RequestsClosed, Counted!RequestsClosed,
           BacklogOfPool!SpawnFailed, Counted!SpawnFailed,
           BacklogOfPool!SpawnOk, Counted!SpawnOk,
           BacklogOfPool!SpawnerDone, Counted!SpawnerDone,
           BacklogOfPool!Filled, Counted!Filled
  <2>3. BacklogOfPool!backlogVars = Counted!backlogVars
    BY DEF BacklogOfPool!backlogVars, Counted!backlogVars
  <2> QED
    BY <2>1, <2>2, <2>3 DEF BacklogOfPool!Next, Counted!Next, BacklogOfPool!backlogVars,
       Counted!backlogVars
<1> QED
  BY <1>1, <1>2, PTL DEF BacklogOfPool!Spec, Counted!Spec

\* So the invariant of a backlog is one of a pool.
LEMMA CountedInvariance == Spec => []Counted!IInv
<1>1. Cardinality(Items) \in Nat
  BY ItemsAssumption, FS_CardinalityType
<1>2. Counted!Spec => []Counted!IInv
  BY <1>1, Counted!Invariance, SizeAssumption, ReqCapAssumption DEF Counted!MaxExitsAssumption
<1> QED
  BY <1>2, PoolIsBacklog, CountedIsBacklog, PTL DEF KeepsBacklog

\* With it the types of the spawner and of the main loop are those of a pool.
LEMMA CountedTypes ==
  ASSUME OwnInv, Counted!IInv
  PROVE  IInv
<1>1. SpawnerTypeOK /\ pool \in PoolStates /\ want \in 0 .. Size
  BY DEF Counted!IInv, Counted!TypeOK, Counted!SpawnerTypeOK, Counted!SpawnerStates,
     Counted!PoolStates, SpawnerTypeOK, SpawnerStates, PoolStates
<1> QED
  BY <1>1 DEF IInv, OwnInv, OwnTypes, PlaceTypes, TypeOK

\* The inductive invariant, with the types of all variables.
THEOREM PoolInvariance == Spec => []IInv
  BY CountedTypes, OwnInvariance, CountedInvariance, PTL

\* The variables of a pool keep their types, whatever its size, the containers that
\* are created, the clients and the callers.
THEOREM TypeCorrect == Spec => []TypeOK
<1>1. IInv => TypeOK
  BY DEF IInv
<1> QED
  BY <1>1, PoolInvariance, PTL

\* When donech is closed every item the pool started has exited, the spawner has
\* returned and nothing is being created: Stop leaves no container of it running.
THEOREM DownWhenDone == Spec => []DoneMeansDown
<1>1. OwnInv /\ Counted!IInv => DoneMeansDown
  <2> SUFFICES ASSUME OwnInv, Counted!IInv, pool = "done" PROVE DoneMeansDown
    BY DEF DoneMeansDown
  <2>1. Cardinality(items) = 0 /\ sp = "done" /\ pending = 0
    BY DEF Counted!IInv, Counted!SpawnerGone
  <2>2. items = {}
    BY <2>1, CountsAreNumbers DEF OwnInv, OwnTypes, PlaceTypes, nitems
  <2> QED
    BY <2>1, <2>2 DEF DoneMeansDown, OwnInv, Owning
<1> QED
  BY <1>1, OwnInvariance, CountedInvariance, PTL

\* A pool that serves always has the items it is to maintain or is promised them by
\* its spawner, and never has, is offered and is creating more than ReqCap + 1 times
\* as many, whatever its items, clients and callers do.
THEOREM PoolKeepsSize ==
  Spec => [](BacklogOfPool!SpawnCovers /\ BacklogOfPool!OvershootBound)
<1>1. Cardinality(Items) \in Nat
  BY ItemsAssumption, FS_CardinalityType
<1>2. Counted!Spec => [](Counted!SpawnCovers)
  BY <1>1, Counted!CoversSize, SizeAssumption, ReqCapAssumption DEF Counted!MaxExitsAssumption
<1>3. Counted!Spec => [](Counted!OvershootBound)
  BY <1>1, Counted!BoundedGrowth, SizeAssumption, ReqCapAssumption
     DEF Counted!MaxExitsAssumption
<1>4. Counted!SpawnCovers /\ Counted!OvershootBound
        => BacklogOfPool!SpawnCovers /\ BacklogOfPool!OvershootBound
  BY DEF Counted!SpawnCovers, Counted!OvershootBound, Counted!Promised, Counted!InFlight,
     BacklogOfPool!SpawnCovers, BacklogOfPool!OvershootBound, BacklogOfPool!Promised,
     BacklogOfPool!InFlight
<1> QED
  BY <1>2, <1>3, <1>4, PoolIsBacklog, CountedIsBacklog, PTL DEF KeepsBacklog

\* A pool and its spawner wait for each other only if the pool has more than one
\* item and more of them have exited than requestch holds requests.
THEOREM PoolWedgeNeedsLoad ==
  Spec => []BacklogOfPool!WedgedUnderLoad
<1>1. Cardinality(Items) \in Nat
  BY ItemsAssumption, FS_CardinalityType
<1>2. Counted!Spec => []Counted!WedgedUnderLoad
  BY <1>1, Counted!WedgeNeedsLoad, SizeAssumption, ReqCapAssumption
     DEF Counted!MaxExitsAssumption
<1>3. Counted!WedgedUnderLoad => BacklogOfPool!WedgedUnderLoad
  BY DEF Counted!WedgedUnderLoad, Counted!Wedged, BacklogOfPool!WedgedUnderLoad,
     BacklogOfPool!Wedged
<1> QED
  BY <1>2, <1>3, PoolIsBacklog, CountedIsBacklog, PTL DEF KeepsBacklog
=============================================================================
