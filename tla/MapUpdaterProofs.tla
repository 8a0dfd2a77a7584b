-------------------------- MODULE MapUpdaterProofs --------------------------
(***************************************************************************)
(* Proofs about MapUpdater, for any maps and any finite set of workers.    *)
(* The invariant adds to the properties what the barrier of the world      *)
(* thread rests on: pending_requests counts the requests in the queue and  *)
(* those a worker holds, so that a count of zero means there are none.     *)
(***************************************************************************)
EXTENDS MapUpdater, FiniteSetTheorems, SequenceTheorems, TLAPS

Holding == {x \in Workers : req[x] # None}

Accounting == pending = Len(queue) + Cardinality(Holding)

\* Outside the schedule there is no map left to schedule, and outside the
\* barrier no request at all; a thread is told to return only after that.
Phases ==
    /\ unscheduled \subseteq maps
    /\ wpc # "schedule" => unscheduled = {}
    /\ wpc \notin {"schedule", "wait", "asleep"} =>
           queue = <<>> /\ \A x \in Executors : req[x] = None
    /\ cancel => wpc \in {"cancel", "join", "ended"}
    /\ wpc = "cancel" \/ shutdown => cancel

Requests ==
    /\ \A x \in Executors :
          /\ pc[x] \in {"off", "pop", "asleep", "returned"} => req[x] = None
          /\ Updating(x) => req[x] # None
          /\ pc[x] = "got" /\ req[x] = None => shutdown
    /\ pc[World] \in {"off", "update", "messages"}
    /\ pc[World] # "off" => wpc = "schedule"
    /\ threads = {} => queue = <<>> /\ \A x \in Workers : pc[x] = "off"

UpdaterInv == TypeOK /\ Phases /\ Requests /\ Accounting /\ OneRequestPerMap
-----------------------------------------------------------------------------
(***************************************************************************)
(* Queues and counts.                                                      *)
(***************************************************************************)
LEMMA Pushed ==
  ASSUME NEW S, NEW q \in Seq(S), NEW m \in S
  PROVE  /\ Append(q, m) \in Seq(S) /\ Len(Append(q, m)) = Len(q) + 1 /\ Len(q) \in Nat
         /\ {Append(q, m)[k] : k \in 1 .. Len(Append(q, m))}
               = {q[k] : k \in 1 .. Len(q)} \cup {m}
         /\ \A k \in 1 .. Len(q) : Append(q, m)[k] = q[k]
         /\ Append(q, m)[Len(q) + 1] = m
  <1>1. /\ Append(q, m) \in Seq(S) /\ Len(Append(q, m)) = Len(q) + 1 /\ Len(q) \in Nat
        /\ \A k \in 1 .. Len(q) : Append(q, m)[k] = q[k]
        /\ Append(q, m)[Len(q) + 1] = m
    BY AppendProperties, LenProperties
  <1>2. ASSUME NEW k \in 1 .. Len(Append(q, m))
        PROVE  Append(q, m)[k] \in {q[j] : j \in 1 .. Len(q)} \cup {m}
    BY <1>1
  <1>3. ASSUME NEW k \in 1 .. Len(q)
        PROVE  q[k] \in {Append(q, m)[j] : j \in 1 .. Len(Append(q, m))}
    BY <1>1
  <1>4. m \in {Append(q, m)[j] : j \in 1 .. Len(Append(q, m))}
    BY <1>1
  <1> QED
    BY <1>1, <1>2, <1>3, <1>4

LEMMA Popped ==
  ASSUME NEW S, NEW q \in Seq(S), q # <<>>
  PROVE  /\ Tail(q) \in Seq(S) /\ Len(Tail(q)) = Len(q) - 1 /\ Len(q) \in Nat \ {0}
         /\ Head(q) = q[1] /\ Head(q) \in S
         /\ {q[k] : k \in 1 .. Len(q)} = {Tail(q)[k] : k \in 1 .. Len(Tail(q))} \cup {Head(q)}
         /\ \A k \in 1 .. Len(Tail(q)) : Tail(q)[k] = q[k + 1]
  <1>1. /\ Tail(q) \in Seq(S) /\ Len(Tail(q)) = Len(q) - 1 /\ Len(q) \in Nat \ {0}
        /\ Head(q) = q[1] /\ Head(q) \in S
        /\ \A k \in 1 .. Len(Tail(q)) : Tail(q)[k] = q[k + 1]
    BY HeadTailProperties, LenProperties, EmptySeq
  <1>2. ASSUME NEW k \in 1 .. Len(q)
        PROVE  q[k] \in {Tail(q)[j] : j \in 1 .. Len(Tail(q))} \cup {Head(q)}
    <2>1. CASE k = 1
      BY <1>1, <2>1
    <2>2. CASE k # 1
      <3>1. k - 1 \in 1 .. Len(Tail(q)) /\ Tail(q)[k - 1] = q[k]
        BY <1>1, <2>2
      <3> QED
        BY <3>1
    <2> QED
      BY <2>1, <2>2
  <1>3. ASSUME NEW k \in 1 .. Len(Tail(q)) PROVE Tail(q)[k] \in {q[j] : j \in 1 .. Len(q)}
    BY <1>1
  <1>4. Head(q) \in {q[j] : j \in 1 .. Len(q)}
    BY <1>1
  <1> QED
    BY <1>1, <1>2, <1>3, <1>4

LEMMA HoldingFinite ==
  ASSUME NEW S \in SUBSET Workers
  PROVE  IsFiniteSet(S) /\ Cardinality(S) \in Nat
  BY MapUpdaterAssumption, FS_Subset, FS_CardinalityType

LEMMA HoldsOneMore ==
  ASSUME NEW S \in SUBSET Workers, NEW x, x \notin S
  PROVE  Cardinality(S \cup {x}) = Cardinality(S) + 1
  BY HoldingFinite, FS_AddElement

LEMMA HoldsOneLess ==
  ASSUME NEW S \in SUBSET Workers, NEW x \in S
  PROVE  Cardinality(S \ {x}) = Cardinality(S) - 1 /\ Cardinality(S) # 0
  BY HoldingFinite, FS_RemoveElement
-----------------------------------------------------------------------------
LEMMA InitInv == Init => UpdaterInv
  <1> SUFFICES ASSUME Init PROVE UpdaterInv
    OBVIOUS
  <1> USE MapUpdaterAssumption
  <1>1. Holding = {} /\ Cardinality({}) = 0
    BY FS_EmptySet DEF Init, Holding, Executors
  <1>2. queue = <<>> /\ Len(queue) = 0 /\ pending = 0
    BY DEF Init
  <1>3. TypeOK
    <2>1. <<>> \in Seq(Maps) /\ <<>> \in Seq(Nat)
      BY EmptySeq
    <2>2. mailbox \in [Maps -> Seq(Nat)] /\ batch \in [Maps -> Seq(Nat)]
      BY <2>1 DEF Init
    <2>3. pc \in [Executors -> {"off", "pop", "asleep", "got", "update", "messages", "finish",
                               "returned"}]
      BY DEF Init
    <2> QED
      BY <2>1, <2>2, <2>3 DEF Init, TypeOK
  <1>4. Phases /\ Requests
    BY DEF Init, Phases, Requests, Executors, Updating
  <1>5. OneRequestPerMap
    BY <1>2 DEF Init, OneRequestPerMap, Queued, Executors
  <1>6. Accounting
    BY <1>1, <1>2 DEF Accounting
  <1> QED
    BY <1>3, <1>4, <1>5, <1>6 DEF UpdaterInv

-----------------------------------------------------------------------------
(***************************************************************************)
(* The types of the messages.                                              *)
(***************************************************************************)
MessageTypes ==
    /\ mailbox \in [Maps -> Seq(Nat)] /\ batch \in [Maps -> Seq(Nat)]
    /\ sent \in Nat /\ done \in SUBSET Nat /\ dropped \in SUBSET Nat

LEMMA SendTypes ==
  ASSUME mailbox \in [Maps -> Seq(Nat)], sent \in Nat, MaySend
  PROVE  mailbox' \in [Maps -> Seq(Nat)] /\ sent' \in Nat
  <1>1. CASE \E m \in Maps : AddMessage(m)
    <2> PICK m \in Maps : AddMessage(m)
      BY <1>1
    <2>1. sent' \in Nat /\ mailbox[m] \in Seq(Nat)
      BY DEF AddMessage
    <2>2. Append(mailbox[m], sent') \in Seq(Nat)
      BY <2>1, AppendProperties
    <2> QED
      BY <2>1, <2>2 DEF AddMessage
  <1> QED
    BY <1>1 DEF MaySend

LEMMA DiscardTypes ==
  ASSUME MessageTypes, NEW gone \in SUBSET Maps, Discard(gone), UNCHANGED <<batch, sent, done>>
  PROVE  MessageTypes'
  <1>1. mailbox' \in [Maps -> Seq(Nat)]
    BY EmptySeq DEF Discard, MessageTypes
  <1>2. ASSUME NEW m \in Maps PROVE Letters(m) \subseteq Nat
    BY ElementOfSeq DEF Letters, MessageTypes
  <1>3. dropped' \in SUBSET Nat
    BY <1>2 DEF Discard, MessageTypes
  <1> QED
    BY <1>1, <1>3 DEF MessageTypes

LEMMA UpdateTypes ==
  ASSUME TypeOK, Requests, NEW x \in Executors, MapUpdate(x)
  PROVE  MessageTypes'
  <1> USE DEF TypeOK, MessageTypes
  <1>1. CASE TakeMessages(x)
    <2>1. req[x] \in Maps
      BY <1>1 DEF TakeMessages
    <2> QED
      BY <1>1, <2>1, EmptySeq DEF TakeMessages
  <1>2. CASE RunMessage(x)
    <2>1. req[x] \in Maps /\ batch[req[x]] \in Seq(Nat) /\ batch[req[x]] # <<>>
      BY <1>2 DEF RunMessage, Requests, Updating
    <2>2. Head(batch[req[x]]) \in Nat /\ Tail(batch[req[x]]) \in Seq(Nat)
      BY <2>1, HeadTailProperties
    <2> QED
      BY <1>2, <2>1, <2>2, SendTypes DEF RunMessage
  <1>3. CASE UpdateObjects(x)
    BY <1>3, SendTypes DEF UpdateObjects
  <1> QED
    BY <1>1, <1>2, <1>3 DEF MapUpdate

LEMMA NextMessageTypes == UpdaterInv /\ [Next]_vars => MessageTypes'
  <1> SUFFICES ASSUME UpdaterInv, [Next]_vars PROVE MessageTypes'
    OBVIOUS
  <1>0. TypeOK /\ Requests /\ MessageTypes
    BY DEF UpdaterInv, TypeOK, MessageTypes
  <1>1. CASE \E x \in Executors : MapUpdate(x)
    BY <1>0, <1>1, UpdateTypes
  <1>2. CASE SendFromWorld
    BY <1>0, <1>2, SendTypes DEF SendFromWorld, MaySend, MessageTypes
  <1>3. CASE UnloadMaps
    <2> PICK gone \in SUBSET maps : Discard(gone)
      BY <1>3 DEF UnloadMaps
    <2>1. gone \in SUBSET Maps /\ UNCHANGED <<batch, sent, done>>
      BY <1>0, <1>3 DEF UnloadMaps, TypeOK
    <2> QED
      BY <1>0, <2>1, DiscardTypes
  <1>4. CASE UnloadAll
    <2>1. maps \in SUBSET Maps /\ UNCHANGED <<batch, sent, done>> /\ Discard(maps)
      BY <1>0, <1>4 DEF UnloadAll, TypeOK
    <2> QED
      BY <1>0, <2>1, DiscardTypes
  <1>5. CASE UNCHANGED messages
    BY <1>0, <1>5 DEF MessageTypes, messages
  <1>6. ASSUME NEW m \in Maps, CreateMap(m) \/ ScheduleUpdate(m) \/ UpdateInline(m)
        PROVE  UNCHANGED messages
    BY <1>6 DEF CreateMap, ScheduleUpdate, UpdateInline
  <1>7. ASSUME NEW x \in Workers, WaitAndPop(x) \/ CheckCancelation(x) \/ UpdateFinished(x)
        PROVE  UNCHANGED messages
    BY <1>7 DEF WaitAndPop, CheckCancelation, UpdateFinished
  <1>8. ASSUME BeginUpdate \/ AllScheduled \/ Wait \/ SetCancelationToken \/ Cancel \/ Join
               \/ SpuriousWakeup
        PROVE  UNCHANGED messages
    BY <1>8 DEF BeginUpdate, AllScheduled, Wait, SetCancelationToken, Cancel, Join,
                SpuriousWakeup
  <1>9. UNCHANGED vars => UNCHANGED messages
    BY DEF vars
  <1> QED
    BY <1>1, <1>2, <1>3, <1>4, <1>5, <1>6, <1>7, <1>8, <1>9
       DEF Next, WorldThread, WorkerThread, Executors
-----------------------------------------------------------------------------
(***************************************************************************)
(* Steps that leave every request where it is.                             *)
(***************************************************************************)
\* Where the threads are, apart from the messages.
ControlTypes ==
    /\ threads \subseteq Workers /\ maps \subseteq Maps /\ unscheduled \subseteq Maps
    /\ wpc \in {"tick", "schedule", "wait", "asleep", "unload", "deactivate", "cancel", "join",
               "ended"}
    /\ queue \in Seq(Maps) /\ shutdown \in BOOLEAN /\ cancel \in BOOLEAN /\ pending \in Nat
    /\ pc \in [Executors -> {"off", "pop", "asleep", "got", "update", "messages", "finish",
                             "returned"}]
    /\ req \in [Executors -> Maps \cup {None}]

ControlInv == ControlTypes /\ Phases /\ Requests /\ Accounting /\ OneRequestPerMap

LEMMA Parts == UpdaterInv <=> ControlInv /\ MessageTypes
  BY DEF UpdaterInv, ControlInv, TypeOK, ControlTypes, MessageTypes

LEMMA StillStep ==
  ASSUME ControlInv, UNCHANGED <<queue, pending, req>>, ControlTypes', Phases', Requests',
         \/ UNCHANGED <<maps, unscheduled>>
         \/ queue = <<>> /\ \A x \in Executors : req[x] = None
  PROVE  ControlInv'
  <1>1. Accounting'
    BY DEF ControlInv, Accounting, Holding
  <1>2. CASE UNCHANGED <<maps, unscheduled>>
    <2>1. OneRequestPerMap'
      BY <1>2 DEF ControlInv, OneRequestPerMap, Queued
    <2> QED
      BY <1>1, <2>1 DEF ControlInv
  <1>3. CASE queue = <<>> /\ \A x \in Executors : req[x] = None
    <2>1. OneRequestPerMap'
      BY <1>3 DEF OneRequestPerMap, Queued
    <2> QED
      BY <1>1, <2>1 DEF ControlInv
  <1> QED
    BY <1>2, <1>3

LEMMA WorldSteps ==
  ASSUME ControlInv,
         \/ \E m \in Maps : CreateMap(m)
         \/ SendFromWorld \/ BeginUpdate \/ AllScheduled \/ UnloadMaps \/ UnloadAll
         \/ SetCancelationToken \/ Join \/ SpuriousWakeup
  PROVE  ControlInv'
  <1> USE MapUpdaterAssumption DEF ControlInv, ControlTypes, Phases, Requests, Updating, updater
  <1>1. ASSUME NEW m \in Maps, CreateMap(m) PROVE ControlInv'
    BY <1>1, StillStep DEF CreateMap
  <1>2. CASE SendFromWorld
    BY <1>2, StillStep DEF SendFromWorld
  <1>3. CASE BeginUpdate
    BY <1>3, StillStep DEF BeginUpdate
  <1>4. CASE AllScheduled
    <2>1. threads = {} => queue = <<>> /\ \A x \in Executors : req[x] = None
      BY <1>4 DEF AllScheduled, Executors
    <2> QED
      BY <1>4, <2>1, StillStep DEF AllScheduled
  <1>5. CASE UnloadMaps
    BY <1>5, StillStep DEF UnloadMaps, Discard
  <1>6. CASE UnloadAll
    BY <1>6, StillStep DEF UnloadAll, Discard
  <1>7. CASE SetCancelationToken
    BY <1>7, StillStep DEF SetCancelationToken
  <1>8. CASE Join
    BY <1>8, StillStep DEF Join
  <1>9. CASE SpuriousWakeup
    BY <1>9, StillStep DEF SpuriousWakeup, Executors
  <1> QED
    BY <1>1, <1>2, <1>3, <1>4, <1>5, <1>6, <1>7, <1>8, <1>9

\* The wait ends when no request is left, because the count says so.
LEMMA WaitStep == ASSUME ControlInv, Wait PROVE ControlInv'
  <1>1. CASE pending > 0
    BY <1>1, StillStep
       DEF Wait, ControlInv, ControlTypes, Phases, Requests, Updating, updater
  <1>2. CASE pending = 0
    <2>1. Len(queue) \in Nat /\ Holding \in SUBSET Workers /\ Cardinality(Holding) \in Nat
      BY HoldingFinite, LenProperties DEF ControlInv, ControlTypes, Holding
    <2>2. Len(queue) = 0 /\ Cardinality(Holding) = 0
      BY <1>2, <2>1 DEF ControlInv, Accounting
    <2>3. queue = <<>> /\ Holding = {}
      BY <2>1, <2>2, HoldingFinite, FS_EmptySet, EmptySeq DEF ControlInv, ControlTypes
    <2>4. req[World] = None
      BY DEF ControlInv, Requests, Wait, Executors
    <2>5. \A x \in Executors : req[x] = None
      BY <2>3, <2>4 DEF Holding, Executors
    <2> QED
      BY <1>2, <2>3, <2>5, StillStep
         DEF Wait, ControlInv, ControlTypes, Phases, Requests, Updating, updater
  <1> QED
    BY <1>1, <1>2 DEF ControlInv, ControlTypes

LEMMA CancelStep == ASSUME ControlInv, Cancel PROVE ControlInv'
  <1>1. queue = <<>> /\ UNCHANGED <<queue, pending, req, maps, unscheduled>>
    BY DEF Cancel, ControlInv, Phases
  <1> QED
    BY <1>1, StillStep
       DEF Cancel, ControlInv, ControlTypes, Phases, Requests, Updating, Executors

LEMMA MapUpdateStep ==
  ASSUME ControlInv, NEW x \in Executors,
         TakeMessages(x) \/ RunMessage(x) \/ (UpdateObjects(x) /\ x # World)
  PROVE  ControlInv'
  <1> USE MapUpdaterAssumption DEF ControlInv, ControlTypes, Phases, Requests, Updating, updater
  <1>1. CASE TakeMessages(x)
    BY <1>1, StillStep DEF TakeMessages
  <1>2. CASE RunMessage(x)
    BY <1>2, StillStep DEF RunMessage
  <1>3. CASE UpdateObjects(x) /\ x # World
    BY <1>3, StillStep DEF UpdateObjects
  <1> QED
    BY <1>1, <1>2, <1>3
-----------------------------------------------------------------------------
(***************************************************************************)
(* Steps that move a request.                                              *)
(***************************************************************************)
LEMMA ScheduleStep == ASSUME ControlInv, NEW m \in Maps, ScheduleUpdate(m) PROVE ControlInv'
  <1> USE MapUpdaterAssumption DEF ControlInv, ControlTypes
  <1>1. /\ queue' \in Seq(Maps) /\ Len(queue') = Len(queue) + 1 /\ Len(queue) \in Nat
        /\ Queued' = Queued \cup {m}
        /\ \A k \in 1 .. Len(queue) : queue'[k] = queue[k]
        /\ queue'[Len(queue) + 1] = m
    BY Pushed DEF ScheduleUpdate, Queued
  <1>2. \/ pc' = pc
        \/ \E x \in Workers : pc[x] = "asleep" /\ pc' = [pc EXCEPT ![x] = "pop"]
    BY DEF ScheduleUpdate, NotifyOne
  <1>3. ControlTypes'
    BY <1>1, <1>2 DEF ScheduleUpdate, Executors
  <1>4. Phases' /\ Requests'
    BY <1>2 DEF ScheduleUpdate, Phases, Requests, Updating, Executors
  <1>5. Accounting'
    <2>1. Holding' = Holding /\ Cardinality(Holding) \in Nat
      BY HoldingFinite DEF ScheduleUpdate, Holding
    <2> QED
      BY <1>1, <2>1 DEF ScheduleUpdate, Accounting
  <1>6. OneRequestPerMap'
    <2>1. m \in maps /\ m \in unscheduled /\ m \notin Queued
      BY DEF ScheduleUpdate, Phases, OneRequestPerMap
    <2>2. \A j \in 1 .. Len(queue) : queue[j] # m
      BY <2>1 DEF Queued
    <2>3. \A j, k \in 1 .. Len(queue') : queue'[j] = queue'[k] => j = k
      BY <1>1, <2>2 DEF OneRequestPerMap
    <2> QED
      BY <1>1, <2>1, <2>3 DEF ScheduleUpdate, OneRequestPerMap
  <1> QED
    BY <1>3, <1>4, <1>5, <1>6

LEMMA InlineStep == ASSUME ControlInv, NEW m \in Maps, UpdateInline(m) PROVE ControlInv'
  <1> USE MapUpdaterAssumption DEF ControlInv, ControlTypes, updater
  <1>1. ControlTypes'
    BY DEF UpdateInline, Executors
  <1>2. Phases' /\ Requests'
    BY DEF UpdateInline, Phases, Requests, Updating, Executors
  <1>3. Holding' = Holding
    BY DEF UpdateInline, Holding, Executors
  <1>4. Accounting'
    BY <1>3 DEF UpdateInline, Accounting
  <1>5. OneRequestPerMap'
    <2>1. m \in maps /\ m \in unscheduled /\ m \notin Queued
      BY DEF UpdateInline, Phases, OneRequestPerMap
    <2> QED
      BY <2>1 DEF UpdateInline, OneRequestPerMap, Queued
  <1> QED
    BY <1>1, <1>2, <1>4, <1>5

LEMMA PopStep == ASSUME ControlInv, NEW x \in Workers, WaitAndPop(x) PROVE ControlInv'
  <1> USE MapUpdaterAssumption DEF ControlInv, ControlTypes
  <1>1. x \in Executors /\ x # World /\ req[x] = None
    BY DEF WaitAndPop, Requests, Executors
  <1>2. CASE queue' = queue /\ req' = req
    BY <1>1, <1>2, StillStep DEF WaitAndPop, Phases, Requests, Updating, Executors
  <1>3. CASE /\ ~shutdown /\ queue # <<>>
             /\ req' = [req EXCEPT ![x] = Head(queue)] /\ queue' = Tail(queue)
             /\ pc' = [pc EXCEPT ![x] = "got"]
    <2>1. /\ queue' \in Seq(Maps) /\ Len(queue') = Len(queue) - 1 /\ Len(queue) \in Nat \ {0}
          /\ Head(queue) = queue[1] /\ Head(queue) \in Maps
          /\ Queued = Queued' \cup {Head(queue)}
          /\ \A k \in 1 .. Len(queue') : queue'[k] = queue[k + 1]
      BY <1>3, Popped DEF Queued
    <2>2. ControlTypes'
      BY <1>3, <2>1 DEF WaitAndPop, Executors
    <2>3. Phases' /\ Requests'
      BY <1>1, <1>3, <2>1 DEF WaitAndPop, Phases, Requests, Updating, Executors
    <2>4. Accounting'
      <3>1. Holding' = Holding \cup {x} /\ x \notin Holding
        BY <1>1, <1>3, <2>1 DEF Holding, Executors
      <3>2. Holding \in SUBSET Workers /\ Cardinality(Holding) \in Nat
        BY HoldingFinite DEF Holding
      <3>3. Cardinality(Holding') = Cardinality(Holding) + 1
        BY <3>1, <3>2, HoldsOneMore
      <3> QED
        BY <2>1, <3>2, <3>3 DEF WaitAndPop, Accounting
    <2>5. OneRequestPerMap'
      <3>1. \A j, k \in 1 .. Len(queue') : queue'[j] = queue'[k] => j = k
        BY <2>1 DEF OneRequestPerMap
      <3>2. Head(queue) \notin Queued'
        <4>1. \A k \in 1 .. Len(queue') : queue'[k] # queue[1]
          BY <2>1 DEF OneRequestPerMap
        <4> QED
          BY <2>1, <4>1 DEF Queued
      <3>3. Head(queue) \in maps \ unscheduled /\ Queued' \subseteq maps \ unscheduled
        BY <2>1 DEF OneRequestPerMap
      <3>4. \A y \in Executors : req'[y] = IF y = x THEN Head(queue) ELSE req[y]
        BY <1>1, <1>3
      <3>5. \A y \in Executors : req[y] # None => req[y] \notin Queued
        BY DEF OneRequestPerMap
      <3>6. \A y \in Executors : req'[y] # None => req'[y] \in maps \ (unscheduled \cup Queued')
        BY <2>1, <3>2, <3>3, <3>4, <3>5 DEF OneRequestPerMap
      <3>7. \A y, z \in Executors : req'[y] # None /\ req'[y] = req'[z] => y = z
        BY <2>1, <3>4, <3>5 DEF OneRequestPerMap
      <3> QED
        BY <3>1, <3>3, <3>6, <3>7 DEF WaitAndPop, OneRequestPerMap
    <2> QED
      BY <2>2, <2>3, <2>4, <2>5
  <1> QED
    BY <1>2, <1>3 DEF WaitAndPop

\* The token is only set when there is no request left to drop.
LEMMA CheckStep == ASSUME ControlInv, NEW x \in Workers, CheckCancelation(x) PROVE ControlInv'
  <1> USE MapUpdaterAssumption DEF ControlInv, ControlTypes, updater
  <1>1. x \in Executors /\ x # World
    BY DEF Executors
  <1>2. cancel => req[x] = None
    BY <1>1 DEF Phases
  <1>3. req' = req
    BY <1>2 DEF CheckCancelation
  <1>4. Phases' /\ Requests' /\ ControlTypes'
    BY <1>1, <1>2, <1>3 DEF CheckCancelation, Phases, Requests, Updating, Executors
  <1> QED
    BY <1>3, <1>4, StillStep DEF CheckCancelation

LEMMA FinishStep ==
  ASSUME ControlInv, NEW x \in Executors,
         (UpdateObjects(x) /\ x = World) \/ (UpdateFinished(x) /\ x \in Workers)
  PROVE  ControlInv'
  <1> USE MapUpdaterAssumption DEF ControlInv, ControlTypes, updater
  <1>1. req[x] # None /\ req' = [req EXCEPT ![x] = None] /\ UNCHANGED <<queue, maps, unscheduled>>
    BY DEF UpdateObjects, UpdateFinished, Requests, Updating
  <1>2. Phases' /\ Requests'
    BY <1>1 DEF UpdateObjects, UpdateFinished, Phases, Requests, Updating, Executors
  <1>3. OneRequestPerMap'
    BY <1>1 DEF OneRequestPerMap, Queued
  <1>4. CASE UpdateObjects(x) /\ x = World
    <2>1. Holding' = Holding
      BY <1>1, <1>4 DEF Holding, Executors
    <2> QED
      BY <1>1, <1>2, <1>3, <1>4, <2>1 DEF UpdateObjects, Accounting
  <1>5. CASE UpdateFinished(x) /\ x \in Workers
    <2>1. Holding' = Holding \ {x} /\ x \in Holding
      BY <1>1, <1>5 DEF Holding, Executors
    <2>2. Holding \in SUBSET Workers /\ Cardinality(Holding) \in Nat /\ Len(queue) \in Nat
      BY HoldingFinite, LenProperties DEF Holding
    <2>3. Cardinality(Holding') = Cardinality(Holding) - 1 /\ Cardinality(Holding) # 0
      BY <2>1, <2>2, HoldsOneLess
    <2>4. Accounting' /\ pending' \in Nat
      BY <1>1, <1>5, <2>2, <2>3 DEF UpdateFinished, Accounting
    <2>5. ControlTypes'
      BY <1>1, <1>5, <2>4 DEF UpdateFinished
    <2> QED
      BY <1>2, <1>3, <2>4, <2>5
  <1> QED
    BY <1>4, <1>5

LEMMA NextInv == UpdaterInv /\ [Next]_vars => UpdaterInv'
  <1> SUFFICES ASSUME UpdaterInv, [Next]_vars PROVE UpdaterInv'
    OBVIOUS
  <1>1. ControlInv /\ MessageTypes'
    BY Parts, NextMessageTypes
  <1>2. ControlInv'
    <2>1. CASE \E m \in Maps : ScheduleUpdate(m) \/ UpdateInline(m)
      BY <1>1, <2>1, ScheduleStep, InlineStep
    <2>2. CASE \/ \E m \in Maps : CreateMap(m)
               \/ SendFromWorld \/ BeginUpdate \/ AllScheduled \/ UnloadMaps \/ UnloadAll
               \/ SetCancelationToken \/ Join \/ SpuriousWakeup
      BY <1>1, <2>2, WorldSteps
    <2>3. CASE Wait \/ Cancel
      BY <1>1, <2>3, WaitStep, CancelStep
    <2>4. CASE \E x \in Executors : MapUpdate(x)
      BY <1>1, <2>4, MapUpdateStep, FinishStep DEF MapUpdate
    <2>5. CASE \E x \in Workers : WaitAndPop(x) \/ CheckCancelation(x) \/ UpdateFinished(x)
      BY <1>1, <2>5, PopStep, CheckStep, FinishStep DEF Executors
    <2>6. CASE UNCHANGED vars
      BY <1>1, <2>6
         DEF vars, updater, ControlInv, ControlTypes, Phases, Requests, Updating, Accounting,
             Holding, OneRequestPerMap, Queued
    <2> QED
      BY <2>1, <2>2, <2>3, <2>4, <2>5, <2>6 DEF Next, WorldThread, WorkerThread, Executors
  <1> QED
    BY <1>1, <1>2, Parts DEF UpdaterInv, ControlInv, TypeOK, ControlTypes, MessageTypes
-----------------------------------------------------------------------------
LEMMA Invariant == Spec => []UpdaterInv
  <1>1. UpdaterInv /\ [Next]_vars => UpdaterInv'
    BY NextInv
  <1> QED
    BY <1>1, InitInv, PTL DEF Spec

(***************************************************************************)
(* The types of all variables.                                             *)
(***************************************************************************)
THEOREM TypeCorrect == Spec => []TypeOK
  <1>1. UpdaterInv => TypeOK
    BY DEF UpdaterInv
  <1> QED
    BY <1>1, Invariant, PTL

(***************************************************************************)
(* No map is updated while the world thread does anything but schedule and *)
(* wait: MapManager::Update returns only when pending_requests is zero.    *)
(***************************************************************************)
THEOREM Alone == Spec => []WorldAlone
  <1>1. UpdaterInv => WorldAlone
    BY DEF UpdaterInv, Phases, Requests, WorldAlone
  <1> QED
    BY <1>1, Invariant, PTL

(***************************************************************************)
(* A map has one request at most, in the queue or with one thread, and is  *)
(* loaded as long as it has one.                                           *)
(***************************************************************************)
THEOREM Exclusive == Spec => []OneRequestPerMap
  <1>1. UpdaterInv => OneRequestPerMap
    BY DEF UpdaterInv
  <1> QED
    BY <1>1, Invariant, PTL

(***************************************************************************)
(* A worker that comes back from WaitAndPop without a request, because of  *)
(* a shutdown, does not execute it.                                        *)
(***************************************************************************)
THEOREM NeverNull == Spec => []NoNullRequest
  <1>1. UpdaterInv => NoNullRequest
    BY DEF UpdaterInv, Requests, NoNullRequest
  <1> QED
    BY <1>1, Invariant, PTL
-----------------------------------------------------------------------------
(***************************************************************************)
(* The threads implement the tick.                                         *)
(***************************************************************************)
TicksAlone == wpc \notin {"schedule", "wait", "asleep"}
Got == {req[x] : x \in {y \in Executors : req[y] # None /\ pc[y] = "got"}}
TicksTodo == unscheduled \cup Queued \cup Got
TicksBusy == {req[x] : x \in {y \in Executors : Updating(y)}}

\* A step the tick does not see.
Unseen == UNCHANGED <<maps, TicksAlone, TicksTodo, TicksBusy>>

LEMMA NothingLeft ==
  ASSUME ControlInv, unscheduled = {}, queue = <<>>, \A x \in Executors : req[x] = None
  PROVE  TicksTodo = {} /\ TicksBusy = {}
  BY DEF ControlInv, Requests, Queued, TicksTodo, TicksBusy, Got

\* Outside the barrier nothing is to do or being done.
LEMMA WhileAlone ==
  ASSUME ControlInv, TicksAlone
  PROVE  TicksTodo = {} /\ TicksBusy = {} /\ unscheduled = {} /\ Queued = {}
         /\ \A x \in Executors : req[x] = None
  BY NothingLeft DEF ControlInv, Phases, TicksAlone, Queued

LEMMA TickStarts == ASSUME ControlInv, BeginUpdate PROVE Ticks!BeginTick
  <1>1. TicksAlone /\ ~TicksAlone'
    BY DEF BeginUpdate, TicksAlone
  <1>2. Got' = {} /\ TicksBusy' = {} /\ Queued' = {}
    BY <1>1, WhileAlone
       DEF BeginUpdate, updater, Got, TicksBusy, Queued, Updating, ControlInv, Requests
  <1>3. TicksTodo' = maps
    BY <1>2 DEF BeginUpdate, TicksTodo
  <1> QED
    BY <1>1, <1>2, <1>3, WhileAlone
       DEF BeginUpdate, Ticks!BeginTick, TicksAlone, TicksTodo, TicksBusy, Got

LEMMA MapStarts ==
  ASSUME ControlInv, NEW m \in maps, m \in TicksTodo, TicksTodo' = TicksTodo \ {m},
         TicksBusy' = TicksBusy \cup {m}, UNCHANGED <<maps, wpc>>
  PROVE  Ticks!StartMap(m)
  BY DEF Ticks!StartMap, TicksTodo, TicksBusy, Got

LEMMA InlineStarts ==
  ASSUME ControlInv, NEW m \in Maps, UpdateInline(m) PROVE Ticks!StartMap(m)
  <1> USE MapUpdaterAssumption DEF ControlInv, ControlTypes
  <1>1. m \in unscheduled /\ m \in maps /\ m \notin Queued /\ req[World] = None
        /\ \A x \in Executors : req[x] # m
    BY DEF UpdateInline, Phases, Requests, OneRequestPerMap, Executors
  <1>2. Queued' = Queued
    BY DEF UpdateInline, updater, Queued
  <1>3. Got' = Got
    BY <1>1 DEF UpdateInline, Got, Executors
  <1>4. m \notin Got
    BY <1>1 DEF Got
  <1>5. TicksTodo' = TicksTodo \ {m}
    BY <1>1, <1>2, <1>3, <1>4 DEF UpdateInline, TicksTodo
  <1>6. TicksBusy' = TicksBusy \cup {m}
    <2>1. \A x \in Executors : Updating(x)' <=> Updating(x) \/ x = World
      BY DEF UpdateInline, Updating, Executors
    <2>2. \A x \in Executors : req'[x] = IF x = World THEN m ELSE req[x]
      BY DEF UpdateInline
    <2>3. ~Updating(World) /\ World \in Executors
      BY DEF UpdateInline, Updating, Executors
    <2> QED
      BY <2>1, <2>2, <2>3 DEF TicksBusy
  <1> QED
    BY <1>1, <1>5, <1>6, MapStarts DEF UpdateInline, TicksTodo

LEMMA WorkerStarts ==
  ASSUME ControlInv, NEW x \in Workers, CheckCancelation(x), ~cancel
  PROVE  req[x] \in maps /\ Ticks!StartMap(req[x])
  <1> USE MapUpdaterAssumption DEF ControlInv, ControlTypes
  <1>1. x \in Executors /\ pc[x] = "got" /\ req[x] # None
    BY DEF CheckCancelation, Requests, Phases, Executors
  <1>2. req[x] \in maps \ (unscheduled \cup Queued)
        /\ \A y \in Executors : req[y] = req[x] => y = x
    BY <1>1 DEF OneRequestPerMap
  <1>3. UNCHANGED <<req, queue, unscheduled, maps, wpc>> /\ pc' = [pc EXCEPT ![x] = "update"]
    BY DEF CheckCancelation, updater
  <1>4. Got' = Got \ {req[x]} /\ req[x] \in Got
    BY <1>1, <1>2, <1>3 DEF Got
  <1>5. TicksTodo' = TicksTodo \ {req[x]} /\ req[x] \in TicksTodo
    BY <1>2, <1>3, <1>4 DEF TicksTodo, Queued
  <1>6. TicksBusy' = TicksBusy \cup {req[x]}
    BY <1>1, <1>3 DEF TicksBusy, Updating
  <1> QED
    BY <1>2, <1>3, <1>5, <1>6 DEF Ticks!StartMap, TicksTodo, TicksBusy, Got

LEMMA MapFinishes ==
  ASSUME ControlInv, NEW x \in Executors,
         (UpdateObjects(x) /\ x = World) \/ (UpdateFinished(x) /\ x \in Workers)
  PROVE  req[x] \in Maps /\ Ticks!FinishMap(req[x])
  <1> USE MapUpdaterAssumption DEF ControlInv, ControlTypes, updater
  <1>1. /\ Updating(x) /\ req[x] # None /\ req' = [req EXCEPT ![x] = None]
        /\ UNCHANGED <<queue, maps, unscheduled>>
        /\ \A y \in Executors : y # x => pc'[y] = pc[y]
        /\ pc'[x] \in {"off", "pop"}
    BY DEF UpdateObjects, UpdateFinished, Requests, Updating
  <1>2. \A y \in Executors : req[y] = req[x] => y = x
    BY <1>1 DEF OneRequestPerMap
  <1>3. TicksBusy' = TicksBusy \ {req[x]} /\ req[x] \in TicksBusy
    BY <1>1, <1>2 DEF TicksBusy, Updating
  <1>4. Got' = Got
    BY <1>1 DEF Got, Updating
  <1>5. TicksTodo' = TicksTodo
    BY <1>1, <1>4 DEF TicksTodo, Queued
  <1>6. TicksAlone' = TicksAlone
    BY DEF UpdateObjects, UpdateFinished, TicksAlone
  <1> QED
    BY <1>1, <1>3, <1>5, <1>6 DEF Ticks!FinishMap, TicksAlone, TicksTodo, TicksBusy, Got

LEMMA TickEnded ==
  ASSUME ControlInv, ControlInv', ~TicksAlone, TicksAlone',
         UNCHANGED <<maps, unscheduled, queue, pc, req>>
  PROVE  Ticks!EndTick
  <1>1. TicksTodo' = {} /\ TicksBusy' = {} /\ TicksTodo' = TicksTodo /\ TicksBusy' = TicksBusy
    <2>1. UNCHANGED <<TicksTodo, TicksBusy>>
      BY DEF TicksTodo, TicksBusy, Queued, Got, Updating
    <2>2. /\ unscheduled' = {} /\ queue' = <<>>
          /\ \A x \in Executors : req'[x] = None /\ ~Updating(x)'
      BY DEF ControlInv, Phases, Requests, TicksAlone
    <2> QED
      BY <2>1, <2>2 DEF TicksTodo, TicksBusy, Queued, Got
  <1> QED
    BY <1>1 DEF Ticks!EndTick, TicksAlone, TicksTodo, TicksBusy, Got

LEMMA PoppedQueue ==
  ASSUME queue \in Seq(Maps), queue # <<>>, queue' = Tail(queue)
  PROVE  Queued = Queued' \cup {Head(queue)} /\ Head(queue) \in Maps
  <1>1. Queued' = {Tail(queue)[k] : k \in 1 .. Len(Tail(queue))}
    BY DEF Queued
  <1>2. Head(queue) \in Maps
        /\ Queued = {Tail(queue)[k] : k \in 1 .. Len(Tail(queue))} \cup {Head(queue)}
    BY Popped DEF Queued
  <1> QED
    BY <1>1, <1>2

LEMMA QuietSteps ==
  ASSUME ControlInv,
         \/ \E m \in Maps : ScheduleUpdate(m)
         \/ SendFromWorld \/ SetCancelationToken \/ Cancel \/ Join \/ SpuriousWakeup
         \/ \E x \in Workers : WaitAndPop(x) \/ (CheckCancelation(x) /\ cancel)
         \/ \E x \in Executors :
                TakeMessages(x) \/ RunMessage(x) \/ (UpdateObjects(x) /\ x # World)
  PROVE  Unseen
  <1> USE MapUpdaterAssumption DEF ControlInv, ControlTypes, updater
  <1>1. ASSUME NEW m \in Maps, ScheduleUpdate(m) PROVE Unseen
    <2>1. Queued' = Queued \cup {m} /\ m \in unscheduled
      BY <1>1, Pushed DEF ScheduleUpdate, Queued
    <2>2. \A x \in Executors :
              pc'[x] = pc[x] \/ (pc[x] = "asleep" /\ pc'[x] = "pop" /\ req[x] = None)
      BY <1>1 DEF ScheduleUpdate, NotifyOne, Requests
    <2>3. Got' = Got /\ TicksBusy' = TicksBusy
      BY <1>1, <2>2 DEF ScheduleUpdate, Got, TicksBusy, Updating
    <2> QED
      BY <1>1, <2>1, <2>3 DEF ScheduleUpdate, Unseen, TicksTodo, TicksAlone
  <1>2. ASSUME UNCHANGED <<maps, unscheduled, queue, req>>, TicksAlone' = TicksAlone,
               \A x \in Executors : /\ Updating(x)' = Updating(x)
                                    /\ req[x] # None => (pc'[x] = "got" <=> pc[x] = "got")
        PROVE  Unseen
    <2>1. Got' = Got /\ TicksBusy' = TicksBusy
      BY <1>2 DEF Got, TicksBusy
    <2> QED
      BY <1>2, <2>1 DEF Unseen, TicksTodo, Queued
  <1>3. CASE SendFromWorld
    BY <1>2, <1>3 DEF SendFromWorld, TicksAlone, Updating
  <1>4. CASE SetCancelationToken
    BY <1>2, <1>4 DEF SetCancelationToken, TicksAlone, Updating
  <1>5. CASE Cancel
    BY <1>2, <1>5 DEF Cancel, Phases, TicksAlone, Updating
  <1>6. CASE Join
    BY <1>2, <1>6 DEF Join, TicksAlone, Updating
  <1>7. CASE SpuriousWakeup
    BY <1>2, <1>7 DEF SpuriousWakeup, TicksAlone, Updating, Executors
  <1>8. ASSUME NEW x \in Workers, WaitAndPop(x) PROVE Unseen
    <2>1. x \in Executors /\ req[x] = None /\ pc[x] = "pop"
      BY <1>8 DEF WaitAndPop, Requests, Executors
    <2>2. CASE queue' = queue /\ req' = req
      BY <1>2, <1>8, <2>1, <2>2 DEF WaitAndPop, TicksAlone, Updating
    <2>3. CASE /\ queue # <<>> /\ req' = [req EXCEPT ![x] = Head(queue)] /\ queue' = Tail(queue)
               /\ pc' = [pc EXCEPT ![x] = "got"]
      <3>1. Queued = Queued' \cup {Head(queue)} /\ Head(queue) \in Maps
        BY <2>3, PoppedQueue
      <3>2. Got' = Got \cup {Head(queue)}
        BY <2>1, <2>3, <3>1 DEF Got
      <3>3. TicksBusy' = TicksBusy
        BY <2>1, <2>3 DEF TicksBusy, Updating
      <3> QED
        BY <1>8, <3>1, <3>2, <3>3 DEF WaitAndPop, Unseen, TicksTodo, TicksAlone
    <2> QED
      BY <1>8, <2>2, <2>3 DEF WaitAndPop
  <1>9. ASSUME NEW x \in Workers, CheckCancelation(x), cancel PROVE Unseen
    <2>1. x \in Executors /\ req[x] = None
      BY <1>9 DEF Phases, Executors
    <2> QED
      BY <1>2, <1>9, <2>1 DEF CheckCancelation, TicksAlone, Updating
  <1>10. ASSUME NEW x \in Executors, TakeMessages(x) \/ RunMessage(x)
         PROVE  Unseen
    BY <1>2, <1>10 DEF TakeMessages, RunMessage, TicksAlone, Updating
  <1>11. ASSUME NEW x \in Executors, UpdateObjects(x), x # World PROVE Unseen
    BY <1>2, <1>11 DEF UpdateObjects, TicksAlone, Updating
  <1> QED
    BY <1>1, <1>3, <1>4, <1>5, <1>6, <1>7, <1>8, <1>9, <1>10, <1>11

LEMMA StepTicks == UpdaterInv /\ [Next]_vars => [Ticks!TicksNext]_<<maps, Ticks!ticking>>
  <1> SUFFICES ASSUME UpdaterInv, [Next]_vars
               PROVE  Ticks!TicksNext \/ UNCHANGED <<maps, Ticks!ticking>>
    OBVIOUS
  <1>0. ControlInv /\ ControlInv'
    BY Parts, NextInv DEF UpdaterInv, ControlInv, TypeOK, ControlTypes
  <1>1. ASSUME Unseen PROVE UNCHANGED <<maps, Ticks!ticking>>
    BY <1>1 DEF Unseen, Ticks!ticking, TicksAlone, TicksTodo, TicksBusy, Got
  <1>2. ASSUME NEW m \in Maps, CreateMap(m) PROVE Ticks!CreateMap(m)
    <2>1. TicksTodo' = TicksTodo /\ TicksBusy' = TicksBusy
      BY <1>2 DEF CreateMap, updater, TicksTodo, TicksBusy, Queued, Got, Updating
    <2> QED
      BY <1>2, <2>1
         DEF CreateMap, Ticks!CreateMap, Ticks!ticking, TicksTodo, TicksBusy, Got
  <1>3. ASSUME NEW m \in Maps, UpdateInline(m) PROVE Ticks!StartMap(m)
    BY <1>0, <1>3, InlineStarts
  <1>4. CASE BeginUpdate
    BY <1>0, <1>4, TickStarts DEF Ticks!TicksNext
  <1>5. CASE AllScheduled \/ Wait
    <2>1. UNCHANGED <<maps, unscheduled, queue, pc, req>> /\ ~TicksAlone
      BY <1>5 DEF AllScheduled, Wait, updater, TicksAlone
    <2>2. CASE TicksAlone'
      BY <1>0, <2>1, <2>2, TickEnded DEF Ticks!TicksNext
    <2>3. CASE ~TicksAlone'
      <3>1. Unseen
        BY <2>1, <2>3 DEF Unseen, TicksAlone, TicksTodo, TicksBusy, Queued, Got, Updating
      <3> QED
        BY <1>1, <3>1
    <2> QED
      BY <2>2, <2>3
  <1>6. CASE UnloadMaps \/ UnloadAll
    <2>1. TicksTodo' = TicksTodo /\ TicksBusy' = TicksBusy
      BY <1>6 DEF UnloadMaps, UnloadAll, updater, TicksTodo, TicksBusy, Queued, Got, Updating
    <2>2. maps' \in SUBSET maps /\ TicksAlone /\ TicksAlone'
      BY <1>6 DEF UnloadMaps, UnloadAll, Discard, TicksAlone
    <2> QED
      BY <2>1, <2>2
         DEF Ticks!Unload, Ticks!ticking, Ticks!TicksNext, TicksAlone, TicksTodo, TicksBusy, Got
  <1>7. ASSUME NEW x \in Workers, CheckCancelation(x), ~cancel
        PROVE  Ticks!TicksNext
    <2>1. req[x] \in maps /\ Ticks!StartMap(req[x])
      BY <1>0, <1>7, WorkerStarts
    <2>2. req[x] \in Maps
      BY <1>0, <2>1 DEF ControlInv, ControlTypes
    <2>3. \E m \in Maps : Ticks!StartMap(m)
      BY <2>1, <2>2 DEF Ticks!StartMap
    <2> QED
      BY <2>3 DEF Ticks!TicksNext
  <1>8. ASSUME NEW x \in Executors,
               (UpdateObjects(x) /\ x = World) \/ (UpdateFinished(x) /\ x \in Workers)
        PROVE  Ticks!TicksNext
    <2>1. req[x] \in Maps /\ Ticks!FinishMap(req[x])
      BY <1>0, <1>8, MapFinishes
    <2>2. \E m \in Maps : Ticks!FinishMap(m)
      BY <2>1 DEF Ticks!FinishMap
    <2> QED
      BY <2>2 DEF Ticks!TicksNext
  <1>9. CASE UNCHANGED vars
    <2>1. Unseen
      BY <1>9 DEF vars, updater, Unseen, TicksAlone, TicksTodo, TicksBusy, Queued, Got, Updating
    <2> QED
      BY <1>1, <2>1
  <1>10. CASE \/ \E m \in Maps : ScheduleUpdate(m)
              \/ SendFromWorld \/ SetCancelationToken \/ Cancel \/ Join \/ SpuriousWakeup
              \/ \E x \in Workers : WaitAndPop(x) \/ (CheckCancelation(x) /\ cancel)
              \/ \E x \in Executors :
                     TakeMessages(x) \/ RunMessage(x) \/ (UpdateObjects(x) /\ x # World)
    BY <1>0, <1>1, <1>10, QuietSteps
  <1>11. ASSUME NEW m \in Maps, CreateMap(m) \/ UpdateInline(m) PROVE Ticks!TicksNext
    BY <1>2, <1>3, <1>11 DEF Ticks!TicksNext
  <1> QED
    BY <1>4, <1>5, <1>6, <1>7, <1>8, <1>9, <1>10, <1>11
       DEF Next, WorldThread, WorkerThread, MapUpdate, Executors

LEMMA InitTicks == Init => Ticks!TicksInit
  <1> SUFFICES ASSUME Init PROVE Ticks!TicksInit
    OBVIOUS
  <1>1. ControlInv /\ TicksAlone
    BY InitInv, Parts DEF Init, TicksAlone
  <1> QED
    BY <1>1, WhileAlone DEF Init, Ticks!TicksInit, TicksAlone, TicksTodo, TicksBusy, Got

(***************************************************************************)
(* Every step of the world thread or of a worker is a step of the tick, or *)
(* is not seen by it: the server may rely on MapTicks.                     *)
(***************************************************************************)
THEOREM Refinement == Spec => ImplementsTicks
  <1> QED
    BY InitTicks, StepTicks, Invariant, PTL DEF Spec, ImplementsTicks, Ticks!TicksSpec
-----------------------------------------------------------------------------
(***************************************************************************)
(* Messages.  MessagesKept is not inductive: the numbers on the way must   *)
(* also have been given, and none may be on the way to two maps.  The      *)
(* invariant is stated of any assignment w of waiting messages to maps,    *)
(* number s of messages sent, and sets d and o of messages executed and    *)
(* dropped, so that a step that does two things is two applications.       *)
(***************************************************************************)
In(q) == {q[k] : k \in 1 .. Len(q)}
Put(w, m, q) == [w EXCEPT ![m] = q]

Kept(w, s, d, o) ==
    /\ w \in [Maps -> Seq(Nat)] /\ s \in Nat
    /\ d \subseteq 1 .. s /\ o \subseteq 1 .. s /\ d \cap o = {}
    /\ \A n \in 1 .. s : n \in d \cup o \/ \E m \in Maps : n \in In(w[m])
    /\ \A m \in Maps : In(w[m]) \subseteq (1 .. s) \ (d \cup o)
    /\ \A m1, m2 \in Maps : m1 # m2 => In(w[m1]) \cap In(w[m2]) = {}
    /\ \A m \in Maps : \A k \in 1 .. Len(w[m]) : \A j \in 1 .. k - 1 : w[m][j] < w[m][k]

LEMMA KeptSend ==
  ASSUME NEW w, NEW s, NEW d, NEW o, Kept(w, s, d, o), NEW m \in Maps
  PROVE  Kept(Put(w, m, Append(w[m], s + 1)), s + 1, d, o)
  <1> DEFINE q == w[m]
             p == Append(q, s + 1)
             v == Put(w, m, p)
  <1>1. w \in [Maps -> Seq(Nat)] /\ q \in Seq(Nat) /\ s \in Nat /\ s + 1 \in Nat
    BY DEF Kept
  <1>2. /\ p \in Seq(Nat) /\ Len(p) = Len(q) + 1 /\ Len(q) \in Nat /\ p[Len(q) + 1] = s + 1
        /\ In(p) = In(q) \cup {s + 1}
        /\ \A k \in 1 .. Len(q) : p[k] = q[k]
    BY <1>1, Pushed DEF In
  <1>3. v \in [Maps -> Seq(Nat)] /\ v[m] = p /\ \A k \in Maps \ {m} : v[k] = w[k]
    BY <1>1, <1>2 DEF Put
  <1>4. In(v[m]) = In(w[m]) \cup {s + 1} /\ \A k \in Maps \ {m} : In(v[k]) = In(w[k])
    BY <1>2, <1>3
  <1>5. /\ d \subseteq 1 .. s /\ o \subseteq 1 .. s /\ d \cap o = {}
        /\ \A n \in 1 .. s : n \in d \cup o \/ \E k \in Maps : n \in In(w[k])
        /\ \A k \in Maps : In(w[k]) \subseteq (1 .. s) \ (d \cup o)
        /\ \A k, j \in Maps : k # j => In(w[k]) \cap In(w[j]) = {}
    BY DEF Kept
  <1>6. s + 1 \notin 1 .. s /\ 1 .. s + 1 = (1 .. s) \cup {s + 1}
    BY <1>1
  <1> HIDE DEF v
  <1>7. d \subseteq 1 .. s + 1 /\ o \subseteq 1 .. s + 1
    BY <1>5, <1>6
  <1>8. \A n \in 1 .. s + 1 : n \in d \cup o \/ \E k \in Maps : n \in In(v[k])
    BY <1>4, <1>5, <1>6
  <1>9. \A k \in Maps : In(v[k]) \subseteq (1 .. s + 1) \ (d \cup o)
    BY <1>4, <1>5, <1>6
  <1>10. \A k, j \in Maps : k # j => In(v[k]) \cap In(v[j]) = {}
    <2> SUFFICES ASSUME NEW k \in Maps, NEW j \in Maps, k # j PROVE In(v[k]) \cap In(v[j]) = {}
      OBVIOUS
    <2>1. s + 1 \notin In(w[k]) /\ s + 1 \notin In(w[j]) /\ In(w[k]) \cap In(w[j]) = {}
      BY <1>5, <1>6
    <2> QED
      BY <1>4, <2>1
  <1>11. ASSUME NEW n \in Maps, NEW k \in 1 .. Len(v[n]), NEW j \in 1 .. k - 1
         PROVE  v[n][j] < v[n][k]
    <2>1. CASE n # m
      BY <1>3, <1>11, <2>1 DEF Kept
    <2>2. CASE n = m /\ k \in 1 .. Len(q)
      <3>1. j \in 1 .. Len(q) /\ q[j] < q[k]
        BY <1>2, <2>2 DEF Kept
      <3> QED
        BY <1>2, <1>3, <2>2, <3>1
    <2>3. CASE n = m /\ k = Len(q) + 1
      <3>1. j \in 1 .. Len(q)
        BY <1>2, <2>3
      <3>2. q[j] \in In(q)
        BY <3>1 DEF In
      <3>3. q[j] \in 1 .. s
        BY <1>5, <3>2
      <3>4. v[n][j] = q[j] /\ v[n][k] = s + 1
        BY <1>2, <1>3, <2>3, <3>1
      <3> QED
        BY <1>1, <3>3, <3>4
    <2> QED
      BY <1>2, <1>3, <2>1, <2>2, <2>3
  <1>12. Kept(v, s + 1, d, o)
    BY <1>1, <1>3, <1>5, <1>7, <1>8, <1>9, <1>10, <1>11 DEF Kept
  <1> QED
    BY <1>12 DEF v

LEMMA KeptRun ==
  ASSUME NEW w, NEW s, NEW d, NEW o, Kept(w, s, d, o), NEW m \in Maps, w[m] # <<>>
  PROVE  Kept(Put(w, m, Tail(w[m])), s, d \cup {Head(w[m])}, o)
  <1> DEFINE q == w[m]
             p == Tail(q)
             h == Head(q)
             v == Put(w, m, p)
  <1>1. w \in [Maps -> Seq(Nat)] /\ q \in Seq(Nat) /\ s \in Nat
    BY DEF Kept
  <1>2. /\ p \in Seq(Nat) /\ Len(p) = Len(q) - 1 /\ Len(q) \in Nat \ {0} /\ h = q[1]
        /\ In(q) = In(p) \cup {h}
        /\ \A k \in 1 .. Len(p) : p[k] = q[k + 1]
    BY <1>1, Popped DEF In
  <1>3. v \in [Maps -> Seq(Nat)] /\ v[m] = p /\ \A k \in Maps \ {m} : v[k] = w[k]
    BY <1>1, <1>2 DEF Put
  <1>4. \A k \in 1 .. Len(q) : \A j \in 1 .. k - 1 : q[j] < q[k]
    BY DEF Kept
  <1>5. h \notin In(p)
    <2> SUFFICES ASSUME NEW k \in 1 .. Len(p), p[k] = h PROVE FALSE
      BY DEF In
    <2>1. k + 1 \in 1 .. Len(q) /\ 1 \in 1 .. (k + 1) - 1
      BY <1>2
    <2>2. q[1] < q[k + 1] /\ q[k + 1] = q[1]
      BY <1>2, <1>4, <2>1
    <2>3. q[1] \in Nat
      BY <1>1, <1>2, ElementOfSeq
    <2> QED
      BY <2>2, <2>3
  <1>6. /\ d \subseteq 1 .. s /\ o \subseteq 1 .. s /\ d \cap o = {}
        /\ \A n \in 1 .. s : n \in d \cup o \/ \E k \in Maps : n \in In(w[k])
        /\ \A k \in Maps : In(w[k]) \subseteq (1 .. s) \ (d \cup o)
        /\ \A k, j \in Maps : k # j => In(w[k]) \cap In(w[j]) = {}
    BY DEF Kept
  <1>7. In(w[m]) = In(v[m]) \cup {h} /\ \A k \in Maps \ {m} : In(v[k]) = In(w[k])
    BY <1>2, <1>3
  <1>8. h \in (1 .. s) \ (d \cup o) /\ h \notin In(v[m])
    BY <1>3, <1>5, <1>6, <1>7
  <1> HIDE DEF v, h
  <1>9. d \cup {h} \subseteq 1 .. s /\ (d \cup {h}) \cap o = {}
    <2>1. d \subseteq 1 .. s /\ d \cap o = {} /\ h \in 1 .. s /\ h \notin o
      BY <1>6, <1>8, Zenon
    <2> QED
      BY <2>1, Zenon
  <1>10. \A n \in 1 .. s : n \in (d \cup {h}) \cup o \/ \E k \in Maps : n \in In(v[k])
    BY <1>6, <1>7
  <1>11. \A k \in Maps : h \notin In(v[k])
    BY <1>6, <1>7, <1>8
  <1>12. \A k \in Maps : In(v[k]) \subseteq (1 .. s) \ ((d \cup {h}) \cup o)
    BY <1>6, <1>7, <1>11
  <1>13. \A k, j \in Maps : k # j => In(v[k]) \cap In(v[j]) = {}
    BY <1>6, <1>7
  <1>14. ASSUME NEW n \in Maps, NEW k \in 1 .. Len(v[n]), NEW j \in 1 .. k - 1
         PROVE  v[n][j] < v[n][k]
    <2>1. CASE n # m
      BY <1>3, <1>14, <2>1 DEF Kept
    <2>2. CASE n = m
      <3>1. /\ k \in 1 .. Len(p) /\ j \in 1 .. Len(p)
            /\ k + 1 \in 1 .. Len(q) /\ j + 1 \in 1 .. (k + 1) - 1
        <4>1. v[n] = p
          BY <1>3, <2>2
        <4> HIDE DEF p, q, v
        <4> QED
          BY <1>2, <4>1
      <3>2. v[n][j] = q[j + 1] /\ v[n][k] = q[k + 1]
        BY <1>2, <1>3, <2>2, <3>1
      <3> QED
        BY <1>4, <3>1, <3>2
    <2> QED
      BY <2>1, <2>2
  <1>15. Kept(v, s, d \cup {h}, o)
    BY <1>1, <1>3, <1>6, <1>9, <1>10, <1>12, <1>13, <1>14 DEF Kept
  <1> QED
    BY <1>15 DEF v, h

LEMMA KeptDiscard ==
  ASSUME NEW w, NEW s, NEW d, NEW o, Kept(w, s, d, o), NEW gone \in SUBSET Maps
  PROVE  Kept([m \in Maps |-> IF m \in gone THEN <<>> ELSE w[m]], s, d,
              o \cup UNION {In(w[m]) : m \in gone})
  <1> DEFINE v == [m \in Maps |-> IF m \in gone THEN <<>> ELSE w[m]]
             u == UNION {In(w[m]) : m \in gone}
  <1>1. w \in [Maps -> Seq(Nat)] /\ s \in Nat /\ <<>> \in Seq(Nat)
    BY EmptySeq DEF Kept
  <1>2. v \in [Maps -> Seq(Nat)]
    BY <1>1
  <1>3. \A m \in gone : v[m] = <<>> /\ Len(v[m]) = 0 /\ In(v[m]) = {}
    BY DEF In
  <1>4. \A m \in Maps \ gone : v[m] = w[m] /\ In(v[m]) = In(w[m])
    OBVIOUS
  <1>5. /\ d \subseteq 1 .. s /\ o \subseteq 1 .. s /\ d \cap o = {}
        /\ \A n \in 1 .. s : n \in d \cup o \/ \E k \in Maps : n \in In(w[k])
        /\ \A k \in Maps : In(w[k]) \subseteq (1 .. s) \ (d \cup o)
        /\ \A k, j \in Maps : k # j => In(w[k]) \cap In(w[j]) = {}
    BY DEF Kept
  <1>6. \A n : n \in u <=> \E m \in gone : n \in In(w[m])
    OBVIOUS
  <1> HIDE DEF v, u
  <1>7. o \cup u \subseteq 1 .. s /\ d \cap (o \cup u) = {}
    BY <1>5, <1>6
  <1>8. \A n \in 1 .. s : n \in d \cup (o \cup u) \/ \E k \in Maps : n \in In(v[k])
    BY <1>4, <1>5, <1>6
  <1>9. \A k \in Maps : In(v[k]) \subseteq (1 .. s) \ (d \cup (o \cup u))
    BY <1>3, <1>4, <1>5, <1>6
  <1>10. \A k, j \in Maps : k # j => In(v[k]) \cap In(v[j]) = {}
    BY <1>3, <1>4, <1>5
  <1>11. \A m \in Maps : \A k \in 1 .. Len(v[m]) : \A j \in 1 .. k - 1 : v[m][j] < v[m][k]
    <2> SUFFICES ASSUME NEW m \in Maps
                 PROVE  \A k \in 1 .. Len(v[m]) : \A j \in 1 .. k - 1 : v[m][j] < v[m][k]
      OBVIOUS
    <2>1. CASE m \in gone
      BY <1>3, <2>1
    <2>2. CASE m \notin gone
      BY <1>4, <2>2 DEF Kept
    <2> QED
      BY <2>1, <2>2
  <1>12. Kept(v, s, d, o \cup u)
    BY <1>1, <1>2, <1>5, <1>7, <1>8, <1>9, <1>10, <1>11 DEF Kept
  <1> QED
    BY <1>12 DEF v, u

\* What waits for each map: the batch b in execution, then the mailbox q.
AllWaiting(b, q) == [m \in Maps |-> b[m] \o q[m]]

LEMMA WaitingSend ==
  ASSUME NEW b \in [Maps -> Seq(Nat)], NEW q \in [Maps -> Seq(Nat)], NEW m \in Maps, NEW n \in Nat
  PROVE  AllWaiting(b, Put(q, m, Append(q[m], n)))
            = Put(AllWaiting(b, q), m, Append(AllWaiting(b, q)[m], n))
  <1>1. b[m] \in Seq(Nat) /\ q[m] \in Seq(Nat) /\ b[m] \o q[m] \in Seq(Nat) /\ <<n>> \in Seq(Nat)
    <2>1. <<n>> = Append(<<>>, n) /\ <<>> \in Seq(Nat)
      BY EmptySeq
    <2> QED
      BY <2>1, AppendProperties, ConcatProperties
  <1>2. b[m] \o Append(q[m], n) = Append(b[m] \o q[m], n)
    <2>1. Append(q[m], n) = q[m] \o <<n>> /\ Append(b[m] \o q[m], n) = (b[m] \o q[m]) \o <<n>>
      BY <1>1, AppendIsConcat
    <2> QED
      BY <1>1, <2>1, ConcatAssociative
  <1> QED
    BY <1>2, Zenon DEF AllWaiting, Put

LEMMA WaitingRun ==
  ASSUME NEW b \in [Maps -> Seq(Nat)], NEW q \in [Maps -> Seq(Nat)], NEW m \in Maps, b[m] # <<>>
  PROVE  /\ AllWaiting(b, q)[m] # <<>> /\ Head(AllWaiting(b, q)[m]) = Head(b[m])
         /\ AllWaiting(Put(b, m, Tail(b[m])), q)
               = Put(AllWaiting(b, q), m, Tail(AllWaiting(b, q)[m]))
  <1> DEFINE s == b[m] \o q[m]
             t == Tail(b[m]) \o q[m]
  <1>1. b[m] \in Seq(Nat) /\ q[m] \in Seq(Nat) /\ s \in Seq(Nat)
    BY ConcatProperties
  <1>2. /\ Tail(b[m]) \in Seq(Nat) /\ Len(Tail(b[m])) = Len(b[m]) - 1 /\ Len(b[m]) \in Nat \ {0}
        /\ Head(b[m]) = b[m][1]
        /\ \A k \in 1 .. Len(Tail(b[m])) : Tail(b[m])[k] = b[m][k + 1]
    BY <1>1, Popped
  <1>3. /\ Len(s) = Len(b[m]) + Len(q[m]) /\ Len(q[m]) \in Nat
        /\ \A k \in 1 .. Len(b[m]) + Len(q[m]) :
               s[k] = IF k <= Len(b[m]) THEN b[m][k] ELSE q[m][k - Len(b[m])]
    BY <1>1, ConcatProperties, LenProperties
  <1>4. s # <<>> /\ s[1] = b[m][1]
    BY <1>2, <1>3, EmptySeq
  <1>5. /\ Tail(s) \in Seq(Nat) /\ Len(Tail(s)) = Len(s) - 1 /\ Head(s) = s[1]
        /\ \A k \in 1 .. Len(Tail(s)) : Tail(s)[k] = s[k + 1]
    BY <1>1, <1>4, Popped
  <1>6. /\ t \in Seq(Nat) /\ Len(t) = Len(b[m]) - 1 + Len(q[m])
        /\ \A k \in 1 .. Len(b[m]) - 1 + Len(q[m]) :
               t[k] = IF k <= Len(b[m]) - 1 THEN Tail(b[m])[k] ELSE q[m][k - (Len(b[m]) - 1)]
    BY <1>1, <1>2, ConcatProperties
  <1>7. Len(Tail(s)) = Len(t)
    BY <1>2, <1>3, <1>5, <1>6
  <1>8. ASSUME NEW k \in 1 .. Len(t) PROVE t[k] = Tail(s)[k]
    <2>1. k + 1 \in 1 .. Len(b[m]) + Len(q[m]) /\ Tail(s)[k] = s[k + 1]
      BY <1>2, <1>3, <1>5, <1>6
    <2>2. CASE k <= Len(b[m]) - 1
      <3>1. t[k] = b[m][k + 1]
        BY <1>2, <1>3, <1>6, <2>2
      <3>2. s[k + 1] = b[m][k + 1]
        BY <1>2, <1>3, <2>1, <2>2
      <3> QED
        BY <2>1, <3>1, <3>2
    <2>3. CASE ~(k <= Len(b[m]) - 1)
      <3>1. t[k] = q[m][k - (Len(b[m]) - 1)]
        BY <1>2, <1>3, <1>6, <2>3
      <3>2. s[k + 1] = q[m][(k + 1) - Len(b[m])]
        BY <1>2, <1>3, <2>1, <2>3
      <3>3. (k + 1) - Len(b[m]) = k - (Len(b[m]) - 1)
        BY <1>2
      <3> QED
        BY <2>1, <3>1, <3>2, <3>3
    <2> QED
      BY <2>2, <2>3
  <1>9. t = Tail(s)
    BY <1>5, <1>6, <1>7, <1>8, SeqEqual
  <1>10. AllWaiting(b, q)[m] = s
    BY DEF AllWaiting
  <1> HIDE DEF s, t
  <1>11. ASSUME NEW k \in Maps
         PROVE  AllWaiting(Put(b, m, Tail(b[m])), q)[k]
                    = Put(AllWaiting(b, q), m, Tail(AllWaiting(b, q)[m]))[k]
    <2>1. CASE k = m
      BY <1>9, <1>10, <2>1 DEF AllWaiting, Put, t
    <2>2. CASE k # m
      BY <2>2 DEF AllWaiting, Put
    <2> QED
      BY <2>1, <2>2
  <1>12. AllWaiting(Put(b, m, Tail(b[m])), q)
            = Put(AllWaiting(b, q), m, Tail(AllWaiting(b, q)[m]))
    BY <1>11, Zenon DEF AllWaiting, Put
  <1> QED
    BY <1>4, <1>2, <1>5, <1>10, <1>12

(***************************************************************************)
(* A map has a batch only while a thread works it off, so Messager::Execute*)
(* never overwrites one, and no map is unloaded with one.                  *)
(***************************************************************************)
BatchesInWork ==
    \A m \in Maps : batch[m] # <<>> => \E x \in Executors : req[x] = m /\ pc[x] = "messages"

MailInv == Kept(AllWaiting(batch, mailbox), sent, done, dropped) /\ BatchesInWork

LEMMA MaySendStep ==
  ASSUME TypeOK, MaySend, NEW b \in [Maps -> Seq(Nat)], NEW d, NEW o,
         Kept(AllWaiting(b, mailbox), sent, d, o)
  PROVE  Kept(AllWaiting(b, mailbox'), sent', d, o)
  <1>1. CASE UNCHANGED <<mailbox, sent>>
    BY <1>1
  <1>2. ASSUME NEW m \in Maps, AddMessage(m) PROVE Kept(AllWaiting(b, mailbox'), sent', d, o)
    <2>1. /\ sent' = sent + 1 /\ sent \in Nat /\ sent + 1 \in Nat
          /\ mailbox \in [Maps -> Seq(Nat)]
          /\ mailbox' = Put(mailbox, m, Append(mailbox[m], sent + 1))
      BY <1>2 DEF AddMessage, TypeOK, Put
    <2>2. AllWaiting(b, Put(mailbox, m, Append(mailbox[m], sent + 1)))
              = Put(AllWaiting(b, mailbox), m, Append(AllWaiting(b, mailbox)[m], sent + 1))
      BY <2>1, WaitingSend
    <2>3. Kept(Put(AllWaiting(b, mailbox), m, Append(AllWaiting(b, mailbox)[m], sent + 1)),
               sent + 1, d, o)
      BY KeptSend
    <2> QED
      BY <2>1, <2>2, <2>3
  <1> QED
    BY <1>1, <1>2 DEF MaySend

LEMMA DiscardStep ==
  ASSUME TypeOK, MailInv, NEW gone \in SUBSET Maps, Discard(gone), UNCHANGED <<batch, sent, done>>,
         \A x \in Executors : pc[x] # "messages"
  PROVE  Kept(AllWaiting(batch', mailbox'), sent', done', dropped')
  <1> DEFINE w == AllWaiting(batch, mailbox)
  <1>1. \A m \in Maps : batch[m] = <<>> /\ mailbox[m] \in Seq(Nat)
    BY DEF MailInv, BatchesInWork, TypeOK
  <1>2. \A m \in Maps : w[m] = mailbox[m]
    BY <1>1, ConcatEmptySeq DEF AllWaiting
  <1>3. mailbox' = [m \in Maps |-> IF m \in gone THEN <<>> ELSE mailbox[m]] /\ batch' = batch
    BY DEF Discard
  <1>4. \A m \in Maps : <<>> \o mailbox'[m] = mailbox'[m]
    BY <1>1, <1>3, ConcatEmptySeq, EmptySeq
  <1>5. \A m \in Maps : batch'[m] \o mailbox'[m] = IF m \in gone THEN <<>> ELSE w[m]
    BY <1>1, <1>2, <1>3, <1>4
  <1>6. AllWaiting(batch', mailbox') = [m \in Maps |-> IF m \in gone THEN <<>> ELSE w[m]]
    BY <1>5, Zenon DEF AllWaiting
  <1>7. \A m \in gone : Letters(m) = In(w[m])
    BY <1>2 DEF Letters, In
  <1>8. UNION {Letters(m) : m \in gone} = UNION {In(w[m]) : m \in gone}
    BY <1>7
  <1> HIDE DEF w
  <1>9. dropped' = dropped \cup UNION {In(w[m]) : m \in gone} /\ sent' = sent /\ done' = done
    BY <1>8 DEF Discard
  <1>10. Kept(w, sent, done, dropped)
    BY DEF MailInv, w
  <1> QED
    BY <1>6, <1>9, <1>10, KeptDiscard

LEMMA TakeStep ==
  ASSUME UpdaterInv, MailInv, NEW x \in Executors, TakeMessages(x)
  PROVE  MailInv'
  <1> DEFINE r == req[x]
  <1>1. r \in Maps /\ pc[x] = "update"
    BY DEF TakeMessages, UpdaterInv, TypeOK
  <1>2. batch[r] = <<>>
    <2> SUFFICES ASSUME NEW y \in Executors, req[y] = r, pc[y] = "messages" PROVE FALSE
      BY <1>1 DEF MailInv, BatchesInWork
    <2>1. x = y
      BY <1>1, MapUpdaterAssumption DEF UpdaterInv, OneRequestPerMap
    <2> QED
      BY <1>1, <2>1
  <1>3. /\ batch \in [Maps -> Seq(Nat)] /\ mailbox \in [Maps -> Seq(Nat)]
        /\ batch' = [batch EXCEPT ![r] = mailbox[r]] /\ mailbox' = [mailbox EXCEPT ![r] = <<>>]
    BY DEF TakeMessages, UpdaterInv, TypeOK
  <1> HIDE DEF r
  <1>4. ASSUME NEW m \in Maps PROVE batch'[m] \o mailbox'[m] = batch[m] \o mailbox[m]
    <2>1. CASE m = r
      <3>1. batch'[m] = mailbox[m] /\ mailbox'[m] = <<>> /\ batch[m] = <<>>
        BY <1>1, <1>2, <1>3, <2>1
      <3> QED
        BY <1>3, <3>1, ConcatEmptySeq
    <2>2. CASE m # r
      BY <1>3, <2>2
    <2> QED
      BY <2>1, <2>2
  <1>5. AllWaiting(batch', mailbox') = AllWaiting(batch, mailbox)
    BY <1>4, Zenon DEF AllWaiting
  <1>6. Kept(AllWaiting(batch', mailbox'), sent', done', dropped')
    BY <1>5 DEF MailInv, TakeMessages
  <1>7. req' = req /\ pc'[x] = "messages" /\ \A y \in Executors \ {x} : pc'[y] = pc[y]
    BY DEF TakeMessages, UpdaterInv, TypeOK
  <1>8. ASSUME NEW m \in Maps, batch'[m] # <<>>
        PROVE  \E y \in Executors : req'[y] = m /\ pc'[y] = "messages"
    <2>1. CASE m = r
      BY <1>7, <2>1 DEF r
    <2>2. CASE m # r
      <3>1. batch[m] # <<>>
        BY <1>3, <1>8, <2>2
      <3>2. PICK y \in Executors : req[y] = m /\ pc[y] = "messages"
        BY <3>1 DEF MailInv, BatchesInWork
      <3>3. y # x
        BY <1>1, <3>2
      <3> QED
        BY <1>7, <3>2, <3>3
    <2> QED
      BY <2>1, <2>2
  <1> QED
    BY <1>6, <1>8 DEF MailInv, BatchesInWork

LEMMA RunStep ==
  ASSUME UpdaterInv, MailInv, NEW x \in Executors, RunMessage(x)
  PROVE  MailInv'
  <1> DEFINE r == req[x]
             h == Head(batch[r])
  <1>1. r \in Maps /\ batch[r] # <<>> /\ pc[x] = "messages"
    BY DEF RunMessage, UpdaterInv, TypeOK, Requests, Updating
  <1>2. /\ batch \in [Maps -> Seq(Nat)] /\ mailbox \in [Maps -> Seq(Nat)]
        /\ batch' = Put(batch, r, Tail(batch[r])) /\ done' = done \cup {h} /\ dropped' = dropped
        /\ MaySend
    BY DEF RunMessage, UpdaterInv, TypeOK, Put
  <1>3. batch' \in [Maps -> Seq(Nat)]
    <2>1. Tail(batch[r]) \in Seq(Nat)
      BY <1>1, <1>2, HeadTailProperties
    <2> QED
      BY <1>2, <2>1 DEF Put
  <1> HIDE DEF r
  <1>4. /\ AllWaiting(batch, mailbox)[r] # <<>> /\ Head(AllWaiting(batch, mailbox)[r]) = h
        /\ AllWaiting(batch', mailbox)
              = Put(AllWaiting(batch, mailbox), r, Tail(AllWaiting(batch, mailbox)[r]))
    <2>1. /\ AllWaiting(batch, mailbox)[r] # <<>>
          /\ Head(AllWaiting(batch, mailbox)[r]) = Head(batch[r])
          /\ AllWaiting(Put(batch, r, Tail(batch[r])), mailbox)
                = Put(AllWaiting(batch, mailbox), r, Tail(AllWaiting(batch, mailbox)[r]))
      BY <1>1, <1>2, WaitingRun
    <2> QED
      BY <1>2, <2>1
  <1>5. Kept(AllWaiting(batch', mailbox), sent, done', dropped')
    <2>1. Kept(Put(AllWaiting(batch, mailbox), r, Tail(AllWaiting(batch, mailbox)[r])), sent,
               done \cup {Head(AllWaiting(batch, mailbox)[r])}, dropped)
      BY <1>1, <1>4, KeptRun DEF MailInv
    <2> QED
      BY <1>2, <1>4, <2>1
  <1>6. Kept(AllWaiting(batch', mailbox'), sent', done', dropped')
    BY <1>2, <1>3, <1>5, MaySendStep, Zenon DEF UpdaterInv
  <1>7. req' = req /\ pc' = pc
    BY DEF RunMessage
  <1>8. \A m \in Maps : batch'[m] # <<>> => batch[m] # <<>>
    BY <1>1, <1>2 DEF Put
  <1> QED
    BY <1>6, <1>7, <1>8 DEF MailInv, BatchesInWork

\* A step that leaves the batches alone, and every thread in the middle of one.
LEMMA OtherStep ==
  ASSUME UpdaterInv, MailInv, batch' = batch,
         Kept(AllWaiting(batch', mailbox'), sent', done', dropped'),
         \A x \in Executors : pc[x] = "messages" /\ req[x] # None /\ batch[req[x]] # <<>> =>
                                  pc'[x] = "messages" /\ req'[x] = req[x]
  PROVE  MailInv'
  <1>1. ASSUME NEW m \in Maps, batch'[m] # <<>>
        PROVE  \E x \in Executors : req'[x] = m /\ pc'[x] = "messages"
    <2>1. PICK x \in Executors : req[x] = m /\ pc[x] = "messages"
      BY <1>1 DEF MailInv, BatchesInWork
    <2>2. req[x] # None
      BY <2>1, MapUpdaterAssumption
    <2> QED
      BY <1>1, <2>1, <2>2
  <1> QED
    BY <1>1 DEF MailInv, BatchesInWork

LEMMA QuietStep ==
  ASSUME UpdaterInv, MailInv, UNCHANGED messages,
         \A x \in Executors : pc[x] = "messages" => pc'[x] = "messages" /\ req'[x] = req[x]
  PROVE  MailInv'
  <1>1. UNCHANGED <<mailbox, batch, sent, done, dropped>>
    BY DEF messages
  <1>2. Kept(AllWaiting(batch', mailbox'), sent', done', dropped')
    BY <1>1 DEF MailInv
  <1> QED
    BY <1>1, <1>2, OtherStep

LEMMA MailStep == ASSUME UpdaterInv, MailInv, [Next]_vars PROVE MailInv'
  <1> USE MapUpdaterAssumption
  <1>1. /\ pc \in [Executors -> {"off", "pop", "asleep", "got", "update", "messages", "finish",
                                 "returned"}]
        /\ req \in [Executors -> Maps \cup {None}] /\ TypeOK
        /\ batch \in [Maps -> Seq(Nat)]
    BY DEF UpdaterInv, TypeOK
  <1>2. CASE \/ \E m \in Maps : CreateMap(m)
             \/ BeginUpdate \/ AllScheduled \/ Wait \/ SetCancelationToken \/ Join
             \/ UNCHANGED vars
    <2>1. UNCHANGED <<messages, pc, req>>
      BY <1>2 DEF CreateMap, BeginUpdate, AllScheduled, Wait, SetCancelationToken, Join, vars
    <2> QED
      BY <2>1, QuietStep
  <1>3. CASE SendFromWorld
    <2>1. MaySend /\ UNCHANGED <<batch, done, dropped, pc, req>>
      BY <1>3 DEF SendFromWorld, MaySend
    <2>2. Kept(AllWaiting(batch, mailbox'), sent', done, dropped)
      BY <1>1, <2>1, MaySendStep, Zenon DEF MailInv
    <2> QED
      BY <2>1, <2>2, OtherStep
  <1>4. CASE UnloadMaps \/ UnloadAll
    <2>1. \A x \in Executors : pc[x] # "messages"
      BY <1>4 DEF UnloadMaps, UnloadAll, UpdaterInv, Phases, Requests, Updating
    <2>2. PICK gone \in SUBSET Maps : Discard(gone)
      BY <1>1, <1>4 DEF UnloadMaps, UnloadAll, TypeOK
    <2>3. UNCHANGED <<batch, sent, done, pc, req>>
      BY <1>4 DEF UnloadMaps, UnloadAll
    <2>4. Kept(AllWaiting(batch', mailbox'), sent', done', dropped')
      BY <1>1, <2>1, <2>2, <2>3, DiscardStep
    <2> QED
      BY <2>3, <2>4, OtherStep
  <1>5. CASE \E m \in Maps : ScheduleUpdate(m) \/ UpdateInline(m)
    <2>1. PICK m \in Maps : ScheduleUpdate(m) \/ UpdateInline(m)
      BY <1>5
    <2>2. CASE ScheduleUpdate(m)
      <3>1. UNCHANGED <<messages, req>> /\ NotifyOne
        BY <2>2 DEF ScheduleUpdate
      <3>2. \A x \in Executors : pc[x] = "messages" => pc'[x] = "messages"
        BY <1>1, <3>1 DEF NotifyOne, Executors
      <3> QED
        BY <3>1, <3>2, QuietStep
    <2>3. CASE UpdateInline(m)
      BY <1>1, <2>3, QuietStep DEF UpdateInline
    <2> QED
      BY <2>1, <2>2, <2>3
  <1>6. CASE Cancel \/ SpuriousWakeup
    <2>1. UNCHANGED <<messages, req>>
      BY <1>6 DEF Cancel, SpuriousWakeup
    <2>2. \A x \in Executors : pc[x] = "messages" => pc'[x] = "messages"
      BY <1>1, <1>6 DEF Cancel, SpuriousWakeup, Executors
    <2> QED
      BY <2>1, <2>2, QuietStep
  <1>7. ASSUME NEW x \in Executors, MapUpdate(x) PROVE MailInv'
    <2>1. CASE TakeMessages(x) \/ RunMessage(x)
      BY <2>1, TakeStep, RunStep
    <2>2. CASE UpdateObjects(x)
      <3>1. /\ MaySend /\ UNCHANGED <<batch, done, dropped>> /\ batch[req[x]] = <<>>
            /\ \A y \in Executors \ {x} : pc'[y] = pc[y] /\ req'[y] = req[y]
        BY <1>1, <2>2 DEF UpdateObjects
      <3>2. Kept(AllWaiting(batch, mailbox'), sent', done, dropped)
        BY <1>1, <3>1, MaySendStep, Zenon DEF MailInv
      <3> QED
        BY <3>1, <3>2, OtherStep
    <2> QED
      BY <1>7, <2>1, <2>2 DEF MapUpdate
  <1>8. ASSUME NEW x \in Workers, WaitAndPop(x) \/ CheckCancelation(x) \/ UpdateFinished(x)
        PROVE  MailInv'
    <2>1. UNCHANGED messages /\ pc[x] # "messages" /\ x \in Executors
      BY <1>8 DEF WaitAndPop, CheckCancelation, UpdateFinished, Executors
    <2>2. \A y \in Executors \ {x} : pc'[y] = pc[y] /\ req'[y] = req[y]
      BY <1>1, <1>8 DEF WaitAndPop, CheckCancelation, UpdateFinished
    <2> QED
      BY <2>1, <2>2, QuietStep
  <1> QED
    BY <1>2, <1>3, <1>4, <1>5, <1>6, <1>7, <1>8
       DEF Next, WorldThread, WorkerThread, Executors

LEMMA InitMail == Init => MailInv
  <1> SUFFICES ASSUME Init PROVE MailInv
    OBVIOUS
  <1> DEFINE w == AllWaiting(batch, mailbox)
  <1>1. \A m \in Maps : w[m] = <<>>
    <2>1. \A m \in Maps : batch[m] = <<>> /\ mailbox[m] = <<>>
      BY DEF Init
    <2>2. <<>> \o <<>> = <<>>
      BY ConcatEmptySeq, EmptySeq
    <2> QED
      BY <2>1, <2>2 DEF AllWaiting
  <1>2. w \in [Maps -> Seq(Nat)]
    BY <1>1, EmptySeq DEF AllWaiting
  <1>3. \A m \in Maps : In(w[m]) = {} /\ Len(w[m]) = 0
    BY <1>1 DEF In
  <1> HIDE DEF w
  <1>4. sent = 0 /\ done = {} /\ dropped = {} /\ 1 .. 0 = {}
    BY DEF Init
  <1>5. Kept(w, sent, done, dropped)
    BY <1>2, <1>3, <1>4 DEF Kept
  <1>6. BatchesInWork
    BY DEF Init, BatchesInWork
  <1> QED
    BY <1>5, <1>6 DEF MailInv, w

(***************************************************************************)
(* No message is lost, executed twice or overtaken by a later one to the   *)
(* same map, however the threads that send interleave with the update.     *)
(***************************************************************************)
THEOREM MessagesAreKept == Spec => []MessagesKept
  <1>1. MailInv => MessagesKept
    <2> SUFFICES ASSUME MailInv PROVE MessagesKept
      OBVIOUS
    <2>1. \A m \in Maps : AllWaiting(batch, mailbox)[m] = Waiting(m)
      BY DEF AllWaiting, Waiting
    <2>2. \A n \in 1 .. sent : \/ n \in done \cup dropped
                               \/ \E m \in Maps : n \in In(Waiting(m))
      BY <2>1 DEF MailInv, Kept
    <2>3. done \cap dropped = {}
      BY DEF MailInv, Kept
    <2>4. \A m \in Maps : In(Waiting(m)) \cap (done \cup dropped) = {}
      BY <2>1 DEF MailInv, Kept
    <2>5. \A m \in Maps : \A k \in 1 .. Len(Waiting(m)) : \A j \in 1 .. k - 1 :
              Waiting(m)[j] < Waiting(m)[k]
      BY <2>1 DEF MailInv, Kept
    <2> QED
      BY <2>2, <2>3, <2>4, <2>5 DEF MessagesKept, In
  <1>2. UpdaterInv /\ MailInv /\ [Next]_vars => UpdaterInv' /\ MailInv'
    BY NextInv, MailStep
  <1> QED
    BY <1>1, <1>2, InitInv, InitMail, PTL DEF Spec
=============================================================================
