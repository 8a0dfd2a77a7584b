------------------------------ MODULE MapUpdater ------------------------------
(***************************************************************************)
(* The parallel update of the maps (MapUpdater, ProducerConsumerQueue,     *)
(* MapManager::Update, Messager): in every tick the world thread schedules *)
(* one request per map, worker threads pop and execute them, and the world *)
(* thread waits until all are finished.  Other threads reach a map through *)
(* messages, which its update executes first.                              *)
(*                                                                         *)
(* A critical section is one step: no thread takes the lock of the updater *)
(* while it holds the one of the queue.  A thread that waits on a          *)
(* condition variable is asleep until a notification picks it, or wakes up *)
(* without one, and then checks its condition again.                       *)
(***************************************************************************)
EXTENDS Naturals, Sequences, FiniteSets

CONSTANTS
    Maps,
    Workers,        \* the worker threads that may be started
    World,          \* the world thread
    None,           \* no request
    MaxMessages     \* bound: messages sent

ASSUME MapUpdaterAssumption ==
    /\ World \notin Workers /\ None \notin Maps
    /\ IsFiniteSet(Workers) /\ MaxMessages \in Nat

VARIABLES
    threads,    \* _workerThreads
    maps,       \* MapManager::i_maps
    wpc,        \* where the world thread is
    unscheduled,\* the maps its loop has not reached yet
    queue,      \* ProducerConsumerQueue::m_queue
    shutdown,   \* ProducerConsumerQueue::m_shutdown
    cancel,     \* _cancelationToken
    pending,    \* pending_requests
    pc,         \* where each thread is with a request
    req,        \* the request of each thread
    mailbox,    \* map -> m_messageVector of its Messager
    batch,      \* map -> messageVectorCopy of Messager::Execute
    sent,       \* history: number of messages sent
    done,       \* history: messages executed
    dropped     \* history: messages to maps that were unloaded

updater  == <<threads, queue, shutdown, cancel, pending>>
messages == <<mailbox, batch, sent, done, dropped>>
vars == <<updater, maps, wpc, unscheduled, pc, req, messages>>

Executors == Workers \cup {World}

\* MapUpdater::activate with any number of threads, none included.
Init ==
    /\ threads \in SUBSET Workers
    /\ maps \in SUBSET Maps
    /\ wpc = "tick" /\ unscheduled = {}
    /\ queue = <<>> /\ shutdown = FALSE /\ cancel = FALSE /\ pending = 0
    /\ pc = [x \in Executors |-> IF x \in threads THEN "pop" ELSE "off"]
    /\ req = [x \in Executors |-> None]
    /\ mailbox = [m \in Maps |-> <<>>] /\ batch = [m \in Maps |-> <<>>]
    /\ sent = 0 /\ done = {} /\ dropped = {}
-----------------------------------------------------------------------------
(***************************************************************************)
(* Messages.                                                               *)
(***************************************************************************)
\* Messager::AddMessage to a loaded map.
AddMessage(m) ==
    /\ m \in maps /\ sent < MaxMessages
    /\ sent' = sent + 1
    /\ mailbox' = [mailbox EXCEPT ![m] = Append(@, sent')]

\* A thread may or may not have something to tell to some map.
MaySend == (\E m \in Maps : AddMessage(m)) \/ UNCHANGED <<mailbox, sent>>

\* A map disappears with the messages it was still sent.
Letters(m) == {mailbox[m][k] : k \in 1 .. Len(mailbox[m])}
Discard(gone) ==
    /\ maps' = maps \ gone
    /\ mailbox' = [m \in Maps |-> IF m \in gone THEN <<>> ELSE mailbox[m]]
    /\ dropped' = dropped \cup UNION {Letters(m) : m \in gone}
-----------------------------------------------------------------------------
(***************************************************************************)
(* The world thread.                                                       *)
(***************************************************************************)
\* Sessions and the rest of World::Update enter maps and send messages.
CreateMap(m) ==
    /\ wpc = "tick" /\ m \notin maps
    /\ maps' = maps \cup {m}
    /\ UNCHANGED <<updater, wpc, unscheduled, pc, req, messages>>

SendFromWorld ==
    /\ wpc = "tick"
    /\ \E m \in Maps : AddMessage(m)
    /\ UNCHANGED <<updater, maps, wpc, unscheduled, pc, req, batch, done, dropped>>

\* MapManager::Update, once its timer has passed.
BeginUpdate ==
    /\ wpc = "tick"
    /\ wpc' = "schedule" /\ unscheduled' = maps
    /\ UNCHANGED <<updater, maps, pc, req, messages>>

\* notify_one on the condition of the queue.
NotifyOne ==
    LET asleep == {x \in Workers : pc[x] = "asleep"}
    IN IF asleep = {} THEN pc' = pc ELSE \E x \in asleep : pc' = [pc EXCEPT ![x] = "pop"]

\* Faulty variants of ScheduleUpdate: the request is not counted; no thread is
\* notified.
ScheduleUpdateUncounted(m) ==
    /\ wpc = "schedule" /\ m \in unscheduled /\ threads # {}
    /\ unscheduled' = unscheduled \ {m}
    /\ queue' = Append(queue, m)
    /\ NotifyOne
    /\ UNCHANGED <<threads, shutdown, cancel, pending, maps, wpc, req, messages>>
ScheduleUpdateSilently(m) ==
    /\ wpc = "schedule" /\ m \in unscheduled /\ threads # {}
    /\ unscheduled' = unscheduled \ {m}
    /\ pending' = pending + 1
    /\ queue' = Append(queue, m)
    /\ UNCHANGED <<threads, shutdown, cancel, maps, wpc, pc, req, messages>>

\* schedule_update and ProducerConsumerQueue::Push.
ScheduleUpdate(m) ==
    /\ wpc = "schedule" /\ m \in unscheduled /\ threads # {}
    /\ unscheduled' = unscheduled \ {m}
    /\ pending' = pending + 1
    /\ queue' = Append(queue, m)
    /\ NotifyOne
    /\ UNCHANGED <<threads, shutdown, cancel, maps, wpc, req, messages>>

\* Without worker threads the world thread updates the map itself.
UpdateInline(m) ==
    /\ wpc = "schedule" /\ m \in unscheduled /\ threads = {} /\ pc[World] = "off"
    /\ unscheduled' = unscheduled \ {m}
    /\ pc' = [pc EXCEPT ![World] = "update"]
    /\ req' = [req EXCEPT ![World] = m]
    /\ UNCHANGED <<updater, maps, wpc, messages>>

AllScheduled ==
    /\ wpc = "schedule" /\ unscheduled = {} /\ pc[World] = "off"
    /\ wpc' = IF threads = {} THEN "unload" ELSE "wait"
    /\ UNCHANGED <<updater, maps, unscheduled, pc, req, messages>>

\* MapUpdater::wait.
Wait ==
    /\ wpc = "wait"
    /\ wpc' = IF pending > 0 THEN "asleep" ELSE "unload"
    /\ UNCHANGED <<updater, maps, unscheduled, pc, req, messages>>

\* Maps whose unload timer has run out are destroyed.
UnloadMaps ==
    /\ wpc = "unload"
    /\ wpc' = "tick"
    /\ \E gone \in SUBSET maps : Discard(gone)
    /\ UNCHANGED <<updater, unscheduled, pc, req, batch, sent, done>>

\* World::CleanupsBeforeStop: MapManager::UnloadAll, up to deactivate.
UnloadAll ==
    /\ wpc = "tick"
    /\ Discard(maps)
    /\ wpc' = IF threads = {} THEN "ended" ELSE "deactivate"
    /\ UNCHANGED <<updater, unscheduled, pc, req, batch, sent, done>>

\* MapUpdater::deactivate, step by step.
SetCancelationToken ==
    /\ wpc = "deactivate"
    /\ cancel' = TRUE
    /\ wpc' = "cancel"
    /\ UNCHANGED <<threads, queue, shutdown, pending, maps, unscheduled, pc, req, messages>>

\* Faulty variant of Cancel: notify_one instead of notify_all.
CancelNotifiesOne ==
    /\ wpc = "cancel"
    /\ queue' = <<>> /\ shutdown' = TRUE
    /\ NotifyOne
    /\ wpc' = "join"
    /\ UNCHANGED <<threads, cancel, pending, maps, unscheduled, req, messages>>

\* ProducerConsumerQueue::Cancel deletes what is queued and wakes all threads.
Cancel ==
    /\ wpc = "cancel"
    /\ queue' = <<>> /\ shutdown' = TRUE
    /\ pc' = [x \in Executors |-> IF pc[x] = "asleep" THEN "pop" ELSE pc[x]]
    /\ wpc' = "join"
    /\ UNCHANGED <<threads, cancel, pending, maps, unscheduled, req, messages>>

Join ==
    /\ wpc = "join"
    /\ \A x \in threads : pc[x] = "returned"
    /\ wpc' = "ended"
    /\ UNCHANGED <<updater, maps, unscheduled, pc, req, messages>>
-----------------------------------------------------------------------------
(***************************************************************************)
(* MapUpdater::WorkerThread.                                               *)
(***************************************************************************)
\* ProducerConsumerQueue::WaitAndPop: no request after a shutdown.
WaitAndPop(x) ==
    /\ pc[x] = "pop"
    /\ \/ shutdown /\ pc' = [pc EXCEPT ![x] = "got"] /\ UNCHANGED <<queue, req>>
       \/ ~shutdown /\ queue = <<>> /\ pc' = [pc EXCEPT ![x] = "asleep"] /\ UNCHANGED <<queue, req>>
       \/ /\ ~shutdown /\ queue # <<>>
          /\ req' = [req EXCEPT ![x] = Head(queue)] /\ queue' = Tail(queue)
          /\ pc' = [pc EXCEPT ![x] = "got"]
    /\ UNCHANGED <<threads, shutdown, cancel, pending, maps, wpc, unscheduled, messages>>

\* The token decides whether the request is executed or deleted.
CheckCancelation(x) ==
    /\ pc[x] = "got"
    /\ pc' = [pc EXCEPT ![x] = IF cancel THEN "returned" ELSE "update"]
    /\ req' = [req EXCEPT ![x] = IF cancel THEN None ELSE @]
    /\ UNCHANGED <<updater, maps, wpc, unscheduled, messages>>

\* Faulty variant of TakeMessages: the vector is copied, not swapped.
TakeMessagesCopies(x) ==
    /\ pc[x] = "update" /\ req[x] # None
    /\ batch' = [batch EXCEPT ![req[x]] = mailbox[req[x]]]
    /\ pc' = [pc EXCEPT ![x] = "messages"]
    /\ UNCHANGED <<updater, maps, wpc, unscheduled, req, mailbox, sent, done, dropped>>

\* MapUpdateWorker::execute; Map::Update begins with Messager::Execute.
TakeMessages(x) ==
    /\ pc[x] = "update" /\ req[x] # None
    /\ batch' = [batch EXCEPT ![req[x]] = mailbox[req[x]]]
    /\ mailbox' = [mailbox EXCEPT ![req[x]] = <<>>]
    /\ pc' = [pc EXCEPT ![x] = "messages"]
    /\ UNCHANGED <<updater, maps, wpc, unscheduled, req, sent, done, dropped>>

RunMessage(x) ==
    /\ pc[x] = "messages" /\ batch[req[x]] # <<>>
    /\ done' = done \cup {Head(batch[req[x]])}
    /\ batch' = [batch EXCEPT ![req[x]] = Tail(@)]
    /\ MaySend
    /\ UNCHANGED <<updater, maps, wpc, unscheduled, pc, req, dropped>>

\* The rest of Map::Update.
UpdateObjects(x) ==
    /\ pc[x] = "messages" /\ batch[req[x]] = <<>>
    /\ MaySend
    /\ pc' = [pc EXCEPT ![x] = IF x = World THEN "off" ELSE "finish"]
    /\ req' = [req EXCEPT ![x] = IF x = World THEN None ELSE @]
    /\ UNCHANGED <<updater, maps, wpc, unscheduled, batch, done, dropped>>

\* Faulty variant of UpdateFinished: nobody is notified.
UpdateFinishedSilently(x) ==
    /\ pc[x] = "finish"
    /\ pending' = pending - 1
    /\ pc' = [pc EXCEPT ![x] = "pop"] /\ req' = [req EXCEPT ![x] = None]
    /\ UNCHANGED <<threads, queue, shutdown, cancel, maps, wpc, unscheduled, messages>>

\* Faulty variant of UpdateFinished: whoever is woken up does not check again.
UpdateFinishedEndsWait(x) ==
    /\ pc[x] = "finish"
    /\ pending' = pending - 1
    /\ wpc' = IF wpc = "asleep" THEN "unload" ELSE wpc
    /\ pc' = [pc EXCEPT ![x] = "pop"] /\ req' = [req EXCEPT ![x] = None]
    /\ UNCHANGED <<threads, queue, shutdown, cancel, maps, unscheduled, messages>>

\* update_finished, with notify_all on the condition of the updater.
UpdateFinished(x) ==
    /\ pc[x] = "finish"
    /\ pending' = pending - 1
    /\ wpc' = IF wpc = "asleep" THEN "wait" ELSE wpc
    /\ pc' = [pc EXCEPT ![x] = "pop"] /\ req' = [req EXCEPT ![x] = None]
    /\ UNCHANGED <<threads, queue, shutdown, cancel, maps, unscheduled, messages>>

\* A thread may wake up without having been notified.
SpuriousWakeup ==
    /\ \/ wpc = "asleep" /\ wpc' = "wait" /\ pc' = pc
       \/ \E x \in Workers :
             pc[x] = "asleep" /\ pc' = [pc EXCEPT ![x] = "pop"] /\ wpc' = wpc
    /\ UNCHANGED <<updater, maps, unscheduled, req, messages>>

WorldThread ==
    \/ \E m \in Maps : ScheduleUpdate(m) \/ UpdateInline(m)
    \/ BeginUpdate \/ AllScheduled \/ Wait \/ UnloadMaps
    \/ SetCancelationToken \/ Cancel \/ Join

MapUpdate(x) == TakeMessages(x) \/ RunMessage(x) \/ UpdateObjects(x)

WorkerThread(x) ==
    WaitAndPop(x) \/ CheckCancelation(x) \/ MapUpdate(x) \/ UpdateFinished(x)

Next ==
    \/ \E m \in Maps : CreateMap(m)
    \/ SendFromWorld
    \/ WorldThread
    \/ UnloadAll
    \/ MapUpdate(World)
    \/ \E x \in Workers : WorkerThread(x)
    \/ SpuriousWakeup

Spec == Init /\ [][Next]_vars

\* The scheduler runs every thread that can run, and the world thread keeps
\* ticking until the server is stopped.
FairSpec ==
    /\ Spec
    /\ WF_vars(WorldThread) /\ WF_vars(MapUpdate(World))
    /\ \A x \in Workers : WF_vars(WorkerThread(x))
-----------------------------------------------------------------------------
TypeOK ==
    /\ threads \subseteq Workers /\ maps \subseteq Maps /\ unscheduled \subseteq Maps
    /\ wpc \in {"tick", "schedule", "wait", "asleep", "unload", "deactivate", "cancel", "join",
               "ended"}
    /\ queue \in Seq(Maps) /\ shutdown \in BOOLEAN /\ cancel \in BOOLEAN /\ pending \in Nat
    /\ pc \in [Executors -> {"off", "pop", "asleep", "got", "update", "messages", "finish",
                             "returned"}]
    /\ req \in [Executors -> Maps \cup {None}]
    /\ mailbox \in [Maps -> Seq(Nat)] /\ batch \in [Maps -> Seq(Nat)]
    /\ sent \in Nat /\ done \in SUBSET Nat /\ dropped \in SUBSET Nat

Updating(x) == pc[x] \in {"update", "messages", "finish"}
Queued == {queue[k] : k \in 1 .. Len(queue)}

(***************************************************************************)
(* The maps are updated only while the world thread schedules or waits:    *)
(* sessions, loading and unloading never run beside an update.             *)
(***************************************************************************)
WorldAlone ==
    (\E x \in Executors : Updating(x)) => wpc \in {"schedule", "wait", "asleep"}

(***************************************************************************)
(* A map has one request at most, so no two threads update it, and the map *)
(* of a request exists; no thread executes the request it did not get.     *)
(***************************************************************************)
OneRequestPerMap ==
    /\ \A j, k \in 1 .. Len(queue) : queue[j] = queue[k] => j = k
    /\ \A x \in Executors : req[x] # None => req[x] \in maps \ (unscheduled \cup Queued)
    /\ \A x, y \in Executors : req[x] # None /\ req[x] = req[y] => x = y
    /\ Queued \subseteq maps \ unscheduled

NoNullRequest == \A x \in Executors : Updating(x) => req[x] # None

(***************************************************************************)
(* Every message is executed once, in the order sent to its map, unless    *)
(* the map was unloaded first; none is lost when it is sent during the     *)
(* update of that map.                                                     *)
(***************************************************************************)
Waiting(m) == batch[m] \o mailbox[m]
MessagesKept ==
    /\ \A n \in 1 .. sent :
          \/ n \in done \cup dropped
          \/ \E m \in Maps : \E k \in 1 .. Len(Waiting(m)) : Waiting(m)[k] = n
    /\ done \cap dropped = {}
    /\ \A m \in Maps : \A k \in 1 .. Len(Waiting(m)) :
          /\ Waiting(m)[k] \notin done \cup dropped
          /\ \A j \in 1 .. k - 1 : Waiting(m)[j] < Waiting(m)[k]

(***************************************************************************)
(* Every tick ends: the world thread is not left waiting by a notification *)
(* that came too early or reached the wrong thread.                        *)
(***************************************************************************)
TickEnds == wpc = "schedule" ~> wpc = "unload"

(***************************************************************************)
(* A message is executed, unless its map is unloaded or the server stops.  *)
(***************************************************************************)
MessagesDelivered ==
    \A n \in 1 .. MaxMessages : n <= sent ~> n \in done \cup dropped

(***************************************************************************)
(* Once the server stops, all worker threads return and are joined.        *)
(***************************************************************************)
ShutdownEnds == wpc = "deactivate" ~> wpc = "ended"

(***************************************************************************)
(* The threads implement the tick.                                         *)
(***************************************************************************)
Ticks == INSTANCE MapTicks WITH
    alone <- wpc \notin {"schedule", "wait", "asleep"},
    todo <- unscheduled \cup Queued
                \cup {req[x] : x \in {y \in Executors : req[y] # None /\ pc[y] = "got"}},
    busy <- {req[x] : x \in {y \in Executors : Updating(y)}}

ImplementsTicks == Ticks!TicksSpec
=============================================================================
