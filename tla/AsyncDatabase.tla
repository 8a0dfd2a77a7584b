--------------------------- MODULE AsyncDatabase ---------------------------
(***************************************************************************)
(* The write-behind layer of shared/Database: the threads of the server    *)
(* hand their statements, transactions and queries to the delay thread of  *)
(* the database, which executes them on one connection; the results of     *)
(* queries come back through a queue that the world thread drains.         *)
(*                                                                         *)
(* An operation accepted by Delay gets a ticket, its place in the order of *)
(* acceptance.  A statement is the ticket of its operation and its index   *)
(* in it; what it says does not matter here.                               *)
(***************************************************************************)
EXTENDS Naturals, Sequences

CONSTANTS
    Threads,    \* the threads that use the database
    World,      \* the one that starts the server and runs ProcessResultQueue
    MaxTickets, \* bound: operations accepted by Delay
    MaxParts,   \* bound: statements of a transaction, queries of a holder
    MaxDirect,  \* bound: direct executions
    MaxBoots    \* bound: incarnations of the server process

ASSUME DatabaseAssumption ==
    /\ World \in Threads
    /\ MaxTickets \in Nat /\ MaxParts \in Nat \ {0} /\ MaxDirect \in Nat /\ MaxBoots \in Nat

VARIABLES
    async,       \* m_allowAsyncTransactions
    txnOpen,     \* thread -> m_currentTransaction is set
    txnParts,    \* thread -> number of statements in m_currentTransaction
    running,     \* SqlDelayThread::m_running
    sqlQueue,    \* SqlDelayThread::m_sqlQueue
    queueMutex,  \* holder of SqlDelayThread::m_queueMutex
    local,       \* the local queue of ProcessRequests
    cur,         \* the operation being executed, <<>> or <<op>>
    pc,          \* where the consumer of the queue is
    final,       \* the consumer is ~SqlDelayThread and no longer run
    connMutex,   \* holder of the mutex of m_pAsyncConn
    uncommitted, \* statements of the transaction open on m_pAsyncConn
    seen,        \* per executed query of cur: how many durable statements it saw
    db,          \* the durable statements, in the order they took effect
    resultQueue, \* SqlResultQueue::m_queue
    resultMutex, \* holder of SqlResultQueue::m_mutex
    wpc,         \* where the world thread is in SqlResultQueue::Update
    accepted,    \* history: number of tickets given
    fate,        \* history: what became of the resolved tickets, in order
    asked,       \* history: tickets of the queries whose callback is due
    directs,     \* history: number of direct executions
    boot         \* history: incarnation of the process

issuing == <<async, txnOpen, txnParts>>
worker  == <<local, cur, pc, final, uncommitted, seen>>
results == <<resultQueue, resultMutex, wpc>>
history == <<accepted, fate, asked, directs, boot>>
vars == <<issuing, running, sqlQueue, queueMutex, worker, connMutex, db, results, history>>

Free   == "free"
Worker == "delay thread"
Waker  == "world thread"

Operation == [kind : {"plain", "transaction", "query"},
              ticket : 1 .. MaxTickets, parts : 0 .. MaxParts]
Statement == [ticket : Nat, part : Nat]
Result    == [ticket : Nat, seen : Seq(Nat)]
Fate      == [outcome : {"executed", "refused", "lost"}, writes : Nat]

\* A statement that did not go through the queue.
Direct == [ticket |-> 0, part |-> 0]

\* The statements of an operation, in order.
Stmts(op) == [i \in 1 .. op.parts |-> [ticket |-> op.ticket, part |-> i]]

Init ==
    /\ async = FALSE
    /\ txnOpen = [t \in Threads |-> FALSE]
    /\ txnParts = [t \in Threads |-> 0]
    /\ running = TRUE
    /\ sqlQueue = <<>> /\ local = <<>> /\ cur = <<>>
    /\ queueMutex = Free /\ connMutex = Free /\ resultMutex = Free
    /\ pc = "check" /\ final = FALSE
    /\ uncommitted = <<>> /\ seen = <<>> /\ db = <<>>
    /\ resultQueue = <<>> /\ wpc = "tick"
    /\ accepted = 0 /\ fate = <<>> /\ asked = {} /\ directs = 0 /\ boot = 1
-----------------------------------------------------------------------------
(***************************************************************************)
(* The threads that issue operations.  Before AllowAsyncTransactions only  *)
(* the starting thread runs; after Stop no thread issues anything, because *)
(* Master::Run has joined them all.  The world thread issues operations    *)
(* either from its tick or from a callback of SqlResultQueue::Update.      *)
(***************************************************************************)
MayIssue(t) ==
    /\ running
    /\ async \/ t = World
    /\ t = World => wpc = "tick"

\* Faulty variants of DelayOp: tickets from zero; queries overtake what is queued.
DelayOpOffByOne(kind, parts) ==
    /\ queueMutex = Free /\ accepted < MaxTickets
    /\ accepted' = accepted + 1
    /\ sqlQueue' = Append(sqlQueue, [kind |-> kind, ticket |-> accepted, parts |-> parts])
    /\ asked' = IF kind = "query" THEN asked \cup {accepted} ELSE asked
    /\ UNCHANGED <<fate, directs, boot>>
DelayOpQueriesFirst(kind, parts) ==
    /\ queueMutex = Free /\ accepted < MaxTickets
    /\ accepted' = accepted + 1
    /\ LET op == [kind |-> kind, ticket |-> accepted + 1, parts |-> parts]
       IN sqlQueue' = IF kind = "query" THEN <<op>> \o sqlQueue ELSE Append(sqlQueue, op)
    /\ asked' = IF kind = "query" THEN asked \cup {accepted + 1} ELSE asked
    /\ UNCHANGED <<fate, directs, boot>>

\* SqlDelayThread::Delay: the lock is taken and released within the call.
DelayOp(kind, parts) ==
    /\ queueMutex = Free
    /\ accepted < MaxTickets
    /\ accepted' = accepted + 1
    /\ sqlQueue' = Append(sqlQueue, [kind |-> kind, ticket |-> accepted + 1, parts |-> parts])
    /\ asked' = IF kind = "query" THEN asked \cup {accepted + 1} ELSE asked
    /\ UNCHANGED <<fate, directs, boot>>

\* A statement on m_pAsyncConn from the calling thread; were a transaction
\* open on that connection, the statement would become part of it.
DirectOnConn(stmts) ==
    /\ connMutex = Free
    /\ directs < MaxDirect
    /\ directs' = directs + 1
    /\ \/ cur # <<>> /\ cur[1].kind = "transaction"
          /\ uncommitted' = uncommitted \o stmts /\ db' = db
       \/ ~(cur # <<>> /\ cur[1].kind = "transaction")
          /\ db' = db \o stmts /\ uncommitted' = uncommitted
    /\ UNCHANGED <<sqlQueue, local, cur, pc, final, seen,
                   accepted, fate, asked, boot>>

BeginTransaction(t) ==
    /\ MayIssue(t) /\ ~txnOpen[t]
    /\ txnOpen' = [txnOpen EXCEPT ![t] = TRUE]
    /\ txnParts' = [txnParts EXCEPT ![t] = 0]
    /\ UNCHANGED <<async, running, sqlQueue, queueMutex, worker, connMutex, db, results, history>>

\* Execute and ExecuteStmt with a transaction open on the thread.
ExecuteInTransaction(t) ==
    /\ MayIssue(t) /\ txnOpen[t] /\ txnParts[t] < MaxParts
    /\ txnParts' = [txnParts EXCEPT ![t] = @ + 1]
    /\ UNCHANGED <<async, txnOpen, running, sqlQueue, queueMutex, worker, connMutex, db, results,
                   history>>

\* Execute and ExecuteStmt without one: queued.
ExecuteAsync(t) ==
    /\ MayIssue(t) /\ ~txnOpen[t] /\ async
    /\ DelayOp("plain", 1)
    /\ UNCHANGED <<issuing, running, queueMutex, worker, connMutex, db, results>>

\* DirectExecute, and Execute while asynchronous execution is not allowed yet.
DirectExecute(t) ==
    /\ MayIssue(t)
    /\ \/ DirectOnConn(<<Direct>>)
       \/ DirectOnConn(<<>>)                        \* the database refuses it
    /\ UNCHANGED <<issuing, running, queueMutex, connMutex, results>>

CloseTransaction(t) ==
    /\ txnOpen' = [txnOpen EXCEPT ![t] = FALSE]
    /\ txnParts' = [txnParts EXCEPT ![t] = 0]
    /\ UNCHANGED async

CommitTransaction(t) ==
    /\ MayIssue(t) /\ txnOpen[t] /\ async
    /\ DelayOp("transaction", txnParts[t])
    /\ CloseTransaction(t)
    /\ UNCHANGED <<running, queueMutex, worker, connMutex, db, results>>

CommitTransactionDirect(t) ==
    /\ MayIssue(t) /\ txnOpen[t] /\ ~async
    /\ \/ DirectOnConn([i \in 1 .. txnParts[t] |-> Direct])
       \/ DirectOnConn(<<>>)
    /\ CloseTransaction(t)
    /\ UNCHANGED <<running, queueMutex, connMutex, results>>

RollbackTransaction(t) ==
    /\ MayIssue(t) /\ txnOpen[t]
    /\ CloseTransaction(t)
    /\ UNCHANGED <<running, sqlQueue, queueMutex, worker, connMutex, db, results, history>>

\* AsyncQuery (one query) and DelayQueryHolder (several).
AsyncQuery(t) ==
    /\ MayIssue(t) /\ async
    /\ \E n \in 1 .. MaxParts : DelayOp("query", n)
    /\ UNCHANGED <<issuing, running, queueMutex, worker, connMutex, db, results>>

\* Master::Run, after everything is loaded.
AllowAsyncTransactions ==
    /\ ~async /\ running
    /\ async' = TRUE
    /\ UNCHANGED <<txnOpen, txnParts, running, sqlQueue, queueMutex, worker, connMutex, db,
                   results, history>>

\* HaltDelayThread, up to the wait: the other threads have been joined.
Stop ==
    /\ running /\ async /\ wpc = "tick"
    /\ \A t \in Threads : ~txnOpen[t]
    /\ running' = FALSE
    /\ UNCHANGED <<issuing, sqlQueue, queueMutex, worker, connMutex, db, results, history>>
-----------------------------------------------------------------------------
(***************************************************************************)
(* The consumer of the queue: the loop of SqlDelayThread::run, and, once   *)
(* the loop has ended, the last ProcessRequests of ~SqlDelayThread.        *)
(***************************************************************************)
\* Faulty variant of CheckRunning: nobody looks at the queue after the loop.
CheckRunningNoFlush ==
    /\ pc = "check"
    /\ pc' = IF running THEN "take" ELSE "gone"
    /\ UNCHANGED <<issuing, running, sqlQueue, queueMutex, local, cur, final, uncommitted, seen,
                   connMutex, db, results, history>>

CheckRunning ==
    /\ pc = "check"
    /\ pc' = "take"
    /\ final' = ~running
    /\ UNCHANGED <<issuing, running, sqlQueue, queueMutex, local, cur, uncommitted, seen,
                   connMutex, db, results, history>>

LockQueue ==
    /\ pc = "take" /\ queueMutex = Free
    /\ queueMutex' = Worker
    /\ pc' = "move"
    /\ UNCHANGED <<issuing, running, sqlQueue, local, cur, final, uncommitted, seen, connMutex,
                   db, results, history>>

\* Faulty variant of MoveQueue: the queue is copied.
MoveQueueCopies ==
    /\ pc = "move"
    /\ local' = sqlQueue /\ sqlQueue' = sqlQueue
    /\ queueMutex' = Free
    /\ pc' = "next"
    /\ UNCHANGED <<issuing, running, cur, final, uncommitted, seen, connMutex, db, results,
                   history>>

\* ProcessRequests takes the whole queue and unlocks it.
MoveQueue ==
    /\ pc = "move"
    /\ local' = sqlQueue /\ sqlQueue' = <<>>
    /\ queueMutex' = Free
    /\ pc' = "next"
    /\ UNCHANGED <<issuing, running, cur, final, uncommitted, seen, connMutex, db, results,
                   history>>

\* Takes the next operation and locks the connection for all of it.
Fetch ==
    /\ pc = "next" /\ local # <<>> /\ connMutex = Free
    /\ cur' = <<Head(local)>> /\ local' = Tail(local)
    /\ connMutex' = Worker
    /\ pc' = "exec"
    /\ UNCHANGED <<issuing, running, sqlQueue, queueMutex, final, uncommitted, seen, db, results,
                   history>>

\* Faulty variant of LocalQueueEmpty: the thread leaves after one round.
LocalQueueEmptyLeaves ==
    /\ pc = "next" /\ local = <<>>
    /\ pc' = "gone"
    /\ UNCHANGED <<issuing, running, sqlQueue, queueMutex, local, cur, final, uncommitted, seen,
                   connMutex, db, results, history>>

LocalQueueEmpty ==
    /\ pc = "next" /\ local = <<>>
    /\ pc' = IF final THEN "gone" ELSE "check"
    /\ UNCHANGED <<issuing, running, sqlQueue, queueMutex, local, cur, final, uncommitted, seen,
                   connMutex, db, results, history>>

\* The operation is over: the connection is unlocked and the next one follows.
Resolve(outcome, writes) ==
    /\ cur' = <<>> /\ uncommitted' = <<>> /\ seen' = <<>>
    /\ connMutex' = Free
    /\ pc' = "next"
    /\ fate' = Append(fate, [outcome |-> outcome, writes |-> writes])
    /\ UNCHANGED <<issuing, running, sqlQueue, queueMutex, local, final, accepted, directs, boot>>

\* Faulty variant of Refuse: what was executed so far is committed.
RefuseKeepsStatements ==
    /\ db' = db \o uncommitted
    /\ Resolve("refused", 0)
    /\ UNCHANGED <<results, asked>>

Refuse ==
    /\ Resolve("refused", 0)
    /\ UNCHANGED <<db, results, asked>>

\* Faulty variant of ExecutePlain: a refused statement is queued again.
ExecutePlainRetries ==
    /\ pc = "exec" /\ cur[1].kind = "plain"
    /\ \/ db' = db \o Stmts(cur[1])
          /\ Resolve("executed", cur[1].parts)
          /\ UNCHANGED <<results, asked>>
       \/ /\ sqlQueue' = Append(sqlQueue, cur[1])
          /\ cur' = <<>> /\ connMutex' = Free /\ pc' = "next"
          /\ UNCHANGED <<issuing, running, queueMutex, local, final, uncommitted, seen, db,
                         results, history>>

\* SqlPlainRequest::Execute and SqlPreparedRequest::Execute.
ExecutePlain ==
    /\ pc = "exec" /\ cur[1].kind = "plain"
    /\ \/ db' = db \o Stmts(cur[1])
          /\ Resolve("executed", cur[1].parts)
          /\ UNCHANGED <<results, asked>>
       \/ Refuse

\* One statement of SqlTransaction::Execute; a refused one rolls it all back.
ExecuteStatement ==
    /\ pc = "exec" /\ cur[1].kind = "transaction" /\ Len(uncommitted) < cur[1].parts
    /\ \/ uncommitted' = Append(uncommitted,
                                [ticket |-> cur[1].ticket, part |-> Len(uncommitted) + 1])
          /\ UNCHANGED <<issuing, running, sqlQueue, queueMutex, local, cur, pc, final, seen,
                         connMutex, db, results, history>>
       \/ Refuse

\* The end of SqlTransaction::Execute; one without statements gets here at once.
Commit ==
    /\ pc = "exec" /\ cur[1].kind = "transaction" /\ Len(uncommitted) >= cur[1].parts
    /\ \/ db' = db \o uncommitted
          /\ Resolve("executed", cur[1].parts)
          /\ UNCHANGED <<results, asked>>
       \/ Refuse

\* One query of SqlQuery::Execute or SqlQueryHolderEx::Execute.
ExecuteQuery ==
    /\ pc = "exec" /\ cur[1].kind = "query" /\ Len(seen) < cur[1].parts
    /\ seen' = Append(seen, Len(db))
    /\ UNCHANGED <<issuing, running, sqlQueue, queueMutex, local, cur, pc, final, uncommitted,
                   connMutex, db, results, history>>

\* SqlResultQueue::Add, with the connection still locked.
Publish ==
    /\ pc = "exec" /\ cur[1].kind = "query" /\ Len(seen) >= cur[1].parts
    /\ resultMutex = Free
    /\ resultQueue' = Append(resultQueue, [ticket |-> cur[1].ticket, seen |-> seen])
    /\ Resolve("executed", 0)
    /\ UNCHANGED <<db, resultMutex, wpc, asked>>
-----------------------------------------------------------------------------
(***************************************************************************)
(* SqlResultQueue::Update on the world thread: the callbacks run with the  *)
(* mutex of the result queue held, and may delay operations themselves.    *)
(***************************************************************************)
BeginUpdate ==
    /\ running /\ wpc = "tick" /\ resultMutex = Free
    /\ resultMutex' = Waker
    /\ wpc' = "update"
    /\ UNCHANGED <<issuing, running, sqlQueue, queueMutex, worker, connMutex, db, resultQueue,
                   history>>

RunCallback ==
    /\ wpc = "update" /\ resultQueue # <<>>
    /\ resultQueue' = Tail(resultQueue)
    /\ asked' = asked \ {Head(resultQueue).ticket}
    /\ wpc' \in {"update"} \cup (IF accepted < MaxTickets THEN {"delay"} ELSE {})
    /\ UNCHANGED <<issuing, running, sqlQueue, queueMutex, worker, connMutex, db, resultMutex,
                   accepted, fate, directs, boot>>

CallbackDelays ==
    /\ wpc = "delay"
    /\ \/ DelayOp("plain", 1)
       \/ DelayOp("query", 1)
       \/ accepted = MaxTickets /\ UNCHANGED <<sqlQueue, history>>   \* others used up the bound
    /\ wpc' = "update"
    /\ UNCHANGED <<issuing, running, queueMutex, worker, connMutex, db, resultQueue, resultMutex>>

\* Faulty variant of EndUpdate: the mutex of the result queue stays locked.
EndUpdateKeepsMutex ==
    /\ wpc = "update" /\ resultQueue = <<>>
    /\ wpc' = "tick"
    /\ UNCHANGED <<issuing, running, sqlQueue, queueMutex, worker, connMutex, db, resultQueue,
                   resultMutex, history>>

EndUpdate ==
    /\ wpc = "update" /\ resultQueue = <<>>
    /\ resultMutex' = Free
    /\ wpc' = "tick"
    /\ UNCHANGED <<issuing, running, sqlQueue, queueMutex, worker, connMutex, db, resultQueue,
                   history>>
-----------------------------------------------------------------------------
(***************************************************************************)
(* The process dies, or has ended, and a new one starts.  The database     *)
(* server discards the transaction that was open on the connection.        *)
(***************************************************************************)
Restart ==
    /\ boot < MaxBoots
    /\ boot' = boot + 1
    /\ fate' = fate \o [i \in 1 .. accepted - Len(fate) |-> [outcome |-> "lost", writes |-> 0]]
    /\ asked' = {}
    /\ async' = FALSE
    /\ txnOpen' = [t \in Threads |-> FALSE]
    /\ txnParts' = [t \in Threads |-> 0]
    /\ running' = TRUE
    /\ sqlQueue' = <<>> /\ local' = <<>> /\ cur' = <<>>
    /\ queueMutex' = Free /\ connMutex' = Free /\ resultMutex' = Free
    /\ pc' = "check" /\ final' = FALSE
    /\ uncommitted' = <<>> /\ seen' = <<>>
    /\ resultQueue' = <<>> /\ wpc' = "tick"
    /\ UNCHANGED <<db, accepted, directs>>

Issue(t) ==
    \/ BeginTransaction(t) \/ ExecuteInTransaction(t) \/ ExecuteAsync(t) \/ DirectExecute(t)
    \/ CommitTransaction(t) \/ CommitTransactionDirect(t) \/ RollbackTransaction(t)
    \/ AsyncQuery(t)

ProcessRequests ==
    \/ CheckRunning \/ LockQueue \/ MoveQueue \/ Fetch \/ LocalQueueEmpty
    \/ ExecutePlain \/ ExecuteStatement \/ Commit \/ ExecuteQuery \/ Publish

ProcessResultQueue == BeginUpdate \/ RunCallback \/ CallbackDelays \/ EndUpdate

Next ==
    \/ \E t \in Threads : Issue(t)
    \/ AllowAsyncTransactions
    \/ Stop
    \/ ProcessRequests
    \/ ProcessResultQueue
    \/ Restart

Spec == Init /\ [][Next]_vars

\* The delay thread loops as long as it lives, and the world thread calls
\* ProcessResultQueue in every tick.  Between two ticks the mutex of the result
\* queue is free for long enough that the delay thread gets it: strong fairness.
FairSpec ==
    Spec /\ WF_vars(ProcessRequests) /\ WF_vars(ProcessResultQueue) /\ SF_vars(Publish)
-----------------------------------------------------------------------------
(***************************************************************************)
(* Type invariant.                                                         *)
(***************************************************************************)
IssuingType ==
    /\ async \in BOOLEAN
    /\ txnOpen \in [Threads -> BOOLEAN]
    /\ txnParts \in [Threads -> 0 .. MaxParts]
QueueType ==
    /\ running \in BOOLEAN
    /\ sqlQueue \in Seq(Operation)
    /\ queueMutex \in {Free, Worker}
WorkerType ==
    /\ local \in Seq(Operation)
    /\ cur \in {<<>>} \cup {<<op>> : op \in Operation}
    /\ pc \in {"check", "take", "move", "next", "exec", "gone"}
    /\ final \in BOOLEAN
    /\ connMutex \in {Free, Worker}
    /\ uncommitted \in Seq(Statement) /\ db \in Seq(Statement) /\ seen \in Seq(Nat)
ResultType ==
    /\ resultQueue \in Seq(Result)
    /\ resultMutex \in {Free, Waker}
    /\ wpc \in {"tick", "update", "delay"}
HistoryType ==
    /\ accepted \in Nat /\ fate \in Seq(Fate) /\ asked \in SUBSET Nat
    /\ directs \in Nat /\ boot \in Nat

TypeOK == IssuingType /\ QueueType /\ WorkerType /\ ResultType /\ HistoryType

\* The accepted operations that are not resolved yet, in the order they will be.
Pipeline == cur \o local \o sqlQueue

(***************************************************************************)
(* The queue, the copy ProcessRequests makes of it and the operation in    *)
(* execution hold exactly the unresolved operations, in the order the      *)
(* threads handed them in: none is skipped, overtaken or executed twice.   *)
(***************************************************************************)
NoneLostOrOvertaken ==
    /\ Len(Pipeline) = accepted - Len(fate)
    /\ \A i \in 1 .. Len(Pipeline) : Pipeline[i].ticket = Len(fate) + i

(***************************************************************************)
(* Whenever the process dies, the database holds a prefix of what it was   *)
(* given: no operation has taken effect before one accepted earlier.       *)
(***************************************************************************)
DurableInOrder ==
    \A i, j \in 1 .. Len(db) :
        /\ i < j /\ db[i] # Direct /\ db[j] # Direct
        => \/ db[i].ticket < db[j].ticket
           \/ db[i].ticket = db[j].ticket /\ db[i].part < db[j].part

\* The indices of the statements of operation n among the statements stmts.
PartsIn(stmts, n) == {stmts[i].part : i \in {k \in 1 .. Len(stmts) : stmts[k].ticket = n}}

(***************************************************************************)
(* Every resolved operation has all its statements in the database, or,    *)
(* when one of them was refused or the process died first, none of them;   *)
(* of an operation not yet resolved the database holds nothing.            *)
(***************************************************************************)
AllOrNothing ==
    \A n \in 1 .. accepted :
        PartsIn(db, n) = IF n \in 1 .. Len(fate) THEN 1 .. fate[n].writes ELSE {}

(***************************************************************************)
(* A query handed to AsyncQuery or DelayQueryHolder sees the effect of     *)
(* every write accepted before it and of none accepted after it: a         *)
(* character is loaded as its last queued save left it.                    *)
(***************************************************************************)
QuerySeesEarlierWrites ==
    \A k \in 1 .. Len(resultQueue) : \A q \in 1 .. Len(resultQueue[k].seen) :
        \A i \in 1 .. Len(db) :
            db[i] # Direct =>
                (i <= resultQueue[k].seen[q] <=> db[i].ticket < resultQueue[k].ticket)

(***************************************************************************)
(* An orderly shutdown executes everything that was handed in before it,   *)
(* also what was queued while the delay thread was leaving its loop.       *)
(***************************************************************************)
HaltFlushesQueue == pc = "gone" => Len(fate) = accepted

(***************************************************************************)
(* Every accepted operation is resolved sooner or later.                   *)
(***************************************************************************)
EveryOperationResolved == \A n \in 1 .. MaxTickets : n <= accepted ~> n <= Len(fate)

(***************************************************************************)
(* The callback of every query runs, unless the process stops or dies.     *)
(***************************************************************************)
EveryQueryAnswered == \A n \in 1 .. MaxTickets : n \in asked ~> (n \notin asked \/ ~running)

(***************************************************************************)
(* The layer implements the write-behind log: what is pending there is     *)
(* spread here over the queue, its copy and the operation in execution.    *)
(***************************************************************************)
Log == INSTANCE WriteBehindLog WITH Operations <- Operation, Batches <- 0 .. MaxParts,
                                    pending <- Pipeline, durable <- db

ImplementsLog == Log!LogSpec
=============================================================================
