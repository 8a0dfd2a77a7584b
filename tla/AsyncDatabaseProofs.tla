------------------------ MODULE AsyncDatabaseProofs ------------------------
(***************************************************************************)
(* Proofs about AsyncDatabase for every set of threads and every bound.    *)
(***************************************************************************)
EXTENDS AsyncDatabase, SequenceTheorems, TLAPS

(***************************************************************************)
(* Where the delay thread is and what it holds: an operation exactly while *)
(* it executes one, with the connection locked; a copy of the queue only   *)
(* while it works it off; of an open transaction, the statements executed  *)
(* so far.                                                                 *)
(***************************************************************************)
WorkerShape ==
    /\ pc = "exec" <=> cur # <<>>
    /\ connMutex = Worker <=> cur # <<>>
    /\ pc \notin {"next", "exec"} => local = <<>>
    /\ cur = <<>> => uncommitted = <<>>
    /\ cur # <<>> => /\ Len(uncommitted) <= cur[1].parts
                     /\ cur[1].kind # "transaction" => uncommitted = <<>>
                     /\ \A i \in 1 .. Len(uncommitted) :
                            uncommitted[i] = [ticket |-> cur[1].ticket, part |-> i]

TypeInv == TypeOK /\ WorkerShape

LEMMA InitTypeInv == Init => TypeInv
  <1> SUFFICES ASSUME Init PROVE TypeInv
    OBVIOUS
  <1> USE DatabaseAssumption
  <1>1. \A S : <<>> \in Seq(S)
    BY EmptySeq
  <1>2. IssuingType
    <2>1. async \in BOOLEAN /\ txnOpen \in [Threads -> BOOLEAN]
      BY Zenon DEF Init
    <2>2. txnParts \in [Threads -> 0 .. MaxParts]
      BY DEF Init
    <2> QED
      BY <2>1, <2>2 DEF IssuingType
  <1>3. QueueType
    BY <1>1, Zenon DEF Init, QueueType
  <1>4. WorkerType
    BY <1>1, Zenon DEF Init, WorkerType
  <1>5. ResultType /\ HistoryType
    BY <1>1 DEF Init, ResultType, HistoryType
  <1>6. WorkerShape
    BY DEF Init, WorkerShape, Free, Worker
  <1> QED
    BY <1>2, <1>3, <1>4, <1>5, <1>6 DEF TypeInv, TypeOK

\* One operation joins the queue; nothing but the queue and its history changes.
LEMMA DelayOpType ==
  ASSUME TypeInv, NEW kind \in {"plain", "transaction", "query"}, NEW n \in 0 .. MaxParts,
         DelayOp(kind, n)
  PROVE  sqlQueue' \in Seq(Operation) /\ HistoryType'
  <1> USE DatabaseAssumption
  <1> DEFINE op == [kind |-> kind, ticket |-> accepted + 1, parts |-> n]
  <1>1. op \in Operation
    BY DEF TypeInv, TypeOK, HistoryType, DelayOp, Operation
  <1>2. sqlQueue' = Append(sqlQueue, op) /\ sqlQueue \in Seq(Operation)
    BY DEF TypeInv, TypeOK, QueueType, DelayOp
  <1>3. sqlQueue' \in Seq(Operation)
    BY <1>1, <1>2, AppendProperties
  <1> QED
    BY <1>3 DEF TypeInv, TypeOK, HistoryType, DelayOp

LEMMA DirectSeq ==
  ASSUME NEW n \in Nat
  PROVE  /\ [i \in 1 .. n |-> Direct] \in Seq({Direct})
         /\ <<Direct>> \in Seq({Direct}) /\ <<>> \in Seq({Direct})
  <1>1. [i \in 1 .. n |-> Direct] \in [1 .. n -> {Direct}]
    BY Zenon
  <1>2. [i \in 1 .. n |-> Direct] \in UNION {[1 .. m -> {Direct}] : m \in Nat}
    BY <1>1
  <1>3. [i \in 1 .. n |-> Direct] \in Seq({Direct})
    BY <1>2, SeqDef, Zenon
  <1>4. <<>> \in Seq({Direct})
    BY EmptySeq
  <1>5. Append(<<>>, Direct) \in Seq({Direct}) /\ Append(<<>>, Direct) = <<Direct>>
    BY <1>4, AppendProperties
  <1> QED
    BY <1>3, <1>4, <1>5, Zenon

\* A direct execution happens while the connection is free, hence outside any transaction.
LEMMA DirectType ==
  ASSUME TypeInv, NEW stmts \in Seq({Direct}), DirectOnConn(stmts)
  PROVE  /\ cur = <<>> /\ uncommitted' = uncommitted
         /\ db' = db \o stmts /\ db' \in Seq(Statement)
         /\ HistoryType'
  <1>1. cur = <<>>
    BY DEF TypeInv, WorkerShape, DirectOnConn, Free, Worker
  <1>2. db' = db \o stmts /\ uncommitted' = uncommitted
    BY <1>1 DEF DirectOnConn
  <1>3. stmts \in Seq(Statement)
    <2>1. {Direct} \subseteq Statement
      BY DEF Direct, Statement
    <2> QED
      BY <2>1, SeqMonotonic
  <1>4. db' \in Seq(Statement)
    BY <1>2, <1>3, ConcatProperties DEF TypeInv, TypeOK, WorkerType
  <1>5. HistoryType'
    BY DEF TypeInv, TypeOK, HistoryType, DirectOnConn
  <1> QED
    BY <1>1, <1>2, <1>4, <1>5

LEMMA IssueType == ASSUME TypeInv, NEW t \in Threads, Issue(t) PROVE TypeInv'
  <1> USE DatabaseAssumption
  <1>1. ASSUME IssuingType', UNCHANGED <<running, sqlQueue, queueMutex, worker, connMutex, db,
                                          results, history>>
        PROVE  TypeInv'
    BY <1>1 DEF TypeInv, TypeOK, WorkerShape, QueueType, WorkerType, ResultType, HistoryType,
                worker, results, history
  <1>2. ASSUME IssuingType', sqlQueue' \in Seq(Operation), HistoryType',
               UNCHANGED <<running, queueMutex, worker, connMutex, db, results>>
        PROVE  TypeInv'
    BY <1>2 DEF TypeInv, TypeOK, WorkerShape, QueueType, WorkerType, ResultType, worker, results
  <1>3. ASSUME IssuingType', NEW stmts \in Seq({Direct}), DirectOnConn(stmts),
               UNCHANGED <<running, queueMutex, connMutex, results>>
        PROVE  TypeInv'
    <2>1. UNCHANGED <<sqlQueue, local, cur, pc, final, seen>>
      BY <1>3 DEF DirectOnConn
    <2>2. HistoryType' /\ uncommitted' = uncommitted /\ db' \in Seq(Statement)
      BY <1>3, DirectType
    <2> QED
      BY <1>3, <2>1, <2>2 DEF TypeInv, TypeOK, WorkerShape, QueueType, WorkerType, ResultType, results
  <1>4. IssuingType
    BY DEF TypeInv, TypeOK
  <1>5. CloseTransaction(t) => IssuingType'
    <2> SUFFICES ASSUME CloseTransaction(t) PROVE IssuingType'
      OBVIOUS
    <2>1. async' \in BOOLEAN /\ txnOpen' \in [Threads -> BOOLEAN]
      BY <1>4, Zenon DEF CloseTransaction, IssuingType
    <2>2. txnParts' \in [Threads -> 0 .. MaxParts]
      BY <1>4 DEF CloseTransaction, IssuingType
    <2> QED
      BY <2>1, <2>2 DEF IssuingType
  <1>6. CASE BeginTransaction(t)
    <2>1. async' \in BOOLEAN /\ txnOpen' \in [Threads -> BOOLEAN]
      BY <1>4, <1>6, Zenon DEF BeginTransaction, IssuingType
    <2>2. txnParts' \in [Threads -> 0 .. MaxParts]
      BY <1>4, <1>6 DEF BeginTransaction, IssuingType
    <2>3. UNCHANGED <<running, sqlQueue, queueMutex, worker, connMutex, db, results, history>>
      BY <1>6 DEF BeginTransaction
    <2> QED
      BY <1>1, <2>1, <2>2, <2>3 DEF IssuingType
  <1>7. CASE ExecuteInTransaction(t)
    <2>1. async' \in BOOLEAN /\ txnOpen' \in [Threads -> BOOLEAN]
      BY <1>4, <1>7, Zenon DEF ExecuteInTransaction, IssuingType
    <2>2. txnParts' \in [Threads -> 0 .. MaxParts]
      BY <1>4, <1>7 DEF ExecuteInTransaction, IssuingType
    <2>3. UNCHANGED <<running, sqlQueue, queueMutex, worker, connMutex, db, results, history>>
      BY <1>7 DEF ExecuteInTransaction
    <2> QED
      BY <1>1, <2>1, <2>2, <2>3 DEF IssuingType
  <1>8. CASE ExecuteAsync(t)
    <2>1. sqlQueue' \in Seq(Operation) /\ HistoryType'
      BY <1>8, DelayOpType DEF ExecuteAsync
    <2>2. IssuingType' /\ UNCHANGED <<running, queueMutex, worker, connMutex, db, results>>
      BY <1>4, <1>8 DEF ExecuteAsync, IssuingType, issuing
    <2> QED
      BY <1>2, <2>1, <2>2
  <1>9. CASE DirectExecute(t)
    <2>1. PICK stmts \in {<<Direct>>, <<>>} : DirectOnConn(stmts)
      BY <1>9 DEF DirectExecute
    <2>2. stmts \in Seq({Direct})
      BY <2>1, DirectSeq
    <2>3. IssuingType' /\ UNCHANGED <<running, queueMutex, connMutex, results>>
      BY <1>4, <1>9 DEF DirectExecute, IssuingType, issuing
    <2> QED
      BY <1>3, <2>1, <2>2, <2>3
  <1>10. CASE CommitTransaction(t)
    <2>1. txnParts[t] \in 0 .. MaxParts
      BY <1>4 DEF IssuingType
    <2>2. sqlQueue' \in Seq(Operation) /\ HistoryType'
      BY <1>10, <2>1, DelayOpType DEF CommitTransaction
    <2> QED
      BY <1>2, <1>5, <1>10, <2>2 DEF CommitTransaction
  <1>11. CASE CommitTransactionDirect(t)
    <2>1. PICK stmts \in {[i \in 1 .. txnParts[t] |-> Direct], <<>>} : DirectOnConn(stmts)
      BY <1>11 DEF CommitTransactionDirect
    <2>2. txnParts[t] \in Nat
      BY <1>4 DEF IssuingType
    <2>3. stmts \in Seq({Direct})
      BY <2>1, <2>2, DirectSeq
    <2> QED
      BY <1>3, <1>5, <1>11, <2>1, <2>3 DEF CommitTransactionDirect
  <1>12. CASE RollbackTransaction(t)
    BY <1>1, <1>5, <1>12 DEF RollbackTransaction
  <1>13. CASE AsyncQuery(t)
    <2>1. PICK n \in 1 .. MaxParts : DelayOp("query", n)
      BY <1>13 DEF AsyncQuery
    <2>2. sqlQueue' \in Seq(Operation) /\ HistoryType'
      BY <2>1, DelayOpType
    <2>3. IssuingType' /\ UNCHANGED <<running, queueMutex, worker, connMutex, db, results>>
      BY <1>4, <1>13 DEF AsyncQuery, IssuingType, issuing
    <2> QED
      BY <1>2, <2>2, <2>3
  <1> QED
    BY <1>6, <1>7, <1>8, <1>9, <1>10, <1>11, <1>12, <1>13 DEF Issue

\* The operation in execution ends.
LEMMA ResolveType ==
  ASSUME TypeInv, NEW outcome \in {"executed", "refused"}, NEW writes \in Nat,
         Resolve(outcome, writes),
         db' \in Seq(Statement), ResultType', asked' \in SUBSET Nat, pc = "exec"
  PROVE  TypeInv'
  <1>1. IssuingType' /\ QueueType'
    BY DEF TypeInv, TypeOK, IssuingType, QueueType, Resolve, issuing
  <1>2. WorkerType'
    BY EmptySeq DEF TypeInv, TypeOK, WorkerType, Resolve
  <1>3. fate' \in Seq(Fate)
    <2>1. [outcome |-> outcome, writes |-> writes] \in Fate
      BY DEF Fate
    <2> QED
      BY <2>1, AppendProperties DEF TypeInv, TypeOK, HistoryType, Resolve
  <1>4. HistoryType'
    BY <1>3 DEF TypeInv, TypeOK, HistoryType, Resolve
  <1>5. WorkerShape'
    BY DEF TypeInv, TypeOK, WorkerType, WorkerShape, Resolve, Free, Worker
  <1> QED
    BY <1>1, <1>2, <1>4, <1>5 DEF TypeInv, TypeOK

LEMMA RefuseType == ASSUME TypeInv, Refuse, pc = "exec" PROVE TypeInv'
  BY ResolveType DEF Refuse, TypeInv, TypeOK, WorkerType, ResultType, HistoryType, results

\* The operation in execution, and the statements of it that a database accepts.
LEMMA CurType ==
  ASSUME TypeInv, pc = "exec"
  PROVE  /\ cur[1] \in Operation /\ cur = <<cur[1]>> /\ cur # <<>>
         /\ Stmts(cur[1]) \in Seq(Statement)
         /\ Len(Stmts(cur[1])) = cur[1].parts
  <1>1. cur # <<>> /\ cur[1] \in Operation /\ cur = <<cur[1]>>
    BY DEF TypeInv, TypeOK, WorkerType, WorkerShape
  <1>2. cur[1].ticket \in Nat /\ cur[1].parts \in Nat
    BY <1>1, DatabaseAssumption DEF Operation
  <1>3. Stmts(cur[1]) \in [1 .. cur[1].parts -> Statement]
    BY <1>2 DEF Stmts, Statement
  <1>4. Stmts(cur[1]) \in Seq(Statement)
    BY <1>2, <1>3, SeqDef
  <1>5. Len(Stmts(cur[1])) = cur[1].parts
    BY <1>2, <1>4, LenProperties DEF Stmts
  <1> QED
    BY <1>1, <1>4, <1>5

LEMMA ProcessRequestsType == ASSUME TypeInv, ProcessRequests PROVE TypeInv'
  <1> USE DatabaseAssumption
  <1> USE DEF TypeInv, TypeOK
  <1>1. ASSUME WorkerType', WorkerShape', QueueType', UNCHANGED <<issuing, results, history>>
        PROVE  TypeInv'
    BY <1>1 DEF IssuingType, ResultType, HistoryType, issuing, results, history
  <1>2. CASE CheckRunning
    <2>1. QueueType' /\ final' \in BOOLEAN
      BY <1>2, Zenon DEF QueueType, CheckRunning
    <2>2. WorkerType'
      BY <1>2, <2>1 DEF WorkerType, CheckRunning
    <2> QED
      BY <1>1, <1>2, <2>1, <2>2 DEF CheckRunning, WorkerShape
  <1>3. CASE LockQueue
    <2>1. QueueType' /\ WorkerType'
      BY <1>3 DEF QueueType, WorkerType, LockQueue
    <2> QED
      BY <1>1, <1>3, <2>1 DEF LockQueue, WorkerShape
  <1>4. CASE MoveQueue
    <2>1. QueueType' /\ WorkerType'
      BY <1>4, EmptySeq DEF QueueType, WorkerType, MoveQueue
    <2> QED
      BY <1>1, <1>4, <2>1 DEF MoveQueue, WorkerShape
  <1>5. CASE Fetch
    <2>1. Head(local) \in Operation /\ Tail(local) \in Seq(Operation)
      BY <1>5, HeadTailProperties DEF Fetch, WorkerType
    <2>2. QueueType' /\ WorkerType'
      BY <1>5, <2>1 DEF QueueType, WorkerType, Fetch
    <2>3. cur = <<>> /\ uncommitted = <<>>
      BY <1>5 DEF Fetch, WorkerShape
    <2>4. cur' # <<>> /\ Len(uncommitted') = 0 /\ cur'[1] = Head(local) /\ Head(local).parts >= 0
      BY <1>5, <2>1, <2>3 DEF Fetch, Operation
    <2>5. WorkerShape'
      BY <1>5, <2>3, <2>4 DEF WorkerShape, Fetch
    <2> QED
      BY <1>1, <1>5, <2>2, <2>5 DEF Fetch
  <1>6. CASE LocalQueueEmpty
    <2>1. QueueType' /\ WorkerType'
      BY <1>6 DEF QueueType, WorkerType, LocalQueueEmpty
    <2> QED
      BY <1>1, <1>6, <2>1 DEF LocalQueueEmpty, WorkerShape
  <1>7. CASE ExecutePlain
    <2>1. CASE Refuse
      BY <1>7, <2>1, RefuseType DEF ExecutePlain
    <2>2. CASE db' = db \o Stmts(cur[1]) /\ Resolve("executed", cur[1].parts)
               /\ UNCHANGED <<results, asked>>
      <3>1. db' \in Seq(Statement) /\ cur[1].parts \in Nat
        BY <1>7, <2>2, CurType, ConcatProperties DEF ExecutePlain, WorkerType, Operation
      <3> QED
        BY <1>7, <2>2, <3>1, ResolveType DEF ExecutePlain, ResultType, HistoryType, results
    <2> QED
      BY <1>7, <2>1, <2>2 DEF ExecutePlain
  <1>8. CASE ExecuteStatement
    <2>1. CASE Refuse
      BY <1>8, <2>1, RefuseType DEF ExecuteStatement
    <2>2. CASE ~Refuse
      <3> DEFINE stmt == [ticket |-> cur[1].ticket, part |-> Len(uncommitted) + 1]
      <3>1. uncommitted \in Seq(Statement) /\ Len(uncommitted) \in Nat
        BY LenProperties DEF WorkerType
      <3>2. cur[1].parts \in Nat /\ stmt \in Statement
        BY <1>8, <3>1, CurType DEF ExecuteStatement, Operation, Statement
      <3>3. uncommitted' = Append(uncommitted, stmt)
        BY <1>8, <2>2 DEF ExecuteStatement
      <3>4. /\ UNCHANGED <<issuing, running, sqlQueue, queueMutex, local, cur, pc, final, seen,
                           connMutex, db, results, history>>
            /\ cur[1].kind = "transaction" /\ Len(uncommitted) < cur[1].parts
        BY <1>8, <2>2 DEF ExecuteStatement
      <3>5. /\ uncommitted' \in Seq(Statement) /\ Len(uncommitted') = Len(uncommitted) + 1
            /\ \A i \in 1 .. Len(uncommitted) : uncommitted'[i] = uncommitted[i]
            /\ uncommitted'[Len(uncommitted) + 1] = stmt
        BY <3>1, <3>2, <3>3, AppendProperties
      <3>6. QueueType' /\ WorkerType'
        BY <3>4, <3>5 DEF QueueType, WorkerType
      <3>7. cur # <<>>
        BY <1>8, CurType DEF ExecuteStatement
      <3>8. \A i \in 1 .. Len(uncommitted') :
                uncommitted'[i] = [ticket |-> cur[1].ticket, part |-> i]
        <4> SUFFICES ASSUME NEW i \in 1 .. Len(uncommitted) + 1
                     PROVE  uncommitted'[i] = [ticket |-> cur[1].ticket, part |-> i]
          BY <3>5
        <4>1. CASE i \in 1 .. Len(uncommitted)
          BY <3>5, <3>7, <4>1 DEF WorkerShape
        <4>2. CASE i = Len(uncommitted) + 1
          BY <3>5, <4>2
        <4> QED
          BY <3>1, <4>1, <4>2
      <3>9. Len(uncommitted') <= cur[1].parts
        BY <3>1, <3>2, <3>4, <3>5
      <3>10. WorkerShape'
        BY <3>4, <3>7, <3>8, <3>9 DEF WorkerShape
      <3> QED
        BY <1>1, <3>4, <3>6, <3>10
    <2> QED
      BY <2>1, <2>2
  <1>9. CASE Commit
    <2>1. CASE Refuse
      BY <1>9, <2>1, RefuseType DEF Commit
    <2>2. CASE db' = db \o uncommitted /\ Resolve("executed", cur[1].parts)
               /\ UNCHANGED <<results, asked>>
      <3>1. db' \in Seq(Statement) /\ cur[1].parts \in Nat
        BY <1>9, <2>2, CurType, ConcatProperties DEF Commit, WorkerType, Operation
      <3> QED
        BY <1>9, <2>2, <3>1, ResolveType DEF Commit, ResultType, HistoryType, results
    <2> QED
      BY <1>9, <2>1, <2>2 DEF Commit
  <1>10. CASE ExecuteQuery
    <2>1. Len(db) \in Nat /\ seen \in Seq(Nat)
      BY LenProperties DEF WorkerType
    <2>2. seen' \in Seq(Nat)
      BY <1>10, <2>1, AppendProperties DEF ExecuteQuery
    <2>3. QueueType' /\ WorkerType'
      BY <1>10, <2>2 DEF QueueType, WorkerType, ExecuteQuery
    <2> QED
      BY <1>1, <1>10, <2>3 DEF ExecuteQuery, WorkerShape
  <1>11. CASE Publish
    <2>1. cur[1].ticket \in Nat
      BY <1>11, CurType DEF Publish, Operation
    <2>4. [ticket |-> cur[1].ticket, seen |-> seen] \in Result
      BY <2>1, Zenon DEF Result, WorkerType
    <2>2. ResultType'
      BY <1>11, <2>4, AppendProperties DEF Publish, ResultType
    <2> QED
      BY <1>11, <2>2, ResolveType DEF Publish, WorkerType, HistoryType
  <1> QED
    BY <1>2, <1>3, <1>4, <1>5, <1>6, <1>7, <1>8, <1>9, <1>10, <1>11 DEF ProcessRequests

LEMMA ProcessResultQueueType == ASSUME TypeInv, ProcessResultQueue PROVE TypeInv'
  <1> USE DatabaseAssumption
  <1> USE DEF TypeInv, TypeOK
  <1>1. ASSUME ResultType', HistoryType', running' = running, sqlQueue' \in Seq(Operation),
               UNCHANGED <<issuing, queueMutex, worker, connMutex, db>>
        PROVE  TypeInv'
    BY <1>1 DEF IssuingType, QueueType, WorkerType, WorkerShape, issuing, worker
  <1>2. CASE BeginUpdate
    <2>1. ResultType' /\ HistoryType' /\ sqlQueue' \in Seq(Operation)
      BY <1>2 DEF BeginUpdate, ResultType, HistoryType, QueueType, history
    <2> QED
      BY <1>1, <1>2, <2>1 DEF BeginUpdate
  <1>3. CASE RunCallback
    <2>1. resultQueue' \in Seq(Result)
      BY <1>3, HeadTailProperties DEF RunCallback, ResultType
    <2>2. ResultType' /\ HistoryType' /\ sqlQueue' \in Seq(Operation)
      BY <1>3, <2>1 DEF RunCallback, ResultType, HistoryType, QueueType
    <2> QED
      BY <1>1, <1>3, <2>2 DEF RunCallback
  <1>4. CASE CallbackDelays
    <2>1. sqlQueue' \in Seq(Operation) /\ HistoryType'
      <3>1. CASE DelayOp("plain", 1)
        BY <3>1, DelayOpType
      <3>2. CASE DelayOp("query", 1)
        BY <3>2, DelayOpType
      <3>3. CASE UNCHANGED <<sqlQueue, history>>
        BY <3>3 DEF QueueType, HistoryType, history
      <3> QED
        BY <1>4, <3>1, <3>2, <3>3 DEF CallbackDelays
    <2>2. ResultType'
      BY <1>4 DEF CallbackDelays, ResultType
    <2> QED
      BY <1>1, <1>4, <2>1, <2>2 DEF CallbackDelays
  <1>5. CASE EndUpdate
    <2>1. ResultType' /\ HistoryType' /\ sqlQueue' \in Seq(Operation)
      BY <1>5 DEF EndUpdate, ResultType, HistoryType, QueueType, history
    <2> QED
      BY <1>1, <1>5, <2>1 DEF EndUpdate
  <1> QED
    BY <1>2, <1>3, <1>4, <1>5 DEF ProcessResultQueue

\* What a restart writes down for the operations that went down with the process.
LEMMA LostFates ==
  ASSUME NEW n \in Int
  PROVE  /\ [i \in 1 .. n |-> [outcome |-> "lost", writes |-> 0]] \in Seq(Fate)
         /\ n \in Nat => Len([i \in 1 .. n |-> [outcome |-> "lost", writes |-> 0]]) = n
         /\ \A i \in 1 .. n : [k \in 1 .. n |-> [outcome |-> "lost", writes |-> 0]][i].writes = 0
  <1> DEFINE lost == [outcome |-> "lost", writes |-> 0]
             m == IF n \in Nat THEN n ELSE 0
             s == [i \in 1 .. n |-> lost]
  <1>1. m \in Nat /\ 1 .. n = 1 .. m
    OBVIOUS
  <1>2. lost \in Fate
    BY DEF Fate
  <1>3. s \in [1 .. m -> Fate]
    BY <1>1, <1>2
  <1>4. s \in UNION {[1 .. k -> Fate] : k \in Nat}
    BY <1>1, <1>3, Zenon
  <1>5. s \in Seq(Fate)
    BY <1>4, SeqDef, Zenon
  <1>6. DOMAIN s = 1 .. Len(s) /\ Len(s) \in Nat
    BY <1>5, LenProperties
  <1>7. n \in Nat => Len(s) = n
    BY <1>6
  <1> QED
    BY <1>5, <1>7

LEMMA RestartType == ASSUME TypeInv, Restart PROVE TypeInv'
  <1> USE DatabaseAssumption
  <1>1. \A S : <<>> \in Seq(S)
    BY EmptySeq
  <1>2. IssuingType'
    <2>1. async' \in BOOLEAN /\ txnOpen' \in [Threads -> BOOLEAN]
      BY Zenon DEF Restart
    <2>2. txnParts' \in [Threads -> 0 .. MaxParts]
      BY DEF Restart
    <2> QED
      BY <2>1, <2>2 DEF IssuingType
  <1>3. QueueType'
    BY <1>1, Zenon DEF Restart, QueueType
  <1>4. WorkerType'
    BY <1>1, Zenon DEF Restart, TypeInv, TypeOK, WorkerType
  <1>5. ResultType'
    BY <1>1 DEF Restart, ResultType
  <1>6. HistoryType'
    <2>1. accepted - Len(fate) \in Int /\ fate \in Seq(Fate)
      BY LenProperties DEF TypeInv, TypeOK, HistoryType
    <2>2. fate' \in Seq(Fate)
      BY <2>1, LostFates, ConcatProperties DEF Restart
    <2> QED
      BY <2>2 DEF Restart, TypeInv, TypeOK, HistoryType
  <1>7. WorkerShape'
    BY DEF Restart, WorkerShape, Free, Worker
  <1> QED
    BY <1>2, <1>3, <1>4, <1>5, <1>6, <1>7 DEF TypeInv, TypeOK

LEMMA NextTypeInv == TypeInv /\ [Next]_vars => TypeInv'
  <1> SUFFICES ASSUME TypeInv, [Next]_vars PROVE TypeInv'
    OBVIOUS
  <1> USE DEF TypeInv, TypeOK
  <1>1. ASSUME NEW t \in Threads, Issue(t) PROVE TypeInv'
    BY <1>1, IssueType
  <1>2. CASE AllowAsyncTransactions
    <2>1. async' \in BOOLEAN /\ txnOpen' = txnOpen /\ txnParts' = txnParts
      BY <1>2, Zenon DEF AllowAsyncTransactions
    <2>2. IssuingType'
      BY <2>1, Zenon DEF IssuingType
    <2> QED
      BY <1>2, <2>2 DEF AllowAsyncTransactions, QueueType, WorkerType, ResultType, HistoryType,
                        WorkerShape, worker, results, history
  <1>3. CASE Stop
    <2>1. QueueType'
      BY <1>3, Zenon DEF Stop, QueueType
    <2> QED
      BY <1>3, <2>1 DEF Stop, IssuingType, WorkerType, ResultType, HistoryType, WorkerShape,
                        issuing, worker, results, history
  <1>4. CASE UNCHANGED vars
    BY <1>4 DEF IssuingType, QueueType, WorkerType, ResultType, HistoryType, WorkerShape,
                vars, issuing, worker, results, history
  <1> QED
    BY <1>1, <1>2, <1>3, <1>4, ProcessRequestsType, ProcessResultQueueType, RestartType DEF Next

(***************************************************************************)
(* The state of the database layer always has its type, whatever the       *)
(* number of threads and operations.                                       *)
(***************************************************************************)
THEOREM TypeCorrect == Spec => []TypeOK
  <1>1. Spec => []TypeInv
    BY InitTypeInv, NextTypeInv, PTL DEF Spec
  <1> QED
    BY <1>1, PTL DEF TypeInv
-----------------------------------------------------------------------------
(***************************************************************************)
(* The pipeline: how each step changes the sequence of the unresolved      *)
(* operations.                                                             *)
(***************************************************************************)
LEMMA PipelineType ==
  ASSUME TypeInv
  PROVE  /\ cur \in Seq(Operation) /\ local \in Seq(Operation) /\ sqlQueue \in Seq(Operation)
         /\ cur \o local \in Seq(Operation) /\ Pipeline \in Seq(Operation)
  <1>1. cur \in Seq(Operation)
    <2>1. CASE cur = <<>>
      BY <2>1, EmptySeq
    <2>2. CASE cur # <<>>
      <3>1. PICK op \in Operation : cur = <<op>>
        BY <2>2 DEF TypeInv, TypeOK, WorkerType
      <3>2. <<op>> = Append(<<>>, op) /\ <<>> \in Seq(Operation)
        BY EmptySeq
      <3> QED
        BY <3>1, <3>2, AppendProperties
    <2> QED
      BY <2>1, <2>2
  <1>2. local \in Seq(Operation) /\ sqlQueue \in Seq(Operation)
    BY DEF TypeInv, TypeOK, WorkerType, QueueType
  <1>3. cur \o local \in Seq(Operation)
    BY <1>1, <1>2, ConcatProperties
  <1>4. Pipeline \in Seq(Operation)
    BY <1>2, <1>3, ConcatProperties DEF Pipeline
  <1> QED
    BY <1>1, <1>2, <1>3, <1>4

\* Delay puts the new operation at the end.
LEMMA PipelineDelay ==
  ASSUME TypeInv, NEW kind \in {"plain", "transaction", "query"}, NEW n \in 0 .. MaxParts,
         DelayOp(kind, n), UNCHANGED <<cur, local>>
  PROVE  LET op == [kind |-> kind, ticket |-> accepted + 1, parts |-> n]
         IN op \in Operation /\ Pipeline' = Append(Pipeline, op)
  <1> DEFINE op == [kind |-> kind, ticket |-> accepted + 1, parts |-> n]
             front == cur \o local
  <1>1. op \in Operation
    BY DatabaseAssumption DEF TypeInv, TypeOK, HistoryType, DelayOp, Operation
  <1>2. front \in Seq(Operation) /\ sqlQueue \in Seq(Operation) /\ Pipeline \in Seq(Operation)
    BY PipelineType
  <1>3. sqlQueue' = sqlQueue \o <<op>>
    BY <1>1, <1>2, AppendIsConcat DEF DelayOp
  <1>4. <<op>> \in Seq(Operation)
    <2>1. <<op>> = Append(<<>>, op) /\ <<>> \in Seq(Operation)
      BY EmptySeq
    <2> QED
      BY <1>1, <2>1, AppendProperties
  <1>5. Pipeline' = front \o (sqlQueue \o <<op>>)
    BY <1>3 DEF Pipeline
  <1>6. front \o (sqlQueue \o <<op>>) = (front \o sqlQueue) \o <<op>>
    BY <1>2, <1>4, ConcatAssociative
  <1>7. Pipeline' = Append(Pipeline, op)
    BY <1>1, <1>2, <1>5, <1>6, AppendIsConcat DEF Pipeline
  <1> QED
    BY <1>1, <1>7

\* Copying the queue and fetching an operation from the copy leave it as it is.
LEMMA PipelineMove == ASSUME TypeInv, MoveQueue PROVE Pipeline' = Pipeline
  <1>1. local = <<>> /\ cur' = cur /\ local' = sqlQueue /\ sqlQueue' = <<>> /\ cur = <<>>
    BY DEF TypeInv, WorkerShape, MoveQueue
  <1>2. Pipeline = sqlQueue
    BY <1>1, PipelineType, ConcatEmptySeq DEF Pipeline
  <1>3. Pipeline' = (<<>> \o sqlQueue) \o <<>>
    BY <1>1 DEF Pipeline
  <1>4. Pipeline' = sqlQueue
    BY <1>3, PipelineType, ConcatEmptySeq
  <1> QED
    BY <1>2, <1>4

LEMMA PipelineFetch == ASSUME TypeInv, Fetch PROVE Pipeline' = Pipeline
  <1>1. /\ cur = <<>> /\ local # <<>> /\ local \in Seq(Operation) /\ sqlQueue' = sqlQueue
        /\ cur' = <<Head(local)>> /\ local' = Tail(local)
    BY PipelineType DEF TypeInv, WorkerShape, Fetch
  <1>2. <<Head(local)>> \o Tail(local) = local
    <2>1. Head(local) \in Operation /\ Tail(local) \in Seq(Operation)
      BY <1>1, HeadTailProperties
    <2>2. <<Head(local)>> \in Seq(Operation)
      BY <2>1, EmptySeq, AppendProperties
    <2> DEFINE s == <<Head(local)>> \o Tail(local)
    <2>3. /\ s \in Seq(Operation) /\ Len(s) = Len(local)
          /\ \A i \in 1 .. Len(s) : s[i] = IF i <= 1 THEN Head(local) ELSE Tail(local)[i - 1]
      BY <1>1, <2>1, <2>2, HeadTailProperties, ConcatProperties, LenProperties
    <2>4. \A i \in 1 .. Len(s) : s[i] = local[i]
      BY <1>1, <2>3, HeadTailProperties, LenProperties
    <2> QED
      BY <1>1, <2>3, <2>4, SeqEqual
  <1>3. <<>> \o local = local
    BY <1>1, ConcatEmptySeq
  <1> QED
    BY <1>1, <1>2, <1>3 DEF Pipeline

\* Resolving removes the operation in execution, which is the first one.
LEMMA PipelineResolve ==
  ASSUME TypeInv, pc = "exec", cur' = <<>>, UNCHANGED <<local, sqlQueue>>
  PROVE  /\ Pipeline # <<>> /\ Head(Pipeline) = cur[1] /\ Pipeline' = Tail(Pipeline)
         /\ Pipeline' \in Seq(Operation)
         /\ Len(Pipeline') = Len(Pipeline) - 1
         /\ \A i \in 1 .. Len(Pipeline') : Pipeline'[i] = Pipeline[i + 1]
         /\ Pipeline[1] = cur[1]
  <1> DEFINE rest == local \o sqlQueue
  <1>1. /\ cur = <<cur[1]>> /\ cur[1] \in Operation /\ cur \in Seq(Operation) /\ Len(cur) = 1
        /\ local \in Seq(Operation) /\ sqlQueue \in Seq(Operation)
        /\ Pipeline \in Seq(Operation)
    BY CurType, PipelineType
  <1>2. rest \in Seq(Operation)
    BY <1>1, ConcatProperties
  <1>3. Pipeline = cur \o rest
    BY <1>1, ConcatAssociative DEF Pipeline
  <1>4. Pipeline' = rest
    BY <1>1, ConcatEmptySeq DEF Pipeline
  <1>5. /\ Len(Pipeline) = 1 + Len(rest) /\ Len(rest) \in Nat
        /\ \A i \in 1 .. 1 + Len(rest) : Pipeline[i] = IF i <= 1 THEN cur[i] ELSE rest[i - 1]
    <2> HIDE DEF rest
    <2>1. /\ Len(cur \o rest) = Len(cur) + Len(rest)
          /\ \A i \in 1 .. Len(cur) + Len(rest) :
                 (cur \o rest)[i] = IF i <= Len(cur) THEN cur[i] ELSE rest[i - Len(cur)]
      <3>1. cur \in Seq(Operation) /\ rest \in Seq(Operation)
        BY <1>1, <1>2, Zenon
      <3> QED
        BY <3>1, ConcatProperties
    <2>2. Len(rest) \in Nat
      BY <1>2, LenProperties
    <2> QED
      BY <1>1, <1>3, <2>1, <2>2
  <1>6. Pipeline # <<>> /\ Pipeline[1] = cur[1] /\ Head(Pipeline) = cur[1]
    <2> HIDE DEF rest
    <2>1. 1 \in 1 .. 1 + Len(rest) /\ Len(Pipeline) # 0
      BY <1>5
    <2>2. Pipeline[1] = cur[1]
      BY <1>5, <2>1
    <2>3. Pipeline # <<>>
      BY <1>1, <2>1, EmptySeq
    <2> QED
      BY <1>1, <2>2, <2>3
  <1>7. \A i \in 1 .. Len(rest) : rest[i] = Pipeline[i + 1]
    BY <1>5
  <1>8. Tail(Pipeline) = rest
    <2>1. /\ Tail(Pipeline) \in Seq(Operation) /\ Len(Tail(Pipeline)) = Len(rest)
          /\ \A i \in 1 .. Len(Tail(Pipeline)) : Tail(Pipeline)[i] = Pipeline[i + 1]
      BY <1>1, <1>5, <1>6, HeadTailProperties
    <2> QED
      BY <1>2, <1>7, <2>1, SeqEqual
  <1> QED
    BY <1>2, <1>4, <1>5, <1>6, <1>7, <1>8
-----------------------------------------------------------------------------
(***************************************************************************)
(* Seen through the pipeline, the database and the tickets, every step is  *)
(* of one of five kinds.                                                   *)
(***************************************************************************)
Delayed ==
    \E op \in Operation :
        /\ op.ticket = accepted + 1
        /\ Pipeline' = Append(Pipeline, op)
        /\ accepted' = accepted + 1
        /\ UNCHANGED <<db, fate>>
Directed ==
    \E n \in 0 .. MaxParts :
        /\ db' = db \o [i \in 1 .. n |-> Direct]
        /\ UNCHANGED <<Pipeline, accepted, fate>>
Resolved ==
    /\ Pipeline # <<>> /\ Pipeline' = Tail(Pipeline)
    /\ accepted' = accepted
    /\ \E f \in Fate :
        /\ fate' = Append(fate, f)
        /\ \/ db' = db /\ f.writes = 0
           \/ db' = db \o Log!Effect(Head(Pipeline)) /\ f.writes = Len(Log!Effect(Head(Pipeline)))
Restarted ==
    /\ Pipeline' = <<>>
    /\ fate' = fate \o [i \in 1 .. accepted - Len(fate) |-> [outcome |-> "lost", writes |-> 0]]
    /\ UNCHANGED <<db, accepted>>
Still == UNCHANGED <<Pipeline, db, accepted, fate>>

StepKind == Delayed \/ Directed \/ Resolved \/ Restarted \/ Still

LEMMA EffectType ==
  ASSUME NEW op \in Operation
  PROVE  /\ Log!Effect(op) = IF op.kind = "query" THEN <<>> ELSE Stmts(op)
         /\ Log!Effect(op) \in Seq(Statement)
         /\ Len(Log!Effect(op)) = IF op.kind = "query" THEN 0 ELSE op.parts
         /\ \A i \in 1 .. Len(Log!Effect(op)) :
                Log!Effect(op)[i] = [ticket |-> op.ticket, part |-> i]
  <1>1. op.ticket \in Nat /\ op.parts \in Nat
    BY DatabaseAssumption DEF Operation
  <1>2. Log!Effect(op) = IF op.kind = "query" THEN <<>> ELSE Stmts(op)
    BY DEF Log!Effect, Stmts
  <1>3. Stmts(op) \in [1 .. op.parts -> Statement]
    BY <1>1 DEF Stmts, Statement
  <1>4. Stmts(op) \in Seq(Statement)
    BY <1>1, <1>3, SeqDef
  <1>5. Len(Stmts(op)) = op.parts
    BY <1>1, <1>4, LenProperties DEF Stmts
  <1>6. \A i \in 1 .. op.parts : Stmts(op)[i] = [ticket |-> op.ticket, part |-> i]
    BY DEF Stmts
  <1> QED
    BY <1>2, <1>4, <1>5, <1>6, EmptySeq

LEMMA DelayKind ==
  ASSUME TypeInv, NEW kind \in {"plain", "transaction", "query"}, NEW n \in 0 .. MaxParts,
         DelayOp(kind, n), UNCHANGED <<cur, local, db>>
  PROVE  Delayed
  <1> DEFINE op == [kind |-> kind, ticket |-> accepted + 1, parts |-> n]
  <1>1. op \in Operation /\ Pipeline' = Append(Pipeline, op)
    BY PipelineDelay
  <1>2. op.ticket = accepted + 1 /\ accepted' = accepted + 1 /\ fate' = fate /\ db' = db
    BY DEF DelayOp
  <1> QED
    BY <1>1, <1>2 DEF Delayed

LEMMA DirectKind ==
  ASSUME TypeInv, NEW n \in 0 .. MaxParts, NEW stmts, stmts = [i \in 1 .. n |-> Direct],
         DirectOnConn(stmts)
  PROVE  Directed
  <1>1. stmts \in Seq({Direct})
    BY DirectSeq, DatabaseAssumption
  <1>2. db' = db \o [i \in 1 .. n |-> Direct]
    BY <1>1, DirectType
  <1>3. UNCHANGED <<Pipeline, accepted, fate>>
    BY DEF DirectOnConn, Pipeline
  <1> QED
    BY <1>2, <1>3 DEF Directed

LEMMA RefuseKind == ASSUME TypeInv, pc = "exec", Refuse PROVE Resolved
  <1> DEFINE f == [outcome |-> "refused", writes |-> 0]
  <1>1. f \in Fate /\ f.writes = 0
    BY DEF Fate
  <1>2. fate' = Append(fate, f) /\ db' = db /\ accepted' = accepted
    BY DEF Refuse, Resolve
  <1>3. Pipeline # <<>> /\ Pipeline' = Tail(Pipeline)
    BY PipelineResolve DEF Refuse, Resolve
  <1> QED
    BY <1>1, <1>2, <1>3 DEF Resolved

LEMMA ResolveKind ==
  ASSUME TypeInv, pc = "exec", NEW n \in Nat, Resolve("executed", n),
         n = Len(Log!Effect(cur[1])), db' = db \o Log!Effect(cur[1])
  PROVE  Resolved
  <1> DEFINE f == [outcome |-> "executed", writes |-> n]
  <1>1. f \in Fate /\ f.writes = n
    BY DEF Fate
  <1>2. fate' = Append(fate, f) /\ accepted' = accepted
    BY DEF Resolve
  <1>3. Pipeline # <<>> /\ Pipeline' = Tail(Pipeline) /\ Head(Pipeline) = cur[1]
    BY PipelineResolve DEF Resolve
  <1> QED
    BY <1>1, <1>2, <1>3 DEF Resolved

LEMMA IssueKind == ASSUME TypeInv, NEW t \in Threads, Issue(t) PROVE StepKind
  <1> USE DatabaseAssumption
  <1>1. CASE BeginTransaction(t) \/ ExecuteInTransaction(t) \/ RollbackTransaction(t)
    BY <1>1 DEF BeginTransaction, ExecuteInTransaction, RollbackTransaction, worker, history,
                Pipeline, Still, StepKind
  <1>2. CASE ExecuteAsync(t)
    BY <1>2, DelayKind DEF ExecuteAsync, worker, StepKind
  <1>3. CASE DirectExecute(t)
    <2>1. <<>> = [i \in 1 .. 0 |-> Direct] /\ <<Direct>> = [i \in 1 .. 1 |-> Direct]
      OBVIOUS
    <2>2. PICK stmts \in {<<Direct>>, <<>>} : DirectOnConn(stmts)
      BY <1>3 DEF DirectExecute
    <2>3. stmts = [i \in 1 .. 1 |-> Direct] \/ stmts = [i \in 1 .. 0 |-> Direct]
      BY <2>1, <2>2, Zenon
    <2>4. 0 \in 0 .. MaxParts /\ 1 \in 0 .. MaxParts
      OBVIOUS
    <2> QED
      BY <2>2, <2>3, <2>4, DirectKind DEF StepKind
  <1>4. CASE CommitTransaction(t)
    <2>1. txnParts[t] \in 0 .. MaxParts
      BY DEF TypeInv, TypeOK, IssuingType
    <2> QED
      BY <1>4, <2>1, DelayKind DEF CommitTransaction, worker, StepKind
  <1>5. CASE CommitTransactionDirect(t)
    <2>1. txnParts[t] \in 0 .. MaxParts
      BY DEF TypeInv, TypeOK, IssuingType
    <2>2. <<>> = [i \in 1 .. 0 |-> Direct]
      OBVIOUS
    <2>3. PICK stmts \in {[i \in 1 .. txnParts[t] |-> Direct], <<>>} : DirectOnConn(stmts)
      BY <1>5 DEF CommitTransactionDirect
    <2>4. stmts = [i \in 1 .. txnParts[t] |-> Direct] \/ stmts = [i \in 1 .. 0 |-> Direct]
      BY <2>2, <2>3, Zenon
    <2>5. 0 \in 0 .. MaxParts
      OBVIOUS
    <2> QED
      BY <2>1, <2>3, <2>4, <2>5, DirectKind DEF StepKind
  <1>6. CASE AsyncQuery(t)
    <2>1. PICK n \in 1 .. MaxParts : DelayOp("query", n)
      BY <1>6 DEF AsyncQuery
    <2> QED
      BY <1>6, <2>1, DelayKind DEF AsyncQuery, worker, StepKind
  <1> QED
    BY <1>1, <1>2, <1>3, <1>4, <1>5, <1>6 DEF Issue

LEMMA ProcessRequestsKind == ASSUME TypeInv, ProcessRequests PROVE StepKind
  <1> USE DatabaseAssumption
  <1>1. CASE CheckRunning \/ LockQueue \/ LocalQueueEmpty \/ ExecuteQuery
    BY <1>1 DEF CheckRunning, LockQueue, LocalQueueEmpty, ExecuteQuery, history, Pipeline,
                Still, StepKind
  <1>2. CASE MoveQueue
    BY <1>2, PipelineMove DEF MoveQueue, history, Still, StepKind
  <1>3. CASE Fetch
    BY <1>3, PipelineFetch DEF Fetch, history, Still, StepKind
  <1>4. CASE ExecutePlain
    <2>1. pc = "exec" /\ cur[1].kind = "plain" /\ cur[1] \in Operation
      BY <1>4, CurType DEF ExecutePlain
    <2>2. Log!Effect(cur[1]) = Stmts(cur[1]) /\ Len(Log!Effect(cur[1])) = cur[1].parts
      BY <2>1, EffectType
    <2>3. cur[1].parts \in Nat
      BY <2>1 DEF Operation
    <2> QED
      BY <1>4, <2>1, <2>2, <2>3, RefuseKind, ResolveKind DEF ExecutePlain, StepKind
  <1>5. CASE ExecuteStatement
    BY <1>5, RefuseKind DEF ExecuteStatement, history, Pipeline, Still, StepKind
  <1>6. CASE Commit
    <2>1. pc = "exec" /\ cur[1].kind = "transaction" /\ cur[1] \in Operation /\ cur # <<>>
      BY <1>6, CurType DEF Commit
    <2>2. Log!Effect(cur[1]) = Stmts(cur[1]) /\ Len(Log!Effect(cur[1])) = cur[1].parts
      BY <2>1, EffectType
    <2>3. cur[1].parts \in Nat
      BY <2>1 DEF Operation
    <2>4. uncommitted \in Seq(Statement) /\ Len(uncommitted) \in Nat
      BY LenProperties DEF TypeInv, TypeOK, WorkerType
    <2>5. Len(uncommitted) = cur[1].parts
      BY <1>6, <2>1, <2>3, <2>4 DEF Commit, TypeInv, WorkerShape
    <2>6. \A i \in 1 .. Len(uncommitted) : uncommitted[i] = Log!Effect(cur[1])[i]
      <3>1. \A i \in 1 .. Len(uncommitted) :
                uncommitted[i] = [ticket |-> cur[1].ticket, part |-> i]
        BY <2>1 DEF TypeInv, WorkerShape
      <3>2. \A i \in 1 .. cur[1].parts :
                Log!Effect(cur[1])[i] = [ticket |-> cur[1].ticket, part |-> i]
        BY <2>2 DEF Stmts
      <3> QED
        BY <2>5, <3>1, <3>2
    <2>7. uncommitted = Log!Effect(cur[1])
      BY <2>1, <2>2, <2>4, <2>5, <2>6, EffectType, SeqEqual
    <2> QED
      BY <1>6, <2>1, <2>2, <2>3, <2>7, RefuseKind, ResolveKind DEF Commit, StepKind
  <1>7. CASE Publish
    <2>1. pc = "exec" /\ cur[1].kind = "query" /\ cur[1] \in Operation
      BY <1>7, CurType DEF Publish
    <2>2. Log!Effect(cur[1]) = <<>> /\ Len(Log!Effect(cur[1])) = 0
      BY <2>1, EffectType
    <2>3. db' = db \o <<>>
      BY <1>7, ConcatEmptySeq DEF Publish, TypeInv, TypeOK, WorkerType
    <2> QED
      BY <1>7, <2>1, <2>2, <2>3, ResolveKind DEF Publish, StepKind
  <1> QED
    BY <1>1, <1>2, <1>3, <1>4, <1>5, <1>6, <1>7 DEF ProcessRequests

LEMMA NextKind == ASSUME TypeInv, [Next]_vars PROVE StepKind
  <1> USE DatabaseAssumption
  <1>1. CASE AllowAsyncTransactions \/ Stop \/ UNCHANGED vars
    BY <1>1 DEF AllowAsyncTransactions, Stop, vars, worker, history, Pipeline, Still, StepKind
  <1>2. CASE BeginUpdate \/ RunCallback \/ EndUpdate
    BY <1>2 DEF BeginUpdate, RunCallback, EndUpdate, worker, history, Pipeline, Still, StepKind
  <1>3. CASE CallbackDelays
    <2>1. CASE DelayOp("plain", 1) \/ DelayOp("query", 1)
      BY <1>3, <2>1, DelayKind DEF CallbackDelays, worker, StepKind
    <2>2. CASE UNCHANGED <<sqlQueue, history>>
      BY <1>3, <2>2 DEF CallbackDelays, worker, history, Pipeline, Still, StepKind
    <2> QED
      BY <1>3, <2>1, <2>2 DEF CallbackDelays
  <1>4. CASE Restart
    <2>1. Pipeline' = (<<>> \o <<>>) \o <<>>
      BY <1>4 DEF Restart, Pipeline
    <2>2. Pipeline' = <<>>
      BY <2>1, ConcatEmptySeq, EmptySeq
    <2> QED
      BY <1>4, <2>2 DEF Restart, Restarted, StepKind
  <1> QED
    BY <1>1, <1>2, <1>3, <1>4, IssueKind, ProcessRequestsKind DEF Next, ProcessResultQueue

(***************************************************************************)
(* The layer implements the write-behind log: what a thread hands in takes *)
(* effect in order, each operation entirely or not at all, and a crash     *)
(* only cuts off the end.                                                  *)
(***************************************************************************)
THEOREM Refinement == Spec => ImplementsLog
  <1> USE DatabaseAssumption
  <1>1. Init => Log!LogInit
    <2> SUFFICES ASSUME Init PROVE Log!LogInit
      OBVIOUS
    <2>1. Pipeline = (<<>> \o <<>>) \o <<>> /\ db = <<>>
      BY DEF Init, Pipeline
    <2>2. Pipeline = <<>>
      BY <2>1, ConcatEmptySeq, EmptySeq
    <2> QED
      BY <2>1, <2>2 DEF Log!LogInit
  <1>2. TypeInv /\ [Next]_vars => [Log!LogNext]_<<Pipeline, db>>
    <2> SUFFICES ASSUME TypeInv, [Next]_vars PROVE [Log!LogNext]_<<Pipeline, db>>
      OBVIOUS
    <2>1. CASE Delayed
      BY <2>1 DEF Delayed, Log!Accept, Log!LogNext
    <2>2. CASE Directed
      BY <2>2 DEF Directed, Log!ExecuteDirectly, Log!LogNext, Direct, Log!Direct
    <2>3. CASE Resolved
      BY <2>3 DEF Resolved, Log!Apply, Log!Drop, Log!LogNext
    <2>4. CASE Restarted
      BY <2>4 DEF Restarted, Log!LoseTail, Log!LogNext
    <2>5. CASE Still
      BY <2>5 DEF Still
    <2> QED
      BY <2>1, <2>2, <2>3, <2>4, <2>5, NextKind DEF StepKind
  <1> QED
    BY <1>1, <1>2, InitTypeInv, NextTypeInv, PTL DEF Spec, ImplementsLog, Log!LogSpec
-----------------------------------------------------------------------------
(***************************************************************************)
(* Order and atomicity.  The invariants need one more: nothing that is not *)
(* resolved has touched the database.                                      *)
(***************************************************************************)
DurableIsResolved ==
    \A i \in 1 .. Len(db) : db[i] # Direct => db[i].ticket \in 1 .. Len(fate)

OrderInv == NoneLostOrOvertaken /\ DurableIsResolved /\ DurableInOrder

LEMMA Lengths ==
  ASSUME TypeInv
  PROVE  /\ Len(db) \in Nat /\ Len(fate) \in Nat /\ Len(Pipeline) \in Nat
         /\ db \in Seq(Statement) /\ fate \in Seq(Fate) /\ accepted \in Nat
         /\ \A i \in 1 .. Len(db) :
                db[i] \in Statement /\ db[i].ticket \in Nat /\ db[i].part \in Nat
  <1>1. db \in Seq(Statement) /\ fate \in Seq(Fate) /\ accepted \in Nat
    BY DEF TypeInv, TypeOK, WorkerType, HistoryType
  <1>2. Pipeline \in Seq(Operation)
    BY PipelineType
  <1>3. \A i \in 1 .. Len(db) : db[i] \in Statement
    BY <1>1, ElementOfSeq
  <1> QED
    BY <1>1, <1>2, <1>3, LenProperties DEF Statement

LEMMA QueueOrderStep ==
  ASSUME TypeInv, NoneLostOrOvertaken, StepKind
  PROVE  NoneLostOrOvertaken'
  <1>1. Pipeline \in Seq(Operation) /\ fate \in Seq(Fate) /\ accepted \in Nat
    BY PipelineType, Lengths
  <1>2. CASE Delayed
    <2>1. PICK op \in Operation :
              /\ op.ticket = accepted + 1 /\ Pipeline' = Append(Pipeline, op)
              /\ accepted' = accepted + 1 /\ fate' = fate
      BY <1>2 DEF Delayed
    <2>2. /\ Len(Pipeline') = Len(Pipeline) + 1 /\ Pipeline'[Len(Pipeline) + 1] = op
          /\ \A i \in 1 .. Len(Pipeline) : Pipeline'[i] = Pipeline[i]
      BY <1>1, <2>1, AppendProperties
    <2>3. Len(Pipeline) \in Nat /\ Len(fate) \in Nat /\ Len(Pipeline) = accepted - Len(fate)
      BY Lengths DEF NoneLostOrOvertaken
    <2>4. ASSUME NEW i \in 1 .. Len(Pipeline') PROVE Pipeline'[i].ticket = Len(fate') + i
      <3>1. CASE i = Len(Pipeline) + 1
        BY <1>1, <2>1, <2>2, <2>3, <3>1
      <3>2. CASE i \in 1 .. Len(Pipeline)
        BY <2>1, <2>2, <3>2 DEF NoneLostOrOvertaken
      <3> QED
        BY <2>2, <2>3, <3>1, <3>2
    <2>5. Len(Pipeline') = accepted' - Len(fate')
      BY <1>1, <2>1, <2>2, <2>3
    <2> QED
      BY <2>4, <2>5 DEF NoneLostOrOvertaken
  <1>3. CASE Resolved
    <2>1. /\ Len(Pipeline') = Len(Pipeline) - 1
          /\ \A i \in 1 .. Len(Pipeline') : Pipeline'[i] = Pipeline[i + 1]
      BY <1>1, <1>3, HeadTailProperties DEF Resolved
    <2>2. Len(fate') = Len(fate) + 1 /\ accepted' = accepted
      BY <1>1, <1>3, AppendProperties DEF Resolved
    <2>3. Len(Pipeline) \in Nat /\ Len(fate) \in Nat /\ Len(Pipeline) = accepted - Len(fate)
      BY Lengths DEF NoneLostOrOvertaken
    <2>4. ASSUME NEW i \in 1 .. Len(Pipeline') PROVE Pipeline'[i].ticket = Len(fate') + i
      <3>1. i + 1 \in 1 .. Len(Pipeline) /\ i \in Int
        BY <2>1, <2>3
      <3>2. Pipeline[i + 1].ticket = Len(fate) + (i + 1)
        BY <3>1 DEF NoneLostOrOvertaken
      <3> QED
        BY <2>1, <2>2, <2>3, <3>1, <3>2
    <2>5. Len(Pipeline') = accepted' - Len(fate')
      BY <1>1, <2>1, <2>2, <2>3
    <2> QED
      BY <2>4, <2>5 DEF NoneLostOrOvertaken
  <1>4. CASE Restarted
    <2>1. accepted - Len(fate) \in Nat
      BY Lengths DEF NoneLostOrOvertaken
    <2>2. Len(fate') = Len(fate) + (accepted - Len(fate))
      BY <1>1, <1>4, <2>1, LostFates, ConcatProperties DEF Restarted
    <2>3. Len(Pipeline') = 0 /\ accepted' = accepted
      BY <1>4 DEF Restarted
    <2> QED
      BY <2>1, <2>2, <2>3, Lengths DEF NoneLostOrOvertaken
  <1>5. CASE Directed \/ Still
    BY <1>5 DEF Directed, Still, NoneLostOrOvertaken
  <1> QED
    BY <1>2, <1>3, <1>4, <1>5 DEF StepKind

\* The statements the next resolution may add.
LEMMA HeadEffect ==
  ASSUME TypeInv, NoneLostOrOvertaken, Pipeline # <<>>
  PROVE  /\ Head(Pipeline) \in Operation
         /\ Log!Effect(Head(Pipeline)) \in Seq(Statement)
         /\ \A i \in 1 .. Len(Log!Effect(Head(Pipeline))) :
                Log!Effect(Head(Pipeline))[i] = [ticket |-> Len(fate) + 1, part |-> i]
  <1>1. Pipeline \in Seq(Operation) /\ Head(Pipeline) \in Operation
    BY PipelineType, HeadTailProperties
  <1>2. Head(Pipeline) = Pipeline[1] /\ 1 \in 1 .. Len(Pipeline)
    BY <1>1, EmptySeq
  <1>3. Head(Pipeline).ticket = Len(fate) + 1
    BY <1>2 DEF NoneLostOrOvertaken
  <1> QED
    BY <1>1, <1>3, EffectType

LEMMA DurableOrderStep ==
  ASSUME TypeInv, OrderInv, StepKind
  PROVE  DurableIsResolved' /\ DurableInOrder'
  <1> USE DEF OrderInv
  <1>1. CASE db' = db
    <2>1. Len(fate') \in Nat /\ Len(fate') >= Len(fate)
      <3>1. CASE Resolved
        BY <3>1, Lengths, AppendProperties DEF Resolved
      <3>2. CASE Restarted
        BY <3>2, Lengths, LostFates, ConcatProperties DEF Restarted, NoneLostOrOvertaken
      <3>3. CASE Delayed \/ Directed \/ Still
        <4>1. fate' = fate
          BY <3>3 DEF Delayed, Directed, Still
        <4> QED
          BY <4>1, Lengths
      <3> QED
        BY <3>1, <3>2, <3>3 DEF StepKind
    <2> QED
      BY <1>1, <2>1, Lengths DEF DurableIsResolved, DurableInOrder
  <1>2. ASSUME NEW n \in 0 .. MaxParts, db' = db \o [i \in 1 .. n |-> Direct], fate' = fate
        PROVE  DurableIsResolved' /\ DurableInOrder'
    <2> DEFINE d == [i \in 1 .. n |-> Direct]
    <2>1. d \in Seq({Direct}) /\ {Direct} \subseteq Statement
      BY DirectSeq, DatabaseAssumption DEF Direct, Statement
    <2>2. d \in Seq(Statement)
      BY <2>1, SeqMonotonic
    <2>3. /\ Len(db') = Len(db) + Len(d) /\ Len(d) \in Nat
          /\ \A i \in 1 .. Len(db) + Len(d) :
                 db'[i] = IF i <= Len(db) THEN db[i] ELSE d[i - Len(db)]
      BY <1>2, <2>2, Lengths, ConcatProperties, LenProperties
    <2>4. \A i \in 1 .. Len(d) : d[i] = Direct
      BY <2>1, ElementOfSeq
    <2>5. \A i \in 1 .. Len(db') :
              IF i <= Len(db) THEN i \in 1 .. Len(db) /\ db'[i] = db[i] ELSE db'[i] = Direct
      BY <2>3, <2>4, Lengths
    <2> QED
      BY <1>2, <2>5, Lengths DEF DurableIsResolved, DurableInOrder
  <1>3. CASE Resolved /\ db' # db
    <2> DEFINE e == Log!Effect(Head(Pipeline))
    <2>1. db' = db \o e /\ Pipeline # <<>> /\ Len(fate') = Len(fate) + 1
      BY <1>3, Lengths, AppendProperties DEF Resolved
    <2>2. e \in Seq(Statement) /\ \A i \in 1 .. Len(e) : e[i] = [ticket |-> Len(fate) + 1, part |-> i]
      BY <2>1, HeadEffect
    <2>3. /\ Len(db') = Len(db) + Len(e) /\ Len(e) \in Nat
          /\ \A i \in 1 .. Len(db) + Len(e) :
                 db'[i] = IF i <= Len(db) THEN db[i] ELSE e[i - Len(db)]
      BY <2>1, <2>2, Lengths, ConcatProperties, LenProperties
    <2>4. \A i \in 1 .. Len(db') :
              IF i <= Len(db) THEN i \in 1 .. Len(db) /\ db'[i] = db[i]
              ELSE db'[i].ticket = Len(fate) + 1 /\ db'[i].part = i - Len(db)
      <3> SUFFICES ASSUME NEW i \in 1 .. Len(db')
                   PROVE  IF i <= Len(db) THEN i \in 1 .. Len(db) /\ db'[i] = db[i]
                          ELSE db'[i].ticket = Len(fate) + 1 /\ db'[i].part = i - Len(db)
        OBVIOUS
      <3>1. CASE i <= Len(db)
        BY <2>3, <3>1, Lengths
      <3>2. CASE ~(i <= Len(db))
        <4>1. i - Len(db) \in 1 .. Len(e) /\ db'[i] = e[i - Len(db)]
          BY <2>3, <3>2, Lengths
        <4>2. e[i - Len(db)] = [ticket |-> Len(fate) + 1, part |-> i - Len(db)]
          BY <2>2, <4>1
        <4> QED
          BY <3>2, <4>1, <4>2
      <3> QED
        BY <3>1, <3>2
    <2>5. DurableIsResolved'
      BY <2>1, <2>4, Lengths DEF DurableIsResolved
    <2>6. DurableInOrder'
      <3> SUFFICES ASSUME NEW i \in 1 .. Len(db'), NEW j \in 1 .. Len(db'),
                          i < j, db'[i] # Direct, db'[j] # Direct
                   PROVE  \/ db'[i].ticket < db'[j].ticket
                          \/ db'[i].ticket = db'[j].ticket /\ db'[i].part < db'[j].part
        BY DEF DurableInOrder
      <3>1. CASE j <= Len(db)
        BY <2>4, <3>1, Lengths DEF DurableInOrder
      <3>2. CASE i <= Len(db) /\ ~(j <= Len(db))
        <4>1. Len(fate) \in Nat
          BY Lengths
        <4>2. i \in 1 .. Len(db) /\ db'[i] = db[i]
          BY <2>4, <3>2
        <4>3. db'[i].ticket \in 1 .. Len(fate)
          BY <4>2 DEF DurableIsResolved
        <4>4. db'[j].ticket = Len(fate) + 1
          BY <2>4, <3>2
        <4> QED
          BY <4>1, <4>3, <4>4
      <3>3. CASE ~(i <= Len(db)) /\ ~(j <= Len(db))
        BY <2>3, <2>4, <3>3, Lengths
      <3> QED
        BY <2>3, <3>1, <3>2, <3>3, Lengths
    <2> QED
      BY <2>5, <2>6
  <1> QED
    BY <1>1, <1>2, <1>3 DEF StepKind, Delayed, Directed, Restarted, Still

LEMMA InitOrderInv == Init => OrderInv
  <1> SUFFICES ASSUME Init PROVE OrderInv
    OBVIOUS
  <1>1. Pipeline = (<<>> \o <<>>) \o <<>> /\ db = <<>> /\ fate = <<>> /\ accepted = 0
    BY DEF Init, Pipeline
  <1>2. Pipeline = <<>>
    BY <1>1, ConcatEmptySeq, EmptySeq
  <1>3. Len(db) = 0 /\ Len(fate) = 0 /\ Len(Pipeline) = 0
    BY <1>1, <1>2, EmptySeq
  <1>4. 1 .. Len(db) = {} /\ 1 .. Len(Pipeline) = {}
    BY <1>3
  <1>5. Len(Pipeline) = accepted - Len(fate)
    <2>1. accepted = 0
      BY DEF Init
    <2> QED
      BY <1>3, <2>1
  <1>6. NoneLostOrOvertaken
    BY <1>4, <1>5 DEF NoneLostOrOvertaken
  <1>7. DurableIsResolved /\ DurableInOrder
    BY <1>4, Zenon DEF DurableIsResolved, DurableInOrder
  <1> QED
    BY <1>6, <1>7 DEF OrderInv

(***************************************************************************)
(* No accepted operation is skipped, overtaken or executed twice, and the  *)
(* database always holds the operations in the order they were handed in.  *)
(***************************************************************************)
THEOREM OrderCorrect == Spec => [](NoneLostOrOvertaken /\ DurableInOrder)
  <1>1. TypeInv /\ OrderInv /\ [Next]_vars => OrderInv'
    BY NextKind, QueueOrderStep, DurableOrderStep DEF OrderInv
  <1>2. OrderInv => NoneLostOrOvertaken /\ DurableInOrder
    BY DEF OrderInv
  <1> QED
    BY <1>1, <1>2, InitTypeInv, NextTypeInv, InitOrderInv, PTL DEF Spec

\* The statements of operation n among the statements of two sequences.
LEMMA PartsOfConcat ==
  ASSUME NEW s \in Seq(Statement), NEW t \in Seq(Statement), NEW n \in Nat
  PROVE  PartsIn(s \o t, n) = PartsIn(s, n) \cup PartsIn(t, n)
  <1>1. /\ Len(s) \in Nat /\ Len(t) \in Nat /\ Len(s \o t) = Len(s) + Len(t)
        /\ \A i \in 1 .. Len(s) + Len(t) :
               (s \o t)[i] = IF i <= Len(s) THEN s[i] ELSE t[i - Len(s)]
    BY ConcatProperties, LenProperties
  <1>2. ASSUME NEW p \in PartsIn(s \o t, n) PROVE p \in PartsIn(s, n) \cup PartsIn(t, n)
    <2>1. PICK i \in 1 .. Len(s \o t) : (s \o t)[i].ticket = n /\ p = (s \o t)[i].part
      BY DEF PartsIn
    <2>2. CASE i <= Len(s)
      <3>1. i \in 1 .. Len(s) /\ s[i].ticket = n /\ p = s[i].part
        BY <1>1, <2>1, <2>2
      <3> QED
        BY <3>1 DEF PartsIn
    <2>3. CASE ~(i <= Len(s))
      <3>1. /\ i - Len(s) \in 1 .. Len(t)
            /\ t[i - Len(s)].ticket = n /\ p = t[i - Len(s)].part
        BY <1>1, <2>1, <2>3
      <3> QED
        BY <3>1 DEF PartsIn
    <2> QED
      BY <2>2, <2>3
  <1>3. ASSUME NEW p \in PartsIn(s, n) PROVE p \in PartsIn(s \o t, n)
    <2>1. PICK i \in 1 .. Len(s) : s[i].ticket = n /\ p = s[i].part
      BY DEF PartsIn
    <2>2. i \in 1 .. Len(s \o t) /\ (s \o t)[i] = s[i]
      BY <1>1
    <2> QED
      BY <2>1, <2>2 DEF PartsIn
  <1>4. ASSUME NEW p \in PartsIn(t, n) PROVE p \in PartsIn(s \o t, n)
    <2>1. PICK i \in 1 .. Len(t) : t[i].ticket = n /\ p = t[i].part
      BY DEF PartsIn
    <2>2. i + Len(s) \in 1 .. Len(s \o t) /\ (s \o t)[i + Len(s)] = t[i]
      <3>1. i + Len(s) \in 1 .. Len(s) + Len(t) /\ ~(i + Len(s) <= Len(s))
        BY <1>1
      <3>2. (i + Len(s)) - Len(s) = i
        BY <1>1
      <3> QED
        BY <1>1, <3>1, <3>2
    <2> QED
      BY <2>1, <2>2 DEF PartsIn
  <1> QED
    BY <1>2, <1>3, <1>4

\* What an operation that takes effect adds, and what a direct execution adds.
LEMMA PartsOfHead ==
  ASSUME TypeInv, NoneLostOrOvertaken, Pipeline # <<>>, NEW n \in Nat
  PROVE  PartsIn(Log!Effect(Head(Pipeline)), n) =
            IF n = Len(fate) + 1 THEN 1 .. Len(Log!Effect(Head(Pipeline))) ELSE {}
  <1> DEFINE e == Log!Effect(Head(Pipeline))
  <1>1. /\ \A i \in 1 .. Len(e) : e[i] = [ticket |-> Len(fate) + 1, part |-> i]
    BY HeadEffect
  <1> HIDE DEF e
  <1>2. \A i \in 1 .. Len(e) : e[i].ticket = Len(fate) + 1 /\ e[i].part = i
    <2> SUFFICES ASSUME NEW i \in 1 .. Len(e)
                 PROVE  e[i].ticket = Len(fate) + 1 /\ e[i].part = i
      OBVIOUS
    <2>1. e[i] = [ticket |-> Len(fate) + 1, part |-> i]
      BY <1>1
    <2> QED
      BY <2>1
  <1>3. PartsIn(e, n) = IF n = Len(fate) + 1 THEN 1 .. Len(e) ELSE {}
    BY <1>2 DEF PartsIn
  <1> QED
    BY <1>3 DEF e

LEMMA PartsOfDirect ==
  ASSUME NEW m \in Nat, NEW n \in Nat \ {0}
  PROVE  /\ [i \in 1 .. m |-> Direct] \in Seq(Statement)
         /\ PartsIn([i \in 1 .. m |-> Direct], n) = {}
  <1> DEFINE d == [i \in 1 .. m |-> Direct]
  <1>1. d \in Seq({Direct}) /\ {Direct} \subseteq Statement
    BY DirectSeq DEF Direct, Statement
  <1>2. d \in Seq(Statement)
    BY <1>1, SeqMonotonic
  <1>3. \A i \in 1 .. Len(d) : d[i].ticket = 0
    <2>1. \A i \in 1 .. Len(d) : d[i] = Direct
      BY <1>1, ElementOfSeq
    <2> QED
      BY <2>1 DEF Direct
  <1> HIDE DEF d
  <1>4. PartsIn(d, n) = {}
    BY <1>3 DEF PartsIn
  <1> QED
    BY <1>2, <1>4 DEF d

LEMMA AtomicStep ==
  ASSUME TypeInv, OrderInv, AllOrNothing, StepKind
  PROVE  AllOrNothing'
  <1> DEFINE Due(n) == IF n \in 1 .. Len(fate) THEN 1 .. fate[n].writes ELSE {}
  <1>1. /\ Len(fate) \in Nat /\ Len(Pipeline) \in Nat /\ accepted \in Nat
        /\ Len(Pipeline) = accepted - Len(fate)
        /\ db \in Seq(Statement) /\ fate \in Seq(Fate) /\ Pipeline \in Seq(Operation)
    BY Lengths, PipelineType DEF OrderInv, NoneLostOrOvertaken
  <1>2. \A n \in 1 .. accepted : PartsIn(db, n) = Due(n)
    BY DEF AllOrNothing
  <1>3. ASSUME NEW n \in Nat, n > Len(fate) PROVE PartsIn(db, n) = {}
    <2>1. \A i \in 1 .. Len(db) : db[i].ticket # n
      <3> SUFFICES ASSUME NEW i \in 1 .. Len(db), db[i].ticket = n PROVE FALSE
        OBVIOUS
      <3>1. db[i] # Direct
        BY <1>1, <1>3 DEF Direct
      <3>2. db[i].ticket \in 1 .. Len(fate)
        BY <3>1 DEF OrderInv, DurableIsResolved
      <3> QED
        BY <1>1, <1>3, <3>2
    <2> QED
      BY <2>1 DEF PartsIn
  <1> SUFFICES ASSUME NEW n \in 1 .. accepted'
               PROVE  PartsIn(db', n) =
                        IF n \in 1 .. Len(fate') THEN 1 .. fate'[n].writes ELSE {}
    BY DEF AllOrNothing
  <1>4. CASE Delayed
    <2>1. accepted' = accepted + 1 /\ db' = db /\ fate' = fate
      BY <1>4 DEF Delayed
    <2>2. PartsIn(db', n) = PartsIn(db, n)
      BY <2>1, Zenon
    <2>3. CASE n = accepted + 1
      <3>1. n \in Nat /\ n > Len(fate) /\ n \notin 1 .. Len(fate')
        BY <1>1, <2>1, <2>3
      <3> QED
        BY <1>3, <2>2, <3>1
    <2>4. CASE n \in 1 .. accepted
      BY <1>2, <2>1, <2>2, <2>4
    <2> QED
      BY <1>1, <2>1, <2>3, <2>4
  <1>5. CASE Directed
    <2>1. PICK m \in 0 .. MaxParts : db' = db \o [i \in 1 .. m |-> Direct]
      BY <1>5 DEF Directed
    <2>2. accepted' = accepted /\ fate' = fate /\ n \in Nat \ {0} /\ m \in Nat
      BY <1>1, <1>5, DatabaseAssumption DEF Directed
    <2> DEFINE d == [i \in 1 .. m |-> Direct]
    <2>3. d \in Seq(Statement) /\ PartsIn(d, n) = {}
      BY <2>2, PartsOfDirect
    <2>4. PartsIn(db', n) = PartsIn(db \o d, n)
      BY <2>1, Zenon
    <2> HIDE DEF d
    <2>5. PartsIn(db \o d, n) = PartsIn(db, n) \cup PartsIn(d, n)
      <3>1. db \in Seq(Statement) /\ d \in Seq(Statement) /\ n \in Nat
        BY <1>1, <2>2, <2>3
      <3> QED
        BY <3>1, PartsOfConcat, Zenon
    <2>6. PartsIn(db', n) = PartsIn(db, n)
      BY <2>3, <2>4, <2>5
    <2> QED
      BY <1>2, <2>2, <2>6
  <1>6. CASE Resolved
    <2> DEFINE e == Log!Effect(Head(Pipeline))
    <2>1. PICK f \in Fate : /\ fate' = Append(fate, f)
                            /\ \/ db' = db /\ f.writes = 0
                               \/ db' = db \o e /\ f.writes = Len(e)
      BY <1>6 DEF Resolved
    <2>2. Pipeline # <<>> /\ accepted' = accepted /\ n \in 1 .. accepted /\ n \in Nat
      BY <1>1, <1>6 DEF Resolved
    <2>3. /\ Len(fate') = Len(fate) + 1 /\ fate'[Len(fate) + 1] = f
          /\ \A i \in 1 .. Len(fate) : fate'[i] = fate[i]
      BY <1>1, <2>1, AppendProperties
    <2>4. e \in Seq(Statement)
      BY <2>2, HeadEffect DEF OrderInv
    <2>5. PartsIn(e, n) = IF n = Len(fate) + 1 THEN 1 .. Len(e) ELSE {}
      BY <2>2, PartsOfHead DEF OrderInv
    <2>6. PartsIn(db \o e, n) = PartsIn(db, n) \cup PartsIn(e, n)
      <3> HIDE DEF e
      <3>1. db \in Seq(Statement) /\ e \in Seq(Statement) /\ n \in Nat
        BY <1>1, <2>2, <2>4
      <3> QED
        BY <3>1, PartsOfConcat, Zenon
    <2> HIDE DEF e
    <2>7. \/ PartsIn(db', n) = PartsIn(db, n) /\ f.writes = 0
          \/ PartsIn(db', n) = PartsIn(db \o e, n) /\ f.writes = Len(e)
      BY <2>1, Zenon
    <2>8. CASE n = Len(fate) + 1
      <3>1. PartsIn(db, n) = {}
        BY <1>1, <1>3, <2>2, <2>8
      <3>2. PartsIn(db', n) = 1 .. f.writes
        <4>1. CASE PartsIn(db', n) = PartsIn(db, n) /\ f.writes = 0
          <5>1. 1 .. f.writes = {}
            BY <4>1
          <5> QED
            BY <3>1, <4>1, <5>1
        <4>2. CASE PartsIn(db', n) = PartsIn(db \o e, n) /\ f.writes = Len(e)
          BY <2>5, <2>6, <2>8, <3>1, <4>2
        <4> QED
          BY <2>7, <4>1, <4>2
      <3> QED
        BY <1>1, <2>3, <2>8, <3>2
    <2>9. CASE n # Len(fate) + 1
      <3>1. PartsIn(db', n) = PartsIn(db, n)
        BY <2>5, <2>6, <2>9, <2>7
      <3>2. PartsIn(db, n) = Due(n)
        BY <1>2, <2>2
      <3> QED
        BY <1>1, <2>2, <2>3, <2>9, <3>1, <3>2
    <2> QED
      BY <2>8, <2>9
  <1>7. CASE Restarted
    <2> DEFINE tail == [i \in 1 .. accepted - Len(fate) |-> [outcome |-> "lost", writes |-> 0]]
    <2>1. /\ tail \in Seq(Fate) /\ Len(tail) = accepted - Len(fate)
          /\ \A i \in 1 .. accepted - Len(fate) : tail[i].writes = 0
      BY <1>1, LostFates
    <2>2. fate' = fate \o tail /\ db' = db /\ accepted' = accepted
      BY <1>7 DEF Restarted
    <2> HIDE DEF tail
    <2>3. /\ Len(fate') = accepted
          /\ \A i \in 1 .. accepted :
                 fate'[i] = IF i <= Len(fate) THEN fate[i] ELSE tail[i - Len(fate)]
      BY <1>1, <2>1, <2>2, ConcatProperties
    <2>4. PartsIn(db', n) = PartsIn(db, n)
      BY <2>2, Zenon
    <2>5. CASE n <= Len(fate)
      <3>1. n \in 1 .. Len(fate) /\ n \in 1 .. accepted /\ n \in 1 .. Len(fate')
        BY <1>1, <2>2, <2>3, <2>5
      <3> QED
        BY <1>2, <2>3, <2>5, <2>4, <3>1
    <2>6. CASE ~(n <= Len(fate))
      <3>1. PartsIn(db', n) = {}
        <4>1. n \in Nat /\ n > Len(fate)
          BY <1>1, <2>2, <2>6
        <4> QED
          BY <1>3, <2>4, <4>1
      <3>2. n - Len(fate) \in 1 .. accepted - Len(fate)
        BY <1>1, <2>2, <2>6
      <3>3. fate'[n].writes = 0
        BY <1>1, <2>1, <2>2, <2>3, <2>6, <3>2
      <3> QED
        BY <2>2, <2>3, <3>1, <3>3
    <2> QED
      BY <2>5, <2>6
  <1>8. CASE Still
    BY <1>2, <1>8 DEF Still
  <1> QED
    BY <1>4, <1>5, <1>6, <1>7, <1>8 DEF StepKind

(***************************************************************************)
(* A transaction, or any other operation, is in the database entirely or   *)
(* not at all, whatever the database refuses and wherever the process dies.*)
(***************************************************************************)
THEOREM Atomic == Spec => []AllOrNothing
  <1>1. Init => AllOrNothing
    BY DEF Init, AllOrNothing
  <1>2. TypeInv /\ OrderInv /\ AllOrNothing /\ [Next]_vars => OrderInv' /\ AllOrNothing'
    BY NextKind, QueueOrderStep, DurableOrderStep, AtomicStep DEF OrderInv
  <1> QED
    BY <1>1, <1>2, InitTypeInv, NextTypeInv, InitOrderInv, PTL DEF Spec
-----------------------------------------------------------------------------
(***************************************************************************)
(* Shutdown.  Once the consumer is in its last round nobody hands anything *)
(* in any more: the threads have been joined, and the world thread left    *)
(* its tick before it stopped the database.                                *)
(***************************************************************************)
FlushInv ==
    /\ ~running => wpc = "tick"
    /\ final => ~running
    /\ final /\ pc \in {"next", "exec", "gone"} => sqlQueue = <<>>
    /\ pc = "gone" => final

LEMMA FlushStep == ASSUME TypeInv, FlushInv, [Next]_vars PROVE FlushInv'
  <1> USE DEF FlushInv
  <1>1. ASSUME NEW t \in Threads, Issue(t) PROVE FlushInv'
    <2>1. running /\ running' = running /\ wpc' = wpc
      BY <1>1 DEF Issue, MayIssue, BeginTransaction, ExecuteInTransaction, ExecuteAsync,
                  DirectExecute, CommitTransaction, CommitTransactionDirect, RollbackTransaction,
                  AsyncQuery, results
    <2>2. pc' = pc /\ final' = final
      BY <1>1 DEF Issue, BeginTransaction, ExecuteInTransaction, ExecuteAsync, DirectExecute,
                  DirectOnConn, CommitTransaction, CommitTransactionDirect, RollbackTransaction,
                  AsyncQuery, worker
    <2> QED
      BY <2>1, <2>2
  <1>2. CASE AllowAsyncTransactions \/ Stop \/ UNCHANGED vars
    BY <1>2 DEF AllowAsyncTransactions, Stop, vars, worker, results
  <1>3. CASE ProcessRequests
    <2>1. CASE CheckRunning
      BY <2>1, Zenon DEF CheckRunning, results
    <2>3. CASE LockQueue \/ Fetch \/ LocalQueueEmpty \/ ExecuteQuery
      <3>1. running' = running /\ sqlQueue' = sqlQueue /\ final' = final /\ wpc' = wpc
        BY <2>3 DEF LockQueue, Fetch, LocalQueueEmpty, ExecuteQuery, results
      <3>2. /\ pc' \in {"next", "exec"} => pc \in {"next", "exec"}
            /\ pc' = "gone" => pc = "next" /\ final
        BY <2>3 DEF LockQueue, Fetch, LocalQueueEmpty, ExecuteQuery
      <3> QED
        BY <3>1, <3>2
    <2>4. CASE MoveQueue
      <3>1. /\ running' = running /\ sqlQueue' = <<>> /\ final' = final /\ wpc' = wpc
            /\ pc' = "next"
        BY <2>4 DEF MoveQueue, results
      <3> QED
        BY <3>1
    <2>2. CASE ExecutePlain \/ ExecuteStatement \/ Commit \/ Publish
      <3>1. /\ running' = running /\ sqlQueue' = sqlQueue /\ final' = final /\ wpc' = wpc
            /\ pc = "exec" /\ pc' \in {"next", "exec"}
        BY <2>2 DEF ExecutePlain, ExecuteStatement, Commit, Publish, Refuse, Resolve, results
      <3> QED
        BY <3>1
    <2> QED
      BY <1>3, <2>1, <2>2, <2>3, <2>4 DEF ProcessRequests
  <1>4. CASE ProcessResultQueue
    <2>1. running /\ running' = running /\ pc' = pc /\ final' = final
      BY <1>4 DEF ProcessResultQueue, BeginUpdate, RunCallback, CallbackDelays, EndUpdate, worker
    <2> QED
      BY <2>1
  <1>5. CASE Restart
    BY <1>5 DEF Restart
  <1> QED
    BY <1>1, <1>2, <1>3, <1>4, <1>5 DEF Next

(***************************************************************************)
(* When the delay thread is gone, everything that was ever handed in has   *)
(* been executed or refused: a shutdown loses nothing.                     *)
(***************************************************************************)
THEOREM ShutdownFlushes == Spec => []HaltFlushesQueue
  <1>1. Init => FlushInv
    BY DEF Init, FlushInv
  <1>2. TypeInv /\ OrderInv /\ FlushInv => HaltFlushesQueue
    <2> SUFFICES ASSUME TypeInv, OrderInv, FlushInv, pc = "gone" PROVE Len(fate) = accepted
      BY DEF HaltFlushesQueue
    <2>1. cur = <<>> /\ local = <<>> /\ sqlQueue = <<>>
      BY DEF TypeInv, WorkerShape, FlushInv
    <2>2. Len(Pipeline) = 0
      BY <2>1, ConcatEmptySeq, EmptySeq DEF Pipeline
    <2> QED
      BY <2>2, Lengths DEF OrderInv, NoneLostOrOvertaken
  <1>3. TypeInv /\ OrderInv /\ [Next]_vars => OrderInv'
    BY NextKind, QueueOrderStep, DurableOrderStep DEF OrderInv
  <1> QED
    BY <1>1, <1>2, <1>3, InitTypeInv, NextTypeInv, InitOrderInv, FlushStep, PTL DEF Spec
-----------------------------------------------------------------------------
(***************************************************************************)
(* Queries.  A query of ticket t that saw the first n durable statements   *)
(* saw those of the operations before t and none of those after it.        *)
(***************************************************************************)
SawExactly(durable, t, n) ==
    /\ n \in 0 .. Len(durable)
    /\ \A i \in 1 .. Len(durable) : durable[i] # Direct => (i <= n <=> durable[i].ticket < t)

\* The operation in execution has the ticket Len(fate) + 1.
QueryInv ==
    /\ \A q \in 1 .. Len(seen) : SawExactly(db, Len(fate) + 1, seen[q])
    /\ \A k \in 1 .. Len(resultQueue) :
        /\ resultQueue[k].ticket \in 0 .. Len(fate)
        /\ \A q \in 1 .. Len(resultQueue[k].seen) :
               SawExactly(db, resultQueue[k].ticket, resultQueue[k].seen[q])

\* The database only grows, by direct statements and by those of the next ticket.
LEMMA Growth ==
  ASSUME TypeInv, OrderInv, StepKind
  PROVE  /\ Len(db') \in Nat /\ Len(db) <= Len(db')
         /\ \A i \in 1 .. Len(db') :
                IF i <= Len(db) THEN db'[i] = db[i]
                ELSE db'[i] = Direct \/ db'[i].ticket = Len(fate) + 1
  <1>1. CASE db' = db
    BY <1>1, Lengths
  <1>2. ASSUME NEW d \in Seq(Statement), db' = db \o d,
               \A i \in 1 .. Len(d) : d[i] = Direct \/ d[i].ticket = Len(fate) + 1
        PROVE  /\ Len(db') \in Nat /\ Len(db) <= Len(db')
               /\ \A i \in 1 .. Len(db') :
                      IF i <= Len(db) THEN db'[i] = db[i]
                      ELSE db'[i] = Direct \/ db'[i].ticket = Len(fate) + 1
    <2>1. /\ Len(db) \in Nat /\ Len(d) \in Nat /\ Len(db') = Len(db) + Len(d)
          /\ \A i \in 1 .. Len(db) + Len(d) :
                 db'[i] = IF i <= Len(db) THEN db[i] ELSE d[i - Len(db)]
      BY <1>2, Lengths, ConcatProperties, LenProperties
    <2>2. ASSUME NEW i \in 1 .. Len(db'), ~(i <= Len(db))
          PROVE  db'[i] = Direct \/ db'[i].ticket = Len(fate) + 1
      <3>1. i - Len(db) \in 1 .. Len(d) /\ db'[i] = d[i - Len(db)]
        BY <2>1, <2>2
      <3> QED
        BY <1>2, <3>1
    <2>3. ASSUME NEW i \in 1 .. Len(db'), i <= Len(db) PROVE db'[i] = db[i]
      BY <2>1, <2>3
    <2> QED
      BY <2>1, <2>2, <2>3
  <1>3. CASE Directed
    <2>1. PICK n \in 0 .. MaxParts : db' = db \o [i \in 1 .. n |-> Direct]
      BY <1>3 DEF Directed
    <2> DEFINE d == [i \in 1 .. n |-> Direct]
    <2>2. d \in Seq({Direct}) /\ {Direct} \subseteq Statement
      BY DirectSeq, DatabaseAssumption DEF Direct, Statement
    <2>3. d \in Seq(Statement) /\ \A i \in 1 .. Len(d) : d[i] = Direct
      BY <2>2, SeqMonotonic, ElementOfSeq
    <2> HIDE DEF d
    <2> QED
      BY <1>2, <2>1, <2>3 DEF d
  <1>4. CASE Resolved /\ db' # db
    <2> DEFINE e == Log!Effect(Head(Pipeline))
    <2>1. db' = db \o e /\ Pipeline # <<>>
      BY <1>4 DEF Resolved
    <2>2. e \in Seq(Statement) /\ \A i \in 1 .. Len(e) : e[i] = [ticket |-> Len(fate) + 1, part |-> i]
      BY <2>1, HeadEffect DEF OrderInv
    <2> HIDE DEF e
    <2>3. \A i \in 1 .. Len(e) : e[i].ticket = Len(fate) + 1
      <3> SUFFICES ASSUME NEW i \in 1 .. Len(e) PROVE e[i].ticket = Len(fate) + 1
        OBVIOUS
      <3>1. e[i] = [ticket |-> Len(fate) + 1, part |-> i]
        BY <2>2
      <3> QED
        BY <3>1
    <2> QED
      BY <1>2, <2>1, <2>2, <2>3
  <1> QED
    BY <1>1, <1>3, <1>4 DEF StepKind, Delayed, Restarted, Still

\* What a query saw stays right, whatever is executed after it.
LEMMA SawKept ==
  ASSUME TypeInv, OrderInv, StepKind
  PROVE  \A t \in 0 .. Len(fate) + 1, n \in Nat : SawExactly(db, t, n) => SawExactly(db', t, n)
  <1> SUFFICES ASSUME NEW t \in 0 .. Len(fate) + 1, NEW n \in Nat, SawExactly(db, t, n)
               PROVE  SawExactly(db', t, n)
    OBVIOUS
  <1>1. n <= Len(db) /\ Len(db) \in Nat /\ Len(fate) \in Nat
    BY Lengths DEF SawExactly
  <1>2. n \in 0 .. Len(db')
    BY <1>1, Growth
  <1>3. ASSUME NEW i \in 1 .. Len(db'), db'[i] # Direct PROVE i <= n <=> db'[i].ticket < t
    <2>1. CASE i <= Len(db)
      <3>1. i \in 1 .. Len(db) /\ db'[i] = db[i]
        BY <1>1, <2>1, Growth
      <3> QED
        BY <1>3, <3>1 DEF SawExactly
    <2>2. CASE ~(i <= Len(db))
      <3>1. db'[i].ticket = Len(fate) + 1
        BY <1>3, <2>2, Growth
      <3> QED
        BY <1>1, <2>2, <3>1
    <2> QED
      BY <2>1, <2>2
  <1> QED
    BY <1>2, <1>3 DEF SawExactly

\* The query in execution sees everything resolved so far, and only that.
LEMMA SeesResolved ==
  ASSUME TypeInv, OrderInv
  PROVE  SawExactly(db, Len(fate) + 1, Len(db))
  <1>1. Len(db) \in Nat /\ Len(fate) \in Nat
    BY Lengths
  <1>2. ASSUME NEW i \in 1 .. Len(db), db[i] # Direct
        PROVE  i <= Len(db) <=> db[i].ticket < Len(fate) + 1
    <2>1. db[i].ticket \in 1 .. Len(fate)
      BY <1>2 DEF OrderInv, DurableIsResolved
    <2> QED
      BY <1>1, <2>1
  <1> QED
    BY <1>1, <1>2 DEF SawExactly

(***************************************************************************)
(* Seen through the queries, every step is of one of five kinds.           *)
(***************************************************************************)
Aside ==
    /\ UNCHANGED <<seen, fate>>
    /\ resultQueue' = resultQueue \/ (resultQueue # <<>> /\ resultQueue' = Tail(resultQueue))
Read == UNCHANGED <<fate, db, resultQueue>> /\ seen' = Append(seen, Len(db))
Over == seen' = <<>> /\ Len(fate') = Len(fate) + 1 /\ resultQueue' = resultQueue
Answered ==
    /\ seen' = <<>> /\ Len(fate') = Len(fate) + 1
    /\ resultQueue' = Append(resultQueue, [ticket |-> Len(fate) + 1, seen |-> seen])
Forgotten == seen' = <<>> /\ resultQueue' = <<>>

QueryKind == Aside \/ Read \/ Over \/ Answered \/ Forgotten

LEMMA OverKind ==
  ASSUME TypeInv, NEW outcome \in {"executed", "refused"}, NEW n \in Nat, Resolve(outcome, n)
  PROVE  seen' = <<>> /\ Len(fate') = Len(fate) + 1
  <1>1. [outcome |-> outcome, writes |-> n] \in Fate /\ fate \in Seq(Fate)
    BY Lengths DEF Fate
  <1> QED
    BY <1>1, AppendProperties DEF Resolve

LEMMA NextQueryKind == ASSUME TypeInv, OrderInv, [Next]_vars PROVE QueryKind
  <1>1. ASSUME NEW t \in Threads, Issue(t) PROVE Aside
    <2>1. resultQueue' = resultQueue
      BY <1>1 DEF Issue, BeginTransaction, ExecuteInTransaction, ExecuteAsync, DirectExecute,
                  CommitTransaction, CommitTransactionDirect, RollbackTransaction, AsyncQuery,
                  results
    <2>2. seen' = seen /\ fate' = fate
      BY <1>1 DEF Issue, BeginTransaction, ExecuteInTransaction, ExecuteAsync, DirectExecute,
                  DirectOnConn, CommitTransaction, CommitTransactionDirect, RollbackTransaction,
                  AsyncQuery, DelayOp, worker, history
    <2> QED
      BY <2>1, <2>2 DEF Aside
  <1>2. CASE AllowAsyncTransactions \/ Stop \/ UNCHANGED vars
    BY <1>2 DEF AllowAsyncTransactions, Stop, vars, worker, results, history, Aside, QueryKind
  <1>3. CASE CheckRunning \/ LockQueue \/ MoveQueue \/ Fetch \/ LocalQueueEmpty
    BY <1>3 DEF CheckRunning, LockQueue, MoveQueue, Fetch, LocalQueueEmpty, results, history, Aside,
                QueryKind
  <1>4. CASE ExecuteQuery
    BY <1>4 DEF ExecuteQuery, results, history, Read, QueryKind
  <1>5. CASE ExecutePlain \/ ExecuteStatement \/ Commit
    <2>1. cur[1].parts \in Nat
      BY <1>5, CurType, DatabaseAssumption DEF ExecutePlain, ExecuteStatement, Commit, Operation
    <2>2. CASE \E outcome \in {"executed", "refused"}, n \in Nat :
                   Resolve(outcome, n) /\ resultQueue' = resultQueue
      BY <2>2, OverKind DEF Over, QueryKind
    <2>3. CASE UNCHANGED <<seen, results, history>>
      BY <2>3 DEF results, history, Aside, QueryKind
    <2> QED
      BY <1>5, <2>1, <2>2, <2>3 DEF ExecutePlain, ExecuteStatement, Commit, Refuse, results
  <1>6. CASE Publish
    <2>1. pc = "exec" /\ cur # <<>>
      BY <1>6, CurType DEF Publish
    <2>2. cur[1].ticket = Len(fate) + 1
      <3> DEFINE op == cur[1]
      <3>1. Pipeline # <<>> /\ Pipeline[1] = cur[1] /\ Pipeline \in Seq(Operation)
        BY <1>6, <2>1, PipelineType, PipelineResolve DEF Publish, Resolve
      <3>2. 1 \in 1 .. Len(Pipeline)
        BY <3>1, EmptySeq, LenProperties
      <3> QED
        BY <3>1, <3>2 DEF OrderInv, NoneLostOrOvertaken
    <2>3. Resolve("executed", 0)
          /\ resultQueue' = Append(resultQueue, [ticket |-> cur[1].ticket, seen |-> seen])
      BY <1>6 DEF Publish
    <2> QED
      BY <2>2, <2>3, OverKind DEF Answered, QueryKind
  <1>7. CASE ProcessResultQueue
    <2>1. /\ UNCHANGED <<seen, fate>>
          /\ resultQueue' = resultQueue \/ (resultQueue # <<>> /\ resultQueue' = Tail(resultQueue))
      BY <1>7 DEF ProcessResultQueue, BeginUpdate, RunCallback, CallbackDelays, EndUpdate, DelayOp,
                  worker, history
    <2> QED
      BY <2>1 DEF Aside, QueryKind
  <1>8. CASE Restart
    BY <1>8 DEF Restart, Forgotten, QueryKind
  <1> QED
    BY <1>1, <1>2, <1>3, <1>4, <1>5, <1>6, <1>7, <1>8 DEF Next, ProcessRequests, QueryKind

LEMMA QueryStep ==
  ASSUME TypeInv, OrderInv, QueryInv, StepKind, QueryKind
  PROVE  QueryInv'
  <1>1. /\ Len(fate) \in Nat /\ Len(db) \in Nat
        /\ seen \in Seq(Nat) /\ Len(seen) \in Nat
        /\ resultQueue \in Seq(Result) /\ Len(resultQueue) \in Nat
    BY Lengths, LenProperties DEF TypeInv, TypeOK, WorkerType, ResultType
  <1>2. \A q \in 1 .. Len(seen) : seen[q] \in Nat /\ SawExactly(db', Len(fate) + 1, seen[q])
    <2> SUFFICES ASSUME NEW q \in 1 .. Len(seen)
                 PROVE  seen[q] \in Nat /\ SawExactly(db', Len(fate) + 1, seen[q])
      OBVIOUS
    <2>1. seen[q] \in Nat
      BY <1>1, ElementOfSeq
    <2>2. SawExactly(db, Len(fate) + 1, seen[q])
      BY DEF QueryInv
    <2>3. Len(fate) + 1 \in 0 .. Len(fate) + 1
      BY <1>1
    <2> QED
      BY <2>1, <2>2, <2>3, SawKept
  <1>3. ASSUME NEW k \in 1 .. Len(resultQueue), Len(fate') \in Nat, Len(fate') >= Len(fate)
        PROVE  /\ resultQueue[k].ticket \in 0 .. Len(fate')
               /\ \A q \in 1 .. Len(resultQueue[k].seen) :
                      SawExactly(db', resultQueue[k].ticket, resultQueue[k].seen[q])
    <2>1. resultQueue[k] \in Result
      BY <1>1, ElementOfSeq
    <2>2. resultQueue[k].seen \in Seq(Nat)
      BY <2>1 DEF Result
    <2>3. resultQueue[k].ticket \in 0 .. Len(fate)
      BY DEF QueryInv
    <2>4. \A q \in 1 .. Len(resultQueue[k].seen) : resultQueue[k].seen[q] \in Nat
      BY <2>2, ElementOfSeq
    <2>5. \A q \in 1 .. Len(resultQueue[k].seen) :
              SawExactly(db', resultQueue[k].ticket, resultQueue[k].seen[q])
      <3>1. resultQueue[k].ticket \in 0 .. Len(fate) + 1
        BY <1>1, <2>3
      <3>2. \A q \in 1 .. Len(resultQueue[k].seen) :
                SawExactly(db, resultQueue[k].ticket, resultQueue[k].seen[q])
        BY DEF QueryInv
      <3> QED
        BY <2>4, <3>1, <3>2, SawKept
    <2> QED
      BY <1>1, <1>3, <2>3, <2>5
  <1>4. CASE Aside
    <2>1. fate' = fate /\ seen' = seen
      BY <1>4 DEF Aside
    <2>4. Len(fate') \in Nat /\ Len(fate') >= Len(fate)
      BY <1>1, <2>1
    <2>5. \A q \in 1 .. Len(seen') : SawExactly(db', Len(fate') + 1, seen'[q])
      BY <1>2, <2>1, Zenon
    <2>2. CASE resultQueue' = resultQueue
      <3>1. ASSUME NEW k \in 1 .. Len(resultQueue')
            PROVE  /\ resultQueue'[k].ticket \in 0 .. Len(fate')
                   /\ \A q \in 1 .. Len(resultQueue'[k].seen) :
                          SawExactly(db', resultQueue'[k].ticket, resultQueue'[k].seen[q])
        <4>1. k \in 1 .. Len(resultQueue) /\ resultQueue'[k] = resultQueue[k]
          BY <2>2
        <4> QED
          BY <1>3, <2>4, <4>1
      <3> QED
        BY <2>5, <3>1, Zenon DEF QueryInv
    <2>3. CASE resultQueue # <<>> /\ resultQueue' = Tail(resultQueue)
      <3>1. /\ Len(resultQueue') = Len(resultQueue) - 1
            /\ \A k \in 1 .. Len(resultQueue') : resultQueue'[k] = resultQueue[k + 1]
        BY <1>1, <2>3, HeadTailProperties
      <3>2. ASSUME NEW k \in 1 .. Len(resultQueue')
            PROVE  k + 1 \in 1 .. Len(resultQueue) /\ resultQueue'[k] = resultQueue[k + 1]
        BY <1>1, <3>1
      <3>3. ASSUME NEW k \in 1 .. Len(resultQueue')
            PROVE  /\ resultQueue'[k].ticket \in 0 .. Len(fate')
                   /\ \A q \in 1 .. Len(resultQueue'[k].seen) :
                          SawExactly(db', resultQueue'[k].ticket, resultQueue'[k].seen[q])
        BY <1>3, <2>4, <3>2
      <3> QED
        BY <2>5, <3>3, Zenon DEF QueryInv
    <2> QED
      BY <1>4, <2>2, <2>3 DEF Aside
  <1>5. CASE Read
    <2>1. db' = db /\ fate' = fate /\ resultQueue' = resultQueue
      BY <1>5 DEF Read
    <2>2. /\ Len(seen') = Len(seen) + 1 /\ seen'[Len(seen) + 1] = Len(db)
          /\ \A q \in 1 .. Len(seen) : seen'[q] = seen[q]
      BY <1>1, <1>5, AppendProperties DEF Read
    <2>3. ASSUME NEW q \in 1 .. Len(seen') PROVE SawExactly(db', Len(fate') + 1, seen'[q])
      <3>1. CASE q = Len(seen) + 1
        BY <2>1, <2>2, <3>1, SeesResolved
      <3>2. CASE q \in 1 .. Len(seen)
        BY <1>2, <2>1, <2>2, <3>2
      <3> QED
        BY <1>1, <2>2, <3>1, <3>2
    <2> QED
      BY <1>1, <1>3, <2>1, <2>3 DEF QueryInv
  <1>6. CASE Over
    <2>1. seen' = <<>> /\ Len(fate') = Len(fate) + 1 /\ resultQueue' = resultQueue
      BY <1>6 DEF Over
    <2>2. 1 .. Len(seen') = {} /\ Len(fate') \in Nat /\ Len(fate') >= Len(fate)
      BY <1>1, <2>1
    <2> QED
      BY <1>3, <2>1, <2>2 DEF QueryInv
  <1>7. CASE Answered
    <2> DEFINE r == [ticket |-> Len(fate) + 1, seen |-> seen]
    <2>1. r \in Result /\ r.ticket = Len(fate) + 1 /\ r.seen = seen
      BY <1>1 DEF Result
    <2>2. seen' = <<>> /\ Len(fate') = Len(fate) + 1 /\ resultQueue' = Append(resultQueue, r)
      BY <1>7 DEF Answered
    <2>3. 1 .. Len(seen') = {} /\ Len(fate') \in Nat /\ Len(fate') >= Len(fate)
      BY <1>1, <2>2
    <2> HIDE DEF r
    <2>4. /\ Len(resultQueue') = Len(resultQueue) + 1 /\ resultQueue'[Len(resultQueue) + 1] = r
          /\ \A k \in 1 .. Len(resultQueue) : resultQueue'[k] = resultQueue[k]
      BY <1>1, <2>1, <2>2, AppendProperties
    <2>5. ASSUME NEW k \in 1 .. Len(resultQueue')
          PROVE  /\ resultQueue'[k].ticket \in 0 .. Len(fate')
                 /\ \A q \in 1 .. Len(resultQueue'[k].seen) :
                        SawExactly(db', resultQueue'[k].ticket, resultQueue'[k].seen[q])
      <3>1. CASE k = Len(resultQueue) + 1
        <4>1. resultQueue'[k].ticket = Len(fate) + 1 /\ resultQueue'[k].seen = seen
          BY <2>1, <2>4, <3>1
        <4> QED
          BY <1>1, <1>2, <2>2, <4>1
      <3>2. CASE k \in 1 .. Len(resultQueue)
        BY <1>3, <2>3, <2>4, <3>2
      <3> QED
        BY <1>1, <2>4, <3>1, <3>2
    <2> QED
      BY <2>3, <2>5 DEF QueryInv
  <1>8. CASE Forgotten
    <2>1. 1 .. Len(seen') = {} /\ 1 .. Len(resultQueue') = {}
      BY <1>8 DEF Forgotten
    <2> QED
      BY <2>1, Zenon DEF QueryInv
  <1> QED
    BY <1>4, <1>5, <1>6, <1>7, <1>8 DEF QueryKind

(***************************************************************************)
(* The answer of a query shows the writes accepted before it and none of   *)
(* the later ones, for every interleaving of the threads that write and    *)
(* ask: a character is loaded as its last queued save left it.             *)
(***************************************************************************)
THEOREM QueriesAreOrdered == Spec => []QuerySeesEarlierWrites
  <1>1. Init => QueryInv
    <2> SUFFICES ASSUME Init PROVE QueryInv
      OBVIOUS
    <2>1. 1 .. Len(seen) = {} /\ 1 .. Len(resultQueue) = {}
      BY DEF Init
    <2> QED
      BY <2>1, Zenon DEF QueryInv
  <1>2. QueryInv => QuerySeesEarlierWrites
    BY Zenon DEF QueryInv, SawExactly, QuerySeesEarlierWrites
  <1>3. TypeInv /\ OrderInv /\ QueryInv /\ [Next]_vars => OrderInv' /\ QueryInv'
    BY NextKind, NextQueryKind, QueueOrderStep, DurableOrderStep, QueryStep DEF OrderInv
  <1> QED
    BY <1>1, <1>2, <1>3, InitTypeInv, NextTypeInv, InitOrderInv, PTL DEF Spec
=============================================================================
