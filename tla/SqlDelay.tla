------------------------------ MODULE SqlDelay ------------------------------
(***************************************************************************)
(* The asynchronous layer of class Database (src/src/shared/Database): the *)
(* threads of the server queue statements, transactions and queries with   *)
(* SqlDelayThread::Delay; one delay thread moves the queue aside in        *)
(* batches and executes it on the single asynchronous connection; answers  *)
(* to queries travel back through SqlResultQueue to the world thread.  The *)
(* main thread opens and closes all of this (Master::Run).                 *)
(*                                                                         *)
(* The three mutexes are not variables: who holds one is read off the      *)
(* program counters (QueueHeld, ConnHeld, ResultHeld).                     *)
(***************************************************************************)
EXTENDS Naturals, Sequences, FiniteSets

CONSTANTS
    Threads,    \* the server's threads: world, map update workers, network
    World,      \* the one of them that runs World::Update
    Main,       \* the thread that runs Master::Run
    Delayer,    \* the thread that runs SqlDelayThread::run
    MaxOps,     \* bound: operations submitted in a behaviour
    MaxStmts    \* bound: statements of one transaction

ASSUME SqlDelayAssumption ==
    /\ World \in Threads
    /\ Main \notin Threads /\ Delayer \notin Threads /\ Main # Delayer
    /\ MaxOps \in Nat /\ MaxStmts \in Nat \ {0}

VARIABLES
    next,       \* id of the next operation
    submitted,  \* history: the operations queued, in the order of Delay
    executed,   \* history: the queued operations executed, in order
    returned,   \* history: the writes that are over, and did they succeed
    sqlQueue,   \* SqlDelayThread::m_sqlQueue
    batch,      \* the local sqlQueue of ProcessRequests, per executor
    pc,         \* where each thread is
    cur,        \* the operation a thread executes on the connection
    step,       \* statements of cur already executed
    answer,     \* result of the query just executed, not yet added
    trans,      \* m_currentTransaction of each thread: its length or NoTrans
    results,    \* SqlResultQueue::m_queue
    delivered,  \* history: ids of the queries whose callback has run
    inUpdate,   \* the world thread is inside SqlResultQueue::Update
    alive,      \* server threads that still run
    phase,      \* progress of Master::Run
    running,    \* SqlDelayThread::m_running
    allowAsync, \* Database::m_allowAsyncTransactions
    db, tx, inTx, up  \* the server: committed rows, rows of the open
                      \* transaction, is one open, is the connection alive

histVars  == <<next, submitted, executed, returned>>
queueVars == <<sqlQueue, batch>>
opVars    == <<cur, step, answer>>
replyVars == <<results, delivered, inUpdate>>
lifeVars  == <<alive, phase, running, allowAsync>>
dbVars    == <<db, tx, inTx, up>>
vars == <<histVars, queueVars, pc, opVars, trans, replyVars, lifeVars, dbVars>>

Submitters == Threads \cup {Main}
Executors  == {Delayer, Main}
Procs      == Threads \cup Executors

NoOp    == [id |-> 0, by |-> Main, kind |-> "none", size |-> 0]
NoTrans == MaxStmts + 1

(* SqlPlainRequest / SqlPreparedRequest, SqlTransaction, and SqlQuery /    *)
(* SqlQueryHolderEx: only a transaction has a size; a statement has one    *)
(* row, a query none.                                                      *)
Op == {o \in [id : 1..MaxOps, by : Submitters, kind : {"stmt", "trans", "query"},
               size : 0..MaxStmts] : o.kind # "trans" => o.size = 1}
Row == (1..MaxOps) \X (1..MaxStmts)
Rows(o) == IF o.kind = "query" THEN {} ELSE {o.id} \X (1..o.size)

\* Mutant of QueueHeld: the operations are executed with the queue locked.
QueueHeldMutant(p) == pc[p] \in {"move", "take", "lock", "stmt", "add"}

\* The mutexes, each held by the threads for which the operator is TRUE.
QueueHeld(p)  == pc[p] = "move"                 \* m_queueMutex
ConnHeld(p)   == pc[p] \in {"stmt", "add"}      \* SqlConnection::m_mutex
ResultHeld(p) == p = World /\ inUpdate          \* SqlResultQueue::m_mutex

Init ==
    /\ next = 1 /\ submitted = <<>> /\ executed = <<>> /\ returned = {}
    /\ sqlQueue = <<>> /\ batch = [e \in Executors |-> <<>>]
    /\ pc = [p \in Procs |-> IF p = Delayer THEN "sleep" ELSE "idle"]
    /\ cur = [p \in Procs |-> NoOp] /\ step = [p \in Procs |-> 0]
    /\ answer = [e \in Executors |-> <<>>]
    /\ trans = [t \in Submitters |-> NoTrans]
    /\ results = <<>> /\ delivered = <<>> /\ inUpdate = FALSE
    /\ alive = Threads /\ phase = "startup"
    /\ running = TRUE /\ allowAsync = FALSE
    /\ db = {} /\ tx = {} /\ inTx = FALSE /\ up = TRUE

-----------------------------------------------------------------------------
(* Submitting: the calls a server thread makes on Database.                *)

(* Server threads run between AllowAsyncTransactions and the shutdown; the *)
(* main thread submits before and after.                                   *)
MaySubmit(t) ==
    /\ pc[t] = "idle"
    /\ \/ t \in alive /\ phase = "serving"
       \/ t = Main /\ phase \in {"startup", "shutdown"}

NewOp(t, kind, size) == [id |-> next, by |-> t, kind |-> kind, size |-> size]

\* The thread is about to call Delay with the operation ...
Enqueue(t, o) ==
    /\ next <= MaxOps
    /\ next' = next + 1
    /\ pc' = [pc EXCEPT ![t] = "delay"]
    /\ cur' = [cur EXCEPT ![t] = o]

\* ... or to execute it itself on the asynchronous connection.
ExecuteHere(t, o) ==
    /\ next <= MaxOps
    /\ next' = next + 1
    /\ IF o.size = 0 THEN UNCHANGED <<pc, cur>>
       ELSE pc' = [pc EXCEPT ![t] = "lock"] /\ cur' = [cur EXCEPT ![t] = o]

BeginTransaction(t) ==
    /\ MaySubmit(t) /\ next <= MaxOps
    /\ trans[t] = NoTrans                       \* MANGOS_ASSERT
    /\ trans' = [trans EXCEPT ![t] = 0]
    /\ UNCHANGED <<histVars, queueVars, pc, opVars, replyVars, lifeVars, dbVars>>

Execute(t) ==
    /\ MaySubmit(t)
    /\ IF trans[t] # NoTrans
       THEN /\ trans[t] < MaxStmts
            /\ trans' = [trans EXCEPT ![t] = @ + 1]
            /\ UNCHANGED <<next, pc, cur>>
       ELSE /\ IF allowAsync THEN Enqueue(t, NewOp(t, "stmt", 1))
                             ELSE ExecuteHere(t, NewOp(t, "stmt", 1))
            /\ UNCHANGED trans
    /\ UNCHANGED <<submitted, executed, returned, queueVars, step, answer,
                   replyVars, lifeVars, dbVars>>

\* Mutant of CommitTransaction: no test for a current transaction.
CommitTransactionMutant(t) ==
    /\ MaySubmit(t)
    /\ Enqueue(t, NewOp(t, "trans", trans[t]))
    /\ trans' = [trans EXCEPT ![t] = NoTrans]
    /\ UNCHANGED <<submitted, executed, returned, queueVars, step, answer,
                   replyVars, lifeVars, dbVars>>

CommitTransaction(t) ==
    /\ MaySubmit(t)
    /\ trans[t] # NoTrans
    /\ IF allowAsync THEN Enqueue(t, NewOp(t, "trans", trans[t]))
                     ELSE ExecuteHere(t, NewOp(t, "trans", trans[t]))
    /\ trans' = [trans EXCEPT ![t] = NoTrans]
    /\ UNCHANGED <<submitted, executed, returned, queueVars, step, answer,
                   replyVars, lifeVars, dbVars>>

RollbackTransaction(t) ==
    /\ MaySubmit(t)
    /\ trans[t] # NoTrans
    /\ trans' = [trans EXCEPT ![t] = NoTrans]
    /\ UNCHANGED <<histVars, queueVars, pc, opVars, replyVars, lifeVars, dbVars>>

\* AsyncPQuery and DelayQueryHolder.
AsyncQuery(t) ==
    /\ MaySubmit(t)
    /\ Enqueue(t, NewOp(t, "query", 1))
    /\ UNCHANGED <<submitted, executed, returned, queueVars, step, answer, trans,
                   replyVars, lifeVars, dbVars>>

(* DirectExecute.  While the server runs only the world thread calls it,   *)
(* and never from a callback (DungeonResetScheduler::Update).              *)
DirectExecute(t) ==
    /\ MaySubmit(t)
    /\ t \in {World, Main} /\ ~ResultHeld(t)
    /\ ExecuteHere(t, NewOp(t, "stmt", 1))
    /\ UNCHANGED <<submitted, executed, returned, queueVars, step, answer, trans,
                   replyVars, lifeVars, dbVars>>

\* Mutant of Delay: queries overtake the writes.
DelayMutant(t) ==
    /\ pc[t] = "delay"
    /\ \A p \in Procs : ~QueueHeld(p)
    /\ sqlQueue' = IF cur[t].kind = "query" THEN <<cur[t]>> \o sqlQueue
                                            ELSE Append(sqlQueue, cur[t])
    /\ submitted' = Append(submitted, cur[t])
    /\ cur' = [cur EXCEPT ![t] = NoOp]
    /\ pc' = [pc EXCEPT ![t] = "idle"]
    /\ UNCHANGED <<next, executed, returned, batch, step, answer, trans,
                   replyVars, lifeVars, dbVars>>

Delay(t) ==
    /\ pc[t] = "delay"
    /\ \A p \in Procs : ~QueueHeld(p)
    /\ sqlQueue' = Append(sqlQueue, cur[t])
    /\ submitted' = Append(submitted, cur[t])
    /\ cur' = [cur EXCEPT ![t] = NoOp]
    /\ pc' = [pc EXCEPT ![t] = "idle"]
    /\ UNCHANGED <<next, executed, returned, batch, step, answer, trans,
                   replyVars, lifeVars, dbVars>>

-----------------------------------------------------------------------------
(* Executing: SqlDelayThread::ProcessRequests and SqlOperation::Execute.   *)

\* A process that executes operations of the queue, not one of its own.
FromQueue(p) == p = Delayer \/ (p = Main /\ phase = "halting")

LockQueue(e) ==
    /\ pc[e] \in {"sleep", "grab"}
    /\ \A p \in Procs : ~QueueHeld(p)
    /\ pc' = [pc EXCEPT ![e] = "move"]
    /\ UNCHANGED <<histVars, queueVars, opVars, trans, replyVars, lifeVars, dbVars>>

\* Mutant of MoveQueue: the queue is copied, not moved.
MoveQueueMutant(e) ==
    /\ pc[e] = "move"
    /\ batch' = [batch EXCEPT ![e] = sqlQueue]
    /\ pc' = [pc EXCEPT ![e] = "take"]
    /\ UNCHANGED <<sqlQueue, histVars, opVars, trans, replyVars, lifeVars, dbVars>>

MoveQueue(e) ==
    /\ pc[e] = "move"
    /\ batch' = [batch EXCEPT ![e] = sqlQueue]
    /\ sqlQueue' = <<>>
    /\ pc' = [pc EXCEPT ![e] = "take"]
    /\ UNCHANGED <<histVars, opVars, trans, replyVars, lifeVars, dbVars>>

(* The front operation is popped; an empty transaction is executed without *)
(* touching the connection.                                                *)
Take(e) ==
    /\ pc[e] = "take" /\ batch[e] # <<>>
    /\ batch' = [batch EXCEPT ![e] = Tail(@)]
    /\ IF Head(batch[e]).size = 0
       THEN executed' = Append(executed, Head(batch[e])) /\ UNCHANGED <<pc, cur>>
       ELSE /\ pc' = [pc EXCEPT ![e] = "lock"]
            /\ cur' = [cur EXCEPT ![e] = Head(batch[e])]
            /\ UNCHANGED executed
    /\ UNCHANGED <<next, submitted, returned, sqlQueue, step, answer, trans,
                   replyVars, lifeVars, dbVars>>

\* Mutant of LockConn: the connection is not locked.
LockConnMutant(p) ==
    /\ pc[p] = "lock"
    /\ pc' = [pc EXCEPT ![p] = "stmt"]
    /\ step' = [step EXCEPT ![p] = 0]
    /\ IF cur[p].kind = "trans" /\ up
       THEN db' = db \cup tx /\ tx' = {} /\ inTx' = TRUE
       ELSE UNCHANGED <<db, tx, inTx>>
    /\ UNCHANGED <<histVars, queueVars, cur, answer, trans, replyVars, lifeVars, up>>

(* LOCK_DB_CONN, and START TRANSACTION (which commits a transaction that   *)
(* is already open on the connection).                                     *)
LockConn(p) ==
    /\ pc[p] = "lock"
    /\ \A q \in Procs : ~ConnHeld(q)
    /\ pc' = [pc EXCEPT ![p] = "stmt"]
    /\ step' = [step EXCEPT ![p] = 0]
    /\ IF cur[p].kind = "trans" /\ up
       THEN db' = db \cup tx /\ tx' = {} /\ inTx' = TRUE
       ELSE UNCHANGED <<db, tx, inTx>>
    /\ UNCHANGED <<histVars, queueVars, cur, answer, trans, replyVars, lifeVars, up>>

\* The guard of LOCK_DB_CONN goes out of scope: the operation is over.
Finish(p, ok) ==
    /\ returned' = returned \cup {[op |-> cur[p], ok |-> ok]}
    /\ executed' = IF FromQueue(p) THEN Append(executed, cur[p]) ELSE executed
    /\ pc' = [pc EXCEPT ![p] = IF FromQueue(p) THEN "take" ELSE "idle"]
    /\ cur' = [cur EXCEPT ![p] = NoOp]

StatementSucceeds(p) ==
    /\ pc[p] = "stmt" /\ cur[p].kind # "query" /\ step[p] < cur[p].size /\ up
    /\ LET row == <<cur[p].id, step[p] + 1>>
       IN IF inTx THEN tx' = tx \cup {row} /\ UNCHANGED db
                  ELSE db' = db \cup {row} /\ UNCHANGED tx
    /\ IF cur[p].kind = "stmt"
       THEN Finish(p, TRUE) /\ UNCHANGED step
       ELSE step' = [step EXCEPT ![p] = @ + 1] /\ UNCHANGED <<returned, executed, pc, cur>>
    /\ UNCHANGED <<next, submitted, queueVars, answer, trans, replyVars, lifeVars, inTx, up>>

\* Mutant of StatementFails: no rollback.
StatementFailsMutant(p) ==
    /\ pc[p] = "stmt" /\ cur[p].kind # "query" /\ step[p] < cur[p].size
    /\ Finish(p, FALSE)
    /\ UNCHANGED <<next, submitted, queueVars, step, answer, trans, replyVars,
                   lifeVars, dbVars>>

\* A statement fails: a transaction is rolled back and abandoned.
StatementFails(p) ==
    /\ pc[p] = "stmt" /\ cur[p].kind # "query" /\ step[p] < cur[p].size
    /\ IF cur[p].kind = "trans" THEN tx' = {} /\ inTx' = FALSE ELSE UNCHANGED <<tx, inTx>>
    /\ Finish(p, FALSE)
    /\ UNCHANGED <<next, submitted, queueVars, step, answer, trans, replyVars,
                   lifeVars, db, up>>

CommitOnServer(p) ==
    /\ pc[p] = "stmt" /\ cur[p].kind = "trans" /\ step[p] = cur[p].size
    /\ db' = IF up THEN db \cup tx ELSE db
    /\ tx' = {} /\ inTx' = FALSE
    /\ Finish(p, up)
    /\ UNCHANGED <<next, submitted, queueVars, step, answer, trans, replyVars,
                   lifeVars, up>>

(* conn->Query stores what the connection sees; on an error the callback   *)
(* gets a null result.                                                     *)
RunQuery(p) ==
    /\ pc[p] = "stmt" /\ cur[p].kind = "query"
    /\ \E ok \in {up, FALSE} :
          answer' = [answer EXCEPT ![p] =
             <<[op |-> cur[p], ok |-> ok, seen |-> IF ok THEN db \cup tx ELSE {}]>>]
    /\ executed' = Append(executed, cur[p])
    /\ cur' = [cur EXCEPT ![p] = NoOp]
    /\ pc' = [pc EXCEPT ![p] = "add"]
    /\ UNCHANGED <<next, submitted, returned, queueVars, step, trans, replyVars,
                   lifeVars, dbVars>>

\* Mutant of AddResult: the newest answer goes first.
AddResultMutant(p) ==
    /\ pc[p] = "add"
    /\ \A q \in Procs : ~ResultHeld(q)
    /\ results' = answer[p] \o results
    /\ answer' = [answer EXCEPT ![p] = <<>>]
    /\ pc' = [pc EXCEPT ![p] = "take"]
    /\ UNCHANGED <<histVars, queueVars, cur, step, trans, delivered, inUpdate,
                   lifeVars, dbVars>>

\* m_queue->Add(m_callback), with the connection still locked.
AddResult(p) ==
    /\ pc[p] = "add"
    /\ \A q \in Procs : ~ResultHeld(q)
    /\ results' = results \o answer[p]
    /\ answer' = [answer EXCEPT ![p] = <<>>]
    /\ pc' = [pc EXCEPT ![p] = "take"]
    /\ UNCHANGED <<histVars, queueVars, cur, step, trans, delivered, inUpdate,
                   lifeVars, dbVars>>

-----------------------------------------------------------------------------
(* SqlDelayThread::run.                                                    *)

\* Every pingEveryLoop rounds the connections are pinged after the batch.
PingIsDue ==
    /\ pc[Delayer] = "take" /\ batch[Delayer] = <<>>
    /\ pc' = [pc EXCEPT ![Delayer] = "ping"]
    /\ UNCHANGED <<histVars, queueVars, opVars, trans, replyVars, lifeVars, dbVars>>

\* Mutant of EndOfRound: m_running is not looked at.
EndOfRoundMutant ==
    /\ pc' = [pc EXCEPT ![Delayer] = "sleep"]
    /\ UNCHANGED <<histVars, queueVars, opVars, trans, replyVars, lifeVars, dbVars>>

EndOfRound ==
    /\ pc' = [pc EXCEPT ![Delayer] = IF running THEN "sleep" ELSE "exited"]
    /\ UNCHANGED <<histVars, queueVars, opVars, trans, replyVars, lifeVars, dbVars>>

BatchDone == pc[Delayer] = "take" /\ batch[Delayer] = <<>> /\ EndOfRound

Ping == pc[Delayer] = "ping" /\ (\A q \in Procs : ~ConnHeld(q)) /\ EndOfRound

-----------------------------------------------------------------------------
(* SqlResultQueue::Update, called by World::UpdateResultQueue.             *)

StartUpdate ==
    /\ MaySubmit(World) /\ ~inUpdate /\ trans[World] = NoTrans
    /\ inUpdate' = TRUE
    /\ UNCHANGED <<histVars, queueVars, pc, opVars, trans, results, delivered,
                   lifeVars, dbVars>>

(* The next callback runs, with the mutex held; what it submits are the    *)
(* steps of the world thread until the next callback or the end.           *)
RunCallback ==
    /\ MaySubmit(World) /\ inUpdate /\ trans[World] = NoTrans
    /\ results # <<>>
    /\ delivered' = Append(delivered, Head(results).op.id)
    /\ results' = Tail(results)
    /\ UNCHANGED <<histVars, queueVars, pc, opVars, trans, inUpdate, lifeVars, dbVars>>

\* Mutant of EndUpdate: the update may end before the queue is empty.
EndUpdateMutant ==
    /\ MaySubmit(World) /\ inUpdate /\ trans[World] = NoTrans
    /\ inUpdate' = FALSE
    /\ UNCHANGED <<histVars, queueVars, pc, opVars, trans, results, delivered,
                   lifeVars, dbVars>>

EndUpdate ==
    /\ MaySubmit(World) /\ inUpdate /\ trans[World] = NoTrans
    /\ results = <<>>
    /\ inUpdate' = FALSE
    /\ UNCHANGED <<histVars, queueVars, pc, opVars, trans, results, delivered,
                   lifeVars, dbVars>>

-----------------------------------------------------------------------------
(* Master::Run.                                                            *)

AllowAsyncTransactions ==
    /\ phase = "startup" /\ pc[Main] = "idle" /\ trans[Main] = NoTrans
    /\ allowAsync' = TRUE /\ phase' = "serving"
    /\ UNCHANGED <<histVars, queueVars, pc, opVars, trans, replyVars, alive,
                   running, dbVars>>

\* A server thread ends: World::IsStopped, m_context.stop(), ...
ThreadEnds(t) ==
    /\ MaySubmit(t) /\ t \in alive /\ trans[t] = NoTrans /\ ~ResultHeld(t)
    /\ alive' = alive \ {t}
    /\ UNCHANGED <<histVars, queueVars, pc, opVars, trans, replyVars, phase,
                   running, allowAsync, dbVars>>

\* world_thread.wait(), threads[i].join(): main goes on alone.
ThreadsJoined ==
    /\ phase = "serving" /\ alive = {}
    /\ phase' = "shutdown"
    /\ UNCHANGED <<histVars, queueVars, pc, opVars, trans, replyVars, alive,
                   running, allowAsync, dbVars>>

\* HaltDelayThread: Stop ...
Stop ==
    /\ phase = "shutdown" /\ pc[Main] = "idle" /\ trans[Main] = NoTrans
    /\ running' = FALSE /\ phase' = "stopping"
    /\ UNCHANGED <<histVars, queueVars, pc, opVars, trans, replyVars, alive,
                   allowAsync, dbVars>>

\* Mutant of Flush: the destructor does not call ProcessRequests.
FlushMutant ==
    /\ phase = "stopping" /\ pc[Delayer] = "exited"
    /\ phase' = "halting"
    /\ pc' = [pc EXCEPT ![Main] = "take"]
    /\ UNCHANGED <<histVars, queueVars, opVars, trans, replyVars, alive,
                   running, allowAsync, dbVars>>

\* ... wait, and the destructor of SqlDelayThread processes what is left.
Flush ==
    /\ phase = "stopping" /\ pc[Delayer] = "exited"
    /\ phase' = "halting"
    /\ pc' = [pc EXCEPT ![Main] = "grab"]
    /\ UNCHANGED <<histVars, queueVars, opVars, trans, replyVars, alive,
                   running, allowAsync, dbVars>>

\* Mutant of Halted: the flush ends after any operation.
HaltedMutant ==
    /\ phase = "halting" /\ pc[Main] = "take"
    /\ phase' = "halted"
    /\ pc' = [pc EXCEPT ![Main] = "exited"]
    /\ UNCHANGED <<histVars, queueVars, opVars, trans, replyVars, alive,
                   running, allowAsync, dbVars>>

Halted ==
    /\ phase = "halting" /\ pc[Main] = "take" /\ batch[Main] = <<>>
    /\ phase' = "halted"
    /\ pc' = [pc EXCEPT ![Main] = "exited"]
    /\ UNCHANGED <<histVars, queueVars, opVars, trans, replyVars, alive,
                   running, allowAsync, dbVars>>

\* The database server drops the connection and with it the open transaction.
ConnectionLost ==
    /\ up /\ phase # "halted"
    /\ up' = FALSE /\ tx' = {} /\ inTx' = FALSE
    /\ UNCHANGED <<histVars, queueVars, pc, opVars, trans, replyVars, lifeVars, db>>

-----------------------------------------------------------------------------
Submit(t) ==
    \/ BeginTransaction(t) \/ Execute(t) \/ CommitTransaction(t)
    \/ RollbackTransaction(t) \/ AsyncQuery(t) \/ DirectExecute(t)

OnConnection(p) ==
    \/ LockConn(p) \/ StatementSucceeds(p) \/ StatementFails(p) \/ CommitOnServer(p)

ProcessRequests(e) ==
    LockQueue(e) \/ MoveQueue(e) \/ Take(e) \/ RunQuery(e) \/ AddResult(e)

RunLoop == PingIsDue \/ BatchDone \/ Ping

UpdateResults == StartUpdate \/ RunCallback \/ EndUpdate

MasterRun ==
    \/ AllowAsyncTransactions \/ ThreadsJoined \/ Stop \/ Flush \/ Halted

\* The process ends: not a deadlock.
Terminated == phase = "halted" /\ UNCHANGED vars

Next ==
    \/ Terminated
    \/ \E t \in Submitters : Submit(t) \/ Delay(t)
    \/ \E t \in Threads : ThreadEnds(t)
    \/ \E p \in Procs : OnConnection(p)
    \/ \E e \in Executors : ProcessRequests(e)
    \/ RunLoop \/ UpdateResults \/ MasterRun \/ ConnectionLost

(* Every thread is scheduled, and one that waits for a mutex gets it in    *)
(* the end: its holders give it back and sleep (10 ms in run, up to 50 ms  *)
(* in WorldRunnable::run).  Nothing forces a thread to submit, but the     *)
(* function that begins a transaction ends it.  The startup is over one    *)
(* day; the world thread calls Update again and again, and callbacks       *)
(* return.                                                                 *)
Progress(p) ==
    \/ OnConnection(p)
    \/ p \in Submitters /\ (Delay(p) \/ CommitTransaction(p) \/ RollbackTransaction(p))
    \/ p \in Executors /\ ProcessRequests(p)
    \/ p = Delayer /\ RunLoop
    \/ p = Main /\ (Stop \/ Flush \/ Halted)

Fairness ==
    /\ \A p \in Procs : SF_vars(Progress(p))
    /\ SF_vars(AllowAsyncTransactions \/ UpdateResults)

Spec == Init /\ [][Next]_vars /\ Fairness

-----------------------------------------------------------------------------
(* Properties.                                                             *)

Answer == [op : Op, ok : BOOLEAN, seen : SUBSET Row]
PcValues == {"idle", "delay", "lock", "stmt", "add", "sleep", "grab", "move",
             "take", "ping", "exited"}

\* Every variable has its type.
TypeOK ==
    /\ next \in 1..MaxOps + 1
    /\ submitted \in Seq(Op) /\ executed \in Seq(Op)
    /\ returned \subseteq [op : Op, ok : BOOLEAN]
    /\ sqlQueue \in Seq(Op) /\ batch \in [Executors -> Seq(Op)]
    /\ pc \in [Procs -> PcValues]
    /\ cur \in [Procs -> Op \cup {NoOp}] /\ step \in [Procs -> 0..MaxStmts]
    /\ answer \in [Executors -> Seq(Answer)]
    /\ trans \in [Submitters -> 0..MaxStmts \cup {NoTrans}]
    /\ results \in Seq(Answer) /\ delivered \in Seq(1..MaxOps)
    /\ inUpdate \in BOOLEAN /\ alive \subseteq Threads
    /\ phase \in {"startup", "serving", "shutdown", "stopping", "halting", "halted"}
    /\ running \in BOOLEAN /\ allowAsync \in BOOLEAN
    /\ db \subseteq Row /\ tx \subseteq Row
    /\ inTx \in BOOLEAN /\ up \in BOOLEAN

\* The operation a thread has popped but not yet executed.
InFlight(e) == IF FromQueue(e) /\ pc[e] \in {"lock", "stmt"} THEN <<cur[e]>> ELSE <<>>
Pending == InFlight(Delayer) \o batch[Delayer] \o InFlight(Main) \o batch[Main] \o sqlQueue

(* Operations are executed in the order of the calls of Delay, none is     *)
(* lost, none is executed twice: whatever moves between m_sqlQueue, the    *)
(* local queue of ProcessRequests and the flush of the destructor.         *)
Fifo == executed \o Pending = submitted

(* The database holds exactly the rows of the writes that reported         *)
(* success: a transaction is there completely or not at all, a statement   *)
(* executed directly by another thread is never rolled back with somebody  *)
(* else's transaction (SqlTransaction::Execute holds LOCK_DB_CONN).        *)
AllOrNothing == db = UNION {Rows(r.op) : r \in {x \in returned : x.ok}}

(* The answer to an asynchronous query reflects every operation queued     *)
(* before it, by any thread, unless that operation failed.                 *)
Before(o, q) == \E i, j \in DOMAIN submitted : i < j /\ submitted[i] = o /\ submitted[j] = q
SeesWhatPrecedes(a) ==
    a.ok => \A o \in {submitted[i] : i \in DOMAIN submitted} :
               Before(o, a.op) => \/ Rows(o) \subseteq a.seen
                                  \/ [op |-> o, ok |-> FALSE] \in returned
AnswersSeePrecedingWrites ==
    \A i \in DOMAIN results : SeesWhatPrecedes(results[i])

(* Every query executed has its callback run exactly once, or its answer   *)
(* is still on the way, and callbacks run in the order of the queries: the *)
(* n-th query executed has the n-th answer given.                          *)
Ids(s)     == [i \in DOMAIN s |-> s[i].op.id]
Given      == delivered \o Ids(results) \o Ids(answer[Delayer]) \o Ids(answer[Main])
Queries(n) == {i \in 1..n : executed[i].kind = "query"}
CallbackOrder ==
    /\ Len(Given) = Cardinality(Queries(Len(executed)))
    /\ \A i \in Queries(Len(executed)) : Given[Cardinality(Queries(i))] = executed[i].id

(* No circle of threads that wait for each other's mutex; the comment in   *)
(* ProcessRequests names the one that moving the queue aside avoids.       *)
WaitsFor(p, q) ==
    \/ pc[p] \in {"delay", "sleep", "grab"} /\ QueueHeld(q)
    \/ pc[p] \in {"lock", "ping"} /\ ConnHeld(q)
    \/ pc[p] = "add" /\ ResultHeld(q)
NoLockCycle ==
    \A S \in (SUBSET Procs) \ {{}} : \E p \in S : \A q \in S : ~WaitsFor(p, q)

(* When HaltDelayThread has returned, everything that was queued has been  *)
(* executed, also what was queued while the delay thread was exiting.      *)
HaltFlushes == phase = "halted" => executed = submitted

(* The delay thread gets to every operation.                               *)
EventuallyExecuted ==
    \A i \in 1..MaxOps : (Len(submitted) >= i) ~> (Len(executed) >= i)

(* Callbacks that wait are run while the world thread lives.               *)
CallbacksRun == (results # <<>>) ~> (results = <<>> \/ World \notin alive)

(* HaltDelayThread returns.                                                *)
ShutdownCompletes == (phase = "stopping") ~> (phase = "halted")

(* The layer implements a serial, atomic database with one queue.          *)
AsyncDb == INSTANCE AsyncDb WITH
    queue <- Pending,
    replies <- results \o answer[Delayer] \o answer[Main],
    used <- {executed[i].id : i \in DOMAIN executed} \cup {r.op.id : r \in returned}
ImplementsAsyncDb == AsyncDb!Spec
=============================================================================
