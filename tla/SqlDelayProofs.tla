--------------------------- MODULE SqlDelayProofs ---------------------------
(***************************************************************************)
(* Proofs about SqlDelay, for any number of threads, operations and        *)
(* statements per transaction.                                             *)
(***************************************************************************)
EXTENDS SqlDelay, TLAPS, SequenceTheorems

(* Which program counters go with which phase of Master::Run, and what the *)
(* operation is that a thread carries.                                     *)
AtSubmitter == {"idle", "delay", "lock", "stmt"}
AtExecution == {"take", "lock", "stmt", "add"}
ControlInv ==
    /\ pc[Delayer] \in {"sleep", "move", "ping", "exited"} \cup AtExecution
    /\ \A t \in Threads : pc[t] \in AtSubmitter /\ (t \notin alive => pc[t] = "idle")
    /\ phase \in {"startup", "shutdown"} => pc[Main] \in AtSubmitter
    /\ phase \in {"serving", "stopping"} => pc[Main] = "idle"
    /\ phase = "halting" => pc[Main] \in {"grab", "move"} \cup AtExecution
    /\ phase = "halted" => pc[Main] = "exited"
    /\ phase \in {"halting", "halted"} => pc[Delayer] = "exited"
    /\ phase \in {"shutdown", "stopping", "halting", "halted"} => alive = {}
    /\ \A p \in Procs :
          /\ pc[p] \in {"delay", "lock", "stmt"} => cur[p] \in Op
          /\ pc[p] \in {"lock", "stmt"} /\ ~FromQueue(p) => cur[p].kind # "query"

(* Where queued operations can be: the batch of a process is empty unless  *)
(* it executes; after the final flush has begun nothing is queued.         *)
Flushing == phase = "halting" /\ pc[Main] \in AtExecution
QueueInv ==
    /\ pc[Delayer] \notin AtExecution => batch[Delayer] = <<>>
    /\ ~Flushing => batch[Main] = <<>>
    /\ Flushing \/ phase = "halted" => sqlQueue = <<>>

IInv == TypeOK /\ ControlInv /\ QueueInv /\ Fifo

-----------------------------------------------------------------------------
(* Types.                                                                  *)

\* An operation made by NewOp is one, under the guard of its callers.
LEMMA NewOpType ==
    ASSUME TypeOK, next <= MaxOps, NEW t \in Submitters,
           NEW kind \in {"stmt", "trans", "query"}, NEW size \in 0..MaxStmts,
           kind # "trans" => size = 1
    PROVE  NewOp(t, kind, size) \in Op
<1>1. next \in 1..MaxOps
  BY SqlDelayAssumption DEF TypeOK
<1>. QED
  BY <1>1 DEF NewOp, Op

\* The length of a thread's open transaction, and of one with a statement more.
LEMMA TransType ==
    ASSUME TypeOK, NEW t \in Submitters
    PROVE  /\ 0 \in 0..MaxStmts /\ 1 \in 0..MaxStmts
           /\ trans[t] # NoTrans => trans[t] \in 0..MaxStmts
           /\ trans[t] < MaxStmts => trans[t] + 1 \in 0..MaxStmts
BY SqlDelayAssumption DEF TypeOK, NoTrans

\* Enqueue and ExecuteHere keep the types, given an operation.
LEMMA SubmitType ==
    ASSUME TypeOK, NEW t \in Submitters, NEW o \in Op,
           Enqueue(t, o) \/ ExecuteHere(t, o)
    PROVE  /\ next' \in 1..MaxOps + 1 /\ pc' \in [Procs -> PcValues]
           /\ cur' \in [Procs -> Op \cup {NoOp}]
<1>1. t \in Procs
  BY DEF Procs, Submitters, Executors
<1>2. next \in 1..MaxOps + 1 /\ pc \in [Procs -> PcValues] /\ cur \in [Procs -> Op \cup {NoOp}]
  BY DEF TypeOK
<1>3. next' \in 1..MaxOps + 1
  BY <1>2, SqlDelayAssumption DEF Enqueue, ExecuteHere
<1>4. pc' \in [Procs -> PcValues]
  BY <1>1, <1>2 DEF Enqueue, ExecuteHere, PcValues
<1>5. cur' \in [Procs -> Op \cup {NoOp}]
  BY <1>1, <1>2 DEF Enqueue, ExecuteHere
<1>. QED
  BY <1>3, <1>4, <1>5

\* What an operation that ends leaves behind is typed.
LEMMA FinishType ==
    ASSUME TypeOK, ControlInv, NEW p \in Procs, pc[p] = "stmt", NEW ok \in BOOLEAN,
           Finish(p, ok)
    PROVE  /\ returned' \subseteq [op : Op, ok : BOOLEAN] /\ executed' \in Seq(Op)
           /\ pc' \in [Procs -> PcValues] /\ cur' \in [Procs -> Op \cup {NoOp}]
           /\ cur[p] \in Op
<1>1. cur[p] \in Op
  BY DEF ControlInv
<1>2. returned' \subseteq [op : Op, ok : BOOLEAN] /\ executed' \in Seq(Op)
  BY <1>1 DEF Finish, TypeOK
<1>3. pc' \in [Procs -> PcValues]
  BY DEF Finish, TypeOK, PcValues
<1>4. cur' \in [Procs -> Op \cup {NoOp}]
  BY DEF Finish, TypeOK
<1>. QED
  BY <1>1, <1>2, <1>3, <1>4

\* A thread may only move its program counter and leave the rest alone.
LEMMA PcType ==
    ASSUME TypeOK, NEW p \in Procs, NEW v \in PcValues
    PROVE  [pc EXCEPT ![p] = v] \in [Procs -> PcValues]
BY DEF TypeOK

\* Every step keeps the types; ControlInv says what a thread carries.
LEMMA TypeStep ==
    ASSUME TypeOK, ControlInv, [Next]_vars
    PROVE  TypeOK'
<1>. USE DEF vars, histVars, queueVars, opVars, replyVars, lifeVars, dbVars
<1>1. ASSUME NEW t \in Submitters, BeginTransaction(t) PROVE TypeOK'
  BY <1>1, TransType DEF TypeOK, BeginTransaction
<1>2. ASSUME NEW t \in Submitters, Execute(t) PROVE TypeOK'
  <2>1. next <= MaxOps => NewOp(t, "stmt", 1) \in Op
    BY NewOpType, TransType
  <2>2. /\ next' \in 1..MaxOps + 1 /\ pc' \in [Procs -> PcValues]
        /\ cur' \in [Procs -> Op \cup {NoOp}]
    BY <1>2, <2>1, SubmitType DEF Execute, TypeOK, Enqueue, ExecuteHere
  <2>3. trans' \in [Submitters -> 0..MaxStmts \cup {NoTrans}]
    BY <1>2, TransType DEF Execute, TypeOK
  <2>. QED
    BY <1>2, <2>2, <2>3 DEF TypeOK, Execute
<1>3. ASSUME NEW t \in Submitters, CommitTransaction(t) PROVE TypeOK'
  <2>1. next <= MaxOps => NewOp(t, "trans", trans[t]) \in Op
    BY <1>3, NewOpType, TransType DEF CommitTransaction
  <2>2. /\ next' \in 1..MaxOps + 1 /\ pc' \in [Procs -> PcValues]
        /\ cur' \in [Procs -> Op \cup {NoOp}]
    BY <1>3, <2>1, SubmitType DEF CommitTransaction, Enqueue, ExecuteHere
  <2>. QED
    BY <1>3, <2>2 DEF TypeOK, CommitTransaction
<1>4. ASSUME NEW t \in Submitters, RollbackTransaction(t) PROVE TypeOK'
  BY <1>4 DEF TypeOK, RollbackTransaction
<1>5. ASSUME NEW t \in Submitters, AsyncQuery(t) PROVE TypeOK'
  <2>1. NewOp(t, "query", 1) \in Op
    BY <1>5, NewOpType, TransType DEF AsyncQuery, Enqueue
  <2>. QED
    BY <1>5, <2>1, SubmitType DEF TypeOK, AsyncQuery
<1>6. ASSUME NEW t \in Submitters, DirectExecute(t) PROVE TypeOK'
  <2>1. NewOp(t, "stmt", 1) \in Op
    BY <1>6, NewOpType, TransType DEF DirectExecute, ExecuteHere
  <2>. QED
    BY <1>6, <2>1, SubmitType DEF TypeOK, DirectExecute
<1>7. ASSUME NEW t \in Submitters, Delay(t) PROVE TypeOK'
  <2>1. t \in Procs /\ cur[t] \in Op
    BY <1>7 DEF Delay, ControlInv, Procs, Submitters, Executors
  <2>2. pc' \in [Procs -> PcValues]
    BY <1>7, <2>1, PcType DEF Delay, PcValues
  <2>. QED
    BY <1>7, <2>1, <2>2 DEF TypeOK, Delay
<1>8. ASSUME NEW t \in Threads, ThreadEnds(t) PROVE TypeOK'
  BY <1>8 DEF TypeOK, ThreadEnds
<1>9. ASSUME NEW p \in Procs, LockConn(p) PROVE TypeOK'
  <2>1. pc' \in [Procs -> PcValues]
    BY <1>9, PcType DEF LockConn, PcValues
  <2>2. step' \in [Procs -> 0..MaxStmts]
    BY <1>9, SqlDelayAssumption DEF LockConn, TypeOK
  <2>3. db' \subseteq Row /\ tx' \subseteq Row /\ inTx' \in BOOLEAN
    <3>1. db \subseteq Row /\ tx \subseteq Row /\ inTx \in BOOLEAN
      BY DEF TypeOK
    <3>. QED
      BY <1>9, <3>1 DEF LockConn
  <2>. QED
    BY <1>9, <2>1, <2>2, <2>3 DEF TypeOK, LockConn
<1>10. ASSUME NEW p \in Procs, StatementSucceeds(p) PROVE TypeOK'
  <2>1. cur[p] \in Op /\ step[p] \in 0..MaxStmts /\ step[p] < cur[p].size
    BY <1>10 DEF StatementSucceeds, ControlInv, TypeOK
  <2>2. <<cur[p].id, step[p] + 1>> \in Row /\ step[p] + 1 \in 0..MaxStmts
    BY <2>1, SqlDelayAssumption DEF Op, Row
  <2>3. db' \subseteq Row /\ tx' \subseteq Row
    BY <1>10, <2>2 DEF StatementSucceeds, TypeOK
  <2>4. /\ returned' \subseteq [op : Op, ok : BOOLEAN] /\ executed' \in Seq(Op)
        /\ pc' \in [Procs -> PcValues] /\ cur' \in [Procs -> Op \cup {NoOp}]
    BY <1>10, FinishType DEF StatementSucceeds, TypeOK
  <2>5. step' \in [Procs -> 0..MaxStmts]
    BY <1>10, <2>2 DEF StatementSucceeds, TypeOK
  <2>. QED
    BY <1>10, <2>3, <2>4, <2>5 DEF TypeOK, StatementSucceeds
<1>11. ASSUME NEW p \in Procs, StatementFails(p) PROVE TypeOK'
  BY <1>11, FinishType DEF TypeOK, StatementFails
<1>12. ASSUME NEW p \in Procs, CommitOnServer(p) PROVE TypeOK'
  <2>1. up \in BOOLEAN
    BY DEF TypeOK
  <2>. QED
    BY <1>12, <2>1, FinishType DEF TypeOK, CommitOnServer
<1>13. ASSUME NEW e \in Executors, LockQueue(e) PROVE TypeOK'
  BY <1>13, PcType DEF TypeOK, LockQueue, PcValues, Procs
<1>14. ASSUME NEW e \in Executors, MoveQueue(e) PROVE TypeOK'
  <2>1. pc' \in [Procs -> PcValues]
    BY <1>14, PcType DEF MoveQueue, PcValues, Procs
  <2>. QED
    BY <1>14, <2>1 DEF TypeOK, MoveQueue
<1>15. ASSUME NEW e \in Executors, Take(e) PROVE TypeOK'
  <2>1. batch[e] \in Seq(Op) /\ batch[e] # <<>> /\ e \in Procs
    BY <1>15 DEF Take, TypeOK, Procs
  <2>2. Head(batch[e]) \in Op /\ Tail(batch[e]) \in Seq(Op)
    BY <2>1, HeadTailProperties
  <2>3. pc' \in [Procs -> PcValues]
    BY <1>15, <2>1 DEF Take, TypeOK, PcValues
  <2>4. cur' \in [Procs -> Op \cup {NoOp}]
    BY <1>15, <2>1, <2>2 DEF Take, TypeOK
  <2>5. executed' \in Seq(Op)
    <3>1. executed \in Seq(Op) /\ Append(executed, Head(batch[e])) \in Seq(Op)
      BY <2>2, AppendProperties DEF TypeOK
    <3>2. executed' \in {executed, Append(executed, Head(batch[e]))}
      BY <1>15, Zenon DEF Take
    <3>. QED
      BY <3>1, <3>2
  <2>6. batch' \in [Executors -> Seq(Op)]
    BY <1>15, <2>2 DEF Take, TypeOK
  <2>. QED
    BY <1>15, <2>3, <2>4, <2>5, <2>6 DEF TypeOK, Take
<1>16. ASSUME NEW e \in Executors, RunQuery(e) PROVE TypeOK'
  <2>1. e \in Procs /\ cur[e] \in Op
    BY <1>16 DEF RunQuery, ControlInv, Procs
  <2>2. pc' \in [Procs -> PcValues]
    BY <1>16, <2>1, PcType DEF RunQuery, PcValues
  <2>3. ASSUME NEW ok \in {up, FALSE}
        PROVE  [op |-> cur[e], ok |-> ok, seen |-> IF ok THEN db \cup tx ELSE {}] \in Answer
    BY <2>1 DEF TypeOK, Answer
  <2>4. PICK a \in Answer : answer' = [answer EXCEPT ![e] = <<a>>]
    BY <1>16, <2>3 DEF RunQuery
  <2>5. answer' \in [Executors -> Seq(Answer)]
    BY <2>4 DEF TypeOK
  <2>. QED
    BY <1>16, <2>1, <2>2, <2>5 DEF TypeOK, RunQuery
<1>17. ASSUME NEW e \in Executors, AddResult(e) PROVE TypeOK'
  <2>1. pc' \in [Procs -> PcValues]
    BY <1>17, PcType DEF AddResult, PcValues, Procs
  <2>2. results' \in Seq(Answer) /\ answer' \in [Executors -> Seq(Answer)]
    BY <1>17 DEF AddResult, TypeOK
  <2>. QED
    BY <1>17, <2>1, <2>2 DEF TypeOK, AddResult
<1>18. CASE RunLoop
  <2>1. Delayer \in Procs
    BY DEF Procs, Executors
  <2>2. pc' \in [Procs -> PcValues]
    BY <1>18, <2>1, PcType DEF RunLoop, PingIsDue, BatchDone, Ping, EndOfRound, PcValues
  <2>3. UNCHANGED <<histVars, queueVars, opVars, trans, replyVars, lifeVars, dbVars>>
    BY <1>18 DEF RunLoop, PingIsDue, BatchDone, Ping, EndOfRound
  <2>. QED
    BY <2>2, <2>3 DEF TypeOK
<1>19. CASE StartUpdate \/ EndUpdate
  BY <1>19 DEF TypeOK, StartUpdate, EndUpdate
<1>20. CASE RunCallback
  <2>1. Head(results) \in Answer /\ Tail(results) \in Seq(Answer)
    BY <1>20, HeadTailProperties DEF RunCallback, TypeOK
  <2>2. Head(results).op.id \in 1..MaxOps
    BY <2>1 DEF Answer, Op
  <2>. QED
    BY <1>20, <2>1, <2>2 DEF TypeOK, RunCallback
<1>21. CASE MasterRun
  <2>1. Main \in Procs
    BY DEF Procs, Executors
  <2>2. pc' \in [Procs -> PcValues]
    BY <1>21, <2>1, PcType
    DEF TypeOK, MasterRun, AllowAsyncTransactions, ThreadsJoined, Stop, Flush, Halted, PcValues
  <2>3. /\ phase' \in {"serving", "shutdown", "stopping", "halting", "halted"}
        /\ running' \in {running, FALSE} /\ allowAsync' \in {allowAsync, TRUE}
        /\ alive' = alive
        /\ UNCHANGED <<histVars, queueVars, opVars, trans, replyVars, dbVars>>
    BY <1>21 DEF MasterRun, AllowAsyncTransactions, ThreadsJoined, Stop, Flush, Halted
  <2>. QED
    BY <2>2, <2>3 DEF TypeOK
<1>22. CASE ConnectionLost
  BY <1>22 DEF TypeOK, ConnectionLost
<1>23. CASE UNCHANGED vars
  BY <1>23 DEF TypeOK
<1>. QED
  BY <1>1, <1>2, <1>3, <1>4, <1>5, <1>6, <1>7, <1>8, <1>9, <1>10, <1>11, <1>12,
     <1>13, <1>14, <1>15, <1>16, <1>17, <1>18, <1>19, <1>20, <1>21, <1>22, <1>23
  DEF Next, Submit, OnConnection, ProcessRequests, UpdateResults, Terminated

-----------------------------------------------------------------------------
(* Control.                                                                *)

\* Enqueue and ExecuteHere, called by a thread that is free, keep control.
LEMMA SubmitControl ==
    ASSUME TypeOK, ControlInv, NEW t \in Submitters, MaySubmit(t), NEW o \in Op,
           \/ Enqueue(t, o)
           \/ ExecuteHere(t, o) /\ o.kind # "query",
           UNCHANGED <<alive, phase>>
    PROVE  ControlInv'
<1>. USE DEF ControlInv, AtSubmitter, AtExecution, FromQueue, MaySubmit,
             Procs, Submitters, Executors, TypeOK
<1>1. t # Delayer /\ t \in Procs
  BY SqlDelayAssumption
<1>2. pc' = pc /\ cur' = cur => ControlInv'
  BY SqlDelayAssumption
<1>3. ASSUME NEW v \in {"delay", "lock"}, pc' = [pc EXCEPT ![t] = v],
             cur' = [cur EXCEPT ![t] = o], v = "lock" => o.kind # "query"
      PROVE  ControlInv'
  <2>1. phase \in {"startup", "serving", "shutdown"} /\ (t = Main => phase # "serving")
    BY SqlDelayAssumption
  <2>. QED
    BY <1>1, <1>3, <2>1, SqlDelayAssumption
<1>. QED
  BY <1>2, <1>3 DEF Enqueue, ExecuteHere

\* A step that changes no program counter, no phase and no operation.
LEMMA IdleControl ==
    ASSUME ControlInv, UNCHANGED <<pc, cur, phase, alive>>
    PROVE  ControlInv'
BY DEF ControlInv, FromQueue

\* An operation that ends.
LEMMA FinishControl ==
    ASSUME TypeOK, ControlInv, NEW p \in Procs, pc[p] = "stmt", NEW ok \in BOOLEAN,
           Finish(p, ok), UNCHANGED <<alive, phase>>
    PROVE  ControlInv'
BY SqlDelayAssumption
DEF Finish, ControlInv, AtSubmitter, AtExecution, FromQueue, Procs, Executors, TypeOK

\* An executor at work moves its program counter, within the queue's code.
LEMMA ExecutorControl ==
    ASSUME pc \in [Procs -> PcValues],
           phase \in {"startup", "serving", "shutdown", "stopping", "halting", "halted"},
           ControlInv, NEW e \in Executors,
           pc[e] \in {"sleep", "grab", "move", "add", "take"},
           NEW v \in {"move", "take", "add", "lock"},
           v = "lock" => cur'[e] \in Op,
           \A p \in Procs \ {e} : cur'[p] = cur[p],
           pc' = [pc EXCEPT ![e] = v], UNCHANGED <<phase, alive>>
    PROVE  ControlInv'
<1>. USE SqlDelayAssumption DEF Procs, Executors
<1>1. e = Main => phase = "halting"
  BY DEF ControlInv, AtSubmitter
<1>2. e \in Procs /\ pc'[e] = v /\ e \notin Threads /\ FromQueue(e)
  BY <1>1 DEF FromQueue
<1>3. \A p \in Procs \ {e} : pc'[p] = pc[p]
  OBVIOUS
<1>4. /\ pc'[Delayer] \in {"sleep", "move", "ping", "exited"} \cup AtExecution
      /\ phase \in {"halting", "halted"} => pc'[Delayer] = "exited"
  BY <1>2, <1>3 DEF ControlInv, AtExecution
<1>5. /\ phase \in {"startup", "shutdown"} => pc'[Main] \in AtSubmitter
      /\ phase \in {"serving", "stopping"} => pc'[Main] = "idle"
      /\ phase = "halting" => pc'[Main] \in {"grab", "move"} \cup AtExecution
      /\ phase = "halted" => pc'[Main] = "exited"
  BY <1>1, <1>2, <1>3 DEF ControlInv, AtExecution
<1>6. \A t \in Threads : pc'[t] = pc[t]
  BY <1>2, <1>3
<1>7. ASSUME NEW p \in Procs
      PROVE  /\ pc'[p] \in {"delay", "lock", "stmt"} => cur'[p] \in Op
             /\ pc'[p] \in {"lock", "stmt"} /\ ~FromQueue(p) => cur'[p].kind # "query"
  BY <1>2, <1>3 DEF ControlInv
<1>. QED
  BY <1>4, <1>5, <1>6, <1>7 DEF ControlInv, FromQueue

\* Every step keeps the program counters in line with the phase.
LEMMA ControlStep ==
    ASSUME TypeOK, ControlInv, [Next]_vars
    PROVE  ControlInv'
<1>. USE DEF vars, histVars, queueVars, opVars, replyVars, lifeVars, dbVars
<1>1. ASSUME NEW t \in Submitters, BeginTransaction(t) \/ RollbackTransaction(t)
      PROVE  ControlInv'
  BY <1>1, IdleControl DEF BeginTransaction, RollbackTransaction
<1>2. ASSUME NEW t \in Submitters, Execute(t) PROVE ControlInv'
  <2>1. CASE UNCHANGED <<pc, cur>>
    BY <1>2, <2>1, IdleControl DEF Execute
  <2>2. CASE Enqueue(t, NewOp(t, "stmt", 1)) \/ ExecuteHere(t, NewOp(t, "stmt", 1))
    <3>1. NewOp(t, "stmt", 1) \in Op
      BY <2>2, NewOpType, TransType DEF Enqueue, ExecuteHere
    <3>2. NewOp(t, "stmt", 1).kind # "query"
      BY DEF NewOp
    <3>. QED
      BY <1>2, <2>2, <3>1, <3>2, SubmitControl DEF Execute
  <2>. QED
    BY <1>2, <2>1, <2>2 DEF Execute
<1>3. ASSUME NEW t \in Submitters, CommitTransaction(t) PROVE ControlInv'
  <2>1. NewOp(t, "trans", trans[t]) \in Op
    BY <1>3, NewOpType, TransType DEF CommitTransaction, Enqueue, ExecuteHere
  <2>2. NewOp(t, "trans", trans[t]).kind # "query"
    BY DEF NewOp
  <2>. QED
    BY <1>3, <2>1, <2>2, SubmitControl DEF CommitTransaction
<1>4. ASSUME NEW t \in Submitters, AsyncQuery(t) PROVE ControlInv'
  <2>1. NewOp(t, "query", 1) \in Op
    BY <1>4, NewOpType, TransType DEF AsyncQuery, Enqueue
  <2>. QED
    BY <1>4, <2>1, SubmitControl DEF AsyncQuery
<1>5. ASSUME NEW t \in Submitters, DirectExecute(t) PROVE ControlInv'
  <2>1. NewOp(t, "stmt", 1) \in Op
    BY <1>5, NewOpType, TransType DEF DirectExecute, ExecuteHere
  <2>2. NewOp(t, "stmt", 1).kind # "query"
    BY DEF NewOp
  <2>. QED
    BY <1>5, <2>1, <2>2, SubmitControl DEF DirectExecute
<1>6. ASSUME NEW p \in Procs,
             \/ StatementSucceeds(p) \/ StatementFails(p) \/ CommitOnServer(p)
      PROVE  ControlInv'
  <2>1. CASE Finish(p, TRUE) \/ Finish(p, FALSE)
    BY <1>6, <2>1, FinishControl DEF StatementSucceeds, StatementFails, CommitOnServer
  <2>2. CASE UNCHANGED <<pc, cur>>
    BY <1>6, <2>2, IdleControl DEF StatementSucceeds, StatementFails, CommitOnServer
  <2>3. up \in BOOLEAN
    BY DEF TypeOK
  <2>. QED
    BY <1>6, <2>1, <2>2, <2>3 DEF StatementSucceeds, StatementFails, CommitOnServer
<1>7. CASE StartUpdate \/ RunCallback \/ EndUpdate \/ ConnectionLost
  BY <1>7, IdleControl DEF StartUpdate, RunCallback, EndUpdate, ConnectionLost
<1>8. CASE UNCHANGED vars
  BY <1>8, IdleControl
<1>12. ASSUME NEW e \in Executors, LockQueue(e) \/ MoveQueue(e) \/ AddResult(e)
       PROVE  ControlInv'
  BY <1>12, ExecutorControl DEF LockQueue, MoveQueue, AddResult, TypeOK
<1>13. ASSUME NEW e \in Executors, Take(e) PROVE ControlInv'
  <2>1. batch[e] \in Seq(Op) /\ cur \in [Procs -> Op \cup {NoOp}] /\ e \in Procs
    BY <1>13 DEF Take, TypeOK, Procs
  <2>2. Head(batch[e]) \in Op
    BY <1>13, <2>1, HeadTailProperties DEF Take
  <2>3. CASE UNCHANGED <<pc, cur>>
    BY <1>13, <2>3, IdleControl DEF Take
  <2>4. CASE /\ pc' = [pc EXCEPT ![e] = "lock"]
             /\ cur' = [cur EXCEPT ![e] = Head(batch[e])]
    <3>1. cur'[e] = Head(batch[e]) /\ \A p \in Procs \ {e} : cur'[p] = cur[p]
      BY <2>1, <2>4
    <3>. QED
      BY <1>13, <2>2, <2>4, <3>1, ExecutorControl DEF Take, TypeOK
  <2>. QED
    BY <1>13, <2>3, <2>4 DEF Take
<1>15. CASE RunLoop
  <2>1. PICK v \in {"ping", "sleep", "exited"} : pc' = [pc EXCEPT ![Delayer] = v]
    BY <1>15 DEF RunLoop, PingIsDue, BatchDone, Ping, EndOfRound
  <2>2. UNCHANGED <<cur, phase, alive>> /\ pc[Delayer] \in {"take", "ping"}
    BY <1>15 DEF RunLoop, PingIsDue, BatchDone, Ping, EndOfRound
  <2>3. pc'[Delayer] = v /\ \A p \in Procs \ {Delayer} : pc'[p] = pc[p]
    BY <2>1 DEF TypeOK, Procs, Executors
  <2>4. Main # Delayer /\ Delayer \notin Threads /\ Main \in Procs
    BY SqlDelayAssumption DEF Procs, Executors
  <2>5. phase \notin {"halting", "halted"}
    BY <2>2 DEF ControlInv
  <2>. QED
    BY <2>2, <2>3, <2>4, <2>5 DEF ControlInv, FromQueue, Procs
<1>. USE SqlDelayAssumption
     DEF ControlInv, AtSubmitter, AtExecution, FromQueue, Procs, Submitters, Executors, TypeOK
<1>9. ASSUME NEW t \in Submitters, Delay(t) PROVE ControlInv'
  BY <1>9 DEF Delay
<1>10. ASSUME NEW t \in Threads, ThreadEnds(t) PROVE ControlInv'
  BY <1>10 DEF ThreadEnds, MaySubmit
<1>11. ASSUME NEW p \in Procs, LockConn(p) PROVE ControlInv'
  BY <1>11 DEF LockConn
<1>14. ASSUME NEW e \in Executors, RunQuery(e) PROVE ControlInv'
  BY <1>14 DEF RunQuery
<1>16. CASE MasterRun
  BY <1>16 DEF MasterRun, AllowAsyncTransactions, ThreadsJoined, Stop, Flush, Halted
<1>. QED
  BY <1>1, <1>2, <1>3, <1>4, <1>5, <1>6, <1>7, <1>8, <1>9, <1>10, <1>11, <1>12,
     <1>13, <1>14, <1>15, <1>16
  DEF Next, Submit, OnConnection, ProcessRequests, UpdateResults, Terminated

-----------------------------------------------------------------------------
(* The queue.                                                              *)

\* Every step keeps the batches where ControlInv puts the executors.
LEMMA QueueStep ==
    ASSUME TypeOK, ControlInv, QueueInv, [Next]_vars
    PROVE  QueueInv'
<1>. USE SqlDelayAssumption
     DEF vars, histVars, queueVars, opVars, replyVars, lifeVars, dbVars,
         QueueInv, Flushing, ControlInv, AtSubmitter, AtExecution, FromQueue,
         Procs, Submitters, Executors
<1>0. pc \in [Procs -> PcValues] /\ batch \in [Executors -> Seq(Op)]
  BY DEF TypeOK
<1>1. ASSUME NEW t \in Submitters,
             \/ BeginTransaction(t) \/ Execute(t) \/ CommitTransaction(t)
             \/ RollbackTransaction(t) \/ AsyncQuery(t) \/ DirectExecute(t)
      PROVE  QueueInv'
  BY <1>0, <1>1 DEF BeginTransaction, Execute, CommitTransaction, RollbackTransaction,
     AsyncQuery, DirectExecute, Enqueue, ExecuteHere, MaySubmit
<1>2. ASSUME NEW t \in Submitters, Delay(t) PROVE QueueInv'
  BY <1>0, <1>2 DEF Delay
<1>3. ASSUME NEW t \in Threads, ThreadEnds(t) PROVE QueueInv'
  BY <1>0, <1>3 DEF ThreadEnds
<1>4. ASSUME NEW p \in Procs,
             \/ LockConn(p) \/ StatementSucceeds(p) \/ StatementFails(p)
             \/ CommitOnServer(p)
      PROVE  QueueInv'
  BY <1>0, <1>4 DEF LockConn, StatementSucceeds, StatementFails, CommitOnServer, Finish
<1>5. ASSUME NEW e \in Executors, LockQueue(e) PROVE QueueInv'
  BY <1>0, <1>5 DEF LockQueue
<1>6. ASSUME NEW e \in Executors, MoveQueue(e) PROVE QueueInv'
  <2>1. /\ pc' = [pc EXCEPT ![e] = "take"] /\ batch' = [batch EXCEPT ![e] = sqlQueue]
        /\ sqlQueue' = <<>> /\ phase' = phase /\ pc[e] = "move"
    BY <1>6 DEF MoveQueue
  <2>2. CASE e = Delayer
    BY <1>0, <2>1, <2>2
  <2>3. CASE e = Main
    <3>1. phase = "halting"
      BY <2>1, <2>3 DEF TypeOK
    <3>. QED
      BY <1>0, <2>1, <2>3, <3>1
  <2>. QED
    BY <2>2, <2>3
<1>7. ASSUME NEW e \in Executors, Take(e) PROVE QueueInv'
  BY <1>0, <1>7 DEF Take
<1>8. ASSUME NEW e \in Executors, RunQuery(e) \/ AddResult(e) PROVE QueueInv'
  BY <1>0, <1>8 DEF RunQuery, AddResult
<1>9. CASE RunLoop
  BY <1>0, <1>9 DEF RunLoop, PingIsDue, BatchDone, Ping, EndOfRound
<1>10. CASE UpdateResults \/ ConnectionLost
  BY <1>0, <1>10 DEF UpdateResults, StartUpdate, RunCallback, EndUpdate, ConnectionLost
<1>11. CASE MasterRun
  BY <1>0, <1>11
  DEF MasterRun, AllowAsyncTransactions, ThreadsJoined, Stop, Flush, Halted
<1>12. CASE UNCHANGED vars
  BY <1>12
<1>. QED
  BY <1>1, <1>2, <1>3, <1>4, <1>5, <1>6, <1>7, <1>8, <1>9, <1>10, <1>11, <1>12
  DEF Next, Submit, OnConnection, ProcessRequests, Terminated

\* A nonempty sequence is its head and its tail.
LEMMA Pop ==
    ASSUME NEW S, NEW s \in Seq(S), s # <<>>
    PROVE  /\ Head(s) \in S /\ Tail(s) \in Seq(S) /\ <<Head(s)>> \in Seq(S)
           /\ <<Head(s)>> \o Tail(s) = s
<1>1. Head(s) \in S /\ Tail(s) \in Seq(S) /\ <<Head(s)>> \in Seq(S)
  BY HeadTailProperties
<1>2. <<Head(s)>> \o Tail(s) = s
  <2>1. /\ Len(Tail(s)) = Len(s) - 1 /\ Head(s) = s[1] /\ Len(s) \in Nat
        /\ \A i \in 1..Len(Tail(s)) : Tail(s)[i] = s[i + 1]
    BY HeadTailProperties, LenProperties, EmptySeq
  <2>2. /\ <<Head(s)>> \o Tail(s) \in Seq(S)
        /\ Len(<<Head(s)>> \o Tail(s)) = Len(s)
        /\ \A i \in 1..Len(s) : (<<Head(s)>> \o Tail(s))[i] =
              IF i <= 1 THEN Head(s) ELSE Tail(s)[i - 1]
    BY <1>1, <2>1, ConcatProperties
  <2>3. \A i \in 1..Len(s) : (<<Head(s)>> \o Tail(s))[i] = s[i]
    BY <2>1, <2>2
  <2>. QED
    BY <2>2, <2>3, SeqEqual
<1>. QED
  BY <1>1, <1>2

\* Operations in flight are typed.
LEMMA InFlightType ==
    ASSUME TypeOK, ControlInv, NEW e \in Executors
    PROVE  InFlight(e) \in Seq(Op)
BY DEF InFlight, ControlInv, Procs

(* What is pending keeps its order and leaves at the front.  Sequences are *)
(* kept opaque: the step only uses that they form a monoid under \o.       *)
LEMMA FifoStep ==
    ASSUME TypeOK, ControlInv, QueueInv, Fifo, [Next]_vars, TypeOK', ControlInv'
    PROVE  Fifo'
<1>. DEFINE cat(x, y) == x \o y
            T == Seq(Op)
            nil == <<>>
            one(o) == <<o>>
<1>1. \A x, y \in T : cat(x, y) \in T
  BY ConcatProperties
<1>2. \A x, y, z \in T : cat(cat(x, y), z) = cat(x, cat(y, z))
  BY ConcatAssociative
<1>3. nil \in T /\ \A x \in T : cat(nil, x) = x /\ cat(x, nil) = x
  BY ConcatEmptySeq
<1>4. \A x \in T : \A o \in Op : Append(x, o) = cat(x, one(o)) /\ one(o) \in T
  BY AppendIsConcat
<1>5. \A x \in T : x # nil =>
         Head(x) \in Op /\ Tail(x) \in T /\ x = cat(one(Head(x)), Tail(x))
  BY Pop
<1>6. /\ executed \in T /\ submitted \in T /\ sqlQueue \in T
      /\ executed' \in T /\ submitted' \in T /\ sqlQueue' \in T
      /\ \A e \in Executors : batch[e] \in T /\ batch[e]' \in T
  BY DEF TypeOK
<1>7. \A e \in Executors : InFlight(e) \in T /\ InFlight(e)' \in T
  <2>1. ASSUME NEW e \in Executors PROVE InFlight(e) \in T
    BY InFlightType
  <2>2. ASSUME NEW e \in Executors PROVE InFlight(e)' \in T
    <3>1. e \in Procs
      BY DEF Procs
    <3>2. pc'[e] \in {"lock", "stmt"} => cur'[e] \in Op
      BY <3>1 DEF ControlInv
    <3>. QED
      BY <3>2 DEF InFlight
  <2>. QED
    BY <2>1, <2>2
<1>8. Fifo <=> cat(executed, cat(cat(cat(cat(InFlight(Delayer), batch[Delayer]),
                  InFlight(Main)), batch[Main]), sqlQueue)) = submitted
  BY DEF Fifo, Pending
<1>9. Fifo' <=> cat(executed', cat(cat(cat(cat(InFlight(Delayer)', batch[Delayer]'),
                  InFlight(Main)'), batch[Main]'), sqlQueue')) = submitted'
  BY DEF Fifo, Pending
<1>10. \A e \in Executors :
          /\ InFlight(e) = IF FromQueue(e) /\ pc[e] \in {"lock", "stmt"} THEN one(cur[e]) ELSE nil
          /\ InFlight(e)' = IF FromQueue(e)' /\ pc'[e] \in {"lock", "stmt"}
                            THEN one(cur'[e]) ELSE nil
  BY DEF InFlight
<1>. HIDE DEF cat, T, nil, one
<1>11. Delayer \in Executors /\ Main \in Executors /\ Delayer # Main
       /\ Executors \subseteq Procs /\ \A e \in Executors : e \notin Threads
  BY SqlDelayAssumption DEF Executors, Procs
<1>12. ASSUME UNCHANGED <<executed, submitted, sqlQueue, batch>>,
              \A e \in Executors : InFlight(e)' = InFlight(e)
       PROVE  Fifo'
  BY <1>8, <1>9, <1>11, <1>12
<1>13. ASSUME UNCHANGED <<executed, submitted, sqlQueue, batch, phase>>,
              \A e \in Executors : FromQueue(e) => pc'[e] = pc[e] /\ cur'[e] = cur[e]
       PROVE  Fifo'
  <2>1. \A e \in Executors : FromQueue(e)' = FromQueue(e)
    BY <1>13 DEF FromQueue
  <2>2. \A e \in Executors : InFlight(e)' = InFlight(e)
    BY <1>10, <1>13, <2>1
  <2>. QED
    BY <1>12, <1>13, <2>2
<1>14. ASSUME NEW t \in Submitters, MaySubmit(t) PROVE t \in Executors => ~FromQueue(t)
  BY <1>11, <1>14 DEF MaySubmit, FromQueue, Executors, Submitters, TypeOK
<1>. USE DEF vars, histVars, queueVars, opVars, replyVars, lifeVars, dbVars
<1>15. pc \in [Procs -> PcValues] /\ cur \in [Procs -> Op \cup {NoOp}]
       /\ batch \in [Executors -> Seq(Op)]
  BY DEF TypeOK
<1>16. ASSUME NEW t \in Submitters, Submit(t) PROVE Fifo'
  <2>1. MaySubmit(t) /\ UNCHANGED <<executed, submitted, sqlQueue, batch, phase>>
    BY <1>16 DEF Submit, BeginTransaction, Execute, CommitTransaction,
       RollbackTransaction, AsyncQuery, DirectExecute
  <2>2. \A p \in Procs \ {t} : pc'[p] = pc[p] /\ cur'[p] = cur[p]
    BY <1>15, <1>16 DEF Submit, BeginTransaction, Execute, CommitTransaction,
       RollbackTransaction, AsyncQuery, DirectExecute, Enqueue, ExecuteHere
  <2>. QED
    BY <1>11, <1>13, <1>14, <2>1, <2>2
<1>17. ASSUME NEW t \in Submitters, Delay(t) PROVE Fifo'
  <2>1. /\ t \in Procs /\ cur[t] \in Op /\ pc[t] = "delay"
        /\ UNCHANGED <<executed, batch, phase>>
        /\ sqlQueue' = cat(sqlQueue, one(cur[t])) /\ submitted' = cat(submitted, one(cur[t]))
    BY <1>4, <1>6, <1>17 DEF Delay, ControlInv, Procs, Submitters, Executors
  <2>2. \A e \in Executors : FromQueue(e)' = FromQueue(e)
    BY <2>1 DEF FromQueue
  <2>3. t \in Executors => ~FromQueue(t)
    BY <1>11, <2>1 DEF FromQueue, ControlInv, AtExecution, Executors
  <2>4. \A e \in Executors : InFlight(e)' = InFlight(e)
    BY <1>10, <1>11, <1>15, <1>17, <2>2, <2>3 DEF Delay
  <2>5. one(cur[t]) \in T
    BY <1>4, <1>6, <2>1
  <2>6. \A x, q \in T : cat(executed, cat(x, cat(q, one(cur[t])))) = cat(cat(executed, cat(x, q)), one(cur[t]))
    BY <1>1, <1>2, <1>6, <2>5
  <2>. DEFINE before == cat(cat(cat(InFlight(Delayer), batch[Delayer]), InFlight(Main)), batch[Main])
  <2>7. before \in T
    BY <1>1, <1>6, <1>7, <1>11
  <2>8. cat(executed, cat(before, sqlQueue)) = submitted
    BY <1>8
  <2>9. cat(executed, cat(before, cat(sqlQueue, one(cur[t])))) = cat(submitted, one(cur[t]))
    BY <1>6, <2>6, <2>7, <2>8
  <2>. QED
    BY <1>9, <1>11, <2>1, <2>4, <2>9
<1>18. ASSUME NEW p \in Procs, LockConn(p) PROVE Fifo'
  <2>1. \A e \in Executors : FromQueue(e)' = FromQueue(e)
    BY <1>18 DEF FromQueue, LockConn
  <2>2. \A e \in Executors : InFlight(e)' = InFlight(e)
    BY <1>10, <1>11, <1>15, <1>18, <2>1 DEF LockConn
  <2>. QED
    BY <1>12, <1>18, <2>2 DEF LockConn
<1>19. /\ \A a, b, c, d, e \in T :
             cat(cat(cat(cat(a, b), c), d), e) = cat(a, cat(b, cat(c, cat(d, e))))
       /\ \A x, y \in T : \A o \in Op :
             cat(x, cat(one(o), y)) = cat(cat(x, one(o)), cat(nil, y))
  <2>1. ASSUME NEW a \in T, NEW b \in T, NEW c \in T, NEW d \in T, NEW e \in T
        PROVE  cat(cat(cat(cat(a, b), c), d), e) = cat(a, cat(b, cat(c, cat(d, e))))
    <3>1. /\ cat(a, b) \in T /\ cat(cat(a, b), c) \in T
          /\ cat(d, e) \in T /\ cat(c, cat(d, e)) \in T
      BY <1>1
    <3>. QED
      BY <1>2, <3>1
  <2>2. ASSUME NEW x \in T, NEW y \in T, NEW o \in Op
        PROVE  cat(x, cat(one(o), y)) = cat(cat(x, one(o)), cat(nil, y))
    BY <1>2, <1>3, <1>4
  <2>. QED
    BY <2>1, <2>2
<1>20. Fifo <=> cat(executed, cat(InFlight(Delayer), cat(batch[Delayer],
                  cat(InFlight(Main), cat(batch[Main], sqlQueue))))) = submitted
  <2>1. PICK a \in T : a = InFlight(Delayer)
    BY <1>6, <1>7, <1>11
  <2>2. PICK b \in T : b = batch[Delayer]
    BY <1>6, <1>7, <1>11
  <2>3. PICK c \in T : c = InFlight(Main)
    BY <1>6, <1>7, <1>11
  <2>4. PICK d \in T : d = batch[Main]
    BY <1>6, <1>7, <1>11
  <2>5. PICK e \in T : e = sqlQueue
    BY <1>6, <1>7, <1>11
  <2>6. cat(cat(cat(cat(a, b), c), d), e) = cat(a, cat(b, cat(c, cat(d, e))))
    BY <1>19
  <2>. QED
    BY <1>8, <2>1, <2>2, <2>3, <2>4, <2>5, <2>6
<1>21. Fifo' <=> cat(executed', cat(InFlight(Delayer)', cat(batch[Delayer]',
                  cat(InFlight(Main)', cat(batch[Main]', sqlQueue'))))) = submitted'
  <2>1. PICK a \in T : a = InFlight(Delayer)'
    BY <1>6, <1>7, <1>11
  <2>2. PICK b \in T : b = batch[Delayer]'
    BY <1>6, <1>7, <1>11
  <2>3. PICK c \in T : c = InFlight(Main)'
    BY <1>6, <1>7, <1>11
  <2>4. PICK d \in T : d = batch[Main]'
    BY <1>6, <1>7, <1>11
  <2>5. PICK e \in T : e = sqlQueue'
    BY <1>6, <1>7, <1>11
  <2>6. cat(cat(cat(cat(a, b), c), d), e) = cat(a, cat(b, cat(c, cat(d, e))))
    BY <1>19
  <2>. QED
    BY <1>9, <2>1, <2>2, <2>3, <2>4, <2>5, <2>6
<1>22. phase = "halting" => InFlight(Delayer) = nil /\ batch[Delayer] = nil
  BY <1>10, <1>11 DEF ControlInv, QueueInv, AtExecution, nil
<1>23. ~Flushing => InFlight(Main) = nil /\ batch[Main] = nil
  BY <1>10, <1>11 DEF QueueInv, Flushing, FromQueue, AtExecution, nil
<1>24. ASSUME NEW e \in Executors, FromQueue(e), NEW o \in Op, InFlight(e) = one(o),
              InFlight(e)' = nil, \A f \in Executors \ {e} : InFlight(f)' = InFlight(f),
              UNCHANGED <<submitted, sqlQueue, batch>>, executed' = Append(executed, o)
       PROVE  Fifo'
  <2>1. executed' = cat(executed, one(o))
    BY <1>4, <1>6, <1>24
  <2>2. CASE e = Delayer
    <3>. DEFINE rest == cat(batch[Delayer], cat(InFlight(Main), cat(batch[Main], sqlQueue)))
    <3>1. rest \in T
      BY <1>1, <1>6, <1>7, <1>11
    <3>3. cat(executed, cat(one(o), rest)) = cat(cat(executed, one(o)), cat(nil, rest))
      BY <1>6, <1>19, <1>24, <3>1
    <3>2. InFlight(Delayer) = one(o) /\ InFlight(Delayer)' = nil /\ InFlight(Main)' = InFlight(Main)
      BY <1>11, <1>24, <2>2
    <3>. QED
      BY <1>20, <1>21, <1>24, <2>1, <3>2, <3>3
  <2>3. CASE e = Main
    <3>1. phase = "halting"
      BY <1>11, <1>24, <2>3 DEF FromQueue
    <3>2. cat(executed, cat(cat(cat(cat(nil, nil), one(o)), batch[Main]), sqlQueue))
            = cat(cat(executed, one(o)), cat(cat(cat(cat(nil, nil), nil), batch[Main]), sqlQueue))
      <4>1. cat(batch[Main], sqlQueue) \in T /\ one(o) \in T /\ cat(nil, nil) = nil
        BY <1>1, <1>3, <1>4, <1>6, <1>11, <1>24
      <4>2. /\ cat(cat(cat(nil, one(o)), batch[Main]), sqlQueue)
                 = cat(one(o), cat(batch[Main], sqlQueue))
            /\ cat(cat(cat(nil, nil), batch[Main]), sqlQueue)
                 = cat(nil, cat(batch[Main], sqlQueue))
        BY <1>2, <1>3, <1>6, <1>11, <4>1
      <4>. QED
        BY <1>6, <1>19, <1>24, <4>1, <4>2
    <3>3. /\ InFlight(Main) = one(o) /\ InFlight(Main)' = nil
          /\ InFlight(Delayer)' = nil /\ InFlight(Delayer) = nil /\ batch[Delayer] = nil
      BY <1>11, <1>22, <1>24, <2>3, <3>1
    <3>. QED
      BY <1>8, <1>9, <1>24, <2>1, <3>2, <3>3
  <2>. QED
    BY <2>2, <2>3 DEF Executors
<1>25. ASSUME NEW p \in Procs, StatementSucceeds(p) \/ StatementFails(p) \/ CommitOnServer(p)
       PROVE  Fifo'
  <2>1. /\ pc[p] = "stmt" /\ cur[p] \in Op
        /\ UNCHANGED <<submitted, sqlQueue, batch, phase>>
    BY <1>25 DEF StatementSucceeds, StatementFails, CommitOnServer, ControlInv
  <2>2. \/ UNCHANGED <<executed, pc, cur>>
        \/ Finish(p, TRUE) \/ Finish(p, FALSE)
    BY <1>25 DEF StatementSucceeds, StatementFails, CommitOnServer, TypeOK
  <2>3. CASE UNCHANGED <<executed, pc, cur>>
    BY <1>13, <2>1, <2>3
  <2>4. CASE Finish(p, TRUE) \/ Finish(p, FALSE)
    <3>1. /\ pc' = [pc EXCEPT ![p] = IF FromQueue(p) THEN "take" ELSE "idle"]
          /\ cur' = [cur EXCEPT ![p] = NoOp]
          /\ executed' = IF FromQueue(p) THEN Append(executed, cur[p]) ELSE executed
      BY <2>4 DEF Finish
    <3>2. CASE ~FromQueue(p)
      BY <1>11, <1>13, <1>15, <2>1, <3>1, <3>2
    <3>3. CASE FromQueue(p)
      <4>1. p \in Executors
        BY <3>3 DEF FromQueue, Executors
      <4>2. \A e \in Executors : FromQueue(e)' = FromQueue(e)
        BY <2>1 DEF FromQueue
      <4>3. /\ InFlight(p) = one(cur[p]) /\ InFlight(p)' = nil
            /\ \A f \in Executors \ {p} : InFlight(f)' = InFlight(f)
        BY <1>10, <1>11, <1>15, <2>1, <3>1, <3>3, <4>1, <4>2
      <4>. QED
        BY <1>24, <2>1, <3>1, <3>3, <4>1, <4>3
    <3>. QED
      BY <3>2, <3>3
  <2>. QED
    BY <2>2, <2>3, <2>4
<1>26. ASSUME NEW e \in Executors, RunQuery(e) PROVE Fifo'
  <2>1. /\ pc[e] = "stmt" /\ cur[e] \in Op /\ cur[e].kind = "query" /\ e \in Procs
        /\ UNCHANGED <<submitted, sqlQueue, batch, phase>>
        /\ executed' = Append(executed, cur[e]) /\ cur' = [cur EXCEPT ![e] = NoOp]
        /\ pc' = [pc EXCEPT ![e] = "add"]
    BY <1>11, <1>26 DEF RunQuery, ControlInv
  <2>2. FromQueue(e) /\ \A f \in Executors : FromQueue(f)' = FromQueue(f)
    BY <2>1 DEF FromQueue, ControlInv
  <2>3. /\ InFlight(e) = one(cur[e]) /\ InFlight(e)' = nil
        /\ \A f \in Executors \ {e} : InFlight(f)' = InFlight(f)
    BY <1>10, <1>11, <1>15, <2>1, <2>2
  <2>. QED
    BY <1>24, <2>1, <2>2, <2>3
<1>27. ASSUME NEW e \in Executors, LockQueue(e) \/ AddResult(e) PROVE Fifo'
  <2>1. /\ pc[e] \in {"sleep", "grab", "add"} /\ e \in Procs
        /\ \E v \in {"move", "take"} : pc' = [pc EXCEPT ![e] = v]
        /\ UNCHANGED <<executed, submitted, sqlQueue, batch, cur, phase>>
    BY <1>11, <1>27 DEF LockQueue, AddResult
  <2>2. \A f \in Executors : FromQueue(f)' = FromQueue(f)
    BY <2>1 DEF FromQueue
  <2>3. \A f \in Executors : InFlight(f)' = InFlight(f)
    BY <1>10, <1>11, <1>15, <2>1, <2>2
  <2>. QED
    BY <1>12, <2>1, <2>3
<1>28. ASSUME NEW e \in Executors, MoveQueue(e) PROVE Fifo'
  <2>1. /\ pc[e] = "move" /\ e \in Procs /\ pc' = [pc EXCEPT ![e] = "take"]
        /\ batch' = [batch EXCEPT ![e] = sqlQueue] /\ sqlQueue' = nil
        /\ UNCHANGED <<executed, submitted, cur, phase>>
    BY <1>11, <1>28 DEF MoveQueue, nil
  <2>2. \A f \in Executors : FromQueue(f)' = FromQueue(f)
    BY <2>1 DEF FromQueue
  <2>3. InFlight(e) = nil /\ \A f \in Executors : InFlight(f)' = InFlight(f)
    BY <1>10, <1>11, <1>15, <2>1, <2>2
  <2>4. CASE e = Delayer
    <3>1. ~Flushing
      BY <2>1, <2>4 DEF Flushing, ControlInv
    <3>2. InFlight(Main) = nil /\ batch[Main] = nil /\ batch[Delayer] = nil
      BY <1>23, <2>1, <2>4, <3>1 DEF QueueInv, AtExecution, nil
    <3>3. batch[Main]' = nil /\ batch[Delayer]' = sqlQueue
      BY <1>11, <1>15, <2>1, <2>4, <3>2
    <3>4. cat(cat(cat(cat(nil, nil), nil), nil), sqlQueue) = cat(cat(cat(cat(nil, sqlQueue), nil), nil), nil)
      BY <1>1, <1>3, <1>6
    <3>. QED
      BY <1>8, <1>9, <1>11, <2>1, <2>3, <2>4, <3>2, <3>3, <3>4
  <2>5. CASE e = Main
    <3>1. ~Flushing
      BY <2>1, <2>5 DEF Flushing, AtExecution
    <3>2. InFlight(Main) = nil /\ batch[Main] = nil
      BY <1>23, <3>1
    <3>3. batch[Main]' = sqlQueue /\ batch[Delayer]' = batch[Delayer]
      BY <1>11, <1>15, <2>1, <2>5
    <3>4. cat(InFlight(Delayer), batch[Delayer]) \in T
      BY <1>1, <1>6, <1>7, <1>11
    <3>5. \A x \in T : cat(cat(cat(x, nil), nil), sqlQueue) = cat(cat(cat(x, nil), sqlQueue), nil)
      BY <1>1, <1>3, <1>6
    <3>. QED
      BY <1>8, <1>9, <1>11, <2>1, <2>3, <3>2, <3>3, <3>4, <3>5
  <2>. QED
    BY <2>4, <2>5 DEF Executors
<1>29. ASSUME NEW e \in Executors, Take(e) PROVE Fifo'
  <2>. DEFINE h == Head(batch[e])
              r == Tail(batch[e])
  <2>1. /\ pc[e] = "take" /\ e \in Procs /\ batch[e] \in T /\ batch[e] # nil
        /\ batch' = [batch EXCEPT ![e] = r]
        /\ UNCHANGED <<submitted, sqlQueue, phase>>
    BY <1>6, <1>11, <1>29 DEF Take, nil
  <2>2. h \in Op /\ r \in T /\ batch[e] = cat(one(h), r)
    BY <1>5, <2>1
  <2>3. FromQueue(e) /\ \A f \in Executors : FromQueue(f)' = FromQueue(f)
    BY <1>11, <2>1 DEF FromQueue, ControlInv, AtSubmitter, Executors, TypeOK
  <2>4. InFlight(e) = nil
    BY <1>10, <2>1
  <2>5. batch'[e] = r /\ \A f \in Executors \ {e} : batch'[f] = batch[f]
    BY <1>15, <2>1
  <2>6. \/ executed' = Append(executed, h) /\ UNCHANGED <<pc, cur>>
        \/ /\ executed' = executed /\ pc' = [pc EXCEPT ![e] = "lock"]
           /\ cur' = [cur EXCEPT ![e] = h]
    BY <1>29 DEF Take
  <2>. HIDE DEF h, r
  <2>7. \A f \in Executors \ {e} : InFlight(f)' = InFlight(f)
    BY <1>10, <1>11, <1>15, <2>1, <2>3, <2>6
  <2>8. /\ one(h) \in T /\ nil \in T
        /\ cat(nil, batch[e]) = cat(one(h), r)
        /\ \A x \in T : cat(cat(x, nil), batch[e]) = cat(cat(x, one(h)), r)
    BY <1>2, <1>3, <1>4, <1>6, <2>1, <2>2
  <2>9. e = Main => InFlight(Delayer) = nil /\ batch[Delayer] = nil
    BY <1>11, <1>22, <2>3 DEF FromQueue
  <2>10. CASE executed' = executed /\ pc' = [pc EXCEPT ![e] = "lock"]
              /\ cur' = [cur EXCEPT ![e] = h]
    <3>1. InFlight(e)' = one(h)
      BY <1>10, <1>11, <1>15, <2>1, <2>3, <2>10
    <3>2. CASE e = Delayer
      BY <1>8, <1>9, <1>11, <2>1, <2>4, <2>5, <2>7, <2>8, <2>10, <3>1, <3>2
    <3>3. CASE e = Main
      <4>1. cat(InFlight(Delayer), batch[Delayer]) = nil
        BY <1>3, <2>9, <3>3
      <4>2. cat(cat(nil, nil), batch[Main]) = cat(cat(nil, one(h)), r)
        BY <2>8, <3>3
      <4>3. /\ InFlight(Delayer)' = InFlight(Delayer) /\ batch[Delayer]' = batch[Delayer]
            /\ InFlight(Main)' = one(h) /\ batch[Main]' = r /\ InFlight(Main) = nil
        BY <1>11, <2>4, <2>5, <2>7, <3>1, <3>3
      <4>. QED
        BY <1>8, <1>9, <2>1, <2>10, <4>1, <4>2, <4>3
    <3>. QED
      BY <3>2, <3>3 DEF Executors
  <2>11. CASE executed' = Append(executed, h) /\ UNCHANGED <<pc, cur>>
    <3>1. executed' = cat(executed, one(h)) /\ InFlight(e)' = nil
      BY <1>4, <1>6, <1>10, <2>1, <2>2, <2>11
    <3>2. CASE e = Delayer
      <4>. DEFINE rest == cat(InFlight(Main), cat(batch[Main], sqlQueue))
      <4>1. rest \in T /\ cat(r, rest) \in T
        BY <1>1, <1>6, <1>7, <1>11, <2>2
      <4>3. cat(executed, cat(one(h), cat(r, rest))) = cat(cat(executed, one(h)), cat(nil, cat(r, rest)))
        BY <1>6, <1>19, <2>2, <4>1
      <4>4. cat(nil, cat(batch[Delayer], rest)) = cat(one(h), cat(r, rest))
        BY <1>2, <1>3, <1>6, <1>11, <2>2, <2>8, <3>2, <4>1
      <4>2. /\ InFlight(Delayer)' = nil /\ batch[Delayer]' = r /\ batch[Main]' = batch[Main]
            /\ InFlight(Main)' = InFlight(Main) /\ InFlight(Delayer) = nil
        BY <1>11, <2>4, <2>5, <2>7, <3>1, <3>2
      <4>. QED
        BY <1>20, <1>21, <2>1, <3>1, <4>2, <4>3, <4>4
    <3>3. CASE e = Main
      <4>1. cat(executed, cat(cat(cat(cat(nil, nil), one(h)), r), sqlQueue))
              = cat(cat(executed, one(h)), cat(cat(cat(cat(nil, nil), nil), r), sqlQueue))
        <5>1. cat(r, sqlQueue) \in T /\ cat(nil, nil) = nil
          BY <1>1, <1>3, <1>6, <2>2
        <5>2. /\ cat(cat(cat(nil, one(h)), r), sqlQueue) = cat(one(h), cat(r, sqlQueue))
              /\ cat(cat(cat(nil, nil), r), sqlQueue) = cat(nil, cat(r, sqlQueue))
          BY <1>2, <1>3, <1>6, <2>2, <2>8
        <5>. QED
          BY <1>6, <1>19, <2>2, <5>1, <5>2
      <4>2. cat(cat(cat(nil, nil), nil), batch[Main]) = cat(cat(cat(nil, nil), one(h)), r)
        BY <1>3, <2>8, <3>3
      <4>3. /\ InFlight(Delayer) = nil /\ batch[Delayer] = nil /\ InFlight(Main) = nil
            /\ InFlight(Delayer)' = nil /\ batch[Delayer]' = nil
            /\ InFlight(Main)' = nil /\ batch[Main]' = r
        BY <1>11, <2>4, <2>5, <2>7, <2>9, <3>1, <3>3
      <4>. QED
        BY <1>8, <1>9, <2>1, <3>1, <4>1, <4>2, <4>3
    <3>. QED
      BY <3>2, <3>3 DEF Executors
  <2>. QED
    BY <2>6, <2>10, <2>11
<1>30. CASE RunLoop \/ UpdateResults \/ ConnectionLost
  <2>1. /\ UNCHANGED <<executed, submitted, sqlQueue, batch, cur, phase>>
        /\ \/ pc' = pc
           \/ /\ pc[Delayer] \in {"take", "ping"}
              /\ \E v \in {"ping", "sleep", "exited"} : pc' = [pc EXCEPT ![Delayer] = v]
    BY <1>30 DEF RunLoop, PingIsDue, BatchDone, Ping, EndOfRound, UpdateResults,
       StartUpdate, RunCallback, EndUpdate, ConnectionLost
  <2>2. \A f \in Executors : FromQueue(f)' = FromQueue(f)
    BY <2>1 DEF FromQueue
  <2>3. \A f \in Executors : InFlight(f)' = InFlight(f)
    BY <1>10, <1>11, <1>15, <2>1, <2>2
  <2>. QED
    BY <1>12, <2>1, <2>3
<1>31. CASE MasterRun \/ \E t \in Threads : ThreadEnds(t)
  <2>1. /\ UNCHANGED <<executed, submitted, sqlQueue, batch, cur>>
        /\ \A p \in Procs \ {Main} : pc'[p] = pc[p]
    BY <1>15, <1>31 DEF MasterRun, AllowAsyncTransactions, ThreadsJoined, Stop, Flush,
       Halted, ThreadEnds
  <2>2. InFlight(Delayer)' = InFlight(Delayer)
    BY <1>10, <1>11, <2>1 DEF FromQueue
  <2>3. InFlight(Main) = nil /\ InFlight(Main)' = nil
    BY <1>10, <1>11, <1>15, <1>31 DEF MasterRun, AllowAsyncTransactions, ThreadsJoined, Stop,
       Flush, Halted, ThreadEnds, FromQueue, MaySubmit
  <2>. QED
    BY <1>12, <2>1, <2>2, <2>3 DEF Executors
<1>32. CASE UNCHANGED vars
  BY <1>13, <1>32
<1>. QED
  BY <1>16, <1>17, <1>18, <1>25, <1>26, <1>27, <1>28, <1>29, <1>30, <1>31, <1>32
  DEF Next, OnConnection, ProcessRequests, Terminated

\* The invariant holds at the start.
LEMMA InitInv == Init => TypeOK /\ ControlInv /\ QueueInv /\ Fifo
<1>. SUFFICES ASSUME Init PROVE TypeOK /\ ControlInv /\ QueueInv /\ Fifo
  OBVIOUS
<1>. USE SqlDelayAssumption DEF Init
<1>1. TypeOK
  <2>1. pc \in [Procs -> PcValues] /\ next \in 1..MaxOps + 1
    BY DEF PcValues
  <2>2. /\ submitted \in Seq(Op) /\ executed \in Seq(Op) /\ sqlQueue \in Seq(Op)
        /\ batch \in [Executors -> Seq(Op)] /\ results \in Seq(Answer)
        /\ answer \in [Executors -> Seq(Answer)] /\ delivered \in Seq(1..MaxOps)
    OBVIOUS
  <2>3. /\ cur \in [Procs -> Op \cup {NoOp}] /\ step \in [Procs -> 0..MaxStmts]
        /\ trans \in [Submitters -> 0..MaxStmts \cup {NoTrans}]
    OBVIOUS
  <2>. QED
    BY <2>1, <2>2, <2>3 DEF TypeOK
<1>2. ControlInv
  BY DEF ControlInv, AtSubmitter, AtExecution, Procs, Executors
<1>3. QueueInv
  BY DEF QueueInv, Flushing, Executors, AtExecution
<1>4. Fifo
  <2>1. InFlight(Delayer) = <<>> /\ InFlight(Main) = <<>>
    BY DEF InFlight, FromQueue, Procs, Executors
  <2>2. batch[Delayer] = <<>> /\ batch[Main] = <<>> /\ <<>> \o <<>> = <<>>
    BY DEF Executors
  <2>. QED
    BY <2>1, <2>2 DEF Fifo, Pending
<1>. QED
  BY <1>1, <1>2, <1>3, <1>4

(* The invariant of the queue: types, the phases of the threads, where     *)
(* operations can be, and their order.                                     *)
THEOREM Invariance == Spec => []IInv
<1>1. Init => IInv
  BY InitInv DEF IInv
<1>2. IInv /\ [Next]_vars => IInv'
  BY TypeStep, ControlStep, QueueStep, FifoStep DEF IInv
<1>. QED
  BY <1>1, <1>2, PTL DEF Spec

\* Every variable of the model has its type.
THEOREM TypeCorrect == Spec => []TypeOK
<1>1. IInv => TypeOK
  BY DEF IInv
<1>. QED
  BY <1>1, Invariance, PTL

(* Operations are executed in the order of the calls of Delay, none is     *)
(* lost and none is executed twice, also across the final flush.           *)
THEOREM ExecutedInOrder == Spec => []Fifo
<1>1. IInv => Fifo
  BY DEF IInv
<1>. QED
  BY <1>1, Invariance, PTL

\* When HaltDelayThread has returned, everything queued has been executed.
THEOREM NothingLeftBehind == Spec => []HaltFlushes
<1>1. IInv => HaltFlushes
  <2>. SUFFICES ASSUME IInv, phase = "halted" PROVE executed = submitted
    BY DEF HaltFlushes
  <2>1. batch[Delayer] = <<>> /\ batch[Main] = <<>> /\ sqlQueue = <<>>
    BY DEF IInv, QueueInv, ControlInv, Flushing, AtExecution
  <2>2. InFlight(Delayer) = <<>> /\ InFlight(Main) = <<>>
    BY SqlDelayAssumption DEF IInv, ControlInv, InFlight, FromQueue
  <2>3. executed \o <<>> = executed
    BY ConcatEmptySeq DEF IInv, TypeOK
  <2>. QED
    BY <2>1, <2>2, <2>3 DEF IInv, Fifo, Pending
<1>. QED
  BY <1>1, Invariance, PTL

-----------------------------------------------------------------------------
(* The connection and its transactions.                                    *)

(* One holder of the connection at a time; callbacks run while the server  *)
(* serves, when writes are asynchronous and need no connection.            *)
LockInv ==
    /\ \A p, q \in Procs : ConnHeld(p) /\ ConnHeld(q) => p = q
    /\ inUpdate => /\ phase = "serving" /\ World \in alive
                   /\ pc[World] \in {"idle", "delay"}
    /\ phase # "startup" => allowAsync

(* The open transaction of the server is the one the holder executes, and  *)
(* holds the rows of the statements executed so far.                       *)
InTransaction(p) == pc[p] = "stmt" /\ cur[p].kind = "trans"
TxInv ==
    /\ inTx => up /\ \E p \in Procs : InTransaction(p)
    /\ ~inTx => tx = {}
    /\ \A p \in Procs : InTransaction(p) =>
          step[p] <= cur[p].size /\ (up => inTx /\ tx = {cur[p].id} \X (1..step[p]))
    /\ \A p \in Procs : pc[p] = "stmt" /\ cur[p].kind = "stmt" => step[p] = 0
    /\ AllOrNothing

\* Every step keeps the locks.
LEMMA LockStep ==
    ASSUME TypeOK, ControlInv, LockInv, [Next]_vars
    PROVE  LockInv'
<1>. USE SqlDelayAssumption
     DEF vars, histVars, queueVars, opVars, replyVars, lifeVars, dbVars,
         LockInv, ConnHeld, ResultHeld, Procs, Submitters, Executors
<1>1. pc \in [Procs -> PcValues] /\ alive \subseteq Threads
  BY DEF TypeOK
<1>2. ASSUME NEW t \in Submitters, Submit(t) PROVE LockInv'
  BY <1>1, <1>2 DEF Submit, BeginTransaction, Execute, CommitTransaction,
     RollbackTransaction, AsyncQuery, DirectExecute, Enqueue, ExecuteHere, MaySubmit
<1>3. ASSUME NEW t \in Submitters, Delay(t) PROVE LockInv'
  BY <1>1, <1>3 DEF Delay
<1>4. ASSUME NEW t \in Threads, ThreadEnds(t) PROVE LockInv'
  BY <1>1, <1>4 DEF ThreadEnds
<1>5. ASSUME NEW p \in Procs, OnConnection(p) PROVE LockInv'
  BY <1>1, <1>5 DEF OnConnection, LockConn, StatementSucceeds, StatementFails,
     CommitOnServer, Finish
<1>6. ASSUME NEW e \in Executors, ProcessRequests(e) PROVE LockInv'
  BY <1>1, <1>6 DEF ProcessRequests, LockQueue, MoveQueue, Take, RunQuery, AddResult
<1>7. CASE RunLoop \/ UpdateResults \/ ConnectionLost
  BY <1>1, <1>7 DEF RunLoop, PingIsDue, BatchDone, Ping, EndOfRound, UpdateResults,
     StartUpdate, RunCallback, EndUpdate, ConnectionLost, MaySubmit
<1>8. CASE MasterRun
  BY <1>1, <1>8 DEF MasterRun, AllowAsyncTransactions, ThreadsJoined, Stop, Flush, Halted
<1>9. CASE UNCHANGED vars
  BY <1>9
<1>. QED
  BY <1>2, <1>3, <1>4, <1>5, <1>6, <1>7, <1>8, <1>9 DEF Next, Terminated

\* The rows of the writes of R that succeeded.
Held(R) == UNION {Rows(r.op) : r \in {x \in R : x.ok}}

\* A write that is over adds its rows if it succeeded.
LEMMA ReturnedRows ==
    ASSUME NEW R, NEW o, NEW ok \in BOOLEAN
    PROVE  Held(R \cup {[op |-> o, ok |-> ok]}) = Held(R) \cup (IF ok THEN Rows(o) ELSE {})
<1>1. ASSUME NEW A PROVE \A z : z \in Held(A) <=> \E r \in A : r.ok /\ z \in Rows(r.op)
  BY DEF Held
<1>. DEFINE rec == [op |-> o, ok |-> ok]
<1>2. rec.op = o /\ rec.ok = ok
  OBVIOUS
<1>. HIDE DEF rec
<1>3. \A z : z \in Held(R \cup {rec}) <=> z \in Held(R) \/ (ok /\ z \in Rows(o))
  BY <1>1, <1>2
<1>4. Held(R \cup {rec}) = Held(R) \cup (IF ok THEN Rows(o) ELSE {})
  BY <1>3
<1>. QED
  BY <1>4 DEF rec

\* Every step keeps the transaction of the connection apart from the rest.
LEMMA TxStep ==
    ASSUME TypeOK, ControlInv, LockInv, TxInv, [Next]_vars
    PROVE  TxInv'
<1>. USE DEF vars, histVars, queueVars, opVars, replyVars, lifeVars, dbVars
<1>1. /\ pc \in [Procs -> PcValues] /\ cur \in [Procs -> Op \cup {NoOp}]
      /\ step \in [Procs -> 0..MaxStmts] /\ up \in BOOLEAN /\ inTx \in BOOLEAN
  BY DEF TypeOK
<1>2. ASSUME UNCHANGED <<returned, db, tx, inTx, step>>, up' = up,
             \A p \in Procs : /\ pc[p] = "stmt" /\ cur[p].kind # "query"
                                   => pc'[p] = "stmt" /\ cur'[p] = cur[p]
                              /\ pc'[p] = "stmt" => pc[p] = "stmt" /\ cur'[p] = cur[p]
      PROVE  TxInv'
  <2>1. AllOrNothing'
    BY <1>2 DEF TxInv, AllOrNothing
  <2>2. \A p \in Procs : InTransaction(p)' <=> InTransaction(p)
    BY <1>2 DEF InTransaction
  <2>. QED
    BY <1>2, <2>1, <2>2 DEF TxInv, InTransaction
<1>3. ASSUME NEW t \in Submitters, Submit(t) \/ Delay(t) PROVE TxInv'
  <2>1. UNCHANGED <<returned, db, tx, inTx, step, up>> /\ t \in Procs
    BY <1>3 DEF Submit, BeginTransaction, Execute, CommitTransaction, RollbackTransaction,
       AsyncQuery, DirectExecute, Delay, Procs, Submitters, Executors
  <2>2. pc[t] \in {"idle", "delay"}
    BY <1>3 DEF Submit, BeginTransaction, Execute, CommitTransaction, RollbackTransaction,
       AsyncQuery, DirectExecute, Delay, MaySubmit
  <2>3. /\ pc'[t] # "stmt"
        /\ \A p \in Procs \ {t} : pc'[p] = pc[p] /\ cur'[p] = cur[p]
    BY <1>1, <1>3, <2>1, <2>2 DEF Submit, BeginTransaction, Execute, CommitTransaction,
       RollbackTransaction, AsyncQuery, DirectExecute, Delay, Enqueue, ExecuteHere
  <2>. QED
    BY <1>2, <2>1, <2>2, <2>3
<1>4. ASSUME NEW p \in Procs, LockConn(p) PROVE TxInv'
  <2>1. /\ ~inTx /\ tx = {} /\ pc' = [pc EXCEPT ![p] = "stmt"]
        /\ step' = [step EXCEPT ![p] = 0] /\ db' = db
        /\ UNCHANGED <<returned, cur, up>> /\ \A q \in Procs : ~ConnHeld(q)
    BY <1>4 DEF LockConn, TxInv, InTransaction, ConnHeld
  <2>2. AllOrNothing'
    BY <2>1 DEF TxInv, AllOrNothing
  <2>3. \A q \in Procs : pc'[q] = "stmt" => q = p
    BY <1>1, <2>1 DEF ConnHeld
  <2>4. cur[p] \in Op /\ 0 <= cur[p].size /\ pc'[p] = "stmt" /\ step'[p] = 0
    BY <1>1, <1>4, <2>1 DEF LockConn, ControlInv, Op
  <2>5. tx' = {} /\ inTx' = (cur[p].kind = "trans" /\ up)
    BY <1>1, <1>4, <2>1 DEF LockConn
  <2>6. {cur[p].id} \X (1..0) = {}
    OBVIOUS
  <2>. QED
    BY <2>1, <2>2, <2>3, <2>4, <2>5, <2>6 DEF TxInv, InTransaction
<1>5. ASSUME NEW p \in Procs, pc[p] = "stmt", cur[p].kind # "query", NEW ok \in BOOLEAN,
             Finish(p, ok), db' = db \cup (IF ok THEN Rows(cur[p]) ELSE {}),
             UNCHANGED <<step, up>>, ~inTx', tx' = {}
      PROVE  TxInv'
  <2>1. AllOrNothing'
    <3>1. returned' = returned \cup {[op |-> cur[p], ok |-> ok]}
      BY <1>5 DEF Finish
    <3>2. Held(returned') = Held(returned) \cup (IF ok THEN Rows(cur[p]) ELSE {})
      BY <3>1, ReturnedRows
    <3>3. db = Held(returned)
      BY DEF TxInv, AllOrNothing, Held
    <3>4. db' = Held(returned')
      BY <1>5, <3>2, <3>3
    <3>. QED
      BY <3>4 DEF AllOrNothing, Held
  <2>2. \A q \in Procs : pc'[q] # "stmt"
    BY <1>1, <1>5 DEF Finish, LockInv, ConnHeld
  <2>. QED
    BY <1>5, <2>1, <2>2 DEF TxInv, InTransaction
<1>6. ASSUME NEW p \in Procs, StatementSucceeds(p) PROVE TxInv'
  <2>1. /\ pc[p] = "stmt" /\ up /\ cur[p] \in Op /\ cur[p].kind \in {"stmt", "trans"}
        /\ step[p] < cur[p].size /\ UNCHANGED <<inTx, up>>
    BY <1>6 DEF StatementSucceeds, ControlInv, Op
  <2>2. \A q \in Procs : pc[q] = "stmt" => q = p
    BY <2>1 DEF LockInv, ConnHeld
  <2>3. CASE cur[p].kind = "stmt"
    <3>1. ~inTx /\ tx = {}
      BY <2>2, <2>3 DEF TxInv, InTransaction
    <3>2. step[p] = 0 /\ cur[p].size = 1
      BY <2>1, <2>3 DEF TxInv, Op
    <3>3. Rows(cur[p]) = {<<cur[p].id, step[p] + 1>>}
      BY <2>3, <3>2 DEF Rows
    <3>4. /\ db' = db \cup {<<cur[p].id, step[p] + 1>>} /\ tx' = tx
          /\ Finish(p, TRUE) /\ UNCHANGED step
      BY <1>6, <2>3, <3>1 DEF StatementSucceeds
    <3>. QED
      BY <1>5, <2>1, <2>3, <3>1, <3>3, <3>4
  <2>4. CASE cur[p].kind = "trans"
    <3>1. inTx /\ tx = {cur[p].id} \X (1..step[p]) /\ step[p] \in Nat /\ cur[p].size \in Nat
      BY <1>1, <2>1, <2>4, SqlDelayAssumption DEF TxInv, InTransaction, Op
    <3>2. /\ tx' = tx \cup {<<cur[p].id, step[p] + 1>>} /\ UNCHANGED <<db, returned, pc, cur>>
          /\ step' = [step EXCEPT ![p] = @ + 1]
      BY <1>6, <2>4, <3>1 DEF StatementSucceeds
    <3>3. 1..step[p] + 1 = (1..step[p]) \cup {step[p] + 1}
      BY <3>1
    <3>4. tx' = {cur[p].id} \X (1..step[p] + 1)
      BY <3>1, <3>2, <3>3
    <3>5. AllOrNothing'
      BY <3>2 DEF TxInv, AllOrNothing
    <3>6. step'[p] = step[p] + 1 /\ step[p] + 1 <= cur[p].size
      BY <1>1, <2>1, <3>1, <3>2
    <3>. QED
      BY <2>1, <2>2, <2>4, <3>1, <3>2, <3>4, <3>5, <3>6 DEF TxInv, InTransaction
  <2>. QED
    BY <2>1, <2>3, <2>4
<1>7. ASSUME NEW p \in Procs, StatementFails(p) PROVE TxInv'
  <2>1. /\ pc[p] = "stmt" /\ cur[p].kind # "query" /\ Finish(p, FALSE)
        /\ UNCHANGED <<db, up, step>>
    BY <1>7 DEF StatementFails
  <2>2. \A q \in Procs : pc[q] = "stmt" => q = p
    BY <2>1 DEF LockInv, ConnHeld
  <2>3. ~inTx' /\ tx' = {}
    BY <1>7, <2>2 DEF StatementFails, TxInv, InTransaction
  <2>. QED
    BY <1>5, <2>1, <2>3
<1>8. ASSUME NEW p \in Procs, CommitOnServer(p) PROVE TxInv'
  <2>1. /\ pc[p] = "stmt" /\ cur[p].kind = "trans" /\ step[p] = cur[p].size
        /\ db' = IF up THEN db \cup tx ELSE db
        /\ Finish(p, up) /\ UNCHANGED <<step, up>> /\ ~inTx' /\ tx' = {}
    BY <1>8 DEF CommitOnServer
  <2>2. up => tx = Rows(cur[p])
    BY <2>1 DEF TxInv, InTransaction, Rows
  <2>3. db' = db \cup (IF up THEN Rows(cur[p]) ELSE {})
    BY <2>1, <2>2
  <2>. QED
    BY <1>1, <1>5, <2>1, <2>3
<1>9. ASSUME NEW e \in Executors, ProcessRequests(e) PROVE TxInv'
  <2>1. UNCHANGED <<returned, db, tx, inTx, step, up>> /\ e \in Procs
    BY <1>9 DEF ProcessRequests, LockQueue, MoveQueue, Take, RunQuery, AddResult, Procs
  <2>2. /\ pc[e] = "stmt" => cur[e].kind = "query"
        /\ \/ UNCHANGED <<pc, cur>>
           \/ /\ pc'[e] # "stmt"
              /\ \A p \in Procs \ {e} : pc'[p] = pc[p] /\ cur'[p] = cur[p]
    BY <1>1, <1>9, <2>1 DEF ProcessRequests, LockQueue, MoveQueue, Take, RunQuery, AddResult
  <2>. QED
    BY <1>2, <2>1, <2>2
<1>10. CASE RunLoop \/ UpdateResults \/ MasterRun \/ \E t \in Threads : ThreadEnds(t)
  <2>1. UNCHANGED <<returned, db, tx, inTx, step, up, cur>>
    BY <1>10 DEF RunLoop, PingIsDue, BatchDone, Ping, EndOfRound, UpdateResults,
       StartUpdate, RunCallback, EndUpdate, MasterRun, AllowAsyncTransactions,
       ThreadsJoined, Stop, Flush, Halted, ThreadEnds
  <2>2. \A p \in Procs : pc'[p] = "stmt" <=> pc[p] = "stmt"
    BY <1>1, <1>10, SqlDelayAssumption
    DEF RunLoop, PingIsDue, BatchDone, Ping, EndOfRound, UpdateResults,
       StartUpdate, RunCallback, EndUpdate, MasterRun, AllowAsyncTransactions,
       ThreadsJoined, Stop, Flush, Halted, ThreadEnds, ControlInv
  <2>. QED
    BY <1>2, <2>1, <2>2
<1>11. CASE ConnectionLost
  BY <1>11 DEF ConnectionLost, TxInv, InTransaction, AllOrNothing
<1>12. CASE UNCHANGED vars
  BY <1>2, <1>12
<1>. QED
  BY <1>3, <1>4, <1>6, <1>7, <1>8, <1>9, <1>10, <1>11, <1>12
  DEF Next, OnConnection, Terminated

(* The database holds the rows of the writes that reported success and     *)
(* nothing else: no transaction is there in part.                          *)
THEOREM Atomicity == Spec => []AllOrNothing
<1>1. Init => TypeOK /\ ControlInv
  BY InitInv
<1>2. Init => LockInv
  BY DEF Init, LockInv, ConnHeld, Procs, Executors
<1>3. Init => TxInv
  <2>. SUFFICES ASSUME Init PROVE TxInv
    OBVIOUS
  <2>1. \A p \in Procs : pc[p] # "stmt"
    BY DEF Init
  <2>2. UNION {Rows(r.op) : r \in {x \in {} : x.ok}} = {}
    OBVIOUS
  <2>. QED
    BY <2>1, <2>2 DEF Init, TxInv, InTransaction, AllOrNothing
<1>4. TypeOK /\ ControlInv /\ LockInv /\ TxInv /\ [Next]_vars
        => (TypeOK /\ ControlInv /\ LockInv /\ TxInv)'
  BY TypeStep, ControlStep, LockStep, TxStep
<1>5. TxInv => AllOrNothing
  BY DEF TxInv
<1>. QED
  BY <1>1, <1>2, <1>3, <1>4, <1>5, PTL DEF Spec

(* No circle of threads each of which waits for a mutex of the next one:   *)
(* moving the queue aside is what keeps the delay thread, which holds the  *)
(* connection and waits for the result queue, out of the world thread's    *)
(* way.                                                                    *)
THEOREM DeadlockFreedom == Spec => []NoLockCycle
<1>1. Init => TypeOK /\ ControlInv
  BY InitInv
<1>2. Init => LockInv
  BY DEF Init, LockInv, ConnHeld, Procs, Executors
<1>3. TypeOK /\ ControlInv /\ LockInv /\ [Next]_vars => (TypeOK /\ ControlInv /\ LockInv)'
  BY TypeStep, ControlStep, LockStep
<1>4. LockInv => NoLockCycle
  <2>. SUFFICES ASSUME LockInv, NEW S \in (SUBSET Procs) \ {{}},
                       \A p \in S : \E q \in S : WaitsFor(p, q)
                PROVE  FALSE
    BY DEF NoLockCycle
  <2>1. \A p \in S : pc[p] # "move"
    BY DEF WaitsFor
  <2>2. \A p \in S : pc[p] \notin {"delay", "sleep", "grab"}
    BY <2>1 DEF WaitsFor, QueueHeld
  <2>3. \A p \in S : pc[p] # "add"
    BY <2>2 DEF WaitsFor, ResultHeld, LockInv
  <2>4. \A p \in S : pc[p] \notin {"lock", "ping"}
    BY <2>1, <2>3 DEF WaitsFor, ConnHeld
  <2>. QED
    BY <2>2, <2>3, <2>4 DEF WaitsFor
<1>. QED
  BY <1>1, <1>2, <1>3, <1>4, PTL DEF Spec
=============================================================================
