---------------------------- MODULE AsyncDbProofs ----------------------------
(***************************************************************************)
(* SqlDelay implements AsyncDb; answers see the writes queued before them, *)
(* and callbacks run in the order of the queries: for any number of        *)
(* threads, operations and statements per transaction.                     *)
(***************************************************************************)
EXTENDS SqlDelayProofs, FiniteSetTheorems

\* The operation a thread has made and not yet queued or executed itself.
Carried(p) == pc[p] = "delay" \/ (pc[p] \in {"lock", "stmt"} /\ ~FromQueue(p))

(* No two operations have the same id: those queued, those the threads     *)
(* still carry, and those executed directly.                               *)
FreshInv ==
    /\ \A i \in 1..Len(submitted) : submitted[i].id < next
    /\ \A i, j \in 1..Len(submitted) : submitted[i].id = submitted[j].id => i = j
    /\ \A r \in returned : r.op.id < next
    /\ \A p \in Procs : Carried(p) =>
          /\ cur[p].id < next
          /\ \A i \in 1..Len(submitted) : submitted[i].id # cur[p].id
          /\ \A r \in returned : r.op.id # cur[p].id
          /\ \A q \in Procs : Carried(q) /\ p # q => cur[q].id # cur[p].id

(* A write of the queue that had its turn has reported how it ended.       *)
DoneInv ==
    \A i \in 1..Len(executed) : executed[i].kind # "query" /\ executed[i].size # 0 =>
       \E ok \in BOOLEAN : [op |-> executed[i], ok |-> ok] \in returned

(* An answer belongs to a query that had its turn, and shows what had its  *)
(* turn before; it is kept with the connection until it is added.          *)
Answers(a, j) ==
    /\ executed[j] = a.op
    /\ a.ok => \A i \in 1..j - 1 : \/ Rows(executed[i]) \subseteq a.seen
                                   \/ [op |-> executed[i], ok |-> FALSE] \in returned
Answered(a) == \E j \in 1..Len(executed) : Answers(a, j)
AnswerInv ==
    /\ \A e \in Executors : pc[e] # "add" => answer[e] = << >>
    /\ \A e \in Executors : \A i \in 1..Len(answer[e]) : Answered(answer[e][i])
    /\ \A i \in 1..Len(results) : Answered(results[i])

AInv == FreshInv /\ DoneInv /\ AnswerInv

DbInv == TypeOK /\ ControlInv /\ QueueInv /\ Fifo /\ LockInv /\ TxInv

-----------------------------------------------------------------------------
(* Sequences.                                                              *)

LEMMA CatParts ==
    ASSUME NEW S, NEW a \in Seq(S), NEW b \in Seq(S)
    PROVE  /\ a \o b \in Seq(S) /\ Len(a \o b) = Len(a) + Len(b)
           /\ Len(a) \in Nat /\ Len(b) \in Nat
           /\ \A i \in 1..Len(a) : (a \o b)[i] = a[i]
           /\ \A i \in 1..Len(b) : (a \o b)[Len(a) + i] = b[i]
BY ConcatProperties, LenProperties

LEMMA CancelLeft ==
    ASSUME NEW S, NEW a \in Seq(S), NEW b \in Seq(S), NEW c \in Seq(S), a \o b = a \o c
    PROVE  b = c
<1>1. /\ Len(a) + Len(b) = Len(a) + Len(c) /\ Len(a) \in Nat /\ Len(b) \in Nat /\ Len(c) \in Nat
      /\ \A i \in 1..Len(b) : (a \o b)[Len(a) + i] = b[i]
      /\ \A i \in 1..Len(c) : (a \o c)[Len(a) + i] = c[i]
  <2>1. Len(a \o b) = Len(a) + Len(b) /\ Len(a \o c) = Len(a) + Len(c)
    BY CatParts
  <2>. QED
    BY <2>1, CatParts
<1>2. Len(b) = Len(c)
  BY <1>1
<1>3. \A i \in 1..Len(b) : b[i] = c[i]
  BY <1>1, <1>2
<1>. QED
  BY <1>2, <1>3, SeqEqual

LEMMA OneMore ==
    ASSUME NEW S, NEW a \in Seq(S), NEW e \in S
    PROVE  /\ Append(a, e) \in Seq(S) /\ Len(Append(a, e)) = Len(a) + 1 /\ Len(a) \in Nat
           /\ Append(a, e)[Len(a) + 1] = e
           /\ \A i \in 1..Len(a) : Append(a, e)[i] = a[i]
BY AppendProperties, LenProperties

-----------------------------------------------------------------------------
(* What a step does to the histories, the answers and the database.        *)

USE DEF vars, histVars, queueVars, opVars, replyVars, lifeVars, dbVars

Silent ==
    UNCHANGED <<submitted, executed, returned, results, answer, delivered, db>>
Queued(t) ==
    /\ Carried(t) /\ cur[t] \in Op /\ submitted' = Append(submitted, cur[t])
    /\ UNCHANGED <<next, executed, returned, results, answer, delivered, db>>
Skipped(o) ==
    /\ o \in Op /\ o.kind = "trans" /\ o.size = 0 /\ executed' = Append(executed, o)
    /\ UNCHANGED <<next, submitted, returned, results, answer, delivered, db>>
Ended(p, ok) ==
    /\ pc[p] = "stmt" /\ cur[p] \in Op /\ cur[p].kind # "query" /\ ~Carried(p)'
    /\ returned' = returned \cup {[op |-> cur[p], ok |-> ok]}
    /\ executed' = IF FromQueue(p) THEN Append(executed, cur[p]) ELSE executed
    /\ db' = IF ok THEN db \cup Rows(cur[p]) ELSE db
    /\ UNCHANGED <<next, submitted, results, answer, delivered>>
Asked(e) ==
    /\ pc[e] = "stmt" /\ cur[e] \in Op /\ cur[e].kind = "query" /\ FromQueue(e) /\ tx = {}
    /\ RunQuery(e)

LEMMA ProcTypes ==
    ASSUME TypeOK
    PROVE  /\ pc \in [Procs -> PcValues] /\ cur \in [Procs -> Op \cup {NoOp}]
           /\ step \in [Procs -> 0..MaxStmts] /\ batch \in [Executors -> Seq(Op)]
           /\ Submitters \subseteq Procs /\ Executors \subseteq Procs /\ Threads \subseteq Procs
           /\ Main \in Procs /\ Delayer \in Procs /\ Delayer \notin Submitters /\ Main # Delayer
           /\ Main \in Submitters /\ World \in Threads /\ Main \notin Threads
           /\ Delayer \in Executors /\ Main \in Executors
BY SqlDelayAssumption DEF TypeOK, Procs, Submitters, Executors

\* Who may submit is not executing the queue.
LEMMA SubmitterFree ==
    ASSUME TypeOK, NEW t \in Submitters, MaySubmit(t)
    PROVE  ~FromQueue(t) /\ ~Carried(t) /\ pc[t] = "idle" /\ t \in Procs
BY ProcTypes DEF MaySubmit, FromQueue, Carried

\* What a thread carries stays what it is until it is queued or executed.
LEMMA Carry ==
    ASSUME TypeOK, ControlInv, [Next]_vars
    PROVE  \/ next' = next /\ \A p \in Procs : Carried(p)' => Carried(p) /\ cur'[p] = cur[p]
           \/ /\ next' = next + 1 /\ UNCHANGED <<submitted, returned>>
              /\ \E t \in Procs : /\ Carried(t)' => cur'[t].id = next
                                  /\ \A p \in Procs \ {t} : Carried(p)' => Carried(p) /\ cur'[p] = cur[p]
<1>. USE ProcTypes
<1>1. ASSUME UNCHANGED <<next, phase>>, NEW p \in Procs, ~Carried(p)',
             \A q \in Procs \ {p} : pc'[q] = pc[q] /\ cur'[q] = cur[q]
      PROVE  next' = next /\ \A q \in Procs : Carried(q)' => Carried(q) /\ cur'[q] = cur[q]
  BY <1>1 DEF Carried, FromQueue
<1>2. ASSUME NEW t \in Submitters, Submit(t)
      PROVE  \/ next' = next /\ UNCHANGED <<pc, cur, phase>>
             \/ /\ next' = next + 1 /\ UNCHANGED <<submitted, returned, phase>>
                /\ Carried(t)' => cur'[t].id = next
                /\ \A p \in Procs \ {t} : pc'[p] = pc[p] /\ cur'[p] = cur[p]
  <2>1. ~Carried(t) /\ t \in Procs /\ ~FromQueue(t)
    BY <1>2, SubmitterFree DEF Submit, BeginTransaction, Execute, CommitTransaction,
       RollbackTransaction, AsyncQuery, DirectExecute
  <2>2. ASSUME NEW kind, NEW size, UNCHANGED <<submitted, returned, phase>>,
               Enqueue(t, NewOp(t, kind, size)) \/ ExecuteHere(t, NewOp(t, kind, size))
        PROVE  /\ next' = next + 1 /\ (Carried(t)' => cur'[t].id = next)
               /\ \A p \in Procs \ {t} : pc'[p] = pc[p] /\ cur'[p] = cur[p]
    <3>1. NewOp(t, kind, size).id = next
      BY DEF NewOp
    <3>. HIDE DEF NewOp
    <3>. QED
      BY <2>1, <2>2, <3>1 DEF Enqueue, ExecuteHere, Carried, FromQueue
  <2>. QED
    BY <1>2, <2>2 DEF Submit, BeginTransaction, Execute, CommitTransaction,
       RollbackTransaction, AsyncQuery, DirectExecute
<1>3. ASSUME NEW t \in Submitters, Delay(t) PROVE ~Carried(t)'
  BY <1>3 DEF Delay, Carried
<1>4. ASSUME NEW p \in Procs, OnConnection(p)
      PROVE  \/ UNCHANGED <<next, phase, cur>> /\ Carried(p)' = Carried(p)
                /\ \A q \in Procs \ {p} : pc'[q] = pc[q]
             \/ ~Carried(p)' /\ UNCHANGED <<next, phase>>
                /\ \A q \in Procs \ {p} : pc'[q] = pc[q] /\ cur'[q] = cur[q]
  BY <1>4 DEF OnConnection, LockConn, StatementSucceeds, StatementFails, CommitOnServer, Finish,
     Carried, FromQueue
<1>5. ASSUME NEW e \in Executors, ProcessRequests(e)
      PROVE  ~Carried(e)' /\ UNCHANGED <<next, phase>>
             /\ \A q \in Procs \ {e} : pc'[q] = pc[q] /\ cur'[q] = cur[q]
  <2>1. pc[e] = "take" => FromQueue(e)
    BY DEF ControlInv, AtSubmitter, FromQueue, Executors, TypeOK
  <2>. QED
    BY <1>5, <2>1 DEF ProcessRequests, LockQueue, MoveQueue, Take, RunQuery, AddResult, Carried, FromQueue
<1>6. CASE RunLoop \/ UpdateResults \/ ConnectionLost \/ (\E t \in Threads : ThreadEnds(t))
  BY <1>6 DEF RunLoop, PingIsDue, BatchDone, Ping, EndOfRound, UpdateResults, StartUpdate,
     RunCallback, EndUpdate, ConnectionLost, ThreadEnds, Carried, FromQueue
<1>7. CASE MasterRun
  <2>1. phase' = "halting" => pc'[Main] # "delay"
    BY <1>7 DEF MasterRun, AllowAsyncTransactions, ThreadsJoined, Stop, Flush, Halted
  <2>. QED
    BY <1>7, <2>1 DEF MasterRun, AllowAsyncTransactions, ThreadsJoined, Stop, Flush, Halted,
       Carried, FromQueue
<1>8. CASE UNCHANGED vars
  BY <1>8 DEF Carried, FromQueue
<1>9. CASE \E t \in Submitters : Submit(t) \/ Delay(t)
  <2>. PICK t \in Submitters : Submit(t) \/ Delay(t)
    BY <1>9
  <2>1. CASE Submit(t)
    <3>. HIDE DEF Carried
    <3>1. CASE next' = next /\ UNCHANGED <<pc, cur, phase>>
      BY <3>1 DEF Carried, FromQueue
    <3>2. CASE next' # next \/ ~UNCHANGED <<pc, cur, phase>>
      <4>1. /\ next' = next + 1 /\ UNCHANGED <<submitted, returned, phase>>
            /\ Carried(t)' => cur'[t].id = next
            /\ \A p \in Procs \ {t} : pc'[p] = pc[p] /\ cur'[p] = cur[p]
        BY <1>2, <2>1, <3>2
      <4>2. \A p \in Procs \ {t} : Carried(p)' => Carried(p)
        BY <4>1 DEF Carried, FromQueue
      <4>. QED
        BY <4>1, <4>2
    <3>. QED
      BY <3>1, <3>2
  <2>2. CASE Delay(t)
    <3>1. ~Carried(t)' /\ UNCHANGED <<next, phase>>
          /\ \A q \in Procs \ {t} : pc'[q] = pc[q] /\ cur'[q] = cur[q]
      BY <1>3, <2>2 DEF Delay
    <3>. QED
      BY <1>1, <3>1
  <2>. QED
    BY <2>1, <2>2
<1>10. CASE \E p \in Procs : OnConnection(p)
  <2>. PICK p \in Procs : OnConnection(p)
    BY <1>10
  <2>1. CASE UNCHANGED <<next, phase, cur>> /\ Carried(p)' = Carried(p) /\ \A q \in Procs \ {p} : pc'[q] = pc[q]
    BY <2>1 DEF Carried, FromQueue
  <2>2. CASE ~(UNCHANGED <<next, phase, cur>> /\ Carried(p)' = Carried(p)
              /\ \A q \in Procs \ {p} : pc'[q] = pc[q])
    <3>1. ~Carried(p)' /\ UNCHANGED <<next, phase>>
          /\ \A q \in Procs \ {p} : pc'[q] = pc[q] /\ cur'[q] = cur[q]
      BY <1>4, <2>2
    <3>. QED
      BY <1>1, <3>1
  <2>. QED
    BY <2>1, <2>2
<1>11. CASE \E e \in Executors : ProcessRequests(e)
  BY <1>1, <1>5, <1>11
<1>. QED
  BY <1>6, <1>7, <1>8, <1>9, <1>10, <1>11 DEF Next, Terminated

\* How an operation on the connection ends.
LEMMA ConnectionEffect ==
    ASSUME DbInv, NEW p \in Procs, OnConnection(p)
    PROVE  Silent \/ \E ok \in BOOLEAN : Ended(p, ok)
<1>. USE ProcTypes DEF DbInv
<1>1. /\ up \in BOOLEAN /\ inTx \in BOOLEAN /\ (pc[p] = "stmt" => cur[p] \in Op)
      /\ (~inTx => tx = {})
  BY DEF TypeOK, ControlInv, TxInv
<1>2. ASSUME NEW ok \in BOOLEAN, Finish(p, ok), pc[p] = "stmt", UNCHANGED phase
      PROVE  ~Carried(p)'
  BY <1>2 DEF Finish, Carried, FromQueue
<1>3. CASE LockConn(p)
  BY <1>1, <1>3 DEF LockConn, Silent, TxInv, InTransaction, ConnHeld
<1>4. CASE StatementSucceeds(p)
  <2>1. CASE cur[p].kind = "stmt"
    <3>1. ~inTx
      BY <1>4, <2>1 DEF StatementSucceeds, TxInv, InTransaction, LockInv, ConnHeld
    <3>2. step[p] = 0 /\ cur[p].size = 1
      BY <1>1, <1>4, <2>1 DEF StatementSucceeds, TxInv, Op
    <3>3. db' = db \cup {<<cur[p].id, 1>>}
      BY <1>4, <3>1, <3>2 DEF StatementSucceeds
    <3>4. Rows(cur[p]) = {<<cur[p].id, 1>>}
      BY <2>1, <3>2 DEF Rows
    <3>5. Ended(p, TRUE)
      BY <1>1, <1>2, <1>4, <2>1, <3>3, <3>4 DEF StatementSucceeds, Finish, Ended
    <3>. QED
      BY <3>5
  <2>2. CASE cur[p].kind # "stmt"
    <3>1. cur[p].kind = "trans" /\ inTx
      BY <1>1, <1>4, <2>2 DEF StatementSucceeds, Op, TxInv, InTransaction
    <3>. QED
      BY <1>4, <2>2, <3>1 DEF StatementSucceeds, Silent
  <2>. QED
    BY <2>1, <2>2
<1>5. CASE StatementFails(p)
  <2>1. Ended(p, FALSE)
    BY <1>1, <1>2, <1>5 DEF StatementFails, Finish, Ended
  <2>. QED
    BY <2>1
<1>6. CASE CommitOnServer(p)
  <2>1. up => tx = Rows(cur[p])
    BY <1>6 DEF CommitOnServer, TxInv, InTransaction, Rows
  <2>2. Ended(p, up)
    BY <1>1, <1>2, <1>6, <2>1 DEF CommitOnServer, Finish, Ended
  <2>. QED
    BY <1>1, <2>2
<1>. QED
  BY <1>3, <1>4, <1>5, <1>6 DEF OnConnection

LEMMA Effect ==
    ASSUME DbInv, [Next]_vars
    PROVE  \/ Silent
           \/ \E t \in Submitters : Queued(t) /\ ~Carried(t)'
           \/ \E o \in Op : Skipped(o)
           \/ \E p \in Procs : \E ok \in BOOLEAN : Ended(p, ok)
           \/ \E e \in Executors : Asked(e)
           \/ \E e \in Executors : AddResult(e)
           \/ RunCallback
<1>. USE ProcTypes DEF DbInv
<1>1. CASE \E t \in Submitters : Submit(t)
  BY <1>1 DEF Submit, BeginTransaction, Execute, CommitTransaction, RollbackTransaction, AsyncQuery,
     DirectExecute, Enqueue, ExecuteHere, Silent
<1>2. CASE \E t \in Submitters : Delay(t)
  <2>. PICK t \in Submitters : Delay(t)
    BY <1>2
  <2>1. t \in Procs /\ cur[t] \in Op /\ ~Carried(t)'
    BY DEF Delay, ControlInv, Carried
  <2>. QED
    BY <2>1 DEF Delay, Queued, Carried
<1>3. CASE \E t \in Threads : ThreadEnds(t)
  BY <1>3 DEF ThreadEnds, Silent
<1>4. CASE \E p \in Procs : OnConnection(p)
  BY <1>4, ConnectionEffect
<1>5. CASE \E e \in Executors : ProcessRequests(e)
  <2>. PICK e \in Executors : ProcessRequests(e)
    BY <1>5
  <2>1. CASE LockQueue(e) \/ MoveQueue(e)
    BY <2>1 DEF LockQueue, MoveQueue, Silent
  <2>2. CASE Take(e)
    <3>1. batch[e] \in Seq(Op) /\ batch[e] # << >>
      BY <2>2 DEF Take
    <3>2. PICK o \in Op : o = Head(batch[e])
      BY <3>1
    <3>3. CASE o.size = 0
      <4>1. o.kind = "trans"
        BY <3>2, <3>3 DEF Op
      <4>2. Skipped(o)
        BY <2>2, <3>2, <3>3, <4>1 DEF Take, Skipped
      <4>. QED
        BY <4>2
    <3>4. CASE o.size # 0
      BY <2>2, <3>2, <3>4 DEF Take, Silent
    <3>. QED
      BY <3>3, <3>4
  <2>3. CASE RunQuery(e)
    <3>1. pc[e] = "stmt" /\ cur[e].kind = "query" /\ cur[e] \in Op
      BY <2>3 DEF RunQuery, ControlInv
    <3>2. FromQueue(e)
      BY <3>1 DEF ControlInv
    <3>3. ~inTx
      BY <3>1 DEF TxInv, InTransaction, LockInv, ConnHeld
    <3>4. tx = {}
      BY <3>3 DEF TxInv
    <3>. QED
      BY <2>3, <3>1, <3>2, <3>4 DEF Asked
  <2>4. CASE AddResult(e)
    BY <2>4
  <2>. QED
    BY <2>1, <2>2, <2>3, <2>4 DEF ProcessRequests
<1>6. CASE RunLoop \/ UpdateResults
  BY <1>6 DEF RunLoop, PingIsDue, BatchDone, Ping, EndOfRound, UpdateResults, StartUpdate,
     EndUpdate, Silent
<1>7. CASE MasterRun
  BY <1>7 DEF MasterRun, AllowAsyncTransactions, ThreadsJoined, Stop, Flush, Halted, Silent
<1>8. CASE ConnectionLost
  BY <1>8 DEF ConnectionLost, Silent
<1>9. CASE UNCHANGED vars
  BY <1>9 DEF Silent
<1>. QED
  BY <1>1, <1>2, <1>3, <1>4, <1>5, <1>6, <1>7, <1>8, <1>9 DEF Next, Terminated

-----------------------------------------------------------------------------
(* FreshInv and DoneInv.                                                   *)

\* What has been executed are the first operations queued.
LEMMA Prefix ==
    ASSUME DbInv
    PROVE  /\ executed \in Seq(Op) /\ submitted \in Seq(Op) /\ Pending \in Seq(Op)
           /\ Len(executed) \in Nat /\ Len(Pending) \in Nat
           /\ Len(submitted) = Len(executed) + Len(Pending)
           /\ \A i \in 1..Len(executed) : i \in 1..Len(submitted) /\ submitted[i] = executed[i]
           /\ \A i \in 1..Len(Pending) : /\ Len(executed) + i \in 1..Len(submitted)
                                         /\ submitted[Len(executed) + i] = Pending[i]
<1>1. executed \in Seq(Op) /\ submitted \in Seq(Op)
  BY DEF DbInv, TypeOK
<1>2. Pending \in Seq(Op)
  <2>1. InFlight(Delayer) \in Seq(Op) /\ InFlight(Main) \in Seq(Op)
    <3>1. InFlight(Delayer) \in Seq(Op)
      BY ProcTypes, InFlightType DEF DbInv
    <3>2. InFlight(Main) \in Seq(Op)
      BY ProcTypes, InFlightType DEF DbInv
    <3>. QED
      BY <3>1, <3>2
  <2>2. batch[Delayer] \in Seq(Op) /\ batch[Main] \in Seq(Op) /\ sqlQueue \in Seq(Op)
    BY ProcTypes DEF DbInv, TypeOK
  <2>. QED
    BY <2>1, <2>2, ConcatProperties DEF Pending
<1>3. executed \o Pending = submitted
  BY DEF DbInv, Fifo
<1>. QED
  BY <1>1, <1>2, <1>3, CatParts

LEMMA PrefixNext ==
    ASSUME DbInv'
    PROVE  /\ executed' \in Seq(Op) /\ Pending' \in Seq(Op) /\ submitted' \in Seq(Op)
           /\ executed' \o Pending' = submitted'
<1>1. /\ executed' \in Seq(Op) /\ batch' \in [Executors -> Seq(Op)] /\ sqlQueue' \in Seq(Op)
      /\ submitted' \in Seq(Op) /\ executed' \o Pending' = submitted'
  BY DEF DbInv, TypeOK, Fifo
<1>2. \A e \in Executors : pc'[e] \in {"lock", "stmt"} => cur'[e] \in Op
  BY DEF DbInv, ControlInv, Procs
<1>3. Delayer \in Executors /\ Main \in Executors
  BY DEF Executors
<1>4. InFlight(Delayer)' \in Seq(Op) /\ InFlight(Main)' \in Seq(Op)
  BY <1>2, <1>3 DEF InFlight
<1>. QED
  BY <1>1, <1>3, <1>4, ConcatProperties DEF Pending

\* The operation that ends is the first that was pending.
LEMMA EndedIsNext ==
    ASSUME DbInv, DbInv', NEW o \in Op, executed' = Append(executed, o), submitted' = submitted
    PROVE  Len(executed) + 1 \in 1..Len(submitted) /\ submitted[Len(executed) + 1] = o
<1>1. /\ executed \in Seq(Op) /\ Len(executed) \in Nat
      /\ \A i \in 1..Len(executed') : i \in 1..Len(submitted) /\ submitted[i] = executed'[i]
  <2>1. \A i \in 1..Len(executed') : i \in 1..Len(submitted') /\ submitted'[i] = executed'[i]
    BY PrefixNext, CatParts
  <2>. QED
    BY <2>1, Prefix
<1>2. Len(executed') = Len(executed) + 1 /\ executed'[Len(executed) + 1] = o
  BY <1>1, OneMore
<1>. QED
  BY <1>1, <1>2

LEMMA FreshStep ==
    ASSUME DbInv, DbInv', FreshInv, [Next]_vars
    PROVE  FreshInv'
<1>0. Submitters \subseteq Procs /\ Executors \subseteq Procs
  BY ProcTypes DEF DbInv
<1>1. /\ next \in Nat /\ submitted \in Seq(Op) /\ Len(submitted) \in Nat
      /\ \A r \in returned : r.op.id \in Nat
      /\ \A i \in 1..Len(submitted) : submitted[i].id \in Nat
      /\ \A p \in Procs : Carried(p) => cur[p].id \in Nat
  <2>1. next \in Nat /\ submitted \in Seq(Op) /\ Len(submitted) \in Nat
    BY SqlDelayAssumption DEF DbInv, TypeOK
  <2>2. \A o \in Op : o.id \in Nat
    BY SqlDelayAssumption DEF Op
  <2>3. \A i \in 1..Len(submitted) : submitted[i] \in Op
    BY <2>1, ElementOfSeq
  <2>4. \A r \in returned : r.op \in Op
    BY DEF DbInv, TypeOK
  <2>5. \A p \in Procs : Carried(p) => cur[p] \in Op
    BY DEF DbInv, ControlInv, Carried
  <2>. QED
    BY <2>1, <2>2, <2>3, <2>4, <2>5
\* A thread makes an operation.
<1>2. ASSUME next' = next + 1, UNCHANGED <<submitted, returned>>, NEW t \in Procs,
             Carried(t)' => cur'[t].id = next,
             \A p \in Procs \ {t} : Carried(p)' => Carried(p) /\ cur'[p] = cur[p]
      PROVE  FreshInv'
  <2>1. \A i \in 1..Len(submitted') : submitted'[i].id < next'
    BY <1>1, <1>2 DEF FreshInv
  <2>2. \A r \in returned' : r.op.id < next'
    BY <1>1, <1>2 DEF FreshInv
  <2>3. ASSUME NEW p \in Procs, Carried(p)'
        PROVE  /\ cur'[p].id < next'
               /\ \A i \in 1..Len(submitted') : submitted'[i].id # cur'[p].id
               /\ \A r \in returned' : r.op.id # cur'[p].id
               /\ \A q \in Procs : Carried(q)' /\ p # q => cur'[q].id # cur'[p].id
    <3>1. CASE p = t
      <4>1. cur'[p].id = next
        BY <1>2, <2>3, <3>1
      <4>. QED
        BY <1>1, <1>2, <3>1, <4>1 DEF FreshInv
    <3>2. CASE p # t
      <4>1. Carried(p) /\ cur'[p] = cur[p] /\ cur[p].id < next
        BY <1>2, <2>3, <3>2 DEF FreshInv
      <4>2. \A q \in Procs : Carried(q)' /\ p # q => cur'[q].id # cur'[p].id
        BY <1>1, <1>2, <4>1 DEF FreshInv
      <4>. QED
        BY <1>1, <1>2, <4>1, <4>2 DEF FreshInv
    <3>. QED
      BY <3>1, <3>2
  <2>. QED
    BY <1>2, <2>1, <2>2, <2>3 DEF FreshInv
<1>3. ASSUME next' = next, \A p \in Procs : Carried(p)' => Carried(p) /\ cur'[p] = cur[p]
      PROVE  FreshInv'
  <2>1. CASE UNCHANGED <<submitted, returned>>
    BY <1>3, <2>1 DEF FreshInv
  <2>2. ASSUME NEW t \in Submitters, Queued(t), ~Carried(t)' PROVE FreshInv'
    <3>1. PICK o \in Op : o = cur[t]
      BY <2>2 DEF Queued
    <3>2. submitted' = Append(submitted, o) /\ returned' = returned /\ t \in Procs /\ Carried(t)
      BY <1>0, <2>2, <3>1 DEF Queued
    <3>a. o.id < next
      BY <3>1, <3>2 DEF FreshInv
    <3>3. /\ Len(submitted') = Len(submitted) + 1 /\ submitted'[Len(submitted) + 1] = o
          /\ \A i \in 1..Len(submitted) : submitted'[i] = submitted[i]
      BY <1>1, <3>2, OneMore
    <3>4. \A i \in 1..Len(submitted') : i = Len(submitted) + 1 \/ i \in 1..Len(submitted)
      BY <1>1, <3>3
    <3>5. \A i \in 1..Len(submitted) : submitted[i].id # o.id
      BY <3>1, <3>2 DEF FreshInv
    <3>6. /\ \A i \in 1..Len(submitted') : submitted'[i].id < next
          /\ \A i, j \in 1..Len(submitted') : submitted'[i].id = submitted'[j].id => i = j
      BY <3>a, <3>3, <3>4, <3>5 DEF FreshInv
    <3>7. \A p \in Procs : Carried(p)' => p # t /\ cur'[p].id # o.id
      BY <1>3, <2>2, <3>1, <3>2 DEF FreshInv
    <3>8. \A p \in Procs : Carried(p)' => \A i \in 1..Len(submitted') : submitted'[i].id # cur'[p].id
      BY <1>3, <3>3, <3>4, <3>7 DEF FreshInv
    <3>. QED
      BY <1>3, <3>2, <3>6, <3>8 DEF FreshInv
  <2>3. ASSUME NEW p \in Procs, NEW ok \in BOOLEAN, Ended(p, ok) PROVE FreshInv'
    <3>1. PICK o \in Op : o = cur[p]
      BY <2>3 DEF Ended
    <3>2. submitted' = submitted /\ returned' = returned \cup {[op |-> o, ok |-> ok]} /\ ~Carried(p)'
      BY <2>3, <3>1 DEF Ended
    <3>3. CASE FromQueue(p)
      <4>1. \E i \in 1..Len(submitted) : submitted[i] = o
        BY <2>3, <3>1, <3>2, <3>3, EndedIsNext DEF Ended
      <4>2. o.id < next /\ \A q \in Procs : Carried(q)' => cur'[q].id # o.id
        BY <1>3, <4>1 DEF FreshInv
      <4>. QED
        BY <1>3, <3>2, <4>2 DEF FreshInv
    <3>4. CASE ~FromQueue(p)
      <4>1. Carried(p)
        BY <2>3, <3>4 DEF Ended, Carried
      <4>2. o.id < next /\ \A q \in Procs : Carried(q)' => q # p /\ cur'[q].id # o.id
        BY <1>3, <3>1, <3>2, <4>1 DEF FreshInv
      <4>. QED
        BY <1>3, <3>2, <4>2 DEF FreshInv
    <3>. QED
      BY <3>3, <3>4
  <2>. QED
    BY <2>1, <2>2, <2>3, Effect DEF Silent, Skipped, Asked, RunQuery, AddResult, RunCallback
<1>. QED
  BY <1>2, <1>3, Carry DEF DbInv

LEMMA DoneStep ==
    ASSUME DbInv, DoneInv, [Next]_vars
    PROVE  DoneInv'
<1>1. executed \in Seq(Op) /\ Len(executed) \in Nat
  BY Prefix
<1>2. \A r \in returned : r \in returned'
  BY Effect DEF Silent, Queued, Skipped, Ended, Asked, RunQuery, AddResult, RunCallback
<1>3. CASE executed' = executed
  BY <1>2, <1>3 DEF DoneInv
<1>4. ASSUME NEW o \in Op, executed' = Append(executed, o),
             \/ o.kind = "query" \/ o.size = 0
             \/ \E ok \in BOOLEAN : [op |-> o, ok |-> ok] \in returned'
      PROVE  DoneInv'
  <2>1. /\ Len(executed') = Len(executed) + 1 /\ executed'[Len(executed) + 1] = o
        /\ \A i \in 1..Len(executed) : executed'[i] = executed[i]
    BY <1>1, <1>4, OneMore
  <2>2. \A i \in 1..Len(executed') : i = Len(executed) + 1 \/ i \in 1..Len(executed)
    BY <1>1, <2>1
  <2>. QED
    BY <1>2, <1>4, <2>1, <2>2 DEF DoneInv
<1>5. ASSUME NEW o \in Op, Skipped(o) PROVE DoneInv'
  BY <1>4, <1>5 DEF Skipped
<1>6. ASSUME NEW p \in Procs, NEW ok \in BOOLEAN, Ended(p, ok) PROVE DoneInv'
  <2>1. PICK o \in Op : o = cur[p]
    BY <1>6 DEF Ended
  <2>2. [op |-> o, ok |-> ok] \in returned'
    BY <1>6, <2>1 DEF Ended
  <2>. QED
    BY <1>3, <1>4, <1>6, <2>1, <2>2 DEF Ended
<1>7. ASSUME NEW e \in Executors, Asked(e) PROVE DoneInv'
  BY <1>4, <1>7 DEF Asked, RunQuery
<1>. QED
  BY <1>3, <1>5, <1>6, <1>7, Effect DEF Silent, Queued, AddResult, RunCallback

-----------------------------------------------------------------------------
(* AnswerInv: what an answer shows.                                        *)

LEMMA AnswerTypes ==
    ASSUME DbInv
    PROVE  /\ results \in Seq(Answer) /\ \A e \in Executors : answer[e] \in Seq(Answer)
           /\ answer \in [Executors -> Seq(Answer)]
           /\ Len(results) \in Nat /\ \A e \in Executors : Len(answer[e]) \in Nat
BY DEF DbInv, TypeOK

\* Writes that had their turn are in the database, unless they failed.
LEMMA WritesShow ==
    ASSUME DbInv, DoneInv, NEW i \in 1..Len(executed)
    PROVE  Rows(executed[i]) \subseteq db \/ [op |-> executed[i], ok |-> FALSE] \in returned
<1>1. executed[i] \in Op
  BY Prefix, ElementOfSeq
<1>2. CASE executed[i].kind = "query" \/ executed[i].size = 0
  <2>1. \A k : k \X (1..0) = {}
    OBVIOUS
  <2>. QED
    BY <1>2, <2>1 DEF Rows
<1>3. CASE executed[i].kind # "query" /\ executed[i].size # 0
  <2>1. PICK ok \in BOOLEAN : [op |-> executed[i], ok |-> ok] \in returned
    BY <1>3 DEF DoneInv
  <2>2. CASE ok = TRUE
    <3>1. PICK r \in returned : r.op = executed[i] /\ r.ok
      BY <2>1, <2>2
    <3>2. db = UNION {Rows(x.op) : x \in {x \in returned : x.ok}}
      BY DEF DbInv, TxInv, AllOrNothing
    <3>3. Rows(r.op) \in {Rows(x.op) : x \in {x \in returned : x.ok}}
      BY <3>1
    <3>. QED
      BY <3>1, <3>2, <3>3
  <2>3. CASE ok = FALSE
    BY <2>1, <2>3
  <2>. QED
    BY <2>2, <2>3
<1>. QED
  BY <1>2, <1>3

\* An answer stays right: the histories only grow.
LEMMA AnsweredStays ==
    ASSUME DbInv, [Next]_vars, NEW a, Answered(a)
    PROVE  Answered(a)'
<1>1. executed \in Seq(Op) /\ Len(executed) \in Nat
  BY Prefix
<1>2. returned \subseteq returned' /\ (executed' = executed \/ \E o \in Op : executed' = Append(executed, o))
  BY Effect DEF Silent, Queued, Skipped, Ended, Asked, RunQuery, AddResult, RunCallback
<1>3. Len(executed') \in Nat /\ Len(executed) <= Len(executed')
      /\ \A i \in 1..Len(executed) : executed'[i] = executed[i]
  <2>1. CASE executed' = executed
    BY <1>1, <2>1
  <2>2. CASE \E o \in Op : executed' = Append(executed, o)
    <3>1. PICK o \in Op : executed' = Append(executed, o)
      BY <2>2
    <3>. QED
      BY <1>1, <3>1, OneMore
  <2>. QED
    BY <1>2, <2>1, <2>2
<1>4. PICK j \in 1..Len(executed) : Answers(a, j)
  BY DEF Answered
<1>5. j \in 1..Len(executed') /\ \A i \in 1..j - 1 : i \in 1..Len(executed)
  BY <1>1, <1>3
<1>6. Answers(a, j)'
  BY <1>2, <1>3, <1>4, <1>5 DEF Answers
<1>. QED
  BY <1>5, <1>6 DEF Answered

\* Only AddResult leaves the stage in which an answer is kept.
LEMMA LeavesAdd ==
    ASSUME DbInv, [Next]_vars, NEW e \in Executors, pc[e] = "add", ~AddResult(e)
    PROVE  pc'[e] = "add"
<1>. USE ProcTypes DEF DbInv
<1>1. CASE \E t \in Submitters : Submit(t) \/ Delay(t)
  BY <1>1 DEF Submit, BeginTransaction, Execute, CommitTransaction, RollbackTransaction, AsyncQuery,
     DirectExecute, Enqueue, ExecuteHere, MaySubmit, Delay
<1>2. CASE \E p \in Procs : OnConnection(p)
  BY <1>2 DEF OnConnection, LockConn, StatementSucceeds, StatementFails, CommitOnServer, Finish
<1>3. CASE \E x \in Executors : ProcessRequests(x)
  <2>. PICK x \in Executors : ProcessRequests(x)
    BY <1>3
  <2>1. x # e
    BY DEF ProcessRequests, LockQueue, MoveQueue, Take, RunQuery
  <2>. QED
    BY <2>1 DEF ProcessRequests, LockQueue, MoveQueue, Take, RunQuery, AddResult
<1>4. CASE RunLoop \/ UpdateResults \/ ConnectionLost \/ \E t \in Threads : ThreadEnds(t)
  BY <1>4 DEF RunLoop, PingIsDue, BatchDone, Ping, EndOfRound, UpdateResults, StartUpdate,
     RunCallback, EndUpdate, ConnectionLost, ThreadEnds
<1>5. CASE MasterRun
  BY <1>5 DEF MasterRun, AllowAsyncTransactions, ThreadsJoined, Stop, Flush, Halted, ControlInv
<1>6. CASE UNCHANGED vars
  BY <1>6
<1>. QED
  BY <1>1, <1>2, <1>3, <1>4, <1>5, <1>6 DEF Next, Terminated

LEMMA AnswerStep ==
    ASSUME DbInv, DoneInv, AnswerInv, [Next]_vars
    PROVE  AnswerInv'
<1>0. Submitters \subseteq Procs /\ Executors \subseteq Procs
  BY ProcTypes DEF DbInv
<1>1. ASSUME NEW a, Answered(a) PROVE Answered(a)'
  BY <1>1, AnsweredStays
<1>2. executed \in Seq(Op) /\ Len(executed) \in Nat
  BY Prefix
<1>3. ASSUME UNCHANGED <<results, answer>>, ~ \E e \in Executors : AddResult(e)
      PROVE  AnswerInv'
  <2>1. \A e \in Executors : pc'[e] # "add" => answer'[e] = << >>
    BY <1>3, LeavesAdd DEF AnswerInv
  <2>2. ASSUME NEW e \in Executors, NEW i \in 1..Len(answer[e]) PROVE Answered(answer[e][i])'
    BY <1>1, <1>3 DEF AnswerInv
  <2>3. ASSUME NEW i \in 1..Len(results) PROVE Answered(results[i])'
    BY <1>1, <1>3 DEF AnswerInv
  <2>. QED
    BY <1>3, <2>1, <2>2, <2>3 DEF AnswerInv
<1>4. ASSUME NEW e \in Executors, Asked(e) PROVE AnswerInv'
  <2>1. PICK o \in Op : o = cur[e]
    BY <1>4 DEF Asked
  <2>2. PICK ok \in BOOLEAN :
           /\ answer' = [answer EXCEPT ![e] = <<[op |-> o, ok |-> ok, seen |-> IF ok THEN db ELSE {}]>>]
           /\ executed' = Append(executed, o) /\ results' = results /\ returned' = returned
           /\ pc' = [pc EXCEPT ![e] = "add"]
    <3>1. PICK ok \in {up, FALSE} :
             /\ answer' = [answer EXCEPT ![e] =
                             <<[op |-> cur[e], ok |-> ok, seen |-> IF ok THEN db \cup tx ELSE {}]>>]
             /\ executed' = Append(executed, cur[e]) /\ results' = results /\ returned' = returned
             /\ pc' = [pc EXCEPT ![e] = "add"]
      BY <1>4 DEF Asked, RunQuery
    <3>2. db \cup tx = db /\ ok \in BOOLEAN
      BY <1>4 DEF Asked, DbInv, TypeOK
    <3>. QED
      BY <2>1, <3>1, <3>2
  <2>3. PICK a : a = [op |-> o, ok |-> ok, seen |-> IF ok THEN db ELSE {}]
    OBVIOUS
  <2>4. answer'[e] = <<a>> /\ pc'[e] = "add"
        /\ \A x \in Executors \ {e} : answer'[x] = answer[x] /\ pc'[x] = pc[x]
    <3>1. e \in Procs /\ pc \in [Procs -> PcValues] /\ answer \in [Executors -> Seq(Answer)]
      BY <1>0, ProcTypes, AnswerTypes DEF DbInv
    <3>. QED
      BY <1>0, <2>2, <2>3, <3>1
  <2>5. Answered(a)'
    <3>1. /\ Len(executed') = Len(executed) + 1 /\ executed'[Len(executed) + 1] = o
          /\ \A i \in 1..Len(executed) : executed'[i] = executed[i]
      BY <1>2, <2>2, OneMore
    <3>2. PICK j : j = Len(executed) + 1
      OBVIOUS
    <3>3. j \in 1..Len(executed') /\ \A i \in 1..j - 1 : i \in 1..Len(executed)
      BY <1>2, <3>1, <3>2
    <3>4. a.op = o /\ a.ok = ok /\ (ok => a.seen = db)
      BY <2>3
    <3>5. \A i \in 1..j - 1 : Rows(executed'[i]) \subseteq db \/ [op |-> executed'[i], ok |-> FALSE] \in returned'
      BY <2>2, <3>1, <3>3, WritesShow
    <3>6. Answers(a, j)'
      BY <3>1, <3>2, <3>4, <3>5 DEF Answers
    <3>. QED
      BY <3>3, <3>6 DEF Answered
  <2>6. ASSUME NEW x \in Executors, NEW i \in 1..Len(answer'[x]) PROVE Answered(answer[x][i])'
    <3>1. CASE x = e
      <4>1. answer'[x][i] = a
        BY <2>4, <3>1
      <4>. QED
        BY <2>5, <4>1
    <3>2. CASE x # e
      BY <1>1, <2>4, <3>2 DEF AnswerInv
    <3>. QED
      BY <3>1, <3>2
  <2>7. ASSUME NEW i \in 1..Len(results) PROVE Answered(results[i])'
    BY <1>1, <2>2 DEF AnswerInv
  <2>8. \A x \in Executors : pc'[x] # "add" => answer'[x] = << >>
    BY <2>4 DEF AnswerInv
  <2>. QED
    BY <2>2, <2>6, <2>7, <2>8 DEF AnswerInv
<1>5. ASSUME NEW e \in Executors, AddResult(e) PROVE AnswerInv'
  <2>1. /\ results' = results \o answer[e] /\ answer' = [answer EXCEPT ![e] = << >>]
        /\ \A x \in Executors \ {e} : pc'[x] = pc[x]
    BY <1>5 DEF AddResult, DbInv
  <2>2. answer'[e] = << >> /\ \A x \in Executors \ {e} : answer'[x] = answer[x]
    BY <2>1, AnswerTypes
  <2>3. \A x \in Executors : pc'[x] # "add" => answer'[x] = << >>
    BY <2>1, <2>2 DEF AnswerInv
  <2>4. ASSUME NEW x \in Executors, NEW i \in 1..Len(answer'[x]) PROVE Answered(answer[x][i])'
    <3>1. x # e
      BY <2>2
    <3>. QED
      BY <1>1, <2>2, <3>1 DEF AnswerInv
  <2>5. ASSUME NEW i \in 1..Len(results') PROVE Answered(results[i])'
    <3>1. /\ Len(results') = Len(results) + Len(answer[e]) /\ Len(results) \in Nat /\ Len(answer[e]) \in Nat
          /\ \A k \in 1..Len(results) : results'[k] = results[k]
          /\ \A k \in 1..Len(answer[e]) : results'[Len(results) + k] = answer[e][k]
      BY <2>1, AnswerTypes, CatParts
    <3>2. CASE i \in 1..Len(results)
      BY <1>1, <3>1, <3>2 DEF AnswerInv
    <3>3. CASE i \notin 1..Len(results)
      <4>1. i - Len(results) \in 1..Len(answer[e]) /\ i = Len(results) + (i - Len(results))
        BY <3>1, <3>3
      <4>2. results'[i] = answer[e][i - Len(results)]
        BY <3>1, <4>1
      <4>. QED
        BY <1>1, <4>1, <4>2 DEF AnswerInv
    <3>. QED
      BY <3>2, <3>3
  <2>. QED
    BY <2>3, <2>4, <2>5 DEF AnswerInv
<1>6. CASE RunCallback
  <2>1. results' = Tail(results) /\ results # << >> /\ UNCHANGED <<answer, pc>>
    BY <1>6 DEF RunCallback
  <2>2. /\ Len(results') = Len(results) - 1 /\ Len(results) \in Nat
        /\ \A i \in 1..Len(results') : results'[i] = results[i + 1]
    BY <2>1, AnswerTypes, HeadTailProperties
  <2>3. ASSUME NEW i \in 1..Len(results') PROVE Answered(results[i])'
    BY <1>1, <2>2 DEF AnswerInv
  <2>4. ASSUME NEW x \in Executors, NEW i \in 1..Len(answer[x]) PROVE Answered(answer[x][i])'
    BY <1>1, <2>1 DEF AnswerInv
  <2>. QED
    BY <2>1, <2>3, <2>4 DEF AnswerInv
<1>. QED
  BY <1>3, <1>4, <1>5, <1>6, Effect DEF Silent, Queued, Skipped, Ended

LEMMA AInvStep ==
    ASSUME DbInv, DbInv', AInv, [Next]_vars
    PROVE  AInv'
BY FreshStep, DoneStep, AnswerStep DEF AInv

LEMMA DbInvStep ==
    ASSUME DbInv, [Next]_vars
    PROVE  DbInv'
BY TypeStep, ControlStep, QueueStep, FifoStep, LockStep, TxStep DEF DbInv

LEMMA AsyncInit ==
    ASSUME Init
    PROVE  DbInv /\ AInv
<1>. USE ProcTypes
<1>1. TypeOK /\ ControlInv /\ QueueInv /\ Fifo
  BY InitInv
<1>2. LockInv
  BY DEF Init, LockInv, ConnHeld, Procs, Executors
<1>3. TxInv
  <2>1. \A p \in Procs : pc[p] # "stmt"
    BY DEF Init
  <2>2. UNION {Rows(r.op) : r \in {x \in {} : x.ok}} = {}
    OBVIOUS
  <2>. QED
    BY <2>1, <2>2 DEF Init, TxInv, InTransaction, AllOrNothing
<1>4. AInv
  <2>1. Len(<< >>) = 0 /\ \A p \in Procs : ~Carried(p)
    BY DEF Init, Carried
  <2>. QED
    BY <2>1 DEF Init, AInv, FreshInv, DoneInv, AnswerInv
<1>. QED
  BY <1>1, <1>2, <1>3, <1>4 DEF DbInv

THEOREM AsyncInvariance == Spec => [](DbInv /\ AInv)
BY AsyncInit, DbInvStep, AInvStep, PTL DEF Spec

(* The answer to a query shows every operation that any thread had queued  *)
(* before it, unless that operation failed: the one delay thread executes  *)
(* them in order, on one connection, and answers wait with it for the      *)
(* result queue.                                                           *)
THEOREM AnswersAreCurrent == Spec => []AnswersSeePrecedingWrites
<1>1. DbInv /\ AInv => AnswersSeePrecedingWrites
  <2>. SUFFICES ASSUME DbInv, AInv, NEW k \in DOMAIN results, results[k].ok,
                       NEW i \in DOMAIN submitted, NEW j \in DOMAIN submitted, i < j,
                       submitted[j] = results[k].op
                PROVE  \/ Rows(submitted[i]) \subseteq results[k].seen
                       \/ [op |-> submitted[i], ok |-> FALSE] \in returned
    BY DEF AnswersSeePrecedingWrites, SeesWhatPrecedes, Before
  <2>1. k \in 1..Len(results) /\ i \in 1..Len(submitted) /\ j \in 1..Len(submitted)
    BY AnswerTypes, Prefix
  <2>2. PICK n \in 1..Len(executed) : Answers(results[k], n)
    BY <2>1 DEF AInv, AnswerInv, Answered
  <2>3. submitted[n] = submitted[j] /\ n \in 1..Len(submitted)
    BY <2>2, Prefix DEF Answers
  <2>4. n = j
    BY <2>1, <2>3 DEF AInv, FreshInv
  <2>5. i \in 1..n - 1 /\ i \in 1..Len(executed)
    BY <2>1, <2>2, <2>4, Prefix
  <2>6. submitted[i] = executed[i]
    BY <2>5, Prefix
  <2>. QED
    BY <2>2, <2>5, <2>6 DEF Answers
<1>. QED
  BY <1>1, AsyncInvariance, PTL

-----------------------------------------------------------------------------
(* SqlDelay implements AsyncDb.                                            *)

Replies == results \o answer[Delayer] \o answer[Main]
UsedIds == {executed[i].id : i \in DOMAIN executed} \cup {r.op.id : r \in returned}

LEMMA PendingStays ==
    ASSUME DbInv, DbInv', executed' = executed, submitted' = submitted
    PROVE  Pending' = Pending
<1>1. executed \o Pending = submitted /\ executed \o Pending' = submitted
  BY PrefixNext DEF DbInv, Fifo
<1>. QED
  BY <1>1, Prefix, PrefixNext, CancelLeft

LEMMA PendingGrows ==
    ASSUME DbInv, DbInv', NEW o \in Op, executed' = executed, submitted' = Append(submitted, o)
    PROVE  Pending' = Append(Pending, o)
<1>1. executed \o Pending = submitted /\ executed \o Pending' = Append(submitted, o)
  BY PrefixNext DEF DbInv, Fifo
<1>2. executed \o Append(Pending, o) = Append(submitted, o)
  <2>1. executed \in Seq(Op) /\ Pending \in Seq(Op) /\ <<o>> \in Seq(Op) /\ submitted \in Seq(Op)
    BY Prefix
  <2>2. Append(Pending, o) = Pending \o <<o>> /\ Append(submitted, o) = submitted \o <<o>>
    BY <2>1, AppendIsConcat
  <2>3. (executed \o Pending) \o <<o>> = executed \o (Pending \o <<o>>)
    BY <2>1, ConcatAssociative
  <2>. QED
    BY <1>1, <2>2, <2>3
<1>3. Append(Pending, o) \in Seq(Op) /\ executed \in Seq(Op) /\ Pending' \in Seq(Op)
  BY Prefix, PrefixNext, OneMore
<1>. QED
  BY <1>1, <1>2, <1>3, CancelLeft

LEMMA PendingPops ==
    ASSUME DbInv, DbInv', NEW o \in Op, executed' = Append(executed, o), submitted' = submitted
    PROVE  Pending # << >> /\ Head(Pending) = o /\ Tail(Pending) = Pending'
<1>1. executed \o Pending = submitted /\ Append(executed, o) \o Pending' = submitted
  BY PrefixNext DEF DbInv, Fifo
<1>2. executed \in Seq(Op) /\ Pending \in Seq(Op) /\ Pending' \in Seq(Op) /\ <<o>> \in Seq(Op)
  BY Prefix, PrefixNext
<1>3. executed \o (<<o>> \o Pending') = submitted
  <2>1. Append(executed, o) = executed \o <<o>>
    BY <1>2, AppendIsConcat
  <2>2. (executed \o <<o>>) \o Pending' = executed \o (<<o>> \o Pending')
    BY <1>2, ConcatAssociative
  <2>. QED
    BY <1>1, <2>1, <2>2
<1>4. <<o>> \o Pending' \in Seq(Op)
  BY <1>2, ConcatProperties
<1>5. Pending = <<o>> \o Pending'
  BY <1>1, <1>2, <1>3, <1>4, CancelLeft
<1>6. /\ Len(<<o>>) = 1 /\ <<o>>[1] = o
      /\ Len(Pending) = 1 + Len(Pending') /\ Len(Pending') \in Nat /\ Pending[1] = o
      /\ \A i \in 1..Len(Pending') : Pending[1 + i] = Pending'[i]
  BY <1>2, <1>5, CatParts
<1>7. Pending # << >>
  BY <1>6, EmptySeq
<1>8. /\ Head(Pending) = Pending[1] /\ Tail(Pending) \in Seq(Op) /\ Len(Tail(Pending)) = Len(Pending) - 1
      /\ \A i \in 1..Len(Tail(Pending)) : Tail(Pending)[i] = Pending[i + 1]
  BY <1>2, <1>7, HeadTailProperties
<1>9. Len(Tail(Pending)) = Len(Pending') /\ \A i \in 1..Len(Tail(Pending)) : Tail(Pending)[i] = Pending'[i]
  BY <1>6, <1>8
<1>. QED
  BY <1>2, <1>6, <1>7, <1>8, <1>9, SeqEqual

LEMMA UsedAfter ==
    ASSUME DbInv, NEW o \in Op, executed' = Append(executed, o)
    PROVE  {executed'[i].id : i \in DOMAIN executed'} = {executed[i].id : i \in DOMAIN executed} \cup {o.id}
<1>1. executed \in Seq(Op) /\ DOMAIN executed = 1..Len(executed)
  BY Prefix
<1>2. /\ Len(executed') = Len(executed) + 1 /\ executed'[Len(executed) + 1] = o /\ Len(executed) \in Nat
      /\ \A i \in 1..Len(executed) : executed'[i] = executed[i]
      /\ DOMAIN executed' = 1..Len(executed) + 1
  BY <1>1, OneMore
<1>3. 1..Len(executed) + 1 = (1..Len(executed)) \cup {Len(executed) + 1}
  BY <1>2
<1>. QED
  BY <1>1, <1>2, <1>3

\* The connection holds at most one answer, and it is the last.
LEMMA OneHolder ==
    ASSUME DbInv, AnswerInv, NEW e \in Executors, ConnHeld(e)
    PROVE  \A x \in Executors : x # e => answer[x] = << >>
BY ProcTypes DEF DbInv, LockInv, ConnHeld, AnswerInv

LEMMA RepliesAdded ==
    ASSUME DbInv, AnswerInv, NEW e \in Executors, AddResult(e)
    PROVE  Replies' = Replies
<1>1. /\ results' = results \o answer[e] /\ answer' = [answer EXCEPT ![e] = << >>]
      /\ ConnHeld(e)
  BY DEF AddResult, ConnHeld
<1>2. /\ results \in Seq(Answer) /\ results \o answer[e] \in Seq(Answer)
      /\ \A x \in Executors : answer[x] \in Seq(Answer)
  BY AnswerTypes, ConcatProperties
<1>3. answer'[e] = << >> /\ \A x \in Executors : x # e => answer[x] = << >> /\ answer'[x] = << >>
  BY <1>1, OneHolder, AnswerTypes
<1>4. \A s \in Seq(Answer) : s \o << >> = s
  BY ConcatEmptySeq
<1>5. Delayer \in Executors /\ Main \in Executors /\ (e = Delayer \/ e = Main) /\ Delayer # Main
  BY ProcTypes DEF DbInv, Executors
<1>6. Replies' = results \o answer[e]
  BY <1>1, <1>2, <1>3, <1>4, <1>5 DEF Replies
<1>7. Replies = results \o answer[e]
  <2>1. CASE e = Delayer
    BY <1>2, <1>3, <1>4, <1>5, <2>1 DEF Replies
  <2>2. CASE e = Main
    BY <1>2, <1>3, <1>4, <1>5, <2>2 DEF Replies
  <2>. QED
    BY <1>5, <2>1, <2>2
<1>. QED
  BY <1>6, <1>7

LEMMA RepliesAsked ==
    ASSUME DbInv, AnswerInv, NEW e \in Executors, Asked(e)
    PROVE  \E ok \in BOOLEAN :
              /\ Replies' = Append(Replies, [op |-> cur[e], ok |-> ok, seen |-> IF ok THEN db ELSE {}])
              /\ answer' = [answer EXCEPT ![e] =
                                <<[op |-> cur[e], ok |-> ok, seen |-> IF ok THEN db ELSE {}]>>]
<1>1. PICK ok \in {up, FALSE} :
         answer' = [answer EXCEPT ![e] =
                       <<[op |-> cur[e], ok |-> ok, seen |-> IF ok THEN db \cup tx ELSE {}]>>]
  BY DEF Asked, RunQuery
<1>2. db \cup tx = db /\ ok \in BOOLEAN /\ cur[e] \in Op /\ db \subseteq Row
      /\ results' = results /\ pc[e] = "stmt"
  BY DEF Asked, DbInv, TypeOK, RunQuery
<1>3. PICK a \in Answer : a = [op |-> cur[e], ok |-> ok, seen |-> IF ok THEN db ELSE {}]
  BY <1>2 DEF Answer
<1>4. answer' = [answer EXCEPT ![e] = <<a>>]
  BY <1>1, <1>2, <1>3
<1>5. Delayer \in Executors /\ Main \in Executors /\ (e = Delayer \/ e = Main) /\ Delayer # Main
  BY ProcTypes DEF DbInv, Executors
<1>6. \A x \in Executors : answer[x] = << >>
  BY <1>2, OneHolder DEF ConnHeld, AnswerInv
<1>7. answer'[e] = <<a>> /\ \A x \in Executors : x # e => answer'[x] = << >>
  BY <1>4, <1>6, AnswerTypes
<1>8. results \in Seq(Answer) /\ <<a>> \in Seq(Answer) /\ results \o <<a>> \in Seq(Answer)
      /\ Append(results, a) = results \o <<a>>
  BY AnswerTypes, AppendIsConcat, ConcatProperties
<1>9. \A s \in Seq(Answer) : s \o << >> = s
  BY ConcatEmptySeq
<1>10. Replies = results
  BY <1>5, <1>6, <1>8, <1>9 DEF Replies
<1>11. Replies' = results \o <<a>>
  <2>1. CASE e = Delayer
    BY <1>2, <1>5, <1>7, <1>8, <1>9, <2>1 DEF Replies
  <2>2. CASE e = Main
    BY <1>2, <1>5, <1>7, <1>8, <1>9, <2>2 DEF Replies
  <2>. QED
    BY <1>5, <2>1, <2>2
<1>. QED
  BY <1>2, <1>3, <1>4, <1>8, <1>10, <1>11

LEMMA RepliesCalledBack ==
    ASSUME DbInv, AnswerInv, RunCallback
    PROVE  Replies # << >> /\ Replies' = Tail(Replies)
<1>1. /\ results # << >> /\ results' = Tail(results) /\ answer' = answer
  BY DEF RunCallback
<1>2. results \in Seq(Answer) /\ answer[Delayer] \in Seq(Answer) /\ answer[Main] \in Seq(Answer)
  BY AnswerTypes, ProcTypes DEF DbInv
<1>3. PICK d \in Seq(Answer), m \in Seq(Answer) : d = answer[Delayer] /\ m = answer[Main]
  BY <1>2
<1>r. PICK r \in Seq(Answer) : r = d \o m
  BY ConcatProperties
<1>4. Tail(results) \in Seq(Answer)
  BY <1>1, <1>2, HeadTailProperties
<1>a. \A s \in Seq(Answer) : (s \o answer[Delayer]) \o answer[Main] = s \o r
  <2>. SUFFICES ASSUME NEW s \in Seq(Answer) PROVE (s \o d) \o m = s \o (d \o m)
    BY <1>3, <1>r
  <2>. QED
    BY ConcatAssociative
<1>5. Replies = results \o r
  BY <1>2, <1>a DEF Replies
<1>6. Replies' = Tail(results) \o r
  BY <1>1, <1>4, <1>a DEF Replies
<1>7. results \o r # << >> /\ Tail(results \o r) = Tail(results) \o r
  <2>1. /\ Len(results) \in Nat \ {0} /\ Len(r) \in Nat /\ Len(Tail(results)) = Len(results) - 1
        /\ \A i \in 1..Len(Tail(results)) : Tail(results)[i] = results[i + 1]
    BY <1>1, <1>2, <1>3, EmptySeq, LenProperties, HeadTailProperties
  <2>2. /\ results \o r \in Seq(Answer) /\ Len(results \o r) = Len(results) + Len(r)
        /\ \A i \in 1..Len(results) + Len(r) :
              (results \o r)[i] = IF i <= Len(results) THEN results[i] ELSE r[i - Len(results)]
    BY <1>2, <1>3, ConcatProperties
  <2>3. /\ Tail(results) \o r \in Seq(Answer) /\ Len(Tail(results) \o r) = Len(Tail(results)) + Len(r)
        /\ \A i \in 1..Len(Tail(results)) + Len(r) :
              (Tail(results) \o r)[i] =
                 IF i <= Len(Tail(results)) THEN Tail(results)[i] ELSE r[i - Len(Tail(results))]
    BY <1>3, <1>4, ConcatProperties
  <2>4. results \o r # << >>
    BY <2>1, <2>2, EmptySeq
  <2>5. /\ Tail(results \o r) \in Seq(Answer) /\ Len(Tail(results \o r)) = Len(results) + Len(r) - 1
        /\ \A i \in 1..Len(results) + Len(r) - 1 : Tail(results \o r)[i] = (results \o r)[i + 1]
    BY <2>1, <2>2, <2>4, HeadTailProperties
  <2>6. \A i \in 1..Len(results) + Len(r) - 1 : Tail(results \o r)[i] = (Tail(results) \o r)[i]
    <3>. SUFFICES ASSUME NEW i \in 1..Len(results) + Len(r) - 1
                  PROVE  (results \o r)[i + 1] = (Tail(results) \o r)[i]
      BY <2>5
    <3>1. CASE i <= Len(results) - 1
      BY <2>1, <2>2, <2>3, <3>1
    <3>2. CASE i > Len(results) - 1
      <4>1. i + 1 - Len(results) = i - Len(Tail(results))
        BY <2>1
      <4>. QED
        BY <2>1, <2>2, <2>3, <3>2, <4>1
    <3>. QED
      BY <2>1, <3>1, <3>2
  <2>. QED
    BY <2>1, <2>3, <2>4, <2>5, <2>6, SeqEqual
<1>. QED
  BY <1>5, <1>6, <1>7

LEMMA RefinementStep ==
    ASSUME DbInv, DbInv', AInv, [Next]_vars
    PROVE  [AsyncDb!Next]_(AsyncDb!vars)
<1>. USE DEF Replies, UsedIds
<1>1. FreshInv /\ AnswerInv
  BY DEF AInv
<1>2. Pending \in Seq(Op) /\ executed \in Seq(Op) /\ submitted \in Seq(Op)
  BY Prefix
<1>3. \A o \in Op : o.id \in 1..MaxOps /\ AsyncDb!RowsOf(o) = Rows(o) /\ o.size \in AsyncDb!Sizes(o.kind)
  BY DEF Op, AsyncDb!RowsOf, Rows, AsyncDb!Sizes
<1>4. CASE Silent
  <2>1. Pending' = Pending
    BY <1>4, PendingStays DEF Silent
  <2>. QED
    BY <1>4, <2>1 DEF Silent, AsyncDb!vars
<1>5. ASSUME NEW t \in Submitters, Queued(t) PROVE AsyncDb!Next
  <2>1. PICK o \in Op : o = cur[t]
    BY <1>5 DEF Queued
  <2>2. Pending' = Append(Pending, o)
    BY <1>5, <2>1, PendingGrows DEF Queued
  <2>3. Len(Pending') = Len(Pending) + 1 /\ Pending'[Len(Pending')] = o /\ Len(Pending) \in Nat
    BY <1>2, <2>2, OneMore
  <2>4. AsyncDb!Submit(o)
    BY <1>3, <1>5, <2>2 DEF AsyncDb!Submit, Queued
  <2>. QED
    BY <2>3, <2>4 DEF AsyncDb!Next
<1>6. ASSUME NEW o \in Op, executed' = Append(executed, o), submitted' = submitted, o.kind # "query",
             UsedIds' = UsedIds \cup {o.id}, Replies' = Replies, db' = db \/ db' = db \cup Rows(o)
      PROVE  AsyncDb!Next
  <2>1. Pending # << >> /\ Head(Pending) = o /\ Tail(Pending) = Pending'
    BY <1>6, PendingPops
  <2>2. AsyncDb!ApplyWrite
    BY <1>3, <1>6, <2>1 DEF AsyncDb!ApplyWrite
  <2>. QED
    BY <2>2 DEF AsyncDb!Next
<1>7. ASSUME NEW o \in Op, Skipped(o) PROVE AsyncDb!Next
  <2>1. UsedIds' = UsedIds \cup {o.id}
    BY <1>7, UsedAfter DEF Skipped
  <2>. QED
    BY <1>6, <1>7, <2>1 DEF Skipped
<1>8. ASSUME NEW p \in Procs, NEW ok \in BOOLEAN, Ended(p, ok) PROVE AsyncDb!Next
  <2>1. PICK o \in Op : o = cur[p]
    BY <1>8 DEF Ended
  <2>2. {r.op.id : r \in returned'} = {r.op.id : r \in returned} \cup {o.id}
    <3>. DEFINE rec == [op |-> o, ok |-> ok]
    <3>1. rec.op.id = o.id
      OBVIOUS
    <3>2. returned' = returned \cup {rec}
      BY <1>8, <2>1 DEF Ended
    <3>. HIDE DEF rec
    <3>. QED
      BY <3>1, <3>2
  <2>3. db' = db \/ db' = db \cup Rows(o)
    BY <1>8, <2>1 DEF Ended
  <2>4. CASE FromQueue(p)
    <3>1. executed' = Append(executed, o) /\ submitted' = submitted /\ Replies' = Replies /\ o.kind # "query"
      BY <1>8, <2>1, <2>4 DEF Ended
    <3>2. UsedIds' = UsedIds \cup {o.id}
      BY <2>2, <3>1, UsedAfter
    <3>. QED
      BY <1>6, <2>3, <3>1, <3>2
  <2>5. CASE ~FromQueue(p)
    <3>1. executed' = executed /\ submitted' = submitted /\ Replies' = Replies /\ o.kind # "query"
      BY <1>8, <2>1, <2>5 DEF Ended
    <3>2. Pending' = Pending
      BY <3>1, PendingStays
    <3>3. UsedIds' = UsedIds \cup {o.id}
      BY <2>2, <3>1
    <3>4. Carried(p)
      BY <1>8, <2>5 DEF Ended, Carried
    <3>5. o.id \notin UsedIds
      <4>1. \A r \in returned : r.op.id # o.id
        BY <1>1, <2>1, <3>4 DEF FreshInv
      <4>2. \A i \in 1..Len(submitted) : submitted[i].id # o.id
        BY <1>1, <2>1, <3>4 DEF FreshInv
      <4>3. \A i \in DOMAIN executed : i \in 1..Len(submitted) /\ executed[i] = submitted[i]
        BY Prefix
      <4>. QED
        BY <4>1, <4>2, <4>3
    <3>6. \A i \in DOMAIN Pending : Pending[i].id # o.id
      BY <1>1, <2>1, <3>4, Prefix DEF FreshInv
    <3>7. \E n \in 0..MaxStmts : db' = db \cup ({o.id} \X (1..n))
      <4>1. CASE db' = db
        <5>1. {o.id} \X (1..0) = {} /\ 0 \in 0..MaxStmts
          BY SqlDelayAssumption
        <5>. QED
          BY <4>1, <5>1
      <4>2. CASE db' = db \cup Rows(o)
        <5>1. o.size \in 0..MaxStmts
          BY DEF Op
        <5>. QED
          BY <3>1, <4>2, <5>1 DEF Rows
      <4>. QED
        BY <2>3, <4>1, <4>2
    <3>8. AsyncDb!DirectWrite(o.id)
      BY <3>1, <3>2, <3>3, <3>5, <3>6, <3>7 DEF AsyncDb!DirectWrite
    <3>. QED
      BY <1>3, <3>8 DEF AsyncDb!Next
  <2>. QED
    BY <2>4, <2>5
<1>9. ASSUME NEW e \in Executors, Asked(e) PROVE AsyncDb!Next
  <2>1. PICK o \in Op : o = cur[e]
    BY <1>9 DEF Asked
  <2>2. /\ executed' = Append(executed, o) /\ o.kind = "query"
        /\ UNCHANGED <<submitted, returned, db>>
    BY <1>9, <2>1 DEF Asked, RunQuery
  <2>3. Pending # << >> /\ Head(Pending) = o /\ Tail(Pending) = Pending'
    BY <2>2, PendingPops
  <2>4. UsedIds' = UsedIds \cup {o.id}
    BY <2>2, UsedAfter
  <2>5. \E ok \in BOOLEAN :
           Replies' = Append(Replies, [op |-> o, ok |-> ok, seen |-> IF ok THEN db ELSE {}])
    BY <1>1, <1>9, <2>1, RepliesAsked
  <2>6. AsyncDb!ApplyQuery
    BY <2>2, <2>3, <2>4, <2>5 DEF AsyncDb!ApplyQuery
  <2>. QED
    BY <2>6 DEF AsyncDb!Next
<1>10. ASSUME NEW e \in Executors, AddResult(e) PROVE UNCHANGED AsyncDb!vars
  <2>1. UNCHANGED <<executed, submitted, returned, db>>
    BY <1>10 DEF AddResult
  <2>2. Pending' = Pending
    BY <2>1, PendingStays
  <2>3. Replies' = Replies
    BY <1>1, <1>10, RepliesAdded
  <2>. QED
    BY <2>1, <2>2, <2>3 DEF AsyncDb!vars
<1>11. CASE RunCallback
  <2>1. UNCHANGED <<executed, submitted, returned, db>>
    BY <1>11 DEF RunCallback
  <2>2. Pending' = Pending
    BY <2>1, PendingStays
  <2>3. Replies # << >> /\ Replies' = Tail(Replies)
    BY <1>1, <1>11, RepliesCalledBack
  <2>4. AsyncDb!Callback
    BY <2>1, <2>2, <2>3 DEF AsyncDb!Callback
  <2>. QED
    BY <2>4 DEF AsyncDb!Next
<1>. QED
  BY <1>4, <1>5, <1>7, <1>8, <1>9, <1>10, <1>11, Effect

LEMMA RefinementInit ==
    ASSUME Init
    PROVE  AsyncDb!Init
<1>1. /\ InFlight(Delayer) = << >> /\ InFlight(Main) = << >>
      /\ batch[Delayer] = << >> /\ batch[Main] = << >> /\ sqlQueue = << >>
      /\ answer[Delayer] = << >> /\ answer[Main] = << >> /\ results = << >>
      /\ db = {} /\ executed = << >> /\ returned = {}
  BY DEF Init, InFlight, Executors, Procs
<1>2. << >> \o << >> = << >>
  BY ConcatEmptySeq, EmptySeq
<1>3. DOMAIN << >> = {}
  OBVIOUS
<1>. QED
  BY <1>1, <1>2, <1>3 DEF AsyncDb!Init, Pending

(* The threads, the queue moved aside in batches, the connection shared    *)
(* with direct writers and the result queue are, for a caller, one queue   *)
(* of operations applied in order, each completely or not at all.          *)
THEOREM Refinement == Spec => ImplementsAsyncDb
<1>1. Init => AsyncDb!Init
  BY RefinementInit
<1>2. (DbInv /\ AInv) /\ (DbInv /\ AInv)' /\ [Next]_vars => [AsyncDb!Next]_(AsyncDb!vars)
  BY RefinementStep
<1>. QED
  BY <1>1, <1>2, AsyncInvariance, PTL DEF Spec, ImplementsAsyncDb, AsyncDb!Spec

-----------------------------------------------------------------------------
(* Callbacks run in the order of the queries.                              *)

\* CallbackOrder, of the ids given and the operations executed.
QueriesOf(e, n) == {i \in 1..n : e[i].kind = "query"}
InOrder(g, e) ==
    /\ Len(g) = Cardinality(QueriesOf(e, Len(e)))
    /\ \A i \in QueriesOf(e, Len(e)) : g[Cardinality(QueriesOf(e, i))] = e[i].id

LEMMA OrderIs == CallbackOrder <=> InOrder(Given, executed)
BY DEF CallbackOrder, InOrder, Queries, QueriesOf

LEMMA QueriesFinite ==
    ASSUME NEW e, NEW n \in Nat
    PROVE  IsFiniteSet(QueriesOf(e, n)) /\ Cardinality(QueriesOf(e, n)) \in Nat
<1>1. IsFiniteSet(1..n)
  BY FS_Interval
<1>. QED
  BY <1>1, FS_Subset, FS_CardinalityType DEF QueriesOf

\* The queries among the first operations stay when another is executed.
LEMMA QueriesStay ==
    ASSUME NEW e \in Seq(Op), NEW o \in Op
    PROVE  /\ Len(Append(e, o)) = Len(e) + 1 /\ Len(e) \in Nat
           /\ \A n \in 0..Len(e) : QueriesOf(Append(e, o), n) = QueriesOf(e, n)
           /\ QueriesOf(Append(e, o), Len(e) + 1) =
                 IF o.kind = "query" THEN QueriesOf(e, Len(e)) \cup {Len(e) + 1} ELSE QueriesOf(e, Len(e))
<1>1. /\ Len(Append(e, o)) = Len(e) + 1 /\ Len(e) \in Nat /\ Append(e, o)[Len(e) + 1] = o
      /\ \A i \in 1..Len(e) : Append(e, o)[i] = e[i]
  BY OneMore
<1>2. PICK f : f = Append(e, o)
  OBVIOUS
<1>3. \A n \in 0..Len(e) : QueriesOf(f, n) = QueriesOf(e, n)
  BY <1>1, <1>2 DEF QueriesOf
<1>4. 1..Len(e) + 1 = (1..Len(e)) \cup {Len(e) + 1}
  BY <1>1
<1>5. QueriesOf(f, Len(e) + 1) =
         IF o.kind = "query" THEN QueriesOf(e, Len(e)) \cup {Len(e) + 1} ELSE QueriesOf(e, Len(e))
  BY <1>1, <1>2, <1>4 DEF QueriesOf
<1>. QED
  BY <1>1, <1>2, <1>3, <1>5

LEMMA OrderKept ==
    ASSUME NEW e \in Seq(Op), NEW g, NEW o \in Op, o.kind # "query", InOrder(g, e)
    PROVE  InOrder(g, Append(e, o))
<1>1. PICK f : f = Append(e, o)
  OBVIOUS
<1>2. /\ Len(f) = Len(e) + 1 /\ Len(e) \in Nat /\ QueriesOf(f, Len(f)) = QueriesOf(e, Len(e))
      /\ \A n \in 0..Len(e) : QueriesOf(f, n) = QueriesOf(e, n)
      /\ \A i \in 1..Len(e) : f[i] = e[i]
  <2>1. Len(f) = Len(e) + 1 /\ Len(e) \in Nat /\ \A i \in 1..Len(e) : f[i] = e[i]
    BY <1>1, OneMore
  <2>2. /\ \A n \in 0..Len(e) : QueriesOf(f, n) = QueriesOf(e, n)
        /\ QueriesOf(f, Len(e) + 1) = QueriesOf(e, Len(e))
    BY <1>1, QueriesStay, Zenon
  <2>. QED
    BY <2>1, <2>2
<1>3. \A i \in QueriesOf(e, Len(e)) : i \in 1..Len(e) /\ i \in 0..Len(e)
  BY <1>2 DEF QueriesOf
<1>4. InOrder(g, f)
  BY <1>2, <1>3 DEF InOrder
<1>. QED
  BY <1>1, <1>4

LEMMA OrderGrows ==
    ASSUME NEW e \in Seq(Op), NEW g \in Seq(1..MaxOps), NEW o \in Op, o.kind = "query", InOrder(g, e)
    PROVE  InOrder(Append(g, o.id), Append(e, o))
<1>1. PICK f : f = Append(e, o)
  OBVIOUS
<1>2. PICK h : h = Append(g, o.id)
  OBVIOUS
<1>3. /\ Len(f) = Len(e) + 1 /\ Len(e) \in Nat
      /\ QueriesOf(f, Len(f)) = QueriesOf(e, Len(e)) \cup {Len(e) + 1}
      /\ \A n \in 0..Len(e) : QueriesOf(f, n) = QueriesOf(e, n)
      /\ \A i \in 1..Len(e) : f[i] = e[i]
      /\ f[Len(e) + 1] = o
  <2>1. /\ Len(f) = Len(e) + 1 /\ Len(e) \in Nat /\ \A i \in 1..Len(e) : f[i] = e[i]
        /\ f[Len(e) + 1] = o
    BY <1>1, OneMore
  <2>2. /\ \A n \in 0..Len(e) : QueriesOf(f, n) = QueriesOf(e, n)
        /\ QueriesOf(f, Len(e) + 1) = QueriesOf(e, Len(e)) \cup {Len(e) + 1}
    BY <1>1, QueriesStay, Zenon
  <2>. QED
    BY <2>1, <2>2
<1>4. \A i \in QueriesOf(e, Len(e)) : i \in 1..Len(e) /\ i \in 0..Len(e)
  BY <1>3 DEF QueriesOf
<1>5. o.id \in 1..MaxOps
  BY DEF Op
<1>6. /\ Len(h) = Len(g) + 1 /\ Len(g) \in Nat /\ h[Len(g) + 1] = o.id
      /\ \A i \in 1..Len(g) : h[i] = g[i]
  BY <1>2, <1>5, OneMore
<1>7. Len(e) + 1 \notin QueriesOf(e, Len(e))
  BY <1>3, <1>4
<1>8. Cardinality(QueriesOf(f, Len(f))) = Len(g) + 1
  <2>1. Cardinality(QueriesOf(e, Len(e)) \cup {Len(e) + 1}) = Cardinality(QueriesOf(e, Len(e))) + 1
    BY <1>3, <1>7, QueriesFinite, FS_AddElement
  <2>. QED
    BY <1>3, <2>1 DEF InOrder
<1>9. \A i \in QueriesOf(e, Len(e)) : h[Cardinality(QueriesOf(f, i))] = f[i].id
  <2>. SUFFICES ASSUME NEW i \in QueriesOf(e, Len(e)) PROVE h[Cardinality(QueriesOf(f, i))] = f[i].id
    OBVIOUS
  <2>1. i \in 1..Len(e) /\ QueriesOf(f, i) = QueriesOf(e, i) /\ f[i] = e[i]
    BY <1>3, <1>4
  <2>2. g[Cardinality(QueriesOf(e, i))] = e[i].id
    BY DEF InOrder
  <2>3. Cardinality(QueriesOf(e, i)) \in 1..Len(g)
    <3>1. QueriesOf(e, i) \subseteq QueriesOf(e, Len(e)) /\ i \in QueriesOf(e, i)
      BY <1>3, <2>1 DEF QueriesOf
    <3>2. Cardinality(QueriesOf(e, i)) <= Cardinality(QueriesOf(e, Len(e)))
      BY <1>3, <3>1, QueriesFinite, FS_Subset
    <3>3. Cardinality(QueriesOf(e, i)) \in Nat /\ Cardinality(QueriesOf(e, i)) # 0
      BY <2>1, <3>1, QueriesFinite, FS_EmptySet
    <3>. QED
      BY <1>6, <3>2, <3>3 DEF InOrder
  <2>. QED
    BY <1>6, <2>1, <2>2, <2>3
<1>10. h[Cardinality(QueriesOf(f, Len(e) + 1))] = f[Len(e) + 1].id
  BY <1>3, <1>6, <1>8
<1>11. InOrder(h, f)
  BY <1>3, <1>6, <1>8, <1>9, <1>10 DEF InOrder
<1>. QED
  BY <1>1, <1>2, <1>11

\* The ids of a sequence of answers.
LEMMA IdsType ==
    ASSUME NEW s \in Seq(Answer)
    PROVE  /\ Ids(s) \in Seq(1..MaxOps) /\ Len(Ids(s)) = Len(s) /\ Len(s) \in Nat
           /\ \A i \in 1..Len(s) : Ids(s)[i] = s[i].op.id
<1>1. DOMAIN s = 1..Len(s) /\ Len(s) \in Nat /\ \A i \in 1..Len(s) : s[i] \in Answer
  BY LenProperties, ElementOfSeq
<1>2. \A a \in Answer : a.op.id \in 1..MaxOps
  BY DEF Answer, Op
<1>3. Ids(s) \in [1..Len(s) -> 1..MaxOps]
  BY <1>1, <1>2 DEF Ids
<1>4. Ids(s) \in Seq(1..MaxOps) /\ Len(Ids(s)) = Len(s)
  <2>1. PICK f \in [1..Len(s) -> 1..MaxOps] : f = Ids(s)
    BY <1>3
  <2>2. f \in Seq(1..MaxOps)
    <3>1. PICK n \in Nat : n = Len(s)
      BY <1>1
    <3>2. f \in UNION {[1..k -> 1..MaxOps] : k \in Nat}
      BY <2>1, <3>1
    <3>. QED
      BY <3>2, SeqDef
  <2>3. Len(f) = Len(s)
    BY <1>1, <2>1, <2>2, LenProperties
  <2>. QED
    BY <2>1, <2>2, <2>3
<1>. QED
  BY <1>1, <1>4 DEF Ids

LEMMA HeadThenTail ==
    ASSUME NEW s \in Seq(Answer), s # << >>
    PROVE  /\ Head(s) \in Answer /\ Tail(s) \in Seq(Answer) /\ <<Head(s)>> \in Seq(Answer)
           /\ s = <<Head(s)>> \o Tail(s)
<1>1. /\ Head(s) \in Answer /\ Tail(s) \in Seq(Answer) /\ Len(s) \in Nat
      /\ Len(Tail(s)) = Len(s) - 1 /\ Head(s) = s[1]
      /\ \A i \in 1..Len(s) - 1 : Tail(s)[i] = s[i + 1]
  BY HeadTailProperties, LenProperties
<1>2. PICK h \in Answer, t \in Seq(Answer) : h = Head(s) /\ t = Tail(s)
  BY <1>1
<1>3. <<h>> \in Seq(Answer) /\ Len(<<h>>) = 1 /\ <<h>>[1] = h
  OBVIOUS
<1>4. PICK u \in Seq(Answer) : u = <<h>>
  BY <1>3
<1>5. /\ u \o t \in Seq(Answer) /\ Len(u \o t) = Len(u) + Len(t)
      /\ \A i \in 1..Len(u) : (u \o t)[i] = u[i]
      /\ \A i \in 1..Len(t) : (u \o t)[Len(u) + i] = t[i]
  BY CatParts
<1>6. PICK v \in Seq(Answer) : v = u \o t
  BY <1>5
<1>7. Len(v) = Len(s) /\ v[1] = h /\ \A i \in 1..Len(t) : v[1 + i] = t[i]
  BY <1>1, <1>2, <1>3, <1>4, <1>5, <1>6
<1>8. \A i \in 1..Len(s) : v[i] = s[i]
  <2>. SUFFICES ASSUME NEW i \in 1..Len(s) PROVE v[i] = s[i]
    OBVIOUS
  <2>1. CASE i = 1
    BY <1>1, <1>2, <1>7, <2>1
  <2>2. CASE i # 1
    <3>1. PICK j \in 1..Len(t) : i = 1 + j
      BY <1>1, <1>2, <2>2
    <3>. QED
      BY <1>1, <1>2, <1>7, <3>1
  <2>. QED
    BY <2>1, <2>2
<1>9. v = s
  BY <1>7, <1>8, SeqEqual
<1>. QED
  BY <1>1, <1>2, <1>3, <1>4, <1>6, <1>9

LEMMA IdsCat ==
    ASSUME NEW a \in Seq(Answer), NEW b \in Seq(Answer)
    PROVE  Ids(a \o b) = Ids(a) \o Ids(b)
<1>1. /\ a \o b \in Seq(Answer) /\ Len(a \o b) = Len(a) + Len(b) /\ Len(a) \in Nat /\ Len(b) \in Nat
      /\ \A i \in 1..Len(a) + Len(b) : (a \o b)[i] = IF i <= Len(a) THEN a[i] ELSE b[i - Len(a)]
  BY ConcatProperties, LenProperties
<1>2. PICK c \in Seq(Answer) : c = a \o b
  BY <1>1
<1>3. PICK x \in Seq(1..MaxOps) : x = Ids(a)
  BY IdsType
<1>4. PICK y \in Seq(1..MaxOps) : y = Ids(b)
  BY IdsType
<1>5. /\ Len(x) = Len(a) /\ \A i \in 1..Len(a) : x[i] = a[i].op.id
      /\ Len(y) = Len(b) /\ \A i \in 1..Len(b) : y[i] = b[i].op.id
  BY <1>3, <1>4, IdsType
<1>6. /\ Ids(c) \in Seq(1..MaxOps) /\ Len(Ids(c)) = Len(a) + Len(b)
      /\ \A i \in 1..Len(a) + Len(b) : Ids(c)[i] = c[i].op.id
  BY <1>1, <1>2, IdsType
<1>7. /\ x \o y \in Seq(1..MaxOps) /\ Len(x \o y) = Len(a) + Len(b)
      /\ \A i \in 1..Len(a) + Len(b) : (x \o y)[i] = IF i <= Len(a) THEN x[i] ELSE y[i - Len(a)]
  <2>1. /\ x \o y \in Seq(1..MaxOps) /\ Len(x \o y) = Len(x) + Len(y)
        /\ \A i \in 1..Len(x) + Len(y) : (x \o y)[i] = IF i <= Len(x) THEN x[i] ELSE y[i - Len(x)]
    BY ConcatProperties, LenProperties
  <2>. QED
    BY <1>5, <2>1
<1>8. \A i \in 1..Len(a) + Len(b) : Ids(c)[i] = (x \o y)[i]
  <2>. SUFFICES ASSUME NEW i \in 1..Len(a) + Len(b) PROVE c[i].op.id = (x \o y)[i]
    BY <1>6
  <2>1. CASE i <= Len(a)
    BY <1>1, <1>2, <1>5, <1>7, <2>1
  <2>2. CASE i > Len(a)
    <3>0. i - Len(a) \in 1..Len(b)
      BY <1>1, <2>2
    <3>1. PICK j \in 1..Len(b) : j = i - Len(a)
      BY <3>0
    <3>2. i = Len(a) + j
      BY <1>1, <3>1
    <3>3. (a \o b)[Len(a) + j] = b[j] /\ (x \o y)[Len(x) + j] = y[j]
      BY <1>5, <3>1, CatParts
    <3>4. c[i] = b[j] /\ (x \o y)[i] = y[j]
      BY <1>2, <1>5, <3>2, <3>3, Zenon
    <3>. QED
      BY <1>5, <3>4
  <2>3. i <= Len(a) \/ i > Len(a)
    BY <1>1
  <2>. QED
    BY <2>1, <2>2, <2>3
<1>9. Ids(c) = x \o y
  BY <1>6, <1>7, <1>8, SeqEqual
<1>. QED
  BY <1>2, <1>3, <1>4, <1>9

\* What was given is what was called back, then the replies.
Cat(p, q) == p \o q

LEMMA CatAssociative ==
    ASSUME NEW S, NEW p \in Seq(S), NEW q \in Seq(S), NEW s \in Seq(S)
    PROVE  Cat(p, q) \in Seq(S) /\ Cat(Cat(p, q), s) = Cat(p, Cat(q, s))
<1>1. p \o q \in Seq(S)
  BY ConcatProperties
<1>2. (p \o q) \o s = p \o (q \o s)
  BY ConcatAssociative
<1>. QED
  BY <1>1, <1>2, Zenon DEF Cat

LEMMA CatFour ==
    ASSUME NEW S, NEW d \in Seq(S), NEW x \in Seq(S), NEW y \in Seq(S), NEW z \in Seq(S)
    PROVE  Cat(Cat(Cat(d, x), y), z) = Cat(d, Cat(Cat(x, y), z))
BY CatAssociative

LEMMA GivenParts ==
    ASSUME NEW d \in Seq(1..MaxOps), NEW r \in Seq(Answer), NEW a \in Seq(Answer), NEW b \in Seq(Answer)
    PROVE  d \o Ids(r) \o Ids(a) \o Ids(b) = d \o Ids(r \o a \o b)
<1>1. r \o a \in Seq(Answer)
  BY ConcatProperties
<1>2. Ids(r \o a) = Cat(Ids(r), Ids(a)) /\ Ids((r \o a) \o b) = Cat(Ids(r \o a), Ids(b))
  BY <1>1, IdsCat DEF Cat
<1>3. /\ Ids(r) \in Seq(1..MaxOps) /\ Ids(a) \in Seq(1..MaxOps) /\ Ids(b) \in Seq(1..MaxOps)
  BY IdsType
<1>4. Cat(Cat(Cat(d, Ids(r)), Ids(a)), Ids(b)) = Cat(d, Cat(Cat(Ids(r), Ids(a)), Ids(b)))
  BY <1>3, CatFour
<1>5. Cat(Cat(Cat(d, Ids(r)), Ids(a)), Ids(b)) = Cat(d, Ids((r \o a) \o b))
  BY <1>2, <1>4
<1>. QED
  BY <1>5, Zenon DEF Cat

LEMMA GivenIs ==
    ASSUME DbInv
    PROVE  Given = delivered \o Ids(Replies) /\ Replies \in Seq(Answer) /\ delivered \in Seq(1..MaxOps)
<1>1. results \in Seq(Answer) /\ answer[Delayer] \in Seq(Answer) /\ answer[Main] \in Seq(Answer)
  BY AnswerTypes, ProcTypes DEF DbInv
<1>2. delivered \in Seq(1..MaxOps)
  BY DEF DbInv, TypeOK
<1>3. results \o answer[Delayer] \o answer[Main] \in Seq(Answer)
  BY <1>1, ConcatProperties
<1>4. PICK d \in Seq(1..MaxOps), r \in Seq(Answer), a \in Seq(Answer), b \in Seq(Answer) :
         d = delivered /\ r = results /\ a = answer[Delayer] /\ b = answer[Main]
  BY <1>1, <1>2
<1>5. d \o Ids(r) \o Ids(a) \o Ids(b) = d \o Ids(r \o a \o b)
  BY GivenParts
<1>. QED
  BY <1>1, <1>2, <1>3, <1>4, <1>5 DEF Given, Replies

LEMMA GivenIsNext ==
    ASSUME DbInv'
    PROVE  Given' = delivered' \o Ids(Replies')
<1>1. results' \in Seq(Answer) /\ answer' \in [Executors -> Seq(Answer)] /\ delivered' \in Seq(1..MaxOps)
  BY DEF DbInv, TypeOK
<1>2. answer'[Delayer] \in Seq(Answer) /\ answer'[Main] \in Seq(Answer)
  BY <1>1 DEF Executors
<1>3. PICK d \in Seq(1..MaxOps), r \in Seq(Answer), a \in Seq(Answer), b \in Seq(Answer) :
         d = delivered' /\ r = results' /\ a = answer'[Delayer] /\ b = answer'[Main]
  BY <1>1, <1>2
<1>4. Given' = d \o Ids(r) \o Ids(a) \o Ids(b)
  BY <1>3 DEF Given, Ids
<1>5. Replies' = r \o a \o b
  BY <1>3 DEF Replies
<1>6. d \o Ids(r) \o Ids(a) \o Ids(b) = d \o Ids(r \o a \o b)
  BY GivenParts
<1>7. Ids(Replies') = Ids(r \o a \o b)
  BY <1>5
<1>. QED
  BY <1>3, <1>4, <1>6, <1>7

\* The id of a query is added to what was given when the query is answered.
LEMMA GivenAsked ==
    ASSUME DbInv, DbInv', AnswerInv, NEW e \in Executors, Asked(e)
    PROVE  Given' = Append(Given, cur[e].id)
<1>1. PICK ok \in BOOLEAN :
         Replies' = Append(Replies, [op |-> cur[e], ok |-> ok, seen |-> IF ok THEN db ELSE {}])
  BY RepliesAsked
<1>2. cur[e] \in Op /\ db \subseteq Row /\ delivered' = delivered
  BY DEF Asked, RunQuery, DbInv, TypeOK
<1>3. PICK a \in Answer : a = [op |-> cur[e], ok |-> ok, seen |-> IF ok THEN db ELSE {}]
  BY <1>2 DEF Answer
<1>4. a.op.id = cur[e].id /\ cur[e].id \in 1..MaxOps
  BY <1>2, <1>3 DEF Op
<1>5. PICK r \in Seq(Answer), d \in Seq(1..MaxOps) :
         r = Replies /\ d = delivered /\ Given = d \o Ids(r) /\ Given' = d \o Ids(Append(r, a))
  BY <1>1, <1>2, <1>3, GivenIs, GivenIsNext
<1>6. Ids(Append(r, a)) = Ids(r) \o Ids(<<a>>)
  <2>1. Append(r, a) = r \o <<a>> /\ <<a>> \in Seq(Answer)
    BY AppendIsConcat
  <2>. QED
    BY <2>1, IdsCat
<1>7. Ids(<<a>>) = <<cur[e].id>>
  BY <1>4 DEF Ids
<1>8. PICK x \in Seq(1..MaxOps) : x = Ids(r)
  BY IdsType
<1>9. d \o (x \o <<cur[e].id>>) = (d \o x) \o <<cur[e].id>>
  BY <1>4, ConcatAssociative
<1>10. (d \o x) \o <<cur[e].id>> = Append(d \o x, cur[e].id)
  BY <1>4, ConcatProperties, AppendIsConcat
<1>. QED
  BY <1>5, <1>6, <1>7, <1>8, <1>9, <1>10

\* A callback moves the first id from the replies to those called back.
LEMMA GivenCalledBack ==
    ASSUME DbInv, DbInv', AnswerInv, RunCallback
    PROVE  Given' = Given
<1>1. /\ results # << >> /\ results' = Tail(results) /\ UNCHANGED answer
      /\ delivered' = Append(delivered, Head(results).op.id)
  BY DEF RunCallback
<1>2. PICK d \in Seq(1..MaxOps), r \in Seq(Answer), a \in Seq(Answer), b \in Seq(Answer) :
         d = delivered /\ r = results /\ a = answer[Delayer] /\ b = answer[Main]
  BY AnswerTypes, ProcTypes DEF DbInv, TypeOK
<1>3. /\ Given = d \o Ids(r) \o Ids(a) \o Ids(b)
      /\ Given' = Append(d, Head(r).op.id) \o Ids(Tail(r)) \o Ids(a) \o Ids(b)
  BY <1>1, <1>2 DEF Given, Ids
<1>4. /\ Head(r) \in Answer /\ Tail(r) \in Seq(Answer) /\ <<Head(r)>> \in Seq(Answer)
      /\ r = <<Head(r)>> \o Tail(r)
  BY <1>1, <1>2, HeadThenTail
<1>5. PICK h \in Answer, t \in Seq(Answer) : h = Head(r) /\ t = Tail(r)
  BY <1>4
<1>6. Ids(r) = Ids(<<h>>) \o Ids(t)
  <2>1. PICK u \in Seq(Answer) : u = <<h>> /\ r = u \o t
    BY <1>4, <1>5
  <2>2. Ids(u \o t) = Ids(u) \o Ids(t)
    BY IdsCat
  <2>. QED
    BY <2>1, <2>2
<1>7. Ids(<<h>>) = <<h.op.id>> /\ h.op.id \in 1..MaxOps
  BY DEF Ids, Answer, Op
<1>8. PICK x \in Seq(1..MaxOps) : x = Ids(t)
  BY IdsType
<1>9. d \o (<<h.op.id>> \o x) = (d \o <<h.op.id>>) \o x
  <2>. PICK i \in 1..MaxOps : i = h.op.id
    BY <1>7
  <2>a. <<i>> \in Seq(1..MaxOps)
    OBVIOUS
  <2>1. PICK w \in Seq(1..MaxOps) : w = <<h.op.id>>
    BY <2>a
  <2>2. Cat(d, Cat(w, x)) = Cat(Cat(d, w), x)
    BY CatAssociative
  <2>. QED
    BY <2>1, <2>2, Zenon DEF Cat
<1>10. d \o <<h.op.id>> = Append(d, h.op.id)
  BY <1>7, AppendIsConcat
<1>11. d \o Ids(r) = Append(d, Head(r).op.id) \o Ids(Tail(r))
  BY <1>5, <1>6, <1>7, <1>8, <1>9, <1>10
<1>. QED
  BY <1>3, <1>11

LEMMA CallbackStep ==
    ASSUME DbInv, DbInv', AnswerInv, CallbackOrder, [Next]_vars
    PROVE  CallbackOrder'
<1>1. PICK e \in Seq(Op) : e = executed
  BY Prefix
<1>2. PICK g \in Seq(1..MaxOps) : g = Given
  BY GivenIs, IdsType, ConcatProperties
<1>3. InOrder(g, e)
  BY <1>1, <1>2, OrderIs
<1>4. ASSUME NEW h, NEW f, Given' = h, executed' = f, InOrder(h, f) PROVE CallbackOrder'
  BY <1>4 DEF CallbackOrder, InOrder, Queries, QueriesOf
<1>5. ASSUME UNCHANGED <<results, answer, delivered>> PROVE Given' = g
  BY <1>2, <1>5 DEF Given, Ids
<1>6. ASSUME Given' = g, UNCHANGED executed PROVE CallbackOrder'
  BY <1>1, <1>3, <1>4, <1>6
<1>7. ASSUME NEW o \in Op, o.kind # "query", Given' = g, executed' = Append(e, o) PROVE CallbackOrder'
  BY <1>3, <1>4, <1>7, OrderKept
<1>8. CASE Silent
  BY <1>5, <1>6, <1>8 DEF Silent
<1>9. CASE \E t \in Submitters : Queued(t)
  BY <1>5, <1>6, <1>9 DEF Queued
<1>10. ASSUME NEW o \in Op, Skipped(o) PROVE CallbackOrder'
  BY <1>1, <1>5, <1>7, <1>10 DEF Skipped
<1>11. ASSUME NEW p \in Procs, NEW ok \in BOOLEAN, Ended(p, ok) PROVE CallbackOrder'
  <2>1. PICK o \in Op : o = cur[p] /\ o.kind # "query"
    BY <1>11 DEF Ended
  <2>2. Given' = g /\ (executed' = executed \/ executed' = Append(e, o))
    BY <1>1, <1>5, <1>11, <2>1 DEF Ended
  <2>. QED
    BY <1>6, <1>7, <2>1, <2>2
<1>12. ASSUME NEW x \in Executors, Asked(x) PROVE CallbackOrder'
  <2>1. PICK o \in Op : o = cur[x] /\ o.kind = "query"
    BY <1>12 DEF Asked
  <2>2. Given' = Append(g, o.id) /\ executed' = Append(e, o)
    BY <1>1, <1>2, <1>12, <2>1, GivenAsked DEF Asked, RunQuery
  <2>3. InOrder(Append(g, o.id), Append(e, o))
    BY <1>3, <2>1, OrderGrows
  <2>. QED
    BY <1>4, <2>2, <2>3
<1>13. ASSUME NEW x \in Executors, AddResult(x) PROVE CallbackOrder'
  <2>1. Replies' = Replies /\ UNCHANGED <<executed, delivered>>
    BY <1>13, RepliesAdded DEF AddResult
  <2>2. Given' = g
    BY <1>2, <2>1, GivenIs, GivenIsNext
  <2>. QED
    BY <1>6, <2>1, <2>2
<1>14. CASE RunCallback
  <2>1. UNCHANGED executed
    BY <1>14 DEF RunCallback
  <2>. QED
    BY <1>2, <1>6, <1>14, <2>1, GivenCalledBack
<1>. QED
  BY <1>8, <1>9, <1>10, <1>11, <1>12, <1>13, <1>14, Effect

LEMMA CallbackInit ==
    ASSUME Init
    PROVE  CallbackOrder
<1>1. /\ answer[Delayer] = << >> /\ answer[Main] = << >> /\ results = << >> /\ delivered = << >>
      /\ executed = << >>
  BY DEF Init, Executors, Procs
<1>2. Ids(<< >>) = << >> /\ << >> \o << >> = << >> /\ Len(<< >>) = 0
  <2>1. << >> \in Seq(Answer) /\ Len(<< >>) = 0
    OBVIOUS
  <2>2. Ids(<< >>) \in Seq(1..MaxOps) /\ Len(Ids(<< >>)) = 0
    BY <2>1, IdsType
  <2>. QED
    BY <2>1, <2>2, EmptySeq, ConcatEmptySeq
<1>3. Queries(0) = {} /\ Cardinality({}) = 0
  BY FS_EmptySet DEF Queries
<1>. QED
  BY <1>1, <1>2, <1>3 DEF CallbackOrder, Given

(* The callback of every query executed runs once, in the order in which   *)
(* the queries were executed; its answer waits with the connection, then   *)
(* in the result queue, and is never overtaken there.                      *)
THEOREM CallbacksInOrder == Spec => []CallbackOrder
BY CallbackInit, CallbackStep, AsyncInvariance, PTL DEF Spec, AInv
====
