------------------------------ MODULE AsyncDb ------------------------------
(***************************************************************************)
(* What class Database promises its callers (Database.h): queued           *)
(* operations are applied one at a time in the order they were queued,     *)
(* each completely or not at all; the answer to a query is what the        *)
(* database holds at its turn; a direct write is applied at once.          *)
(***************************************************************************)
EXTENDS Naturals, Sequences

CONSTANTS MaxOps, MaxStmts

VARIABLES
    queue,    \* operations waiting for their turn
    replies,  \* answers waiting for their callback
    db,       \* committed rows <<operation, statement>>
    used      \* operations that had their turn

vars == <<queue, replies, db, used>>

Sizes(kind) == IF kind = "trans" THEN 0..MaxStmts ELSE {1}
RowsOf(o) == IF o.kind = "query" THEN {} ELSE {o.id} \X (1..o.size)

Init == queue = <<>> /\ replies = <<>> /\ db = {} /\ used = {}

\* Somebody queues an operation (AsyncQuery, Execute, CommitTransaction).
Submit(o) ==
    /\ o.id \in 1..MaxOps /\ o.size \in Sizes(o.kind)
    /\ queue' = Append(queue, o)
    /\ UNCHANGED <<replies, db, used>>

\* The first operation has its turn: a write takes place or fails ...
ApplyWrite ==
    /\ queue # <<>> /\ Head(queue).kind # "query"
    /\ queue' = Tail(queue) /\ used' = used \cup {Head(queue).id}
    /\ db' \in {db, db \cup RowsOf(Head(queue))}
    /\ UNCHANGED replies

\* ... a query is answered with the whole database, or with an error.
ApplyQuery ==
    /\ queue # <<>> /\ Head(queue).kind = "query"
    /\ queue' = Tail(queue) /\ used' = used \cup {Head(queue).id}
    /\ \E ok \in BOOLEAN :
          replies' = Append(replies,
             [op |-> Head(queue), ok |-> ok, seen |-> IF ok THEN db ELSE {}])
    /\ UNCHANGED db

\* A write executed directly, outside the queue, takes place or fails.
DirectWrite(id) ==
    /\ id \notin used /\ \A i \in DOMAIN queue : queue[i].id # id
    /\ used' = used \cup {id}
    /\ \E n \in 0..MaxStmts : db' = db \cup ({id} \X (1..n))
    /\ UNCHANGED <<queue, replies>>

\* The callback of the oldest answer runs.
Callback ==
    /\ replies # <<>>
    /\ replies' = Tail(replies)
    /\ UNCHANGED <<queue, db, used>>

Next ==
    \/ queue' # queue /\ Len(queue') = Len(queue) + 1 /\ Submit(queue'[Len(queue')])
    \/ ApplyWrite \/ ApplyQuery \/ Callback
    \/ \E id \in 1..MaxOps : DirectWrite(id)

Spec == Init /\ [][Next]_vars
=============================================================================
