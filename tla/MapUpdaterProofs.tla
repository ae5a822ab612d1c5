-------------------------- MODULE MapUpdaterProofs --------------------------
(***************************************************************************)
(* Proofs about MapUpdater, for any number of workers, maps, transports    *)
(* and ticks: first the pool and its counter, then the transports.         *)
(***************************************************************************)
EXTENDS MapUpdater, TLAPS, FiniteSetTheorems

Alone == {"serial", "unload", "token", "cancel", "join", "stopped"}

(* Who has a request: a worker from the moment it takes one until it has   *)
(* reported it, the world thread while it makes one or runs one itself.    *)
JobInv ==
    /\ \A w \in Workers :
          /\ pc[w] \in UpdateStages \cup {"finish"} => job[w] # NoMap
          /\ pc[w] \in {"pop", "asleep", "exit"} => job[w] = NoMap
          /\ pc[w] = "check" /\ job[w] = NoMap => token
          /\ pc[w] # "crash"
    /\ job[World] # NoMap <=> pc[World] \in UpdateStages \cup {"push"}
    /\ pc[World] \in UpdateStages => ~activated
    /\ shutdown => token
    /\ token => pc[World] \in {"cancel", "join", "stopped"}
    /\ pc[World] = "cancel" => token

(* What wait() has established holds until the next tick.                  *)
CountInv ==
    /\ CountIsExact
    /\ pc[World] \in Alone \/ ~activated => pending = 0

(* While maps are updated, each loaded one is in exactly one place: not    *)
(* yet reached by the loop, queued, somebody's job, or finished.  A worker *)
(* that has finished a map keeps its request a moment longer.              *)
ShareInv ==
    /\ toVisit \subseteq maps /\ finished \cap toVisit = {}
    /\ \A i \in 1..Len(queue) :
          /\ queue[i] \in maps /\ queue[i] \notin toVisit \cup finished
          /\ \A j \in 1..Len(queue) : i # j => queue[i] # queue[j]
          /\ \A t \in Threads : job[t] # queue[i]
    /\ \A t \in Threads : job[t] # NoMap =>
          /\ job[t] \in maps /\ job[t] \notin toVisit
          /\ pc[t] # "finish" => job[t] \notin finished
          /\ \A u \in Threads : t # u => job[t] # job[u]

(* ... and in at least one.                                                *)
Covered(m) ==
    \/ m \in toVisit \cup finished
    \/ \E i \in 1..Len(queue) : queue[i] = m
    \/ \E t \in Threads : job[t] = m

CoverInv ==
    /\ pc[World] \notin Alone => finished \subseteq maps /\ \A m \in maps : Covered(m)
    /\ \A w \in Workers : pc[w] = "finish" => job[w] \in finished
    /\ pc[World] = "unload" => finished = maps
    /\ pc[World] \notin UpdateStages \cup {"schedule", "push"} => toVisit = {}


IInv == TypeOK /\ JobInv /\ CountInv /\ ShareInv /\ CoverInv

-----------------------------------------------------------------------------
USE DEF vars, poolVars, stopVars, sailVars, Goto

\* The steps of Map::Update that concern only messages and transports.
Sail(t) == Execute(t) \/ RunMessage(t) \/ EndMessages(t) \/ UpdateTransport(t)

\* The steps of the system, one disjunct for each.
LEMMA StepCases ==
    ASSUME [Next]_vars
    PROVE  \/ StartTick \/ Schedule \/ Push \/ UpdateInline \/ EndLoop \/ Wait \/ UnloadMaps
           \/ CreateMap \/ UnloadAll \/ SetToken \/ Cancel \/ Join
           \/ \E w \in Workers : WaitAndPop(w)
           \/ \E w \in Workers : CheckToken(w)
           \/ \E w \in Workers : UpdateFinished(w)
           \/ \E t \in Threads : EndUpdate(t)
           \/ \E t \in Threads : Sail(t)
           \/ \E t \in Threads : SpuriousWakeup(t)
           \/ UNCHANGED vars
<1>1. World \in Threads /\ Workers \subseteq Threads
  BY DEF Threads
<1>. QED
  BY <1>1 DEF Next, WorldStep, WorkerStep, UpdateStep, Stopped, Sail

\* Whether there are worker threads is settled when the server starts.
LEMMA PoolStays ==
    ASSUME [Next]_vars
    PROVE  activated' = activated
<1>1. CASE StartTick \/ Schedule \/ Push \/ UpdateInline \/ EndLoop \/ Wait \/ UnloadMaps
  BY <1>1 DEF StartTick, Schedule, Push, UpdateInline, EndLoop, Wait, UnloadMaps
<1>2. CASE CreateMap \/ UnloadAll \/ SetToken \/ Cancel \/ Join
  BY <1>2 DEF CreateMap, UnloadAll, SetToken, Cancel, Join
<1>3. CASE \E w \in Workers : WaitAndPop(w) \/ CheckToken(w) \/ UpdateFinished(w)
  BY <1>3 DEF WaitAndPop, CheckToken, UpdateFinished
<1>4. CASE \E t \in Threads : EndUpdate(t) \/ Sail(t) \/ SpuriousWakeup(t)
  BY <1>4 DEF EndUpdate, Sail, Execute, RunMessage, EndMessages, UpdateTransport, SpuriousWakeup
<1>. QED
  BY <1>1, <1>2, <1>3, <1>4, StepCases

LEMMA SailStep ==
    ASSUME TypeOK, NEW t \in Threads, Sail(t)
    PROVE  /\ UNCHANGED <<now, maps, toVisit, poolVars, stopVars, finished>>
           /\ pc[t] \in UpdateStages
           /\ \E s \in UpdateStages : pc' = [pc EXCEPT ![t] = s]
<1>1. CASE Execute(t)
  BY <1>1 DEF Execute, UpdateStages
<1>2. CASE RunMessage(t)
  BY <1>2 DEF RunMessage, UpdateStages, TypeOK
<1>3. CASE EndMessages(t)
  BY <1>3 DEF EndMessages, UpdateStages
<1>4. CASE UpdateTransport(t)
  BY <1>4 DEF UpdateTransport, UpdateStages, TypeOK
<1>. QED
  BY <1>1, <1>2, <1>3, <1>4 DEF Sail

\* A worker that has popped a request, or the null one, has what its stage says.
LEMMA JobPop ==
    ASSUME TypeOK, JobInv, NEW w \in Workers, WaitAndPop(w)
    PROVE  JobInv'
<1>1. queue # <<>> => Head(queue) \in Maps
  BY DEF TypeOK
<1>2. w # World /\ w \in Threads
  BY MapUpdaterAssumption DEF Threads
<1>3. pc \in [Threads -> WorkerStages \cup WorldStages] /\ job \in [Threads -> Maps \cup {NoMap}]
  BY DEF TypeOK
<1>. QED
  BY <1>1, <1>2, <1>3, MapUpdaterAssumption DEF WaitAndPop, JobInv, Threads, UpdateStages

LEMMA JobStep ==
    ASSUME TypeOK, JobInv, CountInv, [Next]_vars
    PROVE  JobInv'
<1>. USE DEF JobInv, TypeOK, Threads, UpdateStages, WorkerStages, WorldStages,
         Alone, Sleeping
<1>1. CASE StartTick
  BY <1>1 DEF StartTick
<1>2. CASE Schedule
  BY <1>2, MapUpdaterAssumption DEF Schedule, Maps
<1>3. CASE Push
  BY <1>3 DEF Push
<1>4. CASE UpdateInline
  BY <1>4, MapUpdaterAssumption DEF UpdateInline, Maps
<1>5. CASE EndLoop
  BY <1>5 DEF EndLoop
<1>6. CASE Wait
  BY <1>6 DEF Wait
<1>7. CASE UnloadMaps
  BY <1>7 DEF UnloadMaps
<1>8. CASE CreateMap
  BY <1>8 DEF CreateMap
<1>9. CASE UnloadAll
  BY <1>9 DEF UnloadAll
<1>10. CASE SetToken
  BY <1>10 DEF SetToken
<1>11. CASE Cancel
  BY <1>11, MapUpdaterAssumption DEF Cancel
<1>12. CASE Join
  BY <1>12 DEF Join
<1>13. CASE \E w \in Workers : WaitAndPop(w)
  BY <1>13, JobPop
<1>14. CASE \E w \in Workers : CheckToken(w)
  BY <1>14 DEF CheckToken
<1>15. CASE \E w \in Workers : UpdateFinished(w)
  BY <1>15 DEF UpdateFinished
<1>16. CASE \E t \in Threads : EndUpdate(t)
  BY <1>16 DEF EndUpdate
<1>17. CASE \E t \in Threads : Sail(t)
  <2>. SUFFICES ASSUME NEW t \in Threads, Sail(t) PROVE JobInv'
    BY <1>17
  <2>1. UNCHANGED <<poolVars, stopVars>> /\ pc[t] \in UpdateStages
    BY SailStep
  <2>2. PICK s \in UpdateStages : pc' = [pc EXCEPT ![t] = s]
    BY SailStep
  <2>. QED
    BY <2>1, <2>2
<1>18. CASE \E t \in Threads : SpuriousWakeup(t)
  BY <1>18 DEF SpuriousWakeup
<1>19. CASE UNCHANGED vars
  BY <1>19
<1>. QED
  BY <1>1, <1>2, <1>3, <1>4, <1>5, <1>6, <1>7, <1>8, <1>9, <1>10,
     <1>11, <1>12, <1>13, <1>14, <1>15, <1>16, <1>17, <1>18, <1>19, StepCases
-----------------------------------------------------------------------------
(* The count of pending requests.                                          *)

LEMMA BusyFinite == IsFiniteSet(Busy) /\ Cardinality(Busy) \in Nat
BY FS_Subset, FS_CardinalityType, MapUpdaterAssumption DEF Busy

\* Nothing pending means nothing queued and nobody busy.
LEMMA NothingPending ==
    ASSUME TypeOK, CountIsExact, pending = 0
    PROVE  queue = <<>> /\ Busy = {} /\ pc[World] # "push"
<1>1. Len(queue) \in Nat /\ (Len(queue) = 0 => queue = <<>>)
  BY DEF TypeOK
<1>2. Cardinality(Busy) = 0 => Busy = {}
  BY BusyFinite, FS_EmptySet
<1>. QED
  BY <1>1, <1>2, BusyFinite DEF CountIsExact

LEMMA SameCount ==
    ASSUME CountIsExact, UNCHANGED <<queue, pending>>, \A w \in Workers : job'[w] = job[w],
           pc[World] # "push", pc'[World] # "push"
    PROVE  CountIsExact'
<1>1. Busy' = Busy
  BY DEF Busy
<1>. QED
  BY <1>1 DEF CountIsExact

LEMMA CountStep ==
    ASSUME TypeOK, JobInv, CountInv, [Next]_vars
    PROVE  CountInv'
<1>. USE DEF CountInv
<1>p. activated' = activated
  BY PoolStays
<1>a. World \notin Workers /\ World \in Threads /\ Workers \subseteq Threads
  BY MapUpdaterAssumption DEF Threads
<1>b. pc \in [Threads -> WorkerStages \cup WorldStages] /\ job \in [Threads -> Maps \cup {NoMap}]
      /\ pending \in Nat /\ Len(queue) \in Nat
  BY DEF TypeOK
<1>1. CASE StartTick \/ EndLoop \/ Wait \/ UnloadMaps \/ CreateMap \/ UnloadAll \/ SetToken \/ Join
  <2>1. pc[World] # "push" /\ pc'[World] # "push" /\ UNCHANGED poolVars
    BY <1>1, <1>a, <1>b 
    DEF StartTick, EndLoop, Wait, UnloadMaps, CreateMap, UnloadAll, SetToken, Join
  <2>2. CountIsExact'
    BY <2>1, SameCount
  <2>3. pc'[World] \in Alone => pc[World] \in Alone \/ ~activated \/ pending = 0
    BY <1>1, <1>a, <1>b
    DEF StartTick, EndLoop, Wait, UnloadMaps, CreateMap, UnloadAll, SetToken, Join, Alone
  <2>. QED
    BY <1>p, <2>1, <2>2, <2>3
<1>2. CASE Schedule
  <2>1. Busy' = Busy
    BY <1>2, <1>a, <1>b DEF Schedule, Busy
  <2>2. pc[World] = "schedule" /\ pc'[World] = "push" /\ queue' = queue /\ pending' = pending + 1
        /\ activated
    BY <1>2, <1>a, <1>b DEF Schedule
  <2>. QED
    BY <1>p, <2>1, <2>2, <1>b, BusyFinite DEF CountIsExact, Alone
<1>3. CASE Push
  <2>1. Busy' = Busy
    BY <1>3, <1>a, <1>b DEF Push, Busy
  <2>2. pc[World] = "push" /\ pc'[World] = "schedule" /\ pending' = pending
    BY <1>3, <1>a, <1>b DEF Push, Sleeping
  <2>3. job[World] \in Maps
    BY <1>a, <1>b, <2>2 DEF JobInv
  <2>4. Len(queue') = Len(queue) + 1
    BY <1>3, <2>3 DEF Push, TypeOK
  <2>. QED
    BY <1>p, <2>1, <2>2, <2>4, <1>b, BusyFinite DEF CountIsExact, Alone
<1>4. CASE UpdateInline
  <2>1. \A w \in Workers : job'[w] = job[w]
    BY <1>4, <1>a, <1>b DEF UpdateInline
  <2>2. pc[World] = "schedule" /\ pc'[World] = "swap" /\ UNCHANGED <<queue, pending>>
    BY <1>4, <1>a, <1>b DEF UpdateInline
  <2>3. CountIsExact'
    BY <2>1, <2>2, SameCount
  <2>. QED
    BY <1>p, <2>2, <2>3 DEF Alone
<1>5. CASE Cancel
  <2>1. pc[World] = "cancel" /\ pc'[World] = "join" /\ queue' = <<>> /\ UNCHANGED <<job, pending>>
    BY <1>5, <1>a, <1>b DEF Cancel
  <2>2. pending = 0 /\ queue = <<>>
    BY <2>1, NothingPending DEF Alone
  <2>3. CountIsExact'
    BY <2>1, <2>2, SameCount
  <2>. QED
    BY <2>1, <2>2, <2>3
<1>6. CASE \E w \in Workers : WaitAndPop(w)
  <2>. SUFFICES ASSUME NEW w \in Workers, WaitAndPop(w) PROVE CountInv'
    BY <1>6
  <2>1. pc'[World] = pc[World] /\ pending' = pending
    BY <1>a, <1>b DEF WaitAndPop
  <2>2. CASE UNCHANGED <<queue, job>>
    <3>1. Busy' = Busy
      BY <2>2 DEF Busy
    <3>. QED
      BY <1>p, <2>1, <2>2, <3>1 DEF CountIsExact
  <2>3. CASE queue # <<>> /\ job' = [job EXCEPT ![w] = Head(queue)] /\ queue' = Tail(queue)
    <3>1. Head(queue) # NoMap /\ Len(queue') = Len(queue) - 1 /\ Len(queue) > 0
      BY <2>3, MapUpdaterAssumption DEF TypeOK
    <3>2. job[w] = NoMap
      BY DEF JobInv, WaitAndPop
    <3>3. Busy' = Busy \cup {w} /\ w \notin Busy
      BY <2>3, <3>1, <3>2, <1>a, <1>b DEF Busy
    <3>4. Cardinality(Busy') = Cardinality(Busy) + 1
      BY <3>3, BusyFinite, FS_AddElement
    <3>. QED
      BY <1>p, <2>1, <3>1, <3>4, <1>b, BusyFinite DEF CountIsExact
  <2>. QED
    BY <2>2, <2>3 DEF WaitAndPop
<1>7. CASE \E w \in Workers : CheckToken(w)
  <2>. SUFFICES ASSUME NEW w \in Workers, CheckToken(w) PROVE CountInv'
    BY <1>7
  <2>1. pc'[World] = pc[World] /\ UNCHANGED <<queue, pending>>
    BY <1>a, <1>b DEF CheckToken
  <2>2. CASE ~token
    <3>1. Busy' = Busy
      BY <2>2 DEF CheckToken, Busy
    <3>. QED
      BY <1>p, <2>1, <3>1 DEF CountIsExact
  <2>3. CASE token
    <3>1. Busy = {}
      BY <2>3, NothingPending DEF JobInv, Alone
    <3>2. \A v \in Workers : job'[v] = job[v]
      BY <3>1, <1>a, <1>b DEF CheckToken, Busy
    <3>3. Busy' = Busy
      BY <3>2 DEF Busy
    <3>. QED
      BY <1>p, <2>1, <3>3 DEF CountIsExact
  <2>. QED
    BY <2>2, <2>3
<1>8. CASE \E w \in Workers : UpdateFinished(w)
  <2>. SUFFICES ASSUME NEW w \in Workers, UpdateFinished(w) PROVE CountInv'
    BY <1>8
  <2>1. w \in Busy
    BY DEF UpdateFinished, JobInv, Busy
  <2>2. Cardinality(Busy) > 0
    BY <2>1, BusyFinite, FS_EmptySet
  <2>3. pending > 0 /\ pc[World] \notin Alone /\ activated
    BY <2>2, <1>b, BusyFinite DEF CountIsExact
  <2>4. Busy' = Busy \ {w}
    BY <2>1, <1>a, <1>b DEF UpdateFinished, Busy
  <2>5. Cardinality(Busy') = Cardinality(Busy) - 1
    BY <2>1, <2>4, BusyFinite, FS_RemoveElement
  <2>6. pc[World] # "push" /\ pc'[World] # "push" /\ pc'[World] \notin Alone
        /\ pending' = pending - 1 /\ queue' = queue
    BY <2>3, <1>a, <1>b DEF UpdateFinished, Alone
  <2>7. pending = Len(queue) + Cardinality(Busy)
    BY <2>6, <1>b, BusyFinite DEF CountIsExact
  <2>8. pending' = Len(queue') + Cardinality(Busy')
    BY <2>5, <2>6, <2>7, <1>b, BusyFinite
  <2>9. CountIsExact'
    BY <2>6, <2>8, <1>b, <2>5, BusyFinite DEF CountIsExact
  <2>. QED
    BY <1>p, <2>3, <2>6, <2>9
<1>9. CASE \E t \in Threads : EndUpdate(t)
  <2>. SUFFICES ASSUME NEW t \in Threads, EndUpdate(t) PROVE CountInv'
    BY <1>9
  <2>1. UNCHANGED <<queue, pending>> /\ \A w \in Workers : job'[w] = job[w]
    BY <1>a, <1>b DEF EndUpdate
  <2>2. /\ pc[World] = "push" <=> pc'[World] = "push"
        /\ pc'[World] \in Alone => pc[World] \in Alone
    BY <1>a, <1>b DEF EndUpdate, Alone
  <2>3. Busy' = Busy
    BY <2>1 DEF Busy
  <2>. QED
    BY <1>p, <2>1, <2>2, <2>3 DEF CountIsExact
<1>10. CASE \E t \in Threads : Sail(t)
  <2>. SUFFICES ASSUME NEW t \in Threads, Sail(t) PROVE CountInv'
    BY <1>10
  <2>1. UNCHANGED poolVars /\ pc[t] \in UpdateStages
    BY SailStep
  <2>2. PICK s \in UpdateStages : pc' = [pc EXCEPT ![t] = s]
    BY SailStep
  <2>3. /\ pc[World] = "push" <=> pc'[World] = "push"
        /\ pc'[World] \in Alone => pc[World] \in Alone
    BY <2>1, <2>2, <1>a, <1>b DEF UpdateStages, Alone
  <2>4. Busy' = Busy
    BY <2>1 DEF Busy
  <2>. QED
    BY <1>p, <2>1, <2>3, <2>4 DEF CountIsExact
<1>11. CASE \E t \in Threads : SpuriousWakeup(t)
  <2>. SUFFICES ASSUME NEW t \in Threads, SpuriousWakeup(t) PROVE CountInv'
    BY <1>11
  <2>1. /\ pc[World] = "push" <=> pc'[World] = "push"
        /\ pc'[World] \in Alone => pc[World] \in Alone
    BY <1>a, <1>b DEF SpuriousWakeup, Alone
  <2>2. Busy' = Busy
    BY DEF SpuriousWakeup, Busy
  <2>. QED
    BY <2>1, <2>2 DEF SpuriousWakeup, CountIsExact
<1>12. CASE UNCHANGED vars
  BY <1>12 DEF CountIsExact, Busy
<1>. QED
  BY <1>1, <1>2, <1>3, <1>4, <1>5, <1>6, <1>7, <1>8, <1>9, <1>10, <1>11, <1>12, StepCases

-----------------------------------------------------------------------------
(* Where the maps are while they are updated.                              *)

LEMMA AppendAt ==
    ASSUME NEW S, NEW q \in Seq(S), NEW e \in S
    PROVE  /\ Len(Append(q, e)) = Len(q) + 1
           /\ \A i \in 1..Len(q) + 1 : Append(q, e)[i] = IF i = Len(q) + 1 THEN e ELSE q[i]
OBVIOUS

LEMMA TailAt ==
    ASSUME NEW S, NEW q \in Seq(S), q # <<>>
    PROVE  /\ Len(q) \in Nat \ {0} /\ Len(Tail(q)) = Len(q) - 1 /\ Head(q) = q[1]
           /\ \A i \in 1..Len(q) - 1 : Tail(q)[i] = q[i + 1]
OBVIOUS

\* Outside the parallel phase nobody has a map.
LEMMA NobodyHasAny ==
    ASSUME TypeOK, JobInv, CountInv, pending = 0,
           pc[World] \notin UpdateStages \cup {"push"}
    PROVE  queue = <<>> /\ \A t \in Threads : job[t] = NoMap
<1>1. queue = <<>> /\ Busy = {}
  BY NothingPending DEF CountInv
<1>2. job[World] = NoMap
  BY DEF JobInv
<1>. QED
  BY <1>1, <1>2 DEF Busy, Threads

LEMMA ShareStep ==
    ASSUME IInv, [Next]_vars
    PROVE  ShareInv'
<1>a. World \notin Workers /\ World \in Threads /\ Workers \subseteq Threads /\ NoMap \notin Maps
  BY MapUpdaterAssumption DEF Threads
<1>b. pc \in [Threads -> WorkerStages \cup WorldStages] /\ job \in [Threads -> Maps \cup {NoMap}]
      /\ pending \in Nat /\ Len(queue) \in Nat /\ queue \in Seq(Maps)
  BY DEF IInv, TypeOK
<1>c. TypeOK /\ JobInv /\ CountInv /\ ShareInv /\ CoverInv
  BY DEF IInv
<1>d. Len(<<>>) = 0
  OBVIOUS
<1>1. CASE StartTick \/ UnloadMaps \/ CreateMap \/ UnloadAll \/ Cancel
  <2>1. pc[World] \in Alone /\ job' = job /\ (queue' = queue \/ queue' = <<>>)
    BY <1>1 DEF StartTick, UnloadMaps, CreateMap, UnloadAll, Cancel, Alone
  <2>2. queue = <<>> /\ \A t \in Threads : job[t] = NoMap
    BY <2>1, <1>c, NobodyHasAny DEF Alone, UpdateStages, CountInv
  <2>3. toVisit = {}
    BY <2>1, <1>c DEF CoverInv, Alone, UpdateStages
  <2>4. toVisit' \subseteq maps' /\ finished' \cap toVisit' = {}
    BY <1>1, <2>3 DEF StartTick, UnloadMaps, CreateMap, UnloadAll, Cancel
  <2>. QED
    BY <2>1, <2>2, <2>4, <1>d DEF ShareInv
<1>2. CASE EndLoop \/ Wait \/ SetToken \/ Join
  <2>1. \A t \in Threads : (pc'[t] = "finish") <=> (pc[t] = "finish")
    BY <1>2, <1>a, <1>b DEF EndLoop, Wait, SetToken, Join
  <2>2. UNCHANGED <<maps, toVisit, finished, poolVars>>
    BY <1>2 DEF EndLoop, Wait, SetToken, Join
  <2>. QED
    BY <1>c, <2>1, <2>2 DEF ShareInv
<1>3. CASE Schedule \/ UpdateInline
  <2>1. PICK m \in toVisit : toVisit' = toVisit \ {m} /\ job' = [job EXCEPT ![World] = m]
    BY <1>3 DEF Schedule, UpdateInline
  <2>2. job[World] = NoMap /\ UNCHANGED <<maps, queue, finished>>
    BY <1>3, <1>c DEF Schedule, UpdateInline, JobInv, UpdateStages
  <2>3. \A t \in Threads : t # World => pc'[t] = pc[t] /\ job'[t] = job[t]
    BY <1>3, <1>a, <1>b, <2>1 DEF Schedule, UpdateInline
  <2>4. job'[World] = m /\ m \in maps /\ m # NoMap /\ m \notin finished
    BY <1>a, <1>b, <1>c, <2>1 DEF ShareInv, TypeOK
  <2>5. \A t \in Threads : job[t] # m
    BY <2>1, <2>4, <1>c DEF ShareInv
  <2>6. \A i \in 1..Len(queue) : queue[i] # m
    BY <2>1, <1>c DEF ShareInv
  <2>. QED
    BY <2>1, <2>2, <2>3, <2>4, <2>5, <2>6, <1>c DEF ShareInv
<1>4. CASE Push
  <2>. DEFINE n == Len(queue) + 1
              m == job[World]
  <2>1. m \in Maps
    BY <1>4, <1>a, <1>b, <1>c DEF Push, JobInv
  <2>2. /\ Len(queue') = n
        /\ \A i \in 1..n : queue'[i] = IF i = n THEN m ELSE queue[i]
    BY <1>4, <2>1, <1>b, AppendAt DEF Push
  <2>3. \A t \in Threads : job'[t] = IF t = World THEN NoMap ELSE job[t]
    BY <1>4, <1>b DEF Push
  <2>4. \A t \in Threads : (pc'[t] = "finish") <=> (pc[t] = "finish")
    BY <1>4, <1>a, <1>b DEF Push, Sleeping
  <2>5. pc[World] = "push" /\ UNCHANGED <<maps, toVisit, finished>>
    BY <1>4 DEF Push
  <2>6. /\ m \in maps /\ m \notin toVisit \cup finished
        /\ \A t \in Threads : t # World => job[t] # m
        /\ \A i \in 1..Len(queue) : queue[i] # m
    BY <1>a, <1>c, <2>1, <2>5 DEF ShareInv
  <2>7. \A i \in 1..n : i # n => i \in 1..Len(queue)
    BY <1>b
  <2>8. \A i \in 1..n :
            /\ queue'[i] \in maps /\ queue'[i] \notin toVisit \cup finished
            /\ \A j \in 1..n : i # j => queue'[i] # queue'[j]
            /\ \A t \in Threads : job'[t] # queue'[i]
    <3>. SUFFICES ASSUME NEW i \in 1..n
                  PROVE  /\ queue'[i] \in maps /\ queue'[i] \notin toVisit \cup finished
                         /\ \A j \in 1..n : i # j => queue'[i] # queue'[j]
                         /\ \A t \in Threads : job'[t] # queue'[i]
      OBVIOUS
    <3>. HIDE DEF n, m
    <3>1. queue'[i] \in maps /\ queue'[i] \notin toVisit \cup finished
      BY <2>2, <2>6, <2>7, <1>c DEF ShareInv
    <3>2. \A j \in 1..n : i # j => queue'[i] # queue'[j]
      BY <2>2, <2>6, <2>7, <1>c DEF ShareInv
    <3>3. \A t \in Threads : job'[t] # queue'[i]
      <4>1. queue'[i] # NoMap
        BY <3>1, <1>a, <1>c DEF TypeOK
      <4>. QED
        BY <4>1, <2>2, <2>3, <2>6, <2>7, <1>c DEF ShareInv
    <3>. QED
      BY <3>1, <3>2, <3>3
  <2>9. \A t \in Threads : job'[t] # NoMap => t # World /\ job'[t] = job[t]
    BY <2>3
  <2>. HIDE DEF n, m
  <2>. QED
    BY <2>2, <2>4, <2>5, <2>8, <2>9, <1>c DEF ShareInv
<1>5. CASE \E w \in Workers : WaitAndPop(w)
  <2>. SUFFICES ASSUME NEW w \in Workers, WaitAndPop(w) PROVE ShareInv'
    BY <1>5
  <2>1. /\ \A t \in Threads : (pc'[t] = "finish") <=> (pc[t] = "finish")
        /\ pc[w] # "finish" /\ UNCHANGED <<maps, toVisit, finished>>
    BY <1>a, <1>b DEF WaitAndPop
  <2>2. CASE UNCHANGED <<queue, job>>
    BY <2>1, <2>2, <1>c DEF ShareInv
  <2>3. CASE queue # <<>> /\ job' = [job EXCEPT ![w] = Head(queue)] /\ queue' = Tail(queue)
    <3>. DEFINE n == Len(queue) - 1
                m == queue[1]
    <3>1. /\ Len(queue') = n /\ n \in Nat
          /\ \A i \in 1..n : queue'[i] = queue[i + 1]
          /\ \A t \in Threads : job'[t] = IF t = w THEN m ELSE job[t]
      BY <2>3, <1>b, TailAt
    <3>2. /\ 1 \in 1..Len(queue) /\ \A i \in 1..n : i + 1 \in 1..Len(queue) /\ i + 1 # 1
          /\ \A i, j \in 1..n : i # j => i + 1 # j + 1
      BY <3>1, <1>b
    <3>3. /\ m \in maps /\ m \notin toVisit \cup finished
          /\ \A t \in Threads : job[t] # m
          /\ \A i \in 1..n : queue'[i] # m
      BY <3>1, <3>2, <1>c DEF ShareInv
    <3>4. \A i \in 1..n :
              /\ queue'[i] \in maps /\ queue'[i] \notin toVisit \cup finished
              /\ \A j \in 1..n : i # j => queue'[i] # queue'[j]
              /\ \A t \in Threads : job'[t] # queue'[i]
      <4>. SUFFICES ASSUME NEW i \in 1..n
                    PROVE  /\ queue'[i] \in maps /\ queue'[i] \notin toVisit \cup finished
                           /\ \A j \in 1..n : i # j => queue'[i] # queue'[j]
                           /\ \A t \in Threads : job'[t] # queue'[i]
        OBVIOUS
      <4>. HIDE DEF n, m
      <4>0. i + 1 \in 1..Len(queue) /\ queue'[i] = queue[i + 1]
        BY <3>1, <3>2
      <4>a. /\ queue[i + 1] \in maps /\ queue[i + 1] \notin toVisit \cup finished
            /\ \A j \in 1..Len(queue) : i + 1 # j => queue[i + 1] # queue[j]
            /\ \A t \in Threads : job[t] # queue[i + 1]
        BY <4>0, <1>c DEF ShareInv
      <4>1. queue'[i] \in maps /\ queue'[i] \notin toVisit \cup finished
        BY <4>0, <4>a
      <4>2. \A j \in 1..n : i # j => queue'[i] # queue'[j]
        BY <4>0, <4>a, <3>1, <3>2
      <4>3. \A t \in Threads : job'[t] # queue'[i]
        BY <4>0, <4>a, <3>1, <3>3
      <4>. QED
        BY <4>1, <4>2, <4>3
    <3>. HIDE DEF n, m
    <3>5. \A t \in Threads : job'[t] # NoMap =>
              /\ job'[t] \in maps /\ job'[t] \notin toVisit
              /\ pc'[t] # "finish" => job'[t] \notin finished
              /\ \A u \in Threads : t # u => job'[t] # job'[u]
      BY <2>1, <3>1, <3>3, <1>c DEF ShareInv
    <3>. QED
      BY <2>1, <3>1, <3>4, <3>5, <1>c DEF ShareInv
  <2>. QED
    BY <2>2, <2>3 DEF WaitAndPop
<1>6. CASE \E w \in Workers : CheckToken(w) \/ UpdateFinished(w)
  <2>. PICK w \in Workers : CheckToken(w) \/ UpdateFinished(w)
    BY <1>6
  <2>1. UNCHANGED <<maps, toVisit, queue, finished>>
    BY DEF CheckToken, UpdateFinished
  <2>2. \A t \in Threads : job'[t] # NoMap =>
            job'[t] = job[t] /\ (pc'[t] = "finish" <=> pc[t] = "finish")
    BY <1>a, <1>b DEF CheckToken, UpdateFinished
  <2>3. \A t \in Threads : job'[t] = job[t] \/ job'[t] = NoMap
    BY <1>a, <1>b DEF CheckToken, UpdateFinished
  <2>4. \A i \in 1..Len(queue) : queue[i] # NoMap
    BY <1>a, <1>b, <1>c DEF ShareInv, TypeOK
  <2>. QED
    BY <2>1, <2>2, <2>3, <2>4, <1>c DEF ShareInv
<1>7. CASE \E t \in Threads : EndUpdate(t)
  <2>. PICK t \in Threads : EndUpdate(t)
    BY <1>7
  <2>1. /\ job[t] # NoMap /\ finished' = finished \cup {job[t]}
        /\ UNCHANGED <<maps, toVisit, queue>> /\ pc[t] # "finish"
    BY <1>a, <1>c DEF EndUpdate, JobInv, UpdateStages, Threads
  <2>2. \A u \in Threads : job'[u] # NoMap =>
            job'[u] = job[u] /\ (u # t => pc'[u] = pc[u]) /\ (u = t => pc'[u] = "finish")
    BY <1>a, <1>b DEF EndUpdate
  <2>3. \A u \in Threads : job'[u] = job[u] \/ job'[u] = NoMap
    BY <1>a, <1>b DEF EndUpdate
  <2>4. /\ \A i \in 1..Len(queue) : queue[i] # NoMap /\ queue[i] # job[t]
        /\ job[t] \notin toVisit
    BY <1>a, <1>b, <1>c, <2>1 DEF ShareInv, TypeOK
  <2>. QED
    BY <2>1, <2>2, <2>3, <2>4, <1>c DEF ShareInv
<1>8. CASE \E t \in Threads : Sail(t) \/ SpuriousWakeup(t)
  <2>. PICK t \in Threads : Sail(t) \/ SpuriousWakeup(t)
    BY <1>8
  <2>1. UNCHANGED <<maps, toVisit, poolVars, finished>>
    BY <1>c, SailStep DEF SpuriousWakeup
  <2>2. \E s : s # "finish" /\ pc' = [pc EXCEPT ![t] = s] /\ pc[t] # "finish"
    BY <1>c, SailStep DEF SpuriousWakeup, UpdateStages
  <2>3. \A u \in Threads : (pc'[u] = "finish") <=> (pc[u] = "finish")
    BY <2>2, <1>b
  <2>. QED
    BY <2>1, <2>3, <1>c DEF ShareInv
<1>9. CASE UNCHANGED vars
  BY <1>9, <1>c DEF ShareInv
<1>. QED
  BY <1>1, <1>2, <1>3, <1>4, <1>5, <1>6, <1>7, <1>8, <1>9, StepCases

LEMMA CoverStep ==
    ASSUME IInv, [Next]_vars
    PROVE  CoverInv'
<1>a. World \notin Workers /\ World \in Threads /\ Workers \subseteq Threads /\ NoMap \notin Maps
  BY MapUpdaterAssumption DEF Threads
<1>b. pc \in [Threads -> WorkerStages \cup WorldStages] /\ job \in [Threads -> Maps \cup {NoMap}]
      /\ pending \in Nat /\ Len(queue) \in Nat /\ queue \in Seq(Maps) /\ maps \subseteq Maps
      /\ pc[World] \in WorldStages
  BY DEF IInv, TypeOK
<1>c. TypeOK /\ JobInv /\ CountInv /\ ShareInv /\ CoverInv
  BY DEF IInv
<1>f. \A w \in Workers : pc[w] = "finish" => job[w] \in finished
  BY <1>c DEF CoverInv
<1>d. pc[World] \notin Alone => finished \subseteq maps /\ \A m \in maps : Covered(m)
  BY <1>c DEF CoverInv
<1>e. SUFFICES /\ pc'[World] \notin Alone => 
                     finished' \subseteq maps' /\ \A m \in maps' : Covered(m)'
               /\ \A w \in Workers : pc'[w] = "finish" => job'[w] \in finished'
               /\ pc'[World] = "unload" => finished' = maps'
               /\ pc'[World] \notin UpdateStages \cup {"schedule", "push"} => toVisit' = {}
  BY DEF CoverInv
<1>1. CASE StartTick
  <2>1. queue = <<>> /\ \A t \in Threads : job[t] = NoMap
    BY <1>1, <1>c, NobodyHasAny DEF StartTick, CountInv, Alone, UpdateStages
  <2>2. \A w \in Workers : pc'[w] # "finish"
    BY <1>1, <2>1, <1>a, <1>b, <1>c DEF StartTick, JobInv
  <2>3. pc'[World] = "schedule" /\ toVisit' = maps /\ finished' = {} /\ maps' = maps
    BY <1>1, <1>a, <1>b DEF StartTick
  <2>. QED
    BY <2>2, <2>3 DEF Covered, Alone
<1>2. CASE UnloadMaps \/ CreateMap \/ UnloadAll \/ SetToken \/ Join \/ Cancel
  <2>1. /\ pc[World] \in Alone \ {"schedule"} /\ pc'[World] \in Alone \ {"unload"}
        /\ UNCHANGED <<job, finished, toVisit>>
        /\ \A w \in Workers : pc'[w] = "finish" => pc[w] = "finish"
    BY <1>2, <1>a, <1>b DEF UnloadMaps, CreateMap, UnloadAll, SetToken, Join, Cancel, Alone
  <2>2. toVisit = {}
    BY <2>1, <1>c DEF CoverInv, Alone, UpdateStages
  <2>. QED
    BY <2>1, <2>2, <1>f
<1>3. CASE EndLoop \/ Wait
  <2>1. /\ pc[World] \in {"schedule", "wait"} /\ UNCHANGED <<maps, toVisit, finished, poolVars>>
        /\ \A w \in Workers : pc'[w] = pc[w]
        /\ pc'[World] \in {"wait", "asleep", "unload"}
    BY <1>3, <1>a, <1>b DEF EndLoop, Wait
  <2>2. toVisit = {}
    BY <1>3, <1>c DEF EndLoop, Wait, CoverInv, UpdateStages
  <2>3. pc'[World] = "unload" => pending = 0
    BY <1>3, <1>a, <1>b, <1>c DEF EndLoop, Wait, CountInv
  <2>4. pc'[World] = "unload" => queue = <<>> /\ \A t \in Threads : job[t] = NoMap
    BY <2>1, <2>3, <1>c, NobodyHasAny DEF UpdateStages
  <2>5. pc'[World] = "unload" => maps \subseteq finished
    BY <2>1, <2>2, <2>4, <1>a, <1>b, <1>d DEF Covered, Alone
  <2>6. \A m \in maps : Covered(m)'
    BY <2>1, <1>d DEF Covered, Alone
  <2>. QED
    BY <2>1, <2>2, <2>5, <2>6, <1>d, <1>f DEF Alone
<1>4. CASE Schedule \/ UpdateInline
  <2>1. PICK m \in toVisit : toVisit' = toVisit \ {m} /\ job' = [job EXCEPT ![World] = m]
    BY <1>4 DEF Schedule, UpdateInline
  <2>2. /\ pc[World] = "schedule" /\ pc'[World] \in {"push", "swap"}
        /\ UNCHANGED <<maps, queue, finished>>
        /\ \A w \in Workers : pc'[w] = pc[w] /\ job'[w] = job[w]
        /\ job[World] = NoMap
    BY <1>4, <1>a, <1>b, <1>c, <2>1 DEF Schedule, UpdateInline, JobInv, UpdateStages
  <2>3. job'[World] = m /\ \A t \in Threads : t # World => job'[t] = job[t]
    BY <2>1, <1>a, <1>b
  <2>4. \A x \in maps : Covered(x)'
    <3>. SUFFICES ASSUME NEW x \in maps PROVE Covered(x)'
      OBVIOUS
    <3>1. Covered(x)
      BY <2>2, <1>d DEF Alone
    <3>2. x = m \/ (x \in toVisit => x \in toVisit')
      BY <2>1
    <3>3. CASE \E t \in Threads : job[t] = x
      <4>. PICK t \in Threads : job[t] = x
        BY <3>3
      <4>1. t # World
        BY <2>2, <1>a, <1>b
      <4>. QED
        BY <4>1, <2>3 DEF Covered
    <3>. QED
      BY <3>1, <3>2, <3>3, <2>2, <2>3, <1>a DEF Covered
  <2>. QED
    BY <2>2, <2>4, <1>d, <1>f DEF Alone, UpdateStages
<1>5. CASE Push
  <2>1. pc[World] = "push" /\ pc'[World] = "schedule" /\ UNCHANGED <<maps, toVisit, finished>>
    BY <1>5, <1>a, <1>b DEF Push, Sleeping
  <2>2. \A w \in Workers : (pc'[w] = "finish" => pc[w] = "finish") /\ job'[w] = job[w]
    BY <1>5, <1>a, <1>b DEF Push, Sleeping
  <2>3. job[World] \in Maps
    BY <1>a, <1>b, <1>c, <2>1 DEF JobInv
  <2>4. /\ Len(queue') = Len(queue) + 1 /\ queue'[Len(queue) + 1] = job[World]
        /\ \A i \in 1..Len(queue) : queue'[i] = queue[i]
    BY <1>5, <2>3, <1>b, AppendAt DEF Push
  <2>5. \A t \in Threads : t # World => job'[t] = job[t]
    BY <1>5, <1>b DEF Push
  <2>6. \A i \in 1..Len(queue) : i \in 1..Len(queue')
    BY <2>4, <1>b
  <2>7. Len(queue) + 1 \in 1..Len(queue')
    BY <2>4, <1>b
  <2>8. \A m \in maps : Covered(m)'
    <3>. SUFFICES ASSUME NEW m \in maps PROVE Covered(m)'
      OBVIOUS
    <3>1. CASE m \in toVisit \cup finished
      BY <3>1, <2>1 DEF Covered
    <3>2. CASE \E i \in 1..Len(queue) : queue[i] = m
      BY <3>2, <2>4, <2>6 DEF Covered
    <3>3. CASE \E t \in Threads : job[t] = m
      BY <3>3, <2>4, <2>5, <2>7 DEF Covered
    <3>. QED
      BY <3>1, <3>2, <3>3, <2>1, <1>d DEF Covered, Alone
  <2>. QED
    BY <2>1, <2>2, <2>8, <1>d, <1>f DEF Alone
<1>6. CASE \E w \in Workers : WaitAndPop(w)
  <2>. PICK w \in Workers : WaitAndPop(w)
    BY <1>6
  <2>1. /\ pc'[World] = pc[World] /\ UNCHANGED <<maps, toVisit, finished>>
        /\ \A v \in Workers : pc'[v] = "finish" => pc[v] = "finish" /\ v # w
        /\ \A t \in Threads : t # w => job'[t] = job[t]
    BY <1>a, <1>b DEF WaitAndPop
  <2>2. pc[World] \notin Alone => \A m \in maps : Covered(m)'
    <3>. SUFFICES ASSUME pc[World] \notin Alone, NEW m \in maps PROVE Covered(m)'
      OBVIOUS
    <3>1. Covered(m)
      BY <1>d
    <3>2. CASE UNCHANGED <<queue, job>>
      BY <3>1, <3>2, <2>1 DEF Covered
    <3>3. CASE queue # <<>> /\ job' = [job EXCEPT ![w] = Head(queue)] /\ queue' = Tail(queue)
      <4>1. /\ Len(queue) \in Nat \ {0} /\ Len(queue') = Len(queue) - 1 /\ Head(queue) = queue[1]
            /\ \A i \in 1..Len(queue) - 1 : queue'[i] = queue[i + 1]
        BY <3>3, <1>b, TailAt
      <4>2. job'[w] = queue[1] /\ job[w] = NoMap
        BY <3>3, <4>1, <1>a, <1>b, <1>c DEF WaitAndPop, JobInv
      <4>3. \A i \in 1..Len(queue) : i = 1 \/ (i - 1 \in 1..Len(queue') /\ queue'[i - 1] = queue[i])
        BY <4>1
      <4>4. CASE m \in toVisit \cup finished
        BY <4>4, <2>1 DEF Covered
      <4>5. CASE \E i \in 1..Len(queue) : queue[i] = m
        <5>. PICK i \in 1..Len(queue) : queue[i] = m
          BY <4>5
        <5>1. CASE i = 1
          BY <5>1, <4>2, <1>a DEF Covered
        <5>2. CASE i - 1 \in 1..Len(queue') /\ queue'[i - 1] = queue[i]
          BY <5>2 DEF Covered
        <5>. QED
          BY <5>1, <5>2, <4>3
      <4>6. CASE \E t \in Threads : job[t] = m
        <5>. PICK t \in Threads : job[t] = m
          BY <4>6
        <5>1. t # w
          BY <4>2, <1>a, <1>b
        <5>. QED
          BY <5>1, <2>1 DEF Covered
      <4>. QED
        BY <3>1, <4>4, <4>5, <4>6 DEF Covered
    <3>. QED
      BY <3>2, <3>3 DEF WaitAndPop
  <2>. QED
    BY <2>1, <2>2, <1>a, <1>c, <1>d, <1>f DEF CoverInv
<1>7. CASE \E w \in Workers : CheckToken(w) \/ UpdateFinished(w)
  <2>. PICK w \in Workers : CheckToken(w) \/ UpdateFinished(w)
    BY <1>7
  <2>1. /\ UNCHANGED <<maps, toVisit, queue, finished>>
        /\ \A v \in Workers : pc'[v] = "finish" => pc[v] = "finish" /\ v # w
        /\ \A t \in Threads : t # w => job'[t] = job[t]
    BY <1>a, <1>b DEF CheckToken, UpdateFinished
  <2>2. pc'[World] = pc[World] \/ (pc[World] = "asleep" /\ pc'[World] = "wait")
    BY <1>a, <1>b DEF CheckToken, UpdateFinished
  <2>3. pc[World] \notin Alone => job'[w] = job[w] \/ job[w] \in finished
    BY <1>a, <1>b, <1>c, <1>f DEF CheckToken, UpdateFinished, JobInv, Alone
  <2>4. pc[World] \notin Alone => \A m \in maps : Covered(m)'
    BY <2>1, <2>3, <1>d DEF Covered
  <2>. QED
    BY <2>1, <2>2, <2>4, <1>a, <1>c, <1>d, <1>f DEF CoverInv, Alone, UpdateStages
<1>8. CASE \E t \in Threads : EndUpdate(t)
  <2>. PICK t \in Threads : EndUpdate(t)
    BY <1>8
  <2>1. /\ finished' = finished \cup {job[t]} /\ UNCHANGED <<maps, toVisit, queue>>
        /\ job[t] \in maps
    BY <1>a, <1>c DEF EndUpdate, JobInv, ShareInv, UpdateStages, Threads
  <2>2. \A u \in Threads : job'[u] = job[u] \/ u = t
    BY <1>b DEF EndUpdate
  <2>3. \A m \in maps : Covered(m) => Covered(m)'
    BY <2>1, <2>2 DEF Covered
  <2>4. \A w \in Workers : pc'[w] = "finish" => job'[w] = job[w] /\ (w = t \/ pc[w] = "finish")
    BY <1>a, <1>b DEF EndUpdate
  <2>5. /\ pc'[World] = pc[World] \/ pc'[World] = "schedule"
        /\ pc'[World] \notin Alone => pc[World] \notin Alone
    BY <1>a, <1>b DEF EndUpdate, Alone
  <2>6. pc'[World] # "unload"
    <3>1. pc[World] # "unload"
      <4>1. pc[World] = "unload" => job[t] = NoMap
        BY <1>c, NobodyHasAny DEF CountInv, Alone, UpdateStages
      <4>. QED
        BY <4>1, <2>1, <1>a, <1>b
    <3>. QED
      BY <2>5, <3>1
  <2>. QED
    BY <2>1, <2>3, <2>4, <2>5, <2>6, <1>c, <1>d, <1>f DEF CoverInv
<1>9. CASE \E t \in Threads : Sail(t) \/ SpuriousWakeup(t)
  <2>. PICK t \in Threads : Sail(t) \/ SpuriousWakeup(t)
    BY <1>9
  <2>1. UNCHANGED <<maps, toVisit, poolVars, finished>>
    BY <1>c, SailStep DEF SpuriousWakeup
  <2>2. /\ \A w \in Workers : pc'[w] = "finish" => pc[w] = "finish"
        /\ pc'[World] \notin Alone => pc[World] \notin Alone
        /\ pc'[World] # "unload" \/ pc'[World] = pc[World]
        /\ pc'[World] \notin UpdateStages \cup {"schedule", "push"}
             => pc[World] \notin UpdateStages \cup {"schedule", "push"}
    <3>1. CASE Sail(t)
      BY <3>1, <1>a, <1>b, <1>c, SailStep DEF UpdateStages, Alone
    <3>2. CASE SpuriousWakeup(t)
      BY <3>2, <1>a, <1>b DEF SpuriousWakeup, UpdateStages, Alone
    <3>. QED
      BY <3>1, <3>2
  <2>3. \A m \in maps : Covered(m) => Covered(m)'
    BY <2>1 DEF Covered
  <2>. QED
    BY <2>1, <2>2, <2>3, <1>c, <1>d, <1>f DEF CoverInv
<1>10. CASE UNCHANGED vars
  BY <1>10, <1>c, <1>d, <1>f DEF CoverInv, Covered
<1>. QED
  BY <1>1, <1>2, <1>3, <1>4, <1>5, <1>6, <1>7, <1>8, <1>9, <1>10, StepCases

-----------------------------------------------------------------------------
(* Types and the invariant as a whole.                                     *)

\* Every step keeps the world thread and the workers at their stages.
LEMMA StageStep ==
    ASSUME TypeOK, [Next]_vars
    PROVE  /\ pc' \in [Threads -> WorkerStages \cup WorldStages]
           /\ pc'[World] \in WorldStages /\ \A w \in Workers : pc'[w] \in WorkerStages
<1>a. World \notin Workers /\ World \in Threads /\ Workers \subseteq Threads
  BY MapUpdaterAssumption DEF Threads
<1>b. pc \in [Threads -> WorkerStages \cup WorldStages]
      /\ pc[World] \in WorldStages /\ \A w \in Workers : pc[w] \in WorkerStages
  BY DEF TypeOK
<1>. USE DEF WorkerStages, WorldStages, UpdateStages
<1>1. CASE StartTick \/ Schedule \/ Push \/ UpdateInline \/ EndLoop \/ Wait
  BY <1>1, <1>a, <1>b DEF StartTick, Schedule, Push, UpdateInline, EndLoop, Wait, Sleeping
<1>2. CASE UnloadMaps \/ CreateMap \/ UnloadAll \/ SetToken \/ Cancel \/ Join
  BY <1>2, <1>a, <1>b DEF UnloadMaps, CreateMap, UnloadAll, SetToken, Cancel, Join
<1>3. CASE \E w \in Workers : WaitAndPop(w) \/ CheckToken(w) \/ UpdateFinished(w)
  BY <1>3, <1>a, <1>b DEF WaitAndPop, CheckToken, UpdateFinished
<1>4. CASE \E t \in Threads : EndUpdate(t) \/ SpuriousWakeup(t)
  BY <1>4, <1>a, <1>b DEF EndUpdate, SpuriousWakeup, Threads
<1>5. CASE \E t \in Threads : Sail(t)
  BY <1>5, <1>a, <1>b, SailStep DEF Threads
<1>6. CASE UNCHANGED vars
  BY <1>6, <1>b
<1>. QED
  BY <1>1, <1>2, <1>3, <1>4, <1>5, <1>6, StepCases

\* ... and the requests, the count and the maps what they are.
LEMMA PoolTypeStep ==
    ASSUME IInv, [Next]_vars
    PROVE  /\ now' \in 0..MaxTicks /\ maps' \subseteq Maps /\ toVisit' \subseteq Maps
           /\ job' \in [Threads -> Maps \cup {NoMap}] /\ queue' \in Seq(Maps)
           /\ pending' \in Nat /\ token' \in BOOLEAN /\ shutdown' \in BOOLEAN
           /\ finished' \subseteq Maps
<1>a. World \notin Workers /\ World \in Threads /\ Workers \subseteq Threads
      /\ Instances \subseteq Maps /\ MaxTicks \in Nat
  BY MapUpdaterAssumption DEF Threads, Maps
<1>b. TypeOK /\ JobInv /\ CountInv
  BY DEF IInv
<1>c. /\ now \in 0..MaxTicks /\ maps \subseteq Maps /\ toVisit \subseteq Maps
      /\ job \in [Threads -> Maps \cup {NoMap}] /\ queue \in Seq(Maps)
      /\ pending \in Nat /\ token \in BOOLEAN /\ shutdown \in BOOLEAN
      /\ finished \subseteq Maps
  BY <1>b DEF TypeOK
<1>1. CASE StartTick \/ Schedule \/ UpdateInline \/ EndLoop \/ Wait
  BY <1>1, <1>a, <1>c DEF StartTick, Schedule, UpdateInline, EndLoop, Wait
<1>2. CASE Push
  <2>1. job[World] \in Maps
    BY <1>2, <1>a, <1>b, <1>c DEF Push, JobInv
  <2>. QED
    BY <1>2, <2>1, <1>a, <1>c DEF Push
<1>3. CASE UnloadMaps \/ CreateMap \/ UnloadAll \/ Join
  BY <1>3, <1>a, <1>c DEF UnloadMaps, CreateMap, UnloadAll, Join
<1>10. CASE SetToken \/ Cancel
  <2>1. <<>> \in Seq(Maps)
    OBVIOUS
  <2>2. token' \in BOOLEAN /\ shutdown' \in BOOLEAN /\ queue' \in Seq(Maps)
    BY <1>10, <2>1, <1>c DEF SetToken, Cancel
  <2>3. UNCHANGED <<now, maps, toVisit, job, pending, finished>>
    BY <1>10 DEF SetToken, Cancel
  <2>. QED
    BY <2>2, <2>3, <1>c
<1>4. CASE \E w \in Workers : WaitAndPop(w)
  BY <1>4, <1>a, <1>c DEF WaitAndPop
<1>5. CASE \E w \in Workers : CheckToken(w)
  BY <1>5, <1>a, <1>c DEF CheckToken
<1>6. CASE \E w \in Workers : UpdateFinished(w)
  <2>. PICK w \in Workers : UpdateFinished(w)
    BY <1>6
  <2>1. w \in Busy
    BY <1>b DEF UpdateFinished, JobInv, Busy
  <2>2. pending > 0
    BY <1>b, <1>c, <2>1, NothingPending DEF CountInv
  <2>. QED
    BY <2>2, <1>a, <1>c DEF UpdateFinished
<1>7. CASE \E t \in Threads : EndUpdate(t)
  <2>. PICK t \in Threads : EndUpdate(t)
    BY <1>7
  <2>1. job[t] \in Maps
    BY <1>a, <1>b, <1>c DEF EndUpdate, JobInv, UpdateStages, Threads
  <2>. QED
    BY <2>1, <1>a, <1>c DEF EndUpdate
<1>8. CASE \E t \in Threads : Sail(t) \/ SpuriousWakeup(t)
  BY <1>8, <1>b, <1>c, SailStep DEF SpuriousWakeup
<1>9. CASE UNCHANGED vars
  BY <1>9, <1>c
<1>. QED
  BY <1>1, <1>2, <1>3, <1>4, <1>5, <1>6, <1>7, <1>8, <1>9, <1>10, StepCases

\* ... and messages and transports too.
SailType ==
    /\ inbox \in [Maps -> Seq(Transports)] /\ messages \in [Threads -> Seq(Transports)]
    /\ transports \in [Maps -> SUBSET Transports] /\ todo \in [Threads -> SUBSET Transports]
    /\ progress \in [Transports -> Nat] /\ hops \in [Transports -> Nat]

LEMMA SailTypeStep ==
    ASSUME IInv, [Next]_vars
    PROVE  SailType'
<1>a. SailType /\ TypeOK /\ JobInv /\ now \in Nat
  BY MapUpdaterAssumption DEF IInv, TypeOK, SailType
<1>b. Continents \subseteq Maps
  BY DEF Maps
<1>1. CASE UnloadAll
  <2>1. <<>> \in Seq(Transports)
    OBVIOUS
  <2>. QED
    BY <1>1, <1>a, <2>1 DEF UnloadAll, SailType
<1>2. CASE StartTick
  BY <1>2, <1>a DEF StartTick, SailType
<1>3. CASE \E t \in Threads : Sail(t)
  <2>. PICK t \in Threads : Sail(t)
    BY <1>3
  <2>1. pc[t] \in UpdateStages
    BY <1>a, SailStep
  <2>2. job[t] \in Maps
    BY <2>1, <1>a DEF JobInv, TypeOK, Threads
  <2>. DEFINE Inbox == Seq(Transports)
  <2>3. /\ <<>> \in Inbox
        /\ \A q \in Inbox : q # <<>> => Head(q) \in Transports /\ Tail(q) \in Inbox
        /\ \A q \in Inbox, tr \in Transports : Append(q, tr) \in Inbox
    OBVIOUS
  <2>4. inbox \in [Maps -> Inbox] /\ messages \in [Threads -> Inbox]
    BY <1>a DEF SailType
  <2>5. /\ transports \in [Maps -> SUBSET Transports] /\ todo \in [Threads -> SUBSET Transports]
        /\ progress \in [Transports -> Nat] /\ hops \in [Transports -> Nat]
    BY <1>a DEF SailType
  <2>6. SUFFICES /\ inbox' \in [Maps -> Inbox] /\ messages' \in [Threads -> Inbox]
                 /\ transports' \in [Maps -> SUBSET Transports]
                 /\ todo' \in [Threads -> SUBSET Transports]
                 /\ progress' \in [Transports -> Nat] /\ hops' \in [Transports -> Nat]
    BY DEF SailType
  <2>. HIDE DEF Inbox
  <2>7. CASE Execute(t)
    BY <2>7, <2>2, <2>3, <2>4, <2>5 DEF Execute
  <2>8. CASE RunMessage(t)
    BY <2>8, <2>2, <2>3, <2>4, <2>5 DEF RunMessage
  <2>9. CASE EndMessages(t)
    BY <2>9, <2>2, <2>3, <2>4, <2>5 DEF EndMessages
  <2>10. CASE UpdateTransport(t)
    <3>. PICK tr \in todo[t] :
             /\ todo' = [todo EXCEPT ![t] = @ \ {tr}]
             /\ \/ UNCHANGED <<progress, hops>>
                \/ Advance(tr)
             /\ \/ UNCHANGED <<transports, inbox>>
                \/ \E to \in Continents \ {job[t]} : TeleportTransport(t, tr, to)
      BY <2>10 DEF UpdateTransport
    <3>1. tr \in Transports
      BY <2>5
    <3>2. progress' \in [Transports -> Nat] /\ hops' \in [Transports -> Nat]
      <4>1. progress[tr] + 1 \in Nat /\ hops[tr] + 1 \in Nat /\ now \in Nat
        BY <3>1, <2>5, <1>a
      <4>. QED
        BY <3>1, <4>1, <2>5 DEF Advance
    <3>3. transports' \in [Maps -> SUBSET Transports] /\ inbox' \in [Maps -> Inbox]
      <4>1. CASE UNCHANGED <<transports, inbox>>
        BY <4>1, <2>4, <2>5
      <4>2. CASE \E to \in Continents \ {job[t]} : TeleportTransport(t, tr, to)
        <5>. PICK to \in Maps : TeleportTransport(t, tr, to)
          BY <4>2, <1>b
        <5>1. Append(inbox[to], tr) \in Inbox
          BY <3>1, <2>3, <2>4
        <5>. QED
          BY <5>1, <2>2, <2>4, <2>5 DEF TeleportTransport
      <4>. QED
        BY <4>1, <4>2
    <3>4. todo' \in [Threads -> SUBSET Transports]
      BY <2>5
    <3>. QED
      BY <3>2, <3>3, <3>4, <2>4, <2>10 DEF UpdateTransport
  <2>. QED
    BY <2>7, <2>8, <2>9, <2>10 DEF Sail
<1>4. CASE UNCHANGED sailVars
  BY <1>4, <1>a DEF SailType
<1>. QED
  BY <1>1, <1>2, <1>3, <1>4, StepCases
  DEF Schedule, Push, UpdateInline, EndLoop, Wait, UnloadMaps, CreateMap, SetToken, Cancel, Join,
      WaitAndPop, CheckToken, UpdateFinished, EndUpdate, SpuriousWakeup

LEMMA InitInv ==
    ASSUME Init
    PROVE  IInv
<1>a. World \notin Workers /\ World \in Threads /\ Workers \subseteq Threads
      /\ Continents \subseteq Maps /\ MaxTicks \in Nat /\ NoMap \notin Maps
  BY MapUpdaterAssumption DEF Threads, Maps
<1>b. <<>> \in Seq(Maps) /\ <<>> \in Seq(Transports) /\ Len(<<>>) = 0
  OBVIOUS
<1>1. pc[World] = "serial" /\ \A w \in Workers : pc[w] \in {"pop", "exit"}
  BY <1>a DEF Init
<1>2. transports \in [Maps -> SUBSET Transports]
  BY DEF Init
<1>3. pc \in [Threads -> WorkerStages \cup WorldStages]
  BY <1>a DEF Init, WorkerStages, WorldStages
<1>4. TypeOK
  <2>1. inbox \in [Maps -> Seq(Transports)] /\ messages \in [Threads -> Seq(Transports)]
    BY <1>b DEF Init
  <2>2. /\ now \in 0..MaxTicks /\ maps \subseteq Maps /\ toVisit \subseteq Maps
        /\ job \in [Threads -> Maps \cup {NoMap}] /\ pending \in Nat /\ finished \subseteq Maps
    BY <1>a DEF Init
  <2>5. queue \in Seq(Maps) /\ activated \in BOOLEAN /\ token \in BOOLEAN /\ shutdown \in BOOLEAN
    BY <1>b DEF Init
  <2>3. /\ todo \in [Threads -> SUBSET Transports]
        /\ progress \in [Transports -> Nat] /\ hops \in [Transports -> Nat]
    BY DEF Init
  <2>4. pc[World] \in WorldStages /\ \A w \in Workers : pc[w] \in WorkerStages
    BY <1>1 DEF WorkerStages, WorldStages
  <2>. QED
    BY <1>2, <1>3, <2>1, <2>2, <2>3, <2>4, <2>5 DEF TypeOK
<1>5. JobInv
  BY <1>a, <1>1 DEF Init, JobInv, UpdateStages
<1>6. Busy = {}
  BY <1>a DEF Init, Busy
<1>7. CountInv
  BY <1>b, <1>1, <1>6, FS_EmptySet DEF Init, CountInv, CountIsExact
<1>8. ShareInv
  BY <1>b DEF Init, ShareInv
<1>9. CoverInv
  BY <1>1 DEF Init, CoverInv, Alone
<1>. QED
  BY <1>4, <1>5, <1>7, <1>8, <1>9 DEF IInv

LEMMA InvStep ==
    ASSUME IInv, [Next]_vars
    PROVE  IInv'
<1>1. TypeOK /\ JobInv /\ CountInv
  BY DEF IInv
<1>2. TypeOK'
  BY <1>1, PoolStays, StageStep, PoolTypeStep, SailTypeStep DEF TypeOK, SailType
<1>. QED
  BY <1>1, <1>2, JobStep, CountStep, ShareStep, CoverStep DEF IInv

THEOREM Invariance == Spec => []IInv
BY InitInv, InvStep, PTL DEF Spec

(* Every variable keeps its type; pending_requests never falls below zero. *)
THEOREM TypeCorrect == Spec => []TypeOK
<1>1. IInv => TypeOK
  BY DEF IInv
<1>. QED
  BY <1>1, Invariance, PTL

(* The count wait() looks at is the number of requests not yet reported.   *)
THEOREM ExactCount == Spec => []CountIsExact
<1>1. IInv => CountIsExact
  BY DEF IInv, CountInv
<1>. QED
  BY <1>1, Invariance, PTL

(* In its serial phases the world thread is alone with the maps.           *)
THEOREM Exclusion == Spec => []WorldAlone
<1>1. IInv => WorldAlone
  <2>. SUFFICES ASSUME IInv, pc[World] \in Alone
                PROVE  Updating = {} /\ Busy = {} /\ queue = <<>>
    BY DEF WorldAlone, Alone
  <2>1. queue = <<>> /\ Busy = {}
    BY NothingPending DEF IInv, CountInv
  <2>2. Updating = {}
    BY <2>1 DEF Updating, Busy, IInv, JobInv, Threads, Alone, UpdateStages
  <2>. QED
    BY <2>1, <2>2
<1>. QED
  BY <1>1, Invariance, PTL

(* No map is updated by two threads at once, or after it was destroyed.    *)
THEOREM OneThreadPerMap == Spec => []SoleUpdater
<1>1. IInv => SoleUpdater
  BY DEF IInv, JobInv, ShareInv, SoleUpdater, Updating, UpdateStages, Threads
<1>. QED
  BY <1>1, Invariance, PTL

(* The null requests of the shutdown are never executed.                   *)
THEOREM NullNeverExecuted == Spec => []NoNullRequest
<1>1. IInv => NoNullRequest
  BY DEF IInv, JobInv, NoNullRequest
<1>. QED
  BY <1>1, Invariance, PTL

-----------------------------------------------------------------------------
(* Refinement of WorldTick.                                                *)

LEMMA TickInit == Init => Tick!Init
<1>. SUFFICES ASSUME Init PROVE Tick!Init
  OBVIOUS
<1>1. pc[World] = "serial"
  BY MapUpdaterAssumption DEF Init, Threads
<1>. QED
  BY <1>1 DEF Init, Tick!Init, Phase

\* A map whose update ends is loaded and was not yet done in this tick, and
\* the tick is not over.
LEMMA TickUpdate ==
    ASSUME IInv, NEW t \in Threads, EndUpdate(t)
    PROVE  Tick!UpdateMap(job[t]) /\ job[t] \in Continents \cup Instances
<1>a. World \notin Workers /\ World \in Threads /\ Workers \subseteq Threads
  BY MapUpdaterAssumption DEF Threads
<1>b. pc \in [Threads -> WorkerStages \cup WorldStages] /\ maps \subseteq Maps
  BY DEF IInv, TypeOK
<1>1. job[t] # NoMap /\ pc[t] # "finish"
  BY <1>a DEF EndUpdate, IInv, JobInv, UpdateStages, Threads
<1>2. job[t] \in maps \ finished
  BY <1>1 DEF IInv, ShareInv
<1>3. pc[World] \notin Alone
  <2>1. pc[World] \in Alone => job[t] = NoMap
    BY NobodyHasAny DEF IInv, CountInv, Alone, UpdateStages
  <2>. QED
    BY <2>1, <1>1
<1>4. pc'[World] \notin Alone
  BY <1>3, <1>a, <1>b DEF EndUpdate, Alone
<1>. QED
  BY <1>b, <1>2, <1>3, <1>4 DEF EndUpdate, Tick!UpdateMap, Phase, Alone, Maps

LEMMA TickStep ==
    ASSUME IInv, [Next]_vars
    PROVE  [Tick!Next]_(Tick!vars)
<1>a. World \notin Workers /\ World \in Threads /\ Workers \subseteq Threads
  BY MapUpdaterAssumption DEF Threads
<1>b. pc \in [Threads -> WorkerStages \cup WorldStages] /\ maps \subseteq Maps
  BY DEF IInv, TypeOK
<1>. USE DEF Phase
<1>1. CASE StartTick
  BY <1>1, <1>a, <1>b DEF StartTick, Tick!Next, Tick!Begin
<1>2. CASE UnloadMaps
  <2>1. pc[World] = "unload" /\ pc'[World] = "serial" /\ finished = maps
    BY <1>2, <1>a, <1>b DEF UnloadMaps, IInv, CoverInv
  <2>. QED
    BY <1>2, <2>1 DEF UnloadMaps, Tick!Next, Tick!End
<1>3. CASE CreateMap
  BY <1>3 DEF CreateMap, Tick!Next, Tick!Create
<1>4. CASE UnloadAll
  BY <1>4, <1>a, <1>b DEF UnloadAll, Tick!Next, Tick!Close
<1>5. CASE \E t \in Threads : EndUpdate(t)
  BY <1>5, TickUpdate DEF Tick!Next
<1>6. CASE Schedule \/ Push \/ UpdateInline \/ EndLoop \/ Wait \/ SetToken \/ Cancel \/ Join
  <2>1. UNCHANGED <<now, maps, finished>>
    BY <1>6 DEF Schedule, Push, UpdateInline, EndLoop, Wait, SetToken, Cancel, Join
  <2>2. Phase' = Phase
    BY <1>6, <1>a, <1>b
    DEF Schedule, Push, UpdateInline, EndLoop, Wait, SetToken, Cancel, Join, Sleeping
  <2>. QED
    BY <2>1, <2>2 DEF Tick!vars
<1>7. CASE \E w \in Workers : WaitAndPop(w) \/ CheckToken(w) \/ UpdateFinished(w)
  <2>1. UNCHANGED <<now, maps, finished>>
    BY <1>7 DEF WaitAndPop, CheckToken, UpdateFinished
  <2>2. Phase' = Phase
    BY <1>7, <1>a, <1>b DEF WaitAndPop, CheckToken, UpdateFinished
  <2>. QED
    BY <2>1, <2>2 DEF Tick!vars
<1>8. CASE \E t \in Threads : Sail(t) \/ SpuriousWakeup(t)
  <2>. PICK t \in Threads : Sail(t) \/ SpuriousWakeup(t)
    BY <1>8
  <2>1. UNCHANGED <<now, maps, finished>>
    BY SailStep DEF SpuriousWakeup, IInv
  <2>2. Phase' = Phase
    BY <1>a, <1>b, SailStep DEF SpuriousWakeup, IInv, UpdateStages
  <2>. QED
    BY <2>1, <2>2 DEF Tick!vars
<1>9. CASE UNCHANGED vars
  BY <1>9 DEF Tick!vars
<1>. QED
  BY <1>1, <1>2, <1>3, <1>4, <1>5, <1>6, <1>7, <1>8, <1>9, StepCases

(* The parallel update implements the sequential one: in every tick each   *)
(* loaded map is updated exactly once before the world thread goes on.     *)
THEOREM Refinement == Spec => ImplementsWorldTick
BY TickInit, TickStep, Invariance, PTL DEF Spec, ImplementsWorldTick, Tick!Spec

-----------------------------------------------------------------------------
(* Transports: each is in one place, and one that cannot be stopped is     *)
(* advanced once a tick, while the maps it sails between are updated by    *)
(* different threads, in any order.                                        *)

\* Maps are there until UnloadAll.
Closed  == {"token", "cancel", "join", "stopped"}
Sailing == pc[World] \notin Closed

\* Where a transport is; the names of the places are those of Places.
OnMap(m)      == <<"map", m>>
Inbox(m, i)   == <<"inbox", m, i>>
Swapped(t, i) == <<"swapped", t, i>>
IsPlace(tr, x) ==
    \/ \E m \in Maps : x = OnMap(m) /\ tr \in transports[m]
    \/ \E m \in Maps : \E i \in 1..Len(inbox[m]) : x = Inbox(m, i) /\ inbox[m][i] = tr
    \/ \E t \in Threads : \E i \in 1..Len(messages[t]) : x = Swapped(t, i) /\ messages[t][i] = tr
InOne(tr) == \E x : IsPlace(tr, x) /\ \A y : IsPlace(tr, y) => y = x

(* Transports are on continents only, the messages of a map are run in one *)
(* stage of its update and its transports advanced in another, and each    *)
(* transport has one place.                                                *)
PlaceInv ==
    /\ IF Sailing THEN Continents \subseteq maps ELSE maps = {}
    /\ \A m \in Maps : transports[m] # {} \/ inbox[m] # << >> => m \in Continents
    /\ \A t \in Threads :
          /\ messages[t] # << >> => pc[t] = "messages" /\ job[t] \in Continents
          /\ todo[t] # {} => pc[t] = "transports" /\ todo[t] \subseteq transports[job[t]]
    /\ Sailing => \A tr \in Transports : InOne(tr)

(* A map whose update has not come to the given stages yet.                *)
Ahead(m, stages) ==
    \/ m \in toVisit
    \/ \E i \in 1..Len(queue) : queue[i] = m
    \/ \E t \in Threads : job[t] = m /\ pc[t] \in stages

ToSwap == {"push", "check", "swap"}
ToRun  == ToSwap \cup {"messages"}

(* Nothing says when a stoppable transport moves, or how often.            *)
Due(tr) == tr \notin Stoppable /\ progress[tr] < now

(* What the history of advances says about the clocks of the others.       *)
HopCount ==
    \A tr \in Transports \ Stoppable :
       /\ progress[tr] \in 0..now
       /\ hops[tr] = IF now = 0 \/ Due(tr) THEN 0 ELSE 1

(* A transport that has not been advanced is where an update that is still *)
(* to come, or the rest of a running one, will find it.                    *)
WillAdvance ==
    \A tr \in Transports : Due(tr) =>
       /\ \A m \in Maps : tr \in transports[m] =>
             Ahead(m, ToRun) \/ \E t \in Threads : job[t] = m /\ tr \in todo[t]
       /\ \A m \in Maps : \A i \in 1..Len(inbox[m]) : inbox[m][i] = tr => Ahead(m, ToSwap)

HopInv ==
    /\ now = 0 => pc[World] \in {"serial"} \cup Closed
    /\ HopCount
    /\ pc[World] \notin Alone => WillAdvance
    /\ pc[World] = "unload" => \A tr \in Transports : ~Due(tr)

-----------------------------------------------------------------------------
USE DEF vars, poolVars, stopVars, sailVars, Goto

(* Maps and places.                                                        *)

LEMMA PlacesDiffer ==
    /\ \A m, n : OnMap(m) = OnMap(n) <=> m = n
    /\ \A m, n, i, j : Inbox(m, i) = Inbox(n, j) <=> m = n /\ i = j
    /\ \A t, u, i, j : Swapped(t, i) = Swapped(u, j) <=> t = u /\ i = j
    /\ \A m, n, i : OnMap(m) # Inbox(n, i)
    /\ \A m, n, i : OnMap(m) # Swapped(n, i)
    /\ \A m, n, i, j : Inbox(m, i) # Swapped(n, j)
BY DEF OnMap, Inbox, Swapped

LEMMA JobIsMap ==
    ASSUME IInv, NEW t \in Threads, pc[t] \in UpdateStages
    PROVE  job[t] \in Maps /\ job[t] # NoMap
BY MapUpdaterAssumption DEF IInv, TypeOK, JobInv, Threads, UpdateStages

LEMMA JobsDiffer ==
    ASSUME IInv, NEW t \in Threads, NEW u \in Threads, t # u,
           pc[t] \in UpdateStages, pc[u] \in UpdateStages
    PROVE  job[t] # job[u]
BY JobIsMap DEF IInv, ShareInv

LEMMA SailTypes ==
    ASSUME TypeOK
    PROVE  /\ inbox \in [Maps -> Seq(Transports)] /\ messages \in [Threads -> Seq(Transports)]
           /\ transports \in [Maps -> SUBSET Transports] /\ todo \in [Threads -> SUBSET Transports]
           /\ pc \in [Threads -> WorkerStages \cup WorldStages]
           /\ \A m \in Maps : inbox[m] \in Seq(Transports) /\ Len(inbox[m]) \in Nat
           /\ \A t \in Threads : messages[t] \in Seq(Transports) /\ Len(messages[t]) \in Nat
BY DEF TypeOK

\* What it means for x to be the place of a transport.
Found(tr, x) ==
    /\ \A m \in Maps : tr \in transports[m] => x = OnMap(m)
    /\ \A m \in Maps : \A i \in 1..Len(inbox[m]) : inbox[m][i] = tr => x = Inbox(m, i)
    /\ \A t \in Threads : \A i \in 1..Len(messages[t]) : messages[t][i] = tr => x = Swapped(t, i)

LEMMA Facts ==
    ASSUME NEW tr, InOne(tr)
    PROVE  \E x : IsPlace(tr, x) /\ Found(tr, x)
<1>1. PICK x : IsPlace(tr, x) /\ \A y : IsPlace(tr, y) => y = x
  BY DEF InOne
<1>2. ASSUME NEW m \in Maps, tr \in transports[m] PROVE x = OnMap(m)
  <2>1. IsPlace(tr, OnMap(m))
    BY <1>2 DEF IsPlace
  <2>. QED
    BY <1>1, <2>1
<1>3. ASSUME NEW m \in Maps, NEW i \in 1..Len(inbox[m]), inbox[m][i] = tr PROVE x = Inbox(m, i)
  <2>1. IsPlace(tr, Inbox(m, i))
    BY <1>3 DEF IsPlace
  <2>. QED
    BY <1>1, <2>1
<1>4. ASSUME NEW t \in Threads, NEW i \in 1..Len(messages[t]), messages[t][i] = tr
      PROVE  x = Swapped(t, i)
  <2>1. IsPlace(tr, Swapped(t, i))
    BY <1>4 DEF IsPlace
  <2>. QED
    BY <1>1, <2>1
<1>. QED
  BY <1>1, <1>2, <1>3, <1>4 DEF Found

LEMMA FactsRule ==
    ASSUME NEW tr, NEW x, IsPlace(tr, x)', Found(tr, x)'
    PROVE  InOne(tr)'
<1>1. ASSUME NEW y, IsPlace(tr, y)' PROVE y = x
  BY <1>1 DEF IsPlace, Found
<1>. QED
  BY <1>1 DEF InOne

\* Swapping the messages of a map moves each transport in them.
LEMMA ExecutePlaces ==
    ASSUME IInv, PlaceInv, NEW t \in Threads, Execute(t), NEW tr, InOne(tr)
    PROVE  InOne(tr)'
<1>. DEFINE m == job[t]
<1>1. m \in Maps /\ messages[t] = << >> /\ Len(messages[t]) = 0
  BY JobIsMap, SailTypes DEF IInv, Execute, UpdateStages, PlaceInv
<1>2. /\ messages' = [messages EXCEPT ![t] = inbox[m]] /\ inbox' = [inbox EXCEPT ![m] = << >>]
      /\ transports' = transports
  BY DEF Execute
<1>3. /\ messages'[t] = inbox[m] /\ \A u \in Threads \ {t} : messages'[u] = messages[u]
      /\ inbox'[m] = << >> /\ Len(inbox'[m]) = 0 /\ \A n \in Maps \ {m} : inbox'[n] = inbox[n]
  BY <1>1, <1>2, SailTypes DEF IInv
<1>. HIDE DEF m
<1>4. PICK x : IsPlace(tr, x) /\ Found(tr, x)
  BY Facts
<1>5. CASE \E i \in 1..Len(inbox[m]) : inbox[m][i] = tr
  <2>1. PICK i \in 1..Len(inbox[m]) : inbox[m][i] = tr
    BY <1>5
  <2>2. x = Inbox(m, i)
    BY <1>1, <1>4, <2>1 DEF Found
  <2>3. IsPlace(tr, Swapped(t, i))'
    BY <1>3, <2>1 DEF IsPlace
  <2>4. Found(tr, Swapped(t, i))'
    <3>1. \A n \in Maps : tr \notin transports'[n]
      BY <1>2, <1>4, <2>2, PlacesDiffer DEF Found
    <3>2. \A n \in Maps : \A j \in 1..Len(inbox'[n]) : inbox'[n][j] # tr
      BY <1>3, <1>4, <2>2, PlacesDiffer DEF Found
    <3>3. ASSUME NEW u \in Threads, NEW j \in 1..Len(messages'[u]), messages'[u][j] = tr
          PROVE  u = t /\ j = i
      <4>1. u = t
        BY <1>3, <1>4, <2>2, <3>3, PlacesDiffer DEF Found
      <4>2. x = Inbox(m, j)
        BY <1>1, <1>3, <1>4, <3>3, <4>1 DEF Found
      <4>3. Inbox(m, i) = Inbox(m, j)
        BY <2>2, <4>2
      <4>. QED
        BY <4>1, <4>3, PlacesDiffer
    <3>. QED
      BY <3>1, <3>2, <3>3 DEF Found
  <2>. QED
    BY <2>3, <2>4, FactsRule
<1>6. CASE ~ \E i \in 1..Len(inbox[m]) : inbox[m][i] = tr
  <2>1. IsPlace(tr, x)'
    BY <1>1, <1>2, <1>3, <1>4, <1>6 DEF IsPlace
  <2>2. Found(tr, x)'
    BY <1>1, <1>2, <1>3, <1>4, <1>6 DEF Found
  <2>. QED
    BY <2>1, <2>2, FactsRule
<1>. QED
  BY <1>5, <1>6

\* A message that is run moves its transport to the map.
LEMMA RunMessagePlaces ==
    ASSUME IInv, PlaceInv, NEW t \in Threads, RunMessage(t), NEW tr, InOne(tr)
    PROVE  InOne(tr)'
<1>1. PICK m \in Maps : m = job[t]
  BY JobIsMap DEF RunMessage, UpdateStages
<1>2. PICK q \in Seq(Transports) : q = messages[t] /\ q # << >>
  BY SailTypes DEF IInv, RunMessage
<1>3. /\ messages' = [messages EXCEPT ![t] = Tail(q)] /\ inbox' = inbox
      /\ transports' = [transports EXCEPT ![m] = @ \cup {Head(q)}]
  BY <1>1, <1>2 DEF RunMessage
<1>4. /\ messages'[t] = Tail(q) /\ \A u \in Threads \ {t} : messages'[u] = messages[u]
      /\ transports'[m] = transports[m] \cup {Head(q)}
      /\ \A n \in Maps \ {m} : transports'[n] = transports[n]
  BY <1>3, SailTypes DEF IInv
<1>5. /\ Len(q) \in Nat \ {0} /\ Len(Tail(q)) = Len(q) - 1 /\ Head(q) = q[1]
      /\ \A i \in 1..Len(q) - 1 : Tail(q)[i] = q[i + 1]
  BY <1>2, TailAt
<1>6. \A i \in 1..Len(messages'[t]) :
         i + 1 \in 2..Len(q) /\ messages'[t][i] = messages[t][i + 1]
  BY <1>2, <1>4, <1>5
<1>7. PICK x : IsPlace(tr, x) /\ Found(tr, x)
  BY Facts
<1>8. CASE tr = Head(q)
  <2>1. x = Swapped(t, 1)
    BY <1>2, <1>5, <1>7, <1>8 DEF Found
  <2>2. IsPlace(tr, OnMap(m))'
    BY <1>1, <1>4, <1>8 DEF IsPlace
  <2>3. Found(tr, OnMap(m))'
    <3>1. \A n \in Maps : tr \in transports'[n] => n = m
      BY <1>4, <1>7, <2>1, PlacesDiffer DEF Found
    <3>2. \A n \in Maps : \A j \in 1..Len(inbox'[n]) : inbox'[n][j] # tr
      BY <1>3, <1>7, <2>1, PlacesDiffer DEF Found
    <3>3. ASSUME NEW u \in Threads, NEW j \in 1..Len(messages'[u]), messages'[u][j] = tr
          PROVE  FALSE
      <4>1. u = t
        BY <1>4, <1>7, <2>1, <3>3, PlacesDiffer DEF Found
      <4>2. j + 1 \in 2..Len(messages[t]) /\ messages[t][j + 1] = tr
        BY <1>2, <1>6, <3>3, <4>1
      <4>3. Swapped(t, 1) = Swapped(t, j + 1)
        BY <1>7, <2>1, <4>2 DEF Found
      <4>. QED
        BY <4>2, <4>3, PlacesDiffer
    <3>. QED
      BY <3>1, <3>2, <3>3 DEF Found
  <2>. QED
    BY <2>2, <2>3, FactsRule
<1>9. CASE tr # Head(q) /\ \E i \in 1..Len(q) : q[i] = tr
  <2>1. PICK i \in 1..Len(q) : q[i] = tr
    BY <1>9
  <2>2. i # 1 /\ i - 1 \in 1..Len(messages'[t])
    BY <1>4, <1>5, <1>9, <2>1
  <2>3. messages'[t][i - 1] = tr
    BY <1>2, <1>6, <2>1, <2>2
  <2>4. x = Swapped(t, i)
    BY <1>2, <1>7, <2>1 DEF Found
  <2>5. IsPlace(tr, Swapped(t, i - 1))'
    BY <2>2, <2>3 DEF IsPlace
  <2>6. Found(tr, Swapped(t, i - 1))'
    <3>1. \A n \in Maps : tr \notin transports'[n]
      BY <1>4, <1>7, <1>9, <2>4, PlacesDiffer DEF Found
    <3>2. \A n \in Maps : \A j \in 1..Len(inbox'[n]) : inbox'[n][j] # tr
      BY <1>3, <1>7, <2>4, PlacesDiffer DEF Found
    <3>3. ASSUME NEW u \in Threads, NEW j \in 1..Len(messages'[u]), messages'[u][j] = tr
          PROVE  u = t /\ j = i - 1
      <4>1. u = t
        BY <1>4, <1>7, <2>4, <3>3, PlacesDiffer DEF Found
      <4>2. j + 1 \in 2..Len(messages[t]) /\ messages[t][j + 1] = tr /\ j \in Nat
        BY <1>2, <1>6, <3>3, <4>1
      <4>3. Swapped(t, i) = Swapped(t, j + 1)
        BY <1>7, <2>4, <4>2 DEF Found
      <4>4. i = j + 1
        BY <4>3, PlacesDiffer
      <4>. QED
        BY <4>1, <4>2, <4>4
    <3>. QED
      BY <3>1, <3>2, <3>3 DEF Found
  <2>. QED
    BY <2>5, <2>6, FactsRule
<1>10. CASE tr # Head(q) /\ ~ \E i \in 1..Len(q) : q[i] = tr
  <2>1. \A j \in 1..Len(messages'[t]) : messages'[t][j] # tr
    BY <1>2, <1>5, <1>6, <1>10
  <2>2. \A n \in Maps : tr \in transports'[n] <=> tr \in transports[n]
    BY <1>4, <1>10
  <2>3. IsPlace(tr, x)'
    BY <1>2, <1>3, <1>4, <1>7, <1>10, <2>2 DEF IsPlace
  <2>4. Found(tr, x)'
    BY <1>3, <1>4, <1>7, <2>1, <2>2 DEF Found
  <2>. QED
    BY <2>3, <2>4, FactsRule
<1>. QED
  BY <1>8, <1>9, <1>10

\* Sailing to another map moves one transport from its map to a message.
LEMMA TeleportPlaces ==
    ASSUME IInv, NEW t \in Threads, NEW s \in transports[job[t]], NEW to \in Maps,
           job[t] \in Maps, to # job[t], TeleportTransport(t, s, to), messages' = messages,
           s \in Transports, NEW tr, InOne(tr)
    PROVE  InOne(tr)'
<1>1. PICK m \in Maps : m = job[t] /\ s \in transports[m] /\ to # m
  OBVIOUS
<1>2. PICK q \in Seq(Transports) : q = inbox[to] /\ Len(q) \in Nat
  BY SailTypes DEF IInv
<1>3. /\ inbox'[to] = Append(q, s) /\ \A n \in Maps \ {to} : inbox'[n] = inbox[n]
      /\ transports'[m] = transports[m] \ {s}
      /\ \A n \in Maps \ {m} : transports'[n] = transports[n]
  BY <1>1, <1>2, SailTypes DEF IInv, TeleportTransport
<1>4. /\ Len(Append(q, s)) = Len(q) + 1
      /\ \A i \in 1..Len(q) + 1 : Append(q, s)[i] = IF i = Len(q) + 1 THEN s ELSE q[i]
  BY <1>2, AppendAt
<1>5. /\ Len(inbox'[to]) = Len(q) + 1 /\ inbox'[to][Len(q) + 1] = s
      /\ \A i \in 1..Len(q) : i \in 1..Len(inbox'[to]) /\ inbox'[to][i] = q[i]
      /\ \A i \in 1..Len(inbox'[to]) : i # Len(q) + 1 => i \in 1..Len(q)
  BY <1>2, <1>3, <1>4
<1>6. PICK x : IsPlace(tr, x) /\ Found(tr, x)
  BY Facts
<1>7. CASE tr = s
  <2>1. x = OnMap(m)
    BY <1>1, <1>6, <1>7 DEF Found
  <2>2. IsPlace(tr, Inbox(to, Len(q) + 1))'
    BY <1>2, <1>5, <1>7 DEF IsPlace
  <2>3. Found(tr, Inbox(to, Len(q) + 1))'
    <3>1. \A n \in Maps : tr \notin transports'[n]
      BY <1>3, <1>6, <1>7, <2>1, PlacesDiffer DEF Found
    <3>2. ASSUME NEW n \in Maps, NEW j \in 1..Len(inbox'[n]), inbox'[n][j] = tr
          PROVE  n = to /\ j = Len(q) + 1
      <4>1. n = to
        BY <1>3, <1>6, <2>1, <3>2, PlacesDiffer DEF Found
      <4>2. ASSUME j # Len(q) + 1 PROVE FALSE
        <5>1. j \in 1..Len(inbox[to]) /\ inbox[to][j] = tr
          BY <1>2, <1>5, <3>2, <4>1, <4>2
        <5>. QED
          BY <1>6, <2>1, <5>1, PlacesDiffer DEF Found
      <4>. QED
        BY <4>1, <4>2
    <3>3. \A u \in Threads : \A j \in 1..Len(messages'[u]) : messages'[u][j] # tr
      BY <1>6, <2>1, PlacesDiffer DEF Found
    <3>. QED
      BY <3>1, <3>2, <3>3 DEF Found
  <2>. QED
    BY <2>2, <2>3, FactsRule
<1>8. CASE tr # s
  <2>1. \A n \in Maps : tr \in transports'[n] <=> tr \in transports[n]
    BY <1>3, <1>8
  <2>2. \A n \in Maps : \A j : (j \in 1..Len(inbox'[n]) /\ inbox'[n][j] = tr)
                               <=> (j \in 1..Len(inbox[n]) /\ inbox[n][j] = tr)
    BY <1>2, <1>3, <1>5, <1>8
  <2>3. IsPlace(tr, x)'
    BY <1>6, <2>1, <2>2 DEF IsPlace
  <2>4. Found(tr, x)'
    BY <1>6, <2>1, <2>2 DEF Found
  <2>. QED
    BY <2>3, <2>4, FactsRule
<1>. QED
  BY <1>7, <1>8

\* Steps that touch neither the maps' transports nor the messages.
LEMMA SamePlaces ==
    ASSUME UNCHANGED <<inbox, messages, transports>>, NEW tr, InOne(tr)
    PROVE  InOne(tr)'
<1>1. \A x : IsPlace(tr, x)' <=> IsPlace(tr, x)
  BY DEF IsPlace
<1>. QED
  BY <1>1 DEF InOne

-----------------------------------------------------------------------------
(* PlaceInv.                                                               *)

\* The maps with transports are the continents.
MapPart == IF Sailing THEN Continents \subseteq maps ELSE maps = {}

LEMMA MapPartStep ==
    ASSUME IInv, PlaceInv, [Next]_vars
    PROVE  MapPart' /\ (Sailing' => Sailing)
<1>a. World \notin Workers /\ World \in Threads /\ Workers \subseteq Threads
  BY MapUpdaterAssumption DEF Threads
<1>b. pc \in [Threads -> WorkerStages \cup WorldStages] /\ MapPart
  BY SailTypes DEF IInv, PlaceInv, MapPart
<1>. USE <1>a, <1>b DEF MapPart, Sailing, Closed
<1>1. CASE StartTick \/ Schedule \/ Push \/ UpdateInline \/ EndLoop \/ Wait
  BY <1>1 DEF StartTick, Schedule, Push, UpdateInline, EndLoop, Wait, Sleeping
<1>2. CASE UnloadMaps
  BY <1>2, MapUpdaterAssumption DEF UnloadMaps
<1>3. CASE CreateMap \/ UnloadAll \/ SetToken \/ Cancel \/ Join
  BY <1>3 DEF CreateMap, UnloadAll, SetToken, Cancel, Join
<1>4. CASE \E w \in Workers : WaitAndPop(w) \/ CheckToken(w)
  BY <1>4 DEF WaitAndPop, CheckToken
<1>5. CASE \E w \in Workers : UpdateFinished(w)
  BY <1>5 DEF UpdateFinished
<1>6. CASE \E t \in Threads : EndUpdate(t) \/ SpuriousWakeup(t)
  BY <1>6 DEF EndUpdate, SpuriousWakeup
<1>7. CASE \E t \in Threads : Sail(t)
  <2>. PICK t \in Threads : Sail(t)
    BY <1>7
  <2>1. maps' = maps /\ pc[t] \in UpdateStages
    BY SailStep DEF IInv
  <2>2. PICK s \in UpdateStages : pc' = [pc EXCEPT ![t] = s]
    BY SailStep DEF IInv
  <2>3. (pc[World])' \in Closed <=> pc[World] \in Closed
    BY <2>1, <2>2 DEF UpdateStages
  <2>. QED
    BY <2>1, <2>3
<1>8. CASE UNCHANGED vars
  BY <1>8
<1>. QED
  BY <1>1, <1>2, <1>3, <1>4, <1>5, <1>6, <1>7, <1>8, StepCases

\* Steps that have nothing to do with transports.
Aside ==
    /\ UNCHANGED <<inbox, messages, transports, todo>>
    /\ \A t \in Threads : messages[t] # << >> => pc'[t] = pc[t] /\ job'[t] = job[t]
    /\ \A t \in Threads : todo[t] # {} => pc'[t] = pc[t] /\ job'[t] = job[t]

LEMMA AsideStep ==
    ASSUME IInv, PlaceInv, [Next]_vars
    PROVE  Aside \/ UnloadAll \/ \E t \in Threads : Sail(t)
<1>a. World \notin Workers /\ World \in Threads /\ Workers \subseteq Threads
  BY MapUpdaterAssumption DEF Threads
<1>b. pc \in [Threads -> WorkerStages \cup WorldStages] /\ job \in [Threads -> Maps \cup {NoMap}]
  BY DEF IInv, TypeOK
<1>c. \A t \in Threads : pc[t] \notin {"messages", "transports"} => messages[t] = << >> /\ todo[t] = {}
  BY DEF PlaceInv
<1>d. \A t \in Threads : pc[t] = "transports" => messages[t] = << >>
  BY DEF PlaceInv
<1>. USE <1>a, <1>b, <1>c, <1>d DEF Aside
<1>1. CASE StartTick \/ Schedule \/ UpdateInline \/ EndLoop \/ Wait \/ UnloadMaps
  BY <1>1 DEF StartTick, Schedule, UpdateInline, EndLoop, Wait, UnloadMaps
<1>2. CASE Push
  BY <1>2 DEF Push, Sleeping
<1>3. CASE CreateMap \/ SetToken \/ Cancel \/ Join
  BY <1>3 DEF CreateMap, SetToken, Cancel, Join, Sleeping
<1>4. CASE \E w \in Workers : WaitAndPop(w) \/ CheckToken(w)
  BY <1>4 DEF WaitAndPop, CheckToken
<1>5. CASE \E w \in Workers : UpdateFinished(w)
  BY <1>5 DEF UpdateFinished
<1>6. CASE \E t \in Threads : EndUpdate(t) \/ SpuriousWakeup(t)
  BY <1>6 DEF EndUpdate, SpuriousWakeup
<1>7. CASE UNCHANGED vars
  BY <1>7
<1>. QED
  BY <1>1, <1>2, <1>3, <1>4, <1>5, <1>6, <1>7, StepCases

\* Everything in PlaceInv but the places themselves.
StagePart ==
    /\ \A m \in Maps : transports[m] # {} \/ inbox[m] # << >> => m \in Continents
    /\ \A t \in Threads :
          /\ messages[t] # << >> => pc[t] = "messages" /\ job[t] \in Continents
          /\ todo[t] # {} => pc[t] = "transports" /\ todo[t] \subseteq transports[job[t]]

LEMMA ExecuteStages ==
    ASSUME IInv, PlaceInv, NEW t \in Threads, Execute(t)
    PROVE  StagePart'
<1>1. PICK m \in Maps : m = job[t]
  BY JobIsMap DEF Execute, UpdateStages
<1>2. \A u \in Threads : u # t => pc'[u] = pc[u]
  BY SailTypes DEF IInv, Execute
<1>3. pc[t] = "swap" /\ pc'[t] = "messages" /\ todo[t] = {}
  BY SailTypes DEF IInv, Execute, PlaceInv
<1>4. /\ messages'[t] = inbox[m] /\ \A u \in Threads \ {t} : messages'[u] = messages[u]
      /\ inbox'[m] = << >> /\ \A n \in Maps \ {m} : inbox'[n] = inbox[n]
  BY <1>1, SailTypes DEF IInv, Execute
<1>5. UNCHANGED <<job, transports, todo>>
  BY DEF Execute
<1>. QED
  BY <1>1, <1>2, <1>3, <1>4, <1>5 DEF PlaceInv, StagePart

LEMMA RunMessageStages ==
    ASSUME IInv, PlaceInv, NEW t \in Threads, RunMessage(t)
    PROVE  StagePart'
<1>1. PICK m \in Maps : m = job[t]
  BY JobIsMap DEF RunMessage, UpdateStages
<1>2. m \in Continents
  BY <1>1 DEF RunMessage, PlaceInv
<1>3. \A n \in Maps : transports[n] \subseteq transports'[n] /\ (n # m => transports'[n] = transports[n])
  BY <1>1, SailTypes DEF IInv, RunMessage
<1>4. UNCHANGED <<pc, job, todo, inbox>> /\ \A u \in Threads \ {t} : messages'[u] = messages[u]
  BY SailTypes DEF IInv, RunMessage
<1>5. \A u \in Threads : todo[u] # {} => job[u] \in Maps
  BY JobIsMap DEF PlaceInv, UpdateStages
<1>6. pc[t] = "messages"
  BY DEF RunMessage
<1>. QED
  BY <1>1, <1>2, <1>3, <1>4, <1>5, <1>6 DEF PlaceInv, StagePart

LEMMA EndMessagesStages ==
    ASSUME IInv, PlaceInv, NEW t \in Threads, EndMessages(t)
    PROVE  StagePart'
<1>1. /\ pc'[t] = "transports" /\ todo'[t] = transports[job[t]] /\ messages[t] = << >>
      /\ \A u \in Threads \ {t} : pc'[u] = pc[u] /\ todo'[u] = todo[u]
  BY SailTypes DEF IInv, EndMessages
<1>2. UNCHANGED <<job, inbox, messages, transports>>
  BY DEF EndMessages
<1>. QED
  BY <1>1, <1>2 DEF PlaceInv, StagePart

LEMMA UpdateTransportStages ==
    ASSUME IInv, PlaceInv, NEW t \in Threads, UpdateTransport(t)
    PROVE  StagePart'
<1>1. PICK m \in Maps : m = job[t]
  BY JobIsMap DEF UpdateTransport, UpdateStages
<1>2. pc[t] = "transports" /\ UNCHANGED <<pc, job, messages>>
  BY DEF UpdateTransport
<1>3. PICK s \in todo[t] :
         /\ todo' = [todo EXCEPT ![t] = @ \ {s}]
         /\ \/ UNCHANGED <<transports, inbox>>
            \/ \E to \in Continents \ {job[t]} : TeleportTransport(t, s, to)
  BY DEF UpdateTransport
<1>4. /\ todo'[t] = todo[t] \ {s} /\ \A u \in Threads \ {t} : todo'[u] = todo[u]
      /\ \A n \in Maps : transports'[n] = transports[n] \/ (n = m /\ transports'[n] = transports[n] \ {s})
  BY <1>1, <1>3, SailTypes DEF IInv, TeleportTransport
<1>5. \A n \in Maps : inbox'[n] = inbox[n] \/ n \in Continents
  BY <1>3, SailTypes DEF IInv, TeleportTransport
<1>6. \A u \in Threads : u # t /\ todo[u] # {} => job[u] \in Maps /\ job[u] # m
  BY <1>1, <1>2, JobIsMap, JobsDiffer DEF PlaceInv, UpdateStages
<1>7. todo'[t] # {} => todo'[t] \subseteq transports'[m]
  BY <1>1, <1>4 DEF PlaceInv
<1>8. ASSUME NEW u \in Threads \ {t}, todo'[u] # {}
      PROVE  pc[u] = "transports" /\ todo'[u] \subseteq transports'[job[u]]
  BY <1>4, <1>6, <1>8 DEF PlaceInv
<1>. QED
  BY <1>1, <1>2, <1>4, <1>5, <1>7, <1>8 DEF PlaceInv, StagePart

LEMMA UpdateTransportPlaces ==
    ASSUME IInv, PlaceInv, NEW t \in Threads, UpdateTransport(t), NEW tr, InOne(tr)
    PROVE  InOne(tr)'
<1>1. job[t] \in Maps /\ messages' = messages
  BY JobIsMap DEF UpdateTransport, UpdateStages
<1>2. PICK s \in todo[t] :
         \/ UNCHANGED <<transports, inbox>>
         \/ \E to \in Continents \ {job[t]} : TeleportTransport(t, s, to)
  BY DEF UpdateTransport
<1>3. s \in transports[job[t]] /\ s \in Transports
  BY SailTypes DEF IInv, PlaceInv
<1>4. CASE UNCHANGED <<transports, inbox>>
  BY <1>1, <1>4, SamePlaces
<1>5. CASE \E to \in Continents \ {job[t]} : TeleportTransport(t, s, to)
  <2>1. PICK to \in Maps : to # job[t] /\ TeleportTransport(t, s, to)
    BY <1>5 DEF Maps
  <2>. QED
    BY <1>1, <1>3, <2>1, TeleportPlaces
<1>. QED
  BY <1>2, <1>4, <1>5

LEMMA PlaceStep ==
    ASSUME IInv, PlaceInv, [Next]_vars
    PROVE  PlaceInv'
<1>1. MapPart' /\ (Sailing' => Sailing)
  BY MapPartStep
<1>2. PlaceInv <=> MapPart /\ StagePart /\ (Sailing => \A tr \in Transports : InOne(tr))
  BY DEF PlaceInv, MapPart, StagePart
<1>3. ASSUME StagePart', \A tr \in Transports : Sailing' /\ InOne(tr) => InOne(tr)'
      PROVE  PlaceInv'
  BY <1>1, <1>2, <1>3 DEF PlaceInv, MapPart, StagePart
<1>4. CASE Aside
  <2>1. StagePart'
    BY <1>2, <1>4 DEF Aside, StagePart
  <2>2. UNCHANGED <<inbox, messages, transports>>
    BY <1>4 DEF Aside
  <2>. QED
    BY <1>3, <2>1, <2>2, SamePlaces
<1>5. CASE UnloadAll
  <2>1. \A t \in Threads : messages[t] = << >> /\ todo[t] = {}
    <3>1. \A t \in Threads : pc[t] \notin UpdateStages
      BY <1>5, MapUpdaterAssumption, NobodyHasAny DEF UnloadAll, IInv, JobInv, CountInv, Alone, UpdateStages, Threads
    <3>. QED
      BY <3>1 DEF PlaceInv, UpdateStages
  <2>2. StagePart'
    BY <1>5, <2>1 DEF UnloadAll, StagePart
  <2>3. ~Sailing'
    BY <1>5, SailTypes, MapUpdaterAssumption DEF IInv, UnloadAll, Sailing, Closed, Threads
  <2>. QED
    BY <1>3, <2>2, <2>3
<1>6. CASE \E t \in Threads : Sail(t)
  <2>. PICK t \in Threads : Sail(t)
    BY <1>6
  <2>1. CASE Execute(t)
    BY <1>3, <2>1, ExecuteStages, ExecutePlaces
  <2>2. CASE RunMessage(t)
    BY <1>3, <2>2, RunMessageStages, RunMessagePlaces
  <2>3. CASE EndMessages(t)
    <3>1. UNCHANGED <<inbox, messages, transports>>
      BY <2>3 DEF EndMessages
    <3>. QED
      BY <1>3, <2>3, <3>1, EndMessagesStages, SamePlaces
  <2>4. CASE UpdateTransport(t)
    BY <1>3, <2>4, UpdateTransportStages, UpdateTransportPlaces
  <2>. QED
    BY <2>1, <2>2, <2>3, <2>4 DEF Sail
<1>. QED
  BY <1>4, <1>5, <1>6, AsideStep

-----------------------------------------------------------------------------
(* HopInv.                                                                 *)

LEMMA HopTypes ==
    ASSUME TypeOK
    PROVE  /\ now \in Nat /\ now + 1 # 0 /\ progress \in [Transports -> Nat] /\ hops \in [Transports -> Nat]
           /\ toVisit \subseteq Maps /\ job \in [Threads -> Maps \cup {NoMap}]
           /\ queue \in Seq(Maps) /\ Len(queue) \in Nat /\ World \in Threads /\ World \notin Workers
           /\ Workers \subseteq Threads /\ NoMap \notin Maps
BY MapUpdaterAssumption DEF TypeOK, Threads

\* A thread that updates a map is not out of the parallel phase.
LEMMA UpdateIsParallel ==
    ASSUME IInv, NEW t \in Threads, pc[t] \in UpdateStages
    PROVE  pc[World] \notin Alone
<1>. SUFFICES ASSUME pc[World] \in Alone PROVE FALSE
  OBVIOUS
<1>1. job[t] = NoMap
  BY NobodyHasAny DEF IInv, CountInv, Alone, UpdateStages
<1>. QED
  BY <1>1, JobIsMap

\* When the world thread is done waiting, no transport is due.
LEMMA NoneDue ==
    ASSUME IInv, PlaceInv, HopInv, pending = 0, toVisit = {}, pc[World] \in {"schedule", "wait"},
           NEW tr \in Transports
    PROVE  ~Due(tr)
<1>. SUFFICES ASSUME Due(tr) PROVE FALSE
  OBVIOUS
<1>1. queue = << >> /\ \A t \in Threads : job[t] = NoMap
  BY NobodyHasAny DEF IInv, UpdateStages
<1>2. \A m \in Maps : ~Ahead(m, ToRun) /\ ~Ahead(m, ToSwap)
  BY <1>1, HopTypes DEF IInv, Ahead
<1>3. WillAdvance
  BY DEF HopInv, Alone
<1>4. \A m \in Maps : tr \notin transports[m]
  BY <1>1, <1>2, <1>3, HopTypes DEF IInv, WillAdvance
<1>5. \A m \in Maps : \A i \in 1..Len(inbox[m]) : inbox[m][i] # tr
  BY <1>2, <1>3 DEF WillAdvance
<1>6. \A t \in Threads : messages[t] = << >>
  BY <1>1, JobIsMap DEF PlaceInv, UpdateStages
<1>7. InOne(tr)
  BY DEF PlaceInv, Sailing, Closed
<1>. QED
  BY <1>4, <1>5, <1>6, <1>7 DEF InOne, IsPlace

\* A map that an update will come to stays so until one does.
LEMMA AheadStep ==
    ASSUME IInv, [Next]_vars, ~StartTick, pc[World] \notin Alone, ~ \E t \in Threads : Sail(t),
           NEW m \in Maps, NEW S, S = ToRun \/ S = ToSwap, Ahead(m, S)
    PROVE  Ahead(m, S)'
<1>a. World \notin Workers /\ World \in Threads /\ Workers \subseteq Threads /\ NoMap \notin Maps
  BY MapUpdaterAssumption DEF Threads
<1>b. pc \in [Threads -> WorkerStages \cup WorldStages] /\ job \in [Threads -> Maps \cup {NoMap}]
      /\ queue \in Seq(Maps) /\ Len(queue) \in Nat
  BY HopTypes, SailTypes DEF IInv
<1>c. /\ "push" \in S /\ "check" \in S /\ "swap" \in S /\ "schedule" \notin S /\ "wait" \notin S
      /\ "pop" \notin S /\ "asleep" \notin S /\ "finish" \notin S /\ "transports" \notin S
  BY DEF ToRun, ToSwap
<1>. USE <1>a, <1>b, <1>c
<1>1. CASE Schedule
  BY <1>1 DEF Schedule, Ahead
<1>2. CASE Push
  <2>1. /\ queue' = Append(queue, job[World]) /\ toVisit' = toVisit
        /\ \A t \in Threads : pc[t] \in S /\ t # World => pc'[t] = pc[t] /\ job'[t] = job[t]
    BY <1>2 DEF Push, Sleeping
  <2>2. job[World] \in Maps
    BY <1>2 DEF Push, IInv, JobInv
  <2>3. /\ Len(queue') = Len(queue) + 1 /\ queue'[Len(queue) + 1] = job[World]
        /\ \A i \in 1..Len(queue) : queue'[i] = queue[i]
    BY <2>1, <2>2, AppendAt
  <2>4. CASE m \in toVisit
    BY <2>1, <2>4 DEF Ahead
  <2>5. CASE \E i \in 1..Len(queue) : queue[i] = m
    BY <2>3, <2>5 DEF Ahead
  <2>6. CASE \E t \in Threads : job[t] = m /\ pc[t] \in S
    <3>1. PICK t \in Threads : job[t] = m /\ pc[t] \in S
      BY <2>6
    <3>2. CASE t = World
      <4>1. Len(queue) + 1 \in 1..Len(queue') /\ queue'[Len(queue) + 1] = m
        BY <2>3, <3>1, <3>2
      <4>. QED
        BY <4>1 DEF Ahead
    <3>3. CASE t # World
      BY <2>1, <3>1, <3>3 DEF Ahead
    <3>. QED
      BY <3>2, <3>3
  <2>. QED
    BY <2>4, <2>5, <2>6 DEF Ahead
<1>3. CASE UpdateInline
  BY <1>3 DEF UpdateInline, Ahead
<1>4. CASE EndLoop \/ Wait
  BY <1>4 DEF EndLoop, Wait, Ahead
<1>5. CASE \E w \in Workers : WaitAndPop(w)
  <2>. PICK w \in Workers : WaitAndPop(w)
    BY <1>5
  <2>1. toVisit' = toVisit /\ \A t \in Threads \ {w} : pc'[t] = pc[t] /\ job'[t] = job[t]
    BY DEF WaitAndPop
  <2>2. pc[w] = "pop"
    BY DEF WaitAndPop
  <2>3. CASE queue' = queue
    BY <2>1, <2>2, <2>3 DEF Ahead
  <2>4. CASE queue' # queue
    <3>1. queue # << >> /\ queue' = Tail(queue) /\ job'[w] = Head(queue) /\ pc'[w] = "check"
      BY <2>4 DEF WaitAndPop
    <3>2. /\ Len(queue) \in Nat \ {0} /\ Len(queue') = Len(queue) - 1 /\ job'[w] = queue[1]
          /\ \A i \in 1..Len(queue) - 1 : queue'[i] = queue[i + 1]
      BY <3>1, TailAt
    <3>3. ASSUME NEW i \in 1..Len(queue), queue[i] = m PROVE Ahead(m, S)'
      <4>1. CASE i = 1
        BY <3>1, <3>2, <3>3, <4>1 DEF Ahead
      <4>2. CASE i # 1
        <5>1. i - 1 \in 1..Len(queue') /\ queue'[i - 1] = m
          BY <3>2, <3>3, <4>2
        <5>. QED
          BY <5>1 DEF Ahead
      <4>. QED
        BY <4>1, <4>2
    <3>. QED
      BY <2>1, <2>2, <3>3 DEF Ahead
  <2>. QED
    BY <2>3, <2>4
<1>6. CASE \E w \in Workers : CheckToken(w)
  <2>. PICK w \in Workers : CheckToken(w)
    BY <1>6
  <2>1. ~token
    BY DEF IInv, JobInv, Alone
  <2>2. UNCHANGED <<toVisit, queue, job>> /\ pc[w] = "check" /\ \A t \in Threads \ {w} : pc'[t] = pc[t]
    BY <2>1 DEF CheckToken
  <2>3. job[w] # NoMap => pc'[w] = "swap"
    BY <2>1 DEF CheckToken
  <2>. QED
    BY <2>2, <2>3 DEF Ahead
<1>7. CASE \E w \in Workers : UpdateFinished(w)
  BY <1>7 DEF UpdateFinished, Ahead
<1>8. CASE \E t \in Threads : EndUpdate(t) \/ SpuriousWakeup(t)
  BY <1>8 DEF EndUpdate, SpuriousWakeup, Ahead
<1>9. CASE UNCHANGED vars
  BY <1>9 DEF Ahead
<1>10. ~UnloadMaps /\ ~CreateMap /\ ~UnloadAll /\ ~SetToken /\ ~Cancel /\ ~Join
  <2>1. ~UnloadMaps /\ ~CreateMap /\ ~UnloadAll
    BY DEF Alone, UnloadMaps, CreateMap, UnloadAll
  <2>2. ~SetToken /\ ~Cancel /\ ~Join
    BY DEF Alone, SetToken, Cancel, Join
  <2>. QED
    BY <2>1, <2>2
<1>. QED
  BY <1>1, <1>2, <1>3, <1>4, <1>5, <1>6, <1>7, <1>8, <1>9, <1>10, StepCases

\* The parallel phase is left, and transports are advanced, by few steps.
LEMMA TickWindow ==
    ASSUME IInv, [Next]_vars
    PROVE  /\ ~StartTick => now' = now
           /\ ~StartTick /\ pc'[World] \notin Alone => pc[World] \notin Alone
           /\ pc'[World] = "unload" =>
                 \/ pc[World] = "unload"
                 \/ pc[World] \in {"schedule", "wait"} /\ toVisit = {} /\ pending = 0
           /\ ~StartTick /\ pc[World] \in {"serial"} \cup Closed => pc'[World] \in {"serial"} \cup Closed
           /\ ~(\E t \in Threads : Sail(t)) /\ ~StartTick => UNCHANGED <<progress, hops>>
<1>a. World \notin Workers /\ World \in Threads /\ Workers \subseteq Threads
  BY MapUpdaterAssumption DEF Threads
<1>b. pc \in [Threads -> WorkerStages \cup WorldStages]
  BY SailTypes DEF IInv
<1>c. ~activated => pending = 0
  BY DEF IInv, CountInv
<1>d. pc[World] = "wait" => toVisit = {}
  BY DEF IInv, CoverInv, UpdateStages
<1>. USE <1>a, <1>b, <1>c, <1>d DEF Alone, Closed
<1>1. CASE StartTick
  BY <1>1 DEF StartTick
<1>2. CASE Schedule \/ Push \/ UpdateInline
  BY <1>2 DEF Schedule, Push, UpdateInline, Sleeping
<1>3. CASE EndLoop
  BY <1>3 DEF EndLoop
<1>4. CASE Wait
  <2>1. pending > 0 \/ pending = 0
    BY DEF IInv, TypeOK
  <2>. QED
    BY <1>4, <2>1 DEF Wait
<1>5. CASE UnloadMaps \/ CreateMap \/ UnloadAll
  BY <1>5 DEF UnloadMaps, CreateMap, UnloadAll
<1>6. CASE SetToken \/ Cancel \/ Join
  BY <1>6 DEF SetToken, Cancel, Join
<1>7. CASE \E w \in Workers : WaitAndPop(w) \/ CheckToken(w)
  BY <1>7 DEF WaitAndPop, CheckToken
<1>8. CASE \E w \in Workers : UpdateFinished(w)
  BY <1>8 DEF UpdateFinished
<1>9. CASE \E t \in Threads : EndUpdate(t) \/ SpuriousWakeup(t)
  BY <1>9 DEF EndUpdate, SpuriousWakeup
<1>10. CASE \E t \in Threads : Sail(t)
  <2>. PICK t \in Threads : Sail(t)
    BY <1>10
  <2>1. now' = now /\ pc[t] \in UpdateStages
    BY SailStep DEF IInv
  <2>2. PICK s \in UpdateStages : pc' = [pc EXCEPT ![t] = s]
    BY SailStep DEF IInv
  <2>3. t # World => pc'[World] = pc[World]
    BY <2>2
  <2>4. t = World => pc[World] \in UpdateStages /\ pc'[World] \in UpdateStages
    BY <2>1, <2>2
  <2>. QED
    BY <1>10, <2>1, <2>3, <2>4 DEF UpdateStages
<1>11. CASE UNCHANGED vars
  BY <1>11
<1>. QED
  BY <1>1, <1>2, <1>3, <1>4, <1>5, <1>6, <1>7, <1>8, <1>9, <1>10, <1>11, StepCases

\* A new tick: every transport that cannot be stopped is due, on a map that is to be updated.
LEMMA StartTickHop ==
    ASSUME IInv, PlaceInv, HopInv, StartTick
    PROVE  HopInv'
<1>1. /\ now' = now + 1 /\ toVisit' = maps /\ hops' = [tr \in Transports |-> 0]
      /\ pc' = [pc EXCEPT ![World] = "schedule"] /\ UNCHANGED <<inbox, transports, progress>>
      /\ pc[World] = "serial"
  BY DEF StartTick
<1>2. pc'[World] = "schedule" /\ now' # 0
  BY <1>1, HopTypes, SailTypes DEF IInv
<1>3. \A tr \in Transports \ Stoppable : progress'[tr] \in 0..now' /\ Due(tr)' /\ hops'[tr] = 0
  BY <1>1, HopTypes DEF IInv, HopInv, HopCount, Due
<1>4. HopCount'
  BY <1>2, <1>3 DEF HopCount
<1>5. \A m \in Continents : Ahead(m, ToRun)' /\ Ahead(m, ToSwap)'
  BY <1>1 DEF Ahead, PlaceInv, Sailing, Closed
<1>6. WillAdvance'
  <2>1. \A m \in Maps : transports'[m] # {} => m \in Continents
    BY <1>1 DEF PlaceInv
  <2>2. \A m \in Maps : \A i \in 1..Len(inbox'[m]) : m \in Continents
    BY <1>1, SailTypes DEF PlaceInv, IInv
  <2>. QED
    BY <1>5, <2>1, <2>2 DEF WillAdvance
<1>. QED
  BY <1>2, <1>4, <1>6 DEF HopInv

\* Steps that do not concern transports.
LEMMA QuietHop ==
    ASSUME IInv, PlaceInv, HopInv, [Next]_vars, ~StartTick, ~ \E t \in Threads : Sail(t)
    PROVE  HopInv'
<1>1. now' = now /\ UNCHANGED <<progress, hops>>
  BY TickWindow
<1>2. HopCount'
  BY <1>1 DEF HopInv, HopCount, Due
<1>3. ASSUME pc'[World] \notin Alone PROVE WillAdvance'
  <2>1. pc[World] \notin Alone
    BY <1>3, TickWindow
  <2>2. WillAdvance
    BY <2>1 DEF HopInv
  <2>3. Aside
    <3>1. ~UnloadAll
      BY <2>1 DEF UnloadAll, Alone
    <3>. QED
      BY <3>1, AsideStep
  <2>4. /\ \A m \in Maps : Ahead(m, ToRun) => Ahead(m, ToRun)'
        /\ \A m \in Maps : Ahead(m, ToSwap) => Ahead(m, ToSwap)'
    <3>1. ASSUME NEW m \in Maps, Ahead(m, ToRun) PROVE Ahead(m, ToRun)'
      BY <2>1, <3>1, AheadStep
    <3>2. ASSUME NEW m \in Maps, Ahead(m, ToSwap) PROVE Ahead(m, ToSwap)'
      BY <2>1, <3>2, AheadStep
    <3>. QED
      BY <3>1, <3>2
  <2>5. \A tr \in Transports : Due(tr)' => Due(tr)
    BY <1>1 DEF Due
  <2>6. /\ UNCHANGED <<inbox, transports, todo>>
        /\ \A t \in Threads : todo[t] # {} => job'[t] = job[t]
    BY <2>3 DEF Aside
  <2>. QED
    BY <2>2, <2>4, <2>5, <2>6 DEF WillAdvance
<1>4. ASSUME pc'[World] = "unload", NEW tr \in Transports PROVE ~Due(tr)'
  <2>1. ~Due(tr)
    BY <1>4, TickWindow, NoneDue DEF HopInv
  <2>. QED
    BY <1>1, <2>1 DEF Due
<1>5. now' = 0 => pc'[World] \in {"serial"} \cup Closed
  BY <1>1, TickWindow DEF HopInv
<1>. QED
  BY <1>2, <1>3, <1>4, <1>5 DEF HopInv

LEMMA ExecuteAdvance ==
    ASSUME IInv, PlaceInv, WillAdvance, NEW t \in Threads, Execute(t)
    PROVE  WillAdvance'
<1>1. PICK m \in Maps : m = job[t]
  BY JobIsMap DEF Execute, UpdateStages
<1>2. /\ pc[t] = "swap" /\ pc'[t] = "messages" /\ \A u \in Threads : u # t => pc'[u] = pc[u]
      /\ inbox'[m] = << >> /\ \A n \in Maps \ {m} : inbox'[n] = inbox[n]
  BY <1>1, SailTypes DEF IInv, Execute
<1>3. UNCHANGED <<now, toVisit, queue, job, transports, todo, progress>>
  BY DEF Execute
<1>4. \A n \in Maps : Ahead(n, ToRun) => Ahead(n, ToRun)'
  BY <1>2, <1>3 DEF Ahead, ToRun, ToSwap
<1>5. \A n \in Maps \ {m} : Ahead(n, ToSwap) => Ahead(n, ToSwap)'
  BY <1>1, <1>2, <1>3 DEF Ahead, ToSwap
<1>6. \A tr \in Transports : Due(tr)' = Due(tr)
  BY <1>3 DEF Due
<1>7. ASSUME NEW tr \in Transports, Due(tr)
      PROVE  /\ \A n \in Maps : tr \in transports'[n] =>
                   Ahead(n, ToRun)' \/ \E u \in Threads : job'[u] = n /\ tr \in todo'[u]
             /\ \A n \in Maps : \A i \in 1..Len(inbox'[n]) : inbox'[n][i] = tr => Ahead(n, ToSwap)'
  BY <1>2, <1>3, <1>4, <1>5, <1>7 DEF WillAdvance
<1>. QED
  BY <1>6, <1>7 DEF WillAdvance

LEMMA RunMessageAdvance ==
    ASSUME IInv, WillAdvance, NEW t \in Threads, RunMessage(t)
    PROVE  WillAdvance'
<1>1. PICK m \in Maps : m = job[t]
  BY JobIsMap DEF RunMessage, UpdateStages
<1>2. \A n \in Maps : n # m => transports'[n] = transports[n]
  BY <1>1, SailTypes DEF IInv, RunMessage
<1>3. UNCHANGED <<now, pc, toVisit, queue, job, inbox, todo, progress>> /\ pc[t] = "messages"
  BY DEF RunMessage
<1>4. \A n \in Maps : (Ahead(n, ToRun)' <=> Ahead(n, ToRun)) /\ (Ahead(n, ToSwap)' <=> Ahead(n, ToSwap))
  BY <1>3 DEF Ahead
<1>5. Ahead(m, ToRun)
  BY <1>1, <1>3 DEF Ahead, ToRun
<1>6. \A tr \in Transports : Due(tr)' = Due(tr)
  BY <1>3 DEF Due
<1>7. ASSUME NEW tr \in Transports, Due(tr)
      PROVE  /\ \A n \in Maps : tr \in transports'[n] =>
                   Ahead(n, ToRun)' \/ \E u \in Threads : job'[u] = n /\ tr \in todo'[u]
             /\ \A n \in Maps : \A i \in 1..Len(inbox'[n]) : inbox'[n][i] = tr => Ahead(n, ToSwap)'
  BY <1>2, <1>3, <1>4, <1>5, <1>7 DEF WillAdvance
<1>. QED
  BY <1>6, <1>7 DEF WillAdvance

LEMMA EndMessagesAdvance ==
    ASSUME IInv, PlaceInv, WillAdvance, NEW t \in Threads, EndMessages(t)
    PROVE  WillAdvance'
<1>1. PICK m \in Maps : m = job[t]
  BY JobIsMap DEF EndMessages, UpdateStages
<1>2. /\ pc[t] = "messages" /\ \A u \in Threads : u # t => pc'[u] = pc[u] /\ todo'[u] = todo[u]
      /\ todo'[t] = transports[m] /\ todo[t] = {}
  BY <1>1, SailTypes DEF IInv, EndMessages, PlaceInv
<1>3. UNCHANGED <<now, toVisit, queue, job, transports, inbox, progress>>
  BY DEF EndMessages
<1>4. \A n \in Maps \ {m} : Ahead(n, ToRun) => Ahead(n, ToRun)'
  BY <1>1, <1>2, <1>3 DEF Ahead
<1>5. \A n \in Maps : Ahead(n, ToSwap) => Ahead(n, ToSwap)'
  BY <1>2, <1>3 DEF Ahead, ToSwap
<1>6. \A tr \in Transports : Due(tr)' = Due(tr)
  BY <1>3 DEF Due
<1>7. ASSUME NEW tr \in Transports, Due(tr)
      PROVE  /\ \A n \in Maps : tr \in transports'[n] =>
                   Ahead(n, ToRun)' \/ \E u \in Threads : job'[u] = n /\ tr \in todo'[u]
             /\ \A n \in Maps : \A i \in 1..Len(inbox'[n]) : inbox'[n][i] = tr => Ahead(n, ToSwap)'
  BY <1>1, <1>2, <1>3, <1>4, <1>5, <1>7 DEF WillAdvance
<1>. QED
  BY <1>6, <1>7 DEF WillAdvance

\* What Transport::Update does to the transport it advances, and to it alone.
LEMMA Turn ==
    ASSUME IInv, HopInv, NEW t \in Threads, UpdateTransport(t)
    PROVE  \E s \in Transports :
              /\ todo' = [todo EXCEPT ![t] = @ \ {s}] /\ ~Due(s)'
              /\ \A tr \in Transports \ {s} : progress'[tr] = progress[tr] /\ hops'[tr] = hops[tr]
              /\ s \notin Stoppable => progress'[s] \in 0..now /\ hops'[s] = 1
              /\ \/ UNCHANGED <<transports, inbox>>
                 \/ \E to \in Continents \ {job[t]} : TeleportTransport(t, s, to)
<1>1. PICK s \in todo[t] :
         /\ todo' = [todo EXCEPT ![t] = @ \ {s}]
         /\ \/ /\ s \in Stoppable \/ progress[s] >= now
               /\ UNCHANGED <<progress, hops, transports, inbox>>
            \/ /\ s \in Stoppable \/ progress[s] < now
               /\ Advance(s)
               /\ \/ UNCHANGED <<transports, inbox>>
                  \/ \E to \in Continents \ {job[t]} : TeleportTransport(t, s, to)
  BY DEF UpdateTransport
<1>2. now # 0 /\ now' = now
  <2>1. pc[t] \in UpdateStages /\ now' = now
    BY DEF UpdateTransport, UpdateStages
  <2>2. pc[World] \notin Alone
    BY <2>1, UpdateIsParallel
  <2>. QED
    BY <2>1, <2>2 DEF HopInv, Alone, Closed
<1>3. s \in Transports
  BY SailTypes DEF IInv
<1>4. s \notin Stoppable => progress[s] \in 0..now /\ hops[s] = IF Due(s) THEN 0 ELSE 1
  BY <1>2, <1>3 DEF HopInv, HopCount
<1>5. CASE UNCHANGED <<progress, hops, transports, inbox>> /\ (s \in Stoppable \/ progress[s] >= now)
  <2>1. ~Due(s)
    BY <1>3, <1>5, HopTypes DEF IInv, Due
  <2>2. ~Due(s)' /\ progress' = progress /\ hops' = hops /\ UNCHANGED <<transports, inbox>>
    BY <1>2, <1>5, <2>1 DEF Due
  <2>3. s \notin Stoppable => progress'[s] \in 0..now /\ hops'[s] = 1
    BY <1>4, <2>1, <2>2
  <2>. QED
    BY <1>1, <1>3, <2>2, <2>3
<1>6. CASE Advance(s) /\ (s \in Stoppable \/ progress[s] < now)
  <2>1. s \notin Stoppable => progress'[s] = now /\ hops'[s] = 1
    BY <1>3, <1>4, <1>6, HopTypes DEF IInv, Advance, Due
  <2>2. \A tr \in Transports \ {s} : progress'[tr] = progress[tr] /\ hops'[tr] = hops[tr]
    BY <1>3, <1>6, HopTypes DEF IInv, Advance
  <2>3. ~Due(s)'
    BY <1>2, <2>1, HopTypes DEF IInv, Due
  <2>4. \/ UNCHANGED <<transports, inbox>>
        \/ \E to \in Continents \ {job[t]} : TeleportTransport(t, s, to)
    BY <1>1, <1>6
  <2>5. s \notin Stoppable => progress'[s] \in 0..now /\ hops'[s] = 1
    BY <2>1, HopTypes DEF IInv
  <2>. QED
    BY <1>1, <1>3, <2>2, <2>3, <2>4, <2>5
<1>. QED
  BY <1>1, <1>5, <1>6

LEMMA UpdateTransportHop ==
    ASSUME IInv, HopInv, WillAdvance, NEW t \in Threads, UpdateTransport(t)
    PROVE  HopCount' /\ WillAdvance'
<1>1. PICK s \in Transports :
         /\ todo' = [todo EXCEPT ![t] = @ \ {s}] /\ ~Due(s)'
         /\ \A tr \in Transports \ {s} : progress'[tr] = progress[tr] /\ hops'[tr] = hops[tr]
         /\ s \notin Stoppable => progress'[s] \in 0..now /\ hops'[s] = 1
         /\ \/ UNCHANGED <<transports, inbox>>
            \/ \E to \in Continents \ {job[t]} : TeleportTransport(t, s, to)
  BY Turn
<1>2. UNCHANGED <<now, pc, toVisit, queue, job>>
  BY DEF UpdateTransport
<1>3. \A tr \in Transports \ {s} : Due(tr)' = Due(tr)
  BY <1>1, <1>2 DEF Due
<1>4. HopCount'
  <2>1. now # 0
    BY UpdateIsParallel DEF UpdateTransport, UpdateStages, HopInv, Alone, Closed
  <2>. QED
    BY <1>1, <1>2, <1>3, <2>1 DEF HopInv, HopCount
<1>5. \A u \in Threads : \A tr \in Transports \ {s} : tr \in todo[u] => tr \in todo'[u]
  BY <1>1, SailTypes DEF IInv
<1>6. \A m \in Maps : \A tr \in Transports \ {s} : tr \in transports'[m] => tr \in transports[m]
  <2>1. CASE transports' = transports
    BY <2>1
  <2>2. CASE transports' = [transports EXCEPT ![job[t]] = @ \ {s}]
    BY <2>2, SailTypes DEF IInv
  <2>. QED
    BY <1>1, <2>1, <2>2 DEF TeleportTransport
<1>7. \A m \in Maps : \A tr \in Transports \ {s} : \A i \in 1..Len(inbox'[m]) :
         inbox'[m][i] = tr => i \in 1..Len(inbox[m]) /\ inbox[m][i] = tr
  <2>1. CASE inbox' = inbox
    BY <2>1
  <2>2. CASE \E to \in Continents \ {job[t]} : TeleportTransport(t, s, to)
    <3>1. PICK to \in Maps : inbox' = [inbox EXCEPT ![to] = Append(@, s)]
      BY <2>2 DEF TeleportTransport, Maps
    <3>2. PICK q \in Seq(Transports) : q = inbox[to] /\ Len(q) \in Nat
      BY SailTypes DEF IInv
    <3>3. inbox'[to] = Append(q, s) /\ \A n \in Maps \ {to} : inbox'[n] = inbox[n]
      BY <3>1, <3>2, SailTypes DEF IInv
    <3>4. /\ Len(Append(q, s)) = Len(q) + 1
          /\ \A i \in 1..Len(q) + 1 : Append(q, s)[i] = IF i = Len(q) + 1 THEN s ELSE q[i]
      BY AppendAt
    <3>. QED
      BY <3>2, <3>3, <3>4
  <2>. QED
    BY <1>1, <2>1, <2>2
<1>8. \A m \in Maps : (Ahead(m, ToRun)' <=> Ahead(m, ToRun)) /\ (Ahead(m, ToSwap)' <=> Ahead(m, ToSwap))
  BY <1>2 DEF Ahead
<1>9. ASSUME NEW tr \in Transports \ {s}, Due(tr)
      PROVE  /\ \A n \in Maps : tr \in transports'[n] =>
                   Ahead(n, ToRun)' \/ \E u \in Threads : job'[u] = n /\ tr \in todo'[u]
             /\ \A n \in Maps : \A i \in 1..Len(inbox'[n]) : inbox'[n][i] = tr => Ahead(n, ToSwap)'
  <2>1. ASSUME NEW n \in Maps, tr \in transports'[n]
        PROVE  Ahead(n, ToRun)' \/ \E u \in Threads : job'[u] = n /\ tr \in todo'[u]
    BY <1>2, <1>5, <1>6, <1>8, <1>9, <2>1 DEF WillAdvance
  <2>2. ASSUME NEW n \in Maps, NEW i \in 1..Len(inbox'[n]), inbox'[n][i] = tr
        PROVE  Ahead(n, ToSwap)'
    BY <1>7, <1>8, <1>9, <2>2 DEF WillAdvance
  <2>. QED
    BY <2>1, <2>2
<1>. QED
  BY <1>1, <1>3, <1>4, <1>9 DEF WillAdvance

LEMMA SailHop ==
    ASSUME IInv, PlaceInv, HopInv, [Next]_vars, NEW t \in Threads, Sail(t)
    PROVE  HopInv'
<1>1. pc[t] \in UpdateStages /\ now' = now
  BY SailStep DEF IInv
<1>2. pc[World] \notin Alone
  BY <1>1, UpdateIsParallel
<1>3. WillAdvance /\ HopCount /\ now # 0
  BY <1>2 DEF HopInv, Alone, Closed
<1>4. pc'[World] \notin Alone
  <2>1. pc \in [Threads -> WorkerStages \cup WorldStages] /\ World \in Threads
    BY SailTypes, HopTypes DEF IInv
  <2>2. PICK s \in UpdateStages : pc' = [pc EXCEPT ![t] = s]
    BY SailStep DEF IInv
  <2>. QED
    BY <1>2, <2>1, <2>2 DEF Alone, UpdateStages
<1>5. HopCount' /\ WillAdvance'
  <2>1. ~UpdateTransport(t) => HopCount'
    BY <1>3 DEF Sail, Execute, RunMessage, EndMessages, HopCount, Due
  <2>. QED
    BY <1>3, <2>1, ExecuteAdvance, RunMessageAdvance, EndMessagesAdvance, UpdateTransportHop DEF Sail
<1>. QED
  BY <1>1, <1>3, <1>4, <1>5 DEF HopInv, Alone

LEMMA HopStep ==
    ASSUME IInv, PlaceInv, HopInv, [Next]_vars
    PROVE  HopInv'
BY StartTickHop, QuietHop, SailHop

-----------------------------------------------------------------------------
SailInv == IInv /\ PlaceInv /\ HopInv

LEMMA SailInit ==
    ASSUME Init
    PROVE  SailInv
<1>1. IInv
  BY InitInv
<1>2. PICK home \in [Transports -> Continents] :
         transports = [m \in Maps |-> {tr \in Transports : home[tr] = m}]
  BY DEF Init
<1>3. /\ inbox = [m \in Maps |-> << >>] /\ messages = [t \in Threads |-> << >>]
      /\ maps = Continents /\ now = 0 /\ pc[World] = "serial" /\ todo = [t \in Threads |-> {}]
      /\ progress = [tr \in Transports |-> 0] /\ hops = [tr \in Transports |-> 0]
  BY DEF Init, Threads
<1>4. Continents \subseteq Maps /\ Len(<< >>) = 0
  BY DEF Maps
<1>5. ASSUME NEW tr \in Transports PROVE InOne(tr)
  <2>1. home[tr] \in Continents /\ \A m \in Maps : tr \in transports[m] <=> m = home[tr]
    BY <1>2
  <2>2. IsPlace(tr, OnMap(home[tr]))
    BY <1>4, <2>1 DEF IsPlace
  <2>3. ASSUME NEW y, IsPlace(tr, y) PROVE y = OnMap(home[tr])
    BY <1>3, <1>4, <2>1, <2>3 DEF IsPlace
  <2>. QED
    BY <2>2, <2>3 DEF InOne
<1>6. PlaceInv
  BY <1>2, <1>3, <1>5 DEF PlaceInv, Sailing, Closed
<1>7. HopInv
  BY <1>3 DEF HopInv, HopCount, Due, Alone
<1>. QED
  BY <1>1, <1>6, <1>7 DEF SailInv

LEMMA SailInvStep ==
    ASSUME SailInv, [Next]_vars
    PROVE  SailInv'
BY InvStep, PlaceStep, HopStep DEF SailInv

THEOREM SailInvariance == Spec => []SailInv
BY SailInit, SailInvStep, PTL DEF Spec

\* Places lists the places of a transport.
LEMMA PlacesAre ==
    ASSUME NEW tr, NEW x
    PROVE  x \in Places(tr) <=> IsPlace(tr, x)
<1>. DEFINE I(m) == {Inbox(m, i) : i \in {i \in 1..Len(inbox[m]) : inbox[m][i] = tr}}
            S(t) == {Swapped(t, i) : i \in {i \in 1..Len(messages[t]) : messages[t][i] = tr}}
<1>1. Places(tr) = {OnMap(m) : m \in {m \in Maps : tr \in transports[m]}}
                   \cup (UNION {I(m) : m \in Maps}) \cup (UNION {S(t) : t \in Threads})
  BY DEF Places, OnMap, Inbox, Swapped
<1>2. x \in {OnMap(m) : m \in {m \in Maps : tr \in transports[m]}}
      <=> \E m \in Maps : x = OnMap(m) /\ tr \in transports[m]
  OBVIOUS
<1>3. \A m : x \in I(m) <=> \E i \in 1..Len(inbox[m]) : x = Inbox(m, i) /\ inbox[m][i] = tr
  OBVIOUS
<1>4. \A t : x \in S(t) <=> \E i \in 1..Len(messages[t]) : x = Swapped(t, i) /\ messages[t][i] = tr
  OBVIOUS
<1>5. /\ x \in UNION {I(m) : m \in Maps} <=> \E m \in Maps : x \in I(m)
      /\ x \in UNION {S(t) : t \in Threads} <=> \E t \in Threads : x \in S(t)
  <2>. HIDE DEF I, S
  <2>1. x \in UNION {I(m) : m \in Maps} <=> \E m \in Maps : x \in I(m)
    BY Zenon
  <2>2. x \in UNION {S(t) : t \in Threads} <=> \E t \in Threads : x \in S(t)
    BY Zenon
  <2>. QED
    BY <2>1, <2>2
<1>6. x \in Places(tr) <=> \/ x \in {OnMap(m) : m \in {m \in Maps : tr \in transports[m]}}
                           \/ x \in UNION {I(m) : m \in Maps}
                           \/ x \in UNION {S(t) : t \in Threads}
  <2>. HIDE DEF I, S
  <2>. QED
    BY <1>1
<1>. HIDE DEF I, S
<1>. QED
  BY <1>2, <1>3, <1>4, <1>5, <1>6 DEF IsPlace

(* A transport is never on two maps, in two messages or in a message and   *)
(* on a map, where two threads would update it, and is never lost: however *)
(* many maps are updated at a time, and in whatever order.                 *)
THEOREM TransportsInOnePlace == Spec => []OnePlace
<1>1. SailInv => OnePlace
  <2>. SUFFICES ASSUME SailInv, maps # {}, NEW tr \in Transports
                PROVE  Cardinality(Places(tr)) = 1
    BY DEF OnePlace
  <2>1. InOne(tr)
    BY DEF SailInv, PlaceInv
  <2>2. PICK x : IsPlace(tr, x) /\ \A y : IsPlace(tr, y) => y = x
    BY <2>1 DEF InOne
  <2>3. Places(tr) = {x}
    BY <2>2, PlacesAre
  <2>. QED
    BY <2>3, FS_Singleton
<1>. QED
  BY <1>1, SailInvariance, PTL

(* Each transport that cannot be stopped is advanced at most once in a     *)
(* tick, though a map it arrives on may be updated later in the same tick, *)
(* and exactly once by the end of it, though the map it leaves may have    *)
(* been updated before.  Those that can be stopped are among the transports *)
(* of the specification, and share its maps, messages and lists.           *)
THEOREM AdvancedOnceATick == Spec => []OnceATick
<1>1. SailInv => OnceATick
  <2>. SUFFICES ASSUME SailInv, NEW tr \in Transports \ Stoppable
                PROVE  hops[tr] <= 1 /\ (pc[World] = "unload" => hops[tr] = 1)
    BY DEF OnceATick
  <2>1. hops[tr] = IF now = 0 \/ Due(tr) THEN 0 ELSE 1
    BY DEF SailInv, HopInv, HopCount
  <2>2. pc[World] = "unload" => now # 0 /\ ~Due(tr)
    BY DEF SailInv, HopInv, Closed
  <2>. QED
    BY <2>1, <2>2
<1>. QED
  BY <1>1, SailInvariance, PTL
=============================================================================
