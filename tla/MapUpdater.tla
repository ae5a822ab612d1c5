----------------------------- MODULE MapUpdater -----------------------------
(***************************************************************************)
(* The parallel part of World::Update (src/src/game/Maps): MapManager      *)
(* hands one request per loaded map to the worker threads of MapUpdater    *)
(* through a ProducerConsumerQueue and waits for all of them; between two  *)
(* such phases the world thread is alone with the maps.  Threads talk to a *)
(* map through its Messager; the transports, which sail from one map to    *)
(* another in the middle of a phase, are the traffic modelled.             *)
(*                                                                         *)
(* MapUpdater::_lock is held exactly while pc[World] = "push", between the *)
(* two halves of schedule_update; every other critical section is a step.  *)
(***************************************************************************)
EXTENDS Naturals, Sequences, FiniteSets

CONSTANTS
    Workers,     \* threads of MapUpdater; they are not started with NUM_MAP_THREADS = 0
    World,       \* the thread that runs World::Update
    Continents,  \* maps CreateContinents loads, never unloaded
    Instances,   \* maps loaded and unloaded as players come and go
    Transports,  \* the transports that cross continents
    Stoppable,   \* those with moTransport.canBeStopped
    NoMap,       \* the null request
    MaxTicks     \* bound: ticks of the world

Maps    == Continents \cup Instances
Threads == Workers \cup {World}

ASSUME MapUpdaterAssumption ==
    /\ IsFiniteSet(Workers) /\ World \notin Workers
    /\ IsFiniteSet(Continents) /\ IsFiniteSet(Instances)
    /\ Continents \cap Instances = {} /\ NoMap \notin Maps
    /\ Stoppable \subseteq Transports
    /\ MaxTicks \in Nat

VARIABLES
    now,        \* World::m_currentMSTime: ticks begun
    maps,       \* keys of MapManager::i_maps
    pc,         \* where each thread is
    toVisit,    \* what the loop over i_maps has not reached
    job,        \* the request of each thread: its map
    activated,  \* MapUpdater::activated(): NUM_MAP_THREADS is not 0
    queue,      \* ProducerConsumerQueue::m_queue
    pending,    \* MapUpdater::pending_requests
    token,      \* MapUpdater::_cancelationToken
    shutdown,   \* ProducerConsumerQueue::m_shutdown
    finished,   \* history: maps updated in this tick
    inbox,      \* Messager::m_messageVector of each map: transports to add
    messages,   \* the messages a thread has swapped out and not yet run
    transports, \* Map::m_transports
    todo,       \* what the loop of Map::Update over them has not reached
    progress,   \* Transport::m_pathProgress: the ticks it has sailed
    hops        \* history: times a transport was advanced in this tick

poolVars  == <<job, queue, pending>>
stopVars  == <<activated, token, shutdown>>
sailVars  == <<inbox, messages, transports, todo, progress, hops>>
vars == <<now, maps, pc, toVisit, poolVars, stopVars, finished, sailVars>>

(* Where a thread is.  "pop" .. "check" are WorkerThread, "swap" to        *)
(* "transports" Map::Update, "finish" update_finished; the others are the  *)
(* world thread's: MapManager::Update, MapUpdater::wait and deactivate.    *)
UpdateStages == {"swap", "messages", "transports"}
WorkerStages == UpdateStages \cup {"pop", "asleep", "check", "finish", "exit", "crash"}
WorldStages  == UpdateStages \cup {"serial", "schedule", "push", "wait", "asleep",
                                   "unload", "token", "cancel", "join", "stopped"}

Init ==
    /\ now = 0 /\ maps = Continents
    /\ activated \in BOOLEAN /\ (activated => Workers # {})
    /\ pc = [t \in Threads |-> IF t = World THEN "serial" ELSE IF activated THEN "pop" ELSE "exit"]
    /\ toVisit = {} /\ job = [t \in Threads |-> NoMap]
    /\ queue = <<>> /\ pending = 0
    /\ token = FALSE /\ shutdown = FALSE /\ finished = {}
    /\ inbox = [m \in Maps |-> <<>>] /\ messages = [t \in Threads |-> <<>>]
    /\ \E home \in [Transports -> Continents] :
           transports = [m \in Maps |-> {tr \in Transports : home[tr] = m}]
    /\ todo = [t \in Threads |-> {}]
    /\ progress = [tr \in Transports |-> 0] /\ hops = [tr \in Transports |-> 0]

Goto(t, stage) == pc' = [pc EXCEPT ![t] = stage]
Sleeping  == {w \in Workers : pc[w] = "asleep"}

-----------------------------------------------------------------------------
(* The world thread.                                                       *)

\* A tick in which the timer of MapManager has passed.
StartTick ==
    /\ pc[World] = "serial" /\ now < MaxTicks
    /\ now' = now + 1 /\ toVisit' = maps
    /\ finished' = {} /\ hops' = [tr \in Transports |-> 0]
    /\ Goto(World, "schedule")
    /\ UNCHANGED <<maps, poolVars, stopVars, inbox, messages, transports, todo, progress>>

\* Mutant of Schedule: the request is not counted.
ScheduleMutant ==
    /\ pc[World] = "schedule" /\ activated
    /\ \E m \in toVisit :
           /\ toVisit' = toVisit \ {m}
           /\ job' = [job EXCEPT ![World] = m]
    /\ Goto(World, "push")
    /\ UNCHANGED <<now, maps, queue, pending, stopVars, finished, sailVars>>

\* schedule_update takes _lock and counts the request ...
Schedule ==
    /\ pc[World] = "schedule" /\ activated
    /\ \E m \in toVisit :
           /\ toVisit' = toVisit \ {m}
           /\ job' = [job EXCEPT ![World] = m]
    /\ pending' = pending + 1
    /\ Goto(World, "push")
    /\ UNCHANGED <<now, maps, queue, stopVars, finished, sailVars>>

\* Mutant of Push: nobody is notified.
PushMutant ==
    /\ pc[World] = "push"
    /\ queue' = Append(queue, job[World])
    /\ job' = [job EXCEPT ![World] = NoMap]
    /\ Goto(World, "schedule")
    /\ UNCHANGED <<now, maps, toVisit, pending, stopVars, finished, sailVars>>

\* ... and Push queues it and notifies one of the sleeping workers, if any.
Push ==
    /\ pc[World] = "push"
    /\ queue' = Append(queue, job[World])
    /\ job' = [job EXCEPT ![World] = NoMap]
    /\ \/ /\ Sleeping = {}
          /\ Goto(World, "schedule")
       \/ \E w \in Sleeping :
              pc' = [pc EXCEPT ![World] = "schedule", ![w] = "pop"]
    /\ UNCHANGED <<now, maps, toVisit, pending, stopVars, finished, sailVars>>

\* Without worker threads the loop updates the map itself.
UpdateInline ==
    /\ pc[World] = "schedule" /\ ~activated
    /\ \E m \in toVisit :
           /\ toVisit' = toVisit \ {m}
           /\ job' = [job EXCEPT ![World] = m]
    /\ Goto(World, "swap")
    /\ UNCHANGED <<now, maps, queue, pending, stopVars, finished, sailVars>>

\* Mutant of EndLoop: the world thread does not wait.
EndLoopMutant ==
    /\ pc[World] = "schedule" /\ toVisit = {}
    /\ Goto(World, "unload")
    /\ UNCHANGED <<now, maps, toVisit, poolVars, stopVars, finished, sailVars>>

EndLoop ==
    /\ pc[World] = "schedule" /\ toVisit = {}
    /\ Goto(World, IF activated THEN "wait" ELSE "unload")
    /\ UNCHANGED <<now, maps, toVisit, poolVars, stopVars, finished, sailVars>>

\* Mutant of Wait: it waits for the queue to be empty.
WaitMutant ==
    /\ pc[World] = "wait"
    /\ Goto(World, IF queue # <<>> THEN "asleep" ELSE "unload")
    /\ UNCHANGED <<now, maps, toVisit, poolVars, stopVars, finished, sailVars>>

\* MapUpdater::wait tests the count whenever it has _lock.
Wait ==
    /\ pc[World] = "wait"
    /\ Goto(World, IF pending > 0 THEN "asleep" ELSE "unload")
    /\ UNCHANGED <<now, maps, toVisit, poolVars, stopVars, finished, sailVars>>

\* The maps whose unload timer has run out; only instances have one.
UnloadMaps ==
    /\ pc[World] = "unload"
    /\ \E gone \in SUBSET (maps \cap Instances) : maps' = maps \ gone
    /\ Goto(World, "serial")
    /\ UNCHANGED <<now, toVisit, poolVars, stopVars, finished, sailVars>>

\* A player enters an instance (World::UpdateSessions).
CreateMap ==
    /\ pc[World] = "serial"
    /\ \E m \in Instances \ maps : maps' = maps \cup {m}
    /\ UNCHANGED <<now, pc, toVisit, poolVars, stopVars, finished, sailVars>>

\* World::CleanupsBeforeStop: MapManager::UnloadAll destroys the maps, with
\* their transports and the messages nobody will run.
UnloadAll ==
    /\ pc[World] = "serial"
    /\ maps' = {}
    /\ inbox' = [m \in Maps |-> <<>>] /\ transports' = [m \in Maps |-> {}]
    /\ Goto(World, IF activated THEN "token" ELSE "stopped")
    /\ UNCHANGED <<now, toVisit, poolVars, stopVars, finished,
                   messages, todo, progress, hops>>

\* MapUpdater::deactivate.
SetToken ==
    /\ pc[World] = "token"
    /\ token' = TRUE
    /\ Goto(World, "cancel")
    /\ UNCHANGED <<now, maps, toVisit, poolVars, activated, shutdown, finished, sailVars>>

\* Mutant of Cancel: the sleeping workers are not notified.
CancelMutant ==
    /\ pc[World] = "cancel"
    /\ queue' = <<>> /\ shutdown' = TRUE
    /\ pc' = [t \in Threads |-> IF t = World THEN "join"
                                ELSE IF FALSE THEN "pop" ELSE pc[t]]
    /\ UNCHANGED <<now, maps, toVisit, job, pending, activated, token, finished, sailVars>>

Cancel ==
    /\ pc[World] = "cancel"
    /\ queue' = <<>> /\ shutdown' = TRUE
    /\ pc' = [t \in Threads |-> IF t = World THEN "join"
                                ELSE IF t \in Sleeping THEN "pop" ELSE pc[t]]
    /\ UNCHANGED <<now, maps, toVisit, job, pending, activated, token, finished, sailVars>>

Join ==
    /\ pc[World] = "join" /\ \A w \in Workers : pc[w] = "exit"
    /\ Goto(World, "stopped")
    /\ UNCHANGED <<now, maps, toVisit, poolVars, stopVars, finished, sailVars>>

-----------------------------------------------------------------------------
(* A worker thread.                                                        *)

\* One round of the loop in WaitAndPop: sleep, return the null request, or
\* take the first one.
WaitAndPop(w) ==
    /\ pc[w] = "pop"
    /\ \/ /\ queue = <<>> /\ ~shutdown
          /\ Goto(w, "asleep")
          /\ UNCHANGED <<job, queue>>
       \/ /\ shutdown
          /\ Goto(w, "check")
          /\ UNCHANGED <<job, queue>>
       \/ /\ queue # <<>> /\ ~shutdown
          /\ Goto(w, "check")
          /\ job' = [job EXCEPT ![w] = Head(queue)]
          /\ queue' = Tail(queue)
    /\ UNCHANGED <<now, maps, toVisit, pending, stopVars, finished, sailVars>>

\* Mutant of SpuriousWakeup: the woken thread does not test its condition again.
SpuriousWakeupMutant(t) ==
    /\ pc[t] = "asleep"
    /\ Goto(t, IF t = World THEN "wait" ELSE "check")
    /\ UNCHANGED <<now, maps, toVisit, poolVars, stopVars, finished, sailVars>>

\* A condition variable may wake a thread for no reason.
SpuriousWakeup(t) ==
    /\ pc[t] = "asleep"
    /\ Goto(t, IF t = World THEN "wait" ELSE "pop")
    /\ UNCHANGED <<now, maps, toVisit, poolVars, stopVars, finished, sailVars>>

\* The token, and if it is not set request->execute(), null or not.
CheckToken(w) ==
    /\ pc[w] = "check"
    /\ \/ token /\ Goto(w, "exit")
       \/ ~token /\ job[w] = NoMap /\ Goto(w, "crash")
       \/ ~token /\ job[w] # NoMap /\ Goto(w, "swap")
    /\ job' = IF token THEN [job EXCEPT ![w] = NoMap] ELSE job
    /\ UNCHANGED <<now, maps, toVisit, queue, pending, stopVars, finished, sailVars>>

\* Mutant of UpdateFinished: the world thread it wakes does not test the count again.
UpdateFinishedMutant(w) ==
    /\ pc[w] = "finish" /\ pc[World] # "push"
    /\ pending' = pending - 1
    /\ job' = [job EXCEPT ![w] = NoMap]
    /\ pc' = [t \in Threads |-> IF t = w THEN "pop"
                                ELSE IF t = World /\ pc[World] = "asleep" THEN "unload"
                                ELSE pc[t]]
    /\ UNCHANGED <<now, maps, toVisit, queue, stopVars, finished, sailVars>>

\* update_finished; the worker deletes the request and starts over.
UpdateFinished(w) ==
    /\ pc[w] = "finish" /\ pc[World] # "push"
    /\ pending' = pending - 1
    /\ job' = [job EXCEPT ![w] = NoMap]
    /\ pc' = [t \in Threads |-> IF t = w THEN "pop"
                                ELSE IF t = World /\ pc[World] = "asleep" THEN "wait"
                                ELSE pc[t]]
    /\ UNCHANGED <<now, maps, toVisit, queue, stopVars, finished, sailVars>>

-----------------------------------------------------------------------------
(* Map::Update, by a worker or by the world thread itself.                 *)

\* Messager::Execute swaps the messages out under its mutex ...
Execute(t) ==
    /\ pc[t] = "swap"
    /\ messages' = [messages EXCEPT ![t] = inbox[job[t]]]
    /\ inbox' = [inbox EXCEPT ![job[t]] = <<>>]
    /\ Goto(t, "messages")
    /\ UNCHANGED <<now, maps, toVisit, poolVars, stopVars, finished,
                   transports, todo, progress, hops>>

\* ... and runs them: AddTransport.
RunMessage(t) ==
    /\ pc[t] = "messages" /\ messages[t] # <<>>
    /\ transports' = [transports EXCEPT ![job[t]] = @ \cup {Head(messages[t])}]
    /\ messages' = [messages EXCEPT ![t] = Tail(@)]
    /\ UNCHANGED <<now, maps, pc, toVisit, poolVars, stopVars, finished,
                   inbox, todo, progress, hops>>

EndMessages(t) ==
    /\ pc[t] = "messages" /\ messages[t] = <<>>
    /\ todo' = [todo EXCEPT ![t] = transports[job[t]]]
    /\ Goto(t, "transports")
    /\ UNCHANGED <<now, maps, toVisit, poolVars, stopVars, finished,
                   inbox, messages, transports, progress, hops>>

\* A transport that cannot be stopped is put where the clock says, one that
\* can be is moved on by the length of a tick.
Advance(tr) ==
    /\ progress' = [progress EXCEPT ![tr] = IF tr \in Stoppable THEN @ + 1 ELSE now]
    /\ hops' = [hops EXCEPT ![tr] = @ + 1]

\* Mutant of TeleportTransport: the transport does not leave its map.
TeleportTransportMutant(t, tr, to) ==
    /\ UNCHANGED transports
    /\ inbox' = [inbox EXCEPT ![to] = Append(@, tr)]

\* TeleportTransport to another map: leave this one, post a message there.
TeleportTransport(t, tr, to) ==
    /\ transports' = [transports EXCEPT ![job[t]] = @ \ {tr}]
    /\ inbox' = [inbox EXCEPT ![to] = Append(@, tr)]

\* Mutant of UpdateTransport: a transport that has had its turn gets another.
UpdateTransportMutant(t) ==
    /\ pc[t] = "transports"
    /\ \E tr \in todo[t] :
           /\ todo' = [todo EXCEPT ![t] = @ \ {tr}]
           /\ \/ /\ tr \in Stoppable \/ progress[tr] >= now
                 /\ UNCHANGED <<progress, hops, transports, inbox>>
              \/ /\ Advance(tr)
                 /\ \/ UNCHANGED <<transports, inbox>>
                    \/ \E to \in Continents \ {job[t]} : TeleportTransport(t, tr, to)
    /\ UNCHANGED <<now, maps, pc, toVisit, poolVars, stopVars, finished, messages>>

\* Transport::Update: one that sailed in during this tick has had its turn,
\* unless it can be stopped; the others move on, perhaps to the next continent.
\* A stoppable one may also stand where it is: it gets m_stopped at a stop of
\* its path and loses it when a script calls SetGoState, at any time.
UpdateTransport(t) ==
    /\ pc[t] = "transports"
    /\ \E tr \in todo[t] :
           /\ todo' = [todo EXCEPT ![t] = @ \ {tr}]
           /\ \/ /\ tr \in Stoppable \/ progress[tr] >= now
                 /\ UNCHANGED <<progress, hops, transports, inbox>>
              \/ /\ tr \in Stoppable \/ progress[tr] < now
                 /\ Advance(tr)
                 /\ \/ UNCHANGED <<transports, inbox>>
                    \/ \E to \in Continents \ {job[t]} : TeleportTransport(t, tr, to)
    /\ UNCHANGED <<now, maps, pc, toVisit, poolVars, stopVars, finished, messages>>

\* Mutant of EndUpdate: the worker never says that it has finished.
EndUpdateMutant(t) ==
    /\ pc[t] = "transports" /\ todo[t] = {}
    /\ finished' = finished \cup {job[t]}
    /\ Goto(t, IF t = World THEN "schedule" ELSE "pop")
    /\ job' = [job EXCEPT ![t] = NoMap]
    /\ UNCHANGED <<now, maps, toVisit, queue, pending, stopVars, sailVars>>

\* The rest of Map::Update.
EndUpdate(t) ==
    /\ pc[t] = "transports" /\ todo[t] = {}
    /\ finished' = finished \cup {job[t]}
    /\ Goto(t, IF t = World THEN "schedule" ELSE "finish")
    /\ job' = IF t = World THEN [job EXCEPT ![t] = NoMap] ELSE job
    /\ UNCHANGED <<now, maps, toVisit, queue, pending, stopVars, sailVars>>

-----------------------------------------------------------------------------
UpdateStep(t) ==
    Execute(t) \/ RunMessage(t) \/ EndMessages(t) \/ UpdateTransport(t) \/ EndUpdate(t)

WorkerStep(w) ==
    WaitAndPop(w) \/ CheckToken(w) \/ UpdateStep(w) \/ UpdateFinished(w)

WorldStep ==
    \/ StartTick \/ Schedule \/ Push \/ UpdateInline \/ EndLoop \/ Wait \/ UnloadMaps
    \/ UnloadAll \/ SetToken \/ Cancel \/ Join \/ UpdateStep(World)

Stopped == pc[World] = "stopped" /\ UNCHANGED vars

Next ==
    \/ WorldStep \/ CreateMap \/ Stopped
    \/ \E w \in Workers : WorkerStep(w)
    \/ \E t \in Threads : SpuriousWakeup(t)

(* Every thread keeps running; nothing else is assumed, a wakeup without a *)
(* cause least of all.                                                     *)
Fairness == WF_vars(WorldStep) /\ \A w \in Workers : WF_vars(WorkerStep(w))

Spec == Init /\ [][Next]_vars /\ Fairness
-----------------------------------------------------------------------------
(* Properties.                                                             *)

TypeOK ==
    /\ now \in 0..MaxTicks /\ maps \subseteq Maps
    /\ pc \in [Threads -> WorkerStages \cup WorldStages]
    /\ pc[World] \in WorldStages /\ \A w \in Workers : pc[w] \in WorkerStages
    /\ toVisit \subseteq Maps /\ job \in [Threads -> Maps \cup {NoMap}]
    /\ queue \in Seq(Maps) /\ pending \in Nat
    /\ activated \in BOOLEAN /\ token \in BOOLEAN /\ shutdown \in BOOLEAN /\ finished \subseteq Maps
    /\ inbox \in [Maps -> Seq(Transports)] /\ messages \in [Threads -> Seq(Transports)]
    /\ transports \in [Maps -> SUBSET Transports] /\ todo \in [Threads -> SUBSET Transports]
    /\ progress \in [Transports -> Nat] /\ hops \in [Transports -> Nat]

Updating == {t \in Threads : pc[t] \in UpdateStages}
Busy     == {w \in Workers : job[w] # NoMap}

\* pending_requests counts exactly the requests that are queued, being pushed
\* or being executed: it is what wait() relies on, and update_finished never
\* takes it below zero, where a size_t wraps around.
CountIsExact ==
    pending = Len(queue) + Cardinality(Busy) + (IF pc[World] = "push" THEN 1 ELSE 0)

\* While the world thread handles sessions, unloads maps or shuts down, no
\* worker is inside Map::Update and none has a request: World::Update and
\* MapManager touch the maps without a lock.
WorldAlone ==
    pc[World] \in {"serial", "unload", "token", "cancel", "join", "stopped"} =>
        Updating = {} /\ Busy = {} /\ queue = <<>>

\* A map is updated by one thread at a time, and never once i_maps has
\* destroyed it: a request holds a plain reference to its map.
SoleUpdater ==
    /\ \A t, u \in Updating : t # u => job[t] # job[u]
    /\ \A t \in Updating : job[t] \in maps

\* Cancel wakes workers with the null request: none executes it.
NoNullRequest == \A w \in Workers : pc[w] # "crash"

\* A transport is on one map or in one message on its way to one, never in
\* two places, where two workers would update it, and never lost.
Places(tr) ==
    {<<"map", m>> : m \in {m \in Maps : tr \in transports[m]}}
    \cup (UNION {{<<"inbox", m, i>> : i \in {i \in 1..Len(inbox[m]) : inbox[m][i] = tr}} : m \in Maps})
    \cup (UNION {{<<"swapped", t, i>> : i \in {i \in 1..Len(messages[t]) : messages[t][i] = tr}}
                 : t \in Threads})

OnePlace == maps # {} => \A tr \in Transports : Cardinality(Places(tr)) = 1

\* A transport that changes maps while they are updated in parallel is
\* neither advanced twice in a tick ("map transition and update happened in
\* same tick due to MT") nor left out of one.  The test behind that comment is
\* made for transports that cannot be stopped: one that can be is advanced
\* again by every map it sails to that is updated later in the tick.
OnceATick ==
    \A tr \in Transports \ Stoppable :
        /\ hops[tr] <= 1
        /\ pc[World] = "unload" => hops[tr] = 1

\* The threads, the queue and the condition variables together do what the
\* sequential World::Update of WorldTick does.
Phase ==
    IF pc[World] = "serial" THEN "serial"
    ELSE IF pc[World] \in {"token", "cancel", "join", "stopped"} THEN "closed" ELSE "maps"

Tick == INSTANCE WorldTick WITH loaded <- maps, done <- finished, phase <- Phase
ImplementsWorldTick == Tick!Spec

\* The world thread gets out of wait(): no wakeup is lost.
TickEnds == pc[World] = "schedule" ~> pc[World] = "serial"

\* deactivate() joins every worker, asleep or about to sleep when it begins.
ShutdownCompletes == pc[World] = "token" ~> pc[World] = "stopped"
=============================================================================
