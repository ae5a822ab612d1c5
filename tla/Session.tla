------------------------------ MODULE Session ------------------------------
(***************************************************************************)
(* The sessions of one account (WorldSession, World::UpdateSessions) and   *)
(* the sockets of its clients (WorldSocket).  The network thread           *)
(* authenticates sockets and queues their packets on the session they are  *)
(* routed to; the world thread adds sessions, updates the listed one,      *)
(* deletes it, and runs the callback of a login query, which finds its     *)
(* session again by account id.                                            *)
(*                                                                         *)
(* A session object is named after the socket that created it.  Time is    *)
(* how far a requested logout has come: asked for, due (20 seconds), or    *)
(* overdue (60 seconds, the patience with a lost client).                  *)
(***************************************************************************)
EXTENDS Naturals, Sequences

CONSTANTS
    Sockets,         \* the connections of the account's clients
    Characters,      \* the account's characters
    None,            \* the null pointer
    OverlapLogins,   \* is a login asked for while another is being read?
    KickAnytime,     \* are sessions without a character kicked?
    MaxLogins,       \* bound: login queries of a behaviour
    MaxPackets       \* bound: packets waiting in a session

Player  == [id : 1..MaxLogins, char : Characters, session : Sockets]
Login   == [op : {"login"}, id : 1..MaxLogins, char : Characters]
Packets == Login \cup [op : {"logout", "cancel"}]

ASSUME SessionAssumption ==
    /\ None \notin Sockets \cup Characters \cup Player
    /\ OverlapLogins \in BOOLEAN /\ KickAnytime \in BOOLEAN
    /\ MaxLogins \in Nat /\ MaxPackets \in Nat

VARIABLES
    sock,       \* each socket: "fresh", "open" or "closed"
    auth,       \* HandleAuthSession: "no", "found" a session, or "done"
    route,      \* WorldSocket::m_session
    addQueue,   \* World::m_sessionAddQueue
    listed,     \* World::m_sessions of the account
    alive,      \* the session objects not yet deleted
    ses,        \* the fields of each session
    copy,       \* recvQueueCopy of WorldSession::Update
    stage,      \* how far World::UpdateSessions is
    stopping,   \* World::CleanupsBeforeStop has begun
    logins,     \* the login queries whose callback has not run
    asked,      \* number of logins asked for
    world       \* the Player objects in the world

netVars   == <<sock, auth, route>>
listVars  == <<addQueue, listed, alive>>
loginVars == <<logins, asked>>
vars == <<netVars, listVars, ses, copy, stage, stopping, loginVars, world>>

\* The fields of WorldSession: m_sessionState, m_socket, m_requestSocket,
\* _player, _logoutTime, m_kickSession, m_playerRecentlyLogout, the messages
\* of its Messager and m_recvQueue.
NewSession(s) ==
    [state |-> "created", socket |-> s, request |-> None, player |-> None,
     logout |-> "no", kick |-> FALSE, recently |-> FALSE,
     messages |-> <<>>, recv |-> <<>>]

Init ==
    /\ sock = [s \in Sockets |-> "fresh"] /\ auth = [s \in Sockets |-> "no"]
    /\ route = [s \in Sockets |-> None]
    /\ addQueue = <<>> /\ listed = None /\ alive = {}
    /\ ses = [s \in Sockets |-> NewSession(s)]
    /\ copy = <<>> /\ stage = "tick" /\ stopping = FALSE
    /\ logins = <<>> /\ asked = 0 /\ world = {}

-----------------------------------------------------------------------------
(* The network thread.                                                     *)

\* HandleAuthSession up to FindSession, and the whole of a first connection.
HandleAuthSession(s) ==
    /\ sock[s] = "fresh"
    /\ sock' = [sock EXCEPT ![s] = "open"]
    /\ IF listed # None
       THEN /\ route' = [route EXCEPT ![s] = listed]
            /\ auth' = [auth EXCEPT ![s] = "found"]
            /\ UNCHANGED <<addQueue, alive>>
       ELSE /\ route' = [route EXCEPT ![s] = s]
            /\ auth' = [auth EXCEPT ![s] = "done"]
            /\ alive' = alive \cup {s}
            /\ addQueue' = Append(addQueue, s)
    /\ UNCHANGED <<listed, ses, copy, stage, stopping, loginVars, world>>

(* The reconnection is left to the session as a message; the world thread  *)
(* may have deleted the session since FindSession.                         *)
AddMessage(s) ==
    /\ auth[s] = "found"
    /\ auth' = [auth EXCEPT ![s] = "done"]
    /\ ses' = IF route[s] \in alive
              THEN [ses EXCEPT ![route[s]].messages = Append(@, s)] ELSE ses
    /\ UNCHANGED <<sock, route, listVars, copy, stage, stopping, loginVars, world>>

\* A login is on its way: as a packet, or as a query.
LoginUnderWay ==
    \/ logins # <<>>
    \/ \E i \in DOMAIN copy : copy[i].op = "login"
    \/ \E x \in alive : \E i \in DOMAIN ses[x].recv : ses[x].recv[i].op = "login"

QueuePacket(s, packet) ==
    /\ sock[s] = "open" /\ auth[s] = "done" /\ route[s] \in alive
    /\ Len(ses[route[s]].recv) < MaxPackets
    /\ ses' = [ses EXCEPT ![route[s]].recv = Append(@, packet)]
    /\ UNCHANGED <<netVars, listVars, copy, stage, stopping, logins, world>>

AskLogin(s, c) ==
    /\ asked < MaxLogins /\ (OverlapLogins \/ ~LoginUnderWay)
    /\ QueuePacket(s, [op |-> "login", id |-> asked + 1, char |-> c])
    /\ asked' = asked + 1

AskLogout(s, op) == QueuePacket(s, [op |-> op]) /\ UNCHANGED asked

\* The read handler gets an error.
Disconnect(s) ==
    /\ sock[s] = "open" /\ auth[s] = "done"
    /\ sock' = [sock EXCEPT ![s] = "closed"]
    /\ UNCHANGED <<auth, route, listVars, ses, copy, stage, stopping, loginVars, world>>

-----------------------------------------------------------------------------
(* What the methods of WorldSession do to the fields r of a session.       *)

LogoutRequest(r, when, kick) == [r EXCEPT !.logout = when, !.kick = kick]

ShouldLogOut(r)     == r.logout \in {"due", "overdue"}
ShouldDisconnect(r) == r.logout = "overdue"
SocketGone(r)       == r.socket \notin {s \in Sockets : sock[s] = "open"}

\* SetOnline: only with a character, on a socket that is still open.
SetOnline(r) ==
    IF r.player # None /\ ~SocketGone(r) THEN [r EXCEPT !.state = "ready"] ELSE r

\* Mutant of SetOffline: no logout is requested.
SetOfflineMutant(r) == [r EXCEPT !.socket = None, !.state = "offline"]

\* SetOffline, which also closes and finalizes the socket.
SetOffline(r) ==
    [(IF r.player # None THEN LogoutRequest(r, "asked", FALSE) ELSE r)
        EXCEPT !.socket = None, !.state = "offline"]

(* LogoutPlayer does nothing for a session that has just logged out, and   *)
(* lets go of the socket of a session that is kicked.                      *)
LogoutPlayer(r) ==
    IF r.recently THEN r
    ELSE [r EXCEPT !.player = None, !.recently = TRUE, !.state = "select",
                   !.logout = "no", !.kick = FALSE,
                   !.socket = IF r.kick THEN None ELSE @]

\* Mutant of KickInPlace: the kick is only noted down.
KickInPlaceMutant(r) == [r EXCEPT !.kick = TRUE]

\* KickPlayer in place.
KickInPlace(r) == LogoutPlayer([r EXCEPT !.kick = TRUE])

\* The sockets a session loses from one step to the next are closed.
Close(before, after) ==
    sock' = [s \in Sockets |->
               IF s = before.socket /\ s # after.socket THEN "closed" ELSE sock[s]]

FinalizeSession(s) ==
    route' = [t \in Sockets |-> IF t = s THEN None ELSE route[t]]

\* The character a session loses has left the world.
Unload(before, after) ==
    world' = IF after.player = None THEN world \ {before.player} ELSE world

-----------------------------------------------------------------------------
(* The world thread: World::UpdateSessions.                                *)

NextStage == stage' = IF stopping THEN "stopped" ELSE "tick"

\* The fields of the listed session become r.
Become(r) == ses' = [ses EXCEPT ![listed] = r] /\ UNCHANGED listVars

\* Mutant of Delete: the session is not taken out of m_sessions.
DeleteMutant(r) ==
    LET last == IF r.player # None THEN LogoutPlayer(r) ELSE r
    IN /\ Unload(ses[listed], last)
       /\ Close(ses[listed], [last EXCEPT !.socket = None])
       /\ FinalizeSession(last.socket)
       /\ ses' = [ses EXCEPT ![listed] = last]
       /\ alive' = alive \ {listed}
       /\ UNCHANGED <<listed, addQueue>>

(* The destructor of the session, left with the fields r: it logs the      *)
(* character out, then closes and finalizes the socket it still has.       *)
Delete(r) ==
    LET last == IF r.player # None THEN LogoutPlayer(r) ELSE r
    IN /\ Unload(ses[listed], last)
       /\ Close(ses[listed], [last EXCEPT !.socket = None])
       /\ FinalizeSession(last.socket)
       /\ ses' = [ses EXCEPT ![listed] = last]
       /\ alive' = alive \ {listed} /\ listed' = None
       /\ UNCHANGED addQueue

\* AddSession_: a session added while one is listed is forgotten.
AddSessions ==
    /\ stage = "tick"
    /\ listed' = IF listed = None /\ addQueue # <<>> THEN Head(addQueue) ELSE listed
    /\ addQueue' = <<>>
    /\ IF listed' = None THEN NextStage ELSE stage' = "update"
    /\ UNCHANGED <<netVars, alive, ses, copy, stopping, loginVars, world>>

\* Mutant of RequestNewSocket: the new socket replaces the old one at once.
RequestNewSocketMutant(r) ==
    IF r.messages = <<>> \/ r.request # None THEN r
    ELSE [r EXCEPT !.socket = Head(r.messages)]

\* RequestNewSocket, for each message: the first one is granted.
RequestNewSocket(r) ==
    IF r.messages = <<>> \/ r.request # None THEN r
    ELSE [r EXCEPT !.request = Head(r.messages), !.state = "created"]

\* The messages are executed and the packets moved aside.
BeginUpdate ==
    /\ stage = "update"
    /\ Become([RequestNewSocket(ses[listed]) EXCEPT !.messages = <<>>, !.recv = <<>>])
    /\ copy' = ses[listed].recv
    /\ stage' = "packets"
    /\ UNCHANGED <<netVars, stopping, loginVars, world>>

\* The next packet of the copy, while the socket is open.
NextPacket(op) ==
    /\ stage = "packets" /\ copy # <<>> /\ ~SocketGone(ses[listed])
    /\ Head(copy).op = op
    /\ copy' = Tail(copy)
    /\ UNCHANGED <<asked, auth, stage, stopping>>

\* ObjectAccessor::FindPlayer.
FindPlayer(c) == {p \in world : p.char = c}

HandlePlayerReconnect(r) == SetOnline(LogoutRequest(r, "no", FALSE))

\* Mutant of HandlePlayerLogin: a character may be loaded beside another.
HandlePlayerLoginMutant ==
    /\ NextPacket("login")
    /\ logins' = Append(logins, Head(copy))
    /\ Become([ses[listed] EXCEPT !.recently = FALSE])
    /\ UNCHANGED <<sock, route, world>>

(* HandlePlayerLoginOpcode, a packet of status AUTHED.  PlayerLoading() is *)
(* FALSE here: it is TRUE only inside the login callback and inside        *)
(* HandlePlayerReconnect, on this same thread.                             *)
HandlePlayerLogin ==
    /\ NextPacket("login")
    /\ LET r == [ses[listed] EXCEPT !.recently = FALSE]
       IN \/ /\ r.player = None
             /\ logins' = Append(logins, Head(copy))
             /\ Become(r)
          \/ /\ r.player # None                              \* refused
             /\ FindPlayer(Head(copy).char) = {} \/ r.logout = "no"
             /\ Become(r) /\ UNCHANGED logins
          \/ /\ r.player # None
             /\ FindPlayer(Head(copy).char) # {} /\ r.logout # "no"
             /\ Become(HandlePlayerReconnect(r)) /\ UNCHANGED logins
    /\ UNCHANGED <<sock, route, world>>

\* STATUS_LOGGEDIN: the packet is for a character in the world.
LoggedIn == ses[listed].player \in world

\* The logout is refused, starts, or is done at once.
HandleLogoutRequest ==
    /\ NextPacket("logout")
    /\ \E r \in IF ~LoggedIn THEN {ses[listed]}
                ELSE {LogoutRequest(ses[listed], "no", FALSE),
                      LogoutRequest(ses[listed], "asked", FALSE),
                      LogoutPlayer(ses[listed])} :
          /\ Become(r)
          /\ Close(ses[listed], r) /\ Unload(ses[listed], r)
    /\ UNCHANGED <<route, logins>>

HandleLogoutCancel ==
    /\ NextPacket("cancel")
    /\ Become(IF LoggedIn THEN LogoutRequest(ses[listed], "no", FALSE) ELSE ses[listed])
    /\ UNCHANGED <<sock, route, logins, world>>

\* The rest of the copy is thrown away with the socket.
EndPackets ==
    /\ stage = "packets"
    /\ copy = <<>> \/ SocketGone(ses[listed])
    /\ copy' = <<>> /\ stage' = "state"
    /\ UNCHANGED <<netVars, listVars, ses, stopping, loginVars, world>>

-----------------------------------------------------------------------------
(* The end of WorldSession::Update: a step of the session's state.         *)

InState(state) ==
    /\ stage = "state" /\ ses[listed].state = state
    /\ NextStage
    /\ UNCHANGED <<auth, copy, stopping, loginVars>>

\* The session lives on with the fields r.
Stay(r) ==
    /\ Become(r)
    /\ Close(ses[listed], r) /\ Unload(ses[listed], r)

\* A new session, or one whose client has reconnected on another socket.
UpdateCreated ==
    /\ InState("created")
    /\ LET r == ses[listed]
           new == [SetOffline(r) EXCEPT !.socket = r.request, !.request = None]
       IN IF r.request # None
          THEN Stay([new EXCEPT !.state = "select"]) /\ FinalizeSession(r.socket)
          ELSE Stay([r EXCEPT !.state = "select"]) /\ UNCHANGED route

\* Choosing a character; after 15 minutes the client is kicked.
UpdateSelect ==
    /\ InState("select")
    /\ LET r    == ses[listed]
           next == IF ShouldLogOut(r) THEN LogoutPlayer(r) ELSE r
       IN \/ SocketGone(r) /\ Delete(r)
          \/ ~SocketGone(r) /\ Stay(next) /\ UNCHANGED route
          \/ ~SocketGone(r) /\ next = r /\ Delete(KickInPlace(r))

\* Mutant of UpdateReady: the loss of the client is not noticed.
UpdateReadyMutant ==
    /\ InState("ready")
    /\ LET r == ses[listed]
       IN \/ ~ShouldLogOut(r) /\ Stay(r)
          \/ Stay(LogoutPlayer(r))
    /\ UNCHANGED route

\* Playing; a character away for 15 minutes is logged out.
UpdateReady ==
    /\ InState("ready")
    /\ LET r == ses[listed]
       IN \/ /\ SocketGone(r) /\ r.socket # None
             /\ IF r.player = None THEN Delete(r)
                ELSE Stay(SetOffline(r)) /\ FinalizeSession(r.socket)
          \/ /\ ~(SocketGone(r) /\ r.socket # None) /\ UNCHANGED route
             /\ \/ ~ShouldLogOut(r) /\ Stay(r)
                \/ Stay(LogoutPlayer(r))

\* Waiting for a lost client.
UpdateOffline ==
    /\ InState("offline")
    /\ LET r == ses[listed]
           gone == LogoutPlayer(r)
       IN IF ~ShouldDisconnect(r) THEN Stay(r) /\ UNCHANGED route
          ELSE IF r.request = None /\ SocketGone(gone) THEN Delete(gone)
          ELSE Stay(gone) /\ UNCHANGED route

-----------------------------------------------------------------------------
(* The world thread between two updates of the sessions.                   *)

\* HandlePlayerLoginCallback and HandlePlayerLogin, for a row that loads ...
LoginCallback ==
    /\ stage = "tick" /\ ~stopping /\ logins # <<>>
    /\ logins' = Tail(logins)
    /\ UNCHANGED <<netVars, listVars, copy, stage, stopping, asked>>

NewPlayer == [id |-> Head(logins).id, char |-> Head(logins).char, session |-> listed]

PlayerLoaded ==
    /\ LoginCallback
    /\ IF listed = None THEN UNCHANGED <<ses, world>>
       ELSE /\ ses' = [ses EXCEPT ![listed] =
                         SetOnline([@ EXCEPT !.player = NewPlayer])]
            /\ world' = world \cup {NewPlayer}

\* ... and for one that LoadFromDB refuses: the session is kicked.
PlayerNotLoaded ==
    /\ LoginCallback
    /\ listed # None
    /\ ses' = [ses EXCEPT ![listed] =
                 LogoutRequest(SetOnline([@ EXCEPT !.player = NewPlayer]), "due", TRUE)]
    /\ UNCHANGED world

(* Somebody kicks the session, with .kick (which needs a character), a     *)
(* mute, an account ban or a check; nobody does it twice.                  *)
KickPlayer ==
    /\ stage = "tick" /\ ~stopping /\ listed # None /\ ~ses[listed].kick
    /\ KickAnytime \/ ses[listed].player # None
    /\ Become(LogoutRequest(ses[listed], "due", TRUE))
    /\ UNCHANGED <<netVars, copy, stage, stopping, loginVars, world>>

\* CleanupsBeforeStop: KickAll, and a last UpdateSessions.
CleanupsBeforeStop ==
    /\ stage = "tick" /\ ~stopping
    /\ stopping' = TRUE
    /\ IF listed = None THEN UNCHANGED <<sock, listVars, ses, world>>
       ELSE Stay(KickInPlace(ses[listed]))
    /\ UNCHANGED <<auth, route, copy, stage, loginVars>>

\* Time passes for a requested logout.
Clock ==
    /\ listed # None /\ ses[listed].logout \in {"asked", "due"}
    /\ Become([ses[listed] EXCEPT !.logout = IF @ = "asked" THEN "due" ELSE "overdue"])
    /\ UNCHANGED <<netVars, copy, stage, stopping, loginVars, world>>

-----------------------------------------------------------------------------
Network ==
    \E s \in Sockets :
        \/ HandleAuthSession(s) \/ AddMessage(s) \/ Disconnect(s)
        \/ \E c \in Characters : AskLogin(s, c)
        \/ \E op \in {"logout", "cancel"} : AskLogout(s, op)

UpdateSessions ==
    \/ AddSessions \/ BeginUpdate
    \/ HandlePlayerLogin \/ HandleLogoutRequest \/ HandleLogoutCancel \/ EndPackets
    \/ UpdateCreated \/ UpdateSelect \/ UpdateReady \/ UpdateOffline

Stopped == stage = "stopped" /\ UNCHANGED vars

Next ==
    \/ Network
    \/ UpdateSessions
    \/ PlayerLoaded \/ PlayerNotLoaded
    \/ KickPlayer \/ CleanupsBeforeStop
    \/ Clock
    \/ Stopped

\* The world thread goes on, and so does the clock.
Fairness == WF_vars(UpdateSessions) /\ WF_vars(Clock)

Spec == Init /\ [][Next]_vars /\ Fairness

-----------------------------------------------------------------------------
States   == {"created", "select", "ready", "offline"}
Queue(S) == Seq(S)
Fields ==
    [state : States, socket : Sockets \cup {None}, request : Sockets \cup {None},
     player : Player \cup {None}, logout : {"no", "asked", "due", "overdue"},
     kick : BOOLEAN, recently : BOOLEAN,
     messages : Queue(Sockets), recv : Queue(Packets)]

TypeOK ==
    /\ sock \in [Sockets -> {"fresh", "open", "closed"}]
    /\ auth \in [Sockets -> {"no", "found", "done"}]
    /\ route \in [Sockets -> Sockets \cup {None}]
    /\ listed \in alive \cup {None} /\ alive \subseteq Sockets
    /\ ses \in [Sockets -> Fields]
    /\ addQueue \in Queue(alive)
    /\ copy \in Queue(Packets) /\ logins \in Queue(Login)
    /\ stage \in {"tick", "update", "packets", "state", "stopped"}
    /\ stage \in {"update", "packets", "state"} => listed # None
    /\ stopping \in BOOLEAN /\ asked \in 0..MaxLogins
    /\ world \subseteq Player

(* A character in the world is the one of the listed session: none is left *)
(* behind by a session deleted, replaced or given another character.       *)
Owned ==
    \A p \in world : listed = p.session /\ ses[listed].player = p

(* A session that is ready has a character and a socket; one that is       *)
(* offline has a character that is on its way out, and no socket.          *)
StateTellsTrue ==
    \A x \in alive :
        /\ ses[x].state = "ready" => ses[x].player # None /\ ses[x].socket # None
        /\ ses[x].state = "offline" =>
              ses[x].player # None /\ ses[x].socket = None /\ ses[x].logout # "no"

\* After CleanupsBeforeStop nobody is left in the world.
StopEmptiesWorld == stage = "stopped" => world = {}

\* An account has one character online (WorldSession.cpp:811).
OneOnline == \A p, q \in world : p = q

\* A deleted session has unloaded its player (WorldSession.cpp:117).
Unloaded == \A p \in world : p.session \in alive

\* A character whose clients are all gone leaves the world.
LeavesAlone ==
    world # {} /\ (\A s \in Sockets : sock[s] # "open")
        ~> world = {} \/ (\E s \in Sockets : sock[s] = "open")

\* The promise to the world.
Present  == IF world = {} THEN None ELSE (CHOOSE p \in world : TRUE).char
Attended ==
    IF listed # None /\ ses[listed].player \in world /\ ses[listed].state = "ready"
    THEN ses[listed].socket ELSE None

PresenceSpec == INSTANCE Presence WITH
    Clients <- Sockets, present <- Present, attended <- Attended

ImplementsPresence == PresenceSpec!Spec
=============================================================================
