---------------------------- MODULE SessionProofs ----------------------------
(***************************************************************************)
(* Proofs about the sessions of one account, for any number of sockets,    *)
(* characters, logins and packets.  The world thread changes the listed    *)
(* session in two ways: it gives it other fields (Adjusted) or deletes it  *)
(* (Deleted).  Each action is shown to be one of the two, or to leave the  *)
(* sessions' state alone (Settled).                                        *)
(***************************************************************************)
EXTENDS Session, SequenceTheorems, TLAPS

(* Sessions waiting to be added are neither listed nor those of a fresh    *)
(* socket: HandleAuthSession makes them once, AddSession_ lists them once. *)
Added ==
    /\ addQueue \in Queue(alive \ {listed})
    /\ \A x \in alive : sock[x] # "fresh"

TInv == TypeOK /\ Added

(* What one session's fields tell of each other.                           *)
Sound(r) ==
    /\ r.state = "ready" => r.player # None /\ r.socket # None
    /\ r.state = "offline" => r.player # None /\ r.socket = None /\ r.logout # "no"
    /\ r.logout # "no" => r.player # None
    /\ r.player # None => ~r.recently

(* A session nobody has updated yet.                                       *)
Untouched(r) ==
    /\ r.state = "created" /\ r.player = None /\ r.logout = "no" /\ ~r.recently

Settled ==
    /\ \A x \in alive : Sound(ses[x])
    /\ \A x \in Sockets :
          /\ x # listed /\ x \in alive => Untouched(ses[x])
          /\ sock[x] = "fresh" => Untouched(ses[x]) /\ ses[x].recv = <<>>

(* A session that waits for a login query has no character, and the flag   *)
(* that makes LogoutPlayer do nothing is down.                             *)
Awaits(r, stop) == r.player = None /\ (~stop => ~r.recently)
Awaiting == listed # None /\ logins # <<>> => Awaits(ses[listed], stopping)

(* One login at a time is under way, packet or query.                      *)
IsLogin(q, i) == i \in DOMAIN q /\ q[i].op = "login"
HasLogin(q) == \E i \in DOMAIN q : IsLogin(q, i)
AtMostOne(q) == \A i, j \in DOMAIN q : IsLogin(q, i) /\ IsLogin(q, j) => i = j
OneLogin ==
    /\ logins # <<>> => /\ Len(logins) = 1 /\ ~HasLogin(copy)
                        /\ \A x \in alive : ~HasLogin(ses[x].recv)
    /\ HasLogin(copy) => \A x \in alive : ~HasLogin(ses[x].recv)
    /\ AtMostOne(copy)
    /\ \A x \in alive : AtMostOne(ses[x].recv)
    /\ \A x, y \in alive : HasLogin(ses[x].recv) /\ HasLogin(ses[y].recv) => x = y
    /\ copy # <<>> => stage = "packets"

-----------------------------------------------------------------------------
(* The fields of a session under the methods of WorldSession.              *)

LEMMA NewSessionFields ==
    ASSUME NEW s \in Sockets
    PROVE  /\ NewSession(s) \in Fields
           /\ Untouched(NewSession(s)) /\ NewSession(s).recv = <<>>
<1>1. <<>> \in Queue(Sockets) /\ <<>> \in Queue(Packets)
  BY DEF Queue
<1>. QED
  BY <1>1 DEF NewSession, Fields, Untouched, States

LEMMA LogoutRequestFields ==
    ASSUME NEW r \in Fields, NEW when \in {"no", "asked", "due", "overdue"}, NEW k \in BOOLEAN
    PROVE  /\ LogoutRequest(r, when, k) \in Fields
           /\ LogoutRequest(r, when, k).recv = r.recv
           /\ LogoutRequest(r, when, k).player = r.player
           /\ LogoutRequest(r, when, k).recently = r.recently
           /\ LogoutRequest(r, when, k).state = r.state
           /\ LogoutRequest(r, when, k).socket = r.socket
           /\ LogoutRequest(r, when, k).logout = when
BY DEF LogoutRequest, Fields

LEMMA LogoutPlayerFields ==
    ASSUME NEW r \in Fields
    PROVE  /\ LogoutPlayer(r) \in Fields
           /\ LogoutPlayer(r).recv = r.recv
           /\ LogoutPlayer(r).socket \in {r.socket, None}
           /\ LogoutPlayer(r).player \in {r.player, None}
           /\ ~r.recently => LogoutPlayer(r).player = None
           /\ ~r.recently => LogoutPlayer(r).state = "select"
           /\ Sound(r) => Sound(LogoutPlayer(r)) /\ LogoutPlayer(r).player = None
<1>1. CASE r.recently
  BY <1>1 DEF LogoutPlayer, Sound
<1>2. CASE ~r.recently
  <2>. DEFINE q == LogoutPlayer(r)
  <2>1. q \in Fields
    BY <1>2 DEF LogoutPlayer, Fields, States
  <2>2. /\ q.recv = r.recv /\ q.socket \in {r.socket, None} /\ q.player = None
        /\ q.state = "select" /\ q.logout = "no"
    BY <1>2 DEF LogoutPlayer, Fields
  <2>. QED
    BY <1>2, <2>1, <2>2 DEF Sound
<1>. QED
  BY <1>1, <1>2

\* The answers to a request to log out: refused, started, done at once.
LEMMA LogoutAnswerFields ==
    ASSUME NEW r \in Fields,
           NEW q \in {r, LogoutRequest(r, "no", FALSE), LogoutRequest(r, "asked", FALSE),
                      LogoutPlayer(r)}
    PROVE  /\ q \in Fields /\ q.recv = r.recv /\ q.player \in {r.player, None}
           /\ Sound(r) /\ r.player # None /\ r.socket # None
                   => Sound(q) /\ (q.state = "ready" => q.socket = r.socket)
<1>1. CASE q = LogoutRequest(r, "no", FALSE)
  <2>1. /\ q \in Fields /\ q.recv = r.recv /\ q.player = r.player
        /\ q.recently = r.recently /\ q.state = r.state /\ q.socket = r.socket
    BY <1>1 DEF LogoutRequest, Fields
  <2>. QED
    BY <2>1 DEF Sound
<1>2. CASE q = LogoutRequest(r, "asked", FALSE)
  <2>1. /\ q \in Fields /\ q.recv = r.recv /\ q.player = r.player /\ q.logout = "asked"
        /\ q.recently = r.recently /\ q.state = r.state /\ q.socket = r.socket
    BY <1>2 DEF LogoutRequest, Fields
  <2>. QED
    BY <2>1 DEF Sound
<1>3. CASE q = r
  BY <1>3
<1>4. CASE q = LogoutPlayer(r)
  BY <1>4, LogoutPlayerFields DEF Sound
<1>. QED
  BY <1>1, <1>2, <1>3, <1>4

LEMMA SetOnlineFields ==
    ASSUME NEW r \in Fields
    PROVE  /\ SetOnline(r) \in Fields
           /\ SetOnline(r).recv = r.recv /\ SetOnline(r).player = r.player
           /\ SetOnline(r).recently = r.recently
           /\ SetOnline(r).logout = r.logout /\ SetOnline(r).socket = r.socket
           /\ SetOnline(r).state \in {r.state, "ready"}
           /\ SetOnline(r).state # r.state => r.player # None /\ r.socket # None
<1>1. None \notin Sockets
  BY SessionAssumption
<1>. QED
  BY <1>1 DEF SetOnline, SocketGone, Fields, States

LEMMA SetOfflineFields ==
    ASSUME NEW r \in Fields
    PROVE  /\ SetOffline(r) \in Fields
           /\ SetOffline(r).recv = r.recv /\ SetOffline(r).player = r.player
           /\ SetOffline(r).recently = r.recently
           /\ SetOffline(r).socket = None /\ SetOffline(r).state = "offline"
           /\ SetOffline(r).request = r.request
           /\ r.player # None => SetOffline(r).logout # "no"
           /\ r.player = None => SetOffline(r).logout = r.logout
<1>1. CASE r.player = None
  BY <1>1 DEF SetOffline, Fields, States
<1>2. CASE r.player # None
  <2>1. LogoutRequest(r, "asked", FALSE) \in Fields
    BY DEF LogoutRequest, Fields
  <2>. QED
    BY <1>2, <2>1 DEF SetOffline, LogoutRequest, Fields, States
<1>. QED
  BY <1>1, <1>2

LEMMA KickFields ==
    ASSUME NEW r \in Fields
    PROVE  /\ KickInPlace(r) \in Fields
           /\ KickInPlace(r).recv = r.recv
           /\ KickInPlace(r).player \in {r.player, None}
           /\ Sound(r) => Sound(KickInPlace(r)) /\ KickInPlace(r).player = None
<1>1. [r EXCEPT !.kick = TRUE] \in Fields
  BY DEF Fields
<1>2. Sound(r) => Sound([r EXCEPT !.kick = TRUE])
  BY DEF Sound, Fields
<1>. QED
  BY <1>1, <1>2, LogoutPlayerFields DEF KickInPlace, Fields

LEMMA RequestFields ==
    ASSUME NEW r \in Fields
    PROVE  /\ RequestNewSocket(r) \in Fields
           /\ RequestNewSocket(r).recv = r.recv /\ RequestNewSocket(r).player = r.player
           /\ RequestNewSocket(r).recently = r.recently
           /\ RequestNewSocket(r).socket = r.socket
           /\ Sound(r) => Sound(RequestNewSocket(r))
<1>1. r.messages # <<>> => Head(r.messages) \in Sockets
  <2>1. r.messages \in Queue(Sockets)
    BY DEF Fields
  <2>. QED
    BY <2>1, HeadTailProperties DEF Queue
<1>2. CASE r.messages = <<>> \/ r.request # None
  BY <1>2 DEF RequestNewSocket
<1>3. CASE ~(r.messages = <<>> \/ r.request # None)
  <2>. DEFINE q == RequestNewSocket(r)
  <2>1. q \in Fields
    BY <1>1, <1>3 DEF RequestNewSocket, Fields, States
  <2>2. /\ q.recv = r.recv /\ q.player = r.player /\ q.recently = r.recently
        /\ q.socket = r.socket /\ q.logout = r.logout /\ q.state = "created"
    BY <1>3 DEF RequestNewSocket, Fields
  <2>. QED
    BY <2>1, <2>2 DEF Sound
<1>. QED
  BY <1>2, <1>3

-----------------------------------------------------------------------------
(* Queues.                                                                 *)

LEMMA QueueGrows == ASSUME NEW S, NEW T, S \subseteq T PROVE Queue(S) \subseteq Queue(T)
BY DEF Queue

LEMMA QueueAppend ==
    ASSUME NEW S, NEW q \in Queue(S), NEW v \in S PROVE Append(q, v) \in Queue(S)
BY AppendProperties DEF Queue

LEMMA QueueHead ==
    ASSUME NEW S, NEW q \in Queue(S), q # <<>>
    PROVE  Head(q) \in S /\ Tail(q) \in Queue(S)
BY HeadTailProperties DEF Queue

LEMMA QueueEmpty == ASSUME NEW S PROVE <<>> \in Queue(S)
BY DEF Queue

-----------------------------------------------------------------------------
(* Types.                                                                  *)

LEMMA StayTypes ==
    ASSUME TInv, listed # None, NEW r \in Fields,
           Become(r), Close(ses[listed], r) \/ sock' = sock,
           Unload(ses[listed], r) \/ world' = world
    PROVE  /\ ses' \in [Sockets -> Fields] /\ UNCHANGED listVars
           /\ sock' \in [Sockets -> {"fresh", "open", "closed"}]
           /\ \A x \in Sockets : sock'[x] = "fresh" => sock[x] = "fresh"
           /\ world' \subseteq Player
<1>. USE DEF TInv, TypeOK
<1>1. ses' \in [Sockets -> Fields] /\ UNCHANGED listVars
  BY DEF Become, listVars
<1>2. sock' \in [Sockets -> {"fresh", "open", "closed"}]
  BY DEF Close
<1>3. \A x \in Sockets : sock'[x] = "fresh" => sock[x] = "fresh"
  BY DEF Close
<1>4. world' \subseteq Player
  BY DEF Unload
<1>. QED
  BY <1>1, <1>2, <1>3, <1>4

LEMMA DeleteTypes ==
    ASSUME TInv, listed # None, NEW r \in Fields, Delete(r)
    PROVE  /\ ses' \in [Sockets -> Fields]
           /\ listed' = None /\ alive' = alive \ {listed} /\ addQueue' = addQueue
           /\ sock' \in [Sockets -> {"fresh", "open", "closed"}]
           /\ \A x \in Sockets : sock'[x] = "fresh" => sock[x] = "fresh"
           /\ route' \in [Sockets -> Sockets \cup {None}]
           /\ world' \subseteq Player
           /\ Added'
<1>. DEFINE last == IF r.player # None THEN LogoutPlayer(r) ELSE r
<1>1. last \in Fields
  BY LogoutPlayerFields
<1>2. /\ Unload(ses[listed], last) /\ Close(ses[listed], [last EXCEPT !.socket = None])
      /\ FinalizeSession(last.socket) /\ ses' = [ses EXCEPT ![listed] = last]
      /\ alive' = alive \ {listed} /\ listed' = None /\ addQueue' = addQueue
  BY DEF Delete
<1>. HIDE DEF last
<1>. USE DEF TInv, TypeOK
<1>3. ses' \in [Sockets -> Fields]
  BY <1>1, <1>2
<1>4. sock' \in [Sockets -> {"fresh", "open", "closed"}]
  BY <1>2 DEF Close
<1>5. \A x \in Sockets : sock'[x] = "fresh" => sock[x] = "fresh"
  BY <1>2 DEF Close
<1>6. route' \in [Sockets -> Sockets \cup {None}]
  BY <1>2 DEF FinalizeSession
<1>7. world' \subseteq Player
  BY <1>2 DEF Unload
<1>8. alive' \ {listed'} = alive \ {listed}
  BY <1>2, SessionAssumption
<1>9. Added'
  BY <1>2, <1>5, <1>8 DEF Added
<1>. QED
  BY <1>2, <1>3, <1>4, <1>5, <1>6, <1>7, <1>9

\* Added survives when no session is made, listed or deleted.
LEMMA AddedStays ==
    ASSUME TInv, UNCHANGED listVars,
           \A x \in Sockets : sock'[x] = "fresh" => sock[x] = "fresh"
    PROVE  Added'
BY DEF TInv, TypeOK, Added, listVars

\* What the typing of the step of a session's state comes down to.
LEMMA StateStepTypes ==
    ASSUME TInv, stage = "state", NextStage, UNCHANGED <<auth, copy, stopping, loginVars>>,
           NEW r \in Fields,
           \/ Stay(r) /\ (route' = route \/ \E x \in Sockets \cup {None} : FinalizeSession(x))
           \/ Delete(r)
    PROVE  TInv'
<1>1. listed # None
  BY DEF TInv, TypeOK
<1>2. stage' \in {"tick", "stopped"}
  BY DEF NextStage
<1>3. CASE Stay(r) /\ (route' = route \/ \E x \in Sockets \cup {None} : FinalizeSession(x))
  <2>1. /\ ses' \in [Sockets -> Fields] /\ UNCHANGED listVars
        /\ sock' \in [Sockets -> {"fresh", "open", "closed"}]
        /\ \A x \in Sockets : sock'[x] = "fresh" => sock[x] = "fresh"
        /\ world' \subseteq Player
    BY <1>1, <1>3, StayTypes DEF Stay
  <2>2. route' \in [Sockets -> Sockets \cup {None}]
    BY <1>3 DEF FinalizeSession, TInv, TypeOK
  <2>3. Added'
    BY <2>1, AddedStays
  <2>. QED
    BY <1>1, <1>2, <2>1, <2>2, <2>3 DEF TInv, TypeOK, listVars, loginVars
<1>4. CASE Delete(r)
  <2>1. /\ ses' \in [Sockets -> Fields]
        /\ listed' = None /\ alive' = alive \ {listed} /\ addQueue' = addQueue
        /\ sock' \in [Sockets -> {"fresh", "open", "closed"}]
        /\ route' \in [Sockets -> Sockets \cup {None}]
        /\ world' \subseteq Player
        /\ Added'
    BY <1>1, <1>4, DeleteTypes
  <2>2. addQueue' \in Queue(alive')
    BY <2>1, QueueGrows DEF Added
  <2>. QED
    BY <1>2, <2>1, <2>2 DEF TInv, TypeOK, loginVars
<1>. QED
  BY <1>3, <1>4

\* Every step keeps the types; Added says what the queue of new sessions is.
LEMMA TypeStep ==
    ASSUME TInv, [Next]_vars
    PROVE  TInv'
<1>. USE DEF vars, netVars, listVars, loginVars
<1>1. ASSUME NEW s \in Sockets, HandleAuthSession(s) PROVE TInv'
  <2>. USE DEF TInv, TypeOK
  <2>1. /\ sock' \in [Sockets -> {"fresh", "open", "closed"}]
        /\ \A x \in Sockets : x # s => sock'[x] = sock[x]
        /\ sock[s] = "fresh" /\ sock'[s] = "open" /\ s \notin alive
    BY <1>1 DEF HandleAuthSession, Added
  <2>2. CASE listed # None
    <3>1. UNCHANGED listVars /\ route' \in [Sockets -> Sockets \cup {None}]
      BY <1>1, <2>2 DEF HandleAuthSession
    <3>2. \A x \in Sockets : sock'[x] = "fresh" => sock[x] = "fresh"
      BY <2>1
    <3>3. Added'
      BY <3>1, <3>2, AddedStays
    <3>. QED
      BY <1>1, <2>1, <3>1, <3>3 DEF HandleAuthSession
  <2>3. CASE listed = None
    <3>1. /\ route' \in [Sockets -> Sockets \cup {None}] /\ listed' = None
          /\ alive' = alive \cup {s} /\ addQueue' = Append(addQueue, s)
      BY <1>1, <2>3 DEF HandleAuthSession
    <3>2. alive' \ {listed'} = alive' /\ alive \subseteq alive'
      BY <3>1, SessionAssumption
    <3>3. addQueue' \in Queue(alive')
      BY <3>1, <3>2, QueueGrows, QueueAppend
    <3>4. \A x \in alive' : sock'[x] # "fresh"
      BY <2>1, <3>1 DEF Added
    <3>5. addQueue' \in Queue(alive' \ {listed'})
      BY <3>2, <3>3
    <3>6. Added'
      BY <3>4, <3>5 DEF Added
    <3>. QED
      BY <1>1, <2>1, <3>1, <3>3, <3>6 DEF HandleAuthSession
  <2>. QED
    BY <2>2, <2>3
<1>2. ASSUME NEW s \in Sockets, AddMessage(s) PROVE TInv'
  <2>1. ses' \in [Sockets -> Fields]
    <3>1. CASE route[s] \in alive
      <4>1. route[s] \in Sockets /\ ses[route[s]] \in Fields
        BY <3>1 DEF TInv, TypeOK
      <4>2. Append(ses[route[s]].messages, s) \in Queue(Sockets)
        BY <4>1, QueueAppend DEF Fields
      <4>3. [ses[route[s]] EXCEPT !.messages = Append(@, s)] \in Fields
        BY <4>1, <4>2 DEF Fields
      <4>. QED
        BY <1>2, <3>1, <4>1, <4>3 DEF AddMessage, TInv, TypeOK
    <3>. QED
      BY <1>2, <3>1 DEF AddMessage, TInv, TypeOK
  <2>2. auth' \in [Sockets -> {"no", "found", "done"}]
    BY <1>2 DEF AddMessage, TInv, TypeOK
  <2>3. Added'
    BY <1>2, AddedStays DEF AddMessage
  <2>. QED
    BY <1>2, <2>1, <2>2, <2>3 DEF AddMessage, TInv, TypeOK
<1>3. ASSUME NEW s \in Sockets, NEW packet \in Packets, QueuePacket(s, packet),
             asked' \in 0..MaxLogins
      PROVE  TInv'
  <2>1. route[s] \in Sockets /\ ses[route[s]] \in Fields
    BY <1>3 DEF QueuePacket, TInv, TypeOK
  <2>2. Append(ses[route[s]].recv, packet) \in Queue(Packets)
    BY <2>1, QueueAppend DEF Fields
  <2>3. [ses[route[s]] EXCEPT !.recv = Append(@, packet)] \in Fields
    BY <2>1, <2>2 DEF Fields
  <2>4. ses' \in [Sockets -> Fields]
    BY <1>3, <2>1, <2>3 DEF QueuePacket, TInv, TypeOK
  <2>5. Added'
    BY <1>3, AddedStays DEF QueuePacket
  <2>. QED
    BY <1>3, <2>4, <2>5 DEF QueuePacket, TInv, TypeOK
<1>4. ASSUME NEW s \in Sockets, NEW c \in Characters, AskLogin(s, c) PROVE TInv'
  <2>1. asked + 1 \in 1..MaxLogins /\ asked' \in 0..MaxLogins
    BY <1>4, SessionAssumption DEF AskLogin, TInv, TypeOK
  <2>2. [op |-> "login", id |-> asked + 1, char |-> c] \in Packets
    BY <2>1 DEF Packets, Login
  <2>. QED
    BY <1>4, <1>3, <2>1, <2>2 DEF AskLogin
<1>5. ASSUME NEW s \in Sockets, NEW op \in {"logout", "cancel"}, AskLogout(s, op)
      PROVE  TInv'
  <2>1. [op |-> op] \in Packets
    BY DEF Packets
  <2>. QED
    BY <1>5, <1>3, <2>1 DEF AskLogout, TInv, TypeOK
<1>6. ASSUME NEW s \in Sockets, Disconnect(s) PROVE TInv'
  <2>1. sock' \in [Sockets -> {"fresh", "open", "closed"}]
        /\ \A x \in Sockets : sock'[x] = "fresh" => sock[x] = "fresh"
    BY <1>6 DEF Disconnect, TInv, TypeOK
  <2>2. Added'
    BY <1>6, <2>1, AddedStays DEF Disconnect
  <2>. QED
    BY <1>6, <2>1, <2>2 DEF Disconnect, TInv, TypeOK
<1>7. CASE AddSessions
  <2>. USE DEF TInv, TypeOK
  <2>1. addQueue # <<>> => Head(addQueue) \in alive
    BY QueueHead
  <2>2. listed' \in alive \cup {None} /\ addQueue' = <<>> /\ alive' = alive
    BY <1>7, <2>1 DEF AddSessions
  <2>3. /\ addQueue' \in Queue(alive') /\ addQueue' \in Queue(alive' \ {listed'})
    BY <2>2, QueueEmpty
  <2>4. Added'
    BY <1>7, <2>2, <2>3 DEF AddSessions, Added
  <2>5. /\ stage' \in {"tick", "stopped", "update"}
        /\ stage' = "update" => listed' # None
    BY <1>7 DEF AddSessions, NextStage
  <2>. QED
    BY <1>7, <2>2, <2>3, <2>4, <2>5 DEF AddSessions
<1>8. CASE BeginUpdate
  <2>1. listed # None /\ listed \in Sockets /\ ses[listed] \in Fields
    BY <1>8 DEF BeginUpdate, TInv, TypeOK
  <2>. DEFINE q == RequestNewSocket(ses[listed])
              r == [q EXCEPT !.messages = <<>>, !.recv = <<>>]
  <2>2. q \in Fields
    BY <2>1, RequestFields
  <2>3. r \in Fields
    BY <2>2, QueueEmpty DEF Fields
  <2>4. Become(r) /\ sock' = sock /\ world' = world
    BY <1>8 DEF BeginUpdate
  <2>. HIDE DEF q, r
  <2>5. ses' \in [Sockets -> Fields] /\ UNCHANGED listVars
    BY <2>1, <2>3, <2>4, StayTypes
  <2>6. copy' \in Queue(Packets)
    BY <1>8, <2>1 DEF BeginUpdate, Fields
  <2>7. Added'
    BY <2>4, <2>5, AddedStays
  <2>. QED
    BY <1>8, <2>1, <2>5, <2>6, <2>7 DEF BeginUpdate, TInv, TypeOK
<1>9. ASSUME NEW op, NextPacket(op)
      PROVE  /\ stage = "packets" /\ listed # None /\ listed \in Sockets /\ listed \in alive
             /\ ses[listed] \in Fields /\ Head(copy) \in Packets
             /\ copy' \in Queue(Packets) /\ UNCHANGED <<asked, auth, stage, stopping>>
  BY <1>9, QueueHead DEF NextPacket, TInv, TypeOK
<1>10. ASSUME NEW op, NextPacket(op), NEW r \in Fields, Become(r),
              sock' = sock \/ Close(ses[listed], r), world' = world \/ Unload(ses[listed], r),
              route' = route, logins' \in Queue(Login)
       PROVE  TInv'
  <2>1. /\ ses' \in [Sockets -> Fields] /\ UNCHANGED listVars
        /\ sock' \in [Sockets -> {"fresh", "open", "closed"}]
        /\ \A x \in Sockets : sock'[x] = "fresh" => sock[x] = "fresh"
        /\ world' \subseteq Player
    BY <1>9, <1>10, StayTypes
  <2>2. Added'
    BY <2>1, AddedStays
  <2>. QED
    BY <1>9, <1>10, <2>1, <2>2 DEF TInv, TypeOK
<1>11. CASE HandlePlayerLogin
  <2>. DEFINE r == [ses[listed] EXCEPT !.recently = FALSE]
  <2>1. r \in Fields /\ HandlePlayerReconnect(r) \in Fields
    <3>1. ses[listed] \in Fields
      BY <1>9, <1>11 DEF HandlePlayerLogin
    <3>2. r \in Fields
      BY <3>1 DEF Fields
    <3>. QED
      BY <3>2, LogoutRequestFields, SetOnlineFields DEF HandlePlayerReconnect
  <2>2. Head(copy) \in Login
    BY <1>9, <1>11 DEF HandlePlayerLogin, NextPacket, Packets, Login
  <2>3. logins \in Queue(Login) /\ Append(logins, Head(copy)) \in Queue(Login)
    BY <2>2, QueueAppend DEF TInv, TypeOK
  <2>4. /\ Become(r) \/ Become(HandlePlayerReconnect(r))
        /\ logins' \in {logins, Append(logins, Head(copy))}
        /\ NextPacket("login") /\ UNCHANGED <<sock, route, world>>
    BY <1>11 DEF HandlePlayerLogin
  <2>. HIDE DEF r
  <2>. QED
    BY <1>10, <2>1, <2>3, <2>4
<1>12. CASE HandleLogoutRequest
  <2>1. ses[listed] \in Fields
    BY <1>9, <1>12 DEF HandleLogoutRequest
  <2>2. PICK r \in {ses[listed], LogoutRequest(ses[listed], "no", FALSE),
                    LogoutRequest(ses[listed], "asked", FALSE), LogoutPlayer(ses[listed])} :
            Become(r) /\ Close(ses[listed], r) /\ Unload(ses[listed], r)
    BY <1>12 DEF HandleLogoutRequest
  <2>3. r \in Fields
    BY <2>1, <2>2, LogoutAnswerFields
  <2>. QED
    BY <1>10, <1>12, <2>2, <2>3 DEF HandleLogoutRequest, TInv, TypeOK
<1>13. CASE HandleLogoutCancel
  <2>1. ses[listed] \in Fields
    BY <1>9, <1>13 DEF HandleLogoutCancel
  <2>2. LogoutRequest(ses[listed], "no", FALSE) \in Fields
    BY <2>1, LogoutRequestFields
  <2>. QED
    BY <1>10, <1>13, <2>1, <2>2 DEF HandleLogoutCancel, TInv, TypeOK
<1>14. CASE EndPackets
  <2>1. Added'
    BY <1>14, AddedStays DEF EndPackets
  <2>. QED
    BY <1>14, <2>1, QueueEmpty DEF EndPackets, TInv, TypeOK
<1>15. ASSUME NEW state, InState(state)
       PROVE  /\ stage = "state" /\ NextStage /\ UNCHANGED <<auth, copy, stopping, loginVars>>
              /\ listed # None /\ listed \in alive /\ listed \in Sockets /\ ses[listed] \in Fields
  BY <1>15 DEF InState, TInv, TypeOK
<1>16. CASE UpdateCreated
  <2>. DEFINE r == ses[listed]
              new == [SetOffline(r) EXCEPT !.socket = r.request, !.request = None]
  <2>1. r \in Fields /\ SetOffline(r) \in Fields
    BY <1>15, <1>16, SetOfflineFields DEF UpdateCreated
  <2>2. [new EXCEPT !.state = "select"] \in Fields /\ [r EXCEPT !.state = "select"] \in Fields
    BY <2>1 DEF Fields, States
  <2>3. \/ Stay([new EXCEPT !.state = "select"]) /\ FinalizeSession(r.socket)
        \/ Stay([r EXCEPT !.state = "select"]) /\ UNCHANGED route
    BY <1>16 DEF UpdateCreated
  <2>4. r.socket \in Sockets \cup {None}
    BY <2>1 DEF Fields
  <2>. QED
    BY <1>15, <1>16, <2>2, <2>3, <2>4, StateStepTypes DEF UpdateCreated
<1>17. CASE UpdateSelect
  <2>1. ses[listed] \in Fields /\ InState("select")
    BY <1>15, <1>17 DEF UpdateSelect
  <2>2. LogoutPlayer(ses[listed]) \in Fields /\ KickInPlace(ses[listed]) \in Fields
    BY <2>1, LogoutPlayerFields, KickFields
  <2>3. \/ Delete(ses[listed]) \/ Delete(KickInPlace(ses[listed]))
        \/ Stay(ses[listed]) /\ UNCHANGED route
        \/ Stay(LogoutPlayer(ses[listed])) /\ UNCHANGED route
    BY <1>17 DEF UpdateSelect
  <2>. QED
    BY <1>15, <2>1, <2>2, <2>3, StateStepTypes
<1>18. CASE UpdateReady
  <2>1. ses[listed] \in Fields /\ InState("ready")
    BY <1>15, <1>18 DEF UpdateReady
  <2>2. LogoutPlayer(ses[listed]) \in Fields /\ SetOffline(ses[listed]) \in Fields
        /\ ses[listed].socket \in Sockets \cup {None}
    BY <2>1, LogoutPlayerFields, SetOfflineFields DEF Fields
  <2>3. \/ Delete(ses[listed])
        \/ Stay(SetOffline(ses[listed])) /\ FinalizeSession(ses[listed].socket)
        \/ Stay(ses[listed]) /\ UNCHANGED route
        \/ Stay(LogoutPlayer(ses[listed])) /\ UNCHANGED route
    BY <1>18 DEF UpdateReady
  <2>. QED
    BY <1>15, <2>1, <2>2, <2>3, StateStepTypes
<1>19. CASE UpdateOffline
  <2>1. ses[listed] \in Fields /\ InState("offline")
    BY <1>15, <1>19 DEF UpdateOffline
  <2>2. LogoutPlayer(ses[listed]) \in Fields
    BY <2>1, LogoutPlayerFields
  <2>3. \/ Delete(LogoutPlayer(ses[listed]))
        \/ Stay(ses[listed]) /\ UNCHANGED route
        \/ Stay(LogoutPlayer(ses[listed])) /\ UNCHANGED route
    BY <1>19 DEF UpdateOffline
  <2>. QED
    BY <1>15, <2>1, <2>2, <2>3, StateStepTypes
<1>20. ASSUME LoginCallback, ses' \in [Sockets -> Fields], world' \subseteq Player
       PROVE  TInv'
  <2>1. Added'
    BY <1>20, AddedStays DEF LoginCallback
  <2>2. logins' \in Queue(Login)
    BY <1>20, QueueHead DEF LoginCallback, TInv, TypeOK
  <2>. QED
    BY <1>20, <2>1, <2>2 DEF LoginCallback, TInv, TypeOK
<1>21. ASSUME LoginCallback, listed # None
       PROVE  /\ NewPlayer \in Player /\ listed \in Sockets
              /\ ses[listed] \in Fields
              /\ SetOnline([ses[listed] EXCEPT !.player = NewPlayer]) \in Fields
  <2>1. Head(logins) \in Login
    BY <1>21, QueueHead DEF LoginCallback, TInv, TypeOK
  <2>2. NewPlayer \in Player /\ listed \in Sockets /\ ses[listed] \in Fields
    BY <1>21, <2>1 DEF NewPlayer, Login, Player, TInv, TypeOK
  <2>3. [ses[listed] EXCEPT !.player = NewPlayer] \in Fields
    BY <2>2 DEF Fields
  <2>. QED
    BY <2>2, <2>3, SetOnlineFields
<1>22. CASE PlayerLoaded
  <2>1. ses' \in [Sockets -> Fields] /\ world' \subseteq Player
    BY <1>22, <1>21 DEF PlayerLoaded, TInv, TypeOK
  <2>. QED
    BY <1>20, <1>22, <2>1 DEF PlayerLoaded
<1>23. CASE PlayerNotLoaded
  <2>. DEFINE r == SetOnline([ses[listed] EXCEPT !.player = NewPlayer])
  <2>1. r \in Fields /\ listed \in Sockets
    BY <1>21, <1>23 DEF PlayerNotLoaded
  <2>2. LogoutRequest(r, "due", TRUE) \in Fields
    BY <2>1, LogoutRequestFields
  <2>3. ses' = [ses EXCEPT ![listed] = LogoutRequest(r, "due", TRUE)]
    BY <1>23 DEF PlayerNotLoaded
  <2>. HIDE DEF r
  <2>4. ses' \in [Sockets -> Fields] /\ world' \subseteq Player
    BY <1>23, <2>1, <2>2, <2>3 DEF PlayerNotLoaded, TInv, TypeOK
  <2>. QED
    BY <1>20, <1>23, <2>4 DEF PlayerNotLoaded
<1>24. CASE KickPlayer
  <2>1. listed # None /\ ses[listed] \in Fields
    BY <1>24 DEF KickPlayer, TInv, TypeOK
  <2>2. LogoutRequest(ses[listed], "due", TRUE) \in Fields
    BY <2>1, LogoutRequestFields
  <2>3. ses' \in [Sockets -> Fields]
    BY <1>24, <2>1, <2>2, StayTypes DEF KickPlayer
  <2>4. Added'
    BY <1>24, AddedStays DEF KickPlayer, Become
  <2>. QED
    BY <1>24, <2>3, <2>4 DEF KickPlayer, Become, TInv, TypeOK
<1>25. CASE CleanupsBeforeStop
  <2>1. CASE listed = None
    <3>1. Added'
      BY <1>25, <2>1, AddedStays DEF CleanupsBeforeStop
    <3>. QED
      BY <1>25, <2>1, <3>1 DEF CleanupsBeforeStop, TInv, TypeOK
  <2>2. CASE listed # None
    <3>1. KickInPlace(ses[listed]) \in Fields
      BY <2>2, KickFields DEF TInv, TypeOK
    <3>2. Stay(KickInPlace(ses[listed]))
      BY <1>25, <2>2 DEF CleanupsBeforeStop
    <3>3. /\ ses' \in [Sockets -> Fields] /\ UNCHANGED listVars
          /\ sock' \in [Sockets -> {"fresh", "open", "closed"}]
          /\ \A x \in Sockets : sock'[x] = "fresh" => sock[x] = "fresh"
          /\ world' \subseteq Player
      BY <2>2, <3>1, <3>2, StayTypes DEF Stay
    <3>4. Added'
      BY <3>3, AddedStays
    <3>. QED
      BY <1>25, <3>3, <3>4 DEF CleanupsBeforeStop, TInv, TypeOK
  <2>. QED
    BY <2>1, <2>2
<1>26. CASE Clock
  <2>1. listed # None /\ ses[listed] \in Fields
    BY <1>26 DEF Clock, TInv, TypeOK
  <2>2. [ses[listed] EXCEPT !.logout = IF @ = "asked" THEN "due" ELSE "overdue"] \in Fields
    BY <2>1 DEF Fields
  <2>3. ses' \in [Sockets -> Fields]
    BY <1>26, <2>1, <2>2, StayTypes DEF Clock
  <2>4. Added'
    BY <1>26, AddedStays DEF Clock, Become
  <2>. QED
    BY <1>26, <2>3, <2>4 DEF Clock, Become, TInv, TypeOK
<1>27. CASE UNCHANGED vars
  BY <1>27, AddedStays DEF TInv, TypeOK
<1>. QED
  BY <1>1, <1>2, <1>4, <1>5, <1>6, <1>7, <1>8, <1>11, <1>12, <1>13, <1>14, <1>16, <1>17,
     <1>18, <1>19, <1>22, <1>23, <1>24, <1>25, <1>26, <1>27
  DEF Next, Network, UpdateSessions, Stopped

LEMMA TypesAtStart == ASSUME Init PROVE TInv
<1>1. ses \in [Sockets -> Fields]
  BY NewSessionFields DEF Init
<1>2. addQueue \in Queue(alive) /\ addQueue \in Queue(alive \ {listed})
      /\ copy \in Queue(Packets) /\ logins \in Queue(Login)
  BY QueueEmpty DEF Init
<1>3. asked \in 0..MaxLogins
  BY SessionAssumption DEF Init
<1>. QED
  BY <1>1, <1>2, <1>3 DEF Init, TInv, TypeOK, Added

\* TypeOK holds whatever logins and kicks there are.
THEOREM TypeCorrect == Spec => []TypeOK
<1>1. Init => TInv
  BY TypesAtStart
<1>2. TInv /\ [Next]_vars => TInv'
  BY TypeStep
<1>3. TInv => TypeOK
  BY DEF TInv
<1>. QED
  BY <1>1, <1>2, <1>3, PTL DEF Spec

-----------------------------------------------------------------------------
(* One login at a time.                                                    *)

LEMMA LoginAppended ==
    ASSUME NEW q \in Queue(Packets), NEW v \in Packets
    PROVE  /\ HasLogin(Append(q, v)) => HasLogin(q) \/ v.op = "login"
           /\ AtMostOne(q) /\ (v.op = "login" => ~HasLogin(q)) => AtMostOne(Append(q, v))
<1>1. /\ Len(q) \in Nat /\ DOMAIN q = 1..Len(q)
      /\ Append(q, v) \in Seq(Packets) /\ Len(Append(q, v)) = Len(q) + 1
      /\ \A i \in 1..Len(q) : Append(q, v)[i] = q[i]
      /\ Append(q, v)[Len(q) + 1] = v
  BY AppendProperties, LenProperties DEF Queue
<1>2. DOMAIN Append(q, v) = 1..Len(q) + 1
  BY <1>1, LenProperties
<1>. DEFINE a == Append(q, v)
<1>. HIDE DEF a
<1>3. \A i : IsLogin(a, i) => IsLogin(q, i) \/ (i = Len(q) + 1 /\ v.op = "login")
  BY <1>1, <1>2 DEF IsLogin, a
<1>4. HasLogin(a) => HasLogin(q) \/ v.op = "login"
  BY <1>3 DEF HasLogin, IsLogin
<1>5. ASSUME AtMostOne(q), v.op = "login" => ~HasLogin(q) PROVE AtMostOne(a)
  BY <1>3, <1>5 DEF AtMostOne, HasLogin, IsLogin
<1>. QED
  BY <1>4, <1>5 DEF a

LEMMA LoginTaken ==
    ASSUME NEW q \in Queue(Packets), q # <<>>
    PROVE  /\ HasLogin(Tail(q)) => HasLogin(q)
           /\ AtMostOne(q) => AtMostOne(Tail(q))
           /\ Head(q).op = "login" => HasLogin(q)
           /\ AtMostOne(q) /\ Head(q).op = "login" => ~HasLogin(Tail(q))
<1>. DEFINE t == Tail(q)
<1>1. /\ Len(q) \in Nat \ {0} /\ DOMAIN q = 1..Len(q)
      /\ t \in Seq(Packets) /\ Len(t) = Len(q) - 1
      /\ \A i \in 1..Len(t) : t[i] = q[i + 1]
      /\ Head(q) = q[1]
  BY HeadTailProperties, LenProperties, EmptySeq DEF Queue
<1>2. DOMAIN t = 1..Len(q) - 1
  BY <1>1, LenProperties
<1>. HIDE DEF t
<1>3. \A i : IsLogin(t, i) => i \in Nat /\ i # 0 /\ IsLogin(q, i + 1)
  BY <1>1, <1>2 DEF IsLogin
<1>4. Head(q).op = "login" => IsLogin(q, 1)
  BY <1>1 DEF IsLogin
<1>5. HasLogin(t) => HasLogin(q)
  BY <1>3 DEF HasLogin, IsLogin
<1>6. ASSUME AtMostOne(q) PROVE AtMostOne(t)
  <2>1. \A i, j : IsLogin(q, i) /\ IsLogin(q, j) => i = j
    BY <1>6 DEF AtMostOne, IsLogin
  <2>2. SUFFICES ASSUME NEW i, NEW j, IsLogin(t, i), IsLogin(t, j) PROVE i = j
    BY DEF AtMostOne
  <2>3. i + 1 = j + 1 /\ i \in Nat /\ j \in Nat
    BY <1>3, <2>1, <2>2
  <2>. QED
    BY <2>3
<1>7. ASSUME AtMostOne(q), Head(q).op = "login" PROVE ~HasLogin(t)
  <2>1. \A i, j : IsLogin(q, i) /\ IsLogin(q, j) => i = j
    BY <1>7 DEF AtMostOne, IsLogin
  <2>2. SUFFICES ASSUME NEW i, IsLogin(t, i) PROVE FALSE
    BY DEF HasLogin
  <2>3. i + 1 = 1 /\ i \in Nat /\ i # 0
    BY <1>3, <1>4, <1>7, <2>1, <2>2
  <2>. QED
    BY <2>3
<1>8. Head(q).op = "login" => HasLogin(q)
  BY <1>4 DEF HasLogin, IsLogin
<1>. QED
  BY <1>5, <1>6, <1>7, <1>8 DEF t

LEMMA NoLogin == ~HasLogin(<<>>) /\ AtMostOne(<<>>)
BY DEF HasLogin, AtMostOne, IsLogin

\* Queues only shrink or stay.
LEMMA FewerLogins ==
    ASSUME OneLogin, alive' \subseteq alive,
           \A x \in alive' : ses'[x].recv = ses[x].recv,
           (copy' = copy /\ stage' = stage) \/ copy' = <<>>,
           logins' = logins \/ logins' = <<>>
    PROVE  OneLogin'
BY NoLogin DEF OneLogin

\* The world thread leaves the packets a session has received alone, but
\* for BeginUpdate.
LEMMA StayRecv ==
    ASSUME TInv, listed # None, NEW r \in Fields, r.recv = ses[listed].recv,
           Become(r) \/ Stay(r) \/ Delete(r)
    PROVE  alive' \subseteq alive /\ \A x \in alive' : ses'[x].recv = ses[x].recv
<1>1. CASE Become(r) \/ Stay(r)
  BY <1>1 DEF Stay, Become, TInv, TypeOK, listVars
<1>2. CASE Delete(r)
  <2>1. /\ \E last : ses' = [ses EXCEPT ![listed] = last]
        /\ alive' = alive \ {listed}
    BY <1>2 DEF Delete
  <2>. QED
    BY <2>1 DEF TInv, TypeOK
<1>. QED
  BY <1>1, <1>2

LEMMA OneLoginStep ==
    ASSUME ~OverlapLogins, TInv, Settled, OneLogin, [Next]_vars
    PROVE  OneLogin'
<1>. USE DEF vars, netVars, listVars, loginVars
<1>1. ASSUME NEW s \in Sockets, HandleAuthSession(s) PROVE OneLogin'
  <2>1. ses[s].recv = <<>> /\ alive' \subseteq alive \cup {s}
    BY <1>1 DEF HandleAuthSession, Settled
  <2>2. \A x \in alive' \ alive : ~HasLogin(ses'[x].recv) /\ AtMostOne(ses'[x].recv)
    BY <1>1, <2>1, NoLogin DEF HandleAuthSession
  <2>3. UNCHANGED <<ses, copy, logins, stage>>
    BY <1>1 DEF HandleAuthSession
  <2>. QED
    BY <2>2, <2>3 DEF OneLogin
<1>2. ASSUME NEW s \in Sockets, AddMessage(s) PROVE OneLogin'
  <2>1. \A x \in alive : ses'[x].recv = ses[x].recv
    BY <1>2 DEF AddMessage, TInv, TypeOK, Fields
  <2>. QED
    BY <1>2, <2>1, FewerLogins DEF AddMessage
<1>3. ASSUME NEW s \in Sockets, NEW packet \in Packets, QueuePacket(s, packet)
      PROVE  /\ route[s] \in alive /\ alive' = alive /\ UNCHANGED <<copy, logins, stage>>
             /\ ses[route[s]].recv \in Queue(Packets)
             /\ ses'[route[s]].recv = Append(ses[route[s]].recv, packet)
             /\ \A x \in alive \ {route[s]} : ses'[x] = ses[x]
  BY <1>3 DEF QueuePacket, TInv, TypeOK, Fields
<1>4. ASSUME NEW s \in Sockets, NEW c \in Characters, AskLogin(s, c) PROVE OneLogin'
  <2>. DEFINE packet == [op |-> "login", id |-> asked + 1, char |-> c]
  <2>1. packet \in Packets /\ QueuePacket(s, packet)
    <3>1. asked + 1 \in 1..MaxLogins
      BY <1>4, SessionAssumption DEF AskLogin, TInv, TypeOK
    <3>. QED
      BY <1>4, <3>1 DEF AskLogin, Packets, Login
  <2>2. logins = <<>> /\ ~HasLogin(copy) /\ \A x \in alive : ~HasLogin(ses[x].recv)
    BY <1>4 DEF AskLogin, LoginUnderWay, HasLogin, IsLogin
  <2>. HIDE DEF packet
  <2>3. AtMostOne(ses'[route[s]].recv)
    BY <1>3, <2>1, <2>2, LoginAppended DEF OneLogin
  <2>4. \A x \in alive \ {route[s]} : ~HasLogin(ses'[x].recv) /\ AtMostOne(ses'[x].recv)
    BY <1>3, <2>1, <2>2 DEF OneLogin
  <2>5. alive' = alive /\ UNCHANGED <<copy, logins, stage>>
    BY <1>3, <2>1
  <2>. QED
    BY <2>2, <2>3, <2>4, <2>5 DEF OneLogin
<1>5. ASSUME NEW s \in Sockets, NEW op \in {"logout", "cancel"}, AskLogout(s, op)
      PROVE  OneLogin'
  <2>. DEFINE packet == [op |-> op]
  <2>1. packet \in Packets /\ QueuePacket(s, packet) /\ packet.op # "login"
    BY <1>5 DEF AskLogout, Packets
  <2>. HIDE DEF packet
  <2>2. /\ route[s] \in alive /\ alive' = alive /\ UNCHANGED <<copy, logins, stage>>
        /\ HasLogin(ses'[route[s]].recv) => HasLogin(ses[route[s]].recv)
        /\ AtMostOne(ses[route[s]].recv) => AtMostOne(ses'[route[s]].recv)
        /\ \A x \in alive \ {route[s]} : ses'[x] = ses[x]
    BY <1>3, <2>1, LoginAppended
  <2>3. \A x \in alive : /\ HasLogin(ses'[x].recv) => HasLogin(ses[x].recv)
                         /\ AtMostOne(ses[x].recv) => AtMostOne(ses'[x].recv)
    BY <2>2
  <2>. QED
    BY <2>2, <2>3 DEF OneLogin
<1>6. ASSUME NEW s \in Sockets, Disconnect(s) PROVE OneLogin'
  BY <1>6, FewerLogins DEF Disconnect
<1>7. CASE AddSessions
  <2>1. copy = <<>>
    BY <1>7 DEF AddSessions, OneLogin
  <2>. QED
    BY <1>7, <2>1, FewerLogins DEF AddSessions
<1>8. CASE BeginUpdate
  <2>1. listed \in alive /\ listed \in Sockets /\ copy' = ses[listed].recv
        /\ alive' = alive /\ logins' = logins /\ stage' = "packets"
    BY <1>8 DEF BeginUpdate, Become, TInv, TypeOK
  <2>2. ses'[listed].recv = <<>> /\ \A x \in alive \ {listed} : ses'[x] = ses[x]
    <3>1. ses[listed] \in Fields
      BY <2>1 DEF TInv, TypeOK
    <3>2. RequestNewSocket(ses[listed]) \in Fields
      BY <3>1, RequestFields
    <3>3. ses' = [ses EXCEPT ![listed] =
                    [RequestNewSocket(ses[listed]) EXCEPT !.messages = <<>>, !.recv = <<>>]]
      BY <1>8 DEF BeginUpdate, Become
    <3>. QED
      BY <2>1, <3>2, <3>3 DEF TInv, TypeOK, Fields
  <2>. QED
    BY <2>1, <2>2, NoLogin DEF OneLogin
<1>9. ASSUME NEW op, NextPacket(op)
      PROVE  /\ stage = "packets" /\ stage' = "packets" /\ listed # None
             /\ ses[listed] \in Fields
             /\ copy \in Queue(Packets) /\ copy # <<>> /\ copy' = Tail(copy) /\ Head(copy).op = op
  BY <1>9 DEF NextPacket, TInv, TypeOK
<1>10. ASSUME NEW op, NextPacket(op), NEW r \in Fields, r.recv = ses[listed].recv, Become(r),
              logins' = logins
       PROVE  OneLogin'
  <2>1. alive' = alive /\ \A x \in alive' : ses'[x].recv = ses[x].recv
    BY <1>9, <1>10, StayRecv DEF Become
  <2>2. /\ HasLogin(copy') => HasLogin(copy)
        /\ AtMostOne(copy) => AtMostOne(copy')
    BY <1>9, <1>10, LoginTaken
  <2>. QED
    BY <1>9, <1>10, <2>1, <2>2 DEF OneLogin
<1>11. CASE HandlePlayerLogin
  <2>. DEFINE r == [ses[listed] EXCEPT !.recently = FALSE]
  <2>1. /\ r \in Fields /\ r.recv = ses[listed].recv
        /\ HandlePlayerReconnect(r) \in Fields /\ HandlePlayerReconnect(r).recv = r.recv
    <3>1. ses[listed] \in Fields
      BY <1>9, <1>11 DEF HandlePlayerLogin
    <3>2. r \in Fields /\ r.recv = ses[listed].recv
      BY <3>1 DEF Fields
    <3>3. LogoutRequest(r, "no", FALSE) \in Fields /\ LogoutRequest(r, "no", FALSE).recv = r.recv
      BY <3>2, LogoutRequestFields DEF Fields
    <3>. QED
      BY <3>2, <3>3, SetOnlineFields DEF HandlePlayerReconnect
  <2>2. NextPacket("login")
    BY <1>11 DEF HandlePlayerLogin
  <2>3. \/ Become(r) /\ logins' = Append(logins, Head(copy))
        \/ Become(r) /\ logins' = logins
        \/ Become(HandlePlayerReconnect(r)) /\ logins' = logins
    BY <1>11 DEF HandlePlayerLogin
  <2>. HIDE DEF r
  <2>4. CASE Become(r) /\ logins' = Append(logins, Head(copy))
    <3>1. HasLogin(copy) /\ ~HasLogin(copy') /\ AtMostOne(copy')
      BY <1>9, <2>2, LoginTaken DEF OneLogin
    <3>2. logins = <<>> /\ Len(logins') = 1
      BY <2>4, <3>1 DEF OneLogin
    <3>3. alive' = alive /\ \A x \in alive' : ses'[x].recv = ses[x].recv
      BY <1>9, <2>1, <2>2, <2>4, StayRecv DEF Become
    <3>. QED
      BY <1>9, <2>2, <3>1, <3>2, <3>3 DEF OneLogin
  <2>. QED
    BY <1>10, <2>1, <2>2, <2>3, <2>4
<1>12. CASE HandleLogoutRequest
  <2>1. ses[listed] \in Fields
    BY <1>9, <1>12 DEF HandleLogoutRequest
  <2>2. PICK r \in {ses[listed], LogoutRequest(ses[listed], "no", FALSE),
                    LogoutRequest(ses[listed], "asked", FALSE), LogoutPlayer(ses[listed])} :
            Become(r)
    BY <1>12 DEF HandleLogoutRequest
  <2>3. r \in Fields /\ r.recv = ses[listed].recv
    BY <2>1, <2>2, LogoutAnswerFields
  <2>. QED
    BY <1>10, <1>12, <2>2, <2>3 DEF HandleLogoutRequest
<1>13. CASE HandleLogoutCancel
  <2>1. ses[listed] \in Fields
    BY <1>9, <1>13 DEF HandleLogoutCancel
  <2>2. LogoutRequest(ses[listed], "no", FALSE) \in Fields
        /\ LogoutRequest(ses[listed], "no", FALSE).recv = ses[listed].recv
    BY <2>1, LogoutRequestFields DEF Fields
  <2>. QED
    BY <1>10, <1>13, <2>1, <2>2 DEF HandleLogoutCancel
<1>14. CASE EndPackets
  BY <1>14, FewerLogins DEF EndPackets
<1>15. ASSUME NEW state, InState(state)
       PROVE  /\ listed # None /\ ses[listed] \in Fields /\ copy' = <<>> /\ logins' = logins
  BY <1>15 DEF InState, OneLogin, TInv, TypeOK
<1>16. ASSUME NEW state, InState(state), NEW r \in Fields, r.recv = ses[listed].recv,
              Stay(r) \/ Delete(r)
       PROVE  OneLogin'
  <2>1. alive' \subseteq alive /\ \A x \in alive' : ses'[x].recv = ses[x].recv
    BY <1>15, <1>16, StayRecv
  <2>. QED
    BY <1>15, <1>16, <2>1, FewerLogins
<1>17. CASE UpdateCreated
  <2>. DEFINE r == ses[listed]
              new == [SetOffline(r) EXCEPT !.socket = r.request, !.request = None]
  <2>1. r \in Fields /\ SetOffline(r) \in Fields /\ SetOffline(r).recv = r.recv
    BY <1>15, <1>17, SetOfflineFields DEF UpdateCreated
  <2>2. /\ [new EXCEPT !.state = "select"] \in Fields
        /\ [new EXCEPT !.state = "select"].recv = r.recv
        /\ [r EXCEPT !.state = "select"] \in Fields
        /\ [r EXCEPT !.state = "select"].recv = r.recv
    BY <2>1 DEF Fields, States
  <2>3. Stay([new EXCEPT !.state = "select"]) \/ Stay([r EXCEPT !.state = "select"])
    BY <1>17 DEF UpdateCreated
  <2>. QED
    BY <1>16, <1>17, <2>2, <2>3 DEF UpdateCreated
<1>18. CASE UpdateSelect
  <2>1. ses[listed] \in Fields /\ InState("select")
    BY <1>15, <1>18 DEF UpdateSelect
  <2>2. \E r \in {ses[listed], KickInPlace(ses[listed]), LogoutPlayer(ses[listed])} :
            Stay(r) \/ Delete(r)
    BY <1>18 DEF UpdateSelect
  <2>. QED
    BY <1>16, <2>1, <2>2, LogoutPlayerFields, KickFields
<1>19. CASE UpdateReady
  <2>1. ses[listed] \in Fields /\ InState("ready")
    BY <1>15, <1>19 DEF UpdateReady
  <2>2. \E r \in {ses[listed], SetOffline(ses[listed]), LogoutPlayer(ses[listed])} :
            Stay(r) \/ Delete(r)
    BY <1>19 DEF UpdateReady
  <2>. QED
    BY <1>16, <2>1, <2>2, LogoutPlayerFields, SetOfflineFields
<1>20. CASE UpdateOffline
  <2>1. ses[listed] \in Fields /\ InState("offline")
    BY <1>15, <1>20 DEF UpdateOffline
  <2>2. \E r \in {ses[listed], LogoutPlayer(ses[listed])} : Stay(r) \/ Delete(r)
    BY <1>20 DEF UpdateOffline
  <2>. QED
    BY <1>16, <2>1, <2>2, LogoutPlayerFields
<1>21. ASSUME LoginCallback, \A x \in alive : ses'[x].recv = ses[x].recv
       PROVE  OneLogin'
  <2>1. logins' = <<>> /\ UNCHANGED <<alive, copy, stage>>
    <3>1. Len(logins) = 1 /\ logins \in Seq(Login)
      BY <1>21 DEF LoginCallback, OneLogin, TInv, TypeOK, Queue
    <3>. QED
      BY <1>21, <3>1, HeadTailProperties, EmptySeq DEF LoginCallback
  <2>. QED
    BY <1>21, <2>1, FewerLogins
<1>22. ASSUME listed # None, LoginCallback
       PROVE  /\ ses[listed] \in Fields /\ listed \in Sockets
              /\ [ses[listed] EXCEPT !.player = NewPlayer] \in Fields
              /\ [ses[listed] EXCEPT !.player = NewPlayer].recv = ses[listed].recv
  <2>1. Head(logins) \in Login
    BY <1>22, QueueHead DEF LoginCallback, TInv, TypeOK
  <2>2. NewPlayer \in Player /\ listed \in Sockets /\ ses[listed] \in Fields
    BY <1>22, <2>1 DEF NewPlayer, Login, Player, TInv, TypeOK
  <2>. QED
    BY <2>2 DEF Fields
<1>23. CASE PlayerLoaded
  <2>1. CASE listed = None
    BY <1>21, <1>23, <2>1 DEF PlayerLoaded
  <2>2. CASE listed # None
    <3>. DEFINE r == SetOnline([ses[listed] EXCEPT !.player = NewPlayer])
    <3>1. LoginCallback /\ ses' = [ses EXCEPT ![listed] = r]
      BY <1>23, <2>2 DEF PlayerLoaded
    <3>2. r.recv = ses[listed].recv
      BY <1>22, <2>2, <3>1, SetOnlineFields
    <3>. HIDE DEF r
    <3>. QED
      BY <1>21, <3>1, <3>2 DEF TInv, TypeOK
  <2>. QED
    BY <2>1, <2>2
<1>24. CASE PlayerNotLoaded
  <2>. DEFINE q == SetOnline([ses[listed] EXCEPT !.player = NewPlayer])
              r == LogoutRequest(q, "due", TRUE)
  <2>1. LoginCallback /\ listed # None /\ ses' = [ses EXCEPT ![listed] = r]
    BY <1>24 DEF PlayerNotLoaded
  <2>2. q \in Fields /\ q.recv = ses[listed].recv
    BY <1>22, <2>1, SetOnlineFields
  <2>3. r.recv = ses[listed].recv
    BY <2>2, LogoutRequestFields DEF Fields
  <2>. HIDE DEF q, r
  <2>. QED
    BY <1>21, <2>1, <2>3 DEF TInv, TypeOK
<1>25. ASSUME listed # None, NEW r \in Fields, r.recv = ses[listed].recv,
              Stay(r) \/ Become(r), UNCHANGED <<copy, stage, logins>>
       PROVE  OneLogin'
  BY <1>25, StayRecv, FewerLogins
<1>26. CASE KickPlayer
  <2>1. listed # None /\ ses[listed] \in Fields
    BY <1>26 DEF KickPlayer, TInv, TypeOK
  <2>2. LogoutRequest(ses[listed], "due", TRUE) \in Fields
        /\ LogoutRequest(ses[listed], "due", TRUE).recv = ses[listed].recv
    BY <2>1, LogoutRequestFields DEF Fields
  <2>. QED
    BY <1>25, <1>26, <2>1, <2>2 DEF KickPlayer
<1>27. CASE CleanupsBeforeStop
  <2>1. CASE listed = None
    BY <1>27, <2>1, FewerLogins DEF CleanupsBeforeStop
  <2>2. CASE listed # None
    <3>1. ses[listed] \in Fields
      BY <2>2 DEF TInv, TypeOK
    <3>. QED
      BY <1>25, <1>27, <2>2, <3>1, KickFields DEF CleanupsBeforeStop
  <2>. QED
    BY <2>1, <2>2
<1>28. CASE Clock
  <2>1. listed # None /\ ses[listed] \in Fields
    BY <1>28 DEF Clock, TInv, TypeOK
  <2>2. [ses[listed] EXCEPT !.logout = IF @ = "asked" THEN "due" ELSE "overdue"] \in Fields
        /\ [ses[listed] EXCEPT !.logout = IF @ = "asked" THEN "due" ELSE "overdue"].recv = ses[listed].recv
    BY <2>1 DEF Fields
  <2>. QED
    BY <1>25, <1>28, <2>1, <2>2 DEF Clock
<1>29. CASE UNCHANGED vars
  BY <1>29, FewerLogins
<1>. QED
  BY <1>1, <1>2, <1>4, <1>5, <1>6, <1>7, <1>8, <1>11, <1>12, <1>13, <1>14, <1>17, <1>18,
     <1>19, <1>20, <1>23, <1>24, <1>26, <1>27, <1>28, <1>29
  DEF Next, Network, UpdateSessions, Stopped

-----------------------------------------------------------------------------
(* The character of the listed session.                                    *)

Core == Settled /\ Awaiting /\ Owned

(* What the world can see of a step: nobody is there before it, or after   *)
(* it, or the same character is there, not handed from one client to       *)
(* another.                                                                *)
Visible ==
    \/ world = {} \/ world' = {}
    \/ /\ world' = world /\ listed' = listed
       /\ ses'[listed].player = ses[listed].player
       /\ ses[listed].state = "ready" /\ ses'[listed].state = "ready"
             => ses'[listed].socket = ses[listed].socket

LEMMA CharactersAreNotNone == None \notin Player
BY SessionAssumption

\* The world holds the character of the listed session or nobody, so Unload
\* empties it.
LEMMA WorldOfOne ==
    ASSUME TInv, Owned
    PROVE  /\ \A p \in world : listed # None /\ ses[listed].player = p /\ p.session = listed
           /\ listed = None \/ ses[listed].player = None => world = {}
           /\ \A r : Unload(ses[listed], r) => world' = IF r.player = None THEN {} ELSE world
BY CharactersAreNotNone, SessionAssumption DEF TInv, TypeOK, Owned, Unload, Player

LEMMA AdjustCore ==
    ASSUME TInv, Core, listed # None, NEW r \in Fields, Sound(r), Become(r),
           sock' = sock \/ Close(ses[listed], r),
           \/ world' = world /\ r.player = ses[listed].player
           \/ Unload(ses[listed], r) /\ r.player \in {ses[listed].player, None},
           logins' # <<>> => Awaits(r, stopping'),
           ses[listed].state = "ready" /\ r.state = "ready" => r.socket = ses[listed].socket
    PROVE  Core' /\ Visible
<1>1. /\ listed \in alive /\ listed \in Sockets /\ listed' = listed /\ alive' = alive
      /\ ses'[listed] = r /\ \A x \in Sockets \ {listed} : ses'[x] = ses[x]
  BY DEF Become, listVars, TInv, TypeOK
<1>2. \A x \in Sockets : sock'[x] = "fresh" => sock[x] = "fresh"
  BY DEF Close, TInv, TypeOK
<1>3. sock[listed] # "fresh"
  BY <1>1 DEF TInv, Added
<1>4. alive \subseteq Sockets
  BY DEF TInv, TypeOK
<1>5. \A x \in alive' : Sound(ses'[x])
  BY <1>1, <1>4 DEF Core, Settled
<1>6. \A x \in Sockets :
         /\ x # listed' /\ x \in alive' => Untouched(ses'[x])
         /\ sock'[x] = "fresh" => Untouched(ses'[x]) /\ ses'[x].recv = <<>>
  BY <1>1, <1>2, <1>3 DEF Core, Settled
<1>7. Settled'
  BY <1>5, <1>6 DEF Settled
<1>8. Awaiting'
  BY <1>1 DEF Awaiting
<1>9. \/ world' = world /\ r.player = ses[listed].player
      \/ world' = {}
  BY WorldOfOne DEF Core
<1>10. Owned'
  BY <1>1, <1>9, WorldOfOne DEF Core, Owned
<1>11. Visible
  BY <1>1, <1>9 DEF Visible
<1>. QED
  BY <1>7, <1>8, <1>10, <1>11 DEF Core

LEMMA DeleteCore ==
    ASSUME TInv, Core, listed # None, NEW r \in Fields, Sound(r), Delete(r)
    PROVE  Core' /\ Visible /\ world' = {} /\ listed' = None
<1>. DEFINE last == IF r.player # None THEN LogoutPlayer(r) ELSE r
<1>1. last.player = None
  BY LogoutPlayerFields
<1>2. /\ Unload(ses[listed], last) /\ ses' = [ses EXCEPT ![listed] = last]
  BY DEF Delete
<1>. HIDE DEF last
<1>3. world' = {}
  BY <1>1, <1>2, WorldOfOne DEF Core
<1>4. /\ listed' = None /\ alive' = alive \ {listed}
      /\ \A x \in Sockets : sock'[x] = "fresh" => sock[x] = "fresh"
  BY DeleteTypes
<1>5. /\ \A x \in Sockets \ {listed} : ses'[x] = ses[x]
      /\ alive \subseteq Sockets /\ sock[listed] # "fresh" /\ None \notin Sockets
  BY <1>2, SessionAssumption DEF TInv, TypeOK, Added
<1>6. Settled'
  BY <1>4, <1>5 DEF Core, Settled
<1>7. Awaiting' /\ Owned'
  BY <1>3, <1>4 DEF Awaiting, Owned
<1>. QED
  BY <1>3, <1>4, <1>6, <1>7 DEF Core, Visible

\* A step that leaves the sessions of the world thread alone.
LEMMA IdleCore ==
    ASSUME TInv, Core, UNCHANGED <<listed, world, stopping>>, logins' \in {logins, <<>>},
           \A x \in Sockets : sock'[x] = "fresh" => sock[x] = "fresh" /\ ses'[x] = ses[x],
           \A x \in alive' : x \in alive \/ sock[x] = "fresh",
           alive' \subseteq Sockets,
           \A x \in Sockets :
              /\ ses'[x].state = ses[x].state /\ ses'[x].player = ses[x].player
              /\ ses'[x].socket = ses[x].socket
              /\ ses'[x].logout = ses[x].logout /\ ses'[x].recently = ses[x].recently
    PROVE  Core' /\ Visible
<1>1. /\ \A x \in Sockets : Sound(ses[x]) => Sound(ses'[x])
      /\ \A x \in Sockets : Untouched(ses[x]) => Untouched(ses'[x]) /\ Sound(ses'[x])
  BY DEF Sound, Untouched
<1>2. listed \in Sockets \cup {None}
  BY DEF TInv, TypeOK
<1>3. Settled'
  BY <1>1 DEF Core, Settled
<1>4. Awaiting'
  BY <1>2 DEF Core, Awaiting, Awaits
<1>5. Owned'
  BY <1>2, WorldOfOne DEF Core, Owned
<1>6. Visible
  BY <1>2, WorldOfOne DEF Core, Visible
<1>. QED
  BY <1>3, <1>4, <1>5, <1>6 DEF Core

\* What is known of the listed session when the world thread works on it.
LEMMA ListedFacts ==
    ASSUME TInv, Core, listed # None
    PROVE  /\ listed \in alive /\ listed \in Sockets
           /\ ses[listed] \in Fields /\ Sound(ses[listed])
           /\ logins # <<>> => ses[listed].player = None /\ (~stopping => ~ses[listed].recently)
           /\ ses[listed].player # None => logins = <<>>
BY DEF TInv, TypeOK, Core, Settled, Awaiting, Awaits

LEMMA CoreStep ==
    ASSUME ~OverlapLogins, ~KickAnytime, TInv, Core, OneLogin, [Next]_vars
    PROVE  Core' /\ Visible
<1>. USE DEF vars, netVars, listVars, loginVars
<1>1. ASSUME NEW s \in Sockets, HandleAuthSession(s) PROVE Core' /\ Visible
  <2>1. /\ alive' \subseteq alive \cup {s} /\ sock[s] = "fresh"
        /\ \A x \in Sockets : sock'[x] = "fresh" => sock[x] = "fresh"
    BY <1>1 DEF HandleAuthSession, TInv, TypeOK
  <2>2. alive' \subseteq Sockets
    BY <2>1 DEF TInv, TypeOK
  <2>. QED
    BY <1>1, <2>1, <2>2, IdleCore DEF HandleAuthSession
<1>2. ASSUME NEW s \in Sockets, AddMessage(s) PROVE Core' /\ Visible
  <2>1. \A x \in Sockets :
           /\ ses'[x].state = ses[x].state /\ ses'[x].player = ses[x].player
           /\ ses'[x].socket = ses[x].socket
           /\ ses'[x].logout = ses[x].logout /\ ses'[x].recently = ses[x].recently
    BY <1>2 DEF AddMessage, TInv, TypeOK, Fields
  <2>2. \A x \in Sockets : sock'[x] = "fresh" => sock[x] = "fresh" /\ ses'[x] = ses[x]
    BY <1>2 DEF AddMessage, TInv, TypeOK, Added
  <2>. QED
    BY <1>2, <2>1, <2>2, IdleCore DEF AddMessage, TInv, TypeOK
<1>3. ASSUME NEW s \in Sockets, NEW packet, QueuePacket(s, packet) PROVE Core' /\ Visible
  <2>1. \A x \in Sockets :
           /\ ses'[x].state = ses[x].state /\ ses'[x].player = ses[x].player
           /\ ses'[x].socket = ses[x].socket
           /\ ses'[x].logout = ses[x].logout /\ ses'[x].recently = ses[x].recently
    BY <1>3 DEF QueuePacket, TInv, TypeOK, Fields
  <2>2. \A x \in Sockets : sock'[x] = "fresh" => sock[x] = "fresh" /\ ses'[x] = ses[x]
    BY <1>3 DEF QueuePacket, TInv, TypeOK, Added
  <2>. QED
    BY <1>3, <2>1, <2>2, IdleCore DEF QueuePacket, TInv, TypeOK
<1>4. ASSUME NEW s \in Sockets, Disconnect(s) PROVE Core' /\ Visible
  <2>1. \A x \in Sockets : sock'[x] = "fresh" => sock[x] = "fresh"
    BY <1>4 DEF Disconnect, TInv, TypeOK
  <2>. QED
    BY <1>4, <2>1, IdleCore DEF Disconnect, TInv, TypeOK
<1>5. CASE AddSessions
  <2>1. CASE listed' = listed
    BY <1>5, <2>1, IdleCore DEF AddSessions, TInv, TypeOK
  <2>2. CASE listed' # listed
    <3>1. /\ listed = None /\ addQueue # <<>> /\ listed' = Head(addQueue)
          /\ UNCHANGED <<sock, alive, ses, logins, world, stopping>>
      BY <1>5, <2>2 DEF AddSessions
    <3>2. listed' \in alive
      BY <3>1, QueueHead DEF TInv, TypeOK
    <3>3. listed' \in Sockets /\ listed' # listed /\ Untouched(ses[listed'])
      BY <3>1, <3>2, SessionAssumption DEF TInv, TypeOK, Core, Settled
    <3>4. world = {}
      BY <3>1, WorldOfOne DEF Core
    <3>5. Settled'
      BY <3>1, <3>3, SessionAssumption DEF Core, Settled
    <3>6. Awaiting' /\ Owned'
      BY <3>1, <3>3, <3>4 DEF Awaiting, Awaits, Untouched, Owned
    <3>. QED
      BY <3>4, <3>5, <3>6 DEF Core, Visible
  <2>. QED
    BY <2>1, <2>2
<1>6. CASE BeginUpdate
  <2>. DEFINE q == RequestNewSocket(ses[listed])
              r == [q EXCEPT !.messages = <<>>, !.recv = <<>>]
  <2>1. listed # None
    BY <1>6 DEF BeginUpdate, TInv, TypeOK
  <2>2. /\ q \in Fields /\ q.player = ses[listed].player /\ Sound(q)
        /\ q.recently = ses[listed].recently /\ q.socket = ses[listed].socket
    BY <2>1, ListedFacts, RequestFields
  <2>3. /\ r \in Fields /\ r.player = ses[listed].player /\ Sound(r)
        /\ r.recently = ses[listed].recently /\ r.socket = ses[listed].socket
    BY <2>2, QueueEmpty DEF Fields, Sound
  <2>4. Become(r) /\ UNCHANGED <<sock, world, logins, stopping>>
    BY <1>6 DEF BeginUpdate
  <2>. HIDE DEF q, r
  <2>5. logins' # <<>> => Awaits(r, stopping')
    BY <2>1, <2>3, <2>4, ListedFacts DEF Awaits
  <2>. QED
    BY <2>1, <2>3, <2>4, <2>5, AdjustCore
<1>7. ASSUME NEW op, NextPacket(op)
      PROVE  /\ listed # None /\ ses[listed] \in Fields /\ Sound(ses[listed])
             /\ ses[listed].socket # None /\ ses[listed].state # "offline"
             /\ stopping' = stopping
  <2>1. listed # None /\ ~SocketGone(ses[listed]) /\ stopping' = stopping
    BY <1>7 DEF NextPacket, TInv, TypeOK
  <2>. QED
    BY <2>1, ListedFacts, SessionAssumption DEF SocketGone, Sound
<1>8. CASE HandlePlayerLogin
  <2>. DEFINE r == [ses[listed] EXCEPT !.recently = FALSE]
  <2>1. NextPacket("login") /\ UNCHANGED <<sock, world>>
    BY <1>8 DEF HandlePlayerLogin
  <2>2. listed # None /\ stopping' = stopping
    BY <1>7, <2>1
  <2>3. /\ r \in Fields /\ Sound(r) /\ r.player = ses[listed].player /\ ~r.recently
        /\ r.socket = ses[listed].socket
    BY <1>7, <2>1 DEF Fields, Sound
  <2>4. \/ Become(r) /\ r.player = None
        \/ Become(r) /\ logins' = logins /\ r.player # None
        \/ Become(HandlePlayerReconnect(r)) /\ logins' = logins /\ r.player # None
    BY <1>8 DEF HandlePlayerLogin
  <2>. HIDE DEF r
  <2>5. CASE Become(r) /\ (r.player = None \/ (logins' = logins /\ r.player # None))
    <3>1. logins' # <<>> => Awaits(r, stopping')
      BY <2>2, <2>3, <2>5, ListedFacts DEF Awaits
    <3>. QED
      BY <2>1, <2>2, <2>3, <2>5, <3>1, AdjustCore
  <2>6. CASE Become(HandlePlayerReconnect(r)) /\ logins' = logins /\ r.player # None
    <3>. DEFINE q == LogoutRequest(r, "no", FALSE)
    <3>1. /\ q \in Fields /\ q.player = r.player /\ q.socket = r.socket
          /\ q.recently = r.recently /\ q.state = r.state /\ q.logout = "no"
      BY <2>3, LogoutRequestFields
    <3>2. Sound(q)
      BY <1>7, <2>1, <2>3, <3>1 DEF Sound
    <3>. HIDE DEF q
    <3>3. /\ SetOnline(q) \in Fields /\ SetOnline(q).player = r.player /\ Sound(SetOnline(q))
          /\ SetOnline(q).socket = r.socket
      BY <3>1, <3>2, SetOnlineFields DEF Sound
    <3>4. Become(SetOnline(q))
      BY <2>6 DEF HandlePlayerReconnect, q
    <3>5. logins' = <<>>
      BY <2>2, <2>3, <2>6, ListedFacts
    <3>. QED
      BY <2>1, <2>2, <2>3, <3>3, <3>4, <3>5, AdjustCore
  <2>. QED
    BY <2>4, <2>5, <2>6
<1>9. CASE HandleLogoutRequest
  <2>1. NextPacket("logout") /\ logins' = logins
    BY <1>9 DEF HandleLogoutRequest
  <2>2. PICK r \in {ses[listed], LogoutRequest(ses[listed], "no", FALSE),
                    LogoutRequest(ses[listed], "asked", FALSE), LogoutPlayer(ses[listed])} :
            /\ Become(r) /\ Close(ses[listed], r) /\ Unload(ses[listed], r)
            /\ ~LoggedIn => r = ses[listed]
    BY <1>9 DEF HandleLogoutRequest
  <2>3. LoggedIn => ses[listed].player # None
    BY CharactersAreNotNone DEF LoggedIn, TInv, TypeOK
  <2>4. /\ listed # None /\ stopping' = stopping /\ r \in Fields /\ Sound(r)
        /\ r.player \in {ses[listed].player, None}
        /\ r.state = "ready" => r.socket = ses[listed].socket
    BY <1>7, <2>1, <2>2, <2>3, LogoutAnswerFields
  <2>5. logins' # <<>> => Awaits(r, stopping')
    BY <2>1, <2>2, <2>3, <2>4, ListedFacts DEF Awaits
  <2>. QED
    BY <2>2, <2>4, <2>5, AdjustCore
<1>10. CASE HandleLogoutCancel
  <2>1. NextPacket("cancel") /\ UNCHANGED <<sock, world, logins>>
    BY <1>10 DEF HandleLogoutCancel
  <2>2. LoggedIn => ses[listed].player # None
    BY CharactersAreNotNone DEF LoggedIn, TInv, TypeOK
  <2>3. PICK r \in {ses[listed], LogoutRequest(ses[listed], "no", FALSE)} :
            Become(r) /\ (~LoggedIn => r = ses[listed])
    BY <1>10 DEF HandleLogoutCancel
  <2>4. /\ listed # None /\ stopping' = stopping /\ r \in Fields /\ Sound(r)
        /\ r.player = ses[listed].player /\ r.recently = ses[listed].recently
        /\ r.socket = ses[listed].socket
    <3>1. CASE r = ses[listed]
      BY <1>7, <2>1, <3>1
    <3>2. CASE r = LogoutRequest(ses[listed], "no", FALSE)
      <4>1. /\ r \in Fields /\ r.player = ses[listed].player /\ r.logout = "no"
            /\ r.recently = ses[listed].recently /\ r.state = ses[listed].state
            /\ r.socket = ses[listed].socket
        BY <1>7, <2>1, <3>2, LogoutRequestFields
      <4>. QED
        BY <1>7, <2>1, <4>1 DEF Sound
    <3>. QED
      BY <2>3, <3>1, <3>2
  <2>5. logins' # <<>> => Awaits(r, stopping')
    BY <2>1, <2>4, ListedFacts DEF Awaits
  <2>. QED
    BY <2>1, <2>3, <2>4, <2>5, AdjustCore
<1>11. CASE EndPackets
  BY <1>11, IdleCore DEF EndPackets, TInv, TypeOK
<1>12. ASSUME NEW state, InState(state)
       PROVE  /\ listed # None /\ ses[listed].state = state
              /\ logins' = logins /\ stopping' = stopping
  BY <1>12 DEF InState, TInv, TypeOK
<1>13. ASSUME NEW state, InState(state), NEW r \in Fields, Sound(r), Stay(r),
              r.player \in {ses[listed].player, None},
              r.recently = ses[listed].recently \/ logins = <<>>,
              state = "ready" /\ r.state = "ready" => r.socket = ses[listed].socket
       PROVE  Core' /\ Visible
  <2>1. logins' # <<>> => Awaits(r, stopping')
    BY <1>12, <1>13, ListedFacts DEF Awaits
  <2>. QED
    BY <1>12, <1>13, <2>1, AdjustCore DEF Stay
<1>14. CASE UpdateCreated
  <2>. DEFINE r == ses[listed]
              new == [SetOffline(r) EXCEPT !.socket = r.request, !.request = None]
              next == [new EXCEPT !.state = "select"]
              same == [r EXCEPT !.state = "select"]
  <2>1. InState("created") /\ (Stay(next) \/ Stay(same))
    BY <1>14 DEF UpdateCreated
  <2>2. r \in Fields /\ Sound(r)
    BY <1>12, <2>1, ListedFacts
  <2>3. /\ SetOffline(r) \in Fields /\ SetOffline(r).player = r.player
        /\ SetOffline(r).recently = r.recently
        /\ r.player = None => SetOffline(r).logout = r.logout
    BY <2>2, SetOfflineFields
  <2>4. /\ next \in Fields /\ Sound(next) /\ next.player = r.player
        /\ next.recently = r.recently
    BY <2>2, <2>3 DEF Fields, States, Sound
  <2>5. /\ same \in Fields /\ Sound(same) /\ same.player = r.player
        /\ same.recently = r.recently
    BY <2>2 DEF Fields, States, Sound
  <2>. HIDE DEF next, same
  <2>. QED
    BY <1>13, <2>1, <2>4, <2>5
<1>15. CASE UpdateSelect
  <2>1. /\ InState("select")
        /\ \/ Delete(ses[listed]) \/ Delete(KickInPlace(ses[listed])) \/ Stay(ses[listed])
           \/ ShouldLogOut(ses[listed]) /\ Stay(LogoutPlayer(ses[listed]))
    BY <1>15 DEF UpdateSelect
  <2>2. listed # None /\ ses[listed] \in Fields /\ Sound(ses[listed])
    BY <1>12, <2>1, ListedFacts
  <2>3. /\ KickInPlace(ses[listed]) \in Fields /\ Sound(KickInPlace(ses[listed]))
        /\ LogoutPlayer(ses[listed]) \in Fields /\ Sound(LogoutPlayer(ses[listed]))
        /\ LogoutPlayer(ses[listed]).player = None
    BY <2>2, KickFields, LogoutPlayerFields
  <2>4. ShouldLogOut(ses[listed]) => logins = <<>>
    BY <2>2, ListedFacts DEF ShouldLogOut, Sound
  <2>. QED
    BY <1>13, <2>1, <2>2, <2>3, <2>4, DeleteCore
<1>16. CASE UpdateReady
  <2>1. /\ InState("ready")
        /\ \/ Delete(ses[listed]) \/ Stay(SetOffline(ses[listed]))
           \/ Stay(ses[listed]) \/ Stay(LogoutPlayer(ses[listed]))
    BY <1>16 DEF UpdateReady
  <2>2. /\ listed # None /\ ses[listed] \in Fields /\ Sound(ses[listed])
        /\ ses[listed].player # None /\ logins = <<>>
    BY <1>12, <2>1, ListedFacts DEF Sound
  <2>3. /\ LogoutPlayer(ses[listed]) \in Fields /\ Sound(LogoutPlayer(ses[listed]))
        /\ LogoutPlayer(ses[listed]).player = None
        /\ LogoutPlayer(ses[listed]).state = "select"
    BY <2>2, LogoutPlayerFields DEF Sound
  <2>4. /\ SetOffline(ses[listed]).state = "offline"
        /\ SetOffline(ses[listed]) \in Fields /\ Sound(SetOffline(ses[listed]))
        /\ SetOffline(ses[listed]).player = ses[listed].player
    BY <2>2, SetOfflineFields DEF Sound
  <2>. QED
    BY <1>13, <2>1, <2>2, <2>3, <2>4, DeleteCore
<1>17. CASE UpdateOffline
  <2>1. /\ InState("offline")
        /\ \/ Delete(LogoutPlayer(ses[listed]))
           \/ Stay(ses[listed]) \/ Stay(LogoutPlayer(ses[listed]))
    BY <1>17 DEF UpdateOffline
  <2>2. /\ listed # None /\ ses[listed] \in Fields /\ Sound(ses[listed])
        /\ ses[listed].player # None /\ logins = <<>>
    BY <1>12, <2>1, ListedFacts DEF Sound
  <2>3. /\ LogoutPlayer(ses[listed]) \in Fields /\ Sound(LogoutPlayer(ses[listed]))
        /\ LogoutPlayer(ses[listed]).player = None
    BY <2>2, LogoutPlayerFields
  <2>. QED
    BY <1>13, <2>1, <2>2, <2>3, DeleteCore
<1>18. ASSUME LoginCallback
       PROVE  /\ logins' = <<>> /\ logins # <<>> /\ ~stopping
              /\ UNCHANGED <<sock, alive, listed, stopping>>
  <2>1. Len(logins) = 1 /\ logins \in Seq(Login) /\ logins # <<>>
    BY <1>18 DEF LoginCallback, OneLogin, TInv, TypeOK, Queue
  <2>. QED
    BY <1>18, <2>1, HeadTailProperties, EmptySeq DEF LoginCallback
<1>19. ASSUME LoginCallback, listed # None,
              NEW r \in Fields, Sound(r), r.player = NewPlayer,
              ses' = [ses EXCEPT ![listed] = r], world' \in {world, world \cup {NewPlayer}}
       PROVE  Core' /\ Visible
  <2>1. /\ listed \in Sockets /\ listed \in alive /\ world = {} /\ sock[listed] # "fresh"
    BY <1>18, <1>19, ListedFacts, WorldOfOne DEF Core, TInv, Added
  <2>2. /\ ses'[listed] = r /\ \A x \in Sockets \ {listed} : ses'[x] = ses[x]
        /\ alive \subseteq Sockets
    BY <1>19, <2>1 DEF TInv, TypeOK
  <2>3. Settled'
    BY <1>18, <1>19, <2>1, <2>2 DEF Core, Settled
  <2>4. Awaiting' /\ Owned'
    BY <1>18, <1>19, <2>1, <2>2 DEF Awaiting, Owned, NewPlayer
  <2>. QED
    BY <2>1, <2>3, <2>4 DEF Core, Visible
<1>20. ASSUME LoginCallback, listed # None
       PROVE  LET r == SetOnline([ses[listed] EXCEPT !.player = NewPlayer])
              IN  r \in Fields /\ Sound(r) /\ r.player = NewPlayer
  <2>. DEFINE q == [ses[listed] EXCEPT !.player = NewPlayer]
  <2>1. Head(logins) \in Login
    BY <1>20, QueueHead DEF LoginCallback, TInv, TypeOK
  <2>2. NewPlayer \in Player /\ NewPlayer # None
    BY <1>20, <2>1, CharactersAreNotNone DEF NewPlayer, Login, Player, TInv, TypeOK
  <2>3. /\ ses[listed] \in Fields /\ Sound(ses[listed])
        /\ ses[listed].player = None /\ ~ses[listed].recently
    BY <1>18, <1>20, ListedFacts
  <2>4. q \in Fields /\ Sound(q) /\ q.player = NewPlayer
    BY <2>2, <2>3 DEF Fields, Sound
  <2>. HIDE DEF q
  <2>5. SetOnline(q) \in Fields /\ Sound(SetOnline(q)) /\ SetOnline(q).player = NewPlayer
    BY <2>4, SetOnlineFields DEF Sound
  <2>. QED
    BY <2>5 DEF q
<1>21. CASE PlayerLoaded
  <2>1. CASE listed = None
    BY <1>18, <1>21, <2>1, IdleCore DEF PlayerLoaded, TInv, TypeOK
  <2>2. CASE listed # None
    BY <1>19, <1>20, <1>21, <2>2 DEF PlayerLoaded
  <2>. QED
    BY <2>1, <2>2
<1>22. CASE PlayerNotLoaded
  <2>. DEFINE q == SetOnline([ses[listed] EXCEPT !.player = NewPlayer])
              r == LogoutRequest(q, "due", TRUE)
  <2>1. /\ LoginCallback /\ listed # None /\ ses' = [ses EXCEPT ![listed] = r]
        /\ world' = world
    BY <1>22 DEF PlayerNotLoaded
  <2>2. q \in Fields /\ Sound(q) /\ q.player = NewPlayer
    BY <1>20, <2>1
  <2>3. NewPlayer # None
    <3>1. Head(logins) \in Login
      BY <2>1, QueueHead DEF LoginCallback, TInv, TypeOK
    <3>. QED
      BY <2>1, <3>1, CharactersAreNotNone DEF NewPlayer, Login, Player, TInv, TypeOK
  <2>. HIDE DEF q
  <2>4. r \in Fields /\ Sound(r) /\ r.player = NewPlayer
    BY <2>2, <2>3, LogoutRequestFields DEF Sound
  <2>. HIDE DEF r
  <2>. QED
    BY <1>19, <2>1, <2>4
<1>23. CASE KickPlayer
  <2>. DEFINE r == LogoutRequest(ses[listed], "due", TRUE)
  <2>1. /\ listed # None /\ ses[listed].player # None /\ Become(r)
        /\ UNCHANGED <<sock, stopping, logins, world>>
    BY <1>23 DEF KickPlayer
  <2>2. ses[listed] \in Fields /\ Sound(ses[listed]) /\ logins = <<>>
    BY <2>1, ListedFacts
  <2>3. /\ r \in Fields /\ Sound(r) /\ r.player = ses[listed].player
        /\ r.socket = ses[listed].socket
    BY <2>1, <2>2, LogoutRequestFields DEF Sound
  <2>. HIDE DEF r
  <2>. QED
    BY <2>1, <2>2, <2>3, AdjustCore
<1>24. CASE CleanupsBeforeStop
  <2>1. logins' = logins /\ stopping' = TRUE
    BY <1>24 DEF CleanupsBeforeStop
  <2>2. CASE listed = None
    <3>1. Settled' /\ Owned' /\ Awaiting'
      BY <1>24, <2>2 DEF CleanupsBeforeStop, Core, Settled, Owned, Awaiting
    <3>2. Visible
      BY <2>2, WorldOfOne DEF Core, Visible
    <3>. QED
      BY <3>1, <3>2 DEF Core
  <2>3. CASE listed # None
    <3>1. Stay(KickInPlace(ses[listed]))
      BY <1>24, <2>3 DEF CleanupsBeforeStop
    <3>2. /\ KickInPlace(ses[listed]) \in Fields /\ Sound(KickInPlace(ses[listed]))
          /\ KickInPlace(ses[listed]).player = None
          /\ KickInPlace(ses[listed]).state # "ready"
      BY <2>3, ListedFacts, KickFields DEF Sound
    <3>3. Awaits(KickInPlace(ses[listed]), stopping')
      BY <2>1, <3>2 DEF Awaits
    <3>. QED
      BY <2>3, <3>1, <3>2, <3>3, AdjustCore DEF Stay
  <2>. QED
    BY <2>2, <2>3
<1>25. CASE Clock
  <2>. DEFINE r == [ses[listed] EXCEPT !.logout = IF @ = "asked" THEN "due" ELSE "overdue"]
  <2>1. /\ listed # None /\ ses[listed].logout \in {"asked", "due"} /\ Become(r)
        /\ UNCHANGED <<sock, stopping, logins, world>>
    BY <1>25 DEF Clock
  <2>2. ses[listed] \in Fields /\ Sound(ses[listed])
    BY <2>1, ListedFacts
  <2>3. /\ r \in Fields /\ Sound(r) /\ r.player = ses[listed].player /\ r.player # None
        /\ r.socket = ses[listed].socket
    BY <2>1, <2>2 DEF Fields, Sound
  <2>4. logins = <<>>
    BY <2>1, <2>3, ListedFacts
  <2>. HIDE DEF r
  <2>. QED
    BY <2>1, <2>3, <2>4, AdjustCore
<1>26. CASE UNCHANGED vars
  BY <1>26, IdleCore DEF TInv, TypeOK
<1>. QED
  BY <1>1, <1>2, <1>3, <1>4, <1>5, <1>6, <1>8, <1>9, <1>10, <1>11, <1>14, <1>15, <1>16,
     <1>17, <1>21, <1>22, <1>23, <1>24, <1>25, <1>26
  DEF Next, Network, UpdateSessions, Stopped, AskLogin, AskLogout

-----------------------------------------------------------------------------
(* What is promised to the world.                                          *)

IInv == TInv /\ Core /\ OneLogin

LEMMA InvInit == Init => IInv
<1>1. ASSUME Init PROVE TInv
  BY <1>1, TypesAtStart
<1>2. ASSUME Init PROVE Core
  <2>1. \A x \in Sockets : Untouched(ses[x]) /\ ses[x].recv = <<>>
    BY <1>2, NewSessionFields DEF Init
  <2>. QED
    BY <1>2, <2>1 DEF Init, Core, Settled, Awaiting, Owned
<1>3. ASSUME Init PROVE OneLogin
  BY <1>3, NoLogin DEF Init, OneLogin
<1>. QED
  BY <1>1, <1>2, <1>3 DEF IInv

LEMMA InvStep ==
    ASSUME ~OverlapLogins, ~KickAnytime, IInv, [Next]_vars PROVE IInv' /\ Visible
BY TypeStep, CoreStep, OneLoginStep DEF IInv, Core

(* With one login at a time, and no kick of a session that has no          *)
(* character yet, a character in the world is the one of the listed        *)
(* session (WorldSession::LogoutPlayer, HandlePlayerLogin).                *)
THEOREM WorldIsOwned == ASSUME ~OverlapLogins, ~KickAnytime PROVE Spec => []Owned
<1>1. IInv /\ [Next]_vars => IInv'
  BY InvStep
<1>2. IInv => Owned
  BY DEF IInv, Core
<1>. QED
  BY InvInit, <1>1, <1>2, PTL DEF Spec

(* ... and the state of a session tells whether it has a character and a   *)
(* socket (WorldSession::Update switches on it without looking).           *)
THEOREM StateIsTrue == ASSUME ~OverlapLogins, ~KickAnytime PROVE Spec => []StateTellsTrue
<1>1. IInv /\ [Next]_vars => IInv'
  BY InvStep
<1>2. IInv => StateTellsTrue
  BY DEF IInv, Core, Settled, Sound, StateTellsTrue
<1>. QED
  BY InvInit, <1>1, <1>2, PTL DEF Spec

(* What the two violating runs refute, they refute only for overlapping    *)
(* logins or early kicks: without them an account has one character in the *)
(* world, and it is that of a session that has not been deleted.           *)
THEOREM OneCharacter == ASSUME ~OverlapLogins, ~KickAnytime PROVE Spec => [](OneOnline /\ Unloaded)
<1>1. IInv /\ [Next]_vars => IInv'
  BY InvStep
<1>2. IInv => OneOnline /\ Unloaded
  <2>1. ASSUME IInv PROVE \A p \in world : p = ses[listed].player /\ p.session \in alive
    BY <2>1, SessionAssumption DEF IInv, Core, Owned, TInv, TypeOK, Player
  <2>. QED
    BY <2>1 DEF OneOnline, Unloaded
<1>. QED
  BY InvInit, <1>1, <1>2, PTL DEF Spec

-----------------------------------------------------------------------------
(* The shutdown.                                                           *)

StopInv == (stage = "stopped" => stopping) /\ (stopping => world = {})

\* Once CleanupsBeforeStop has emptied the world nobody enters it.
LEMMA StopStep ==
    ASSUME IInv, StopInv, [Next]_vars
    PROVE  StopInv'
<1>. USE DEF StopInv, vars, netVars, listVars, loginVars
<1>1. \A a, b : Unload(a, b) => world' \subseteq world
  BY DEF Unload
<1>2. CASE Network
  <2>1. ASSUME NEW s \in Sockets,
               \/ HandleAuthSession(s) \/ AddMessage(s) \/ Disconnect(s)
               \/ \E packet : QueuePacket(s, packet)
        PROVE  UNCHANGED <<stage, stopping, world>>
    BY <2>1 DEF HandleAuthSession, AddMessage, Disconnect, QueuePacket
  <2>2. UNCHANGED <<stage, stopping, world>>
    BY <1>2, <2>1 DEF Network, AskLogin, AskLogout
  <2>. QED
    BY <2>2
<1>3. ASSUME stage' = stage \/ NextStage \/ stage' # "stopped", stopping' = stopping,
             world' \subseteq world
      PROVE  StopInv'
  BY <1>3 DEF NextStage
<1>4. CASE AddSessions \/ BeginUpdate \/ EndPackets
  BY <1>3, <1>4 DEF AddSessions, BeginUpdate, EndPackets
<1>5. CASE HandlePlayerLogin \/ HandleLogoutCancel
  BY <1>3, <1>5 DEF HandlePlayerLogin, HandleLogoutCancel, NextPacket
<1>6. CASE HandleLogoutRequest
  BY <1>1, <1>3, <1>6 DEF HandleLogoutRequest, NextPacket
<1>7. ASSUME NEW state, InState(state), NEW r, Stay(r) \/ Delete(r) PROVE StopInv'
  BY <1>1, <1>3, <1>7 DEF InState, Stay, Delete
<1>8. CASE UpdateCreated \/ UpdateSelect \/ UpdateReady \/ UpdateOffline
  BY <1>7, <1>8 DEF UpdateCreated, UpdateSelect, UpdateReady, UpdateOffline
<1>9. CASE PlayerLoaded \/ PlayerNotLoaded
  <2>1. LoginCallback
    BY <1>9 DEF PlayerLoaded, PlayerNotLoaded
  <2>2. stage' = "tick" /\ ~stopping'
    BY <2>1 DEF LoginCallback
  <2>. QED
    BY <2>2
<1>10. CASE KickPlayer \/ Clock
  BY <1>3, <1>10 DEF KickPlayer, Clock
<1>11. CASE CleanupsBeforeStop
  <2>1. CASE listed = None
    BY <1>11, <2>1, WorldOfOne DEF CleanupsBeforeStop, IInv, Core
  <2>2. CASE listed # None
    <3>1. KickInPlace(ses[listed]).player = None
      BY <2>2, ListedFacts, KickFields DEF IInv
    <3>2. Unload(ses[listed], KickInPlace(ses[listed]))
      BY <1>11, <2>2 DEF CleanupsBeforeStop, Stay
    <3>3. world' = {}
      BY <3>1, <3>2, WorldOfOne DEF IInv, Core
    <3>. QED
      BY <1>11, <3>3 DEF CleanupsBeforeStop
  <2>. QED
    BY <2>1, <2>2
<1>12. CASE UNCHANGED vars
  BY <1>12
<1>. QED
  BY <1>2, <1>4, <1>5, <1>6, <1>8, <1>9, <1>10, <1>11, <1>12
  DEF Next, UpdateSessions, Stopped

(* The last UpdateSessions of CleanupsBeforeStop leaves nobody in the      *)
(* world: KickAll has unloaded every character, and none enters again.     *)
THEOREM StopIsComplete == ASSUME ~OverlapLogins, ~KickAnytime PROVE Spec => []StopEmptiesWorld
<1>1. Init => IInv /\ StopInv
  BY InvInit DEF Init, StopInv
<1>2. (IInv /\ StopInv) /\ [Next]_vars => (IInv /\ StopInv)'
  BY InvStep, StopStep
<1>3. IInv /\ StopInv => StopEmptiesWorld
  BY DEF StopInv, StopEmptiesWorld
<1>. QED
  BY <1>1, <1>2, <1>3, PTL DEF Spec

-----------------------------------------------------------------------------
(* Session implements Presence.                                            *)

WhoIsPresent ==
    /\ world = {} => Present = None /\ Attended = None
    /\ world # {} => /\ Present = ses[listed].player.char
                     /\ Present \in Characters /\ Present # None
                     /\ Attended = IF ses[listed].state = "ready"
                                   THEN ses[listed].socket ELSE None
    /\ Attended \in Sockets \cup {None}
    /\ world # {} /\ ses[listed].state = "ready" => ses[listed].socket \in Sockets

LEMMA PresentNow == ASSUME IInv PROVE WhoIsPresent
<1>1. ASSUME world = {} PROVE Present = None /\ Attended = None
  BY <1>1 DEF Present, Attended
<1>2. ASSUME world # {}
      PROVE  /\ world = {ses[listed].player} /\ listed # None
             /\ ses[listed].player.char \in Characters
  BY <1>2, WorldOfOne DEF IInv, Core, TInv, TypeOK, Player
<1>3. ASSUME world # {} PROVE Present = ses[listed].player.char
  <2>1. (CHOOSE p \in world : TRUE) \in world
    BY <1>3
  <2>. QED
    BY <1>2, <1>3, <2>1 DEF Present
<1>4. ASSUME world # {}
      PROVE  Attended = IF ses[listed].state = "ready" THEN ses[listed].socket ELSE None
  BY <1>2, <1>4 DEF Attended
<1>5. listed # None => ses[listed].socket \in Sockets \cup {None} /\ Sound(ses[listed])
  BY ListedFacts DEF IInv, Fields
<1>. QED
  BY <1>1, <1>2, <1>3, <1>4, <1>5, SessionAssumption DEF Sound, WhoIsPresent

LEMMA PresentNext == IInv' => WhoIsPresent'
<1>1. IInv => WhoIsPresent
  BY PresentNow
<1>. QED
  BY <1>1, PTL

LEMMA VisibleStep ==
    ASSUME IInv, IInv', Visible
    PROVE  PresenceSpec!Next \/ UNCHANGED <<Present, Attended>>
<1>. USE DEF WhoIsPresent, PresenceSpec!Next, PresenceSpec!Enter, PresenceSpec!Detach,
             PresenceSpec!Resume, PresenceSpec!Leave
<1>1. CASE world = {} /\ world' = {}
  BY <1>1, PresentNow, PresentNext
<1>2. CASE world = {} /\ world' # {}
  <2>1. Present = None /\ Present' \in Characters /\ Attended' \in Sockets \cup {None}
    BY <1>2, PresentNow, PresentNext
  <2>. QED
    BY <2>1
<1>3. CASE world # {} /\ world' = {}
  <2>1. Present # None /\ Present' = None /\ Attended' = None
    BY <1>3, PresentNow, PresentNext
  <2>. QED
    BY <2>1
<1>4. CASE world # {} /\ world' # {}
  <2>1. /\ world' = world /\ listed' = listed
        /\ ses'[listed].player = ses[listed].player
        /\ ses[listed].state = "ready" /\ ses'[listed].state = "ready"
              => ses'[listed].socket = ses[listed].socket
    BY <1>4 DEF Visible
  <2>2. Present' = Present /\ Present # None
    BY <1>4, <2>1, PresentNow, PresentNext
  <2>3. CASE ses[listed].state = "ready" /\ ses'[listed].state = "ready"
    BY <1>4, <2>1, <2>2, <2>3, PresentNow, PresentNext
  <2>4. CASE ses[listed].state # "ready" /\ ses'[listed].state # "ready"
    BY <1>4, <2>1, <2>2, <2>4, PresentNow, PresentNext
  <2>5. CASE ses[listed].state = "ready" /\ ses'[listed].state # "ready"
    <3>1. Attended # None /\ Attended' = None
      BY <1>4, <2>1, <2>5, PresentNow, PresentNext, SessionAssumption
    <3>. QED
      BY <2>2, <3>1
  <2>6. CASE ses[listed].state # "ready" /\ ses'[listed].state = "ready"
    <3>1. Attended = None /\ Attended' \in Sockets
      BY <1>4, <2>1, <2>6, PresentNow, PresentNext
    <3>. QED
      BY <2>2, <3>1
  <2>. QED
    BY <2>3, <2>4, <2>5, <2>6
<1>. QED
  BY <1>1, <1>2, <1>3, <1>4

(* The sessions of an account implement Presence, on the same conditions:  *)
(* a client never plays a character another still plays, and a character   *)
(* enters the world only when no other of the account is in it.            *)
THEOREM Implements == ASSUME ~OverlapLogins, ~KickAnytime PROVE Spec => ImplementsPresence
<1>1. Init => PresenceSpec!Init
  BY DEF Init, PresenceSpec!Init, Present, Attended
<1>2. IInv /\ [Next]_vars => IInv' /\ [PresenceSpec!Next]_<<Present, Attended>>
  BY InvStep, VisibleStep
<1>. QED
  BY InvInit, <1>1, <1>2, PTL DEF Spec, ImplementsPresence, PresenceSpec!Spec
=============================================================================
