------------------------------- MODULE BgQueue -------------------------------
(***************************************************************************)
(* The battleground queue (src/src/game/BattleGround): it runs on a thread *)
(* of its own, and the world thread and it know of each other's state only *)
(* through the closures they post to each other's Messager, first in first *)
(* out.  One battleground type and bracket, no arenas.                     *)
(*                                                                         *)
(* A thread that runs its messages between other work takes them one by    *)
(* one here: a message left for a later step is one posted later.          *)
(*                                                                         *)
(* Left open: which of the groups that fit are invited (order, balance,    *)
(* premade or not, the instance asked for), when a game is won, and when a *)
(* character logs in or out.  A game that has closed stays in `game`, as   *)
(* its messages may still be on their way.                                 *)
(***************************************************************************)
EXTENDS Naturals, Sequences, FiniteSets, SequencesExt

CONSTANTS
    Ali, Horde,     \* the players of the two teams
    MinPerTeam,     \* GetMinPlayersPerTeam of the template
    MaxPerTeam,     \* GetMaxPlayersPerTeam
    MaxGames,       \* bound: games created
    MaxJoins,       \* bound, for each player: requests to join
    NotQueued,      \* an empty slot of the player's list of queues
    Wrap,           \* 2^32 in the code: the invited counts are uint32
    MaxAbsences,    \* bound: teleports and logouts
    Backlog,        \* bound: messages to a thread when the players act
    Hasty           \* players who act again before an answer, or who change
                    \* maps while they are in the queue

Players == Ali \cup Horde
Teams   == {"ali", "horde"}
TeamOf(p) == IF p \in Ali THEN "ali" ELSE "horde"
Games   == 1..MaxGames
NoGame  == 0

ASSUME BgQueueAssumption ==
    /\ Ali \cap Horde = {}
    /\ IsFiniteSet(Ali) /\ IsFiniteSet(Horde)
    /\ MinPerTeam \in Nat \ {0} /\ MaxPerTeam \in Nat /\ MinPerTeam <= MaxPerTeam
    /\ MaxGames \in Nat
    /\ Wrap \in Nat /\ Wrap > MaxPerTeam
    /\ MaxJoins \in [Players -> Nat] /\ MaxAbsences \in Nat /\ Backlog \in Nat
    /\ NotQueued \notin Games \cup {NoGame}
    /\ Hasty \subseteq Players

VARIABLES
    online,     \* the characters in the world
    slot,       \* m_bgBattleGroundQueueID: NotQueued or invitedToInstance
    bgId,       \* m_bgData.bgInstanceID
    far,        \* the players on their way to a battleground map
    events,     \* BgQueueRemoveEvents in Player::m_events
    game,       \* the BattleGrounds created, by instance id
    queuedPlayers,  \* m_queuedPlayers: the group of each player, 0 if none
    queuedGroups,   \* m_queuedGroups, the groups that still have players
    freeSlots,  \* m_bgFreeSlotQueue: a sequence of BattleGroundInQueueInfo
    scheduled,  \* m_queueUpdateScheduler is not empty
    updating,   \* in BattleGroundQueueItem::Update, before its search for new matches
    groups,     \* the groups made
    games,      \* instance ids generated
    aborted,    \* MANGOS_ASSERT has failed
    asked,      \* the requests to join of each player
    absences,   \* teleports and logouts
    toQueue,    \* the Messager of the queue
    toWorld     \* the Messager of the world

playerVars == <<online, slot, bgId, far, events>>
queueVars  == <<queuedPlayers, queuedGroups, freeSlots, scheduled, updating, groups, games, aborted>>
bounds == <<asked, absences>>
vars == <<playerVars, game, queueVars, bounds, toQueue, toWorld>>

\* A group has its players, their team and the game it is invited to; a battleground
\* is over, doomed (its map is to be unloaded), believes itself in m_bgFreeSlotQueue,
\* and has the players on its list and the invited counts; an entry of the queue's
\* m_bgFreeSlotQueue has the id of a battleground, open for players or not, and the
\* queue's own invited counts; an event has the game and the group of an invitation.
Init ==
    /\ online = Players
    /\ slot = [p \in Players |-> NotQueued]
    /\ bgId = [p \in Players |-> NoGame] /\ far = {}
    /\ events = [p \in Players |-> {}]
    /\ game = << >>
    /\ queuedPlayers = [p \in Players |-> 0] /\ queuedGroups = << >>
    /\ freeSlots = << >> /\ scheduled = FALSE /\ updating = FALSE
    /\ groups = 0 /\ games = 0 /\ aborted = FALSE
    /\ asked = [p \in Players |-> 0] /\ absences = 0 /\ toQueue = << >> /\ toWorld = << >>

\* unsigned arithmetic on the counts
Dec(n) == (n + Wrap - 1) % Wrap

Exists(g) == g \in DOMAIN game

-----------------------------------------------------------------------------
(* The world thread: requests, timers and the battlegrounds themselves.    *)

InWorld(p) == p \in online \ far

\* A request of p that the server has not answered yet.
Unanswered(p) ==
    \/ \E m \in Range(toQueue) : \/ m.type = "join" /\ p \in m.players
                                 \/ m.type = "port" /\ p = m.player
    \/ \E m \in Range(toWorld) : \/ m.type = "joined" /\ p \in m.players
                                 \/ m.type \in {"enter", "left"} /\ p = m.player
Room == Len(toQueue) + Len(toWorld) <= Backlog
MayAct(p) == InWorld(p) /\ Room /\ (p \in Hasty \/ ~Unanswered(p))

\* CMSG_BATTLEMASTER_JOIN, alone or as the leader of a party of one team: no one
\* in it is in this queue already, and the one who asks is in no battleground.
HandleBattlemasterJoin(ps) ==
    /\ \E leader \in ps : /\ MayAct(leader) /\ bgId[leader] = NoGame
                          /\ asked[leader] < MaxJoins[leader]
                          /\ asked' = [asked EXCEPT ![leader] = @ + 1]
    /\ \A p \in ps : /\ p \in online /\ slot[p] = NotQueued
                     /\ p \in Hasty \/ (InWorld(p) /\ ~Unanswered(p))
    /\ toQueue' = Append(toQueue, [type |-> "join", players |-> ps])
    /\ UNCHANGED <<absences, playerVars, game, queueVars, toWorld>>

\* CMSG_BATTLEFIELD_PORT: enter the battle, or leave the queue.  A deserter who
\* enters is taken to leave.
HandleBattlefieldPort(p) ==
    /\ MayAct(p) /\ slot[p] # NotQueued
    /\ \E accept \in BOOLEAN :
           toQueue' = Append(toQueue, [type |-> "port", player |-> p, accept |-> accept])
    /\ UNCHANGED <<bounds, playerVars, game, queueVars, toWorld>>

\* RemovePlayerAtLeave: the battleground after it, what it posts, and the player if
\* he is in the world.  The count changes "ahead of free slot queue".
AfterLeave(g, p) ==
    LET bg == game[g] IN
    IF p \notin bg.inside THEN bg
    ELSE [bg EXCEPT !.inside = @ \ {p}, !.invited[TeamOf(p)] = Dec(@), !.inFreeSlots = ~bg.over]
AddToBgFreeSlotQueue(g, bg) ==
    [type |-> "add free", info |-> [id |-> g, open |-> TRUE, invited |-> bg.invited]]
PostsAtLeave(g, p) ==
    IF p \notin game[g].inside \/ game[g].over THEN << >>
    ELSE <<IF game[g].inFreeSlots THEN [type |-> "decrease", game |-> g, team |-> TeamOf(p)]
           ELSE AddToBgFreeSlotQueue(g, AfterLeave(g, p)),
           [type |-> "schedule"]>>
RemovePlayerAtLeave(g, p) ==
    /\ game' = [game EXCEPT ![g] = AfterLeave(g, p)]
    /\ toQueue' = toQueue \o PostsAtLeave(g, p)

\* CMSG_LEAVE_BATTLEFIELD, or a teleport to elsewhere: the player gets a loading screen.
LeaveBattleground(p) ==
    /\ MayAct(p) /\ bgId[p] # NoGame
    /\ RemovePlayerAtLeave(bgId[p], p)
    /\ slot' = [slot EXCEPT ![p] = IF p \in game[bgId[p]].inside THEN NotQueued ELSE @]
    /\ bgId' = [bgId EXCEPT ![p] = NoGame] /\ far' = far \cup {p}
    /\ UNCHANGED <<bounds, online, events, queueVars, toWorld>>

\* A teleport from outside the battlegrounds to another map.
TeleportTo(p) ==
    /\ MayAct(p) /\ bgId[p] = NoGame /\ absences < MaxAbsences
    /\ p \in Hasty \/ slot[p] = NotQueued
    /\ absences' = absences + 1
    /\ UNCHANGED asked
    /\ far' = far \cup {p}
    /\ UNCHANGED <<online, slot, bgId, events, game, queueVars, toQueue, toWorld>>

\* The client has loaded the map: AddPlayer, if p was invited to that battleground.
HandleMoveWorldportAck(p) ==
    /\ p \in online \cap far
    /\ far' = far \ {p}
    /\ game' = IF bgId[p] # NoGame /\ slot[p] = bgId[p]
               THEN [game EXCEPT ![bgId[p]].inside = @ \cup {p}] ELSE game
    /\ UNCHANGED <<bounds, online, slot, bgId, events, queueVars, toQueue, toWorld>>

LogoutPlayerMutant(p) ==
    /\ p \in online /\ Room /\ (p \in Hasty \/ ~Unanswered(p))
    /\ absences < MaxAbsences /\ absences' = absences + 1
    /\ online' = online \ {p} /\ far' = far \ {p}
    /\ game' = IF bgId[p] # NoGame THEN [game EXCEPT ![bgId[p]].inside = @ \cup {p}] ELSE game
    /\ slot' = [slot EXCEPT ![p] = NotQueued]
    /\ events' = [events EXCEPT ![p] = {}]
    /\ UNCHANGED <<asked, bgId, queueVars, toQueue, toWorld>>

\* WorldSession::LogoutPlayer: a player in a battleground stays on its list for a
\* while, and one in a queue is taken out of it.
LogoutPlayer(p) ==
    /\ p \in online /\ Room /\ (p \in Hasty \/ ~Unanswered(p))
    /\ absences < MaxAbsences /\ absences' = absences + 1
    /\ UNCHANGED asked
    /\ online' = online \ {p} /\ far' = far \ {p}
    /\ game' = IF bgId[p] # NoGame THEN [game EXCEPT ![bgId[p]].inside = @ \cup {p}] ELSE game
    /\ slot' = [slot EXCEPT ![p] = NotQueued]
    /\ events' = [events EXCEPT ![p] = {}]
    /\ toQueue' = IF slot[p] = NotQueued THEN toQueue
                  ELSE Append(toQueue, [type |-> "remove", player |-> p])
    /\ UNCHANGED <<bgId, queueVars, toWorld>>

\* Player::LoadFromDB: back into the battleground, unless it is over or he is off
\* its list.
LoadFromDB(p) ==
    LET g == bgId[p]
        back == g # NoGame /\ p \in game[g].inside /\ ~game[g].over
    IN  /\ p \notin online /\ Room
        /\ online' = online \cup {p}
        /\ slot' = [slot EXCEPT ![p] = IF back THEN g ELSE NotQueued]
        /\ bgId' = [bgId EXCEPT ![p] = IF back THEN g ELSE NoGame]
        /\ IF g = NoGame \/ back THEN UNCHANGED <<game, toQueue>> ELSE RemovePlayerAtLeave(g, p)
        /\ UNCHANGED <<bounds, far, events, queueVars, toWorld>>

\* BgQueueRemoveEvent, 80 seconds after the invitation.
RemoveEvent(p) ==
    /\ InWorld(p)
    /\ \E e \in events[p] :
           /\ events' = [events EXCEPT ![p] = @ \ {e}]
           /\ toWorld' = Append(toWorld, [type |-> "expire", player |-> p, event |-> e])
    /\ UNCHANGED <<bounds, online, slot, bgId, far, game, queueVars, toQueue>>

RemovedFromBgFreeSlotQueue(g) ==
    IF game[g].inFreeSlots THEN <<[type |-> "remove free", game |-> g]>> ELSE << >>
SetStatus(g, open) == <<[type |-> "status", game |-> g, open |-> open]>>

EndBattleGroundMutant(g) ==
    /\ Room /\ Exists(g) /\ ~game[g].over /\ game[g].inside # {}
    /\ toQueue' = toQueue \o RemovedFromBgFreeSlotQueue(g)
    /\ game' = [game EXCEPT ![g].over = TRUE, ![g].inFreeSlots = FALSE]
    /\ UNCHANGED <<bounds, playerVars, queueVars, toWorld>>

\* EndBattleGround: a game with players in it is decided.
EndBattleGround(g) ==
    /\ Room /\ Exists(g) /\ ~game[g].over /\ game[g].inside # {}
    /\ toQueue' = toQueue \o RemovedFromBgFreeSlotQueue(g) \o SetStatus(g, FALSE)
    /\ game' = [game EXCEPT ![g].over = TRUE, ![g].inFreeSlots = FALSE]
    /\ UNCHANGED <<bounds, playerVars, queueVars, toWorld>>

\* BattleGroundMap::Update: nobody is inside and nobody invited.
EndNow(g) ==
    /\ Room /\ Exists(g) /\ ~game[g].doomed /\ game[g].inside = {}
    /\ \A t \in Teams : game[g].invited[t] = 0
    /\ toQueue' = toQueue \o RemovedFromBgFreeSlotQueue(g) \o SetStatus(g, FALSE)
    /\ game' = [game EXCEPT ![g].over = TRUE, ![g].inFreeSlots = FALSE, ![g].doomed = TRUE]
    /\ UNCHANGED <<bounds, playerVars, queueVars, toWorld>>

\* BattleGround::Update: two minutes after the end everybody is sent home.
RemoveAll(g) ==
    /\ Room /\ Exists(g) /\ game[g].over /\ ~game[g].doomed /\ game[g].inside # {}
    /\ LET ps == game[g].inside
           here == {p \in ps : InWorld(p)}
           Left(t) == Cardinality({p \in ps : TeamOf(p) = t})
       IN  /\ game' = [game EXCEPT ![g].inside = {},
                       ![g].invited = [t \in Teams |-> (@[t] + Wrap - Left(t)) % Wrap]]
           /\ slot' = [p \in Players |-> IF p \in here THEN NotQueued ELSE slot[p]]
           /\ bgId' = [p \in Players |-> IF p \in here THEN NoGame ELSE bgId[p]]
           /\ far' = far \cup here
    /\ UNCHANGED <<bounds, online, events, queueVars, toQueue, toWorld>>

\* BattleGround::Update: a player has been offline for too long.
RemoveOffline(g, p) ==
    /\ Room /\ Exists(g) /\ ~game[g].doomed /\ p \in game[g].inside \ online
    /\ RemovePlayerAtLeave(g, p)
    /\ UNCHANGED <<bounds, playerVars, queueVars, toWorld>>

-----------------------------------------------------------------------------
(* The messages to the world.                                              *)

Joined(m) ==
    /\ slot' = [p \in Players |-> IF p \in m.players /\ InWorld(p) THEN NoGame ELSE slot[p]]
    /\ UNCHANGED <<online, bgId, far, events, game, toQueue>>

Invited(m) ==
    /\ IF InWorld(m.player)
       THEN /\ slot' = [slot EXCEPT ![m.player] = IF @ = NotQueued THEN @ ELSE m.event.game]
            /\ events' = [events EXCEPT ![m.player] = @ \cup {m.event}]
       ELSE UNCHANGED <<slot, events>>
    /\ UNCHANGED <<online, bgId, far, game, toQueue>>

SetInvitedCount(m) ==
    /\ game' = IF Exists(m.game) THEN [game EXCEPT ![m.game].invited[m.team] = m.count] ELSE game
    /\ UNCHANGED <<playerVars, toQueue>>

\* CreateNewBattleGround: the instance ids come in the order of the messages.
CreateNewBattleGround(m) ==
    /\ game' = Append(game, [over |-> FALSE, doomed |-> FALSE, inFreeSlots |-> FALSE,
                             inside |-> {}, invited |-> m.invited])
    /\ toQueue' = toQueue \o SetStatus(m.game, TRUE)
    /\ UNCHANGED playerVars

\* The player is sent to the battleground, out of the one he may be in.
Entered(m) ==
    LET p == m.player
        old == bgId[p]
    IN  IF ~InWorld(p) THEN UNCHANGED <<playerVars, game, toQueue>>
        ELSE /\ IF old # NoGame THEN RemovePlayerAtLeave(old, p) ELSE UNCHANGED <<game, toQueue>>
             /\ slot' = IF old # NoGame /\ p \in game[old].inside
                        THEN [slot EXCEPT ![p] = NotQueued] ELSE slot
             /\ bgId' = [bgId EXCEPT ![p] = m.game] /\ far' = far \cup {p}
             /\ UNCHANGED <<online, events>>

\* RemoveBattleGroundQueueId.
LeftQueue(m) ==
    /\ slot' = IF InWorld(m.player) THEN [slot EXCEPT ![m.player] = NotQueued] ELSE slot
    /\ UNCHANGED <<online, bgId, far, events, game, toQueue>>

\* BgQueueRemoveEvent on the world's side: a player in the queue or in a battleground;
\* the queue is updated if the battleground has not ended.
Expired(m) ==
    /\ toQueue' = IF InWorld(m.player) /\ slot[m.player] # NotQueued
                  THEN Append(toQueue, [type |-> "expire", player |-> m.player, event |-> m.event,
                                        update |-> Exists(m.event.game) /\ ~game[m.event.game].over])
                  ELSE toQueue
    /\ UNCHANGED <<playerVars, game>>

WorldMessage ==
    /\ toWorld # << >>
    /\ toWorld' = Tail(toWorld)
    /\ LET m == Head(toWorld) IN
           \/ m.type = "joined" /\ Joined(m)
           \/ m.type = "invite" /\ Invited(m)
           \/ m.type = "count" /\ SetInvitedCount(m)
           \/ m.type = "create" /\ CreateNewBattleGround(m)
           \/ m.type = "enter" /\ Entered(m)
           \/ m.type = "left" /\ LeftQueue(m)
           \/ m.type = "expire" /\ Expired(m)
    /\ UNCHANGED <<bounds, queueVars>>

-----------------------------------------------------------------------------
(* The thread of the queue.                                                *)

\* GetFreeSlotInstance: the first entry of a game.
Entries(g) == {i \in DOMAIN freeSlots : freeSlots[i].id = g}
First(g) == CHOOSE i \in Entries(g) : \A j \in Entries(g) : i <= j

CountMessage(e, team) ==
    [type |-> "count", game |-> e.id, team |-> team, count |-> e.invited[team]]

\* DecreaseInvitedCount of the first entry of g, if there is one.
Decreased(g, team) ==
    IF Entries(g) = {} THEN freeSlots
    ELSE [freeSlots EXCEPT ![First(g)].invited[team] = Dec(@)]
DecreasePosts(g, team) ==
    IF Entries(g) = {} THEN << >>
    ELSE <<CountMessage(Decreased(g, team)[First(g)], team)>>

GroupOf(p) == queuedGroups[queuedPlayers[p]]

RemovePlayerMutant(p, decreaseInvitedCount) ==
    IF ~decreaseInvitedCount THEN UNCHANGED <<queuedPlayers, queuedGroups, freeSlots>>
    ELSE /\ queuedPlayers' = [queuedPlayers EXCEPT ![p] = 0]
         /\ queuedGroups' = [queuedGroups EXCEPT ![queuedPlayers[p]].players = @ \ {p}]
         /\ UNCHANGED freeSlots

\* BattleGroundQueueItem::RemovePlayer of a player who is in the queue.
RemovePlayer(p, decreaseInvitedCount) ==
    LET grp == GroupOf(p)
        id  == queuedPlayers[p]
        decrease == decreaseInvitedCount /\ grp.invitedTo # NoGame
    IN  /\ queuedPlayers' = [queuedPlayers EXCEPT ![p] = 0]
        /\ queuedGroups' = IF grp.players = {p} THEN Restrict(queuedGroups, DOMAIN queuedGroups \ {id})
                           ELSE [queuedGroups EXCEPT ![id].players = @ \ {p}]
        /\ freeSlots' = IF decrease THEN Decreased(grp.invitedTo, grp.team) ELSE freeSlots

RemovePosts(p) ==
    LET grp == GroupOf(p)
    IN  IF grp.invitedTo # NoGame THEN DecreasePosts(grp.invitedTo, grp.team) ELSE << >>

InQueue(p) == queuedPlayers[p] # 0

\* HandleBattlemasterJoinOpcode on this side: AddGroup.
AddGroup(m) ==
    /\ groups' = groups + 1
    /\ queuedPlayers' = [p \in Players |-> IF p \in m.players THEN groups' ELSE queuedPlayers[p]]
    /\ queuedGroups' = [i \in DOMAIN queuedGroups \cup {groups'} |->
           IF i # groups' THEN queuedGroups[i]
           ELSE [players |-> m.players, invitedTo |-> NoGame, team |-> TeamOf(CHOOSE p \in m.players : TRUE)]]
    /\ toWorld' = Append(toWorld, [type |-> "joined", players |-> m.players])
    /\ scheduled' = TRUE
    /\ UNCHANGED <<freeSlots, games, aborted>>

\* HandleBattlefieldPortOpcode on this side.
Accept(p) ==
    LET g == GroupOf(p).invitedTo
    IN  IF Entries(g) = {}
        THEN /\ aborted' = TRUE
             /\ UNCHANGED <<queuedPlayers, queuedGroups, freeSlots, scheduled, toWorld>>
        ELSE /\ RemovePlayer(p, FALSE)
             /\ toWorld' = Append(toWorld, [type |-> "enter", player |-> p, game |-> g])
             /\ UNCHANGED <<scheduled, aborted>>
Decline(p) ==
    /\ RemovePlayer(p, TRUE)
    /\ toWorld' = toWorld \o RemovePosts(p) \o <<[type |-> "left", player |-> p]>>
    /\ scheduled' = TRUE
    /\ UNCHANGED aborted
Port(m) ==
    /\ IF ~InQueue(m.player) \/ (m.accept /\ GroupOf(m.player).invitedTo = NoGame)
       THEN UNCHANGED <<queuedPlayers, queuedGroups, freeSlots, scheduled, aborted, toWorld>>
       ELSE IF m.accept THEN Accept(m.player) ELSE Decline(m.player)
    /\ UNCHANGED <<groups, games>>

\* The logout of a player.
RemoveAtLogout(m) ==
    /\ IF InQueue(m.player)
       THEN RemovePlayer(m.player, TRUE) /\ toWorld' = toWorld \o RemovePosts(m.player)
       ELSE UNCHANGED <<queuedPlayers, queuedGroups, freeSlots, toWorld>>
    /\ UNCHANGED <<scheduled, groups, games, aborted>>

IsPlayerInvited(p, e) ==
    InQueue(p) /\ GroupOf(p).invitedTo = e.game /\ queuedPlayers[p] = e.stamp

\* BgQueueRemoveEvent on this side: the answer to one who has not answered.
Expire(m) ==
    /\ IF IsPlayerInvited(m.player, m.event)
       THEN /\ RemovePlayer(m.player, TRUE)
            /\ toWorld' = toWorld \o RemovePosts(m.player)
                          \o <<[type |-> "left", player |-> m.player]>>
            /\ scheduled' = (scheduled \/ m.update)
       ELSE UNCHANGED <<queuedPlayers, queuedGroups, freeSlots, scheduled, toWorld>>
    /\ UNCHANGED <<groups, games, aborted>>

\* The messages about battlegrounds; each finds the first entry of the game.
Status(m) ==
    /\ freeSlots' = IF Entries(m.game) = {} THEN freeSlots
                    ELSE [freeSlots EXCEPT ![First(m.game)].open = m.open]
    /\ UNCHANGED <<queuedPlayers, queuedGroups, scheduled, groups, games, aborted, toWorld>>
AddFree(m) ==
    /\ freeSlots' = <<m.info>> \o freeSlots
    /\ UNCHANGED <<queuedPlayers, queuedGroups, scheduled, groups, games, aborted, toWorld>>
RemoveFreeMutant(m) ==
    /\ freeSlots' = SelectSeq(freeSlots, LAMBDA e : e.id # m.game)
    /\ UNCHANGED <<queuedPlayers, queuedGroups, scheduled, groups, games, aborted, toWorld>>

RemoveFree(m) ==
    /\ freeSlots' = IF Entries(m.game) = {} THEN freeSlots
                    ELSE SubSeq(freeSlots, 1, First(m.game) - 1)
                         \o SubSeq(freeSlots, First(m.game) + 1, Len(freeSlots))
    /\ UNCHANGED <<queuedPlayers, queuedGroups, scheduled, groups, games, aborted, toWorld>>
Decrease(m) ==
    /\ freeSlots' = Decreased(m.game, m.team)
    /\ toWorld' = toWorld \o DecreasePosts(m.game, m.team)
    /\ UNCHANGED <<queuedPlayers, queuedGroups, scheduled, groups, games, aborted>>
Schedule(m) ==
    /\ scheduled' = TRUE
    /\ UNCHANGED <<queuedPlayers, queuedGroups, freeSlots, groups, games, aborted, toWorld>>

QueueMessage ==
    /\ ~aborted /\ ~updating /\ toQueue # << >>
    /\ toQueue' = Tail(toQueue)
    /\ LET m == Head(toQueue) IN
           \/ m.type = "join" /\ AddGroup(m)
           \/ m.type = "port" /\ Port(m)
           \/ m.type = "remove" /\ RemoveAtLogout(m)
           \/ m.type = "expire" /\ Expire(m)
           \/ m.type = "status" /\ Status(m)
           \/ m.type = "add free" /\ AddFree(m)
           \/ m.type = "remove free" /\ RemoveFree(m)
           \/ m.type = "decrease" /\ Decrease(m)
           \/ m.type = "schedule" /\ Schedule(m)
    /\ UNCHANGED <<bounds, playerVars, game, updating>>

-----------------------------------------------------------------------------
(* BattleGroundQueueItem::Update: an entry of freeSlots after the other, then *)
(* new games.                                                              *)

Waiting(t) == {i \in DOMAIN queuedGroups : /\ queuedGroups[i].team = t
                                           /\ queuedGroups[i].invitedTo = NoGame}
PlayersOf(is) == UNION {queuedGroups[i].players : i \in is}
Size(is) == Cardinality(PlayersOf(is))

\* The selection pool of a team: groups that fit into n places.
Pools(t, n) == {is \in SUBSET Waiting(t) : Size(is) <= n}
FreeSlotsForTeam(e, t) == IF e.invited[t] < MaxPerTeam THEN MaxPerTeam - e.invited[t] ELSE 0

\* InviteGroupToBg for the groups is, into the entry e of m_bgFreeSlotQueue: the
\* groups, the entry and the messages after it.
Marked(is, g) == [i \in DOMAIN queuedGroups |->
    IF i \in is THEN [queuedGroups[i] EXCEPT !.invitedTo = g] ELSE queuedGroups[i]]
WithInvited(e, is) == [e EXCEPT !.invited = [t \in Teams |->
    (@[t] + Size({i \in is : queuedGroups[i].team = t})) % Wrap]]
InvitePostsMutant(e, is) ==
    LET ps == SetToSeq(PlayersOf(is))
    IN  FlattenSeq([n \in DOMAIN ps |->
            <<[type |-> "invite", player |-> ps[n],
               event |-> [game |-> e.id, stamp |-> groups]]>>])

InvitePosts(e, is) ==
    LET ps == SetToSeq(PlayersOf(is))
        Count(n) == (e.invited[TeamOf(ps[n])]
                     + Cardinality({k \in 1..n : TeamOf(ps[k]) = TeamOf(ps[n])})) % Wrap
    IN  FlattenSeq([n \in DOMAIN ps |->
            <<[type |-> "invite", player |-> ps[n],
               event |-> [game |-> e.id, stamp |-> queuedPlayers[ps[n]]]],
              [type |-> "count", game |-> e.id, team |-> TeamOf(ps[n]), count |-> Count(n)]>>])

\* FillPlayersToBg for every entry: into[i] are the groups invited to it.
FillPlayersToBg ==
    /\ ~aborted /\ ~updating /\ scheduled
    /\ scheduled' = FALSE /\ updating' = TRUE
    /\ \E into \in [DOMAIN freeSlots -> SUBSET (Waiting("ali") \cup Waiting("horde"))] :
           LET Fits(i) == \A t \in Teams :
                   Size(into[i] \cap Waiting(t)) <= FreeSlotsForTeam(freeSlots[i], t)
               all == UNION Range(into)
           IN  /\ \A i \in DOMAIN into : Fits(i) /\ (freeSlots[i].open \/ into[i] = {})
               /\ \A i, j \in DOMAIN into : i # j => into[i] \cap into[j] = {}
               /\ freeSlots' = [i \in DOMAIN freeSlots |-> WithInvited(freeSlots[i], into[i])]
               /\ queuedGroups' = [k \in DOMAIN queuedGroups |->
                      IF k \in all
                      THEN [queuedGroups[k] EXCEPT !.invitedTo =
                              freeSlots[CHOOSE i \in DOMAIN into : k \in into[i]].id]
                      ELSE queuedGroups[k]]
               /\ toWorld' = toWorld \o FlattenSeq([i \in DOMAIN into |-> InvitePosts(freeSlots[i], into[i])])
    /\ UNCHANGED <<bounds, playerVars, game, queuedPlayers, groups, games, aborted, toQueue>>

\* CheckPremadeMatch or CheckNormalMatch found two pools: a new game.
NewMatch ==
    /\ ~aborted /\ updating /\ games < MaxGames
    /\ \E a \in Pools("ali", MaxPerTeam), h \in Pools("horde", MaxPerTeam) :
           LET e == [id |-> games + 1, open |-> FALSE, invited |-> [t \in Teams |-> 0]]
               full == WithInvited(e, a \cup h)
           IN  /\ Size(a) >= MinPerTeam /\ Size(h) >= MinPerTeam
               /\ queuedGroups' = Marked(a \cup h, e.id)
               /\ freeSlots' = <<full>> \o freeSlots
               /\ toWorld' = toWorld \o InvitePosts(e, a \cup h)
                             \o <<[type |-> "create", game |-> e.id, invited |-> full.invited]>>
    /\ games' = games + 1
    /\ UNCHANGED <<bounds, playerVars, game, queuedPlayers, scheduled, updating, groups, aborted, toQueue>>

EndUpdate ==
    /\ updating /\ updating' = FALSE
    /\ UNCHANGED <<bounds, playerVars, game, queuedPlayers, queuedGroups, freeSlots, scheduled, groups, games,
                   aborted, toQueue, toWorld>>

QueueStep == QueueMessage \/ FillPlayersToBg \/ NewMatch \/ EndUpdate

Parties == {ps \in (SUBSET Ali) \cup (SUBSET Horde) : ps # {}}

Next ==
    \/ WorldMessage \/ QueueStep
    \/ \E ps \in Parties : HandleBattlemasterJoin(ps)
    \/ \E p \in Players : \/ HandleBattlefieldPort(p) \/ LeaveBattleground(p) \/ TeleportTo(p)
                          \/ HandleMoveWorldportAck(p) \/ LogoutPlayer(p) \/ LoadFromDB(p)
                          \/ RemoveEvent(p)
    \/ \E g \in Games : \/ EndBattleGround(g) \/ EndNow(g) \/ RemoveAll(g)
                        \/ \E p \in Players : RemoveOffline(g, p)
Spec == Init /\ [][Next]_vars
-----------------------------------------------------------------------------
(* Properties.                                                             *)

\* Where p is, in the order of the ways he can still be thrown out of: on the
\* list of a battleground or sent to it, else in the queue.
Place(p) ==
    IF bgId[p] # NoGame /\ (p \in online \/ p \in game[bgId[p]].inside)
    THEN [in |-> "battle", game |-> bgId[p]]
    ELSE IF \E m \in Range(toWorld) : m.type = "enter" /\ m.player = p
    THEN [in |-> "battle", game |-> (CHOOSE m \in Range(toWorld) : m.type = "enter" /\ m.player = p).game]
    ELSE IF InQueue(p) THEN [in |-> "queue", game |-> GroupOf(p).invitedTo]
    ELSE [in |-> "idle", game |-> NoGame]

Steady == Players \ Hasty
Matchmaking == INSTANCE Matchmaker
    WITH Players <- Steady, place <- [p \in Steady |-> Place(p)]

\* Whatever the hasty do, the queue, its messages and the battlegrounds move every
\* other player as the Matchmaker does: no one is sent to a battleground he was not
\* invited to, or from one to another, and an invitation is not changed or taken
\* back but by taking him out of the queue.
ImplementsMatchmaker == Matchmaking!Spec

\* With nothing left to deliver, the world's list of queues of a steady player (what
\* his client shows) is what the queue and the battlegrounds have of him.
Quiet == toQueue = << >> /\ toWorld = << >> /\ ~updating
SlotAgrees == Quiet => \A p \in Steady \cap online :
    IF Place(p).in = "idle" THEN slot[p] = NotQueued ELSE slot[p] = Place(p).game

\* The assertion of HandleBattlefieldPortOpcode: whoever accepts an invitation finds
\* the battleground among those with free slots, however late he answers.
OffersStand == ~aborted /\ \A p \in Players :
    InQueue(p) /\ GroupOf(p).invitedTo # NoGame => Entries(GroupOf(p).invitedTo) # {}

\* A battleground that has ended takes no more players once the queue has heard of
\* it, in none of its entries.
EndedNotOffered == Quiet => \A i \in DOMAIN freeSlots :
    game[freeSlots[i].id].over => ~freeSlots[i].open

\* Every invitation of a steady player comes with a BgQueueRemoveEvent that will take
\* him out of the queue if he never answers: nothing else does.
InvitationExpires == Quiet => \A p \in Steady :
    InQueue(p) /\ GroupOf(p).invitedTo # NoGame =>
        \E e \in events[p] : IsPlayerInvited(p, e)

\* BattleGround.h: m_hasBgFreeSlotQueue is "used to make sure that BG is only once
\* inserted into the BattleGroundMgr.BGFreeSlotQueue[bgTypeId] deque".
OnceListed == \A g \in Games : Cardinality(Entries(g)) <= 1
=============================================================================
