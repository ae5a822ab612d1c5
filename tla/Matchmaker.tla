----------------------------- MODULE Matchmaker -----------------------------
(***************************************************************************)
(* What the battleground queue promises each player: he waits in the queue *)
(* until a game invites him, goes to no game but the one that did, and     *)
(* comes back from the queue or the game to where he was.  Several players *)
(* may be moved by one step.                                               *)
(***************************************************************************)
EXTENDS Naturals

CONSTANTS Players, Games, NoGame

VARIABLE place      \* of each player: where he is, and the game he is in or invited to

Places == [in : {"idle", "queue", "battle"}, game : Games \cup {NoGame}]
Idle    == [in |-> "idle", game |-> NoGame]
Waiting == [in |-> "queue", game |-> NoGame]
InvitedTo(g) == [in |-> "queue", game |-> g]
Fighting(g)  == [in |-> "battle", game |-> g]

Init == place = [p \in Players |-> Idle]

Join(p)   == place[p] = Idle /\ place'[p] = Waiting
Invite(p) == place[p] = Waiting /\ \E g \in Games : place'[p] = InvitedTo(g)
Enter(p)  == \E g \in Games : place[p] = InvitedTo(g) /\ place'[p] = Fighting(g)
Leave(p)  == place[p] # Idle /\ place'[p] = Idle

Next ==
    /\ place' \in [Players -> Places]
    /\ \A p \in Players : place'[p] # place[p] => Join(p) \/ Invite(p) \/ Enter(p) \/ Leave(p)
Spec == Init /\ [][Next]_place
=============================================================================
