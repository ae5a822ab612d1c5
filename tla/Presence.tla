------------------------------ MODULE Presence ------------------------------
(***************************************************************************)
(* What the sessions of one account promise to the world: at most one      *)
(* character of the account is in it, played by at most one client; a      *)
(* client that takes a character over finds it unattended, and a character *)
(* enters only when no other is left.                                      *)
(***************************************************************************)
CONSTANTS
    Characters, \* the account's characters
    Clients,    \* connections of the account
    None        \* nobody

VARIABLES
    present,    \* the character in the world, or None
    attended    \* the client that plays it, or None

Init == present = None /\ attended = None

\* The character is loaded; its client may already be gone.
Enter(c, k) ==
    /\ present = None
    /\ present' = c /\ attended' = k

\* The connection is lost or replaced; the character stays for a while.
Detach ==
    /\ attended # None
    /\ attended' = None /\ UNCHANGED present

Resume(k) ==
    /\ present # None /\ attended = None
    /\ attended' = k /\ UNCHANGED present

\* Logout, kick, or the end of the time a lost client is waited for.
Leave ==
    /\ present # None
    /\ present' = None /\ attended' = None

Next ==
    \/ \E c \in Characters, k \in Clients \cup {None} : Enter(c, k)
    \/ Detach
    \/ \E k \in Clients : Resume(k)
    \/ Leave

Spec == Init /\ [][Next]_<<present, attended>>
=============================================================================
