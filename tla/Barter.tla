------------------------------- MODULE Barter -------------------------------
(***************************************************************************)
(* What the trade window promises, without windows, flags or handlers: a    *)
(* player may consent to one pair of offers, the offers he has consented to  *)
(* do not change under him, and goods change hands only in a deal that both  *)
(* sides consent to, which moves exactly what the terms say.                 *)
(***************************************************************************)
EXTENDS Integers

CONSTANTS Players, Items, NoOne, MaxMoney, Nothing

VARIABLES
    owner,      \* owner[i] : who has item i in his bags, or NoOne
    gold,       \* gold[p]  : the money of p
    consent     \* consent[p] : the terms p has agreed to, or Nothing

vars == <<owner, gold, consent>>

AtMost(m) == IF m < MaxMoney THEN m ELSE MaxMoney

Init == /\ owner \in [Items -> Players \cup {NoOne}]
        /\ gold \in [Players -> 0..MaxMoney]
        /\ consent = [p \in Players |-> Nothing]

(* Players consent one at a time; anyone may withdraw at any time.  Terms     *)
(* never turn into other terms without a withdrawal between.                  *)
Agrees(p) == consent[p] = Nothing /\ consent'[p] # Nothing
Talk ==
    /\ UNCHANGED <<owner, gold>>
    /\ \A p \in Players : consent'[p] # consent[p] => Nothing \in {consent[p], consent'[p]}
    /\ \A p, q \in Players : Agrees(p) /\ Agrees(q) => p = q

(* The rest of the game: an item is found or leaves, money is earned or spent. *)
Elsewhere ==
    /\ UNCHANGED consent
    /\ \/ /\ UNCHANGED gold
          /\ \E i \in Items :
                /\ NoOne \in {owner[i], owner'[i]}
                /\ \A j \in Items \ {i} : owner'[j] = owner[j]
       \/ /\ UNCHANGED owner
          /\ \E p \in Players : \A q \in Players \ {p} : gold'[q] = gold[q]

(* The last of the two consents closes the deal.  An item of the terms that    *)
(* its giver no longer has is not delivered; the rest is, item by item, and    *)
(* each purse pays its price before it is paid.                                *)
Deal(p, q) ==
    LET t == consent[q]
    IN  /\ t # Nothing
        /\ t.with = p
        /\ consent[p] \in {Nothing, [with |-> q, mine |-> t.his, his |-> t.mine]}
        /\ consent' = [consent EXCEPT ![p] = Nothing, ![q] = Nothing]
        /\ owner' = [i \in Items |-> CASE i \in t.mine.items /\ owner[i] = q -> p
                                       [] i \in t.his.items /\ owner[i] = p -> q
                                       [] OTHER -> owner[i]]
        /\ t.his.money <= gold[p] /\ t.mine.money <= gold[q]
        /\ gold' = [gold EXCEPT ![p] = AtMost(@ - t.his.money + t.mine.money),
                                ![q] = AtMost(@ - t.mine.money + t.his.money)]

Next == Talk \/ Elsewhere \/ \E p, q \in Players : p # q /\ Deal(p, q)

Spec == Init /\ [][Next]_vars
=============================================================================
