------------------------------- MODULE Trade --------------------------------
(***************************************************************************)
(* The trade window between two players: TradeHandler.cpp, class TradeData   *)
(* (Player.h, Player.cpp) and Player::TradeCancel.  All the opcodes of the   *)
(* window run one after another in World::UpdateSessions, so one action is   *)
(* one whole handler; what is hard is the order in which two clients and the *)
(* rest of the game send them.                                               *)
(*                                                                         *)
(* Left open, because it depends on state the window does not own: whether   *)
(* the players stand close enough, whether an item can be traded now         *)
(* (Item::CanBeTraded: binding, position, loot) and whether a spell can be   *)
(* cast (Spell::CheckCast).  The bags are abstracted to their room.          *)
(***************************************************************************)
EXTENDS Integers, FiniteSets

CONSTANTS
    Players,        \* the characters in the world
    Items,          \* the item guids
    Spells,         \* spells one can cast on the item in the last slot
    NoOne,          \* the owner of an item in nobody's bags
    Null,           \* nullptr, an empty guid, spell 0
    TradedCount,    \* TRADE_SLOT_TRADED_COUNT, 6 in the code
    Room,           \* the items a player's bags can hold
    MaxMoney        \* MAX_MONEY_AMOUNT

Traded == 1..TradedCount
NonTraded == TradedCount + 1                 \* TRADE_SLOT_NONTRADED
Slots == Traded \cup {NonTraded}

VARIABLES
    trade,      \* trade[p] : m_trade, Null or the TradeData of p
    owner,      \* owner[i] : the player in whose inventory i is, or NoOne
    gold        \* gold[p]  : PLAYER_FIELD_COINAGE

vars == <<trade, owner, gold>>

TradeData == [trader : Players, accepted : BOOLEAN, money : 0..MaxMoney,
              spell : Spells \cup {Null}, items : [Slots -> Items \cup {Null}]]

ASSUME TradeAssumption ==
    /\ IsFiniteSet(Items)
    /\ TradedCount \in Nat \ {0}
    /\ Room \in Nat
    /\ MaxMoney \in Nat
    /\ NoOne \notin Players
    /\ Null \notin Items \cup Spells \cup TradeData

NewTrade(q) == [trader |-> q, accepted |-> FALSE, money |-> 0, spell |-> Null,
                items |-> [s \in Slots |-> Null]]

Init == /\ trade = [p \in Players |-> Null]
        /\ owner \in [Items -> Players \cup {NoOne}]
        /\ gold \in [Players -> 0..MaxMoney]
        /\ \A p \in Players : Cardinality({i \in Items : owner[i] = p}) <= Room

Trading(p) == trade[p] # Null
Trader(p) == trade[p].trader

(* TradeData::GetItem: the slot keeps a guid, looked up in the inventory of    *)
(* its owner at each use, so an item that has left it reads as nullptr.        *)
GetItem(p, s) ==
    LET i == trade[p].items[s]
    IN  IF i # Null /\ owner[i] = p THEN i ELSE Null

TradedItems(p) == {GetItem(p, s) : s \in Traded} \ {Null}

-----------------------------------------------------------------------------
(* TradeData                                                                 *)

(* Every change of an offer takes back both acceptances.                      *)
Unaccept(t, ps) == [r \in Players |-> IF r \in ps THEN [t[r] EXCEPT !.accepted = FALSE] ELSE t[r]]
BothOf(p) == {p, Trader(p)}

SetMoney(p, m) ==
    /\ m # trade[p].money
    /\ m <= gold[p]
    /\ trade' = Unaccept([trade EXCEPT ![p].money = m], BothOf(p))

(* A plausible slip: the trader keeps his acceptance of an offer with another item.  *)
SetItemMutant(p, s, i) ==
    /\ i # trade[p].items[s]
    /\ trade' = Unaccept([trade EXCEPT ![p].items[s] = i, ![p].spell = Null], {p})
(* A new item in the last slot drops the spell the trader put on it; any        *)
(* change drops the own spell, whose reagent it may have been.                 *)
SetItem(p, s, i) ==
    /\ i # trade[p].items[s]
    /\ LET q == Trader(p)
           placed == [trade EXCEPT ![p].items[s] = i, ![p].spell = Null]
           cleared == IF s = NonTraded THEN [placed EXCEPT ![q].spell = Null] ELSE placed
       IN  trade' = Unaccept(cleared, {p, q})

WithSpell(p, sp) ==
    IF sp = trade[p].spell THEN trade
    ELSE Unaccept([trade EXCEPT ![p].spell = sp], BothOf(p))

-----------------------------------------------------------------------------
(* The handlers                                                              *)

(* CMSG_INITIATE_TRADE.  The state of the two characters (dead, stunned,        *)
(* flying, logging out, far, of the other faction) only refuses more.          *)
HandleInitiateTradeMutant(p, q) ==
    /\ ~Trading(p)
    /\ q # p
    /\ trade' = [trade EXCEPT ![p] = NewTrade(q), ![q] = NewTrade(p)]
    /\ UNCHANGED <<owner, gold>>
HandleInitiateTrade(p, q) ==
    /\ ~Trading(p)
    /\ q # p /\ ~Trading(q)
    /\ trade' = [trade EXCEPT ![p] = NewTrade(q), ![q] = NewTrade(p)]
    /\ UNCHANGED <<owner, gold>>

HandleSetTradeGold(p) ==
    /\ Trading(p)
    /\ \E m \in 0..MaxMoney : SetMoney(p, m)
    /\ UNCHANGED <<owner, gold>>

(* CMSG_SET_TRADE_ITEM: an item of the own bags, in no slot of the window yet.  *)
(* (That the item can be traded is asked for the traded slots only.)           *)
HandleSetTradeItemMutant(p) ==
    /\ Trading(p)
    /\ \E s \in Slots, i \in {j \in Items : owner[j] = p} : SetItem(p, s, i)
    /\ UNCHANGED <<owner, gold>>
HandleSetTradeItem(p) ==
    /\ Trading(p)
    /\ \E s \in Slots, i \in {j \in Items : owner[j] = p} :
          /\ \A r \in Slots : trade[p].items[r] # i
          /\ SetItem(p, s, i)
    /\ UNCHANGED <<owner, gold>>

HandleClearTradeItem(p) ==
    /\ Trading(p)
    /\ \E s \in Slots : SetItem(p, s, Null)
    /\ UNCHANGED <<owner, gold>>

(* Spell::CheckCast with a target in the trade window: outside the accept       *)
(* process the spell is only remembered, and cast when the trade completes.    *)
ApplySpell(p, sp) ==
    /\ Trading(p)
    /\ GetItem(Trader(p), NonTraded) # Null
    /\ trade' = WithSpell(p, sp)
    /\ UNCHANGED <<owner, gold>>

HandleUnacceptTrade(p) ==
    /\ Trading(p)
    /\ trade' = Unaccept(trade, {p})
    /\ UNCHANGED <<owner, gold>>

(* Player::TradeCancel, called for the cancel, busy and ignore opcodes, at      *)
(* logout, when a taxi is taken, and by SetPosition when the trader is far.    *)
TradeCancel(p) ==
    /\ Trading(p)
    /\ trade' = [trade EXCEPT ![p] = Null, ![Trader(p)] = Null]
    /\ UNCHANGED <<owner, gold>>

-----------------------------------------------------------------------------
(* CMSG_ACCEPT_TRADE.  The flag of the accepting side is set first, and the     *)
(* checks follow in this order.                                               *)

Accepting(p) == Trading(p) /\ Trading(Trader(p))
Accepted(p) == [trade EXCEPT ![p].accepted = TRUE]
CanPay(p) == trade[p].money <= gold[p]

(* The distance, then the own money: the flag is taken back.  The distance may  *)
(* be too far at any time, so the money check adds no step to this one.        *)
TooFarOrPoor(p) ==
    /\ Accepting(p)
    /\ trade' = Unaccept(trade, {p})
    /\ UNCHANGED <<owner, gold>>

(* The money of the other side: his flag is taken back, the own one stays.     *)
TraderPoor(p) ==
    /\ Accepting(p)
    /\ CanPay(p) /\ ~CanPay(Trader(p))
    /\ trade' = Unaccept(Accepted(p), {Trader(p)})
    /\ UNCHANGED <<owner, gold>>

MoneyIsThere(p) == Accepting(p) /\ CanPay(p) /\ CanPay(Trader(p))

(* An item in a traded slot that cannot be traded any more: the client is told   *)
(* that the trade is canceled and the handler returns.                        *)
CannotBeTraded(p) ==
    /\ MoneyIsThere(p)
    /\ TradedItems(p) \cup TradedItems(Trader(p)) # {}
    /\ trade' = Accepted(p)
    /\ UNCHANGED <<owner, gold>>

AcceptFirst(p) ==
    /\ MoneyIsThere(p)
    /\ ~trade[Trader(p)].accepted
    /\ trade' = Accepted(p)
    /\ UNCHANGED <<owner, gold>>

BothAccept(p) == MoneyIsThere(p) /\ trade[Trader(p)].accepted

(* The spells are checked again, the own one first; one that fails is dropped,  *)
(* which takes back both acceptances.                                         *)
HasTarget(r) == trade[r].spell # Null => GetItem(Trader(r), NonTraded) # Null
SpellFails(p) ==
    /\ BothAccept(p)
    /\ \E r \in BothOf(p) : /\ trade[r].spell # Null
                            /\ r = p \/ HasTarget(p)
                            /\ trade' = WithSpell(r, Null)
    /\ UNCHANGED <<owner, gold>>

SpellsPass(p) == \A r \in BothOf(p) : HasTarget(r)

Bags(o, p) == {i \in Items : o[i] = p}

(* Player::CanStoreItems: room for what p is to get; his own items that are     *)
(* in the trade do not count (Item::IsInTrade).                               *)
CanStoreItemsMutant(p) == Cardinality(Bags(owner, p) \ TradedItems(p)) <= Room
CanStoreItems(p) ==
    Cardinality(Bags(owner, p) \ TradedItems(p)) + Cardinality(TradedItems(Trader(p))) <= Room

NoRoom(p) ==
    /\ BothAccept(p) /\ SpellsPass(p)
    /\ \E r \in BothOf(p) : ~CanStoreItems(r)
    /\ trade' = Unaccept(trade, BothOf(p))
    /\ UNCHANGED <<owner, gold>>

(* WorldSession::moveItems: slot by slot, both items of the slot or none; what  *)
(* cannot be delivered goes back, and what cannot go back either is lost.      *)
MoveSlot(o, p, mine, hers) ==
    LET q == Trader(p)
        Fits(r, i) == i = Null \/ Cardinality(Bags(o, r)) < Room
        deliver == Fits(q, mine) /\ Fits(p, hers)
    IN  [i \in Items |->
            CASE i = mine -> IF deliver THEN q ELSE IF Fits(p, i) THEN p ELSE NoOne
              [] i = hers -> IF deliver THEN p ELSE IF Fits(q, i) THEN q ELSE NoOne
              [] OTHER -> o[i]]

(* First everything offered is taken out of both inventories.                 *)
moveItems(p) ==
    LET q == Trader(p)
        removed == [i \in Items |-> IF i \in TradedItems(p) \cup TradedItems(q)
                                    THEN NoOne ELSE owner[i]]
        upTo[n \in 0..TradedCount] ==
            IF n = 0 THEN removed ELSE MoveSlot(upTo[n - 1], p, GetItem(p, n), GetItem(q, n))
    IN  upTo[TradedCount]

(* Player::ModifyMoney: clamped at 0 and at MAX_MONEY_AMOUNT.                  *)
ModifyMoneyMutant(m, d) == IF d < 0 THEN (IF m > -d THEN m + d ELSE 0) ELSE m + d
ModifyMoney(m, d) ==
    IF d < 0 THEN (IF m > -d THEN m + d ELSE 0)
             ELSE (IF m < MaxMoney - d THEN m + d ELSE MaxMoney)

(* Each purse first pays, then is paid.                                       *)
Purse(p) == ModifyMoney(ModifyMoney(gold[p], -trade[p].money), trade[Trader(p)].money)

(* The trade is executed, both windows are deleted, and both characters are     *)
(* saved in one transaction.                                                  *)
CompleteTrade(p) ==
    LET q == Trader(p)
    IN  /\ BothAccept(p) /\ SpellsPass(p)
        /\ CanStoreItems(p) /\ CanStoreItems(q)
        /\ owner' = moveItems(p)
        /\ gold' = [gold EXCEPT ![p] = Purse(p), ![q] = Purse(q)]
        /\ trade' = [trade EXCEPT ![p] = Null, ![q] = Null]

HandleAcceptTrade(p) ==
    \/ TooFarOrPoor(p) \/ TraderPoor(p) \/ CannotBeTraded(p) \/ AcceptFirst(p)
    \/ SpellFails(p) \/ NoRoom(p) \/ CompleteTrade(p)

-----------------------------------------------------------------------------
(* The rest of the game between two opcodes of the window: nothing tells the    *)
(* window that an offered item or offered money is gone.                       *)

(* An item is used up, destroyed, mailed or banked, or comes into the bags.     *)
ItemLeaves(i) ==
    /\ owner[i] # NoOne
    /\ owner' = [owner EXCEPT ![i] = NoOne]
    /\ UNCHANGED <<trade, gold>>
ItemArrives(i, p) ==
    /\ owner[i] = NoOne
    /\ Cardinality(Bags(owner, p)) < Room
    /\ owner' = [owner EXCEPT ![i] = p]
    /\ UNCHANGED <<trade, gold>>
MoneyChanges(p) ==
    /\ \E m \in 0..MaxMoney : gold' = [gold EXCEPT ![p] = m]
    /\ UNCHANGED <<trade, owner>>

Next ==
    \/ \E p, q \in Players : HandleInitiateTrade(p, q)
    \/ \E p \in Players, sp \in Spells : ApplySpell(p, sp)
    \/ \E p \in Players : \/ HandleSetTradeGold(p) \/ HandleSetTradeItem(p)
                          \/ HandleClearTradeItem(p) \/ HandleUnacceptTrade(p)
                          \/ TradeCancel(p) \/ HandleAcceptTrade(p)
                          \/ MoneyChanges(p)
    \/ \E i \in Items : ItemLeaves(i) \/ \E p \in Players : ItemArrives(i, p)

Spec == Init /\ [][Next]_vars

-----------------------------------------------------------------------------
(* The window's state: a TradeData per trading player, an owner per item, and   *)
(* money within the client's range whatever the purses and offers were          *)
(* (ModifyMoney's clamps).                                                     *)
TypeOK ==
    /\ trade \in [Players -> TradeData \cup {Null}]
    /\ owner \in [Items -> Players \cup {NoOne}]
    /\ gold \in [Players -> 0..MaxMoney]

(* m_trade is a pair of raw pointers to each other: whoever trades has a trader  *)
(* who trades with him, so GetTraderData() never reads a null or foreign window *)
(* and TradeCancel never deletes the window of a third player.                 *)
Paired ==
    \A p \in Players : Trading(p) => /\ Trader(p) # p
                                     /\ Trading(Trader(p))
                                     /\ Trader(Trader(p)) = p

(* An item is on the table once: no two slots of the same or of different        *)
(* windows resolve to it, even when a guid stays behind in the window of a      *)
(* player the item has left.                                                   *)
SoldOnce ==
    \A p, q \in Players : \A s, r \in Slots :
        (/\ Trading(p) /\ Trading(q)
         /\ GetItem(p, s) # Null /\ GetItem(p, s) = GetItem(q, r)) => p = q /\ s = r

(* The comment at the head of HandleAcceptTradeOpcode: the flag is "set before   *)
(* checks to properly undo at problems", so after each accept the trade is       *)
(* either done or one side has to accept again.                                *)
UndoneAtProblems ==
    \A p \in Players : Accepting(p) => ~(trade[p].accepted /\ trade[Trader(p)].accepted)

(* A player consents to the offers on the table while his accepted flag is set.  *)
Offer(p) == [items |-> {trade[p].items[s] : s \in Traded} \ {Null},
             last |-> trade[p].items[NonTraded], money |-> trade[p].money,
             spell |-> trade[p].spell]
Consent(p) ==
    IF Trading(p) /\ trade[p].accepted
    THEN [with |-> Trader(p), mine |-> Offer(p), his |-> Offer(Trader(p))] ELSE Null

Offers == [items : SUBSET Items, last : Items \cup {Null}, money : 0..MaxMoney,
           spell : Spells \cup {Null}]
Terms == [with : Players, mine : Offers, his : Offers]
ASSUME NullIsNoTerms == Null \notin Terms

ConsentStep ==
    \A p \in Players : Null \in {Consent(p), Consent(p)'} \/ Consent(p)' = Consent(p)

(* An acceptance stands for the offers that were on the table when it was given: *)
(* no step of either client leaves the flag set over other offers (SetItem,     *)
(* SetMoney and SetSpell all take back both flags).                            *)
ConsentStands == [][ConsentStep]_vars

(* The window implements the barter of two consenting players.                  *)
Table == INSTANCE Barter WITH consent <- [p \in Players |-> Consent(p)], Nothing <- Null
ImplementsBarter == Table!Spec
=============================================================================
