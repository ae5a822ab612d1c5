---------------------------- MODULE TradeProofs -----------------------------
(***************************************************************************)
(* Proofs about the trade window, for any number of players, items, spells   *)
(* and slots: the windows are paired, an item is on the table once, an         *)
(* acceptance stands for the offers it was given for, and the window           *)
(* implements Barter.                                                        *)
(*                                                                         *)
(* Every step of Next is one of four kinds (StepKinds): it opens a window,    *)
(* closes one, changes the offers of one window and takes back both flags,    *)
(* or changes flags and goods only.  Each part of the invariant is shown      *)
(* against the kinds, not against the thirteen actions.                      *)
(*                                                                         *)
(* The refinement rests on what moveItems computes: CanStoreItems asked both   *)
(* sides, hence every item of every slot is delivered (Halfway says where the  *)
(* items are after n slots; a least slot where moveItems differed from it      *)
(* cannot exist).                                                            *)
(***************************************************************************)
EXTENDS Trade, FiniteSetTheorems, WellFoundedInduction, TLAPS

WindowsOK == trade \in [Players -> TradeData \cup {Null}]

(* No guid is in two slots of one window (WorldSession::HandleSetTradeItem asks  *)
(* HasItem first); with the one owner of an item this makes SoldOnce hold.      *)
Distinct ==
    \A p \in Players : Trading(p) =>
        \A s, r \in Slots : trade[p].items[s] = trade[p].items[r] =>
                                s = r \/ trade[p].items[s] = Null

IInv == WindowsOK /\ Paired /\ Distinct

-----------------------------------------------------------------------------
(* The four kinds of step.                                                    *)

SameButFlag(t, u) ==
    /\ t # Null <=> u # Null
    /\ t # Null => /\ u.trader = t.trader /\ u.money = t.money
                   /\ u.spell = t.spell /\ u.items = t.items

Opens(p, q) ==
    /\ ~Trading(p) /\ ~Trading(q) /\ p # q
    /\ trade' = [trade EXCEPT ![p] = NewTrade(q), ![q] = NewTrade(p)]

Closes(p) ==
    /\ Trading(p)
    /\ trade' = [trade EXCEPT ![p] = Null, ![Trader(p)] = Null]

(* The items of one side may change; no guid comes to be in two slots.          *)
ItemsDistinct(f) == \A s, r \in Slots : f[s] = f[r] => s = r \/ f[s] = Null
Changes(p) ==
    /\ Trading(p)
    /\ trade' \in [Players -> TradeData \cup {Null}]
    /\ \A r \in Players \ BothOf(p) : trade'[r] = trade[r]
    /\ \A r \in BothOf(p) : /\ trade'[r] \in TradeData
                            /\ trade'[r].trader = trade[r].trader
                            /\ ~trade'[r].accepted
                            /\ ItemsDistinct(trade'[r].items)

(* Flags come up one at a time.                                                *)
FlagUp(t) == t # Null /\ t.accepted
RaisesOne(u) == \E x : \A r \in Players \ {x} : FlagUp(u[r]) => FlagUp(trade[r])

Flags ==
    /\ trade' \in [Players -> TradeData \cup {Null}]
    /\ \A r \in Players : SameButFlag(trade[r], trade'[r])
    /\ RaisesOne(trade')

StepKind ==
    \/ \E p, q \in Players : Opens(p, q)
    \/ \E p \in Players : Closes(p)
    \/ \E p \in Players : Changes(p)
    \/ Flags

-----------------------------------------------------------------------------
LEMMA NullIsNoWindow == Null \notin TradeData
  BY TradeAssumption

LEMMA SlotFacts == Traded \subseteq Slots /\ NonTraded \in Slots
  BY DEF Slots

LEMMA NewTradeType ==
  ASSUME NEW q \in Players
  PROVE  NewTrade(q) \in TradeData /\ NewTrade(q) # Null
<1>1. [s \in Slots |-> Null] \in [Slots -> Items \cup {Null}] /\ 0 \in 0..MaxMoney
  BY TradeAssumption
<1>2. NewTrade(q) \in TradeData
  BY <1>1 DEF NewTrade, TradeData
<1> QED BY <1>2, NullIsNoWindow

(* A window's side and its trader's, both open.                                *)
LEMMA BothSides ==
  ASSUME IInv, NEW p \in Players, Trading(p)
  PROVE  /\ Trader(p) \in Players /\ Trader(p) # p
         /\ Trader(Trader(p)) = p
         /\ BothOf(p) = {p, Trader(p)} /\ BothOf(p) \subseteq Players
         /\ \A r \in BothOf(p) : trade[r] \in TradeData /\ Trading(r)
                                 /\ ItemsDistinct(trade[r].items)
         /\ \A r \in Players \ BothOf(p) : Trading(r) => Trader(r) \in Players \ BothOf(p)
  BY NullIsNoWindow DEF IInv, WindowsOK, Paired, Distinct, ItemsDistinct, Trading, Trader, BothOf,
     TradeData

(* Unaccept clears flags and nothing else.                                     *)
LEMMA UnacceptEffect ==
  ASSUME NEW t \in [Players -> TradeData \cup {Null}], NEW ps \in SUBSET Players,
         \A r \in ps : t[r] \in TradeData
  PROVE  /\ Unaccept(t, ps) \in [Players -> TradeData \cup {Null}]
         /\ \A r \in Players \ ps : Unaccept(t, ps)[r] = t[r]
         /\ \A r \in ps : /\ Unaccept(t, ps)[r] \in TradeData
                          /\ ~Unaccept(t, ps)[r].accepted
                          /\ Unaccept(t, ps)[r].trader = t[r].trader
                          /\ Unaccept(t, ps)[r].money = t[r].money
                          /\ Unaccept(t, ps)[r].spell = t[r].spell
                          /\ Unaccept(t, ps)[r].items = t[r].items
  BY DEF Unaccept, TradeData

(* A flag raised or dropped on some sides is a step of the fourth kind.          *)
LEMMA FlagStep ==
  ASSUME IInv, NEW t \in [Players -> TradeData \cup {Null}], NEW ps \in SUBSET Players,
         \A r \in Players : SameButFlag(trade[r], t[r]),
         \A r \in ps : t[r] \in TradeData, RaisesOne(t),
         trade' = Unaccept(t, ps)
  PROVE  Flags
<1>0. trade' \in [Players -> TradeData \cup {Null}]
  BY UnacceptEffect
<1>r. RaisesOne(trade')
  <2>1. \A r \in Players : FlagUp(trade'[r]) => FlagUp(t[r])
    BY UnacceptEffect, NullIsNoWindow DEF FlagUp
  <2> QED BY <2>1 DEF RaisesOne
<1> SUFFICES ASSUME NEW r \in Players
             PROVE  SameButFlag(trade[r], trade'[r])
  BY <1>0, <1>r DEF Flags
<1>1. CASE r \in ps
  <2>1. trade'[r] # Null /\ t[r] # Null
    BY <1>1, UnacceptEffect, NullIsNoWindow
  <2> QED BY <1>1, <2>1, UnacceptEffect DEF SameButFlag
<1>2. CASE r \notin ps
  BY <1>2, UnacceptEffect
<1> QED BY <1>1, <1>2

LEMMA AcceptedFlag ==
  ASSUME IInv, NEW p \in Players, Trading(p)
  PROVE  /\ Accepted(p) \in [Players -> TradeData \cup {Null}]
         /\ \A r \in Players : SameButFlag(trade[r], Accepted(p)[r])
         /\ \A r \in BothOf(p) : Accepted(p)[r] \in TradeData
         /\ RaisesOne(Accepted(p))
<1>1. trade \in [Players -> TradeData \cup {Null}] /\ trade[p] \in TradeData
  BY BothSides DEF IInv, WindowsOK, BothOf
<1>2. [trade[p] EXCEPT !.accepted = TRUE] \in TradeData
  BY <1>1 DEF TradeData
<1>3. Accepted(p) = [trade EXCEPT ![p] = [trade[p] EXCEPT !.accepted = TRUE]]
  BY <1>1 DEF Accepted
<1>4. SameButFlag(trade[p], [trade[p] EXCEPT !.accepted = TRUE])
  BY <1>1, <1>2, NullIsNoWindow DEF SameButFlag, TradeData
<1>5. \A r \in Players : Accepted(p)[r] = IF r = p THEN [trade[p] EXCEPT !.accepted = TRUE]
                                                 ELSE trade[r]
  BY <1>1, <1>3
<1>6. \A r \in Players : SameButFlag(trade[r], trade[r])
  BY DEF SameButFlag
<1> DEFINE raised == [trade[p] EXCEPT !.accepted = TRUE]
<1> HIDE DEF raised
<1>7. Accepted(p) \in [Players -> TradeData \cup {Null}]
  BY <1>1, <1>2, <1>3 DEF raised
<1>8. \A r \in Players : SameButFlag(trade[r], Accepted(p)[r])
  BY <1>4, <1>5, <1>6 DEF raised
<1>9. BothOf(p) \subseteq Players /\ \A r \in BothOf(p) : trade[r] \in TradeData
  BY BothSides
<1>10. \A r \in BothOf(p) : Accepted(p)[r] \in TradeData
  BY <1>2, <1>5, <1>9 DEF raised
<1>11. RaisesOne(Accepted(p))
  BY <1>5 DEF RaisesOne
<1> QED BY <1>7, <1>8, <1>10, <1>11

(* Taking back both flags of a window whose offers may have changed.             *)
LEMMA ChangeStep ==
  ASSUME IInv, NEW p \in Players, Trading(p),
         NEW t \in [Players -> TradeData \cup {Null}],
         \A r \in Players \ BothOf(p) : t[r] = trade[r],
         \A r \in BothOf(p) : /\ t[r] \in TradeData
                              /\ t[r].trader = trade[r].trader
                              /\ ItemsDistinct(t[r].items),
         trade' = Unaccept(t, BothOf(p))
  PROVE  Changes(p)
<1>1. BothOf(p) \in SUBSET Players
  BY BothSides
<1>2. /\ trade' \in [Players -> TradeData \cup {Null}]
      /\ \A r \in Players \ BothOf(p) : trade'[r] = trade[r]
  BY <1>1, UnacceptEffect
<1>3. ASSUME NEW r \in BothOf(p)
      PROVE  /\ trade'[r] \in TradeData /\ trade'[r].trader = trade[r].trader
             /\ ~trade'[r].accepted /\ ItemsDistinct(trade'[r].items)
  BY <1>1, <1>3, UnacceptEffect
<1> QED BY <1>2, <1>3 DEF Changes

LEMMA SetItemKind ==
  ASSUME IInv, NEW p \in Players, Trading(p), NEW s \in Slots, NEW i \in Items \cup {Null},
         i # Null => \A r \in Slots : trade[p].items[r] # i,
         SetItem(p, s, i)
  PROVE  Changes(p)
<1> DEFINE q == Trader(p)
           put == [trade[p] EXCEPT !.items = [trade[p].items EXCEPT ![s] = i], !.spell = Null]
           placed == [trade EXCEPT ![p] = put]
           drop == [trade[q] EXCEPT !.spell = Null]
           cleared == IF s = NonTraded THEN [placed EXCEPT ![q] = drop] ELSE placed
<1>1. /\ trade \in [Players -> TradeData \cup {Null}]
      /\ trade[p] \in TradeData /\ trade[q] \in TradeData
      /\ q \in Players /\ q # p /\ BothOf(p) = {p, q}
      /\ ItemsDistinct(trade[p].items) /\ ItemsDistinct(trade[q].items)
  BY BothSides DEF IInv, WindowsOK
<1>2. /\ put \in TradeData /\ put.trader = trade[p].trader
      /\ put.items = [trade[p].items EXCEPT ![s] = i]
  BY <1>1 DEF TradeData
<1>3. ItemsDistinct(put.items)
  BY <1>1, <1>2 DEF ItemsDistinct, TradeData
<1>4. drop \in TradeData /\ drop.trader = trade[q].trader /\ drop.items = trade[q].items
  BY <1>1 DEF TradeData
<1>5. trade' = Unaccept(cleared, {p, q})
  BY <1>1 DEF SetItem
<1> HIDE DEF put, drop
<1>6. /\ cleared \in [Players -> TradeData \cup {Null}]
      /\ \A r \in Players \ {p, q} : cleared[r] = trade[r]
      /\ cleared[p] = put
      /\ cleared[q] = IF s = NonTraded THEN drop ELSE trade[q]
  BY <1>1, <1>2, <1>4
<1> HIDE DEF cleared
<1>7. \A r \in BothOf(p) : /\ cleared[r] \in TradeData
                           /\ cleared[r].trader = trade[r].trader
                           /\ ItemsDistinct(cleared[r].items)
  BY <1>1, <1>2, <1>3, <1>4, <1>6
<1> QED BY <1>1, <1>5, <1>6, <1>7, ChangeStep

LEMMA SetMoneyKind ==
  ASSUME IInv, NEW p \in Players, Trading(p), NEW m \in 0..MaxMoney, SetMoney(p, m)
  PROVE  Changes(p)
<1> DEFINE put == [trade[p] EXCEPT !.money = m]
           placed == [trade EXCEPT ![p] = put]
<1>1. /\ trade \in [Players -> TradeData \cup {Null}] /\ trade[p] \in TradeData
      /\ \A r \in BothOf(p) : trade[r] \in TradeData /\ ItemsDistinct(trade[r].items)
      /\ p \in BothOf(p)
  BY BothSides DEF IInv, WindowsOK, BothOf
<1>2. put \in TradeData /\ put.trader = trade[p].trader /\ put.items = trade[p].items
  BY <1>1 DEF TradeData
<1>3. trade' = Unaccept(placed, BothOf(p))
  BY <1>1 DEF SetMoney
<1> HIDE DEF put
<1>4. /\ placed \in [Players -> TradeData \cup {Null}]
      /\ \A r \in Players : placed[r] = IF r = p THEN put ELSE trade[r]
  BY <1>1, <1>2
<1> HIDE DEF placed
<1>5. \A r \in BothOf(p) : /\ placed[r] \in TradeData
                           /\ placed[r].trader = trade[r].trader
                           /\ ItemsDistinct(placed[r].items)
  BY <1>1, <1>2, <1>4, BothSides
<1>6. \A r \in Players \ BothOf(p) : placed[r] = trade[r]
  BY <1>1, <1>4
<1> QED BY <1>3, <1>4, <1>5, <1>6, ChangeStep

LEMMA SpellKind ==
  ASSUME IInv, NEW p \in Players, Trading(p), NEW sp \in Spells \cup {Null},
         trade' = WithSpell(p, sp)
  PROVE  Changes(p) \/ Flags
<1> DEFINE put == [trade[p] EXCEPT !.spell = sp]
           placed == [trade EXCEPT ![p] = put]
<1>1. /\ trade \in [Players -> TradeData \cup {Null}] /\ trade[p] \in TradeData
      /\ \A r \in BothOf(p) : trade[r] \in TradeData /\ ItemsDistinct(trade[r].items)
      /\ p \in BothOf(p)
  BY BothSides DEF IInv, WindowsOK, BothOf
<1>2. put \in TradeData /\ put.trader = trade[p].trader /\ put.items = trade[p].items
  BY <1>1 DEF TradeData
<1>3. CASE trade' = trade
  BY <1>1, <1>3 DEF Flags, SameButFlag, RaisesOne
<1>4. CASE trade' # trade
  <2>1. trade' = Unaccept(placed, BothOf(p))
    BY <1>1, <1>4 DEF WithSpell
  <2> HIDE DEF put
  <2>2. /\ placed \in [Players -> TradeData \cup {Null}]
        /\ \A r \in Players : placed[r] = IF r = p THEN put ELSE trade[r]
    BY <1>1, <1>2
  <2> HIDE DEF placed
  <2>3. \A r \in BothOf(p) : /\ placed[r] \in TradeData
                             /\ placed[r].trader = trade[r].trader
                             /\ ItemsDistinct(placed[r].items)
    BY <1>1, <1>2, <2>2, BothSides
  <2>4. \A r \in Players \ BothOf(p) : placed[r] = trade[r]
    BY <1>1, <2>2
  <2> QED BY <2>1, <2>2, <2>3, <2>4, ChangeStep
<1> QED BY <1>3, <1>4

-----------------------------------------------------------------------------
(* Every step is of one of the four kinds: one step of the proof per action.     *)
LEMMA StepKinds ==
  ASSUME IInv, [Next]_vars
  PROVE  StepKind
<1>0. /\ trade \in [Players -> TradeData \cup {Null}]
      /\ \A r \in Players : SameButFlag(trade[r], trade[r])
      /\ RaisesOne(trade)
  BY DEF IInv, WindowsOK, SameButFlag, RaisesOne
<1>1. ASSUME NEW p \in Players, NEW q \in Players, HandleInitiateTrade(p, q)
      PROVE  StepKind
  BY <1>1 DEF HandleInitiateTrade, StepKind, Opens
<1>2. ASSUME NEW p \in Players, NEW sp \in Spells, ApplySpell(p, sp)
      PROVE  StepKind
  BY <1>2, SpellKind DEF ApplySpell, StepKind
<1>3. ASSUME NEW p \in Players, HandleSetTradeGold(p)
      PROVE  StepKind
  BY <1>3, SetMoneyKind DEF HandleSetTradeGold, StepKind
<1>4. ASSUME NEW p \in Players, HandleSetTradeItem(p)
      PROVE  StepKind
  <2>1. PICK s \in Slots, i \in Items : /\ \A r \in Slots : trade[p].items[r] # i
                                        /\ SetItem(p, s, i)
    BY <1>4 DEF HandleSetTradeItem
  <2> QED BY <1>4, <2>1, SetItemKind DEF HandleSetTradeItem, StepKind
<1>5. ASSUME NEW p \in Players, HandleClearTradeItem(p)
      PROVE  StepKind
  BY <1>5, SetItemKind DEF HandleClearTradeItem, StepKind
<1>6. ASSUME NEW p \in Players, HandleUnacceptTrade(p)
      PROVE  StepKind
  <2>1. trade[p] \in TradeData
    BY <1>6, BothSides DEF HandleUnacceptTrade, BothOf
  <2> QED BY <1>0, <1>6, <2>1, FlagStep DEF HandleUnacceptTrade, StepKind
<1>7. ASSUME NEW p \in Players, TradeCancel(p)
      PROVE  StepKind
  BY <1>7 DEF TradeCancel, StepKind, Closes
<1>8. ASSUME NEW p \in Players, HandleAcceptTrade(p)
      PROVE  StepKind
  <2>1. Trading(p)
    BY <1>8 DEF HandleAcceptTrade, TooFarOrPoor, TraderPoor, CannotBeTraded, AcceptFirst,
        SpellFails, NoRoom, CompleteTrade, BothAccept, MoneyIsThere, Accepting
  <2>2. /\ BothOf(p) \subseteq Players /\ BothOf(p) = {p, Trader(p)}
        /\ \A r \in BothOf(p) : trade[r] \in TradeData
        /\ \A r \in BothOf(p) : Trading(r)
    BY <2>1, BothSides
  <2>3. /\ Accepted(p) \in [Players -> TradeData \cup {Null}]
        /\ \A r \in Players : SameButFlag(trade[r], Accepted(p)[r])
        /\ \A r \in BothOf(p) : Accepted(p)[r] \in TradeData
        /\ RaisesOne(Accepted(p))
    BY <2>1, AcceptedFlag
  <2>4. CASE TooFarOrPoor(p)
    BY <1>0, <2>2, <2>4, FlagStep DEF TooFarOrPoor, StepKind
  <2>5. CASE TraderPoor(p)
    <3>1. trade' = Unaccept(Accepted(p), {Trader(p)})
      BY <2>5 DEF TraderPoor
    <3> QED BY <2>2, <2>3, <3>1, FlagStep DEF StepKind
  <2>6. CASE CannotBeTraded(p) \/ AcceptFirst(p)
    BY <2>3, <2>6 DEF CannotBeTraded, AcceptFirst, Flags, StepKind
  <2>7. CASE SpellFails(p)
    <3>1. PICK r \in BothOf(p) : trade' = WithSpell(r, Null)
      BY <2>7 DEF SpellFails
    <3>2. r \in Players /\ Trading(r)
      BY <2>2
    <3> QED BY <3>1, <3>2, SpellKind DEF StepKind
  <2>8. CASE NoRoom(p)
    BY <1>0, <2>2, <2>8, FlagStep DEF NoRoom, StepKind
  <2>9. CASE CompleteTrade(p)
    BY <2>1, <2>9 DEF CompleteTrade, StepKind, Closes
  <2> QED BY <1>8, <2>4, <2>5, <2>6, <2>7, <2>8, <2>9 DEF HandleAcceptTrade
<1>9. ASSUME UNCHANGED trade
      PROVE  StepKind
  BY <1>0, <1>9 DEF StepKind, Flags
<1>10. CASE (\E p \in Players : MoneyChanges(p)) \/ UNCHANGED vars
          \/ \E i \in Items : ItemLeaves(i) \/ \E p \in Players : ItemArrives(i, p)
  BY <1>9, <1>10 DEF MoneyChanges, ItemLeaves, ItemArrives, vars
<1> QED BY <1>1, <1>2, <1>3, <1>4, <1>5, <1>6, <1>7, <1>8, <1>10 DEF Next

-----------------------------------------------------------------------------
LEMMA InitInv ==
  ASSUME Init
  PROVE  IInv
<1>1. \A p \in Players : ~Trading(p)
  BY DEF Init, Trading
<1> QED BY <1>1 DEF Init, IInv, WindowsOK, Paired, Distinct

LEMMA StepInv ==
  ASSUME IInv, [Next]_vars
  PROVE  IInv'
<1> USE DEF Trading, Trader
<1>0. trade \in [Players -> TradeData \cup {Null}]
  BY DEF IInv, WindowsOK
<1>1. ASSUME NEW p \in Players, NEW q \in Players, Opens(p, q)
      PROVE  IInv'
  <2>1. /\ trade' = [trade EXCEPT ![p] = NewTrade(q), ![q] = NewTrade(p)]
        /\ p # q /\ ~Trading(p) /\ ~Trading(q)
        /\ NewTrade(q) \in TradeData /\ NewTrade(q) # Null
        /\ NewTrade(p) \in TradeData /\ NewTrade(p) # Null
    BY <1>1, NewTradeType DEF Opens
  <2>2. /\ trade' \in [Players -> TradeData \cup {Null}]
        /\ trade'[p] = NewTrade(q) /\ trade'[q] = NewTrade(p)
        /\ \A r \in Players \ {p, q} : trade'[r] = trade[r]
    BY <1>0, <2>1
  <2>3. NewTrade(q).trader = q /\ NewTrade(p).trader = p
    BY DEF NewTrade
  <2>4. \A r \in Players \ {p, q} : Trading(r) => Trader(r) \in Players \ {p, q}
    BY <2>1, NullIsNoWindow DEF IInv, WindowsOK, Paired, TradeData
  <2>5. Paired'
    BY <2>1, <2>2, <2>3, <2>4 DEF IInv, Paired
  <2>6. \A s \in Slots : NewTrade(q).items[s] = Null /\ NewTrade(p).items[s] = Null
    BY DEF NewTrade
  <2>7. Distinct'
    BY <2>2, <2>6 DEF IInv, Distinct
  <2> QED BY <2>2, <2>5, <2>7 DEF IInv, WindowsOK
<1>2. ASSUME NEW p \in Players, Closes(p)
      PROVE  IInv'
  <2>1. /\ Trader(p) \in Players
        /\ \A r \in Players \ {p, Trader(p)} : Trading(r) => Trader(r) \in Players \ {p, Trader(p)}
    BY <1>2, BothSides DEF Closes
  <2>2. /\ trade' \in [Players -> TradeData \cup {Null}]
        /\ trade'[p] = Null /\ trade'[Trader(p)] = Null
        /\ \A r \in Players \ {p, Trader(p)} : trade'[r] = trade[r]
    BY <1>0, <1>2, <2>1 DEF Closes
  <2>3. Paired'
    BY <2>1, <2>2 DEF IInv, Paired
  <2>4. Distinct'
    BY <2>2 DEF IInv, Distinct
  <2> QED BY <2>2, <2>3, <2>4 DEF IInv, WindowsOK
<1>3. ASSUME NEW p \in Players, Changes(p)
      PROVE  IInv'
  <2>1. /\ trade' \in [Players -> TradeData \cup {Null}]
        /\ Trader(p) \in Players /\ Trader(p) # p /\ BothOf(p) = {p, Trader(p)}
        /\ Trader(Trader(p)) = p
        /\ \A r \in Players \ BothOf(p) : trade'[r] = trade[r]
        /\ \A r \in BothOf(p) : /\ trade'[r] # Null /\ trade'[r].trader = trade[r].trader
                                /\ ItemsDistinct(trade'[r].items)
        /\ \A r \in Players \ BothOf(p) : Trading(r) => Trader(r) \in Players \ BothOf(p)
    BY <1>3, BothSides, NullIsNoWindow DEF Changes
  <2>2. Paired'
    BY <2>1 DEF IInv, Paired
  <2>3. Distinct'
    BY <2>1 DEF IInv, Distinct, ItemsDistinct
  <2> QED BY <2>1, <2>2, <2>3 DEF IInv, WindowsOK
<1>4. ASSUME Flags
      PROVE  IInv'
  <2>1. /\ trade' \in [Players -> TradeData \cup {Null}]
        /\ \A r \in Players : trade[r] # Null <=> trade'[r] # Null
        /\ \A r \in Players : trade[r] # Null => /\ trade'[r].trader = trade[r].trader
                                                /\ trade'[r].items = trade[r].items
    BY <1>4 DEF Flags, SameButFlag
  <2>2. \A r \in Players : Trading(r) => Trader(r) \in Players
    BY NullIsNoWindow DEF IInv, WindowsOK, TradeData
  <2>3. Paired'
    BY <2>1, <2>2 DEF IInv, Paired
  <2>4. Distinct'
    BY <2>1 DEF IInv, Distinct
  <2> QED BY <2>1, <2>3, <2>4 DEF IInv, WindowsOK
<1> QED BY <1>1, <1>2, <1>3, <1>4, StepKinds DEF StepKind

(* The windows, their pairing and the distinctness of their items hold in every  *)
(* reachable state.                                                           *)
THEOREM Invariance == Spec => []IInv
<1>1. Init => IInv
  BY InitInv
<1>2. IInv /\ [Next]_vars => IInv'
  BY StepInv
<1> QED BY <1>1, <1>2, PTL DEF Spec

(* No handler of TradeHandler.cpp leaves a window whose trader has none or has    *)
(* another one: m_trader->m_trade is never a null or foreign pointer.           *)
THEOREM Pairing == Spec => []Paired
<1>1. IInv => Paired
  BY DEF IInv
<1> QED BY <1>1, Invariance, PTL

(* No two slots of any two windows ever resolve to the same item.               *)
THEOREM OneOffer == Spec => []SoldOnce
<1>1. IInv => SoldOnce
  <2> SUFFICES ASSUME IInv, NEW p \in Players, NEW q \in Players, NEW s \in Slots, NEW r \in Slots,
                      Trading(p), Trading(q),
                      GetItem(p, s) # Null, GetItem(p, s) = GetItem(q, r)
               PROVE  p = q /\ s = r
    BY DEF SoldOnce
  <2>1. /\ trade[p].items[s] # Null /\ trade[p].items[s] = trade[q].items[r]
        /\ owner[trade[p].items[s]] = p /\ owner[trade[q].items[r]] = q
    BY DEF GetItem
  <2>2. p = q
    BY <2>1
  <2> QED BY <2>1, <2>2 DEF IInv, Distinct
<1> QED BY <1>1, Invariance, PTL

-----------------------------------------------------------------------------
(* Consent: what a player has accepted stays what it was until he or a change     *)
(* takes his flag back.                                                       *)

(* Offers are compared by what the window shows: items, money and spell.          *)
LEMMA SameOffer ==
  ASSUME NEW p \in Players, trade[p] # Null, SameButFlag(trade[p], trade'[p])
  PROVE  Offer(p)' = Offer(p)
  BY DEF Offer, SameButFlag

(* A player none of whose two windows changed but for the flags.                 *)
LEMMA SameConsent ==
  ASSUME IInv, NEW p \in Players,
         SameButFlag(trade[p], trade'[p]),
         Trading(p) => SameButFlag(trade[Trader(p)], trade'[Trader(p)])
  PROVE  Null \in {Consent(p), Consent(p)'} \/ Consent(p)' = Consent(p)
<1>1. CASE Null \in {Consent(p), Consent(p)'}
  BY <1>1
<1>2. CASE Null \notin {Consent(p), Consent(p)'}
  <2>1. Trading(p) /\ trade[p].accepted /\ Trading(p)' /\ trade'[p].accepted
    BY <1>2 DEF Consent, Trading
  <2>2. Trader(p) \in Players /\ Trading(Trader(p)) /\ Trader(p)' = Trader(p)
    BY <2>1, BothSides DEF SameButFlag, Trading, Trader, BothOf
  <2>3. Offer(p)' = Offer(p)
    BY <2>1, SameOffer DEF Trading
  <2>4. PICK q \in Players : q = Trader(p)
    BY <2>2
  <2>5. Offer(q)' = Offer(q)
    BY <2>1, <2>2, <2>4, SameOffer DEF Trading
  <2>6. Consent(p) = [with |-> q, mine |-> Offer(p), his |-> Offer(q)]
    BY <2>1, <2>4 DEF Consent
  <2>7. Consent(p)' = [with |-> q, mine |-> Offer(p)', his |-> Offer(q)']
    <3>1. trade'[p].trader = q
      BY <2>2, <2>4 DEF Trader
    <3> QED BY <2>1, <3>1 DEF Consent, Trading, Trader, Offer
  <2> QED BY <2>3, <2>5, <2>6, <2>7
<1> QED BY <1>1, <1>2

(* A window with its flag down consents to nothing.                             *)
LEMMA NoConsent ==
  ASSUME NEW p \in Players, trade'[p] # Null => ~trade'[p].accepted
  PROVE  Consent(p)' = Null
  BY DEF Consent, Trading

LEMMA ConsentOfOne ==
  ASSUME IInv, [Next]_vars, NEW p \in Players
  PROVE  Null \in {Consent(p), Consent(p)'} \/ Consent(p)' = Consent(p)
<1>0. Trading(p) => Trader(p) \in Players
  BY BothSides DEF BothOf
<1>s. \A r \in Players : SameButFlag(trade[r], trade[r])
  BY DEF SameButFlag
<1>1. CASE \E x, y \in Players : Opens(x, y)
  <2>1. PICK x \in Players, y \in Players : Opens(x, y)
    BY <1>1
  <2>2. CASE p \in {x, y}
    BY <2>1, <2>2 DEF Opens, Consent, Trading
  <2>3. CASE p \notin {x, y}
    <3>1. trade'[p] = trade[p]
      BY <2>1, <2>3 DEF Opens, IInv, WindowsOK
    <3>2. Trading(p) => Trader(p) \notin {x, y}
      BY <2>1, <2>3 DEF Opens, IInv, Paired
    <3>3. Trading(p) => trade'[Trader(p)] = trade[Trader(p)]
      BY <1>0, <2>1, <3>2 DEF Opens, IInv, WindowsOK
    <3> QED BY <1>0, <1>s, <3>1, <3>3, SameConsent
  <2> QED BY <2>2, <2>3
<1>2. CASE \E x \in Players : Closes(x)
  <2>1. PICK x \in Players : Closes(x)
    BY <1>2
  <2>2. /\ BothOf(x) = {x, Trader(x)}
        /\ \A r \in Players \ BothOf(x) : Trading(r) => Trader(r) \in Players \ BothOf(x)
    BY <2>1, BothSides DEF Closes
  <2>3. /\ \A r \in Players \ BothOf(x) : trade'[r] = trade[r]
        /\ \A r \in Players \cap BothOf(x) : trade'[r] = Null
    BY <2>1, <2>2 DEF Closes, IInv, WindowsOK
  <2>4. CASE p \in BothOf(x)
    BY <2>3, <2>4, NoConsent
  <2>5. CASE p \notin BothOf(x)
    BY <1>s, <2>2, <2>3, <2>5, SameConsent
  <2> QED BY <2>4, <2>5
<1>3. CASE \E x \in Players : Changes(x)
  <2>1. PICK x \in Players : Changes(x)
    BY <1>3
  <2>2. /\ \A r \in Players \ BothOf(x) : trade'[r] = trade[r]
        /\ \A r \in BothOf(x) : ~trade'[r].accepted
        /\ \A r \in Players \ BothOf(x) : Trading(r) => Trader(r) \in Players \ BothOf(x)
    BY <2>1, BothSides DEF Changes
  <2>3. CASE p \in BothOf(x)
    BY <2>2, <2>3, NoConsent
  <2>4. CASE p \notin BothOf(x)
    BY <1>s, <2>2, <2>4, SameConsent
  <2> QED BY <2>3, <2>4
<1>4. CASE Flags
  BY <1>0, <1>4, SameConsent DEF Flags
<1> QED BY <1>1, <1>2, <1>3, <1>4, StepKinds DEF StepKind

(* An accepted flag never stands over offers other than those it was raised for. *)
THEOREM ConsentIsKept == Spec => ConsentStands
<1>1. IInv /\ [Next]_vars => ConsentStep
  BY ConsentOfOne DEF ConsentStep
<1> QED BY <1>1, Invariance, PTL DEF Spec, ConsentStands

-----------------------------------------------------------------------------
(* Recursion: a set of numbers has a least one, hence a function is determined *)
(* by its first value and the step from each value to the next.                *)

LEMMA Least ==
  ASSUME NEW T, T \subseteq Nat, T # {}
  PROVE  \E m \in T : \A n \in T : ~(n < m)
<1> DEFINE R == {ss \in Nat \X Nat : ss[1] < ss[2]}
<1>1. IsWellFoundedOn(R, Nat)
  BY NatLessThanWellFounded DEF OpToRel
<1>2. \A m, n \in Nat : n < m => <<n, m>> \in R
  OBVIOUS
<1> HIDE DEF R
<1>3. PICK m \in T : \A n \in T : ~(<<n, m>> \in R)
  BY <1>1, WFMin
<1> QED BY <1>2, <1>3

(* One slot of moveItems after the other, from the bags o.                     *)
Moves(g, o, p) ==
  /\ g[0] = o
  /\ \A n \in 1..TradedCount : g[n] = MoveSlot(g[n - 1], p, GetItem(p, n), GetItem(Trader(p), n))

LEMMA MovesUnique ==
  ASSUME NEW p, NEW o, NEW g, NEW h, Moves(g, o, p), Moves(h, o, p)
  PROVE  g[TradedCount] = h[TradedCount]
<1>1. TradedCount \in Nat
  BY TradeAssumption
<1> DEFINE T == {n \in 0..TradedCount : g[n] # h[n]}
<1>2. CASE T = {}
  BY <1>1, <1>2
<1>3. CASE T # {}
  <2>1. T \subseteq Nat
    BY <1>1
  <2>2. PICK m \in T : \A n \in T : ~(n < m)
    BY <1>3, <2>1, Least
  <2>3. m # 0
    BY DEF Moves
  <2>4. m \in 1..TradedCount /\ m - 1 \in 0..TradedCount /\ m - 1 < m
    BY <1>1, <2>3
  <2>5. g[m - 1] = h[m - 1]
    BY <2>2, <2>4
  <2>6. g[m] = h[m]
    BY <2>4, <2>5 DEF Moves
  <2> QED BY <2>6
<1> QED BY <1>2, <1>3

Offered(p) == TradedItems(p) \cup TradedItems(Trader(p))
Removed(p) == [i \in Items |-> IF i \in Offered(p) THEN NoOne ELSE owner[i]]

(* moveItems is the last value of any function that moves slot by slot.        *)
LEMMA MoveItemsIs ==
  ASSUME NEW p, NEW h, Moves(h, Removed(p), p)
  PROVE  moveItems(p) = h[TradedCount]
<1> DEFINE Up(g) == [n \in 0..TradedCount |->
                       IF n = 0 THEN Removed(p)
                       ELSE MoveSlot(g[n - 1], p, GetItem(p, n), GetItem(Trader(p), n))]
           f == [n \in 0..TradedCount |-> h[n]]
           g == CHOOSE x : x = Up(x)
<1>0. TradedCount \in Nat \ {0}
  BY TradeAssumption
<1>1. moveItems(p) = g[TradedCount]
  BY DEF moveItems, Removed, Offered
<1>2. f = Up(f)
  BY <1>0 DEF Moves
<1>3. g = Up(g)
  BY <1>2
<1> HIDE DEF g
<1>4. Moves(g, Removed(p), p)
  BY <1>0, <1>3 DEF Moves
<1> QED BY <1>1, <1>4, MovesUnique

-----------------------------------------------------------------------------
(* What moveItems does once both sides have room.  After n slots the items of    *)
(* the first n slots have changed hands and the others are nobody's.           *)

Upto(r, n) == {GetItem(r, s) : s \in 1..n} \ {Null}

Halfway(p) ==
    [n \in 0..TradedCount |->
        [i \in Items |-> IF i \in Upto(p, n) THEN Trader(p)
                         ELSE IF i \in Upto(Trader(p), n) THEN p
                         ELSE IF i \in Offered(p) THEN NoOne ELSE owner[i]]]

Swapped(p) == [i \in Items |-> IF i \in TradedItems(p) THEN Trader(p)
                               ELSE IF i \in TradedItems(Trader(p)) THEN p ELSE owner[i]]

LEMMA ItemFacts ==
  ASSUME IInv, NEW p \in Players, Trading(p)
  PROVE  /\ \A s \in Slots : GetItem(p, s) \in Items \cup {Null}
         /\ \A s \in Slots : GetItem(p, s) # Null =>
                GetItem(p, s) = trade[p].items[s] /\ owner[GetItem(p, s)] = p
         /\ TradedItems(p) = {i \in Items : owner[i] = p /\ \E s \in Traded : trade[p].items[s] = i}
<1>1. trade[p] \in TradeData
  BY BothSides DEF BothOf
<1>2. \A s \in Slots : trade[p].items[s] \in Items \cup {Null}
  BY <1>1 DEF TradeData
<1>3. Null \notin Items
  BY TradeAssumption
<1>4. /\ \A s \in Slots : GetItem(p, s) \in Items \cup {Null}
      /\ \A s \in Slots : GetItem(p, s) # Null =>
                GetItem(p, s) = trade[p].items[s] /\ owner[GetItem(p, s)] = p
  BY <1>2 DEF GetItem
<1>5. TradedItems(p) \subseteq
         {i \in Items : owner[i] = p /\ \E s \in Traded : trade[p].items[s] = i}
  BY <1>4, SlotFacts DEF TradedItems
<1>6. \A s \in Traded : trade[p].items[s] \in Items /\ owner[trade[p].items[s]] = p
                          => GetItem(p, s) = trade[p].items[s]
  BY <1>3 DEF GetItem
<1>7. {i \in Items : owner[i] = p /\ \E s \in Traded : trade[p].items[s] = i} \subseteq TradedItems(p)
  BY <1>3, <1>6 DEF TradedItems
<1> QED BY <1>4, <1>5, <1>7

(* Slot after slot, the items of a side are added one by one.                   *)
LEMMA UptoFacts ==
  ASSUME IInv, NEW p \in Players, Trading(p)
  PROVE  /\ Upto(p, 0) = {} /\ Upto(p, TradedCount) = TradedItems(p)
         /\ \A n \in 1..TradedCount :
                /\ Upto(p, n) = Upto(p, n - 1) \cup ({GetItem(p, n)} \ {Null})
                /\ GetItem(p, n) \notin Upto(p, n - 1)
                /\ GetItem(p, n) # Null => GetItem(p, n) \in TradedItems(p)
         /\ \A n \in 0..TradedCount : Upto(p, n) \subseteq TradedItems(p)
<1>0. TradedCount \in Nat \ {0}
  BY TradeAssumption
<1>1. Upto(p, 0) = {} /\ Upto(p, TradedCount) = TradedItems(p)
  BY <1>0 DEF Upto, TradedItems, Traded
<1>2. \A n \in 0..TradedCount : Upto(p, n) \subseteq TradedItems(p)
  BY <1>0 DEF Upto, TradedItems, Traded
<1>3. ASSUME NEW n \in 1..TradedCount
      PROVE  /\ Upto(p, n) = Upto(p, n - 1) \cup ({GetItem(p, n)} \ {Null})
             /\ GetItem(p, n) \notin Upto(p, n - 1)
             /\ GetItem(p, n) # Null => GetItem(p, n) \in TradedItems(p)
  <2>1. 1..n = 1..(n - 1) \cup {n}
    BY <1>0
  <2>2. Upto(p, n) = Upto(p, n - 1) \cup ({GetItem(p, n)} \ {Null})
    BY <2>1 DEF Upto
  <2>3. GetItem(p, n) \notin Upto(p, n - 1)
    <3> SUFFICES ASSUME NEW s \in 1..(n - 1), GetItem(p, s) = GetItem(p, n), GetItem(p, n) # Null
                 PROVE  FALSE
      BY DEF Upto
    <3>1. s \in Slots /\ n \in Slots /\ s # n
      BY <1>0 DEF Slots, Traded
    <3>2. trade[p].items[s] = trade[p].items[n] /\ trade[p].items[s] # Null
      BY <3>1, ItemFacts
    <3> QED BY <3>1, <3>2 DEF IInv, Distinct
  <2>4. GetItem(p, n) # Null => GetItem(p, n) \in TradedItems(p)
    BY DEF TradedItems, Traded
  <2> QED BY <2>2, <2>3, <2>4
<1> QED BY <1>1, <1>2, <1>3

(* Room for all that is to come is room for the next of it.                      *)
LEMMA RoomForNext ==
  ASSUME NEW A, NEW B, NEW T, NEW x \in T \ B,
         IsFiniteSet(A), IsFiniteSet(T), B \subseteq T,
         Cardinality(A) + Cardinality(T) <= Room
  PROVE  Cardinality(A \cup B) < Room
<1>1. IsFiniteSet(B) /\ Cardinality(B) < Cardinality(T)
  <2>1. IsFiniteSet(B)
    BY FS_Subset
  <2>2. B # T
    OBVIOUS
  <2>3. Cardinality(B) <= Cardinality(T) /\ Cardinality(B) # Cardinality(T)
    BY <2>2, FS_Subset
  <2>4. Cardinality(B) \in Nat /\ Cardinality(T) \in Nat
    BY <2>1, FS_CardinalityType
  <2> QED BY <2>1, <2>3, <2>4
<1>2. Cardinality(A) \in Nat /\ Cardinality(B) \in Nat /\ Cardinality(T) \in Nat /\ Room \in Nat
  BY <1>1, FS_CardinalityType, TradeAssumption
<1>3. /\ IsFiniteSet(A \cup B) /\ Cardinality(A \cap B) \in Nat
      /\ Cardinality(A \cup B) = Cardinality(A) + Cardinality(B) - Cardinality(A \cap B)
  <2>1. IsFiniteSet(A \cap B)
    BY FS_Subset
  <2> QED BY <1>1, <2>1, FS_Union, FS_CardinalityType
<1> QED BY <1>1, <1>2, <1>3

(* The bags of r halfway: what r keeps and what he has been given so far.         *)
LEMMA BagsHalfway ==
  ASSUME IInv, TypeOK, NEW p \in Players, Trading(p), NEW n \in 0..TradedCount
  PROVE  /\ Bags(Halfway(p)[n], Trader(p)) =
              (Bags(owner, Trader(p)) \ TradedItems(Trader(p))) \cup Upto(p, n)
         /\ Bags(Halfway(p)[n], p) = (Bags(owner, p) \ TradedItems(p)) \cup Upto(Trader(p), n)
<1>1. PICK q \in Players : q = Trader(p)
  BY BothSides
<1>2. q # p /\ Trading(q) /\ Trader(q) = p /\ q # NoOne /\ p # NoOne
  BY <1>1, BothSides, TradeAssumption DEF BothOf
<1>3. PICK h : h = Halfway(p)[n]
  OBVIOUS
<1>4. \A i \in Items : h[i] = IF i \in Upto(p, n) THEN q
                              ELSE IF i \in Upto(q, n) THEN p
                              ELSE IF i \in TradedItems(p) \cup TradedItems(q) THEN NoOne
                              ELSE owner[i]
  BY <1>1, <1>3 DEF Halfway, Offered
<1>5. /\ Upto(p, n) \subseteq TradedItems(p) /\ Upto(q, n) \subseteq TradedItems(q)
      /\ TradedItems(p) \subseteq Items /\ TradedItems(q) \subseteq Items
      /\ \A i \in TradedItems(p) : owner[i] = p
      /\ \A i \in TradedItems(q) : owner[i] = q
  BY <1>2, UptoFacts, ItemFacts
<1>6. Bags(h, q) = (Bags(owner, q) \ TradedItems(q)) \cup Upto(p, n)
  BY <1>2, <1>4, <1>5 DEF Bags
<1>7. Bags(h, p) = (Bags(owner, p) \ TradedItems(p)) \cup Upto(q, n)
  BY <1>2, <1>4, <1>5 DEF Bags
<1> QED BY <1>1, <1>3, <1>6, <1>7

(* Player::CanStoreItems asked both sides, so every item of every slot fits.      *)
LEMMA AlwaysFits ==
  ASSUME IInv, TypeOK, NEW p \in Players, Trading(p),
         CanStoreItems(p), CanStoreItems(Trader(p)), NEW n \in 1..TradedCount
  PROVE  /\ GetItem(p, n) = Null \/ Cardinality(Bags(Halfway(p)[n - 1], Trader(p))) < Room
         /\ GetItem(Trader(p), n) = Null \/ Cardinality(Bags(Halfway(p)[n - 1], p)) < Room
<1>1. PICK q \in Players : q = Trader(p)
  BY BothSides
<1>2. Trading(q) /\ Trader(q) = p
  BY <1>1, BothSides DEF BothOf
<1>3. n - 1 \in 0..TradedCount
  BY TradeAssumption
<1>4. /\ IsFiniteSet(Bags(owner, q) \ TradedItems(q)) /\ IsFiniteSet(Bags(owner, p) \ TradedItems(p))
      /\ IsFiniteSet(TradedItems(p)) /\ IsFiniteSet(TradedItems(q))
  <2>1. IsFiniteSet(Items)
    BY TradeAssumption
  <2>2. /\ Bags(owner, q) \ TradedItems(q) \in SUBSET Items
        /\ Bags(owner, p) \ TradedItems(p) \in SUBSET Items
        /\ TradedItems(p) \in SUBSET Items /\ TradedItems(q) \in SUBSET Items
    BY <1>2, ItemFacts DEF Bags
  <2> QED BY <2>1, <2>2, FS_Subset
<1>5. GetItem(p, n) = Null \/ Cardinality((Bags(owner, q) \ TradedItems(q)) \cup Upto(p, n - 1)) < Room
  <2>1. Cardinality(Bags(owner, q) \ TradedItems(q)) + Cardinality(TradedItems(p)) <= Room
    BY <1>1, <1>2 DEF CanStoreItems
  <2>2. Upto(p, n - 1) \subseteq TradedItems(p)
    BY <1>3, UptoFacts
  <2>3. GetItem(p, n) = Null \/ GetItem(p, n) \in TradedItems(p) \ Upto(p, n - 1)
    BY UptoFacts
  <2> QED BY <1>4, <2>1, <2>2, <2>3, RoomForNext
<1>6. GetItem(q, n) = Null \/ Cardinality((Bags(owner, p) \ TradedItems(p)) \cup Upto(q, n - 1)) < Room
  <2>1. Cardinality(Bags(owner, p) \ TradedItems(p)) + Cardinality(TradedItems(q)) <= Room
    BY <1>1, <1>2 DEF CanStoreItems
  <2>2. Upto(q, n - 1) \subseteq TradedItems(q)
    BY <1>2, <1>3, UptoFacts
  <2>3. GetItem(q, n) = Null \/ GetItem(q, n) \in TradedItems(q) \ Upto(q, n - 1)
    BY <1>2, UptoFacts
  <2> QED BY <1>4, <2>1, <2>2, <2>3, RoomForNext
<1> QED BY <1>1, <1>3, <1>5, <1>6, BagsHalfway

LEMMA HalfwayMoves ==
  ASSUME IInv, TypeOK, NEW p \in Players, Trading(p),
         CanStoreItems(p), CanStoreItems(Trader(p))
  PROVE  Moves(Halfway(p), Removed(p), p)
<1>0. TradedCount \in Nat \ {0}
  BY TradeAssumption
<1>1. PICK q \in Players : q = Trader(p)
  BY BothSides
<1>2. Trading(q) /\ Trader(q) = p /\ q # p
  BY <1>1, BothSides DEF BothOf
<1>3. Halfway(p)[0] = Removed(p)
  <2>1. Upto(p, 0) = {} /\ Upto(q, 0) = {}
    BY <1>2, UptoFacts
  <2> QED BY <1>0, <1>1, <2>1 DEF Halfway, Removed
<1>4. ASSUME NEW n \in 1..TradedCount
      PROVE  Halfway(p)[n] = MoveSlot(Halfway(p)[n - 1], p, GetItem(p, n), GetItem(q, n))
  <2>1. n \in 0..TradedCount /\ n - 1 \in 0..TradedCount
    BY <1>0
  <2>2. PICK mine, hers : mine = GetItem(p, n) /\ hers = GetItem(q, n)
    OBVIOUS
  <2>3. PICK o : o = Halfway(p)[n - 1]
    OBVIOUS
  <2>4. /\ mine = Null \/ Cardinality(Bags(o, q)) < Room
        /\ hers = Null \/ Cardinality(Bags(o, p)) < Room
    BY <1>1, <2>2, <2>3, AlwaysFits
  <2>5. MoveSlot(o, p, mine, hers) =
           [i \in Items |-> CASE i = mine -> q [] i = hers -> p [] OTHER -> o[i]]
    BY <1>1, <2>4 DEF MoveSlot
  <2>6. \A i \in Items : o[i] = IF i \in Upto(p, n - 1) THEN q
                                ELSE IF i \in Upto(q, n - 1) THEN p
                                ELSE IF i \in Offered(p) THEN NoOne ELSE owner[i]
    BY <1>1, <2>1, <2>3 DEF Halfway
  <2>7. /\ Upto(p, n) = Upto(p, n - 1) \cup ({mine} \ {Null})
        /\ Upto(q, n) = Upto(q, n - 1) \cup ({hers} \ {Null})
        /\ Null \notin Items
        /\ mine \in Items => owner[mine] = p
        /\ hers \in Items => owner[hers] = q
        /\ \A i \in Upto(p, n - 1) : owner[i] = p
        /\ \A i \in Upto(q, n - 1) : owner[i] = q
    <3>1. /\ \A i \in TradedItems(p) : owner[i] = p
          /\ \A i \in TradedItems(q) : owner[i] = q
      BY <1>2, ItemFacts
    <3>2. Null \notin Items
      BY TradeAssumption
    <3>3. /\ mine # Null => mine \in TradedItems(p)
          /\ hers # Null => hers \in TradedItems(q)
      BY <1>2, <2>2, UptoFacts
    <3>4. Upto(p, n - 1) \subseteq TradedItems(p) /\ Upto(q, n - 1) \subseteq TradedItems(q)
      BY <1>2, <2>1, UptoFacts
    <3> QED BY <1>2, <2>2, <3>1, <3>2, <3>3, <3>4, UptoFacts
  <2>8. Halfway(p)[n] = [i \in Items |-> IF i \in Upto(p, n) THEN q
                                         ELSE IF i \in Upto(q, n) THEN p
                                         ELSE IF i \in Offered(p) THEN NoOne ELSE owner[i]]
    BY <1>1, <2>1 DEF Halfway
  <2>9. \A i \in Items :
           (CASE i = mine -> q [] i = hers -> p [] OTHER -> o[i])
           = (IF i \in Upto(p, n) THEN q ELSE IF i \in Upto(q, n) THEN p
              ELSE IF i \in Offered(p) THEN NoOne ELSE owner[i])
    <3> SUFFICES ASSUME NEW i \in Items
                 PROVE  (CASE i = mine -> q [] i = hers -> p [] OTHER -> o[i])
                        = (IF i \in Upto(p, n) THEN q ELSE IF i \in Upto(q, n) THEN p
                           ELSE IF i \in Offered(p) THEN NoOne ELSE owner[i])
      OBVIOUS
    <3>1. CASE i = mine
      BY <2>7, <3>1
    <3>2. CASE i # mine /\ i = hers
      BY <1>2, <2>7, <3>2
    <3>3. CASE i # mine /\ i # hers
      BY <2>6, <2>7, <3>3
    <3> QED BY <3>1, <3>2, <3>3
  <2> QED BY <2>2, <2>3, <2>5, <2>8, <2>9
<1> QED BY <1>1, <1>3, <1>4 DEF Moves

(* moveItems delivers every offered item that its giver still has, and no other.  *)
LEMMA MoveItemsSwaps ==
  ASSUME IInv, TypeOK, NEW p \in Players, Trading(p),
         CanStoreItems(p), CanStoreItems(Trader(p))
  PROVE  moveItems(p) = Swapped(p)
<1>1. moveItems(p) = Halfway(p)[TradedCount]
  BY HalfwayMoves, MoveItemsIs
<1>2. TradedCount \in 0..TradedCount
  BY TradeAssumption
<1>3. PICK q \in Players : q = Trader(p) /\ Trading(q)
  BY BothSides DEF BothOf
<1>4. Upto(p, TradedCount) = TradedItems(p) /\ Upto(q, TradedCount) = TradedItems(q)
  BY <1>3, UptoFacts
<1> QED BY <1>1, <1>2, <1>3, <1>4 DEF Halfway, Swapped, Offered

(* Each purse pays what it has and is paid up to MAX_MONEY_AMOUNT.                *)
LEMMA PurseIs ==
  ASSUME TypeOK, NEW p \in Players, Trading(p), Trading(Trader(p)), Trader(p) \in Players, CanPay(p)
  PROVE  /\ gold[p] \in 0..MaxMoney /\ trade[p].money \in 0..MaxMoney
         /\ trade[Trader(p)].money \in 0..MaxMoney
         /\ Purse(p) \in 0..MaxMoney
         /\ Purse(p) = Table!AtMost(gold[p] - trade[p].money + trade[Trader(p)].money)
<1>1. trade[p] \in TradeData /\ trade[Trader(p)] \in TradeData
  BY DEF TypeOK, Trading
<1>2. PICK g, pay, get \in 0..MaxMoney :
         g = gold[p] /\ pay = trade[p].money /\ get = trade[Trader(p)].money
  BY <1>1 DEF TypeOK, TradeData
<1>3. pay <= g /\ MaxMoney \in Nat
  BY <1>2, TradeAssumption DEF CanPay
<1>4. ModifyMoney(g, -pay) = g - pay
  BY <1>3 DEF ModifyMoney
<1>5. ModifyMoney(g - pay, get) = IF g - pay < MaxMoney - get THEN g - pay + get ELSE MaxMoney
  BY <1>3 DEF ModifyMoney
<1>6. Purse(p) = IF g - pay < MaxMoney - get THEN g - pay + get ELSE MaxMoney
  BY <1>2, <1>4, <1>5 DEF Purse
<1>7. Table!AtMost(g - pay + get) = IF g - pay + get < MaxMoney THEN g - pay + get ELSE MaxMoney
  BY DEF Table!AtMost
<1>8. Purse(p) = Table!AtMost(g - pay + get) /\ Purse(p) \in 0..MaxMoney
  BY <1>3, <1>6, <1>7
<1> QED BY <1>2, <1>8

(* What a completed trade does to the goods.                                    *)
LEMMA Completion ==
  ASSUME IInv, TypeOK, NEW p \in Players, CompleteTrade(p)
  PROVE  /\ Trading(p) /\ Trading(Trader(p)) /\ Trader(p) \in Players /\ Trader(p) # p
         /\ Trader(Trader(p)) = p
         /\ CanPay(p) /\ CanPay(Trader(p)) /\ trade[Trader(p)].accepted
         /\ owner' = Swapped(p)
         /\ gold' = [gold EXCEPT ![p] = Purse(p), ![Trader(p)] = Purse(Trader(p))]
         /\ trade' = [trade EXCEPT ![p] = Null, ![Trader(p)] = Null]
<1>1. Trading(p) /\ CanPay(p) /\ CanPay(Trader(p)) /\ trade[Trader(p)].accepted
  BY DEF CompleteTrade, BothAccept, MoneyIsThere, Accepting
<1>2. owner' = Swapped(p)
  BY <1>1, MoveItemsSwaps DEF CompleteTrade
<1> QED BY <1>1, <1>2, BothSides DEF CompleteTrade, BothOf

(* Only a completed trade and the rest of the game touch goods.                  *)
GoodsStep ==
    \/ UNCHANGED <<owner, gold>>
    \/ \E p \in Players : CompleteTrade(p)
    \/ \E p \in Players : MoneyChanges(p)
    \/ \E i \in Items : ItemLeaves(i)
    \/ \E i \in Items, p \in Players : ItemArrives(i, p)

LEMMA GoodsSteps ==
  ASSUME [Next]_vars
  PROVE  GoodsStep
<1>1. ASSUME NEW p \in Players, HandleAcceptTrade(p)
      PROVE  GoodsStep
  BY <1>1 DEF HandleAcceptTrade, TooFarOrPoor, TraderPoor, CannotBeTraded, AcceptFirst, SpellFails,
     NoRoom, GoodsStep
<1>2. ASSUME NEW p \in Players, NEW q \in Players, HandleInitiateTrade(p, q)
      PROVE  GoodsStep
  BY <1>2 DEF HandleInitiateTrade, GoodsStep
<1>3. ASSUME NEW p \in Players, NEW sp \in Spells, ApplySpell(p, sp)
      PROVE  GoodsStep
  BY <1>3 DEF ApplySpell, GoodsStep
<1>4. ASSUME NEW p \in Players, \/ HandleSetTradeGold(p) \/ HandleSetTradeItem(p)
                                \/ HandleClearTradeItem(p) \/ HandleUnacceptTrade(p) \/ TradeCancel(p)
      PROVE  GoodsStep
  BY <1>4 DEF HandleSetTradeGold, HandleSetTradeItem, HandleClearTradeItem, HandleUnacceptTrade,
     TradeCancel, GoodsStep
<1>5. CASE UNCHANGED vars
  BY <1>5 DEF vars, GoodsStep
<1> QED BY <1>1, <1>2, <1>3, <1>4, <1>5 DEF Next, GoodsStep

LEMMA TypeStep ==
  ASSUME IInv, TypeOK, [Next]_vars
  PROVE  TypeOK'
<1>1. trade' \in [Players -> TradeData \cup {Null}]
  BY StepInv DEF IInv, WindowsOK
<1>2. /\ owner \in [Items -> Players \cup {NoOne}] /\ gold \in [Players -> 0..MaxMoney]
  BY DEF TypeOK
<1>3. ASSUME NEW p \in Players, CompleteTrade(p)
      PROVE  TypeOK'
  <2>1. PICK q \in Players : q = Trader(p)
    BY <1>3, Completion
  <2>2. /\ Trading(p) /\ Trading(q) /\ Trader(q) = p /\ CanPay(p) /\ CanPay(q)
        /\ owner' = Swapped(p)
        /\ gold' = [gold EXCEPT ![p] = Purse(p), ![q] = Purse(q)]
    BY <1>3, <2>1, Completion
  <2>3. owner' \in [Items -> Players \cup {NoOne}]
    BY <1>2, <2>1, <2>2 DEF Swapped
  <2>4. Purse(p) \in 0..MaxMoney /\ Purse(q) \in 0..MaxMoney
    BY <2>1, <2>2, PurseIs
  <2>5. gold' \in [Players -> 0..MaxMoney]
    BY <1>2, <2>2, <2>4
  <2> QED BY <1>1, <2>3, <2>5 DEF TypeOK
<1>4. ASSUME NEW p \in Players, MoneyChanges(p)
      PROVE  TypeOK'
  BY <1>1, <1>2, <1>4 DEF MoneyChanges, TypeOK
<1>5. ASSUME NEW i \in Items, ItemLeaves(i)
      PROVE  TypeOK'
  BY <1>1, <1>2, <1>5 DEF ItemLeaves, TypeOK
<1>6. ASSUME NEW i \in Items, NEW p \in Players, ItemArrives(i, p)
      PROVE  TypeOK'
  BY <1>1, <1>2, <1>6 DEF ItemArrives, TypeOK
<1>7. CASE UNCHANGED <<owner, gold>>
  BY <1>1, <1>2, <1>7 DEF TypeOK
<1> QED BY <1>3, <1>4, <1>5, <1>6, <1>7, GoodsSteps DEF GoodsStep

(* The money of a purse stays within 0..MAX_MONEY_AMOUNT and every item has one     *)
(* owner or none, whatever the offers were: what moveItems and ModifyMoney leave   *)
(* behind is a state of the same kind.                                         *)
THEOREM TypeCorrect == Spec => []TypeOK
<1>1. Init => IInv /\ TypeOK
  BY InitInv DEF Init, TypeOK, IInv, WindowsOK
<1>2. (IInv /\ TypeOK) /\ [Next]_vars => (IInv /\ TypeOK)'
  BY StepInv, TypeStep
<1> QED BY <1>1, <1>2, PTL DEF Spec

-----------------------------------------------------------------------------
(* The barter behind the window.                                              *)

Agreed == [p \in Players |-> Consent(p)]

LEMMA ConsentIs ==
  ASSUME IInv, NEW p \in Players
  PROVE  /\ FlagUp(trade[p]) => Consent(p) = [with |-> Trader(p), mine |-> Offer(p), his |-> Offer(Trader(p))]
         /\ ~FlagUp(trade[p]) => Consent(p) = Null
         /\ FlagUp(trade[p]) <=> Consent(p) # Null
<1>1. ASSUME FlagUp(trade[p])
      PROVE  /\ Consent(p) = [with |-> Trader(p), mine |-> Offer(p), his |-> Offer(Trader(p))]
             /\ Consent(p) # Null
  <2>1. Trading(p)
    BY <1>1 DEF FlagUp, Trading
  <2>2. PICK q \in Players : q = Trader(p)
    BY <2>1, BothSides
  <2>3. Consent(p) = [with |-> q, mine |-> Offer(p), his |-> Offer(q)]
    BY <1>1, <2>1, <2>2 DEF Consent, FlagUp
  <2>4. ASSUME NEW r \in {p, q} PROVE Offer(r) \in Offers
    <3>1. trade[r] \in TradeData
      BY <2>1, <2>2, <2>4, BothSides
    <3>2. /\ {trade[r].items[s] : s \in Traded} \ {Null} \in SUBSET Items
          /\ trade[r].items[NonTraded] \in Items \cup {Null}
      BY <3>1, SlotFacts DEF TradeData
    <3> QED BY <3>1, <3>2 DEF Offer, Offers, TradeData
  <2>5. Consent(p) \in Terms
    BY <2>3, <2>4 DEF Terms
  <2> QED BY <2>2, <2>3, <2>5, NullIsNoTerms
<1>2. ~FlagUp(trade[p]) => Consent(p) = Null
  BY DEF FlagUp, Consent, Trading
<1> QED BY <1>1, <1>2

(* A player whose two windows do not change consents to what he did.             *)
LEMMA UnchangedConsent ==
  ASSUME IInv, NEW p \in Players, trade'[p] = trade[p],
         Trading(p) => trade'[Trader(p)] = trade[Trader(p)]
  PROVE  Consent(p)' = Consent(p)
<1>1. CASE Trading(p)
  <2>1. PICK q \in Players : q = Trader(p)
    BY <1>1, BothSides
  <2>2. Offer(p)' = Offer(p)
    BY DEF Offer
  <2>3. Offer(q)' = Offer(q)
    BY <1>1, <2>1 DEF Offer
  <2>4. Consent(p) = IF trade[p].accepted
                     THEN [with |-> q, mine |-> Offer(p), his |-> Offer(q)] ELSE Null
    BY <1>1, <2>1 DEF Consent
  <2>5. Consent(p)' = IF trade[p].accepted
                      THEN [with |-> q, mine |-> Offer(p)', his |-> Offer(q)'] ELSE Null
    <3>1. trade'[p].trader = q /\ trade'[p] # Null
      BY <1>1, <2>1 DEF Trader, Trading
    <3> QED BY <3>1 DEF Consent, Trading, Trader, Offer
  <2> QED BY <2>2, <2>3, <2>4, <2>5
<1>2. CASE ~Trading(p)
  BY <1>2 DEF Trading, Consent
<1> QED BY <1>1, <1>2

(* Players consent one at a time: of all the handlers only HandleAcceptTrade       *)
(* raises a flag, and only the one of the player whose opcode it is.             *)
LEMMA OneRaises ==
  ASSUME IInv, [Next]_vars
  PROVE  RaisesOne(trade')
<1>0. trade \in [Players -> TradeData \cup {Null}]
  BY DEF IInv, WindowsOK
<1>1. ASSUME NEW p \in Players, NEW q \in Players, Opens(p, q)
      PROVE  RaisesOne(trade')
  <2>1. \A r \in Players \ {p, q} : trade'[r] = trade[r]
    BY <1>0, <1>1 DEF Opens
  <2>2. trade'[p] = NewTrade(q) /\ trade'[q] = NewTrade(p)
    BY <1>0, <1>1 DEF Opens
  <2>3. ~NewTrade(q).accepted /\ ~NewTrade(p).accepted
    BY DEF NewTrade
  <2> QED BY <2>1, <2>2, <2>3 DEF RaisesOne, FlagUp
<1>2. ASSUME NEW p \in Players, Closes(p)
      PROVE  RaisesOne(trade')
  <2>1. \A r \in Players : trade'[r] = trade[r] \/ trade'[r] = Null
    BY <1>0, <1>2 DEF Closes
  <2> QED BY <2>1 DEF RaisesOne, FlagUp
<1>3. ASSUME NEW p \in Players, Changes(p)
      PROVE  RaisesOne(trade')
  BY <1>3 DEF Changes, RaisesOne, FlagUp
<1>4. CASE Flags
  BY <1>4 DEF Flags
<1> QED BY <1>1, <1>2, <1>3, <1>4, StepKinds DEF StepKind

LEMMA TalkStep ==
  ASSUME IInv, [Next]_vars, UNCHANGED <<owner, gold>>
  PROVE  Table!Talk
<1>0. IInv'
  BY StepInv
<1>1. \A p \in Players : Agreed[p] = Consent(p) /\ Agreed'[p] = Consent(p)'
  BY DEF Agreed
<1>2. \A p \in Players : Agreed'[p] # Agreed[p] => Null \in {Agreed[p], Agreed'[p]}
  <2> SUFFICES ASSUME NEW p \in Players
               PROVE  Agreed'[p] # Agreed[p] => Null \in {Agreed[p], Agreed'[p]}
    OBVIOUS
  <2>1. Null \in {Consent(p), Consent(p)'} \/ Consent(p)' = Consent(p)
    BY ConsentOfOne
  <2> QED BY <1>1, <2>1
<1>3. PICK x : \A r \in Players \ {x} : FlagUp(trade'[r]) => FlagUp(trade[r])
  BY OneRaises DEF RaisesOne
<1>4. ASSUME NEW p \in Players, Agreed[p] = Null, Agreed'[p] # Null
      PROVE  p = x
  <2>1. ~FlagUp(trade[p])
    BY <1>1, <1>4, ConsentIs
  <2>2. FlagUp(trade'[p])
    BY <1>1, <1>4 DEF Consent, Trading, FlagUp
  <2> QED BY <1>3, <2>1, <2>2
<1>5. \A p, q \in Players :
         (Agreed[p] = Null /\ Agreed'[p] # Null) /\ (Agreed[q] = Null /\ Agreed'[q] # Null) => p = q
  BY <1>4
<1> QED BY <1>2, <1>5 DEF Table!Talk, Table!Agrees, Agreed

LEMMA ElsewhereStep ==
  ASSUME IInv, TypeOK, UNCHANGED trade,
         \/ \E p \in Players : MoneyChanges(p)
         \/ \E i \in Items : ItemLeaves(i)
         \/ \E i \in Items, p \in Players : ItemArrives(i, p)
  PROVE  Table!Elsewhere
<1>1. Agreed' = Agreed
  <2>1. \A p \in Players : Consent(p)' = Consent(p)
    BY UnchangedConsent
  <2> QED BY <2>1 DEF Agreed
<1>2. /\ owner \in [Items -> Players \cup {NoOne}] /\ gold \in [Players -> 0..MaxMoney]
  BY DEF TypeOK
<1>3. ASSUME NEW p \in Players, MoneyChanges(p)
      PROVE  UNCHANGED owner /\ \A q \in Players \ {p} : gold'[q] = gold[q]
  BY <1>2, <1>3 DEF MoneyChanges
<1>4. ASSUME NEW i \in Items, ItemLeaves(i) \/ \E p \in Players : ItemArrives(i, p)
      PROVE  /\ UNCHANGED gold
             /\ NoOne \in {owner[i], owner'[i]}
             /\ \A j \in Items \ {i} : owner'[j] = owner[j]
  BY <1>2, <1>4 DEF ItemLeaves, ItemArrives
<1> QED BY <1>1, <1>3, <1>4 DEF Table!Elsewhere, Agreed

LEMMA DealStep ==
  ASSUME IInv, TypeOK, [Next]_vars, NEW p \in Players, CompleteTrade(p)
  PROVE  Trader(p) \in Players /\ p # Trader(p) /\ Table!Deal(p, Trader(p))
<1>1. PICK q \in Players : q = Trader(p)
  BY Completion
<1>2. /\ Trading(p) /\ Trading(q) /\ q # p /\ Trader(q) = p
      /\ CanPay(p) /\ CanPay(q) /\ trade[q].accepted
      /\ owner' = Swapped(p)
      /\ gold' = [gold EXCEPT ![p] = Purse(p), ![q] = Purse(q)]
      /\ trade' = [trade EXCEPT ![p] = Null, ![q] = Null]
  BY <1>1, Completion
<1>3. \A r \in Players : Agreed[r] = Consent(r) /\ Agreed'[r] = Consent(r)'
  BY DEF Agreed
<1>4. PICK t : t = Agreed[q]
  OBVIOUS
<1>5. t = [with |-> p, mine |-> Offer(q), his |-> Offer(p)] /\ t # Null
  BY <1>2, <1>3, <1>4, ConsentIs DEF FlagUp, Trading
<1>6. /\ t.with = p /\ t.mine = Offer(q) /\ t.his = Offer(p)
      /\ t.mine.money = trade[q].money /\ t.his.money = trade[p].money
      /\ t.mine.items = {trade[q].items[s] : s \in Traded} \ {Null}
      /\ t.his.items = {trade[p].items[s] : s \in Traded} \ {Null}
  BY <1>5 DEF Offer
<1>7. Agreed[p] \in {Null, [with |-> q, mine |-> t.his, his |-> t.mine]}
  BY <1>1, <1>3, <1>6, ConsentIs
<1>8. Agreed' = [Agreed EXCEPT ![p] = Null, ![q] = Null]
  <2>1. trade \in [Players -> TradeData \cup {Null}]
    BY DEF IInv, WindowsOK
  <2>2. Consent(p)' = Null /\ Consent(q)' = Null
    BY <1>2, <2>1, NoConsent
  <2>3. ASSUME NEW r \in Players \ {p, q}
        PROVE  Consent(r)' = Consent(r)
    <3>1. trade'[r] = trade[r]
      BY <1>2, <2>1
    <3>2. Trading(r) => Trader(r) \in Players \ {p, q}
      BY <1>1, <1>2, BothSides
    <3>3. Trading(r) => trade'[Trader(r)] = trade[Trader(r)]
      BY <1>2, <2>1, <3>2
    <3> QED BY <3>1, <3>3, UnchangedConsent
  <2> QED BY <1>3, <2>2, <2>3 DEF Agreed
<1>9. owner' = [i \in Items |-> CASE i \in t.mine.items /\ owner[i] = q -> p
                                  [] i \in t.his.items /\ owner[i] = p -> q
                                  [] OTHER -> owner[i]]
  <2>1. /\ TradedItems(p) = {i \in Items : i \in t.his.items /\ owner[i] = p}
        /\ TradedItems(q) = {i \in Items : i \in t.mine.items /\ owner[i] = q}
    <3>1. Null \notin Items
      BY TradeAssumption
    <3> QED BY <1>2, <1>6, <3>1, ItemFacts
  <2> QED BY <1>1, <1>2, <2>1 DEF Swapped
<1>10. /\ t.his.money <= gold[p] /\ t.mine.money <= gold[q]
       /\ gold' = [gold EXCEPT ![p] = Table!AtMost(gold[p] - t.his.money + t.mine.money),
                               ![q] = Table!AtMost(gold[q] - t.mine.money + t.his.money)]
  <2>1. Purse(p) = Table!AtMost(gold[p] - t.his.money + t.mine.money)
    BY <1>1, <1>2, <1>6, PurseIs
  <2>2. Purse(q) = Table!AtMost(gold[q] - t.mine.money + t.his.money)
    BY <1>2, <1>6, PurseIs
  <2> QED BY <1>2, <1>6, <2>1, <2>2 DEF CanPay
<1>11. /\ Agreed[q] # Null /\ Agreed[q].with = p
       /\ Agreed[p] \in {Null, [with |-> q, mine |-> Agreed[q].his, his |-> Agreed[q].mine]}
       /\ owner' = [i \in Items |-> CASE i \in Agreed[q].mine.items /\ owner[i] = q -> p
                                      [] i \in Agreed[q].his.items /\ owner[i] = p -> q
                                      [] OTHER -> owner[i]]
       /\ Agreed[q].his.money <= gold[p] /\ Agreed[q].mine.money <= gold[q]
       /\ gold' = [gold EXCEPT
             ![p] = Table!AtMost(gold[p] - Agreed[q].his.money + Agreed[q].mine.money),
             ![q] = Table!AtMost(gold[q] - Agreed[q].mine.money + Agreed[q].his.money)]
  BY <1>4, <1>5, <1>6, <1>7, <1>9, <1>10
<1>12. p \in DOMAIN gold /\ q \in DOMAIN gold
  BY DEF TypeOK
<1>13. Table!Deal(p, q)
  BY <1>2, <1>8, <1>11, <1>12 DEF Table!Deal, Agreed
<1> QED BY <1>1, <1>2, <1>13

(* What a trade window does is a barter of two consenting players: goods change   *)
(* hands only when HandleAcceptTrade completes, between the two who have agreed,   *)
(* exactly as the terms say whatever slots, flags, refused acceptances and clamps *)
(* lie between; every other handler is talk.                                   *)
THEOREM Bartering == Spec => ImplementsBarter
<1>1. Init => Table!Init
  <2> SUFFICES ASSUME Init PROVE Table!Init
    OBVIOUS
  <2>1. \A p \in Players : Consent(p) = Null
    BY DEF Init, Consent, Trading
  <2> QED BY <2>1 DEF Init, Table!Init
<1>2. (IInv /\ TypeOK) /\ [Next]_vars => [Table!Next]_(Table!vars)
  <2> SUFFICES ASSUME IInv, TypeOK, [Next]_vars
               PROVE  Table!Next
    OBVIOUS
  <2>1. CASE UNCHANGED <<owner, gold>>
    BY <2>1, TalkStep DEF Table!Next
  <2>2. ASSUME NEW p \in Players, CompleteTrade(p)
        PROVE  Table!Next
    BY <2>2, DealStep DEF Table!Next
  <2>3. CASE \/ \E p \in Players : MoneyChanges(p)
             \/ \E i \in Items : ItemLeaves(i)
             \/ \E i \in Items, p \in Players : ItemArrives(i, p)
    <3>1. UNCHANGED trade
      BY <2>3 DEF MoneyChanges, ItemLeaves, ItemArrives
    <3> QED BY <2>3, <3>1, ElsewhereStep DEF Table!Next
  <2> QED BY <2>1, <2>2, <2>3, GoodsSteps DEF GoodsStep
<1>3. Spec => [](IInv /\ TypeOK)
  BY Invariance, TypeCorrect, PTL
<1> QED BY <1>1, <1>2, <1>3, PTL DEF Spec, ImplementsBarter, Table!Spec
=============================================================================
