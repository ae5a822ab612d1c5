------------------------------- MODULE Auction -------------------------------
(***************************************************************************)
(* The auction house (src/src/game/AuctionHouse), the mails it sends and   *)
(* the asynchronous database behind them.  All of it runs on the world     *)
(* thread, each handler in one go; what a handler writes goes to the       *)
(* database as one or more transactions that the delay thread executes     *)
(* later, in order (module SqlDelay), and a crash loses those it has not.  *)
(*                                                                         *)
(* Memory and disk are two tables with the same rows: a transaction is the *)
(* part of the table it writes.  A `lot` is an AuctionEntry and a `letter` *)
(* a mail; ids are used again.                                             *)
(*                                                                         *)
(* Left open: when auctions expire and when the money of a sale is due.    *)
(* Left out: stacks, COD, mails from players and the time mails are kept,  *)
(* a full bag, the auctions of the bot, and characters that are deleted.   *)
(***************************************************************************)
EXTENDS Integers, Sequences, FiniteSets, Functions

CONSTANTS
    Players, Items,
    Nobody,         \* guid 0: no bidder, or the auction house bot
    None,           \* no lot, no letter, item guid 0
    HasItems,       \* what each player has at first
    Money,          \* and the money of each
    BotMoney,       \* bound: what the bot spends
    StartBids, Buyouts, Prices,     \* what sellers ask and bidders offer
    Deposit, CutPercent,
    Lots, Letters,  \* bounds: ids
    Backlog,        \* bound: transactions left when the next request comes
    MaxCrashes,     \* bound
    Lag             \* bids on auctions that clients no longer list

ASSUME AuctionAssumption ==
    /\ IsFiniteSet(Players) /\ IsFiniteSet(Items) /\ Nobody \notin Players /\ None \notin Items
    /\ HasItems \in [Players -> SUBSET Items]
    /\ \A p, q \in Players : p # q => HasItems[p] \cap HasItems[q] = {}
    /\ Money \in Nat /\ BotMoney \in Nat /\ StartBids \cup Prices \subseteq Nat \ {0} /\ Buyouts \subseteq Nat
    /\ Deposit \in Nat /\ CutPercent \in 0..100
    /\ Lots \in SUBSET Nat /\ Letters \in SUBSET Nat /\ IsFiniteSet(Lots) /\ IsFiniteSet(Letters)
    /\ Backlog \in Nat /\ MaxCrashes \in Nat
    /\ Lag \in BOOLEAN

VARIABLES
    mem,        \* the players, auctions and mails of the running server
    disk,       \* the same rows in the database
    queue,      \* transactions the delay thread has not executed
    crashes

vars == <<mem, disk, queue, crashes>>

\* As in module TLC, of which the proof system has no definitions.
d :> e == [x \in {d} |-> e]
f @@ g == [x \in DOMAIN f \cup DOMAIN g |-> IF x \in DOMAIN f THEN f[x] ELSE g[x]]

\* The rows: characters.money, character_inventory, auction, mail and mail_items.
Bidders   == Players \cup {Nobody}
Purse(p)  == <<"purse", p>>
Bag(p)    == <<"bag", p>>
Lot(a)    == <<"lot", a>>
Letter(m) == <<"letter", m>>

\* A lot has an owner, an item, a startbid and a buyout (0 for none), the bid and the
\* bidder, and is pending once it is sold (moneyDeliveryTime); a letter has the
\* player it is for, money and an item.
Init ==
    /\ mem = [r \in {Purse(p) : p \in Players} |-> Money] @@ (Purse(Nobody) :> BotMoney)
             @@ [r \in {Bag(p) : p \in Players} |-> HasItems[r[2]]]
             @@ [r \in {Lot(a) : a \in Lots} \cup {Letter(m) : m \in Letters} |-> None]
    /\ disk = mem /\ queue = << >> /\ crashes = 0

-----------------------------------------------------------------------------
(* What handlers do: a change of the table, and the rows of each transaction. *)

Handle(change, transactions) ==
    /\ mem' = change @@ mem
    /\ queue' = queue \o [n \in DOMAIN transactions |-> Restrict(change @@ mem, transactions[n])]
    /\ UNCHANGED <<disk, crashes>>

\* SaveInventoryAndGoldToDB, for a bidder that is a player.
Saved(p) == IF p = Nobody THEN {Purse(p)} ELSE {Purse(p), Bag(p)}

FreeLots == {a \in Lots : mem[Lot(a)] = None}
FreeLetters == {m \in Letters : mem[Letter(m)] = None}
Ready == Len(queue) <= Backlog /\ Cardinality(FreeLetters) >= 2
FirstId == CHOOSE m \in FreeLetters : TRUE
First == Letter(FirstId)
SecondId == CHOOSE m \in FreeLetters \ {FirstId} : TRUE
Second == Letter(SecondId)

GetAItem(i) == \E a \in Lots : mem[Lot(a)] # None /\ mem[Lot(a)].item = i
GetAuctionCut(bid) == (bid * CutPercent) \div 100
GetAuctionOutBid(bid) == IF bid < 100 THEN 1 ELSE (bid \div 100) * 5

\* CMSG_AUCTION_SELL_ITEM, and AddAuction.
HandleAuctionSellItem(p, i, startbid, buyout) ==
    /\ Ready /\ FreeLots # {}
    /\ i \in mem[Bag(p)] /\ ~GetAItem(i) /\ mem[Purse(p)] >= Deposit
    /\ LET a == CHOOSE a \in FreeLots : TRUE
       IN  Handle(Bag(p) :> mem[Bag(p)] \ {i}
                  @@ Lot(a) :> [owner |-> p, item |-> i, startbid |-> startbid, buyout |-> buyout,
                                bid |-> 0, bidder |-> Nobody, pending |-> FALSE]
                  @@ Purse(p) :> mem[Purse(p)] - Deposit,
                  <<{Lot(a)} \cup Saved(p)>>)

OutbidMutant(lot, p) == lot.bidder # Nobody

\* SendAuctionOutbiddedMail: the money of the bid that is beaten.
Outbid(lot, p) == lot.bidder \notin {Nobody, p}
Refund(lot) == First :> [to |-> lot.bidder, money |-> lot.bid, item |-> None]

SoldMutant(lot) == [lot EXCEPT !.pending = TRUE]

\* AuctionBidWinning and SendAuctionWonMail: the money waits for an hour, the item
\* goes to the bidder, or nowhere if there is none; one sold before has none.
Sold(lot) == [lot EXCEPT !.pending = TRUE, !.item = None]
Delivers(lot) == lot.item # None /\ lot.bidder # Nobody
Delivery(lot) == Second :> [to |-> lot.bidder, money |-> 0, item |-> lot.item]

\* UpdateBid: p is Nobody when the bot bids.
Bid(lot, p, newbid) ==
    [lot EXCEPT !.bid = IF lot.buyout # 0 /\ newbid > lot.buyout THEN lot.buyout ELSE newbid,
                !.bidder = p]
Due(lot, p, bid) == IF p # Nobody /\ p = lot.bidder THEN bid - lot.bid ELSE bid
UpdateBid(a, p, newbid) ==
    LET lot  == mem[Lot(a)]
        new  == Bid(lot, p, newbid)
        wins == new.buyout # 0 /\ new.bid >= new.buyout
        Mailed(cond, letter) == IF cond THEN letter ELSE << >>
        Transaction(cond, rows) == IF cond THEN <<rows>> ELSE << >>
    IN  Handle(Lot(a) :> (IF wins THEN Sold(new) ELSE new)
               @@ Purse(p) :> mem[Purse(p)] - Due(lot, p, new.bid)
               @@ Mailed(Outbid(lot, p), Refund(lot)) @@ Mailed(wins /\ Delivers(new), Delivery(new)),
               Transaction(Outbid(lot, p), {First}) \o <<{Lot(a)} \cup Saved(p)>>
               \o Transaction(wins /\ Delivers(new), {Second}))

\* CMSG_AUCTION_PLACE_BID.
HandleAuctionPlaceBid(p, a, price) ==
    LET lot == mem[Lot(a)] IN
    /\ Ready /\ lot # None /\ lot.owner # p
    /\ Lag \/ ~lot.pending
    /\ price > lot.bid /\ price >= lot.startbid /\ price <= mem[Purse(p)]
    /\ (lot.buyout # 0 /\ price >= lot.buyout) \/ price >= lot.bid + GetAuctionOutBid(lot.bid)
    /\ UpdateBid(a, p, price)

\* AuctionHouseBot::Update buys what is cheap for it, or bids the least it can.
BotBid(a) ==
    LET lot == mem[Lot(a)]
        least == lot.bid + GetAuctionOutBid(lot.bid)
    IN  /\ Ready /\ lot # None /\ lot.item # None
        /\ \E price \in {lot.buyout, IF lot.startbid > least THEN lot.startbid ELSE least} :
               /\ price # 0 /\ price <= mem[Purse(Nobody)]
               /\ UpdateBid(a, Nobody, price)

SendAuctionSuccessfulMailMutant(a) ==
    LET lot == mem[Lot(a)] IN
    /\ Ready /\ lot # None /\ lot.pending
    /\ Handle(Lot(a) :> None
              @@ First :> [to |-> lot.owner, item |-> None,
                           money |-> lot.bid + Deposit - GetAuctionCut(lot.bid)],
              <<{Lot(a)}, {First}>>)

\* AuctionHouseObject::Update, for one auction: the money of a sale is due ...
SendAuctionSuccessfulMail(a) ==
    LET lot == mem[Lot(a)] IN
    /\ Ready /\ lot # None /\ lot.pending
    /\ Handle(Lot(a) :> None
              @@ First :> [to |-> lot.owner, item |-> None,
                           money |-> lot.bid + Deposit - GetAuctionCut(lot.bid)],
              <<{First}, {Lot(a)}>>)

\* ... or its time is over and it has a bid ...
AuctionBidWinning(a) ==
    LET lot == mem[Lot(a)] IN
    /\ Ready /\ lot # None /\ ~lot.pending /\ lot.bid # 0
    /\ IF Delivers(lot) THEN Handle(Lot(a) :> Sold(lot) @@ Delivery(lot), <<{Lot(a)}, {Second}>>)
       ELSE Handle(Lot(a) :> Sold(lot), <<{Lot(a)}>>)

\* ... or none.
SendAuctionExpiredMail(a) ==
    LET lot == mem[Lot(a)] IN
    /\ Ready /\ lot # None /\ ~lot.pending /\ lot.bid = 0
    /\ Handle(Lot(a) :> None @@ First :> [to |-> lot.owner, money |-> 0, item |-> lot.item],
              <<{First}, {Lot(a)}>>)

\* CMSG_AUCTION_REMOVE_ITEM: the owner takes it back, and pays the cut of the bid.
HandleAuctionRemoveItem(p, a) ==
    LET lot == mem[Lot(a)]
        back == Second :> [to |-> p, money |-> 0, item |-> lot.item] @@ Lot(a) :> None
        fee  == Purse(p) :> mem[Purse(p)] - GetAuctionCut(lot.bid)
        end  == <<{Second}, {Lot(a)} \cup Saved(p)>>
    IN  /\ Ready /\ lot # None /\ lot.owner = p /\ lot.item # None
        /\ lot.bid # 0 => mem[Purse(p)] >= GetAuctionCut(lot.bid)
        /\ IF Outbid(lot, p) THEN Handle(back @@ fee @@ Refund(lot), <<{First}>> \o end)
           ELSE Handle(back @@ fee, end)

\* CMSG_MAIL_TAKE_MONEY and CMSG_MAIL_TAKE_ITEM; an empty mail is of no more use.
Rest(letter) == IF letter.money = 0 /\ letter.item = None THEN None ELSE letter
HandleMailTakeMoney(p, m) ==
    LET letter == mem[Letter(m)] IN
    /\ Len(queue) <= Backlog /\ letter # None /\ letter.to = p /\ letter.money > 0
    /\ Handle(Letter(m) :> Rest([letter EXCEPT !.money = 0])
              @@ Purse(p) :> mem[Purse(p)] + letter.money, <<{Letter(m), Purse(p)}>>)
HandleMailTakeItem(p, m) ==
    LET letter == mem[Letter(m)] IN
    /\ Len(queue) <= Backlog /\ letter # None /\ letter.to = p /\ letter.item # None
    /\ Handle(Letter(m) :> Rest([letter EXCEPT !.item = None])
              @@ Bag(p) :> mem[Bag(p)] \cup {letter.item}, <<{Letter(m)} \cup Saved(p)>>)

\* The delay thread, and a crash followed by LoadAuctions and the logins.
Execute ==
    /\ queue # << >>
    /\ disk' = Head(queue) @@ disk /\ queue' = Tail(queue)
    /\ UNCHANGED <<mem, crashes>>
Crash ==
    /\ crashes < MaxCrashes /\ crashes' = crashes + 1
    /\ mem' = disk /\ queue' = << >> /\ UNCHANGED disk

Next ==
    \/ \E p \in Players, i \in Items, startbid \in StartBids, buyout \in Buyouts :
           HandleAuctionSellItem(p, i, startbid, buyout)
    \/ \E p \in Players, a \in Lots :
           \/ \E price \in Prices : HandleAuctionPlaceBid(p, a, price)
           \/ HandleAuctionRemoveItem(p, a)
    \/ \E p \in Players, m \in Letters : HandleMailTakeMoney(p, m) \/ HandleMailTakeItem(p, m)
    \/ \E a \in Lots : \/ BotBid(a) \/ SendAuctionSuccessfulMail(a)
                       \/ AuctionBidWinning(a) \/ SendAuctionExpiredMail(a)
    \/ Execute \/ Crash
Spec == Init /\ [][Next]_vars
-----------------------------------------------------------------------------
(* Properties.                                                             *)

Rows == {Purse(p) : p \in Bidders} \cup {Bag(p) : p \in Players}
        \cup {Lot(a) : a \in Lots} \cup {Letter(m) : m \in Letters}
LotRecords == [owner : Players, item : Items \cup {None}, startbid : Nat, buyout : Nat,
               bid : Nat, bidder : Bidders, pending : BOOLEAN]
LetterRecords == [to : Players, money : Nat, item : Items \cup {None}]
ASSUME NoneIsNoRecord == None \notin LotRecords \cup LetterRecords
Typed(t) ==
    /\ DOMAIN t \subseteq Rows
    /\ \A p \in Bidders : Purse(p) \in DOMAIN t => t[Purse(p)] \in Nat
    /\ \A p \in Players : Bag(p) \in DOMAIN t => t[Bag(p)] \subseteq Items
    /\ \A a \in Lots : Lot(a) \in DOMAIN t => t[Lot(a)] = None \/ t[Lot(a)] \in LotRecords
    /\ \A m \in Letters : Letter(m) \in DOMAIN t => t[Letter(m)] = None \/ t[Letter(m)] \in LetterRecords

\* The rows have their types, in memory, on disk and on the way: no purse goes below 0
\* (money is unsigned in the code), nor the money of a sale.
TypeOK ==
    /\ Typed(mem) /\ DOMAIN mem = Rows
    /\ Typed(disk) /\ DOMAIN disk = Rows
    /\ queue \in Seq(Range(queue)) /\ \A n \in DOMAIN queue : Typed(queue[n])
    /\ crashes \in 0..MaxCrashes

\* What the players S own of the table t in money: their purses, their letters, their
\* bids that stand, the deposits of their auctions and what their sales will bring them.
Sum(f) == Cardinality(UNION {{x} \X (1..f[x]) : x \in DOMAIN f})
Own(S, p, money)    == IF p \in S THEN money ELSE 0
InLetter(letter, S) == IF letter = None THEN 0 ELSE Own(S, letter.to, letter.money)
InLot(lot, S) ==
    IF lot = None THEN 0
    ELSE Own(S, lot.owner, Deposit)
         + (IF lot.pending THEN Own(S, lot.owner, lot.bid - GetAuctionCut(lot.bid))
            ELSE Own(S, lot.bidder, lot.bid))
Wealth(t, S) ==
    Sum([p \in S |-> t[Purse(p)]])
    + Sum([m \in Letters |-> InLetter(t[Letter(m)], S)])
    + Sum([a \in Lots |-> InLot(t[Lot(a)], S)])

\* As long as the server runs and clients bid on what they can list, a step that makes
\* a player poorer sends him an item: his own back, for the deposit and the cut, or one
\* he was the highest bidder for.  And only the sale of one of his items makes him
\* richer, by the price without the cut.
GetsItem(p) == \E m \in Letters : /\ mem[Letter(m)] = None /\ mem'[Letter(m)] # None
                                  /\ mem'[Letter(m)].to = p /\ mem'[Letter(m)].item # None
Sells(p, gain) == \E a \in Lots : LET lot == mem'[Lot(a)] IN
    /\ mem[Lot(a)] # None /\ ~mem[Lot(a)].pending /\ lot # None /\ lot.pending
    /\ lot.owner = p /\ gain = lot.bid - GetAuctionCut(lot.bid)
FairDeal == [][crashes' = crashes => \A p \in Players :
    LET gain == Wealth(mem', {p}) - Wealth(mem, {p})
    IN  (gain < 0 => GetsItem(p)) /\ (gain > 0 => Sells(p, gain))]_vars

\* ChangeLog.md: an auction that is sold is pending, with "1 hour delay in money delivery
\* to owner": nothing but that delivery happens to it.
SaleStands == [][\A a \in Lots :
    mem[Lot(a)] # None /\ mem[Lot(a)].pending => mem'[Lot(a)] \in {mem[Lot(a)], None}]_vars

\* A crash at any moment loses no money: it may leave a bid standing that has been
\* paid back, or a sale that has been paid out, but never the opposite.
CrashSafe == Wealth(disk, Bidders) >= Wealth(mem, Bidders)

\* As long as the server runs, an item is in one bag, auction or mail at most.
Holders(t, i) ==
    {Bag(p) : p \in {p \in Players : i \in t[Bag(p)]}}
    \cup {r \in {Lot(a) : a \in Lots} \cup {Letter(m) : m \in Letters} : t[r] # None /\ t[r].item = i}
ItemOnce == crashes = 0 => \A i \in Items : Cardinality(Holders(mem, i)) <= 1
=============================================================================
