---------------------------- MODULE AuctionProofs ----------------------------
(***************************************************************************)
(* Proofs about auctions, for any number of players, items, auctions and   *)
(* mails.  Every handler is a change of some rows; what it needs is that   *)
(* the new rows have their types, and that the items in them come from the *)
(* rows they replace, one place for each.                                  *)
(***************************************************************************)
EXTENDS Auction, FiniteSetTheorems, SequenceTheorems, TLAPS

-----------------------------------------------------------------------------
(* Tables.                                                                 *)

\* The rows of different players, auctions and mails are different.
LEMMA RowsDiffer ==
    /\ \A x, y : /\ Purse(x) = Purse(y) <=> x = y
                 /\ Bag(x) = Bag(y) <=> x = y
                 /\ Lot(x) = Lot(y) <=> x = y
                 /\ Letter(x) = Letter(y) <=> x = y
    /\ \A x, y : /\ Purse(x) # Bag(y) /\ Purse(x) # Lot(y) /\ Purse(x) # Letter(y)
                 /\ Bag(x) # Lot(y) /\ Bag(x) # Letter(y) /\ Lot(x) # Letter(y)
BY DEF Purse, Bag, Lot, Letter

\* A table of one row, and one table before another.
LEMMA Single ==
    ASSUME NEW x, NEW e
    PROVE  DOMAIN (x :> e) = {x} /\ (x :> e)[x] = e
BY DEF :>

LEMMA Combine ==
    ASSUME NEW f, NEW g
    PROVE  /\ DOMAIN (f @@ g) = DOMAIN f \cup DOMAIN g
           /\ \A x \in DOMAIN f : (f @@ g)[x] = f[x]
           /\ \A x \in DOMAIN g \ DOMAIN f : (f @@ g)[x] = g[x]
BY DEF @@

\* A single row of each kind is typed if its value is.
LEMMA TypedPurse ==
    ASSUME NEW p \in Bidders, NEW v \in Nat
    PROVE  Typed(Purse(p) :> v) /\ DOMAIN (Purse(p) :> v) = {Purse(p)}
<1> DEFINE c == Purse(p) :> v
<1>1. DOMAIN c = {Purse(p)} /\ c[Purse(p)] = v BY Single
<1> HIDE DEF c
<1>2. Typed(c) BY <1>1, RowsDiffer DEF Typed, Rows
<1>3. QED BY <1>1, <1>2 DEF c

LEMMA TypedBag ==
    ASSUME NEW p \in Players, NEW S, S \subseteq Items
    PROVE  Typed(Bag(p) :> S) /\ DOMAIN (Bag(p) :> S) = {Bag(p)}
<1> DEFINE c == Bag(p) :> S
<1>1. DOMAIN c = {Bag(p)} /\ c[Bag(p)] = S BY Single
<1> HIDE DEF c
<1>2. Typed(c) BY <1>1, RowsDiffer DEF Typed, Rows
<1>3. QED BY <1>1, <1>2 DEF c

LEMMA TypedLot ==
    ASSUME NEW a \in Lots, NEW l, l = None \/ l \in LotRecords
    PROVE  Typed(Lot(a) :> l) /\ DOMAIN (Lot(a) :> l) = {Lot(a)}
<1> DEFINE c == Lot(a) :> l
<1>1. DOMAIN c = {Lot(a)} /\ c[Lot(a)] = l BY Single
<1> HIDE DEF c
<1>2. Typed(c) BY <1>1, RowsDiffer DEF Typed, Rows
<1>3. QED BY <1>1, <1>2 DEF c

LEMMA TypedLetter ==
    ASSUME NEW m \in Letters, NEW l, l = None \/ l \in LetterRecords
    PROVE  Typed(Letter(m) :> l) /\ DOMAIN (Letter(m) :> l) = {Letter(m)}
<1> DEFINE c == Letter(m) :> l
<1>1. DOMAIN c = {Letter(m)} /\ c[Letter(m)] = l BY Single
<1> HIDE DEF c
<1>2. Typed(c) BY <1>1, RowsDiffer DEF Typed, Rows
<1>3. QED BY <1>1, <1>2 DEF c

LEMMA TypedBoth ==
    ASSUME NEW f, NEW g, Typed(f), Typed(g)
    PROVE  Typed(f @@ g)
<1> DEFINE c == f @@ g
<1>1. /\ DOMAIN c = DOMAIN f \cup DOMAIN g
      /\ \A x \in DOMAIN f : c[x] = f[x]
      /\ \A x \in DOMAIN g \ DOMAIN f : c[x] = g[x]
  BY Combine
<1> HIDE DEF c
<1>2. DOMAIN c \subseteq Rows BY <1>1 DEF Typed
<1>3. \A r \in DOMAIN c : (r \in DOMAIN f /\ c[r] = f[r]) \/ (r \in DOMAIN g /\ c[r] = g[r]) BY <1>1
<1>4. Typed(c) BY <1>2, <1>3 DEF Typed
<1>5. QED BY <1>4 DEF c

LEMMA TypedNone == Typed(<< >>) /\ DOMAIN << >> = {}
BY DEF Typed

LEMMA TypedPart ==
    ASSUME NEW t, NEW S, Typed(t), DOMAIN t = Rows, S \subseteq Rows
    PROVE  Typed(Restrict(t, S))
BY DEF Typed, Restrict

\* The cut of a bid is a part of it.
LEMMA Cut ==
    ASSUME NEW b \in Nat
    PROVE  GetAuctionCut(b) \in 0..b
<1>1. CutPercent \in 0..100 BY AuctionAssumption
<1>2. b * CutPercent \in Nat /\ b * CutPercent <= b * 100 BY <1>1
<1>3. QED BY <1>2 DEF GetAuctionCut

-----------------------------------------------------------------------------
(* Types.                                                                  *)

\* A sequence is one of its own elements.
LEMMA OfItsRange == ASSUME NEW S, NEW s \in Seq(S) PROVE s \in Seq(Range(s))
<1>1. Len(s) \in Nat /\ DOMAIN s = 1..Len(s) /\ s = [n \in 1..Len(s) |-> s[n]] BY LenProperties
<1>2. \A n \in 1..Len(s) : s[n] \in Range(s) BY <1>1 DEF Range
<1>3. [n \in 1..Len(s) |-> s[n]] \in Seq(Range(s)) BY <1>1, <1>2, IsASeq
<1>4. QED BY <1>1, <1>3

\* A queue of typed rows stays one when typed rows are added to it.
LEMMA TypedQueue ==
    ASSUME NEW q, NEW d,
           q \in Seq(Range(q)), \A n \in DOMAIN q : Typed(q[n]),
           d \in Seq(Range(d)), \A n \in DOMAIN d : Typed(d[n])
    PROVE  LET e == q \o d IN e \in Seq(Range(e)) /\ \A n \in DOMAIN e : Typed(e[n])
<1> DEFINE S == Range(q) \cup Range(d)
           e == q \o d
<1>1. q \in Seq(S) /\ d \in Seq(S) BY SeqMonotonic
<1>2. /\ e \in Seq(S) /\ Len(e) = Len(q) + Len(d)
      /\ \A n \in 1..Len(e) : e[n] = IF n <= Len(q) THEN q[n] ELSE d[n - Len(q)]
  BY <1>1, ConcatProperties
<1>3. Len(q) \in Nat /\ Len(d) \in Nat /\ DOMAIN q = 1..Len(q) /\ DOMAIN d = 1..Len(d)
  BY <1>1, LenProperties
<1>4. DOMAIN e = 1..Len(e) BY <1>2, LenProperties
<1> HIDE DEF e, S
<1>5. \A n \in DOMAIN e : Typed(e[n])
  <2> TAKE n \in DOMAIN e
  <2>1. CASE n <= Len(q) BY <2>1, <1>2, <1>3, <1>4
  <2>2. CASE ~(n <= Len(q))
    <3>1. n - Len(q) \in DOMAIN d BY <2>2, <1>2, <1>3, <1>4
    <3>2. QED BY <3>1, <2>2, <1>2, <1>4
  <2>3. QED BY <2>1, <2>2
<1>6. e \in Seq(Range(e)) BY <1>2, OfItsRange
<1>7. QED BY <1>5, <1>6 DEF e

\* What a handler does keeps the types.
LEMMA Handled ==
    ASSUME NEW c, NEW transactions, TypeOK, Typed(c),
           transactions \in Seq(SUBSET Rows), Handle(c, transactions)
    PROVE  TypeOK'
<1> DEFINE t == c @@ mem
           d == [n \in DOMAIN transactions |-> Restrict(t, transactions[n])]
<1>1. mem' = t /\ queue' = queue \o d /\ disk' = disk /\ crashes' = crashes BY DEF Handle
<1>2. Typed(t) BY TypedBoth DEF TypeOK
<1>3. DOMAIN t = Rows
  <2>1. DOMAIN t = DOMAIN c \cup DOMAIN mem BY Combine
  <2>2. QED BY <2>1 DEF TypeOK, Typed
<1> HIDE DEF t
<1>4. /\ DOMAIN transactions = 1..Len(transactions) /\ Len(transactions) \in Nat
      /\ \A n \in DOMAIN transactions : transactions[n] \subseteq Rows
  BY ElementOfSeq, LenProperties
<1>5. DOMAIN d = DOMAIN transactions /\ \A n \in DOMAIN d : Typed(d[n])
  BY <1>2, <1>3, <1>4, TypedPart
<1>6. d \in Seq(Range(d))
  <2>1. \A n \in 1..Len(transactions) : d[n] \in Range(d) BY <1>4 DEF Range
  <2>2. QED BY <2>1, <1>4, IsASeq
<1> HIDE DEF d
<1>7. queue' \in Seq(Range(queue')) /\ \A n \in DOMAIN queue' : Typed(queue'[n])
  BY <1>1, <1>5, <1>6, TypedQueue DEF TypeOK
<1>8. QED BY <1>1, <1>2, <1>3, <1>7 DEF TypeOK, Typed

LEMMA TypedInit == Init => TypeOK
<1> SUFFICES ASSUME Init PROVE TypeOK OBVIOUS
<1> DEFINE f == [r \in {Purse(p) : p \in Players} |-> Money]
           b == Purse(Nobody) :> BotMoney
           g == [r \in {Bag(p) : p \in Players} |-> HasItems[r[2]]]
           h == [r \in {Lot(a) : a \in Lots} \cup {Letter(m) : m \in Letters} |-> None]
<1>1. mem = f @@ b @@ g @@ h BY DEF Init
<1>2. Typed(f)
  <2>1. DOMAIN f = {Purse(p) : p \in Players} /\ \A r \in DOMAIN f : f[r] \in Nat
    BY AuctionAssumption
  <2> HIDE DEF f
  <2>2. DOMAIN f \subseteq Rows BY <2>1 DEF Rows, Bidders
  <2>3. QED BY <2>1, <2>2, RowsDiffer DEF Typed
<1>3. Typed(b) /\ DOMAIN b = {Purse(Nobody)} BY TypedPurse, AuctionAssumption DEF Bidders
<1>4. Typed(g)
  <2>1. \A p \in Players : g[Bag(p)] = HasItems[p] BY DEF Bag
  <2>2. DOMAIN g = {Bag(p) : p \in Players} OBVIOUS
  <2> HIDE DEF g
  <2>3. \A p \in Players : g[Bag(p)] \subseteq Items BY <2>1, AuctionAssumption
  <2>4. QED BY <2>2, <2>3, RowsDiffer DEF Typed, Rows
<1>5. Typed(h) BY RowsDiffer DEF Typed, Rows
<1>6. Typed(mem) BY <1>1, <1>2, <1>3, <1>4, <1>5, TypedBoth
<1>7. DOMAIN mem = Rows
  <2>1. /\ DOMAIN f = {Purse(p) : p \in Players} /\ DOMAIN g = {Bag(p) : p \in Players}
        /\ DOMAIN h = {Lot(a) : a \in Lots} \cup {Letter(m) : m \in Letters}
    OBVIOUS
  <2> HIDE DEF f, b, g, h
  <2>2. DOMAIN mem = DOMAIN f \cup DOMAIN b \cup DOMAIN g \cup DOMAIN h
    <3>1. DOMAIN (f @@ b) = DOMAIN f \cup DOMAIN b BY Combine
    <3>2. DOMAIN (f @@ b @@ g) = DOMAIN (f @@ b) \cup DOMAIN g BY Combine
    <3>3. DOMAIN mem = DOMAIN (f @@ b @@ g) \cup DOMAIN h BY <1>1, Combine
    <3>4. QED BY <3>1, <3>2, <3>3
  <2>3. {Purse(p) : p \in Bidders} = DOMAIN f \cup DOMAIN b BY <2>1, <1>3 DEF Bidders
  <2>4. QED BY <2>1, <2>2, <2>3 DEF Rows
<1>8. queue \in Seq(Range(queue)) /\ DOMAIN queue = {} BY DEF Init
<1>9. QED BY <1>6, <1>7, <1>8, AuctionAssumption DEF Init, TypeOK

-----------------------------------------------------------------------------
(* Items.                                                                  *)

\* The row r of the table t has the item i; no item has two rows.
Holds(t, r, i) ==
    \/ (\E p \in Players : r = Bag(p)) /\ i \in t[r]
    \/ (\E a \in Lots : r = Lot(a)) /\ t[r] # None /\ t[r].item = i
    \/ (\E m \in Letters : r = Letter(m)) /\ t[r] # None /\ t[r].item = i
Once(t) == \A i \in Items : \A r, q \in Rows : Holds(t, r, i) /\ Holds(t, q, i) => r = q

\* The rows of a change have each item once, and only items they had before.
Moves(c) == \A i \in Items : \A r \in DOMAIN c : Holds(c, r, i) =>
    /\ \A q \in DOMAIN c : Holds(c, q, i) => r = q
    /\ \E q \in DOMAIN c : Holds(mem, q, i)

\* The rows of a change have no item.
Plain(c) == \A i \in Items : \A r \in DOMAIN c : ~Holds(c, r, i)

LEMMA HoldsBoth ==
    ASSUME NEW f, NEW g, NEW i
    PROVE  /\ \A r \in DOMAIN f : Holds(f @@ g, r, i) <=> Holds(f, r, i)
           /\ \A r \in DOMAIN g \ DOMAIN f : Holds(f @@ g, r, i) <=> Holds(g, r, i)
<1> DEFINE t == f @@ g
<1>1. \A r \in DOMAIN f : t[r] = f[r] BY Combine
<1>2. \A r \in DOMAIN g \ DOMAIN f : t[r] = g[r] BY Combine
<1> HIDE DEF t
<1>3. \A r \in DOMAIN f : Holds(t, r, i) <=> Holds(f, r, i) BY <1>1 DEF Holds
<1>4. \A r \in DOMAIN g \ DOMAIN f : Holds(t, r, i) <=> Holds(g, r, i) BY <1>2 DEF Holds
<1>5. QED BY <1>3, <1>4 DEF t

LEMMA MovesOnce ==
    ASSUME NEW c, TypeOK, Typed(c), Moves(c), Once(mem)
    PROVE  Once(c @@ mem)
<1> DEFINE t == c @@ mem
<1>1. \A i : \A r \in DOMAIN c : Holds(t, r, i) <=> Holds(c, r, i) BY HoldsBoth
<1>2. \A i : \A r \in Rows \ DOMAIN c : Holds(t, r, i) <=> Holds(mem, r, i) BY HoldsBoth DEF TypeOK
<1>3. DOMAIN c \subseteq Rows BY DEF Typed
<1> HIDE DEF t
<1>4. Once(t)
  <2> SUFFICES ASSUME NEW i \in Items, NEW r \in Rows, NEW q \in Rows, Holds(t, r, i), Holds(t, q, i)
               PROVE  r = q
    BY DEF Once
  <2>1. CASE r \in DOMAIN c /\ q \in DOMAIN c BY <2>1, <1>1 DEF Moves
  <2>2. CASE r \in DOMAIN c /\ q \notin DOMAIN c BY <2>2, <1>1, <1>2, <1>3 DEF Moves, Once
  <2>3. CASE r \notin DOMAIN c /\ q \in DOMAIN c BY <2>3, <1>1, <1>2, <1>3 DEF Moves, Once
  <2>4. CASE r \notin DOMAIN c /\ q \notin DOMAIN c BY <2>4, <1>2 DEF Once
  <2>5. QED BY <2>1, <2>2, <2>3, <2>4
<1>5. QED BY <1>4 DEF t

\* What has no item may be added before or after.
LEMMA PlainMoves == ASSUME NEW c, Plain(c) PROVE Moves(c)
BY DEF Plain, Moves

LEMMA MovesPlain ==
    ASSUME NEW c, NEW d, Moves(c), Plain(d)
    PROVE  Moves(c @@ d) /\ Moves(d @@ c)
<1>1. DOMAIN (c @@ d) = DOMAIN c \cup DOMAIN d /\ DOMAIN (d @@ c) = DOMAIN c \cup DOMAIN d
  <2>1. DOMAIN (c @@ d) = DOMAIN c \cup DOMAIN d BY Combine
  <2>2. DOMAIN (d @@ c) = DOMAIN d \cup DOMAIN c BY Combine
  <2>3. QED BY <2>1, <2>2
<1>2. ASSUME NEW i \in Items, NEW r \in DOMAIN c \cup DOMAIN d, Holds(c @@ d, r, i)
      PROVE  r \in DOMAIN c /\ Holds(c, r, i)
  <2>1. r \in DOMAIN c => Holds(c, r, i) BY <1>2, HoldsBoth
  <2>2. r \in DOMAIN d \ DOMAIN c => Holds(d, r, i) BY <1>2, HoldsBoth
  <2>3. QED BY <2>1, <2>2 DEF Plain
<1>3. ASSUME NEW i \in Items, NEW r \in DOMAIN c \cup DOMAIN d, Holds(d @@ c, r, i)
      PROVE  r \in DOMAIN c /\ Holds(c, r, i)
  <2>1. r \in DOMAIN d => Holds(d, r, i) BY <1>3, HoldsBoth
  <2>2. r \in DOMAIN c \ DOMAIN d => Holds(c, r, i) BY <1>3, HoldsBoth
  <2>3. QED BY <2>1, <2>2 DEF Plain
<1>4. Moves(c @@ d) BY <1>1, <1>2 DEF Moves
<1>5. Moves(d @@ c) BY <1>1, <1>3 DEF Moves
<1>6. QED BY <1>4, <1>5

LEMMA PlainPurse == ASSUME NEW p, NEW v PROVE Plain(Purse(p) :> v)
<1> DEFINE c == Purse(p) :> v
<1>1. DOMAIN c = {Purse(p)} BY Single
<1> HIDE DEF c
<1>2. Plain(c) BY <1>1, RowsDiffer DEF Plain, Holds
<1>3. QED BY <1>2 DEF c

LEMMA PlainNone == ASSUME NEW r \in Rows, \A p : r # Bag(p) PROVE Plain(r :> None)
<1> DEFINE c == r :> None
<1>1. DOMAIN c = {r} /\ c[r] = None BY Single
<1> HIDE DEF c
<1>2. Plain(c) BY <1>1 DEF Plain, Holds
<1>3. QED BY <1>2 DEF c

LEMMA PlainBoth == ASSUME NEW c, NEW d, Plain(c), Plain(d) PROVE Plain(c @@ d)
<1>1. DOMAIN (c @@ d) = DOMAIN c \cup DOMAIN d BY Combine
<1>2. \A i \in Items : \A r \in DOMAIN c \cup DOMAIN d : ~Holds(c @@ d, r, i)
  BY HoldsBoth DEF Plain
<1>3. QED BY <1>1, <1>2 DEF Plain

LEMMA PlainEmpty == Plain(<< >>)
BY DEF Plain

\* What every action does to the types and the items.
Good == TypeOK' /\ crashes' = crashes /\ (Once(mem) => Once(mem'))

LEMMA HandledWell ==
    ASSUME NEW c, NEW transactions, TypeOK, Typed(c), Moves(c),
           transactions \in Seq(SUBSET Rows), Handle(c, transactions)
    PROVE  Good
BY Handled, MovesOnce DEF Good, Handle

-----------------------------------------------------------------------------
(* Changes that move an item.                                              *)

LEMMA HoldsRow ==
    ASSUME NEW t, NEW i
    PROVE  /\ \A p \in Players : Holds(t, Bag(p), i) <=> i \in t[Bag(p)]
           /\ \A a \in Lots : Holds(t, Lot(a), i) <=> t[Lot(a)] # None /\ t[Lot(a)].item = i
           /\ \A m \in Letters : Holds(t, Letter(m), i) <=> t[Letter(m)] # None /\ t[Letter(m)].item = i
BY RowsDiffer DEF Holds

\* A single row has the items of its value.
LEMMA HoldsBag ==
    ASSUME NEW p \in Players, NEW S, NEW i
    PROVE  Holds(Bag(p) :> S, Bag(p), i) <=> i \in S
<1> DEFINE c == Bag(p) :> S
<1>1. c[Bag(p)] = S BY Single
<1> HIDE DEF c
<1>2. Holds(c, Bag(p), i) <=> i \in S BY <1>1, HoldsRow
<1>3. QED BY <1>2 DEF c

LEMMA HoldsLot ==
    ASSUME NEW a \in Lots, NEW l, NEW i
    PROVE  Holds(Lot(a) :> l, Lot(a), i) <=> l # None /\ l.item = i
<1> DEFINE c == Lot(a) :> l
<1>1. c[Lot(a)] = l BY Single
<1> HIDE DEF c
<1>2. Holds(c, Lot(a), i) <=> l # None /\ l.item = i BY <1>1, HoldsRow
<1>3. QED BY <1>2 DEF c

LEMMA HoldsLetter ==
    ASSUME NEW m \in Letters, NEW l, NEW i
    PROVE  Holds(Letter(m) :> l, Letter(m), i) <=> l # None /\ l.item = i
<1> DEFINE c == Letter(m) :> l
<1>1. c[Letter(m)] = l BY Single
<1> HIDE DEF c
<1>2. Holds(c, Letter(m), i) <=> l # None /\ l.item = i BY <1>1, HoldsRow
<1>3. QED BY <1>2 DEF c

\* The items in memory.
LEMMA InMemory ==
    /\ \A p \in Players : \A i : Holds(mem, Bag(p), i) <=> i \in mem[Bag(p)]
    /\ \A a \in Lots : mem[Lot(a)] # None => \A i : Holds(mem, Lot(a), i) <=> mem[Lot(a)].item = i
    /\ \A m \in Letters : mem[Letter(m)] # None =>
           \A i : Holds(mem, Letter(m), i) <=> mem[Letter(m)].item = i
<1>1. ASSUME NEW i
      PROVE  /\ \A p \in Players : Holds(mem, Bag(p), i) <=> i \in mem[Bag(p)]
             /\ \A a \in Lots : Holds(mem, Lot(a), i) <=> mem[Lot(a)] # None /\ mem[Lot(a)].item = i
             /\ \A m \in Letters :
                    Holds(mem, Letter(m), i) <=> mem[Letter(m)] # None /\ mem[Letter(m)].item = i
  BY HoldsRow
<1>2. QED BY <1>1

\* A row that keeps its item, or has none.
LEMMA MovesRow ==
    ASSUME NEW r, NEW e, \A i \in Items : Holds(r :> e, r, i) => Holds(mem, r, i)
    PROVE  Moves(r :> e)
<1> DEFINE c == r :> e
<1>1. DOMAIN c = {r} /\ \A i \in Items : Holds(c, r, i) => Holds(mem, r, i) BY Single
<1> HIDE DEF c
<1>2. Moves(c) BY <1>1 DEF Moves
<1>3. QED BY <1>2 DEF c

LEMMA PlainRow ==
    ASSUME NEW r, NEW e, \A i \in Items : ~Holds(r :> e, r, i)
    PROVE  Plain(r :> e)
<1> DEFINE c == r :> e
<1>1. DOMAIN c = {r} /\ \A i \in Items : ~Holds(c, r, i) BY Single
<1> HIDE DEF c
<1>2. Plain(c) BY <1>1 DEF Plain
<1>3. QED BY <1>2 DEF c

\* Two rows that have together what they had before, once, with others between them.
LEMMA MovesPair ==
    ASSUME NEW x, NEW y, NEW e, NEW f, NEW q, x # y, Plain(q),
           \A i \in Items :
               /\ ~(Holds(x :> e, x, i) /\ Holds(y :> f, y, i))
               /\ Holds(x :> e, x, i) \/ Holds(y :> f, y, i) => Holds(mem, x, i) \/ Holds(mem, y, i)
    PROVE  Moves(x :> e @@ q @@ y :> f) /\ Moves(x :> e @@ y :> f)
<1> DEFINE c == x :> e
           d == y :> f
           g == c @@ q
           h == g @@ d
           k == c @@ d
<1>1. DOMAIN c = {x} /\ DOMAIN d = {y} BY Single
<1>2. /\ DOMAIN g = {x} \cup DOMAIN q /\ DOMAIN h = {x, y} \cup DOMAIN q /\ DOMAIN k = {x, y}
  <2>1. DOMAIN g = DOMAIN c \cup DOMAIN q /\ DOMAIN h = DOMAIN g \cup DOMAIN d
        /\ DOMAIN k = DOMAIN c \cup DOMAIN d
    BY Combine
  <2> HIDE DEF c, d, g, h, k
  <2>2. QED BY <2>1, <1>1
<1>3. \A i \in Items : \A r \in DOMAIN h : Holds(h, r, i) =>
          (r = x /\ Holds(c, x, i)) \/ (r = y /\ Holds(d, y, i))
  <2>1. \A i \in Items : \A r \in DOMAIN g : Holds(g, r, i) => r = x /\ Holds(c, x, i)
    <3>1. \A i \in Items : (Holds(g, x, i) <=> Holds(c, x, i))
                           /\ \A r \in DOMAIN q \ {x} : Holds(g, r, i) <=> Holds(q, r, i)
      BY HoldsBoth, <1>1
    <3> HIDE DEF c, d, g, h, k
    <3>2. QED BY <3>1, <1>2 DEF Plain
  <2>2. \A i \in Items : (\A r \in DOMAIN g : Holds(h, r, i) <=> Holds(g, r, i))
                         /\ \A r \in DOMAIN d \ DOMAIN g : Holds(h, r, i) <=> Holds(d, r, i)
    BY HoldsBoth
  <2> HIDE DEF c, d, g, h, k
  <2>3. QED BY <2>1, <2>2, <1>1, <1>2
<1>4. \A i \in Items : \A r \in DOMAIN k : Holds(k, r, i) =>
          (r = x /\ Holds(c, x, i)) \/ (r = y /\ Holds(d, y, i))
  <2>1. \A i \in Items : (\A r \in DOMAIN c : Holds(k, r, i) <=> Holds(c, r, i))
                         /\ \A r \in DOMAIN d \ DOMAIN c : Holds(k, r, i) <=> Holds(d, r, i)
    BY HoldsBoth
  <2> HIDE DEF c, d, g, h, k
  <2>2. QED BY <2>1, <1>1, <1>2
<1>5. \A i \in Items :
               /\ ~(Holds(c, x, i) /\ Holds(d, y, i))
               /\ Holds(c, x, i) \/ Holds(d, y, i) => Holds(mem, x, i) \/ Holds(mem, y, i)
  OBVIOUS
<1> HIDE DEF c, d, g, h, k
<1>6. Moves(h) BY <1>2, <1>3, <1>5 DEF Moves
<1>7. Moves(k) BY <1>2, <1>4, <1>5 DEF Moves
<1>8. QED BY <1>6, <1>7 DEF c, d, g, h, k

\* There are two letters for what a handler has to send.
LEMMA Mails ==
    ASSUME Ready
    PROVE  FirstId \in Letters /\ SecondId \in Letters
<1>1. FreeLetters # {} /\ \A x : FreeLetters # {x}
  <2>1. Cardinality(FreeLetters) >= 2 BY DEF Ready
  <2>2. Cardinality({}) = 0 BY FS_EmptySet
  <2>3. \A x : Cardinality({x}) = 1 BY FS_Singleton
  <2>4. QED BY <2>1, <2>2, <2>3
<1>2. FirstId \in FreeLetters BY <1>1 DEF FirstId
<1>3. FreeLetters \ {FirstId} # {} BY <1>1, <1>2
<1>4. SecondId \in FreeLetters BY <1>3 DEF SecondId
<1>5. QED BY <1>2, <1>4 DEF FreeLetters

LEMMA RowsAreRows ==
    /\ \A p \in Bidders : Purse(p) \in Rows /\ Saved(p) \subseteq Rows
    /\ \A p \in Players : Purse(p) \in Rows /\ Bag(p) \in Rows
    /\ \A a \in Lots : Lot(a) \in Rows
    /\ \A m \in Letters : Letter(m) \in Rows
BY DEF Rows, Saved, Bidders

\* The rows in memory.
LEMMA Values ==
    ASSUME TypeOK
    PROVE  /\ \A p \in Bidders : mem[Purse(p)] \in Nat
           /\ \A p \in Players : mem[Purse(p)] \in Nat /\ mem[Bag(p)] \subseteq Items
           /\ \A a \in Lots : mem[Lot(a)] # None => mem[Lot(a)] \in LotRecords
           /\ \A m \in Letters : mem[Letter(m)] # None => mem[Letter(m)] \in LetterRecords
BY RowsAreRows DEF TypeOK, Typed, Bidders

-----------------------------------------------------------------------------
(* The actions.                                                            *)

LEMMA SellWell ==
    ASSUME TypeOK, NEW p \in Players, NEW i \in Items, NEW startbid \in StartBids,
           NEW buyout \in Buyouts, HandleAuctionSellItem(p, i, startbid, buyout)
    PROVE  Good
<1> DEFINE a == CHOOSE a \in FreeLots : TRUE
           bag == mem[Bag(p)] \ {i}
           lot == [owner |-> p, item |-> i, startbid |-> startbid, buyout |-> buyout,
                   bid |-> 0, bidder |-> Nobody, pending |-> FALSE]
           gold == mem[Purse(p)] - Deposit
           c == Bag(p) :> bag @@ Lot(a) :> lot
           tx == {Lot(a)} \cup Saved(p)
<1>1. Handle(c @@ Purse(p) :> gold, <<tx>>) BY DEF HandleAuctionSellItem
<1>2. a \in Lots BY DEF HandleAuctionSellItem, FreeLots
<1>3. lot \in LotRecords BY AuctionAssumption DEF LotRecords, Bidders
<1>4. gold \in Nat BY Values, AuctionAssumption DEF HandleAuctionSellItem
<1>5. bag \subseteq Items /\ i \in mem[Bag(p)] BY Values DEF HandleAuctionSellItem
<1>6. lot.item = i OBVIOUS
<1> HIDE DEF lot, bag, gold, a
<1>7. Moves(c)
  <2>1. \A j \in Items : Holds(Bag(p) :> bag, Bag(p), j) <=> j \in mem[Bag(p)] /\ j # i
    BY HoldsBag DEF bag
  <2>2. \A j \in Items : Holds(Lot(a) :> lot, Lot(a), j) => j = i BY HoldsLot, <1>2, <1>6
  <2>3. \A j \in Items : Holds(mem, Bag(p), j) <=> j \in mem[Bag(p)] BY HoldsRow
  <2>4. Bag(p) # Lot(a) BY RowsDiffer
  <2>5. QED BY <2>1, <2>2, <2>3, <2>4, <1>5, MovesPair, PlainEmpty
<1>8. Moves(c @@ Purse(p) :> gold) BY <1>7, MovesPlain, PlainPurse
<1>9. Typed(c @@ Purse(p) :> gold)
  BY <1>2, <1>3, <1>4, <1>5, TypedBoth, TypedBag, TypedLot, TypedPurse DEF Bidders
<1>10. tx \subseteq Rows BY <1>2, RowsAreRows DEF Bidders
<1> HIDE DEF c, tx
<1>11. <<tx>> \in Seq(SUBSET Rows) BY <1>10
<1>12. QED BY <1>1, <1>8, <1>9, <1>11, HandledWell

LEMMA TakeMoneyWell ==
    ASSUME TypeOK, NEW p \in Players, NEW m \in Letters, HandleMailTakeMoney(p, m)
    PROVE  Good
<1> DEFINE letter == mem[Letter(m)]
           rest == Rest([letter EXCEPT !.money = 0])
           gold == mem[Purse(p)] + letter.money
           c == Letter(m) :> rest @@ Purse(p) :> gold
           tx == {Letter(m), Purse(p)}
<1>1. Handle(c, <<tx>>) /\ letter # None BY DEF HandleMailTakeMoney
<1>2. letter \in LetterRecords BY <1>1, Values
<1>3. gold \in Nat BY <1>2, Values DEF LetterRecords
<1>4. /\ rest = None \/ rest \in LetterRecords
      /\ rest # None => rest.item = letter.item
  BY <1>2 DEF Rest, LetterRecords
<1> HIDE DEF rest, gold
<1>5. Moves(Letter(m) :> rest)
  <2>1. \A i \in Items : Holds(Letter(m) :> rest, Letter(m), i) <=> rest # None /\ rest.item = i
    BY HoldsLetter
  <2>2. \A i \in Items : Holds(mem, Letter(m), i) <=> letter.item = i BY InMemory, <1>1
  <2>3. QED BY <2>1, <2>2, <1>4, MovesRow
<1>6. Moves(c) BY <1>5, MovesPlain, PlainPurse
<1>7. Typed(c) BY <1>3, <1>4, TypedBoth, TypedLetter, TypedPurse DEF Bidders
<1>8. tx \subseteq Rows BY RowsAreRows
<1> HIDE DEF c, tx
<1>9. <<tx>> \in Seq(SUBSET Rows) BY <1>8
<1>10. QED BY <1>1, <1>6, <1>7, <1>9, HandledWell

LEMMA TakeItemWell ==
    ASSUME TypeOK, NEW p \in Players, NEW m \in Letters, HandleMailTakeItem(p, m)
    PROVE  Good
<1> DEFINE letter == mem[Letter(m)]
           rest == Rest([letter EXCEPT !.item = None])
           bag == mem[Bag(p)] \cup {letter.item}
           c == Letter(m) :> rest @@ Bag(p) :> bag
           tx == {Letter(m)} \cup Saved(p)
<1>1. Handle(c, <<tx>>) /\ letter # None /\ letter.item # None BY DEF HandleMailTakeItem
<1>2. letter \in LetterRecords BY <1>1, Values
<1>3. bag \subseteq Items BY <1>1, <1>2, Values DEF LetterRecords
<1>4. /\ rest = None \/ rest \in LetterRecords
      /\ rest # None => rest.item = None
  BY <1>2 DEF Rest, LetterRecords
<1> HIDE DEF rest
<1>5. Moves(c)
  <2>1. \A i \in Items : ~Holds(Letter(m) :> rest, Letter(m), i)
    BY HoldsLetter, <1>4, AuctionAssumption
  <2>2. \A i \in Items : Holds(Bag(p) :> bag, Bag(p), i) => i \in mem[Bag(p)] \/ i = letter.item
    BY HoldsBag
  <2>3. \A i \in Items : (Holds(mem, Letter(m), i) <=> letter.item = i)
                         /\ (Holds(mem, Bag(p), i) <=> i \in mem[Bag(p)])
    BY InMemory, <1>1
  <2>4. Letter(m) # Bag(p) BY RowsDiffer
  <2>5. QED BY <2>1, <2>2, <2>3, <2>4, MovesPair, PlainEmpty
<1> HIDE DEF bag
<1>6. Typed(c) BY <1>3, <1>4, TypedBoth, TypedLetter, TypedBag
<1>7. tx \subseteq Rows BY RowsAreRows DEF Bidders
<1> HIDE DEF c, tx
<1>8. <<tx>> \in Seq(SUBSET Rows) BY <1>7
<1>9. QED BY <1>1, <1>5, <1>6, <1>8, HandledWell

LEMMA SuccessfulWell ==
    ASSUME TypeOK, NEW a \in Lots, SendAuctionSuccessfulMail(a)
    PROVE  Good
<1> DEFINE lot == mem[Lot(a)]
           letter == [to |-> lot.owner, item |-> None,
                      money |-> lot.bid + Deposit - GetAuctionCut(lot.bid)]
           c == Lot(a) :> None @@ First :> letter
<1>1. Handle(c, <<{First}, {Lot(a)}>>) /\ lot # None /\ Ready BY DEF SendAuctionSuccessfulMail
<1>2. lot \in LotRecords BY <1>1, Values
<1>3. letter \in LetterRecords
  <2>1. lot.bid \in Nat /\ lot.owner \in Players BY <1>2 DEF LotRecords
  <2>2. GetAuctionCut(lot.bid) \in 0..lot.bid BY <2>1, Cut
  <2>3. QED BY <2>1, <2>2, AuctionAssumption DEF LetterRecords
<1>4. FirstId \in Letters BY <1>1, Mails
<1>5. letter.item = None OBVIOUS
<1> HIDE DEF letter
<1>6. Plain(Lot(a) :> None) BY PlainNone, RowsAreRows, RowsDiffer
<1>7. Plain(First :> letter)
  <2>1. \A i \in Items : ~Holds(First :> letter, First, i)
    BY HoldsLetter, <1>4, <1>5, AuctionAssumption DEF First
  <2>2. QED BY <2>1, PlainRow
<1>8. Moves(c) BY <1>6, <1>7, PlainBoth, PlainMoves
<1>9. Typed(c) BY <1>3, <1>4, TypedBoth, TypedLot, TypedLetter DEF First
<1>10. {First} \subseteq Rows /\ {Lot(a)} \subseteq Rows BY <1>4, RowsAreRows DEF First
<1> HIDE DEF c
<1>11. <<{First}, {Lot(a)}>> \in Seq(SUBSET Rows) BY <1>10
<1>12. QED BY <1>1, <1>8, <1>9, <1>11, HandledWell

LEMMA ExpiredWell ==
    ASSUME TypeOK, NEW a \in Lots, SendAuctionExpiredMail(a)
    PROVE  Good
<1> DEFINE lot == mem[Lot(a)]
           letter == [to |-> lot.owner, money |-> 0, item |-> lot.item]
           c == Lot(a) :> None @@ First :> letter
<1>1. Handle(c, <<{First}, {Lot(a)}>>) /\ lot # None /\ Ready BY DEF SendAuctionExpiredMail
<1>2. lot \in LotRecords BY <1>1, Values
<1>3. letter \in LetterRecords BY <1>2 DEF LotRecords, LetterRecords
<1>4. FirstId \in Letters BY <1>1, Mails
<1>5. letter.item = lot.item OBVIOUS
<1> HIDE DEF letter
<1>6. Moves(c)
  <2>1. \A i \in Items : ~Holds(Lot(a) :> None, Lot(a), i) BY HoldsLot
  <2>2. \A i \in Items : Holds(First :> letter, First, i) => i = lot.item
    BY HoldsLetter, <1>4, <1>5 DEF First
  <2>3. \A i \in Items : Holds(mem, Lot(a), i) <=> lot.item = i BY InMemory, <1>1
  <2>4. Lot(a) # First BY RowsDiffer DEF First
  <2>5. QED BY <2>1, <2>2, <2>3, <2>4, MovesPair, PlainEmpty
<1>7. Typed(c) BY <1>3, <1>4, TypedBoth, TypedLot, TypedLetter DEF First
<1>8. {First} \subseteq Rows /\ {Lot(a)} \subseteq Rows BY <1>4, RowsAreRows DEF First
<1> HIDE DEF c
<1>9. <<{First}, {Lot(a)}>> \in Seq(SUBSET Rows) BY <1>8
<1>10. QED BY <1>1, <1>6, <1>7, <1>9, HandledWell

LEMMA BidWinningWell ==
    ASSUME TypeOK, NEW a \in Lots, AuctionBidWinning(a)
    PROVE  Good
<1> DEFINE lot == mem[Lot(a)]
           sold == Sold(lot)
           letter == [to |-> lot.bidder, money |-> 0, item |-> lot.item]
           c == Lot(a) :> sold
           d == Second :> letter
<1>1. lot # None /\ Ready BY DEF AuctionBidWinning
<1>2. lot \in LotRecords BY <1>1, Values
<1>3. sold \in LotRecords /\ sold.item = None BY <1>2 DEF Sold, LotRecords
<1>4. SecondId \in Letters BY <1>1, Mails
<1>5. letter.item = lot.item OBVIOUS
<1>6. {Lot(a)} \subseteq Rows /\ {Second} \subseteq Rows BY <1>4, RowsAreRows DEF Second
<1>7. \A i \in Items : ~Holds(Lot(a) :> sold, Lot(a), i) BY HoldsLot, <1>3, AuctionAssumption
<1>8. Typed(c) BY <1>3, TypedLot
<1>9. CASE Delivers(lot)
  <2>1. Handle(c @@ d, <<{Lot(a)}, {Second}>>) BY <1>9 DEF AuctionBidWinning, Delivery
  <2>2. letter \in LetterRecords BY <1>2, <1>9 DEF Delivers, LotRecords, LetterRecords, Bidders
  <2> HIDE DEF letter, sold
  <2>3. Typed(c @@ d) BY <1>8, <2>2, <1>4, TypedBoth, TypedLetter DEF Second
  <2>4. Moves(c @@ d)
    <3>1. \A i \in Items : Holds(Second :> letter, Second, i) => i = lot.item
      BY HoldsLetter, <1>4, <1>5 DEF Second
    <3>2. \A i \in Items : Holds(mem, Lot(a), i) <=> lot.item = i BY InMemory, <1>1
    <3>3. Lot(a) # Second BY RowsDiffer DEF Second
    <3>4. QED BY <3>1, <3>2, <3>3, <1>7, MovesPair, PlainEmpty
  <2> HIDE DEF c, d
  <2>5. <<{Lot(a)}, {Second}>> \in Seq(SUBSET Rows) BY <1>6
  <2>6. QED BY <2>1, <2>3, <2>4, <2>5, HandledWell
<1>10. CASE ~Delivers(lot)
  <2>1. Handle(c, <<{Lot(a)}>>) BY <1>10 DEF AuctionBidWinning
  <2> HIDE DEF sold
  <2>2. Moves(c) BY <1>7, PlainRow, PlainMoves
  <2> HIDE DEF c
  <2>3. <<{Lot(a)}>> \in Seq(SUBSET Rows) BY <1>6
  <2>4. QED BY <2>1, <2>2, <2>3, <1>8, HandledWell
<1>11. QED BY <1>9, <1>10

\* The money of a bid that is beaten.
LEMMA Refunded ==
    ASSUME Ready, NEW p \in Bidders, NEW lot \in LotRecords, Outbid(lot, p)
    PROVE  Typed(Refund(lot)) /\ Plain(Refund(lot))
<1> DEFINE letter == [to |-> lot.bidder, money |-> lot.bid, item |-> None]
<1>1. letter \in LetterRecords BY DEF Outbid, LotRecords, LetterRecords, Bidders
<1>2. letter.item = None OBVIOUS
<1>3. Refund(lot) = First :> letter BY DEF Refund
<1>4. FirstId \in Letters BY Mails
<1> HIDE DEF letter
<1>5. Typed(First :> letter) BY <1>1, <1>4, TypedLetter DEF First
<1>6. \A i \in Items : ~Holds(First :> letter, First, i)
  BY HoldsLetter, <1>2, <1>4, AuctionAssumption DEF First
<1>7. Plain(First :> letter) BY <1>6, PlainRow
<1>8. QED BY <1>3, <1>5, <1>7

LEMMA RemoveWell ==
    ASSUME TypeOK, NEW p \in Players, NEW a \in Lots, HandleAuctionRemoveItem(p, a)
    PROVE  Good
<1> DEFINE lot == mem[Lot(a)]
           letter == [to |-> p, money |-> 0, item |-> lot.item]
           gold == mem[Purse(p)] - GetAuctionCut(lot.bid)
           back == Second :> letter @@ Lot(a) :> None
           fee == Purse(p) :> gold
           end == <<{Second}, {Lot(a)} \cup Saved(p)>>
<1>1. lot # None /\ Ready BY DEF HandleAuctionRemoveItem
<1>2. lot \in LotRecords BY <1>1, Values
<1>3. letter \in LetterRecords /\ letter.item = lot.item BY <1>2 DEF LotRecords, LetterRecords
<1>4. gold \in Nat
  <2>1. lot.bid \in Nat /\ mem[Purse(p)] \in Nat BY <1>2, Values DEF LotRecords
  <2>2. GetAuctionCut(lot.bid) \in 0..lot.bid BY <2>1, Cut
  <2>3. lot.bid # 0 => mem[Purse(p)] >= GetAuctionCut(lot.bid) BY DEF HandleAuctionRemoveItem
  <2>4. QED BY <2>1, <2>2, <2>3
<1>5. SecondId \in Letters /\ FirstId \in Letters BY <1>1, Mails
<1>6. IF Outbid(lot, p) THEN Handle(back @@ fee @@ Refund(lot), <<{First}>> \o end)
      ELSE Handle(back @@ fee, end)
  BY DEF HandleAuctionRemoveItem
<1> HIDE DEF letter, gold
<1>7. Typed(back @@ fee)
  BY <1>3, <1>4, <1>5, TypedBoth, TypedLetter, TypedLot, TypedPurse DEF Bidders, Second
<1>8. Moves(back)
  <2>1. \A i \in Items : Holds(Second :> letter, Second, i) => i = lot.item
    BY HoldsLetter, <1>3, <1>5 DEF Second
  <2>2. \A i \in Items : ~Holds(Lot(a) :> None, Lot(a), i) BY HoldsLot
  <2>3. \A i \in Items : Holds(mem, Lot(a), i) <=> lot.item = i BY InMemory, <1>1
  <2>4. Second # Lot(a) BY RowsDiffer DEF Second
  <2>5. QED BY <2>1, <2>2, <2>3, <2>4, MovesPair, PlainEmpty
<1>9. Moves(back @@ fee) BY <1>8, MovesPlain, PlainPurse
<1>10. {First} \subseteq Rows /\ {Second} \subseteq Rows /\ {Lot(a)} \cup Saved(p) \subseteq Rows
  BY <1>5, RowsAreRows DEF First, Second, Bidders
<1>11. end \in Seq(SUBSET Rows) /\ <<{First}>> \in Seq(SUBSET Rows) BY <1>10
<1> HIDE DEF back, fee, end
<1>12. CASE Outbid(lot, p)
  <2>1. Typed(Refund(lot)) /\ Plain(Refund(lot)) BY <1>1, <1>2, <1>12, Refunded DEF Bidders
  <2>2. Typed(back @@ fee @@ Refund(lot)) BY <1>7, <2>1, TypedBoth
  <2>3. Moves(back @@ fee @@ Refund(lot)) BY <1>9, <2>1, MovesPlain
  <2>4. <<{First}>> \o end \in Seq(SUBSET Rows) BY <1>11, ConcatProperties
  <2>5. QED BY <1>6, <1>12, <2>2, <2>3, <2>4, HandledWell
<1>13. CASE ~Outbid(lot, p) BY <1>6, <1>7, <1>9, <1>11, <1>13, HandledWell
<1>14. QED BY <1>12, <1>13

LEMMA Associative == ASSUME NEW f, NEW g, NEW h PROVE (f @@ g) @@ h = f @@ (g @@ h)
BY DEF @@

\* An auction after a bid.
LEMMA NewBid ==
    ASSUME NEW lot \in LotRecords, NEW p \in Bidders, NEW newbid \in Nat
    PROVE  LET new == Bid(lot, p, newbid)
           IN  /\ new \in LotRecords /\ new.item = lot.item /\ new.bidder = p
               /\ new.bid \in Nat /\ new.bid <= newbid
               /\ Sold(new) \in LotRecords /\ Sold(new).item = None
<1> DEFINE new == Bid(lot, p, newbid)
           bid == IF lot.buyout # 0 /\ newbid > lot.buyout THEN lot.buyout ELSE newbid
<1>1. bid \in Nat /\ bid <= newbid BY DEF LotRecords
<1>2. new = [lot EXCEPT !.bid = bid, !.bidder = p] BY DEF Bid
<1> HIDE DEF new, bid
<1>3. /\ new \in LotRecords /\ new.item = lot.item /\ new.bidder = p
      /\ new.bid \in Nat /\ new.bid <= newbid
  BY <1>1, <1>2 DEF LotRecords
<1>4. Sold(new) \in LotRecords /\ Sold(new).item = None BY <1>3 DEF Sold, LotRecords
<1>5. QED BY <1>3, <1>4 DEF new

LEMMA UpdateBidWell ==
    ASSUME TypeOK, Ready, NEW p \in Bidders, NEW a \in Lots, mem[Lot(a)] # None,
           NEW newbid \in Nat, newbid <= mem[Purse(p)], UpdateBid(a, p, newbid)
    PROVE  Good
<1> DEFINE lot == mem[Lot(a)]
           new == Bid(lot, p, newbid)
           wins == new.buyout # 0 /\ new.bid >= new.buyout
           after == IF wins THEN Sold(new) ELSE new
           gold == mem[Purse(p)] - Due(lot, p, new.bid)
           paid == Purse(p) :> gold
           refund == IF Outbid(lot, p) THEN Refund(lot) ELSE << >>
           item == IF wins /\ Delivers(new) THEN Delivery(new) ELSE << >>
           c == Lot(a) :> after @@ paid @@ refund @@ item
           one == IF Outbid(lot, p) THEN <<{First}>> ELSE << >>
           two == <<{Lot(a)} \cup Saved(p)>>
           three == IF wins /\ Delivers(new) THEN <<{Second}>> ELSE << >>
<1>1. Handle(c, one \o two \o three) BY DEF UpdateBid
<1>2. lot \in LotRecords BY Values
<1>3. /\ new \in LotRecords /\ new.item = lot.item /\ new.bidder = p
      /\ new.bid \in Nat /\ new.bid <= newbid
      /\ Sold(new) \in LotRecords /\ Sold(new).item = None
  BY <1>2, NewBid
<1>4. after \in LotRecords /\ after.item \in {lot.item, None} BY <1>3
<1>5. gold \in Nat
  <2>1. lot.bid \in Nat /\ mem[Purse(p)] \in Nat BY <1>2, Values DEF LotRecords
  <2>2. QED BY <2>1, <1>3 DEF Due
<1>6. FirstId \in Letters /\ SecondId \in Letters BY Mails
<1>7. Typed(refund) /\ Plain(refund)
  BY <1>2, Refunded, TypedNone, PlainEmpty
<1>8. Typed(paid) /\ Plain(paid) BY <1>5, TypedPurse, PlainPurse
<1>9. \A i \in Items : Holds(mem, Lot(a), i) <=> lot.item = i BY InMemory
<1>10. \A i \in Items : Holds(Lot(a) :> after, Lot(a), i) => i = after.item BY HoldsLot
<1>11. Typed(Lot(a) :> after) BY <1>4, TypedLot
<1>12. Typed(item) /\ Moves(c)
  <2>1. CASE wins /\ Delivers(new)
    <3> DEFINE letter == [to |-> p, money |-> 0, item |-> lot.item]
    <3>1. item = Second :> letter BY <2>1, <1>3 DEF Delivery
    <3>2. letter \in LetterRecords /\ letter.item = lot.item
      BY <2>1, <1>2, <1>3 DEF Delivers, LotRecords, LetterRecords, Bidders
    <3>3. after.item = None BY <2>1, <1>3
    <3> HIDE DEF letter, item, after, paid, refund
    <3>4. Typed(item) BY <3>1, <3>2, <1>6, TypedLetter DEF Second
    <3>5. \A i \in Items : ~Holds(Lot(a) :> after, Lot(a), i) BY <3>3, <1>10, AuctionAssumption
    <3>6. \A i \in Items : Holds(Second :> letter, Second, i) => i = lot.item
      BY HoldsLetter, <3>2, <1>6 DEF Second
    <3>7. Lot(a) # Second BY RowsDiffer DEF Second
    <3>8. Plain(paid @@ refund) BY <1>7, <1>8, PlainBoth
    <3>9. Moves(Lot(a) :> after @@ (paid @@ refund) @@ Second :> letter)
      BY <3>5, <3>6, <3>7, <3>8, <1>9, MovesPair
    <3>10. c = Lot(a) :> after @@ (paid @@ refund) @@ Second :> letter BY <3>1, Associative
    <3>11. QED BY <3>4, <3>9, <3>10
  <2>2. CASE ~(wins /\ Delivers(new))
    <3>1. item = << >> BY <2>2
    <3>2. after.item \in {lot.item, None} BY <1>4
    <3> HIDE DEF after, paid, refund, item
    <3>3. Moves(Lot(a) :> after) BY <3>2, <1>9, <1>10, MovesRow, AuctionAssumption
    <3>4. Moves(Lot(a) :> after @@ paid) BY <3>3, <1>8, MovesPlain
    <3>5. Moves(Lot(a) :> after @@ paid @@ refund) BY <3>4, <1>7, MovesPlain
    <3>6. QED BY <3>1, <3>5, MovesPlain, PlainEmpty, TypedNone
  <2>3. QED BY <2>1, <2>2
<1>13. {First} \subseteq Rows /\ {Second} \subseteq Rows /\ {Lot(a)} \cup Saved(p) \subseteq Rows
  BY <1>6, RowsAreRows DEF First, Second
<1>14. one \in Seq(SUBSET Rows) /\ two \in Seq(SUBSET Rows) /\ three \in Seq(SUBSET Rows)
  <2>1. << >> \in Seq(SUBSET Rows) OBVIOUS
  <2>2. <<{First}>> \in Seq(SUBSET Rows) /\ <<{Second}>> \in Seq(SUBSET Rows) BY <1>13
  <2>3. two \in Seq(SUBSET Rows) BY <1>13
  <2>4. QED BY <2>1, <2>2, <2>3
<1> HIDE DEF after, paid, refund, item, one, two, three
<1>15. Typed(c) BY <1>7, <1>8, <1>11, <1>12, TypedBoth
<1>16. one \o two \o three \in Seq(SUBSET Rows) BY <1>14, ConcatProperties
<1> HIDE DEF c
<1>17. QED BY <1>1, <1>12, <1>15, <1>16, HandledWell

LEMMA PlaceBidWell ==
    ASSUME TypeOK, NEW p \in Players, NEW a \in Lots, NEW price \in Prices,
           HandleAuctionPlaceBid(p, a, price)
    PROVE  Good
<1>1. price \in Nat /\ p \in Bidders BY AuctionAssumption DEF Bidders
<1>2. /\ Ready /\ mem[Lot(a)] # None /\ price <= mem[Purse(p)] /\ UpdateBid(a, p, price)
  BY DEF HandleAuctionPlaceBid
<1>3. QED BY <1>1, <1>2, UpdateBidWell

LEMMA BotBidWell ==
    ASSUME TypeOK, NEW a \in Lots, BotBid(a)
    PROVE  Good
<1> DEFINE lot == mem[Lot(a)]
           least == lot.bid + GetAuctionOutBid(lot.bid)
<1>1. lot # None /\ Ready BY DEF BotBid
<1>2. lot.bid \in Nat /\ lot.buyout \in Nat /\ lot.startbid \in Nat BY <1>1, Values DEF LotRecords
<1>3. least \in Nat BY <1>2 DEF GetAuctionOutBid
<1>4. PICK price \in {lot.buyout, IF lot.startbid > least THEN lot.startbid ELSE least} :
          price <= mem[Purse(Nobody)] /\ UpdateBid(a, Nobody, price)
  BY DEF BotBid
<1>5. price \in Nat /\ Nobody \in Bidders BY <1>2, <1>3 DEF Bidders
<1>6. QED BY <1>1, <1>4, <1>5, UpdateBidWell

\* The delay thread and a crash change no types.
LEMMA ExecuteWell == ASSUME TypeOK, Execute PROVE Good
<1> DEFINE t == Head(queue) @@ disk
<1>1. queue # << >> /\ disk' = t /\ queue' = Tail(queue) /\ mem' = mem /\ crashes' = crashes
  BY DEF Execute
<1>2. /\ queue \in Seq(Range(queue)) /\ Len(queue) \in Nat /\ DOMAIN queue = 1..Len(queue)
      /\ Len(queue) # 0
  BY <1>1, LenProperties, EmptySeq DEF TypeOK
<1>3. Head(queue) = queue[1] /\ 1 \in DOMAIN queue BY <1>1, <1>2, HeadTailProperties
<1>4. Typed(Head(queue)) BY <1>3 DEF TypeOK
<1>5. Typed(t) BY <1>4, TypedBoth DEF TypeOK
<1>6. DOMAIN t = DOMAIN Head(queue) \cup DOMAIN disk BY Combine
<1> HIDE DEF t
<1>7. DOMAIN t = Rows BY <1>4, <1>6 DEF TypeOK, Typed
<1>8. /\ Tail(queue) \in Seq(Range(queue)) /\ Len(Tail(queue)) = Len(queue) - 1
      /\ \A n \in 1..Len(Tail(queue)) : Tail(queue)[n] = queue[n + 1]
  BY <1>1, <1>2, HeadTailProperties
<1>9. DOMAIN Tail(queue) = 1..Len(Tail(queue)) BY <1>8, LenProperties
<1>10. \A n \in DOMAIN Tail(queue) : Typed(Tail(queue)[n])
  <2> TAKE n \in DOMAIN Tail(queue)
  <2>1. n + 1 \in DOMAIN queue /\ Tail(queue)[n] = queue[n + 1] BY <1>2, <1>8, <1>9
  <2>2. QED BY <2>1 DEF TypeOK
<1>11. Tail(queue) \in Seq(Range(Tail(queue))) BY <1>8, OfItsRange
<1>12. TypeOK' BY <1>1, <1>5, <1>7, <1>10, <1>11 DEF TypeOK, Typed
<1>13. QED BY <1>1, <1>12 DEF Good, Once, Holds

LEMMA CrashTyped == ASSUME TypeOK, Crash PROVE TypeOK' /\ crashes' # 0
<1>1. /\ crashes < MaxCrashes /\ crashes' = crashes + 1
      /\ mem' = disk /\ queue' = << >> /\ disk' = disk
  BY DEF Crash
<1>2. crashes \in Nat /\ crashes' \in 0..MaxCrashes /\ crashes' # 0
  BY <1>1, AuctionAssumption DEF TypeOK
<1>3. queue' \in Seq(Range(queue')) /\ DOMAIN queue' = {} BY <1>1
<1>4. QED BY <1>1, <1>2, <1>3 DEF TypeOK, Typed

-----------------------------------------------------------------------------
(* The theorems.                                                           *)

\* Items move in memory only, and only a crash undoes what they did.
IInv == TypeOK /\ (crashes = 0 => Once(mem))

LEMMA InitOnce == Init => Once(mem)
<1> SUFFICES ASSUME Init PROVE Once(mem) OBVIOUS
<1> DEFINE f == [r \in {Purse(p) : p \in Players} |-> Money]
           b == Purse(Nobody) :> BotMoney
           g == [r \in {Bag(p) : p \in Players} |-> HasItems[r[2]]]
           h == [r \in {Lot(a) : a \in Lots} \cup {Letter(m) : m \in Letters} |-> None]
<1>1. mem = f @@ b @@ g @@ h BY DEF Init
<1>2. /\ DOMAIN f = {Purse(p) : p \in Players} /\ DOMAIN b = {Purse(Nobody)}
      /\ DOMAIN g = {Bag(p) : p \in Players}
      /\ DOMAIN h = {Lot(a) : a \in Lots} \cup {Letter(m) : m \in Letters}
  BY Single
<1>3. \A p \in Players : g[Bag(p)] = HasItems[p] BY DEF Bag
<1>4. \A r \in DOMAIN h : h[r] = None OBVIOUS
<1> HIDE DEF f, b, g, h
<1>5. /\ DOMAIN (f @@ b) = DOMAIN f \cup DOMAIN b
      /\ DOMAIN (f @@ b @@ g) = DOMAIN (f @@ b) \cup DOMAIN g
      /\ \A r \in DOMAIN g \ DOMAIN (f @@ b) : (f @@ b @@ g)[r] = g[r]
      /\ \A r \in DOMAIN (f @@ b @@ g) : mem[r] = (f @@ b @@ g)[r]
      /\ \A r \in DOMAIN h \ DOMAIN (f @@ b @@ g) : mem[r] = h[r]
  <2>1. DOMAIN (f @@ b) = DOMAIN f \cup DOMAIN b BY Combine
  <2>2. /\ DOMAIN (f @@ b @@ g) = DOMAIN (f @@ b) \cup DOMAIN g
        /\ \A r \in DOMAIN g \ DOMAIN (f @@ b) : (f @@ b @@ g)[r] = g[r]
    BY Combine
  <2> DEFINE k == f @@ b @@ g
  <2>3. /\ \A r \in DOMAIN k : (k @@ h)[r] = k[r]
        /\ \A r \in DOMAIN h \ DOMAIN k : (k @@ h)[r] = h[r]
    BY Combine
  <2>4. QED BY <1>1, <2>1, <2>2, <2>3
<1>6. \A p \in Players : mem[Bag(p)] = HasItems[p]
  <2> TAKE p \in Players
  <2>1. Bag(p) \in DOMAIN g \ DOMAIN (f @@ b) BY <1>2, <1>5, RowsDiffer
  <2>2. QED BY <2>1, <1>3, <1>5
<1>7. /\ \A a \in Lots : mem[Lot(a)] = None
      /\ \A m \in Letters : mem[Letter(m)] = None
  <2>1. \A r \in DOMAIN h : r \notin DOMAIN (f @@ b @@ g) BY <1>2, <1>5, RowsDiffer
  <2>2. QED BY <2>1, <1>2, <1>4, <1>5
<1>8. SUFFICES ASSUME NEW i \in Items, NEW r \in Rows, NEW q \in Rows,
                      Holds(mem, r, i), Holds(mem, q, i)
               PROVE  r = q
  BY DEF Once
<1>9. /\ \E p \in Players : r = Bag(p) /\ i \in HasItems[p]
      /\ \E p \in Players : q = Bag(p) /\ i \in HasItems[p]
  BY <1>6, <1>7, <1>8 DEF Holds
<1>10. QED BY <1>9, AuctionAssumption

LEMMA Step == IInv /\ [Next]_vars => IInv'
<1> SUFFICES ASSUME IInv, [Next]_vars PROVE IInv' OBVIOUS
<1>1. TypeOK BY DEF IInv
<1>2. SUFFICES Good \/ (TypeOK' /\ crashes' # 0) BY DEF IInv, Good
<1>3. ASSUME NEW p \in Players, NEW i \in Items, NEW startbid \in StartBids, NEW buyout \in Buyouts,
             HandleAuctionSellItem(p, i, startbid, buyout)
      PROVE  Good
  BY <1>1, <1>3, SellWell
<1>4. ASSUME NEW p \in Players, NEW a \in Lots, NEW price \in Prices,
             HandleAuctionPlaceBid(p, a, price)
      PROVE  Good
  BY <1>1, <1>4, PlaceBidWell
<1>5. ASSUME NEW p \in Players, NEW a \in Lots, HandleAuctionRemoveItem(p, a) PROVE Good
  BY <1>1, <1>5, RemoveWell
<1>6. ASSUME NEW p \in Players, NEW m \in Letters, HandleMailTakeMoney(p, m) PROVE Good
  BY <1>1, <1>6, TakeMoneyWell
<1>7. ASSUME NEW p \in Players, NEW m \in Letters, HandleMailTakeItem(p, m) PROVE Good
  BY <1>1, <1>7, TakeItemWell
<1>8. ASSUME NEW a \in Lots, BotBid(a) PROVE Good BY <1>1, <1>8, BotBidWell
<1>9. ASSUME NEW a \in Lots, SendAuctionSuccessfulMail(a) PROVE Good BY <1>1, <1>9, SuccessfulWell
<1>10. ASSUME NEW a \in Lots, AuctionBidWinning(a) PROVE Good BY <1>1, <1>10, BidWinningWell
<1>11. ASSUME NEW a \in Lots, SendAuctionExpiredMail(a) PROVE Good BY <1>1, <1>11, ExpiredWell
<1>12. CASE Execute BY <1>1, <1>12, ExecuteWell
<1>13. CASE Crash BY <1>1, <1>13, CrashTyped
<1>14. CASE UNCHANGED vars BY <1>1, <1>14 DEF vars, Good, TypeOK, Typed, Once, Holds
<1>15. QED
  BY <1>3, <1>4, <1>5, <1>6, <1>7, <1>8, <1>9, <1>10, <1>11, <1>12, <1>13, <1>14 DEF Next

\* At most one row has an item.
LEMMA OneHolder == IInv => ItemOnce
<1> SUFFICES ASSUME IInv, crashes = 0, NEW i \in Items PROVE Cardinality(Holders(mem, i)) <= 1
  BY DEF ItemOnce
<1>1. \A r, q \in Rows : Holds(mem, r, i) /\ Holds(mem, q, i) => r = q BY DEF IInv, Once
<1>2. \A r \in Holders(mem, i) : r \in Rows /\ Holds(mem, r, i) BY DEF Holders, Rows, Holds
<1> DEFINE S == Holders(mem, i)
<1>3. \A r, q \in S : r = q BY <1>1, <1>2
<1> HIDE DEF S
<1>4. CASE S = {} BY <1>4, FS_EmptySet DEF S
<1>5. CASE S # {}
  <2>1. PICK r : r \in S BY <1>5
  <2>2. S = {r} BY <2>1, <1>3
  <2>3. Cardinality(S) = 1 BY <2>2, FS_Singleton
  <2>4. QED BY <2>3 DEF S
<1>6. QED BY <1>4, <1>5

LEMMA Invariance == Spec => []IInv
<1>1. Init => IInv BY TypedInit, InitOnce DEF IInv
<1>2. QED BY <1>1, Step, PTL DEF Spec

\* No purse, bid or letter goes below 0, in memory, on disk or on the way, whatever is
\* bid, bought out, taken back or sold, before a crash and after it.
THEOREM TypeCorrect == Spec => []TypeOK
<1>1. IInv => TypeOK BY DEF IInv
<1>2. QED BY <1>1, Invariance, PTL

\* As long as the server runs no item is in two bags, auctions or mails, in whatever
\* order auctions are bid on, bought, taken back, sold and paid, and mails emptied.
THEOREM ItemInOnePlace == Spec => []ItemOnce
BY OneHolder, Invariance, PTL
=============================================================================
