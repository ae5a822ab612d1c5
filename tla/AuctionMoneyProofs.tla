-------------------------- MODULE AuctionMoneyProofs --------------------------
(***************************************************************************)
(* Proofs about the money of auctions.  A sum changes by what its terms    *)
(* change, so the wealth of any set of players changes by the purse, the   *)
(* auction and the two letters that a handler writes.  What a crash may    *)
(* leave is one of the tables on the path from the disk to the memory,     *)
(* one transaction at a time; none of them is worth less than the memory.  *)
(***************************************************************************)
EXTENDS AuctionProofs

-----------------------------------------------------------------------------
(* Sums.                                                                   *)

Pairs(f) == UNION {{x} \X (1..f[x]) : x \in DOMAIN f}
Summable(f) == IsFiniteSet(DOMAIN f) /\ \A x \in DOMAIN f : f[x] \in Nat

\* The pairs of one x are as many as the value of f there.
LEMMA PairsOfOne ==
    ASSUME NEW x, NEW n \in Nat
    PROVE  IsFiniteSet({x} \X (1..n)) /\ Cardinality({x} \X (1..n)) = n
<1>1. IsFiniteSet(1..n) /\ Cardinality(1..n) = n
  BY FS_Interval
<1>2. IsFiniteSet({x}) /\ Cardinality({x}) = 1
  BY FS_Singleton
<1>3. \A S, T : IsFiniteSet(S) /\ IsFiniteSet(T) =>
          IsFiniteSet(S \X T) /\ Cardinality(S \X T) = Cardinality(S) * Cardinality(T)
  BY FS_Product
<1>4. PICK S, T : S = {x} /\ T = 1..n
  OBVIOUS
<1>5. IsFiniteSet(S \X T) /\ Cardinality(S \X T) = Cardinality(S) * Cardinality(T)
  BY <1>1, <1>2, <1>3, <1>4, Zenon
<1>6. Cardinality(S \X T) = 1 * n
  BY <1>1, <1>2, <1>4, <1>5, Zenon
<1>7. 1 * n = n
  OBVIOUS
<1>. QED
  BY <1>4, <1>5, <1>6, <1>7, Zenon

LEMMA PairsFinite ==
    ASSUME NEW f, Summable(f)
    PROVE  IsFiniteSet(Pairs(f)) /\ Sum(f) = Cardinality(Pairs(f)) /\ Sum(f) \in Nat
<1>. DEFINE F == [x \in DOMAIN f |-> {x} \X (1..f[x])]
            T == {{x} \X (1..f[x]) : x \in DOMAIN f}
<1>1. F \in Surjection(DOMAIN f, T)
  <2>1. F \in [DOMAIN f -> T] /\ \A t \in T : \E x \in DOMAIN f : F[x] = t
    OBVIOUS
  <2>. QED
    BY <2>1 DEF Surjection
<1>2. IsFiniteSet(T)
  BY <1>1, FS_Surjection DEF Summable
<1>3. ASSUME NEW t \in T PROVE IsFiniteSet(t)
  <2>1. PICK x \in DOMAIN f : t = {x} \X (1..f[x])
    OBVIOUS
  <2>2. f[x] \in Nat
    BY DEF Summable
  <2>. QED
    BY <2>1, <2>2, PairsOfOne
<1>4. IsFiniteSet(UNION T)
  BY <1>2, <1>3, FS_UNION
<1>5. IsFiniteSet(Pairs(f)) /\ Sum(f) = Cardinality(Pairs(f))
  BY <1>4 DEF Pairs, Sum
<1>. QED
  BY <1>5, FS_CardinalityType

\* The pairs of all but one.
Others(f, x) == {z \in Pairs(f) : z[1] # x}

LEMMA SumOfOthers ==
    ASSUME NEW f, Summable(f), NEW x \in DOMAIN f
    PROVE  Sum(f) = Cardinality(Others(f, x)) + f[x] /\ Cardinality(Others(f, x)) \in Nat
<1>1. Pairs(f) = Others(f, x) \cup ({x} \X (1..f[x]))
  <2>1. \A z : z \in Pairs(f) <=> \E y \in DOMAIN f : z \in {y} \X (1..f[y])
    BY DEF Pairs
  <2>2. \A y : \A z \in {y} \X (1..f[y]) : z[1] = y
    OBVIOUS
  <2>. QED
    BY <2>1, <2>2 DEF Others
<1>2. Others(f, x) \cap ({x} \X (1..f[x])) = {}
  BY DEF Others
<1>3. IsFiniteSet(Others(f, x)) /\ Cardinality(Others(f, x)) \in Nat
  BY PairsFinite, FS_Subset, FS_CardinalityType DEF Others
<1>4. IsFiniteSet({x} \X (1..f[x])) /\ Cardinality({x} \X (1..f[x])) = f[x]
  BY PairsOfOne DEF Summable
<1>5. Cardinality({}) = 0
  BY FS_EmptySet
<1>6. f[x] \in Nat
  BY DEF Summable
<1>7. Cardinality(Pairs(f)) = Cardinality(Others(f, x)) + f[x] - 0
  <2>1. PICK A, B : A = Others(f, x) /\ B = {x} \X (1..f[x])
    OBVIOUS
  <2>2. IsFiniteSet(A) /\ IsFiniteSet(B)
    BY <1>3, <1>4, <2>1
  <2>3. Cardinality(A \cup B) = Cardinality(A) + Cardinality(B) - Cardinality(A \cap B)
    BY <2>2, FS_Union
  <2>. QED
    BY <1>1, <1>2, <1>4, <1>5, <2>1, <2>3
<1>. QED
  BY <1>3, <1>6, <1>7, PairsFinite

\* Sums of functions that differ at most at x differ by what these differ there.
LEMMA SumChange ==
    ASSUME NEW f, NEW g, Summable(f), Summable(g), DOMAIN g = DOMAIN f,
           NEW x \in DOMAIN f, \A y \in DOMAIN f : y # x => g[y] = f[y]
    PROVE  Sum(g) = Sum(f) - f[x] + g[x]
<1>1. Others(g, x) = Others(f, x)
  <2>1. \A z : z \in Pairs(f) <=> \E y \in DOMAIN f : z \in {y} \X (1..f[y])
    BY DEF Pairs
  <2>2. \A z : z \in Pairs(g) <=> \E y \in DOMAIN f : z \in {y} \X (1..g[y])
    BY DEF Pairs
  <2>3. \A z, y, n : z \in {y} \X (1..n) => z[1] = y
    OBVIOUS
  <2>4. \A z : z[1] # x => (z \in Pairs(f) <=> z \in Pairs(g))
    BY <2>1, <2>2, <2>3
  <2>. QED
    BY <2>4 DEF Others
<1>2. f[x] \in Nat /\ g[x] \in Nat
  BY DEF Summable
<1>. QED
  BY <1>1, <1>2, SumOfOthers

LEMMA SumSame ==
    ASSUME NEW f, NEW g, DOMAIN g = DOMAIN f, \A y \in DOMAIN f : g[y] = f[y]
    PROVE  Sum(g) = Sum(f)
<1>1. {{x} \X (1..g[x]) : x \in DOMAIN g} = {{x} \X (1..f[x]) : x \in DOMAIN f}
  OBVIOUS
<1>. QED
  BY <1>1 DEF Sum

-----------------------------------------------------------------------------
(* Wealth.                                                                 *)

\* A table with all rows.
Full(t) == Typed(t) /\ t = [r \in Rows |-> t[r]]

Purses(t, S)  == [p \in S |-> t[Purse(p)]]
Mailbags(t, S) == [m \in Letters |-> InLetter(t[Letter(m)], S)]
House(t, S)   == [a \in Lots |-> InLot(t[Lot(a)], S)]

LEMMA FullRows ==
    ASSUME NEW t, Full(t)
    PROVE  /\ DOMAIN t = Rows
           /\ \A p \in Bidders : t[Purse(p)] \in Nat
           /\ \A p \in Players : t[Bag(p)] \subseteq Items
           /\ \A a \in Lots : t[Lot(a)] # None => t[Lot(a)] \in LotRecords
           /\ \A m \in Letters : t[Letter(m)] # None => t[Letter(m)] \in LetterRecords
<1>1. DOMAIN t = Rows
  BY DEF Full
<1>. QED
  BY <1>1, RowsAreRows DEF Full, Typed

LEMMA InNat ==
    ASSUME NEW S
    PROVE  /\ InLetter(None, S) = 0 /\ InLot(None, S) = 0
           /\ \A l \in LetterRecords : InLetter(l, S) \in Nat
           /\ \A l \in LotRecords : InLot(l, S) \in Nat
<1>1. \A l \in LotRecords : /\ l.bid \in Nat /\ GetAuctionCut(l.bid) \in 0..l.bid
  BY Cut DEF LotRecords
<1>2. Deposit \in Nat
  BY AuctionAssumption
<1>3. \A l \in LotRecords : InLot(l, S) \in Nat
  BY <1>1, <1>2 DEF InLot, Own
<1>. QED
  BY <1>3 DEF InLetter, InLot, Own, LetterRecords

LEMMA WealthParts ==
    ASSUME NEW t, Full(t), NEW S \in SUBSET Bidders
    PROVE  /\ Summable(Purses(t, S)) /\ Summable(Mailbags(t, S)) /\ Summable(House(t, S))
           /\ Wealth(t, S) = Sum(Purses(t, S)) + Sum(Mailbags(t, S)) + Sum(House(t, S))
           /\ Sum(Purses(t, S)) \in Nat /\ Sum(Mailbags(t, S)) \in Nat /\ Sum(House(t, S)) \in Nat
           /\ Wealth(t, S) \in Nat
<1>1. IsFiniteSet(S)
  <2>1. IsFiniteSet(Bidders)
    BY AuctionAssumption, FS_AddElement DEF Bidders
  <2>. QED
    BY <2>1, FS_Subset
<1>2. Summable(Purses(t, S))
  BY <1>1, FullRows DEF Summable, Purses
<1>3. Summable(Mailbags(t, S))
  <2>1. \A m \in Letters : InLetter(t[Letter(m)], S) \in Nat
    BY FullRows, InNat
  <2>. QED
    BY <2>1, AuctionAssumption DEF Summable, Mailbags
<1>4. Summable(House(t, S))
  <2>1. \A a \in Lots : InLot(t[Lot(a)], S) \in Nat
    BY FullRows, InNat
  <2>. QED
    BY <2>1, AuctionAssumption DEF Summable, House
<1>5. Sum(Purses(t, S)) \in Nat /\ Sum(Mailbags(t, S)) \in Nat /\ Sum(House(t, S)) \in Nat
  BY <1>2, <1>3, <1>4, PairsFinite
<1>6. Wealth(t, S) = Sum(Purses(t, S)) + Sum(Mailbags(t, S)) + Sum(House(t, S))
  BY DEF Wealth, Purses, Mailbags, House
<1>. QED
  BY <1>2, <1>3, <1>4, <1>5, <1>6

LEMMA PursesChange ==
    ASSUME NEW t, NEW u, Full(t), Full(u), NEW S \in SUBSET Bidders, NEW p \in Bidders,
           \A q \in Bidders \ {p} : u[Purse(q)] = t[Purse(q)]
    PROVE  Sum(Purses(u, S)) = Sum(Purses(t, S)) + Own(S, p, u[Purse(p)] - t[Purse(p)])
<1>1. DOMAIN Purses(t, S) = S /\ DOMAIN Purses(u, S) = S
      /\ \A q \in S : Purses(t, S)[q] = t[Purse(q)] /\ Purses(u, S)[q] = u[Purse(q)]
  BY DEF Purses
<1>2. t[Purse(p)] \in Nat /\ u[Purse(p)] \in Nat
  BY FullRows
<1>3. CASE p \in S
  <2>1. Sum(Purses(u, S)) = Sum(Purses(t, S)) - t[Purse(p)] + u[Purse(p)]
    BY <1>1, <1>3, WealthParts, SumChange
  <2>. QED
    BY <1>2, <1>3, <2>1, WealthParts DEF Own
<1>4. CASE p \notin S
  <2>1. Sum(Purses(u, S)) = Sum(Purses(t, S))
    BY <1>1, <1>4, SumSame
  <2>. QED
    BY <1>4, <2>1, WealthParts DEF Own
<1>. QED
  BY <1>3, <1>4

LEMMA HouseChange ==
    ASSUME NEW t, NEW u, Full(t), Full(u), NEW S \in SUBSET Bidders, NEW a \in Lots,
           \A b \in Lots \ {a} : u[Lot(b)] = t[Lot(b)]
    PROVE  Sum(House(u, S)) = Sum(House(t, S)) + (InLot(u[Lot(a)], S) - InLot(t[Lot(a)], S))
<1>1. DOMAIN House(t, S) = Lots /\ DOMAIN House(u, S) = Lots
      /\ \A b \in Lots : House(t, S)[b] = InLot(t[Lot(b)], S) /\ House(u, S)[b] = InLot(u[Lot(b)], S)
  BY DEF House
<1>2. Sum(House(u, S)) = Sum(House(t, S)) - InLot(t[Lot(a)], S) + InLot(u[Lot(a)], S)
  BY <1>1, WealthParts, SumChange
<1>3. InLot(t[Lot(a)], S) \in Nat /\ InLot(u[Lot(a)], S) \in Nat
  BY FullRows, InNat
<1>. QED
  BY <1>2, <1>3, WealthParts

LEMMA HouseSame ==
    ASSUME NEW t, NEW u, \A b \in Lots : u[Lot(b)] = t[Lot(b)], NEW S
    PROVE  Sum(House(u, S)) = Sum(House(t, S))
BY SumSame DEF House

LEMMA MailbagsChange ==
    ASSUME NEW t, NEW u, Full(t), Full(u), NEW S \in SUBSET Bidders, NEW m \in Letters,
           \A k \in Letters \ {m} : u[Letter(k)] = t[Letter(k)]
    PROVE  Sum(Mailbags(u, S)) =
              Sum(Mailbags(t, S)) + (InLetter(u[Letter(m)], S) - InLetter(t[Letter(m)], S))
<1>1. DOMAIN Mailbags(t, S) = Letters /\ DOMAIN Mailbags(u, S) = Letters
      /\ \A k \in Letters : /\ Mailbags(t, S)[k] = InLetter(t[Letter(k)], S)
                            /\ Mailbags(u, S)[k] = InLetter(u[Letter(k)], S)
  BY DEF Mailbags
<1>2. Sum(Mailbags(u, S)) = Sum(Mailbags(t, S)) - InLetter(t[Letter(m)], S) + InLetter(u[Letter(m)], S)
  BY <1>1, WealthParts, SumChange
<1>3. InLetter(t[Letter(m)], S) \in Nat /\ InLetter(u[Letter(m)], S) \in Nat
  BY FullRows, InNat
<1>. QED
  BY <1>2, <1>3, WealthParts

-----------------------------------------------------------------------------
(* Tables between two others.                                              *)

\* The rows R of the table u, the others of the table t.
Stage(t, u, R) == [r \in Rows |-> IF r \in R THEN u[r] ELSE t[r]]
Part(R, r, x) == IF r \in R THEN x ELSE 0

LEMMA StageFull ==
    ASSUME NEW t, NEW u, Full(t), Full(u), NEW R
    PROVE  /\ Full(Stage(t, u, R))
           /\ \A r \in Rows : Stage(t, u, R)[r] = IF r \in R THEN u[r] ELSE t[r]
<1>1. PICK s : s = Stage(t, u, R)
  OBVIOUS
<1>2. DOMAIN s = Rows /\ s = [r \in Rows |-> s[r]] /\ \A r \in Rows : s[r] = t[r] \/ s[r] = u[r]
  BY <1>1 DEF Stage
<1>3. DOMAIN t = Rows /\ DOMAIN u = Rows /\ Typed(t) /\ Typed(u)
  BY DEF Full
<1>4. Typed(s)
  BY <1>2, <1>3, RowsAreRows DEF Typed
<1>5. \A r \in Rows : s[r] = IF r \in R THEN u[r] ELSE t[r]
  BY <1>1 DEF Stage
<1>. QED
  BY <1>1, <1>2, <1>4, <1>5 DEF Full

LEMMA StageNone ==
    ASSUME NEW t, NEW u, Full(t)
    PROVE  Stage(t, u, {}) = t
<1>1. t = [r \in Rows |-> t[r]]
  BY DEF Full
<1>2. Stage(t, u, {}) = [r \in Rows |-> t[r]]
  BY DEF Stage
<1>. QED
  BY <1>1, <1>2

LEMMA StageAll ==
    ASSUME NEW t, NEW u, Full(u), NEW R, \A r \in Rows \ R : u[r] = t[r]
    PROVE  Stage(t, u, R) = u
<1>1. u = [r \in Rows |-> u[r]]
  BY DEF Full
<1>2. Stage(t, u, R) = [r \in Rows |-> u[r]]
  BY DEF Stage
<1>. QED
  BY <1>1, <1>2

\* A transaction that writes the rows V.
LEMMA StageNext ==
    ASSUME NEW t, NEW u, Full(u), NEW R, NEW V \in SUBSET Rows
    PROVE  Restrict(u, V) @@ Stage(t, u, R) = Stage(t, u, R \cup V)
<1>1. DOMAIN u = Rows
  BY DEF Full
<1>2. PICK s : s = Stage(t, u, R) /\ s = [r \in Rows |-> IF r \in R THEN u[r] ELSE t[r]]
  BY DEF Stage
<1>3. PICK v : v = Restrict(u, V) /\ v = [r \in V |-> u[r]]
  BY DEF Restrict
<1>4. v @@ s = [r \in V \cup Rows |-> IF r \in V THEN v[r] ELSE s[r]]
  BY <1>2, <1>3 DEF @@
<1>5. v @@ s = [r \in Rows |-> IF r \in R \cup V THEN u[r] ELSE t[r]]
  BY <1>2, <1>3, <1>4
<1>. QED
  BY <1>2, <1>3, <1>5 DEF Stage

\* The wealth changes by the purse, the auction and the letters written.
LEMMA StageWealth ==
    ASSUME NEW t, NEW u, Full(t), Full(u), NEW S \in SUBSET Bidders, NEW R,
           NEW p \in Bidders, NEW a \in Lots, NEW m \in Letters, NEW n \in Letters, m # n,
           \A q \in Bidders \ {p} : u[Purse(q)] = t[Purse(q)],
           \A b \in Lots \ {a} : u[Lot(b)] = t[Lot(b)],
           \A k \in Letters \ {m, n} : u[Letter(k)] = t[Letter(k)]
    PROVE  Wealth(Stage(t, u, R), S) =
              Wealth(t, S) + Part(R, Purse(p), Own(S, p, u[Purse(p)] - t[Purse(p)]))
              + Part(R, Lot(a), InLot(u[Lot(a)], S) - InLot(t[Lot(a)], S))
              + Part(R, Letter(m), InLetter(u[Letter(m)], S) - InLetter(t[Letter(m)], S))
              + Part(R, Letter(n), InLetter(u[Letter(n)], S) - InLetter(t[Letter(n)], S))
<1>1. PICK s : s = Stage(t, u, R) /\ Full(s) /\ \A r \in Rows : s[r] = IF r \in R THEN u[r] ELSE t[r]
  BY StageFull
<1>2. PICK v : v = Stage(t, u, R \ {Letter(n)}) /\ Full(v)
               /\ \A r \in Rows : v[r] = IF r \in R \ {Letter(n)} THEN u[r] ELSE t[r]
  BY StageFull
<1>3. \A q \in Bidders : s[Purse(q)] = IF Purse(q) \in R THEN u[Purse(q)] ELSE t[Purse(q)]
  BY <1>1, RowsAreRows
<1>4. \A b \in Lots : s[Lot(b)] = IF Lot(b) \in R THEN u[Lot(b)] ELSE t[Lot(b)]
  BY <1>1, RowsAreRows
<1>5. \A k \in Letters : s[Letter(k)] = IF Letter(k) \in R THEN u[Letter(k)] ELSE t[Letter(k)]
  BY <1>1, RowsAreRows
<1>6. \A k \in Letters : v[Letter(k)] =
         IF Letter(k) \in R /\ k # n THEN u[Letter(k)] ELSE t[Letter(k)]
  BY <1>2, RowsAreRows, RowsDiffer
<1>7. Sum(Purses(s, S)) = Sum(Purses(t, S)) + Part(R, Purse(p), Own(S, p, u[Purse(p)] - t[Purse(p)]))
  <2>1. Sum(Purses(s, S)) = Sum(Purses(t, S)) + Own(S, p, s[Purse(p)] - t[Purse(p)])
    BY <1>1, <1>3, PursesChange
  <2>2. t[Purse(p)] \in Nat /\ Sum(Purses(t, S)) \in Nat
    BY FullRows, WealthParts
  <2>. QED
    BY <1>3, <2>1, <2>2 DEF Part, Own
<1>8. Sum(House(s, S)) =
         Sum(House(t, S)) + Part(R, Lot(a), InLot(u[Lot(a)], S) - InLot(t[Lot(a)], S))
  <2>1. Sum(House(s, S)) = Sum(House(t, S)) + (InLot(s[Lot(a)], S) - InLot(t[Lot(a)], S))
    BY <1>1, <1>4, HouseChange
  <2>2. InLot(t[Lot(a)], S) \in Nat
    BY FullRows, InNat
  <2>3. CASE Lot(a) \in R
    BY <1>4, <2>1, <2>3 DEF Part
  <2>4. CASE Lot(a) \notin R
    <3>1. s[Lot(a)] = t[Lot(a)]
      BY <1>4, <2>4
    <3>. QED
      BY <2>1, <2>2, <2>4, <3>1 DEF Part
  <2>. QED
    BY <2>3, <2>4
<1>9. Sum(Mailbags(v, S)) = Sum(Mailbags(t, S))
         + Part(R, Letter(m), InLetter(u[Letter(m)], S) - InLetter(t[Letter(m)], S))
  <2>a. \A k \in Letters \ {m} : v[Letter(k)] = t[Letter(k)]
    BY <1>6
  <2>1. Sum(Mailbags(v, S)) =
           Sum(Mailbags(t, S)) + (InLetter(v[Letter(m)], S) - InLetter(t[Letter(m)], S))
    <3>. HIDE <1>1
    <3>. QED
      BY <1>2, <2>a, MailbagsChange
  <2>2. InLetter(t[Letter(m)], S) \in Nat
    BY FullRows, InNat
  <2>3. CASE Letter(m) \in R
    BY <1>6, <2>1, <2>3 DEF Part
  <2>4. CASE Letter(m) \notin R
    <3>1. v[Letter(m)] = t[Letter(m)]
      BY <1>6, <2>4
    <3>. QED
      BY <2>1, <2>2, <2>4, <3>1 DEF Part
  <2>. QED
    BY <2>3, <2>4
<1>10. Sum(Mailbags(s, S)) = Sum(Mailbags(v, S))
         + Part(R, Letter(n), InLetter(u[Letter(n)], S) - InLetter(t[Letter(n)], S))
  <2>1. v[Letter(n)] = t[Letter(n)]
    BY <1>6
  <2>2. Sum(Mailbags(s, S)) =
           Sum(Mailbags(v, S)) + (InLetter(s[Letter(n)], S) - InLetter(v[Letter(n)], S))
    <3>1. \A k \in Letters \ {n} : s[Letter(k)] = v[Letter(k)]
      BY <1>5, <1>6
    <3>. QED
      <4>1. Full(s) /\ Full(v)
        BY <1>1, <1>2
      <4>. QED
        BY <3>1, <4>1, MailbagsChange
  <2>3. InLetter(t[Letter(n)], S) \in Nat
    BY FullRows, InNat
  <2>4. CASE Letter(n) \in R
    BY <1>5, <2>1, <2>2, <2>4 DEF Part
  <2>5. CASE Letter(n) \notin R
    <3>1. s[Letter(n)] = t[Letter(n)]
      BY <1>5, <2>5
    <3>. QED
      BY <2>1, <2>2, <2>3, <2>5, <3>1 DEF Part
  <2>. QED
    BY <2>4, <2>5
<1>11. /\ Wealth(s, S) = Sum(Purses(s, S)) + Sum(Mailbags(s, S)) + Sum(House(s, S))
       /\ Wealth(t, S) = Sum(Purses(t, S)) + Sum(Mailbags(t, S)) + Sum(House(t, S))
       /\ Sum(Purses(t, S)) \in Nat /\ Sum(Mailbags(t, S)) \in Nat /\ Sum(House(t, S)) \in Nat
  BY <1>1, WealthParts
<1>12. /\ Part(R, Purse(p), Own(S, p, u[Purse(p)] - t[Purse(p)])) \in Int
       /\ Part(R, Lot(a), InLot(u[Lot(a)], S) - InLot(t[Lot(a)], S)) \in Int
       /\ Part(R, Letter(m), InLetter(u[Letter(m)], S) - InLetter(t[Letter(m)], S)) \in Int
       /\ Part(R, Letter(n), InLetter(u[Letter(n)], S) - InLetter(t[Letter(n)], S)) \in Int
  <2>1. t[Purse(p)] \in Nat /\ u[Purse(p)] \in Nat
    BY FullRows
  <2>2. InLot(t[Lot(a)], S) \in Nat /\ InLot(u[Lot(a)], S) \in Nat
    BY FullRows, InNat
  <2>3. /\ InLetter(t[Letter(m)], S) \in Nat /\ InLetter(u[Letter(m)], S) \in Nat
        /\ InLetter(t[Letter(n)], S) \in Nat /\ InLetter(u[Letter(n)], S) \in Nat
    BY FullRows, InNat
  <2>. QED
    BY <2>1, <2>2, <2>3 DEF Part, Own
<1>. QED
  BY <1>1, <1>7, <1>8, <1>9, <1>10, <1>11, <1>12

-----------------------------------------------------------------------------
(* The path from the disk to the memory.                                   *)

\* A lot is pending when its item has gone, and no bid is above the buyout.
Shape(lot) == lot # None =>
    /\ lot.pending <=> lot.item = None
    /\ lot.buyout # 0 => lot.bid <= lot.buyout
Shaped(t) == \A a \in Lots : Shape(t[Lot(a)])

(* From the table d the transactions q lead over the tables h to the table *)
(* m, and at no table on the way the players own less than w.              *)
Path(h, q, d, m, w) ==
    /\ h[0] = d /\ h[Len(q)] = m
    /\ \A n \in 1..Len(q) : h[n] = q[n] @@ h[n - 1]
    /\ \A n \in 0..Len(q) : Full(h[n]) /\ Shaped(h[n]) /\ Wealth(h[n], Bidders) >= w
MoneyInv == \E h : Path(h, queue, disk, mem, Wealth(mem, Bidders))

\* The rows the first n transactions write.
Written(transactions, n) == {r \in Rows : \E i \in 1..n : r \in transactions[i]}

LEMMA WrittenNext ==
    ASSUME NEW transactions \in Seq(SUBSET Rows), NEW n \in 1..Len(transactions)
    PROVE  Written(transactions, n) = Written(transactions, n - 1) \cup transactions[n]
<1>1. 1..n = (1..n - 1) \cup {n} /\ transactions[n] \in SUBSET Rows
  BY ElementOfSeq
<1>. QED
  BY <1>1 DEF Written

\* What is on the way after a handler.
LEMMA Queueing ==
    ASSUME TypeOK, NEW c, NEW transactions \in Seq(SUBSET Rows), Handle(c, transactions)
    PROVE  /\ Len(queue) \in Nat /\ Len(transactions) \in Nat
           /\ Len(queue') = Len(queue) + Len(transactions)
           /\ \A n \in 1..Len(queue) : queue'[n] = queue[n]
           /\ \A n \in Len(queue) + 1..Len(queue) + Len(transactions) :
                 queue'[n] = Restrict(mem', transactions[n - Len(queue)])
<1>1. DOMAIN transactions = 1..Len(transactions) /\ Len(transactions) \in Nat
  BY LenProperties
<1>2. PICK d : d = [n \in 1..Len(transactions) |-> Restrict(mem', transactions[n])]
  OBVIOUS
<1>3. queue' = queue \o d
  BY <1>1, <1>2 DEF Handle
<1>4. d \in Seq(Range(d)) /\ Len(d) = Len(transactions)
  <2>1. \A n \in 1..Len(transactions) : d[n] \in Range(d)
    BY <1>2 DEF Range
  <2>2. d \in Seq(Range(d))
    BY <1>1, <1>2, <2>1, IsASeq
  <2>3. DOMAIN d = 1..Len(d) /\ Len(d) \in Nat
    BY <2>2, LenProperties
  <2>. QED
    BY <1>1, <1>2, <2>2, <2>3
<1>5. PICK T : T = Range(queue) \cup Range(d)
  OBVIOUS
<1>6. queue \in Seq(T) /\ d \in Seq(T)
  BY <1>4, <1>5, SeqMonotonic DEF TypeOK
<1>7. /\ Len(queue') = Len(queue) + Len(d) /\ Len(queue) \in Nat
      /\ \A n \in 1..Len(queue) + Len(d) :
            queue'[n] = IF n <= Len(queue) THEN queue[n] ELSE d[n - Len(queue)]
  BY <1>3, <1>6, ConcatProperties, LenProperties
<1>. QED
  BY <1>1, <1>2, <1>4, <1>7

\* The memory is a table with all rows, before and after a handler.
LEMMA MemoryFull ==
    ASSUME MoneyInv, TypeOK
    PROVE  Full(mem) /\ Shaped(mem)
<1>1. Len(queue) \in Nat
  BY LenProperties DEF TypeOK
<1>. QED
  BY <1>1 DEF MoneyInv, Path

LEMMA HandledFull ==
    ASSUME TypeOK, TypeOK', NEW c, NEW transactions, Handle(c, transactions)
    PROVE  /\ Full(mem') /\ DOMAIN c \subseteq Rows
           /\ \A r \in Rows : mem'[r] = IF r \in DOMAIN c THEN c[r] ELSE mem[r]
<1>1. mem' = [r \in DOMAIN c \cup DOMAIN mem |-> IF r \in DOMAIN c THEN c[r] ELSE mem[r]]
  BY DEF Handle, @@
<1>2. DOMAIN mem' = Rows /\ Typed(mem') /\ DOMAIN mem = Rows
  BY DEF TypeOK, Typed
<1>3. DOMAIN c \cup DOMAIN mem = Rows
  BY <1>1, <1>2
<1>4. PICK u : u = mem'
  OBVIOUS
<1>5. u = [r \in Rows |-> u[r]] /\ \A r \in Rows : u[r] = IF r \in DOMAIN c THEN c[r] ELSE mem[r]
  BY <1>1, <1>3, <1>4
<1>. QED
  BY <1>2, <1>3, <1>4, <1>5 DEF Full

(* A handler keeps the path if after each of its transactions the players  *)
(* own no less than when all of them are executed.                         *)
LEMMA HandledPath ==
    ASSUME TypeOK, TypeOK', MoneyInv, NEW c, NEW transactions \in Seq(SUBSET Rows),
           Handle(c, transactions), Shaped(mem'),
           DOMAIN c \subseteq Written(transactions, Len(transactions)),
           \A n \in 0..Len(transactions) :
               Wealth(Stage(mem, mem', Written(transactions, n)), Bidders) >= Wealth(mem', Bidders)
    PROVE  MoneyInv'
<1>1. PICK h : Path(h, queue, disk, mem, Wealth(mem, Bidders))
  BY DEF MoneyInv
<1>2. PICK t, u, k, l : t = mem /\ u = mem' /\ k = Len(queue) /\ l = Len(transactions)
  OBVIOUS
<1>. DEFINE R(n) == Written(transactions, n - k)
<1>3. /\ k \in Nat /\ l \in Nat /\ Len(queue') = k + l
      /\ \A n \in 1..k : queue'[n] = queue[n]
      /\ \A n \in k + 1..k + l : queue'[n] = Restrict(u, transactions[n - k])
  BY <1>2, Queueing
<1>4. Full(t) /\ Shaped(t) /\ Full(u) /\ Shaped(u)
  BY <1>2, MemoryFull, HandledFull
<1>5. PICK g : g = [n \in 0..k + l |-> IF n <= k THEN h[n] ELSE Stage(t, u, R(n))]
  OBVIOUS
<1>6. \A n \in 0..k : g[n] = h[n]
  BY <1>3, <1>5
<1>7. \A n \in k..k + l : g[n] = Stage(t, u, R(n))
  <2>1. Stage(t, u, R(k)) = t
    <3>1. R(k) = {}
      BY <1>3 DEF Written
    <3>. QED
      BY <1>4, <3>1, StageNone
  <2>2. h[k] = t
    BY <1>1, <1>2 DEF Path
  <2>. QED
    BY <1>3, <1>5, <2>1, <2>2
<1>8. g[0] = disk' /\ g[k + l] = u
  <2>1. g[0] = disk'
    BY <1>1, <1>3, <1>6 DEF Path, Handle
  <2>2. \A r \in Rows \ R(k + l) : u[r] = t[r]
    <3>1. R(k + l) = Written(transactions, l)
      BY <1>3
    <3>. QED
      BY <1>2, <3>1, HandledFull
  <2>3. Stage(t, u, R(k + l)) = u
    <3>1. PICK Q : Q = R(k + l)
      OBVIOUS
    <3>3. Full(t) /\ Full(u) /\ \A r \in Rows \ Q : u[r] = t[r]
      BY <1>4, <2>2, <3>1
    <3>. HIDE DEF R
    <3>2. Stage(t, u, Q) = u
      BY <3>3, StageAll
    <3>. QED
      BY <3>1, <3>2
  <2>. QED
    BY <1>3, <1>7, <2>1, <2>3
<1>9. \A n \in 1..k + l : g[n] = queue'[n] @@ g[n - 1]
  <2>. SUFFICES ASSUME NEW n \in 1..k + l PROVE g[n] = queue'[n] @@ g[n - 1]
    OBVIOUS
  <2>1. CASE n <= k
    BY <1>1, <1>2, <1>3, <1>6, <2>1 DEF Path
  <2>2. CASE n > k
    <3>1. n \in k + 1..k + l /\ n - 1 \in k..k + l /\ n - k \in 1..l /\ n - 1 - k = n - k - 1
      BY <1>3, <2>2
    <3>2. R(n) = R(n - 1) \cup transactions[n - k] /\ transactions[n - k] \in SUBSET Rows
      BY <1>2, <3>1, WrittenNext, ElementOfSeq
    <3>. HIDE DEF R
    <3>3. Restrict(u, transactions[n - k]) @@ Stage(t, u, R(n - 1)) = Stage(t, u, R(n))
      BY <1>4, <3>2, StageNext
    <3>. QED
      BY <1>3, <1>7, <3>1, <3>3
  <2>. QED
    BY <1>3, <2>1, <2>2
<1>10. \A n \in 0..k + l : Full(g[n]) /\ Shaped(g[n]) /\ Wealth(g[n], Bidders) >= Wealth(u, Bidders)
  <2>. SUFFICES ASSUME NEW n \in 0..k + l
                PROVE  Full(g[n]) /\ Shaped(g[n]) /\ Wealth(g[n], Bidders) >= Wealth(u, Bidders)
    OBVIOUS
  <2>1. CASE n <= k
    <3>1. Full(h[n]) /\ Shaped(h[n]) /\ Wealth(h[n], Bidders) >= Wealth(t, Bidders)
      BY <1>1, <1>2, <1>3, <2>1 DEF Path
    <3>2. Wealth(t, Bidders) >= Wealth(u, Bidders)
      <4>1. Wealth(Stage(t, u, Written(transactions, 0)), Bidders) >= Wealth(u, Bidders)
        BY <1>2, <1>3
      <4>2. Written(transactions, 0) = {}
        BY DEF Written
      <4>. QED
        BY <1>4, <4>1, <4>2, StageNone
    <3>3. Wealth(h[n], Bidders) \in Nat /\ Wealth(t, Bidders) \in Nat /\ Wealth(u, Bidders) \in Nat
      BY <1>4, <3>1, WealthParts
    <3>4. g[n] = h[n]
      BY <1>3, <1>6, <2>1
    <3>. QED
      BY <3>1, <3>2, <3>3, <3>4
  <2>2. CASE n > k
    <3>1. n - k \in 0..l /\ g[n] = Stage(t, u, R(n))
      BY <1>3, <1>7, <2>2
    <3>2. Wealth(Stage(t, u, R(n)), Bidders) >= Wealth(u, Bidders)
      BY <1>2, <3>1
    <3>3. Full(Stage(t, u, R(n)))
      BY <1>4, StageFull
    <3>4. Shaped(Stage(t, u, R(n)))
      BY <1>4, RowsAreRows DEF Shaped, Stage
    <3>. QED
      BY <3>1, <3>2, <3>3, <3>4
  <2>. QED
    BY <1>3, <2>1, <2>2
<1>11. Path(g, queue', disk', u, Wealth(u, Bidders))
  BY <1>3, <1>8, <1>9, <1>10 DEF Path
<1>12. Path(g, queue', disk', mem', Wealth(mem', Bidders))
  BY <1>2, <1>11
<1>. QED
  BY <1>12 DEF MoneyInv, Path

-----------------------------------------------------------------------------
(* What a handler of the auction house does to the money.                  *)

\* It writes an auction, a purse and at most two new letters.
Deal(p, a, lot, gold, one, two) ==
    /\ mem'[Lot(a)] = lot /\ mem'[Purse(p)] = gold /\ mem'[First] = one /\ mem'[Second] = two
    /\ \A q \in Bidders \ {p} : mem'[Purse(q)] = mem[Purse(q)]
    /\ \A b \in Lots \ {a} : mem'[Lot(b)] = mem[Lot(b)]
    /\ \A k \in Letters \ {FirstId, SecondId} : mem'[Letter(k)] = mem[Letter(k)]

\* What the players S gain by it.
Gain(p, a, lot, gold, one, two, S) ==
    Own(S, p, gold - mem[Purse(p)]) + (InLot(lot, S) - InLot(mem[Lot(a)], S))
    + InLetter(one, S) + InLetter(two, S)

LEMMA FreeMails ==
    ASSUME Ready
    PROVE  /\ FirstId \in Letters /\ SecondId \in Letters /\ FirstId # SecondId
           /\ mem[First] = None /\ mem[Second] = None
<1>1. FreeLetters # {} /\ \A x : FreeLetters # {x}
  <2>1. Cardinality(FreeLetters) >= 2 BY DEF Ready
  <2>2. Cardinality({}) = 0 BY FS_EmptySet
  <2>3. \A x : Cardinality({x}) = 1 BY FS_Singleton
  <2>4. QED BY <2>1, <2>2, <2>3
<1>2. FirstId \in FreeLetters
  BY <1>1 DEF FirstId
<1>3. FreeLetters \ {FirstId} # {}
  BY <1>1, <1>2
<1>4. SecondId \in FreeLetters \ {FirstId}
  BY <1>3 DEF SecondId
<1>. QED
  BY <1>2, <1>4 DEF FreeLetters, First, Second

LEMMA DealNat ==
    ASSUME Full(mem), Full(mem'), Ready, NEW p \in Bidders, NEW a \in Lots, NEW lot, NEW gold,
           NEW one, NEW two, Deal(p, a, lot, gold, one, two), NEW S \in SUBSET Bidders
    PROVE  /\ gold \in Nat /\ mem[Purse(p)] \in Nat
           /\ InLot(lot, S) \in Nat /\ InLot(mem[Lot(a)], S) \in Nat
           /\ InLetter(one, S) \in Nat /\ InLetter(two, S) \in Nat /\ Wealth(mem, S) \in Nat
           /\ Gain(p, a, lot, gold, one, two, S) \in Int
<1>1. gold \in Nat /\ mem[Purse(p)] \in Nat
  BY FullRows DEF Deal
<1>2. lot = None \/ lot \in LotRecords
  BY FullRows DEF Deal
<1>3. mem[Lot(a)] = None \/ mem[Lot(a)] \in LotRecords
  BY FullRows
<1>4. /\ one = None \/ one \in LetterRecords
      /\ two = None \/ two \in LetterRecords
  BY FreeMails, FullRows DEF Deal, First, Second
<1>5. /\ InLot(lot, S) \in Nat /\ InLot(mem[Lot(a)], S) \in Nat
      /\ InLetter(one, S) \in Nat /\ InLetter(two, S) \in Nat
  BY <1>2, <1>3, <1>4, InNat
<1>. QED
  BY <1>1, <1>5, WealthParts DEF Gain, Own

LEMMA DealStage ==
    ASSUME Full(mem), Full(mem'), Ready, NEW p \in Bidders, NEW a \in Lots, NEW lot, NEW gold,
           NEW one, NEW two, Deal(p, a, lot, gold, one, two), NEW S \in SUBSET Bidders, NEW R
    PROVE  Wealth(Stage(mem, mem', R), S) =
              Wealth(mem, S) + Part(R, Purse(p), Own(S, p, gold - mem[Purse(p)]))
              + Part(R, Lot(a), InLot(lot, S) - InLot(mem[Lot(a)], S))
              + Part(R, First, InLetter(one, S)) + Part(R, Second, InLetter(two, S))
<1>1. PICK t, u : t = mem /\ u = mem'
  OBVIOUS
<1>2. PICK m \in Letters, n \in Letters : m = FirstId /\ n = SecondId /\ m # n
  BY FreeMails
<1>3. /\ t[Letter(m)] = None /\ t[Letter(n)] = None /\ First = Letter(m) /\ Second = Letter(n)
  BY <1>1, <1>2, FreeMails DEF First, Second
<1>4. /\ \A q \in Bidders \ {p} : u[Purse(q)] = t[Purse(q)]
      /\ \A b \in Lots \ {a} : u[Lot(b)] = t[Lot(b)]
      /\ \A k \in Letters \ {m, n} : u[Letter(k)] = t[Letter(k)]
      /\ u[Lot(a)] = lot /\ u[Purse(p)] = gold /\ u[Letter(m)] = one /\ u[Letter(n)] = two
  BY <1>1, <1>2, <1>3 DEF Deal
<1>5. Full(t) /\ Full(u)
  BY <1>1
<1>6. Wealth(Stage(t, u, R), S) =
         Wealth(t, S) + Part(R, Purse(p), Own(S, p, u[Purse(p)] - t[Purse(p)]))
         + Part(R, Lot(a), InLot(u[Lot(a)], S) - InLot(t[Lot(a)], S))
         + Part(R, Letter(m), InLetter(u[Letter(m)], S) - InLetter(t[Letter(m)], S))
         + Part(R, Letter(n), InLetter(u[Letter(n)], S) - InLetter(t[Letter(n)], S))
  BY <1>2, <1>4, <1>5, StageWealth
<1>7. InLetter(one, S) \in Nat /\ InLetter(two, S) \in Nat /\ InLetter(None, S) = 0
  <2>1. u[Letter(m)] = one /\ u[Letter(n)] = two
    BY <1>4
  <2>. QED
    BY <1>5, <2>1, FullRows, InNat
<1>8. /\ InLetter(u[Letter(m)], S) - InLetter(t[Letter(m)], S) = InLetter(one, S)
      /\ InLetter(u[Letter(n)], S) - InLetter(t[Letter(n)], S) = InLetter(two, S)
  BY <1>3, <1>4, <1>7
<1>9. Wealth(Stage(t, u, R), S) =
         Wealth(t, S) + Part(R, Purse(p), Own(S, p, gold - t[Purse(p)]))
         + Part(R, Lot(a), InLot(lot, S) - InLot(t[Lot(a)], S))
         + Part(R, First, InLetter(one, S)) + Part(R, Second, InLetter(two, S))
  BY <1>3, <1>4, <1>6, <1>8
<1>. QED
  BY <1>1, <1>9

LEMMA DealWealth ==
    ASSUME Full(mem), Full(mem'), Ready, NEW p \in Bidders, NEW a \in Lots, NEW lot, NEW gold,
           NEW one, NEW two, Deal(p, a, lot, gold, one, two), NEW S \in SUBSET Bidders
    PROVE  Wealth(mem', S) = Wealth(mem, S) + Gain(p, a, lot, gold, one, two, S)
<1>1. PICK u : u = Stage(mem, mem', Rows) /\ u = mem'
  BY StageAll
<1>2. Purse(p) \in Rows /\ Lot(a) \in Rows /\ First \in Rows /\ Second \in Rows
  BY FreeMails, RowsAreRows DEF First, Second
<1>3. Wealth(u, S) =
         Wealth(mem, S) + Own(S, p, gold - mem[Purse(p)])
         + (InLot(lot, S) - InLot(mem[Lot(a)], S)) + InLetter(one, S) + InLetter(two, S)
  <2>1. Wealth(Stage(mem, mem', Rows), S) =
           Wealth(mem, S) + Part(Rows, Purse(p), Own(S, p, gold - mem[Purse(p)]))
           + Part(Rows, Lot(a), InLot(lot, S) - InLot(mem[Lot(a)], S))
           + Part(Rows, First, InLetter(one, S)) + Part(Rows, Second, InLetter(two, S))
    BY DealStage
  <2>. QED
    BY <1>1, <1>2, <2>1 DEF Part
<1>4. /\ Own(S, p, gold - mem[Purse(p)]) \in Int
      /\ InLot(lot, S) - InLot(mem[Lot(a)], S) \in Int
      /\ InLetter(one, S) \in Int /\ InLetter(two, S) \in Int /\ Wealth(mem, S) \in Nat
  BY DealNat DEF Own
<1>. QED
  BY <1>1, <1>3, <1>4 DEF Gain

\* Its transactions write the purse with the auction, and neither before the letter
\* with money.
Orderly(p, a, gold, one, transactions) ==
    /\ \A n \in 1..Len(transactions) : Purse(p) \in transactions[n] => Lot(a) \in transactions[n]
    /\ \A n \in 1..Len(transactions) : Lot(a) \in transactions[n] =>
           /\ Purse(p) \in transactions[n] \/ gold = mem[Purse(p)]
           /\ InLetter(one, Bidders) = 0 \/ \E k \in 1..n : First \in transactions[k]

\* A deal that is orderly keeps the path if together the players gain nothing.
LEMMA DealPath ==
    ASSUME TypeOK, TypeOK', MoneyInv, Ready, NEW p \in Bidders, NEW a \in Lots, NEW lot, NEW gold,
           NEW one, NEW two, Deal(p, a, lot, gold, one, two),
           NEW c, NEW transactions \in Seq(SUBSET Rows), Handle(c, transactions),
           DOMAIN c \subseteq Written(transactions, Len(transactions)), Shape(lot),
           Gain(p, a, lot, gold, one, two, Bidders) <= 0, InLetter(two, Bidders) = 0,
           Orderly(p, a, gold, one, transactions)
    PROVE  MoneyInv'
<1>. /\ \A n \in 1..Len(transactions) : Purse(p) \in transactions[n] => Lot(a) \in transactions[n]
     /\ \A n \in 1..Len(transactions) : Lot(a) \in transactions[n] =>
            /\ Purse(p) \in transactions[n] \/ gold = mem[Purse(p)]
            /\ InLetter(one, Bidders) = 0 \/ \E k \in 1..n : First \in transactions[k]
  BY DEF Orderly
<1>1. Full(mem) /\ Shaped(mem) /\ Full(mem')
  BY MemoryFull, HandledFull
<1>2. Shaped(mem')
  <2>. SUFFICES ASSUME NEW b \in Lots PROVE Shape(mem'[Lot(b)])
    BY DEF Shaped, Shape
  <2>1. CASE b = a
    BY <2>1 DEF Deal
  <2>2. CASE b # a
    BY <1>1, <2>2 DEF Deal, Shaped
  <2>. QED
    BY <2>1, <2>2
<1>3. Wealth(mem', Bidders) = Wealth(mem, Bidders) + Gain(p, a, lot, gold, one, two, Bidders)
  BY <1>1, DealWealth
<1>4. /\ Own(Bidders, p, gold - mem[Purse(p)]) = gold - mem[Purse(p)]
      /\ gold \in Nat /\ mem[Purse(p)] \in Nat
      /\ InLot(lot, Bidders) \in Nat /\ InLot(mem[Lot(a)], Bidders) \in Nat
      /\ InLetter(one, Bidders) \in Nat /\ Wealth(mem, Bidders) \in Nat
  BY <1>1, DealNat DEF Own
<1>5. Purse(p) \in Rows /\ Lot(a) \in Rows /\ First \in Rows
  BY FreeMails, RowsAreRows DEF First
<1>6. ASSUME NEW n \in 0..Len(transactions)
      PROVE  Wealth(Stage(mem, mem', Written(transactions, n)), Bidders) >= Wealth(mem', Bidders)
  <2>1. PICK R : R = Written(transactions, n)
    OBVIOUS
  <2>2. Wealth(Stage(mem, mem', R), Bidders) =
           Wealth(mem, Bidders) + Part(R, Purse(p), Own(Bidders, p, gold - mem[Purse(p)]))
           + Part(R, Lot(a), InLot(lot, Bidders) - InLot(mem[Lot(a)], Bidders))
           + Part(R, First, InLetter(one, Bidders)) + Part(R, Second, InLetter(two, Bidders))
    BY <1>1, DealStage
  <2>3. Part(R, Second, InLetter(two, Bidders)) = 0
    BY DEF Part
  <2>4. Len(transactions) \in Nat /\ \A i \in 1..n : i \in 1..Len(transactions)
    BY LenProperties
  <2>5. /\ Purse(p) \in R => Lot(a) \in R
        /\ Lot(a) \in R => Purse(p) \in R \/ gold = mem[Purse(p)]
        /\ Lot(a) \in R => First \in R \/ InLetter(one, Bidders) = 0
    <3>1. \A r \in Rows : r \in R <=> \E i \in 1..n : r \in transactions[i]
      BY <2>1 DEF Written
    <3>2. Purse(p) \in R => Lot(a) \in R
      BY <1>5, <2>4, <3>1
    <3>3. Lot(a) \in R => Purse(p) \in R \/ gold = mem[Purse(p)]
      BY <1>5, <2>4, <3>1
    <3>4. Lot(a) \in R => First \in R \/ InLetter(one, Bidders) = 0
      <4>. SUFFICES ASSUME Lot(a) \in R, InLetter(one, Bidders) # 0 PROVE First \in R
        OBVIOUS
      <4>1. PICK i \in 1..n : Lot(a) \in transactions[i]
        BY <1>5, <3>1
      <4>2. PICK k \in 1..i : First \in transactions[k]
        BY <2>4, <4>1
      <4>. QED
        BY <1>5, <3>1, <4>1, <4>2
    <3>. QED
      BY <3>2, <3>3, <3>4
  <2>6. CASE Lot(a) \in R
    <3>a. Part(R, Lot(a), InLot(lot, Bidders) - InLot(mem[Lot(a)], Bidders))
            = InLot(lot, Bidders) - InLot(mem[Lot(a)], Bidders)
      BY <2>6 DEF Part
    <3>b. Part(R, First, InLetter(one, Bidders)) = InLetter(one, Bidders)
      BY <2>5, <2>6 DEF Part
    <3>c. Part(R, Purse(p), Own(Bidders, p, gold - mem[Purse(p)])) = gold - mem[Purse(p)]
      BY <1>4, <2>5, <2>6 DEF Part
    <3>1. Wealth(Stage(mem, mem', R), Bidders) =
             Wealth(mem, Bidders) + (gold - mem[Purse(p)])
             + (InLot(lot, Bidders) - InLot(mem[Lot(a)], Bidders)) + InLetter(one, Bidders)
      BY <1>4, <2>2, <2>3, <3>a, <3>b, <3>c
    <3>2. Gain(p, a, lot, gold, one, two, Bidders) =
             (gold - mem[Purse(p)]) + (InLot(lot, Bidders) - InLot(mem[Lot(a)], Bidders))
             + InLetter(one, Bidders)
      BY <1>4 DEF Gain
    <3>3. Wealth(Stage(mem, mem', R), Bidders) = Wealth(mem', Bidders)
      BY <1>3, <1>4, <3>1, <3>2
    <3>4. Wealth(mem', Bidders) \in Nat
      BY <1>1, WealthParts
    <3>. QED
      BY <2>1, <3>3, <3>4
  <2>7. CASE Lot(a) \notin R
    <3>1. Wealth(Stage(mem, mem', R), Bidders) >= Wealth(mem, Bidders)
      BY <1>4, <2>2, <2>3, <2>5, <2>7 DEF Part
    <3>2. Gain(p, a, lot, gold, one, two, Bidders) \in Int
      BY <1>4 DEF Gain
    <3>3. Wealth(Stage(mem, mem', R), Bidders) \in Nat
      BY <1>1, StageFull, WealthParts
    <3>. QED
      BY <1>3, <1>4, <2>1, <3>1, <3>2, <3>3
  <2>. QED
    BY <2>6, <2>7
<1>. QED
  BY <1>2, <1>6, HandledPath

\* FairDeal, for one step of a server that runs.
Fair == \A q \in Players :
    LET gain == Wealth(mem', {q}) - Wealth(mem, {q})
    IN  (gain < 0 => GetsItem(q)) /\ (gain > 0 => Sells(q, gain))

LEMMA DealFair ==
    ASSUME Full(mem), Full(mem'), Ready, NEW p \in Bidders, NEW a \in Lots, NEW lot, NEW gold,
           NEW one, NEW two, Deal(p, a, lot, gold, one, two),
           \A q \in Players :
               /\ Gain(p, a, lot, gold, one, two, {q}) < 0 => GetsItem(q)
               /\ Gain(p, a, lot, gold, one, two, {q}) > 0 =>
                      Sells(q, Gain(p, a, lot, gold, one, two, {q}))
    PROVE  Fair
<1>. SUFFICES ASSUME NEW q \in Players
              PROVE  LET gain == Wealth(mem', {q}) - Wealth(mem, {q})
                     IN  (gain < 0 => GetsItem(q)) /\ (gain > 0 => Sells(q, gain))
  BY DEF Fair
<1>1. PICK g : g = Gain(p, a, lot, gold, one, two, {q})
  OBVIOUS
<1>2. {q} \in SUBSET Bidders
  BY DEF Bidders
<1>3. Wealth(mem', {q}) = Wealth(mem, {q}) + g
  BY <1>1, <1>2, DealWealth
<1>4. Wealth(mem', {q}) \in Nat /\ Wealth(mem, {q}) \in Nat
  BY <1>2, WealthParts
<1>5. g \in Int
  BY <1>1, <1>2, DealNat
<1>6. Wealth(mem', {q}) - Wealth(mem, {q}) = g
  BY <1>3, <1>4, <1>5
<1>. QED
  BY <1>1, <1>6

-----------------------------------------------------------------------------
(* Changes row by row.                                                     *)

\* A row after a change.
At(c, r) == IF r \in DOMAIN c THEN c[r] ELSE mem[r]

\* A change is a deal when it has no other purse, auction or letter.
Narrow(c, p, a) == \A r \in DOMAIN c :
    r = Lot(a) \/ r = Purse(p) \/ r = First \/ r = Second \/ \E q : r = Bag(q)

LEMMA DealIs ==
    ASSUME TypeOK, TypeOK', Ready, NEW p \in Bidders, NEW a \in Lots,
           NEW c, NEW transactions, Handle(c, transactions), Narrow(c, p, a)
    PROVE  Deal(p, a, At(c, Lot(a)), At(c, Purse(p)), At(c, First), At(c, Second))
<1>1. \A r \in Rows : mem'[r] = At(c, r)
  BY HandledFull DEF At
<1>2. Lot(a) \in Rows /\ Purse(p) \in Rows
  BY RowsAreRows
<1>3. First = Letter(FirstId) /\ Second = Letter(SecondId)
  BY DEF First, Second
<1>4. First \in Rows /\ Second \in Rows
  BY <1>3, FreeMails, RowsAreRows
<1>5. ASSUME NEW q \in Bidders \ {p} PROVE mem'[Purse(q)] = mem[Purse(q)]
  <2>1. Purse(q) \in Rows
    BY RowsAreRows
  <2>2. Purse(q) # Lot(a) /\ Purse(q) # Purse(p) /\ \A b : Purse(q) # Bag(b)
    BY <1>5, RowsDiffer
  <2>3. Purse(q) # First /\ Purse(q) # Second
    BY <1>3, RowsDiffer
  <2>4. Purse(q) \notin DOMAIN c
    BY <2>2, <2>3 DEF Narrow
  <2>. QED
    BY <1>1, <2>1, <2>4 DEF At
<1>6. ASSUME NEW b \in Lots \ {a} PROVE mem'[Lot(b)] = mem[Lot(b)]
  <2>1. Lot(b) \in Rows
    BY RowsAreRows
  <2>2. Lot(b) # Lot(a) /\ Lot(b) # Purse(p) /\ \A q : Lot(b) # Bag(q)
    BY <1>6, RowsDiffer
  <2>3. Lot(b) # First /\ Lot(b) # Second
    BY <1>3, RowsDiffer
  <2>4. Lot(b) \notin DOMAIN c
    BY <2>2, <2>3 DEF Narrow
  <2>. QED
    BY <1>1, <2>1, <2>4 DEF At
<1>7. ASSUME NEW k \in Letters \ {FirstId, SecondId} PROVE mem'[Letter(k)] = mem[Letter(k)]
  <2>1. Letter(k) \in Rows
    BY RowsAreRows
  <2>2. Letter(k) # Lot(a) /\ Letter(k) # Purse(p) /\ \A q : Letter(k) # Bag(q)
    BY RowsDiffer
  <2>3. Letter(k) # First /\ Letter(k) # Second
    BY <1>3, <1>7, RowsDiffer
  <2>4. Letter(k) \notin DOMAIN c
    BY <2>2, <2>3 DEF Narrow
  <2>. QED
    BY <1>1, <2>1, <2>4 DEF At
<1>. QED
  BY <1>1, <1>2, <1>4, <1>5, <1>6, <1>7 DEF Deal

\* The lists of one, two and three transactions.
LEMMA WrittenBy ==
    /\ \A x \in SUBSET Rows : Written(<<x>>, Len(<<x>>)) = x
    /\ \A x, y \in SUBSET Rows : Written(<<x, y>>, Len(<<x, y>>)) = x \cup y
    /\ \A x, y, z \in SUBSET Rows : Written(<<x, y, z>>, Len(<<x, y, z>>)) = x \cup y \cup z
BY DEF Written

\* The money of an auction.
LEMMA LotMoney ==
    ASSUME NEW lot \in LotRecords, NEW S
    PROVE  /\ lot # None
           /\ lot.bid \in Nat /\ Deposit \in Nat /\ GetAuctionCut(lot.bid) \in 0..lot.bid
           /\ InLot(lot, S) = Own(S, lot.owner, Deposit)
                 + (IF lot.pending THEN Own(S, lot.owner, lot.bid - GetAuctionCut(lot.bid))
                    ELSE Own(S, lot.bidder, lot.bid))
<1>1. lot # None
  BY NoneIsNoRecord
<1>2. lot.bid \in Nat
  BY DEF LotRecords
<1>. QED
  BY <1>1, <1>2, Cut, AuctionAssumption DEF InLot

LEMMA SellMoney ==
    ASSUME TypeOK, TypeOK', MoneyInv, NEW p \in Players, NEW i \in Items, NEW startbid \in StartBids,
           NEW buyout \in Buyouts, HandleAuctionSellItem(p, i, startbid, buyout)
    PROVE  MoneyInv' /\ Fair
<1>1. PICK a : a \in FreeLots /\ a = CHOOSE x \in FreeLots : TRUE
  BY DEF HandleAuctionSellItem
<1>2. PICK lot : lot = [owner |-> p, item |-> i, startbid |-> startbid, buyout |-> buyout,
                        bid |-> 0, bidder |-> Nobody, pending |-> FALSE]
  OBVIOUS
<1>3. PICK bag, gold : bag = mem[Bag(p)] \ {i} /\ gold = mem[Purse(p)] - Deposit
  OBVIOUS
<1>4. PICK c1, k2, k3 : c1 = Bag(p) :> bag /\ k2 = Lot(a) :> lot /\ k3 = Purse(p) :> gold
  OBVIOUS
<1>5. PICK c2 : c2 = c1 @@ k2
  OBVIOUS
<1>6. PICK c : c = c2 @@ k3
  OBVIOUS
<1>7. PICK tx, transactions : tx = {Lot(a)} \cup Saved(p) /\ transactions = <<tx>>
  OBVIOUS
<1>8. Handle(c, transactions) /\ Ready
  BY <1>1, <1>2, <1>3, <1>4, <1>5, <1>6, <1>7 DEF HandleAuctionSellItem
<1>9. /\ DOMAIN c1 = {Bag(p)}
      /\ DOMAIN k2 = {Lot(a)} /\ k2[Lot(a)] = lot
      /\ DOMAIN k3 = {Purse(p)} /\ k3[Purse(p)] = gold
  BY <1>4 DEF :>
<1>10. /\ DOMAIN c2 = DOMAIN c1 \cup DOMAIN k2
       /\ \A r \in DOMAIN k2 \ DOMAIN c1 : c2[r] = k2[r]
  BY <1>5 DEF @@
<1>11. DOMAIN c = {Bag(p), Lot(a), Purse(p)} /\ c[Lot(a)] = lot /\ c[Purse(p)] = gold
  <2>1. /\ DOMAIN c = DOMAIN c2 \cup DOMAIN k3
        /\ \A r \in DOMAIN c2 : c[r] = c2[r]
        /\ \A r \in DOMAIN k3 \ DOMAIN c2 : c[r] = k3[r]
    BY <1>6 DEF @@
  <2>2. Lot(a) # Bag(p) /\ Purse(p) # Bag(p) /\ Purse(p) # Lot(a)
    BY RowsDiffer
  <2>. QED
    BY <1>9, <1>10, <2>1, <2>2
<1>12. a \in Lots /\ mem[Lot(a)] = None /\ p \in Bidders /\ p # Nobody
  BY <1>1, AuctionAssumption DEF FreeLots, Bidders
<1>13. Deal(p, a, lot, gold, None, None)
  <2>1. Narrow(c, p, a)
    BY <1>11 DEF Narrow
  <2>2. Deal(p, a, At(c, Lot(a)), At(c, Purse(p)), At(c, First), At(c, Second))
    BY <1>8, <1>12, <2>1, DealIs
  <2>3. First = Letter(FirstId) /\ Second = Letter(SecondId)
    BY DEF First, Second
  <2>4. First \notin DOMAIN c /\ Second \notin DOMAIN c
    BY <1>11, <2>3, RowsDiffer
  <2>5. At(c, First) = None /\ At(c, Second) = None
    BY <1>8, <2>4, FreeMails DEF At
  <2>6. At(c, Lot(a)) = lot /\ At(c, Purse(p)) = gold
    BY <1>11 DEF At
  <2>. QED
    BY <2>2, <2>5, <2>6
<1>14. \A S \in SUBSET Bidders : Gain(p, a, lot, gold, None, None, S) = 0
  <2>. SUFFICES ASSUME NEW S \in SUBSET Bidders PROVE Gain(p, a, lot, gold, None, None, S) = 0
    OBVIOUS
  <2>1. lot \in LotRecords
    BY <1>2, AuctionAssumption DEF LotRecords, Bidders
  <2>2. InLot(lot, S) = Own(S, p, Deposit)
    BY <1>2, <2>1, LotMoney DEF Own
  <2>3. InLot(None, S) = 0 /\ InLetter(None, S) = 0
    BY InNat
  <2>4. mem[Purse(p)] \in Nat /\ Deposit \in Nat
    BY <1>12, Values, AuctionAssumption
  <2>. QED
    BY <1>3, <1>12, <2>2, <2>3, <2>4 DEF Gain, Own
<1>15. transactions \in Seq(SUBSET Rows) /\ DOMAIN c \subseteq Written(transactions, Len(transactions))
  <2>1. tx \in SUBSET Rows /\ DOMAIN c \subseteq tx
    BY <1>7, <1>11, <1>12, RowsAreRows DEF Saved
  <2>. QED
    BY <1>7, <2>1, WrittenBy
<1>16. MoneyInv'
  <2>1. Shape(lot)
    BY <1>2, AuctionAssumption DEF Shape
  <2>2. InLetter(None, Bidders) = 0 /\ Gain(p, a, lot, gold, None, None, Bidders) <= 0
    BY <1>14, InNat
  <2>3. \A n \in 1..Len(transactions) : Lot(a) \in transactions[n] /\ Purse(p) \in transactions[n]
    BY <1>7, <1>12 DEF Saved
  <2>4. Orderly(p, a, gold, None, transactions)
    BY <2>2, <2>3 DEF Orderly
  <2>. QED
    BY <1>8, <1>12, <1>13, <1>15, <2>1, <2>2, <2>4, DealPath
<1>17. Fair
  <2>1. Full(mem) /\ Full(mem')
    BY <1>8, MemoryFull, HandledFull
  <2>2. \A q \in Players : Gain(p, a, lot, gold, None, None, {q}) = 0
    BY <1>14 DEF Bidders
  <2>. QED
    BY <1>8, <1>12, <1>13, <2>1, <2>2, DealFair
<1>. QED
  BY <1>16, <1>17

-----------------------------------------------------------------------------
(* A bid.                                                                  *)

LEMMA CutGrows ==
    ASSUME NEW x \in Nat, NEW y \in Nat, x <= y
    PROVE  GetAuctionCut(x) <= GetAuctionCut(y)
<1>1. CutPercent \in Nat
  BY AuctionAssumption
<1>2. PICK d \in Nat : y = x + d
  <2>1. y - x \in Nat /\ y = x + (y - x)
    OBVIOUS
  <2>. QED
    BY <2>1
<1>3. d * CutPercent \in Nat /\ x * CutPercent \in Nat
  BY <1>1
<1>4. y * CutPercent = x * CutPercent + d * CutPercent
  BY <1>1, <1>2
<1>. QED
  BY <1>3, <1>4 DEF GetAuctionCut

\* The money of the letters of a bid.
Refunds(one, lot, p) ==
    \A S : InLetter(one, S) = IF Outbid(lot, p) THEN Own(S, lot.bidder, lot.bid) ELSE 0
NoMoney(two) == \A S : InLetter(two, S) = 0

\* The auction, the purse and the letters after a bid of p on auction a ...
Bids(p, a, after, gold, one, two) ==
    LET lot == mem[Lot(a)] IN
    /\ lot \in LotRecords /\ after \in LotRecords
    /\ after.owner = lot.owner /\ after.bidder = p
    /\ lot.pending => after.pending /\ lot.bid <= after.bid
    /\ gold = mem[Purse(p)] - Due(lot, p, after.bid)
    /\ Refunds(one, lot, p) /\ NoMoney(two)

\* ... and what it gains each player: what p pays is his until the auction is won, and
\* what the bidder before him gets is what he had paid.
Brings(p, after, q) ==
    (IF after.pending /\ q = p THEN 0 - after.bid ELSE 0)
    + (IF after.pending /\ q = after.owner THEN after.bid - GetAuctionCut(after.bid) ELSE 0)
Brought(p, a, after, gold, one, two) ==
    \A q \in Players : Gain(p, a, after, gold, one, two, {q}) = Brings(p, after, q)

LEMMA BidGain ==
    ASSUME TypeOK, NEW p \in Bidders, NEW a \in Lots, NEW after, NEW gold, NEW one, NEW two,
           Bids(p, a, after, gold, one, two)
    PROVE  /\ Gain(p, a, after, gold, one, two, Bidders) <= 0
           /\ ~mem[Lot(a)].pending => Brought(p, a, after, gold, one, two)
<1>. after \in LotRecords /\ mem[Lot(a)] \in LotRecords
  BY DEF Bids
<1>. PICK lot \in LotRecords, wins \in BOOLEAN : lot = mem[Lot(a)] /\ (wins <=> after.pending)
  OBVIOUS
<1>. /\ after.owner = lot.owner /\ after.bidder = p
     /\ lot.pending => after.pending /\ lot.bid <= after.bid
     /\ gold = mem[Purse(p)] - Due(lot, p, after.bid)
     /\ Refunds(one, lot, p) /\ NoMoney(two)
  BY DEF Bids
<1>1. /\ lot.owner \in Bidders /\ lot.bidder \in Bidders /\ lot.pending \in BOOLEAN
      /\ lot.owner # Nobody
  BY AuctionAssumption DEF LotRecords, Bidders
<1>2. PICK b, l, cb, cl, d, m : b = after.bid /\ l = lot.bid /\ cb = GetAuctionCut(after.bid)
          /\ cl = GetAuctionCut(lot.bid) /\ d = Deposit /\ m = mem[Purse(p)]
  OBVIOUS
<1>3. b \in Nat /\ l \in Nat /\ cb \in 0..b /\ cl \in 0..l /\ d \in Nat /\ m \in Nat
  BY <1>2, LotMoney, Values
<1>4. lot.pending => l <= b /\ cl <= cb
  BY <1>2, <1>3, CutGrows
<1>5. \A S : /\ InLot(after, S) = Own(S, lot.owner, d)
                 + (IF lot.pending \/ wins THEN Own(S, lot.owner, b - cb) ELSE Own(S, p, b))
             /\ InLot(lot, S) = Own(S, lot.owner, d)
                 + (IF lot.pending THEN Own(S, lot.owner, l - cl) ELSE Own(S, lot.bidder, l))
  BY <1>2, LotMoney
<1>6. \A S : Gain(p, a, after, gold, one, two, S) =
          Own(S, p, gold - m) + (InLot(after, S) - InLot(lot, S))
          + (IF Outbid(lot, p) THEN Own(S, lot.bidder, l) ELSE 0) + 0
  BY <1>2 DEF Gain, Refunds, NoMoney
<1>7. gold - m = IF p # Nobody /\ p = lot.bidder THEN l - b ELSE 0 - b
  BY <1>2, <1>3 DEF Due
<1>8. Outbid(lot, p) <=> lot.bidder # Nobody /\ lot.bidder # p
  BY DEF Outbid
<1>9. Gain(p, a, after, gold, one, two, Bidders) <= 0
  <2>1. /\ InLot(after, Bidders) = d + (IF lot.pending \/ wins THEN b - cb ELSE b)
        /\ InLot(lot, Bidders) = d + (IF lot.pending THEN l - cl ELSE l)
    BY <1>1, <1>5 DEF Own
  <2>2. Gain(p, a, after, gold, one, two, Bidders) =
            (gold - m) + (InLot(after, Bidders) - InLot(lot, Bidders))
            + (IF Outbid(lot, p) THEN l ELSE 0)
    <3>1. Own(Bidders, p, gold - m) = gold - m /\ Own(Bidders, lot.bidder, l) = l
      BY <1>1 DEF Own
    <3>2. gold - m \in Int /\ InLot(after, Bidders) - InLot(lot, Bidders) \in Int
      BY <1>3, <1>7, <2>1
    <3>. QED
      BY <1>3, <1>6, <3>1, <3>2
  <2>. QED
    BY <1>1, <1>3, <1>4, <1>7, <1>8, <2>1, <2>2
<1>10. ASSUME ~lot.pending, NEW q \in Players
       PROVE  Gain(p, a, after, gold, one, two, {q}) =
                 (IF wins /\ q = p THEN 0 - b ELSE 0)
                 + (IF wins /\ q = lot.owner THEN b - cb ELSE 0)
  <2>1. q # Nobody
    BY AuctionAssumption
  <2>2. InLot(after, {q}) = (IF q = lot.owner THEN d ELSE 0)
            + (IF wins THEN IF q = lot.owner THEN b - cb ELSE 0 ELSE IF q = p THEN b ELSE 0)
    BY <1>5, <1>10 DEF Own
  <2>3. InLot(lot, {q}) = (IF q = lot.owner THEN d ELSE 0) + (IF q = lot.bidder THEN l ELSE 0)
    BY <1>5, <1>10 DEF Own
  <2>4. Gain(p, a, after, gold, one, two, {q}) =
            (IF q = p THEN gold - m ELSE 0) + (InLot(after, {q}) - InLot(lot, {q}))
            + (IF Outbid(lot, p) THEN IF q = lot.bidder THEN l ELSE 0 ELSE 0) + 0
    BY <1>6 DEF Own
  <2>5. PICK o \in {0, d}, e \in {0, b - cb} :
             /\ o = IF q = lot.owner THEN d ELSE 0
             /\ e = IF q = lot.owner THEN b - cb ELSE 0
    OBVIOUS
  <2>6. o \in Int /\ e \in Int
    BY <1>3, <2>5
  <2>7. /\ InLot(after, {q}) = o + (IF wins THEN e ELSE IF q = p THEN b ELSE 0)
        /\ (IF wins /\ q = lot.owner THEN b - cb ELSE 0) = IF wins THEN e ELSE 0
    BY <2>2, <2>5
  <2>8. InLot(lot, {q}) = o + (IF q = lot.bidder THEN l ELSE 0)
    BY <2>3, <2>5
  <2>9. CASE q = p /\ q = lot.bidder
    BY <1>3, <1>7, <1>8, <2>1, <2>4, <2>6, <2>7, <2>8, <2>9
  <2>10. CASE q = p /\ q # lot.bidder
    BY <1>3, <1>7, <1>8, <2>1, <2>4, <2>6, <2>7, <2>8, <2>10
  <2>11. CASE q # p
    BY <1>3, <1>8, <2>1, <2>4, <2>6, <2>7, <2>8, <2>11
  <2>. QED
    BY <2>9, <2>10, <2>11
<1>. QED
  BY <1>2, <1>9, <1>10 DEF Brings, Brought

\* A new letter with an item is one.
LEMMA Sent ==
    ASSUME Ready, NEW q, NEW letter \in LetterRecords, letter.to = q, letter.item # None,
           letter = mem'[First] \/ letter = mem'[Second]
    PROVE  GetsItem(q)
<1>1. FirstId \in Letters /\ SecondId \in Letters /\ mem[First] = None /\ mem[Second] = None
  BY FreeMails
<1>2. First = Letter(FirstId) /\ Second = Letter(SecondId)
  BY DEF First, Second
<1>3. letter # None
  BY NoneIsNoRecord
<1>4. PICK k \in Letters : mem[Letter(k)] = None /\ mem'[Letter(k)] = letter
  <2>1. letter = mem'[First] => mem[Letter(FirstId)] = None /\ mem'[Letter(FirstId)] = letter
    BY <1>1, <1>2
  <2>2. letter = mem'[Second] => mem[Letter(SecondId)] = None /\ mem'[Letter(SecondId)] = letter
    BY <1>1, <1>2
  <2>. QED
    BY <1>1, <2>1, <2>2
<1>. QED
  BY <1>3, <1>4 DEF GetsItem

LEMMA UpdateBidMoney ==
    ASSUME TypeOK, TypeOK', MoneyInv, Ready, NEW p \in Bidders, NEW a \in Lots, mem[Lot(a)] # None,
           NEW newbid \in Nat, mem[Lot(a)].pending => newbid >= mem[Lot(a)].bid,
           UpdateBid(a, p, newbid)
    PROVE  MoneyInv' /\ (~mem[Lot(a)].pending /\ mem[Lot(a)].owner # p => Fair)
<1>1. PICK lot, new : lot = mem[Lot(a)] /\ new = Bid(mem[Lot(a)], p, newbid)
  OBVIOUS
<1>2. PICK out \in BOOLEAN, wins \in BOOLEAN, won \in BOOLEAN :
           /\ out <=> Outbid(lot, p)
           /\ wins <=> new.buyout # 0 /\ new.bid >= new.buyout
           /\ won <=> wins /\ Delivers(new)
  OBVIOUS
<1>3. PICK after, gold : after = (IF wins THEN Sold(new) ELSE new)
                         /\ gold = mem[Purse(p)] - Due(lot, p, new.bid)
  OBVIOUS
<1>4. PICK refund, item : refund = [to |-> lot.bidder, money |-> lot.bid, item |-> None]
                          /\ item = [to |-> new.bidder, money |-> 0, item |-> new.item]
  OBVIOUS
<1>5. PICK k1, k2, k3, k4 :
           /\ k1 = Lot(a) :> after /\ k2 = Purse(p) :> gold
           /\ k3 = IF out THEN First :> refund ELSE << >>
           /\ k4 = IF won THEN Second :> item ELSE << >>
  OBVIOUS
<1>6. PICK l, transactions :
           /\ l = {Lot(a)} \cup Saved(p)
           /\ transactions = (IF out THEN <<{First}>> ELSE << >>) \o <<l>>
                             \o (IF won THEN <<{Second}>> ELSE << >>)
  OBVIOUS
<1>7. PICK c : c = k1 @@ k2 @@ k3 @@ k4
  OBVIOUS
<1>8. Handle(c, transactions)
  BY <1>1, <1>2, <1>3, <1>4, <1>5, <1>6, <1>7 DEF UpdateBid, Refund, Delivery
<1>9. lot \in LotRecords /\ Shape(lot) /\ Full(mem) /\ Full(mem')
  BY <1>1, <1>8, Values, MemoryFull, HandledFull DEF Shaped
<1>10. /\ FirstId \in Letters /\ SecondId \in Letters /\ FirstId # SecondId
       /\ mem[First] = None /\ mem[Second] = None
  BY FreeMails
<1>11. /\ First \in Rows /\ Second \in Rows /\ Lot(a) \in Rows /\ l \in SUBSET Rows
       /\ First # Second /\ First # Lot(a) /\ First # Purse(p) /\ Second # Lot(a)
       /\ Second # Purse(p) /\ Lot(a) # Purse(p)
  <2>1. First = Letter(FirstId) /\ Second = Letter(SecondId)
    BY DEF First, Second
  <2>2. First \in Rows /\ Second \in Rows /\ Lot(a) \in Rows /\ Saved(p) \subseteq Rows
    BY <1>10, <2>1, RowsAreRows
  <2>3. First # Second /\ First # Lot(a) /\ First # Purse(p)
    BY <1>10, <2>1, RowsDiffer
  <2>4. Second # Lot(a) /\ Second # Purse(p) /\ Lot(a) # Purse(p)
    BY <2>1, RowsDiffer
  <2>. QED
    BY <1>6, <2>2, <2>3, <2>4
<1>12. PICK one, two : one = (IF out THEN refund ELSE None) /\ two = (IF won THEN item ELSE None)
  OBVIOUS
<1>13. /\ DOMAIN c = {Lot(a), Purse(p)} \cup (IF out THEN {First} ELSE {})
                      \cup (IF won THEN {Second} ELSE {})
       /\ At(c, Lot(a)) = after /\ At(c, Purse(p)) = gold
       /\ At(c, First) = one /\ At(c, Second) = two
  <2>1. /\ DOMAIN k1 = {Lot(a)} /\ k1[Lot(a)] = after
        /\ DOMAIN k2 = {Purse(p)} /\ k2[Purse(p)] = gold
    BY <1>5 DEF :>
  <2>2. DOMAIN k3 = (IF out THEN {First} ELSE {}) /\ (out => k3[First] = refund)
    BY <1>5 DEF :>
  <2>3. DOMAIN k4 = (IF won THEN {Second} ELSE {}) /\ (won => k4[Second] = item)
    BY <1>5 DEF :>
  <2>4. PICK c2 : c2 = k1 @@ k2
    OBVIOUS
  <2>5. PICK c3 : c3 = c2 @@ k3
    OBVIOUS
  <2>6. c = c3 @@ k4
    BY <1>7, <2>4, <2>5
  <2>7. /\ DOMAIN c2 = {Lot(a), Purse(p)} /\ c2[Lot(a)] = after /\ c2[Purse(p)] = gold
    BY <1>11, <2>1, <2>4 DEF @@
  <2>8. /\ DOMAIN c3 = {Lot(a), Purse(p)} \cup (IF out THEN {First} ELSE {})
        /\ c3[Lot(a)] = after /\ c3[Purse(p)] = gold /\ (out => c3[First] = refund)
    BY <1>11, <2>2, <2>5, <2>7 DEF @@
  <2>9. /\ DOMAIN c = DOMAIN c3 \cup DOMAIN k4
        /\ \A r \in DOMAIN c3 : c[r] = c3[r]
        /\ \A r \in DOMAIN k4 \ DOMAIN c3 : c[r] = k4[r]
    BY <2>6 DEF @@
  <2>10. DOMAIN c = {Lot(a), Purse(p)} \cup (IF out THEN {First} ELSE {})
                      \cup (IF won THEN {Second} ELSE {})
    BY <2>3, <2>8, <2>9
  <2>11. c[Lot(a)] = after /\ c[Purse(p)] = gold /\ (out => c[First] = refund)
    BY <2>8, <2>9
  <2>12. won => c[Second] = item
    BY <1>11, <2>3, <2>8, <2>9
  <2>. QED
    BY <1>10, <1>11, <1>12, <2>10, <2>11, <2>12 DEF At
<1>14. Deal(p, a, after, gold, one, two)
  <2>1. Narrow(c, p, a)
    BY <1>13 DEF Narrow
  <2>2. Deal(p, a, At(c, Lot(a)), At(c, Purse(p)), At(c, First), At(c, Second))
    BY <1>8, <2>1, DealIs
  <2>. QED
    BY <1>13, <2>2
<1>15. /\ new \in LotRecords /\ new.item = lot.item /\ new.bidder = p /\ new.owner = lot.owner
       /\ new.pending = lot.pending /\ new.buyout = lot.buyout
       /\ new.bid = IF lot.buyout # 0 /\ newbid > lot.buyout THEN lot.buyout ELSE newbid
  BY <1>1, <1>9 DEF Bid, LotRecords
<1>16. /\ after \in LotRecords /\ after.bidder = p /\ after.owner = lot.owner /\ after.bid = new.bid
       /\ after.buyout = lot.buyout /\ (after.pending <=> lot.pending \/ wins)
       /\ after.item = IF wins THEN None ELSE lot.item
  BY <1>3, <1>15 DEF Sold, LotRecords
<1>17. lot.bid \in Nat /\ lot.buyout \in Nat /\ lot.item \in Items \cup {None} /\ lot.bidder \in Bidders
       /\ lot.pending \in BOOLEAN /\ after.bid \in Nat
  BY <1>9, <1>16 DEF LotRecords
<1>18. Shape(after) /\ (lot.pending => lot.bid <= after.bid)
  <2>1. lot # None
    BY <1>1
  <2>2. (lot.pending <=> lot.item = None) /\ (lot.buyout # 0 => lot.bid <= lot.buyout)
    BY <1>9, <2>1 DEF Shape
  <2>3. lot.buyout # 0 => after.bid <= lot.buyout
    BY <1>15, <1>16, <1>17
  <2>4. lot.pending => lot.bid <= after.bid
    BY <1>1, <1>15, <1>16, <1>17, <2>2
  <2>. QED
    BY <1>16, <2>2, <2>3, <2>4 DEF Shape
<1>19. /\ Refunds(one, lot, p) /\ NoMoney(two)
       /\ won => item \in LetterRecords
  <2>1. out => refund \in LetterRecords
    BY <1>2, <1>4, <1>17 DEF Outbid, Bidders, LetterRecords
  <2>2. won => item \in LetterRecords
    BY <1>2, <1>4, <1>15, <1>17 DEF Delivers, Bidders, LetterRecords
  <2>3. out => \A S : InLetter(refund, S) = Own(S, lot.bidder, lot.bid)
    BY <1>4, <2>1, NoneIsNoRecord DEF InLetter
  <2>4. won => \A S : InLetter(item, S) = 0
    BY <1>4, <2>2, NoneIsNoRecord DEF InLetter, Own
  <2>5. \A S : InLetter(None, S) = 0
    BY InNat
  <2>. QED
    BY <1>2, <1>12, <2>2, <2>3, <2>4, <2>5 DEF Refunds, NoMoney
<1>20. /\ Gain(p, a, after, gold, one, two, Bidders) <= 0
       /\ ~lot.pending => Brought(p, a, after, gold, one, two)
  <2>1. Bids(p, a, after, gold, one, two)
    BY <1>1, <1>3, <1>9, <1>16, <1>18, <1>19 DEF Bids
  <2>. QED
    BY <1>1, <2>1, BidGain
<1>21. /\ transactions \in Seq(SUBSET Rows)
       /\ Written(transactions, Len(transactions)) =
             (IF out THEN {First} ELSE {}) \cup l \cup (IF won THEN {Second} ELSE {})
       /\ \A n \in 1..Len(transactions) :
             /\ transactions[n] = {First} \/ transactions[n] = l \/ transactions[n] = {Second}
             /\ transactions[n] = l =>
                   l = {Second} \/ (out => \E k \in 1..n : transactions[k] = {First})
  <2>1. PICK o, e, m : /\ o = (IF out THEN <<{First}>> ELSE << >>)
                       /\ e = (IF won THEN <<{Second}>> ELSE << >>) /\ m = <<l>>
    OBVIOUS
  <2>2. o \in Seq(SUBSET Rows) /\ m \in Seq(SUBSET Rows) /\ e \in Seq(SUBSET Rows)
    <3>1. << >> \in Seq(SUBSET Rows) /\ <<l>> \in Seq(SUBSET Rows)
      BY <1>11
    <3>2. <<{First}>> \in Seq(SUBSET Rows) /\ <<{Second}>> \in Seq(SUBSET Rows)
      BY <1>11
    <3>. QED
      BY <2>1, <3>1, <3>2
  <2>3. PICK x \in {0, 1}, y \in {0, 1} : (x = 1 <=> out) /\ (y = 1 <=> won)
    OBVIOUS
  <2>4. /\ Len(o) = x /\ (x = 1 => o[1] = {First}) /\ Len(m) = 1 /\ m[1] = l
        /\ Len(e) = y /\ (y = 1 => e[1] = {Second})
    BY <2>1, <2>3
  <2>5. PICK s : s = o \o m
    OBVIOUS
  <2>6. /\ s \in Seq(SUBSET Rows) /\ Len(s) = x + 1
        /\ \A n \in 1..x + 1 : s[n] = IF n <= x THEN o[n] ELSE m[n - x]
    <3>1. /\ s \in Seq(SUBSET Rows) /\ Len(s) = Len(o) + Len(m)
          /\ \A n \in 1..Len(o) + Len(m) : s[n] = IF n <= Len(o) THEN o[n] ELSE m[n - Len(o)]
      BY <2>2, <2>5, ConcatProperties
    <3>. QED
      BY <2>4, <3>1
  <2>7. PICK t : t = s \o e
    OBVIOUS
  <2>8. t = transactions
    BY <1>6, <2>1, <2>5, <2>7
  <2>9. /\ t \in Seq(SUBSET Rows) /\ Len(t) = x + 1 + y
        /\ \A n \in 1..x + 1 + y : t[n] = IF n <= x + 1 THEN s[n] ELSE e[n - (x + 1)]
    BY <2>2, <2>4, <2>6, <2>7, ConcatProperties
  <2>10. /\ x = 1 => t[1] = {First}
         /\ t[x + 1] = l
         /\ y = 1 => t[x + 2] = {Second}
    <3>1. x = 1 => s[1] = {First}
      BY <2>4, <2>6
    <3>2. s[x + 1] = l
      BY <2>3, <2>4, <2>6
    <3>3. x = 1 => t[1] = {First}
      BY <2>9, <3>1
    <3>4. x + 1 \in 1..x + 1 + y /\ x + 1 <= x + 1
      BY <2>3
    <3>5. t[x + 1] = l
      BY <2>9, <3>2, <3>4
    <3>6. ASSUME y = 1 PROVE t[x + 2] = {Second}
      <4>1. x + 2 \in 1..x + 1 + y /\ ~(x + 2 <= x + 1) /\ x + 2 - (x + 1) = 1
        BY <2>3, <3>6
      <4>. QED
        BY <2>4, <2>9, <3>6, <4>1
    <3>. QED
      BY <3>3, <3>5, <3>6
  <2>11. ASSUME NEW n \in 1..x + 1 + y
         PROVE  n = x + 1 \/ (x = 1 /\ n = 1) \/ (y = 1 /\ n = x + 2)
    BY <2>3
  <2>12. \A r : (\E n \in 1..x + 1 + y : r \in t[n])
                 <=> (x = 1 /\ r = First) \/ r \in l \/ (y = 1 /\ r = Second)
    BY <2>3, <2>10, <2>11
  <2>13. Written(t, Len(t)) = (IF out THEN {First} ELSE {}) \cup l \cup (IF won THEN {Second} ELSE {})
    BY <1>11, <2>3, <2>9, <2>12 DEF Written
  <2>14. ASSUME NEW n \in 1..x + 1 + y
         PROVE  /\ t[n] = {First} \/ t[n] = l \/ t[n] = {Second}
                /\ t[n] = l => l = {Second} \/ (out => \E k \in 1..n : t[k] = {First})
    BY <2>3, <2>10, <2>11
  <2>. QED
    BY <2>8, <2>9, <2>13, <2>14
<1>22. Lot(a) \in l /\ Purse(p) \in l
  BY <1>6 DEF Saved
<1>23. MoneyInv'
  <2>1. DOMAIN c \subseteq Written(transactions, Len(transactions))
    BY <1>13, <1>21, <1>22
  <2>2. \A n \in 1..Len(transactions) : Purse(p) \in transactions[n] => Lot(a) \in transactions[n]
    BY <1>11, <1>21, <1>22
  <2>3. ~out => InLetter(one, Bidders) = 0
    BY <1>2, <1>19 DEF Refunds
  <2>4. \A n \in 1..Len(transactions) : Lot(a) \in transactions[n] =>
            /\ Purse(p) \in transactions[n] \/ gold = mem[Purse(p)]
            /\ InLetter(one, Bidders) = 0 \/ \E k \in 1..n : First \in transactions[k]
    BY <1>11, <1>21, <1>22, <2>3
  <2>5. InLetter(two, Bidders) = 0
    BY <1>19 DEF NoMoney
  <2>6. Orderly(p, a, gold, one, transactions)
    BY <2>2, <2>4 DEF Orderly
  <2>. QED
    BY <1>8, <1>14, <1>18, <1>20, <1>21, <2>1, <2>5, <2>6, DealPath
<1>24. ASSUME ~lot.pending, lot.owner # p PROVE Fair
  <2>1. PICK cut : cut = GetAuctionCut(after.bid) /\ cut \in 0..after.bid
    BY <1>17, Cut
  <2>2. ASSUME NEW q \in Players, NEW g, g = Gain(p, a, after, gold, one, two, {q})
        PROVE  (g < 0 => GetsItem(q)) /\ (g > 0 => Sells(q, g))
    <3>1. g = (IF wins /\ q = p THEN 0 - after.bid ELSE 0)
              + (IF wins /\ q = lot.owner THEN after.bid - cut ELSE 0)
      BY <1>16, <1>20, <1>24, <2>1, <2>2 DEF Brought, Brings
    <3>2. ASSUME g < 0 PROVE GetsItem(q)
      <4>1. wins /\ q = p
        BY <1>17, <2>1, <3>1, <3>2
      <4>2. q # Nobody /\ lot.item # None
        BY <1>1, <1>9, <1>24, AuctionAssumption DEF Shape
      <4>3. won
        BY <1>2, <1>15, <4>1, <4>2 DEF Delivers
      <4>4. item \in LetterRecords /\ item.to = q /\ item.item # None
        BY <1>4, <1>15, <1>19, <4>1, <4>2, <4>3
      <4>5. mem'[Second] = item
        BY <1>12, <1>14, <4>3 DEF Deal
      <4>. QED
        BY <4>4, <4>5, Sent
    <3>3. ASSUME g > 0 PROVE Sells(q, g)
      <4>1. wins /\ q = lot.owner /\ g = after.bid - cut
        BY <1>17, <1>24, <2>1, <3>1, <3>3
      <4>2. mem'[Lot(a)] = after /\ after # None
        BY <1>14, <1>16, NoneIsNoRecord DEF Deal
      <4>. QED
        BY <1>1, <1>16, <1>24, <2>1, <4>1, <4>2 DEF Sells
    <3>. QED
      BY <3>2, <3>3
  <2>. QED
    BY <1>9, <1>14, <2>2, DealFair
<1>. QED
  BY <1>1, <1>23, <1>24

LEMMA PlaceBidMoney ==
    ASSUME TypeOK, TypeOK', MoneyInv, NEW p \in Players, NEW a \in Lots, NEW price \in Prices,
           HandleAuctionPlaceBid(p, a, price)
    PROVE  MoneyInv' /\ (~Lag => Fair)
<1>1. /\ Ready /\ mem[Lot(a)] # None /\ mem[Lot(a)].owner # p /\ (Lag \/ ~mem[Lot(a)].pending)
      /\ price > mem[Lot(a)].bid /\ UpdateBid(a, p, price)
  BY DEF HandleAuctionPlaceBid
<1>2. price \in Nat /\ p \in Bidders /\ mem[Lot(a)].bid \in Nat
  BY <1>1, Values, AuctionAssumption DEF Bidders, LotRecords
<1>3. price >= mem[Lot(a)].bid
  BY <1>1, <1>2
<1>. QED
  BY <1>1, <1>2, <1>3, UpdateBidMoney

\* The bot bids on what is for sale.
LEMMA BotBidMoney ==
    ASSUME TypeOK, TypeOK', MoneyInv, NEW a \in Lots, BotBid(a)
    PROVE  MoneyInv' /\ Fair
<1>1. PICK least : least = mem[Lot(a)].bid + GetAuctionOutBid(mem[Lot(a)].bid)
  OBVIOUS
<1>2. /\ Ready /\ mem[Lot(a)] # None /\ mem[Lot(a)].item # None
      /\ \E price \in {mem[Lot(a)].buyout,
                        IF mem[Lot(a)].startbid > least THEN mem[Lot(a)].startbid ELSE least} :
            UpdateBid(a, Nobody, price)
  BY <1>1 DEF BotBid
<1>3. mem[Lot(a)] \in LotRecords
  BY <1>2, Values
<1>4. /\ mem[Lot(a)].bid \in Nat /\ mem[Lot(a)].buyout \in Nat /\ mem[Lot(a)].startbid \in Nat
      /\ mem[Lot(a)].owner # Nobody /\ Nobody \in Bidders
  BY <1>3, AuctionAssumption DEF LotRecords, Bidders
<1>5. least \in Nat
  BY <1>1, <1>4 DEF GetAuctionOutBid
<1>6. PICK price \in Nat : UpdateBid(a, Nobody, price)
  BY <1>2, <1>4, <1>5
<1>7. ~mem[Lot(a)].pending
  BY <1>2, MemoryFull DEF Shaped, Shape
<1>. QED
  BY <1>2, <1>4, <1>6, <1>7, UpdateBidMoney

-----------------------------------------------------------------------------
(* The end of an auction.                                                  *)

\* The rows a handler may write.
LEMMA NewMails ==
    ASSUME Ready, NEW a \in Lots, NEW p \in Bidders
    PROVE  /\ mem[First] = None /\ mem[Second] = None
           /\ First \in Rows /\ Second \in Rows /\ Lot(a) \in Rows /\ Purse(p) \in Rows
           /\ Saved(p) \subseteq Rows
           /\ First # Second /\ First # Lot(a) /\ First # Purse(p) /\ Second # Lot(a)
           /\ Second # Purse(p) /\ Lot(a) # Purse(p)
<1>1. First = Letter(FirstId) /\ Second = Letter(SecondId)
  BY DEF First, Second
<1>2. /\ FirstId \in Letters /\ SecondId \in Letters /\ FirstId # SecondId
      /\ mem[First] = None /\ mem[Second] = None
  BY FreeMails
<1>3. First \in Rows /\ Second \in Rows /\ Lot(a) \in Rows /\ Purse(p) \in Rows
      /\ Saved(p) \subseteq Rows
  BY <1>1, <1>2, RowsAreRows
<1>4. First # Second /\ First # Lot(a) /\ First # Purse(p)
  BY <1>1, <1>2, RowsDiffer
<1>5. Second # Lot(a) /\ Second # Purse(p) /\ Lot(a) # Purse(p)
  BY <1>1, RowsDiffer
<1>. QED
  BY <1>2, <1>3, <1>4, <1>5

LEMMA NoMoneyInNone == NoMoney(None)
BY InNat DEF NoMoney

LEMMA SuccessfulMoney ==
    ASSUME TypeOK, TypeOK', MoneyInv, NEW a \in Lots, SendAuctionSuccessfulMail(a)
    PROVE  MoneyInv' /\ Fair
<1>1. PICK lot, letter :
           /\ lot = mem[Lot(a)]
           /\ letter = [to |-> lot.owner, item |-> None,
                        money |-> lot.bid + Deposit - GetAuctionCut(lot.bid)]
  OBVIOUS
<1>2. PICK k1, k2, c, transactions :
           /\ k1 = Lot(a) :> None /\ k2 = First :> letter /\ c = k1 @@ k2
           /\ transactions = <<{First}, {Lot(a)}>>
  OBVIOUS
<1>3. Handle(c, transactions) /\ Ready /\ lot # None /\ lot.pending
  BY <1>1, <1>2 DEF SendAuctionSuccessfulMail
<1>4. PICK p \in Bidders : p = Nobody
  BY DEF Bidders
<1>5. lot \in LotRecords /\ Full(mem) /\ Full(mem')
  BY <1>1, <1>3, Values, MemoryFull, HandledFull
<1>6. DOMAIN c = {Lot(a), First} /\ c[Lot(a)] = None /\ c[First] = letter
  <2>1. /\ DOMAIN k1 = {Lot(a)} /\ k1[Lot(a)] = None
        /\ DOMAIN k2 = {First} /\ k2[First] = letter
    BY <1>2 DEF :>
  <2>2. First # Lot(a)
    BY <1>3, <1>4, NewMails
  <2>. QED
    BY <1>2, <2>1, <2>2 DEF @@
<1>7. Deal(p, a, None, mem[Purse(p)], letter, None)
  <2>1. Narrow(c, p, a)
    BY <1>6 DEF Narrow
  <2>2. Deal(p, a, At(c, Lot(a)), At(c, Purse(p)), At(c, First), At(c, Second))
    BY <1>3, <2>1, DealIs
  <2>3. /\ At(c, Lot(a)) = None /\ At(c, Purse(p)) = mem[Purse(p)]
        /\ At(c, First) = letter /\ At(c, Second) = None
    BY <1>3, <1>6, NewMails DEF At
  <2>. QED
    BY <2>2, <2>3
<1>8. \A S : Gain(p, a, None, mem[Purse(p)], letter, None, S) = 0
  <2>. SUFFICES ASSUME NEW S PROVE Gain(p, a, None, mem[Purse(p)], letter, None, S) = 0
    OBVIOUS
  <2>1. PICK b, cut, d, m : /\ b = lot.bid /\ cut = GetAuctionCut(lot.bid) /\ d = Deposit
                           /\ m = mem[Purse(p)]
    OBVIOUS
  <2>2. b \in Nat /\ cut \in 0..b /\ d \in Nat /\ m \in Nat
    BY <1>5, <2>1, LotMoney, Values
  <2>3. InLot(lot, S) = Own(S, lot.owner, d) + Own(S, lot.owner, b - cut)
    BY <1>3, <1>5, <2>1, LotMoney
  <2>4. letter \in LetterRecords
    BY <1>1, <1>5, <2>1, <2>2 DEF LotRecords, LetterRecords
  <2>5. InLetter(letter, S) = Own(S, lot.owner, b + d - cut)
    BY <1>1, <2>1, <2>4, NoneIsNoRecord DEF InLetter
  <2>6. InLot(None, S) = 0 /\ InLetter(None, S) = 0
    BY InNat
  <2>7. Own(S, p, m - m) = 0
    BY <2>2 DEF Own
  <2>8. InLot(lot, S) = InLetter(letter, S) /\ InLetter(letter, S) \in Nat
    BY <2>2, <2>3, <2>5 DEF Own
  <2>. QED
    BY <1>1, <2>1, <2>6, <2>7, <2>8 DEF Gain
<1>9. /\ transactions \in Seq(SUBSET Rows) /\ Len(transactions) = 2
      /\ transactions[1] = {First} /\ transactions[2] = {Lot(a)}
      /\ Written(transactions, Len(transactions)) = {First} \cup {Lot(a)}
  <2>1. {First} \in SUBSET Rows /\ {Lot(a)} \in SUBSET Rows
    BY <1>3, <1>4, NewMails
  <2>. QED
    BY <1>2, <2>1, WrittenBy
<1>10. MoneyInv'
  <2>1. Shape(None)
    BY DEF Shape
  <2>2. InLetter(None, Bidders) = 0 /\ Gain(p, a, None, mem[Purse(p)], letter, None, Bidders) <= 0
    BY <1>8, InNat
  <2>3. DOMAIN c \subseteq Written(transactions, Len(transactions))
    BY <1>6, <1>9
  <2>4. First # Lot(a) /\ Purse(p) # First /\ Purse(p) # Lot(a)
    BY <1>3, NewMails
  <2>5. \A n \in 1..Len(transactions) : Purse(p) \notin transactions[n]
    BY <1>9, <2>4
  <2>6. \A n \in 1..Len(transactions) :
            Lot(a) \in transactions[n] => \E k \in 1..n : First \in transactions[k]
    BY <1>9, <2>4
  <2>7. Orderly(p, a, mem[Purse(p)], letter, transactions)
    BY <2>5, <2>6 DEF Orderly
  <2>. QED
    BY <1>3, <1>7, <1>9, <2>1, <2>2, <2>3, <2>7, DealPath
<1>11. Fair
  <2>1. \A q \in Players : Gain(p, a, None, mem[Purse(p)], letter, None, {q}) = 0
    BY <1>8
  <2>. QED
    BY <1>3, <1>5, <1>7, <2>1, DealFair
<1>. QED
  BY <1>10, <1>11

LEMMA ExpiredMoney ==
    ASSUME TypeOK, TypeOK', MoneyInv, NEW a \in Lots, SendAuctionExpiredMail(a)
    PROVE  MoneyInv' /\ Fair
<1>1. PICK lot, letter : lot = mem[Lot(a)]
                         /\ letter = [to |-> lot.owner, money |-> 0, item |-> lot.item]
  OBVIOUS
<1>2. PICK k1, k2, c, transactions :
           /\ k1 = Lot(a) :> None /\ k2 = First :> letter /\ c = k1 @@ k2
           /\ transactions = <<{First}, {Lot(a)}>>
  OBVIOUS
<1>3. Handle(c, transactions) /\ Ready /\ lot # None /\ ~lot.pending /\ lot.bid = 0
  BY <1>1, <1>2 DEF SendAuctionExpiredMail
<1>4. PICK p \in Bidders : p = Nobody
  BY DEF Bidders
<1>5. lot \in LotRecords /\ Shape(lot) /\ Full(mem) /\ Full(mem')
  BY <1>1, <1>3, Values, MemoryFull, HandledFull DEF Shaped
<1>6. DOMAIN c = {Lot(a), First} /\ c[Lot(a)] = None /\ c[First] = letter
  <2>1. /\ DOMAIN k1 = {Lot(a)} /\ k1[Lot(a)] = None
        /\ DOMAIN k2 = {First} /\ k2[First] = letter
    BY <1>2 DEF :>
  <2>2. First # Lot(a)
    BY <1>3, <1>4, NewMails
  <2>. QED
    BY <1>2, <2>1, <2>2 DEF @@
<1>7. Deal(p, a, None, mem[Purse(p)], letter, None)
  <2>1. Narrow(c, p, a)
    BY <1>6 DEF Narrow
  <2>2. Deal(p, a, At(c, Lot(a)), At(c, Purse(p)), At(c, First), At(c, Second))
    BY <1>3, <2>1, DealIs
  <2>3. /\ At(c, Lot(a)) = None /\ At(c, Purse(p)) = mem[Purse(p)]
        /\ At(c, First) = letter /\ At(c, Second) = None
    BY <1>3, <1>6, NewMails DEF At
  <2>. QED
    BY <2>2, <2>3
<1>8. letter \in LetterRecords /\ letter.to = lot.owner /\ letter.item # None
  BY <1>1, <1>3, <1>5 DEF LotRecords, LetterRecords, Shape
<1>9. \A S : Gain(p, a, None, mem[Purse(p)], letter, None, S) = 0 - Own(S, lot.owner, Deposit)
  <2>. SUFFICES ASSUME NEW S
                PROVE  Gain(p, a, None, mem[Purse(p)], letter, None, S)
                          = 0 - Own(S, lot.owner, Deposit)
    OBVIOUS
  <2>1. PICK d, m : d = Deposit /\ m = mem[Purse(p)]
    OBVIOUS
  <2>2. d \in Nat /\ m \in Nat
    BY <2>1, Values, AuctionAssumption
  <2>3. InLot(lot, S) = Own(S, lot.owner, d)
    BY <1>3, <1>5, <2>1, <2>2, LotMoney DEF Own
  <2>4. InLetter(letter, S) = 0 /\ InLot(None, S) = 0 /\ InLetter(None, S) = 0
    BY <1>1, InNat DEF InLetter, Own
  <2>5. Own(S, p, m - m) = 0 /\ Own(S, lot.owner, d) \in Nat
    BY <2>2 DEF Own
  <2>. QED
    BY <1>1, <2>1, <2>3, <2>4, <2>5 DEF Gain
<1>10. /\ transactions \in Seq(SUBSET Rows) /\ Len(transactions) = 2
       /\ transactions[1] = {First} /\ transactions[2] = {Lot(a)}
       /\ Written(transactions, Len(transactions)) = {First} \cup {Lot(a)}
  <2>1. {First} \in SUBSET Rows /\ {Lot(a)} \in SUBSET Rows
    BY <1>3, <1>4, NewMails
  <2>. QED
    BY <1>2, <2>1, WrittenBy
<1>11. MoneyInv'
  <2>1. Shape(None)
    BY DEF Shape
  <2>2. InLetter(None, Bidders) = 0 /\ Gain(p, a, None, mem[Purse(p)], letter, None, Bidders) <= 0
    BY <1>9, InNat, AuctionAssumption DEF Own
  <2>3. DOMAIN c \subseteq Written(transactions, Len(transactions))
    BY <1>6, <1>10
  <2>4. First # Lot(a) /\ Purse(p) # First /\ Purse(p) # Lot(a)
    BY <1>3, NewMails
  <2>5. \A n \in 1..Len(transactions) : Purse(p) \notin transactions[n]
    BY <1>10, <2>4
  <2>6. \A n \in 1..Len(transactions) :
            Lot(a) \in transactions[n] => \E k \in 1..n : First \in transactions[k]
    BY <1>10, <2>4
  <2>7. Orderly(p, a, mem[Purse(p)], letter, transactions)
    BY <2>5, <2>6 DEF Orderly
  <2>. QED
    BY <1>3, <1>7, <1>10, <2>1, <2>2, <2>3, <2>7, DealPath
<1>12. Fair
  <2>1. ASSUME NEW q \in Players, NEW g, g = Gain(p, a, None, mem[Purse(p)], letter, None, {q})
        PROVE  (g < 0 => GetsItem(q)) /\ (g > 0 => Sells(q, g))
    <3>1. g = IF q = lot.owner THEN 0 - Deposit ELSE 0
      BY <1>9, <2>1, AuctionAssumption DEF Own
    <3>2. mem'[First] = letter
      BY <1>7 DEF Deal
    <3>3. g < 0 => GetsItem(q)
      BY <1>3, <1>8, <3>1, <3>2, Sent
    <3>. QED
      BY <3>1, <3>3, AuctionAssumption
  <2>. QED
    BY <1>3, <1>5, <1>7, <2>1, DealFair
<1>. QED
  BY <1>11, <1>12

LEMMA BidWinningMoney ==
    ASSUME TypeOK, TypeOK', MoneyInv, NEW a \in Lots, AuctionBidWinning(a)
    PROVE  MoneyInv' /\ Fair
<1>1. PICK lot, sold, letter : /\ lot = mem[Lot(a)] /\ sold = Sold(lot)
          /\ letter = [to |-> lot.bidder, money |-> 0, item |-> lot.item]
  OBVIOUS
<1>2. PICK won \in BOOLEAN : won <=> Delivers(lot)
  OBVIOUS
<1>3. PICK k1, k2, c, transactions :
           /\ k1 = Lot(a) :> sold /\ k2 = Second :> letter
           /\ c = (IF won THEN k1 @@ k2 ELSE k1)
           /\ transactions = IF won THEN <<{Lot(a)}, {Second}>> ELSE <<{Lot(a)}>>
  OBVIOUS
<1>4. Ready /\ lot # None /\ ~lot.pending
  BY <1>1 DEF AuctionBidWinning
<1>5. Handle(c, transactions)
  <2>1. IF Delivers(lot) THEN Handle(Lot(a) :> Sold(lot) @@ Delivery(lot), <<{Lot(a)}, {Second}>>)
        ELSE Handle(Lot(a) :> Sold(lot), <<{Lot(a)}>>)
    BY <1>1 DEF AuctionBidWinning
  <2>2. CASE won
    BY <1>1, <1>2, <1>3, <2>1, <2>2 DEF Delivery
  <2>3. CASE ~won
    BY <1>1, <1>2, <1>3, <2>1, <2>3
  <2>. QED
    BY <2>2, <2>3
<1>6. PICK p \in Bidders : p = Nobody
  BY DEF Bidders
<1>7. lot \in LotRecords /\ Shape(lot) /\ Full(mem) /\ Full(mem')
  BY <1>1, <1>4, <1>5, Values, MemoryFull, HandledFull DEF Shaped
<1>8. PICK two : two = IF won THEN letter ELSE None
  OBVIOUS
<1>9. /\ DOMAIN c = {Lot(a)} \cup (IF won THEN {Second} ELSE {})
      /\ c[Lot(a)] = sold /\ (won => c[Second] = letter)
  <2>1. /\ DOMAIN k1 = {Lot(a)} /\ k1[Lot(a)] = sold
        /\ DOMAIN k2 = {Second} /\ k2[Second] = letter
    BY <1>3 DEF :>
  <2>2. Second # Lot(a)
    BY <1>4, <1>6, NewMails
  <2>3. CASE won
    BY <1>3, <2>1, <2>2, <2>3 DEF @@
  <2>4. CASE ~won
    BY <1>3, <2>1, <2>4
  <2>. QED
    BY <2>3, <2>4
<1>10. Deal(p, a, sold, mem[Purse(p)], None, two)
  <2>1. Narrow(c, p, a)
    BY <1>9 DEF Narrow
  <2>2. Deal(p, a, At(c, Lot(a)), At(c, Purse(p)), At(c, First), At(c, Second))
    BY <1>4, <1>5, <2>1, DealIs
  <2>3. /\ mem[First] = None /\ mem[Second] = None
        /\ First # Second /\ First # Lot(a) /\ Second # Lot(a)
        /\ Second # Purse(p) /\ Lot(a) # Purse(p)
    BY <1>4, NewMails
  <2>4. /\ At(c, Lot(a)) = sold /\ At(c, Purse(p)) = mem[Purse(p)]
        /\ At(c, First) = None /\ At(c, Second) = two
    BY <1>8, <1>9, <2>3 DEF At
  <2>. QED
    BY <2>2, <2>4
<1>11. /\ sold \in LotRecords /\ sold.owner = lot.owner /\ sold.bid = lot.bid /\ sold.pending
       /\ sold.item = None /\ sold.buyout = lot.buyout
  BY <1>1, <1>7 DEF Sold, LotRecords
<1>12. NoMoney(two) /\ (won => letter \in LetterRecords)
  <2>1. won => letter \in LetterRecords
    BY <1>1, <1>2, <1>7 DEF Delivers, Bidders, LotRecords, LetterRecords
  <2>2. NoMoney(letter)
    BY <1>1 DEF NoMoney, InLetter, Own
  <2>. QED
    BY <1>8, <2>1, <2>2, NoMoneyInNone
<1>13. PICK b, cut : b = lot.bid /\ cut = GetAuctionCut(lot.bid) /\ b \in Nat /\ cut \in 0..b
  BY <1>7, LotMoney
<1>14. \A S : Gain(p, a, sold, mem[Purse(p)], None, two, S)
                 = Own(S, lot.owner, b - cut) - Own(S, lot.bidder, b)
  <2>. SUFFICES ASSUME NEW S
                PROVE  Gain(p, a, sold, mem[Purse(p)], None, two, S)
                          = Own(S, lot.owner, b - cut) - Own(S, lot.bidder, b)
    OBVIOUS
  <2>1. PICK d, m : d = Deposit /\ m = mem[Purse(p)]
    OBVIOUS
  <2>2. d \in Nat /\ m \in Nat
    BY <2>1, Values, AuctionAssumption
  <2>3. InLot(lot, S) = Own(S, lot.owner, d) + Own(S, lot.bidder, b)
    BY <1>4, <1>7, <1>13, <2>1, LotMoney
  <2>4. InLot(sold, S) = Own(S, lot.owner, d) + Own(S, lot.owner, b - cut)
    BY <1>11, <1>13, <2>1, LotMoney
  <2>5. InLetter(two, S) = 0 /\ InLetter(None, S) = 0
    BY <1>12, InNat DEF NoMoney
  <2>6. /\ Own(S, p, m - m) = 0 /\ Own(S, lot.owner, d) \in Nat
        /\ Own(S, lot.owner, b - cut) \in Nat /\ Own(S, lot.bidder, b) \in Nat
    BY <1>13, <2>2 DEF Own
  <2>. QED
    BY <1>1, <2>1, <2>3, <2>4, <2>5, <2>6 DEF Gain
<1>15. /\ transactions \in Seq(SUBSET Rows) /\ Len(transactions) \in {1, 2}
       /\ transactions[1] = {Lot(a)} /\ (Len(transactions) = 2 => transactions[2] = {Second})
       /\ Written(transactions, Len(transactions)) = {Lot(a)} \cup (IF won THEN {Second} ELSE {})
  <2>1. {Second} \in SUBSET Rows /\ {Lot(a)} \in SUBSET Rows
    BY <1>4, <1>6, NewMails
  <2>2. CASE won
    BY <1>3, <2>1, <2>2, WrittenBy
  <2>3. CASE ~won
    BY <1>3, <2>1, <2>3, WrittenBy
  <2>. QED
    BY <2>2, <2>3
<1>16. MoneyInv'
  <2>1. Shape(sold)
    BY <1>4, <1>7, <1>11 DEF Shape
  <2>2. InLetter(two, Bidders) = 0 /\ InLetter(None, Bidders) = 0
    BY <1>12, InNat DEF NoMoney
  <2>3. Gain(p, a, sold, mem[Purse(p)], None, two, Bidders) <= 0
    <3>1. lot.bidder \in Bidders /\ lot.owner \in Bidders
      BY <1>7 DEF LotRecords, Bidders
    <3>. QED
      BY <1>13, <1>14, <3>1 DEF Own
  <2>4. DOMAIN c \subseteq Written(transactions, Len(transactions))
    BY <1>9, <1>15
  <2>5. Second # Lot(a) /\ Purse(p) # Second /\ Purse(p) # Lot(a)
    BY <1>4, NewMails
  <2>6. \A n \in 1..Len(transactions) : Purse(p) \notin transactions[n]
    BY <1>15, <2>5
  <2>7. Orderly(p, a, mem[Purse(p)], None, transactions)
    BY <2>2, <2>6 DEF Orderly
  <2>. QED
    BY <1>4, <1>5, <1>10, <1>15, <2>1, <2>2, <2>3, <2>4, <2>7, DealPath
<1>17. Fair
  <2>1. ASSUME NEW q \in Players, NEW g, g = Gain(p, a, sold, mem[Purse(p)], None, two, {q})
        PROVE  (g < 0 => GetsItem(q)) /\ (g > 0 => Sells(q, g))
    <3>1. g = (IF q = lot.owner THEN b - cut ELSE 0) - (IF q = lot.bidder THEN b ELSE 0)
      BY <1>14, <2>1 DEF Own
    <3>2. ASSUME g < 0 PROVE GetsItem(q)
      <4>1. q = lot.bidder
        BY <1>13, <3>1, <3>2
      <4>2. q # Nobody /\ lot.item # None
        BY <1>4, <1>7, AuctionAssumption DEF Shape
      <4>3. won
        BY <1>2, <4>1, <4>2 DEF Delivers
      <4>4. letter \in LetterRecords /\ letter.to = q /\ letter.item # None
        BY <1>1, <1>12, <4>1, <4>2, <4>3
      <4>5. mem'[Second] = letter
        BY <1>8, <1>10, <4>3 DEF Deal
      <4>. QED
        BY <1>4, <4>4, <4>5, Sent
    <3>3. ASSUME g > 0 PROVE Sells(q, g)
      <4>1. q = lot.owner /\ g = b - cut
        BY <1>13, <3>1, <3>3
      <4>2. mem'[Lot(a)] = sold /\ sold # None
        BY <1>10, <1>11, NoneIsNoRecord DEF Deal
      <4>. QED
        BY <1>1, <1>4, <1>11, <1>13, <4>1, <4>2 DEF Sells
    <3>. QED
      BY <3>2, <3>3
  <2>. QED
    BY <1>4, <1>7, <1>10, <2>1, DealFair
<1>. QED
  BY <1>16, <1>17

LEMMA RemoveMoney ==
    ASSUME TypeOK, TypeOK', MoneyInv, NEW p \in Players, NEW a \in Lots, HandleAuctionRemoveItem(p, a)
    PROVE  MoneyInv' /\ Fair
<1>1. PICK lot, letter, refund, gold : /\ lot = mem[Lot(a)]
          /\ letter = [to |-> p, money |-> 0, item |-> lot.item]
          /\ refund = [to |-> lot.bidder, money |-> lot.bid, item |-> None]
          /\ gold = mem[Purse(p)] - GetAuctionCut(lot.bid)
  OBVIOUS
<1>2. PICK out \in BOOLEAN : out <=> Outbid(lot, p)
  OBVIOUS
<1>3. PICK k1, k2, k3, k4, back, paid, c :
           /\ k1 = Second :> letter /\ k2 = Lot(a) :> None /\ k3 = Purse(p) :> gold
           /\ k4 = First :> refund
           /\ back = k1 @@ k2 /\ paid = back @@ k3 /\ c = IF out THEN paid @@ k4 ELSE paid
  OBVIOUS
<1>4. PICK l, o, e, transactions :
           /\ l = {Lot(a)} \cup Saved(p) /\ o = <<{First}>> /\ e = <<{Second}, l>>
           /\ transactions = IF out THEN o \o e ELSE e
  OBVIOUS
<1>5. Ready /\ lot # None /\ lot.owner = p /\ lot.item # None
  BY <1>1 DEF HandleAuctionRemoveItem
<1>6. Handle(c, transactions)
  <2>1. IF Outbid(lot, p) THEN Handle(paid @@ Refund(lot), o \o e) ELSE Handle(paid, e)
    BY <1>1, <1>3, <1>4 DEF HandleAuctionRemoveItem
  <2>2. Refund(lot) = k4
    BY <1>1, <1>3 DEF Refund
  <2>3. CASE out
    BY <1>2, <1>3, <1>4, <2>1, <2>2, <2>3
  <2>4. CASE ~out
    BY <1>2, <1>3, <1>4, <2>1, <2>4
  <2>. QED
    BY <2>3, <2>4
<1>7. lot \in LotRecords /\ Shape(lot) /\ Full(mem) /\ Full(mem') /\ p \in Bidders /\ p # Nobody
  BY <1>1, <1>5, <1>6, Values, MemoryFull, HandledFull, AuctionAssumption DEF Shaped, Bidders
<1>8. /\ mem[First] = None /\ mem[Second] = None
      /\ First \in Rows /\ Second \in Rows /\ l \in SUBSET Rows
      /\ First # Second /\ First # Lot(a) /\ First # Purse(p) /\ Second # Lot(a)
      /\ Second # Purse(p) /\ Lot(a) # Purse(p)
  <2>1. Lot(a) \in Rows /\ Saved(p) \subseteq Rows
    BY <1>5, <1>7, NewMails
  <2>. QED
    BY <1>4, <1>5, <1>7, <2>1, NewMails
<1>9. PICK one : one = IF out THEN refund ELSE None
  OBVIOUS
<1>10. /\ DOMAIN c = {Second, Lot(a), Purse(p)} \cup (IF out THEN {First} ELSE {})
       /\ c[Second] = letter /\ c[Lot(a)] = None /\ c[Purse(p)] = gold /\ (out => c[First] = refund)
  <2>1. /\ DOMAIN k1 = {Second} /\ k1[Second] = letter
        /\ DOMAIN k2 = {Lot(a)} /\ k2[Lot(a)] = None
    BY <1>3 DEF :>
  <2>2. /\ DOMAIN k3 = {Purse(p)} /\ k3[Purse(p)] = gold
        /\ DOMAIN k4 = {First} /\ k4[First] = refund
    BY <1>3 DEF :>
  <2>3. DOMAIN back = {Second, Lot(a)} /\ back[Second] = letter /\ back[Lot(a)] = None
    BY <1>3, <1>8, <2>1 DEF @@
  <2>4. /\ DOMAIN paid = {Second, Lot(a), Purse(p)}
        /\ paid[Second] = letter /\ paid[Lot(a)] = None /\ paid[Purse(p)] = gold
    BY <1>3, <1>8, <2>2, <2>3 DEF @@
  <2>5. CASE out
    <3>1. c = paid @@ k4
      BY <1>3, <2>5
    <3>2. /\ DOMAIN c = DOMAIN paid \cup DOMAIN k4
          /\ \A r \in DOMAIN paid : c[r] = paid[r]
          /\ \A r \in DOMAIN k4 \ DOMAIN paid : c[r] = k4[r]
      BY <3>1 DEF @@
    <3>3. c[First] = refund
      BY <1>8, <2>2, <2>4, <3>2
    <3>. QED
      BY <2>2, <2>4, <2>5, <3>2, <3>3
  <2>6. CASE ~out
    BY <1>3, <2>4, <2>6
  <2>. QED
    BY <2>5, <2>6
<1>11. Deal(p, a, None, gold, one, letter)
  <2>1. Narrow(c, p, a)
    BY <1>10 DEF Narrow
  <2>2. Deal(p, a, At(c, Lot(a)), At(c, Purse(p)), At(c, First), At(c, Second))
    BY <1>5, <1>6, <1>7, <2>1, DealIs
  <2>3. /\ At(c, Lot(a)) = None /\ At(c, Purse(p)) = gold
        /\ At(c, First) = one /\ At(c, Second) = letter
    BY <1>8, <1>9, <1>10 DEF At
  <2>. QED
    BY <2>2, <2>3
<1>12. lot.bidder \in Bidders /\ lot.item \in Items /\ ~lot.pending
  BY <1>5, <1>7 DEF LotRecords, Shape
<1>13. PICK b, cut, d, m : b = lot.bid /\ cut = GetAuctionCut(lot.bid) /\ d = Deposit
                           /\ m = mem[Purse(p)]
  OBVIOUS
<1>14. b \in Nat /\ cut \in 0..b /\ d \in Nat /\ m \in Nat
  BY <1>7, <1>13, LotMoney, Values
<1>15. Refunds(one, lot, p) /\ NoMoney(letter)
  <2>1. out => refund \in LetterRecords
    BY <1>1, <1>2, <1>12, <1>13, <1>14 DEF Outbid, Bidders, LetterRecords
  <2>2. out => \A S : InLetter(refund, S) = Own(S, lot.bidder, lot.bid)
    BY <1>1, <2>1, NoneIsNoRecord DEF InLetter
  <2>3. NoMoney(letter)
    BY <1>1 DEF NoMoney, InLetter, Own
  <2>4. \A S : InLetter(None, S) = 0
    BY InNat
  <2>. QED
    BY <1>2, <1>9, <2>2, <2>3, <2>4 DEF Refunds
<1>16. \A S : Gain(p, a, None, gold, one, letter, S) =
                 Own(S, p, 0 - cut) + (0 - (Own(S, p, d) + Own(S, lot.bidder, b)))
                 + (IF out THEN Own(S, lot.bidder, b) ELSE 0) + 0
  <2>. SUFFICES ASSUME NEW S
                PROVE  Gain(p, a, None, gold, one, letter, S) =
                          Own(S, p, 0 - cut) + (0 - (Own(S, p, d) + Own(S, lot.bidder, b)))
                          + (IF out THEN Own(S, lot.bidder, b) ELSE 0) + 0
    OBVIOUS
  <2>1. InLot(lot, S) = Own(S, p, d) + Own(S, lot.bidder, b)
    BY <1>5, <1>7, <1>12, <1>13, LotMoney
  <2>2. InLot(None, S) = 0 /\ InLetter(letter, S) = 0
    BY <1>15, InNat DEF NoMoney
  <2>3. InLetter(one, S) = IF out THEN Own(S, lot.bidder, b) ELSE 0
    BY <1>2, <1>13, <1>15 DEF Refunds
  <2>4. gold - m = 0 - cut
    BY <1>1, <1>13, <1>14
  <2>. QED
    BY <1>1, <1>13, <2>1, <2>2, <2>3, <2>4 DEF Gain
<1>17. PICK x \in {0, 1} : x = 1 <=> out
  OBVIOUS
<1>18. /\ transactions \in Seq(SUBSET Rows) /\ Len(transactions) = x + 2
       /\ x = 1 => transactions[1] = {First}
       /\ transactions[x + 1] = {Second} /\ transactions[x + 2] = l
  <2>1. o \in Seq(SUBSET Rows) /\ e \in Seq(SUBSET Rows)
    <3>1. {First} \in SUBSET Rows /\ {Second} \in SUBSET Rows
      BY <1>8
    <3>. QED
      BY <1>4, <1>8, <3>1
  <2>2. Len(o) = 1 /\ o[1] = {First} /\ Len(e) = 2 /\ e[1] = {Second} /\ e[2] = l
    BY <1>4
  <2>3. CASE out
    <3>1. transactions = o \o e
      BY <1>4, <2>3
    <3>2. /\ transactions \in Seq(SUBSET Rows) /\ Len(transactions) = Len(o) + Len(e)
          /\ \A n \in 1..Len(o) + Len(e) :
                transactions[n] = IF n <= Len(o) THEN o[n] ELSE e[n - Len(o)]
      BY <2>1, <3>1, ConcatProperties
    <3>3. transactions[1] = {First} /\ transactions[2] = {Second} /\ transactions[3] = l
      BY <2>2, <3>2
    <3>. QED
      BY <1>17, <2>2, <2>3, <3>2, <3>3
  <2>4. CASE ~out
    BY <1>4, <1>17, <2>1, <2>2, <2>4
  <2>. QED
    BY <2>3, <2>4
<1>19. ASSUME NEW n \in 1..x + 2
       PROVE  (x = 1 /\ n = 1) \/ n = x + 1 \/ n = x + 2
  BY <1>17
<1>20. Lot(a) \in l /\ Purse(p) \in l
  BY <1>4 DEF Saved
<1>21. MoneyInv'
  <2>1. Shape(None)
    BY DEF Shape
  <2>2. InLetter(letter, Bidders) = 0 /\ (~out => InLetter(one, Bidders) = 0)
    BY <1>2, <1>15 DEF NoMoney, Refunds
  <2>3. Gain(p, a, None, gold, one, letter, Bidders) <= 0
    <3>1. /\ Own(Bidders, p, 0 - cut) = 0 - cut /\ Own(Bidders, p, d) = d
          /\ Own(Bidders, lot.bidder, b) = b
      BY <1>7, <1>12 DEF Own
    <3>. QED
      BY <1>14, <1>16, <3>1
  <2>4. DOMAIN c \subseteq Written(transactions, Len(transactions))
    <3>1. 1 \in 1..x + 2 /\ x + 1 \in 1..x + 2 /\ x + 2 \in 1..x + 2
      BY <1>17
    <3>2. ASSUME NEW r \in DOMAIN c PROVE \E n \in 1..x + 2 : r \in transactions[n]
      <4>1. (x = 1 /\ r = First) \/ r = Second \/ r \in l
        BY <1>10, <1>17, <1>20
      <4>. QED
        BY <1>18, <3>1, <4>1
    <3>3. DOMAIN c \subseteq Rows
      BY <1>6, HandledFull
    <3>. QED
      BY <1>18, <3>2, <3>3 DEF Written
  <2>5. \A n \in 1..x + 2 : Purse(p) \in transactions[n] => Lot(a) \in transactions[n]
    BY <1>8, <1>18, <1>19, <1>20
  <2>6. \A n \in 1..x + 2 : Lot(a) \in transactions[n] =>
            Purse(p) \in transactions[n] /\ (out => \E k \in 1..n : First \in transactions[k])
    <3>. SUFFICES ASSUME NEW n \in 1..x + 2, Lot(a) \in transactions[n]
                  PROVE  Purse(p) \in transactions[n] /\ (out => \E k \in 1..n : First \in transactions[k])
      OBVIOUS
    <3>1. n = x + 2
      BY <1>8, <1>18, <1>19
    <3>2. out => 1 \in 1..n /\ First \in transactions[1]
      BY <1>17, <1>18
    <3>. QED
      BY <1>18, <1>20, <3>1, <3>2
  <2>7. Orderly(p, a, gold, one, transactions)
    BY <1>18, <2>2, <2>5, <2>6 DEF Orderly
  <2>. QED
    BY <1>5, <1>6, <1>7, <1>11, <1>18, <2>1, <2>2, <2>3, <2>4, <2>7, DealPath
<1>22. Fair
  <2>1. ASSUME NEW q \in Players, NEW g, g = Gain(p, a, None, gold, one, letter, {q})
        PROVE  (g < 0 => GetsItem(q)) /\ (g > 0 => Sells(q, g))
    <3>1. PICK z \in {0, b} : z = IF q = lot.bidder THEN b ELSE 0
      OBVIOUS
    <3>2. g = (IF q = p THEN 0 - cut - d ELSE 0) + (0 - z) + (IF out THEN z ELSE 0)
      <4>1. Own({q}, lot.bidder, b) = z
        BY <3>1 DEF Own
      <4>2. CASE q = p
        BY <1>14, <1>16, <2>1, <3>1, <4>1, <4>2 DEF Own
      <4>3. CASE q # p
        BY <1>14, <1>16, <2>1, <3>1, <4>1, <4>3 DEF Own
      <4>. QED
        BY <4>2, <4>3
    <3>3. q # Nobody
      BY AuctionAssumption
    <3>4. q # p => g = 0
      BY <1>2, <1>14, <3>1, <3>2, <3>3 DEF Outbid
    <3>5. g <= 0
      BY <1>14, <3>1, <3>2
    <3>6. q = p => GetsItem(q)
      <4>1. letter \in LetterRecords /\ letter.to = p /\ letter.item # None
        BY <1>1, <1>5, <1>12 DEF LetterRecords
      <4>2. mem'[Second] = letter
        BY <1>11 DEF Deal
      <4>. QED
        BY <1>5, <4>1, <4>2, Sent
    <3>. QED
      BY <1>14, <3>1, <3>2, <3>4, <3>5, <3>6
  <2>. QED
    BY <1>5, <1>7, <1>11, <2>1, DealFair
<1>. QED
  BY <1>21, <1>22

-----------------------------------------------------------------------------
(* Mails.                                                                  *)

\* A handler that moves money between one purse and one letter, in one transaction.
LEMMA TakeMoney ==
    ASSUME TypeOK, TypeOK', MoneyInv, NEW p \in Players, NEW m \in Letters, NEW c,
           NEW tx \in SUBSET Rows, Handle(c, <<tx>>), DOMAIN c \subseteq tx,
           DOMAIN c \subseteq {Letter(m), Purse(p), Bag(p)},
           \A S : Own(S, p, mem'[Purse(p)] - mem[Purse(p)])
                  + (InLetter(mem'[Letter(m)], S) - InLetter(mem[Letter(m)], S)) = 0
    PROVE  MoneyInv' /\ Fair
<1>1. Full(mem) /\ Shaped(mem) /\ Full(mem') /\ p \in Bidders
  BY MemoryFull, HandledFull DEF Bidders
<1>2. \A r \in Rows : r # Letter(m) /\ r # Purse(p) /\ r # Bag(p) => mem'[r] = mem[r]
  BY HandledFull
<1>3. ASSUME NEW q \in Bidders \ {p} PROVE mem'[Purse(q)] = mem[Purse(q)]
  <2>1. Purse(q) \in Rows
    BY RowsAreRows
  <2>2. Purse(q) # Letter(m) /\ Purse(q) # Purse(p) /\ Purse(q) # Bag(p)
    BY <1>3, RowsDiffer
  <2>. QED
    BY <1>2, <2>1, <2>2
<1>4. ASSUME NEW b \in Lots PROVE mem'[Lot(b)] = mem[Lot(b)]
  <2>1. Lot(b) \in Rows
    BY RowsAreRows
  <2>2. Lot(b) # Letter(m) /\ Lot(b) # Purse(p) /\ Lot(b) # Bag(p)
    BY RowsDiffer
  <2>. QED
    BY <1>2, <2>1, <2>2
<1>5. \A k \in Letters \ {m} : mem'[Letter(k)] = mem[Letter(k)]
  BY <1>2, RowsAreRows, RowsDiffer
<1>6. ASSUME NEW S \in SUBSET Bidders
      PROVE  Wealth(mem', S) = Wealth(mem, S) /\ Wealth(mem, S) \in Nat
  <2>1. Sum(Purses(mem', S)) = Sum(Purses(mem, S)) + Own(S, p, mem'[Purse(p)] - mem[Purse(p)])
    BY <1>1, <1>3, PursesChange
  <2>2. Sum(Mailbags(mem', S)) =
           Sum(Mailbags(mem, S)) + (InLetter(mem'[Letter(m)], S) - InLetter(mem[Letter(m)], S))
    BY <1>1, <1>5, MailbagsChange
  <2>3. Sum(House(mem', S)) = Sum(House(mem, S))
    BY <1>4, HouseSame
  <2>4. /\ Wealth(mem, S) = Sum(Purses(mem, S)) + Sum(Mailbags(mem, S)) + Sum(House(mem, S))
        /\ Sum(Purses(mem, S)) \in Nat /\ Sum(Mailbags(mem, S)) \in Nat
        /\ Sum(House(mem, S)) \in Nat /\ Wealth(mem, S) \in Nat
    BY <1>1, WealthParts
  <2>5. /\ Wealth(mem', S) = Sum(Purses(mem', S)) + Sum(Mailbags(mem', S)) + Sum(House(mem', S))
        /\ Sum(Purses(mem', S)) \in Nat /\ Sum(Mailbags(mem', S)) \in Nat
    BY <1>1, WealthParts
  <2>6. PICK u, v : /\ u = Own(S, p, mem'[Purse(p)] - mem[Purse(p)])
                    /\ v = InLetter(mem'[Letter(m)], S) - InLetter(mem[Letter(m)], S)
    OBVIOUS
  <2>7. u \in Int /\ v \in Int /\ u + v = 0
    <3>1. mem[Purse(p)] \in Nat /\ mem'[Purse(p)] \in Nat
      BY <1>1, FullRows
    <3>2. InLetter(mem[Letter(m)], S) \in Nat /\ InLetter(mem'[Letter(m)], S) \in Nat
      <4>1. mem[Letter(m)] # None => mem[Letter(m)] \in LetterRecords
        BY <1>1, FullRows
      <4>2. mem'[Letter(m)] # None => mem'[Letter(m)] \in LetterRecords
        BY <1>1, FullRows
      <4>3. \A x : x = None \/ x \in LetterRecords => InLetter(x, S) \in Nat
        BY InNat
      <4>. QED
        BY <4>1, <4>2, <4>3
    <3>. QED
      BY <2>6, <3>1, <3>2 DEF Own
  <2>. QED
    BY <2>1, <2>2, <2>3, <2>4, <2>5, <2>6, <2>7
<1>7. MoneyInv'
  <2>1. Shaped(mem')
    BY <1>1, <1>4 DEF Shaped, Shape
  <2>2. PICK transactions : transactions = <<tx>>
    OBVIOUS
  <2>3. transactions \in Seq(SUBSET Rows) /\ Len(transactions) = 1 /\ transactions[1] = tx
    BY <2>2
  <2>4. \A r \in Rows \ Written(transactions, 1) : mem'[r] = mem[r]
    <3>1. \A r \in Rows : r \in tx => r \in Written(transactions, 1)
      BY <2>3 DEF Written
    <3>2. \A r \in Rows : r \notin DOMAIN c => mem'[r] = mem[r]
      BY HandledFull
    <3>. QED
      BY <3>1, <3>2
  <2>5. DOMAIN c \subseteq Written(transactions, Len(transactions))
    BY <2>3 DEF Written
  <2>6. Wealth(mem', Bidders) = Wealth(mem, Bidders) /\ Wealth(mem, Bidders) \in Nat
    BY <1>6
  <2>7. ASSUME NEW n \in 0..Len(transactions)
        PROVE  Wealth(Stage(mem, mem', Written(transactions, n)), Bidders) >= Wealth(mem', Bidders)
    <3>1. CASE n = 0
      <4>1. Written(transactions, n) = {}
        BY <3>1 DEF Written
      <4>2. Stage(mem, mem', Written(transactions, n)) = mem
        BY <1>1, <4>1, StageNone
      <4>. QED
        BY <2>6, <4>2
    <3>2. CASE n = 1
      <4>1. Stage(mem, mem', Written(transactions, n)) = mem'
        BY <1>1, <2>4, <3>2, StageAll
      <4>. QED
        BY <2>6, <4>1
    <3>. QED
      BY <2>3, <3>1, <3>2
  <2>8. Handle(c, transactions)
    BY <2>2
  <2>. QED
    BY <2>1, <2>3, <2>5, <2>7, <2>8, HandledPath
<1>8. Fair
  <2>1. \A q \in Players : Wealth(mem', {q}) = Wealth(mem, {q}) /\ Wealth(mem, {q}) \in Nat
    BY <1>6 DEF Bidders
  <2>. QED
    BY <2>1 DEF Fair
<1>. QED
  BY <1>7, <1>8

LEMMA TakeMoneyMoney ==
    ASSUME TypeOK, TypeOK', MoneyInv, NEW p \in Players, NEW m \in Letters, HandleMailTakeMoney(p, m)
    PROVE  MoneyInv' /\ Fair
<1>1. PICK letter, rest, gold, tx : /\ letter = mem[Letter(m)] /\ rest = Rest([letter EXCEPT !.money = 0])
          /\ gold = mem[Purse(p)] + letter.money /\ tx = {Letter(m), Purse(p)}
  OBVIOUS
<1>2. PICK k1, k2, c : k1 = Letter(m) :> rest /\ k2 = Purse(p) :> gold /\ c = k1 @@ k2
  OBVIOUS
<1>3. Handle(c, <<tx>>) /\ letter # None /\ letter.to = p
  BY <1>1, <1>2 DEF HandleMailTakeMoney
<1>4. DOMAIN c = {Letter(m), Purse(p)} /\ c[Letter(m)] = rest /\ c[Purse(p)] = gold
  <2>1. /\ DOMAIN k1 = {Letter(m)} /\ k1[Letter(m)] = rest
        /\ DOMAIN k2 = {Purse(p)} /\ k2[Purse(p)] = gold
    BY <1>2 DEF :>
  <2>2. Letter(m) # Purse(p)
    BY RowsDiffer
  <2>. QED
    BY <1>2, <2>1, <2>2 DEF @@
<1>5. letter \in LetterRecords
  BY <1>1, <1>3, Values
<1>6. mem'[Letter(m)] = rest /\ mem'[Purse(p)] = gold
  BY <1>3, <1>4, HandledFull, RowsAreRows
<1>7. letter.money \in Nat /\ mem[Purse(p)] \in Nat
  BY <1>5, Values DEF LetterRecords
<1>8. \A S : InLetter(letter, S) = Own(S, p, letter.money) /\ InLetter(rest, S) = 0
  <2>1. \A S : InLetter(letter, S) = Own(S, p, letter.money)
    BY <1>3, <1>5 DEF InLetter
  <2>2. rest = None \/ rest.money = 0
    BY <1>1, <1>5 DEF Rest, LetterRecords
  <2>3. \A S : InLetter(rest, S) = 0
    BY <2>2 DEF InLetter, Own
  <2>. QED
    BY <2>1, <2>3
<1>9. \A S : Own(S, p, mem'[Purse(p)] - mem[Purse(p)])
             + (InLetter(mem'[Letter(m)], S) - InLetter(mem[Letter(m)], S)) = 0
  <2>. SUFFICES ASSUME NEW S
                PROVE  Own(S, p, mem'[Purse(p)] - mem[Purse(p)])
                       + (InLetter(mem'[Letter(m)], S) - InLetter(mem[Letter(m)], S)) = 0
    OBVIOUS
  <2>1. mem'[Purse(p)] - mem[Purse(p)] = letter.money
    BY <1>1, <1>6, <1>7
  <2>2. InLetter(mem'[Letter(m)], S) = 0 /\ InLetter(mem[Letter(m)], S) = Own(S, p, letter.money)
    BY <1>1, <1>6, <1>8
  <2>. QED
    BY <1>7, <2>1, <2>2 DEF Own
<1>10. tx \in SUBSET Rows /\ DOMAIN c \subseteq tx /\ DOMAIN c \subseteq {Letter(m), Purse(p), Bag(p)}
  BY <1>1, <1>4, RowsAreRows
<1>. QED
  BY <1>3, <1>9, <1>10, TakeMoney

LEMMA TakeItemMoney ==
    ASSUME TypeOK, TypeOK', MoneyInv, NEW p \in Players, NEW m \in Letters, HandleMailTakeItem(p, m)
    PROVE  MoneyInv' /\ Fair
<1>1. PICK letter, rest, bag, tx : /\ letter = mem[Letter(m)] /\ rest = Rest([letter EXCEPT !.item = None])
          /\ bag = mem[Bag(p)] \cup {letter.item} /\ tx = {Letter(m)} \cup Saved(p)
  OBVIOUS
<1>2. PICK k1, k2, c : k1 = Letter(m) :> rest /\ k2 = Bag(p) :> bag /\ c = k1 @@ k2
  OBVIOUS
<1>3. Handle(c, <<tx>>) /\ letter # None
  BY <1>1, <1>2 DEF HandleMailTakeItem
<1>4. DOMAIN c = {Letter(m), Bag(p)} /\ c[Letter(m)] = rest
  <2>1. DOMAIN k1 = {Letter(m)} /\ k1[Letter(m)] = rest /\ DOMAIN k2 = {Bag(p)}
    BY <1>2 DEF :>
  <2>. QED
    BY <1>2, <2>1 DEF @@
<1>5. letter \in LetterRecords
  BY <1>1, <1>3, Values
<1>6. mem'[Letter(m)] = rest /\ mem'[Purse(p)] = mem[Purse(p)]
  <2>1. Letter(m) \in Rows /\ Purse(p) \in Rows /\ Purse(p) \notin DOMAIN c
    BY <1>4, RowsAreRows, RowsDiffer
  <2>. QED
    BY <1>3, <1>4, <2>1, HandledFull
<1>7. letter.money \in Nat /\ mem[Purse(p)] \in Nat
  BY <1>5, Values DEF LetterRecords
<1>8. \A S : InLetter(rest, S) = InLetter(letter, S) /\ InLetter(letter, S) \in Nat
  <2>1. rest = None => letter.money = 0
    BY <1>1, <1>5, NoneIsNoRecord DEF Rest, LetterRecords
  <2>2. rest # None => rest.money = letter.money /\ rest.to = letter.to
    BY <1>1, <1>5 DEF Rest, LetterRecords
  <2>. QED
    BY <1>3, <1>7, <2>1, <2>2 DEF InLetter, Own
<1>9. \A S : Own(S, p, mem'[Purse(p)] - mem[Purse(p)])
             + (InLetter(mem'[Letter(m)], S) - InLetter(mem[Letter(m)], S)) = 0
  <2>. SUFFICES ASSUME NEW S
                PROVE  Own(S, p, mem'[Purse(p)] - mem[Purse(p)])
                       + (InLetter(mem'[Letter(m)], S) - InLetter(mem[Letter(m)], S)) = 0
    OBVIOUS
  <2>1. mem'[Purse(p)] - mem[Purse(p)] = 0
    BY <1>6, <1>7
  <2>2. InLetter(mem'[Letter(m)], S) = InLetter(mem[Letter(m)], S) /\ InLetter(mem[Letter(m)], S) \in Nat
    BY <1>1, <1>6, <1>8
  <2>. QED
    BY <2>1, <2>2 DEF Own
<1>10. tx \in SUBSET Rows /\ DOMAIN c \subseteq tx /\ DOMAIN c \subseteq {Letter(m), Purse(p), Bag(p)}
  <2>1. p # Nobody /\ p \in Bidders
    BY AuctionAssumption DEF Bidders
  <2>. QED
    BY <1>1, <1>4, <2>1, RowsAreRows DEF Saved
<1>. QED
  BY <1>3, <1>9, <1>10, TakeMoney

-----------------------------------------------------------------------------
(* The database and crashes.                                               *)

\* A transaction that is executed is a step on the path.
LEMMA ExecuteMoney ==
    ASSUME TypeOK, TypeOK', MoneyInv, Execute
    PROVE  MoneyInv' /\ Fair
<1>1. queue # << >> /\ disk' = Head(queue) @@ disk /\ queue' = Tail(queue) /\ mem' = mem
  BY DEF Execute
<1>2. PICK h : Path(h, queue, disk, mem, Wealth(mem, Bidders))
  BY DEF MoneyInv
<1>3. PICK n : n = Len(queue)
  OBVIOUS
<1>4. /\ queue \in Seq(Range(queue)) /\ n \in Nat /\ n # 0
  BY <1>1, <1>3, LenProperties, EmptySeq DEF TypeOK
<1>5. /\ Head(queue) = queue[1] /\ Len(queue') = n - 1
      /\ \A k \in 1..n - 1 : queue'[k] = queue[k + 1]
  BY <1>1, <1>3, <1>4, HeadTailProperties
<1>6. /\ h[0] = disk /\ h[n] = mem
      /\ \A k \in 1..n : h[k] = queue[k] @@ h[k - 1]
      /\ \A k \in 0..n : Full(h[k]) /\ Shaped(h[k]) /\ Wealth(h[k], Bidders) >= Wealth(mem, Bidders)
  BY <1>2, <1>3 DEF Path
<1>7. PICK g : g = [k \in 0..n - 1 |-> h[k + 1]]
  OBVIOUS
<1>8. g[0] = disk' /\ g[n - 1] = mem'
  <2>1. g[0] = h[1] /\ g[n - 1] = h[n]
    BY <1>4, <1>7
  <2>2. h[1] = queue[1] @@ h[0]
    BY <1>4, <1>6
  <2>. QED
    BY <1>1, <1>5, <1>6, <2>1, <2>2
<1>9. ASSUME NEW k \in 1..n - 1 PROVE g[k] = queue'[k] @@ g[k - 1]
  <2>1. g[k] = h[k + 1] /\ g[k - 1] = h[k]
    BY <1>4, <1>7
  <2>2. h[k + 1] = queue[k + 1] @@ h[k]
    <3>1. k + 1 \in 1..n /\ (k + 1) - 1 = k
      BY <1>4
    <3>. QED
      BY <1>6, <3>1
  <2>. QED
    BY <1>5, <2>1, <2>2
<1>10. PICK w : w = Wealth(mem, Bidders)
  OBVIOUS
<1>11. ASSUME NEW k \in 0..n - 1 PROVE Full(g[k]) /\ Shaped(g[k]) /\ Wealth(g[k], Bidders) >= w
  BY <1>4, <1>6, <1>7, <1>10
<1>12. Path(g, queue', disk', mem', w)
  BY <1>5, <1>8, <1>9, <1>11 DEF Path
<1>13. Wealth(mem', Bidders) = w
  BY <1>1, <1>10
<1>14. MoneyInv'
  BY <1>12, <1>13 DEF MoneyInv
<1>15. Fair
  <2>1. Full(mem)
    BY MemoryFull
  <2>2. ASSUME NEW q \in Players PROVE Wealth(mem', {q}) - Wealth(mem, {q}) = 0
    <3>1. Wealth(mem, {q}) \in Nat
      BY <2>1, WealthParts DEF Bidders
    <3>. QED
      BY <1>1, <3>1
  <2>. QED
    BY <2>2 DEF Fair
<1>. QED
  BY <1>14, <1>15

\* After a crash the path is the disk.
LEMMA EmptyPath ==
    ASSUME NEW d, Full(d), Shaped(d), NEW w, Wealth(d, Bidders) >= w
    PROVE  \E h : Path(h, << >>, d, d, w)
<1>1. PICK h : h = [n \in 0..0 |-> d]
  OBVIOUS
<1>2. h[0] = d /\ Len(<< >>) = 0
  BY <1>1
<1>3. \A n \in 0..0 : n = 0
  OBVIOUS
<1>4. Path(h, << >>, d, d, w)
  BY <1>2, <1>3 DEF Path
<1>. QED
  BY <1>4

LEMMA CrashMoney ==
    ASSUME TypeOK, MoneyInv, Crash
    PROVE  MoneyInv'
<1>1. mem' = disk /\ queue' = << >> /\ disk' = disk
  BY DEF Crash
<1>2. PICK h : Path(h, queue, disk, mem, Wealth(mem, Bidders))
  BY DEF MoneyInv
<1>3. Len(queue) \in Nat
  BY LenProperties DEF TypeOK
<1>4. Full(disk) /\ Shaped(disk)
  BY <1>2, <1>3 DEF Path
<1>5. Wealth(disk, Bidders) \in Nat
  BY <1>4, WealthParts
<1>6. PICK g : Path(g, << >>, disk, disk, Wealth(disk, Bidders))
  BY <1>4, <1>5, EmptyPath
<1>7. Wealth(mem', Bidders) = Wealth(disk, Bidders)
  BY <1>1
<1>. QED
  BY <1>1, <1>6, <1>7 DEF MoneyInv

LEMMA InitMoney ==
    ASSUME Init, TypeOK
    PROVE  MoneyInv
<1>1. disk = mem /\ queue = << >>
  BY DEF Init
<1>2. Full(mem)
  <2>1. PICK f, g : mem = f @@ g
    BY DEF Init
  <2>2. mem = [r \in DOMAIN mem |-> mem[r]]
    BY <2>1 DEF @@
  <2>. QED
    BY <2>2 DEF Full, TypeOK
<1>3. \A a \in Lots : mem[Lot(a)] = None
  <2> DEFINE f == [r \in {Purse(p) : p \in Players} |-> Money]
             b == Purse(Nobody) :> BotMoney
             g == [r \in {Bag(p) : p \in Players} |-> HasItems[r[2]]]
             h == [r \in {Lot(a) : a \in Lots} \cup {Letter(m) : m \in Letters} |-> None]
             k == f @@ b @@ g
  <2>1. mem = k @@ h
    BY DEF Init
  <2>2. /\ DOMAIN f = {Purse(p) : p \in Players} /\ DOMAIN b = {Purse(Nobody)}
        /\ DOMAIN g = {Bag(p) : p \in Players}
        /\ DOMAIN h = {Lot(a) : a \in Lots} \cup {Letter(m) : m \in Letters}
        /\ \A r \in DOMAIN h : h[r] = None
    BY DEF :>
  <2> HIDE DEF f, b, g, h
  <2>3. DOMAIN k = DOMAIN f \cup DOMAIN b \cup DOMAIN g
    <3>1. ASSUME NEW x, NEW y PROVE DOMAIN (x @@ y) = DOMAIN x \cup DOMAIN y
      BY DEF @@
    <3>2. DOMAIN (f @@ b) = DOMAIN f \cup DOMAIN b
      BY <3>1
    <3>3. DOMAIN ((f @@ b) @@ g) = DOMAIN (f @@ b) \cup DOMAIN g
      BY <3>1
    <3>. QED
      BY <3>2, <3>3
  <2> HIDE DEF k
  <2>4. \A r \in DOMAIN h \ DOMAIN k : mem[r] = h[r]
    <3>1. mem = [r \in DOMAIN k \cup DOMAIN h |-> IF r \in DOMAIN k THEN k[r] ELSE h[r]]
      BY <2>1, Zenon DEF @@
    <3>. QED
      BY <3>1
  <2>5. \A a \in Lots : Lot(a) \in DOMAIN h /\ Lot(a) \notin DOMAIN k
    <3>. SUFFICES ASSUME NEW a \in Lots PROVE Lot(a) \in DOMAIN h /\ Lot(a) \notin DOMAIN k
      OBVIOUS
    <3>1. Lot(a) \in DOMAIN h
      BY <2>2
    <3>a. \A x : Lot(a) # Purse(x) /\ Lot(a) # Bag(x)
      BY RowsDiffer, Zenon
    <3>2. Lot(a) \notin DOMAIN f
      BY <2>2, <3>a, Zenon
    <3>3. Lot(a) \notin DOMAIN b
      BY <2>2, <3>a, Zenon
    <3>4. Lot(a) \notin DOMAIN g
      BY <2>2, <3>a, Zenon
    <3>. QED
      BY <2>3, <3>1, <3>2, <3>3, <3>4, Zenon
  <2>. QED
    BY <2>2, <2>4, <2>5
<1>4. Shaped(mem)
  BY <1>3 DEF Shaped, Shape
<1>5. Wealth(mem, Bidders) \in Nat
  BY <1>2, WealthParts
<1>6. PICK h : Path(h, << >>, mem, mem, Wealth(mem, Bidders))
  BY <1>2, <1>4, <1>5, EmptyPath
<1>. QED
  BY <1>1, <1>6 DEF MoneyInv

-----------------------------------------------------------------------------
(* The theorems.                                                           *)

MInv == TypeOK /\ MoneyInv

\* Every step keeps the path; a step of a server that runs is fair if bids do not lag.
LEMMA MoneyStep ==
    ASSUME MInv, TypeOK', Next
    PROVE  MoneyInv' /\ (crashes' = crashes /\ ~Lag => Fair)
<1>1. TypeOK /\ MoneyInv
  BY DEF MInv
<1>2. ASSUME NEW p \in Players, NEW i \in Items, NEW startbid \in StartBids, NEW buyout \in Buyouts,
             HandleAuctionSellItem(p, i, startbid, buyout)
      PROVE  MoneyInv' /\ Fair
  BY <1>1, <1>2, SellMoney
<1>3. ASSUME NEW p \in Players, NEW a \in Lots, NEW price \in Prices,
             HandleAuctionPlaceBid(p, a, price)
      PROVE  MoneyInv' /\ (~Lag => Fair)
  BY <1>1, <1>3, PlaceBidMoney
<1>4. ASSUME NEW p \in Players, NEW a \in Lots, HandleAuctionRemoveItem(p, a)
      PROVE  MoneyInv' /\ Fair
  BY <1>1, <1>4, RemoveMoney
<1>5. ASSUME NEW p \in Players, NEW m \in Letters, HandleMailTakeMoney(p, m)
      PROVE  MoneyInv' /\ Fair
  BY <1>1, <1>5, TakeMoneyMoney
<1>6. ASSUME NEW p \in Players, NEW m \in Letters, HandleMailTakeItem(p, m)
      PROVE  MoneyInv' /\ Fair
  BY <1>1, <1>6, TakeItemMoney
<1>7. ASSUME NEW a \in Lots, BotBid(a) PROVE MoneyInv' /\ Fair
  BY <1>1, <1>7, BotBidMoney
<1>8. ASSUME NEW a \in Lots, SendAuctionSuccessfulMail(a) PROVE MoneyInv' /\ Fair
  BY <1>1, <1>8, SuccessfulMoney
<1>9. ASSUME NEW a \in Lots, AuctionBidWinning(a) PROVE MoneyInv' /\ Fair
  BY <1>1, <1>9, BidWinningMoney
<1>10. ASSUME NEW a \in Lots, SendAuctionExpiredMail(a) PROVE MoneyInv' /\ Fair
  BY <1>1, <1>10, ExpiredMoney
<1>11. CASE Execute
  BY <1>1, <1>11, ExecuteMoney
<1>12. CASE Crash
  <2>1. crashes \in Nat /\ crashes' = crashes + 1
    BY <1>1, <1>12, AuctionAssumption DEF Crash, TypeOK
  <2>. QED
    BY <1>1, <1>12, <2>1, CrashMoney
<1>. QED
  BY <1>2, <1>3, <1>4, <1>5, <1>6, <1>7, <1>8, <1>9, <1>10, <1>11, <1>12 DEF Next

\* There is always a path from the database to the memory, along which no table is worth
\* less than the memory: whatever the delay thread has executed when the server crashes.
THEOREM MoneyInvariance == Spec => []MInv
<1>1. Init => MInv
  BY TypedInit, InitMoney DEF MInv
<1>2. MInv /\ TypeOK' /\ [Next]_vars => MInv'
  <2>. SUFFICES ASSUME MInv, TypeOK', [Next]_vars PROVE MInv'
    OBVIOUS
  <2>1. CASE Next
    BY <2>1, MoneyStep DEF MInv
  <2>2. CASE UNCHANGED vars
    BY <2>2 DEF vars, MInv, MoneyInv
  <2>. QED
    BY <2>1, <2>2
<1>. QED
  BY <1>1, <1>2, TypeCorrect, PTL DEF Spec

\* A crash at any moment loses no money: the letter with a refund or the money of a sale
\* is written before the auction it comes from (AuctionHouseMgr.cpp), and a purse
\* together with the auction it pays, so the database is never worth less than the memory.
THEOREM CrashLosesNothing == Spec => []CrashSafe
<1>1. MInv => CrashSafe
  <2>. SUFFICES ASSUME MInv PROVE CrashSafe
    OBVIOUS
  <2>1. PICK h : Path(h, queue, disk, mem, Wealth(mem, Bidders))
    BY DEF MInv, MoneyInv
  <2>2. Len(queue) \in Nat
    BY LenProperties DEF MInv, TypeOK
  <2>3. h[0] = disk /\ Wealth(h[0], Bidders) >= Wealth(mem, Bidders)
    BY <2>1, <2>2 DEF Path
  <2>. QED
    BY <2>3 DEF CrashSafe
<1>. QED
  BY <1>1, MoneyInvariance, PTL

\* As long as clients bid on what they can list, no handler makes a player poorer without
\* an item sent to him, nor richer but by the price of an item he sells.
THEOREM FairDealing == ~Lag => (Spec => FairDeal)
<1>. SUFFICES ASSUME ~Lag PROVE Spec => FairDeal
  OBVIOUS
<1>1. MInv /\ TypeOK' /\ [Next]_vars =>
          [crashes' = crashes => \A p \in Players :
              LET gain == Wealth(mem', {p}) - Wealth(mem, {p})
              IN  (gain < 0 => GetsItem(p)) /\ (gain > 0 => Sells(p, gain))]_vars
  BY MoneyStep DEF Fair
<1>. QED
  BY <1>1, MoneyInvariance, TypeCorrect, PTL DEF Spec, FairDeal
=============================================================================
