------------------------ MODULE ExpressionLoop_proofs ------------------------
(***************************************************************************)
(* Proofs about ExpressionLoop, for every candidate table, every sequence  *)
(* of spreads, any number of operators and any bound on their reviews.     *)
(*                                                                         *)
(* First the ranking: the keys of the viable spreads are tuples of         *)
(* integers, `Before' orders them, and among the viable spreads of a row   *)
(* one has rank 1 and no other comes before it.  Then the labels that      *)
(* follow from it, and last one inductive invariant, which says of marks,  *)
(* audit and reviews that they were computed from the expressions CSV.     *)
(***************************************************************************)
EXTENDS ExpressionLoop, FiniteSetTheorems, TLAPS

-----------------------------------------------------------------------------
(* Least elements                                                          *)

\* A nonempty family of finite sets has a member that strictly contains no other.
LEMMA SmallestSet ==
  ASSUME NEW F, F # {}, \A A \in F : IsFiniteSet(A)
  PROVE  \E A \in F : \A B \in F : B \subseteq A => B = A
<1> DEFINE U == UNION F
<1>1. F \subseteq FiniteSubsetsOf(U)
  BY DEF FiniteSubsetsOf
<1>2. PICK A \in F : \A B \in F : <<B, A>> \notin StrictSubsetOrdering(U)
  BY <1>1, FS_StrictSubsetOrderingWellFounded, WFMin
<1>3. \A B \in F : B \subseteq A => B = A
  BY <1>2 DEF StrictSubsetOrdering
<1> QED
  BY <1>3

\* A nonempty set of natural numbers has a least element.
LEMMA LeastNumber ==
  ASSUME NEW N \in SUBSET Nat, N # {}
  PROVE  \E n \in N : \A m \in N : n <= m
<1> DEFINE F == {1..n : n \in N}
<1>1. F # {} /\ \A A \in F : IsFiniteSet(A)
  <2>1. \A n \in N : IsFiniteSet(1..n)
    <3> TAKE n \in N
    <3>1. n \in Int /\ 1 \in Int
      OBVIOUS
    <3> QED BY <3>1, FS_Interval
  <2> QED BY <2>1
<1>2. PICK A \in F : \A B \in F : B \subseteq A => B = A
  <2> HIDE DEF F
  <2> QED BY <1>1, SmallestSet
<1>3. PICK n \in N : A = 1..n
  BY DEF F
<1>4. ASSUME NEW m \in N, m < n PROVE FALSE
  <2>1. (1..m) \subseteq (1..n) /\ (1..m) \in F
    BY <1>4
  <2>2. (1..m) = (1..n)
    BY <2>1, <1>2, <1>3
  <2>3. n \in 1..n /\ n \notin 1..m
    BY <1>4
  <2> QED BY <2>2, <2>3
<1> QED
  BY <1>4

-----------------------------------------------------------------------------
(* The ranking                                                             *)

\* What ChainsAssumption says of one spread.
Spread(e) ==
  /\ {e.width, e.debit, e.profit, e.loss} \subseteq Int
  /\ e.pmp \in Int \cup {None}

\* A dealer-weighted score is a whole number.
LEMMA ScoreType ==
  ASSUME NEW e, NEW r
  PROVE  DealerWeightedScore(e, r) \in Nat
<1>1. \A short, wall : WallProximityScore(short, wall) \in Nat
  BY DEF WallProximityScore
<1>2. \A iv : CheapIvScore(iv) \in Nat
  BY DEF CheapIvScore
<1>3. \A structure, short, row : ReverseVrpScore(structure, short, row) \in Nat
  <2>1. \A c : One(c) \in Nat
    BY DEF One
  <2>2. \A n \in Nat : Capped(n) \in Nat
    BY DEF Capped
  <2>3. \A a, b, c, d \in Nat : a + (b + c + d) \in Nat
    OBVIOUS
  <2> QED
    BY <2>1, <2>2, <2>3 DEF ReverseVrpScore
<1>4. \A structure, short, row : DirectionScore(structure, short, row) \in Nat
  BY <1>3 DEF DirectionScore, DirectionFromGamma
<1>5. \A debit, width : SpreadEfficiencyScore(debit, width) \in Nat
  BY DEF SpreadEfficiencyScore
<1> QED
  BY <1>1, <1>2, <1>4, <1>5 DEF DealerWeightedScore

\* The key of a viable spread: seven whole numbers, first whether it passes its
\* tier and then its score.
LEMMA RankKeyType ==
  ASSUME NEW e, NEW r, Spread(e), Viable(e)
  PROVE  /\ DOMAIN RankKey(e, r) = 1..7
         /\ \A n \in 1..7 : RankKey(e, r)[n] \in Int
         /\ RankKey(e, r)[1] = One(PassesTier(e, TierFor(e, r)))
         /\ RankKey(e, r)[2] = DealerWeightedScore(e, r)
<1>1. \A c : One(c) \in Int
  BY DEF One
<1>2. DealerWeightedScore(e, r) \in Int
  BY ScoreType
<1>3. -e.pmp \in Int /\ -e.loss \in Int
  BY DEF Spread, Viable
<1>4. -((1000 * (e.width - e.debit)) \div e.width) \in Int
  BY DEF Spread, Viable
<1>5. \A short, wall : WallProximityScore(short, wall) \in Int
  BY DEF WallProximityScore
<1> QED
  BY <1>1, <1>2, <1>3, <1>4, <1>5 DEF RankKey

\* Comparing tuples of whole numbers place by place is transitive.
LEMMA ExceedsTransitive ==
  ASSUME NEW a, NEW b, NEW c,
         DOMAIN a = 1..7, DOMAIN b = 1..7, DOMAIN c = 1..7,
         \A n \in 1..7 : a[n] \in Int /\ b[n] \in Int /\ c[n] \in Int,
         Exceeds(a, b), Exceeds(b, c)
  PROVE  Exceeds(a, c)
<1>1. PICK n \in 1..7 : a[n] > b[n] /\ \A l \in 1..(n - 1) : a[l] = b[l]
  BY DEF Exceeds
<1>2. PICK m \in 1..7 : b[m] > c[m] /\ \A l \in 1..(m - 1) : b[l] = c[l]
  BY DEF Exceeds
<1>3. CASE n <= m
  <2>1. a[n] > c[n]
    BY <1>1, <1>2, <1>3
  <2>2. \A l \in 1..(n - 1) : a[l] = c[l]
    BY <1>1, <1>2, <1>3
  <2> QED BY <2>1, <2>2 DEF Exceeds
<1>4. CASE m < n
  <2>1. a[m] > c[m]
    BY <1>1, <1>2, <1>4
  <2>2. \A l \in 1..(m - 1) : a[l] = c[l]
    BY <1>1, <1>2, <1>4
  <2> QED BY <2>1, <2>2 DEF Exceeds
<1> QED
  BY <1>3, <1>4

\* No tuple of whole numbers exceeds itself.
LEMMA ExceedsIrreflexive ==
  ASSUME NEW a, DOMAIN a = 1..7, \A n \in 1..7 : a[n] \in Int
  PROVE  ~Exceeds(a, a)
BY DEF Exceeds

\* The viable spreads of row r, as SelectionRank takes them.
ViableOf(chain, r) == {j \in OfSymbol(chain, r.symbol) : Viable(chain[j])}

LEMMA ViableOfType ==
  ASSUME NEW chain \in Chains, NEW r
  PROVE  /\ ViableOf(chain, r) \subseteq DOMAIN chain
         /\ IsFiniteSet(ViableOf(chain, r))
         /\ \A i \in DOMAIN chain : i \in Nat /\ Spread(chain[i])
<1>1. DOMAIN chain = 1..Len(chain) /\ Len(chain) \in Nat
  BY ChainsAssumption
<1>2. ViableOf(chain, r) \subseteq DOMAIN chain
  BY DEF ViableOf, OfSymbol
<1>3. IsFiniteSet(ViableOf(chain, r))
  <2>1. IsFiniteSet(1..Len(chain))
    BY <1>1, FS_Interval
  <2> QED BY <1>1, <1>2, <2>1, FS_Subset
<1>4. \A i \in DOMAIN chain : Spread(chain[i])
  BY ChainsAssumption DEF Spread
<1> QED
  BY <1>1, <1>2, <1>3, <1>4

\* `Before' orders the viable spreads of a row.
LEMMA BeforeIsAnOrder ==
  ASSUME NEW chain \in Chains, NEW r
  PROVE  /\ \A i \in ViableOf(chain, r) : ~Before(chain, i, i, r)
         /\ \A i, j, k \in ViableOf(chain, r) :
              Before(chain, i, j, r) /\ Before(chain, j, k, r) => Before(chain, i, k, r)
<1>1. \A i \in ViableOf(chain, r) :
        /\ i \in Nat
        /\ DOMAIN RankKey(chain[i], r) = 1..7
        /\ \A n \in 1..7 : RankKey(chain[i], r)[n] \in Int
  <2> TAKE i \in ViableOf(chain, r)
  <2>1. i \in Nat /\ Spread(chain[i]) /\ Viable(chain[i])
    BY ViableOfType DEF ViableOf
  <2> QED BY <2>1, RankKeyType
<1>2. ASSUME NEW i \in ViableOf(chain, r) PROVE ~Before(chain, i, i, r)
  BY <1>1, ExceedsIrreflexive DEF Before
<1>3. ASSUME NEW i \in ViableOf(chain, r), NEW j \in ViableOf(chain, r),
             NEW k \in ViableOf(chain, r),
             Before(chain, i, j, r), Before(chain, j, k, r)
      PROVE  Before(chain, i, k, r)
  <2> DEFINE a == RankKey(chain[i], r)
             b == RankKey(chain[j], r)
             c == RankKey(chain[k], r)
  <2>1. (Exceeds(a, b) \/ (a = b /\ i < j)) /\ (Exceeds(b, c) \/ (b = c /\ j < k))
    BY <1>3 DEF Before
  <2>2. Exceeds(a, b) /\ Exceeds(b, c) => Exceeds(a, c)
    BY <1>1, ExceedsTransitive
  <2>3. i \in Nat /\ j \in Nat /\ k \in Nat
    BY <1>1
  <2>4. Exceeds(a, c) \/ (a = c /\ i < k)
    <3> HIDE DEF a, b, c
    <3> QED BY <2>1, <2>2, <2>3
  <2> QED BY <2>4 DEF Before
<1> QED
  BY <1>2, <1>3

\* A viable spread has rank 1 exactly when no viable spread of its row comes before.
LEMMA RankOne ==
  ASSUME NEW chain \in Chains, NEW r, NEW i \in ViableOf(chain, r)
  PROVE  SelectionRank(chain, i, r) = 1 <=>
           \A j \in ViableOf(chain, r) : ~Before(chain, j, i, r)
<1> DEFINE ahead == {j \in ViableOf(chain, r) : Before(chain, j, i, r)}
<1>1. SelectionRank(chain, i, r) = 1 + Cardinality(ahead)
  BY DEF SelectionRank, ViableOf
<1>2. IsFiniteSet(ahead)
  BY ViableOfType, FS_Subset
<1>3. Cardinality(ahead) \in Nat /\ (Cardinality(ahead) = 0 <=> ahead = {})
  BY <1>2, FS_CardinalityType, FS_EmptySet
<1> QED
  BY <1>1, <1>3

\* A rank is a natural number.
LEMMA RankType ==
  ASSUME NEW chain \in Chains, NEW r, NEW i \in DOMAIN chain
  PROVE  SelectionRank(chain, i, r) \in Nat
<1> DEFINE mine == OfSymbol(chain, r.symbol)
           viable == {j \in mine : Viable(chain[j])}
           ahead == {j \in viable : Before(chain, j, i, r)}
           poor == {j \in mine \ viable : j < i}
<1>1. IsFiniteSet(DOMAIN chain)
  BY ChainsAssumption, FS_Interval
<1>2. /\ viable \subseteq DOMAIN chain /\ ahead \subseteq DOMAIN chain
      /\ poor \subseteq DOMAIN chain
  BY DEF OfSymbol
<1>3. \A S : S \subseteq DOMAIN chain => Cardinality(S) \in Nat
  BY <1>1, FS_Subset, FS_CardinalityType
<1>4. Cardinality(viable) \in Nat /\ Cardinality(ahead) \in Nat /\ Cardinality(poor) \in Nat
  <2> HIDE DEF viable, ahead, poor
  <2> QED BY <1>2, <1>3
<1>5. SelectionRank(chain, i, r) \in {1 + Cardinality(ahead),
                                       1 + Cardinality(viable) + Cardinality(poor)}
  BY DEF SelectionRank
<1> QED
  BY <1>4, <1>5

\* The viable spreads ranked before spread i.
Ahead(chain, i, r) == {j \in ViableOf(chain, r) : Before(chain, j, i, r)}

\* Where some spread is viable, one of them has rank 1.
LEMMA SomeRankOne ==
  ASSUME NEW chain \in Chains, NEW r, ViableOf(chain, r) # {}
  PROVE  \E i \in ViableOf(chain, r) : \A j \in ViableOf(chain, r) : ~Before(chain, j, i, r)
<1> DEFINE F == {Ahead(chain, i, r) : i \in ViableOf(chain, r)}
<1>1. F # {} /\ \A A \in F : IsFiniteSet(A)
  <2>1. \A i \in ViableOf(chain, r) :
          IsFiniteSet(Ahead(chain, i, r))
    BY ViableOfType, FS_Subset DEF Ahead
  <2> QED BY <2>1
<1>2. PICK A \in F : \A B \in F : B \subseteq A => B = A
  <2> HIDE DEF F
  <2> QED BY <1>1, SmallestSet
<1>3. PICK i \in ViableOf(chain, r) : A = Ahead(chain, i, r)
  OBVIOUS
<1>4. ASSUME NEW j \in ViableOf(chain, r), Before(chain, j, i, r) PROVE FALSE
  <2>1. Ahead(chain, j, r) \subseteq Ahead(chain, i, r)
    BY <1>4, BeforeIsAnOrder DEF Ahead
  <2>2. Ahead(chain, j, r) = Ahead(chain, i, r)
    BY <2>1, <1>2, <1>3
  <2>3. j \in Ahead(chain, i, r)
    BY <1>4 DEF Ahead
  <2>4. j \notin Ahead(chain, j, r)
    BY BeforeIsAnOrder DEF Ahead
  <2> QED BY <2>2, <2>3, <2>4
<1> QED
  BY <1>4

-----------------------------------------------------------------------------
(* The rows of the expressions CSV and their labels                        *)

\* A row of the CSV is a spread of the chain under the candidate row it names.
LEMMA RowOf ==
  ASSUME NEW b \in Boards, NEW chain \in Chains, NEW x \in Expressions(b, chain)
  PROVE  /\ x.row \in DOMAIN b
         /\ x.tier = TierFor(x.spread, b[x.row])
         /\ Spread(x.spread) /\ x.rank \in Nat
         /\ x.spread.symbol \in Queried(b)
         /\ x.status = ExpressionStatus(Viable(x.spread), x.rank,
                        Viable(x.spread) /\ PassesTier(x.spread, x.tier))
         /\ \E i \in DOMAIN chain :
              /\ x.spread = chain[i] /\ i \in OfSymbol(chain, b[x.row].symbol)
              /\ x.rank = SelectionRank(chain, i, b[x.row])
<1>1. PICK k \in DOMAIN b, i \in Fetched(b, chain) :
        chain[i].symbol = b[k].symbol /\ x = Expression(b, chain, k, i)
  BY DEF Expressions
<1>2. i \in DOMAIN chain /\ chain[i].symbol \in Queried(b)
  BY DEF Fetched
<1>3. /\ x.row = k /\ x.spread = chain[i] /\ x.tier = TierFor(chain[i], b[k])
      /\ x.rank = SelectionRank(chain, i, b[k])
      /\ x.status = ExpressionStatus(Viable(chain[i]), SelectionRank(chain, i, b[k]),
                      Viable(chain[i]) /\ PassesTier(chain[i], TierFor(chain[i], b[k])))
  BY <1>1 DEF Expression
<1>4. Spread(chain[i])
  BY <1>2, ViableOfType
<1>5. SelectionRank(chain, i, b[k]) \in Nat
  BY <1>2, RankType
<1>6. i \in OfSymbol(chain, b[k].symbol)
  BY <1>1, <1>2 DEF OfSymbol
<1> QED
  BY <1>2, <1>3, <1>4, <1>5, <1>6

\* Conversely, a spread of a queried symbol is listed under each row of its symbol.
LEMMA RowIn ==
  ASSUME NEW b \in Boards, NEW chain \in Chains, NEW k \in DOMAIN b, NEW i \in DOMAIN chain,
         chain[i].symbol = b[k].symbol, chain[i].symbol \in Queried(b)
  PROVE  Expression(b, chain, k, i) \in Expressions(b, chain)
<1>1. <<k, i>> \in (DOMAIN b) \X Fetched(b, chain)
  BY DEF Fetched
<1> QED
  BY <1>1 DEF Expressions

\* What each label of _label_expression_status means.
LEMMA StatusMeaning ==
  ASSUME NEW viable \in BOOLEAN, NEW passes \in BOOLEAN, NEW rank, passes => viable
  PROVE  /\ ExpressionStatus(viable, rank, passes) \in Status
         /\ ExpressionStatus(viable, rank, passes) = "PRIMARY" <=> passes /\ rank = 1
         /\ ExpressionStatus(viable, rank, passes) = "ALTERNATE" <=> passes /\ rank # 1
         /\ ExpressionStatus(viable, rank, passes) = "WATCH" <=> viable /\ ~passes
BY DEF ExpressionStatus, Status

Passing(x) == Viable(x.spread) /\ PassesTier(x.spread, x.tier)

LEMMA RowStatus ==
  ASSUME NEW b \in Boards, NEW chain \in Chains, NEW x \in Expressions(b, chain)
  PROVE  /\ x.status \in Status
         /\ x.status = "PRIMARY" <=> Passing(x) /\ x.rank = 1
         /\ x.status = "ALTERNATE" <=> Passing(x) /\ x.rank # 1
         /\ x.status = "WATCH" <=> Viable(x.spread) /\ ~Passing(x)
<1>1. Viable(x.spread) \in BOOLEAN /\ Passing(x) \in BOOLEAN
  BY DEF Viable, Passing
<1>2. x.status = ExpressionStatus(Viable(x.spread), x.rank, Passing(x))
  BY RowOf DEF Passing
<1>3. Passing(x) => Viable(x.spread)
  BY DEF Passing
<1> HIDE DEF Passing
<1> QED
  BY <1>1, <1>2, <1>3, StatusMeaning

\* A row with a spread that passes has a primary.
LEMMA PrimaryExists ==
  ASSUME NEW b \in Boards, NEW chain \in Chains, NEW x \in Expressions(b, chain), Passing(x)
  PROVE  \E y \in Expressions(b, chain) : y.row = x.row /\ y.status = "PRIMARY"
<1> DEFINE r == b[x.row]
<1>1. x.row \in DOMAIN b /\ x.tier = TierFor(x.spread, r) /\ x.spread.symbol \in Queried(b)
  BY RowOf
<1>2. PICK j \in DOMAIN chain : x.spread = chain[j] /\ j \in OfSymbol(chain, r.symbol)
  BY RowOf
<1>3. j \in ViableOf(chain, r)
  BY <1>2 DEF ViableOf, Passing
<1>4. PICK i \in ViableOf(chain, r) : \A n \in ViableOf(chain, r) : ~Before(chain, n, i, r)
  BY <1>3, SomeRankOne
<1>5. /\ i \in DOMAIN chain /\ Spread(chain[i]) /\ Viable(chain[i])
      /\ chain[i].symbol = r.symbol
      /\ Spread(chain[j]) /\ Viable(chain[j]) /\ chain[j].symbol = r.symbol
  BY <1>3, ViableOfType DEF ViableOf, OfSymbol
<1>6. PassesTier(chain[i], TierFor(chain[i], r))
  <2> SUFFICES ASSUME ~PassesTier(chain[i], TierFor(chain[i], r)) PROVE FALSE
    OBVIOUS
  <2>1. RankKey(chain[i], r)[1] = 0 /\ RankKey(chain[j], r)[1] = 1
    BY <1>1, <1>2, <1>5, RankKeyType DEF One, Passing
  <2>2. DOMAIN RankKey(chain[j], r) = 1..7
    BY <1>5, RankKeyType
  <2>3. Exceeds(RankKey(chain[j], r), RankKey(chain[i], r))
    BY <2>1, <2>2 DEF Exceeds
  <2> QED BY <2>3, <1>3, <1>4 DEF Before
<1>7. SelectionRank(chain, i, r) = 1
  BY <1>4, RankOne
<1> DEFINE y == Expression(b, chain, x.row, i)
<1>8. y \in Expressions(b, chain)
  BY <1>1, <1>2, <1>5, RowIn
<1>9. y.row = x.row /\ y.spread = chain[i] /\ y.tier = TierFor(chain[i], r) /\ y.rank = 1
  BY <1>7 DEF Expression
<1>10. Passing(y)
  BY <1>5, <1>6, <1>9 DEF Passing
<1>11. y.status = "PRIMARY"
  <2> HIDE DEF y
  <2> QED BY <1>8, <1>9, <1>10, RowStatus
<1> QED
  BY <1>8, <1>9, <1>11

\* No spread of a row that passes has a better score than the row's primary.
LEMMA PrimaryIsBest ==
  ASSUME NEW b \in Boards, NEW chain \in Chains,
         NEW x \in Expressions(b, chain), x.status = "PRIMARY",
         NEW y \in Expressions(b, chain), y.row = x.row, Passing(y)
  PROVE  DealerWeightedScore(y.spread, b[x.row]) <= DealerWeightedScore(x.spread, b[x.row])
<1> DEFINE r == b[x.row]
<1>1. Passing(x) /\ x.rank = 1
  BY RowStatus
<1>2. PICK i \in DOMAIN chain : /\ x.spread = chain[i] /\ i \in OfSymbol(chain, r.symbol)
                                /\ x.rank = SelectionRank(chain, i, r)
  BY RowOf
<1>3. PICK j \in DOMAIN chain : y.spread = chain[j] /\ j \in OfSymbol(chain, r.symbol)
  BY RowOf
<1>4. i \in ViableOf(chain, r) /\ j \in ViableOf(chain, r)
  BY <1>1, <1>2, <1>3 DEF ViableOf, Passing
<1>5. ~Exceeds(RankKey(chain[j], r), RankKey(chain[i], r))
  BY <1>1, <1>2, <1>4, RankOne DEF Before
<1>6. x.tier = TierFor(chain[i], r) /\ y.tier = TierFor(chain[j], r)
  BY <1>2, <1>3, RowOf
<1>7. /\ Spread(chain[i]) /\ Viable(chain[i]) /\ Spread(chain[j]) /\ Viable(chain[j])
  BY <1>4, ViableOfType DEF ViableOf
<1>8. RankKey(chain[i], r)[1] = 1 /\ RankKey(chain[j], r)[1] = 1
  BY <1>1, <1>2, <1>3, <1>6, <1>7, RankKeyType DEF One, Passing
<1>9. /\ RankKey(chain[i], r)[2] = DealerWeightedScore(chain[i], r)
      /\ RankKey(chain[j], r)[2] = DealerWeightedScore(chain[j], r)
      /\ DOMAIN RankKey(chain[j], r) = 1..7
  BY <1>7, RankKeyType
<1>10. ~(DealerWeightedScore(chain[j], r) > DealerWeightedScore(chain[i], r))
  BY <1>5, <1>8, <1>9 DEF Exceeds
<1>11. DealerWeightedScore(chain[j], r) \in Nat /\ DealerWeightedScore(chain[i], r) \in Nat
  BY ScoreType
<1> QED
  BY <1>2, <1>3, <1>10, <1>11

\* Of rows with ranks, the least is one of them.
LEMMA LeastIn ==
  ASSUME NEW S, S # {}, \A x \in S : x.rank \in Nat
  PROVE  Least(S) \in S
<1> DEFINE N == {x.rank : x \in S}
<1>1. N \in SUBSET Nat /\ N # {}
  OBVIOUS
<1>2. PICK n \in N : \A m \in N : n <= m
  <2> HIDE DEF N
  <2> QED BY <1>1, LeastNumber
<1>3. \E x \in S : \A y \in S : x.rank <= y.rank
  BY <1>2
<1> QED
  BY <1>3 DEF Least

\* The loop columns of a row against the rows `mine' of the CSV that are its own.
MarkIsRight(mark, mine) ==
  /\ mark.primary # None => \E x \in mine : x.status = "PRIMARY" /\ x.spread.id = mark.primary
  /\ mark.watch # None =>
       \A x \in mine : x.status # "PRIMARY"
  /\ mark.loop \in Selected =>
       \E x \in mine : /\ x.status \in {"PRIMARY", "WATCH"}
                      /\ x.spread.id \in {mark.primary, mark.watch}
  /\ mark.loop = "NO_VIABLE_EXPRESSION" =>
       \A x \in mine : x.status \notin {"PRIMARY", "WATCH"}
  /\ mark.loop \in Selected \cup {"NO_VIABLE_EXPRESSION"}

LEMMA MarkForIsRight ==
  ASSUME NEW mine, \A x \in mine : x.rank \in Nat
  PROVE  MarkIsRight(MarkFor(mine), mine)
<1> DEFINE P == Having(mine, "PRIMARY")
           W == Having(mine, "WATCH")
<1>1. P # {} => Least(P) \in P
  BY LeastIn DEF Having
<1>2. W # {} => Least(W) \in W
  BY LeastIn DEF Having
<1>3. CASE P # {}
  <2>1. /\ MarkFor(mine).primary = Least(P).spread.id /\ MarkFor(mine).watch = None
        /\ MarkFor(mine).loop \in {"ALTERNATES_AVAILABLE", "PRIMARY_EXPRESSION_SELECTED"}
    BY <1>3 DEF MarkFor, Mark
  <2>2. Least(P) \in mine /\ Least(P).status = "PRIMARY"
    BY <1>1, <1>3 DEF Having
  <2> QED BY <2>1, <2>2 DEF MarkIsRight, Selected
<1>4. CASE P = {} /\ W # {}
  <2>1. /\ MarkFor(mine).primary = None /\ MarkFor(mine).watch = Least(W).spread.id
        /\ MarkFor(mine).loop = "WATCH_EXPRESSION_AVAILABLE"
    BY <1>4 DEF MarkFor, Mark
  <2>2. Least(W) \in mine /\ Least(W).status = "WATCH"
    BY <1>2, <1>4 DEF Having
  <2>3. \A x \in mine : x.status # "PRIMARY"
    BY <1>4 DEF Having
  <2> QED BY <2>1, <2>2, <2>3 DEF MarkIsRight, Selected
<1>5. CASE P = {} /\ W = {}
  <2>1. /\ MarkFor(mine).primary = None /\ MarkFor(mine).watch = None
        /\ MarkFor(mine).loop = "NO_VIABLE_EXPRESSION"
    BY <1>5 DEF MarkFor, Mark
  <2>2. \A x \in mine : x.status \notin {"PRIMARY", "WATCH"}
    BY <1>5 DEF Having
  <2> QED BY <2>1, <2>2 DEF MarkIsRight, Selected
<1> QED
  BY <1>3, <1>4, <1>5

-----------------------------------------------------------------------------
(* The frontier                                                            *)

\* Of rows with a candidate row and a rank, one is earlier than all.
LEMMA EarliestExists ==
  ASSUME NEW S, S # {}, \A x \in S : x.row \in Nat /\ x.rank \in Nat
  PROVE  \E x \in S : \A y \in S : Earlier(x, y)
<1> DEFINE N == {x.row : x \in S}
<1>1. N \in SUBSET Nat /\ N # {}
  OBVIOUS
<1>2. PICK n \in N : \A m \in N : n <= m
  <2> HIDE DEF N
  <2> QED BY <1>1, LeastNumber
<1> DEFINE M == {x.rank : x \in {y \in S : y.row = n}}
<1>3. M \in SUBSET Nat /\ M # {}
  BY <1>2
<1>4. PICK m \in M : \A l \in M : m <= l
  <2> HIDE DEF M
  <2> QED BY <1>3, LeastNumber
<1>5. PICK x \in S : x.row = n /\ x.rank = m
  BY <1>4
<1>6. ASSUME NEW y \in S PROVE Earlier(x, y)
  <2>1. n <= y.row /\ (y.row = n => m <= y.rank)
    BY <1>2, <1>4
  <2>2. x.row \in Nat /\ y.row \in Nat /\ x.rank \in Nat /\ y.rank \in Nat
    OBVIOUS
  <2> QED BY <1>5, <2>1, <2>2 DEF Earlier
<1> QED
  BY <1>6

\* The spread the frontier of rows with a primary starts from is such a primary's.
LEMMA BaseIsPrimary ==
  ASSUME NEW mine, Having(mine, "PRIMARY") # {},
         \A x \in mine : x.row \in Nat /\ x.rank \in Nat
  PROVE  \E x \in Having(mine, "PRIMARY") : Base(mine) = x.spread
<1> DEFINE P == Having(mine, "PRIMARY")
           first == CHOOSE x \in P : \A y \in P : Earlier(x, y)
<1>1. \E x \in P : \A y \in P : Earlier(x, y)
  <2>1. \A x \in P : x.row \in Nat /\ x.rank \in Nat
    BY DEF Having
  <2>2. P # {}
    OBVIOUS
  <2> HIDE DEF P
  <2> QED BY <2>1, <2>2, EarliestExists
<1>2. first \in P
  BY <1>1
<1>3. Base(mine) = first.spread
  BY DEF Base
<1> QED
  BY <1>2, <1>3

\* A symbol with a primary that the frontier does not challenge has a primary that
\* no spread found for the symbol outdoes in payoff or in width.
LEMMA UnchallengedIsUnrivalled ==
  ASSUME NEW b \in Boards, NEW chain \in Chains, NEW s,
         s \notin Challenged(Expressions(b, chain))
  PROVE  LET mine == {x \in Competing(Expressions(b, chain)) : x.spread.symbol = s}
         IN Having(mine, "PRIMARY") # {} =>
              \E x \in Having(mine, "PRIMARY") : \A y \in mine :
                /\ Payoff(y.spread) <= Payoff(x.spread)
                /\ y.spread.width <= x.spread.width
<1> DEFINE found == Expressions(b, chain)
           mine == {x \in Competing(found) : x.spread.symbol = s}
<1> SUFFICES ASSUME Having(mine, "PRIMARY") # {}
             PROVE  \E x \in Having(mine, "PRIMARY") : \A y \in mine :
                      /\ Payoff(y.spread) <= Payoff(x.spread)
                      /\ y.spread.width <= x.spread.width
  OBVIOUS
<1>1. ASSUME NEW x \in mine
      PROVE  /\ x \in found /\ x.row \in Nat /\ x.rank \in Nat
             /\ Payoff(x.spread) \in Int /\ x.spread.width \in Int
             /\ x.spread \in {chain[i] : i \in DOMAIN chain}
  <2>1. x \in found /\ x.status \in {"PRIMARY", "ALTERNATE", "WATCH"}
    BY DEF Competing
  <2>2. x.row \in Nat /\ x.rank \in Nat /\ Spread(x.spread)
    BY <2>1, RowOf, BoardsAssumption
  <2>3. Viable(x.spread)
    BY <2>1, RowStatus DEF Passing
  <2>4. x.spread.pmp \in Int /\ x.spread.profit \in Int /\ x.spread.loss \in Int
    BY <2>2, <2>3 DEF Spread, Viable
  <2>5. Payoff(x.spread) \in Int
    BY <2>4 DEF Payoff
  <2>6. x.spread \in {chain[i] : i \in DOMAIN chain}
    BY <2>1, RowOf
  <2> QED BY <2>1, <2>2, <2>5, <2>6 DEF Spread
<1>2. PICK x \in Having(mine, "PRIMARY") : Base(mine) = x.spread
  <2>1. \A y \in mine : y.row \in Nat /\ y.rank \in Nat
    BY <1>1
  <2> HIDE DEF mine
  <2> QED BY <2>1, BaseIsPrimary
<1>3. x \in mine /\ s \in {y.spread.symbol : y \in Competing(found)}
  BY DEF Having
<1>4. \A y \in mine : ~(y.spread.id # Base(mine).id /\ Outdoes(y.spread, Base(mine)))
  BY <1>3 DEF Challenged
<1>5. ASSUME NEW y \in mine
      PROVE  /\ Payoff(y.spread) <= Payoff(x.spread)
             /\ y.spread.width <= x.spread.width
  <2>1. /\ Payoff(y.spread) \in Int /\ Payoff(x.spread) \in Int
        /\ y.spread.width \in Int /\ x.spread.width \in Int
    BY <1>1, <1>3
  <2>2. CASE y.spread.id = x.spread.id
    <3>1. PICK i \in DOMAIN chain, j \in DOMAIN chain : y.spread = chain[i] /\ x.spread = chain[j]
      BY <1>1, <1>3
    <3>2. y.spread = x.spread
      BY <2>2, <3>1, ChainsAssumption
    <3> QED BY <2>1, <3>2
  <2>3. CASE y.spread.id # x.spread.id
    <3>1. ~Outdoes(y.spread, x.spread)
      BY <2>3, <1>2, <1>4
    <3>2. ~(Payoff(y.spread) > Payoff(x.spread)) /\ ~(y.spread.width > x.spread.width)
      BY <3>1 DEF Outdoes
    <3> QED BY <2>1, <3>2
  <2> QED BY <2>2, <2>3
<1> QED
  BY <1>5

-----------------------------------------------------------------------------
(* The invariant                                                           *)

\* An expression that may be made ready for paper review.
Ready(x) ==
  /\ Viable(x.spread) /\ ~PassesTier(x.spread, x.tier) /\ x.tier \in {"C", "D"}
  /\ x.spread.loss <= RiskCap
  /\ x.spread.pmp <= PmpDealerMax[x.tier] + 3
  /\ 100 * x.spread.profit >= (RrDealerRequired[x.tier] - 10) * x.spread.loss

\* The reviews that may be written of the expressions of the run.
SoundReviews ==
  {review \in [id : {x.spread.id : x \in expressions}, status : Promotion] :
     review.status = "WATCH_OPERATOR_APPROVED" => Ready(FirstOf(review.id))}

\* Expressions and marks come from one hydration, or nothing was hydrated.
Origin ==
  \/ /\ expressions = {}
     /\ \A k \in DOMAIN board :
          /\ marks[k].primary = None /\ marks[k].watch = None
          /\ marks[k].loop \in {"HYDRATION_PENDING", "PARKED_DATA_GAP"}
  \/ \E chain \in Chains :
       /\ expressions = Expressions(board, chain)
       /\ \A k \in DOMAIN board : marks[k] = MarkFor({x \in expressions : x.row = k})

\* The audit is that of the marks, or of a table and the expressions.
AuditOrigin ==
  /\ stage \in {"labelled", "hydrated"} => audit = <<>>
  /\ stage \in {"audited", "advised"} =>
       audit = [k \in DOMAIN board |->
                  [symbol |-> board[k].symbol, class |-> Classification(board[k], marks[k])]]
  /\ stage = "compared" => \E table \in Tables : audit = SpreadAudit(table, expressions)
  /\ stage = "not_compared" => \E table \in Tables : audit = SpreadAudit(table, {})

Unreviewed ==
  /\ reviews = <<>>
  /\ copy = [op \in Operators |-> <<>>] /\ draft = [op \in Operators |-> None]

Reviewed ==
  /\ reviews \in Seq(SoundReviews)
  /\ copy \in [Operators -> Seq(SoundReviews)]
  /\ draft \in [Operators -> SoundReviews \cup {None}]

Stages == {"labelled", "hydrated", "audited", "compared", "not_compared", "advised"}

IInv ==
  /\ board \in Boards /\ stage \in Stages /\ DOMAIN marks = DOMAIN board
  /\ Origin
  /\ AuditOrigin
  /\ stage = "labelled" => expressions = {} /\ Unreviewed
  /\ Reviewed

\* A run starts with rows that were not hydrated and no review.
LEMMA InitIInv == Init => IInv
<1> SUFFICES ASSUME Init PROVE IInv
  OBVIOUS
<1>1. board \in Boards /\ stage \in Stages /\ DOMAIN marks = DOMAIN board
  BY DEF Init, Stages
<1>2. Origin
  BY DEF Init, Origin, Pending, Mark
<1>3. AuditOrigin /\ expressions = {} /\ Unreviewed
  BY DEF Init, AuditOrigin, Unreviewed
<1>4. Reviewed
  BY DEF Init, Reviewed
<1> QED
  BY <1>1, <1>2, <1>3, <1>4 DEF IInv

\* While the expressions stay, so do the reviews that may be written of them.
LEMMA SameReviews ==
  ASSUME UNCHANGED expressions
  PROVE  SoundReviews' = SoundReviews
BY DEF SoundReviews, FirstOf

\* Hydration, whatever came of it, keeps the invariant.
LEMMA HydrationKeeps ==
  ASSUME IInv, HydrateWithoutClient \/ HydrateWithoutQuotes \/ Hydrate
  PROVE  IInv'
<1>1. stage = "labelled" /\ stage' = "hydrated" /\ UNCHANGED <<board, audit, reviews, copy, draft>>
  BY DEF HydrateWithoutClient, HydrateWithoutQuotes, Hydrate
<1>2. Unreviewed /\ audit = <<>> /\ board \in Boards
  BY <1>1 DEF IInv, AuditOrigin
<1>3. Origin' /\ DOMAIN marks' = DOMAIN board'
  <2>1. CASE Hydrate
    <3>1. PICK chain \in Chains :
            /\ expressions' = Expressions(board, chain)
            /\ marks' = [k \in DOMAIN board |->
                           MarkFor({x \in Expressions(board, chain) : x.row = k})]
      BY <2>1 DEF Hydrate
    <3> QED BY <1>1, <3>1 DEF Origin
  <2>2. CASE HydrateWithoutClient \/ HydrateWithoutQuotes
    <3>1. expressions' = expressions /\ \E hydration, gap :
            marks' = [k \in DOMAIN board |->
                        Mark("PARKED_DATA_GAP", hydration, None, None, gap)]
      BY <2>2 DEF HydrateWithoutClient, HydrateWithoutQuotes, Everywhere
    <3>2. expressions = {}
      BY <1>1 DEF IInv
    <3> QED BY <1>1, <3>1, <3>2 DEF Origin, Mark
  <2> QED BY <2>1, <2>2
<1>4. AuditOrigin'
  BY <1>1, <1>2 DEF AuditOrigin
<1>5. Reviewed'
  BY <1>1, <1>2 DEF Reviewed, Unreviewed
<1> QED
  BY <1>1, <1>2, <1>3, <1>4, <1>5 DEF IInv, Stages

\* The guard and the advisory keep the invariant.
LEMMA AuditKeeps ==
  ASSUME IInv, AuditReplay \/ AuditSpreads \/ Advise
  PROVE  IInv'
<1>1. /\ stage # "labelled" /\ stage' # "labelled" /\ stage' \in Stages
      /\ UNCHANGED <<board, marks, expressions, reviews, copy, draft>>
  BY DEF AuditReplay, AuditSpreads, Advise, Stages
<1>2. board' \in Boards /\ DOMAIN marks' = DOMAIN board' /\ Origin'
  BY <1>1 DEF IInv, Origin
<1>3. Reviewed'
  BY <1>1, SameReviews DEF IInv, Reviewed
<1>4. AuditOrigin'
  <2>1. CASE AuditReplay
    BY <2>1 DEF AuditReplay, AuditOrigin
  <2>2. CASE AuditSpreads
    <3>1. PICK table \in Tables :
            \/ audit' = SpreadAudit(table, expressions) /\ stage' = "compared"
            \/ audit' = SpreadAudit(table, {}) /\ stage' = "not_compared"
      BY <2>2 DEF AuditSpreads
    <3> QED BY <1>1, <3>1 DEF AuditOrigin
  <2>3. CASE Advise
    BY <2>3 DEF Advise, AuditOrigin, IInv
  <2> QED BY <2>1, <2>2, <2>3
<1> QED
  BY <1>1, <1>2, <1>3, <1>4 DEF IInv

\* An approval means that none of the block reasons holds and the cap is kept.
LEMMA ApprovalMeans ==
  ASSUME NEW x, NEW r, NEW decision, NEW reasoned \in BOOLEAN,
         NEW manifest \in [live : BOOLEAN, mutated : BOOLEAN]
  PROVE  /\ PromotionStatus(x, r, decision, reasoned, manifest) \in Promotion
         /\ PromotionStatus(x, r, decision, reasoned, manifest) = "WATCH_OPERATOR_APPROVED" =>
              /\ BlockReasons(x, r, reasoned, manifest.mutated) = {}
              /\ ~(x.spread.loss > 0 /\ x.spread.loss > RiskCap)
<1> DEFINE blocks == BlockReasons(x, r, reasoned, manifest.mutated)
           capped == x.spread.loss > 0 /\ x.spread.loss > RiskCap
<1>1. capped \in BOOLEAN
  OBVIOUS
<1>2. PromotionStatus(x, r, decision, reasoned, manifest) =
        CASE manifest.live -> "BLOCKED_LIVE_MODE"
          [] ~manifest.live /\ capped -> "BLOCKED_RISK_CAP"
          [] ~manifest.live /\ ~capped /\ decision = "reject" -> "WATCH_OPERATOR_REJECTED"
          [] /\ ~manifest.live /\ ~capped /\ decision = "approve"
             /\ blocks = {} -> "WATCH_OPERATOR_APPROVED"
          [] OTHER -> IF reasoned THEN "BLOCKED" ELSE "BLOCKED_MISSING_REASON"
  BY DEF PromotionStatus
<1> HIDE DEF blocks, capped
<1>3. /\ PromotionStatus(x, r, decision, reasoned, manifest) \in Promotion
      /\ PromotionStatus(x, r, decision, reasoned, manifest) = "WATCH_OPERATOR_APPROVED" =>
           blocks = {} /\ ~capped
  BY <1>1, <1>2 DEF Promotion
<1> QED
  BY <1>3 DEF blocks, capped

\* An expression of the CSV that no reason blocks is ready.
LEMMA UnblockedIsReady ==
  ASSUME NEW b \in Boards, NEW chain \in Chains, NEW x \in Expressions(b, chain),
         NEW r, NEW reasoned \in BOOLEAN, NEW mutated \in BOOLEAN,
         BlockReasons(x, r, reasoned, mutated) = {},
         ~(x.spread.loss > 0 /\ x.spread.loss > RiskCap)
  PROVE  Ready(x)
<1> DEFINE e == x.spread
<1>1. /\ Reason(x.status # "WATCH", "not_watch_expression") = {}
      /\ Reason(x.tier \notin {"C", "D"}, "dealer_gate_tier_not_c_or_d") = {}
      /\ Reason(e.loss > 0 /\ 100 * e.profit < (RrDealerRequired[x.tier] - 10) * e.loss,
                "rr_below_tier_tolerance") = {}
      /\ Reason(e.pmp # None /\ e.pmp > PmpDealerMax[x.tier] + 3,
                "pmp_above_tier_tolerance") = {}
  BY DEF BlockReasons
<1>2. \A name : \A c \in BOOLEAN : Reason(c, name) = {} => ~c
  BY DEF Reason
<1>3. x.status = "WATCH" /\ x.tier \in {"C", "D"}
  BY <1>1, <1>2
<1>4. /\ ~(e.loss > 0 /\ 100 * e.profit < (RrDealerRequired[x.tier] - 10) * e.loss)
      /\ ~(e.pmp # None /\ e.pmp > PmpDealerMax[x.tier] + 3)
  BY <1>1, <1>2
<1>5. Viable(e) /\ ~PassesTier(e, x.tier)
  BY <1>3, RowStatus DEF Passing
<1>6. e.loss > 0 /\ e.pmp # None /\ e.loss \in Int /\ e.profit \in Int /\ e.pmp \in Int
  BY <1>5, RowOf DEF Viable, Spread
<1>7. RrDealerRequired[x.tier] \in Int /\ PmpDealerMax[x.tier] \in Int
  BY <1>3 DEF RrDealerRequired, PmpDealerMax
<1>8. e.loss <= RiskCap
  BY <1>6, BoundsAssumption
<1>9. e.pmp <= PmpDealerMax[x.tier] + 3
  BY <1>4, <1>6, <1>7
<1>10. 100 * e.profit >= (RrDealerRequired[x.tier] - 10) * e.loss
  <2>1. 100 * e.profit \in Int /\ (RrDealerRequired[x.tier] - 10) * e.loss \in Int
    BY <1>6, <1>7
  <2>2. ~(100 * e.profit < (RrDealerRequired[x.tier] - 10) * e.loss)
    BY <1>4, <1>6
  <2> QED BY <2>1, <2>2
<1> QED
  BY <1>3, <1>5, <1>8, <1>9, <1>10 DEF Ready

\* The first row of the CSV with a spread's id is one of its rows.
LEMMA FirstIn ==
  ASSUME IInv, NEW x \in expressions
  PROVE  /\ FirstOf(x.spread.id) \in expressions
         /\ FirstOf(x.spread.id).spread.id = x.spread.id
<1> DEFINE hits == {y \in expressions : y.spread.id = x.spread.id}
           N == {y.row : y \in hits}
<1>1. \A y \in expressions : y.row \in Nat
  <2>1. PICK chain \in Chains : expressions = Expressions(board, chain)
    BY DEF IInv, Origin
  <2>2. board \in Boards
    BY DEF IInv
  <2> QED BY <2>1, <2>2, RowOf, BoardsAssumption
<1>2. N \in SUBSET Nat /\ N # {}
  BY <1>1
<1>3. PICK n \in N : \A m \in N : n <= m
  <2> HIDE DEF N
  <2> QED BY <1>2, LeastNumber
<1>4. \E y \in hits : \A z \in hits : y.row <= z.row
  BY <1>3
<1>5. FirstOf(x.spread.id) \in hits
  BY <1>4 DEF FirstOf
<1> QED
  BY <1>5

\* Reviewing, storing a review and a dry run keep the invariant.
LEMMA ReviewKeeps ==
  ASSUME IInv, NEW op \in Operators, Review(op) \/ Store(op) \/ DryRun(op)
  PROVE  IInv'
<1>1. UNCHANGED run
  BY DEF Review, Store, DryRun
<1>2. stage # "labelled"
  BY DEF Review, Store, DryRun, IInv, Unreviewed
<1>3. /\ board' \in Boards /\ stage' \in Stages /\ stage' # "labelled"
      /\ DOMAIN marks' = DOMAIN board' /\ Origin' /\ AuditOrigin'
  BY <1>1, <1>2 DEF IInv, run, Origin, AuditOrigin
<1>4. SoundReviews' = SoundReviews
  BY <1>1, SameReviews DEF run
<1>5. Reviewed'
  <2>1. CASE Review(op)
    <3>1. PICK x \in expressions, decision \in {"approve", "reject"}, reasoned \in BOOLEAN,
               manifest \in [live : BOOLEAN, mutated : BOOLEAN] :
            LET first == FirstOf(x.spread.id)
                status == PromotionStatus(first, board[first.row], decision, reasoned, manifest)
            IN draft' = [draft EXCEPT ![op] = [id |-> first.spread.id, status |-> status]]
      BY <2>1 DEF Review
    <3> DEFINE first == FirstOf(x.spread.id)
               status == PromotionStatus(first, board[first.row], decision, reasoned, manifest)
               review == [id |-> first.spread.id, status |-> status]
    <3>2. first \in expressions /\ FirstOf(first.spread.id) = first
      BY FirstIn
    <3>3. PICK chain \in Chains : expressions = Expressions(board, chain)
      BY DEF IInv, Origin
    <3>4. /\ status \in Promotion
          /\ status = "WATCH_OPERATOR_APPROVED" =>
               /\ BlockReasons(first, board[first.row], reasoned, manifest.mutated) = {}
               /\ ~(first.spread.loss > 0 /\ first.spread.loss > RiskCap)
      <4>1. \A x1, r1 :
              /\ PromotionStatus(x1, r1, decision, reasoned, manifest) \in Promotion
              /\ PromotionStatus(x1, r1, decision, reasoned, manifest)
                   = "WATCH_OPERATOR_APPROVED" =>
                   /\ BlockReasons(x1, r1, reasoned, manifest.mutated) = {}
                   /\ ~(x1.spread.loss > 0 /\ x1.spread.loss > RiskCap)
        BY ApprovalMeans
      <4> HIDE DEF first
      <4> QED BY <4>1
    <3>5. status = "WATCH_OPERATOR_APPROVED" => Ready(first)
      <4> SUFFICES ASSUME status = "WATCH_OPERATOR_APPROVED" PROVE Ready(first)
        OBVIOUS
      <4>1. /\ BlockReasons(first, board[first.row], reasoned, manifest.mutated) = {}
            /\ ~(first.spread.loss > 0 /\ first.spread.loss > RiskCap)
        BY <3>4
      <4>2. board \in Boards /\ manifest.mutated \in BOOLEAN
        BY DEF IInv
      <4> QED BY <3>2, <3>3, <4>1, <4>2, UnblockedIsReady
    <3>6. review \in SoundReviews
      BY <3>2, <3>4, <3>5 DEF SoundReviews
    <3>7. draft' \in [Operators -> SoundReviews \cup {None}]
      <4> HIDE DEF review
      <4>1. draft' = [draft EXCEPT ![op] = review]
        BY <3>1 DEF review
      <4> QED BY <3>6, <4>1 DEF IInv, Reviewed
    <3>8. copy' \in [Operators -> Seq(SoundReviews)] /\ reviews' = reviews
      BY <2>1 DEF Review, IInv, Reviewed
    <3> QED BY <1>4, <3>7, <3>8 DEF IInv, Reviewed
  <2>2. CASE Store(op)
    <3>1. draft[op] \in SoundReviews /\ copy[op] \in Seq(SoundReviews)
      BY <2>2 DEF Store, IInv, Reviewed
    <3>2. Append(copy[op], draft[op]) \in Seq(SoundReviews)
      BY <3>1
    <3> QED BY <1>4, <2>2, <3>2 DEF Store, IInv, Reviewed
  <2>3. CASE DryRun(op)
    BY <1>4, <2>3 DEF DryRun, IInv, Reviewed
  <2> QED BY <2>1, <2>2, <2>3
<1> QED
  BY <1>3, <1>5 DEF IInv

LEMMA StutterKeeps ==
  ASSUME IInv, UNCHANGED vars
  PROVE  IInv'
<1>1. UNCHANGED run /\ UNCHANGED <<reviews, copy, draft>>
  BY DEF vars
<1>2. SoundReviews' = SoundReviews
  BY <1>1, SameReviews DEF run
<1> QED
  BY <1>1, <1>2 DEF IInv, run, Origin, AuditOrigin, Unreviewed, Reviewed

\* Marks, audit and reviews stay what they were computed from the expressions CSV.
THEOREM InvariantHolds == Spec => []IInv
<1>1. IInv /\ [Next]_vars => IInv'
  <2> SUFFICES ASSUME IInv, [Next]_vars PROVE IInv'
    OBVIOUS
  <2>1. CASE Pipeline
    BY <2>1, HydrationKeeps, AuditKeeps DEF Pipeline
  <2>2. CASE \E op \in Operators : Review(op) \/ Store(op) \/ DryRun(op)
    BY <2>2, ReviewKeeps
  <2>3. CASE UNCHANGED vars
    BY <2>3, StutterKeeps
  <2> QED BY <2>1, <2>2, <2>3 DEF Next
<1> QED
  BY InitIInv, <1>1, PTL DEF Spec

-----------------------------------------------------------------------------
(* The theorems                                                            *)

\* The classes of the audit, whichever table it was made of.
LEMMA AuditClasses ==
  ASSUME IInv, NEW k \in DOMAIN audit
  PROVE  audit[k].class \in Classes
<1>1. CASE stage \in {"audited", "advised"}
  <2>1. k \in DOMAIN board /\ audit[k].class = Classification(board[k], marks[k])
    BY <1>1 DEF IInv, AuditOrigin
  <2>2. marks[k].loop \in Classes
    <3>1. CASE \E chain \in Chains :
                 /\ expressions = Expressions(board, chain)
                 /\ \A n \in DOMAIN board :
                      marks[n] = MarkFor({x \in expressions : x.row = n})
      <4>1. PICK chain \in Chains : expressions = Expressions(board, chain)
        BY <3>1
      <4>2. \A x \in {y \in expressions : y.row = k} : x.rank \in Nat
        BY <4>1, RowOf DEF IInv
      <4>3. MarkIsRight(marks[k], {x \in expressions : x.row = k})
        BY <2>1, <3>1, <4>2, MarkForIsRight
      <4> QED BY <4>3 DEF MarkIsRight, Classes
    <3>2. CASE ~\E chain \in Chains :
                 /\ expressions = Expressions(board, chain)
                 /\ \A n \in DOMAIN board :
                      marks[n] = MarkFor({x \in expressions : x.row = n})
      BY <2>1, <3>2 DEF IInv, Origin, Classes
    <3> QED BY <3>1, <3>2
  <2> QED BY <2>1, <2>2 DEF Classification, Classes
<1>2. ASSUME NEW table, NEW found, audit = SpreadAudit(table, found)
      PROVE  audit[k].class \in Classes
  <2>1. SpreadClass(table[k].failures) \in Classes
    BY DEF SpreadClass, FailureClass, Classes
  <2>2. audit[k] = FrontierGate([symbol |-> table[k].symbol,
                                 class |-> SpreadClass(table[k].failures)], found)
    BY <1>2 DEF SpreadAudit
  <2> QED BY <2>1, <2>2 DEF FrontierGate, Classes
<1>3. CASE stage \in {"labelled", "hydrated"}
  BY <1>3 DEF IInv, AuditOrigin
<1>4. CASE stage \in {"compared", "not_compared"}
  BY <1>2, <1>4 DEF IInv, AuditOrigin
<1> QED
  BY <1>1, <1>3, <1>4 DEF IInv, Stages

\* The loop columns of a row against its rows of the CSV, once it was hydrated.
LEMMA MarksAreRight ==
  ASSUME IInv, NEW k \in DOMAIN board
  PROVE  LET mine == {x \in expressions : x.row = k}
         IN \/ /\ expressions = {} /\ marks[k].primary = None /\ marks[k].watch = None
               /\ marks[k].loop \in {"HYDRATION_PENDING", "PARKED_DATA_GAP"}
            \/ MarkIsRight(marks[k], mine)
<1> DEFINE mine == {x \in expressions : x.row = k}
<1>1. CASE \E chain \in Chains : /\ expressions = Expressions(board, chain)
                               /\ marks[k] = MarkFor(mine)
  <2>1. PICK chain \in Chains : expressions = Expressions(board, chain)
    BY <1>1
  <2>2. \A x \in mine : x.rank \in Nat
    BY <2>1, RowOf DEF IInv
  <2>3. MarkIsRight(MarkFor(mine), mine)
    <3> HIDE DEF mine
    <3> QED BY <2>2, MarkForIsRight
  <2> QED BY <1>1, <2>3
<1> QED
  BY <1>1 DEF IInv, Origin

\* The columns, the audit and the reviews have the values the code writes.
THEOREM TypeCorrect == Spec => []TypeOK
<1>1. IInv => TypeOK
  <2> SUFFICES ASSUME IInv PROVE TypeOK
    OBVIOUS
  <2>1. ASSUME NEW x \in expressions
        PROVE  /\ x.row \in DOMAIN board /\ x.status \in Status
               /\ x.tier \in {"A", "B", "C", "D", "E"}
    <3>1. board \in Boards /\ \E chain \in Chains : expressions = Expressions(board, chain)
      BY DEF IInv, Origin
    <3>2. x.row \in DOMAIN board /\ x.tier = TierFor(x.spread, board[x.row])
      BY <3>1, RowOf
    <3>3. x.status \in Status
      BY <3>1, RowStatus
    <3>4. \A n : Tier(n) \in {"A", "B", "C", "D", "E"}
      BY DEF Tier
    <3> QED BY <3>2, <3>3, <3>4 DEF TierFor
  <2>2. \A op \in Operators : draft[op] # None => draft[op].status \in Promotion
    BY DEF IInv, Reviewed, SoundReviews
  <2>3. \A n \in DOMAIN reviews : reviews[n].status \in Promotion
    <3>1. reviews \in Seq(SoundReviews)
      BY DEF IInv, Reviewed
    <3>2. \A n \in DOMAIN reviews : reviews[n] \in SoundReviews
      BY <3>1
    <3> QED BY <3>2 DEF SoundReviews
  <2> QED BY <2>1, <2>2, <2>3, AuditClasses DEF TypeOK, IInv, Stages
<1> QED
  BY InvariantHolds, <1>1, PTL

\* What hydration says of a row is what its ranked spreads say: the primary passes and
\* has the best dealer score of those that pass, and nothing usable is parked.
THEOREM MarksAreFounded == Spec => []MarksFollowTheRanking
<1>1. IInv => MarksFollowTheRanking
  <2> SUFFICES ASSUME IInv PROVE MarksFollowTheRanking
    OBVIOUS
  <2>1. board \in Boards /\ DOMAIN marks = DOMAIN board
    BY DEF IInv
  <2>2. expressions # {} => \E chain \in Chains : expressions = Expressions(board, chain)
    BY DEF IInv, Origin
  <2>3. ASSUME NEW k \in DOMAIN marks, marks[k].primary # None
        PROVE  \E x \in expressions :
                 /\ x.row = k /\ x.spread.id = marks[k].primary
                 /\ PassesTier(x.spread, x.tier)
                 /\ \A y \in expressions :
                      y.row = k /\ Viable(y.spread) /\ PassesTier(y.spread, y.tier) =>
                        DealerWeightedScore(y.spread, board[k])
                          <= DealerWeightedScore(x.spread, board[k])
    <3>1. MarkIsRight(marks[k], {x \in expressions : x.row = k})
      BY <2>1, <2>3, MarksAreRight
    <3>2. PICK x \in expressions :
            x.row = k /\ x.status = "PRIMARY" /\ x.spread.id = marks[k].primary
      BY <2>3, <3>1 DEF MarkIsRight
    <3>3. PICK chain \in Chains : expressions = Expressions(board, chain)
      BY <2>2, <3>2
    <3>4. PassesTier(x.spread, x.tier)
      BY <2>1, <3>2, <3>3, RowStatus DEF Passing
    <3>5. ASSUME NEW y \in expressions, y.row = k, Viable(y.spread),
                 PassesTier(y.spread, y.tier)
          PROVE  DealerWeightedScore(y.spread, board[k])
                   <= DealerWeightedScore(x.spread, board[k])
      <4>1. Passing(y) /\ y.row = x.row
        BY <3>2, <3>5 DEF Passing
      <4>2. x \in Expressions(board, chain) /\ y \in Expressions(board, chain)
        BY <3>3
      <4>3. DealerWeightedScore(y.spread, board[x.row])
              <= DealerWeightedScore(x.spread, board[x.row])
        BY <2>1, <3>2, <4>1, <4>2, PrimaryIsBest
      <4> QED BY <3>2, <4>3
    <3> QED BY <3>2, <3>4, <3>5
  <2>4. ASSUME NEW k \in DOMAIN marks, expressions # {}
        PROVE  LET mine == {x \in expressions : x.row = k} IN
               /\ marks[k].watch # None =>
                    \A x \in mine : ~(Viable(x.spread) /\ PassesTier(x.spread, x.tier))
               /\ marks[k].loop = "NO_VIABLE_EXPRESSION" =>
                    \A x \in mine : ~Viable(x.spread)
    <3> DEFINE mine == {x \in expressions : x.row = k}
    <3>1. MarkIsRight(marks[k], mine)
      BY <2>1, <2>4, MarksAreRight
    <3>2. PICK chain \in Chains : expressions = Expressions(board, chain)
      BY <2>2, <2>4
    <3>3. ASSUME NEW x \in mine, \A y \in mine : y.status # "PRIMARY"
          PROVE  ~Passing(x)
      <4>1. x \in Expressions(board, chain) /\ x.row = k
        BY <3>2
      <4>2. Passing(x) => \E y \in Expressions(board, chain) : y.row = k /\ y.status = "PRIMARY"
        BY <2>1, <4>1, PrimaryExists
      <4> QED BY <3>2, <3>3, <4>2
    <3>4. marks[k].watch # None => \A x \in mine : ~Passing(x)
      BY <3>1, <3>3 DEF MarkIsRight
    <3>5. ASSUME marks[k].loop = "NO_VIABLE_EXPRESSION", NEW x \in mine
          PROVE  ~Viable(x.spread)
      <4>1. \A y \in mine : y.status \notin {"PRIMARY", "WATCH"}
        BY <3>1, <3>5 DEF MarkIsRight
      <4>2. ~Passing(x)
        BY <3>3, <4>1
      <4>3. x \in Expressions(board, chain) /\ x.status # "WATCH"
        BY <3>2, <4>1
      <4> QED BY <2>1, <4>2, <4>3, RowStatus
    <3> QED BY <3>4, <3>5 DEF Passing
  <2> QED BY <2>3, <2>4 DEF MarksFollowTheRanking, PrimaryIsBestPassing, NothingUsableIsParked
<1> QED
  BY InvariantHolds, <1>1, PTL

\* The audit presents as selected only rows of complete context with a viable spread on
\* file, and each of its rows falls into one bucket of the summary.
THEOREM AuditsAreFounded == Spec => []AuditIsFounded
<1>1. IInv => AuditIsFounded
  <2> SUFFICES ASSUME IInv PROVE AuditIsFounded
    OBVIOUS
  <2>1. AuditIsAccountedFor
    BY AuditClasses DEF AuditIsAccountedFor, Bucket, Classes, Selected
  <2>2. ASSUME stage \in {"audited", "advised"}, NEW k \in DOMAIN audit,
               audit[k].class \in Selected
        PROVE  /\ board[k].context = "CONTEXT_PASS"
               /\ \E x \in expressions :
                    /\ x.row = k /\ Viable(x.spread)
                    /\ x.spread.id \in {marks[k].primary, marks[k].watch}
    <3>1. k \in DOMAIN board /\ audit[k].class = Classification(board[k], marks[k])
      BY <2>2 DEF IInv, AuditOrigin
    <3>2. board[k].context = "CONTEXT_PASS" /\ marks[k].loop \in Selected
      <4>1. board[k].context \in Context
        BY <3>1, BoardsAssumption DEF IInv
      <4> QED BY <2>2, <3>1, <4>1 DEF Classification, Context, Selected
    <3>3. MarkIsRight(marks[k], {x \in expressions : x.row = k})
      BY <3>1, <3>2, MarksAreRight DEF Selected
    <3>4. PICK x \in expressions :
            /\ x.row = k /\ x.status \in {"PRIMARY", "WATCH"}
            /\ x.spread.id \in {marks[k].primary, marks[k].watch}
      BY <3>2, <3>3 DEF MarkIsRight
    <3>5. board \in Boards /\ \E chain \in Chains : expressions = Expressions(board, chain)
      BY <3>4 DEF IInv, Origin
    <3>6. Viable(x.spread)
      BY <3>4, <3>5, RowStatus DEF Passing
    <3> QED BY <3>2, <3>4, <3>6
  <2> QED BY <2>1, <2>2 DEF AuditIsFounded, AuditNeedsContextAndSpread
<1> QED
  BY InvariantHolds, <1>1, PTL

\* An approval that outlives the comparison with the expressions CSV is of a symbol one
\* of whose primaries no spread found for it outdoes in payoff or in width.
THEOREM ApprovalsAreUnrivalled == Spec => []ApprovedIsUnrivalled
<1>1. IInv => ApprovedIsUnrivalled
  <2> SUFFICES ASSUME IInv, stage = "compared",
                      NEW k \in DOMAIN audit, audit[k].class = "APPROVED_PAPER",
                      Having({x \in Competing(expressions) : x.spread.symbol = audit[k].symbol},
                             "PRIMARY") # {}
               PROVE  LET mine == {x \in Competing(expressions) :
                                     x.spread.symbol = audit[k].symbol}
                      IN \E x \in Having(mine, "PRIMARY") : \A y \in mine :
                           /\ Payoff(y.spread) <= Payoff(x.spread)
                           /\ y.spread.width <= x.spread.width
    BY DEF ApprovedIsUnrivalled
  <2>1. PICK table \in Tables : audit = SpreadAudit(table, expressions)
    BY DEF IInv, AuditOrigin
  <2>2. audit[k].symbol \notin Challenged(expressions)
    BY <2>1 DEF SpreadAudit, FrontierGate
  <2>3. board \in Boards /\ \E chain \in Chains : expressions = Expressions(board, chain)
    BY DEF IInv, Origin, Having, Competing
  <2>4. PICK chain \in Chains : expressions = Expressions(board, chain)
    BY <2>3
  <2>5. \A s : s \notin Challenged(Expressions(board, chain)) =>
          LET mine == {x \in Competing(Expressions(board, chain)) : x.spread.symbol = s}
          IN Having(mine, "PRIMARY") # {} =>
               \E x \in Having(mine, "PRIMARY") : \A y \in mine :
                 /\ Payoff(y.spread) <= Payoff(x.spread)
                 /\ y.spread.width <= x.spread.width
    BY <2>3, UnchallengedIsUnrivalled
  <2> QED BY <2>2, <2>4, <2>5
<1> QED
  BY InvariantHolds, <1>1, PTL

\* Every review that makes an expression ready for paper review is of a viable one that
\* its own tier, C or D, refused within the tolerances and that keeps the risk cap.
THEOREM ReadyReviewsSound == Spec => []ReadyReviewsAreSound
<1>1. IInv => ReadyReviewsAreSound
  <2> SUFFICES ASSUME IInv,
                      NEW review \in {draft[op] : op \in Operators} \cup Contents(reviews),
                      review # None, review.status = "WATCH_OPERATOR_APPROVED"
               PROVE  Ready(FirstOf(review.id))
    BY DEF ReadyReviewsAreSound, Ready
  <2>1. Contents(reviews) \subseteq SoundReviews
    BY DEF IInv, Reviewed, Contents
  <2>2. review \in SoundReviews
    BY <2>1 DEF IInv, Reviewed
  <2> QED BY <2>2 DEF SoundReviews
<1> QED
  BY InvariantHolds, <1>1, PTL
=============================================================================
