------------------------------ MODULE DealerTier ------------------------------
(***************************************************************************)
(* The dealer-weighted tier of a spread expression,                        *)
(* strategy/dealer_expression_tier.py: four component scores of 0..3 from  *)
(* the SpotGamma row and the spread, their sum, the tier of the sum, and   *)
(* the reward/risk and PMP the tier demands.                               *)
(*                                                                         *)
(* Prices and strikes are in cents; gamma ratio, skew and reward/risk in   *)
(* hundredths; PMP and IV rank in percent.  A ratio is compared by cross   *)
(* multiplication.  None is a cell the export left empty.                  *)
(***************************************************************************)
EXTENDS Integers

CONSTANT None  \* an empty cell

ASSUME NoneIsNoNumber == None \notin Int

Distance(a, b) == IF a < b THEN b - a ELSE a - b

Capped(n) == IF n > 3 THEN 3 ELSE n

One(condition) == IF condition THEN 1 ELSE 0

-----------------------------------------------------------------------------
(* Component scores                                                        *)

\* The wall the short strike is measured against, with _wall_alignment.
WallOf(structure, row) ==
  CASE row.price = None \/ row.price <= 0 -> None
    [] OTHER -> IF structure = "BULL_CALL_SPREAD" THEN row.callWall ELSE row.putWall

\* The wall's distance is relative to the short strike.
WallProximityScore(short, wall) ==
  IF wall = None THEN 0
  ELSE LET d == 100 * Distance(short, wall)
       IN CASE d <= 2 * short -> 3
            [] d > 2 * short /\ d <= 5 * short -> 2
            [] d > 5 * short /\ d <= 10 * short -> 1
            [] OTHER -> 0

CheapIvScore(ivRank) ==
  CASE ivRank = None -> 0
    [] ivRank # None /\ ivRank <= 33 -> 3
    [] ivRank # None /\ ivRank > 33 /\ ivRank <= 50 -> 2
    [] ivRank # None /\ ivRank > 50 /\ ivRank <= 66 -> 1
    [] OTHER -> 0

DirectionFromGamma(gamma) ==
  CASE gamma = None -> 0
    [] gamma # None /\ gamma >= 150 -> 3
    [] gamma # None /\ gamma >= 120 /\ gamma < 150 -> 2
    [] gamma # None /\ gamma >= 100 /\ gamma < 120 -> 1
    [] OTHER -> 0

\* _reverse_vrp_required_fields_present
HasDirectionFields(row) ==
  /\ row.price # None /\ row.price > 0
  /\ row.callWall # None \/ row.putWall # None

\* The short strike is within 5% of the wall, relative to the wall.
Aligned(short, wall) == 100 * Distance(short, wall) <= 5 * wall

ReverseVrpScore(structure, short, row) ==
  LET cheap == One(row.vrp # None /\ row.vrp < 0)
      call == One(row.callWall # None /\ row.callWall > row.price)
              + One(row.callWall # None /\ row.callWall > 0 /\ Aligned(short, row.callWall))
              + One(row.skew # None /\ row.skew > -10)
      put == One(row.putWall # None /\ row.putWall <= row.price)
             + One(row.putWall # None /\ row.putWall > 0 /\ Aligned(short, row.putWall))
             + One(row.skew # None /\ row.skew < 10)
  IN Capped(cheap + (IF structure = "BULL_CALL_SPREAD" THEN call ELSE put))

\* resolve_dealer_direction_score: a reverse_vrp row never uses its gamma.
DirectionScore(structure, short, row) ==
  CASE row.profile # "reverse_vrp" -> DirectionFromGamma(row.gamma)
    [] row.profile = "reverse_vrp" /\ HasDirectionFields(row) ->
         ReverseVrpScore(structure, short, row)
    [] OTHER -> 0

SpreadEfficiencyScore(debit, width) ==
  CASE width <= 0 \/ debit <= 0 -> 0
    [] width > 0 /\ debit > 0 /\ 100 * debit <= 25 * width -> 3
    [] width > 0 /\ debit > 0 /\ 100 * debit > 25 * width /\ 100 * debit <= 40 * width -> 2
    [] width > 0 /\ debit > 0 /\ 100 * debit > 40 * width /\ 100 * debit <= 55 * width -> 1
    [] OTHER -> 0

DealerWeightedScore(e, row) ==
  WallProximityScore(e.short, WallOf(e.structure, row))
  + CheapIvScore(row.ivRank)
  + DirectionScore(e.structure, e.short, row)
  + SpreadEfficiencyScore(e.debit, e.width)

-----------------------------------------------------------------------------
(* Tiers                                                                   *)

\* TIER_TABLE, keyed by the score it starts at.
Tier(score) ==
  CASE score >= 10 -> "A" [] score \in 8..9 -> "B" [] score \in 6..7 -> "C"
    [] score \in 4..5 -> "D" [] OTHER -> "E"

RrDealerRequired ==
  [t \in {"A", "B", "C", "D", "E"} |->
     CASE t = "A" -> 105 [] t = "B" -> 115 [] t = "C" -> 125 [] t = "D" -> 140
       [] t = "E" -> 150]

PmpDealerMax ==
  [t \in {"A", "B", "C", "D", "E"} |->
     CASE t = "A" -> 55 [] t = "B" -> 52 [] t = "C" -> 48 [] t = "D" -> 45
       [] t = "E" -> 42]

\* expression_passes_dealer_tier, with reward/risk as profit over loss.
PassesTier(e, tier) ==
  /\ e.pmp # None /\ e.loss > 0
  /\ 100 * e.profit >= RrDealerRequired[tier] * e.loss
  /\ e.pmp <= PmpDealerMax[tier]
=============================================================================
