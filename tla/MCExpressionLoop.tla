-------------------------- MODULE MCExpressionLoop --------------------------
(* Small instances of ExpressionLoop. *)
EXTENDS ExpressionLoop, TLC

Cand(symbol, profile, context, gamma, ivRank, vrp) ==
  [symbol |-> symbol, profile |-> profile, context |-> context,
   gamma |-> gamma, ivRank |-> ivRank, vrp |-> vrp, price |-> 10000,
   callWall |-> 10500, putWall |-> 9500, skew |-> 0]

Rich == Cand("S", "squeeze", "CONTEXT_PASS", 160, 20, -2)
Poor == Cand("S", "vrp", "CONTEXT_PASS", 110, None, None)
Reverse == [Cand("S", "reverse_vrp", "CONTEXT_PASS", None, 60, -2)
              EXCEPT !.callWall = None]
Blind == Cand("S", "squeeze", "CONTEXT_INCOMPLETE", None, 40, None)
Other == [Cand("T", "squeeze", "CONTEXT_PASS", 120, 20, -2) EXCEPT !.price = None]

\* One row, one symbol twice, a symbol past the limit, a row without context.
SomeBoards ==
  {<<>>, <<Rich>>, <<Poor, Rich>>, <<Reverse, Other>>, <<Blind, Poor>>}

P(id, symbol, structure, short, width, debit, pmp) ==
  LET ok == debit < width IN
  [id |-> id, symbol |-> symbol, structure |-> structure, short |-> short,
   width |-> width, debit |-> debit, pmp |-> pmp,
   profit |-> IF ok THEN width - debit ELSE 0, loss |-> IF ok THEN debit ELSE 0,
   gate |-> ok /\ pmp # None]

\* Spreads that pass tiers A and C, A only, none by a hair, and not at all.
X1 == P(1, "S", "BULL_CALL_SPREAD", 10500, 500, 150, 45)
X2 == P(2, "S", "BULL_CALL_SPREAD", 10500, 1000, 400, 50)
X3 == P(3, "S", "BEAR_PUT_SPREAD", 9500, 500, 245, 44)
X4 == P(4, "S", "BULL_CALL_SPREAD", 10500, 500, 600, None)
X5 == P(5, "S", "BULL_CALL_SPREAD", 10400, 600, 240, 50)
Y1 == P(6, "T", "BULL_CALL_SPREAD", 10500, 500, 150, 45)

SomeChains ==
  {<<>>, <<X4>>, <<X2, X3>>, <<X3, X2, X1, X4>>, <<X5, X1, Y1>>, <<X5, X2>>}

Entry(symbol, failures) == [symbol |-> symbol, failures |-> failures]

SomeTables ==
  {<<Entry("S", {}), Entry("S", {"ev_gate_not_pass"}), Entry("T", {})>>,
   <<Entry("S", {"missing_pmp"}), Entry("S", {}),
     Entry("T", {"spread_math_gate_failed"}), Entry("T", {"max_loss_exceeds_max_risk"})>>}

OperatorSymmetry == Permutations(Operators)

SomeManual == {[symbol |-> "S", id |-> 2]}
=============================================================================
