---------------------------- MODULE SpreadGates ----------------------------
(***************************************************************************)
(* The chain of commands that turns option quotes into payload rows:       *)
(* examples/generate_spread_candidates.py pairs the quotes of the greeks   *)
(* CSV into vertical spreads and does their math,                          *)
(* build_paper_approval_candidates.py approves rows of that CSV for        *)
(* review, and build_paper_payload_candidates.py shapes approved rows into *)
(* orders.  Each command reads the CSV of the one before, whatever its     *)
(* age, and replaces its own; the operator may set a quantity in between.  *)
(*                                                                         *)
(* Prices and strikes are in cents, deltas and probabilities in percent,   *)
(* reward/risk ratios in hundredths, expected values in hundredths of a    *)
(* cent.  A CSV is a set of rows; one symbol, trade date and expiration.   *)
(***************************************************************************)
EXTENDS Integers

CONSTANTS
  Boards,      \* contents the greeks CSV may have
  MaxRisks,    \* values of --max-risk
  Quantities,  \* quantities the operator may write into the approval CSV
  SpreadPct,   \* --max-bid-ask-spread-pct, in percent
  None         \* an empty field

Debit == {"BULL_CALL_SPREAD", "BEAR_PUT_SPREAD"}
Credit == {"BULL_PUT_CREDIT_SPREAD", "BEAR_CALL_CREDIT_SPREAD"}
Structure == Debit \cup Credit

Leg == [type : {"call", "put"}, strike : Nat \ {0}]

\* A row of the greeks CSV: delta and probability of profit may be missing.
Quote == [leg : Leg, bid : Int, ask : Int,
          delta : -100..100 \cup {None}, pmp : Int \cup {None}]

ASSUME BoardsAssumption == Boards \subseteq SUBSET Quote
ASSUME RisksAssumption == MaxRisks \subseteq Nat \ {0}
ASSUME QuantityAssumption == Quantities \subseteq Int
ASSUME PctAssumption == SpreadPct \in Nat
ASSUME NoneAssumption == None \notin Int

VARIABLES greeksCsv, spreadCsv, approvalCsv, payloadCsv

vars == <<greeksCsv, spreadCsv, approvalCsv, payloadCsv>>

-----------------------------------------------------------------------------
(* PMP policy                                                              *)

TableRange == 25..90

\* PMP_TO_MIN_RR: the smallest reward/risk for each bucket of 5 percent.
PmpToMinRR ==
  [b \in {25, 30, 35, 40, 45, 50, 55, 60, 65, 70, 75, 80, 85, 90} |->
     CASE b = 25 -> 300 [] b = 30 -> 233 [] b = 35 -> 186 [] b = 40 -> 150
       [] b = 45 -> 122 [] b = 50 -> 100 [] b = 55 -> 82  [] b = 60 -> 67
       [] b = 65 -> 54  [] b = 70 -> 43  [] b = 75 -> 33  [] b = 80 -> 25
       [] b = 85 -> 18  [] b = 90 -> 11]

\* normalize_pmp_bucket rounds down.
Bucket(pmp) == 5 * (pmp \div 5)

\* passes_pmp_rr_gate, profit / loss >= required.
ClearsTable(pmp, profit, loss) ==
  pmp \in TableRange /\ 100 * profit >= PmpToMinRR[Bucket(pmp)] * loss

ExpectedValue(pmp, profit, loss) == pmp * profit - (100 - pmp) * loss

-----------------------------------------------------------------------------
(* Spread candidates                                                       *)

\* _quotes_liquid: the spread is at most SpreadPct of the mid.
Liquid(q) ==
  /\ q.bid > 0 /\ q.ask >= q.bid
  /\ 200 * (q.ask - q.bid) <= SpreadPct * (q.bid + q.ask)

\* The four pairings, as strike difference and net premium.
Type(st) == IF st \in {"BULL_CALL_SPREAD", "BEAR_CALL_CREDIT_SPREAD"}
            THEN "call" ELSE "put"

Width(st, long, short) ==
  IF st \in {"BULL_CALL_SPREAD", "BULL_PUT_CREDIT_SPREAD"}
  THEN short.leg.strike - long.leg.strike
  ELSE long.leg.strike - short.leg.strike

Net(st, long, short) ==
  IF st \in Debit THEN long.ask - short.bid ELSE short.bid - long.ask

\* The vendor's probability, of the long leg before the short one.
Vendor(long, short) == IF long.pmp # None THEN long.pmp ELSE short.pmp

Abs(n) == IF n < 0 THEN -n ELSE n

\* estimate_pmp_proxy: the short leg's delta stands in for the vendor's
\* probability; what is outside the table is dropped, not clamped.
PmpForGate(st, long, short) ==
  LET vendor == Vendor(long, short)
      proxy == IF st \in Debit THEN Abs(short.delta) ELSE 100 - Abs(short.delta)
  IN CASE vendor # None -> IF vendor \in TableRange THEN vendor ELSE None
       [] vendor = None /\ short.delta # None ->
            IF proxy \in TableRange THEN proxy ELSE None
       [] OTHER -> None

\* _compute_core_economics raises inside, and leaves zeros, when the premium is
\* not below the width.
Valid(width, net) == 0 < net /\ net < width

MaxProfit(st, width, net) ==
  CASE st \in Debit  -> IF Valid(width, net) THEN width - net ELSE 0
    [] st \in Credit -> net

\* Mutant: a credit risks what it earns.
LossIsPremium(st, width, net) == IF Valid(width, net) THEN net ELSE 0

MaxLoss(st, width, net) ==
  CASE ~Valid(width, net) -> 0
    [] Valid(width, net) /\ st \in Debit -> net
    [] Valid(width, net) /\ st \in Credit -> width - net

\* passes_spread_math_gate: without a probability the table cannot fail.
PassesMathGate(valid, pmp, profit, loss) ==
  valid /\ (pmp # None => ClearsTable(pmp, profit, loss))

\* Mutant: no status without a probability.
EvStatusOrNone(valid, pmp, profit, loss) ==
  CASE pmp = None -> None
    [] pmp # None /\ ExpectedValue(pmp, profit, loss) > 0 -> "PASS"
    [] OTHER -> "WATCH"

EvStatus(valid, pmp, profit, loss) ==
  CASE pmp = None -> IF valid THEN "INCOMPLETE" ELSE "FAIL"
    [] pmp # None /\ ExpectedValue(pmp, profit, loss) > 0 -> "PASS"
    [] OTHER -> "WATCH"

\* One row of spread_candidates.csv, by evaluate_spread_math and _emit_candidate;
\* `valid' says that its reward_risk column is not 0.
Candidate(st, long, short) ==
  LET width == Width(st, long, short)
      net == Net(st, long, short)
      valid == Valid(width, net)
      pmp == PmpForGate(st, long, short)
      profit == MaxProfit(st, width, net)
      loss == MaxLoss(st, width, net)
      gate == PassesMathGate(valid, pmp, profit, loss)
  IN [structure |-> st, long |-> long.leg, short |-> short.leg, net |-> net,
      pmp |-> pmp, vendor |-> Vendor(long, short),
      profit |-> profit, loss |-> loss, valid |-> valid, gate |-> gate,
      probability |-> IF pmp = None THEN "INCOMPLETE" ELSE "PASS",
      ev |-> EvStatus(valid, pmp, profit, loss),
      pass |-> gate /\ pmp # None]

\* The pairs generate_spread_candidates emits.
Generated(board) ==
  {Candidate(t[1], t[2], t[3]) :
     t \in {u \in Structure \X board \X board :
              /\ u[2].leg.type = Type(u[1]) /\ u[3].leg.type = Type(u[1])
              /\ Liquid(u[2]) /\ Liquid(u[3])
              /\ Width(u[1], u[2], u[3]) > 0
              /\ Net(u[1], u[2], u[3]) > 0}}

-----------------------------------------------------------------------------
(* Paper approval                                                          *)

\* load_spread_candidate_rows: the vendor's number when the gate had none.
LoadedPmp(row) == IF row.pmp # None THEN row.pmp ELSE row.vendor

Failing(condition, reason) == IF condition THEN {reason} ELSE {}

\* The reward/risk column of a row with invalid economics is 0.
ApprovalFailures(row, maxRisk) ==
  LET pmp == LoadedPmp(row)
      known == pmp # None /\ pmp \in TableRange
  IN Failing(pmp = None, "missing_pmp")
     \cup Failing(pmp # None /\ ~known, "pmp_outside_policy_table")
     \cup Failing(row.loss <= 0, "invalid_max_loss")
     \cup Failing(~row.pass, "not_candidate_pass")
     \cup Failing(~row.gate, "spread_math_gate_failed")
     \cup Failing(row.ev # "PASS", "ev_gate_not_pass")
     \cup Failing(row.probability # "PASS", "probability_gate_not_pass")
     \cup Failing(known /\ ~(row.valid /\ ClearsTable(pmp, row.profit, row.loss)),
                  "insufficient_reward_risk_for_pmp")
     \cup Failing(known /\ ExpectedValue(pmp, row.profit, row.loss) <= 0,
                  "non_positive_expected_value")
     \cup Failing(row.loss > maxRisk, "max_loss_exceeds_max_risk")

\* Mutant: the cap is reported and not applied.
UncappedStatus(failures) ==
  CASE failures \subseteq {"max_loss_exceeds_max_risk"} ->
         "APPROVED_FOR_PAPER_REVIEW"
    [] "missing_pmp" \in failures -> "INCOMPLETE"
    [] OTHER -> "REJECTED"

ApprovalStatus(failures) ==
  CASE failures = {} -> "APPROVED_FOR_PAPER_REVIEW"
    [] "missing_pmp" \in failures -> "INCOMPLETE"
    [] OTHER -> "REJECTED"

\* One row of paper_approval_candidates.csv, by evaluate_paper_approval.
Approval(row, maxRisk) ==
  LET pmp == LoadedPmp(row)
      status == ApprovalStatus(ApprovalFailures(row, maxRisk))
  IN [structure |-> row.structure, long |-> row.long, short |-> row.short,
      net |-> row.net, profit |-> row.profit, loss |-> row.loss,
      valid |-> row.valid, pmp |-> pmp,
      ev |-> IF pmp # None /\ pmp \in TableRange
             THEN ExpectedValue(pmp, row.profit, row.loss) ELSE None,
      status |-> status,
      qty |-> IF status = "APPROVED_FOR_PAPER_REVIEW" THEN 1 ELSE None]

-----------------------------------------------------------------------------
(* Paper payload                                                           *)

\* Mutant: the status of the approval is not asked for.
FieldFailures(row) ==
  Failing(row.qty = None, "missing_suggested_contract_qty")
  \cup Failing(row.qty # None /\ row.qty <= 0, "invalid_suggested_contract_qty")
  \cup Failing(row.loss <= 0, "invalid_max_loss")
  \cup Failing(row.net <= 0, "invalid_limit_price")
  \cup Failing(row.pmp = None, "missing_pmp")
  \cup Failing(row.ev = None, "missing_expected_value")
  \cup Failing(row.ev # None /\ row.ev <= 0, "non_positive_expected_value")

PayloadFailures(row) ==
  Failing(row.status # "APPROVED_FOR_PAPER_REVIEW",
          "approval_not_approved_for_paper_review")
  \cup Failing(row.qty = None, "missing_suggested_contract_qty")
  \cup Failing(row.qty # None /\ row.qty <= 0, "invalid_suggested_contract_qty")
  \cup Failing(row.loss <= 0, "invalid_max_loss")
  \cup Failing(row.net <= 0, "invalid_limit_price")
  \cup Failing(row.pmp = None, "missing_pmp")
  \cup Failing(row.ev = None, "missing_expected_value")
  \cup Failing(row.ev # None /\ row.ev <= 0, "non_positive_expected_value")

PayloadStatus(failures) ==
  CASE failures = {} -> "PAPER_PAYLOAD_READY"
    [] /\ "approval_not_approved_for_paper_review" \notin failures
       /\ failures \cap {"missing_suggested_contract_qty", "missing_pmp",
                         "missing_expected_value"} # {} -> "INCOMPLETE"
    [] OTHER -> "REJECTED"

\* One row of paper_payload_candidates.csv, by evaluate_paper_payload_candidate.
Payload(row) ==
  LET status == PayloadStatus(PayloadFailures(row)) IN
  [structure |-> row.structure, long |-> row.long, short |-> row.short,
   price |-> row.net, profit |-> row.profit, loss |-> row.loss,
   valid |-> row.valid, pmp |-> row.pmp, ev |-> row.ev,
   approval |-> row.status, status |-> status,
   qty |-> IF status = "PAPER_PAYLOAD_READY" THEN row.qty ELSE None]

-----------------------------------------------------------------------------
(* What the submit command asks of a row                                   *)

\* check_leg_payload on the legs read back from the option symbols; a missing
\* quantity is taken as 1.
LegsWellFormed(row) ==
  /\ row.long.strike > 0 /\ row.short.strike > 0
  /\ row.qty # None => row.qty > 0

\* check_economics, with its closed bound on the expected value.
EconomicsOk(row) ==
  /\ row.loss > 0 /\ row.profit > 0
  /\ row.valid
  /\ row.pmp # None => 0 < row.pmp /\ row.pmp < 100
  /\ row.ev # None => row.ev >= 0

\* The guardrail stack but for the environment; no status contains WATCH.
GuardrailsPass(row) ==
  row.structure \in Structure /\ LegsWellFormed(row) /\ EconomicsOk(row)

\* build_alpaca_mleg_order_request does not raise.
Buildable(row) ==
  /\ row.approval = "APPROVED_FOR_PAPER_REVIEW"
  /\ row.qty # None /\ row.qty > 0
  /\ row.price > 0

-----------------------------------------------------------------------------
(* The commands                                                            *)

\* New quotes are staged.
Stage ==
  /\ greeksCsv' \in Boards
  /\ UNCHANGED <<spreadCsv, approvalCsv, payloadCsv>>

\* --structure keeps some of the structures (no board exceeds a --limit); with
\* nothing to write the old CSV stays.
Generate ==
  /\ \E wanted \in SUBSET Structure :
       /\ spreadCsv' = {row \in Generated(greeksCsv) : row.structure \in wanted}
       /\ spreadCsv' # {}
  /\ UNCHANGED <<greeksCsv, approvalCsv, payloadCsv>>

Approve ==
  /\ spreadCsv # {}
  /\ \E maxRisk \in MaxRisks :
       approvalCsv' = {Approval(row, maxRisk) : row \in spreadCsv}
  /\ UNCHANGED <<greeksCsv, spreadCsv, payloadCsv>>

\* docs/paper_bull_call_c1_runbook.md: the operator sets the quantity of a row.
EditQty ==
  /\ \E row \in approvalCsv, qty \in Quantities :
       approvalCsv' = (approvalCsv \ {row}) \cup {[row EXCEPT !.qty = qty]}
  /\ UNCHANGED <<greeksCsv, spreadCsv, payloadCsv>>

Build ==
  /\ approvalCsv # {}
  /\ payloadCsv' = {Payload(row) : row \in approvalCsv}
  /\ UNCHANGED <<greeksCsv, spreadCsv, approvalCsv>>

Init ==
  /\ greeksCsv \in Boards
  /\ spreadCsv = {} /\ approvalCsv = {} /\ payloadCsv = {}

Next == Stage \/ Generate \/ Approve \/ EditQty \/ Build

Spec == Init /\ [][Next]_vars

-----------------------------------------------------------------------------
(* What the chain must guarantee                                           *)

Ready == {row \in payloadCsv : row.status = "PAPER_PAYLOAD_READY"}

MaybeInt == Int \cup {None}

SpreadRow ==
  [structure : Structure, long : Leg, short : Leg, net : Int, pmp : MaybeInt,
   vendor : MaybeInt, profit : Int, loss : Int, valid : BOOLEAN,
   gate : BOOLEAN, probability : {"PASS", "INCOMPLETE"},
   ev : {"PASS", "WATCH", "INCOMPLETE", "FAIL"}, pass : BOOLEAN]

ApprovalRow ==
  [structure : Structure, long : Leg, short : Leg, net : Int, profit : Int,
   loss : Int, valid : BOOLEAN, pmp : MaybeInt, ev : MaybeInt,
   status : {"APPROVED_FOR_PAPER_REVIEW", "REJECTED", "INCOMPLETE"},
   qty : MaybeInt]

PayloadRow ==
  [structure : Structure, long : Leg, short : Leg, price : Int, profit : Int,
   loss : Int, valid : BOOLEAN, pmp : MaybeInt, ev : MaybeInt,
   approval : {"APPROVED_FOR_PAPER_REVIEW", "REJECTED", "INCOMPLETE"},
   status : {"PAPER_PAYLOAD_READY", "REJECTED", "INCOMPLETE"}, qty : MaybeInt]

TypeOK ==
  /\ greeksCsv \in Boards
  /\ spreadCsv \subseteq SpreadRow
  /\ approvalCsv \subseteq ApprovalRow
  /\ payloadCsv \subseteq PayloadRow

\* A READY row passes every guardrail of the submit command and its request
\* builds, although neither the payload builder nor the approval looks at the
\* legs, the profit or the ratio the guardrails ask for: no READY row can end a
\* submit run half way.
ReadyRowsAreSound == \A row \in Ready : GuardrailsPass(row) /\ Buildable(row)

\* A READY row clears the PMP table and has a positive expected value and a
\* loss below some limit in force, although the payload builder reads neither
\* the table nor the limit and the files before it may have been replaced since.
ReadyRowsClearPolicy ==
  \A row \in Ready :
    /\ ClearsTable(row.pmp, row.profit, row.loss)
    /\ ExpectedValue(row.pmp, row.profit, row.loss) > 0
    /\ \E maxRisk \in MaxRisks : row.loss <= maxRisk

\* The economics of a READY row are those of the two legs it orders at the
\* price it offers: profit and loss add up to the distance of the strikes, and
\* the price is what a debit risks or what a credit can earn.
ReadyRowsPriceTheirLegs ==
  \A row \in Ready :
    /\ row.profit + row.loss = Abs(row.long.strike - row.short.strike)
    /\ row.price = IF row.structure \in Debit THEN row.loss ELSE row.profit

=============================================================================
