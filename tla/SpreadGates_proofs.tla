------------------------- MODULE SpreadGates_proofs -------------------------
(***************************************************************************)
(* Theorems about SpreadGates, for every content of the greeks CSV.  A     *)
(* payload row says nothing of the quotes it comes from, so the invariant  *)
(* carries what each CSV guarantees of its rows to the next one.           *)
(***************************************************************************)
EXTENDS SpreadGates, TLAPS

\* The economics of a row are those of its legs at its premium.
Priced(row) ==
  /\ row.profit > 0 /\ row.loss > 0
  /\ row.profit + row.loss = Abs(row.long.strike - row.short.strike)
  /\ row.net = IF row.structure \in Debit THEN row.loss ELSE row.profit

SpreadRowsPriced == \A row \in spreadCsv : row.valid => Priced(row)

\* What an approval vouches for.
Vouched(row) ==
  /\ row.valid
  /\ Priced(row)
  /\ row.pmp # None
  /\ ClearsTable(row.pmp, row.profit, row.loss)
  /\ row.ev = ExpectedValue(row.pmp, row.profit, row.loss)
  /\ row.ev > 0
  /\ \E maxRisk \in MaxRisks : row.loss <= maxRisk

ApprovalsVouched ==
  \A row \in approvalCsv : row.status = "APPROVED_FOR_PAPER_REVIEW" => Vouched(row)

IInv == /\ TypeOK
        /\ SpreadRowsPriced
        /\ ApprovalsVouched
        /\ ReadyRowsAreSound
        /\ ReadyRowsClearPolicy
        /\ ReadyRowsPriceTheirLegs

-----------------------------------------------------------------------------
(* Spread candidates                                                       *)

LEMMA AbsType == \A n \in Int : Abs(n) \in Nat
BY DEF Abs

LEMMA ExpectedValueType ==
  ASSUME NEW p \in Int, NEW profit \in Int, NEW loss \in Int
  PROVE  ExpectedValue(p, profit, loss) \in Int
BY DEF ExpectedValue

LEMMA QuoteTypes ==
  ASSUME NEW board \in Boards, NEW q \in board
  PROVE  /\ q.leg \in Leg /\ q.leg.strike \in Nat \ {0}
         /\ q.bid \in Int /\ q.ask \in Int
         /\ q.delta \in Int \cup {None} /\ q.pmp \in Int \cup {None}
<1>1. q \in Quote
  BY BoardsAssumption
<1> QED
  BY <1>1 DEF Quote, Leg

LEMMA PmpType ==
  ASSUME NEW board \in Boards, NEW long \in board, NEW short \in board,
         NEW st \in Structure
  PROVE  /\ PmpForGate(st, long, short) \in Int \cup {None}
         /\ Vendor(long, short) \in Int \cup {None}
<1>1. Vendor(long, short) \in Int \cup {None}
  BY QuoteTypes DEF Vendor
<1>2. short.delta # None => Abs(short.delta) \in Int
  BY QuoteTypes, AbsType
<1> QED
  BY <1>1, <1>2, QuoteTypes, NoneAssumption DEF PmpForGate, TableRange

\* The numbers a pair of quotes gives.
LEMMA CandidateNumbers ==
  ASSUME NEW st \in Structure, NEW width \in Int, NEW net \in Int
  PROVE  /\ MaxProfit(st, width, net) \in Int
         /\ MaxLoss(st, width, net) \in Int
         /\ Valid(width, net) =>
              /\ MaxProfit(st, width, net) > 0
              /\ MaxLoss(st, width, net) > 0
              /\ MaxProfit(st, width, net) + MaxLoss(st, width, net) = width
              /\ net = IF st \in Debit THEN MaxLoss(st, width, net)
                                       ELSE MaxProfit(st, width, net)
<1>1. CASE st \in Debit
  <2>1. st \notin Credit
    BY <1>1 DEF Debit, Credit
  <2> QED
    BY <1>1, <2>1 DEF MaxProfit, MaxLoss, Valid
<1>2. CASE st \in Credit
  <2>1. st \notin Debit
    BY <1>2 DEF Debit, Credit
  <2> QED
    BY <1>2, <2>1 DEF MaxProfit, MaxLoss, Valid
<1> QED
  BY <1>1, <1>2 DEF Structure

LEMMA CandidateRow ==
  ASSUME NEW board \in Boards, NEW long \in board, NEW short \in board,
         NEW st \in Structure,
         Width(st, long, short) > 0
  PROVE  /\ Candidate(st, long, short) \in SpreadRow
         /\ Candidate(st, long, short).valid => Priced(Candidate(st, long, short))
<1> DEFINE width == Width(st, long, short)
           net == Net(st, long, short)
           valid == Valid(width, net)
           pmp == PmpForGate(st, long, short)
           profit == MaxProfit(st, width, net)
           loss == MaxLoss(st, width, net)
           row == Candidate(st, long, short)
<1>1. /\ width \in Int /\ net \in Int
      /\ width = Abs(long.leg.strike - short.leg.strike)
  BY QuoteTypes DEF Width, Net, Abs
<1>2. /\ profit \in Int /\ loss \in Int
      /\ valid => /\ profit > 0 /\ loss > 0 /\ profit + loss = width
                  /\ net = IF st \in Debit THEN loss ELSE profit
  <2> HIDE DEF width, net
  <2> QED
    BY <1>1, CandidateNumbers
<1>3. pmp \in Int \cup {None} /\ Vendor(long, short) \in Int \cup {None}
  BY PmpType
<1>4. valid \in BOOLEAN /\ PassesMathGate(valid, pmp, profit, loss) \in BOOLEAN
  BY DEF Valid, PassesMathGate
<1>5. EvStatus(valid, pmp, profit, loss) \in {"PASS", "WATCH", "INCOMPLETE", "FAIL"}
  BY DEF EvStatus
<1>6. /\ row.structure = st /\ row.long = long.leg /\ row.short = short.leg
      /\ row.net = net /\ row.profit = profit /\ row.loss = loss
      /\ row.valid = valid
  BY DEF Candidate
<1>7. row \in SpreadRow
  <2> HIDE DEF width, net, valid, pmp, profit, loss
  <2>1. row = [structure |-> st, long |-> long.leg, short |-> short.leg, net |-> net,
      pmp |-> pmp, vendor |-> Vendor(long, short),
      profit |-> profit, loss |-> loss, valid |-> valid,
      gate |-> PassesMathGate(valid, pmp, profit, loss),
      probability |-> IF pmp = None THEN "INCOMPLETE" ELSE "PASS",
      ev |-> EvStatus(valid, pmp, profit, loss),
      pass |-> PassesMathGate(valid, pmp, profit, loss) /\ pmp # None]
    BY DEF Candidate, width, net, valid, pmp, profit, loss
  <2> QED
    BY <2>1, <1>1, <1>2, <1>3, <1>4, <1>5, QuoteTypes DEF SpreadRow, MaybeInt
<1>8. row.valid => Priced(row)
  <2> HIDE DEF width, net, valid, profit, loss, row
  <2> QED
    BY <1>1, <1>2, <1>6 DEF Priced
<1> QED
  BY <1>7, <1>8

-----------------------------------------------------------------------------
(* Approvals and payloads                                                  *)

\* A row without failures has passed each test.
LEMMA ApprovedMeans ==
  ASSUME NEW row \in SpreadRow, NEW maxRisk \in MaxRisks,
         ApprovalFailures(row, maxRisk) = {}
  PROVE  LET pmp == LoadedPmp(row) IN
         /\ pmp # None /\ pmp \in TableRange
         /\ row.valid
         /\ ClearsTable(pmp, row.profit, row.loss)
         /\ ExpectedValue(pmp, row.profit, row.loss) > 0
         /\ row.loss <= maxRisk
<1> DEFINE pmp == LoadedPmp(row)
<1>1. pmp \in Int \cup {None} /\ row.profit \in Int /\ row.loss \in Int
  BY DEF SpreadRow, LoadedPmp, MaybeInt
<1>2. pmp # None
  BY DEF ApprovalFailures, Failing
<1>3. pmp \in TableRange
  BY <1>2 DEF ApprovalFailures, Failing
<1>4. row.valid /\ ClearsTable(pmp, row.profit, row.loss)
  BY <1>2, <1>3 DEF ApprovalFailures, Failing
<1>5. ~(ExpectedValue(pmp, row.profit, row.loss) <= 0)
  BY <1>2, <1>3 DEF ApprovalFailures, Failing
<1>6. ~(row.loss > maxRisk)
  BY DEF ApprovalFailures, Failing
<1>7. ExpectedValue(pmp, row.profit, row.loss) \in Int
  BY <1>1, <1>2, ExpectedValueType
<1>8. maxRisk \in Int
  BY RisksAssumption
<1> HIDE DEF pmp
<1>9. ExpectedValue(pmp, row.profit, row.loss) > 0 /\ row.loss <= maxRisk
  BY <1>1, <1>5, <1>6, <1>7, <1>8
<1> QED
  BY <1>2, <1>3, <1>4, <1>9 DEF pmp

LEMMA ApprovalRows ==
  ASSUME NEW row \in SpreadRow, NEW maxRisk \in MaxRisks,
         row.valid => Priced(row)
  PROVE  LET a == Approval(row, maxRisk) IN
         /\ a \in ApprovalRow
         /\ a.status = "APPROVED_FOR_PAPER_REVIEW" => Vouched(a)
<1> DEFINE a == Approval(row, maxRisk)
           pmp == LoadedPmp(row)
           ev == IF pmp # None /\ pmp \in TableRange
                 THEN ExpectedValue(pmp, row.profit, row.loss) ELSE None
           status == ApprovalStatus(ApprovalFailures(row, maxRisk))
<1>1. /\ row.structure \in Structure /\ row.long \in Leg /\ row.short \in Leg
      /\ row.net \in Int /\ row.profit \in Int /\ row.loss \in Int
      /\ row.valid \in BOOLEAN /\ pmp \in MaybeInt
  BY DEF SpreadRow, LoadedPmp, MaybeInt
<1>2. ev \in MaybeInt
  BY <1>1, ExpectedValueType DEF MaybeInt
<1>3. status \in {"APPROVED_FOR_PAPER_REVIEW", "REJECTED", "INCOMPLETE"}
  BY DEF ApprovalStatus
<1>4. a = [structure |-> row.structure, long |-> row.long, short |-> row.short,
           net |-> row.net, profit |-> row.profit, loss |-> row.loss,
           valid |-> row.valid, pmp |-> pmp, ev |-> ev, status |-> status,
           qty |-> IF status = "APPROVED_FOR_PAPER_REVIEW" THEN 1 ELSE None]
  BY DEF Approval
<1>5. a \in ApprovalRow
  <2> HIDE DEF pmp, ev, status, a
  <2> QED
    BY <1>1, <1>2, <1>3, <1>4 DEF ApprovalRow, MaybeInt
<1>6. ASSUME a.status = "APPROVED_FOR_PAPER_REVIEW" PROVE Vouched(a)
  <2>1. status = "APPROVED_FOR_PAPER_REVIEW"
    BY <1>4, <1>6
  <2>2. ApprovalFailures(row, maxRisk) = {}
    BY <2>1 DEF ApprovalStatus
  <2>3. /\ pmp # None /\ pmp \in TableRange /\ row.valid
        /\ ClearsTable(pmp, row.profit, row.loss)
        /\ ExpectedValue(pmp, row.profit, row.loss) > 0
        /\ row.loss <= maxRisk
    BY <2>2, ApprovedMeans
  <2>4. ev = ExpectedValue(pmp, row.profit, row.loss)
    BY <2>3
  <2> HIDE DEF pmp, ev, status, a
  <2>5. Priced(a)
    BY <1>4, <2>3 DEF Priced
  <2> QED
    BY <1>4, <2>3, <2>4, <2>5 DEF Vouched
<1> QED
  BY <1>5, <1>6

\* What the three properties say of one payload row.
Sound(row) ==
  /\ GuardrailsPass(row) /\ Buildable(row)
  /\ ClearsTable(row.pmp, row.profit, row.loss)
  /\ ExpectedValue(row.pmp, row.profit, row.loss) > 0
  /\ \E maxRisk \in MaxRisks : row.loss <= maxRisk
  /\ row.profit + row.loss = Abs(row.long.strike - row.short.strike)
  /\ row.price = IF row.structure \in Debit THEN row.loss ELSE row.profit

LEMMA PayloadRows ==
  ASSUME NEW row \in ApprovalRow,
         row.status = "APPROVED_FOR_PAPER_REVIEW" => Vouched(row)
  PROVE  LET x == Payload(row) IN
         /\ x \in PayloadRow
         /\ x.status = "PAPER_PAYLOAD_READY" => Sound(x)
<1> DEFINE x == Payload(row)
           status == PayloadStatus(PayloadFailures(row))
<1>1. /\ row.structure \in Structure /\ row.long \in Leg /\ row.short \in Leg
      /\ row.net \in Int /\ row.profit \in Int /\ row.loss \in Int
      /\ row.valid \in BOOLEAN /\ row.pmp \in MaybeInt /\ row.ev \in MaybeInt
      /\ row.qty \in MaybeInt
      /\ row.status \in {"APPROVED_FOR_PAPER_REVIEW", "REJECTED", "INCOMPLETE"}
  BY DEF ApprovalRow
<1>2. status \in {"PAPER_PAYLOAD_READY", "REJECTED", "INCOMPLETE"}
  BY DEF PayloadStatus
<1>3. x = [structure |-> row.structure, long |-> row.long, short |-> row.short,
           price |-> row.net, profit |-> row.profit, loss |-> row.loss,
           valid |-> row.valid, pmp |-> row.pmp, ev |-> row.ev,
           approval |-> row.status, status |-> status,
           qty |-> IF status = "PAPER_PAYLOAD_READY" THEN row.qty ELSE None]
  BY DEF Payload
<1>4. x \in PayloadRow
  <2> HIDE DEF status, x
  <2> QED
    BY <1>1, <1>2, <1>3 DEF PayloadRow, MaybeInt
<1>5. ASSUME x.status = "PAPER_PAYLOAD_READY" PROVE Sound(x)
  <2>1. status = "PAPER_PAYLOAD_READY"
    BY <1>3, <1>5
  <2>2. PayloadFailures(row) = {}
    BY <2>1 DEF PayloadStatus
  <2>3. row.status = "APPROVED_FOR_PAPER_REVIEW"
    BY <2>2 DEF PayloadFailures, Failing
  <2>4. row.qty # None /\ ~(row.qty <= 0)
    BY <2>2 DEF PayloadFailures, Failing
  <2>5. Vouched(row)
    BY <2>3
  <2>6. row.pmp \in TableRange
    BY <2>5 DEF Vouched, ClearsTable
  <2>7. row.profit > 0 /\ row.loss > 0 /\ row.net > 0
    BY <1>1, <2>5 DEF Vouched, Priced
  <2>8. row.long.strike > 0 /\ row.short.strike > 0
    BY <1>1 DEF Leg
  <2>9. row.qty \in Int /\ row.qty > 0
    BY <1>1, <2>4 DEF MaybeInt
  <2>10. row.ev \in Int /\ row.ev >= 0
    <3>1. ExpectedValue(row.pmp, row.profit, row.loss) \in Int
      <4>1. row.pmp \in Int
        BY <2>6 DEF TableRange
      <4>2. row.profit \in Int /\ row.loss \in Int
        BY <1>1
      <4> QED
        BY <4>1, <4>2, ExpectedValueType
    <3> QED
      BY <2>5, <3>1 DEF Vouched
  <2>11. x.qty = row.qty
    BY <1>3, <2>1
  <2> HIDE DEF status, x
  <2>12. GuardrailsPass(x)
    BY <1>1, <1>3, <2>5, <2>6, <2>7, <2>8, <2>9, <2>10, <2>11
       DEF GuardrailsPass, LegsWellFormed, EconomicsOk, TableRange, Vouched
  <2>13. Buildable(x)
    BY <1>3, <2>3, <2>7, <2>4, <2>9, <2>11 DEF Buildable
  <2> QED
    BY <1>3, <2>5, <2>12, <2>13 DEF Sound, Vouched, Priced
<1> QED
  BY <1>4, <1>5

LEMMA SoundRows ==
  (\A row \in Ready : Sound(row))
    <=> ReadyRowsAreSound /\ ReadyRowsClearPolicy /\ ReadyRowsPriceTheirLegs
BY DEF Sound, ReadyRowsAreSound, ReadyRowsClearPolicy, ReadyRowsPriceTheirLegs

-----------------------------------------------------------------------------
(* The invariant                                                           *)

LEMMA InitIInv == ASSUME Init PROVE IInv
BY DEF Init, IInv, TypeOK, SpreadRowsPriced, ApprovalsVouched, Ready,
   ReadyRowsAreSound, ReadyRowsClearPolicy, ReadyRowsPriceTheirLegs

LEMMA GenerateKeeps ==
  ASSUME IInv, Generate
  PROVE  spreadCsv' \subseteq SpreadRow /\ SpreadRowsPriced'
<1>1. greeksCsv \in Boards
  BY DEF IInv, TypeOK
<1>2. ASSUME NEW row \in spreadCsv'
      PROVE  row \in SpreadRow /\ (row.valid => Priced(row))
  <2>1. row \in Generated(greeksCsv)
    BY <1>2 DEF Generate
  <2>2. PICK st \in Structure, long \in greeksCsv, short \in greeksCsv :
          row = Candidate(st, long, short) /\ Width(st, long, short) > 0
    BY <2>1 DEF Generated
  <2> QED
    BY <1>1, <2>2, CandidateRow
<1> QED
  BY <1>2 DEF SpreadRowsPriced

LEMMA ApproveKeeps ==
  ASSUME IInv, Approve
  PROVE  approvalCsv' \subseteq ApprovalRow /\ ApprovalsVouched'
<1>1. PICK maxRisk \in MaxRisks :
        approvalCsv' = {Approval(row, maxRisk) : row \in spreadCsv}
  BY DEF Approve
<1>2. \A row \in spreadCsv : row \in SpreadRow /\ (row.valid => Priced(row))
  BY DEF IInv, TypeOK, SpreadRowsPriced
<1>3. \A row \in spreadCsv :
        /\ Approval(row, maxRisk) \in ApprovalRow
        /\ Approval(row, maxRisk).status = "APPROVED_FOR_PAPER_REVIEW"
             => Vouched(Approval(row, maxRisk))
  BY <1>2, ApprovalRows
<1> QED
  BY <1>1, <1>3 DEF ApprovalsVouched

\* A quantity is nothing an approval vouches for.
LEMMA EditKeeps ==
  ASSUME IInv, EditQty
  PROVE  approvalCsv' \subseteq ApprovalRow /\ ApprovalsVouched'
<1>1. PICK row \in approvalCsv, qty \in Quantities :
        approvalCsv' = (approvalCsv \ {row}) \cup {[row EXCEPT !.qty = qty]}
  BY DEF EditQty
<1> DEFINE new == [row EXCEPT !.qty = qty]
<1>2. row \in ApprovalRow /\ (row.status = "APPROVED_FOR_PAPER_REVIEW" => Vouched(row))
  BY DEF IInv, TypeOK, ApprovalsVouched
<1>3. new \in ApprovalRow
  BY <1>2, QuantityAssumption DEF ApprovalRow, MaybeInt
<1>4. /\ new.structure = row.structure /\ new.long = row.long /\ new.short = row.short
      /\ new.net = row.net /\ new.profit = row.profit /\ new.loss = row.loss
      /\ new.valid = row.valid /\ new.pmp = row.pmp /\ new.ev = row.ev
      /\ new.status = row.status
  BY <1>2 DEF ApprovalRow
<1>5. new.status = "APPROVED_FOR_PAPER_REVIEW" => Vouched(new)
  <2> HIDE DEF new
  <2> QED
    BY <1>2, <1>4 DEF Vouched, Priced
<1> QED
  BY <1>1, <1>3, <1>5 DEF IInv, TypeOK, ApprovalsVouched

LEMMA BuildKeeps ==
  ASSUME IInv, Build
  PROVE  /\ payloadCsv' \subseteq PayloadRow
         /\ ReadyRowsAreSound' /\ ReadyRowsClearPolicy' /\ ReadyRowsPriceTheirLegs'
<1>1. payloadCsv' = {Payload(row) : row \in approvalCsv}
  BY DEF Build
<1>2. \A row \in approvalCsv :
        row \in ApprovalRow /\ (row.status = "APPROVED_FOR_PAPER_REVIEW" => Vouched(row))
  BY DEF IInv, TypeOK, ApprovalsVouched
<1>3. \A row \in approvalCsv :
        /\ Payload(row) \in PayloadRow
        /\ Payload(row).status = "PAPER_PAYLOAD_READY" => Sound(Payload(row))
  BY <1>2, PayloadRows
<1>4. payloadCsv' \subseteq PayloadRow
  BY <1>1, <1>3
<1>5. \A row \in Ready' : Sound(row)
  BY <1>1, <1>3 DEF Ready
<1> QED
  BY <1>4, <1>5 DEF Sound, ReadyRowsAreSound, ReadyRowsClearPolicy, ReadyRowsPriceTheirLegs

LEMMA NextIInv == ASSUME IInv, [Next]_vars PROVE IInv'
<1> USE DEF IInv
<1>1. CASE Stage
  BY <1>1 DEF Stage, TypeOK, SpreadRowsPriced, ApprovalsVouched, Ready,
     ReadyRowsAreSound, ReadyRowsClearPolicy, ReadyRowsPriceTheirLegs
<1>2. CASE Generate
  BY <1>2, GenerateKeeps DEF Generate, TypeOK, ApprovalsVouched, Ready,
     ReadyRowsAreSound, ReadyRowsClearPolicy, ReadyRowsPriceTheirLegs
<1>3. CASE Approve
  BY <1>3, ApproveKeeps DEF Approve, TypeOK, SpreadRowsPriced, Ready,
     ReadyRowsAreSound, ReadyRowsClearPolicy, ReadyRowsPriceTheirLegs
<1>4. CASE EditQty
  BY <1>4, EditKeeps DEF EditQty, TypeOK, SpreadRowsPriced, Ready,
     ReadyRowsAreSound, ReadyRowsClearPolicy, ReadyRowsPriceTheirLegs
<1>5. CASE Build
  BY <1>5, BuildKeeps DEF Build, TypeOK, SpreadRowsPriced, ApprovalsVouched
<1>6. CASE UNCHANGED vars
  BY <1>6 DEF vars, TypeOK, SpreadRowsPriced, ApprovalsVouched, Ready,
     ReadyRowsAreSound, ReadyRowsClearPolicy, ReadyRowsPriceTheirLegs
<1> QED
  BY <1>1, <1>2, <1>3, <1>4, <1>5, <1>6 DEF Next

THEOREM Invariance == Spec => []IInv
BY InitIInv, NextIInv, PTL DEF Spec

\* The four files hold rows of their types.
THEOREM GatesTypeCorrect == Spec => []TypeOK
<1>1. IInv => TypeOK
  BY DEF IInv
<1> QED
  BY <1>1, Invariance, PTL

\* No READY row is stopped by a guardrail or fails to build.
THEOREM ReadyIsSendable == Spec => []ReadyRowsAreSound
<1>1. IInv => ReadyRowsAreSound
  BY DEF IInv
<1> QED
  BY <1>1, Invariance, PTL

\* Every READY row clears the table, has a positive expected value and a capped
\* loss, from whatever quotes it was made.
THEOREM ReadyClearsPolicy == Spec => []ReadyRowsClearPolicy
<1>1. IInv => ReadyRowsClearPolicy
  BY DEF IInv
<1> QED
  BY <1>1, Invariance, PTL

\* Every READY row is priced by the legs it orders.
THEOREM ReadyPricesItsLegs == Spec => []ReadyRowsPriceTheirLegs
<1>1. IInv => ReadyRowsPriceTheirLegs
  BY DEF IInv
<1> QED
  BY <1>1, Invariance, PTL

=============================================================================
