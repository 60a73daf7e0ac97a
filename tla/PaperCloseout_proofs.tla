------------------------ MODULE PaperCloseout_proofs ------------------------
(* The safety properties of PaperCloseout for every number of runs,        *)
(* payloads, legs and rows.                                                *)
EXTENDS PaperCloseout, TLAPS, FiniteSetTheorems

-----------------------------------------------------------------------------
(* Types                                                                   *)

LEMMA IdleType == IdleRun \in Run
BY LegsAssumption, AttemptAssumption DEF IdleRun, Run, Stages, Shapes, Attempt

LEMMA ExitTypes ==
  ASSUME TypeOK, NEW p \in Proc, Exit(p)
  PROVE  /\ run' \in [Proc -> Run]
         /\ moved' \in [Proc -> SUBSET Leg]
         /\ haltSince' \subseteq Proc
BY IdleType DEF TypeOK, Exit, Becomes

LEMMA RecordTypes ==
  ASSUME TypeOK, NEW p \in Proc, NEW r \in run[p].todo,
         NEW status \in CloseStatuses, NEW attempt \in Attempt,
         Record(p, r, status, attempt)
  PROVE  run' \in [Proc -> Run]
<1> DEFINE row == [at |-> r.at, payload |-> r.payload, status |-> status,
                   attempt |-> attempt]
           new == [run[p] EXCEPT
                     !.todo = @ \ {r},
                     !.pc = IF run[p].todo = {r} THEN "write" ELSE "row",
                     !.reply = "none",
                     !.attempt = 0,
                     !.results = @ \cup {row}]
<1>1. run[p] \in Run
  BY DEF TypeOK
<1>2. r \in StatusRow
  BY <1>1 DEF Run
<1>3. row \in CloseRow
  BY <1>2 DEF CloseRow, StatusRow
<1>4. new \in Run
  <2>1. run[p].results \cup {row} \in SUBSET CloseRow
    BY <1>1, <1>3 DEF Run
  <2>2. run[p].todo \ {r} \in SUBSET StatusRow
    BY <1>1 DEF Run
  <2>3. (IF run[p].todo = {r} THEN "write" ELSE "row") \in Stages
    BY DEF Stages
  <2>4. 0 \in Attempt
    BY AttemptAssumption DEF Attempt
  <2> HIDE DEF row
  <2> QED
    BY <1>1, <2>1, <2>2, <2>3, <2>4 DEF Run
<1>5. run' = [run EXCEPT ![p] = new]
  BY DEF Record, Becomes
<1> QED
  BY <1>4, <1>5 DEF TypeOK

LEMMA BecomesTypes ==
  ASSUME TypeOK, NEW p \in Proc, NEW new \in Run, Becomes(p, new)
  PROVE  /\ run' \in [Proc -> Run]
         /\ run'[p] = new
         /\ \A q \in Proc \ {p} : run'[q] = run[q]
BY DEF TypeOK, Becomes

\* The ways a step changes the record of a run, besides Record.
LEMMA RunUpdates ==
  ASSUME NEW c \in Run, NEW stage \in Stages
  PROVE  /\ [c EXCEPT !.pc = stage] \in Run
         /\ [c EXCEPT !.seen = "failed"] \in Run
         /\ \A pos \in [Leg -> Int] :
              [c EXCEPT !.seen = "ok", !.positions = pos] \in Run
         /\ \A n \in Attempt : [c EXCEPT !.pc = stage, !.attempt = n] \in Run
         /\ \A reply \in {"accepted", "failed"} :
              [c EXCEPT !.pc = stage, !.reply = reply] \in Run
<1>1. [c EXCEPT !.pc = stage] \in Run
  BY DEF Run
<1>2. [c EXCEPT !.seen = "failed"] \in Run
  BY DEF Run
<1>3. ASSUME NEW pos \in [Leg -> Int]
      PROVE  [c EXCEPT !.seen = "ok", !.positions = pos] \in Run
  BY DEF Run
<1>4. ASSUME NEW n \in Attempt
      PROVE  [c EXCEPT !.pc = stage, !.attempt = n] \in Run
  BY DEF Run
<1>5. ASSUME NEW reply \in {"accepted", "failed"}
      PROVE  [c EXCEPT !.pc = stage, !.reply = reply] \in Run
  BY DEF Run
<1> QED
  BY <1>1, <1>2, <1>3, <1>4, <1>5

LEMMA SlicedSubset ==
  ASSUME NEW rows, NEW limit
  PROVE  Sliced(rows, limit) \subseteq rows
BY DEF Sliced

LEMMA InitTypes == ASSUME Init PROVE TypeOK
<1>1. run \in [Proc -> Run]
  BY IdleType DEF Init
<1>2. held \in [Leg -> Int] /\ moved \in [Proc -> SUBSET Leg]
  BY DEF Init
<1>3. order \in [Payload \X Attempt -> {"none", "open", "filled", "dead"}]
  BY DEF Init
<1>4. audit \in [on : BOOLEAN, todo : SUBSET OrderRow, rows : SUBSET StatusRow]
  BY DEF Init
<1> QED
  BY <1>1, <1>2, <1>3, <1>4 DEF Init, TypeOK

LEMMA EnvTypes ==
  ASSUME TypeOK, NEW x \in Payload, NEW n \in Attempt,
         OpenOrders \/ FillOpen(x) \/ FillClose(x, n) \/ Expire(x, n)
  PROVE  TypeOK'
<1>1. CASE OpenOrders
  <2>1. transportCsv' \subseteq OrderRow
    <3>1. PICK new \in SUBSET Payload, place \in [Payload -> 1..Cardinality(Payload)] :
            transportCsv' = {[at |-> place[z], payload |-> z, attempt |-> 0] : z \in new}
      BY <1>1 DEF OpenOrders
    <3>2. \A k \in 1..Cardinality(Payload) : k \in Nat
      OBVIOUS
    <3>3. \A z \in new : place[z] \in Nat
      BY <3>1, <3>2
    <3>4. 0 \in Attempt
      BY AttemptAssumption DEF Attempt
    <3> QED
      BY <3>1, <3>3, <3>4 DEF OrderRow
  <2>2. order' \in [Payload \X Attempt -> {"none", "open", "filled", "dead"}]
    BY <1>1 DEF OpenOrders, TypeOK
  <2> QED
    BY <1>1, <2>1, <2>2 DEF OpenOrders, TypeOK, history
<1>2. ASSUME NEW m \in Int, Trade(x, m)
      PROVE  held' \in [Leg -> Int] /\ moved' \in [Proc -> SUBSET Leg]
  <2>1. LongLeg[x] \in Leg /\ ShortLeg[x] \in Leg
    BY LegsAssumption
  <2>2. held' \in [Leg -> Int]
    BY <1>2, <2>1 DEF Trade, TypeOK
  <2>3. moved' \in [Proc -> SUBSET Leg]
    BY <1>2, <2>1 DEF Trade, TypeOK, Legs
  <2> QED
    BY <2>2, <2>3
<1>3. CASE FillOpen(x)
  <2>1. Qty[x] \in Int
    BY LegsAssumption
  <2> QED
    BY <1>2, <1>3, <2>1 DEF FillOpen, TypeOK
<1>4. CASE FillClose(x, n)
  <2>1. -Qty[x] \in Int
    BY LegsAssumption
  <2> QED
    BY <1>2, <1>4, <2>1 DEF FillClose, TypeOK
<1>5. CASE Expire(x, n)
  BY <1>5 DEF Expire, TypeOK, history
<1> QED
  BY <1>1, <1>3, <1>4, <1>5

LEMMA AuditTypes ==
  ASSUME TypeOK, AuditStart \/ AuditFetch \/ AuditEnd
  PROVE  TypeOK'
<1>1. CASE AuditStart
  <2>1. SubmittedCloses \subseteq OrderRow
    BY DEF TypeOK, SubmittedCloses, OrderRow, CloseRow
  <2>2. PICK rows \in {transportCsv, SubmittedCloses}, limit \in Limits :
          audit' = [on |-> TRUE, todo |-> Sliced(rows, limit), rows |-> {}]
    BY <1>1 DEF AuditStart
  <2>3. Sliced(rows, limit) \subseteq OrderRow
    BY <2>1, SlicedSubset DEF TypeOK
  <2> QED
    BY <1>1, <2>2, <2>3 DEF AuditStart, TypeOK, broker, history
<1>2. CASE AuditFetch
  <2>1. PICK r \in audit.todo, ok \in BOOLEAN :
          audit' = [audit EXCEPT
            !.todo = @ \ {r},
            !.rows = @ \cup {[at |-> r.at, payload |-> r.payload,
                              attempt |-> r.attempt,
                              filled |-> ok /\ order[<<r.payload, r.attempt>>] = "filled"]}]
    BY <1>2 DEF AuditFetch
  <2>2. r \in OrderRow
    BY DEF TypeOK
  <2>3. [at |-> r.at, payload |-> r.payload, attempt |-> r.attempt,
         filled |-> ok /\ order[<<r.payload, r.attempt>>] = "filled"] \in StatusRow
    BY <2>2 DEF OrderRow, StatusRow
  <2>4. audit' \in [on : BOOLEAN, todo : SUBSET OrderRow, rows : SUBSET StatusRow]
    BY <2>1, <2>3 DEF TypeOK
  <2> QED
    BY <1>2, <2>4 DEF AuditFetch, TypeOK, broker, history
<1>3. CASE AuditEnd
  BY <1>3 DEF AuditEnd, TypeOK, broker, history
<1> QED
  BY <1>1, <1>2, <1>3

LEMMA StartRun ==
  ASSUME TypeOK, NEW p \in Proc, CloseStart(p)
  PROVE  \E rows \in SUBSET statusCsv :
           /\ \A r \in rows : r.filled
           /\ run'[p].todo = rows
           /\ run'[p].pc = "row" /\ run'[p].seen = "no"
           /\ run'[p].results = {} /\ run'[p].reply = "none"
           /\ run' \in [Proc -> Run]
           /\ run' = [run EXCEPT ![p] = run'[p]]
<1>1. PICK only \in {Payload} \cup {{x} : x \in Payload}, limit \in Limits,
           paper \in BOOLEAN, file \in PayloadFiles, first \in statusCsv :
        Becomes(p, [IdleRun EXCEPT
          !.pc = "row", !.paper = paper, !.known = file,
          !.todo = Chosen(only, limit), !.first = first.payload])
  BY DEF CloseStart
<1> DEFINE rows == Chosen(only, limit)
           new == [IdleRun EXCEPT
                     !.pc = "row", !.paper = paper, !.known = file, !.todo = rows,
                     !.first = first.payload]
<1>2. rows \subseteq FilledRows({s \in statusCsv : s.payload \in only})
  BY SlicedSubset DEF Chosen
<1>3. rows \subseteq statusCsv /\ \A r \in rows : r.filled
  BY <1>2 DEF FilledRows
<1>4. rows \in SUBSET StatusRow /\ file \in [Payload -> Shapes]
      /\ first.payload \in Payload
  BY <1>3, FilesAssumption DEF TypeOK, StatusRow
<1>5. run' = [run EXCEPT ![p] = new]
  BY <1>1 DEF Becomes
<1> HIDE DEF rows
<1>6. new \in Run
  BY <1>4, IdleType DEF Run, Stages
<1>7. /\ new.todo = rows /\ new.pc = "row" /\ new.seen = "no"
      /\ new.results = {} /\ new.reply = "none"
  BY DEF IdleRun
<1> HIDE DEF new
<1>8. run'[p] = new /\ run' \in [Proc -> Run]
  BY <1>5, <1>6 DEF TypeOK
<1> QED
  BY <1>3, <1>5, <1>7, <1>8

LEMMA NextAttemptType ==
  ASSUME IsFiniteSet(closeCsv), TypeOK, NEW x, NEW explicit \in Explicit,
         NextAttempt(x, explicit) <= MaxAttempt
  PROVE  NextAttempt(x, explicit) \in Attempt \ {0}
<1>1. IsFiniteSet({r \in closeCsv : r.payload = x})
  BY FS_Subset
<1>2. Cardinality({r \in closeCsv : r.payload = x}) \in Nat
  BY <1>1, FS_CardinalityType
<1> QED
  BY <1>2, AttemptAssumption DEF NextAttempt, Attempt

\* One step of a close command, its start and its end included.
StepOf(p) == CloseStart(p) \/ CloseStep(p) \/ Stop(p)

Environment ==
  \/ OpenOrders
  \/ \E x \in Payload : FillOpen(x)
  \/ \E x \in Payload, n \in Attempt \ {0} : FillClose(x, n)
  \/ \E x \in Payload, n \in Attempt : Expire(x, n)
  \/ AuditStart \/ AuditFetch \/ AuditEnd \/ Halt \/ Resume
  \/ UNCHANGED vars

LEMMA WhoSteps ==
  ASSUME [Next]_vars
  PROVE  Environment \/ \E p \in Proc : StepOf(p)
BY DEF Next, Environment, StepOf

LEMMA EnvironmentTypes ==
  ASSUME TypeOK, Environment
  PROVE  TypeOK'
<1>1. CASE Halt \/ Resume
  BY <1>1 DEF Halt, Resume, TypeOK, broker
<1>2. CASE UNCHANGED vars
  BY <1>2 DEF vars, TypeOK
<1>3. 0 \in Attempt
  BY AttemptAssumption DEF Attempt
<1>4. CASE OpenOrders
  <2>1. PICK x \in Payload : TRUE
    BY LegsAssumption
  <2> QED
    BY <1>3, <1>4, <2>1, EnvTypes
<1> QED
  BY <1>1, <1>2, <1>3, <1>4, EnvTypes, AuditTypes DEF Environment

LEMMA StepTypes ==
  ASSUME TypeOK, IsFiniteSet(closeCsv), NEW p \in Proc, StepOf(p)
  PROVE  TypeOK'
<1> USE DEF Keep, broker, history
<1>0. run[p] \in Run /\ held \in [Leg -> Int]
  BY DEF TypeOK
<1>1. CASE CloseStart(p)
  BY <1>1, StartRun DEF CloseStart, TypeOK
<1>2. CASE SkipRow(p) \/ RowError(p) \/ ReceiveError(p)
  <2>1. 0 \in Attempt
    BY AttemptAssumption DEF Attempt
  <2>2. PICK r \in run[p].todo, status \in CloseStatuses : Record(p, r, status, 0)
    BY <1>2 DEF SkipRow, RowError, ReceiveError, CloseStatuses
  <2> QED
    BY <1>2, <2>1, <2>2, RecordTypes DEF SkipRow, RowError, ReceiveError, TypeOK
<1>3. CASE ReceiveAccepted(p)
  <2>1. PICK r \in run[p].todo :
          Record(p, r, "PAPER_CLOSE_SUBMITTED", run[p].attempt)
    BY <1>3 DEF ReceiveAccepted
  <2>2. run[p].attempt \in Attempt
    BY DEF TypeOK, Run
  <2> QED
    BY <1>3, <2>1, <2>2, RecordTypes DEF ReceiveAccepted, TypeOK, CloseStatuses
<1>4. CASE FetchPositions(p)
  <2>1. PICK new \in {[run[p] EXCEPT !.seen = "ok", !.positions = held],
                      [run[p] EXCEPT !.seen = "failed"]} : Becomes(p, new)
    BY <1>4 DEF FetchPositions
  <2>2. new \in Run
    <3>1. "row" \in Stages
      BY DEF Stages
    <3>2. [run[p] EXCEPT !.seen = "ok", !.positions = held] \in Run
      BY <1>0, <3>1, RunUpdates
    <3>3. [run[p] EXCEPT !.seen = "failed"] \in Run
      BY <1>0, <3>1, RunUpdates
    <3> QED
      BY <3>2, <3>3
  <2>3. run' \in [Proc -> Run]
    BY <2>1, <2>2, BecomesTypes
  <2> QED
    BY <1>4, <2>3 DEF FetchPositions, TypeOK
<1>5. CASE Prepare(p)
  <2>1. PICK r \in run[p].todo, explicit \in Explicit :
          LET n == NextAttempt(r.payload, explicit) IN
          /\ n <= MaxAttempt
          /\ IF run[p].paper
             THEN Becomes(p, [run[p] EXCEPT !.pc = "submit", !.attempt = n])
             ELSE Record(p, r, "PAPER_CLOSE_DRY_RUN_READY", 0)
    BY <1>5 DEF Prepare
  <2>2. NextAttempt(r.payload, explicit) \in Attempt
    BY <2>1, NextAttemptType
  <2>3. 0 \in Attempt
    BY AttemptAssumption DEF Attempt
  <2>4. run' \in [Proc -> Run]
    <3>1. CASE run[p].paper
      <4> DEFINE n == NextAttempt(r.payload, explicit)
      <4>1. Becomes(p, [run[p] EXCEPT !.pc = "submit", !.attempt = n])
        BY <2>1, <3>1
      <4> HIDE DEF n
      <4>2. [run[p] EXCEPT !.pc = "submit", !.attempt = n] \in Run
        BY <1>0, <2>2, RunUpdates DEF Stages, n
      <4> QED
        BY <4>1, <4>2, BecomesTypes
    <3>2. CASE ~run[p].paper
      BY <2>1, <2>3, <3>2, RecordTypes DEF CloseStatuses
    <3> QED
      BY <3>1, <3>2
  <2> QED
    BY <1>5, <2>4 DEF Prepare, TypeOK
<1>6. CASE SubmitNotHalted(p) \/ BrokerFails(p)
  <2>1. PICK new \in {[run[p] EXCEPT !.pc = "send"],
                      [run[p] EXCEPT !.pc = "reply", !.reply = "failed"]} :
          Becomes(p, new)
    BY <1>6 DEF SubmitNotHalted, BrokerFails
  <2>2. new \in Run
    BY <1>0, RunUpdates DEF Stages
  <2>3. run' \in [Proc -> Run]
    BY <2>1, <2>2, BecomesTypes
  <2> QED
    BY <1>6, <2>3 DEF SubmitNotHalted, BrokerFails, TypeOK
<1>7. CASE BrokerAccepts(p)
  <2>1. run' \in [Proc -> Run]
    <3>1. [run[p] EXCEPT !.pc = "reply", !.reply = "accepted"] \in Run
      BY <1>0, RunUpdates DEF Stages
    <3> QED
      BY <1>7, <3>1, BecomesTypes DEF BrokerAccepts
  <2>2. order' \in [Payload \X Attempt -> {"none", "open", "filled", "dead"}]
    BY <1>7 DEF BrokerAccepts, TypeOK
  <2> QED
    BY <1>7, <2>1, <2>2 DEF BrokerAccepts, TypeOK
<1>8. CASE QuoteRaises(p) \/ SubmitHalted(p) \/ PrintRaises(p) \/ Stop(p)
  BY <1>8, ExitTypes DEF QuoteRaises, SubmitHalted, PrintRaises, Stop, TypeOK
<1>9. CASE Finish(p)
  <2>1. closeCsv' \subseteq CloseRow
    BY <1>9 DEF Finish, TypeOK, Run
  <2> QED
    BY <1>9, <2>1, ExitTypes DEF Finish, TypeOK
<1> QED
  BY <1>1, <1>2, <1>3, <1>4, <1>5, <1>6, <1>7, <1>8, <1>9 DEF StepOf, CloseStep

-----------------------------------------------------------------------------
(* The inductive invariant                                                 *)

OrderOf(r) == order[<<r.payload, r.attempt>>]

\* Rows that say filled name filled orders, on their way to a run's memory.
RowsReal(p) == \A r \in run[p].todo : r.filled /\ OrderOf(r) = "filled"

AuditRowsReal == \A r \in audit.rows : r.filled => OrderOf(r) = "filled"

\* A run knows the positions up to the legs traded since.
SeenHolds(p) ==
  run[p].seen = "ok" =>
    \A leg \in Leg : run[p].positions[leg] = held[leg] \/ leg \in moved[p]

\* What a run has established before it sends a request.
Prepared(p) ==
  /\ run[p].pc \in {"submit", "send", "reply"} => run[p].attempt > 0
  /\ run[p].pc \in {"submit", "send"} =>
       \A r \in run[p].todo : First(run[p].todo, r) => Confirmed(p, r.payload)

HaltChecked(p) == run[p].pc = "send" => ~halted \/ p \in haltSince

ReplyReal(p) ==
  run[p].reply = "accepted" =>
    /\ run[p].pc = "reply"
    /\ \A r \in run[p].todo : First(run[p].todo, r) =>
         order[<<r.payload, run[p].attempt>>] # "none"

CloseRowsReal(rows) ==
  \A r \in rows : r.status = "PAPER_CLOSE_SUBMITTED" =>
    r.attempt # 0 /\ OrderOf(r) # "none"

ResultsReal(p) == IsFiniteSet(run[p].results) /\ CloseRowsReal(run[p].results)

\* A place in a file stands for one row.
Distinct(rows) == \A r, s \in rows : r.at = s.at => r = s

Apart(todo, done) ==
  /\ Distinct(todo) /\ Distinct(done)
  /\ \A r \in todo, s \in done : r.at # s.at

FilesDistinct ==
  /\ Distinct(transportCsv) /\ Distinct(statusCsv) /\ Distinct(closeCsv)
  /\ Apart(audit.todo, audit.rows)

RunDistinct(p) == Apart(run[p].todo, run[p].results)

RunGood(p) == /\ RunDistinct(p) /\ RowsReal(p) /\ SeenHolds(p)
              /\ Prepared(p) /\ HaltChecked(p) /\ ReplyReal(p) /\ ResultsReal(p)

IInv == /\ TypeOK
        /\ ClosesFollowFills
        /\ FilledRowsReal
        /\ AuditRowsReal
        /\ FilesDistinct
        /\ IsFiniteSet(closeCsv) /\ CloseRowsReal(closeCsv)
        /\ \A p \in Proc : RunGood(p)

-----------------------------------------------------------------------------
(* What never comes undone                                                 *)

\* Accepted orders stay accepted and filled ones filled.
OrdersLast ==
  \A ref \in Payload \X Attempt :
    /\ order[ref] = "filled" => order'[ref] = "filled"
    /\ order[ref] # "none" => order'[ref] # "none"

LEMMA NextOrdersLast ==
  ASSUME TypeOK, [Next]_vars
  PROVE  OrdersLast
<1>1. CASE order' = order
  BY <1>1 DEF OrdersLast
<1>2. CASE OpenOrders
  BY <1>2 DEF OpenOrders, OrdersLast, TypeOK
<1>3. ASSUME NEW x \in Payload, NEW n \in Attempt,
             FillOpen(x) \/ FillClose(x, n) \/ Expire(x, n)
      PROVE  OrdersLast
  <2>1. PICK ref \in Payload \X Attempt, new \in {"filled", "dead"} :
          order[ref] = "open" /\ order' = [order EXCEPT ![ref] = new]
    BY <1>3, AttemptAssumption DEF FillOpen, FillClose, Expire, Attempt
  <2> QED
    BY <2>1 DEF OrdersLast, TypeOK
<1>4. ASSUME NEW p \in Proc, BrokerAccepts(p)
      PROVE  OrdersLast
  <2>1. PICK r \in run[p].todo :
          /\ order[<<r.payload, run[p].attempt>>] = "none"
          /\ order' = [order EXCEPT ![<<r.payload, run[p].attempt>>] = "open"]
    BY <1>4 DEF BrokerAccepts
  <2> QED
    BY <2>1 DEF OrdersLast, TypeOK
<1>5. CASE AuditStart \/ AuditFetch \/ AuditEnd \/ Halt \/ Resume \/ UNCHANGED vars
  BY <1>1, <1>5 DEF AuditStart, AuditFetch, AuditEnd, Halt, Resume, vars, broker
<1>6. ASSUME NEW p \in Proc, StepOf(p), ~BrokerAccepts(p)
      PROVE  order' = order
  BY <1>6 DEF StepOf, CloseStep, CloseStart, SkipRow, FetchPositions, RowError,
     QuoteRaises, Prepare, SubmitHalted, SubmitNotHalted, BrokerFails,
     ReceiveAccepted, ReceiveError, PrintRaises, Finish, Stop, Keep, broker
<1>7. 0 \in Attempt
  BY AttemptAssumption DEF Attempt
<1> QED
  BY <1>1, <1>2, <1>3, <1>4, <1>5, <1>6, <1>7, WhoSteps DEF Environment

-----------------------------------------------------------------------------
(* The rows in the files                                                   *)

LEMMA StartSources ==
  ASSUME TypeOK, NEW p \in Proc, NEW r \in run[p].todo
  PROVE  r \in StatusRow /\ <<r.payload, r.attempt>> \in Payload \X Attempt
BY DEF TypeOK, Run, StatusRow

\* No row loses its order.
LEMMA RowsStay ==
  ASSUME TypeOK, OrdersLast
  PROVE  /\ \A r \in StatusRow : OrderOf(r) = "filled" => OrderOf(r)' = "filled"
         /\ \A r \in CloseRow : OrderOf(r) # "none" => OrderOf(r)' # "none"
BY DEF OrdersLast, OrderOf, StatusRow, CloseRow

LEMMA NextAuditRowsReal ==
  ASSUME IInv, [Next]_vars
  PROVE  AuditRowsReal'
<1>0. TypeOK /\ OrdersLast /\ AuditRowsReal
  BY NextOrdersLast DEF IInv
<1>1. CASE audit' = audit
  BY <1>0, <1>1, RowsStay DEF AuditRowsReal, TypeOK
<1>2. CASE AuditStart \/ AuditEnd
  BY <1>2 DEF AuditStart, AuditEnd, AuditRowsReal
<1>3. CASE AuditFetch
  <2>1. PICK r \in audit.todo, ok \in BOOLEAN :
          audit' = [audit EXCEPT
            !.todo = @ \ {r},
            !.rows = @ \cup {[at |-> r.at, payload |-> r.payload,
                              attempt |-> r.attempt,
                              filled |-> ok /\ order[<<r.payload, r.attempt>>] = "filled"]}]
    BY <1>3 DEF AuditFetch
  <2> DEFINE row == [at |-> r.at, payload |-> r.payload, attempt |-> r.attempt,
                     filled |-> ok /\ order[<<r.payload, r.attempt>>] = "filled"]
  <2>2. audit'.rows = audit.rows \cup {row}
    BY <1>0, <2>1 DEF TypeOK
  <2>3. order' = order
    BY <1>3 DEF AuditFetch, broker
  <2>4. row.filled => OrderOf(row) = "filled"
    BY DEF OrderOf
  <2> HIDE DEF row
  <2> QED
    BY <1>0, <2>2, <2>3, <2>4 DEF AuditRowsReal, OrderOf
<1>4. audit' = audit \/ AuditStart \/ AuditEnd \/ AuditFetch
  <2>1. CASE Environment
    BY <2>1 DEF Environment, OpenOrders, FillOpen, FillClose, Expire, Halt,
       Resume, vars
  <2>2. ASSUME NEW p \in Proc, StepOf(p)
        PROVE  audit' = audit
    BY <2>2 DEF StepOf, CloseStep, CloseStart, SkipRow, FetchPositions, RowError,
       QuoteRaises, Prepare, SubmitHalted, SubmitNotHalted, BrokerAccepts,
       BrokerFails, ReceiveAccepted, ReceiveError, PrintRaises, Finish, Stop, Keep
  <2> QED
    BY <2>1, <2>2, WhoSteps
<1> QED
  BY <1>1, <1>2, <1>3, <1>4

LEMMA NextFilledRowsReal ==
  ASSUME IInv, [Next]_vars
  PROVE  FilledRowsReal'
<1>0. TypeOK /\ OrdersLast /\ AuditRowsReal /\ FilledRowsReal
  BY NextOrdersLast DEF IInv
<1>1. CASE statusCsv' = statusCsv
  <2>1. \A r \in statusCsv : r \in StatusRow
    BY <1>0 DEF TypeOK
  <2> QED
    BY <1>0, <1>1, <2>1, RowsStay DEF FilledRowsReal, OrderOf
<1>2. CASE AuditEnd
  <2>1. order' = order /\ (statusCsv' = statusCsv \/ statusCsv' = audit.rows)
    BY <1>2 DEF AuditEnd, broker
  <2> QED
    BY <1>0, <2>1 DEF AuditRowsReal, FilledRowsReal, OrderOf
<1>3. statusCsv' = statusCsv \/ AuditEnd
  <2>1. CASE Environment
    BY <2>1 DEF Environment, OpenOrders, FillOpen, FillClose, Expire, Halt,
       Resume, vars, AuditStart, AuditFetch
  <2>2. ASSUME NEW p \in Proc, StepOf(p)
        PROVE  statusCsv' = statusCsv
    BY <2>2 DEF StepOf, CloseStep, CloseStart, SkipRow, FetchPositions, RowError,
       QuoteRaises, Prepare, SubmitHalted, SubmitNotHalted, BrokerAccepts,
       BrokerFails, ReceiveAccepted, ReceiveError, PrintRaises, Finish, Stop, Keep
  <2> QED
    BY <2>1, <2>2, WhoSteps
<1> QED
  BY <1>1, <1>2, <1>3

\* A request is only accepted on a row whose opening order is filled.
LEMMA NextClosesFollowFills ==
  ASSUME IInv, [Next]_vars
  PROVE  ClosesFollowFills'
<1>0. TypeOK /\ OrdersLast /\ ClosesFollowFills
  BY NextOrdersLast DEF IInv
<1>z. 0 \in Attempt
  BY AttemptAssumption DEF Attempt
<1>1. CASE \A x \in Payload, n \in Attempt \ {0} :
             order[<<x, n>>] = "none" => order'[<<x, n>>] = "none"
  BY <1>0, <1>1, <1>z DEF ClosesFollowFills, OrdersLast
<1>2. ASSUME NEW p \in Proc, BrokerAccepts(p)
      PROVE  ClosesFollowFills'
  <2>1. PICK r \in run[p].todo :
          /\ First(run[p].todo, r)
          /\ order' = [order EXCEPT ![<<r.payload, run[p].attempt>>] = "open"]
    BY <1>2 DEF BrokerAccepts
  <2>2. order[<<r.payload, r.attempt>>] = "filled"
    BY DEF IInv, RunGood, RowsReal, OrderOf
  <2>3. r.payload \in Payload /\ r.attempt \in Attempt
    BY <1>0, StartSources DEF StatusRow
  <2>4. order[<<r.payload, 0>>] = "filled"
    BY <1>0, <2>2, <2>3 DEF ClosesFollowFills
  <2>5. order'[<<r.payload, 0>>] = "filled"
    BY <1>0, <1>z, <2>3, <2>4 DEF OrdersLast
  <2>6. ASSUME NEW x \in Payload, NEW n \in Attempt \ {0}, x # r.payload
        PROVE  order'[<<x, n>>] = order[<<x, n>>]
    BY <1>0, <2>1, <2>6 DEF TypeOK
  <2> QED
    BY <1>0, <1>z, <2>5, <2>6 DEF ClosesFollowFills, OrdersLast
<1>3. ASSUME NEW p \in Proc, StepOf(p), ~BrokerAccepts(p)
      PROVE  order' = order
  BY <1>3 DEF StepOf, CloseStep, CloseStart, SkipRow, FetchPositions, RowError,
     QuoteRaises, Prepare, SubmitHalted, SubmitNotHalted, BrokerFails,
     ReceiveAccepted, ReceiveError, PrintRaises, Finish, Stop, Keep, broker
<1>4. CASE OpenOrders
  BY <1>1, <1>4, <1>0 DEF OpenOrders, TypeOK
<1>5. ASSUME NEW x \in Payload, NEW n \in Attempt,
             FillOpen(x) \/ FillClose(x, n) \/ Expire(x, n)
      PROVE  \A y \in Payload, m \in Attempt \ {0} :
               order[<<y, m>>] = "none" => order'[<<y, m>>] = "none"
  <2>1. PICK k \in Attempt, new \in {"filled", "dead"} :
          /\ order[<<x, k>>] = "open"
          /\ order' = [order EXCEPT ![<<x, k>>] = new]
    BY <1>5, <1>z DEF FillOpen, FillClose, Expire
  <2> QED
    BY <1>0, <2>1 DEF TypeOK
<1>6. CASE AuditStart \/ AuditFetch \/ AuditEnd \/ Halt \/ Resume \/ UNCHANGED vars
  BY <1>1, <1>6 DEF AuditStart, AuditFetch, AuditEnd, Halt, Resume, vars, broker
<1> QED
  BY <1>1, <1>2, <1>3, <1>4, <1>5, <1>6, <1>z, WhoSteps DEF Environment

-----------------------------------------------------------------------------
(* What a run knows                                                        *)

\* Steps elsewhere: the record of run p stays as it is.
LEMMA OthersKeepGood ==
  ASSUME TypeOK, OrdersLast, NEW p \in Proc, RunGood(p), run'[p] = run[p],
         HaltChecked(p)', SeenHolds(p)'
  PROVE  RunGood(p)'
<1>1. run[p] \in Run
  BY DEF TypeOK
<1>2. RowsReal(p)'
  <2>1. \A r \in run[p].todo : r \in StatusRow
    BY <1>1 DEF Run
  <2> QED
    BY <2>1, RowsStay DEF RunGood, RowsReal, OrderOf
<1>3. Prepared(p)'
  BY DEF RunGood, Prepared, Confirmed
<1>4. ReplyReal(p)'
  <2>1. \A r \in run[p].todo : <<r.payload, run[p].attempt>> \in Payload \X Attempt
    BY <1>1 DEF Run, StatusRow
  <2> QED
    BY <2>1 DEF RunGood, ReplyReal, OrdersLast
<1>5. ResultsReal(p)'
  <2>1. \A r \in run[p].results : r \in CloseRow
    BY <1>1 DEF Run
  <2> QED
    BY <2>1, RowsStay DEF RunGood, ResultsReal, CloseRowsReal, OrderOf
<1>6. RunDistinct(p)'
  BY DEF RunGood, RunDistinct
<1> QED
  BY <1>2, <1>3, <1>4, <1>5, <1>6 DEF RunGood

\* What is traded is noted for every run that has looked.
LEMMA TradeKeepsSeen ==
  ASSUME TypeOK, NEW x \in Payload, NEW n, Trade(x, n), run' = run,
         NEW p \in Proc, SeenHolds(p)
  PROVE  SeenHolds(p)'
<1>1. CASE run[p].seen # "ok"
  BY <1>1 DEF SeenHolds
<1>2. CASE run[p].seen = "ok"
  <2>1. moved'[p] = moved[p] \cup Legs(x)
    BY <1>2 DEF Trade, TypeOK
  <2>2. \A leg \in Leg \ Legs(x) : held'[leg] = held[leg]
    BY DEF Trade, Legs, TypeOK
  <2> QED
    BY <1>2, <2>1, <2>2 DEF SeenHolds
<1> QED
  BY <1>1, <1>2

LEMMA EnvironmentKeepsGood ==
  ASSUME IInv, Environment, OrdersLast, NEW p \in Proc
  PROVE  RunGood(p)'
<1>0. TypeOK /\ RunGood(p) /\ SeenHolds(p) /\ HaltChecked(p)
  BY DEF IInv, RunGood
<1>1. run' = run
  BY DEF Environment, OpenOrders, FillOpen, FillClose, Expire, AuditStart,
     AuditFetch, AuditEnd, Halt, Resume, vars
<1>2. HaltChecked(p)'
  <2>1. CASE Halt \/ Resume
    BY <1>1, <2>1 DEF Halt, Resume, HaltChecked
  <2>2. CASE UNCHANGED <<halted, haltSince>>
    BY <1>0, <1>1, <2>2 DEF HaltChecked
  <2> QED
    BY <2>1, <2>2 DEF Environment, OpenOrders, FillOpen, FillClose, Expire,
       AuditStart, AuditFetch, AuditEnd, vars, history
<1>3. SeenHolds(p)'
  <2>1. CASE UNCHANGED <<held, moved>>
    BY <1>0, <1>1, <2>1 DEF SeenHolds
  <2>2. ASSUME NEW x \in Payload, NEW n \in Attempt, FillOpen(x) \/ FillClose(x, n)
        PROVE  SeenHolds(p)'
    BY <1>0, <1>1, <2>2, TradeKeepsSeen DEF FillOpen, FillClose
  <2>3. 0 \in Attempt
    BY AttemptAssumption DEF Attempt
  <2> QED
    BY <2>1, <2>2, <2>3 DEF Environment, OpenOrders, Expire,
       AuditStart, AuditFetch, AuditEnd, Halt, Resume, vars, history, broker
<1> QED
  BY <1>0, <1>1, <1>2, <1>3, OthersKeepGood

LEMMA OtherRuns ==
  ASSUME IInv, OrdersLast, NEW p \in Proc, NEW q \in Proc, p # q, StepOf(p)
  PROVE  RunGood(q)'
<1>0. TypeOK /\ RunGood(q) /\ SeenHolds(q) /\ HaltChecked(q)
  BY DEF IInv, RunGood
<1>1. /\ run'[q] = run[q] /\ moved'[q] = moved[q]
      /\ q \in haltSince => q \in haltSince'
      /\ halted' = halted /\ held' = held
  <2>1. CASE Exit(p) /\ halted' = halted /\ held' = held
    BY <1>0, <2>1 DEF Exit, Becomes, TypeOK
  <2>2. ASSUME NEW new, Becomes(p, new), UNCHANGED history, halted' = halted, held' = held
        PROVE  /\ run'[q] = run[q] /\ moved'[q] = moved[q]
               /\ q \in haltSince => q \in haltSince'
    BY <1>0, <2>2 DEF Becomes, TypeOK, history
  <2> QED
    BY <2>1, <2>2 DEF StepOf, CloseStep, CloseStart, SkipRow, FetchPositions,
       RowError, QuoteRaises, Prepare, SubmitHalted, SubmitNotHalted, BrokerAccepts,
       BrokerFails, ReceiveAccepted, ReceiveError, PrintRaises, Finish, Stop, Keep,
       broker, Record
<1> QED
  BY <1>0, <1>1, OthersKeepGood DEF SeenHolds, HaltChecked

LEMMA IdleGood ==
  ASSUME TypeOK, NEW p \in Proc, run'[p] = IdleRun
  PROVE  RunGood(p)'
<1>1. IsFiniteSet({})
  BY FS_EmptySet
<1> QED
  BY <1>1 DEF IdleRun, RunGood, RowsReal, SeenHolds, Prepared, HaltChecked, ReplyReal,
     ResultsReal, CloseRowsReal, RunDistinct, Apart, Distinct

\* Record appends a row about r and drops r from what is left to do.
LEMMA RecordGood ==
  ASSUME IInv, OrdersLast, NEW p \in Proc, NEW r \in run[p].todo,
         NEW status \in CloseStatuses, NEW attempt \in Attempt,
         Record(p, r, status, attempt), UNCHANGED <<held, history>>,
         status = "PAPER_CLOSE_SUBMITTED" =>
           attempt # 0 /\ order'[<<r.payload, attempt>>] # "none"
  PROVE  RunGood(p)'
<1> DEFINE row == [at |-> r.at, payload |-> r.payload, status |-> status,
                   attempt |-> attempt]
<1>0. TypeOK /\ RunGood(p) /\ run[p] \in Run
  BY DEF IInv, TypeOK
<1>1. /\ run'[p].todo = run[p].todo \ {r}
      /\ run'[p].pc \in {"write", "row"}
      /\ run'[p].reply = "none"
      /\ run'[p].results = run[p].results \cup {row}
      /\ run'[p].seen = run[p].seen /\ run'[p].positions = run[p].positions
  <2> DEFINE new == [run[p] EXCEPT
                       !.todo = @ \ {r},
                       !.pc = IF run[p].todo = {r} THEN "write" ELSE "row",
                       !.reply = "none",
                       !.attempt = 0,
                       !.results = @ \cup {row}]
  <2>1. run'[p] = new
    BY <1>0 DEF Record, Becomes, TypeOK
  <2> HIDE DEF row
  <2>2. /\ new.todo = run[p].todo \ {r}
        /\ new.pc = IF run[p].todo = {r} THEN "write" ELSE "row"
        /\ new.reply = "none"
        /\ new.results = run[p].results \cup {row}
        /\ new.seen = run[p].seen /\ new.positions = run[p].positions
    BY <1>0 DEF Run
  <2> QED
    BY <2>1, <2>2
<1>2. RowsReal(p)'
  <2>1. \A s \in run[p].todo : s \in StatusRow
    BY <1>0 DEF Run
  <2> QED
    BY <1>0, <1>1, <2>1, RowsStay DEF RunGood, RowsReal, OrderOf
<1>3. SeenHolds(p)'
  BY <1>0, <1>1 DEF RunGood, SeenHolds, history
<1>4. Prepared(p)' /\ HaltChecked(p)' /\ ReplyReal(p)'
  BY <1>1 DEF Prepared, HaltChecked, ReplyReal
<1>5. ResultsReal(p)'
  <2>1. \A s \in run[p].results : s \in CloseRow
    BY <1>0 DEF Run
  <2>2. \A s \in run[p].results : s.status = "PAPER_CLOSE_SUBMITTED" =>
          s.attempt # 0 /\ OrderOf(s)' # "none"
    BY <1>0, <2>1, RowsStay DEF RunGood, ResultsReal, CloseRowsReal
  <2>3. row.status = "PAPER_CLOSE_SUBMITTED" =>
          row.attempt # 0 /\ OrderOf(row)' # "none"
    BY DEF OrderOf
  <2>4. IsFiniteSet(run[p].results \cup {row})
    BY <1>0, FS_AddElement DEF RunGood, ResultsReal
  <2> HIDE DEF row
  <2> QED
    BY <1>1, <2>2, <2>3, <2>4 DEF ResultsReal, CloseRowsReal, OrderOf
<1>6. RunDistinct(p)'
  <2>1. row.at = r.at
    OBVIOUS
  <2> HIDE DEF row
  <2> QED
    BY <1>0, <1>1, <2>1 DEF RunGood, RunDistinct, Apart, Distinct
<1> QED
  BY <1>2, <1>3, <1>4, <1>5, <1>6 DEF RunGood

LEMMA OneFirst ==
  ASSUME TypeOK, NEW p \in Proc, RunGood(p), NEW r \in run[p].todo,
         NEW s \in run[p].todo, First(run[p].todo, r), First(run[p].todo, s)
  PROVE  s = r
<1>1. s.at <= r.at /\ r.at <= s.at /\ s.at \in Nat /\ r.at \in Nat
  BY DEF First, TypeOK, Run, StatusRow
<1> QED
  BY <1>1 DEF RunGood, RunDistinct, Apart, Distinct

\* A step that moves run p on without recording anything.
LEMMA MovingOn ==
  ASSUME TypeOK, NEW p \in Proc, NEW new \in Run, Becomes(p, new),
         OrdersLast, RunGood(p), UNCHANGED history,
         new.todo = run[p].todo, new.results = run[p].results,
         SeenHolds(p)', Prepared(p)', HaltChecked(p)', ReplyReal(p)'
  PROVE  RunGood(p)'
<1>1. run'[p] = new /\ run[p] \in Run
  BY BecomesTypes DEF TypeOK
<1>2. RowsReal(p)'
  <2>1. \A r \in run[p].todo : r \in StatusRow
    BY <1>1 DEF Run
  <2> QED
    BY <1>1, <2>1, RowsStay DEF RunGood, RowsReal, OrderOf
<1>3. ResultsReal(p)'
  <2>1. \A r \in run[p].results : r \in CloseRow
    BY <1>1 DEF Run
  <2> QED
    BY <1>1, <2>1, RowsStay DEF RunGood, ResultsReal, CloseRowsReal, OrderOf
<1>4. RunDistinct(p)'
  BY <1>1 DEF RunGood, RunDistinct
<1> QED
  BY <1>2, <1>3, <1>4 DEF RunGood

LEMMA OwnStep ==
  ASSUME IInv, TypeOK', OrdersLast, NEW p \in Proc, StepOf(p)
  PROVE  RunGood(p)'
<1>0. /\ TypeOK /\ RunGood(p) /\ run[p] \in Run
      /\ RowsReal(p) /\ SeenHolds(p) /\ Prepared(p) /\ HaltChecked(p) /\ ReplyReal(p)
      /\ held \in [Leg -> Int]
  BY DEF IInv, RunGood, TypeOK
<1> USE DEF Keep, broker
<1>1. CASE CloseStart(p)
  <2>1. PICK rows \in SUBSET statusCsv :
           /\ \A r \in rows : r.filled
           /\ run'[p].todo = rows
           /\ run'[p].pc = "row" /\ run'[p].seen = "no"
           /\ run'[p].results = {} /\ run'[p].reply = "none"
    BY <1>0, <1>1, StartRun
  <2>2. order' = order
    BY <1>1 DEF CloseStart
  <2>3. RowsReal(p)'
    BY <2>1, <2>2 DEF IInv, FilledRowsReal, RowsReal, OrderOf
  <2>4. IsFiniteSet({})
    BY FS_EmptySet
  <2>5. RunDistinct(p)'
    BY <2>1 DEF IInv, FilesDistinct, RunDistinct, Apart, Distinct
  <2> QED
    BY <2>1, <2>3, <2>4, <2>5 DEF RunGood, SeenHolds, Prepared, HaltChecked, ReplyReal,
       ResultsReal, CloseRowsReal
<1>2. CASE SkipRow(p) \/ RowError(p) \/ ReceiveError(p)
  <2>1. 0 \in Attempt
    BY AttemptAssumption DEF Attempt
  <2>2. PICK r \in run[p].todo,
             status \in {"PAPER_CLOSE_SKIPPED", "PAPER_CLOSE_ERROR",
                         "PAPER_CLOSE_REJECTED"} : Record(p, r, status, 0)
    BY <1>2 DEF SkipRow, RowError, ReceiveError
  <2>3. UNCHANGED <<held, history>> /\ status \in CloseStatuses
    BY <1>2 DEF SkipRow, RowError, ReceiveError, CloseStatuses
  <2> QED
    BY <2>1, <2>2, <2>3, RecordGood
<1>3. CASE ReceiveAccepted(p)
  <2>1. PICK r \in run[p].todo :
          /\ First(run[p].todo, r)
          /\ Record(p, r, "PAPER_CLOSE_SUBMITTED", run[p].attempt)
    BY <1>3 DEF ReceiveAccepted
  <2>2. run[p].attempt \in Attempt /\ run[p].attempt # 0
    BY <1>0, <1>3, AttemptAssumption DEF Run, Prepared, ReceiveAccepted, Attempt
  <2>3. order'[<<r.payload, run[p].attempt>>] # "none"
    BY <1>0, <1>3, <2>1 DEF ReplyReal, ReceiveAccepted
  <2>4. UNCHANGED <<held, history>> /\ "PAPER_CLOSE_SUBMITTED" \in CloseStatuses
    BY <1>3 DEF ReceiveAccepted, CloseStatuses
  <2> QED
    BY <2>1, <2>2, <2>3, <2>4, RecordGood
<1>4. CASE FetchPositions(p)
  <2> DEFINE ok == [run[p] EXCEPT !.seen = "ok", !.positions = held]
             bad == [run[p] EXCEPT !.seen = "failed"]
  <2>1. "row" \in Stages
    BY DEF Stages
  <2>2. ok \in Run /\ bad \in Run
    BY <1>0, <2>1, RunUpdates
  <2>3. UNCHANGED <<held, history>> /\ run[p].pc = "row"
        /\ (Becomes(p, ok) \/ Becomes(p, bad))
    BY <1>4 DEF FetchPositions
  <2>4. PICK new \in {ok, bad} : Becomes(p, new)
    BY <2>3
  <2>5. /\ new \in Run /\ new.pc = "row" /\ new.reply = run[p].reply
        /\ new.todo = run[p].todo /\ new.results = run[p].results
        /\ new.seen = "ok" => new.positions = held
    BY <1>0, <2>2, <2>3 DEF Run
  <2>6. run'[p] = new
    BY <1>0, <2>4, <2>5, BecomesTypes
  <2>7. SeenHolds(p)' /\ Prepared(p)' /\ HaltChecked(p)' /\ ReplyReal(p)'
    BY <1>0, <2>3, <2>5, <2>6 DEF SeenHolds, Prepared, HaltChecked, ReplyReal
  <2> QED
    BY <1>0, <2>3, <2>4, <2>5, <2>7, MovingOn
<1>5. CASE Prepare(p)
  <2>1. PICK r \in run[p].todo, explicit \in Explicit :
          /\ First(run[p].todo, r)
          /\ Confirmed(p, r.payload)
          /\ NextAttempt(r.payload, explicit) <= MaxAttempt
          /\ IF run[p].paper
             THEN Becomes(p, [run[p] EXCEPT !.pc = "submit",
                                !.attempt = NextAttempt(r.payload, explicit)])
             ELSE Record(p, r, "PAPER_CLOSE_DRY_RUN_READY", 0)
    BY <1>5 DEF Prepare
  <2>2. UNCHANGED <<held, halted, history>> /\ run[p].pc = "row"
    BY <1>5 DEF Prepare
  <2>3. CASE ~run[p].paper
    <3>1. 0 \in Attempt /\ "PAPER_CLOSE_DRY_RUN_READY" \in CloseStatuses
      BY AttemptAssumption DEF Attempt, CloseStatuses
    <3> QED
      BY <2>1, <2>2, <2>3, <3>1, RecordGood
  <2>4. CASE run[p].paper
    <3> DEFINE n == NextAttempt(r.payload, explicit)
               new == [run[p] EXCEPT !.pc = "submit", !.attempt = n]
    <3>1. n \in Attempt \ {0}
      BY <1>0, <2>1, NextAttemptType DEF IInv
    <3>2. n > 0
      BY <3>1, AttemptAssumption DEF Attempt
    <3>3. Becomes(p, new)
      BY <2>1, <2>4
    <3> HIDE DEF n
    <3>4. new \in Run
      BY <1>0, <3>1, RunUpdates DEF Stages
    <3>5. /\ new.pc = "submit" /\ new.attempt = n /\ new.reply = run[p].reply
          /\ new.todo = run[p].todo /\ new.results = run[p].results
          /\ new.seen = run[p].seen /\ new.positions = run[p].positions
      BY <1>0 DEF Run
    <3> HIDE DEF new
    <3>6. run'[p] = new
      BY <1>0, <3>3, <3>4, BecomesTypes
    <3>7. \A s \in run[p].todo : First(run[p].todo, s) =>
            Confirmed(p, s.payload)'
      <4>1. SUFFICES ASSUME NEW s \in run[p].todo, First(run[p].todo, s)
                     PROVE  Confirmed(p, s.payload)
        BY <3>5, <3>6 DEF Confirmed
      <4>3. s = r
        BY <1>0, <2>1, <4>1, OneFirst
      <4> QED
        BY <2>1, <4>3
    <3>8. SeenHolds(p)' /\ HaltChecked(p)' /\ ReplyReal(p)'
      BY <1>0, <2>2, <3>5, <3>6 DEF SeenHolds, HaltChecked, ReplyReal, history
    <3>9. Prepared(p)'
      BY <3>2, <3>5, <3>6, <3>7 DEF Prepared
    <3> QED
      BY <1>0, <2>2, <3>3, <3>4, <3>5, <3>8, <3>9, MovingOn
  <2> QED
    BY <2>3, <2>4
<1>6. CASE SubmitNotHalted(p)
  <2> DEFINE new == [run[p] EXCEPT !.pc = "send"]
  <2>1. Becomes(p, new) /\ UNCHANGED <<held, halted, history>>
        /\ run[p].pc = "submit" /\ ~halted
    BY <1>6 DEF SubmitNotHalted
  <2>2. new \in Run
    BY <1>0, RunUpdates DEF Stages
  <2>3. /\ new.pc = "send" /\ new.attempt = run[p].attempt
        /\ new.reply = run[p].reply
        /\ new.todo = run[p].todo /\ new.results = run[p].results
        /\ new.seen = run[p].seen /\ new.positions = run[p].positions
    BY <1>0 DEF Run
  <2> HIDE DEF new
  <2>4. run'[p] = new
    BY <1>0, <2>1, <2>2, BecomesTypes
  <2>5. SeenHolds(p)' /\ Prepared(p)' /\ HaltChecked(p)' /\ ReplyReal(p)'
    BY <1>0, <2>1, <2>3, <2>4 DEF SeenHolds, Prepared, Confirmed, HaltChecked,
       ReplyReal, history
  <2> QED
    BY <1>0, <2>1, <2>2, <2>3, <2>5, MovingOn
<1>7. CASE BrokerAccepts(p) \/ BrokerFails(p)
  <2>1. PICK reply \in {"accepted", "failed"} :
          Becomes(p, [run[p] EXCEPT !.pc = "reply", !.reply = reply])
          /\ (reply = "accepted" => BrokerAccepts(p))
    BY <1>7 DEF BrokerAccepts, BrokerFails
  <2> DEFINE new == [run[p] EXCEPT !.pc = "reply", !.reply = reply]
  <2>2. new \in Run
    BY <1>0, RunUpdates DEF Stages
  <2>3. /\ new.pc = "reply" /\ new.attempt = run[p].attempt /\ new.reply = reply
        /\ new.todo = run[p].todo /\ new.results = run[p].results
        /\ new.seen = run[p].seen /\ new.positions = run[p].positions
    BY <1>0 DEF Run
  <2>4. Becomes(p, new)
    BY <2>1
  <2> HIDE DEF new
  <2>5. run'[p] = new /\ UNCHANGED <<held, history>> /\ run[p].pc = "send"
    BY <1>0, <1>7, <2>2, <2>4, BecomesTypes DEF BrokerAccepts, BrokerFails
  <2>6. SeenHolds(p)' /\ Prepared(p)' /\ HaltChecked(p)'
    BY <1>0, <2>3, <2>5 DEF SeenHolds, Prepared, HaltChecked, history
  <2>7. ReplyReal(p)'
    <3>1. CASE reply = "failed"
      BY <2>3, <2>5, <3>1 DEF ReplyReal
    <3>2. CASE reply = "accepted"
      <4>1. PICK r \in run[p].todo :
              /\ First(run[p].todo, r)
              /\ order' = [order EXCEPT ![<<r.payload, run[p].attempt>>] = "open"]
        BY <2>1, <3>2 DEF BrokerAccepts
      <4>2. <<r.payload, run[p].attempt>> \in Payload \X Attempt
        BY <1>0 DEF Run, StatusRow
      <4>3. order'[<<r.payload, run[p].attempt>>] = "open"
        BY <1>0, <4>1, <4>2 DEF TypeOK
      <4>4. ASSUME NEW s \in run[p].todo, First(run[p].todo, s)
            PROVE  s = r
        BY <1>0, <4>1, <4>4, OneFirst
      <4> QED
        BY <2>3, <2>5, <4>3, <4>4 DEF ReplyReal
    <3> QED
      BY <3>1, <3>2
  <2> QED
    BY <1>0, <2>2, <2>3, <2>4, <2>5, <2>6, <2>7, MovingOn
<1>8. CASE QuoteRaises(p) \/ SubmitHalted(p) \/ PrintRaises(p) \/ Finish(p) \/ Stop(p)
  <2>1. Exit(p)
    BY <1>8 DEF QuoteRaises, SubmitHalted, PrintRaises, Finish, Stop
  <2>2. run'[p] = IdleRun
    BY <1>0, <2>1, IdleType, BecomesTypes DEF Exit
  <2> QED
    BY <1>0, <2>2, IdleGood
<1> QED
  BY <1>1, <1>2, <1>3, <1>4, <1>5, <1>6, <1>7, <1>8 DEF StepOf, CloseStep

-----------------------------------------------------------------------------
(* The files' rows keep apart                                              *)

LEMMA NextFilesDistinct ==
  ASSUME IInv, [Next]_vars
  PROVE  FilesDistinct'
<1>0. TypeOK /\ FilesDistinct
  BY DEF IInv
<1>1. CASE UNCHANGED <<transportCsv, statusCsv, closeCsv, audit>>
  BY <1>0, <1>1 DEF FilesDistinct, Apart, Distinct
<1>2. CASE OpenOrders
  <2>1. PICK new \in SUBSET Payload, place \in [Payload -> 1..Cardinality(Payload)] :
          /\ \A x, y \in new : place[x] = place[y] => x = y
          /\ transportCsv' = {[at |-> place[x], payload |-> x, attempt |-> 0] : x \in new}
    BY <1>2 DEF OpenOrders
  <2>2. Distinct(transportCsv')
    BY <2>1 DEF Distinct
  <2> QED
    BY <1>0, <1>2, <2>2 DEF OpenOrders, FilesDistinct, Apart, Distinct
<1>3. CASE AuditStart
  <2>1. PICK rows \in {transportCsv, SubmittedCloses}, limit \in Limits :
          audit' = [on |-> TRUE, todo |-> Sliced(rows, limit), rows |-> {}]
    BY <1>3 DEF AuditStart
  <2>2. Distinct(SubmittedCloses)
    BY <1>0 DEF FilesDistinct, Distinct, SubmittedCloses
  <2>3. Distinct(Sliced(rows, limit))
    BY <1>0, <2>2, SlicedSubset DEF FilesDistinct, Distinct
  <2> QED
    BY <1>0, <1>3, <2>1, <2>3 DEF AuditStart, FilesDistinct, Apart, Distinct
<1>4. CASE AuditFetch
  <2>1. PICK r \in audit.todo, ok \in BOOLEAN :
          audit' = [audit EXCEPT
            !.todo = @ \ {r},
            !.rows = @ \cup {[at |-> r.at, payload |-> r.payload,
                              attempt |-> r.attempt,
                              filled |-> ok /\ order[<<r.payload, r.attempt>>] = "filled"]}]
    BY <1>4 DEF AuditFetch
  <2> DEFINE row == [at |-> r.at, payload |-> r.payload, attempt |-> r.attempt,
                     filled |-> ok /\ order[<<r.payload, r.attempt>>] = "filled"]
  <2>2. audit'.todo = audit.todo \ {r} /\ audit'.rows = audit.rows \cup {row}
    BY <1>0, <2>1 DEF TypeOK
  <2>3. row.at = r.at
    OBVIOUS
  <2> HIDE DEF row
  <2>4. Apart(audit'.todo, audit'.rows)
    BY <1>0, <2>2, <2>3 DEF FilesDistinct, Apart, Distinct
  <2> QED
    BY <1>0, <1>4, <2>4 DEF AuditFetch, FilesDistinct, Apart, Distinct
<1>5. CASE AuditEnd
  BY <1>0, <1>5 DEF AuditEnd, FilesDistinct, Apart, Distinct
<1>6. ASSUME NEW p \in Proc, Finish(p)
      PROVE  FilesDistinct'
  <2>1. Apart(run[p].todo, run[p].results)
    BY DEF IInv, RunGood, RunDistinct
  <2> QED
    BY <1>0, <1>6, <2>1 DEF Finish, FilesDistinct, Apart, Distinct
<1>7. ASSUME NEW p \in Proc, StepOf(p), ~Finish(p)
      PROVE  UNCHANGED <<transportCsv, statusCsv, closeCsv, audit>>
  BY <1>7 DEF StepOf, CloseStep, CloseStart, SkipRow, FetchPositions, RowError,
     QuoteRaises, Prepare, SubmitHalted, SubmitNotHalted, BrokerAccepts, BrokerFails,
     ReceiveAccepted, ReceiveError, PrintRaises, Stop, Keep, broker
<1>8. CASE Environment
  BY <1>1, <1>2, <1>3, <1>4, <1>5, <1>8 DEF Environment, FillOpen, FillClose, Expire,
     Halt, Resume, vars
<1> QED
  BY <1>1, <1>6, <1>7, <1>8, WhoSteps

LEMMA NextCloseCsv ==
  ASSUME IInv, [Next]_vars
  PROVE  IsFiniteSet(closeCsv)' /\ CloseRowsReal(closeCsv)'
<1>0. TypeOK /\ OrdersLast /\ IsFiniteSet(closeCsv) /\ CloseRowsReal(closeCsv)
  BY NextOrdersLast DEF IInv
<1>1. CASE closeCsv' = closeCsv
  <2>1. \A r \in closeCsv : r \in CloseRow
    BY <1>0 DEF TypeOK
  <2> QED
    BY <1>0, <1>1, <2>1, RowsStay DEF CloseRowsReal, OrderOf
<1>2. ASSUME NEW p \in Proc, Finish(p), closeCsv' = run[p].results
      PROVE  IsFiniteSet(closeCsv)' /\ CloseRowsReal(closeCsv)'
  <2>1. order' = order
    BY <1>2 DEF Finish, broker
  <2>2. IsFiniteSet(run[p].results) /\ CloseRowsReal(run[p].results)
    BY DEF IInv, RunGood, ResultsReal
  <2> QED
    BY <1>2, <2>1, <2>2 DEF CloseRowsReal, OrderOf
<1>3. closeCsv' = closeCsv \/ \E p \in Proc : Finish(p) /\ closeCsv' = run[p].results
  <2>1. CASE Environment
    BY <2>1 DEF Environment, OpenOrders, FillOpen, FillClose, Expire, Halt,
       Resume, vars, AuditStart, AuditFetch, AuditEnd
  <2>2. ASSUME NEW p \in Proc, StepOf(p), ~Finish(p)
        PROVE  closeCsv' = closeCsv
    BY <2>2 DEF StepOf, CloseStep, CloseStart, SkipRow, FetchPositions, RowError,
       QuoteRaises, Prepare, SubmitHalted, SubmitNotHalted, BrokerAccepts,
       BrokerFails, ReceiveAccepted, ReceiveError, PrintRaises, Stop, Keep
  <2>3. ASSUME NEW p \in Proc, Finish(p)
        PROVE  closeCsv' = closeCsv \/ closeCsv' = run[p].results
    BY <2>3 DEF Finish
  <2> QED
    BY <2>1, <2>2, <2>3, WhoSteps
<1> QED
  BY <1>1, <1>2, <1>3

-----------------------------------------------------------------------------
(* The theorems                                                            *)

LEMMA InitInv == ASSUME Init PROVE IInv
<1>1. TypeOK
  BY InitTypes
<1>2. ASSUME NEW p \in Proc
      PROVE  RunGood(p)
  <2>1. run[p] = IdleRun
    BY <1>2 DEF Init
  <2>2. IsFiniteSet({})
    BY FS_EmptySet
  <2> QED
    BY <2>1, <2>2 DEF IdleRun, RunGood, RowsReal, SeenHolds, Prepared, HaltChecked,
       ReplyReal, ResultsReal, CloseRowsReal, RunDistinct, Apart, Distinct
<1>3. ClosesFollowFills
  BY DEF Init, ClosesFollowFills
<1>4. FilledRowsReal /\ AuditRowsReal /\ FilesDistinct
  BY DEF Init, FilledRowsReal, AuditRowsReal, FilesDistinct, Apart, Distinct
<1>5. IsFiniteSet(closeCsv) /\ CloseRowsReal(closeCsv)
  BY FS_EmptySet DEF Init, CloseRowsReal
<1> QED
  BY <1>1, <1>2, <1>3, <1>4, <1>5 DEF IInv

LEMMA NextInv == ASSUME IInv, [Next]_vars PROVE IInv'
<1>1. TypeOK'
  BY WhoSteps, EnvironmentTypes, StepTypes DEF IInv
<1>2. OrdersLast
  BY NextOrdersLast DEF IInv
<1>3. ASSUME NEW q \in Proc
      PROVE  RunGood(q)'
  <2>1. CASE Environment
    BY <1>2, <1>3, <2>1, EnvironmentKeepsGood
  <2>2. ASSUME NEW p \in Proc, StepOf(p)
        PROVE  RunGood(q)'
    BY <1>1, <1>2, <1>3, <2>2, OwnStep, OtherRuns
  <2> QED
    BY <2>1, <2>2, WhoSteps
<1> QED
  BY <1>1, <1>3, NextClosesFollowFills, NextFilledRowsReal, NextAuditRowsReal,
     NextFilesDistinct, NextCloseCsv DEF IInv

\* The inductive invariant: what runs, audits and files know of the broker.
THEOREM Invariance == Spec => []IInv
BY InitInv, NextInv, PTL DEF Spec

\* Every variable keeps its type, for every number of runs and rows.
THEOREM CloseTypeCorrect == Spec => []TypeOK
BY Invariance, PTL DEF IInv

\* Closing orders exist only for payloads whose opening order was filled.
THEOREM ClosesAfterFills == Spec => []ClosesFollowFills
BY Invariance, PTL DEF IInv

\* Rows of the status CSV that say filled are true.
THEOREM FilledRowsAreReal == Spec => []FilledRowsReal
BY Invariance, PTL DEF IInv

\* Rows reported PAPER_CLOSE_SUBMITTED stand for accepted closing orders.
THEOREM SubmittedClosesAreReal == Spec => []SubmittedClosesReal
<1>1. IInv => SubmittedClosesReal
  BY DEF IInv, RunGood, ResultsReal, CloseRowsReal, OrderOf, SubmittedClosesReal
<1> QED
  BY <1>1, Invariance, PTL

LEMMA AcceptsOnePair ==
  ASSUME TypeOK, [Next]_vars, NEW x \in Payload, NEW n \in Attempt \ {0},
         order[<<x, n>>] = "none", order'[<<x, n>>] # "none"
  PROVE  \E p \in Proc : \E r \in run[p].todo :
           /\ BrokerAccepts(p) /\ First(run[p].todo, r) /\ r.payload = x
           /\ \A q \in Proc \ {p} : run'[q] = run[q]
<1>1. order' # order
  OBVIOUS
<1>2. ~Environment
  BY <1>1 DEF Environment, OpenOrders, FillOpen, FillClose, Expire, AuditStart,
     AuditFetch, AuditEnd, Halt, Resume, vars, broker, TypeOK
<1>3. PICK p \in Proc : StepOf(p)
  BY <1>2, WhoSteps
<1>4. BrokerAccepts(p)
  BY <1>1, <1>3 DEF StepOf, CloseStep, CloseStart, SkipRow, FetchPositions, RowError,
     QuoteRaises, Prepare, SubmitHalted, SubmitNotHalted, BrokerFails,
     ReceiveAccepted, ReceiveError, PrintRaises, Finish, Stop, Keep, broker
<1>5. PICK r \in run[p].todo :
        /\ First(run[p].todo, r)
        /\ order' = [order EXCEPT ![<<r.payload, run[p].attempt>>] = "open"]
  BY <1>4 DEF BrokerAccepts
<1>6. r.payload = x
  BY <1>5 DEF TypeOK
<1>7. \A q \in Proc \ {p} : run'[q] = run[q]
  BY <1>4 DEF BrokerAccepts, Becomes, TypeOK
<1> QED
  BY <1>4, <1>5, <1>6, <1>7

\* A close goes out only while the legs are held, up to trades not yet seen.
THEOREM ClosesWhatIsHeld == Spec => CloseWindow
<1>1. IInv /\ [Next]_vars =>
        [\A p \in Proc, x \in Payload, n \in Attempt \ {0} :
           /\ order[<<x, n>>] = "none" /\ order'[<<x, n>>] # "none"
           /\ run'[p] # run[p]
           => Holds(held, x) \/ moved[p] \cap Legs(x) # {}]_vars
  <2> SUFFICES ASSUME IInv, [Next]_vars,
                      NEW p \in Proc, NEW x \in Payload, NEW n \in Attempt \ {0},
                      order[<<x, n>>] = "none", order'[<<x, n>>] # "none",
                      run'[p] # run[p], moved[p] \cap Legs(x) = {}
               PROVE  Holds(held, x)
    OBVIOUS
  <2>1. PICK q \in Proc : \E r \in run[q].todo :
          /\ BrokerAccepts(q) /\ First(run[q].todo, r) /\ r.payload = x
          /\ \A o \in Proc \ {q} : run'[o] = run[o]
    BY AcceptsOnePair DEF IInv
  <2>2. p = q
    BY <2>1
  <2>3. Confirmed(p, x) /\ SeenHolds(p)
    BY <2>1, <2>2 DEF IInv, RunGood, Prepared, BrokerAccepts
  <2>4. LongLeg[x] \in Leg /\ ShortLeg[x] \in Leg
    BY LegsAssumption
  <2> QED
    BY <2>3, <2>4 DEF Confirmed, SeenHolds, Holds, Legs
<1> QED
  BY <1>1, Invariance, PTL DEF Spec, CloseWindow

\* After the halt file only requests past their own check are accepted.
THEOREM HaltStopsCloses == Spec => CloseHaltWindow
<1>1. IInv => [\A p \in Proc :
                 run[p].pc = "send" /\ order' # order /\ run'[p] # run[p]
                 => ~halted \/ p \in haltSince]_vars
  BY DEF IInv, RunGood, HaltChecked
<1> QED
  BY <1>1, Invariance, PTL DEF CloseHaltWindow

=============================================================================
