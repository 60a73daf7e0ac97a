----------------------- MODULE PaperTransport_proofs -----------------------
(* The safety properties of PaperTransport for every number of runs,       *)
(* reviewers, payloads and rows.                                           *)
EXTENDS PaperTransport, TLAPS, FiniteSetTheorems

-----------------------------------------------------------------------------
(* The inductive invariant                                                 *)

\* Orders are told apart by a client order id that names the payload.
OrdersKeyed ==
  /\ \A o \in orders : o.coid = <<o.payload>>
  /\ \A o1, o2 \in orders : o1.coid = o2.coid => o1 = o2

\* The rows a run still handles are rows of its batch that are marked ready.
TodoReady == \A p \in Proc : \A i \in todo[p] : batch[p][i].ready

\* A run past the gate has seen its whole environment.
GatePassed ==
  \A p \in Proc : pc[p] \in {"submit", "recheck", "send"} => live[p] = "none"

HaltChecked ==
  \A p \in Proc :
    pc[p] \in {"recheck", "send"} => ~halted \/ p \in haltSince

\* What submit_alpaca_paper_mleg_order knows when it sends the request.
SendChecked ==
  \A p \in Proc : pc[p] = "send" =>
    \A i \in todo[p] : Turn(p, i) =>
      /\ batch[p][i].shape = "sound"
      /\ \/ p \in editSince
         \/ /\ approval[batch[p][i].payload] # None
            /\ approval[batch[p][i].payload].status = "APPROVED_BY_OPERATOR"

\* An accepted request is an order the broker holds.
ReplyReal ==
  \A p \in Proc : reply[p] = "accepted" =>
    /\ pc[p] = "reply"
    /\ \A i \in todo[p] : Turn(p, i) => OrderFor(batch[p][i]) \in orders

IInv == /\ TypeOK
        /\ OrdersKeyed
        /\ TodoReady
        /\ GatePassed
        /\ HaltChecked
        /\ SendChecked
        /\ ReplyReal
        /\ SubmittedRowsReal

-----------------------------------------------------------------------------
(* Types                                                                   *)

\* What TypeOK says of a run's own variables.
RunTypes == /\ pc \in [Proc -> Stages]
            /\ live \in [Proc -> {"none", "dotenv", "exported"}]
            /\ batch \in [Proc -> Seq(Row)]
            /\ \A p \in Proc : todo[p] \subseteq DOMAIN batch[p]
            /\ todo \in [Proc -> SUBSET Nat]
            /\ results \in [Proc -> SUBSET ResultRow]
            /\ reply \in [Proc -> {"none", "accepted", "failed"}]

LEMMA SelectedRows ==
  ASSUME NEW file \in Seq(Row), NEW limit \in Nat
  PROVE  /\ Selected(file, limit) \subseteq DOMAIN file
         /\ Selected(file, limit) \subseteq Nat
         /\ \A i \in Selected(file, limit) : file[i] \in Row /\ file[i].ready
BY DEF Selected, ReadyAt

LEMMA RowOfBatch ==
  ASSUME TypeOK, NEW p \in Proc, NEW i \in todo[p]
  PROVE  /\ i \in Nat
         /\ i \in DOMAIN batch[p]
         /\ batch[p][i] \in Row
BY DEF TypeOK

LEMMA OrderType == ASSUME NEW row \in Row PROVE OrderFor(row) \in Order
BY DEF OrderFor, Order, ClientOrderId, Row

LEMMA RecordTypes ==
  ASSUME TypeOK, NEW p \in Proc, NEW i \in todo[p], NEW status \in Statuses,
         NEW order \in SUBSET Order, Record(p, i, status, order)
  PROVE  RunTypes'
<1>1. batch[p][i] \in Row /\ i \in Nat
  BY RowOfBatch
<1>2. [at |-> i, payload |-> batch[p][i].payload, status |-> status,
       order |-> order] \in ResultRow
  BY <1>1 DEF ResultRow, Row
<1>3. results' \in [Proc -> SUBSET ResultRow]
  BY <1>2 DEF TypeOK, Record
<1>4. todo' \in [Proc -> SUBSET Nat]
  BY DEF TypeOK, Record
<1>5. \A q \in Proc : todo'[q] \subseteq DOMAIN batch'[q]
  BY DEF TypeOK, Record
<1>6. pc' \in [Proc -> Stages]
  BY DEF TypeOK, Record, Stages
<1> QED
  BY <1>3, <1>4, <1>5, <1>6 DEF RunTypes, TypeOK, Record

LEMMA ExitTypes ==
  ASSUME TypeOK, NEW p \in Proc, Exit(p)
  PROVE  /\ RunTypes'
         /\ haltSince' \subseteq Proc
         /\ editSince' \subseteq Proc
         /\ createSince' \subseteq Proc
<1>1. batch' \in [Proc -> Seq(Row)]
  BY DEF TypeOK, Exit
<1>2. todo' \in [Proc -> SUBSET Nat]
  BY DEF TypeOK, Exit
<1>3. \A q \in Proc : todo'[q] \subseteq DOMAIN batch'[q]
  BY DEF TypeOK, Exit
<1> QED
  BY <1>1, <1>2, <1>3 DEF RunTypes, TypeOK, Exit, Stages

LEMMA GotoTypes ==
  ASSUME TypeOK, NEW p \in Proc, NEW stage \in Stages, Goto(p, stage)
  PROVE  RunTypes'
BY DEF RunTypes, TypeOK, Goto

-----------------------------------------------------------------------------
(* Type correctness                                                        *)

LEMMA InitTypes == ASSUME Init PROVE TypeOK
<1>1. <<>> \in Seq(Row)
  OBVIOUS
<1>2. batch \in [Proc -> Seq(Row)]
  BY <1>1 DEF Init
<1> QED
  BY <1>2 DEF Init, TypeOK, Stages

LEMMA NextTypes ==
  ASSUME TypeOK, [Next]_vars
  PROVE  TypeOK'
<1> USE DEF files, runVars, history, vars
<1>1. CASE UNCHANGED vars
  BY <1>1 DEF TypeOK
<1>2. ASSUME NEW p \in Proc, StartDryRun(p)
      PROVE  TypeOK'
  <2>1. PICK limit \in Limits :
          results' = [results EXCEPT ![p] =
            {[at |-> i, payload |-> candidates[i].payload,
              status |-> "PAPER_DRY_RUN_READY", order |-> {}] :
                i \in Selected(candidates, limit)}]
    BY <1>2 DEF StartDryRun
  <2>2. candidates \in Seq(Row) /\ limit \in Nat
    BY FilesAssumption, LimitsAssumption DEF TypeOK
  <2>3. \A i \in Selected(candidates, limit) :
          [at |-> i, payload |-> candidates[i].payload,
           status |-> "PAPER_DRY_RUN_READY", order |-> {}] \in ResultRow
    BY <2>2, SelectedRows DEF ResultRow, Row, Statuses
  <2> QED
    BY <1>2, <2>1, <2>3 DEF StartDryRun, TypeOK, Stages
<1>3. ASSUME NEW p \in Proc, StartSubmit(p)
      PROVE  TypeOK'
  <2>1. PICK limit \in Limits, src \in LiveSources :
          /\ todo' = [todo EXCEPT ![p] = Selected(candidates, limit)]
          /\ live' = [live EXCEPT ![p] = src]
    BY <1>3 DEF StartSubmit
  <2>2. candidates \in Seq(Row) /\ limit \in Nat
    BY FilesAssumption, LimitsAssumption DEF TypeOK
  <2>3. /\ Selected(candidates, limit) \subseteq DOMAIN candidates
        /\ Selected(candidates, limit) \subseteq Nat
    BY <2>2, SelectedRows
  <2>4. todo' \in [Proc -> SUBSET Nat] /\ batch' \in [Proc -> Seq(Row)]
    BY <1>3, <2>1, <2>2, <2>3 DEF StartSubmit, TypeOK
  <2>5. \A q \in Proc : todo'[q] \subseteq DOMAIN batch'[q]
    BY <1>3, <2>1, <2>3 DEF StartSubmit, TypeOK
  <2>6. live' \in [Proc -> {"none", "dotenv", "exported"}]
    BY <2>1, LiveAssumption DEF TypeOK
  <2> QED
    BY <1>3, <2>4, <2>5, <2>6 DEF StartSubmit, TypeOK, Stages
<1>4. ASSUME NEW p \in Proc,
             \/ PreflightStop(p) \/ GuardRaises(p) \/ SubmitHalted(p)
             \/ RecheckUnbuildable(p) \/ Crash(p)
      PROVE  TypeOK'
  <2>1. Exit(p) /\ UNCHANGED <<files, orders, review>>
    BY <1>4 DEF PreflightStop, GuardRaises, SubmitHalted, RecheckUnbuildable, Crash
  <2> QED
    BY <2>1, ExitTypes DEF TypeOK, RunTypes
<1>5. ASSUME NEW p \in Proc, PreflightPass(p)
      PROVE  TypeOK'
  <2>1. Goto(p, "write") \/ Goto(p, "guard")
    BY <1>5 DEF PreflightPass
  <2>2. RunTypes'
    BY <2>1, GotoTypes DEF Stages
  <2> QED
    BY <1>5, <2>2 DEF PreflightPass, TypeOK, RunTypes
<1>6. ASSUME NEW p \in Proc,
             ApprovalMissing(p) \/ GatePass(p) \/ SubmitNotHalted(p) \/ RecheckPass(p)
      PROVE  TypeOK'
  <2>1. PICK stage \in Stages : Goto(p, stage)
    BY <1>6 DEF ApprovalMissing, GatePass, SubmitNotHalted, RecheckPass, Stages
  <2>2. RunTypes'
    BY <2>1, GotoTypes
  <2> QED
    BY <1>6, <2>2 DEF ApprovalMissing, GatePass, SubmitNotHalted, RecheckPass,
                      TypeOK, RunTypes
<1>7. ASSUME NEW p \in Proc,
             Skip(p) \/ RecheckRefused(p) \/ ReceiveError(p)
      PROVE  TypeOK'
  <2>1. \E i \in todo[p], status \in Statuses : Record(p, i, status, {})
    BY <1>7 DEF Skip, RecheckRefused, ReceiveError, Statuses
  <2>2. RunTypes'
    BY <2>1, RecordTypes
  <2> QED
    BY <1>7, <2>2 DEF Skip, RecheckRefused, ReceiveError, TypeOK, RunTypes
<1>8. ASSUME NEW p \in Proc, CreateApproval(p)
      PROVE  TypeOK'
  <2>1. PICK i \in todo[p] :
          /\ approval' = [approval EXCEPT ![batch[p][i].payload] =
               [status |-> "APPROVAL_REQUIRED", terms |-> batch[p][i].terms]]
          /\ Record(p, i, "PAPER_SKIPPED", {})
          /\ editSince' = editSince \cup Checked(batch[p][i].payload)
          /\ createSince' = (createSince \cup Creating(batch[p][i].payload)) \ {p}
    BY <1>8 DEF CreateApproval
  <2>2. RunTypes'
    BY <2>1, RecordTypes DEF Statuses
  <2>3. approval' \in [Payload -> ApprovalFile \cup {None}]
    BY <2>1, RowOfBatch DEF TypeOK, ApprovalFile, Decisions, Row
  <2> QED
    BY <1>8, <2>1, <2>2, <2>3 DEF CreateApproval, TypeOK, RunTypes, Checked, Creating
<1>9. ASSUME NEW p \in Proc, BrokerAccepts(p)
      PROVE  TypeOK'
  <2>1. PICK i \in todo[p] : orders' = orders \cup {OrderFor(batch[p][i])}
    BY <1>9 DEF BrokerAccepts
  <2>2. orders' \subseteq Order
    BY <2>1, RowOfBatch, OrderType DEF TypeOK
  <2> QED
    BY <1>9, <2>2 DEF BrokerAccepts, TypeOK, Stages
<1>10. ASSUME NEW p \in Proc, BrokerFails(p)
       PROVE  TypeOK'
  BY <1>10 DEF BrokerFails, TypeOK, Stages
<1>11. ASSUME NEW p \in Proc, ReceiveAccepted(p)
       PROVE  TypeOK'
  <2>1. PICK i \in todo[p] :
          Record(p, i, "PAPER_SUBMITTED", {OrderFor(batch[p][i])})
    BY <1>11 DEF ReceiveAccepted
  <2>2. OrderFor(batch[p][i]) \in Order
    BY RowOfBatch, OrderType
  <2>3. RunTypes'
    BY <2>1, <2>2, RecordTypes DEF Statuses
  <2> QED
    BY <1>11, <2>3 DEF ReceiveAccepted, TypeOK, RunTypes
<1>12. ASSUME NEW p \in Proc, Finish(p)
       PROVE  TypeOK'
  <2>1. Exit(p) /\ resultsCsv' \in {results[p], resultsCsv}
    BY <1>12 DEF Finish
  <2>2. /\ RunTypes'
        /\ haltSince' \subseteq Proc
        /\ editSince' \subseteq Proc
        /\ createSince' \subseteq Proc
    BY <2>1, ExitTypes
  <2> QED
    BY <1>12, <2>1, <2>2 DEF Finish, TypeOK, RunTypes
<1>13. ASSUME NEW r \in Reviewer, ReviewLoad(r)
       PROVE  TypeOK'
  BY <1>13 DEF ReviewLoad, TypeOK, Review
<1>14. ASSUME NEW r \in Reviewer, ReviewSave(r)
       PROVE  TypeOK'
  <2>1. review[r] \in Review
    BY <1>14 DEF ReviewSave, TypeOK
  <2>2. /\ review[r].payload \in Payload
        /\ [status |-> review[r].status, terms |-> review[r].file.terms]
             \in ApprovalFile
    BY <2>1 DEF Review, ApprovalFile
  <2> QED
    BY <1>14, <2>2 DEF ReviewSave, TypeOK, Checked
<1>15. CASE Halt \/ Resume \/ Rebuild
  BY <1>15 DEF Halt, Resume, Rebuild, TypeOK
<1> QED
  BY <1>1, <1>2, <1>3, <1>4, <1>5, <1>6, <1>7, <1>8, <1>9, <1>10, <1>11,
     <1>12, <1>13, <1>14, <1>15 DEF Next, RunStep

\* Every file, reply and result row has the shape the code gives it, and no
\* run keeps a position outside the rows it has loaded.
THEOREM TypeCorrect == Spec => []TypeOK
BY InitTypes, NextTypes, PTL DEF Spec

-----------------------------------------------------------------------------
(* How much a step can change                                              *)

\* A step of run p.
StepOf(p) == StartDryRun(p) \/ StartSubmit(p) \/ RunStep(p) \/ Crash(p)

\* The operator's steps.
OperatorStep == \/ \E r \in Reviewer : ReviewLoad(r) \/ ReviewSave(r)
                \/ Halt \/ Resume \/ Rebuild

\* The variables of run p keep their values.
Still(p) == /\ pc'[p] = pc[p]
            /\ live'[p] = live[p]
            /\ batch'[p] = batch[p]
            /\ todo'[p] = todo[p]
            /\ results'[p] = results[p]
            /\ reply'[p] = reply[p]

LEMMA WhoSteps ==
  ASSUME [Next]_vars
  PROVE  (\E p \in Proc : StepOf(p)) \/ OperatorStep \/ UNCHANGED vars
BY DEF Next, StepOf, OperatorStep

LEMMA OtherRunsStill ==
  ASSUME TypeOK, NEW p \in Proc, NEW q \in Proc, q # p, StepOf(q)
  PROVE  Still(p)
<1>1. CASE \/ PreflightStop(q) \/ GuardRaises(q) \/ SubmitHalted(q)
           \/ RecheckUnbuildable(q) \/ Finish(q) \/ Crash(q)
  BY <1>1 DEF PreflightStop, GuardRaises, SubmitHalted, RecheckUnbuildable,
              Finish, Crash, Exit, Still, TypeOK
<1>2. CASE \/ PreflightPass(q) \/ ApprovalMissing(q) \/ GatePass(q)
           \/ SubmitNotHalted(q) \/ RecheckPass(q)
  BY <1>2 DEF PreflightPass, ApprovalMissing, GatePass, SubmitNotHalted,
              RecheckPass, Goto, Still, TypeOK
<1>3. CASE \/ Skip(q) \/ CreateApproval(q) \/ RecheckRefused(q)
           \/ ReceiveAccepted(q) \/ ReceiveError(q)
  <2>1. \E i \in todo[q], status \in Statuses, order \in SUBSET {OrderFor(batch[q][j]) : j \in todo[q]} :
           Record(q, i, status, order)
    BY <1>3 DEF Skip, CreateApproval, RecheckRefused, ReceiveAccepted,
                ReceiveError, Statuses
  <2> QED
    BY <2>1 DEF Record, Still, TypeOK
<1>4. CASE \/ StartDryRun(q) \/ StartSubmit(q) \/ BrokerAccepts(q) \/ BrokerFails(q)
  BY <1>4 DEF StartDryRun, StartSubmit, BrokerAccepts, BrokerFails, Still, TypeOK
<1> QED
  BY <1>1, <1>2, <1>3, <1>4 DEF StepOf, RunStep

LEMMA OperatorLeavesRuns ==
  ASSUME OperatorStep \/ UNCHANGED vars
  PROVE  UNCHANGED <<orders, resultsCsv, runVars>>
BY DEF OperatorStep, ReviewLoad, ReviewSave, Halt, Resume, Rebuild, vars, files,
       runVars

\* What a step does to run p: one of its own steps, or nothing.
LEMMA StillOrStep ==
  ASSUME TypeOK, [Next]_vars, NEW p \in Proc
  PROVE  StepOf(p) \/ Still(p)
BY WhoSteps, OtherRunsStill, OperatorLeavesRuns DEF Still, runVars

\* Only the broker adds orders.
LEMMA OrdersGrow ==
  ASSUME TypeOK, [Next]_vars
  PROVE  orders' = orders \/ \E p \in Proc : BrokerAccepts(p)
<1>1. ASSUME NEW p \in Proc, StepOf(p)
      PROVE  orders' = orders \/ BrokerAccepts(p)
  BY <1>1 DEF StepOf, RunStep, StartDryRun, StartSubmit, PreflightStop,
     PreflightPass, GuardRaises, Skip, ApprovalMissing, CreateApproval, GatePass,
     SubmitHalted, SubmitNotHalted, RecheckRefused, RecheckUnbuildable,
     RecheckPass, BrokerFails, ReceiveAccepted, ReceiveError, Finish, Crash
<1> QED
  BY <1>1, WhoSteps, OperatorLeavesRuns

-----------------------------------------------------------------------------
(* The parts of the invariant, one by one                                  *)

LEMMA NextOrdersKeyed ==
  ASSUME IInv, [Next]_vars
  PROVE  OrdersKeyed'
<1>1. CASE orders' = orders
  BY <1>1 DEF IInv, OrdersKeyed
<1>2. ASSUME NEW p \in Proc, BrokerAccepts(p)
      PROVE  OrdersKeyed'
  <2>1. PICK i \in todo[p] :
          /\ \A o \in orders : o.coid # OrderFor(batch[p][i]).coid
          /\ orders' = orders \cup {OrderFor(batch[p][i])}
    BY <1>2 DEF BrokerAccepts
  <2>2. OrderFor(batch[p][i]).coid = <<OrderFor(batch[p][i]).payload>>
    BY DEF OrderFor, ClientOrderId
  <2> QED
    BY <2>1, <2>2 DEF IInv, OrdersKeyed
<1> QED
  BY <1>1, <1>2, OrdersGrow DEF IInv

LEMMA NextTodoReady ==
  ASSUME IInv, [Next]_vars
  PROVE  TodoReady'
<1> SUFFICES ASSUME NEW p \in Proc, NEW i \in todo'[p]
             PROVE  batch'[p][i].ready
  BY DEF TodoReady
<1>1. CASE Still(p)
  BY <1>1 DEF IInv, TodoReady, Still
<1>2. CASE StartSubmit(p)
  <2>1. PICK limit \in Limits :
          todo' = [todo EXCEPT ![p] = Selected(candidates, limit)]
    BY <1>2 DEF StartSubmit
  <2>2. candidates \in Seq(Row) /\ limit \in Nat
    BY FilesAssumption, LimitsAssumption DEF IInv, TypeOK
  <2>3. batch'[p] = candidates /\ todo'[p] = Selected(candidates, limit)
    BY <1>2, <2>1 DEF StartSubmit, IInv, TypeOK
  <2> QED
    BY <2>2, <2>3, SelectedRows
<1>3. CASE StepOf(p) /\ ~StartSubmit(p)
  <2>1. \/ todo'[p] = {}
        \/ todo'[p] \subseteq todo[p] /\ batch'[p] = batch[p]
    <3>1. CASE Exit(p)
      BY <3>1 DEF Exit, IInv, TypeOK
    <3>2. CASE \E j \in todo[p], status \in Statuses :
                 \E order : Record(p, j, status, order)
      BY <3>2 DEF Record, IInv, TypeOK
    <3>3. CASE UNCHANGED <<todo, batch>>
      BY <3>3
    <3> QED
      BY <1>3, <3>1, <3>2, <3>3 DEF StepOf, RunStep, StartDryRun,
         PreflightStop, PreflightPass, GuardRaises, Skip, ApprovalMissing,
         CreateApproval, GatePass, SubmitHalted, SubmitNotHalted,
         RecheckRefused, RecheckUnbuildable, RecheckPass, BrokerAccepts,
         BrokerFails, ReceiveAccepted, ReceiveError, Finish, Crash, Goto, Statuses
  <2> QED
    BY <2>1 DEF IInv, TodoReady
<1> QED
  BY <1>1, <1>2, <1>3, StillOrStep DEF IInv

LEMMA NextGatePassed ==
  ASSUME IInv, [Next]_vars
  PROVE  GatePassed'
<1> SUFFICES ASSUME NEW p \in Proc, pc'[p] \in {"submit", "recheck", "send"}
             PROVE  live'[p] = "none"
  BY DEF GatePassed
<1>1. CASE Still(p)
  BY <1>1 DEF IInv, GatePassed, Still
<1>2. CASE GatePass(p)
  BY <1>2 DEF GatePass, Goto, Approved, LiveNow, IInv, TypeOK
<1>3. CASE SubmitNotHalted(p) \/ RecheckPass(p)
  BY <1>3 DEF SubmitNotHalted, RecheckPass, Goto, IInv, TypeOK, GatePassed
<1>4. CASE StepOf(p) /\ ~GatePass(p) /\ ~SubmitNotHalted(p) /\ ~RecheckPass(p)
  <2>1. pc'[p] \notin {"submit", "recheck", "send"}
    BY <1>4 DEF StepOf, RunStep, StartDryRun, StartSubmit, PreflightStop,
       PreflightPass, GuardRaises, Skip, ApprovalMissing, CreateApproval,
       SubmitHalted, RecheckRefused, RecheckUnbuildable,
       BrokerAccepts, BrokerFails, ReceiveAccepted, ReceiveError,
       Finish, Crash, Exit, Goto, Record, IInv, TypeOK
  <2> QED
    BY <2>1
<1> QED
  BY <1>1, <1>2, <1>3, <1>4, StillOrStep DEF IInv

\* Another run touches neither the halt file nor the history of p, and an
\* approval file only to create it.
LEMMA OtherRunsHistory ==
  ASSUME TypeOK, NEW p \in Proc, NEW q \in Proc, q # p, StepOf(q)
  PROVE  /\ halted' = halted
         /\ p \in haltSince => p \in haltSince'
         /\ p \in editSince => p \in editSince'
         /\ p \in createSince => p \in createSince'
         /\ approval' = approval \/ CreateApproval(q)
<1>1. CASE \/ PreflightStop(q) \/ GuardRaises(q) \/ SubmitHalted(q)
           \/ RecheckUnbuildable(q) \/ Finish(q) \/ Crash(q)
  BY <1>1 DEF PreflightStop, GuardRaises, SubmitHalted, RecheckUnbuildable,
              Finish, Crash, Exit, files
<1>2. CASE \/ StartDryRun(q) \/ StartSubmit(q) \/ PreflightPass(q) \/ Skip(q)
           \/ ApprovalMissing(q) \/ GatePass(q) \/ SubmitNotHalted(q)
           \/ RecheckRefused(q) \/ RecheckPass(q) \/ BrokerAccepts(q)
           \/ BrokerFails(q) \/ ReceiveAccepted(q) \/ ReceiveError(q)
  BY <1>2 DEF StartDryRun, StartSubmit, PreflightPass, Skip, ApprovalMissing,
     GatePass, SubmitNotHalted, RecheckRefused, RecheckPass, BrokerAccepts,
     BrokerFails, ReceiveAccepted, ReceiveError, files, history
<1>3. CASE CreateApproval(q)
  BY <1>3 DEF CreateApproval
<1> QED
  BY <1>1, <1>2, <1>3 DEF StepOf, RunStep

LEMMA NextHaltChecked ==
  ASSUME IInv, [Next]_vars
  PROVE  HaltChecked'
<1> SUFFICES ASSUME NEW p \in Proc, pc'[p] \in {"recheck", "send"}
             PROVE  ~halted' \/ p \in haltSince'
  BY DEF HaltChecked
<1>1. CASE SubmitNotHalted(p)
  BY <1>1 DEF SubmitNotHalted, files
<1>2. CASE RecheckPass(p)
  BY <1>2 DEF RecheckPass, files, IInv, HaltChecked
<1>3. CASE StepOf(p) /\ ~SubmitNotHalted(p) /\ ~RecheckPass(p)
  <2>1. pc'[p] \notin {"recheck", "send"}
    BY <1>3 DEF StepOf, RunStep, StartDryRun, StartSubmit, PreflightStop,
       PreflightPass, GuardRaises, Skip, ApprovalMissing, CreateApproval, GatePass,
       SubmitHalted, RecheckRefused, RecheckUnbuildable,
       BrokerAccepts, BrokerFails, ReceiveAccepted, ReceiveError,
       Finish, Crash, Exit, Goto, Record, IInv, TypeOK
  <2> QED
    BY <2>1
<1>4. ASSUME NEW q \in Proc, q # p, StepOf(q)
      PROVE  ~halted' \/ p \in haltSince'
  BY <1>4, OtherRunsHistory, OtherRunsStill DEF Still, IInv, HaltChecked
<1>5. CASE OperatorStep \/ UNCHANGED vars
  <2>1. pc'[p] = pc[p]
    BY <1>5, OperatorLeavesRuns DEF runVars
  <2>2. ~halted \/ p \in haltSince
    BY <2>1 DEF IInv, HaltChecked
  <2>3. CASE Halt
    BY <2>1, <2>3 DEF Halt
  <2>4. CASE ~Halt
    BY <1>5, <2>2, <2>4 DEF OperatorStep, ReviewLoad, ReviewSave, Resume,
       Rebuild, vars, files, history
  <2> QED
    BY <2>3, <2>4
<1> QED
  BY <1>1, <1>2, <1>3, <1>4, <1>5, WhoSteps

\* The second half of SendChecked for one row of run p.
StillApproved(p, row) ==
  \/ p \in editSince
  \/ /\ approval[row.payload] # None
     /\ approval[row.payload].status = "APPROVED_BY_OPERATOR"

LEMMA NextSendChecked ==
  ASSUME IInv, [Next]_vars
  PROVE  SendChecked'
<1> SUFFICES ASSUME NEW p \in Proc, pc'[p] = "send",
                    NEW i \in todo'[p], Turn(p, i)'
             PROVE  batch'[p][i].shape = "sound" /\ StillApproved(p, batch[p][i])'
  BY DEF SendChecked, StillApproved
<1>1. CASE RecheckPass(p)
  <2>1. PICK j \in todo[p] : /\ Turn(p, j)
                             /\ SubmitAllowed(p, batch[p][j])
                             /\ batch[p][j].shape # "unbuildable"
    BY <1>1 DEF RecheckPass
  <2>2. UNCHANGED <<live, todo, batch, approval>>
    BY <1>1 DEF RecheckPass, Goto, files
  <2>3. i = j
    <3>1. i \in Nat /\ j \in Nat /\ i <= j /\ j <= i
      BY <2>1, <2>2, RowOfBatch DEF Turn, IInv
    <3> QED
      BY <3>1
  <2>4. live[p] = "none" /\ ~LiveNow(p)
    BY <1>1 DEF RecheckPass, IInv, GatePassed, LiveNow
  <2>5. batch[p][i] \in Row
    BY <2>2, RowOfBatch DEF IInv
  <2>6. batch[p][i].shape = "sound"
    BY <2>1, <2>3, <2>4, <2>5 DEF SubmitAllowed, Guardrail, Row, Shapes
  <2> QED
    BY <2>1, <2>2, <2>3, <2>6 DEF SubmitAllowed, Approved, StillApproved
<1>2. CASE StepOf(p) /\ ~RecheckPass(p)
  <2>1. pc'[p] # "send"
    BY <1>2 DEF StepOf, RunStep, StartDryRun, StartSubmit, PreflightStop,
       PreflightPass, GuardRaises, Skip, ApprovalMissing, CreateApproval, GatePass,
       SubmitHalted, SubmitNotHalted, RecheckRefused, RecheckUnbuildable,
       BrokerAccepts, BrokerFails, ReceiveAccepted, ReceiveError,
       Finish, Crash, Exit, Goto, Record, IInv, TypeOK
  <2> QED
    BY <2>1
<1>3. ASSUME Still(p)
      PROVE  /\ batch'[p][i].shape = "sound"
             /\ StillApproved(p, batch[p][i])
             /\ batch'[p][i] = batch[p][i]
             /\ p \in Checked(batch[p][i].payload)
             /\ batch[p][i] \in Row
  <2>1. pc[p] = "send" /\ i \in todo[p] /\ Turn(p, i) /\ batch'[p] = batch[p]
    BY <1>3 DEF Still, Turn
  <2> QED
    BY <2>1, RowOfBatch DEF IInv, SendChecked, StillApproved, Checked
<1>4. ASSUME NEW q \in Proc, q # p, StepOf(q)
      PROVE  batch'[p][i].shape = "sound" /\ StillApproved(p, batch[p][i])'
  <2>1. Still(p)
    BY <1>4, OtherRunsStill DEF IInv
  <2>2. CASE approval' = approval
    BY <1>3, <1>4, <2>1, <2>2, OtherRunsHistory DEF StillApproved, IInv
  <2>3. CASE CreateApproval(q)
    <3>1. PICK j \in todo[q] :
            /\ approval' = [approval EXCEPT ![batch[q][j].payload] =
                 [status |-> "APPROVAL_REQUIRED", terms |-> batch[q][j].terms]]
            /\ editSince' = editSince \cup Checked(batch[q][j].payload)
      BY <2>3 DEF CreateApproval
    <3>2. CASE batch[q][j].payload = batch[p][i].payload
      BY <1>3, <2>1, <3>1, <3>2 DEF StillApproved
    <3>3. CASE batch[q][j].payload # batch[p][i].payload
      BY <1>3, <2>1, <3>1, <3>3 DEF StillApproved, IInv, TypeOK
    <3> QED
      BY <3>2, <3>3
  <2> QED
    BY <1>4, <2>2, <2>3, OtherRunsHistory DEF IInv
<1>5. CASE OperatorStep \/ UNCHANGED vars
  <2>1. Still(p)
    BY <1>5, OperatorLeavesRuns DEF runVars, Still
  <2>2. CASE \E r \in Reviewer : ReviewSave(r)
    <3>1. PICK r \in Reviewer : ReviewSave(r)
      BY <2>2
    <3>2. CASE review[r].payload = batch[p][i].payload
      BY <1>3, <2>1, <3>1, <3>2 DEF ReviewSave, StillApproved
    <3>3. CASE review[r].payload # batch[p][i].payload
      BY <1>3, <2>1, <3>1, <3>3 DEF ReviewSave, StillApproved, IInv, TypeOK
    <3> QED
      BY <3>2, <3>3
  <2>3. CASE ~(\E r \in Reviewer : ReviewSave(r))
    <3>1. UNCHANGED <<approval, editSince>>
      BY <1>5, <2>3 DEF OperatorStep, ReviewLoad, Halt, Resume, Rebuild, vars,
         files, history
    <3> QED
      BY <1>3, <2>1, <3>1 DEF StillApproved
  <2> QED
    BY <2>2, <2>3
<1> QED
  BY <1>1, <1>2, <1>4, <1>5, WhoSteps

LEMMA NextReplyReal ==
  ASSUME IInv, [Next]_vars
  PROVE  ReplyReal'
<1> SUFFICES ASSUME NEW p \in Proc, reply'[p] = "accepted"
             PROVE  /\ pc'[p] = "reply"
                    /\ \A i \in todo'[p] :
                         Turn(p, i)' => OrderFor(batch[p][i])' \in orders'
  BY DEF ReplyReal
<1>1. orders \subseteq orders'
  BY OrdersGrow DEF IInv, BrokerAccepts
<1>2. CASE Still(p)
  BY <1>1, <1>2 DEF Still, IInv, ReplyReal, Turn, OrderFor, ClientOrderId
<1>3. CASE BrokerAccepts(p)
  <2>1. PICK j \in todo[p] : /\ Turn(p, j)
                             /\ orders' = orders \cup {OrderFor(batch[p][j])}
    BY <1>3 DEF BrokerAccepts
  <2>2. ASSUME NEW i \in todo'[p], Turn(p, i)'
        PROVE  i = j
    <3>1. i \in Nat /\ j \in Nat /\ i <= j /\ j <= i
      BY <1>3, <2>1, <2>2, RowOfBatch DEF BrokerAccepts, Turn, IInv
    <3> QED
      BY <3>1
  <2>3. pc'[p] = "reply"
    BY <1>3 DEF BrokerAccepts, IInv, TypeOK
  <2> QED
    BY <1>3, <2>1, <2>2, <2>3 DEF BrokerAccepts, OrderFor, ClientOrderId
<1>4. CASE StepOf(p) /\ ~BrokerAccepts(p)
  <2>1. CASE Exit(p) \/ BrokerFails(p) \/ (pc[p] = "idle" /\ UNCHANGED reply)
    BY <2>1 DEF Exit, BrokerFails, IInv, TypeOK, ReplyReal
  <2>2. CASE \E i \in todo[p], status \in Statuses :
               \E order : Record(p, i, status, order)
    BY <2>2 DEF Record, IInv, TypeOK
  <2>3. CASE pc[p] # "reply" /\ \E stage \in Stages : Goto(p, stage)
    BY <2>3 DEF Goto, IInv, ReplyReal
  <2> QED
    BY <1>4, <2>1, <2>2, <2>3 DEF StepOf, RunStep, StartDryRun, StartSubmit,
       PreflightStop, PreflightPass, GuardRaises, Skip, ApprovalMissing,
       CreateApproval, GatePass, SubmitHalted, SubmitNotHalted, RecheckRefused,
       RecheckUnbuildable, RecheckPass, ReceiveAccepted, ReceiveError, Finish,
       Crash, Stages, Statuses
<1> QED
  BY <1>2, <1>3, <1>4, StillOrStep DEF IInv

\* The part of SubmittedRowsReal about one row.
RowReal(r) == /\ r.status = "PAPER_SUBMITTED" => r.order # {}
              /\ r.order # {} => r.status = "PAPER_SUBMITTED"
              /\ \A o \in r.order : o \in orders /\ o.payload = r.payload

LEMMA RecordedRow ==
  ASSUME TypeOK, NEW p \in Proc, NEW i \in todo[p], NEW status \in Statuses,
         NEW order, Record(p, i, status, order), NEW r \in results'[p]
  PROVE  \/ r \in results[p]
         \/ r = [at |-> i, payload |-> batch[p][i].payload, status |-> status,
                 order |-> order]
BY DEF Record, TypeOK

LEMMA NextSubmittedRowsReal ==
  ASSUME IInv, [Next]_vars
  PROVE  SubmittedRowsReal'
<1>1. orders \subseteq orders'
  BY OrdersGrow DEF IInv, BrokerAccepts
<1>2. \A r : RowReal(r) => RowReal(r)'
  BY <1>1 DEF RowReal
<1>3. /\ \A r \in resultsCsv : RowReal(r)
      /\ \A p \in Proc : \A r \in results[p] : RowReal(r)
  BY DEF IInv, SubmittedRowsReal, RowReal
<1>4. \A r \in resultsCsv' : RowReal(r)'
  <2>1. CASE resultsCsv' = resultsCsv
    BY <1>2, <1>3, <2>1
  <2>2. CASE \E p \in Proc : resultsCsv' = results[p]
    BY <1>2, <1>3, <2>2
  <2>3. ASSUME NEW p \in Proc, StepOf(p)
        PROVE  resultsCsv' = resultsCsv \/ resultsCsv' = results[p]
    BY <2>3 DEF StepOf, RunStep, StartDryRun, StartSubmit, PreflightStop,
       PreflightPass, GuardRaises, Skip, ApprovalMissing, CreateApproval, GatePass,
       SubmitHalted, SubmitNotHalted, RecheckRefused, RecheckUnbuildable,
       RecheckPass, BrokerAccepts, BrokerFails, ReceiveAccepted, ReceiveError,
       Finish, Crash, files
  <2> QED
    BY <2>1, <2>2, <2>3, WhoSteps, OperatorLeavesRuns
<1>5. ASSUME NEW p \in Proc, NEW r \in results'[p]
      PROVE  RowReal(r)'
  <2>1. CASE results'[p] \subseteq results[p]
    BY <1>2, <1>3, <2>1
  <2>2. CASE ReceiveAccepted(p)
    <3>1. PICK i \in todo[p] :
            Turn(p, i) /\ Record(p, i, "PAPER_SUBMITTED", {OrderFor(batch[p][i])})
      BY <2>2 DEF ReceiveAccepted
    <3>2. OrderFor(batch[p][i]) \in orders
      BY <2>2, <3>1 DEF ReceiveAccepted, IInv, ReplyReal
    <3>3. \/ r \in results[p]
          \/ r = [at |-> i, payload |-> batch[p][i].payload,
                  status |-> "PAPER_SUBMITTED", order |-> {OrderFor(batch[p][i])}]
      BY <3>1, RecordedRow DEF IInv, Statuses
    <3> QED
      BY <1>1, <1>2, <1>3, <3>2, <3>3 DEF RowReal, OrderFor
  <2>3. CASE \E i \in todo[p], status \in Statuses \ {"PAPER_SUBMITTED"} :
               Record(p, i, status, {})
    <3>1. PICK i \in todo[p], status \in Statuses \ {"PAPER_SUBMITTED"} :
            Record(p, i, status, {})
      BY <2>3
    <3>2. \/ r \in results[p]
          \/ r = [at |-> i, payload |-> batch[p][i].payload, status |-> status,
                  order |-> {}]
      BY <3>1, RecordedRow DEF IInv
    <3> QED
      BY <1>2, <1>3, <3>2 DEF RowReal
  <2>4. CASE StartDryRun(p)
    BY <2>4 DEF StartDryRun, IInv, TypeOK, RowReal
  <2>5. CASE StepOf(p) /\ ~ReceiveAccepted(p) /\ ~StartDryRun(p)
    <3>1. CASE Exit(p)
      BY <2>1, <3>1 DEF Exit, IInv, TypeOK
    <3>2. CASE UNCHANGED results
      BY <2>1, <3>2
    <3> QED
      BY <2>3, <2>5, <3>1, <3>2 DEF StepOf, RunStep, StartSubmit,
         PreflightStop, PreflightPass, GuardRaises, Skip, ApprovalMissing,
         CreateApproval, GatePass, SubmitHalted, SubmitNotHalted, RecheckRefused,
         RecheckUnbuildable, RecheckPass, BrokerAccepts, BrokerFails,
         ReceiveError, Finish, Crash, Goto, Statuses
  <2>6. CASE Still(p)
    BY <2>1, <2>6 DEF Still
  <2> QED
    BY <2>2, <2>4, <2>5, <2>6, StillOrStep DEF IInv
<1> QED
  BY <1>4, <1>5 DEF SubmittedRowsReal, RowReal

-----------------------------------------------------------------------------
(* Theorems                                                                *)

LEMMA InitIInv == ASSUME Init PROVE IInv
BY InitTypes DEF Init, IInv, OrdersKeyed, TodoReady, GatePassed, HaltChecked,
   SendChecked, ReplyReal, SubmittedRowsReal

LEMMA NextIInv == ASSUME IInv, [Next]_vars PROVE IInv'
BY NextTypes, NextOrdersKeyed, NextTodoReady, NextGatePassed, NextHaltChecked,
   NextSendChecked, NextReplyReal, NextSubmittedRowsReal DEF IInv

THEOREM Invariance == Spec => []IInv
BY InitIInv, NextIInv, PTL DEF Spec

\* Whatever runs overlap, crash and are repeated, a payload is ordered at most
\* once, because the client order id names the payload and nothing else.
THEOREM AtMostOneOrder == Spec => []OneOrderPerPayload
<1>1. IInv => OneOrderPerPayload
  BY DEF IInv, OrdersKeyed, OneOrderPerPayload
<1> QED
  BY <1>1, Invariance, PTL

\* PAPER_SUBMITTED rows, on disk or in memory, stand for orders the broker has.
THEOREM SubmittedRowsAreReal == Spec => []SubmittedRowsReal
<1>1. IInv => SubmittedRowsReal
  BY DEF IInv
<1> QED
  BY <1>1, Invariance, PTL

\* No order leaves on an approval withdrawn before the second check.
THEOREM OnlyApprovedOrders == Spec => ApprovalWindow
<1>1. ASSUME IInv, NEW p \in Proc, Orders(p), NEW i \in todo[p], Turn(p, i)
      PROVE  \/ /\ approval[batch[p][i].payload] # None
                /\ approval[batch[p][i].payload].status = "APPROVED_BY_OPERATOR"
             \/ p \in editSince
  BY <1>1 DEF IInv, SendChecked, Orders
<1>2. IInv => [\A p \in Proc : Orders(p) =>
        \A i \in todo[p] : Turn(p, i) =>
          LET x == batch[p][i].payload IN
          \/ approval[x] # None /\ approval[x].status = "APPROVED_BY_OPERATOR"
          \/ p \in editSince]_vars
  BY <1>1
<1> QED
  BY <1>2, Invariance, PTL DEF ApprovalWindow

\* No order leaves after the halt file, but for the one already being sent.
THEOREM HaltStopsOrders == Spec => HaltWindow
<1>1. IInv => [\A p \in Proc : Orders(p) => ~halted \/ p \in haltSince]_vars
  BY DEF IInv, HaltChecked, Orders
<1> QED
  BY <1>1, Invariance, PTL DEF HaltWindow

\* A live flag, in the environment or in .env, keeps a run from ordering.
THEOREM LiveFlagStopsOrders == Spec => LiveEnvNeverOrders
<1>1. IInv => [\A p \in Proc : Orders(p) => live[p] = "none"]_vars
  BY DEF IInv, GatePassed, Orders
<1> QED
  BY <1>1, Invariance, PTL DEF LiveEnvNeverOrders

\* Only ready rows that pass every guardrail are ordered, approved or not.
THEOREM OnlySoundOrders == Spec => OnlySoundRowsOrdered
<1>1. IInv => [\A p \in Proc : Orders(p) =>
        \A i \in todo[p] : Turn(p, i) =>
          batch[p][i].ready /\ batch[p][i].shape = "sound"]_vars
  BY DEF IInv, SendChecked, TodoReady, Orders
<1> QED
  BY <1>1, Invariance, PTL DEF OnlySoundRowsOrdered

-----------------------------------------------------------------------------
(* The refinement of ApprovedOnce                                          *)

LEMMA PermitsAre ==
  /\ permits \subseteq Proc \X Payload
  /\ \A q \in Proc, x \in Payload : <<q, x>> \in permits <=> q \in Checked(x)
BY DEF permits

LEMMA PermitsWillBe ==
  /\ permits' \subseteq Proc \X Payload
  /\ \A q \in Proc, x \in Payload : <<q, x>> \in permits' <=> q \in Checked(x)'
BY DEF permits

LEMMA SamePermits ==
  ASSUME \A q \in Proc, x \in Payload :
           <<q, x>> \in permits' <=> <<q, x>> \in permits
  PROVE  permits' = permits
<1>1. \A h \in Proc \X Payload : h = <<h[1], h[2]>>
  OBVIOUS
<1>2. \A h \in Proc \X Payload : h \in permits' <=> h \in permits
  BY <1>1
<1> QED
  BY <1>2, PermitsAre, PermitsWillBe

\* A run that stands still keeps its permits.
LEMMA StillKeepsPermits ==
  ASSUME NEW q \in Proc, Still(q), NEW x
  PROVE  q \in Checked(x)' <=> q \in Checked(x)
BY DEF Still, Checked, Turn

LEMMA AllStillPermits ==
  ASSUME \A q \in Proc : Still(q)
  PROVE  permits' = permits
<1>1. \A q \in Proc, x \in Payload : <<q, x>> \in permits' <=> <<q, x>> \in permits
  BY PermitsAre, PermitsWillBe, StillKeepsPermits
<1> QED
  BY <1>1, SamePermits

\* A run that is not sending, before and after its step, has no permit.
LEMMA StepKeepsPermits ==
  ASSUME TypeOK, NEW p \in Proc, StepOf(p), pc[p] # "send", pc'[p] # "send"
  PROVE  permits' = permits
<1>1. ASSUME NEW q \in Proc, NEW x \in Payload
      PROVE  <<q, x>> \in permits' <=> <<q, x>> \in permits
  <2>1. CASE q = p
    BY <2>1, PermitsAre, PermitsWillBe DEF Checked
  <2>2. CASE q # p
    BY <2>2, PermitsAre, PermitsWillBe, StillKeepsPermits, OtherRunsStill
  <2> QED
    BY <2>1, <2>2
<1> QED
  BY <1>1, SamePermits

\* The run that sends has one permit at most, and loses it with its step.
LEMMA SendingLosesPermit ==
  ASSUME TypeOK, NEW p \in Proc, StepOf(p), pc[p] = "send", pc'[p] # "send",
         NEW i \in todo[p], Turn(p, i)
  PROVE  /\ <<p, batch[p][i].payload>> \in permits
         /\ permits' = permits \ {<<p, batch[p][i].payload>>}
<1>1. \A j \in todo[p] : Turn(p, j) => j = i
  BY RowOfBatch DEF Turn
<1>2. batch[p][i].payload \in Payload
  BY RowOfBatch DEF Row
<1>3. ASSUME NEW q \in Proc, NEW x \in Payload
      PROVE  <<q, x>> \in permits' <=>
               <<q, x>> \in permits /\ <<q, x>> # <<p, batch[p][i].payload>>
  <2>1. CASE q = p
    BY <1>1, <2>1, PermitsAre, PermitsWillBe DEF Checked
  <2>2. CASE q # p
    BY <2>2, PermitsAre, PermitsWillBe, StillKeepsPermits, OtherRunsStill
  <2> QED
    BY <2>1, <2>2
<1>4. <<p, batch[p][i].payload>> \in permits
  BY <1>2, PermitsAre DEF Checked
<1> QED
  BY <1>3, <1>4, PermitsAre, PermitsWillBe

LEMMA PlacedCounts ==
  ASSUME NEW x \in Payload
  PROVE  placed[x] = Cardinality({o \in orders : o.payload = x})
BY DEF placed

LEMMA InitRefines == ASSUME Init PROVE Abstract!Init
<1>1. approved = {} /\ permits = {}
  BY DEF Init, approved, permits, Checked
<1>2. placed = [x \in Payload |-> 0]
  <2>1. \A x \in Payload : {o \in orders : o.payload = x} = {}
    BY DEF Init
  <2> QED
    BY <2>1, FS_EmptySet DEF placed
<1> QED
  BY <1>1, <1>2 DEF Abstract!Init

\* An approval file rewritten for one payload is a decision.
LEMMA RewriteDecides ==
  ASSUME TypeOK, NEW x \in Payload, NEW f \in ApprovalFile,
         approval' = [approval EXCEPT ![x] = f]
  PROVE  approved' = approved \cup {x} \/ approved' = approved \ {x}
<1>1. f # None
  BY NoneAssumption
<1>2. CASE f.status = "APPROVED_BY_OPERATOR"
  <2>1. approved' = approved \cup {x}
    BY <1>1, <1>2 DEF approved, TypeOK
  <2> QED
    BY <2>1
<1>3. CASE f.status # "APPROVED_BY_OPERATOR"
  <2>1. approved' = approved \ {x}
    BY <1>1, <1>3 DEF approved, TypeOK
  <2> QED
    BY <2>1
<1> QED
  BY <1>2, <1>3

LEMMA AcceptPlaces ==
  ASSUME IInv, NEW p \in Proc, BrokerAccepts(p)
  PROVE  \E x \in Payload : Abstract!Place(p, x)
<1>1. PICK i \in todo[p] :
        /\ Turn(p, i)
        /\ \A o \in orders : o.coid # OrderFor(batch[p][i]).coid
        /\ orders' = orders \cup {OrderFor(batch[p][i])}
  BY DEF BrokerAccepts
<1> DEFINE x == batch[p][i].payload
           new == OrderFor(batch[p][i])
<1>2. x \in Payload
  BY RowOfBatch DEF IInv, Row
<1>3. new.payload = x /\ new.coid = <<x>>
  BY DEF OrderFor, ClientOrderId
<1>4. {o \in orders : o.payload = x} = {}
  BY <1>1, <1>3 DEF IInv, OrdersKeyed
<1>5. {o \in orders' : o.payload = x} = {new}
  BY <1>1, <1>3, <1>4
<1>6. ASSUME NEW y \in Payload, y # x
      PROVE  {o \in orders' : o.payload = y} = {o \in orders : o.payload = y}
  BY <1>1, <1>3, <1>6
<1>7. placed[x] = 0
  BY <1>2, <1>4, PlacedCounts, FS_EmptySet
<1>8. placed' = [placed EXCEPT ![x] = 1]
  <2>1. Cardinality({o \in orders' : o.payload = x}) = 1
    BY <1>5, FS_Singleton
  <2>2. placed' = [y \in Payload |-> Cardinality({o \in orders' : o.payload = y})]
    BY DEF placed
  <2>3. placed = [y \in Payload |-> Cardinality({o \in orders : o.payload = y})]
    BY DEF placed
  <2> HIDE DEF x
  <2>4. ASSUME NEW y \in Payload
        PROVE  placed'[y] = [placed EXCEPT ![x] = 1][y]
    BY <1>2, <1>6, <2>1, <2>2, <2>3
  <2> QED
    BY <1>2, <2>2, <2>3, <2>4
<1>9. <<p, x>> \in permits /\ permits' = permits \ {<<p, x>>}
  <2>1. StepOf(p) /\ pc[p] = "send" /\ pc'[p] # "send"
    BY DEF StepOf, RunStep, BrokerAccepts, IInv, TypeOK
  <2> QED
    BY <1>1, <2>1, SendingLosesPermit DEF IInv
<1>10. UNCHANGED approved
  BY DEF BrokerAccepts, files, approved
<1> HIDE DEF x
<1> QED
  BY <1>2, <1>7, <1>8, <1>9, <1>10 DEF Abstract!Place

LEMMA RecheckGrants ==
  ASSUME IInv, NEW p \in Proc, RecheckPass(p)
  PROVE  \E x \in Payload : Abstract!Grant(p, x)
<1>1. PICK i \in todo[p] : Turn(p, i) /\ Approved(p, batch[p][i])
  BY DEF RecheckPass, SubmitAllowed
<1> DEFINE x == batch[p][i].payload
<1>2. x \in Payload
  BY RowOfBatch DEF IInv, Row
<1>3. x \in approved
  BY <1>1, <1>2 DEF Approved, approved
<1>4. \A j \in todo[p] : Turn(p, j) => j = i
  BY <1>1, RowOfBatch DEF Turn, IInv
<1>5. /\ pc[p] = "recheck" /\ pc'[p] = "send"
      /\ UNCHANGED <<todo, batch, approval, orders>>
      /\ StepOf(p)
  BY DEF RecheckPass, Goto, files, StepOf, RunStep, IInv, TypeOK
<1>6. ASSUME NEW q \in Proc, NEW y \in Payload
      PROVE  <<q, y>> \in permits' <=> <<q, y>> \in permits \/ <<q, y>> = <<p, x>>
  <2>1. CASE q = p
    BY <1>1, <1>4, <1>5, <2>1, PermitsAre, PermitsWillBe DEF Checked, Turn
  <2>2. CASE q # p
    BY <1>5, <2>2, PermitsAre, PermitsWillBe, StillKeepsPermits, OtherRunsStill
       DEF IInv
  <2> QED
    BY <2>1, <2>2
<1>7. permits' = permits \cup {<<p, x>>}
  BY <1>2, <1>6, PermitsAre, PermitsWillBe
<1>8. UNCHANGED <<approved, placed>>
  BY <1>5 DEF approved, placed
<1> HIDE DEF x
<1> QED
  BY <1>2, <1>3, <1>7, <1>8 DEF Abstract!Grant

LEMMA StepRefines ==
  ASSUME IInv, [Next]_vars
  PROVE  [Abstract!Next]_(Abstract!absVars)
<1>1. ASSUME NEW p \in Proc, BrokerAccepts(p)
      PROVE  Abstract!Next
  BY <1>1, AcceptPlaces DEF Abstract!Next
<1>2. ASSUME NEW p \in Proc, RecheckPass(p)
      PROVE  Abstract!Next
  BY <1>2, RecheckGrants DEF Abstract!Next
<1>3. ASSUME NEW p \in Proc, CreateApproval(p)
      PROVE  Abstract!Next
  <2>1. PICK i \in todo[p] :
          approval' = [approval EXCEPT ![batch[p][i].payload] =
            [status |-> "APPROVAL_REQUIRED", terms |-> batch[p][i].terms]]
    BY <1>3 DEF CreateApproval
  <2>2. /\ batch[p][i].payload \in Payload
        /\ [status |-> "APPROVAL_REQUIRED", terms |-> batch[p][i].terms]
             \in ApprovalFile
    BY RowOfBatch DEF IInv, Row, ApprovalFile, Decisions
  <2>3. permits' = permits
    <3>1. StepOf(p) /\ pc[p] # "send" /\ pc'[p] # "send"
      BY <1>3 DEF StepOf, RunStep, CreateApproval, Record, IInv, TypeOK
    <3> QED
      BY <3>1, StepKeepsPermits DEF IInv
  <2>4. UNCHANGED placed
    BY <1>3 DEF CreateApproval, placed
  <2> QED
    BY <2>1, <2>2, <2>3, <2>4, RewriteDecides DEF Abstract!Next, Abstract!Decide, IInv
<1>4. ASSUME NEW p \in Proc, StepOf(p), ~BrokerAccepts(p), ~RecheckPass(p),
             ~CreateApproval(p)
      PROVE  Abstract!Next \/ UNCHANGED Abstract!absVars
  <2>1. UNCHANGED <<approval, orders>>
    BY <1>4 DEF StepOf, RunStep, StartDryRun, StartSubmit, PreflightStop,
       PreflightPass, GuardRaises, Skip, ApprovalMissing, GatePass,
       SubmitHalted, SubmitNotHalted, RecheckRefused, RecheckUnbuildable,
       BrokerFails, ReceiveAccepted, ReceiveError, Finish, Crash, files
  <2>2. UNCHANGED <<approved, placed>>
    BY <2>1 DEF approved, placed
  <2>3. pc'[p] # "send"
    BY <1>4 DEF StepOf, RunStep, StartDryRun, StartSubmit, PreflightStop,
       PreflightPass, GuardRaises, Skip, ApprovalMissing, GatePass,
       SubmitHalted, SubmitNotHalted, RecheckRefused, RecheckUnbuildable,
       BrokerFails, ReceiveAccepted, ReceiveError,
       Finish, Crash, Exit, Goto, Record, IInv, TypeOK
  <2>4. CASE pc[p] # "send"
    BY <1>4, <2>2, <2>3, <2>4, StepKeepsPermits DEF Abstract!absVars, IInv
  <2>5. CASE pc[p] = "send" /\ \E i \in todo[p] : Turn(p, i)
    <3>1. PICK i \in todo[p] : Turn(p, i)
      BY <2>5
    <3>2. permits' = permits \ {<<p, batch[p][i].payload>>}
      BY <1>4, <2>3, <2>5, <3>1, SendingLosesPermit DEF IInv
    <3>3. batch[p][i].payload \in Payload
      BY RowOfBatch DEF IInv, Row
    <3> QED
      BY <2>2, <3>2, <3>3 DEF Abstract!Next, Abstract!Lapse
  <2>6. CASE pc[p] = "send" /\ ~\E i \in todo[p] : Turn(p, i)
    <3>1. ASSUME NEW q \in Proc, NEW x \in Payload
          PROVE  <<q, x>> \in permits' <=> <<q, x>> \in permits
      <4>1. CASE q = p
        BY <2>3, <2>6, <4>1, PermitsAre, PermitsWillBe DEF Checked
      <4>2. CASE q # p
        BY <1>4, <4>2, PermitsAre, PermitsWillBe, StillKeepsPermits,
           OtherRunsStill DEF IInv
      <4> QED
        BY <4>1, <4>2
    <3>2. permits' = permits
      BY <3>1, SamePermits
    <3> QED
      BY <2>2, <3>2 DEF Abstract!absVars
  <2> QED
    BY <2>4, <2>5, <2>6
<1>5. ASSUME NEW r \in Reviewer, ReviewSave(r)
      PROVE  Abstract!Next
  <2>1. review[r] \in Review
    BY <1>5 DEF ReviewSave, IInv, TypeOK
  <2>2. /\ review[r].payload \in Payload
        /\ [status |-> review[r].status, terms |-> review[r].file.terms]
             \in ApprovalFile
    BY <2>1 DEF Review, ApprovalFile
  <2>3. /\ UNCHANGED <<orders, runVars>>
        /\ approval' = [approval EXCEPT ![review[r].payload] =
             [status |-> review[r].status, terms |-> review[r].file.terms]]
    BY <1>5 DEF ReviewSave
  <2>4. UNCHANGED <<permits, placed>>
    BY <2>3, AllStillPermits DEF Still, runVars, placed
  <2> QED
    BY <2>2, <2>3, <2>4, RewriteDecides DEF Abstract!Next, Abstract!Decide, IInv
<1>6. CASE /\ OperatorStep \/ UNCHANGED vars
           /\ ~\E r \in Reviewer : ReviewSave(r)
  <2>1. UNCHANGED <<approval, orders, runVars>>
    BY <1>6 DEF OperatorStep, ReviewLoad, Halt, Resume, Rebuild, vars, files
  <2>2. UNCHANGED <<approved, placed, permits>>
    BY <2>1, AllStillPermits DEF Still, runVars, approved, placed
  <2> QED
    BY <2>2 DEF Abstract!absVars
<1> QED
  BY <1>1, <1>2, <1>3, <1>4, <1>5, <1>6, WhoSteps

\* The commands implement ApprovedOnce for every number of concurrent runs.
THEOREM RefinesApprovedOnce == Spec => ImplementsApprovedOnce
BY InitRefines, StepRefines, Invariance, PTL
   DEF Spec, ImplementsApprovedOnce, Abstract!Spec

-----------------------------------------------------------------------------
(* Decisions, however runs overlap                                         *)

\* The file a run is about to create is still absent, or another run has created
\* it since; the file a reviewer is about to write back is still there.
FilesAsRead ==
  /\ \A x \in Payload : \A p \in Creating(x) : approval[x] = None \/ p \in createSince
  /\ \A r \in Reviewer : review[r] # None => approval[review[r].payload] # None

\* Two steps write approval files.
LEMMA WhoWritesApprovals ==
  ASSUME TypeOK, [Next]_vars
  PROVE  \/ approval' = approval
         \/ \E p \in Proc : CreateApproval(p)
         \/ \E r \in Reviewer : ReviewSave(r)
BY DEF Next, RunStep, StartDryRun, StartSubmit, PreflightStop, PreflightPass,
       GuardRaises, Skip, ApprovalMissing, GatePass, SubmitHalted, SubmitNotHalted,
       RecheckRefused, RecheckUnbuildable, RecheckPass, BrokerAccepts, BrokerFails,
       ReceiveAccepted, ReceiveError, Finish, Crash, ReviewLoad, Halt, Resume, Rebuild,
       files, vars

\* A creation writes the file of the payload it is at, and every other run that
\* is about to create that file is now past its time.
LEMMA CreationWrites ==
  ASSUME TypeOK, NEW p \in Proc, CreateApproval(p)
  PROVE  \E x \in Payload :
           /\ p \in Creating(x)
           /\ createSince' = (createSince \cup Creating(x)) \ {p}
           /\ approval'[x] \in ApprovalFile
           /\ \A y \in Payload \ {x} : approval'[y] = approval[y]
<1>1. PICK i \in todo[p] :
        /\ Turn(p, i)
        /\ approval' = [approval EXCEPT ![batch[p][i].payload] =
             [status |-> "APPROVAL_REQUIRED", terms |-> batch[p][i].terms]]
        /\ createSince' = (createSince \cup Creating(batch[p][i].payload)) \ {p}
  BY DEF CreateApproval
<1>2. /\ batch[p][i].payload \in Payload
      /\ [status |-> "APPROVAL_REQUIRED", terms |-> batch[p][i].terms] \in ApprovalFile
  BY RowOfBatch DEF Row, ApprovalFile, Decisions
<1>3. p \in Creating(batch[p][i].payload)
  BY <1>1 DEF CreateApproval, Creating
<1> QED
  BY <1>1, <1>2, <1>3 DEF TypeOK

\* A reviewer writes a decision into the file it read.
LEMMA ReviewWrites ==
  ASSUME TypeOK, NEW r \in Reviewer, ReviewSave(r)
  PROVE  /\ review[r] # None /\ review[r].payload \in Payload
         /\ approval'[review[r].payload] \in ApprovalFile
         /\ approval'[review[r].payload].status # "APPROVAL_REQUIRED"
         /\ \A y \in Payload \ {review[r].payload} : approval'[y] = approval[y]
<1>1. review[r] \in Review /\ review[r] # None
  BY DEF ReviewSave, TypeOK
<1>2. /\ review[r].payload \in Payload
      /\ [status |-> review[r].status, terms |-> review[r].file.terms] \in ApprovalFile
      /\ review[r].status # "APPROVAL_REQUIRED"
  BY <1>1 DEF Review, ApprovalFile
<1> QED
  BY <1>1, <1>2 DEF ReviewSave, TypeOK

\* No step removes an approval file.
LEMMA ApprovalsStay ==
  ASSUME TypeOK, [Next]_vars, NEW x \in Payload, approval[x] # None
  PROVE  approval'[x] # None
BY WhoWritesApprovals, CreationWrites, ReviewWrites, NoneAssumption

\* A run that comes to a creation has just seen that there is no file.
LEMMA CreatingBegins ==
  ASSUME TypeOK, NEW x \in Payload, NEW p \in Proc, p \in Creating(x)', StepOf(p)
  PROVE  approval[x] = None /\ approval' = approval
<1>1. pc'[p] = "create"
  BY DEF Creating
<1>2. ApprovalMissing(p)
  <2>1. ASSUME NEW i, NEW status, NEW order, Record(p, i, status, order)
        PROVE  pc'[p] # "create"
    BY <2>1 DEF Record, TypeOK
  <2>2. Exit(p) => pc'[p] # "create"
    BY DEF Exit, TypeOK
  <2>3. \A stage : Goto(p, stage) => pc'[p] = stage
    BY DEF Goto, TypeOK
  <2> QED
    BY <1>1, <2>1, <2>2, <2>3 DEF StepOf, RunStep, StartDryRun, StartSubmit,
       PreflightStop, PreflightPass, GuardRaises, Skip, CreateApproval, GatePass,
       SubmitHalted, SubmitNotHalted, RecheckRefused, RecheckUnbuildable, RecheckPass,
       BrokerAccepts, BrokerFails, ReceiveAccepted, ReceiveError, Finish, Crash, TypeOK
<1>3. PICK i \in todo[p] : Turn(p, i) /\ approval[batch[p][i].payload] = None
  BY <1>2 DEF ApprovalMissing
<1>4. PICK j \in todo[p] : Turn(p, j) /\ batch[p][j].payload = x
  BY <1>2 DEF ApprovalMissing, Goto, Creating, Turn
<1>5. i = j
  <2>1. i \in Nat /\ j \in Nat
    BY RowOfBatch
  <2> QED BY <2>1, <1>3, <1>4 DEF Turn
<1> QED
  BY <1>2, <1>3, <1>4, <1>5 DEF ApprovalMissing, files

LEMMA StillCreating ==
  ASSUME NEW x \in Payload, NEW p \in Proc, Still(p), p \in Creating(x)'
  PROVE  p \in Creating(x)
BY DEF Creating, Turn, Still

LEMMA NextFilesAsRead ==
  ASSUME TypeOK, FilesAsRead, [Next]_vars
  PROVE  FilesAsRead'
<1>1. ASSUME NEW x \in Payload, NEW p \in Proc, p \in Creating(x)'
      PROVE  approval'[x] = None \/ p \in createSince'
  <2>1. CASE StepOf(p)
    BY <1>1, <2>1, CreatingBegins
  <2>2. ASSUME NEW q \in Proc, q # p, StepOf(q)
        PROVE  approval'[x] = None \/ p \in createSince'
    <3>1. approval[x] = None \/ p \in createSince
      BY <1>1, <2>2, OtherRunsStill, StillCreating DEF FilesAsRead
    <3>2. CASE approval' = approval
      BY <2>2, <3>1, <3>2, OtherRunsHistory
    <3>3. CASE CreateApproval(q)
      <4>1. PICK y \in Payload :
              /\ createSince' = (createSince \cup Creating(y)) \ {q}
              /\ \A z \in Payload \ {y} : approval'[z] = approval[z]
        BY <3>3, CreationWrites
      <4>2. CASE x = y
        BY <1>1, <2>2, <4>1, <4>2, OtherRunsStill, StillCreating
      <4>3. CASE x # y
        BY <2>2, <3>1, <4>1, <4>3
      <4> QED BY <4>2, <4>3
    <3> QED BY <2>2, <3>2, <3>3, OtherRunsHistory
  <2>3. CASE OperatorStep \/ UNCHANGED vars
    <3>1. createSince' = createSince
      BY <2>3 DEF OperatorStep, ReviewLoad, ReviewSave, Halt, Resume, Rebuild, vars,
         history
    <3>2. Still(p)
      BY <2>3, OperatorLeavesRuns DEF runVars, Still
    <3>3. approval[x] = None \/ p \in createSince
      BY <1>1, <3>2, StillCreating DEF FilesAsRead
    <3>4. approval'[x] = approval[x] \/ approval[x] # None
      <4>1. CASE \E r \in Reviewer : ReviewSave(r)
        BY <4>1, ReviewWrites DEF FilesAsRead
      <4>2. CASE ~\E r \in Reviewer : ReviewSave(r)
        BY <2>3, <4>2 DEF OperatorStep, ReviewLoad, Halt, Resume, Rebuild, vars, files
      <4> QED BY <4>1, <4>2
    <3> QED BY <3>1, <3>3, <3>4
  <2> QED BY <2>1, <2>2, <2>3, WhoSteps
<1>2. ASSUME NEW r \in Reviewer, review'[r] # None
      PROVE  approval'[review'[r].payload] # None
  <2>1. CASE review'[r] = review[r]
    <3>1. review[r].payload \in Payload /\ approval[review[r].payload] # None
      BY <2>1, <1>2 DEF FilesAsRead, TypeOK, Review
    <3> QED BY <2>1, <3>1, ApprovalsStay
  <2>2. CASE review'[r] # review[r]
    <3>1. \E q \in Reviewer : ReviewLoad(q) \/ ReviewSave(q)
      BY <2>2 DEF Next, RunStep, StartDryRun, StartSubmit, PreflightStop, PreflightPass,
         GuardRaises, Skip, ApprovalMissing, CreateApproval, GatePass, SubmitHalted,
         SubmitNotHalted, RecheckRefused, RecheckUnbuildable, RecheckPass, BrokerAccepts,
         BrokerFails, ReceiveAccepted, ReceiveError, Finish, Crash, Halt, Resume,
         Rebuild, files, vars
    <3>2. ReviewLoad(r)
      BY <1>2, <2>2, <3>1 DEF ReviewLoad, ReviewSave, TypeOK
    <3>3. PICK x \in Payload : approval[x] # None /\ review'[r].payload = x
      BY <3>2 DEF ReviewLoad, TypeOK
    <3> QED BY <3>2, <3>3 DEF ReviewLoad, files
  <2> QED BY <2>1, <2>2
<1>3. (\A x \in Payload : \A p \in Creating(x) : approval[x] = None \/ p \in createSince)'
  BY <1>1 DEF Creating
<1> QED
  BY <1>2, <1>3 DEF FilesAsRead

\* However many runs and reviewers overlap, the operator's decision on a payload is
\* put back to APPROVAL_REQUIRED only by a run whose load of the approval file is
\* older than the file: every later load of load_or_create_approval finds it.
THEOREM DecisionsAreKept == Spec => DecisionWindow
<1>1. Init => FilesAsRead
  BY DEF Init, FilesAsRead, Creating
<1>2. IInv /\ FilesAsRead /\ [Next]_vars => FilesAsRead'
  BY NextFilesAsRead DEF IInv
<1>3. IInv /\ FilesAsRead /\ [Next]_vars =>
        [\A x \in Payload :
           approval[x] # None /\ approval[x].status # "APPROVAL_REQUIRED" =>
             \/ approval'[x] # None /\ approval'[x].status # "APPROVAL_REQUIRED"
             \/ createSince \cap Creating(x) # {}]_vars
  <2> SUFFICES ASSUME IInv, FilesAsRead, [Next]_vars, NEW x \in Payload,
                      approval[x] # None, approval[x].status # "APPROVAL_REQUIRED"
               PROVE  \/ approval'[x] # None /\ approval'[x].status # "APPROVAL_REQUIRED"
                      \/ createSince \cap Creating(x) # {}
    OBVIOUS
  <2>1. ASSUME NEW p \in Proc, CreateApproval(p)
        PROVE  approval'[x] = approval[x] \/ createSince \cap Creating(x) # {}
    BY <2>1, CreationWrites DEF FilesAsRead, IInv
  <2>2. ASSUME NEW r \in Reviewer, ReviewSave(r)
        PROVE  approval'[x] # None /\ approval'[x].status # "APPROVAL_REQUIRED"
    BY <2>2, ReviewWrites, ApprovalsStay DEF IInv
  <2> QED BY <2>1, <2>2, WhoWritesApprovals DEF IInv
<1> QED
  BY <1>1, <1>2, <1>3, Invariance, PTL DEF Spec, DecisionWindow

-----------------------------------------------------------------------------
(* Why runs end: rows left to handle, and within a row the stages left     *)

StagesLeft(stage) ==
  CASE stage = "preflight"            -> 6
    [] stage = "guard"                -> 5
    [] stage \in {"create", "submit"} -> 4
    [] stage = "recheck"              -> 3
    [] stage = "send"                 -> 2
    [] stage = "reply"                -> 1
    [] OTHER                          -> 0

\* Run p ends, has fewer rows left, or has fewer stages left for its row.
Closer(p) ==
  \/ pc'[p] = "idle"
  \/ todo'[p] \subseteq todo[p] /\ todo'[p] # todo[p]
  \/ todo'[p] = todo[p] /\ StagesLeft(pc'[p]) < StagesLeft(pc[p])

FiniteTodo == \A p \in Proc : IsFiniteSet(todo[p])

LEMMA TodoIsFinite ==
  ASSUME TypeOK
  PROVE  FiniteTodo
<1> SUFFICES ASSUME NEW p \in Proc PROVE IsFiniteSet(todo[p])
  BY DEF FiniteTodo
<1>1. Len(batch[p]) \in Nat /\ todo[p] \subseteq 1..Len(batch[p])
  BY DEF TypeOK
<1>2. IsFiniteSet(1..Len(batch[p]))
  BY <1>1, FS_Interval
<1> QED
  BY <1>1, <1>2, FS_Subset

LEMMA StepIsCloser ==
  ASSUME TypeOK, NEW p \in Proc, pc[p] # "idle", StepOf(p)
  PROVE  Closer(p)
<1>1. CASE \/ PreflightStop(p) \/ GuardRaises(p) \/ SubmitHalted(p)
           \/ RecheckUnbuildable(p) \/ Finish(p) \/ Crash(p)
  <2>1. pc'[p] = "idle"
    BY <1>1 DEF PreflightStop, GuardRaises, SubmitHalted, RecheckUnbuildable, Finish,
       Crash, Exit, TypeOK
  <2> QED BY <2>1 DEF Closer
<1>2. CASE \/ Skip(p) \/ CreateApproval(p) \/ RecheckRefused(p)
           \/ ReceiveAccepted(p) \/ ReceiveError(p)
  <2>1. PICK i \in todo[p] : todo'[p] = todo[p] \ {i}
    BY <1>2 DEF Skip, CreateApproval, RecheckRefused, ReceiveAccepted, ReceiveError,
       Record, TypeOK
  <2> QED BY <2>1 DEF Closer
<1>3. CASE \/ PreflightPass(p) \/ ApprovalMissing(p) \/ GatePass(p)
           \/ SubmitNotHalted(p) \/ RecheckPass(p)
  <2>1. todo'[p] = todo[p]
    BY <1>3 DEF PreflightPass, ApprovalMissing, GatePass, SubmitNotHalted, RecheckPass, Goto
  <2>2. \/ pc[p] = "preflight" /\ pc'[p] \in {"guard", "write"}
        \/ pc[p] = "guard" /\ pc'[p] \in {"create", "submit"}
        \/ pc[p] = "submit" /\ pc'[p] = "recheck"
        \/ pc[p] = "recheck" /\ pc'[p] = "send"
    BY <1>3 DEF PreflightPass, ApprovalMissing, GatePass, SubmitNotHalted, RecheckPass,
       Goto, TypeOK
  <2>3. StagesLeft(pc'[p]) < StagesLeft(pc[p])
    BY <2>2 DEF StagesLeft
  <2> QED BY <2>1, <2>3 DEF Closer
<1>4. CASE BrokerAccepts(p) \/ BrokerFails(p)
  <2>1. todo'[p] = todo[p] /\ pc[p] = "send" /\ pc'[p] = "reply"
    BY <1>4 DEF BrokerAccepts, BrokerFails, TypeOK
  <2>2. StagesLeft(pc'[p]) < StagesLeft(pc[p])
    BY <2>1 DEF StagesLeft
  <2> QED BY <2>1, <2>2 DEF Closer
<1> QED
  BY <1>1, <1>2, <1>3, <1>4 DEF StepOf, RunStep, StartDryRun, StartSubmit

\* Nothing but its own next step moves a run that has started, and that step leaves
\* it with less to do: no file, broker or other run can send it back.  What RunEnds
\* adds is that there is always a next step, and that it is taken.
THEOREM RunsComeCloserToTheirEnd ==
  Spec => /\ []FiniteTodo
          /\ [][\A p \in Proc : pc[p] # "idle" => Still(p) \/ Closer(p)]_vars
<1>1. TypeOK => FiniteTodo
  BY TodoIsFinite
<1>2. TypeOK /\ [Next]_vars =>
        [\A p \in Proc : pc[p] # "idle" => Still(p) \/ Closer(p)]_vars
  BY StillOrStep, StepIsCloser
<1> QED
  BY <1>1, <1>2, TypeCorrect, PTL DEF Spec

=============================================================================
