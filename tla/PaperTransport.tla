--------------------------- MODULE PaperTransport ---------------------------
(***************************************************************************)
(* Opening orders on the Alpaca paper account.                             *)
(*                                                                         *)
(* Several invocations of examples/submit_paper_payload_candidates.py      *)
(* (Proc) and of scripts/hitl_review.py (Reviewer) run at the same time on *)
(* one checkout.  They share only files: the payload candidate CSV, one    *)
(* JSON approval file per payload, the halt file and the results CSV that  *)
(* every run overwrites.  None of them takes a lock.  Each action below is *)
(* one file access or one broker exchange; what a run does between two of  *)
(* them touches only its own memory.                                       *)
(*                                                                         *)
(* The economics of a row are abstracted to Terms (limit price, quantity,  *)
(* maximum loss: what the payload id does not cover) and to its shape,     *)
(* which says how the guardrail stack and the request builder treat it.    *)
(***************************************************************************)
EXTENDS Naturals, Sequences, FiniteSets

CONSTANTS
  Payload,      \* payload ids (hash of approval id, structure and legs)
  Terms,        \* price, quantity and loss figures a row can carry
  Proc,         \* concurrent invocations of the submit command
  Reviewer,     \* concurrent invocations of the review command
  Files,        \* contents paper_payload_candidates.csv can have
  Limits,       \* values of --limit (0 when the option is absent)
  LiveSources,  \* where ALPACA_LIVE_TRADE may be set, see LiveNow
  WriteModes,   \* FALSE when --no-write is given
  None          \* no file, no order, no review

Shapes == {"sound", "watch", "blocked", "unparsable", "unbuildable"}

Row == [payload : Payload, terms : Terms, ready : BOOLEAN, shape : Shapes]

Decisions == {"APPROVAL_REQUIRED", "APPROVED_BY_OPERATOR",
              "REJECTED_BY_OPERATOR"}

\* A file of logs/hitl/pending: the decision, and the terms it was asked on.
ApprovalFile == [status : Decisions, terms : Terms]

Review == [payload : Payload, file : ApprovalFile,
           status : Decisions \ {"APPROVAL_REQUIRED"}]

ASSUME FilesAssumption == /\ Files # {}
                          /\ \A f \in Files : f \in Seq(Row)
ASSUME LimitsAssumption == Limits \subseteq Nat
ASSUME LiveAssumption == LiveSources \subseteq {"none", "dotenv", "exported"}
ASSUME WriteAssumption == WriteModes \subseteq BOOLEAN
ASSUME NoneAssumption == None \notin ApprovalFile \cup Review

VARIABLES
  candidates,   \* data/processed/paper_payload_candidates.csv
  approval,     \* logs/hitl/pending/<payload_id>.json, None when absent
  halted,       \* data/.execution_halt exists
  resultsCsv,   \* data/processed/paper_transport_results.csv
  orders,       \* orders the broker has accepted
  pc,           \* where each run stands
  live,         \* where the run's environment sets ALPACA_LIVE_TRADE
  batch,        \* the candidate rows the run loaded
  todo,         \* positions of the rows it still has to handle
  results,      \* the result rows it holds in memory
  reply,        \* what the broker did with the request in flight
  review,       \* the decision a reviewer has loaded and not yet saved
  haltSince,    \* history: runs past a halt check older than the halt file
  editSince,    \* history: runs past a check of an approval file since rewritten
  createSince   \* history: runs past a load of an approval file since created

files   == <<candidates, approval, halted, resultsCsv>>
runVars == <<pc, live, batch, todo, results, reply>>
history == <<haltSince, editSince, createSince>>
vars    == <<files, orders, runVars, review, history>>

-----------------------------------------------------------------------------
(* Types                                                                   *)

\* Mutant: the whole row is hashed.
RowClientOrderId(row) == <<row.payload, row.terms>>

\* deterministic_client_order_id: a function of the payload id alone.
ClientOrderId(row) == <<row.payload>>

Order == [coid : {ClientOrderId(row) : row \in Row}, payload : Payload,
          terms : Terms]

OrderFor(row) == [coid |-> ClientOrderId(row), payload |-> row.payload,
                  terms |-> row.terms]

Statuses == {"PAPER_DRY_RUN_READY", "PAPER_SKIPPED", "PAPER_SUBMITTED",
             "PAPER_REJECTED"}

\* external_order_id is the accepted order, or a set without one; `at' keeps
\* the order of the rows in the file.
ResultRow == [at : Nat, payload : Payload, status : Statuses,
              order : SUBSET Order]

Stages == {"idle", "preflight", "guard", "create", "submit", "recheck",
           "send", "reply", "write"}

TypeOK ==
  /\ candidates \in Files
  /\ approval \in [Payload -> ApprovalFile \cup {None}]
  /\ halted \in BOOLEAN
  /\ resultsCsv \subseteq ResultRow
  /\ orders \subseteq Order
  /\ pc \in [Proc -> Stages]
  /\ live \in [Proc -> {"none", "dotenv", "exported"}]
  /\ batch \in [Proc -> Seq(Row)]
  /\ \A p \in Proc : todo[p] \subseteq DOMAIN batch[p]
  /\ todo \in [Proc -> SUBSET Nat]
  /\ results \in [Proc -> SUBSET ResultRow]
  /\ reply \in [Proc -> {"none", "accepted", "failed"}]
  /\ review \in [Reviewer -> Review \cup {None}]
  /\ haltSince \subseteq Proc
  /\ editSince \subseteq Proc
  /\ createSince \subseteq Proc

-----------------------------------------------------------------------------
(* The decisions the code takes on one row                                 *)

\* filter_ready_payloads, then the slice to the effective limit.
ReadyAt(file) == {i \in DOMAIN file : file[i].ready}

EffectiveLimit(limit) == IF limit > 0 THEN limit ELSE 1

Selected(file, limit) ==
  {i \in ReadyAt(file) :
     Cardinality({j \in ReadyAt(file) : j < i}) < EffectiveLimit(limit)}

\* Mutant: the values of .env are never consulted.
ExportedOnly(p) == live[p] = "exported"

\* env_is_live and check_paper_environment read os.environ; the value in .env
\* enters it only when the preflight resolves the credentials.
LiveNow(p) ==
  \/ live[p] = "exported"
  \/ live[p] = "dotenv" /\ pc[p] \notin {"idle", "preflight"}

\* Mutant: check_watch_boundary is left out of the stack.
NoWatchBoundary(p, row) ==
  CASE row.shape = "unparsable"              -> "raises"
    [] row.shape # "unparsable" /\ LiveNow(p) -> "LIVE_ENV_FORBIDDEN"
    [] row.shape = "blocked" /\ ~LiveNow(p)   -> "CLEAN_REJECT"
    [] OTHER                                 -> "PASS"

\* evaluate_guardrails on the converted row; the conversion itself raises on
\* a leg symbol it cannot parse.
Guardrail(p, row) ==
  CASE row.shape = "unparsable"              -> "raises"
    [] row.shape # "unparsable" /\ LiveNow(p) -> "LIVE_ENV_FORBIDDEN"
    [] row.shape = "blocked" /\ ~LiveNow(p)   -> "CLEAN_REJECT"
    [] row.shape = "watch" /\ ~LiveNow(p)     -> "WATCH_PENDING_REVIEW"
    [] OTHER                                 -> "PASS"

\* evaluate_paper_transport_hitl on an existing approval file.
Approved(p, row) ==
  /\ ~LiveNow(p)
  /\ approval[row.payload] # None
  /\ approval[row.payload].status = "APPROVED_BY_OPERATOR"

\* Mutant: the submit function trusts the gate of the loop.
GuardrailOnly(p, row) == Guardrail(p, row) = "PASS"

\* assert_hitl_paper_submit_allowed, right before the request is built.
SubmitAllowed(p, row) == Guardrail(p, row) = "PASS" /\ Approved(p, row)

-----------------------------------------------------------------------------
(* Steps of a run                                                          *)

\* Position i of run p is the row its loop is at.
Turn(p, i) == i \in todo[p] /\ \A j \in todo[p] : i <= j

\* Mutant: the row just handled stays in the list.
RecordAndStay(p, i, status, order) ==
  /\ results' = [results EXCEPT ![p] = @ \cup
       {[at |-> i, payload |-> batch[p][i].payload, status |-> status,
         order |-> order]}]
  /\ pc' = [pc EXCEPT ![p] = "guard"]
  /\ reply' = [reply EXCEPT ![p] = "none"]
  /\ UNCHANGED <<live, batch, todo>>

\* Runs about to send a row of payload x.
Checked(x) ==
  {q \in Proc : /\ pc[q] = "send"
                /\ \E i \in todo[q] : Turn(q, i) /\ batch[q][i].payload = x}

\* Runs that found no approval file of payload x and are about to write it.
Creating(x) ==
  {q \in Proc : /\ pc[q] = "create"
                /\ \E i \in todo[q] : Turn(q, i) /\ batch[q][i].payload = x}

\* The run appends a result row and goes on to the next one.
Record(p, i, status, order) ==
  /\ results' = [results EXCEPT ![p] = @ \cup
       {[at |-> i, payload |-> batch[p][i].payload, status |-> status,
         order |-> order]}]
  /\ todo' = [todo EXCEPT ![p] = @ \ {i}]
  /\ pc' = [pc EXCEPT ![p] = IF todo[p] = {i} THEN "write" ELSE "guard"]
  /\ reply' = [reply EXCEPT ![p] = "none"]
  /\ UNCHANGED <<live, batch>>

\* The process ends and with it everything it held in memory.
Exit(p) ==
  /\ pc' = [pc EXCEPT ![p] = "idle"]
  /\ todo' = [todo EXCEPT ![p] = {}]
  /\ batch' = [batch EXCEPT ![p] = <<>>]
  /\ results' = [results EXCEPT ![p] = {}]
  /\ reply' = [reply EXCEPT ![p] = "none"]
  /\ live' = [live EXCEPT ![p] = "none"]
  /\ haltSince' = haltSince \ {p}
  /\ editSince' = editSince \ {p}
  /\ createSince' = createSince \ {p}

Goto(p, stage) ==
  /\ pc' = [pc EXCEPT ![p] = stage]
  /\ UNCHANGED <<live, batch, todo, results, reply>>

\* Without --submit-paper every selected row becomes a dry-run result row.
StartDryRun(p) ==
  /\ pc[p] = "idle"
  /\ candidates # <<>>
  /\ \E limit \in Limits :
       results' = [results EXCEPT ![p] =
         {[at |-> i, payload |-> candidates[i].payload,
           status |-> "PAPER_DRY_RUN_READY", order |-> {}] :
             i \in Selected(candidates, limit)}]
  /\ pc' = [pc EXCEPT ![p] = "write"]
  /\ UNCHANGED <<live, batch, todo, reply, files, orders, review, history>>

\* With --submit-paper the run loads the candidates it will try to send.
StartSubmit(p) ==
  /\ pc[p] = "idle"
  /\ candidates # <<>>
  /\ \E limit \in Limits : todo' = [todo EXCEPT ![p] = Selected(candidates, limit)]
  /\ \E src \in LiveSources : live' = [live EXCEPT ![p] = src]
  /\ batch' = [batch EXCEPT ![p] = candidates]
  /\ pc' = [pc EXCEPT ![p] = "preflight"]
  /\ UNCHANGED <<results, reply, files, orders, review, history>>

\* Halt file, exported live flag or missing credentials end the run before the
\* loop; nothing is written.  The credentials may be missing in any run.
PreflightStop(p) ==
  /\ pc[p] = "preflight"
  /\ Exit(p)
  /\ UNCHANGED <<files, orders, review>>

PreflightPass(p) ==
  /\ pc[p] = "preflight"
  /\ ~halted
  /\ ~LiveNow(p)
  /\ Goto(p, IF todo[p] = {} THEN "write" ELSE "guard")
  /\ UNCHANGED <<files, orders, review, history>>

\* A leg symbol that does not parse raises out of the loop.
GuardRaises(p) ==
  /\ pc[p] = "guard"
  /\ \E i \in todo[p] : Turn(p, i) /\ Guardrail(p, batch[p][i]) = "raises"
  /\ Exit(p)
  /\ UNCHANGED <<files, orders, review>>

\* The row is skipped: a guardrail blocked it, or its approval file exists and
\* does not let it through (a WATCH row is skipped whatever the file says).
Skip(p) ==
  /\ pc[p] = "guard"
  /\ \E i \in todo[p] :
       LET row == batch[p][i] IN
       /\ Turn(p, i)
       /\ \/ Guardrail(p, row) \in {"LIVE_ENV_FORBIDDEN", "CLEAN_REJECT"}
          \/ /\ Guardrail(p, row) = "WATCH_PENDING_REVIEW"
             /\ approval[row.payload] # None
          \/ /\ Guardrail(p, row) = "PASS"
             /\ approval[row.payload] # None
             /\ ~Approved(p, row)
       /\ Record(p, i, "PAPER_SKIPPED", {})
  /\ UNCHANGED <<files, orders, review, history>>

\* Mutant: a rejected approval is asked again.
RejectedAskedAgain(p) ==
  /\ pc[p] = "guard"
  /\ \E i \in todo[p] :
       LET row == batch[p][i] IN
       /\ Turn(p, i)
       /\ Guardrail(p, row) \in {"WATCH_PENDING_REVIEW", "PASS"}
       /\ approval[row.payload] # None =>
            approval[row.payload].status = "REJECTED_BY_OPERATOR"
  /\ Goto(p, "create")
  /\ UNCHANGED <<files, orders, review, history>>

\* load_or_create_approval finds no file (the load; the save is CreateApproval).
ApprovalMissing(p) ==
  /\ pc[p] = "guard"
  /\ \E i \in todo[p] :
       LET row == batch[p][i] IN
       /\ Turn(p, i)
       /\ Guardrail(p, row) \in {"WATCH_PENDING_REVIEW", "PASS"}
       /\ approval[row.payload] = None
  /\ Goto(p, "create")
  /\ UNCHANGED <<files, orders, review, history>>

\* The pending file is written, over whatever is there by now; the row waits
\* for a decision and is skipped in this run.
CreateApproval(p) ==
  /\ pc[p] = "create"
  /\ \E i \in todo[p] :
       LET row == batch[p][i] IN
       /\ Turn(p, i)
       /\ approval' = [approval EXCEPT ![row.payload] =
            [status |-> "APPROVAL_REQUIRED", terms |-> row.terms]]
       /\ editSince' = editSince \cup Checked(row.payload)
       /\ createSince' = (createSince \cup Creating(row.payload)) \ {p}
       /\ Record(p, i, "PAPER_SKIPPED", {})
  /\ UNCHANGED <<candidates, halted, resultsCsv, orders, review, haltSince>>

\* The gate of the loop lets an approved row through to the submit function.
GatePass(p) ==
  /\ pc[p] = "guard"
  /\ \E i \in todo[p] :
       /\ Turn(p, i)
       /\ Guardrail(p, batch[p][i]) = "PASS"
       /\ Approved(p, batch[p][i])
  /\ Goto(p, "submit")
  /\ UNCHANGED <<files, orders, review, history>>

\* submit_alpaca_paper_mleg_order starts with assert_not_halted, which raises
\* out of the whole run ...
SubmitHalted(p) ==
  /\ pc[p] = "submit"
  /\ halted
  /\ Exit(p)
  /\ UNCHANGED <<files, orders, review>>

\* Mutant: the halt file is looked at once per run, in the preflight.
SubmitAnyway(p) ==
  /\ pc[p] = "submit"
  /\ Goto(p, "recheck")
  /\ haltSince' = haltSince \ {p}
  /\ UNCHANGED <<files, orders, review, editSince, createSince>>

\* Mutant: the request is built without asking the approval file again.
SubmitUnchecked(p) ==
  /\ pc[p] = "submit"
  /\ ~halted
  /\ Goto(p, "send")
  /\ haltSince' = haltSince \ {p}
  /\ UNCHANGED <<files, orders, review, editSince, createSince>>

SubmitNotHalted(p) ==
  /\ pc[p] = "submit"
  /\ ~halted
  /\ Goto(p, "recheck")
  /\ haltSince' = haltSince \ {p}
  /\ UNCHANGED <<files, orders, review, editSince, createSince>>

\* ... then asks guardrails and approval file again, and a decision withdrawn
\* in the meantime makes the row PAPER_REJECTED.
RecheckRefused(p) ==
  /\ pc[p] = "recheck"
  /\ \E i \in todo[p] :
       /\ Turn(p, i)
       /\ ~SubmitAllowed(p, batch[p][i])
       /\ Record(p, i, "PAPER_REJECTED", {})
  /\ UNCHANGED <<files, orders, review, history>>

\* Building the request raises on a row without positive quantity and price.
RecheckUnbuildable(p) ==
  /\ pc[p] = "recheck"
  /\ \E i \in todo[p] : /\ Turn(p, i)
                        /\ SubmitAllowed(p, batch[p][i])
                        /\ batch[p][i].shape = "unbuildable"
  /\ Exit(p)
  /\ UNCHANGED <<files, orders, review>>

RecheckPass(p) ==
  /\ pc[p] = "recheck"
  /\ \E i \in todo[p] :
       /\ Turn(p, i)
       /\ SubmitAllowed(p, batch[p][i])
       /\ batch[p][i].shape # "unbuildable"
  /\ Goto(p, "send")
  /\ editSince' = editSince \ {p}
  /\ UNCHANGED <<files, orders, review, haltSince, createSince>>

\* The broker accepts a client order id it has not seen.
BrokerAccepts(p) ==
  /\ pc[p] = "send"
  /\ \E i \in todo[p] :
       LET new == OrderFor(batch[p][i]) IN
       /\ Turn(p, i)
       /\ \A o \in orders : o.coid # new.coid
       /\ orders' = orders \cup {new}
  /\ pc' = [pc EXCEPT ![p] = "reply"]
  /\ reply' = [reply EXCEPT ![p] = "accepted"]
  /\ UNCHANGED <<live, batch, todo, results, files, review, history>>

\* The broker refuses the request, or the request never reaches it.
BrokerFails(p) ==
  /\ pc[p] = "send"
  /\ pc' = [pc EXCEPT ![p] = "reply"]
  /\ reply' = [reply EXCEPT ![p] = "failed"]
  /\ UNCHANGED <<live, batch, todo, results, files, orders, review, history>>

\* Mutant: whatever client.submit_order did counts as accepted.
ReceiveAnything(p) ==
  /\ pc[p] = "reply"
  /\ \E i \in todo[p] :
       Turn(p, i) /\ Record(p, i, "PAPER_SUBMITTED", {OrderFor(batch[p][i])})
  /\ UNCHANGED <<files, orders, review, history>>

\* The reply arrives and carries the broker's order id.
ReceiveAccepted(p) ==
  /\ pc[p] = "reply"
  /\ reply[p] = "accepted"
  /\ \E i \in todo[p] :
       Turn(p, i) /\ Record(p, i, "PAPER_SUBMITTED", {OrderFor(batch[p][i])})
  /\ UNCHANGED <<files, orders, review, history>>

\* client.submit_order raises: a refusal, a connection that failed, or the
\* reply to an accepted order that was lost.
ReceiveError(p) ==
  /\ pc[p] = "reply"
  /\ \E i \in todo[p] : Turn(p, i) /\ Record(p, i, "PAPER_REJECTED", {})
  /\ UNCHANGED <<files, orders, review, history>>

\* Results, if there are any, replace the results CSV.
Finish(p) ==
  /\ pc[p] = "write"
  /\ \E write \in WriteModes :
       resultsCsv' = IF write /\ results[p] # {} THEN results[p] ELSE resultsCsv
  /\ Exit(p)
  /\ UNCHANGED <<candidates, approval, halted, orders, review>>

\* The process is killed.
Crash(p) ==
  /\ pc[p] # "idle"
  /\ Exit(p)
  /\ UNCHANGED <<files, orders, review>>

-----------------------------------------------------------------------------
(* The operator                                                            *)

\* apply_operator_decision reads the file (and gives up when there is none) ...
ReviewLoad(r) ==
  /\ review[r] = None
  /\ \E p \in Payload, d \in Decisions \ {"APPROVAL_REQUIRED"} :
       /\ approval[p] # None
       /\ review' = [review EXCEPT ![r] =
            [payload |-> p, file |-> approval[p], status |-> d]]
  /\ UNCHANGED <<files, orders, runVars, history>>

\* ... and writes it back with the decision, whatever it holds by now.
ReviewSave(r) ==
  /\ review[r] # None
  /\ approval' = [approval EXCEPT ![review[r].payload] =
       [status |-> review[r].status, terms |-> review[r].file.terms]]
  /\ editSince' = editSince \cup Checked(review[r].payload)
  /\ review' = [review EXCEPT ![r] = None]
  /\ UNCHANGED <<candidates, halted, resultsCsv, orders, runVars, haltSince,
                 createSince>>

\* touch data/.execution_halt
Halt ==
  /\ ~halted
  /\ halted' = TRUE
  /\ haltSince' = haltSince \cup {q \in Proc : pc[q] \in {"recheck", "send"}}
  /\ UNCHANGED <<candidates, approval, resultsCsv, orders, runVars, review, editSince,
                 createSince>>

\* rm data/.execution_halt
Resume ==
  /\ halted
  /\ halted' = FALSE
  /\ UNCHANGED <<candidates, approval, resultsCsv, orders, runVars, review, history>>

\* build_paper_payload_candidates.py overwrites the candidate CSV.
Rebuild ==
  /\ candidates' \in Files
  /\ UNCHANGED <<approval, halted, resultsCsv, orders, runVars, review, history>>

-----------------------------------------------------------------------------
Init ==
  /\ candidates \in Files
  /\ approval = [p \in Payload |-> None]
  /\ halted = FALSE
  /\ resultsCsv = {}
  /\ orders = {}
  /\ pc = [p \in Proc |-> "idle"]
  /\ live = [p \in Proc |-> "none"]
  /\ batch = [p \in Proc |-> <<>>]
  /\ todo = [p \in Proc |-> {}]
  /\ results = [p \in Proc |-> {}]
  /\ reply = [p \in Proc |-> "none"]
  /\ review = [r \in Reviewer |-> None]
  /\ haltSince = {}
  /\ editSince = {}
  /\ createSince = {}

\* What a started run does when it is scheduled.
RunStep(p) ==
  \/ PreflightStop(p) \/ PreflightPass(p)
  \/ GuardRaises(p) \/ Skip(p) \/ ApprovalMissing(p) \/ CreateApproval(p)
  \/ GatePass(p) \/ SubmitHalted(p) \/ SubmitNotHalted(p)
  \/ RecheckRefused(p) \/ RecheckUnbuildable(p) \/ RecheckPass(p)
  \/ BrokerAccepts(p) \/ BrokerFails(p)
  \/ ReceiveAccepted(p) \/ ReceiveError(p) \/ Finish(p)

Next ==
  \/ \E p \in Proc : StartDryRun(p) \/ StartSubmit(p) \/ RunStep(p) \/ Crash(p)
  \/ \E r \in Reviewer : ReviewLoad(r) \/ ReviewSave(r)
  \/ Halt \/ Resume \/ Rebuild

Spec == Init /\ [][Next]_vars

\* A started process is scheduled until it ends (its HTTP calls time out); no
\* command is ever started by the code itself.
FairSpec == Spec /\ \A p \in Proc : WF_vars(RunStep(p))

-----------------------------------------------------------------------------
(* What the commands must guarantee                                        *)

\* The step in which the broker accepts the order of run p.
Orders(p) == pc[p] = "send" /\ pc'[p] = "reply" /\ orders' # orders

\* The broker never holds two orders of one payload, whatever runs overlap,
\* crash, lose a reply and are repeated: the client order id a retry sends is
\* the one of the first attempt (deterministic_client_order_id).
OneOrderPerPayload ==
  \A o1, o2 \in orders : o1.payload = o2.payload => o1 = o2

\* A decision withdrawn while a run is between its gate and its request stops
\* the order, except for an approval file rewritten after the second check of
\* submit_alpaca_paper_mleg_order: no order leaves on a file that was not
\* APPROVED_BY_OPERATOR at that check.
ApprovalWindow ==
  [][\A p \in Proc : Orders(p) =>
       \A i \in todo[p] : Turn(p, i) =>
         LET x == batch[p][i].payload IN
         \/ approval[x] # None /\ approval[x].status = "APPROVED_BY_OPERATOR"
         \/ p \in editSince]_vars

\* Once the halt file exists, the only orders still accepted are those of rows
\* whose own halt check came before it; later rows of a running batch are not.
HaltWindow ==
  [][\A p \in Proc : Orders(p) => ~halted \/ p \in haltSince]_vars

\* A run started with ALPACA_LIVE_TRADE set orders nothing, even if the flag
\* is only in .env, which the first check of the run does not see.
LiveEnvNeverOrders ==
  [][\A p \in Proc : Orders(p) => live[p] = "none"]_vars

\* An order is only ever placed for a row the guardrail stack passes and the
\* builder marked ready: no decision of the operator lets a WATCH row through.
OnlySoundRowsOrdered ==
  [][\A p \in Proc : Orders(p) =>
       \A i \in todo[p] : Turn(p, i) =>
         batch[p][i].ready /\ batch[p][i].shape = "sound"]_vars

\* A row reported PAPER_SUBMITTED, in the results CSV or in a run's memory,
\* stands for an order of that payload the broker holds, and no other row
\* carries an order id.
SubmittedRowsReal ==
  \A r \in resultsCsv \cup UNION {results[p] : p \in Proc} :
    /\ r.status = "PAPER_SUBMITTED" => r.order # {}
    /\ r.order # {} => r.status = "PAPER_SUBMITTED"
    /\ \A o \in r.order : o \in orders /\ o.payload = r.payload

\* A decision of the operator is put back to APPROVAL_REQUIRED only by a run that
\* looked for the approval file before any run had created it: the load and the
\* save of load_or_create_approval are two steps, and the loser of that race
\* writes over the file, the decision taken on it included.  A run that looks
\* later never does.
DecisionWindow ==
  [][\A x \in Payload :
       approval[x] # None /\ approval[x].status # "APPROVAL_REQUIRED" =>
         \/ approval'[x] # None /\ approval'[x].status # "APPROVAL_REQUIRED"
         \/ createSince \cap Creating(x) # {}]_vars

\* Every run ends, whatever the files and the broker answer.
RunEnds == \A p \in Proc : pc[p] # "idle" ~> pc[p] = "idle"

-----------------------------------------------------------------------------
(* ApprovedOnce, with a permit for every request past its last check       *)

approved == {x \in Payload : /\ approval[x] # None
                             /\ approval[x].status = "APPROVED_BY_OPERATOR"}

permits == {h \in Proc \X Payload : h[1] \in Checked(h[2])}

placed == [x \in Payload |-> Cardinality({o \in orders : o.payload = x})]

Abstract == INSTANCE ApprovedOnce WITH Holder <- Proc

\* The commands implement ApprovedOnce: every order uses up a permit that was
\* granted on an approved file, and each payload is ordered at most once.
ImplementsApprovedOnce == Abstract!Spec

=============================================================================
