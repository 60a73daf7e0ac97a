--------------------------- MODULE PaperCloseout ---------------------------
(***************************************************************************)
(* Closing paper positions: examples/check_paper_order_status.py (the      *)
(* audit) asks the broker about the orders of a results CSV and writes the *)
(* status CSV; examples/close_paper_position.py (Proc, several may run)    *)
(* takes the filled rows of that CSV, compares the broker's positions with *)
(* the payload's legs and sends one closing order per row.                 *)
(*                                                                         *)
(* A CSV is a set of rows, `at' being the row's place in the file.  Orders *)
(* are known by payload and attempt: attempt 0 is the opening order, and   *)
(* attempt n the closing order whose client_order_id ends in -a<n> (no     *)
(* suffix for the first).  Quantities are contracts, short ones negative.  *)
(***************************************************************************)
EXTENDS Integers, FiniteSets

CONSTANTS
  Payload, Leg,
  LongLeg, ShortLeg, Qty,   \* legs and quantity of a payload
  Proc,          \* concurrent invocations of the close command
  PayloadFiles,  \* what the payload CSV may say of each payload
  Limits,        \* values of --limit, of both commands
  Explicit,      \* values of --close-attempt, 0 when the option is absent
  MaxAttempt     \* bound on the attempts looked at

Shapes == {"sound", "missing", "unsupported", "unbuildable"}

Attempt == 0..MaxAttempt

ASSUME LegsAssumption ==
  /\ Payload # {}
  /\ LongLeg \in [Payload -> Leg]
  /\ ShortLeg \in [Payload -> Leg]
  /\ Qty \in [Payload -> Nat \ {0}]
ASSUME FilesAssumption == PayloadFiles \subseteq [Payload -> Shapes]
ASSUME LimitsAssumption == Limits \subseteq Int
ASSUME AttemptAssumption == MaxAttempt \in Nat /\ Explicit \subseteq Attempt

VARIABLES
  transportCsv,  \* PAPER_SUBMITTED rows of paper_transport_results.csv
  statusCsv,     \* paper_order_status_audit.csv
  closeCsv,      \* paper_closeout_results.csv
  halted,        \* data/.execution_halt exists
  order,         \* where the broker's order of a payload and attempt stands
  held,          \* net contracts the broker holds of each leg
  audit,         \* the running status audit
  run,           \* the running close commands
  moved,         \* history: legs traded since a run looked at the positions
  haltSince      \* history: runs past a halt check older than the halt file

vars == <<transportCsv, statusCsv, closeCsv, halted, order, held, audit, run,
          moved, haltSince>>
history == <<moved, haltSince>>
broker == <<order, held>>

-----------------------------------------------------------------------------
(* Types                                                                   *)

\* What the audit needs of a results row: which order it stands for.
OrderRow == [at : Nat, payload : Payload, attempt : Attempt]

\* `filled' when the broker said filled and nothing failed.
StatusRow == [at : Nat, payload : Payload, attempt : Attempt, filled : BOOLEAN]

CloseStatuses == {"PAPER_CLOSE_DRY_RUN_READY", "PAPER_CLOSE_SUBMITTED",
                  "PAPER_CLOSE_REJECTED", "PAPER_CLOSE_SKIPPED",
                  "PAPER_CLOSE_ERROR"}

\* `attempt' stands for close_external_order_id, 0 when there is none.
CloseRow == [at : Nat, payload : Payload, status : CloseStatuses,
             attempt : Attempt]

Stages == {"idle", "row", "submit", "send", "reply", "write"}

Run == [pc : Stages, paper : BOOLEAN, known : [Payload -> Shapes],
        todo : SUBSET StatusRow, first : Payload,
        seen : {"no", "failed", "ok"}, positions : [Leg -> Int],
        attempt : Attempt, reply : {"none", "accepted", "failed"},
        results : SUBSET CloseRow]

TypeOK ==
  /\ transportCsv \subseteq OrderRow
  /\ statusCsv \subseteq StatusRow
  /\ closeCsv \subseteq CloseRow
  /\ halted \in BOOLEAN
  /\ order \in [Payload \X Attempt -> {"none", "open", "filled", "dead"}]
  /\ held \in [Leg -> Int]
  /\ audit \in [on : BOOLEAN, todo : SUBSET OrderRow, rows : SUBSET StatusRow]
  /\ run \in [Proc -> Run]
  /\ moved \in [Proc -> SUBSET Leg]
  /\ haltSince \subseteq Proc

-----------------------------------------------------------------------------
(* What the commands compute                                               *)

\* rows[:limit], everything when the limit is negative.
Sliced(rows, limit) ==
  IF limit < 0 THEN rows
  ELSE {r \in rows : Cardinality({s \in rows : s.at < r.at}) < limit}

First(rows, r) == r \in rows /\ \A s \in rows : r.at <= s.at

\* load_paper_transport_results on a closeout CSV: the orders it submitted.
SubmittedCloses ==
  {[at |-> r.at, payload |-> r.payload, attempt |-> r.attempt] :
     r \in {s \in closeCsv : s.status = "PAPER_CLOSE_SUBMITTED"}}

\* Mutant: any row of the status CSV will do.
AnyStatusRow(rows) == rows

\* filter_filled_order_status_rows without its --payload-id test.
FilledRows(rows) == {r \in rows : r.filled}

Legs(x) == {LongLeg[x], ShortLeg[x]}

\* Both legs are held on the expected side in exactly the expected quantity.
Holds(pos, x) == pos[LongLeg[x]] = Qty[x] /\ pos[ShortLeg[x]] = -Qty[x]

\* Mutant: a failed request counts as an answer.
AnsweredOrNot(p, x) == run[p].seen = "failed" \/ Holds(run[p].positions, x)

\* POSITION_CONFIRMED by audit_one_filled_order on the positions of the run.
Confirmed(p, x) == run[p].seen = "ok" /\ Holds(run[p].positions, x)

\* resolve_close_client_order_attempt: the rows of the payload in the CSV, each
\* row of whatever status, plus one.
NextAttempt(x, explicit) ==
  IF explicit > 0 THEN explicit
  ELSE Cardinality({r \in closeCsv : r.payload = x}) + 1

-----------------------------------------------------------------------------
(* Broker and submit command                                               *)

\* examples/submit_paper_payload_candidates.py places orders and overwrites its
\* results CSV; payloads ordered before come back as rejected duplicates.  Its
\* own steps, the halt check among them, are those of PaperTransport.
OpenOrders ==
  /\ \E new \in SUBSET {x \in Payload : order[<<x, 0>>] = "none"},
        place \in [Payload -> 1..Cardinality(Payload)] :
       /\ \A x, y \in new : place[x] = place[y] => x = y
       /\ transportCsv' =
            {[at |-> place[x], payload |-> x, attempt |-> 0] : x \in new}
       /\ order' = [ref \in DOMAIN order |->
            IF ref[1] \in new /\ ref[2] = 0 THEN "open" ELSE order[ref]]
  /\ UNCHANGED <<statusCsv, closeCsv, halted, held, audit, run, history>>

Trade(x, n) ==
  /\ held' = [held EXCEPT ![LongLeg[x]] = @ + n, ![ShortLeg[x]] = @ - n]
  /\ moved' = [p \in Proc |->
       IF run[p].seen = "ok" THEN moved[p] \cup Legs(x) ELSE moved[p]]

FillOpen(x) ==
  /\ order[<<x, 0>>] = "open"
  /\ order' = [order EXCEPT ![<<x, 0>>] = "filled"]
  /\ Trade(x, Qty[x])
  /\ UNCHANGED <<transportCsv, statusCsv, closeCsv, halted, audit, run, haltSince>>

\* The legs of a closing order are sell_to_close and buy_to_close: it cannot
\* fill beyond what is held.
FillClose(x, n) ==
  /\ order[<<x, n>>] = "open"
  /\ held[LongLeg[x]] >= Qty[x] /\ held[ShortLeg[x]] <= -Qty[x]
  /\ order' = [order EXCEPT ![<<x, n>>] = "filled"]
  /\ Trade(x, -Qty[x])
  /\ UNCHANGED <<transportCsv, statusCsv, closeCsv, halted, audit, run, haltSince>>

\* A day order expires unfilled, or is cancelled.
Expire(x, n) ==
  /\ order[<<x, n>>] = "open"
  /\ order' = [order EXCEPT ![<<x, n>>] = "dead"]
  /\ UNCHANGED <<transportCsv, statusCsv, closeCsv, halted, held, audit, run, history>>

-----------------------------------------------------------------------------
(* Status audit                                                            *)

\* The audit reads the results CSV of the submit or of the close command.
AuditStart ==
  /\ ~audit.on
  /\ \E rows \in {transportCsv, SubmittedCloses}, limit \in Limits :
       /\ Sliced(rows, limit) # {}
       /\ audit' = [on |-> TRUE, todo |-> Sliced(rows, limit), rows |-> {}]
  /\ UNCHANGED <<transportCsv, statusCsv, closeCsv, halted, broker, run, history>>

\* Mutant: an order the broker answers for is taken as filled.
AuditAnswered ==
  /\ audit.on
  /\ \E r \in audit.todo, ok \in BOOLEAN :
       /\ First(audit.todo, r)
       /\ audit' = [audit EXCEPT
            !.todo = @ \ {r},
            !.rows = @ \cup {[at |-> r.at, payload |-> r.payload,
                              attempt |-> r.attempt, filled |-> ok]}]
  /\ UNCHANGED <<transportCsv, statusCsv, closeCsv, halted, broker, run, history>>

\* get_order_by_id answers, or fails and leaves a row with failure reasons.
AuditFetch ==
  /\ audit.on
  /\ \E r \in audit.todo, ok \in BOOLEAN :
       /\ First(audit.todo, r)
       /\ audit' = [audit EXCEPT
            !.todo = @ \ {r},
            !.rows = @ \cup {[at |-> r.at, payload |-> r.payload,
                              attempt |-> r.attempt,
                              filled |-> ok /\ order[<<r.payload, r.attempt>>] = "filled"]}]
  /\ UNCHANGED <<transportCsv, statusCsv, closeCsv, halted, broker, run, history>>

\* The audit rows replace the status CSV; with --no-write, without credentials
\* or when the process is killed they are gone.
AuditEnd ==
  /\ audit.on
  /\ \/ statusCsv' = audit.rows /\ audit.todo = {}
     \/ UNCHANGED statusCsv
  /\ audit' = [on |-> FALSE, todo |-> {}, rows |-> {}]
  /\ UNCHANGED <<transportCsv, closeCsv, halted, broker, run, history>>

-----------------------------------------------------------------------------
(* Close command                                                           *)

IdleRun == [pc |-> "idle", paper |-> FALSE, known |-> [x \in Payload |-> "missing"],
            todo |-> {}, first |-> CHOOSE x \in Payload : TRUE,
            seen |-> "no", positions |-> [l \in Leg |-> 0],
            attempt |-> 0, reply |-> "none", results |-> {}]

Becomes(p, new) == run' = [run EXCEPT ![p] = new]

Exit(p) ==
  /\ Becomes(p, IdleRun)
  /\ moved' = [moved EXCEPT ![p] = {}]
  /\ haltSince' = haltSince \ {p}

\* The rows of one payload (--payload-id) or of all, cut to the limit.
Chosen(only, limit) ==
  Sliced(FilledRows({s \in statusCsv : s.payload \in only}), limit)

CloseStart(p) ==
  /\ run[p].pc = "idle"
  /\ \E only \in {Payload} \cup {{x} : x \in Payload}, limit \in Limits,
        paper \in BOOLEAN, file \in PayloadFiles, r \in statusCsv :
       /\ First(Chosen(only, limit), r)
       /\ Becomes(p, [IdleRun EXCEPT
            !.pc = "row", !.paper = paper, !.known = file,
            !.todo = Chosen(only, limit), !.first = r.payload])
  /\ UNCHANGED <<transportCsv, statusCsv, closeCsv, halted, broker, audit, history>>

\* Row r is done and the run goes on to the next one.
Record(p, r, status, attempt) ==
  Becomes(p, [run[p] EXCEPT
    !.todo = @ \ {r},
    !.pc = IF run[p].todo = {r} THEN "write" ELSE "row",
    !.reply = "none",
    !.attempt = 0,
    !.results = @ \cup {[at |-> r.at, payload |-> r.payload,
                         status |-> status, attempt |-> attempt]}])

Keep == UNCHANGED <<transportCsv, statusCsv, closeCsv, halted, broker, audit>>

\* A payload the payload CSV does not know, or of another structure.
SkipRow(p) ==
  /\ run[p].pc = "row"
  /\ \E r \in run[p].todo :
       /\ First(run[p].todo, r)
       /\ run[p].known[r.payload] \in {"missing", "unsupported"}
       /\ Record(p, r, "PAPER_CLOSE_SKIPPED", 0)
  /\ Keep /\ UNCHANGED history

\* ensure_positions: the positions are asked for once per run.
FetchPositions(p) ==
  /\ run[p].pc = "row"
  /\ run[p].seen = "no"
  /\ \E r \in run[p].todo :
       /\ First(run[p].todo, r)
       /\ run[p].known[r.payload] \in {"sound", "unbuildable"}
  /\ \/ Becomes(p, [run[p] EXCEPT !.seen = "ok", !.positions = held])
     \/ Becomes(p, [run[p] EXCEPT !.seen = "failed"])
  /\ Keep /\ UNCHANGED history

\* Positions not confirmed, no usable price, or a request that does not build.
RowError(p) ==
  /\ run[p].pc = "row"
  /\ run[p].seen # "no"
  /\ \E r \in run[p].todo :
       /\ First(run[p].todo, r)
       /\ run[p].known[r.payload] \in {"sound", "unbuildable"}
       /\ Record(p, r, "PAPER_CLOSE_ERROR", 0)
  /\ Keep /\ UNCHANGED history

\* Fetching quotes for the row is not guarded: an error ends the run.
QuoteRaises(p) ==
  /\ run[p].pc = "row"
  /\ \E r \in run[p].todo : First(run[p].todo, r) /\ Confirmed(p, r.payload)
  /\ Exit(p)
  /\ Keep

\* The request is built with the attempt number the CSV gives now.
Prepare(p) ==
  /\ run[p].pc = "row"
  /\ \E r \in run[p].todo, explicit \in Explicit :
       LET n == NextAttempt(r.payload, explicit) IN
       /\ First(run[p].todo, r)
       /\ run[p].known[r.payload] = "sound"
       /\ Confirmed(p, r.payload)
       /\ n <= MaxAttempt
       /\ IF run[p].paper
          THEN Becomes(p, [run[p] EXCEPT !.pc = "submit", !.attempt = n])
          ELSE Record(p, r, "PAPER_CLOSE_DRY_RUN_READY", 0)
  /\ Keep /\ UNCHANGED history

\* submit_alpaca_paper_close_mleg_order: assert_not_halted raises out of the
\* run, results of earlier rows included.
SubmitHalted(p) ==
  /\ run[p].pc = "submit"
  /\ halted
  /\ Exit(p)
  /\ Keep

\* Mutant: no look at the halt file.
SubmitAnyway(p) ==
  /\ run[p].pc = "submit"
  /\ Becomes(p, [run[p] EXCEPT !.pc = "send"])
  /\ Keep /\ UNCHANGED history

SubmitNotHalted(p) ==
  /\ run[p].pc = "submit"
  /\ ~halted
  /\ Becomes(p, [run[p] EXCEPT !.pc = "send"])
  /\ Keep /\ UNCHANGED history

\* The broker accepts a client order id it has not seen.
BrokerAccepts(p) ==
  /\ run[p].pc = "send"
  /\ \E r \in run[p].todo :
       LET ref == <<r.payload, run[p].attempt>> IN
       /\ First(run[p].todo, r)
       /\ order[ref] = "none"
       /\ order' = [order EXCEPT ![ref] = "open"]
  /\ Becomes(p, [run[p] EXCEPT !.pc = "reply", !.reply = "accepted"])
  /\ UNCHANGED <<transportCsv, statusCsv, closeCsv, halted, held, audit, history>>

BrokerFails(p) ==
  /\ run[p].pc = "send"
  /\ Becomes(p, [run[p] EXCEPT !.pc = "reply", !.reply = "failed"])
  /\ Keep /\ UNCHANGED history

\* Mutant: whatever the request did counts as accepted.
ReceiveAnything(p) ==
  /\ run[p].pc = "reply"
  /\ \E r \in run[p].todo :
       /\ First(run[p].todo, r)
       /\ Record(p, r, "PAPER_CLOSE_SUBMITTED", run[p].attempt)
  /\ Keep /\ UNCHANGED history

\* The reply carries the broker's order id.
ReceiveAccepted(p) ==
  /\ run[p].pc = "reply"
  /\ run[p].reply = "accepted"
  /\ \E r \in run[p].todo :
       /\ First(run[p].todo, r)
       /\ Record(p, r, "PAPER_CLOSE_SUBMITTED", run[p].attempt)
  /\ Keep /\ UNCHANGED history

\* Every exception is a rejection, a reply that was lost included.
ReceiveError(p) ==
  /\ run[p].pc = "reply"
  /\ \E r \in run[p].todo :
       First(run[p].todo, r) /\ Record(p, r, "PAPER_CLOSE_REJECTED", 0)
  /\ Keep /\ UNCHANGED history

\* --print-request-json builds the first row's request again, unguarded, before
\* the results are written.
PrintRaises(p) ==
  /\ run[p].pc = "write"
  /\ run[p].known[run[p].first] \in {"unsupported", "unbuildable"}
  /\ Exit(p)
  /\ Keep

\* The results replace the results CSV, unless --no-write is given.
Finish(p) ==
  /\ run[p].pc = "write"
  /\ closeCsv' \in {run[p].results, closeCsv}
  /\ Exit(p)
  /\ UNCHANGED <<transportCsv, statusCsv, halted, broker, audit>>

\* No credentials, or the process is killed.
Stop(p) ==
  /\ run[p].pc # "idle"
  /\ Exit(p)
  /\ Keep

\* touch data/.execution_halt
Halt ==
  /\ ~halted
  /\ halted' = TRUE
  /\ haltSince' = {p \in Proc : run[p].pc = "send"}
  /\ UNCHANGED <<transportCsv, statusCsv, closeCsv, broker, audit, run, moved>>

\* rm data/.execution_halt
Resume ==
  /\ halted
  /\ halted' = FALSE
  /\ haltSince' = {}
  /\ UNCHANGED <<transportCsv, statusCsv, closeCsv, broker, audit, run, moved>>

-----------------------------------------------------------------------------
Init ==
  /\ transportCsv = {} /\ statusCsv = {} /\ closeCsv = {}
  /\ halted = FALSE
  /\ order = [ref \in Payload \X Attempt |-> "none"]
  /\ held = [l \in Leg |-> 0]
  /\ audit = [on |-> FALSE, todo |-> {}, rows |-> {}]
  /\ run = [p \in Proc |-> IdleRun]
  /\ moved = [p \in Proc |-> {}]
  /\ haltSince = {}

CloseStep(p) ==
  \/ SkipRow(p) \/ FetchPositions(p) \/ RowError(p) \/ QuoteRaises(p)
  \/ Prepare(p) \/ SubmitHalted(p) \/ SubmitNotHalted(p)
  \/ BrokerAccepts(p) \/ BrokerFails(p)
  \/ ReceiveAccepted(p) \/ ReceiveError(p) \/ PrintRaises(p) \/ Finish(p)

Next ==
  \/ OpenOrders
  \/ \E x \in Payload : FillOpen(x)
  \/ \E x \in Payload, n \in Attempt \ {0} : FillClose(x, n)
  \/ \E x \in Payload, n \in Attempt : Expire(x, n)
  \/ AuditStart \/ AuditFetch \/ AuditEnd
  \/ \E p \in Proc : CloseStart(p) \/ CloseStep(p) \/ Stop(p)
  \/ Halt \/ Resume

Spec == Init /\ [][Next]_vars

-----------------------------------------------------------------------------
(* What the commands must guarantee                                        *)

\* A closing order exists only for a payload whose opening order the broker has
\* filled, although the row the run acts on may come from an old audit, or from
\* the audit of an earlier closing order, and positions do not name payloads.
ClosesFollowFills ==
  \A x \in Payload, n \in Attempt \ {0} :
    order[<<x, n>>] # "none" => order[<<x, 0>>] = "filled"

\* A row of the status CSV that says filled names an order the broker filled,
\* however old the CSV is.
FilledRowsReal ==
  \A r \in statusCsv : r.filled => order[<<r.payload, r.attempt>>] = "filled"

\* A closing order goes out only while both legs are held in exactly the
\* payload's quantity, unless one of its legs was traded after the run looked.
CloseWindow ==
  [][\A p \in Proc, x \in Payload, n \in Attempt \ {0} :
       /\ order[<<x, n>>] = "none" /\ order'[<<x, n>>] # "none"
       /\ run'[p] # run[p]
       => Holds(held, x) \/ moved[p] \cap Legs(x) # {}]_vars

\* Once the halt file exists, only a request already past its own halt check is
\* still accepted.
CloseHaltWindow ==
  [][\A p \in Proc :
       run[p].pc = "send" /\ order' # order /\ run'[p] # run[p]
       => ~halted \/ p \in haltSince]_vars

\* A row reported PAPER_CLOSE_SUBMITTED, in the CSV or in a run's memory, stands
\* for a closing order of that payload the broker has accepted.
SubmittedClosesReal ==
  \A r \in closeCsv \cup UNION {run[p].results : p \in Proc} :
    r.status = "PAPER_CLOSE_SUBMITTED" =>
      r.attempt # 0 /\ order[<<r.payload, r.attempt>>] # "none"

=============================================================================
