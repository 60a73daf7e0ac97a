---------------------------- MODULE ExpressionLoop ----------------------------
(***************************************************************************)
(* What a morning run does with its candidate rows, and what the operator  *)
(* may do with the result.                                                 *)
(*                                                                         *)
(* pipeline/alpaca_hydration_loop.py queries option quotes for the symbols *)
(* of the rows, ranks the spreads they allow under each row's dealer tier, *)
(* writes the expressions CSV and labels the row.  risk/guard_runner.py    *)
(* audits the labelled rows, or a table of spread candidates.              *)
(* advisory/expression_frontier.py compares the primaries with the other   *)
(* spreads.  risk/watch_promotion_review.py lets operators approve a WATCH *)
(* expression, each in a process of its own: a review is appended to its   *)
(* CSV by reading the file, adding a row and writing it back.              *)
(*                                                                         *)
(* A generated spread is a record of the OCC pair `id', prices in cents;   *)
(* its probability and its verdict by the PMP table (`gate') are those of  *)
(* SpreadGates.  One run, one trade date.                                  *)
(***************************************************************************)
EXTENDS DealerTier, Sequences, FiniteSets

CONSTANTS
  Boards,      \* candidate tables the pipeline may hand over
  Chains,      \* sequences of spreads the quotes of all symbols would allow
  MaxSymbols,  \* symbols queried in one run, 50 in the code
  RiskCap,     \* DEFAULT_MAX_RISK_PER_CANDIDATE
  Tables,      \* spread tables the guard may be given instead
  Manual,      \* manual_frontier_expressions.json: symbol and id of spreads
  Operators,   \* concurrent runs of scripts/review_watch_expression.py
  MaxReviews   \* bound: rows of watch_promotion_review.csv

Context == {"CONTEXT_PASS", "CONTEXT_INCOMPLETE"}

ASSUME BoundsAssumption ==
  MaxSymbols \in Nat \ {0} /\ RiskCap \in Int /\ MaxReviews \in Nat

ASSUME BoardsAssumption ==
  \A board \in Boards :
    /\ Len(board) \in Nat /\ DOMAIN board = 1..Len(board)
    /\ \A k \in DOMAIN board : board[k].context \in Context

\* The pair of OCC symbols identifies a generated spread.
ASSUME ChainsAssumption ==
  \A chain \in Chains :
    /\ Len(chain) \in Nat /\ DOMAIN chain = 1..Len(chain)
    /\ \A i \in DOMAIN chain :
         /\ {chain[i].width, chain[i].debit, chain[i].profit, chain[i].loss} \subseteq Int
         /\ chain[i].pmp \in Int \cup {None}
         /\ \A j \in DOMAIN chain : chain[j].id = chain[i].id => chain[j] = chain[i]

VARIABLES
  board,        \* the labelled candidate rows of the run
  stage,        \* how far the run is
  marks,        \* the loop columns hydration adds to each row
  expressions,  \* the expressions CSV, as a set; {} before it is written
  audit,        \* the risk audit, one entry per row
  flagged,      \* symbols the frontier challenges in the advisory
  reviews,      \* watch_promotion_review.csv
  copy,         \* what a reviewer has read and is about to write back
  draft         \* the review a reviewer is about to append, or None

run == <<board, stage, marks, expressions, audit, flagged>>
vars == <<run, reviews, copy, draft>>

-----------------------------------------------------------------------------
(* Ranking the spreads of one row                                          *)

\* _core_expression_viable
Viable(e) == e.width > 0 /\ e.debit > 0 /\ e.pmp # None /\ e.profit > 0 /\ e.loss > 0

TierFor(e, r) == Tier(DealerWeightedScore(e, r))

\* _rank_key; liquidity and bid_ask_quality follow the verdict of the PMP table
\* once a spread is viable, and the efficiency is in permille.
RankKey(e, r) ==
  <<One(PassesTier(e, TierFor(e, r))), DealerWeightedScore(e, r), -e.pmp,
    -((1000 * (e.width - e.debit)) \div e.width), One(e.gate),
    WallProximityScore(e.short, WallOf(e.structure, r)), -e.loss>>

\* Tuples compare by the first place they differ in.
Exceeds(a, b) ==
  \E n \in DOMAIN a : a[n] > b[n] /\ \A m \in 1..(n - 1) : a[m] = b[m]

\* The sort is stable: equal keys keep the order of generation.
Before(chain, i, j, r) ==
  \/ Exceeds(RankKey(chain[i], r), RankKey(chain[j], r))
  \/ RankKey(chain[i], r) = RankKey(chain[j], r) /\ i < j

OfSymbol(chain, s) == {i \in DOMAIN chain : chain[i].symbol = s}

SelectionRank(chain, i, r) ==
  LET mine == OfSymbol(chain, r.symbol)
      viable == {j \in mine : Viable(chain[j])}
  IN IF i \in viable
     THEN 1 + Cardinality({j \in viable : Before(chain, j, i, r)})
     ELSE 1 + Cardinality(viable) + Cardinality({j \in mine \ viable : j < i})

\* Mutant: the first rank is the primary whether or not it passes its tier.
FirstIsPrimary(viable, rank, passes) ==
  CASE ~viable -> "FAILED_EXPRESSION"
    [] viable /\ rank = 1 -> "PRIMARY"
    [] OTHER -> IF passes THEN "ALTERNATE" ELSE "WATCH"

\* _label_expression_status
ExpressionStatus(viable, rank, passes) ==
  CASE ~viable -> "FAILED_EXPRESSION"
    [] viable /\ passes -> IF rank = 1 THEN "PRIMARY" ELSE "ALTERNATE"
    [] OTHER -> "WATCH"

\* One row of the expressions CSV: spread i of the chain under candidate row k.
Expression(b, chain, k, i) ==
  LET e == chain[i]
      passes == Viable(e) /\ PassesTier(e, TierFor(e, b[k]))
      rank == SelectionRank(chain, i, b[k])
  IN [row |-> k, spread |-> e, tier |-> TierFor(e, b[k]), rank |-> rank,
      status |-> ExpressionStatus(Viable(e), rank, passes)]

\* _symbol_specs_from_candidates: the first MaxSymbols symbols of the table.
Queried(b) ==
  {b[k].symbol : k \in {n \in DOMAIN b :
     Cardinality({b[m].symbol : m \in 1..n}) <= MaxSymbols}}

\* Quotes are fetched, and spreads generated, for the symbols that were queried.
Fetched(b, chain) == {i \in DOMAIN chain : chain[i].symbol \in Queried(b)}

Expressions(b, chain) ==
  {Expression(b, chain, u[1], u[2]) :
     u \in {v \in (DOMAIN b) \X Fetched(b, chain) : chain[v[2]].symbol = b[v[1]].symbol}}

-----------------------------------------------------------------------------
(* Labelling the rows                                                      *)

\* `gap' is data_gap_reason, "" where there is none.
Mark(loop, hydration, primary, watch, gap) ==
  [loop |-> loop, hydration |-> hydration, primary |-> primary, watch |-> watch,
   gap |-> gap]

Pending == Mark("HYDRATION_PENDING", "REQUERY_REQUIRED", None, None, "")

Least(S) == CHOOSE x \in S : \A y \in S : x.rank <= y.rank

Having(mine, status) == {x \in mine : x.status = status}

\* _pick_primary_from_records and the labels that follow it; every alternate
\* ranks below the primary.
MarkFor(mine) ==
  LET primaries == Having(mine, "PRIMARY")
      watches == Having(mine, "WATCH")
  IN CASE primaries # {} ->
            Mark(IF Having(mine, "ALTERNATE") # {} THEN "ALTERNATES_AVAILABLE"
                 ELSE "PRIMARY_EXPRESSION_SELECTED",
                 "HYDRATED", Least(primaries).spread.id, None, "")
       [] primaries = {} /\ watches # {} ->
            Mark("WATCH_EXPRESSION_AVAILABLE", "PARTIAL_HYDRATION", None,
                 Least(watches).spread.id, "")
       [] OTHER -> Mark("NO_VIABLE_EXPRESSION", "NO_VIABLE_EXPRESSION", None, None,
                        "no_viable_expression_after_search")

Everywhere(mark) == [k \in DOMAIN board |-> mark]

\* What keeps hydration from asking: preflight_hydration_auth refuses an unsafe
\* flag of the environment, or try_create_option_client makes no client.
ClientGaps == {"preflight_error", "credential_error", "import_error", "client_error"}

\* The expressions CSV is not written.  An empty table is not looked at at all.
HydrateWithoutClient ==
  /\ stage = "labelled"
  /\ \E gap \in ClientGaps :
       marks' = Everywhere(Mark("PARKED_DATA_GAP", "PARKED_DATA_GAP", None, None, gap))
  /\ stage' = "hydrated"
  /\ UNCHANGED <<board, expressions, audit, flagged, reviews, copy, draft>>

\* The chains were asked for and no quote came back.
HydrateWithoutQuotes ==
  /\ stage = "labelled"
  /\ marks' = Everywhere(Mark("PARKED_DATA_GAP", "NO_CHAIN_AVAILABLE", None, None,
                              "alpaca_quote_hydration_incomplete"))
  /\ stage' = "hydrated"
  /\ UNCHANGED <<board, expressions, audit, flagged, reviews, copy, draft>>

Hydrate ==
  /\ stage = "labelled" /\ board # <<>>
  /\ \E chain \in Chains :
       LET found == Expressions(board, chain) IN
       /\ expressions' = found
       /\ marks' = [k \in DOMAIN board |-> MarkFor({x \in found : x.row = k})]
  /\ stage' = "hydrated"
  /\ UNCHANGED <<board, audit, flagged, reviews, copy, draft>>

-----------------------------------------------------------------------------
(* The risk guard                                                          *)

Selected == {"PRIMARY_EXPRESSION_SELECTED", "ALTERNATES_AVAILABLE",
             "WATCH_EXPRESSION_AVAILABLE"}

\* Mutant: the label of the loop is read before the gate of the context.
LabelFirst(r, mark) ==
  CASE mark.loop \in Selected -> mark.loop
    [] mark.loop \notin Selected /\ r.context = "CONTEXT_INCOMPLETE" ->
         "CONTEXT_INCOMPLETE"
    [] OTHER -> mark.loop

\* _classify_replay_candidate.  A hydrated row still has no credit and no EV, so
\* its spread contract always has gaps and the label of the loop decides.
Classification(r, mark) ==
  CASE r.context = "CONTEXT_INCOMPLETE" -> "CONTEXT_INCOMPLETE"
    [] OTHER -> mark.loop

AuditReplay ==
  /\ stage = "hydrated"
  /\ audit' = [k \in DOMAIN board |->
                 [symbol |-> board[k].symbol,
                  class |-> Classification(board[k], marks[k])]]
  /\ stage' = "audited"
  /\ UNCHANGED <<board, marks, expressions, flagged, reviews, copy, draft>>

\* _map_approval_failure_to_classification tries these in order.
FailureClass(failures) ==
  CASE failures \cap {"insufficient_reward_risk_for_pmp",
                      "spread_math_gate_failed"} # {} -> "REJECTED_RR"
    [] /\ failures \cap {"insufficient_reward_risk_for_pmp",
                         "spread_math_gate_failed"} = {}
       /\ failures \cap {"pmp_outside_policy_table", "ev_gate_not_pass",
                         "probability_gate_not_pass"} # {} -> "REJECTED_PMP"
    [] OTHER -> "REJECTED_POLICY"

\* _audit_spread_candidates
SpreadClass(failures) ==
  CASE failures = {} -> "APPROVED_PAPER"
    [] failures # {} /\ "missing_pmp" \in failures -> "REJECTED_MISSING_FIELDS"
    [] OTHER -> FailureClass(failures)

-----------------------------------------------------------------------------
(* The expression frontier                                                 *)

Payoff(e) == e.pmp * e.profit - (100 - e.pmp) * e.loss

\* The spread a symbol's frontier starts from: its first PRIMARY, or its first
\* row.  An expression of an earlier row, or of a better rank, comes first.
Earlier(x, y) == x.row < y.row \/ (x.row = y.row /\ x.rank <= y.rank)

Base(mine) ==
  LET primaries == Having(mine, "PRIMARY")
      pool == IF primaries # {} THEN primaries ELSE mine
  IN (CHOOSE x \in pool : \A y \in pool : Earlier(x, y)).spread

\* Mutant: only twice the reward/risk is a reason.
OutdoesByRatio(e, base) == e.profit * base.loss >= 2 * base.profit * e.loss

\* The reasons of _build_symbol_summary that compare two spreads: twice the
\* reward/risk, a quarter more profit for similar risk, a better payoff, or more
\* width.
Outdoes(e, base) ==
  \/ e.profit * base.loss >= 2 * base.profit * e.loss
  \/ 4 * e.profit > 5 * base.profit /\ 10 * e.loss <= 11 * base.loss
  \/ Payoff(e) > Payoff(base)
  \/ e.width > base.width

Competing(found) == {x \in found : x.status \in {"PRIMARY", "ALTERNATE", "WATCH"}}

\* build_expression_frontier
Challenged(found) ==
  {s \in {x.spread.symbol : x \in Competing(found)} :
     LET mine == {x \in Competing(found) : x.spread.symbol = s}
         base == Base(mine)
     IN \/ \E x \in mine : x.spread.id # base.id /\ Outdoes(x.spread, base)
        \/ \E m \in Manual : m.symbol = s /\ \A x \in Competing(found) : x.spread.id # m.id}

\* apply_frontier_paper_gate_to_audit
FrontierGate(entry, found) ==
  IF entry.class = "APPROVED_PAPER" /\ entry.symbol \in Challenged(found)
  THEN [entry EXCEPT !.class = "PAPER_GATE_WITHHELD"]
  ELSE entry

SpreadAudit(table, found) ==
  [k \in DOMAIN table |->
     FrontierGate([symbol |-> table[k].symbol, class |-> SpreadClass(table[k].failures)],
                  found)]

\* run_risk_guard on a table of spread candidates: with the expressions CSV, or
\* without it.  build_macro_paper_gate withholds nothing.
AuditSpreads ==
  /\ stage = "hydrated"
  /\ \E table \in Tables :
       \/ audit' = SpreadAudit(table, expressions) /\ stage' = "compared"
       \/ audit' = SpreadAudit(table, {}) /\ stage' = "not_compared"
  /\ UNCHANGED <<board, marks, expressions, flagged, reviews, copy, draft>>

\* The advisory of the run.
Advise ==
  /\ stage = "audited"
  /\ flagged' = Challenged(expressions)
  /\ stage' = "advised"
  /\ UNCHANGED <<board, marks, expressions, audit, reviews, copy, draft>>

\* The buckets of summarize_risk_audit.
Bucket(class) ==
  CASE class = "APPROVED_PAPER" -> "approved"
    [] class = "PAPER_GATE_WITHHELD" -> "withheld"
    [] class \in Selected \cup {"PARKED_DATA_GAP", "HYDRATION_PENDING",
                                "NO_VIABLE_EXPRESSION"} -> "parked"
    [] class \in {"REJECTED_MISSING_FIELDS", "CONTEXT_INCOMPLETE", "REJECTED_RR",
                  "REJECTED_PMP", "REJECTED_POLICY"} -> "rejected"
    [] OTHER -> "unaccounted"

-----------------------------------------------------------------------------
(* Reviews of WATCH expressions                                            *)

\* load_expression_for_review takes the first row of that id, and
\* _candidate_row_for_expression the first candidate of its symbol: the same row.
FirstOf(id) ==
  LET hits == {x \in expressions : x.spread.id = id}
  IN CHOOSE x \in hits : \A y \in hits : x.row <= y.row

Reason(condition, name) == IF condition THEN {name} ELSE {}

\* Mutant: the tier is not looked at.
BlocksWithoutTier(x, r, reasoned, mutated) ==
  Reason(x.status # "WATCH", "not_watch_expression")
  \cup Reason(~reasoned, "missing_operator_reason")
  \cup Reason(mutated, "broker_mutation_at_review")

\* The block reasons of evaluate_watch_promotion: reward/risk may miss its tier
\* by 0.10 and PMP by 3 points.
BlockReasons(x, r, reasoned, mutated) ==
  LET e == x.spread IN
  Reason(x.status # "WATCH", "not_watch_expression")
  \cup Reason(~reasoned, "missing_operator_reason")
  \cup Reason(mutated, "broker_mutation_at_review")
  \cup Reason(r.price = None \/ r.price <= 0, "missing_current_price")
  \cup Reason(r.callWall = None /\ r.putWall = None, "missing_call_or_put_wall")
  \cup Reason(r.profile = "reverse_vrp" /\ r.vrp = None, "missing_one_month_iv_or_rv")
  \cup Reason(x.tier \notin {"C", "D"}, "dealer_gate_tier_not_c_or_d")
  \cup Reason(e.loss <= 0, "invalid_max_loss")
  \cup Reason(e.loss > 0 /\ 100 * e.profit < (RrDealerRequired[x.tier] - 10) * e.loss,
              "rr_below_tier_tolerance")
  \cup Reason(e.pmp = None, "missing_pmp_fields")
  \cup Reason(e.pmp # None /\ e.pmp > PmpDealerMax[x.tier] + 3,
              "pmp_above_tier_tolerance")

\* The loop writes no quote age, so no review is told to requote.
PromotionStatus(x, r, decision, reasoned, manifest) ==
  LET blocks == BlockReasons(x, r, reasoned, manifest.mutated)
      capped == x.spread.loss > 0 /\ x.spread.loss > RiskCap
  IN CASE manifest.live -> "BLOCKED_LIVE_MODE"
       [] ~manifest.live /\ capped -> "BLOCKED_RISK_CAP"
       [] ~manifest.live /\ ~capped /\ decision = "reject" -> "WATCH_OPERATOR_REJECTED"
       [] /\ ~manifest.live /\ ~capped /\ decision = "approve"
          /\ blocks = {} -> "WATCH_OPERATOR_APPROVED"
       [] OTHER -> IF reasoned THEN "BLOCKED" ELSE "BLOCKED_MISSING_REASON"

\* run_watch_promotion_review up to the read of the CSV it appends to.  A run
\* whose expressions CSV was never written has nothing to review.  An approved
\* review is the one routed to PAPER_REVIEW_READY.
Review(op) ==
  /\ stage \in {"hydrated", "audited", "advised"}
  /\ draft[op] = None
  /\ \E x \in expressions, decision \in {"approve", "reject"}, reasoned \in BOOLEAN,
        manifest \in [live : BOOLEAN, mutated : BOOLEAN] :
       LET first == FirstOf(x.spread.id)
           status == PromotionStatus(first, board[first.row], decision, reasoned, manifest)
       IN draft' = [draft EXCEPT ![op] = [id |-> first.spread.id, status |-> status]]
  /\ copy' = [copy EXCEPT ![op] = reviews]
  /\ UNCHANGED <<run, reviews>>

\* The rest of append_watch_promotion_review.
Store(op) ==
  /\ draft[op] # None /\ Len(copy[op]) < MaxReviews
  /\ reviews' = Append(copy[op], draft[op])
  /\ draft' = [draft EXCEPT ![op] = None]
  /\ copy' = [copy EXCEPT ![op] = <<>>]
  /\ UNCHANGED run

\* --dry-run, the default, evaluates and writes nothing.
DryRun(op) ==
  /\ draft[op] # None
  /\ draft' = [draft EXCEPT ![op] = None]
  /\ copy' = [copy EXCEPT ![op] = <<>>]
  /\ UNCHANGED <<run, reviews>>

-----------------------------------------------------------------------------
Init ==
  /\ board \in Boards
  /\ stage = "labelled"
  /\ marks = [k \in DOMAIN board |-> Pending]
  /\ expressions = {} /\ audit = <<>> /\ flagged = {}
  /\ reviews = <<>>
  /\ copy = [op \in Operators |-> <<>>]
  /\ draft = [op \in Operators |-> None]

Pipeline ==
  \/ HydrateWithoutClient \/ HydrateWithoutQuotes \/ Hydrate
  \/ AuditReplay \/ AuditSpreads \/ Advise

Next == Pipeline \/ \E op \in Operators : Review(op) \/ Store(op) \/ DryRun(op)

Spec == Init /\ [][Next]_vars
-----------------------------------------------------------------------------
(* What a run and its reviews must guarantee                               *)

Contents(seq) == {seq[n] : n \in DOMAIN seq}

Status == {"PRIMARY", "ALTERNATE", "WATCH", "FAILED_EXPRESSION"}

Promotion == {"BLOCKED_LIVE_MODE", "BLOCKED_RISK_CAP", "WATCH_OPERATOR_REJECTED",
              "WATCH_OPERATOR_APPROVED", "BLOCKED", "BLOCKED_MISSING_REASON"}

Classes ==
  Selected \cup {"PARKED_DATA_GAP", "HYDRATION_PENDING", "NO_VIABLE_EXPRESSION",
                 "CONTEXT_INCOMPLETE", "APPROVED_PAPER", "PAPER_GATE_WITHHELD",
                 "REJECTED_MISSING_FIELDS", "REJECTED_RR", "REJECTED_PMP",
                 "REJECTED_POLICY"}

TypeOK ==
  /\ board \in Boards
  /\ stage \in {"labelled", "hydrated", "audited", "compared", "not_compared", "advised"}
  /\ DOMAIN marks = DOMAIN board
  /\ \A x \in expressions :
       /\ x.row \in DOMAIN board /\ x.status \in Status
       /\ x.tier \in {"A", "B", "C", "D", "E"}
  /\ \A k \in DOMAIN audit : audit[k].class \in Classes
  /\ \A op \in Operators : draft[op] # None => draft[op].status \in Promotion
  /\ \A n \in DOMAIN reviews : reviews[n].status \in Promotion

\* The primary a row names passes the tier of that row, and no spread of the row
\* that passes has a better dealer score: the ranking, the labels and the pick of
\* hydration are three passes over the records, and only together select it.
PrimaryIsBestPassing ==
  \A k \in DOMAIN marks : marks[k].primary # None =>
    \E x \in expressions :
      /\ x.row = k /\ x.spread.id = marks[k].primary
      /\ PassesTier(x.spread, x.tier)
      /\ \A y \in expressions :
           y.row = k /\ Viable(y.spread) /\ PassesTier(y.spread, y.tier) =>
             DealerWeightedScore(y.spread, board[k]) <= DealerWeightedScore(x.spread, board[k])

\* A row is given a watch expression, or none, only when no spread of the row
\* passes, and none only when no spread is viable: what was searched and usable
\* is never parked.
NothingUsableIsParked ==
  \A k \in DOMAIN marks : expressions # {} =>
    LET mine == {x \in expressions : x.row = k} IN
    /\ marks[k].watch # None =>
         \A x \in mine : ~(Viable(x.spread) /\ PassesTier(x.spread, x.tier))
    /\ marks[k].loop = "NO_VIABLE_EXPRESSION" => \A x \in mine : ~Viable(x.spread)

\* What hydration says of a row is what its ranked spreads say.
MarksFollowTheRanking == PrimaryIsBestPassing /\ NothingUsableIsParked

\* The audit presents a row as selected only if its context is complete and the
\* expressions CSV holds the spread it was selected for; hydration searches rows
\* of incomplete context too, and labels them alike.
AuditNeedsContextAndSpread ==
  stage \in {"audited", "advised"} =>
    \A k \in DOMAIN audit : audit[k].class \in Selected =>
      /\ board[k].context = "CONTEXT_PASS"
      /\ \E x \in expressions :
           /\ x.row = k /\ Viable(x.spread)
           /\ x.spread.id \in {marks[k].primary, marks[k].watch}

\* Each row of any audit falls into one bucket of the summary the advisory prints,
\* so that its counts add up to the number of rows.
AuditIsAccountedFor ==
  \A k \in DOMAIN audit : Bucket(audit[k].class) # "unaccounted"

\* The audit a brief is written from says no more than the run found, and counts it all.
AuditIsFounded == AuditNeedsContextAndSpread /\ AuditIsAccountedFor

\* An approval that outlives the comparison with the expressions CSV is of a symbol
\* one of whose primaries is rivalled by no spread found for it, be the symbol on one
\* row or on several, each with a primary of its own.
ApprovedIsUnrivalled ==
  stage = "compared" =>
    \A k \in DOMAIN audit : audit[k].class = "APPROVED_PAPER" =>
      LET mine == {x \in Competing(expressions) : x.spread.symbol = audit[k].symbol}
      IN Having(mine, "PRIMARY") # {} =>
           \E x \in Having(mine, "PRIMARY") : \A y \in mine :
             /\ Payoff(y.spread) <= Payoff(x.spread)
             /\ y.spread.width <= x.spread.width

\* A review makes an expression ready for paper review only if hydration found it
\* viable and its own tier, C or D, refused it by no more than the tolerances: the
\* status, the tier and the economics were written by two earlier stages, and the
\* symbol may have several rows that list the same spread.
ReadyReviewsAreSound ==
  \A review \in {draft[op] : op \in Operators} \cup Contents(reviews) : review # None =>
    (review.status = "WATCH_OPERATOR_APPROVED" =>
      LET x == FirstOf(review.id)
          e == x.spread
      IN /\ Viable(e) /\ ~PassesTier(e, x.tier) /\ x.tier \in {"C", "D"}
         /\ e.loss <= RiskCap
         /\ e.pmp <= PmpDealerMax[x.tier] + 3
         /\ 100 * e.profit >= (RrDealerRequired[x.tier] - 10) * e.loss)
=============================================================================
