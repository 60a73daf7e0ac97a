----------------------------- MODULE RunAdvisory -----------------------------
(***************************************************************************)
(* What a morning run tells the operator, while its inputs keep arriving.  *)
(*                                                                         *)
(* advisory/run_advisory.py puts the run of ExpressionLoop together with   *)
(* the AM note of the session (advisory/am_note_gate.py), the vendor notes *)
(* parsed into private/parsed (advisory/private_context_builder.py), the   *)
(* SPY rows of the context CSV (am_note_gate.py and dealer_structure.py)   *)
(* and the flow sheets of an upgraded morning_regime workbook              *)
(* (ingest/morning_regime_upgrade.py), and stores the result as JSON.      *)
(* scripts/operator_status.py --readiness shows the stored advisory with   *)
(* the lanes of the private notes as they are by then                      *)
(* (advisory/run_readiness.py).                                            *)
(*                                                                         *)
(* Meanwhile notes are dropped and the PDF parser writes its JSON, a write *)
(* that a reader can see half done (`torn').  A run never reads what an    *)
(* earlier run has computed, so one run is modelled; its reviews are left  *)
(* to ExpressionLoop.                                                      *)
(*                                                                         *)
(* An AM note is a record of its kind, whether it is `broken' (an empty    *)
(* CSV, a workbook cut short, JSON that does not parse), whether the       *)
(* fields or the Founder's prose are `complete', whether its own date is   *)
(* `old', and its flow `sheets'.  A private note is the set of fields it   *)
(* has, with the two marks of its parser.  Prices are in cents, gamma      *)
(* ratios in hundredths.                                                   *)
(***************************************************************************)
EXTENDS ExpressionLoop

CONSTANTS
  NoteSets,     \* sequences of AM notes, in the order they are discovered
  Overrides,    \* contents of <run_id>_macro_context_override.json
  PrivateNotes, \* parsed notes, by the source that has them
  SpyTables,    \* SPY rows a context CSV may have
  MaxChanges    \* bound: notes, overrides and parsed notes that arrive or go

Sources == {"macro_note", "flow_report"}

LaneNames == {"macro_context", "flow_context", "skew_context", "vol_context",
              "index_levels_context"}

ASSUME ChangesAssumption == MaxChanges \in Nat

ASSUME NotesAssumption ==
  \A found \in NoteSets : Len(found) \in Nat /\ DOMAIN found = 1..Len(found)

ASSUME SpyAssumption ==
  \A rows \in SpyTables :
    /\ Len(rows) \in Nat /\ DOMAIN rows = 1..Len(rows)
    /\ \A n \in DOMAIN rows : {rows[n].date, rows[n].gamma} \subseteq Int \cup {None}

VARIABLES
  notes,     \* AM notes among the staged files and in staging
  override,  \* the override file of this run, or None
  private,   \* private/parsed, by source; None is no file
  torn,      \* sources whose JSON is being written
  spy,       \* SPY rows of the context CSV
  raised,    \* an exception has ended the run
  advisory,  \* <run_id>_run_advisory.json, or None
  changes    \* arrivals so far

inputs == <<notes, override, private, torn, changes>>
advisoryVars == <<vars, inputs, spy, raised, advisory>>

-----------------------------------------------------------------------------
(* The AM note                                                             *)

\* JSON that does not parse is skipped; pandas raises on the other two.
Raises(note) == note.broken /\ note.kind # "json"

\* Notes after which resolve_macro_context_resolution looks no further.
Decides(note) == Raises(note) \/ (~note.broken /\ note.complete)

FirstWhere(S, Test(_)) ==
  LET hits == {n \in DOMAIN S : Test(S[n])}
  IN IF hits = {} THEN None ELSE S[CHOOSE n \in hits : \A m \in hits : n <= m]

\* Structured sidecars come before workbooks.
Decider(found) ==
  LET sidecar == FirstWhere(found, LAMBDA note : note.kind # "book" /\ Decides(note))
      book == FirstWhere(found, LAMBDA note : note.kind = "book" /\ Decides(note))
  IN IF sidecar # None THEN sidecar ELSE book

Overridden(file) == file # None /\ file.status

\* build_macro_paper_gate: every caller of it raises.
GateRaises ==
  /\ ~Overridden(override)
  /\ Decider(notes) # None /\ Raises(Decider(notes))

\* am_note_status and the status of the audit; a CSV has no date of its own.
Resolution(found, file) ==
  LET note == Decider(found) IN
  CASE Overridden(file) -> [am |-> "MANUAL_OVERRIDE", audit |-> "MANUAL_CONTEXT_OVERRIDE"]
    [] ~Overridden(file) /\ note = None ->
         IF found = <<>>
         THEN [am |-> "NOT_AVAILABLE", audit |-> "MACRO_CONTEXT_MISSING_NON_BLOCKING"]
         ELSE [am |-> "AVAILABLE_NOT_PARSED",
               audit |-> "MACRO_CONTEXT_UNPARSED_NON_BLOCKING"]
    [] OTHER ->
         IF note.kind = "book"
         THEN [am |-> "PARSED", audit |-> "MACRO_CONTEXT_READY_LOW_CONFIDENCE"]
         ELSE IF note.kind = "json" /\ note.old
         THEN [am |-> "STALE", audit |-> "MACRO_CONTEXT_READY_LOW_CONFIDENCE"]
         ELSE [am |-> "PARSED", audit |-> "MACRO_CONTEXT_READY"]

\* resolve_macro_context_state: an override may set the state and not the status.
MacroState(am, file) ==
  CASE (file # None /\ file.state) \/ am = "MANUAL_OVERRIDE" -> "MANUAL_CONTEXT_OVERRIDE"
    [] ~(file # None /\ file.state) /\ am = "STALE" -> "AM_NOTE_STALE_REVIEW_REQUIRED"
    [] ~(file # None /\ file.state) /\ am = "PARSED" -> "AM_NOTE_CONTEXT_READY"
    [] OTHER -> "PRE_AM_NOTE_CONTEXT_INCOMPLETE"

-----------------------------------------------------------------------------
(* The private lanes                                                       *)

\* _load_private_json
Loaded(source) == IF source \in torn THEN None ELSE private[source]

Required(lane) ==
  CASE lane = "macro_context" -> {"theme", "summary"}
    [] lane = "flow_context" -> {"bullets", "symbols"}
    [] lane = "skew_context" -> {"skew", "risk_reversal"}
    [] lane = "vol_context" -> {"trigger", "move"}
    [] OTHER -> {"call_wall", "put_wall", "zero_gamma"}

\* Fields that make a note partial where none of the required ones is there.
Alternate == {"call_wall", "put_wall", "zero_gamma", "trigger", "date"}

SourceOf(lane) == IF lane = "flow_context" THEN "flow_report" ELSE "macro_note"

\* _lane_status
LaneStatus(note, required) ==
  CASE note = None -> "MISSING_NON_BLOCKING"
    [] note # None /\ note.review -> "PARSE_FAILED_NON_BLOCKING"
    [] OTHER ->
         IF required \subseteq note.has
         THEN IF note.unsure THEN "READY_LOW_CONFIDENCE" ELSE "READY"
         ELSE IF (required \cup Alternate) \cap note.has # {} THEN "PARTIAL"
         ELSE "PARSE_FAILED_NON_BLOCKING"

\* load_sanitized_private_context
Lanes == [lane \in LaneNames |-> LaneStatus(Loaded(SourceOf(lane)), Required(lane))]

Present(lane) == Loaded(SourceOf(lane)) # None

\* Mutant: the AM note is asked first.
NoteBeforeLane(lane, found) ==
  CASE found = "MACRO_CONTEXT_READY" -> "READY"
    [] found \in {"MACRO_CONTEXT_READY_LOW_CONFIDENCE", "MANUAL_CONTEXT_OVERRIDE"} ->
         "READY_LOW_CONFIDENCE"
    [] found = "MACRO_CONTEXT_UNPARSED_NON_BLOCKING" -> "UNPARSED_NON_BLOCKING"
    [] OTHER -> lane

\* _morning_macro_context: the AM note counts where there is no private note.
MorningMacro(lane, found) ==
  CASE lane # "MISSING_NON_BLOCKING" -> lane
    [] lane = "MISSING_NON_BLOCKING" /\ found = "MACRO_CONTEXT_READY" -> "READY"
    [] /\ lane = "MISSING_NON_BLOCKING"
       /\ found \in {"MACRO_CONTEXT_READY_LOW_CONFIDENCE", "MANUAL_CONTEXT_OVERRIDE"} ->
         "READY_LOW_CONFIDENCE"
    [] /\ lane = "MISSING_NON_BLOCKING"
       /\ found = "MACRO_CONTEXT_UNPARSED_NON_BLOCKING" -> "UNPARSED_NON_BLOCKING"
    [] OTHER -> "MISSING_NON_BLOCKING"

-----------------------------------------------------------------------------
(* The SPY structure                                                       *)

\* _spy_snapshots_from_context sorts the rows by the text of their date: one without
\* a date reads "nan" by then, and comes last.
Sooner(x, y) == x.date # None /\ (y.date = None \/ x.date < y.date)

\* Rows of one date keep their order.
Precedes(m, n) == Sooner(spy[m], spy[n]) \/ (~Sooner(spy[n], spy[m]) /\ m < n)

\* The spot of a row without a price is its gamma ratio.
Spot(row) == IF row.price = None THEN row.gamma ELSE row.price

\* The last snapshot of a set, or None.
LastSnap(S) ==
  IF S = {} THEN None
  ELSE spy[CHOOSE n \in S : \A m \in S \ {n} : Precedes(m, n)]

Current == LastSnap(DOMAIN spy)

Prior == LastSnap({n \in DOMAIN spy : \E m \in DOMAIN spy : Precedes(n, m)})

BelowHedge(row) == row.hedge # None /\ Spot(row) # None /\ Spot(row) < row.hedge

\* Mutant: the hedge wall is not looked at.
LabelByGamma(row) ==
  CASE row = None -> "UNKNOWN_GAMMA_STATE"
    [] row # None /\ row.gamma # None ->
         IF row.gamma < 100 THEN "NEGATIVE_GAMMA_UNSTABLE" ELSE "POSITIVE_GAMMA_STABLE"
    [] OTHER -> "UNKNOWN_GAMMA_STATE"

\* build_pre_am_structure_fields: a label, corrected by the hedge wall.
PreAmLabel(row) ==
  CASE row = None -> "UNKNOWN_GAMMA_STATE"
    [] row # None /\ row.gamma # None ->
         IF row.gamma < 100 THEN "NEGATIVE_GAMMA_UNSTABLE"
         ELSE IF BelowHedge(row) THEN "TRANSITIONAL_GAMMA" ELSE "POSITIVE_GAMMA_STABLE"
    [] OTHER -> "UNKNOWN_GAMMA_STATE"

NegativeGamma(row) ==
  row # None /\ ((row.gamma # None /\ row.gamma < 100) \/ BelowHedge(row))

\* dealer_structure._gamma_regime
GammaRegime(row) ==
  CASE row = None \/ row.gamma = None -> "UNKNOWN_GAMMA_STATE"
    [] row # None /\ row.gamma # None /\ row.gamma < 100 -> "NEGATIVE_GAMMA_UNSTABLE"
    [] row # None /\ row.gamma # None /\ row.gamma >= 100 /\ BelowHedge(row) ->
         "TRANSITIONAL_GAMMA"
    [] OTHER -> "POSITIVE_GAMMA_STABLE"

MovedDown(now, then) == now # None /\ then # None /\ now < then

\* _advisory_bias, and WAIT_FOR_CONFIRMATION where there is no snapshot.
Bias(row, before) ==
  LET down == before # None
              /\ (MovedDown(row.put, before.put) \/ MovedDown(row.call, before.call))
  IN CASE row = None -> "WAIT_FOR_CONFIRMATION"
       [] row # None /\ GammaRegime(row) = "NEGATIVE_GAMMA_UNSTABLE" -> "DEFENSIVE"
       [] row # None /\ GammaRegime(row) = "TRANSITIONAL_GAMMA" -> "WAIT_FOR_CONFIRMATION"
       [] OTHER -> IF down THEN "DEFENSIVE"
                   ELSE IF GammaRegime(row) = "POSITIVE_GAMMA_STABLE"
                   THEN "SELECTIVE_LONG_DELTA" ELSE "NO_EDGE"

-----------------------------------------------------------------------------
(* Flow candidates                                                         *)

\* parse_flow_candidates and parse_unusual_options_positions leave a row out that
\* lacks its symbol, expiration or strike.
Parsed(sheet) ==
  {n \in DOMAIN sheet : None \notin {sheet[n].symbol, sheet[n].exp, sheet[n].strike}}

Upgraded(note) == note.kind = "book" /\ note.sheets # None

\* normalize_spread_id_family takes " roll" off the end.
Family(id) == IF id = "put roll" THEN "put" ELSE id

SameGroup(x, y) ==
  /\ x.symbol = y.symbol /\ x.exp = y.exp /\ x.type = y.type
  /\ Family(x.family) = Family(y.family)

\* The name of one family is part of that of the other.
PartOf(f, g) == f = g \/ (f = "put" /\ g = "put spread")

\* Mutant: an unusual trade of any expiration supports the spread.
SupportsAnyDay(row, leg, strikes) == row.symbol = leg.symbol /\ row.strike \in strikes

\* _unusual_supports_spread; a row without a spread id supports any family.
Supports(row, leg, strikes) ==
  /\ row.symbol = leg.symbol /\ row.exp = leg.exp /\ row.strike \in strikes
  /\ row.family # None => PartOf(Family(leg.family), Family(row.family))

\* extract_fast_advisory_candidates, one for each first leg of a group.
FlowCandidates(sheets) ==
  LET flow == sheets.flow
      rows == Parsed(flow)
      legs(n) == {m \in rows : SameGroup(flow[n], flow[m])}
      strikes(n) == {flow[m].strike : m \in legs(n)}
      unusual == {sheets.unusual[m] : m \in Parsed(sheets.unusual)}
  IN {[symbol |-> flow[n].symbol, exp |-> flow[n].exp, family |-> flow[n].family,
       strikes |-> strikes(n),
       status |-> IF \E row \in unusual : Supports(row, flow[n], strikes(n))
                  THEN "WATCH" ELSE "REVIEW"] :
       n \in {k \in rows : /\ flow[k].family \in {"call spread", "put spread", "put roll"}
                           /\ \A m \in legs(k) : k <= m
                           /\ Cardinality(strikes(k)) >= 2}}

\* The first upgraded workbook; reading the sheet names of one cut short raises.
FlowIntake ==
  LET book == FirstWhere(notes, Upgraded)
  IN IF book = None THEN {} ELSE FlowCandidates(book.sheets)

SheetsRaise == \E n \in DOMAIN notes : notes[n].kind = "book" /\ notes[n].broken

-----------------------------------------------------------------------------
(* The status of the run                                                   *)

Some(class) == \E k \in DOMAIN audit : audit[k].class = class

\* Rows for which hydration found expressions.
Attempted == {k \in DOMAIN audit : \E x \in expressions : x.row = k}

\* Mutant: a gap that names the vendor counts as well.
VendorParked ==
  \E k \in DOMAIN audit :
    /\ audit[k].class = "PARKED_DATA_GAP"
    /\ marks[k].gap \in {"credential_error", "alpaca_quote_hydration_incomplete"}

\* The audit keeps the gap of a parked row as its reason, which is searched for
\* "credential" and its like; no other gap has any of them.
CredentialParked ==
  \E k \in DOMAIN audit : /\ audit[k].class = "PARKED_DATA_GAP"
                          /\ marks[k].gap = "credential_error"

HydrationStatus ==
  CASE CredentialParked -> "PARKED_CREDENTIAL_ERROR"
    [] ~CredentialParked /\ Some("PARKED_DATA_GAP") /\ Attempted = {} -> "PARKED_DATA_GAP"
    [] /\ ~CredentialParked /\ Attempted # {}
       /\ Some("PARKED_DATA_GAP") \/ Some("HYDRATION_PENDING") -> "PARTIAL"
    [] OTHER -> "READY"

Parked(hydration) ==
  hydration \in {"PARKED_CREDENTIAL_ERROR", "PARKED_DATA_GAP"} /\ Attempted = {}

Discovery(hydration) ==
  CASE audit = <<>> -> "NO_CANDIDATES"
    [] audit # <<>> /\ Parked(hydration) -> "PARKED_DATA_GAP"
    [] OTHER -> IF hydration = "PARTIAL" THEN "PARTIAL" ELSE "READY"

\* A row with alternates counts neither as primary nor as watch here.
Structure(hydration) ==
  CASE Parked(hydration) -> "PARKED_HYDRATION_REQUIRED"
    [] ~Parked(hydration) /\ Some("NO_VIABLE_EXPRESSION") ->
         IF \E class \in {"PRIMARY_EXPRESSION_SELECTED", "WATCH_EXPRESSION_AVAILABLE",
                          "APPROVED_PAPER"} : Some(class)
         THEN "PARTIAL" ELSE "NO_VIABLE_STRUCTURE"
    [] OTHER -> "READY"

Evidence == Some("PRIMARY_EXPRESSION_SELECTED") \/ Having(expressions, "PRIMARY") # {}

\* quality_gate; "no viable expression" is a geometry reject as well.
Quality(structure) ==
  CASE Some("APPROVED_PAPER") /\ Evidence -> "PASS"
    [] Some("WATCH_EXPRESSION_AVAILABLE") /\ ~Some("APPROVED_PAPER") -> "WATCH"
    [] OTHER -> IF audit = <<>> \/ structure = "NO_VIABLE_STRUCTURE"
                   \/ Some("NO_VIABLE_EXPRESSION")
                THEN "NO_ACTION_QUALITY" ELSE "FAIL"

\* paper_action; paper_approval_allowed_for_macro forbids nothing.
PaperAction(hydration, quality) ==
  CASE CredentialParked -> "WITHHELD_CREDENTIALS"
    [] ~CredentialParked
       /\ "PARKED_DATA_GAP" \in {hydration, Discovery(hydration)} -> "WITHHELD_DATA_GAP"
    [] OTHER -> IF quality = "PASS" THEN "ALLOWED" ELSE "WITHHELD_QUALITY"

\* Mutant: only a stored lane that is missing can be refreshed.
OnlyMissingIsStale(stored) ==
  \E lane \in {"macro_context", "flow_context"} :
    Present(lane) /\ stored[lane] = "MISSING_NON_BLOCKING"

\* stored_stale of build_operator_next_actions.
StoredStale(stored) ==
  /\ \E lane \in LaneNames : Present(lane)
  /\ \E lane \in {"macro_context", "flow_context"} : Lanes[lane] # stored[lane]

\* The ids of build_operator_next_actions.
NextActions(stored, hydration) ==
  {"view_readiness"}
  \cup (IF StoredStale(stored) THEN {"refresh_morning_advisory"} ELSE {})
  \cup (IF hydration # "READY"
        THEN {"diagnose_quote_hydration", "retry_hydration_via_morning_loop"} ELSE {})
  \cup (IF "PARSE_FAILED_NON_BLOCKING" \in {Lanes["macro_context"], Lanes["flow_context"]}
        THEN {"review_private_parsed_json"} ELSE {})

\* The lanes _build_morning_regime_status stores.
MorningLanes ==
  [Lanes EXCEPT !["macro_context"] = MorningMacro(@, Resolution(notes, override).audit)]

\* build_run_advisory, as far as the operator acts on it.
Report ==
  LET hydration == HydrationStatus
      quality == Quality(Structure(hydration))
      resolution == Resolution(notes, override)
  IN [am |-> resolution.am, state |-> MacroState(resolution.am, override),
      lanes |-> MorningLanes, hydration |-> hydration,
      discovery |-> Discovery(hydration), structure |-> Structure(hydration),
      quality |-> quality, action |-> PaperAction(hydration, quality),
      next |-> NextActions(MorningLanes, hydration),
      label |-> PreAmLabel(Current), negative |-> NegativeGamma(Current),
      regime |-> GammaRegime(Current), bias |-> Bias(Current, Prior),
      flow |-> FlowIntake]

\* The lane format_readiness_view shows.
ShownLane(lane) ==
  IF Lanes[lane] # "MISSING_NON_BLOCKING" \/ Present(lane)
  THEN Lanes[lane] ELSE advisory.lanes[lane]

Readiness ==
  [lanes |-> [lane \in LaneNames |-> ShownLane(lane)],
   next |-> NextActions(advisory.lanes, advisory.hydration)]

-----------------------------------------------------------------------------
(* The run and its inputs                                                  *)

\* The steps of the pipeline do not read these files.
HydrateRun ==
  /\ ~raised /\ (HydrateWithoutClient \/ HydrateWithoutQuotes \/ Hydrate)
  /\ UNCHANGED <<inputs, spy, raised, advisory>>

GuardRun ==
  /\ ~raised /\ ~GateRaises /\ AuditReplay
  /\ UNCHANGED <<inputs, spy, raised, advisory>>

AdviseRun ==
  /\ ~raised /\ ~GateRaises /\ ~SheetsRaise /\ Advise
  /\ advisory' = Report
  /\ UNCHANGED <<inputs, spy, raised>>

\* A note that cannot be read ends the run at the guard or at the advisory.
RunRaises ==
  /\ ~raised
  /\ \/ stage = "hydrated" /\ GateRaises
     \/ stage = "audited" /\ (GateRaises \/ SheetsRaise)
  /\ raised' = TRUE
  /\ UNCHANGED <<vars, inputs, spy, advisory>>

Arrival == changes < MaxChanges /\ changes' = changes + 1

DropNotes ==
  /\ Arrival /\ notes' \in NoteSets \ {notes}
  /\ UNCHANGED <<vars, override, private, torn, spy, raised, advisory>>

WriteOverride ==
  /\ Arrival /\ override' \in Overrides \ {override}
  /\ UNCHANGED <<vars, notes, private, torn, spy, raised, advisory>>

\* write_parsed_json truncates the file and then writes it.
ParseBegins(source) ==
  /\ Arrival
  /\ private' \in {[private EXCEPT ![source] = note] : note \in PrivateNotes[source]}
  /\ torn' = torn \cup {source}
  /\ UNCHANGED <<vars, notes, override, spy, raised, advisory>>

ParseEnds(source) ==
  /\ source \in torn
  /\ torn' = torn \ {source}
  /\ UNCHANGED <<vars, notes, override, private, changes, spy, raised, advisory>>

RemovePrivate(source) ==
  /\ Arrival /\ private[source] # None /\ source \notin torn
  /\ private' = [private EXCEPT ![source] = None]
  /\ UNCHANGED <<vars, notes, override, torn, spy, raised, advisory>>

AdvisoryInit ==
  /\ Init
  /\ notes \in NoteSets /\ override = None
  /\ private \in {f \in [Sources -> UNION {PrivateNotes[s] : s \in Sources} \cup {None}] :
                    \A s \in Sources : f[s] \in PrivateNotes[s] \cup {None}}
  /\ torn = {} /\ spy \in SpyTables
  /\ raised = FALSE /\ advisory = None /\ changes = 0

Run == HydrateRun \/ GuardRun \/ AdviseRun \/ RunRaises

Inputs ==
  \/ DropNotes \/ WriteOverride
  \/ \E source \in Sources :
       ParseBegins(source) \/ ParseEnds(source) \/ RemovePrivate(source)

AdvisoryNext == Run \/ Inputs

AdvisorySpec == AdvisoryInit /\ [][AdvisoryNext]_advisoryVars /\ WF_advisoryVars(Run)
-----------------------------------------------------------------------------
(* What the operator may rely on                                           *)

LaneValues == {"READY", "READY_LOW_CONFIDENCE", "PARTIAL", "MISSING_NON_BLOCKING",
               "PARSE_FAILED_NON_BLOCKING", "UNPARSED_NON_BLOCKING"}

AdvisoryTypeOK ==
  /\ notes \in NoteSets /\ override \in Overrides \cup {None}
  /\ torn \subseteq Sources /\ changes \in 0..MaxChanges /\ raised \in BOOLEAN
  /\ advisory # None => /\ \A lane \in LaneNames : advisory.lanes[lane] \in LaneValues
                        /\ "view_readiness" \in advisory.next
  /\ stage # "advised" => advisory = None

\* No morning run allows a paper action: its guard approves no replay row, and a
\* primary expression alone does not pass the quality gate.
PaperStaysWithheld == advisory # None => advisory.action # "ALLOWED"

\* The reason a paper action is withheld for is what stopped hydration, two stages
\* before, if any row came through its context gate: credentials are named where they
\* were missing and nowhere else, not for an unsafe flag, a client that was not made
\* or quotes that did not come.  Only then is the operator sent to look at the quotes.
WithheldForCause ==
  (advisory # None /\ \E k \in DOMAIN board : board[k].context = "CONTEXT_PASS") =>
    LET stopped(gaps) == \E k \in DOMAIN marks : marks[k].gap \in gaps
        other == {"preflight_error", "import_error", "client_error",
                  "alpaca_quote_hydration_incomplete"}
    IN /\ advisory.action = "WITHHELD_CREDENTIALS" <=> stopped({"credential_error"})
       /\ advisory.action = "WITHHELD_DATA_GAP" <=> stopped(other)
       /\ "diagnose_quote_hydration" \in advisory.next
            <=> stopped(other \cup {"credential_error"})

\* The paper action of an advisory follows from what happened to its rows.
ActionFollowsCause == PaperStaysWithheld /\ WithheldForCause

\* The stored macro lane is ready without reserve only if a private note says so or,
\* with no private note, a complete sidecar that is not of an older date: several
\* notes, the override and a parser at work compete for one lane.
ReadyIsFounded ==
  [][advisory' # advisory => (advisory'.lanes["macro_context"] = "READY" =>
       \/ Lanes["macro_context"] = "READY"
       \/ /\ ~Present("macro_context") /\ ~Overridden(override)
          /\ \E n \in DOMAIN notes :
               /\ notes[n].kind # "book" /\ ~notes[n].broken /\ notes[n].complete
               /\ notes[n].kind = "json" => ~notes[n].old)]_advisoryVars

\* Two modules derive the gamma regime from the same rows in two ways, and the one
\* that says whether gamma is negative does not set the bias: they agree, and long
\* delta is never advised in negative gamma.
RegimesAgree ==
  advisory # None =>
    /\ advisory.label = advisory.regime
    /\ advisory.bias = "SELECTIVE_LONG_DELTA" => ~advisory.negative

\* A flow spread is on WATCH only if an unusual trade in one of its own strikes, of
\* its symbol and expiration, is on the workbook the run has read.
WatchIsBacked ==
  [][advisory' # advisory =>
       \A c \in advisory'.flow : (c.status = "WATCH" =>
         \E n \in DOMAIN notes : /\ Upgraded(notes[n])
           /\ \E m \in DOMAIN notes[n].sheets.unusual :
                LET row == notes[n].sheets.unusual[m] IN
                row.symbol = c.symbol /\ row.exp = c.exp /\ row.strike \in c.strikes)]_advisoryVars

\* A note parsed after the advisory was stored is shown by the readiness view at
\* once, and the operator is told to refresh wherever it says something else.
ReadinessFollowsNotes ==
  advisory # None =>
    \A source \in Sources : Loaded(source) # None =>
      \A lane \in {l \in LaneNames : SourceOf(l) = source} :
        /\ Readiness.lanes[lane] = Lanes[lane]
        /\ (lane \in {"macro_context", "flow_context"} /\ advisory.lanes[lane] # Lanes[lane])
             => "refresh_morning_advisory" \in Readiness.next

\* run_readiness.py:102: the operator is told that the stored advisory predates the
\* accepted private context.  An advisory that is just being stored does not.
FreshAdvisoryIsNotStale ==
  [][advisory' # advisory =>
       "refresh_morning_advisory" \notin advisory'.next]_advisoryVars

=============================================================================
