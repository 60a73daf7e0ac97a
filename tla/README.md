# Kidweel paper path: TLA+ models, checks and proofs

This directory models the parts of Kidweel (`src/qops`, `scripts`, `examples`) that
decide whether an option spread is ordered or closed on the Alpaca *paper* account, and
what the operator is told about it each morning.
Paths below are relative to the repository.

## 1. The system

Kidweel is a set of short-lived Python commands that an operator (or cron) starts.
They share no memory and take no lock: everything goes through files under `data/`
and `logs/`, and through the broker.

```
vendor files -> ingestion wake -> staged intake -> hydration -> risk guard -> advisory -> brief
     |                              ^                  |              ^            |    (orb_morning_loop.py)
     +-> raw sessions --(SPY rows)--+         watch review      AM notes, parsed   v
             |                                                  vendor notes -> readiness view
             +-> replay corpus -> replay candidates

greeks CSV -> candidates -> paper approval -> payload builder -> submit command -> broker
                                         ^                 |   ^            |
                                   guardrails <------------+   |            |
                                   approval files (HITL) <- hitl_review     |
                    results CSV -> status audit -> close command -----------+
```

| component | state it keeps | operations | hard behaviour | what makes it correct |
|---|---|---|---|---|
| Paper transport (`execution/alpaca_paper_bridge.py`, `hitl_paper_transport.py`, `runtime/execution_halt.py`, `scripts/hitl_review.py`) | candidate CSV, one approval JSON per payload, halt file, results CSV, orders at the broker | submit (dry or paper), review, halt, rebuild | overlapping runs, decisions and halt between check and send, lost replies, crashes | at most one order per payload; no order without approval, after the halt, with the live flag, or of a row a guardrail stops |
| Closeout (`paper_closeout.py`, `paper_order_status.py`, `paper_position_audit.py`, `spread_close_pricing.py`) | status CSV, close CSV, positions, close orders | status audit, close (dry or paper) | stale CSVs, cached positions, several closers, attempt numbers from a file | closes only what is filled and held; reported closes exist |
| Gates (`strategy/spread_candidate_generator.py`, `spread_math.py`, `risk/pmp_*.py`, `risk/paper_approval.py`, `execution/paper_payload_candidate.py`, `guardrails/*`) | greeks, candidate, approval and payload CSV | generate, approve, edit a quantity, build | CSVs of different ages, boundaries between gates that repeat each other's checks | each later gate passes what the earlier ones let through |
| Morning loop (`scripts/orb_morning_loop.py`, `ingest/*`, `pipeline/daily_pipeline.py`, `runtime/orb_manifest.py`, `notify/*`) | inbox/staging/processed files, two manifests | wake, pipeline, guard, brief, notify | crash between two writes, stages that return early | what a manifest names exists; both manifests agree; no audit under a halt |
| Vendor intake (`ingest/staged_intake.py`, `spotgamma_normalize.py`, `backtest/spotgamma_replay_builder.py`, `examples/spotgamma_*`) | staged files, raw sessions and histories, context CSV, corpus CSV, candidates | read staged files, merge SPY rows of the raw tree, build, join gamma, gate; export a corpus, convert it, rebuild it | several sources for one date, files replaced between two reads, a CSV between two commands | a row's gate and gamma are those of its own date and symbol; only what was staged is a candidate |
| Hydration, guard, frontier (`pipeline/alpaca_hydration_loop.py`, `strategy/dealer_expression_tier.py`, `risk/guard_runner.py`, `advisory/expression_frontier.py`) | loop columns of the rows, expressions CSV, risk audit | hydrate, audit rows, audit spreads, challenge | three passes with three keys, one symbol on several rows, early returns | a primary is the best spread that passes its tier; the audit says no more than was found |
| Watch review (`risk/watch_promotion_review.py`) | review CSV | evaluate, append | a CSV appended to by rewriting it, records of earlier stages | an approval is of a viable WATCH spread within the tolerances |
| Advisory and readiness (`advisory/run_advisory.py`, `am_note_gate.py`, `dealer_structure.py`, `private_context_builder.py`, `run_readiness.py`, `ingest/morning_regime_upgrade.py`) | AM notes, override, `private/parsed`, advisory JSON | resolve the note, grade the lanes, classify gamma, read flow sheets, store, show | notes that arrive, go and are half written under a run; two derivations of one label | the paper action follows from what happened to the rows; what is shown is what is there |
| API and bus (`runtime/api.py`, `redis_bus.py`, `scripts/cron_trigger.py`) | Redis lists of 100 | trigger, tail | three Redis calls per message, no consumer | the tail is the newest messages |
| Agents, playbooks, signals, screener, backtest, bridge exports | none | pure functions, reports | missing values | flags never approve |

`PROJECT.json` lists every component with its status, and every hazard with the line
where it bites.

## 2. Modules

| module | models | relation to the others |
|---|---|---|
| `ApprovedOnce` | what the opening side promises, without files or runs: grant a permit on an approved payload, place at most one order per payload | abstract specification |
| `PaperTransport` | submit runs, reviewers, builder, halt file, broker | refines `ApprovedOnce` |
| `PaperCloseout` | status audit, close runs, broker positions and fills | |
| `SpreadGates` | quotes, spread candidates, paper approval, payload builder, and the guardrails that read the result | |
| `MorningLoop` | the morning loop and the wake: intake, stages, manifests, halt check | |
| `ContextIntake` | vendor exports to candidate rows, by the morning run and by the replay commands | what `Boards` of `ExpressionLoop` stand for |
| `DealerTier` | the dealer scores, tiers and demands of a spread, as operators | used by `ExpressionLoop` |
| `ExpressionLoop` | hydration, ranking, labels, risk guard, frontier, watch reviews | |
| `RunAdvisory` | AM notes, parsed vendor notes, gamma regime, flow sheets, the stored advisory and the readiness view | extends `ExpressionLoop`: its run is that module's, with these inputs around it |
| `PaperTransport_proofs`, `PaperCloseout_proofs`, `SpreadGates_proofs`, `MorningLoop_proofs`, `ContextIntake_proofs`, `ExpressionLoop_proofs`, `RunAdvisory_proofs` | theorems | section 4; the last extends the one before it |
| `MC*` | the small instances TLC checks | |

Definitions whose comment starts with *Mutant* are wrong on purpose: each is one
plausible bug, and shows that a property notices it. Nothing else uses them.

### PaperTransport

One action is one file access or one broker exchange; what a run does between two of
them touches only its own memory, so the interleavings at this grain are all there are.

* `StartDryRun`, `StartSubmit`: `examples/submit_paper_payload_candidates.py` loads the
  CSV, filters READY rows and cuts to the limit (`EffectiveLimit`: 1 unless positive).
* `PreflightStop`, `PreflightPass`: halt file, live flag, credentials. The flag in `.env`
  enters the environment with the credentials, after the first look (`LiveNow`).
* `Skip`, `ApprovalMissing` + `CreateApproval`, `GatePass`: guardrails and HITL gate of a
  row. `load_or_create_approval` is two steps because it loads and then saves.
* `SubmitHalted`, `SubmitNotHalted`, `RecheckRefused`, `RecheckUnbuildable`,
  `RecheckPass`: `submit_alpaca_paper_mleg_order` in its own order: halt file, approval and
  guardrails again, request.
* `BrokerAccepts`, `BrokerFails`, `ReceiveAccepted`, `ReceiveError`: the exchange. A reply
  may be lost after the order was accepted; every exception becomes `PAPER_REJECTED`.
* `Finish`, `Crash`: the results CSV is replaced at the end, and only then.
* `ReviewLoad`, `ReviewSave`, `Halt`, `Resume`, `Rebuild`: the operator.

A row's economics are a `Terms` value and a `shape`: sound, stopped by a guardrail
(`blocked`), held by the watch boundary (`watch`), with a leg symbol that raises
(`unparsable`), or passing the guardrails but not the request builder (`unbuildable`).
`build_paper_payload_candidates` writes READY rows only when they are sound, but the
loader takes any CSV (`--input`), so the contents of the file are a parameter (`Files`).

`haltSince`, `editSince` and `createSince` are history variables: runs past a look at the halt
file, at an approved file, at a missing approval file, that has changed since. They appear in
no guard and state exactly which window the code leaves open between a look and what
is done on it: the request at the broker, or the save of a new approval file.

### PaperCloseout

* `OpenOrders`, `FillOpen`, `FillClose`, `Expire`: the submit command and the broker. A
  close order cannot fill past what is held (its legs are *to close*).
* `AuditStart`, `AuditFetch`, `AuditEnd`: `check_paper_order_status.py`, order by order. It may
  be pointed at the results CSV of the submit or of the close command.
* `CloseStart` .. `Finish`: `close_paper_position.py`. Positions are fetched once per run
  (`FetchPositions`); the attempt number is counted from the CSV when a row is prepared
  (`NextAttempt`); the halt file is read only inside the submit function; an exception from
  the quotes, the halt check or `--print-request-json` ends the run with nothing written.
* A position is a net number per leg and does not name a payload, so payloads that share
  legs confirm or hide each other.

There is no approval or live-flag check on closes in the code, so none in the model.

### SpreadGates

One action per command, since each reads one CSV and then replaces another; a CSV is a
set of rows. The gates themselves are operators, one per function.

* `Stage` replaces the greeks CSV (fetched by code that is not modelled).
* `Generate` (`generate_spread_candidates.py`): pairs liquid quotes, does the spread math,
  resolves the probability (vendor's or the short leg's delta, `PmpForGate`). A command
  that has nothing to write leaves the old CSV where it is.
* `Approve`, `Build`: `build_paper_approval_candidates.py` (any `--max-risk` of `MaxRisks`) and
  `build_paper_payload_candidates.py`. `EditQty`: the runbook's edit of a quantity.
* `GuardrailsPass`, `Buildable`: what the submit command will ask of a READY row.

Prices are integer cents, probabilities percent, ratios hundredths, and comparisons of
ratios are cross-multiplied: the model is exact where the code uses floats, so rounding
at a boundary is not modelled. Text columns (symbols, dates, provenance), break-even and
the scaffold builder are left out; every leg is a well-formed option symbol; there is
one symbol, date and expiration, and a `--limit` cuts nothing.

### MorningLoop

One action is one move, one write, or one read that another process can disturb.

* `Start` begins the loop or the wake alone (`daily_ingestion_wake.py`), dry or not.
* `Collect`, `Evaluate`, `Move`, `MoveRaises`: `run_ingestion_wake`. A file is evaluated when
  collected and again when handled; between and after, another run may take it. Session
  files (`raw`) are copied, inbox files moved, and a wake that raises has no manifest.
* `WriteLatest`, `WriteSnapshot`: the two writes of `write_manifest`. Where a run goes
  next is `AfterWrite`; a manifest without staged files is written twice by the loop.
* `Load`, `Hydrate`, `Candidates`: `run_daily_pipeline`; hydration may return early and
  write no expressions. `HaltCheck`, `Audit`: `run_risk_guard`. `Brief`, `Notify`.
* `Fail`: loading, hydration, the candidates, the halt check, the audit, the brief and the notification
  may raise, and the handler writes FAILED over whatever status was on disk, ADVISORY_COMPLETE
  included; the brief or the notification may have been written by then. A file that cannot be
  moved raises in `MoveRaises`. That the writes of the manifest themselves raise is left to `Kill`,
  which takes a run away anywhere.

Artifacts are known by run and kind, not by content. One date is modelled, so old inbox
files do not meet a new date, and run ids are distinct. The `latest_*` copies, the
scheduler log and the transport's answer are left out; `--live` raises before anything.
A session file, once there, stays: no code removes it.

### ContextIntake

A file is its recognised name, its suffix, what its columns offer and its rows (symbol,
date, gamma). A table is a set of rows; a row knows its place `at` (folder, file, line), so
that the first and the last row of a table are defined without walking it. One action is
one read of a file, one row of a merge, or one command.

* `Load`: one path of `staged_files` in `load_contexts_from_staged_files`. A path listed twice is
  read once; a file that is gone, unmatched or cut short ends the run. `ScannerProfile` is
  `detect_xlsx_profile`: name first, then columns. Scanner rows take the session's date,
  SPY rows their own, weekly rows theirs, even when it is empty.
* `ReadRaw` lists the SPY rows of the raw tree as they are then; `Merge` is one turn of the loop of
  `_merge_spy_from_raw_sessions` over them, in order (`AddSpy`). `Build`: candidates, the gamma joined
  by symbol, the context gate of the guard.
* `Export`, `ConvertSample`, `Rebuild`: `spotgamma_replay_corpus.py` and
  `spotgamma_to_replay_candidates.py` with their flags. `ThroughCsv` is what a date becomes in
  a CSV and back.
* `Arrive`, `Restage`: the raw tree changes; a later wake overwrites a staged file.

### ExpressionLoop and DealerTier

A generated spread is an OCC pair with its economics in cents. The generator is
`SpreadGates`; here its results are a parameter (`Chains`).

* `HydrateWithoutClient`, `HydrateWithoutQuotes`, `Hydrate`: `hydrate_alpaca_expressions` and its early
  returns, each with its own `data_gap_reason` (`gap`: a flag that is not allowed, no credentials, an
  import that fails, a client that cannot be built, no quotes, nothing viable). `Queried` cuts to the first `MaxSymbols` symbols, `RankKey` and `Before` are the stable sort,
  `ExpressionStatus` the labels, `MarkFor` the pick that writes the loop columns.
* `AuditReplay`, `AuditSpreads`: the guard on the labelled rows, or on a table of spread
  candidates with or without the expressions CSV; `Challenged` is the frontier.
* `Advise`: the frontier's flags in the advisory.
* `Review(op)`, `Store(op)`, `DryRun(op)`: `review_watch_expression.py` by several operators. `Review` loads the
  first row of an id and reads the review CSV; `Store` writes the CSV back with one more row.
* `DealerTier` holds the four component scores, the tiers, and what each tier asks.

### RunAdvisory

* `HydrateRun`, `GuardRun`, `AdviseRun`: the steps of `ExpressionLoop`, none of which reads a note except
  the guard (through `build_macro_paper_gate`) and the advisory. `RunRaises`: an empty CSV note or a
  workbook cut short is an exception there, and ends the run.
* `DropNotes`, `WriteOverride`, `RemovePrivate`: inputs that change at any moment. `ParseBegins`,
  `ParseEnds`: `write_parsed_json` truncates and then writes; in between a reader finds nothing.
* `Report`: `build_run_advisory`. `Decider` and `Resolution` pick the AM note, `LaneStatus` grades a private
  note for a lane, `MorningMacro` combines both, `PreAmLabel` and `GammaRegime` are the two derivations of
  the gamma regime, `FlowCandidates` the flow sheets, `HydrationStatus` .. `PaperAction` the status.
  `CredentialParked` goes by the gap of a parked row: only *credential_error* has a word the code
  searches for. (The text of an import or client exception is taken not to contain one.)
* SPY rows without a date come last, as the text *nan* does in the code's sort (`Sooner`, `Precedes`);
  an option family of the flow sheets matches by part (`PartOf`), a put roll being a put.
* `Report` reads its inputs in one step; `build_run_advisory` reads one after the other. An input
  that changes between two of those reads is not modelled.
* `Readiness`: `run_readiness.py`, evaluated in every state after the advisory is stored.

## 3. Runs

| run | question | instance, and why it is enough |
|---|---|---|
| `transport_race` | do overlapping runs, a reviewer, the halt file and repricing ever break one-order, approval or halt, and when is a decision undone? | 2 symmetric runs, 1 reviewer, 1 payload, 2 terms, the row once or twice in the file: every property speaks of one payload and at most two runs; the run that looked too early, the one that created the file and the decision on it all occur |
| `transport_batch` | are reported orders real and only sound rows sent? | 1 run, 2 payloads, every shape before a sendable row: the loop's state between two rows is what matters |
| `transport_env` | does the live flag stop orders wherever it is set, does a run end? | 1 run, 2 reviewers, no row, a WATCH row or one payload twice, flag absent, in `.env`, exported; weak fairness |
| `closeout_race` | do closes leave only on positions that hold, and not after the halt? | 2 symmetric closers, 1 payload, attempts up to 2, explicit and counted |
| `closeout_shared` | do closes follow fills and are reported closes real when CSVs are stale or mixed and payloads share legs? | 1 closer, 2 payloads on the same legs, each sound, missing, unsupported or unbuildable |
| `gates_chain` | is a READY row always sendable, within policy and priced by its legs, when commands run on CSVs of any age? | 6 boards of 2 or 3 quotes: probability in, at the edge of and outside the table, from the vendor, from delta, absent; all four structures; premium not below the width; loss above every cap; illiquid. Quantities 0 and 2, two caps |
| `morning_intake` | is what a manifest lists as staged there, whoever takes files meanwhile? | 2 wakes, dry or real, 3 names of which 2 are staged as one and 1 is refused, both directories, files dropped any time, kills |
| `morning_stages` | do manifests name what exists, agree, advance and record the end, is no audit written under a halt, does a run end? | 2 loops, each real with notification or dry without, 1 file, kills, weak fairness: the races left are over the latest manifest and the halt file |
| `context_intake` | are gate, gamma and candidates those of the data read, and do both readers know as much? | 3 stagings of 3 paths, one listed twice, gone, odd or narrative; 5 trees: histories with two days, empty dates, workbooks of several shapes and one cut short; 2 days; 1 change |
| `expression_loop` | do labels follow the ranking, does the audit say only what was found, are approvals unrivalled and reviews sound? | 5 boards (none, one row, one symbol twice, a symbol past the limit of 1, no context), 6 chains of up to 4 spreads over tiers A and C, near misses and unviable ones; 2 spread tables; 2 symmetric operators, 1 stored review |
| `run_advisory` | do paper action, lanes, regimes, flow labels and readiness follow from the run and the notes at their time? | 4 boards, 3 chains, 7 sequences of notes (each kind, old, incomplete, broken), 2 overrides, 4 parsed notes, 3 SPY tables; 2 changes at any moment |
| `advisory_refresh` | does a stored advisory ask to be refreshed only when it is old? (violated) | the instance of `run_advisory` |

Bounds: the sets above; `Limits` (the `--limit` values tried), `MaxAttempt` (a close whose
attempt number would exceed it is not prepared), no bound on the number of runs,
crashes, repricings, reviews or halts. Symmetry is over runs, in safety runs only, and no
property or choice distinguishes them. An operator's decision *can* be undone: two runs find no approval file, one
creates it, the operator decides, and the other creates it again (the two steps of
`load_or_create_approval`, with no lock). `DecisionWindow`, checked with two runs, says that
this is the only way.

`ContextIntake` and `RunAdvisory` bound what arrives (`MaxArrivals`, `MaxChanges`): every race is of one
run with one or two changes. `ExpressionLoop` bounds stored reviews (`MaxReviews`).

Deadlock is checked wherever the operator can always start a command, stage quotes or set
and remove the halt file. It is not in `expression_loop`, `context_intake`, `run_advisory` and
`advisory_refresh`: there one morning run is modelled, and it ends.
`SpreadGates` has no bound besides its sets: commands run any number of times.
`MorningLoop` is bounded by its runs and names only; halts, drops and kills are not.

*Fairness.* The two `RunEnds` (`PaperTransport`, `MorningLoop`) need weak fairness of a run's own
step. A started process is scheduled, its HTTP calls return or time out, and it waits
for nobody. `AdvisorySpec` has the same weak fairness of the run, so that the behaviour
`advisory_refresh` finds is one of a run that is allowed to finish.
Starting a command, reviewing, halting, fills and arrivals have none.

### The disagreement found

* `advisory_refresh`: `run_readiness.py:102` tells the operator that the "Stored advisory artifact
  predates the accepted private context." The test at `:85` compares the stored lanes with
  those of the private notes, but `_morning_macro_context` (`run_advisory.py:79-105`) stores in the macro
  lane what the AM note says where there is no private macro note, and
  `_build_morning_regime_status` (`run_advisory.py:233-237`) applies the test to the advisory it is just
  building. With an AM note and a parsed flow report only, a new advisory is stored with
  `refresh_morning_advisory`, and following the advice stores the same again.

Met while modelling, and contained in the models, but with no run of their own:

* `docs/alpaca-paper-bridge.md:66-67` reads `PAPER_REJECTED` as "broker declined" and keeps
  `PAPER_TRANSPORT_ERROR` for submit failures; a reply lost after acceptance is recorded as
  `PAPER_REJECTED`. `SubmittedRowsReal` states the direction that holds.
* `docs/paper-closeout.md:30` promises a new suffix "when prior closeout rows exist", and
  `paper_closeout.py:138` counts "prior closeout result rows (each submit/reject writes one row)", but
  each close command overwrites that CSV, so `-a2` is offered again.
* `README.md:48`, "rejects are logged on the manifest": the wake moves each reject at once and writes
  the manifest last; if another run has taken a later file, the move raises and the
  reject is on no manifest.
* `docs/paper_bull_call_c1_runbook.md:120` says a review "appends" to its CSV; `append_watch_promotion_review`
  reads the file and writes it back, so of two operators one can lose a row.
* `docs/spread-candidate-generation.md:37` says `candidate_pass` requires "economics + table R/R + EV
  rules", but at 30% a spread of 3.50 against 1.50 passes with an expected value of 0
  (the approval rejects it: `ReadyRowsClearPolicy`).
* `README.md:72` says the manifests "list artifact paths for that run", but the expressions path is
  listed even when hydration returned before writing the CSV (`NamedArtifactsExist` leaves it out).
* `orb_manifest.py:61` calls the snapshot of a run immutable, but every stage rewrites it
  (`SnapshotsAdvance` says how).

## 4. Proofs

The theorems hold for every number of runs, reviewers, payloads, rows, legs, operators,
notes and arrivals, and for every set of quotes, spreads, limits and quantities; they
assume only the named assumptions of the modules (files, boards, chains and notes are
sequences, prices and limits are numbers, quantities positive, `None` is no file and no
number, an OCC pair identifies a spread, file names of a morning are finitely many, the rows
of an older corpus are dated). Each rests on an inductive invariant, proved
one action at a time:

*PaperTransport.* `IInv` adds to the types: an order's id is that of its payload
(`OrdersKeyed`), a row still to do is ready (`TodoReady`), what a run past a gate may rely
on (`GatePassed`: environment, guardrail verdict; `HaltChecked`: the halt file is absent or
the run is in `haltSince`; `SendChecked`: approved at the recheck or in `editSince`), an
accepted reply has its order at the broker (`ReplyReal`). Proved: `TypeCorrect`,
`AtMostOneOrder`, `OnlyApprovedOrders`, `HaltStopsOrders`, `LiveFlagStopsOrders`,
`OnlySoundOrders`, `SubmittedRowsAreReal`, and `RefinesApprovedOnce` (every step is a
step or a stutter of `ApprovedOnce`; a run past its last check is a permit).
`DecisionsAreKept` is `DecisionWindow` for any number of overlapping runs and reviewers. Its
invariant is `FilesAsRead`: what a run found absent is still absent when it writes or the run is
in `createSince`, and what a reviewer loaded is still there. `RunsComeCloserToTheirEnd` is the variant
behind `RunEnds`: only a step of its own moves a run, and takes a row off `todo` or brings the row a
stage further.

*PaperCloseout.* A close leaves in a run whose row comes from a status CSV that comes
from an audit that asked the broker: `IInv` carries the truth of *filled* along that chain
(`AuditRowsReal`, `FilledRowsReal`, and in `RunGood` the row a run is at), the positions a run has
seen up to the legs that `moved` (`SeenHolds`), its halt check, and the broker's order behind
an accepted reply and a submitted row. Rows of one file have different places
(`FilesDistinct`), which makes *the first row* one row. Proved: `CloseTypeCorrect`,
`ClosesAfterFills`, `FilledRowsAreReal`, `SubmittedClosesAreReal`, `ClosesWhatIsHeld`,
`HaltStopsCloses`.

*SpreadGates.* A payload may be built from an approval whose candidates are gone, so
`IInv` carries what each command established along the files: the profit, loss and price
of every candidate belong to its legs (`SpreadRowsPriced`), and every approved row carries
what the approval tested (`ApprovalsVouched`): the PMP table, the expected value, a cap, valid
economics. `EditQty` may touch rejected rows too; the status keeps them out.
Proved: `GatesTypeCorrect`, `ReadyIsSendable`, `ReadyClearsPolicy`, `ReadyPricesItsLegs`.

*MorningLoop.* Manifests on disk are copies of the one in memory, so `IInv` relates the two
at every stage (`SnapshotBehind`, `LatestSettled`, `WakeUnseen`, `Owned`) and says what the
one in memory may claim (`StatusFits`, `CommandFits`, `NamesExist`, `StagedThere`,
`HaltChecked`). `StepKind` sorts the fourteen actions of a run into seven kinds of steps, and each part
is kept by each kind. Proved: `MorningTypeCorrect`, `ManifestsNameWhatExists`,
`ManifestsListWhatIsStaged`, `LatestFollowsSnapshots`, `OutcomesAreOnDisk`,
`SnapshotsMoveOn`, `HaltStopsAudits`. It assumes that `None` is no manifest. `RunsComeCloserToTheirEnd` is the variant
behind this `RunEnds`: phases left, then files left of the one listing, then stages.

*ContextIntake.* `IInv` carries what the ends of the chain rest on: the run's rows stay finite and
known by origin, no raw row before staged ones are all loaded (`Origins`); rows that may become
candidates have a date, if only the text *nan* (`CandidatesAreDated`), which is what a CSV and
`ThroughCsv` need to return them; the table was built from the rows as they are (`TableIsBuilt`);
and until the tree changes, raw rows and a whole replay are those of the tree as it is
(`TreeIsKept`). *The last row of a date* exists because tables are finite: `LastExists`, by a smallest
set of later rows, without induction over the rows. Proved: `TypeCorrect`, `GapsAreFilledOnce`,
`TheStagedAreTheCandidates`, `LabelsAreThoseOfTheRow`, `ReplayKnowsTheRawRows`, `TheCsvKeepsCandidates`,
for any stagings, trees, samples and number of arrivals.

*ExpressionLoop.* First the ranking, without any induction over the chain: keys of viable
spreads are tuples of whole numbers (`RankKeyType`), `Before` orders them (`BeforeIsAnOrder`), and the
spread that fewest come before has rank 1 (`SomeRankOne`, by a smallest set of a
well-founded family). So a row with a spread that passes has a primary (`PrimaryExists`), none that
passes scores higher (`PrimaryIsBest`), and the labels mean what they say (`MarkForIsRight`). `IInv`
then states that marks, audit and reviews are still what was computed from the
expressions CSV on disk (`Origin`, `AuditOrigin`, `Reviewed`): it is inductive because no later stage
rewrites that CSV. Proved: `TypeCorrect`, `MarksAreFounded`, `AuditsAreFounded`, `ApprovalsAreUnrivalled`,
`ReadyReviewsSound`, for any number of operators.

*RunAdvisory.* A step of this module is a step of `ExpressionLoop` or leaves its run alone, so `IInv`
carries over; `AdvisoryInv` adds which of the three ways of hydration the marks come from
(`Stopped` with the gap of credentials, with another gap, or `Searched`), which is what links the
paper action to its cause two stages earlier. Proved: `AdvisoryTypeCorrect`, `RegimesAlwaysAgree`, `ActionsFollowCauses`, `ReadyLanesAreFounded`,
`WatchesAreBacked`, `ReadinessAlwaysFollows`.

Only model-checked: both `RunEnds`. The two theorems `RunsComeCloserToTheirEnd` prove that a run cannot
go on for ever and cannot be sent back; that a run which has not ended can take a step
(ENABLED), and takes it by fairness, is out of the prover's reach and stays with TLC.

## 5. Not modelled

* Partial fills, price arithmetic of a close, the position-audit report (nothing reads it).
* The audit JSON files of guardrails, logging, report wording.
* An approval file torn by a kill inside `write_text` (later runs raise on it).
* That a row rebuilt with other terms keeps its payload id and its approval: the code
  does this and no doc says otherwise; the models contain it (`terms`), no property forbids it.
* That unreported orders exist: a halt, a conversion error, a quote error or a dry run
  overwriting the CSV loses results. The models contain it; only the other direction
  (what is reported exists) is a property.
* Names, summaries and prose; volatility columns; the text of PDFs (a parsed note is the set of
  fields it has); the frontier's printed ranks; the frontier and reviews inside the
  advisory JSON, which repeat what `ExpressionLoop` has.
* That `max_loss` is per share while the caps it is compared with (`--max-risk`, `RiskCap` 600) are
  meant for a contract: the models compare the same two numbers the code does, and no
  property says which one is meant.
* Run ids with a resolution of one second; an inbox duplicate that is staged the next day; a
  collected file that is gone when evaluated counts as refused (modelled, no property).
* `SPY.xlsx` of a session is ignored where a history has the date (modelled; the values
  need not agree, so `ReplayKnowsAsMuch` asks only that both readers have some).
* That `payload_id` leaves out price and quantity; that `--limit 1` starves the rows after a
  pending one; that the results CSV is overwritten by dry runs: modelled, and no
  document promises otherwise.
* Why the rest is left out: the API pushes to a Redis list that nothing in the repository
  consumes; mock execution and the MCP transport are called by tests only; scaffolds,
  playbooks, signals and the screener are pure classifiers no modelled command branches
  on; backtest and analysis are floating-point statistics in one process without state
  between runs. Each is listed with its reason in `PROJECT.json` under `not_modelled`.

## 6. Where the plan stands

1. Done: `PaperTransport` (with `ApprovedOnce`), `PaperCloseout`, `SpreadGates`, `MorningLoop`, and their proofs.
2. Done: `DealerTier`, `ExpressionLoop`, and the proof of its ranking and invariant.
3. Done: `ContextIntake` and its proofs.
4. Done: `RunAdvisory` around `ExpressionLoop`, and its proofs.
5. Done: `DecisionsAreKept`, and the variants of the two commands that must end.
6. Left: several dates and colliding run ids in `MorningLoop`; approval files torn by a kill.
7. Left: one instance that composes `SpreadGates` and `PaperTransport` (now the files of the second are a
   parameter, and `ReadyRowsAreSound` says what the first puts into them).
8. Not planned: the bus, the mock gates and the playbook classifiers (see section 5).
