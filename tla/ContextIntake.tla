---------------------------- MODULE ContextIntake ----------------------------
(***************************************************************************)
(* How vendor exports become candidate rows, twice.                        *)
(*                                                                         *)
(* The morning pipeline (pipeline/daily_pipeline.py) reads the staged      *)
(* files of its manifest one by one (ingest/staged_intake.py), takes SPY   *)
(* rows it still lacks from the raw sessions, builds the candidates        *)
(* (backtest/spotgamma_replay_builder.py), joins the gamma of the squeeze  *)
(* rows and gates the context (risk/guard_runner.py).                      *)
(*                                                                         *)
(* The replay commands export the whole corpus to a sample CSV             *)
(* (examples/spotgamma_replay_corpus.py), which a second command turns     *)
(* into candidates (examples/spotgamma_to_replay_candidates.py).           *)
(*                                                                         *)
(* Meanwhile exports arrive: in the raw tree, and in staging, where a      *)
(* later wake overwrites the file of the same name.                        *)
(*                                                                         *)
(* A file is a record of the name that is recognised in its path, its      *)
(* suffix, what its columns offer (`cols') and its rows of symbol, date    *)
(* and gamma.  Dates are numbers; Blank is an empty one, and NanDate what  *)
(* an empty one reads as once it has been through a CSV.                   *)
(*                                                                         *)
(* A table is the set of its rows.  The code keeps lists and now and then  *)
(* asks for the first or the last row, so a row has its place (`at'):      *)
(* folder, file and line.  The staged and the weekly files come first,     *)
(* then the histories, then the sessions by day.                           *)
(***************************************************************************)
EXTENDS Integers, FiniteSets, Sequences

CONSTANTS
  None,        \* nothing: no file, an empty cell, no row
  Session,     \* date of the morning run, in the name of its staged files
  Days,        \* dates of the raw session folders
  Packets,     \* sequences of staged paths a manifest may list
  Stagings,    \* what staging may hold: functions from path to file or None
  Exports,     \* files a later wake may stage
  Trees,       \* raw trees: weekly and history files, sessions by day
  Samples,     \* corpus CSVs of earlier days, or None
  MaxArrivals  \* bound: changes of staging and of the tree

Blank == 0
NanDate == -1

\* Folders in the order they are read; a session folder is its day.
Listed == -1
Histories == 0

ASSUME DatesAssumption ==
  Session \in Days /\ Days # {Session} /\ Days \subseteq Nat \ {Blank} /\ IsFiniteSet(Days)

IsSequence(s) == Len(s) \in Nat /\ DOMAIN s = 1..Len(s)

IsFile(f) == IsSequence(f.rows) /\ \A n \in DOMAIN f.rows : f.rows[n].date \in Nat

ASSUME FilesAssumption ==
  /\ \A d \in Stagings : \A p \in DOMAIN d : d[p] = None \/ IsFile(d[p])
  /\ \A f \in Exports : IsFile(f)
  /\ \A t \in Trees :
       /\ IsSequence(t.weekly) /\ \A k \in DOMAIN t.weekly : IsFile(t.weekly[k])
       /\ IsSequence(t.history)
       /\ \A k \in DOMAIN t.history : IsFile(t.history[k].file) /\ t.history[k].day \in Nat
       /\ \A d \in Days : LET s == t.sessions[d] IN
            /\ IsSequence(s.scanners)
            /\ \A k \in DOMAIN s.scanners : IsFile(s.scanners[k])
            /\ s.spy = None \/ IsFile(s.spy)

ASSUME PacketsAssumption ==
  \A packet \in Packets :
    IsSequence(packet) /\ \A d \in Stagings, k \in DOMAIN packet : packet[k] \in DOMAIN d

ASSUME ArrivalsAssumption == MaxArrivals \in Nat

VARIABLES
  tree,      \* data/spotgamma/raw and processed
  staging,   \* data/spotgamma/staging
  arrivals,  \* changes of the two so far
  packet,    \* staged_files of the manifest
  stage,     \* how far the morning run is
  next,      \* the staged file it reads next
  contexts,  \* context rows read so far, then the context CSV
  raw,       \* rows of the raw tree, read and not yet merged
  table,     \* candidates with gamma and gate; {} before they are built
  sample,    \* the corpus CSV: its rows, and whether it has source_profile
  replay     \* replay candidates last converted, or None

morning == <<packet, stage, next, contexts, raw, table>>
corpus == <<sample, replay>>
vars == <<tree, staging, arrivals, morning, corpus>>

-----------------------------------------------------------------------------
(* Recognising a file                                                      *)

Scanners == {"squeeze", "vrp", "reverse_vrp"}
Market == {"spy_history", "spy_excel"}

\* detect_xlsx_profile: the name decides where the columns allow it, and the
\* columns alone for a file of another name.
ScannerProfile(f) ==
  LET squeezy == {"gamma", "volume"} \subseteq f.cols
      levels == "levels" \in f.cols
      vol == "vol" \in f.cols
  IN CASE "symbol" \notin f.cols -> "unmatched"
       [] "symbol" \in f.cols /\ f.name = "squeeze" /\ (squeezy \/ levels) -> "squeeze"
       [] "symbol" \in f.cols /\ f.name \in Scanners \ {"squeeze"} /\ (vol \/ levels) -> f.name
       [] OTHER -> IF vol THEN "vrp" ELSE IF squeezy THEN "squeeze" ELSE "unmatched"

\* What reading a file finds.  A workbook that is cut short is no ValueError, so
\* those who skip an unmatched file do not skip it.
Kind(f) ==
  CASE f = None -> "gone"
    [] f # None /\ f.name = "morning_regime" -> "narrative"
    [] f # None /\ f.name # "morning_regime" /\ f.suffix = "csv" ->
         (IF "market" \in f.cols THEN "spy_history"
          ELSE IF {"profile", "symbol"} \subseteq f.cols THEN "processed_weekly"
          ELSE "unmatched")
    [] OTHER ->
         IF f.suffix = "xls" \/ "cut" \in f.cols THEN "corrupt"
         ELSE IF f.name \in {"spx", "spy"}
         THEN IF "market" \in f.cols THEN "spy_excel" ELSE "unmatched"
         ELSE ScannerProfile(f)

Row(symbol, date, profile, gamma, origin, at) ==
  [symbol |-> symbol, date |-> date, profile |-> profile, gamma |-> gamma,
   origin |-> origin, at |-> at]

Profiles == Scanners \cup Market \cup {"processed_weekly"}

IsRow(r) ==
  /\ r = Row(r.symbol, r.date, r.profile, r.gamma, r.origin, r.at)
  /\ r.profile \in Profiles /\ r.date \in Nat \cup {NanDate}
  /\ r.origin \in {"staged", "processed", "raw"}
  /\ r.at \in Int \X Int \X Int

\* context_from_spy_market_row: the date of the row, or else that of the path.
MarketRows(f, profile, day, origin, folder, k) ==
  {Row("SPY", IF f.rows[n].date # Blank THEN f.rows[n].date ELSE day, profile,
       f.rows[n].gamma, origin, <<folder, k, n>>) : n \in DOMAIN f.rows}

\* Mutant: rows without a symbol are kept.
AllScannerRows(f, profile, day, origin, folder, k) ==
  {Row(f.rows[n].symbol, day, profile, f.rows[n].gamma, origin, <<folder, k, n>>) :
     n \in DOMAIN f.rows}

\* A scanner row is dated by its session, whatever it says; one without a symbol
\* is left out.
ScannerRows(f, profile, day, origin, folder, k) ==
  {Row(f.rows[n].symbol, day, profile, f.rows[n].gamma, origin, <<folder, k, n>>) :
     n \in {m \in DOMAIN f.rows : f.rows[m].symbol # None}}

\* context_from_processed_row reads the date with str().
WeeklyRows(f, origin, k) ==
  {Row(f.rows[n].symbol, IF f.rows[n].date = Blank THEN NanDate ELSE f.rows[n].date,
       "processed_weekly", f.rows[n].gamma, origin, <<Listed, k, n>>) : n \in DOMAIN f.rows}

Loadable(f) == Kind(f) \notin {"gone", "unmatched", "corrupt"}

\* _load_one_staged_file, for the k-th file of the packet.
StagedRows(f, k) ==
  CASE Kind(f) = "narrative" -> {}
    [] Kind(f) \in Market -> MarketRows(f, Kind(f), Session, "staged", Listed, k)
    [] Kind(f) = "processed_weekly" -> WeeklyRows(f, "staged", k)
    [] OTHER -> ScannerRows(f, Kind(f), Session, "staged", Listed, k)

-----------------------------------------------------------------------------
(* The raw tree                                                            *)

\* `days' filters the rows of the histories by their own date; all of Days stands
\* for no filter.
HistoryRows(t, days) ==
  {r \in UNION {MarketRows(t.history[k].file, "spy_history", t.history[k].day, "raw",
                           Histories, k) : k \in DOMAIN t.history} :
     r.date \in days \/ days = Days}

\* load_session_spy_excel_context: a file of other columns is reported, not read.
SessionSpyRows(s, day) ==
  IF Kind(s.spy) = "spy_excel"
  THEN MarketRows(s.spy, "spy_excel", day, "raw", day, Len(s.scanners) + 1) ELSE {}

SessionRows(s, day) ==
  SessionSpyRows(s, day) \cup
  UNION {ScannerRows(s.scanners[k], Kind(s.scanners[k]), day, "raw", day, k) :
           k \in {m \in DOMAIN s.scanners : Kind(s.scanners[m]) \in Scanners}}

\* load_raw_profile_contexts
RawRows(t, days) ==
  HistoryRows(t, days) \cup UNION {SessionRows(t.sessions[d], d) : d \in days}

\* It raises on any history it cannot read, and on a workbook cut short.
RawLoads(t, days) ==
  /\ \A k \in DOMAIN t.history : Kind(t.history[k].file) = "spy_history"
  /\ \A d \in days :
       /\ Kind(t.sessions[d].spy) # "corrupt"
       /\ \A k \in DOMAIN t.sessions[d].scanners : Kind(t.sessions[d].scanners[k]) # "corrupt"

AllWeeklyRows(t) ==
  UNION {WeeklyRows(t.weekly[k], "processed", k) : k \in DOMAIN t.weekly}

\* Mutant: the raw sessions are read only if there are no weekly files.
CorpusOfWeeklies(t, includeRaw, rawOnly, days) ==
  (IF rawOnly THEN {} ELSE AllWeeklyRows(t))
  \cup (IF includeRaw /\ t.weekly = <<>> THEN RawRows(t, days) ELSE {})

\* build_context_corpus
Corpus(t, includeRaw, rawOnly, days) ==
  (IF rawOnly THEN {} ELSE AllWeeklyRows(t))
  \cup (IF includeRaw THEN RawRows(t, days) ELSE {})

CorpusLoads(t, includeRaw, rawOnly, days) ==
  /\ includeRaw => RawLoads(t, days)
  /\ ~includeRaw => days = Days
  /\ ~rawOnly => \A k \in DOMAIN t.weekly : Kind(t.weekly[k]) = "processed_weekly"

-----------------------------------------------------------------------------
(* Candidates                                                              *)

Precedes(r, s) ==
  \E i \in 1..3 : r.at[i] < s.at[i] /\ \A j \in 1..(i - 1) : r.at[j] = s.at[j]

\* The last of some rows, as a set: {} if there are none.
Last(rows) == {r \in rows : \A s \in rows : ~Precedes(r, s)}

\* Mutant: the last SPY row of any date will do.
SpyOfAnyDate(rows, date) == Last({r \in rows : r.profile \in Market})

\* build_spy_context_by_date: the last row of the date, a spy_excel one if any.
SpyOf(rows, date) ==
  LET of(profile) == {r \in rows : r.profile = profile /\ r.date = date /\ date # Blank}
  IN Last(IF of("spy_excel") # {} THEN of("spy_excel") ELSE of("spy_history"))

IsCandidate(r) == r.profile \in Scanners \cup {"processed_weekly"}

\* An old corpus CSV was written by the same export: what it holds of scanner and
\* weekly rows is dated.
ASSUME SamplesAssumption ==
  \A s \in Samples : s # None =>
    \A r \in s.rows : IsRow(r) /\ (IsCandidate(r) => r.date # Blank)

\* _build_one_candidate and _candidate_missing_fields
Candidate(r, rows) ==
  LET spy == SpyOf(rows, r.date) IN
  [row |-> r, spy |-> spy,
   gaps |-> {g \in {"spy_context", "gamma_ratio"} :
               IF g = "spy_context" THEN r.profile # "reverse_vrp" /\ spy = {}
               ELSE r.gamma = None /\ r.profile \notin {"vrp", "reverse_vrp"}}]

Candidates(rows) == {Candidate(r, rows) : r \in {x \in rows : IsCandidate(x)}}

\* The squeeze rows whose gamma may be joined, whatever their date.
SqueezeOf(cands, symbol) ==
  {r \in {c.row : c \in cands} :
     r.profile = "squeeze" /\ r.symbol = symbol /\ r.gamma # None}

JoinedGamma(cands, c) ==
  LET squeezes == SqueezeOf(cands, c.row.symbol) IN
  IF c.row.profile \in {"vrp", "reverse_vrp"} /\ squeezes # {}
  THEN (CHOOSE r \in Last(squeezes) : TRUE).gamma
  ELSE c.row.gamma

\* The gaps hydrate_morning_replay_candidates writes in place of those of the
\* candidate: a squeeze row without gamma has none.
LabelGaps(c) ==
  {g \in {"spy_context", "gamma_ratio"} :
     IF g = "spy_context" THEN c.row.profile # "reverse_vrp" /\ c.spy = {}
     ELSE c.row.profile = "processed_weekly" /\ c.row.gamma = None}

\* One labelled row, with _context_gate_labels.
Labelled(cands, c) ==
  [row |-> c.row, spy |-> c.spy, gamma |-> JoinedGamma(cands, c),
   gate |-> IF LabelGaps(c) = {} THEN "CONTEXT_PASS" ELSE "CONTEXT_INCOMPLETE"]

-----------------------------------------------------------------------------
(* The morning run                                                         *)

\* load_contexts_from_staged_files up to its merge: a path is read once, and one
\* file that cannot be read ends the run.
Load ==
  /\ stage = "loading" /\ next <= Len(packet)
  /\ UNCHANGED <<tree, staging, arrivals, packet, raw, table, corpus>>
  /\ LET f == staging[packet[next]] IN
     IF \E k \in 1..(next - 1) : packet[k] = packet[next]
     THEN UNCHANGED <<stage, contexts>>
     ELSE IF Loadable(f)
     THEN contexts' = contexts \cup StagedRows(f, next) /\ UNCHANGED stage
     ELSE stage' = "failed" /\ UNCHANGED contexts
  /\ next' = next + 1

\* _merge_spy_from_raw_sessions reads the raw tree ...
ReadRaw ==
  /\ stage = "loading" /\ next > Len(packet)
  /\ IF RawLoads(tree, {Session})
     THEN raw' = RawRows(tree, {Session}) /\ stage' = "merging"
     ELSE stage' = "failed" /\ UNCHANGED raw
  /\ UNCHANGED <<tree, staging, arrivals, packet, next, contexts, table, corpus>>

HasSpyOf(rows, date) == \E r \in rows : r.profile \in Market /\ r.date = date

\* Mutant: a date may be filled more than once.
AddSpyAgain(rows, r) == IF r.profile \in Market THEN rows \cup {r} ELSE rows

\* Mutant: the raw scanner rows are merged like the SPY rows.
AddRow(rows, r) == IF ~HasSpyOf(rows, r.date) THEN rows \cup {r} ELSE rows

AddSpy(rows, r) ==
  IF r.profile \in Market /\ r.date # Blank /\ ~HasSpyOf(rows, r.date)
  THEN rows \cup {r} ELSE rows

\* ... and goes through its rows one by one.
Merge ==
  /\ stage = "merging"
  /\ \E r \in raw :
       /\ \A s \in raw : ~Precedes(s, r)
       /\ contexts' = AddSpy(contexts, r)
       /\ raw' = raw \ {r}
  /\ UNCHANGED <<tree, staging, arrivals, packet, stage, next, table, corpus>>

\* The candidates of the context CSV, joined and gated.
Build ==
  /\ stage = "merging" /\ raw = {}
  /\ LET cands == Candidates(contexts)
     IN table' = {Labelled(cands, c) : c \in cands}
  /\ stage' = "built"
  /\ UNCHANGED <<tree, staging, arrivals, packet, next, contexts, raw, corpus>>

-----------------------------------------------------------------------------
(* The replay commands                                                     *)

\* Mutant: spy_excel is a profile the conversion does not know.
ThroughOldCsv(r) ==
  [r EXCEPT !.profile = IF r.profile = "spy_excel" THEN "processed_weekly" ELSE r.profile]

\* A date that is empty reads as the text nan after a CSV, and is one more date.
ThroughCsv(r) == [r EXCEPT !.date = IF r.date = Blank THEN NanDate ELSE r.date]

\* examples/spotgamma_replay_corpus.py; an empty corpus leaves the old file.
Export(includeRaw, rawOnly, days) ==
  /\ CorpusLoads(tree, includeRaw, rawOnly, days)
  /\ LET rows == Corpus(tree, includeRaw, rawOnly, days)
     IN /\ rows # {}
        /\ sample' = [profiled |-> TRUE, rows |-> rows]
  /\ UNCHANGED <<tree, staging, arrivals, morning, replay>>

\* assess_context_csv_freshness
IsFresh(s) ==
  s.profiled /\ \E r \in s.rows : r.profile \in Scanners \cup Market

Read(s) == {ThroughCsv(r) : r \in s.rows}

\* A conversion without candidates leaves the old file.
Convert(source, rows, whole) ==
  /\ Candidates(rows) # {}
  /\ replay' = [source |-> source, table |-> Candidates(rows), whole |-> whole]
  /\ UNCHANGED <<tree, staging, arrivals, morning, sample>>

\* _resolve_contexts on a sample: fresh, or stale and allowed.
ConvertSample(allowStale) ==
  /\ sample # None /\ (IsFresh(sample) \/ allowStale)
  /\ Convert(IF IsFresh(sample) THEN "fresh_csv" ELSE "stale_csv", Read(sample), FALSE)

\* rebuild_fresh_context, when there is no sample or a stale one.
Rebuild(rawOnly, days) ==
  /\ sample # None => ~IsFresh(sample)
  /\ CorpusLoads(tree, TRUE, rawOnly, days)
  /\ Convert("ingest_rebuild", Corpus(tree, TRUE, rawOnly, days), days = Days)

-----------------------------------------------------------------------------
(* Exports that arrive, and the specification                              *)

Arrive ==
  /\ arrivals < MaxArrivals
  /\ tree' \in Trees \ {tree}
  /\ arrivals' = arrivals + 1
  /\ UNCHANGED <<staging, morning, corpus>>

Restage ==
  /\ arrivals < MaxArrivals
  /\ \E p \in DOMAIN staging, f \in Exports :
       /\ staging[p] # None /\ f # staging[p]
       /\ f.name = staging[p].name /\ f.suffix = staging[p].suffix
       /\ staging' = [staging EXCEPT ![p] = f]
  /\ arrivals' = arrivals + 1
  /\ UNCHANGED <<tree, morning, corpus>>

Init ==
  /\ tree \in Trees /\ staging \in Stagings /\ packet \in Packets
  /\ arrivals = 0
  /\ stage = "loading" /\ next = 1 /\ contexts = {} /\ raw = {} /\ table = {}
  /\ sample \in Samples /\ replay = None

Morning == Load \/ ReadRaw \/ Merge \/ Build

Commands ==
  \/ \E days \in {Days, {Session}}, rawOnly \in BOOLEAN :
       Rebuild(rawOnly, days) \/ \E includeRaw \in BOOLEAN : Export(includeRaw, rawOnly, days)
  \/ \E allowStale \in BOOLEAN : ConvertSample(allowStale)

Next == Morning \/ Commands \/ Arrive \/ Restage

Spec == Init /\ [][Next]_vars
-----------------------------------------------------------------------------
(* What candidates may rely on                                             *)

TypeOK ==
  /\ tree \in Trees /\ packet \in Packets
  /\ \E d \in Stagings : DOMAIN staging = DOMAIN d
  /\ \A p \in DOMAIN staging : staging[p] = None \/ IsFile(staging[p])
  /\ stage \in {"loading", "merging", "built", "failed"}
  /\ next \in 1..(Len(packet) + 1) /\ arrivals \in 0..MaxArrivals
  /\ \A r \in contexts \cup raw : IsRow(r)
  /\ \A r \in contexts : IsCandidate(r) /\ r.profile # "processed_weekly" => r.symbol # None
  /\ stage # "built" => table = {}
  /\ stage # "merging" => raw = {}

\* A row passes the context gate exactly if the context CSV of its run has SPY
\* data of its own date, from whichever file and however late it was found; a
\* reverse_vrp row needs none, and a weekly row needs a gamma too.
GateIsExact ==
  \A c \in table :
    LET r == c.row IN
    c.gate = "CONTEXT_PASS" <=>
      /\ r.profile = "reverse_vrp" \/ HasSpyOf(contexts, r.date)
      /\ r.profile = "processed_weekly" => r.gamma # None

\* The gamma of a labelled row was exported for its symbol: neither SPY's, nor
\* another symbol's (hydrate_morning_replay_candidates: "no SPX->single-name
\* inference").
GammaIsTheSymbols ==
  \A c \in table : c.gamma # None =>
    \E r \in contexts :
      IsCandidate(r) /\ r.symbol = c.row.symbol /\ r.gamma = c.gamma

\* The labels of a row are those of its own symbol and date.
LabelsAreExact == GateIsExact /\ GammaIsTheSymbols

\* Of the raw tree a morning run takes SPY rows only, for dates the staged files
\* lack, and one for each: old histories, the session workbook and the staged file
\* may all have the date.
RawFillsGapsOnce ==
  \A r \in contexts : r.origin = "raw" =>
    /\ r.profile \in Market
    /\ \A s \in contexts \ {r} : ~(s.profile \in Market /\ s.date = r.date)

\* Only what was staged becomes a candidate of the run, and all of it does, whatever
\* the raw sessions hold.
CandidatesAreTheStaged ==
  stage = "built" =>
    {c.row : c \in table} = {r \in contexts : IsCandidate(r) /\ r.origin = "staged"}

\* A date whose SPY data the morning run found in the raw tree has SPY data in a
\* replay of that tree: two readers with two filters and two orders.
ReplayKnowsAsMuch ==
  (arrivals = 0 /\ replay # None) => (replay.whole =>
    \A c \in table : (\E s \in c.spy : s.origin = "raw") =>
      \A d \in replay.table : d.row.date = c.row.date => d.spy # {})

\* Candidates come out of the sample CSV as they would have without it, but for the
\* SPY data of rows without a date.
CsvKeepsCandidates ==
  sample # None =>
    LET direct == Candidates(sample.rows)
        read == Candidates(Read(sample))
        Dated(cands) == {c \in cands : c.row.date # NanDate}
    IN /\ Dated(direct) = Dated(read)
       /\ {c.row : c \in direct} = {c.row : c \in read}

=============================================================================
