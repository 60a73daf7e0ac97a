------------------------- MODULE RunAdvisory_proofs -------------------------
(***************************************************************************)
(* Proofs about RunAdvisory, for every sequence of notes, every override,  *)
(* every parsed note and any number of arrivals.                           *)
(*                                                                         *)
(* A step of this module is a step of ExpressionLoop or leaves its state   *)
(* alone, so the invariant of ExpressionLoop_proofs holds here as well.    *)
(* One more invariant says what stopped hydration, or that nothing did;    *)
(* the report of the advisory is then computed from it.                    *)
(***************************************************************************)
EXTENDS RunAdvisory, ExpressionLoop_proofs

-----------------------------------------------------------------------------
(* The run of ExpressionLoop                                               *)

\* What may stop hydration, but for the credentials.
OtherGaps == {"preflight_error", "import_error", "client_error",
              "alpaca_quote_hydration_incomplete"}

\* Marks of a hydration that stopped, and of one that looked for expressions.
Stopped(gap) == \A k \in DOMAIN marks : /\ marks[k].gap = gap
                                        /\ marks[k].loop = "PARKED_DATA_GAP"
Searched == \A k \in DOMAIN marks :
  /\ marks[k].gap \in {"", "no_viable_expression_after_search"}
  /\ marks[k].loop \in Selected \cup {"NO_VIABLE_EXPRESSION"}

AdvisoryInv ==
  /\ IInv
  /\ notes \in NoteSets /\ spy \in SpyTables
  /\ stage \in {"labelled", "hydrated", "audited", "advised"}
  /\ stage # "labelled" =>
       \/ \E gap \in OtherGaps \cup {"credential_error"} : Stopped(gap) /\ expressions = {}
       \/ Searched
  /\ stage # "advised" => advisory = None

LEMMA AdvisoryInitially == AdvisoryInit => AdvisoryInv
<1> SUFFICES ASSUME AdvisoryInit PROVE AdvisoryInv
  OBVIOUS
<1>1. Init /\ notes \in NoteSets /\ spy \in SpyTables /\ advisory = None
  BY DEF AdvisoryInit
<1>2. IInv /\ stage = "labelled"
  BY <1>1, InitIInv DEF Init
<1> QED
  BY <1>1, <1>2 DEF AdvisoryInv

\* What a hydration writes into the marks and the CSV.
LEMMA HydrationMarks ==
  ASSUME HydrateWithoutClient \/ HydrateWithoutQuotes \/ Hydrate, IInv
  PROVE  \/ \E gap \in OtherGaps \cup {"credential_error"} : Stopped(gap)' /\ expressions' = {}
         \/ Searched'
<1>1. expressions = {}
  BY DEF HydrateWithoutClient, HydrateWithoutQuotes, Hydrate, IInv
<1>2. CASE HydrateWithoutClient \/ HydrateWithoutQuotes
  <2>1. PICK gap \in OtherGaps \cup {"credential_error"} : \E hydration :
          marks' = [k \in DOMAIN board |->
                      Mark("PARKED_DATA_GAP", hydration, None, None, gap)]
    BY <1>2 DEF HydrateWithoutClient, HydrateWithoutQuotes, Everywhere, ClientGaps, OtherGaps
  <2>2. Stopped(gap)' /\ expressions' = {}
    BY <1>1, <1>2, <2>1 DEF HydrateWithoutClient, HydrateWithoutQuotes, Mark, Stopped
  <2> QED BY <2>2
<1>3. CASE Hydrate
  <2>1. PICK chain \in Chains :
          marks' = [k \in DOMAIN board |->
                      MarkFor({x \in Expressions(board, chain) : x.row = k})]
    BY <1>3 DEF Hydrate
  <2>2. \A mine :
          /\ MarkFor(mine).gap \in {"", "no_viable_expression_after_search"}
          /\ MarkFor(mine).loop \in Selected \cup {"NO_VIABLE_EXPRESSION"}
    BY DEF MarkFor, Mark, Selected
  <2>3. Searched'
    BY <2>1, <2>2 DEF Searched
  <2> QED BY <2>3
<1> QED
  BY <1>2, <1>3

\* The inputs that arrive are notes and spy rows the instance allows.
LEMMA InputsAllowed ==
  ASSUME AdvisoryInv, [AdvisoryNext]_advisoryVars
  PROVE  notes' \in NoteSets /\ spy' \in SpyTables
BY DEF AdvisoryInv, AdvisoryNext, Run, Inputs, HydrateRun, GuardRun, AdviseRun, RunRaises,
       DropNotes, WriteOverride, ParseBegins, ParseEnds, RemovePrivate, inputs, advisoryVars

\* What a step does to the run of ExpressionLoop and to the advisory.
LEMMA StepKinds ==
  ASSUME [AdvisoryNext]_advisoryVars
  PROVE  \/ (HydrateWithoutClient \/ HydrateWithoutQuotes \/ Hydrate) /\ advisory' = advisory
         \/ AuditReplay /\ advisory' = advisory
         \/ AdviseRun
         \/ UNCHANGED <<vars, advisory>>
BY DEF AdvisoryNext, Run, Inputs, HydrateRun, GuardRun, RunRaises,
       DropNotes, WriteOverride, ParseBegins, ParseEnds, RemovePrivate, inputs, advisoryVars

LEMMA AdvisoryStep == AdvisoryInv /\ [AdvisoryNext]_advisoryVars => AdvisoryInv'
<1> SUFFICES ASSUME AdvisoryInv, [AdvisoryNext]_advisoryVars PROVE AdvisoryInv'
  OBVIOUS
<1>1. notes' \in NoteSets /\ spy' \in SpyTables
  BY InputsAllowed
<1>2. IInv
  BY DEF AdvisoryInv
<1>3. CASE (HydrateWithoutClient \/ HydrateWithoutQuotes \/ Hydrate) /\ advisory' = advisory
  <2>1. IInv'
    BY <1>2, <1>3, HydrationKeeps
  <2>2. \/ \E gap \in OtherGaps \cup {"credential_error"} : Stopped(gap)' /\ expressions' = {}
        \/ Searched'
    BY <1>2, <1>3, HydrationMarks
  <2>3. stage = "labelled" /\ stage' = "hydrated"
    BY <1>3 DEF HydrateWithoutClient, HydrateWithoutQuotes, Hydrate
  <2> QED BY <1>1, <1>3, <2>1, <2>2, <2>3 DEF AdvisoryInv
<1>4. CASE AuditReplay /\ advisory' = advisory
  <2>1. IInv'
    BY <1>2, <1>4, AuditKeeps
  <2>2. stage = "hydrated" /\ stage' = "audited" /\ UNCHANGED <<marks, expressions>>
    BY <1>4 DEF AuditReplay
  <2> QED BY <1>1, <1>4, <2>1, <2>2 DEF AdvisoryInv, Stopped, Searched
<1>5. CASE AdviseRun
  <2>1. IInv'
    BY <1>2, <1>5, AuditKeeps DEF AdviseRun
  <2>2. stage = "audited" /\ stage' = "advised" /\ UNCHANGED <<marks, expressions>>
    BY <1>5 DEF AdviseRun, Advise
  <2> QED BY <1>1, <2>1, <2>2 DEF AdvisoryInv, Stopped, Searched
<1>6. CASE UNCHANGED <<vars, advisory>>
  <2>1. IInv'
    BY <1>2, <1>6, StutterKeeps
  <2>2. UNCHANGED <<stage, marks, expressions, advisory>>
    BY <1>6 DEF vars, run
  <2> QED BY <1>1, <2>1, <2>2 DEF AdvisoryInv, Stopped, Searched
<1> QED
  BY <1>3, <1>4, <1>5, <1>6, StepKinds

\* The run of ExpressionLoop keeps its invariant while notes arrive around it.
THEOREM AdvisoryInvariant == AdvisorySpec => []AdvisoryInv
BY AdvisoryInitially, AdvisoryStep, PTL DEF AdvisorySpec

\* The statuses a lane may have.
LEMMA LaneValuesType ==
  /\ \A note, required : LaneStatus(note, required) \in LaneValues
  /\ \A found : \A lane \in LaneValues : MorningMacro(lane, found) \in LaneValues
BY DEF LaneStatus, MorningMacro, LaneValues

\* Inputs, run and advisory have the values the code writes.
THEOREM AdvisoryTypeCorrect == AdvisorySpec => []AdvisoryTypeOK
<1>1. AdvisoryInit => AdvisoryTypeOK
  <2> SUFFICES ASSUME AdvisoryInit PROVE AdvisoryTypeOK
    OBVIOUS
  <2>1. advisory = None /\ changes \in 0..MaxChanges
    BY ChangesAssumption DEF AdvisoryInit
  <2>2. notes \in NoteSets /\ override = None /\ torn = {} /\ raised = FALSE
    BY DEF AdvisoryInit
  <2> QED BY <2>1, <2>2 DEF AdvisoryTypeOK
<1>2. AdvisoryTypeOK /\ AdvisoryInv /\ AdvisoryInv' /\ [AdvisoryNext]_advisoryVars
        => AdvisoryTypeOK'
  <2> SUFFICES ASSUME AdvisoryTypeOK, AdvisoryInv, AdvisoryInv', [AdvisoryNext]_advisoryVars
               PROVE  AdvisoryTypeOK'
    OBVIOUS
  <2>1. /\ notes' \in NoteSets
        /\ stage' # "advised" => advisory' = None
    BY DEF AdvisoryInv
  <2>2. /\ override' \in Overrides \cup {None}
        /\ torn' \subseteq Sources /\ changes' \in 0..MaxChanges /\ raised' \in BOOLEAN
    <3>1. CASE Run \/ UNCHANGED advisoryVars
      BY <3>1 DEF AdvisoryTypeOK, Run, HydrateRun, GuardRun, AdviseRun, RunRaises, inputs,
                  advisoryVars
    <3>2. Arrival => changes' \in 0..MaxChanges
      BY ChangesAssumption DEF Arrival, AdvisoryTypeOK
    <3>3. CASE DropNotes \/ WriteOverride
      BY <3>2, <3>3 DEF AdvisoryTypeOK, DropNotes, WriteOverride
    <3>4. ASSUME NEW source \in Sources,
                 ParseBegins(source) \/ ParseEnds(source) \/ RemovePrivate(source)
          PROVE  /\ override' = override /\ raised' = raised
                 /\ torn' \subseteq Sources /\ changes' \in 0..MaxChanges
      BY <3>2, <3>4 DEF AdvisoryTypeOK, ParseBegins, ParseEnds, RemovePrivate
    <3>5. CASE Inputs
      BY <3>3, <3>4, <3>5 DEF Inputs, AdvisoryTypeOK
    <3> QED BY <3>1, <3>5 DEF AdvisoryNext
  <2>3. advisory' # None => /\ \A lane \in LaneNames : advisory'.lanes[lane] \in LaneValues
                            /\ "view_readiness" \in advisory'.next
    <3>1. CASE AdviseRun
      <4>1. /\ advisory'.lanes = MorningLanes
            /\ advisory'.next = NextActions(MorningLanes, HydrationStatus)
        BY <3>1 DEF AdviseRun, Report
      <4>2. \A lane \in LaneNames : Lanes[lane] \in LaneValues
        BY LaneValuesType DEF Lanes
      <4>3. ASSUME NEW lane \in LaneNames PROVE MorningLanes[lane] \in LaneValues
        <5>1. MorningMacro(Lanes["macro_context"], Resolution(notes, override).audit)
                \in LaneValues
          BY <4>2, LaneValuesType DEF LaneNames
        <5>2. DOMAIN Lanes = LaneNames
          BY DEF Lanes
        <5> QED BY <4>2, <5>1, <5>2 DEF MorningLanes
      <4>4. "view_readiness" \in advisory'.next
        BY <4>1 DEF NextActions
      <4> QED BY <4>1, <4>3, <4>4
    <3>2. CASE advisory' = advisory
      BY <3>2 DEF AdvisoryTypeOK
    <3> QED BY <3>1, <3>2, StepKinds
  <2> QED BY <2>1, <2>2, <2>3 DEF AdvisoryTypeOK
<1> QED
  BY <1>1, <1>2, AdvisoryInvariant, PTL DEF AdvisorySpec

-----------------------------------------------------------------------------
(* The gamma regime                                                        *)

\* Of the rows that may be read one comes after all others.
LEMMA LastSnapIn ==
  ASSUME spy \in SpyTables, NEW S \in SUBSET DOMAIN spy, S # {}
  PROVE  \E n \in S : LastSnap(S) = spy[n]
<1>1. /\ DOMAIN spy = 1..Len(spy) /\ Len(spy) \in Nat
      /\ \A n \in S : n \in DOMAIN spy /\ n \in Nat /\ spy[n].date \in Int \cup {None}
  BY SpyAssumption
<1>2. /\ \A n \in S : ~Precedes(n, n)
      /\ \A l, m, n \in S : Precedes(l, m) /\ Precedes(m, n) => Precedes(l, n)
      /\ \A m, n \in S : Precedes(m, n) \/ Precedes(n, m) \/ m = n
  BY <1>1 DEF Precedes, Sooner
<1> DEFINE After(n) == {m \in S : Precedes(n, m)}
           F == {After(n) : n \in S}
<1>3. F # {} /\ \A A \in F : IsFiniteSet(A)
  <2>1. IsFiniteSet(DOMAIN spy)
    BY <1>1, FS_Interval
  <2>2. \A n \in S : After(n) \subseteq DOMAIN spy
    BY <1>1
  <2>3. \A A \in F : A \subseteq DOMAIN spy
    BY <2>2
  <2>4. \A A \in F : IsFiniteSet(A)
    <3> HIDE DEF F
    <3> QED BY <2>1, <2>3, FS_Subset
  <2>5. PICK n : n \in S
    OBVIOUS
  <2>6. After(n) \in F
    BY <2>5
  <2> QED BY <2>4, <2>6
<1>4. PICK A \in F : \A B \in F : B \subseteq A => B = A
  <2> HIDE DEF F
  <2> QED BY <1>3, SmallestSet
<1>5. PICK n \in S : A = After(n)
  BY <1>4
<1>6. ASSUME NEW m \in S, Precedes(n, m) PROVE FALSE
  <2>1. After(m) \subseteq After(n)
    BY <1>2, <1>6
  <2>2. After(m) = After(n)
    BY <2>1, <1>4, <1>5
  <2>3. m \in After(n) /\ m \notin After(m)
    BY <1>2, <1>6
  <2> QED BY <2>2, <2>3
<1>7. \A m \in S \ {n} : Precedes(m, n)
  BY <1>2, <1>6
<1>8. LastSnap(S) = spy[CHOOSE x \in S : \A m \in S \ {x} : Precedes(m, x)]
  BY DEF LastSnap
<1> QED
  BY <1>7, <1>8

\* The gamma ratio of the current snapshot is a number or missing.
LEMMA CurrentType ==
  ASSUME spy \in SpyTables
  PROVE  Current # None => Current.gamma \in Int \cup {None}
<1>1. CASE DOMAIN spy = {}
  BY <1>1 DEF Current, LastSnap
<1>2. CASE DOMAIN spy # {}
  <2>1. PICK n \in DOMAIN spy : Current = spy[n]
    BY <1>2, LastSnapIn DEF Current
  <2> QED BY <2>1, SpyAssumption
<1> QED
  BY <1>1, <1>2

\* Label and regime of one row, with or without a hedge wall.
LEMMA LabelIsRegime ==
  ASSUME NEW row, row # None => row.gamma \in Int \cup {None}, NEW before
  PROVE  /\ PreAmLabel(row) = GammaRegime(row)
         /\ Bias(row, before) = "SELECTIVE_LONG_DELTA" => ~NegativeGamma(row)
<1>1. BelowHedge(row) \in BOOLEAN
  BY DEF BelowHedge
<1>2. CASE row = None
  BY <1>2 DEF PreAmLabel, GammaRegime, Bias, NegativeGamma
<1>3. CASE row # None /\ row.gamma = None
  <2>1. GammaRegime(row) = "UNKNOWN_GAMMA_STATE" /\ PreAmLabel(row) = "UNKNOWN_GAMMA_STATE"
    BY <1>3 DEF GammaRegime, PreAmLabel
  <2>2. Bias(row, before) # "SELECTIVE_LONG_DELTA"
    BY <1>3, <2>1 DEF Bias
  <2> QED BY <2>1, <2>2
<1>4. CASE row # None /\ row.gamma # None
  <2>1. row.gamma \in Int
    BY <1>4
  <2>2. PreAmLabel(row) = GammaRegime(row)
    BY <1>1, <1>4, <2>1 DEF GammaRegime, PreAmLabel
  <2>3. ASSUME Bias(row, before) = "SELECTIVE_LONG_DELTA" PROVE ~NegativeGamma(row)
    <3>1. GammaRegime(row) = "POSITIVE_GAMMA_STABLE"
      BY <1>4, <2>3 DEF Bias
    <3>2. row.gamma >= 100 /\ ~BelowHedge(row)
      BY <1>1, <1>4, <2>1, <3>1 DEF GammaRegime
    <3> QED BY <2>1, <3>2 DEF NegativeGamma
  <2> QED BY <2>2, <2>3
<1> QED
  BY <1>2, <1>3, <1>4

\* The two modules that derive the gamma regime from the SPY rows agree, and long delta
\* is never advised in negative gamma.
THEOREM RegimesAlwaysAgree == AdvisorySpec => []RegimesAgree
<1>1. AdvisoryInit => RegimesAgree
  BY DEF AdvisoryInit, RegimesAgree
<1>2. RegimesAgree /\ AdvisoryInv /\ [AdvisoryNext]_advisoryVars => RegimesAgree'
  <2> SUFFICES ASSUME RegimesAgree, AdvisoryInv, [AdvisoryNext]_advisoryVars
               PROVE  RegimesAgree'
    OBVIOUS
  <2>1. CASE AdviseRun
    <3>1. Current # None => Current.gamma \in Int \cup {None}
      BY CurrentType DEF AdvisoryInv
    <3>2. /\ PreAmLabel(Current) = GammaRegime(Current)
          /\ Bias(Current, Prior) = "SELECTIVE_LONG_DELTA" => ~NegativeGamma(Current)
      BY <3>1, LabelIsRegime
    <3>3. /\ advisory'.label = PreAmLabel(Current) /\ advisory'.regime = GammaRegime(Current)
          /\ advisory'.bias = Bias(Current, Prior)
          /\ advisory'.negative = NegativeGamma(Current)
      BY <2>1 DEF AdviseRun, Report
    <3> QED BY <3>2, <3>3 DEF RegimesAgree
  <2>2. CASE advisory' = advisory
    BY <2>2 DEF RegimesAgree
  <2> QED BY <2>1, <2>2, StepKinds
<1> QED
  BY <1>1, <1>2, AdvisoryInvariant, PTL DEF AdvisorySpec

-----------------------------------------------------------------------------
(* The paper action                                                        *)

\* The audit of a morning run: its classes are context and labels.
LEMMA AuditOfRun ==
  ASSUME AdvisoryInv, stage = "audited"
  PROVE  /\ DOMAIN audit = DOMAIN board /\ DOMAIN marks = DOMAIN board
         /\ \A k \in DOMAIN board :
              /\ audit[k].class \in {"CONTEXT_INCOMPLETE", marks[k].loop}
              /\ board[k].context = "CONTEXT_PASS" => audit[k].class = marks[k].loop
<1>1. /\ audit = [k \in DOMAIN board |->
                  [symbol |-> board[k].symbol, class |-> Classification(board[k], marks[k])]]
      /\ board \in Boards /\ DOMAIN marks = DOMAIN board
  BY DEF AdvisoryInv, IInv, AuditOrigin
<1>2. \A k \in DOMAIN board : board[k].context \in Context
  BY <1>1, BoardsAssumption
<1> QED
  BY <1>1, <1>2 DEF Classification, Context

\* A replay row is never approved.
LEMMA NothingApproved ==
  ASSUME AdvisoryInv, stage = "audited"
  PROVE  ~Some("APPROVED_PAPER")
<1>1. (\E gap : Stopped(gap)) \/ Searched
  BY DEF AdvisoryInv
<1>2. \A k \in DOMAIN marks :
        marks[k].loop \in Selected \cup {"NO_VIABLE_EXPRESSION", "PARKED_DATA_GAP"}
  BY <1>1 DEF Stopped, Searched
<1> QED
  BY <1>2, AuditOfRun DEF Some, Selected

\* What the status of hydration says of a run with a row of complete context.
LEMMA StatusOfRun ==
  ASSUME AdvisoryInv, stage = "audited", NEW k \in DOMAIN board,
         board[k].context = "CONTEXT_PASS"
  PROVE  \/ /\ Stopped("credential_error")
            /\ CredentialParked /\ HydrationStatus = "PARKED_CREDENTIAL_ERROR"
         \/ /\ \E gap \in OtherGaps : Stopped(gap)
            /\ ~CredentialParked /\ HydrationStatus = "PARKED_DATA_GAP"
         \/ Searched /\ ~CredentialParked /\ HydrationStatus = "READY"
<1>1. k \in DOMAIN audit /\ k \in DOMAIN marks /\ audit[k].class = marks[k].loop
  BY AuditOfRun
<1>2. CASE Stopped("credential_error")
  <2>1. CredentialParked
    BY <1>1, <1>2 DEF CredentialParked, Stopped
  <2> QED BY <1>2, <2>1 DEF HydrationStatus
<1>3. CASE (\E gap \in OtherGaps : Stopped(gap)) /\ expressions = {}
  <2>1. ~CredentialParked /\ Some("PARKED_DATA_GAP")
    BY <1>1, <1>3, AuditOfRun DEF CredentialParked, OtherGaps, Stopped, Some
  <2>2. Attempted = {}
    BY <1>3 DEF Attempted
  <2> QED BY <1>3, <2>1, <2>2 DEF HydrationStatus
<1>4. CASE Searched
  <2>1. \A n \in DOMAIN audit :
          audit[n].class \in Selected \cup {"CONTEXT_INCOMPLETE", "NO_VIABLE_EXPRESSION"}
    BY <1>4, AuditOfRun DEF Searched
  <2>2. ~CredentialParked /\ ~Some("PARKED_DATA_GAP") /\ ~Some("HYDRATION_PENDING")
    BY <2>1 DEF CredentialParked, Some, Selected
  <2> QED BY <1>4, <2>2 DEF HydrationStatus
<1> QED
  BY <1>2, <1>3, <1>4 DEF AdvisoryInv

\* The paper action of a run without approved rows.
LEMMA ActionOfRun ==
  ASSUME ~Some("APPROVED_PAPER"), NEW hydration
  PROVE  LET action == PaperAction(hydration, Quality(Structure(hydration)))
         IN /\ action # "ALLOWED"
            /\ action = "WITHHELD_CREDENTIALS" <=> CredentialParked
            /\ action = "WITHHELD_DATA_GAP" <=>
                 ~CredentialParked /\ "PARKED_DATA_GAP" \in {hydration, Discovery(hydration)}
<1>1. \A structure : Quality(structure) # "PASS"
  <2>1. (Some("APPROVED_PAPER") /\ Evidence) = FALSE
    OBVIOUS
  <2> QED BY <2>1 DEF Quality
<1>2. CredentialParked \in BOOLEAN
  BY DEF CredentialParked
<1> QED
  BY <1>1, <1>2 DEF PaperAction

LEMMA AdviceFollowsCause ==
  ASSUME AdvisoryInv, AdviseRun
  PROVE  ActionFollowsCause'
<1>1. /\ stage = "audited" /\ UNCHANGED <<board, marks>>
      /\ advisory'.action = PaperAction(HydrationStatus, Quality(Structure(HydrationStatus)))
      /\ advisory'.next = NextActions(MorningLanes, HydrationStatus)
  BY DEF AdviseRun, Advise, Report
<1>2. ~Some("APPROVED_PAPER")
  BY <1>1, NothingApproved
<1>3. PaperStaysWithheld'
  BY <1>1, <1>2, ActionOfRun DEF PaperStaysWithheld
<1>4. ASSUME NEW k \in DOMAIN board, board[k].context = "CONTEXT_PASS"
      PROVE  LET stopped(gaps) == \E n \in DOMAIN marks : marks[n].gap \in gaps IN
             /\ advisory'.action = "WITHHELD_CREDENTIALS" <=> stopped({"credential_error"})
             /\ advisory'.action = "WITHHELD_DATA_GAP" <=> stopped(OtherGaps)
             /\ "diagnose_quote_hydration" \in advisory'.next
                  <=> stopped(OtherGaps \cup {"credential_error"})
  <2> DEFINE stopped(gaps) == \E n \in DOMAIN marks : marks[n].gap \in gaps
  <2>1. k \in DOMAIN marks /\ audit # <<>>
    BY <1>1, <1>4, AuditOfRun
  <2>2. "diagnose_quote_hydration" \in advisory'.next <=> HydrationStatus # "READY"
    BY <1>1 DEF NextActions
  <2>3. /\ advisory'.action = "WITHHELD_CREDENTIALS" <=> CredentialParked
        /\ advisory'.action = "WITHHELD_DATA_GAP" <=>
             /\ ~CredentialParked
             /\ "PARKED_DATA_GAP" \in {HydrationStatus, Discovery(HydrationStatus)}
    BY <1>1, <1>2, ActionOfRun
  <2>4. CASE /\ Stopped("credential_error")
             /\ CredentialParked /\ HydrationStatus = "PARKED_CREDENTIAL_ERROR"
    <3>1. stopped({"credential_error"}) /\ ~stopped(OtherGaps)
      BY <2>1, <2>4 DEF Stopped, OtherGaps
    <3> QED BY <2>2, <2>3, <2>4, <3>1
  <2>5. CASE /\ \E gap \in OtherGaps : Stopped(gap)
             /\ ~CredentialParked /\ HydrationStatus = "PARKED_DATA_GAP"
    <3>1. ~stopped({"credential_error"}) /\ stopped(OtherGaps)
      BY <2>1, <2>5 DEF Stopped, OtherGaps
    <3> QED BY <2>2, <2>3, <2>5, <3>1
  <2>6. CASE Searched /\ ~CredentialParked /\ HydrationStatus = "READY"
    <3>1. ~stopped({"credential_error"}) /\ ~stopped(OtherGaps)
      BY <2>6 DEF Searched, OtherGaps
    <3>2. Discovery("READY") = "READY"
      BY <2>1 DEF Discovery, Parked
    <3> QED BY <2>2, <2>3, <2>6, <3>1, <3>2
  <2> QED BY <1>1, <1>4, <2>4, <2>5, <2>6, StatusOfRun
<1>5. WithheldForCause'
  BY <1>1, <1>4 DEF WithheldForCause, OtherGaps
<1> QED
  BY <1>3, <1>5 DEF ActionFollowsCause

\* The paper action an advisory reports follows from what happened to its rows at
\* hydration, and is never to allow.
THEOREM ActionsFollowCauses == AdvisorySpec => []ActionFollowsCause
<1>1. AdvisoryInit => ActionFollowsCause
  BY DEF AdvisoryInit, ActionFollowsCause, PaperStaysWithheld, WithheldForCause
<1>2. ActionFollowsCause /\ AdvisoryInv /\ [AdvisoryNext]_advisoryVars => ActionFollowsCause'
  <2> SUFFICES ASSUME ActionFollowsCause, AdvisoryInv, [AdvisoryNext]_advisoryVars
               PROVE  ActionFollowsCause'
    OBVIOUS
  <2>1. CASE AdviseRun
    BY <2>1, AdviceFollowsCause
  <2>2. CASE advisory' = advisory /\ UNCHANGED vars
    BY <2>2 DEF ActionFollowsCause, PaperStaysWithheld, WithheldForCause, vars, run
  <2>3. CASE advisory' = None
    BY <2>3 DEF ActionFollowsCause, PaperStaysWithheld, WithheldForCause
  <2>4. stage \in {"labelled", "hydrated"} => advisory = None
    BY DEF AdvisoryInv
  <2>5. (HydrateWithoutClient \/ HydrateWithoutQuotes \/ Hydrate \/ AuditReplay) =>
          stage \in {"labelled", "hydrated"}
    BY DEF HydrateWithoutClient, HydrateWithoutQuotes, Hydrate, AuditReplay
  <2> QED BY <2>1, <2>2, <2>3, <2>4, <2>5, StepKinds
<1> QED
  BY <1>1, <1>2, AdvisoryInvariant, PTL DEF AdvisorySpec

-----------------------------------------------------------------------------
(* The macro lane                                                          *)

\* The first of some notes is one of them.
LEMMA FirstIsOne ==
  ASSUME NEW found \in NoteSets, NEW hits \in SUBSET DOMAIN found, hits # {}
  PROVE  (CHOOSE n \in hits : \A m \in hits : n <= m) \in hits
<1>1. hits \in SUBSET Nat
  BY NotesAssumption
<1>2. \E n \in hits : \A m \in hits : n <= m
  BY <1>1, LeastNumber
<1> QED
  BY <1>2

\* The note that decides is one of those found, and a sidecar if it is no workbook.
LEMMA DeciderIsFound ==
  ASSUME NEW found \in NoteSets, Decider(found) # None
  PROVE  \E n \in DOMAIN found : Decider(found) = found[n] /\ Decides(found[n])
<1> DEFINE cars == {n \in DOMAIN found : found[n].kind # "book" /\ Decides(found[n])}
           books == {n \in DOMAIN found : found[n].kind = "book" /\ Decides(found[n])}
           first(hits) == CHOOSE n \in hits : \A m \in hits : n <= m
<1>1. /\ cars # {} => first(cars) \in cars
      /\ books # {} => first(books) \in books
  BY FirstIsOne
<1>2. Decider(found) = LET sidecar == IF cars = {} THEN None ELSE found[first(cars)]
                           book == IF books = {} THEN None ELSE found[first(books)]
                       IN IF sidecar # None THEN sidecar ELSE book
  BY DEF Decider, FirstWhere
<1> QED
  BY <1>1, <1>2

\* What a status of the audit says of the note.
LEMMA ReadyResolution ==
  ASSUME NEW found \in NoteSets, NEW file,
         Resolution(found, file).audit = "MACRO_CONTEXT_READY"
  PROVE  /\ ~Overridden(file) /\ Decider(found) # None
         /\ Decider(found).kind # "book"
         /\ Decider(found).kind = "json" => ~Decider(found).old
<1>1. Overridden(file) \in BOOLEAN
  BY DEF Overridden
<1>2. CASE Overridden(file)
  BY <1>2 DEF Resolution
<1>3. CASE ~Overridden(file) /\ Decider(found) = None
  BY <1>3 DEF Resolution
<1>4. CASE ~Overridden(file) /\ Decider(found) # None
  BY <1>4 DEF Resolution
<1> QED
  BY <1>1, <1>2, <1>3, <1>4

\* The stored macro lane is ready without reserve only if a private note says so or, with
\* no private note, a complete sidecar that is not of an older date.
THEOREM ReadyLanesAreFounded == AdvisorySpec => ReadyIsFounded
<1>1. ASSUME AdvisoryInv, [AdvisoryNext]_advisoryVars, advisory' # advisory,
             advisory'.lanes["macro_context"] = "READY"
      PROVE  \/ Lanes["macro_context"] = "READY"
             \/ /\ ~Present("macro_context") /\ ~Overridden(override)
                /\ \E n \in DOMAIN notes :
                     /\ notes[n].kind # "book" /\ ~notes[n].broken /\ notes[n].complete
                     /\ notes[n].kind = "json" => ~notes[n].old
  <2>1. AdviseRun /\ notes \in NoteSets
    BY <1>1, StepKinds DEF AdvisoryInv
  <2>2. ~GateRaises /\ advisory'.lanes = MorningLanes
    BY <2>1 DEF AdviseRun, Report
  <2>3. MorningMacro(Lanes["macro_context"], Resolution(notes, override).audit) = "READY"
    BY <1>1, <2>2 DEF MorningLanes, Lanes, LaneNames
  <2>4. \/ Lanes["macro_context"] = "READY"
        \/ /\ Lanes["macro_context"] = "MISSING_NON_BLOCKING"
           /\ Resolution(notes, override).audit = "MACRO_CONTEXT_READY"
    BY <2>3 DEF MorningMacro
  <2>5. ASSUME Lanes["macro_context"] = "MISSING_NON_BLOCKING",
               Resolution(notes, override).audit = "MACRO_CONTEXT_READY"
        PROVE  /\ ~Present("macro_context") /\ ~Overridden(override)
               /\ \E n \in DOMAIN notes :
                    /\ notes[n].kind # "book" /\ ~notes[n].broken /\ notes[n].complete
                    /\ notes[n].kind = "json" => ~notes[n].old
    <3>1. Lanes["macro_context"] = LaneStatus(Loaded(SourceOf("macro_context")),
                                              Required("macro_context"))
      BY DEF Lanes, LaneNames
    <3>2. ~Present("macro_context")
      BY <2>5, <3>1 DEF LaneStatus, Present
    <3>3. /\ ~Overridden(override) /\ Decider(notes) # None
          /\ Decider(notes).kind # "book"
          /\ Decider(notes).kind = "json" => ~Decider(notes).old
      BY <2>1, <2>5, ReadyResolution
    <3>4. PICK n \in DOMAIN notes : Decider(notes) = notes[n] /\ Decides(notes[n])
      BY <2>1, <3>3, DeciderIsFound
    <3>5. ~Raises(notes[n])
      BY <2>2, <3>3, <3>4 DEF GateRaises
    <3>6. ~notes[n].broken /\ notes[n].complete
      BY <3>4, <3>5 DEF Decides
    <3> QED BY <3>2, <3>3, <3>4, <3>6
  <2> QED BY <2>4, <2>5
<1>2. AdvisoryInv /\ [AdvisoryNext]_advisoryVars =>
        [advisory' # advisory => (advisory'.lanes["macro_context"] = "READY" =>
           \/ Lanes["macro_context"] = "READY"
           \/ /\ ~Present("macro_context") /\ ~Overridden(override)
              /\ \E n \in DOMAIN notes :
                   /\ notes[n].kind # "book" /\ ~notes[n].broken /\ notes[n].complete
                   /\ notes[n].kind = "json" => ~notes[n].old)]_advisoryVars
  BY <1>1
<1> QED
  BY <1>2, AdvisoryInvariant, PTL DEF AdvisorySpec, ReadyIsFounded

-----------------------------------------------------------------------------
(* Flow candidates                                                         *)

\* The flow of a report comes from one upgraded workbook.
LEMMA FlowOfBook ==
  ASSUME notes \in NoteSets, NEW c \in FlowIntake
  PROVE  \E n \in DOMAIN notes : Upgraded(notes[n]) /\ c \in FlowCandidates(notes[n].sheets)
<1> DEFINE books == {n \in DOMAIN notes : Upgraded(notes[n])}
           first == CHOOSE n \in books : \A m \in books : n <= m
<1>1. books # {} => first \in books
  BY FirstIsOne
<1>2. FlowIntake = LET book == IF books = {} THEN None ELSE notes[first]
                   IN IF book = None THEN {} ELSE FlowCandidates(book.sheets)
  BY DEF FlowIntake, FirstWhere
<1> QED
  BY <1>1, <1>2

\* A candidate on WATCH has an unusual trade of its symbol and day in its strikes.
LEMMA WatchNeedsTrade ==
  ASSUME NEW sheets, NEW c \in FlowCandidates(sheets), c.status = "WATCH"
  PROVE  \E m \in DOMAIN sheets.unusual :
           LET row == sheets.unusual[m] IN
           row.symbol = c.symbol /\ row.exp = c.exp /\ row.strike \in c.strikes
<1> DEFINE flow == sheets.flow
           legs(n) == {m \in Parsed(flow) : SameGroup(flow[n], flow[m])}
           strikes(n) == {flow[m].strike : m \in legs(n)}
           unusual == {sheets.unusual[m] : m \in Parsed(sheets.unusual)}
<1>1. PICK n \in Parsed(flow) :
        c = [symbol |-> flow[n].symbol, exp |-> flow[n].exp, family |-> flow[n].family,
             strikes |-> strikes(n),
             status |-> IF \E row \in unusual : Supports(row, flow[n], strikes(n))
                        THEN "WATCH" ELSE "REVIEW"]
  BY DEF FlowCandidates
<1>2. /\ c.symbol = flow[n].symbol /\ c.exp = flow[n].exp /\ c.strikes = strikes(n)
      /\ \E row \in unusual : Supports(row, flow[n], strikes(n))
  <2> HIDE DEF unusual, strikes
  <2> QED BY <1>1
<1>3. PICK row \in unusual : Supports(row, flow[n], strikes(n))
  BY <1>2
<1>4. PICK m \in Parsed(sheets.unusual) : row = sheets.unusual[m]
  BY <1>3
<1>5. m \in DOMAIN sheets.unusual
  BY DEF Parsed
<1>6. row.symbol = c.symbol /\ row.exp = c.exp /\ row.strike \in c.strikes
  <2> HIDE DEF unusual, strikes
  <2> QED BY <1>2, <1>3 DEF Supports
<1> QED
  BY <1>4, <1>5, <1>6

\* A flow spread is on WATCH only if the workbook the run has read has an unusual trade
\* of its symbol and expiration in one of its own strikes.
THEOREM WatchesAreBacked == AdvisorySpec => WatchIsBacked
<1>1. ASSUME AdvisoryInv, [AdvisoryNext]_advisoryVars, advisory' # advisory,
             NEW c \in advisory'.flow, c.status = "WATCH"
      PROVE  \E n \in DOMAIN notes : /\ Upgraded(notes[n])
               /\ \E m \in DOMAIN notes[n].sheets.unusual :
                    LET row == notes[n].sheets.unusual[m] IN
                    row.symbol = c.symbol /\ row.exp = c.exp /\ row.strike \in c.strikes
  <2>1. AdviseRun /\ notes \in NoteSets
    BY <1>1, StepKinds DEF AdvisoryInv
  <2>2. c \in FlowIntake
    BY <1>1, <2>1 DEF AdviseRun, Report
  <2>3. PICK n \in DOMAIN notes : Upgraded(notes[n]) /\ c \in FlowCandidates(notes[n].sheets)
    BY <2>1, <2>2, FlowOfBook
  <2> QED BY <1>1, <2>3, WatchNeedsTrade
<1>2. AdvisoryInv /\ [AdvisoryNext]_advisoryVars =>
        [advisory' # advisory =>
           \A c \in advisory'.flow : (c.status = "WATCH" =>
             \E n \in DOMAIN notes : /\ Upgraded(notes[n])
               /\ \E m \in DOMAIN notes[n].sheets.unusual :
                    LET row == notes[n].sheets.unusual[m] IN
                    row.symbol = c.symbol /\ row.exp = c.exp
                      /\ row.strike \in c.strikes)]_advisoryVars
  BY <1>1
<1> QED
  BY <1>2, AdvisoryInvariant, PTL DEF AdvisorySpec, WatchIsBacked

-----------------------------------------------------------------------------
(* Readiness                                                               *)

\* Whatever note is on file is shown by the readiness view at once, and the operator is
\* told to refresh wherever the stored advisory says something else.
THEOREM ReadinessAlwaysFollows == AdvisorySpec => []ReadinessFollowsNotes
<1>1. AdvisoryInv => ReadinessFollowsNotes
  <2> SUFFICES ASSUME advisory # None, NEW source \in Sources, Loaded(source) # None,
                      NEW lane \in LaneNames, SourceOf(lane) = source
               PROVE  /\ Readiness.lanes[lane] = Lanes[lane]
                      /\ (lane \in {"macro_context", "flow_context"}
                            /\ advisory.lanes[lane] # Lanes[lane])
                           => "refresh_morning_advisory" \in Readiness.next
    BY DEF ReadinessFollowsNotes
  <2>1. Present(lane)
    BY DEF Present
  <2>2. Readiness.lanes[lane] = Lanes[lane]
    BY <2>1 DEF Readiness, ShownLane
  <2>3. ASSUME lane \in {"macro_context", "flow_context"}, advisory.lanes[lane] # Lanes[lane]
        PROVE  "refresh_morning_advisory" \in Readiness.next
    <3>1. StoredStale(advisory.lanes)
      BY <2>1, <2>3 DEF StoredStale
    <3> QED BY <3>1 DEF Readiness, NextActions
  <2> QED BY <2>2, <2>3
<1> QED
  BY <1>1, AdvisoryInvariant, PTL
=============================================================================
