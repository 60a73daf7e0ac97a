---------------------------- MODULE MorningLoop ----------------------------
(***************************************************************************)
(* The morning runs of one date: scripts/orb_morning_loop.py (wake,        *)
(* pipeline, risk guard, brief, notification) and                          *)
(* scripts/daily_ingestion_wake.py (wake only).  Runs are separate         *)
(* processes that share the intake directories, the latest manifest and    *)
(* the halt file; everything else they write carries their run id.         *)
(*                                                                         *)
(* A step is one move, one write, or one read another process can disturb. *)
(* write_manifest is two writes, the latest manifest and the snapshot of   *)
(* the run.  A run may be killed between any two steps.                    *)
(***************************************************************************)
EXTENDS Naturals, FiniteSets

CONSTANTS
  Run,         \* run ids
  Name,        \* file names that may be dropped
  Accepted,    \* the names the file contract accepts
  Normal,      \* the staged name of each name
  Rank,        \* the sorting order of names
  CommandLine, \* the command lines runs are started with
  None

ASSUME NameAssumption ==
  /\ IsFiniteSet(Name) /\ Accepted \subseteq Name
  /\ Rank \in [Name -> Nat]
  /\ \A m, n \in Name : Rank[m] = Rank[n] => m = n
\* --dry-run and the absence of --no-notify; the wake alone has no notification.
Args == [wakeOnly : BOOLEAN, dry : BOOLEAN, notify : BOOLEAN]

ASSUME CommandLineAssumption == CommandLine \subseteq Args

VARIABLES
  inbox, raw, staging, rejected,   \* the intake directories
  artifacts,      \* files of data/processed, data/advisory, data/notifications
  latest,         \* orb_manifest.json
  snapshots,      \* <run_id>_orb_manifest.json
  halted,         \* data/.execution_halt exists
  pc, alive,
  todo,           \* intake files still to handle
  verdict,        \* evaluate_ingestion_file accepted the one at hand
  args,           \* command line of each run
  manifest,       \* its manifest, in memory
  haltSince       \* history: runs at their audit that looked before the halt

files == <<inbox, raw, staging, rejected>>
memory == <<todo, verdict, args, manifest>>
vars == <<files, artifacts, latest, snapshots, halted, pc, alive, memory, haltSince>>

Kind == {"context", "candidates", "expressions", "audit", "brief", "notification"}

Status == {"STARTED", "NO_FILES", "FILES_STAGED", "FILES_REJECTED",
           "PIPELINE_COMPLETE", "RISK_GUARD_COMPLETE", "ADVISORY_COMPLETE",
           "NOTIFICATION_COMPLETE", "FAILED"}

Stage == {"idle", "collect", "handle", "move", "load", "hydrate", "candidates",
          "halt", "audit", "brief", "notify", "latest", "snapshot",
          "latest again", "snapshot again", "ended", "raised"}

\* OrbRunManifest; `names' are the artifact fields that are set.
Manifest == [run : Run, status : Status, staged : SUBSET {Normal[n] : n \in Name},
             rejected : SUBSET Name, names : SUBSET Kind]

ASSUME NoneAssumption == None \notin Manifest

Intake == [name : Name, raw : BOOLEAN]

-----------------------------------------------------------------------------
(* Operators                                                               *)

\* The session directory comes before the inbox, names are sorted.
Before(e, f) == \/ e.raw /\ ~f.raw
                \/ e.raw = f.raw /\ Rank[e.name] < Rank[f.name]

Present(e) == IF e.raw THEN e.name \in raw ELSE e.name \in inbox

\* _collect_intake_files: of the accepted files with one staged name only the
\* first counts; the others stay where they are.
Collected ==
  {e \in Intake :
     /\ Present(e)
     /\ e.name \in Accepted =>
          ~\E f \in Intake : /\ Present(f) /\ f.name \in Accepted
                             /\ Normal[f.name] = Normal[e.name] /\ Before(f, e)}

AtHand(r, e) == e \in todo[r] /\ \A f \in todo[r] : f = e \/ Before(e, f)

Step(r, from, to) == /\ pc[r] = from /\ alive[r]
                     /\ pc' = [pc EXCEPT ![r] = to]

\* The manifest in memory takes a status and the paths of new artifacts.
Advance(r, status, kinds) ==
  LET m == manifest[r] IN
  manifest' = [manifest EXCEPT ![r] =
                 [m EXCEPT !.status = status, !.names = m.names \cup kinds]]

Write(r, kind) == artifacts' = artifacts \cup {<<r, kind>>}

\* Mutant: a run without files looks again until there are some.
WaitForFiles(r) ==
  CASE manifest[r].status = "NO_FILES" -> "collect"
    [] manifest[r].status = "FILES_STAGED" ->
         IF args[r].wakeOnly THEN "ended" ELSE "load"
    [] OTHER -> "ended"

\* Mutant: after an exception the brief is tried once more.
BriefAnyway(r) ==
  CASE manifest[r].status = "FILES_STAGED" ->
         IF args[r].wakeOnly THEN "ended" ELSE "load"
    [] manifest[r].status = "PIPELINE_COMPLETE" -> "halt"
    [] manifest[r].status \in {"RISK_GUARD_COMPLETE", "FAILED"} -> "brief"
    [] OTHER -> "ended"

\* Where a run goes once its manifest is on disk; the loop writes a manifest
\* without staged files a second time.
AfterWrite(r) ==
  CASE manifest[r].status = "FILES_STAGED" ->
         IF args[r].wakeOnly THEN "ended" ELSE "load"
    [] manifest[r].status = "PIPELINE_COMPLETE" -> "halt"
    [] manifest[r].status = "RISK_GUARD_COMPLETE" -> "brief"
    [] manifest[r].status = "ADVISORY_COMPLETE" ->
         IF args[r].notify THEN "notify" ELSE "ended"
    [] manifest[r].status \in {"NO_FILES", "FILES_REJECTED"} ->
         IF args[r].wakeOnly THEN "ended" ELSE "latest again"
    [] manifest[r].status = "FAILED" -> "raised"
    [] OTHER -> "ended"

-----------------------------------------------------------------------------
(* run_ingestion_wake                                                      *)

Start(r) ==
  /\ Step(r, "idle", "collect")
  /\ args' \in {[args EXCEPT ![r] = a] : a \in CommandLine}
  /\ UNCHANGED <<files, artifacts, latest, snapshots, halted, alive, todo,
                 verdict, manifest, haltSince>>

Collect(r) ==
  /\ Step(r, "collect", IF Collected = {} THEN "latest" ELSE "handle")
  /\ todo' = [todo EXCEPT ![r] = Collected]
  /\ IF Collected = {} THEN Advance(r, "NO_FILES", {}) ELSE UNCHANGED manifest
  /\ UNCHANGED <<files, artifacts, latest, snapshots, halted, alive, verdict,
                 args, haltSince>>

\* The file is evaluated again: it may be gone by now.
Evaluate(r) ==
  /\ Step(r, "handle", "move")
  /\ \E e \in todo[r] :
       /\ AtHand(r, e)
       /\ verdict' = [verdict EXCEPT ![r] = Present(e) /\ e.name \in Accepted]
  /\ UNCHANGED <<files, artifacts, latest, snapshots, halted, alive, todo, args,
                 manifest, haltSince>>

\* A file of the session directory is copied and never rejected into a
\* directory; a file of the inbox is moved.
MoveFile(r, e) ==
  /\ IF verdict[r]
     THEN /\ staging' = staging \cup {Normal[e.name]}
          /\ inbox' = IF e.raw THEN inbox ELSE inbox \ {e.name}
          /\ UNCHANGED rejected
     ELSE /\ rejected' = IF e.raw THEN rejected ELSE rejected \cup {e.name}
          /\ inbox' = IF e.raw THEN inbox ELSE inbox \ {e.name}
          /\ UNCHANGED staging
  /\ UNCHANGED raw

\* Mutant: whatever was handled counts as staged.
EverythingStaged(m, r, e) == [m EXCEPT !.staged = @ \cup {Normal[e.name]}]

Recorded(m, r, e) ==
  IF verdict[r] THEN [m EXCEPT !.staged = @ \cup {Normal[e.name]}]
  ELSE [m EXCEPT !.rejected = IF e.raw THEN @ ELSE @ \cup {e.name}]

Concluded(m) ==
  [m EXCEPT !.status = IF m.staged # {} THEN "FILES_STAGED" ELSE "FILES_REJECTED"]

\* A dry run moves nothing, a refused file of the session directory stays.
Touched(r, e) == ~args[r].dry /\ (verdict[r] \/ ~e.raw)

Move(r) ==
  /\ \E e \in todo[r] :
       /\ AtHand(r, e)
       /\ Step(r, "move", IF todo[r] = {e} THEN "latest" ELSE "handle")
       /\ Touched(r, e) => Present(e)
       /\ IF args[r].dry THEN UNCHANGED files ELSE MoveFile(r, e)
       /\ todo' = [todo EXCEPT ![r] = @ \ {e}]
       /\ LET m == Recorded(manifest[r], r, e) IN
          manifest' = [manifest EXCEPT ![r] = IF todo[r] = {e} THEN Concluded(m) ELSE m]
  /\ UNCHANGED <<artifacts, latest, snapshots, halted, alive, verdict, args, haltSince>>

\* shutil.move raises on a file another run has taken; a wake that raises
\* leaves no manifest.
MoveRaises(r) ==
  /\ \E e \in todo[r] : AtHand(r, e) /\ Touched(r, e) /\ ~Present(e)
  /\ Step(r, "move", "raised")
  /\ UNCHANGED <<files, artifacts, latest, snapshots, halted, alive, memory, haltSince>>

-----------------------------------------------------------------------------
(* write_manifest, and the handler of an exception                         *)

WriteLatest(r) ==
  /\ \/ Step(r, "latest", "snapshot")
     \/ Step(r, "latest again", "snapshot again")
  /\ latest' = manifest[r]
  /\ UNCHANGED <<files, artifacts, snapshots, halted, alive, memory, haltSince>>

\* Mutant: the snapshot of a run is kept as it was first written.
WriteOnce(r) ==
  /\ \/ Step(r, "snapshot", AfterWrite(r))
     \/ Step(r, "snapshot again", "ended")
  /\ snapshots' = [snapshots EXCEPT ![r] = IF @ = None THEN manifest[r] ELSE @]
  /\ UNCHANGED <<files, artifacts, latest, halted, alive, memory, haltSince>>

WriteSnapshot(r) ==
  /\ \/ Step(r, "snapshot", AfterWrite(r))
     \/ Step(r, "snapshot again", "ended")
  /\ snapshots' = [snapshots EXCEPT ![r] = manifest[r]]
  /\ UNCHANGED <<files, artifacts, latest, halted, alive, memory, haltSince>>

\* Any stage may raise: on its input, on its file, or, for the notification, on an
\* address that is none.  The halt check has two reasons.
Failing(r) ==
  \/ pc[r] \in {"load", "hydrate", "candidates", "audit", "brief", "notify"}
  \/ pc[r] = "halt" /\ (halted \/ <<r, "candidates">> \notin artifacts)

\* Mutant: the exception ends the run with its manifest as it was.
FailUnrecorded(r) ==
  /\ Failing(r)
  /\ Step(r, pc[r], "raised")
  /\ UNCHANGED <<files, artifacts, latest, snapshots, halted, alive, memory, haltSince>>

\* A stage raised: FAILED goes into the manifest with what it had so far.  The brief
\* and the notification may be there, since more is written or sent after them.
Fail(r) ==
  /\ Failing(r)
  /\ Step(r, pc[r], "latest")
  /\ \/ UNCHANGED artifacts
     \/ pc[r] = "brief" /\ Write(r, "brief")
     \/ pc[r] = "notify" /\ Write(r, "notification")
  /\ Advance(r, "FAILED", {})
  /\ UNCHANGED <<files, latest, snapshots, halted, alive, todo, verdict, args>>
  /\ haltSince' = haltSince \ {r}

-----------------------------------------------------------------------------
(* Pipeline, risk guard, brief, notification                               *)

\* A name listed by a dry wake need not be in staging: Fail is then all there is.
Load(r) ==
  /\ Step(r, "load", "hydrate")
  /\ manifest[r].staged \subseteq staging
  /\ Write(r, "context")
  /\ UNCHANGED <<files, latest, snapshots, halted, alive, memory, haltSince>>

\* run_alpaca_expression_hydration writes the expressions unless it returns
\* early: no candidates, no symbols, no credentials, no quotes.
Hydrate(r) ==
  /\ Step(r, "hydrate", "candidates")
  /\ Write(r, "expressions") \/ UNCHANGED artifacts
  /\ UNCHANGED <<files, latest, snapshots, halted, alive, memory, haltSince>>

\* Mutant: every field is filled in with the path it will have.
AllNames == Kind

\* DailyPipelineResult names all three paths.
PipelineNames == {"context", "candidates", "expressions"}

Candidates(r) ==
  /\ Step(r, "candidates", "latest")
  /\ Write(r, "candidates")
  /\ Advance(r, "PIPELINE_COMPLETE", PipelineNames)
  /\ UNCHANGED <<files, latest, snapshots, halted, alive, todo, verdict, args, haltSince>>

\* Mutant: the guard does not look for the halt file.
NoHaltCheck(r) ==
  /\ Step(r, "halt", "audit")
  /\ UNCHANGED <<files, artifacts, latest, snapshots, halted, alive, memory, haltSince>>

\* assert_not_halted, and the candidates must be there.
HaltCheck(r) ==
  /\ Step(r, "halt", "audit")
  /\ ~halted
  /\ <<r, "candidates">> \in artifacts
  /\ UNCHANGED <<files, artifacts, latest, snapshots, halted, alive, memory, haltSince>>

Audit(r) ==
  /\ Step(r, "audit", "latest")
  /\ Write(r, "audit")
  /\ Advance(r, "RISK_GUARD_COMPLETE", {"audit"})
  /\ UNCHANGED <<files, latest, snapshots, halted, alive, todo, verdict, args>>
  /\ haltSince' = haltSince \ {r}

\* generate_claude_brief wants context, candidates and audit.
Brief(r) ==
  /\ Step(r, "brief", "latest")
  /\ \A kind \in {"context", "candidates", "audit"} :
       kind \in manifest[r].names /\ <<r, kind>> \in artifacts
  /\ Write(r, "brief")
  /\ Advance(r, "ADVISORY_COMPLETE", {"brief"})
  /\ UNCHANGED <<files, latest, snapshots, halted, alive, todo, verdict, args, haltSince>>

\* The artifact is written before the transports are tried, and whether or not one
\* takes the message.
Notify(r) ==
  /\ Step(r, "notify", "latest")
  /\ Write(r, "notification")
  /\ Advance(r, "NOTIFICATION_COMPLETE", {"notification"})
  /\ UNCHANGED <<files, latest, snapshots, halted, alive, todo, verdict, args, haltSince>>

-----------------------------------------------------------------------------
(* The operator, and the rest of the machine                               *)

Drop(n) ==
  /\ \/ n \notin inbox /\ inbox' = inbox \cup {n} /\ UNCHANGED raw
     \/ n \notin raw /\ raw' = raw \cup {n} /\ UNCHANGED inbox
  /\ UNCHANGED <<staging, rejected, artifacts, latest, snapshots, halted, pc,
                 alive, memory, haltSince>>

Halt ==
  /\ ~halted /\ halted' = TRUE
  /\ haltSince' = haltSince \cup {r \in Run : pc[r] = "audit"}
  /\ UNCHANGED <<files, artifacts, latest, snapshots, pc, alive, memory>>

Resume ==
  /\ halted /\ halted' = FALSE
  /\ UNCHANGED <<files, artifacts, latest, snapshots, pc, alive, memory, haltSince>>

Kill(r) ==
  /\ alive[r] /\ pc[r] \notin {"idle", "ended", "raised"}
  /\ alive' = [alive EXCEPT ![r] = FALSE]
  /\ UNCHANGED <<files, artifacts, latest, snapshots, halted, pc, memory>>
  /\ haltSince' = haltSince \ {r}

-----------------------------------------------------------------------------
NewManifest(r) == [run |-> r, status |-> "STARTED", staged |-> {}, rejected |-> {},
                   names |-> {}]

Init ==
  /\ inbox \in SUBSET Name /\ raw \in SUBSET Name
  /\ staging = {} /\ rejected = {} /\ artifacts = {}
  /\ latest = None /\ snapshots = [r \in Run |-> None]
  /\ halted = FALSE /\ haltSince = {}
  /\ pc = [r \in Run |-> "idle"] /\ alive = [r \in Run |-> TRUE]
  /\ todo = [r \in Run |-> {}] /\ verdict = [r \in Run |-> FALSE]
  /\ args = [r \in Run |-> [wakeOnly |-> FALSE, dry |-> FALSE, notify |-> FALSE]]
  /\ manifest = [r \in Run |-> NewManifest(r)]

Proceed(r) ==
  \/ Collect(r) \/ Evaluate(r) \/ Move(r) \/ MoveRaises(r)
  \/ WriteLatest(r) \/ WriteSnapshot(r) \/ Fail(r)
  \/ Load(r) \/ Hydrate(r) \/ Candidates(r) \/ HaltCheck(r) \/ Audit(r)
  \/ Brief(r) \/ Notify(r)

Next ==
  \/ \E r \in Run : Start(r) \/ Proceed(r) \/ Kill(r)
  \/ \E n \in Name : Drop(n)
  \/ Halt \/ Resume

Spec == Init /\ [][Next]_vars

\* A started process is scheduled and its calls return.
FairSpec == Spec /\ \A r \in Run : WF_vars(Proceed(r))

-----------------------------------------------------------------------------
(* What the runs must guarantee                                            *)

TypeOK ==
  /\ inbox \subseteq Name /\ raw \subseteq Name /\ rejected \subseteq Name
  /\ staging \subseteq {Normal[n] : n \in Name}
  /\ artifacts \subseteq Run \X Kind
  /\ latest \in Manifest \cup {None}
  /\ snapshots \in [Run -> Manifest \cup {None}]
  /\ halted \in BOOLEAN /\ haltSince \subseteq Run
  /\ pc \in [Run -> Stage] /\ alive \in [Run -> BOOLEAN]
  /\ todo \in [Run -> SUBSET Intake] /\ verdict \in [Run -> BOOLEAN]
  /\ args \in [Run -> Args] /\ manifest \in [Run -> Manifest]

OnDisk == ({latest} \cup {snapshots[r] : r \in Run}) \ {None}

\* README.md's fallback path starts from the artifact paths of a manifest:
\* whenever a manifest is on disk, however runs overlap, fail or are killed,
\* what it names is there, but for the expressions.
NamedArtifactsExist ==
  \A m \in OnDisk : \A kind \in m.names \ {"expressions"} : <<m.run, kind>> \in artifacts

\* The latest manifest and the snapshot of the run it came from are the same,
\* whoever wrote in between, unless that run is (or was killed) between the two
\* writes of write_manifest: operator_status shows the same with and without
\* --run-id.
LatestIsASnapshot ==
  latest # None => \/ snapshots[latest.run] = latest
                   \/ pc[latest.run] \in {"snapshot", "snapshot again"}

\* Statuses a snapshot may move on to.
Successors(status) ==
  CASE status = "FILES_STAGED" -> {"PIPELINE_COMPLETE", "FAILED"}
    [] status = "PIPELINE_COMPLETE" -> {"RISK_GUARD_COMPLETE", "FAILED"}
    [] status = "RISK_GUARD_COMPLETE" -> {"ADVISORY_COMPLETE", "FAILED"}
    [] status = "ADVISORY_COMPLETE" -> {"NOTIFICATION_COMPLETE", "FAILED"}
    [] OTHER -> {}

\* The snapshot of a run advances stage by stage, a failed or finished run stays
\* so, and no artifact it named is dropped from it.
SnapshotsAdvance ==
  [][\A r \in Run : snapshots[r] # None /\ snapshots'[r] # snapshots[r] =>
       /\ snapshots'[r].status \in Successors(snapshots[r].status)
       /\ snapshots[r].names \subseteq snapshots'[r].names]_vars

\* run_risk_guard refuses to work under the halt file: an audit is written only
\* when there is none, or by a run that had looked before it appeared.
HaltWindow ==
  [][\A r \in Run : <<r, "audit">> \in artifacts' \ artifacts =>
       ~halted \/ r \in haltSince]_vars

\* Whatever other runs take from the inbox, the files that the manifest of a
\* real (not dry) run lists as staged are in staging.
StagedFilesThere ==
  \A m \in OnDisk : ~args[m.run].dry => m.staged \subseteq staging

\* A loop that was not killed leaves its outcome on disk: finished runs their
\* last stage, raised ones FAILED, unless they raised in their wake and have no
\* manifest at all.
EndsAreRecorded ==
  \A r \in Run :
    /\ pc[r] = "ended" =>
         /\ snapshots[r] # None
         /\ snapshots[r].status \in
              {"NO_FILES", "FILES_REJECTED",
               IF args[r].wakeOnly THEN "FILES_STAGED"
               ELSE IF args[r].notify THEN "NOTIFICATION_COMPLETE" ELSE "ADVISORY_COMPLETE"}
    /\ pc[r] = "raised" => snapshots[r] = None \/ snapshots[r].status = "FAILED"

\* A started run that is not killed ends, whatever the others do.
RunEnds ==
  \A r \in Run : pc[r] # "idle" ~> pc[r] \in {"ended", "raised"} \/ ~alive[r]

=============================================================================
