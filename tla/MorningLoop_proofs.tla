------------------------- MODULE MorningLoop_proofs -------------------------
(* The safety properties of MorningLoop for any number of runs and names.  *)
EXTENDS MorningLoop, FiniteSetTheorems, TLAPS

-----------------------------------------------------------------------------
(* The inductive invariant                                                 *)

Waking == {"idle", "collect", "handle", "move"}
Working == {"load", "hydrate", "candidates", "halt", "audit", "brief", "notify"}
Writing == {"snapshot", "snapshot again"}

\* The manifest a run has on disk while it works.
StatusAt(stage) ==
  CASE stage \in {"load", "hydrate", "candidates"} -> "FILES_STAGED"
    [] stage \in {"halt", "audit"} -> "PIPELINE_COMPLETE"
    [] stage = "brief" -> "RISK_GUARD_COMPLETE"
    [] OTHER -> "ADVISORY_COMPLETE"

\* Manifests belong to their runs.
Owned(r) == /\ manifest[r].run = r
            /\ snapshots[r] # None => snapshots[r].run = r

\* A run that is still in its wake has nothing on disk.
WakeUnseen(r) ==
  pc[r] \in Waking =>
    /\ snapshots[r] = None
    /\ latest # None => latest.run # r
    /\ manifest[r].names = {}
    /\ manifest[r].status = "STARTED"
    /\ pc[r] = "idle" => manifest[r].staged = {}

\* What the snapshot says of the manifest in memory.
SnapshotBehind(r) ==
  /\ pc[r] \in {"latest", "snapshot"} =>
       snapshots[r] = None \/ manifest[r].status \in Successors(snapshots[r].status)
  /\ pc[r] \in Working \cup {"latest again", "snapshot again", "ended"} =>
       snapshots[r] = manifest[r]
  /\ pc[r] = "raised" => snapshots[r] = None \/ snapshots[r].status = "FAILED"
  /\ snapshots[r] # None => snapshots[r].names \subseteq manifest[r].names

\* The status a run may end with.
LastStatus(r) ==
  {"NO_FILES", "FILES_REJECTED",
   IF args[r].wakeOnly THEN "FILES_STAGED"
   ELSE IF args[r].notify THEN "NOTIFICATION_COMPLETE" ELSE "ADVISORY_COMPLETE"}

\* The status of the manifest in memory at each stage.
StatusFits(r) ==
  /\ pc[r] \in Working => manifest[r].status = StatusAt(pc[r])
  /\ pc[r] \in {"latest", "snapshot"} => manifest[r].status # "STARTED"
  /\ pc[r] \in {"latest again", "snapshot again"} =>
       manifest[r].status \in {"NO_FILES", "FILES_REJECTED"}
  /\ pc[r] = "ended" => manifest[r].status \in LastStatus(r)

\* The command line at each stage.
CommandFits(r) ==
  /\ pc[r] \in Working => ~args[r].wakeOnly
  /\ manifest[r].status \in {"PIPELINE_COMPLETE", "RISK_GUARD_COMPLETE",
                              "ADVISORY_COMPLETE", "NOTIFICATION_COMPLETE"}
       => ~args[r].wakeOnly
  /\ pc[r] = "notify" => args[r].notify
  /\ manifest[r].status = "NOTIFICATION_COMPLETE" => args[r].notify

\* A manifest in memory names what exists.
NamesExist(r) ==
  /\ \A kind \in manifest[r].names \ {"expressions"} : <<r, kind>> \in artifacts
  /\ pc[r] \in {"hydrate", "candidates"} => <<r, "context">> \in artifacts

\* A manifest in memory lists what is staged.
StagedThere(r) == ~args[r].dry => manifest[r].staged \subseteq staging

\* A run at its audit found no halt file, or the file came later.
HaltChecked(r) == halted /\ pc[r] = "audit" /\ alive[r] => r \in haltSince

RunGood(r) ==
  /\ Owned(r) /\ WakeUnseen(r) /\ SnapshotBehind(r) /\ StatusFits(r)
  /\ CommandFits(r) /\ NamesExist(r) /\ StagedThere(r) /\ HaltChecked(r)

\* The latest manifest is that of its run, in memory while it is being written.
LatestSettled ==
  latest # None =>
    latest = IF pc[latest.run] \in Writing THEN manifest[latest.run]
             ELSE snapshots[latest.run]

\* What is on disk is also in memory, or was: the two invariants on manifests,
\* for one snapshot.
SnapshotGood(r) ==
  snapshots[r] # None =>
    /\ \A kind \in snapshots[r].names \ {"expressions"} : <<r, kind>> \in artifacts
    /\ ~args[r].dry => snapshots[r].staged \subseteq staging

IInv == /\ TypeOK
        /\ \A r \in Run : RunGood(r) /\ SnapshotGood(r)
        /\ LatestSettled

-----------------------------------------------------------------------------
(* Types                                                                   *)

\* What one run does.
RunStep(r) == Start(r) \/ Proceed(r)

\* What happens around the runs, or nothing at all.
Around == \/ \E n \in Name : Drop(n)
          \/ Halt \/ Resume
          \/ \E r \in Run : Kill(r)
          \/ UNCHANGED vars

LEMMA WhoSteps ==
  ASSUME [Next]_vars
  PROVE  (\E r \in Run : RunStep(r)) \/ Around
BY DEF Next, RunStep, Around

\* What Advance does to the manifest of the run, and to no other.
LEMMA AdvanceEffect ==
  ASSUME TypeOK, NEW r \in Run, NEW status \in Status, NEW kinds \in SUBSET Kind,
         Advance(r, status, kinds)
  PROVE  /\ manifest' \in [Run -> Manifest]
         /\ manifest'[r].run = manifest[r].run
         /\ manifest'[r].status = status
         /\ manifest'[r].staged = manifest[r].staged
         /\ manifest'[r].rejected = manifest[r].rejected
         /\ manifest'[r].names = manifest[r].names \cup kinds
         /\ \A q \in Run \ {r} : manifest'[q] = manifest[q]
<1> DEFINE m == manifest[r]
           new == [m EXCEPT !.status = status, !.names = m.names \cup kinds]
<1>1. m \in Manifest /\ manifest \in [Run -> Manifest]
  BY DEF TypeOK
<1>2. new \in Manifest
  BY <1>1 DEF Manifest
<1>3. manifest' = [manifest EXCEPT ![r] = new]
  BY DEF Advance
<1>4. /\ new.run = m.run /\ new.status = status /\ new.staged = m.staged
      /\ new.rejected = m.rejected /\ new.names = m.names \cup kinds
  BY <1>1 DEF Manifest
<1> HIDE DEF new
<1> QED
  BY <1>1, <1>2, <1>3, <1>4

\* A new status without new artifacts.
LEMMA AdvanceStatus ==
  ASSUME TypeOK, NEW r \in Run, NEW status \in Status, Advance(r, status, {})
  PROVE  /\ manifest'[r].run = manifest[r].run
         /\ manifest'[r].status = status
         /\ manifest'[r].staged = manifest[r].staged
         /\ manifest'[r].names = manifest[r].names
         /\ \A q \in Run \ {r} : manifest'[q] = manifest[q]
<1>1. {} \in SUBSET Kind /\ manifest[r].names \cup {} = manifest[r].names
  OBVIOUS
<1> QED
  BY <1>1, AdvanceEffect

LEMMA WriteEffect ==
  ASSUME TypeOK, NEW r \in Run, NEW kind \in Kind, Write(r, kind)
  PROVE  artifacts' \subseteq Run \X Kind
BY DEF TypeOK, Write

LEMMA StepTypes ==
  ASSUME TypeOK, NEW r \in Run, RunStep(r)
  PROVE  TypeOK'
<1>1. CASE Start(r)
  BY <1>1, CommandLineAssumption DEF TypeOK, Start, Step, Stage, files
<1>2. CASE Collect(r)
  <2>1. Collected \in SUBSET Intake
    BY DEF Collected
  <2> QED
    BY <1>2, <2>1, AdvanceEffect DEF TypeOK, Collect, Step, Stage, files, Status
<1>3. CASE Evaluate(r)
  BY <1>3 DEF TypeOK, Evaluate, Step, Stage, files, Present, Intake
<1>4. CASE Move(r)
  <2>1. PICK e \in todo[r] :
          /\ Step(r, "move", IF todo[r] = {e} THEN "latest" ELSE "handle")
          /\ IF args[r].dry THEN UNCHANGED files ELSE MoveFile(r, e)
          /\ todo' = [todo EXCEPT ![r] = @ \ {e}]
          /\ LET m == Recorded(manifest[r], r, e) IN
             manifest' = [manifest EXCEPT ![r] = IF todo[r] = {e} THEN Concluded(m) ELSE m]
    BY <1>4 DEF Move
  <2>2. e \in Intake /\ e.name \in Name
    BY DEF TypeOK, Intake
  <2>3. Recorded(manifest[r], r, e) \in Manifest
    BY <2>2 DEF TypeOK, Recorded, Manifest
  <2>4. ASSUME NEW m \in Manifest PROVE Concluded(m) \in Manifest
    BY <2>4 DEF Concluded, Manifest, Status
  <2>5. manifest' \in [Run -> Manifest]
    BY <2>1, <2>3, <2>4 DEF TypeOK
  <2>6. /\ inbox' \subseteq Name /\ raw' \subseteq Name /\ rejected' \subseteq Name
        /\ staging' \subseteq {Normal[n] : n \in Name}
    BY <2>1, <2>2 DEF TypeOK, MoveFile, files
  <2> QED
    BY <1>4, <2>1, <2>5, <2>6 DEF TypeOK, Move, Step, Stage
<1>5. CASE MoveRaises(r)
  BY <1>5 DEF TypeOK, MoveRaises, Step, Stage, files, memory
<1>6. CASE WriteLatest(r)
  BY <1>6 DEF TypeOK, WriteLatest, Step, Stage, files, memory
<1>7. CASE WriteSnapshot(r)
  BY <1>7 DEF TypeOK, WriteSnapshot, Step, Stage, AfterWrite, files, memory
<1>8. CASE Fail(r)
  <2>1. manifest' \in [Run -> Manifest]
    BY <1>8, AdvanceEffect DEF Fail, Status, Kind
  <2>2. artifacts' \subseteq Run \X Kind
    BY <1>8, WriteEffect DEF TypeOK, Fail, Kind
  <2> QED
    BY <1>8, <2>1, <2>2 DEF TypeOK, Fail, Step, Stage, files
<1>9. CASE Load(r) \/ Hydrate(r)
  <2>1. artifacts' \subseteq Run \X Kind
    BY <1>9, WriteEffect DEF TypeOK, Load, Hydrate, Kind
  <2> QED
    BY <1>9, <2>1 DEF TypeOK, Load, Hydrate, Step, Stage, files, memory
<1>10. CASE Candidates(r)
  <2>1. manifest' \in [Run -> Manifest]
    BY <1>10, AdvanceEffect DEF Candidates, PipelineNames, Status, Kind
  <2>2. artifacts' \subseteq Run \X Kind
    BY <1>10, WriteEffect DEF Candidates, Kind
  <2> QED
    BY <1>10, <2>1, <2>2 DEF TypeOK, Candidates, Step, Stage, files
<1>11. CASE HaltCheck(r)
  BY <1>11 DEF TypeOK, HaltCheck, Step, Stage, files, memory
<1>12. CASE Audit(r)
  <2>1. manifest' \in [Run -> Manifest]
    BY <1>12, AdvanceEffect DEF Audit, Status, Kind
  <2>2. artifacts' \subseteq Run \X Kind
    BY <1>12, WriteEffect DEF Audit, Kind
  <2> QED
    BY <1>12, <2>1, <2>2 DEF TypeOK, Audit, Step, Stage, files
<1>13. CASE Brief(r)
  <2>1. manifest' \in [Run -> Manifest]
    BY <1>13, AdvanceEffect DEF Brief, Status, Kind
  <2>2. artifacts' \subseteq Run \X Kind
    BY <1>13, WriteEffect DEF Brief, Kind
  <2> QED
    BY <1>13, <2>1, <2>2 DEF TypeOK, Brief, Step, Stage, files
<1>14. CASE Notify(r)
  <2>1. manifest' \in [Run -> Manifest]
    BY <1>14, AdvanceEffect DEF Notify, Status, Kind
  <2>2. artifacts' \subseteq Run \X Kind
    BY <1>14, WriteEffect DEF Notify, Kind
  <2> QED
    BY <1>14, <2>1, <2>2 DEF TypeOK, Notify, Step, Stage, files
<1> QED
  BY <1>1, <1>2, <1>3, <1>4, <1>5, <1>6, <1>7, <1>8, <1>9, <1>10, <1>11, <1>12,
     <1>13, <1>14 DEF RunStep, Proceed

LEMMA AroundTypes ==
  ASSUME TypeOK, Around
  PROVE  TypeOK'
<1>1. CASE \E n \in Name : Drop(n)
  BY <1>1 DEF TypeOK, Drop, memory
<1>2. CASE Halt \/ Resume
  BY <1>2 DEF TypeOK, Halt, Resume, files, memory
<1>3. CASE \E r \in Run : Kill(r)
  BY <1>3 DEF TypeOK, Kill, files, memory
<1>4. CASE UNCHANGED vars
  BY <1>4 DEF TypeOK, vars, files, memory
<1> QED
  BY <1>1, <1>2, <1>3, <1>4 DEF Around

-----------------------------------------------------------------------------
(* The kinds of steps a run takes                                          *)

\* What a step of a run leaves to the others.
Others(r) ==
  /\ \A q \in Run \ {r} : /\ pc'[q] = pc[q] /\ args'[q] = args[q]
                          /\ manifest'[q] = manifest[q] /\ snapshots'[q] = snapshots[q]
                          /\ q \in haltSince => q \in haltSince'
  /\ artifacts \subseteq artifacts' /\ staging \subseteq staging'
  /\ UNCHANGED <<halted, alive>>

Starts(r) ==
  /\ pc[r] = "idle" /\ pc'[r] = "collect"
  /\ UNCHANGED <<manifest, snapshots, latest, artifacts>>

\* In the wake, up to the verdict over all files.
Wakes(r) ==
  /\ pc[r] \in Waking \ {"idle"}
  /\ \/ pc'[r] \in Waking \ {"idle"} /\ manifest'[r].status = manifest[r].status
     \/ /\ pc'[r] = "latest"
        /\ manifest'[r].status \in {"NO_FILES", "FILES_STAGED", "FILES_REJECTED"}
  /\ manifest'[r].run = manifest[r].run /\ manifest'[r].names = manifest[r].names
  /\ ~args[r].dry /\ manifest[r].staged \subseteq staging =>
       manifest'[r].staged \subseteq staging'
  /\ UNCHANGED <<args, snapshots, latest, artifacts>>

Raises(r) ==
  /\ pc[r] = "move" /\ pc'[r] = "raised"
  /\ UNCHANGED <<args, manifest, snapshots, latest, artifacts>>

WritesLatest(r) ==
  /\ \/ pc[r] = "latest" /\ pc'[r] = "snapshot"
     \/ pc[r] = "latest again" /\ pc'[r] = "snapshot again"
  /\ latest' = manifest[r]
  /\ UNCHANGED <<args, manifest, snapshots, artifacts>>

WritesSnapshot(r) ==
  /\ \/ pc[r] = "snapshot" /\ pc'[r] = AfterWrite(r)
     \/ pc[r] = "snapshot again" /\ pc'[r] = "ended"
  /\ snapshots'[r] = manifest[r]
  /\ UNCHANGED <<args, manifest, latest, artifacts>>

\* A stage hands over to the next one within one manifest.
Works(r) ==
  /\ \/ pc[r] = "load" /\ pc'[r] = "hydrate" /\ <<r, "context">> \in artifacts'
     \/ pc[r] = "hydrate" /\ pc'[r] = "candidates"
     \/ pc[r] = "halt" /\ pc'[r] = "audit" /\ ~halted
  /\ UNCHANGED <<args, manifest, snapshots, latest>>

\* A stage ends with a new status, and with the new artifacts it names, or with
\* FAILED.
Concludes(r) ==
  /\ pc[r] \in Working /\ pc'[r] = "latest"
  /\ \/ manifest'[r].status = "FAILED" /\ manifest'[r].names = manifest[r].names
     \/ /\ pc[r] \in {"candidates", "audit", "brief", "notify"}
        /\ manifest'[r].status =
             CASE pc[r] = "candidates" -> "PIPELINE_COMPLETE"
               [] pc[r] = "audit" -> "RISK_GUARD_COMPLETE"
               [] pc[r] = "brief" -> "ADVISORY_COMPLETE"
               [] OTHER -> "NOTIFICATION_COMPLETE"
        /\ manifest[r].names \subseteq manifest'[r].names
        /\ \A kind \in (manifest'[r].names \ manifest[r].names) \ {"expressions"} :
             <<r, kind>> \in artifacts' \/ (pc[r] = "candidates" /\ kind = "context")
  /\ manifest'[r].run = manifest[r].run
  /\ manifest'[r].staged = manifest[r].staged
  /\ UNCHANGED <<args, snapshots, latest>>

StepKinds(r) ==
  \/ Starts(r) \/ Wakes(r) \/ Raises(r) \/ WritesLatest(r) \/ WritesSnapshot(r)
  \/ Works(r) \/ Concludes(r)

LEMMA MoveKind ==
  ASSUME TypeOK, NEW r \in Run, Move(r)
  PROVE  Others(r) /\ Wakes(r)
<1>1. PICK e \in todo[r] :
        /\ Step(r, "move", IF todo[r] = {e} THEN "latest" ELSE "handle")
        /\ IF args[r].dry THEN UNCHANGED files ELSE MoveFile(r, e)
        /\ LET m == Recorded(manifest[r], r, e) IN
           manifest' = [manifest EXCEPT ![r] = IF todo[r] = {e} THEN Concluded(m) ELSE m]
  BY DEF Move
<1> DEFINE m == Recorded(manifest[r], r, e)
<1>2. manifest[r] \in Manifest /\ e.name \in Name
  BY DEF TypeOK, Intake
<1>3. /\ m \in Manifest
      /\ m.run = manifest[r].run /\ m.names = manifest[r].names
      /\ m.status = manifest[r].status
      /\ m.staged = IF verdict[r] THEN manifest[r].staged \cup {Normal[e.name]}
                    ELSE manifest[r].staged
  BY <1>2 DEF Recorded, Manifest
<1>4. manifest'[r] = (IF todo[r] = {e} THEN Concluded(m) ELSE m)
      /\ \A q \in Run \ {r} : manifest'[q] = manifest[q]
  BY <1>1 DEF TypeOK
<1>5. /\ Concluded(m).run = m.run /\ Concluded(m).names = m.names
      /\ Concluded(m).staged = m.staged
      /\ Concluded(m).status \in {"FILES_STAGED", "FILES_REJECTED"}
  <2> HIDE DEF m
  <2> QED
    BY <1>3 DEF Concluded, Manifest
<1>6. /\ staging \subseteq staging'
      /\ ~args[r].dry /\ verdict[r] => Normal[e.name] \in staging'
  BY <1>1 DEF MoveFile, files
<1>7. /\ manifest'[r].run = manifest[r].run /\ manifest'[r].names = manifest[r].names
      /\ manifest'[r].staged = m.staged
      /\ IF todo[r] = {e} THEN manifest'[r].status \in {"FILES_STAGED", "FILES_REJECTED"}
         ELSE manifest'[r].status = manifest[r].status
  <2> HIDE DEF m
  <2> QED
    BY <1>3, <1>4, <1>5
<1>8. Wakes(r)
  <2> HIDE DEF m
  <2>1. pc[r] = "move" /\ pc'[r] = IF todo[r] = {e} THEN "latest" ELSE "handle"
    BY <1>1 DEF Step, TypeOK
  <2>2. UNCHANGED <<args, snapshots, latest, artifacts>>
    BY DEF Move
  <2>3. ~args[r].dry /\ manifest[r].staged \subseteq staging =>
          manifest'[r].staged \subseteq staging'
    BY <1>3, <1>6, <1>7
  <2> QED
    BY <1>7, <2>1, <2>2, <2>3 DEF Wakes, Waking
<1>9. Others(r)
  BY <1>1, <1>4, <1>6 DEF Others, Move, Step, TypeOK
<1> QED
  BY <1>8, <1>9

LEMMA StepKind ==
  ASSUME TypeOK, NEW r \in Run, RunStep(r)
  PROVE  Others(r) /\ StepKinds(r)
<1>1. CASE Start(r)
  BY <1>1 DEF TypeOK, Start, Step, Others, Starts, StepKinds, files
<1>2. CASE Collect(r)
  <2>1. /\ manifest'[r].run = manifest[r].run /\ manifest'[r].names = manifest[r].names
        /\ manifest'[r].staged = manifest[r].staged
        /\ IF Collected = {} THEN manifest'[r].status = "NO_FILES"
           ELSE manifest'[r].status = manifest[r].status
        /\ \A q \in Run \ {r} : manifest'[q] = manifest[q]
    <3>1. CASE Collected = {}
      <4>1. Advance(r, "NO_FILES", {}) /\ "NO_FILES" \in Status
        BY <1>2, <3>1 DEF Collect, Status
      <4> QED
        BY <3>1, <4>1, AdvanceStatus
    <3>2. CASE Collected # {}
      BY <1>2, <3>2 DEF Collect
    <3> QED
      BY <3>1, <3>2
  <2>2. Wakes(r)
    BY <1>2, <2>1 DEF TypeOK, Collect, Step, Wakes, Waking, files
  <2>3. Others(r)
    BY <1>2, <2>1 DEF TypeOK, Collect, Step, Others, files
  <2> QED
    BY <2>2, <2>3 DEF StepKinds
<1>3. CASE Evaluate(r)
  BY <1>3 DEF TypeOK, Evaluate, Step, Others, Wakes, Waking, StepKinds, files
<1>4. CASE Move(r)
  BY <1>4, MoveKind DEF StepKinds
<1>5. CASE MoveRaises(r)
  BY <1>5 DEF TypeOK, MoveRaises, Step, Others, Raises, StepKinds, files, memory
<1>6. CASE WriteLatest(r)
  BY <1>6 DEF TypeOK, WriteLatest, Step, Others, WritesLatest, StepKinds, files, memory
<1>7. CASE WriteSnapshot(r)
  BY <1>7 DEF TypeOK, WriteSnapshot, Step, Others, WritesSnapshot, StepKinds, files,
     memory
<1>8. CASE Fail(r)
  <2>1. /\ manifest'[r].run = manifest[r].run /\ manifest'[r].names = manifest[r].names
        /\ manifest'[r].staged = manifest[r].staged /\ manifest'[r].status = "FAILED"
        /\ \A q \in Run \ {r} : manifest'[q] = manifest[q]
    <3>1. Advance(r, "FAILED", {}) /\ "FAILED" \in Status
      BY <1>8 DEF Fail, Status
    <3> QED
      BY <3>1, AdvanceStatus
  <2>2. Concludes(r)
    BY <1>8, <2>1 DEF TypeOK, Fail, Failing, Step, Concludes, Working
  <2>3. Others(r)
    BY <1>8, <2>1 DEF TypeOK, Fail, Write, Step, Others, files
  <2> QED
    BY <2>2, <2>3 DEF StepKinds
<1>9. CASE Load(r)
  BY <1>9 DEF TypeOK, Load, Write, Step, Others, Works, StepKinds, files, memory
<1>10. CASE Hydrate(r)
  BY <1>10 DEF TypeOK, Hydrate, Write, Step, Others, Works, StepKinds, files, memory
<1>11. CASE HaltCheck(r)
  BY <1>11 DEF TypeOK, HaltCheck, Step, Others, Works, StepKinds, files, memory
<1>12. ASSUME NEW status \in Status, NEW kinds \in SUBSET Kind, NEW kind \in Kind,
              Advance(r, status, kinds), Write(r, kind),
              \/ kinds \subseteq {kind}
              \/ pc[r] = "candidates" /\ kinds = PipelineNames /\ kind = "candidates",
              pc[r] \in {"candidates", "audit", "brief", "notify"},
              status = CASE pc[r] = "candidates" -> "PIPELINE_COMPLETE"
                         [] pc[r] = "audit" -> "RISK_GUARD_COMPLETE"
                         [] pc[r] = "brief" -> "ADVISORY_COMPLETE"
                         [] OTHER -> "NOTIFICATION_COMPLETE",
              pc' = [pc EXCEPT ![r] = "latest"],
              UNCHANGED <<files, args, snapshots, latest, halted, alive>>,
              haltSince \ {r} \subseteq haltSince'
       PROVE  Others(r) /\ Concludes(r)
  <2>1. /\ manifest'[r].run = manifest[r].run
        /\ manifest'[r].names = manifest[r].names \cup kinds
        /\ manifest'[r].staged = manifest[r].staged /\ manifest'[r].status = status
        /\ \A q \in Run \ {r} : manifest'[q] = manifest[q]
    BY <1>12, AdvanceEffect
  <2>2. artifacts' = artifacts \cup {<<r, kind>>}
    BY <1>12 DEF Write
  <2>3. pc'[r] = "latest"
    BY <1>12 DEF TypeOK
  <2>4. \A k \in (manifest'[r].names \ manifest[r].names) \ {"expressions"} :
          <<r, k>> \in artifacts' \/ (pc[r] = "candidates" /\ k = "context")
    <3> TAKE k \in (manifest'[r].names \ manifest[r].names) \ {"expressions"}
    <3>1. k \in kinds /\ k # "expressions"
      BY <2>1
    <3>2. k = kind => <<r, k>> \in artifacts'
      BY <2>2
    <3>3. k = kind \/ (pc[r] = "candidates" /\ k = "context")
      <4>1. CASE kinds \subseteq {kind}
        BY <3>1, <4>1
      <4>2. CASE /\ pc[r] = "candidates"
                 /\ kinds = {"context", "candidates", "expressions"} /\ kind = "candidates"
        BY <3>1, <4>2
      <4> QED
        BY <1>12, <4>1, <4>2 DEF PipelineNames
    <3> QED
      BY <3>2, <3>3
  <2>5. Concludes(r)
    BY <1>12, <2>1, <2>3, <2>4 DEF Concludes, Working
  <2>6. Others(r)
    BY <1>12, <2>1, <2>2 DEF TypeOK, Others, files
  <2> QED
    BY <2>5, <2>6
<1>13. CASE Candidates(r)
  <2>1. /\ PipelineNames \in SUBSET Kind /\ "candidates" \in Kind
        /\ "PIPELINE_COMPLETE" \in Status
    BY DEF PipelineNames, Kind, Status
  <2> QED
    BY <1>12, <1>13, <2>1 DEF Candidates, Step, StepKinds
<1>14. CASE Audit(r)
  <2>1. {"audit"} \in SUBSET Kind /\ "audit" \in Kind /\ "RISK_GUARD_COMPLETE" \in Status
    BY DEF Kind, Status
  <2>2. /\ Advance(r, "RISK_GUARD_COMPLETE", {"audit"}) /\ Write(r, "audit")
        /\ pc[r] = "audit" /\ pc' = [pc EXCEPT ![r] = "latest"]
        /\ UNCHANGED <<files, args, snapshots, latest, halted, alive>>
        /\ haltSince \ {r} \subseteq haltSince'
    BY <1>14 DEF Audit, Step
  <2>3. "RISK_GUARD_COMPLETE" = CASE pc[r] = "candidates" -> "PIPELINE_COMPLETE"
                         [] pc[r] = "audit" -> "RISK_GUARD_COMPLETE"
                         [] pc[r] = "brief" -> "ADVISORY_COMPLETE"
                         [] OTHER -> "NOTIFICATION_COMPLETE"
    BY <2>2
  <2>4. pc[r] \in {"candidates", "audit", "brief", "notify"} /\ {"audit"} \subseteq {"audit"}
    BY <2>2
  <2>5. Others(r) /\ Concludes(r)
    BY <1>12, <2>1, <2>2, <2>3, <2>4
  <2> QED
    BY <2>5 DEF StepKinds
<1>15. CASE Brief(r)
  <2>1. {"brief"} \in SUBSET Kind /\ "brief" \in Kind /\ "ADVISORY_COMPLETE" \in Status
    BY DEF Kind, Status
  <2>2. /\ Advance(r, "ADVISORY_COMPLETE", {"brief"}) /\ Write(r, "brief")
        /\ pc[r] = "brief" /\ pc' = [pc EXCEPT ![r] = "latest"]
        /\ UNCHANGED <<files, args, snapshots, latest, halted, alive>>
        /\ haltSince \ {r} \subseteq haltSince'
    BY <1>15 DEF Brief, Step
  <2>3. "ADVISORY_COMPLETE" = CASE pc[r] = "candidates" -> "PIPELINE_COMPLETE"
                         [] pc[r] = "audit" -> "RISK_GUARD_COMPLETE"
                         [] pc[r] = "brief" -> "ADVISORY_COMPLETE"
                         [] OTHER -> "NOTIFICATION_COMPLETE"
    BY <2>2
  <2>4. pc[r] \in {"candidates", "audit", "brief", "notify"} /\ {"brief"} \subseteq {"brief"}
    BY <2>2
  <2>5. Others(r) /\ Concludes(r)
    BY <1>12, <2>1, <2>2, <2>3, <2>4
  <2> QED
    BY <2>5 DEF StepKinds
<1>16. CASE Notify(r)
  <2>1. /\ {"notification"} \in SUBSET Kind /\ "notification" \in Kind
        /\ "NOTIFICATION_COMPLETE" \in Status
    BY DEF Kind, Status
  <2>2. /\ Advance(r, "NOTIFICATION_COMPLETE", {"notification"}) /\ Write(r, "notification")
        /\ pc[r] = "notify" /\ pc' = [pc EXCEPT ![r] = "latest"]
        /\ UNCHANGED <<files, args, snapshots, latest, halted, alive>>
        /\ haltSince \ {r} \subseteq haltSince'
    BY <1>16 DEF Notify, Step
  <2>3. "NOTIFICATION_COMPLETE" = CASE pc[r] = "candidates" -> "PIPELINE_COMPLETE"
                         [] pc[r] = "audit" -> "RISK_GUARD_COMPLETE"
                         [] pc[r] = "brief" -> "ADVISORY_COMPLETE"
                         [] OTHER -> "NOTIFICATION_COMPLETE"
    BY <2>2
  <2>4. /\ pc[r] \in {"candidates", "audit", "brief", "notify"}
        /\ {"notification"} \subseteq {"notification"}
    BY <2>2
  <2>5. Others(r) /\ Concludes(r)
    BY <1>12, <2>1, <2>2, <2>3, <2>4
  <2> QED
    BY <2>5 DEF StepKinds
<1> QED
  BY <1>1, <1>2, <1>3, <1>4, <1>5, <1>6, <1>7, <1>8, <1>9, <1>10, <1>11,
     <1>13, <1>14, <1>15, <1>16 DEF RunStep, Proceed

-----------------------------------------------------------------------------
(* Steps of a run preserve the invariant                                    *)

\* A snapshot is a manifest of the same run.
LEMMA KeepsOwned ==
  ASSUME TypeOK, TypeOK', NEW r \in Run, RunGood(r), Others(r), StepKinds(r)
  PROVE  Owned(r)'
<1>1. CASE Starts(r)
  BY <1>1 DEF Starts, RunGood, Owned
<1>2. CASE Wakes(r)
  BY <1>2 DEF Wakes, RunGood, Owned
<1>3. CASE Raises(r)
  BY <1>3 DEF Raises, RunGood, Owned
<1>4. CASE WritesLatest(r)
  BY <1>4 DEF WritesLatest, RunGood, Owned, WakeUnseen, Waking
<1>5. CASE WritesSnapshot(r)
  BY <1>5 DEF WritesSnapshot, RunGood, Owned, WakeUnseen, Waking
<1>6. CASE Works(r)
  BY <1>6 DEF Works, RunGood, Owned
<1>7. CASE Concludes(r)
  BY <1>7 DEF Concludes, RunGood, Owned
<1> QED
  BY <1>1, <1>2, <1>3, <1>4, <1>5, <1>6, <1>7 DEF StepKinds

\* Only a run past its wake writes.
LEMMA KeepsWakeUnseen ==
  ASSUME TypeOK, TypeOK', NEW r \in Run, RunGood(r), Others(r), StepKinds(r)
  PROVE  WakeUnseen(r)'
<1>1. CASE Starts(r)
  BY <1>1 DEF Starts, RunGood, WakeUnseen, Waking
<1>2. CASE Wakes(r)
  BY <1>2 DEF Wakes, RunGood, WakeUnseen, Waking
<1>3. CASE Raises(r)
  BY <1>3 DEF Raises, WakeUnseen, Waking
<1>4. CASE WritesLatest(r)
  BY <1>4 DEF WritesLatest, RunGood, WakeUnseen, Owned, Waking, Working, AfterWrite
<1>5. CASE WritesSnapshot(r)
  BY <1>5 DEF WritesSnapshot, RunGood, WakeUnseen, Owned, Waking, Working, AfterWrite
<1>6. CASE Works(r)
  BY <1>6 DEF Works, WakeUnseen, Waking
<1>7. CASE Concludes(r)
  BY <1>7 DEF Concludes, WakeUnseen, Waking
<1> QED
  BY <1>1, <1>2, <1>3, <1>4, <1>5, <1>6, <1>7 DEF StepKinds

\* Where a run goes from a complete manifest.
LEMMA AfterWriteStage ==
  ASSUME TypeOK, NEW r \in Run, manifest[r].status # "STARTED", CommandFits(r)
  PROVE  /\ AfterWrite(r) \in Working => manifest[r].status = StatusAt(AfterWrite(r))
         /\ AfterWrite(r) = "latest again" =>
              manifest[r].status \in {"NO_FILES", "FILES_REJECTED"}
         /\ AfterWrite(r) = "ended" => manifest[r].status \in LastStatus(r)
         /\ AfterWrite(r) \in Working \cup {"latest again", "ended", "raised"}
<1>1. manifest[r].status \in Status
  BY DEF TypeOK, Manifest
<1>2. CASE manifest[r].status \in {"NO_FILES", "FILES_REJECTED", "FAILED"}
  BY <1>2 DEF AfterWrite, Working, LastStatus
<1>3. CASE manifest[r].status = "FILES_STAGED"
  BY <1>3 DEF AfterWrite, Working, StatusAt, LastStatus
<1>4. CASE manifest[r].status = "PIPELINE_COMPLETE"
  BY <1>4 DEF AfterWrite, Working, StatusAt
<1>5. CASE manifest[r].status = "RISK_GUARD_COMPLETE"
  BY <1>5 DEF AfterWrite, Working, StatusAt
<1>6. CASE manifest[r].status = "ADVISORY_COMPLETE"
  BY <1>6 DEF AfterWrite, Working, StatusAt, LastStatus, CommandFits
<1>7. CASE manifest[r].status = "NOTIFICATION_COMPLETE"
  BY <1>7 DEF AfterWrite, Working, LastStatus, CommandFits
<1> QED
  BY <1>1, <1>2, <1>3, <1>4, <1>5, <1>6, <1>7 DEF Status

\* The status moves with the stage.
LEMMA KeepsStatusFits ==
  ASSUME TypeOK, TypeOK', NEW r \in Run, RunGood(r), Others(r), StepKinds(r)
  PROVE  StatusFits(r)'
<1>1. CASE Starts(r)
  BY <1>1 DEF Starts, StatusFits, Working
<1>2. CASE Wakes(r)
  BY <1>2 DEF Wakes, RunGood, StatusFits, CommandFits, LastStatus, StatusAt, Waking,
     Working, AfterWrite
<1>3. CASE Raises(r)
  BY <1>3 DEF Raises, StatusFits, Working
<1>4. CASE WritesLatest(r)
  BY <1>4 DEF WritesLatest, RunGood, StatusFits, CommandFits, LastStatus, StatusAt,
     Waking, Working, AfterWrite
<1>5. CASE WritesSnapshot(r)
  <2>1. manifest' = manifest /\ LastStatus(r)' = LastStatus(r)
    BY <1>5 DEF WritesSnapshot, LastStatus
  <2>2. CASE pc[r] = "snapshot again"
    BY <1>5, <2>1, <2>2 DEF WritesSnapshot, RunGood, StatusFits, LastStatus, Working
  <2>3. CASE pc[r] = "snapshot" /\ pc'[r] = AfterWrite(r)
    BY <2>1, <2>3, AfterWriteStage DEF RunGood, StatusFits, Working
  <2> QED
    BY <1>5, <2>2, <2>3 DEF WritesSnapshot
<1>6. CASE Works(r)
  BY <1>6 DEF Works, RunGood, StatusFits, CommandFits, LastStatus, StatusAt, Waking,
     Working, AfterWrite
<1>7. CASE Concludes(r)
  BY <1>7 DEF Concludes, StatusFits, Working
<1> QED
  BY <1>1, <1>2, <1>3, <1>4, <1>5, <1>6, <1>7 DEF StepKinds

\* The wake alone never gets past the wake.
LEMMA KeepsCommandFits ==
  ASSUME TypeOK, TypeOK', NEW r \in Run, RunGood(r), Others(r), StepKinds(r)
  PROVE  CommandFits(r)'
<1>1. CASE Starts(r)
  BY <1>1 DEF Starts, RunGood, CommandFits, WakeUnseen, Waking, Working
<1>2. CASE Wakes(r)
  BY <1>2 DEF Wakes, RunGood, CommandFits, WakeUnseen, Waking, Working
<1>3. CASE Raises(r)
  BY <1>3 DEF Raises, RunGood, CommandFits, Working
<1>4. CASE WritesLatest(r)
  BY <1>4 DEF WritesLatest, RunGood, CommandFits, WakeUnseen, StatusFits, StatusAt,
     Waking, Working, AfterWrite
<1>5. CASE WritesSnapshot(r)
  BY <1>5 DEF WritesSnapshot, RunGood, CommandFits, WakeUnseen, StatusFits, StatusAt,
     Waking, Working, AfterWrite
<1>6. CASE Works(r)
  BY <1>6 DEF Works, RunGood, CommandFits, WakeUnseen, Working
<1>7. CASE Concludes(r)
  BY <1>7 DEF Concludes, RunGood, CommandFits, WakeUnseen
<1> QED
  BY <1>1, <1>2, <1>3, <1>4, <1>5, <1>6, <1>7 DEF StepKinds

\* A new status succeeds the one on disk.
LEMMA KeepsSnapshotBehind ==
  ASSUME TypeOK, TypeOK', NEW r \in Run, RunGood(r), Others(r), StepKinds(r)
  PROVE  SnapshotBehind(r)'
<1>1. CASE Starts(r)
  BY <1>1 DEF Starts, RunGood, SnapshotBehind, Working
<1>2. CASE Wakes(r)
  BY <1>2 DEF Wakes, RunGood, SnapshotBehind, StatusFits, StatusAt, WakeUnseen,
     Waking, Working, AfterWrite, Successors
<1>3. CASE Raises(r)
  BY <1>3 DEF Raises, RunGood, SnapshotBehind, WakeUnseen, Waking, Working
<1>4. CASE WritesLatest(r)
  BY <1>4 DEF WritesLatest, RunGood, SnapshotBehind, StatusFits, StatusAt,
     WakeUnseen, Waking, Working, AfterWrite, Successors
<1>5. CASE WritesSnapshot(r)
  BY <1>5 DEF WritesSnapshot, RunGood, SnapshotBehind, StatusFits, StatusAt,
     WakeUnseen, Waking, Working, AfterWrite, Successors
<1>6. CASE Works(r)
  BY <1>6 DEF Works, RunGood, SnapshotBehind, StatusFits, StatusAt, WakeUnseen,
     Waking, Working, AfterWrite, Successors
<1>7. CASE Concludes(r)
  BY <1>7 DEF Concludes, RunGood, SnapshotBehind, StatusFits, StatusAt, WakeUnseen,
     Waking, Working, AfterWrite, Successors
<1> QED
  BY <1>1, <1>2, <1>3, <1>4, <1>5, <1>6, <1>7 DEF StepKinds

\* A path is stored once the file is there.
LEMMA KeepsNamesExist ==
  ASSUME TypeOK, TypeOK', NEW r \in Run, RunGood(r), Others(r), StepKinds(r)
  PROVE  NamesExist(r)'
<1>1. CASE Starts(r)
  BY <1>1 DEF Starts, RunGood, NamesExist
<1>2. CASE Wakes(r)
  BY <1>2 DEF Wakes, RunGood, NamesExist, Waking
<1>3. CASE Raises(r)
  BY <1>3 DEF Raises, RunGood, NamesExist
<1>4. CASE WritesLatest(r)
  BY <1>4 DEF WritesLatest, RunGood, NamesExist, Waking, Working, AfterWrite, Others
<1>5. CASE WritesSnapshot(r)
  BY <1>5 DEF WritesSnapshot, RunGood, NamesExist, Waking, Working, AfterWrite, Others
<1>6. CASE Works(r)
  BY <1>6 DEF Works, RunGood, NamesExist, Others
<1>7. CASE Concludes(r)
  BY <1>7 DEF Concludes, RunGood, NamesExist, Others
<1> QED
  BY <1>1, <1>2, <1>3, <1>4, <1>5, <1>6, <1>7 DEF StepKinds

\* A real run moves a file before it lists it.
LEMMA KeepsStagedThere ==
  ASSUME TypeOK, TypeOK', NEW r \in Run, RunGood(r), Others(r), StepKinds(r)
  PROVE  StagedThere(r)'
<1>1. CASE Starts(r)
  BY <1>1 DEF Starts, RunGood, StagedThere, WakeUnseen, Waking
<1>2. CASE Wakes(r)
  BY <1>2 DEF Wakes, RunGood, StagedThere
<1>3. CASE Raises(r)
  BY <1>3 DEF Raises, RunGood, StagedThere, Others
<1>4. CASE WritesLatest(r)
  BY <1>4 DEF WritesLatest, RunGood, StagedThere, WakeUnseen, Waking, Others
<1>5. CASE WritesSnapshot(r)
  BY <1>5 DEF WritesSnapshot, RunGood, StagedThere, WakeUnseen, Waking, Others
<1>6. CASE Works(r)
  BY <1>6 DEF Works, RunGood, StagedThere, Others
<1>7. CASE Concludes(r)
  BY <1>7 DEF Concludes, RunGood, StagedThere, Others
<1> QED
  BY <1>1, <1>2, <1>3, <1>4, <1>5, <1>6, <1>7 DEF StepKinds

\* The halt file was absent at the check.
LEMMA KeepsHaltChecked ==
  ASSUME TypeOK, TypeOK', NEW r \in Run, RunGood(r), Others(r), StepKinds(r)
  PROVE  HaltChecked(r)'
<1>1. CASE Starts(r)
  BY <1>1 DEF Starts, HaltChecked
<1>2. CASE Wakes(r)
  BY <1>2 DEF Wakes, HaltChecked, Waking
<1>3. CASE Raises(r)
  BY <1>3 DEF Raises, HaltChecked
<1>4. CASE WritesLatest(r)
  BY <1>4 DEF WritesLatest, HaltChecked
<1>5. CASE WritesSnapshot(r)
  BY <1>5 DEF WritesSnapshot, HaltChecked, AfterWrite
<1>6. CASE Works(r)
  BY <1>6 DEF Works, HaltChecked, Others
<1>7. CASE Concludes(r)
  BY <1>7 DEF Concludes, HaltChecked
<1> QED
  BY <1>1, <1>2, <1>3, <1>4, <1>5, <1>6, <1>7 DEF StepKinds

\* What is written was good in memory.
LEMMA KeepsSnapshotGood ==
  ASSUME TypeOK, TypeOK', NEW r \in Run, RunGood(r), SnapshotGood(r), Others(r), StepKinds(r)
  PROVE  SnapshotGood(r)'
<1>1. CASE Starts(r)
  BY <1>1 DEF Starts, RunGood, SnapshotGood, WakeUnseen, Waking
<1>2. CASE Wakes(r)
  BY <1>2 DEF Wakes, SnapshotGood, Others
<1>3. CASE Raises(r)
  BY <1>3 DEF Raises, SnapshotGood, Others
<1>4. CASE WritesLatest(r)
  BY <1>4 DEF WritesLatest, RunGood, SnapshotGood, Owned, NamesExist, StagedThere,
     WakeUnseen, Waking, Others
<1>5. CASE WritesSnapshot(r)
  BY <1>5 DEF WritesSnapshot, RunGood, SnapshotGood, Owned, NamesExist, StagedThere,
     WakeUnseen, Waking, Others
<1>6. CASE Works(r)
  BY <1>6 DEF Works, SnapshotGood, Others
<1>7. CASE Concludes(r)
  BY <1>7 DEF Concludes, SnapshotGood, Others
<1> QED
  BY <1>1, <1>2, <1>3, <1>4, <1>5, <1>6, <1>7 DEF StepKinds

\* The other runs see at most a new latest manifest, more artifacts and more
\* staged files.
LEMMA OthersGood ==
  ASSUME TypeOK, NEW r \in Run, RunGood(r), Others(r), StepKinds(r),
         NEW q \in Run \ {r}, RunGood(q), SnapshotGood(q)
  PROVE  RunGood(q)' /\ SnapshotGood(q)'
<1>1. latest' = latest \/ (latest' = manifest[r] /\ manifest[r].run = r)
  BY DEF StepKinds, Starts, Wakes, Raises, WritesLatest, WritesSnapshot, Works,
         Concludes, RunGood, Owned
<1>2. Owned(q)' /\ StatusFits(q)' /\ CommandFits(q)' /\ SnapshotBehind(q)'
  BY DEF Others, RunGood, Owned, StatusFits, LastStatus, CommandFits, SnapshotBehind
<1>3. WakeUnseen(q)'
  BY <1>1 DEF Others, RunGood, WakeUnseen
<1>4. NamesExist(q)' /\ StagedThere(q)' /\ HaltChecked(q)'
  BY DEF Others, RunGood, NamesExist, StagedThere, HaltChecked
<1>5. SnapshotGood(q)'
  BY DEF Others, SnapshotGood
<1> QED
  BY <1>2, <1>3, <1>4, <1>5 DEF RunGood

\* Between its two writes a run keeps its manifest in memory.
LEMMA KeepsLatestSettled ==
  ASSUME TypeOK, LatestSettled, NEW r \in Run, RunGood(r), Others(r), StepKinds(r)
  PROVE  LatestSettled'
<1>1. latest # None => latest.run \in Run
  BY DEF TypeOK, Manifest
<1>2. CASE Starts(r) \/ Wakes(r) \/ Raises(r)
  <2>1. latest' = latest /\ (latest # None => latest.run # r)
    BY <1>2 DEF Starts, Wakes, Raises, RunGood, WakeUnseen, Waking
  <2> QED
    BY <1>1, <2>1 DEF LatestSettled, Others
<1>3. CASE WritesLatest(r)
  <2>1. /\ latest' = manifest[r] /\ manifest' = manifest /\ manifest[r].run = r
        /\ pc'[r] \in Writing
    BY <1>3 DEF WritesLatest, RunGood, Owned, Writing
  <2> QED
    BY <2>1 DEF LatestSettled
<1>4. CASE WritesSnapshot(r)
  <2>1. pc'[r] \notin Writing
    BY <1>4, AfterWriteStage DEF WritesSnapshot, RunGood, StatusFits, Writing, Working
  <2>2. pc[r] \in Writing /\ latest' = latest /\ snapshots'[r] = manifest[r]
    BY <1>4 DEF WritesSnapshot, Writing
  <2> QED
    BY <1>1, <2>1, <2>2 DEF LatestSettled, Others
<1>5. CASE Works(r) \/ Concludes(r)
  <2>1. /\ pc[r] \notin Writing /\ pc'[r] \notin Writing
        /\ latest' = latest /\ snapshots' = snapshots
    BY <1>5 DEF Works, Concludes, Writing, Working
  <2> QED
    BY <1>1, <2>1 DEF LatestSettled, Others
<1> QED
  BY <1>2, <1>3, <1>4, <1>5 DEF StepKinds

-----------------------------------------------------------------------------
(* The invariant holds                                                     *)

LEMMA InitInv == Init => IInv
<1> SUFFICES ASSUME Init PROVE IInv
  OBVIOUS
<1>1. \A r \in Run : NewManifest(r) \in Manifest
  BY DEF NewManifest, Manifest, Status
<1>2. TypeOK
  BY <1>1 DEF Init, TypeOK, Stage, Args
<1>3. \A r \in Run : /\ pc[r] = "idle" /\ snapshots[r] = None /\ latest = None
                     /\ manifest[r] = NewManifest(r) /\ halted = FALSE
  BY DEF Init
<1>4. ASSUME NEW r \in Run PROVE RunGood(r)
  <2>1. /\ manifest[r].run = r /\ manifest[r].status = "STARTED"
        /\ manifest[r].names = {} /\ manifest[r].staged = {}
    <3>1. manifest[r] = NewManifest(r)
      BY <1>3
    <3> QED
      BY <3>1 DEF NewManifest
  <2>2. Owned(r) /\ WakeUnseen(r) /\ SnapshotBehind(r)
    BY <1>3, <2>1 DEF Owned, WakeUnseen, SnapshotBehind, Working
  <2>3. StatusFits(r) /\ CommandFits(r)
    BY <1>3, <2>1 DEF StatusFits, CommandFits, Working
  <2>4. NamesExist(r) /\ StagedThere(r) /\ HaltChecked(r)
    BY <1>3, <2>1 DEF NamesExist, StagedThere, HaltChecked
  <2> QED
    BY <2>2, <2>3, <2>4 DEF RunGood
<1>5. (\A r \in Run : SnapshotGood(r)) /\ LatestSettled
  BY <1>3 DEF Init, SnapshotGood, LatestSettled
<1> QED
  BY <1>2, <1>4, <1>5 DEF IInv

LEMMA StepInv ==
  ASSUME IInv, NEW r \in Run, RunStep(r)
  PROVE  IInv'
<1>1. /\ TypeOK /\ TypeOK' /\ Others(r) /\ StepKinds(r)
      /\ RunGood(r) /\ SnapshotGood(r) /\ LatestSettled
  BY StepTypes, StepKind DEF IInv
<1>2. RunGood(r)'
  BY <1>1, KeepsOwned, KeepsWakeUnseen, KeepsSnapshotBehind, KeepsStatusFits,
     KeepsCommandFits, KeepsNamesExist, KeepsStagedThere, KeepsHaltChecked DEF RunGood
<1>3. SnapshotGood(r)'
  BY <1>1, KeepsSnapshotGood
<1>4. \A q \in Run \ {r} : RunGood(q)' /\ SnapshotGood(q)'
  BY <1>1, OthersGood DEF IInv
<1>5. LatestSettled'
  BY <1>1, KeepsLatestSettled
<1> QED
  BY <1>1, <1>2, <1>3, <1>4, <1>5 DEF IInv

LEMMA AroundInv ==
  ASSUME IInv, Around
  PROVE  IInv'
<1>1. TypeOK'
  BY AroundTypes DEF IInv
<1>2. UNCHANGED <<staging, artifacts, latest, snapshots, pc, args, manifest>>
  BY DEF Around, Drop, Halt, Resume, Kill, vars, files, memory
<1>3. \A r \in Run : pc[r] = "audit" /\ halted' /\ alive'[r] =>
        r \in haltSince' \/ (halted /\ alive[r] /\ r \notin haltSince)
  BY DEF TypeOK, IInv, Around, Drop, Halt, Resume, Kill, vars, files, memory
<1>4. ASSUME NEW r \in Run PROVE RunGood(r)'
  <2>1. RunGood(r)
    BY DEF IInv
  <2>2. HaltChecked(r)'
    BY <1>2, <1>3, <2>1 DEF RunGood, HaltChecked
  <2>3. /\ Owned(r)' /\ WakeUnseen(r)' /\ SnapshotBehind(r)' /\ StatusFits(r)'
        /\ CommandFits(r)' /\ NamesExist(r)' /\ StagedThere(r)'
    BY <1>2, <2>1 DEF RunGood, Owned, WakeUnseen, SnapshotBehind, StatusFits,
     LastStatus,
       CommandFits, NamesExist, StagedThere
  <2> QED
    BY <2>2, <2>3 DEF RunGood
<1>5. \A r \in Run : SnapshotGood(r)'
  BY <1>2 DEF IInv, SnapshotGood
<1>6. LatestSettled'
  BY <1>2 DEF IInv, LatestSettled
<1> QED
  BY <1>1, <1>4, <1>5, <1>6 DEF IInv

LEMMA NextInv == IInv /\ [Next]_vars => IInv'
<1> SUFFICES ASSUME IInv, [Next]_vars PROVE IInv'
  OBVIOUS
<1> QED
  BY WhoSteps, StepInv, AroundInv

THEOREM MorningInvariance == Spec => []IInv
BY InitInv, NextInv, PTL DEF Spec

-----------------------------------------------------------------------------
(* Theorems                                                                *)

\* Types of the directories, the manifests and the runs.
THEOREM MorningTypeCorrect == Spec => []TypeOK
<1>1. IInv => TypeOK
  BY DEF IInv
<1> QED
  BY <1>1, MorningInvariance, PTL

\* A manifest on disk belongs to its run, and is the snapshot of it or in memory.
LEMMA OnDiskKnown ==
  ASSUME IInv, NEW m \in OnDisk
  PROVE  /\ m # None /\ m.run \in Run
         /\ m = snapshots[m.run] \/ m = manifest[m.run]
<1>1. CASE m = latest
  <2>1. latest # None /\ latest.run \in Run
    BY <1>1 DEF OnDisk, IInv, TypeOK, Manifest
  <2> QED
    BY <1>1, <2>1 DEF IInv, LatestSettled
<1>2. ASSUME NEW r \in Run, m = snapshots[r]
      PROVE  m # None /\ m.run = r
  BY <1>2 DEF OnDisk, IInv, RunGood, Owned
<1> QED
  BY <1>1, <1>2 DEF OnDisk

\* Every manifest on disk, the latest and the snapshots, names only artifacts that
\* exist, the expressions aside.
THEOREM ManifestsNameWhatExists == Spec => []NamedArtifactsExist
<1>1. ASSUME IInv PROVE NamedArtifactsExist
  <2> SUFFICES ASSUME NEW m \in OnDisk, NEW kind \in m.names \ {"expressions"}
               PROVE  <<m.run, kind>> \in artifacts
    BY DEF NamedArtifactsExist
  <2>1. m # None /\ m.run \in Run /\ (m = snapshots[m.run] \/ m = manifest[m.run])
    BY <1>1, OnDiskKnown
  <2>2. NamesExist(m.run) /\ SnapshotGood(m.run)
    BY <1>1, <2>1 DEF IInv, RunGood
  <2> QED
    BY <2>1, <2>2 DEF NamesExist, SnapshotGood
<1> QED
  BY <1>1, MorningInvariance, PTL

\* The files a real run lists as staged are in staging.
THEOREM ManifestsListWhatIsStaged == Spec => []StagedFilesThere
<1>1. ASSUME IInv PROVE StagedFilesThere
  <2> SUFFICES ASSUME NEW m \in OnDisk, ~args[m.run].dry
               PROVE  m.staged \subseteq staging
    BY DEF StagedFilesThere
  <2>1. m # None /\ m.run \in Run /\ (m = snapshots[m.run] \/ m = manifest[m.run])
    BY <1>1, OnDiskKnown
  <2>2. StagedThere(m.run) /\ SnapshotGood(m.run)
    BY <1>1, <2>1 DEF IInv, RunGood
  <2> QED
    BY <2>1, <2>2 DEF StagedThere, SnapshotGood
<1> QED
  BY <1>1, MorningInvariance, PTL

\* The latest manifest is a snapshot, but between the two writes of its run.
THEOREM LatestFollowsSnapshots == Spec => []LatestIsASnapshot
<1>1. IInv => LatestIsASnapshot
  BY DEF IInv, LatestSettled, LatestIsASnapshot, Writing
<1> QED
  BY <1>1, MorningInvariance, PTL

\* A run that ended or raised left its outcome on disk.
THEOREM OutcomesAreOnDisk == Spec => []EndsAreRecorded
<1>1. ASSUME IInv PROVE EndsAreRecorded
  <2> SUFFICES ASSUME NEW r \in Run
               PROVE  /\ pc[r] = "ended" =>
                           snapshots[r] # None /\ snapshots[r].status \in LastStatus(r)
                      /\ pc[r] = "raised" =>
                           snapshots[r] = None \/ snapshots[r].status = "FAILED"
    BY DEF EndsAreRecorded, LastStatus
  <2>1. SnapshotBehind(r) /\ StatusFits(r) /\ manifest[r] # None
    BY <1>1, NoneAssumption DEF IInv, RunGood, TypeOK
  <2> QED
    BY <2>1 DEF SnapshotBehind, StatusFits
<1> QED
  BY <1>1, MorningInvariance, PTL

\* Snapshots move on stage by stage and keep the artifacts they named.
THEOREM SnapshotsMoveOn == Spec => SnapshotsAdvance
<1> DEFINE Moves == \A r \in Run : snapshots[r] # None /\ snapshots'[r] # snapshots[r] =>
                      /\ snapshots'[r].status \in Successors(snapshots[r].status)
                      /\ snapshots[r].names \subseteq snapshots'[r].names
<1>1. ASSUME IInv, [Next]_vars PROVE [Moves]_vars
  <2>1. ASSUME NEW r \in Run, RunStep(r) PROVE Moves
    <3>1. Others(r) /\ StepKinds(r) /\ RunGood(r)
      BY <1>1, <2>1, StepKind DEF IInv
    <3>2. CASE WritesSnapshot(r)
      BY <3>1, <3>2 DEF Others, WritesSnapshot, RunGood, SnapshotBehind
    <3>3. CASE ~WritesSnapshot(r)
      BY <3>1, <3>3 DEF Others, StepKinds, Starts, Wakes, Raises, WritesLatest, Works,
         Concludes
    <3> QED
      BY <3>2, <3>3
  <2>2. CASE Around
    BY <2>2 DEF Around, Drop, Halt, Resume, Kill, vars
  <2> QED
    BY <1>1, <2>1, <2>2, WhoSteps
<1> QED
  BY <1>1, MorningInvariance, PTL DEF Spec, SnapshotsAdvance

\* No audit is written under the halt file but by a run that had looked before.
THEOREM HaltStopsAudits == Spec => HaltWindow
<1> DEFINE Window == \A r \in Run : <<r, "audit">> \in artifacts' \ artifacts =>
                       ~halted \/ r \in haltSince
<1>1. ASSUME IInv, [Next]_vars PROVE [Window]_vars
  <2>1. ASSUME NEW q \in Run, Audit(q) PROVE Window
    <3>1. artifacts' = artifacts \cup {<<q, "audit">>} /\ pc[q] = "audit" /\ alive[q]
      BY <2>1 DEF Audit, Write, Step
    <3>2. halted => q \in haltSince
      BY <1>1, <3>1 DEF IInv, RunGood, HaltChecked
    <3> QED
      BY <3>1, <3>2
  <2>2. ASSUME NEW q \in Run, RunStep(q), ~Audit(q) PROVE Window
    <3>1. \/ artifacts' = artifacts
          \/ \E kind \in Kind \ {"audit"} : artifacts' = artifacts \cup {<<q, kind>>}
      BY <2>2 DEF RunStep, Proceed, Start, Collect, Evaluate, Move, MoveRaises,
     WriteLatest,
         WriteSnapshot, Fail, Load, Hydrate, Candidates, HaltCheck, Brief, Notify, Write, Kind
    <3> QED
      BY <3>1
  <2>3. CASE Around
    BY <2>3 DEF Around, Drop, Halt, Resume, Kill, vars
  <2> QED
    BY <1>1, <2>1, <2>2, <2>3, WhoSteps DEF vars
<1> QED
  BY <1>1, MorningInvariance, PTL DEF Spec, HaltWindow

-----------------------------------------------------------------------------
(* Why runs end: statuses left, then files left, then stages left          *)

StatusesLeft(status) ==
  CASE status = "STARTED"             -> 5
    [] status = "FILES_STAGED"        -> 4
    [] status = "PIPELINE_COMPLETE"   -> 3
    [] status = "RISK_GUARD_COMPLETE" -> 2
    [] status = "ADVISORY_COMPLETE"   -> 1
    [] OTHER                          -> 0

\* The files are listed once, before anything else.
PhasesLeft(r) == IF pc[r] = "collect" THEN 6 ELSE StatusesLeft(manifest[r].status)

StagesLeft(stage) ==
  CASE stage = "handle"                                            -> 7
    [] stage \in {"move", "latest"}                                -> 6
    [] stage = "snapshot"                                          -> 5
    [] stage \in {"load", "halt", "brief", "notify", "latest again"} -> 4
    [] stage \in {"hydrate", "audit", "snapshot again"}            -> 3
    [] stage = "candidates"                                        -> 2
    [] OTHER                                                       -> 0

\* The stages within one phase.
Follows(a, b) ==
  \/ a = "handle" /\ b = "move"
  \/ a = "move" /\ b = "raised"
  \/ a = "latest" /\ b = "snapshot"
  \/ a = "snapshot" /\ b \in {"load", "halt", "brief", "notify", "latest again",
                              "ended", "raised"}
  \/ a = "latest again" /\ b = "snapshot again"
  \/ a = "snapshot again" /\ b = "ended"
  \/ a = "load" /\ b = "hydrate"
  \/ a = "hydrate" /\ b = "candidates"
  \/ a = "halt" /\ b = "audit"

LEMMA FollowingStage ==
  ASSUME NEW a, NEW b, Follows(a, b)
  PROVE  StagesLeft(b) < StagesLeft(a)
<1>1. /\ StagesLeft("move") < StagesLeft("handle")
      /\ StagesLeft("raised") < StagesLeft("move")
      /\ StagesLeft("snapshot") < StagesLeft("latest")
      /\ StagesLeft("hydrate") < StagesLeft("load")
      /\ StagesLeft("candidates") < StagesLeft("hydrate")
      /\ StagesLeft("audit") < StagesLeft("halt")
  BY DEF StagesLeft
<1>2. /\ StagesLeft("snapshot again") < StagesLeft("latest again")
      /\ StagesLeft("ended") < StagesLeft("snapshot again")
  BY DEF StagesLeft
<1>3. /\ StagesLeft("load") < StagesLeft("snapshot")
      /\ StagesLeft("halt") < StagesLeft("snapshot")
      /\ StagesLeft("brief") < StagesLeft("snapshot")
      /\ StagesLeft("notify") < StagesLeft("snapshot")
      /\ StagesLeft("latest again") < StagesLeft("snapshot")
      /\ StagesLeft("ended") < StagesLeft("snapshot")
      /\ StagesLeft("raised") < StagesLeft("snapshot")
  BY DEF StagesLeft
<1> QED
  BY <1>1, <1>2, <1>3, Zenon DEF Follows

\* Run r has fewer phases left, or fewer files in this one, or fewer stages.
Closer(r) ==
  \/ PhasesLeft(r)' < PhasesLeft(r)
  \/ /\ PhasesLeft(r)' = PhasesLeft(r)
     /\ todo'[r] \subseteq todo[r] /\ todo'[r] # todo[r]
  \/ /\ PhasesLeft(r)' = PhasesLeft(r)
     /\ todo'[r] = todo[r] /\ StagesLeft(pc'[r]) < StagesLeft(pc[r])

Unmoved(r) == pc'[r] = pc[r] /\ todo'[r] = todo[r] /\ manifest'[r] = manifest[r]

FiniteTodo == \A r \in Run : IsFiniteSet(todo[r])

LEMMA TodoIsFinite ==
  ASSUME TypeOK
  PROVE  FiniteTodo
<1>1. IsFiniteSet(Name) /\ IsFiniteSet(BOOLEAN)
  <2>1. IsFiniteSet({TRUE}) /\ IsFiniteSet({FALSE})
    BY FS_Singleton
  <2>2. IsFiniteSet({TRUE} \cup {FALSE})
    BY <2>1, FS_Union
  <2>3. BOOLEAN = {TRUE} \cup {FALSE}
    OBVIOUS
  <2> QED BY <2>2, <2>3, NameAssumption
<1>2. IsFiniteSet(Name \X BOOLEAN)
  BY <1>1, FS_Product
<1>3. IsFiniteSet(Intake)
  <2> DEFINE f == [x \in Name \X BOOLEAN |-> [name |-> x[1], raw |-> x[2]]]
  <2>1. ASSUME NEW e \in Intake PROVE \E x \in Name \X BOOLEAN : f[x] = e
    <3>1. <<e.name, e.raw>> \in Name \X BOOLEAN
      BY DEF Intake
    <3>2. f[<<e.name, e.raw>>] = e
      BY <3>1 DEF Intake
    <3> QED BY <3>1, <3>2
  <2>2. f \in [Name \X BOOLEAN -> Intake]
    BY DEF Intake
  <2>3. f \in Surjection(Name \X BOOLEAN, Intake)
    BY <2>1, <2>2 DEF Surjection
  <2> QED BY <1>2, <2>3, FS_Surjection
<1> QED
  BY <1>3, FS_Subset DEF FiniteTodo, TypeOK

LEMMA TodoOfOthers ==
  ASSUME TypeOK, NEW r \in Run, RunStep(r), NEW q \in Run \ {r}
  PROVE  todo'[q] = todo[q]
BY DEF RunStep, Proceed, Start, Collect, Evaluate, Move, MoveRaises, WriteLatest,
       WriteSnapshot, Fail, Load, Hydrate, Candidates, HaltCheck, Audit, Brief, Notify,
       memory, TypeOK

LEMMA StepIsCloser ==
  ASSUME IInv, NEW r \in Run, RunStep(r), pc[r] # "idle"
  PROVE  Closer(r)
<1>1. TypeOK /\ WakeUnseen(r) /\ StatusFits(r) /\ CommandFits(r)
  BY DEF IInv, RunGood
<1>2. CASE Collect(r)
  <2>1. pc[r] = "collect" /\ pc'[r] # "collect"
    BY <1>1, <1>2 DEF Collect, Step, TypeOK
  <2>2. PhasesLeft(r) = 6 /\ PhasesLeft(r)' < 6
    BY <2>1 DEF PhasesLeft, StatusesLeft
  <2> QED BY <2>2 DEF Closer
<1>3. CASE Evaluate(r)
  <2>1. /\ pc[r] = "handle" /\ pc'[r] = "move"
        /\ todo' = todo /\ manifest' = manifest
    BY <1>1, <1>3 DEF Evaluate, Step, TypeOK
  <2>2. PhasesLeft(r)' = PhasesLeft(r) /\ StagesLeft(pc'[r]) < StagesLeft(pc[r])
    BY <2>1 DEF PhasesLeft, StagesLeft
  <2> QED BY <2>1, <2>2 DEF Closer
<1>4. CASE Move(r)
  <2>1. /\ pc[r] = "move" /\ manifest[r].status = "STARTED"
        /\ pc'[r] \in {"latest", "handle"}
    BY <1>1, <1>4 DEF Move, Step, TypeOK, WakeUnseen, Waking
  <2>2. Wakes(r)
    BY <1>1, <1>4, MoveKind
  <2>3. CASE pc'[r] = "latest"
    <3>1. manifest'[r].status \in {"NO_FILES", "FILES_STAGED", "FILES_REJECTED"}
      BY <2>2, <2>3 DEF Wakes, Waking
    <3>2. PhasesLeft(r)' < PhasesLeft(r)
      BY <2>1, <2>3, <3>1 DEF PhasesLeft, StatusesLeft
    <3> QED BY <3>2 DEF Closer
  <2>4. CASE pc'[r] = "handle"
    <3>1. manifest'[r].status = manifest[r].status
      BY <2>2, <2>4 DEF Wakes
    <3>2. PhasesLeft(r)' = PhasesLeft(r)
      BY <2>1, <2>4, <3>1 DEF PhasesLeft
    <3>3. PICK e \in todo[r] : todo'[r] = todo[r] \ {e}
      BY <1>1, <1>4 DEF Move, TypeOK
    <3> QED BY <3>2, <3>3 DEF Closer
  <2> QED BY <2>1, <2>3, <2>4
<1>5. CASE MoveRaises(r) \/ WriteLatest(r) \/ WriteSnapshot(r)
           \/ Load(r) \/ Hydrate(r) \/ HaltCheck(r)
  <2>1. todo' = todo /\ manifest' = manifest
    BY <1>5 DEF MoveRaises, WriteLatest, WriteSnapshot, Load, Hydrate, HaltCheck, memory
  <2>2. AfterWrite(r) \in {"load", "halt", "brief", "notify", "latest again", "ended", "raised"}
    BY DEF AfterWrite
  <2>3. Follows(pc[r], pc'[r])
    BY <1>1, <1>5, <2>2 DEF MoveRaises, WriteLatest, WriteSnapshot, Load, Hydrate,
       HaltCheck, Step, TypeOK, Follows
  <2>4. PhasesLeft(r)' = PhasesLeft(r)
    BY <2>1, <2>3 DEF PhasesLeft, Follows
  <2>5. StagesLeft(pc'[r]) < StagesLeft(pc[r])
    BY <2>3, FollowingStage
  <2> QED BY <2>1, <2>4, <2>5 DEF Closer
<1>6. CASE Fail(r) \/ Candidates(r) \/ Audit(r) \/ Brief(r) \/ Notify(r)
  <2>1. Concludes(r)
    <3>1. /\ StepKinds(r)
          /\ pc[r] \in Working /\ pc'[r] = "latest"
      BY <1>1, <1>6, StepKind DEF RunStep, Proceed, Fail, Failing, Candidates, Audit, Brief,
         Notify, Step, TypeOK, Working
    <3> QED
      BY <3>1, AfterWriteStage DEF StepKinds, Starts, Wakes, Raises, WritesLatest,
         WritesSnapshot, Works, Waking, Working
  <2>2. manifest[r].status = StatusAt(pc[r])
    BY <1>1, <2>1 DEF StatusFits, Concludes
  <2>3. PhasesLeft(r)' < PhasesLeft(r)
    BY <2>1, <2>2 DEF Concludes, StatusAt, PhasesLeft, StatusesLeft, Working
  <2> QED BY <2>3 DEF Closer
<1> QED
  BY <1>2, <1>3, <1>4, <1>5, <1>6 DEF RunStep, Proceed, Start, Step

\* Only its own next step moves a run that has started, and it leaves the run with
\* less to do: neither other runs nor files that keep arriving can send it back.
\* What RunEnds adds is that there is always a next step, and that it is taken.
THEOREM RunsComeCloserToTheirEnd ==
  Spec => /\ []FiniteTodo
          /\ [][\A r \in Run : pc[r] # "idle" => Unmoved(r) \/ Closer(r)]_vars
<1>1. IInv => FiniteTodo
  BY TodoIsFinite DEF IInv
<1>2. IInv /\ [Next]_vars =>
        [\A r \in Run : pc[r] # "idle" => Unmoved(r) \/ Closer(r)]_vars
  <2> SUFFICES ASSUME IInv, [Next]_vars, NEW r \in Run, pc[r] # "idle"
               PROVE  Unmoved(r) \/ Closer(r)
    OBVIOUS
  <2>1. CASE Around
    BY <2>1 DEF Around, Drop, Halt, Resume, Kill, vars, memory, Unmoved
  <2>2. ASSUME NEW q \in Run, RunStep(q)
        PROVE  Unmoved(r) \/ Closer(r)
    <3>1. CASE q = r
      BY <3>1, <2>2, StepIsCloser
    <3>2. CASE q # r
      BY <3>2, <2>2, StepKind, TodoOfOthers DEF IInv, Others, Unmoved
    <3> QED BY <3>1, <3>2
  <2> QED BY <2>1, <2>2, WhoSteps
<1> QED
  BY <1>1, <1>2, MorningInvariance, PTL DEF Spec

=============================================================================
