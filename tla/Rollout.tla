------------------------------- MODULE Rollout -------------------------------
(***************************************************************************)
(* The update of containers by SafeDock (internal/deployer/lifecycle.go):  *)
(* registry lookup, staging pull, security verdict, transactional rollout, *)
(* rollback, audit row and cleanup of the staging image.                   *)
(*                                                                         *)
(* Each request is one HTTP handler goroutine running                      *)
(* CheckAndUpdateContainer.  Nothing serialises them, so a request is a    *)
(* process with a program counter and every call to the Docker engine is   *)
(* one action: the requests, the engine and the client's disconnection     *)
(* interleave between any two calls.                                       *)
(*                                                                         *)
(* The Docker engine is modelled by what the code relies on: a name        *)
(* belongs to at most one container, an image a container uses is not      *)
(* removed without force, and a call made on a cancelled context does      *)
(* nothing and returns an error.                                           *)
(***************************************************************************)
EXTENDS Naturals, SecOpsPolicy

CONSTANTS
  App,            \* the services an operator runs, one container each at first
  Request,        \* update requests an administrator may send
  Digest,         \* content addresses of images
  Targets,        \* Targets[r]: the containers request r may be aimed at
  Waits,          \* Waits[r]: the requests whose end the sender of r waits for
  Impatient,      \* the requests whose client may disconnect
  FirstImage,     \* FirstImage[a]: what the container of a runs at first
  Report,         \* Report[d]: what the vulnerability scan of d finds
  Fatal,          \* the digests Dockle has a FATAL finding on
  Boot,           \* Boot[d]: what happens when a container of d is started
  Workload,       \* Workload[a]: user and privileges of the container of a
  Global,         \* the global settings
  Override,       \* Override[a]: the settings of a that replace global ones
  Excepted,       \* Excepted[a]: the CVEs accepted for a
  ExceptedForAll, \* the CVEs accepted for every container
  IdsAreDigests,  \* the engine's image store names an image by its digest
  SettingsReadMayFail, \* reading a's settings or exceptions may fail
  None,           \* no container, name, image or audit row
  MaxFaults       \* bound on engine faults, lost replies and process crashes

\* A container is named by who created it: the operator, once per service,
\* or a request, which creates at most one.
Container == App \cup Request

ASSUME RolloutAssumption ==
  /\ App \cap Request = {}
  /\ Targets \in [Request -> SUBSET Container]
  /\ Waits \in [Request -> SUBSET Request]
  /\ Impatient \subseteq Request
  /\ FirstImage \in [App -> Digest]
  /\ Report \in [Digest -> SUBSET [cve : STRING, severity : Severity]]
  /\ Fatal \subseteq Digest
  /\ Boot \in [Digest -> {"runs", "refuses", "crashes"}]
  /\ Workload \in [App -> [root : BOOLEAN, privileged : BOOLEAN]]
  /\ IdsAreDigests \in BOOLEAN
  /\ SettingsReadMayFail \in BOOLEAN
  /\ MaxFaults \in Nat
  /\ None \notin {"BLOCKED", "FAILED", "SUCCESS"}

VARIABLES
  box,      \* box[c]: the container c as the engine knows it
  images,   \* the images in the engine's local store
  latest,   \* latest[a]: what the tag of a resolves to on the registry
  pc,       \* pc[r]: the next step of the goroutine of r
  live,     \* live[r]: the request context of r is not cancelled
  job,      \* job[r]: what r read when it began, and the image it stages
  audit,    \* audit[r]: the status of the audit row r wrote
  reports,  \* the digests SQLite holds a scan report for
  faults    \* faults injected so far

vars == <<box, images, latest, pc, live, job, audit, reports, faults>>

-----------------------------------------------------------------------------
(* The Docker engine *)

\* A container name is a service's own name followed by "-rollback" a number
\* of times.
Name == App \X Nat

OwnName(a) == <<a, 0>>

RollbackName(n) == <<n[1], n[2] + 1>>

ContainerState == {"absent", "created", "running", "stopped", "crashed"}

\* image and pinned (the image reference is a digest) never change; both stay
\* readable once the container is gone, as they do in an earlier inspection.
Box ==
  [state : ContainerState, name : Name \cup {None}, image : Digest \cup {None},
   pinned : BOOLEAN]

Exists(c) == box[c].state # "absent"

Holders(n) == {c \in Container : Exists(c) /\ box[c].name = n}

InUse(d) == \E c \in Container : Exists(c) /\ box[c].image = d

StopResult(c) ==
  [box EXCEPT ![c].state = IF @ = "running" THEN "stopped" ELSE @]

RenameResult(c, n) == [box EXCEPT ![c].name = n]

CreateResult(c, n, d) ==
  [box EXCEPT ![c] = [state |-> "created", name |-> n, image |-> d, pinned |-> TRUE]]

\* A container whose image "crashes" starts and has exited by the time the
\* stability test looks at it.
StartResult(c) ==
  [box EXCEPT ![c].state = IF Boot[box[c].image] = "runs" THEN "running" ELSE "crashed"]

RemoveResult(C) ==
  [c \in Container |-> [box[c] EXCEPT !.state = IF c \in C THEN "absent" ELSE @]]

CanStart(c) == Exists(c) /\ Boot[box[c].image] # "refuses"

CanRename(c, n) == Exists(c) /\ Holders(n) = {}

-----------------------------------------------------------------------------
(* A request *)

Label ==
  {"idle", "lookup", "pull", "scan", "judge", "stop", "dropLeftover", "setAside",
   "undoStop", "create", "start", "health", "discard", "restoreName", "restartOld",
   "fail", "dropOld", "commit", "preload", "cleanup", "updated", "upToDate", "error",
   "killed"}

\* Where a request ends: the three answers of triggerRolloutUpdate, or the
\* death of the process.
Ended == {"updated", "upToDate", "error", "killed"}

Active(r) == pc[r] \notin Ended \cup {"idle"}

Job == [target : Container \cup {None}, name : Name \cup {None}, staged : Digest \cup {None}]

Target(r) == job[r].target

AppOf(r) == job[r].name[1]

OldImage(r) == box[Target(r)].image

Goto(r, label) == pc' = [pc EXCEPT ![r] = label]

Fault == faults < MaxFaults /\ faults' = faults + 1

\* A call to the engine on the request's context.  It is carried out and
\* answered; or it fails, before or after it was carried out; or the engine
\* refuses it, or the context is cancelled and it never leaves the process.
EngineCall(r, accepted, after, ok, ko) ==
  /\ \/ live[r] /\ accepted /\ box' = after /\ Goto(r, ok) /\ UNCHANGED faults
     \/ live[r] /\ accepted /\ box' \in {box, after} /\ Goto(r, ko) /\ Fault
     \/ ~(live[r] /\ accepted) /\ Goto(r, ko) /\ UNCHANGED <<box, faults>>
  /\ UNCHANGED <<images, latest, live, job, audit, reports>>

Init ==
  /\ box = [c \in Container |->
              IF c \in App
                THEN [state |-> "running", name |-> OwnName(c), image |-> FirstImage[c],
                      pinned |-> FALSE]
                ELSE [state |-> "absent", name |-> None, image |-> None, pinned |-> FALSE]]
  /\ images = {FirstImage[a] : a \in App}
  /\ latest = FirstImage
  /\ pc = [r \in Request |-> "idle"]
  /\ live = [r \in Request |-> TRUE]
  /\ job = [r \in Request |-> [target |-> None, name |-> None, staged |-> None]]
  /\ audit = [r \in Request |-> None]
  /\ reports = images
  /\ faults = 0

-----------------------------------------------------------------------------
(* Staging *)

\* The handler inspects the container it was given.
Begin(r) ==
  /\ pc[r] = "idle"
  /\ \A q \in Waits[r] : pc[q] \in Ended
  /\ \E c \in Targets[r] :
       \/ /\ Exists(c)
          /\ job' = [job EXCEPT ![r] = [target |-> c, name |-> box[c].name, staged |-> None]]
          /\ Goto(r, "lookup")
       \/ Goto(r, "error") /\ UNCHANGED job
  /\ UNCHANGED <<box, images, latest, live, audit, reports, faults>>

\* ResolveImageName splits a reference at its first colon.  A reference that
\* carries a digest is split inside it and names no manifest of any registry.
Resolves(c) == ~box[c].pinned

\* FetchRemoteDigest, and the comparison with the image the container runs:
\* an image identifier is a manifest digest only in some image stores.
Lookup(r) ==
  LET remote == latest[AppOf(r)]
  IN /\ pc[r] = "lookup"
     /\ \/ /\ live[r]
           /\ Resolves(Target(r))
           /\ job' = [job EXCEPT ![r] = [target |-> Target(r), name |-> @.name, staged |-> remote]]
           /\ Goto(r, IF IdsAreDigests /\ OldImage(r) = remote THEN "upToDate" ELSE "pull")
        \/ Goto(r, "error") /\ UNCHANGED job
     /\ UNCHANGED <<box, images, latest, live, audit, reports, faults>>

\* The image is pulled by digest.  An error inside the progress stream is
\* discarded, so the pull may be taken for complete without the image.
Pull(r) ==
  /\ pc[r] = "pull"
  /\ \/ live[r] /\ images' \in {images, images \cup {job[r].staged}} /\ Goto(r, "scan")
     \/ Goto(r, "error") /\ UNCHANGED images
  /\ UNCHANGED <<box, latest, live, job, audit, reports, faults>>

\* Trivy runs on the digest and fetches the image itself when it is not local.
Scan(r) ==
  /\ pc[r] = "scan"
  /\ \/ live[r] /\ Goto(r, "judge")
     \/ Goto(r, "cleanup")
  /\ UNCHANGED <<box, images, latest, live, job, audit, reports, faults>>

\* Settings and accepted risks are looked up by container name: a container
\* left under a backup name has none of its service's, only the general ones.
NoOverride == [maxSev |-> "unset", allowRoot |-> "unset", allowPrivileged |-> "unset"]

OverrideOf(n) == IF n[2] = 0 THEN Override[n[1]] ELSE NoOverride

ExceptedOf(n) == ExceptedForAll \cup (IF n[2] = 0 THEN Excepted[n[1]] ELSE {})

\* What the two reads may return: an unreadable row of settings falls back on
\* the global ones, an unreadable list of accepted risks on no risk accepted.
SettingsRead(n) ==
  {Resolve(Global, OverrideOf(n))} \cup (IF SettingsReadMayFail THEN {Global} ELSE {})

ExceptedRead(n) ==
  {ExceptedOf(n)} \cup (IF SettingsReadMayFail THEN {{}} ELSE {})

\* The verdict.  Dockle only runs on an image that passed the other rules, and
\* the pipeline goes on without it when it cannot run.
Judge(r) ==
  LET d == job[r].staged
      n == job[r].name
  IN /\ pc[r] = "judge"
     /\ \E settings \in SettingsRead(n), excepted \in ExceptedRead(n), dockle \in BOOLEAN :
          IF /\ Complies(settings, Workload[n[1]], Report[d], excepted)
             /\ dockle => d \notin Fatal
            THEN Goto(r, "stop") /\ UNCHANGED audit
            ELSE Goto(r, "cleanup") /\ audit' = [audit EXCEPT ![r] = "BLOCKED"]
     /\ UNCHANGED <<box, images, latest, live, job, reports, faults>>

-----------------------------------------------------------------------------
(* executeTransactionalRollout *)

\* Mutant: the old container is renamed while it still runs.
StopOldSkipped(r) == pc[r] = "stop" /\ EngineCall(r, TRUE, box, "dropLeftover", "fail")

StopOld(r) ==
  /\ pc[r] = "stop"
  /\ EngineCall(r, Exists(Target(r)), StopResult(Target(r)), "dropLeftover", "fail")

\* Mutant: the leftover is looked for under the service's own name.
DropLeftoverByOwnName(r) ==
  LET leftover == Holders(job[r].name)
  IN /\ pc[r] = "dropLeftover"
     /\ EngineCall(r, leftover # {}, RemoveResult(leftover), "setAside", "setAside")

\* Any container that holds the backup's name is removed by force.
DropLeftover(r) ==
  LET leftover == Holders(RollbackName(job[r].name))
  IN /\ pc[r] = "dropLeftover"
     /\ EngineCall(r, leftover # {}, RemoveResult(leftover), "setAside", "setAside")

SetAside(r) ==
  LET backup == RollbackName(job[r].name)
  IN /\ pc[r] = "setAside"
     /\ EngineCall(r, CanRename(Target(r), backup), RenameResult(Target(r), backup),
                   "create", "undoStop")

UndoStop(r) ==
  /\ pc[r] = "undoStop"
  /\ EngineCall(r, CanStart(Target(r)), StartResult(Target(r)), "fail", "fail")

\* Mutant: the container is created from the tag, as it resolves by then.
CreateFromTag(r) ==
  LET d == latest[AppOf(r)]
  IN /\ pc[r] = "create"
     /\ EngineCall(r, Holders(job[r].name) = {} /\ d \in images,
                   CreateResult(r, job[r].name, d), "start", "restoreName")

\* The new container takes the name, the configuration and the networks of the
\* old one; failures to attach a network are ignored.
Create(r) ==
  /\ pc[r] = "create"
  /\ EngineCall(r, Holders(job[r].name) = {} /\ job[r].staged \in images,
                CreateResult(r, job[r].name, job[r].staged), "start", "restoreName")

StartNew(r) ==
  /\ pc[r] = "start"
  /\ EngineCall(r, CanStart(r), StartResult(r), "health", "restoreName")

\* Mutant: the inspection succeeds and the state is not looked at.
HealthIgnoresState(r) ==
  /\ pc[r] = "health"
  /\ EngineCall(r, Exists(r), box, "dropOld", "discard")

\* The inspection after the stabilisation delay.
Health(r) ==
  /\ pc[r] = "health"
  /\ EngineCall(r, box[r].state = "running", box, "dropOld", "discard")

\* Mutant: the crashed container is left in place.
DiscardSkipped(r) == pc[r] = "discard" /\ EngineCall(r, TRUE, box, "restoreName", "restoreName")

Discard(r) ==
  /\ pc[r] = "discard"
  /\ EngineCall(r, Exists(r), RemoveResult({r}), "restoreName", "restoreName")

DropOld(r) ==
  /\ pc[r] = "dropOld"
  /\ EngineCall(r, Exists(Target(r)), RemoveResult({Target(r)}), "commit", "commit")

-----------------------------------------------------------------------------
(* triggerRollback *)

RestoreName(r) ==
  /\ pc[r] = "restoreName"
  /\ EngineCall(r, CanRename(Target(r), job[r].name), RenameResult(Target(r), job[r].name),
                "restartOld", "restartOld")

\* Mutant: the rollback renames the old container and does not start it.
RestartOldSkipped(r) == pc[r] = "restartOld" /\ EngineCall(r, TRUE, box, "fail", "fail")

RestartOld(r) ==
  /\ pc[r] = "restartOld"
  /\ EngineCall(r, CanStart(Target(r)), StartResult(Target(r)), "fail", "fail")

-----------------------------------------------------------------------------
(* After the rollout *)

\* Mutant: a failed rollout writes a status the audit log does not know.
FailWithUnknownStatus(r) ==
  /\ pc[r] = "fail"
  /\ audit' = [audit EXCEPT ![r] = "ROLLBACK"]
  /\ Goto(r, "cleanup")
  /\ UNCHANGED <<box, images, latest, live, job, reports, faults>>

Fail(r) ==
  /\ pc[r] = "fail"
  /\ audit' = [audit EXCEPT ![r] = "FAILED"]
  /\ Goto(r, "cleanup")
  /\ UNCHANGED <<box, images, latest, live, job, reports, faults>>

\* The audit row is written and the reports of the replaced image are purged.
Commit(r) ==
  /\ pc[r] = "commit"
  /\ audit' = [audit EXCEPT ![r] = "SUCCESS"]
  /\ reports' = reports \ {OldImage(r)}
  /\ Goto(r, "preload")
  /\ UNCHANGED <<box, images, latest, live, job, faults>>

\* The staging report is saved for the new image if the engine still answers.
Preload(r) ==
  /\ pc[r] = "preload"
  /\ \/ live[r] /\ job[r].staged \in images /\ reports' = reports \cup {job[r].staged}
     \/ UNCHANGED reports
  /\ Goto(r, "updated")
  /\ UNCHANGED <<box, images, latest, live, job, audit, faults>>

\* Mutant: the staging image is removed on the context of the request.
CleanupOnRequestContext(r) ==
  /\ pc[r] = "cleanup"
  /\ images' = IF InUse(job[r].staged) \/ ~live[r] THEN images ELSE images \ {job[r].staged}
  /\ Goto(r, "error")
  /\ UNCHANGED <<box, latest, live, job, audit, reports, faults>>

\* The deferred removal of the staging image, on a context of its own.
Cleanup(r) ==
  /\ pc[r] = "cleanup"
  /\ \/ /\ images' = IF InUse(job[r].staged) THEN images ELSE images \ {job[r].staged}
        /\ UNCHANGED faults
     \/ Fault /\ UNCHANGED images
  /\ Goto(r, "error")
  /\ UNCHANGED <<box, latest, live, job, audit, reports>>

-----------------------------------------------------------------------------
(* The environment *)

Publish ==
  /\ \E a \in App, d \in Digest : latest' = [latest EXCEPT ![a] = d]
  /\ UNCHANGED <<box, images, pc, live, job, audit, reports, faults>>

Disconnect(r) ==
  /\ r \in Impatient
  /\ Active(r)
  /\ live' = [live EXCEPT ![r] = FALSE]
  /\ UNCHANGED <<box, images, latest, pc, job, audit, reports, faults>>

\* SafeDock dies, or is stopped: the server does not wait for its handlers.
\* Nothing of a rollout is persisted, so nothing resumes it.
Crash ==
  /\ \E r \in Request : Active(r)
  /\ Fault
  /\ pc' = [r \in Request |-> IF Active(r) THEN "killed" ELSE pc[r]]
  /\ UNCHANGED <<box, images, latest, live, job, audit, reports>>

-----------------------------------------------------------------------------

Staging(r) == Lookup(r) \/ Pull(r) \/ Scan(r) \/ Judge(r)

Pivot(r) ==
  \/ StopOld(r) \/ DropLeftover(r) \/ SetAside(r) \/ UndoStop(r)
  \/ Create(r) \/ StartNew(r) \/ Health(r) \/ Discard(r) \/ DropOld(r)
  \/ RestoreName(r) \/ RestartOld(r)

Conclusion(r) == Fail(r) \/ Commit(r) \/ Preload(r) \/ Cleanup(r)

Step(r) == Staging(r) \/ Pivot(r) \/ Conclusion(r)

Next ==
  \/ \E r \in Request : Begin(r) \/ Step(r) \/ Disconnect(r)
  \/ Publish
  \/ Crash

\* A goroutine that can take a step takes it: the engine, the registry and the
\* scanners answer every call.  Nobody has to send a request or to publish.
Fairness == \A r \in Request : WF_vars(Step(r))

Spec == Init /\ [][Next]_vars /\ Fairness

(* Properties *)

TypeOK ==
  /\ box \in [Container -> Box]
  /\ images \subseteq Digest
  /\ latest \in [App -> Digest]
  /\ pc \in [Request -> Label]
  /\ live \in [Request -> BOOLEAN]
  /\ job \in [Request -> Job]
  /\ audit \in [Request -> {None, "BLOCKED", "FAILED", "SUCCESS"}]
  /\ reports \subseteq Digest
  /\ faults \in Nat

\* Settings that were in force for a container of this name may have let d
\* through, no risk being accepted but the listed ones.
Admissible(n, d) ==
  \E settings \in SettingsRead(n) :
    Complies(settings, Workload[n[1]], Report[d], ExceptedOf(n))

\* The firewall of deployment: whatever the tag does on the registry between
\* lookup, pull, scan and creation, and whatever fails, a container SafeDock
\* created runs an image whose own report passes the rules of the service.
DeployedImagesComply ==
  \A r \in Request : Exists(r) => Admissible(job[r].name, box[r].image)

\* Once every request has ended, the store holds no image that was staged and
\* not deployed, also when clients went away; an engine fault or a crash of
\* SafeDock may leave one behind.
StagingReclaimed ==
  (faults = 0 /\ \A r \in Request : ~Active(r)) =>
    \A d \in images : InUse(d) \/ \E a \in App : d = FirstImage[a]

Serves(c, a) == box[c].state = "running" /\ box[c].name = OwnName(a)

Up(a) == \E c \in Container : Serves(c, a)

Updating(a) == \E r \in Request : Active(r) /\ AppOf(r) = a

\* The pivot is a transaction: when no update of a service is in progress, a
\* container runs under the service's own name.
ServiceSurvivesUpdate == \A a \in App : Updating(a) \/ Up(a)

\* Two containers of a service, which share its volumes and its ports, never
\* run at the same time.
OneInstance ==
  \A c, e \in Container :
    (/\ box[c].state = "running"
     /\ box[e].state = "running"
     /\ box[c].name[1] = box[e].name[1]) => c = e

TrueOf(r) ==
  CASE audit[r] = "SUCCESS" ->
         /\ box[r].state = "running" /\ box[r].name = job[r].name
         /\ ~Exists(Target(r))
    [] audit[r] \in {"FAILED", "BLOCKED"} ->
         /\ box[Target(r)].state = "running" /\ box[Target(r)].name = job[r].name
         /\ ~Exists(r)
    [] OTHER -> ~Exists(r)

\* When a request answers, its row of the audit log says what became of the
\* containers: SUCCESS, the new one runs under the name and the old one is gone;
\* FAILED or BLOCKED, the old one runs under its name and there is no new one.
AuditTellsTheTruth ==
  [][\A r \in Request : (Active(r) /\ pc'[r] \in {"updated", "error"}) => TrueOf(r)']_vars

\* The operator's container is only removed when its successor has been seen
\* to run and holds the name, whatever call fails and whoever disconnects.
BackupOutlivesTrial ==
  [][\A a \in App : (Exists(a) /\ ~Exists(a)') => Up(a)']_vars

\* Every outage ends, with the version of before or an admissible one: the
\* rollout implements the contract of ServiceContract.
ServedVersion(a) ==
  IF \E r \in Request : Serves(r, a)
    THEN box[CHOOSE r \in Request : Serves(r, a)].image
    ELSE box[a].image

AdmissibleFor(a, d) == Admissible(OwnName(a), d)

Contract == INSTANCE ServiceContract WITH
  Service <- App,
  Version <- Digest,
  Admitted <- AdmissibleFor,
  up <- [a \in App |-> Up(a)],
  version <- [a \in App |-> ServedVersion(a)]

ImplementsContract == Contract!Spec
=============================================================================
