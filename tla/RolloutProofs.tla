---------------------------- MODULE RolloutProofs ----------------------------
(***************************************************************************)
(* Proofs about Rollout, for any services, requests, images, settings and  *)
(* number of faults: the state stays well typed, and no container created  *)
(* by SafeDock ever runs an image that its service's rules refuse.         *)
(***************************************************************************)
EXTENDS Rollout, TLAPS

\* Labels at which a request knows its target, and those past the lookup.
Begun == Label \ {"idle", "error", "killed"}
Staged == Begun \ {"lookup"}

\* Labels between the verdict and the creation it authorises.
Gated == {"stop", "dropLeftover", "setAside", "create"}

\* What a request read when it began is a container and a name, and the image
\* it stages a digest.
JobKnown ==
  \A r \in Request :
    /\ pc[r] \in Begun => job[r].target \in Container /\ job[r].name \in Name
    /\ pc[r] \in Staged => job[r].staged \in Digest

\* The engine's containers have a name and an image.
BoxKnown ==
  \A c \in Container : Exists(c) => box[c].name \in Name /\ box[c].image \in Digest

\* A request that pivots has an image that passed.
GateHeld ==
  \A r \in Request : pc[r] \in Gated => Admissible(job[r].name, job[r].staged)

\* The container of a request runs the image it staged, which passed; the
\* request is past the steps that would change what it works on.
CreatedFromGate ==
  \A r \in Request : Exists(r) =>
    /\ pc[r] \notin {"idle", "lookup"}
    /\ box[r].image = job[r].staged
    /\ Admissible(job[r].name, job[r].staged)

IInv == TypeOK /\ JobKnown /\ BoxKnown /\ GateHeld /\ CreatedFromGate

-----------------------------------------------------------------------------
(* The verdict *)

\* Accepting no risk at all is the strictest reading: an image that passes with
\* no exception passes with any.
LEMMA NoExceptionIsStricter ==
  ASSUME NEW settings, NEW workload, NEW report, NEW excepted,
         Complies(settings, workload, report, {})
  PROVE  Complies(settings, workload, report, excepted)
BY DEF Complies, CveRule, Effective

\* The engine calls that neither create a container nor change an image.
Sound(b) ==
  /\ b \in [Container -> Box]
  /\ \A c \in Container : b[c].state # "absent" =>
       Exists(c) /\ b[c].image = box[c].image /\ b[c].name \in Name

\* A call that changes nothing is one of them.
LEMMA SameIsSound == TypeOK /\ BoxKnown => Sound(box)
BY DEF TypeOK, BoxKnown, Sound, Exists

\* So is a stop.
LEMMA StopIsSound ==
  ASSUME TypeOK, BoxKnown, NEW c \in Container
  PROVE  Sound(StopResult(c))
BY DEF TypeOK, BoxKnown, Sound, StopResult, Exists, Box, ContainerState

\* So is a renaming.
LEMMA RenameIsSound ==
  ASSUME TypeOK, BoxKnown, NEW c \in Container, NEW n \in Name
  PROVE  Sound(RenameResult(c, n))
BY DEF TypeOK, BoxKnown, Sound, RenameResult, Exists, Box

\* So is a start.
LEMMA StartIsSound ==
  ASSUME TypeOK, BoxKnown, NEW c \in Container, CanStart(c)
  PROVE  Sound(StartResult(c))
BY DEF TypeOK, BoxKnown, Sound, StartResult, CanStart, Exists, Box, ContainerState

\* So is a removal.
LEMMA RemoveIsSound ==
  ASSUME TypeOK, BoxKnown, NEW C
  PROVE  Sound(RemoveResult(C))
BY DEF TypeOK, BoxKnown, Sound, RemoveResult, Exists, Box, ContainerState

-----------------------------------------------------------------------------
(* Initial states *)

\* The operator's containers run what they were given; no request has begun.
LEMMA InitIInv == Init => IInv
<1> SUFFICES ASSUME Init PROVE IInv
  OBVIOUS
<1>1. TypeOK
  BY RolloutAssumption
  DEF Init, TypeOK, Container, Box, Name, OwnName, ContainerState, Job, Label
<1>2. JobKnown /\ GateHeld
  BY DEF Init, JobKnown, GateHeld, Begun, Staged, Gated
<1>3. BoxKnown
  BY RolloutAssumption DEF Init, BoxKnown, Exists, Container, Name, OwnName
<1>4. CreatedFromGate
  BY RolloutAssumption DEF Init, CreatedFromGate, Exists, Container
<1> QED
  BY <1>1, <1>2, <1>3, <1>4 DEF IInv

-----------------------------------------------------------------------------
(* Steps that leave the job and the images of containers alone *)

KeepsBoxes ==
  /\ box' \in [Container -> Box]
  /\ \A c \in Container : Exists(c)' =>
       Exists(c) /\ box'[c].image = box[c].image /\ box'[c].name \in Name

\* A sound result keeps the images of the containers that remain.
LEMMA SoundKeepsBoxes ==
  ASSUME NEW STATE b, Sound(b), box' = b
  PROVE  KeepsBoxes
BY DEF Sound, KeepsBoxes, Exists

\* A step past the lookup that creates no container, takes no request through
\* the verdict and does not touch its job keeps the invariant.
LEMMA QuietStep ==
  ASSUME IInv, NEW r \in Request, pc[r] \in Staged,
         NEW l \in Label \ {"idle", "lookup"},
         l \in Gated => pc[r] \in Gated,
         pc' = [pc EXCEPT ![r] = l], UNCHANGED <<latest, live, job>>, KeepsBoxes,
         images' \subseteq Digest, reports' \subseteq Digest, faults' \in Nat,
         audit' \in [Request -> {None, "BLOCKED", "FAILED", "SUCCESS"}]
  PROVE  IInv'
<1>1. TypeOK'
  BY DEF IInv, TypeOK, KeepsBoxes
<1>2. \A q \in Request : pc'[q] = IF q = r THEN l ELSE pc[q]
  BY DEF IInv, TypeOK
<1>3. JobKnown'
  BY <1>2 DEF IInv, JobKnown, Begun, Staged
<1>4. BoxKnown'
  BY DEF IInv, BoxKnown, KeepsBoxes
<1>5. \A n, d : Admissible(n, d)' = Admissible(n, d)
  BY DEF Admissible, SettingsRead, ExceptedOf, OverrideOf
<1>6. GateHeld'
  BY <1>2, <1>5 DEF IInv, GateHeld
<1>7. CreatedFromGate'
  BY <1>2, <1>5 DEF IInv, CreatedFromGate, KeepsBoxes, Container
<1> QED
  BY <1>1, <1>3, <1>4, <1>6, <1>7 DEF IInv

\* An engine call with a sound result, whatever its outcome.
LEMMA CallStep ==
  ASSUME IInv, NEW r \in Request, pc[r] \in Staged,
         NEW STATE accepted, accepted \in BOOLEAN,
         NEW STATE after, accepted => Sound(after),
         NEW ok \in Label \ {"idle", "lookup"}, NEW ko \in Label \ {"idle", "lookup"},
         {ok, ko} \cap Gated # {} => pc[r] \in Gated,
         EngineCall(r, accepted, after, ok, ko)
  PROVE  IInv'
<1> USE DEF EngineCall, Goto
<1>1. KeepsBoxes
  BY SameIsSound DEF IInv, Sound, KeepsBoxes, Exists
<1>2. faults' \in Nat
  BY DEF IInv, TypeOK, Fault
<1>3. UNCHANGED <<latest, live, job>>
  OBVIOUS
<1>4. /\ images' \subseteq Digest /\ reports' \subseteq Digest
      /\ audit' \in [Request -> {None, "BLOCKED", "FAILED", "SUCCESS"}]
  BY DEF IInv, TypeOK
<1>5. CASE pc' = [pc EXCEPT ![r] = ok]
  BY <1>1, <1>2, <1>3, <1>4, <1>5, QuietStep
<1>6. CASE pc' = [pc EXCEPT ![r] = ko]
  BY <1>1, <1>2, <1>3, <1>4, <1>6, QuietStep
<1> QED
  BY <1>5, <1>6

-----------------------------------------------------------------------------
(* The steps of a request *)

\* Past the lookup, a request knows its target, name and image.
LEMMA TargetKnown ==
  ASSUME IInv, NEW r \in Request, pc[r] \in Staged
  PROVE  /\ Target(r) \in Container
         /\ job[r].name \in Name
         /\ job[r].staged \in Digest
         /\ RollbackName(job[r].name) \in Name
BY DEF IInv, JobKnown, Staged, Begun, Target, RollbackName, Name

\* The inspection that opens a request.
LEMMA BeginStep ==
  ASSUME IInv, NEW r \in Request, Begin(r)
  PROVE  IInv'
<1> USE DEF Begin, Goto
<1>1. PICK c \in Targets[r] :
        \/ /\ Exists(c)
           /\ job' = [job EXCEPT ![r] = [target |-> c, name |-> box[c].name, staged |-> None]]
           /\ pc' = [pc EXCEPT ![r] = "lookup"]
        \/ pc' = [pc EXCEPT ![r] = "error"] /\ UNCHANGED job
  OBVIOUS
<1>2. c \in Container
  BY RolloutAssumption
<1>3. Exists(c) => box[c].name \in Name
  BY <1>2 DEF IInv, BoxKnown
<1>4. TypeOK'
  <2>1. job' \in [Request -> Job]
    BY <1>1, <1>2, <1>3 DEF IInv, TypeOK, Job
  <2>2. pc' \in [Request -> Label]
    BY <1>1 DEF IInv, TypeOK, Label
  <2> QED
    BY <2>1, <2>2 DEF IInv, TypeOK
<1>5. JobKnown'
  BY <1>1, <1>2, <1>3 DEF IInv, TypeOK, JobKnown, Job, Begun, Staged
<1>6. BoxKnown'
  BY DEF IInv, BoxKnown, Exists
<1>7. \A n, d : Admissible(n, d)' = Admissible(n, d)
  BY DEF Admissible, SettingsRead, ExceptedOf, OverrideOf
<1>8. \A q \in Request \ {r} : pc'[q] = pc[q] /\ job'[q] = job[q]
  BY <1>1 DEF IInv, TypeOK
<1>9. pc'[r] \in {"lookup", "error"} /\ pc[r] = "idle"
  BY <1>1 DEF IInv, TypeOK
<1>10. GateHeld'
  BY <1>7, <1>8, <1>9 DEF IInv, GateHeld, Gated
<1>11. CreatedFromGate'
  BY <1>7, <1>8, <1>9 DEF IInv, CreatedFromGate, Exists
<1> QED
  BY <1>4, <1>5, <1>6, <1>10, <1>11 DEF IInv

\* The digest is fixed while no container of the request exists.
LEMMA LookupStep ==
  ASSUME IInv, NEW r \in Request, Lookup(r)
  PROVE  IInv'
<1> USE DEF Lookup, Goto
<1>1. pc[r] = "lookup" /\ job[r].target \in Container /\ job[r].name \in Name
  BY DEF IInv, JobKnown, Begun, Label
<1>2. latest[AppOf(r)] \in Digest
  BY <1>1 DEF IInv, TypeOK, AppOf, Name
<1>3. \/ /\ job' = [job EXCEPT ![r] = [target |-> job[r].target, name |-> job[r].name,
                                    staged |-> latest[AppOf(r)]]]
         /\ \/ pc' = [pc EXCEPT ![r] = "upToDate"]
            \/ pc' = [pc EXCEPT ![r] = "pull"]
      \/ pc' = [pc EXCEPT ![r] = "error"] /\ UNCHANGED job
  BY DEF Target
<1>4. TypeOK'
  BY <1>2, <1>3 DEF IInv, TypeOK, Job, Label
<1>5. JobKnown'
  BY <1>1, <1>2, <1>3 DEF IInv, TypeOK, JobKnown, Job, Begun, Staged
<1>6. BoxKnown'
  BY DEF IInv, BoxKnown, Exists
<1>7. \A n, d : Admissible(n, d)' = Admissible(n, d)
  BY DEF Admissible, SettingsRead, ExceptedOf, OverrideOf
<1>8. \A q \in Request \ {r} : pc'[q] = pc[q] /\ job'[q] = job[q]
  BY <1>3 DEF IInv, TypeOK
<1>9. pc'[r] \in {"upToDate", "pull", "error"}
  BY <1>3 DEF IInv, TypeOK
<1>10. GateHeld'
  BY <1>7, <1>8, <1>9 DEF IInv, GateHeld, Gated
<1>11. CreatedFromGate'
  BY <1>1, <1>7, <1>8, <1>9 DEF IInv, CreatedFromGate, Exists
<1> QED
  BY <1>4, <1>5, <1>6, <1>10, <1>11 DEF IInv

\* A pull only adds the staged image.
LEMMA PullStep ==
  ASSUME IInv, NEW r \in Request, Pull(r)
  PROVE  IInv'
<1>1. pc[r] \in Staged
  BY DEF Pull, Staged, Begun, Label
<1>2. KeepsBoxes
  BY DEF Pull, IInv, TypeOK, BoxKnown, KeepsBoxes, Exists
<1>3. images' \subseteq Digest
  BY <1>1, TargetKnown DEF Pull, IInv, TypeOK
<1>4. PICK l \in {"scan", "error"} : pc' = [pc EXCEPT ![r] = l]
  BY DEF Pull, Goto
<1>5. l \in Label \ {"idle", "lookup"} /\ l \notin Gated
  BY DEF Label, Gated
<1> QED
  BY <1>1, <1>2, <1>3, <1>4, <1>5, QuietStep DEF Pull, IInv, TypeOK

\* A scan changes nothing but the step of the request.
LEMMA ScanStep ==
  ASSUME IInv, NEW r \in Request, Scan(r)
  PROVE  IInv'
<1>1. pc[r] \in Staged
  BY DEF Scan, Staged, Begun, Label
<1>2. KeepsBoxes
  BY DEF Scan, IInv, TypeOK, BoxKnown, KeepsBoxes, Exists
<1>3. PICK l \in {"judge", "cleanup"} : pc' = [pc EXCEPT ![r] = l]
  BY DEF Scan, Goto
<1>4. l \in Label \ {"idle", "lookup"} /\ l \notin Gated
  BY DEF Label, Gated
<1> QED
  BY <1>1, <1>2, <1>3, <1>4, QuietStep DEF Scan, IInv, TypeOK

\* The verdict only lets through what the rules of the service admit, also when
\* the accepted risks could not be read.
LEMMA VerdictAdmits ==
  ASSUME NEW n, NEW d, NEW settings \in SettingsRead(n), NEW excepted \in ExceptedRead(n),
         Complies(settings, Workload[n[1]], Report[d], excepted)
  PROVE  Admissible(n, d)
<1>1. excepted = ExceptedOf(n) \/ excepted = {}
  BY DEF ExceptedRead
<1>2. Complies(settings, Workload[n[1]], Report[d], ExceptedOf(n))
  BY <1>1, NoExceptionIsStricter
<1> QED
  BY <1>2 DEF Admissible

\* A request reaches the pivot with an image that passed.
LEMMA JudgeStep ==
  ASSUME IInv, NEW r \in Request, Judge(r)
  PROVE  IInv'
<1> DEFINE n == job[r].name
           d == job[r].staged
<1>1. pc[r] = "judge" /\ UNCHANGED <<box, images, latest, live, job, reports, faults>>
  BY DEF Judge
<1>2. \/ pc' = [pc EXCEPT ![r] = "stop"] /\ UNCHANGED audit /\ Admissible(n, d)
      \/ pc' = [pc EXCEPT ![r] = "cleanup"] /\ audit' = [audit EXCEPT ![r] = "BLOCKED"]
  BY VerdictAdmits DEF Judge, Goto
<1>3. TypeOK'
  BY <1>1, <1>2 DEF IInv, TypeOK, Label
<1>4. pc'[r] \in {"stop", "cleanup"} /\ \A q \in Request \ {r} : pc'[q] = pc[q]
  BY <1>2 DEF IInv, TypeOK
<1>5. JobKnown'
  BY <1>1, <1>4 DEF IInv, JobKnown, Begun, Staged, Label
<1>6. BoxKnown'
  BY <1>1 DEF IInv, BoxKnown, Exists
<1>7. \A m, e : Admissible(m, e)' = Admissible(m, e)
  BY DEF Admissible, SettingsRead, ExceptedOf, OverrideOf
<1>8. pc'[r] = "stop" => Admissible(n, d)
  BY <1>2 DEF IInv, TypeOK
<1>9. GateHeld'
  BY <1>1, <1>4, <1>7, <1>8 DEF IInv, GateHeld, Gated
<1>10. CreatedFromGate'
  BY <1>1, <1>4, <1>7 DEF IInv, CreatedFromGate, Exists
<1> QED
  BY <1>3, <1>5, <1>6, <1>9, <1>10 DEF IInv

\* Every call of the pivot but the creation keeps the invariant, whatever its
\* outcome.
LEMMA PivotStep ==
  ASSUME IInv, NEW r \in Request, Pivot(r), ~Create(r)
  PROVE  IInv'
<1>1. CASE StopOld(r)
  <2> DEFINE accepted == Exists(Target(r))
             after == StopResult(Target(r))
  <2>1. pc[r] = "stop" /\ pc[r] \in Staged
    BY <1>1 DEF StopOld, Staged, Begun, Label
  <2>2. accepted \in BOOLEAN
    BY DEF Exists
  <2>3. accepted => Sound(after)
    BY <2>1, TargetKnown, StopIsSound DEF IInv, Exists
  <2>4. /\ "dropLeftover" \in Label \ {"idle", "lookup"} /\ "fail" \in Label \ {"idle", "lookup"}
        /\ {"dropLeftover", "fail"} \cap Gated # {} => pc[r] \in Gated
    BY <2>1 DEF Label, Gated
  <2>5. EngineCall(r, accepted, after, "dropLeftover", "fail")
    BY <1>1 DEF StopOld
  <2> HIDE DEF accepted, after
  <2> QED
    BY <2>1, <2>2, <2>3, <2>4, <2>5, CallStep
<1>2. CASE DropLeftover(r)
  <2> DEFINE accepted == Holders(RollbackName(job[r].name)) # {}
             after == RemoveResult(Holders(RollbackName(job[r].name)))
  <2>1. pc[r] = "dropLeftover" /\ pc[r] \in Staged
    BY <1>2 DEF DropLeftover, Staged, Begun, Label
  <2>2. accepted \in BOOLEAN
    BY DEF Exists
  <2>3. accepted => Sound(after)
    BY <2>1, TargetKnown, RemoveIsSound DEF IInv, Exists
  <2>4. /\ "setAside" \in Label \ {"idle", "lookup"} /\ "setAside" \in Label \ {"idle", "lookup"}
        /\ {"setAside", "setAside"} \cap Gated # {} => pc[r] \in Gated
    BY <2>1 DEF Label, Gated
  <2>5. EngineCall(r, accepted, after, "setAside", "setAside")
    BY <1>2 DEF DropLeftover
  <2> HIDE DEF accepted, after
  <2> QED
    BY <2>1, <2>2, <2>3, <2>4, <2>5, CallStep
<1>3. CASE SetAside(r)
  <2> DEFINE accepted == CanRename(Target(r), RollbackName(job[r].name))
             after == RenameResult(Target(r), RollbackName(job[r].name))
  <2>1. pc[r] = "setAside" /\ pc[r] \in Staged
    BY <1>3 DEF SetAside, Staged, Begun, Label
  <2>2. accepted \in BOOLEAN
    BY DEF CanRename
  <2>3. accepted => Sound(after)
    BY <2>1, TargetKnown, RenameIsSound DEF IInv, CanRename
  <2>4. /\ "create" \in Label \ {"idle", "lookup"} /\ "undoStop" \in Label \ {"idle", "lookup"}
        /\ {"create", "undoStop"} \cap Gated # {} => pc[r] \in Gated
    BY <2>1 DEF Label, Gated
  <2>5. EngineCall(r, accepted, after, "create", "undoStop")
    BY <1>3 DEF SetAside
  <2> HIDE DEF accepted, after
  <2> QED
    BY <2>1, <2>2, <2>3, <2>4, <2>5, CallStep
<1>4. CASE UndoStop(r)
  <2> DEFINE accepted == CanStart(Target(r))
             after == StartResult(Target(r))
  <2>1. pc[r] = "undoStop" /\ pc[r] \in Staged
    BY <1>4 DEF UndoStop, Staged, Begun, Label
  <2>2. accepted \in BOOLEAN
    BY DEF CanStart
  <2>3. accepted => Sound(after)
    BY <2>1, TargetKnown, StartIsSound DEF IInv, CanStart
  <2>4. /\ "fail" \in Label \ {"idle", "lookup"} /\ "fail" \in Label \ {"idle", "lookup"}
        /\ {"fail", "fail"} \cap Gated # {} => pc[r] \in Gated
    BY <2>1 DEF Label, Gated
  <2>5. EngineCall(r, accepted, after, "fail", "fail")
    BY <1>4 DEF UndoStop
  <2> HIDE DEF accepted, after
  <2> QED
    BY <2>1, <2>2, <2>3, <2>4, <2>5, CallStep
<1>5. CASE StartNew(r)
  <2> DEFINE accepted == CanStart(r)
             after == StartResult(r)
  <2>1. pc[r] = "start" /\ pc[r] \in Staged
    BY <1>5 DEF StartNew, Staged, Begun, Label
  <2>2. accepted \in BOOLEAN
    BY DEF CanStart, Container
  <2>3. accepted => Sound(after)
    BY <2>1, TargetKnown, StartIsSound DEF IInv, CanStart, Container
  <2>4. /\ "health" \in Label \ {"idle", "lookup"} /\ "restoreName" \in Label \ {"idle", "lookup"}
        /\ {"health", "restoreName"} \cap Gated # {} => pc[r] \in Gated
    BY <2>1 DEF Label, Gated
  <2>5. EngineCall(r, accepted, after, "health", "restoreName")
    BY <1>5 DEF StartNew
  <2> HIDE DEF accepted, after
  <2> QED
    BY <2>1, <2>2, <2>3, <2>4, <2>5, CallStep
<1>6. CASE Health(r)
  <2> DEFINE accepted == box[r].state = "running"
             after == box
  <2>1. pc[r] = "health" /\ pc[r] \in Staged
    BY <1>6 DEF Health, Staged, Begun, Label
  <2>2. accepted \in BOOLEAN
    BY DEF Exists
  <2>3. accepted => Sound(after)
    BY <2>1, TargetKnown, SameIsSound DEF IInv, Exists
  <2>4. /\ "dropOld" \in Label \ {"idle", "lookup"} /\ "discard" \in Label \ {"idle", "lookup"}
        /\ {"dropOld", "discard"} \cap Gated # {} => pc[r] \in Gated
    BY <2>1 DEF Label, Gated
  <2>5. EngineCall(r, accepted, after, "dropOld", "discard")
    BY <1>6 DEF Health
  <2> HIDE DEF accepted, after
  <2> QED
    BY <2>1, <2>2, <2>3, <2>4, <2>5, CallStep
<1>7. CASE Discard(r)
  <2> DEFINE accepted == Exists(r)
             after == RemoveResult({r})
  <2>1. pc[r] = "discard" /\ pc[r] \in Staged
    BY <1>7 DEF Discard, Staged, Begun, Label
  <2>2. accepted \in BOOLEAN
    BY DEF Exists
  <2>3. accepted => Sound(after)
    BY <2>1, TargetKnown, RemoveIsSound DEF IInv, Exists
  <2>4. /\ "restoreName" \in Label \ {"idle", "lookup"} /\ "restoreName" \in Label \ {"idle", "lookup"}
        /\ {"restoreName", "restoreName"} \cap Gated # {} => pc[r] \in Gated
    BY <2>1 DEF Label, Gated
  <2>5. EngineCall(r, accepted, after, "restoreName", "restoreName")
    BY <1>7 DEF Discard
  <2> HIDE DEF accepted, after
  <2> QED
    BY <2>1, <2>2, <2>3, <2>4, <2>5, CallStep
<1>8. CASE DropOld(r)
  <2> DEFINE accepted == Exists(Target(r))
             after == RemoveResult({Target(r)})
  <2>1. pc[r] = "dropOld" /\ pc[r] \in Staged
    BY <1>8 DEF DropOld, Staged, Begun, Label
  <2>2. accepted \in BOOLEAN
    BY DEF Exists
  <2>3. accepted => Sound(after)
    BY <2>1, TargetKnown, RemoveIsSound DEF IInv, Exists
  <2>4. /\ "commit" \in Label \ {"idle", "lookup"} /\ "commit" \in Label \ {"idle", "lookup"}
        /\ {"commit", "commit"} \cap Gated # {} => pc[r] \in Gated
    BY <2>1 DEF Label, Gated
  <2>5. EngineCall(r, accepted, after, "commit", "commit")
    BY <1>8 DEF DropOld
  <2> HIDE DEF accepted, after
  <2> QED
    BY <2>1, <2>2, <2>3, <2>4, <2>5, CallStep
<1>9. CASE RestoreName(r)
  <2> DEFINE accepted == CanRename(Target(r), job[r].name)
             after == RenameResult(Target(r), job[r].name)
  <2>1. pc[r] = "restoreName" /\ pc[r] \in Staged
    BY <1>9 DEF RestoreName, Staged, Begun, Label
  <2>2. accepted \in BOOLEAN
    BY DEF CanRename
  <2>3. accepted => Sound(after)
    BY <2>1, TargetKnown, RenameIsSound DEF IInv, CanRename
  <2>4. /\ "restartOld" \in Label \ {"idle", "lookup"} /\ "restartOld" \in Label \ {"idle", "lookup"}
        /\ {"restartOld", "restartOld"} \cap Gated # {} => pc[r] \in Gated
    BY <2>1 DEF Label, Gated
  <2>5. EngineCall(r, accepted, after, "restartOld", "restartOld")
    BY <1>9 DEF RestoreName
  <2> HIDE DEF accepted, after
  <2> QED
    BY <2>1, <2>2, <2>3, <2>4, <2>5, CallStep
<1>10. CASE RestartOld(r)
  <2> DEFINE accepted == CanStart(Target(r))
             after == StartResult(Target(r))
  <2>1. pc[r] = "restartOld" /\ pc[r] \in Staged
    BY <1>10 DEF RestartOld, Staged, Begun, Label
  <2>2. accepted \in BOOLEAN
    BY DEF CanStart
  <2>3. accepted => Sound(after)
    BY <2>1, TargetKnown, StartIsSound DEF IInv, CanStart
  <2>4. /\ "fail" \in Label \ {"idle", "lookup"} /\ "fail" \in Label \ {"idle", "lookup"}
        /\ {"fail", "fail"} \cap Gated # {} => pc[r] \in Gated
    BY <2>1 DEF Label, Gated
  <2>5. EngineCall(r, accepted, after, "fail", "fail")
    BY <1>10 DEF RestartOld
  <2> HIDE DEF accepted, after
  <2> QED
    BY <2>1, <2>2, <2>3, <2>4, <2>5, CallStep
<1> QED
  BY <1>1, <1>2, <1>3, <1>4, <1>5, <1>6, <1>7, <1>8, <1>9, <1>10 DEF Pivot

\* A container is created from the image the verdict was about, also when the
\* reply to the creation is lost.
LEMMA CreateStep ==
  ASSUME IInv, NEW r \in Request, Create(r)
  PROVE  IInv'
<1> DEFINE n == job[r].name
           d == job[r].staged
           new == [state |-> "created", name |-> n, image |-> d, pinned |-> TRUE]
<1>1. pc[r] = "create" /\ pc[r] \in Staged /\ pc[r] \in Gated
  BY DEF Create, Staged, Begun, Label, Gated
<1>2. n \in Name /\ d \in Digest /\ r \in Container /\ Admissible(n, d)
  BY <1>1, TargetKnown DEF IInv, GateHeld, Container
<1>3. /\ box' = box \/ box' = [box EXCEPT ![r] = new]
      /\ pc' = [pc EXCEPT ![r] = "start"] \/ pc' = [pc EXCEPT ![r] = "restoreName"]
      /\ UNCHANGED <<images, latest, live, job, audit, reports>>
  BY DEF Create, EngineCall, CreateResult, Goto
<1>4. faults' \in Nat
  BY DEF Create, EngineCall, Fault, IInv, TypeOK
<1>5. new \in Box
  BY <1>2 DEF Box, ContainerState
<1>6. box' \in [Container -> Box] /\ pc' \in [Request -> Label]
  BY <1>2, <1>3, <1>5 DEF IInv, TypeOK, Label
<1>7. TypeOK'
  BY <1>3, <1>4, <1>6 DEF IInv, TypeOK
<1>8. /\ pc'[r] \in {"start", "restoreName"}
      /\ \A q \in Request \ {r} : pc'[q] = pc[q]
  BY <1>3 DEF IInv, TypeOK
<1>9. \A c \in Container : box'[c] = box[c] \/ (c = r /\ box'[c] = new)
  BY <1>2, <1>3 DEF IInv, TypeOK
<1>10. JobKnown'
  BY <1>1, <1>3, <1>8 DEF IInv, JobKnown, Begun, Staged
<1>11. BoxKnown'
  BY <1>2, <1>9 DEF IInv, BoxKnown, Exists
<1>12. \A m, e : Admissible(m, e)' = Admissible(m, e)
  BY DEF Admissible, SettingsRead, ExceptedOf, OverrideOf
<1>13. GateHeld'
  BY <1>3, <1>8, <1>12 DEF IInv, GateHeld, Gated
<1>14. CreatedFromGate'
  <2> SUFFICES ASSUME NEW q \in Request, Exists(q)'
               PROVE  /\ pc'[q] \notin {"idle", "lookup"}
                      /\ box'[q].image = job[q].staged
                      /\ Admissible(job[q].name, job[q].staged)
    BY <1>3, <1>12 DEF CreatedFromGate
  <2>1. CASE box'[q] = box[q]
    BY <2>1, <1>8 DEF IInv, CreatedFromGate, Exists
  <2>2. CASE q = r /\ box'[q] = new
    BY <2>2, <1>2, <1>8
  <2> QED
    BY <2>1, <2>2, <1>9 DEF Container
<1> QED
  BY <1>7, <1>10, <1>11, <1>13, <1>14 DEF IInv

\* What follows the rollout touches neither the containers nor the job.
LEMMA ConclusionStep ==
  ASSUME IInv, NEW r \in Request, Conclusion(r)
  PROVE  IInv'
<1>1. /\ pc[r] \in {"fail", "commit", "preload", "cleanup"}
      /\ UNCHANGED <<box, latest, live, job>>
  BY DEF Conclusion, Fail, Commit, Preload, Cleanup
<1>2. pc[r] \in Staged /\ job[r].staged \in Digest
  BY <1>1, TargetKnown DEF Staged, Begun, Label
<1>3. KeepsBoxes
  BY <1>1 DEF IInv, TypeOK, BoxKnown, KeepsBoxes, Exists
<1>4. PICK l \in {"cleanup", "preload", "updated", "error"} : pc' = [pc EXCEPT ![r] = l]
  BY DEF Conclusion, Fail, Commit, Preload, Cleanup, Goto
<1>5. l \in Label \ {"idle", "lookup"} /\ l \notin Gated
  BY DEF Label, Gated
<1>6. /\ images' \subseteq Digest /\ reports' \subseteq Digest /\ faults' \in Nat
      /\ audit' \in [Request -> {None, "BLOCKED", "FAILED", "SUCCESS"}]
  <2>1. CASE Fail(r)
    BY <2>1 DEF Fail, IInv, TypeOK
  <2>2. CASE Commit(r)
    BY <2>2 DEF Commit, IInv, TypeOK
  <2>3. CASE Preload(r)
    BY <2>3, <1>2 DEF Preload, IInv, TypeOK
  <2>4. CASE Cleanup(r)
    BY <2>4 DEF Cleanup, Fault, IInv, TypeOK
  <2> QED
    BY <2>1, <2>2, <2>3, <2>4 DEF Conclusion
<1> QED
  BY <1>1, <1>2, <1>3, <1>4, <1>5, <1>6, QuietStep

-----------------------------------------------------------------------------
(* The environment *)

\* A step that leaves the containers and the jobs alone, and only ever moves
\* requests to "killed", keeps the invariant.
LEMMA EnvironmentStep ==
  ASSUME IInv, UNCHANGED <<box, job>>, TypeOK',
         \A r \in Request : pc'[r] = pc[r] \/ (pc'[r] = "killed" /\ pc[r] # "idle")
  PROVE  IInv'
<1>1. JobKnown'
  BY DEF IInv, JobKnown, Begun, Staged
<1>2. BoxKnown'
  BY DEF IInv, BoxKnown, Exists
<1>3. \A m, e : Admissible(m, e)' = Admissible(m, e)
  BY DEF Admissible, SettingsRead, ExceptedOf, OverrideOf
<1>4. GateHeld' /\ CreatedFromGate'
  BY <1>3 DEF IInv, GateHeld, Gated, CreatedFromGate, Exists
<1> QED
  BY <1>1, <1>2, <1>4 DEF IInv

-----------------------------------------------------------------------------
(* Every step *)

\* The invariant is inductive.
LEMMA NextIInv == IInv /\ [Next]_vars => IInv'
<1> SUFFICES ASSUME IInv, [Next]_vars PROVE IInv'
  OBVIOUS
<1>1. ASSUME NEW r \in Request, Begin(r) PROVE IInv'
  BY <1>1, BeginStep
<1>2. ASSUME NEW r \in Request, Step(r) PROVE IInv'
  <2>1. CASE Staging(r)
    BY <2>1, LookupStep, PullStep, ScanStep, JudgeStep DEF Staging
  <2>2. CASE Pivot(r)
    BY <2>2, PivotStep, CreateStep
  <2>3. CASE Conclusion(r)
    BY <2>3, ConclusionStep
  <2> QED
    BY <1>2, <2>1, <2>2, <2>3 DEF Step
<1>3. ASSUME NEW r \in Request, Disconnect(r) PROVE IInv'
  <2>1. TypeOK' /\ UNCHANGED <<box, job, pc>>
    BY <1>3 DEF Disconnect, IInv, TypeOK
  <2> QED
    BY <2>1, EnvironmentStep
<1>4. CASE Publish
  <2>1. TypeOK' /\ UNCHANGED <<box, job, pc>>
    BY <1>4 DEF Publish, IInv, TypeOK
  <2> QED
    BY <2>1, EnvironmentStep
<1>5. CASE Crash
  <2>1. TypeOK'
    BY <1>5 DEF Crash, Fault, IInv, TypeOK, Label
  <2>2. \A r \in Request : pc'[r] = pc[r] \/ (pc'[r] = "killed" /\ pc[r] # "idle")
    BY <1>5 DEF Crash, Active
  <2> QED
    BY <1>5, <2>1, <2>2, EnvironmentStep DEF Crash
<1>6. CASE UNCHANGED vars
  <2>1. TypeOK' /\ UNCHANGED <<box, job, pc>>
    BY <1>6 DEF vars, IInv, TypeOK
  <2> QED
    BY <2>1, EnvironmentStep
<1> QED
  BY <1>1, <1>2, <1>3, <1>4, <1>5, <1>6 DEF Next

\* Only what passed is deployed: the invariant contains the firewall.
LEMMA IInvSuffices == IInv => TypeOK /\ DeployedImagesComply
BY DEF IInv, CreatedFromGate, DeployedImagesComply

-----------------------------------------------------------------------------
(* The results *)

\* The inductive invariant holds in every reachable state, whatever the
\* services, the requests, the images, the settings and the faults.
THEOREM Invariance == Spec => []IInv
BY InitIInv, NextIInv, PTL DEF Spec

\* Type correctness, which includes that every status the rollout writes is one
\* the audit log knows.
THEOREM TypeCorrect == Spec => []TypeOK
BY Invariance, IInvSuffices, PTL

\* The firewall of deployment: a container SafeDock creates runs an image whose
\* own report passes the rules of its service, whatever is published between
\* the lookup and the creation, whatever call fails, whoever else is updating.
THEOREM Gate == Spec => []DeployedImagesComply
BY Invariance, IInvSuffices, PTL
=============================================================================
