--------------------------- MODULE TransactionProofs ---------------------------
(***************************************************************************)
(* Proofs about the transaction of Rollout, for updates that do not meet   *)
(* (no two requests are aimed at one container of an operator): the old    *)
(* container outlives the trial of the new one whatever fails, staging     *)
(* leaves nothing behind, and, without engine faults, one instance runs at *)
(* a time, each service goes from version to version as ServiceContract    *)
(* says, no service is left down, and the audit row is true.               *)
(***************************************************************************)
EXTENDS RolloutProofs

\* Updates that do not meet.
Separate ==
  /\ \A r \in Request : Targets[r] \subseteq App
  /\ \A r, q \in Request : \A a \in App :
       a \in Targets[r] /\ a \in Targets[q] => r = q

\* Labels before the old container is stopped, and those at which the new one
\* does not exist yet.
Before == {"lookup", "pull", "scan", "judge", "stop"}
Unborn == {"idle", "dropLeftover", "setAside", "undoStop", "create"} \cup Before

\* Labels at which the old container is stopped: under its own name, under its
\* backup name, or under one of the two.
AtHome == {"dropLeftover", "setAside"}
Aside == {"create", "start", "health", "discard", "restoreName", "dropOld"}
Somewhere == {"undoStop", "restartOld"}

\* Labels past the test, and those at which the staged image is yet to be
\* reclaimed.
Proven == {"dropOld", "commit", "preload", "updated"}
Holding ==
  {"scan", "judge", "stop", "dropLeftover", "setAside", "undoStop", "create", "start",
   "health", "discard", "restoreName", "restartOld", "fail", "cleanup"}

Intact(a) == box[a].state = "running" /\ box[a].name = OwnName(a)

Backup(a) == RollbackName(OwnName(a))

\* An operator's container keeps its image, and has its own name or its backup's.
OldKnown ==
  \A a \in App :
    /\ box[a].image = FirstImage[a]
    /\ box[a].name \in {OwnName(a), Backup(a)}

\* What a request works on: one of its targets, by its own name.
AimOf(r) ==
  (pc[r] \in Begun \/ Exists(r)) =>
    Target(r) \in Targets[r] /\ job[r].name = OwnName(Target(r))

\* What became of the old container.
OldOf(r) ==
  /\ pc[r] = "idle" => \A a \in Targets[r] : Intact(a)
  /\ pc[r] \in Before => Intact(Target(r))
  /\ pc[r] \in AtHome => box[Target(r)].name = OwnName(Target(r))
  /\ pc[r] \in Aside => box[Target(r)].name = Backup(Target(r))
  /\ pc[r] \in AtHome \cup Aside \cup Somewhere => box[Target(r)].state = "stopped"

\* What became of the new one.
NewOf(r) ==
  /\ Exists(r) => box[r].name = job[r].name
  /\ pc[r] \in Unborn => ~Exists(r)
  /\ pc[r] = "start" => box[r].state = "created"
  /\ pc[r] \in {"health", "discard"} => Exists(r)
  /\ pc[r] \in Proven => box[r].state = "running"

\* As long as the engine did not fail, the two do not run together: a new
\* container that still runs in a rollback was left there by a client that went
\* away, and the rollback does nothing more.
ApartOf(r) ==
  (faults = 0 /\ box[r].state = "running") =>
    /\ box[Target(r)].state # "running"
    /\ pc[r] \in {"discard", "restoreName", "restartOld"} => ~live[r]

RequestInv(r) == AimOf(r) /\ OldOf(r) /\ NewOf(r) /\ ApartOf(r)

TInv == OldKnown /\ \A r \in Request : RequestInv(r)

\* An image in the store is an operator's, or in use by a new container, or
\* about to be reclaimed by the request that staged it.
StoreKnown ==
  faults = 0 =>
    \A d \in images :
      \/ \E a \in App : d = FirstImage[a]
      \/ \E r \in Request : Exists(r) /\ box[r].image = d
      \/ \E r \in Request : pc[r] \in Holding /\ job[r].staged = d

\* Nothing that the code does not answer for goes wrong: the engine does what it
\* is asked, clients wait, the operators' images run, no image refuses to start.
Calm ==
  /\ Separate
  /\ MaxFaults = 0
  /\ Impatient = {}
  /\ \A a \in App : Boot[FirstImage[a]] = "runs"
  /\ \A d \in Digest : Boot[d] # "refuses"

\* Labels at which the service is down or the new container has its name.
Away == AtHome \cup Aside \cup Somewhere \cup Proven

\* A rollback is complete, and a success too.
SettledOf(r) ==
  /\ pc[r] \in {"restoreName", "restartOld", "fail", "cleanup", "error"} => ~Exists(r)
  /\ pc[r] \in Somewhere => box[Target(r)].name = OwnName(Target(r))
  /\ pc[r] \in {"fail", "cleanup"} => Intact(Target(r))
  /\ pc[r] \in {"commit", "preload", "updated"} => ~Exists(Target(r))

\* The row is written once.
AuditOf(r) ==
  /\ pc[r] \in {"idle", "lookup", "pull", "scan", "judge"} => audit[r] = None
  /\ pc[r] = "cleanup" => audit[r] # "SUCCESS"
  /\ pc[r] = "preload" => audit[r] = "SUCCESS"

\* Every service is as it was, or in the hands of a request.
HandsOn == \A a \in App : Intact(a) \/ \E r \in Request : pc[r] \in Away /\ Target(r) = a

CalmInv ==
  /\ faults = 0
  /\ \A r \in Request : live[r] /\ SettledOf(r) /\ AuditOf(r)
  /\ HandsOn

-----------------------------------------------------------------------------
(* Names *)

\* Own names and backup names of different services differ, and from each other.
LEMMA NamesApart ==
  /\ \A a, b \in App : OwnName(a) = OwnName(b) => a = b
  /\ \A a, b \in App : Backup(a) = Backup(b) => a = b
  /\ \A a, b \in App : OwnName(a) # Backup(b)
  /\ \A a \in App : OwnName(a)[1] = a /\ Backup(a)[1] = a
BY DEF OwnName, Backup, RollbackName

\* The containers of the operators and those of the requests.
LEMMA Sides ==
  /\ App \subseteq Container
  /\ Request \subseteq Container
  /\ \A a \in App, r \in Request : a # r
BY RolloutAssumption DEF Container

\* What a request that has begun, or has a container, is aimed at.
LEMMA Aimed ==
  ASSUME Separate, TInv, NEW r \in Request, pc[r] \in Begun \/ Exists(r)
  PROVE  /\ Target(r) \in App /\ Target(r) \in Targets[r] /\ Target(r) \in Container
         /\ job[r].name = OwnName(Target(r))
         /\ RollbackName(job[r].name) = Backup(Target(r))
         /\ Target(r) # r
BY Sides DEF Separate, TInv, RequestInv, AimOf, Backup

\* A container that exists has its service's own name or the backup's.
LEMMA Named ==
  ASSUME Separate, IInv, TInv, NEW c \in Container, Exists(c)
  PROVE  \/ c \in App /\ box[c].name \in {OwnName(c), Backup(c)}
         \/ c \in Request /\ Target(c) \in App /\ box[c].name = OwnName(Target(c))
<1>1. CASE c \in App
  BY <1>1 DEF TInv, OldKnown
<1>2. CASE c \in Request
  BY <1>2, Aimed DEF TInv, RequestInv, NewOf
<1> QED
  BY <1>1, <1>2 DEF Container

\* Requests aimed at one container are one request.
LEMMA NoneMeet ==
  ASSUME Separate, TInv, NEW r \in Request, NEW q \in Request, Target(r) = Target(q),
         pc[r] \in Begun \/ Exists(r), pc[q] \in Begun \/ Exists(q)
  PROVE  r = q
BY Aimed DEF Separate

-----------------------------------------------------------------------------
(* Steps of one request *)

\* A step of r touches its own container and its target, and no other request.
Local(r) ==
  /\ \A c \in Container \ {r, Target(r)} : box'[c] = box[c]
  /\ \A q \in Request \ {r} : pc'[q] = pc[q] /\ live'[q] = live[q] /\ job'[q] = job[q]
  /\ faults' = 0 => faults = 0

\* Such a step leaves what is known of the other requests as it was.
LEMMA OthersKept ==
  ASSUME Separate, IInv, TInv, NEW r \in Request, pc[r] \in Begun, Local(r),
         NEW q \in Request, q # r
  PROVE  RequestInv(q)'
<1>1. RequestInv(q) /\ pc'[q] = pc[q] /\ live'[q] = live[q] /\ job'[q] = job[q]
  BY DEF TInv, Local
<1>2. box'[q] = box[q]
  BY Aimed, Sides DEF Local
<1>3. \A a \in Targets[q] : box'[a] = box[a]
  BY Aimed, Sides DEF Separate, Local
<1>4. (pc[q] \in Begun \/ Exists(q)) => box'[Target(q)] = box[Target(q)]
  BY <1>3, Aimed
<1>5. Target(q)' = Target(q) /\ Exists(q)' = Exists(q)
  BY <1>1, <1>2 DEF Target, Exists
<1>6. AimOf(q)'
  BY <1>1, <1>5 DEF RequestInv, AimOf
<1>7. pc[q] \in Before \cup AtHome \cup Aside \cup Somewhere => pc[q] \in Begun
  BY DEF Before, AtHome, Aside, Somewhere, Begun, Label
<1>8. OldOf(q)'
  BY <1>1, <1>3, <1>4, <1>5, <1>7 DEF RequestInv, OldOf, Intact
<1>9. NewOf(q)'
  BY <1>1, <1>2, <1>5 DEF RequestInv, NewOf
<1>10. box[q].state = "running" => Exists(q)
  BY DEF Exists
<1>11. ApartOf(q)'
  BY <1>1, <1>2, <1>4, <1>5, <1>10 DEF RequestInv, ApartOf, Local
<1> QED
  BY <1>6, <1>8, <1>9, <1>11 DEF RequestInv

\* So it is enough to look at r and at its target.
LEMMA LocalStep ==
  ASSUME Separate, IInv, TInv, NEW r \in Request, pc[r] \in Begun, Local(r),
         box'[Target(r)].image = box[Target(r)].image,
         box'[Target(r)].name \in {OwnName(Target(r)), Backup(Target(r))},
         RequestInv(r)'
  PROVE  TInv'
<1>1. \A q \in Request : RequestInv(q)'
  BY OthersKept
<1>2. OldKnown'
  BY Aimed, Sides DEF TInv, OldKnown, Local
<1> QED
  BY <1>1, <1>2 DEF TInv

-----------------------------------------------------------------------------
(* Initial states *)

\* At first every operator's container is as it was given, and runs.
LEMMA InitTInv == Separate /\ Init => TInv
<1> SUFFICES ASSUME Separate, Init PROVE TInv
  OBVIOUS
<1>1. \A a \in App : Intact(a) /\ box[a].image = FirstImage[a]
  BY DEF Init, Intact, Container
<1>2. \A r \in Request : ~Exists(r) /\ box[r].state # "running" /\ pc[r] = "idle"
  BY RolloutAssumption DEF Init, Exists, Container
<1>3. OldKnown
  BY <1>1 DEF OldKnown, Intact
<1>4. ASSUME NEW r \in Request PROVE RequestInv(r)
  <2>1. AimOf(r) /\ ApartOf(r)
    BY <1>2 DEF AimOf, ApartOf, Begun
  <2>2. OldOf(r)
    BY <1>1, <1>2 DEF Separate, OldOf, Before, AtHome, Aside, Somewhere
  <2>3. NewOf(r)
    BY <1>2 DEF NewOf, Proven
  <2> QED
    BY <2>1, <2>2, <2>3 DEF RequestInv
<1> QED
  BY <1>3, <1>4 DEF TInv

-----------------------------------------------------------------------------
(* What the calls of the pivot do *)

\* The outcomes of a call that neither the job nor the context depends on.
LEMMA Outcome ==
  ASSUME IInv, NEW r \in Request, NEW STATE accepted, accepted \in BOOLEAN,
         NEW STATE after, NEW ok \in Label, NEW ko \in Label,
         EngineCall(r, accepted, after, ok, ko)
  PROVE  /\ \/ live[r] /\ accepted /\ box' = after /\ pc'[r] = ok
            \/ accepted /\ box' \in {box, after} /\ pc'[r] = ko /\ faults' # 0
            \/ ~(live[r] /\ accepted) /\ box' = box /\ pc'[r] = ko
         /\ \A q \in Request \ {r} : pc'[q] = pc[q]
         /\ faults' = 0 => faults = 0
         /\ UNCHANGED <<images, latest, live, job, audit, reports>>
BY DEF EngineCall, Goto, Fault, IInv, TypeOK

\* A call on one container leaves the others alone.
LEMMA StopDoes ==
  ASSUME IInv, NEW c \in Container
  PROVE  /\ \A e \in Container \ {c} : StopResult(c)[e] = box[e]
         /\ StopResult(c)[c].name = box[c].name /\ StopResult(c)[c].image = box[c].image
         /\ box[c].state = "running" => StopResult(c)[c].state = "stopped"
BY DEF IInv, TypeOK, StopResult, Box

\* A renaming gives the name, and nothing else.
LEMMA RenameDoes ==
  ASSUME IInv, NEW c \in Container, NEW n
  PROVE  /\ \A e \in Container \ {c} : RenameResult(c, n)[e] = box[e]
         /\ RenameResult(c, n)[c].name = n /\ RenameResult(c, n)[c].image = box[c].image
         /\ RenameResult(c, n)[c].state = box[c].state
BY DEF IInv, TypeOK, RenameResult, Box

\* A creation leaves the container created, with its name and its image.
LEMMA CreateDoes ==
  ASSUME IInv, NEW c \in Container, NEW n, NEW d
  PROVE  /\ \A e \in Container \ {c} : CreateResult(c, n, d)[e] = box[e]
         /\ CreateResult(c, n, d)[c].name = n /\ CreateResult(c, n, d)[c].image = d
         /\ CreateResult(c, n, d)[c].state = "created"
BY DEF IInv, TypeOK, CreateResult

\* A start leaves the container running, or exited if its image exits.
LEMMA StartDoes ==
  ASSUME IInv, NEW c \in Container
  PROVE  /\ \A e \in Container \ {c} : StartResult(c)[e] = box[e]
         /\ StartResult(c)[c].name = box[c].name /\ StartResult(c)[c].image = box[c].image
         /\ StartResult(c)[c].state \in {"running", "crashed"}
         /\ Boot[box[c].image] = "runs" => StartResult(c)[c].state = "running"
BY DEF IInv, TypeOK, StartResult, Box

\* A removal only makes the container absent.
LEMMA RemoveDoes ==
  ASSUME IInv, NEW c \in Container
  PROVE  /\ \A e \in Container \ {c} : RemoveResult({c})[e] = box[e]
         /\ RemoveResult({c})[c].name = box[c].name
         /\ RemoveResult({c})[c].image = box[c].image
         /\ RemoveResult({c})[c].state = "absent"
<1>1. RemoveResult({c})[c] = [box[c] EXCEPT !.state = "absent"]
  BY DEF RemoveResult
<1>2. ASSUME NEW e \in Container \ {c} PROVE RemoveResult({c})[e] = box[e]
  <2>1. RemoveResult({c})[e] = [box[e] EXCEPT !.state = box[e].state]
    BY <1>2 DEF RemoveResult
  <2>2. box[e] \in Box
    BY DEF IInv, TypeOK
  <2> QED
    BY <2>1, <2>2 DEF Box
<1>3. box[c] \in Box
  BY DEF IInv, TypeOK
<1> QED
  BY <1>1, <1>2, <1>3 DEF Box

-----------------------------------------------------------------------------
(* The steps of a request keep the transaction *)

\* The stop: the old container is stopped, or it is not.
LEMMA StopOldKept ==
  ASSUME Separate, IInv, TInv, NEW r \in Request, StopOld(r)
  PROVE  TInv'
<1> DEFINE t == Target(r)
<1>1. pc[r] = "stop" /\ pc[r] \in Begun /\ ~Exists(r) /\ Intact(t)
  BY DEF StopOld, Begun, Label, TInv, RequestInv, OldOf, NewOf, Unborn, Before
<1>2. t \in Container /\ t # r /\ job[r].name = OwnName(t) /\ t \in Targets[r]
  BY <1>1, Aimed
<1>3. /\ \/ box' = StopResult(t) /\ pc'[r] = "dropLeftover"
         \/ box' \in {box, StopResult(t)} /\ pc'[r] = "fail"
      /\ \A q \in Request \ {r} : pc'[q] = pc[q]
      /\ faults' = 0 => faults = 0
      /\ UNCHANGED <<live, job>>
  <2>1. "dropLeftover" \in Label /\ "fail" \in Label /\ Exists(t) \in BOOLEAN
    BY DEF Label, Exists
  <2> HIDE DEF t
  <2> QED
    BY <2>1, Outcome DEF StopOld, t
<1>4. /\ \A e \in Container \ {t} : box'[e] = box[e]
      /\ box'[t].name = box[t].name /\ box'[t].image = box[t].image
      /\ pc'[r] = "dropLeftover" => box'[t].state = "stopped"
  BY <1>1, <1>2, <1>3, StopDoes DEF Intact
<1>5. Local(r)
  BY <1>3, <1>4 DEF Local
<1>6. RequestInv(r)'
  <2>1. Target(r)' = t /\ ~Exists(r)' /\ pc'[r] \in {"dropLeftover", "fail"}
    BY <1>1, <1>2, <1>3, <1>4, Sides DEF Target, Exists
  <2>2. box'[r].state # "running"
    BY <2>1 DEF Exists
  <2>3. AimOf(r)' /\ NewOf(r)' /\ ApartOf(r)'
    BY <1>2, <1>3, <2>1, <2>2 DEF AimOf, NewOf, ApartOf, Proven
  <2>4. OldOf(r)'
    BY <1>1, <1>4, <2>1 DEF OldOf, Intact, Before, AtHome, Aside, Somewhere
  <2> QED
    BY <2>3, <2>4 DEF RequestInv
<1> QED
  BY <1>1, <1>4, <1>5, <1>6, LocalStep DEF Intact

\* No container holds the backup's name before the old container takes it: the
\* removal of a leftover finds nothing.
LEMMA NoLeftover ==
  ASSUME Separate, IInv, TInv, NEW r \in Request, pc[r] \in AtHome
  PROVE  Holders(RollbackName(job[r].name)) = {}
<1> DEFINE t == Target(r)
<1>1. pc[r] \in Begun /\ box[t].name = OwnName(t)
  BY DEF AtHome, Begun, Label, TInv, RequestInv, OldOf
<1>2. t \in App /\ RollbackName(job[r].name) = Backup(t)
  BY <1>1, Aimed
<1> SUFFICES ASSUME NEW c \in Container, Exists(c), box[c].name = Backup(t)
             PROVE  FALSE
  BY <1>2 DEF Holders
<1>3. c \in App => c = t
  BY <1>2, Named, NamesApart, Sides
<1> QED
  BY <1>1, <1>2, <1>3, Named, NamesApart

\* The removal of a leftover, which finds none.
LEMMA DropLeftoverKept ==
  ASSUME Separate, IInv, TInv, NEW r \in Request, DropLeftover(r)
  PROVE  TInv'
<1> DEFINE t == Target(r)
<1>1. /\ pc[r] = "dropLeftover" /\ pc[r] \in Begun /\ ~Exists(r)
      /\ box[t].name = OwnName(t) /\ box[t].state = "stopped"
  BY DEF DropLeftover, Begun, Label, TInv, RequestInv, OldOf, NewOf, Unborn, AtHome
<1>2. t \in Container /\ t # r /\ job[r].name = OwnName(t) /\ t \in Targets[r]
  BY <1>1, Aimed
<1>3. /\ box' = box /\ pc'[r] = "setAside"
      /\ \A q \in Request \ {r} : pc'[q] = pc[q]
      /\ faults' = 0 => faults = 0
      /\ UNCHANGED <<live, job>>
  <2>1. pc[r] \in AtHome
    BY <1>1 DEF AtHome
  <2>2. Holders(RollbackName(job[r].name)) = {}
    BY <2>1, NoLeftover
  <2> QED
    BY <2>2, <1>1 DEF DropLeftover, EngineCall, Goto, Fault, IInv, TypeOK
<1>4. Local(r)
  BY <1>3 DEF Local
<1>5. RequestInv(r)'
  <2>1. Target(r)' = t /\ ~Exists(r)' /\ box'[r].state # "running"
    BY <1>1, <1>3 DEF Target, Exists
  <2>2. AimOf(r)' /\ NewOf(r)' /\ ApartOf(r)'
    BY <1>2, <1>3, <2>1 DEF AimOf, NewOf, ApartOf, Proven
  <2>3. OldOf(r)'
    BY <1>1, <1>3, <2>1 DEF OldOf, Before, AtHome, Aside, Somewhere
  <2> QED
    BY <2>2, <2>3 DEF RequestInv
<1> QED
  BY <1>1, <1>3, <1>4, <1>5, LocalStep

\* The renaming: the old container takes its backup's name, or keeps its own.
LEMMA SetAsideKept ==
  ASSUME Separate, IInv, TInv, NEW r \in Request, SetAside(r)
  PROVE  TInv'
<1> DEFINE t == Target(r)
           n == RollbackName(job[r].name)
<1>1. /\ pc[r] = "setAside" /\ pc[r] \in Begun /\ ~Exists(r)
      /\ box[t].name = OwnName(t) /\ box[t].state = "stopped"
  BY DEF SetAside, Begun, Label, TInv, RequestInv, OldOf, NewOf, Unborn, AtHome
<1>2. t \in Container /\ t # r /\ job[r].name = OwnName(t) /\ t \in Targets[r] /\ n = Backup(t)
  BY <1>1, Aimed
<1>3. /\ \/ box' = RenameResult(t, n) /\ pc'[r] = "create"
         \/ box' = box /\ pc'[r] = "undoStop"
         \/ box' = RenameResult(t, n) /\ pc'[r] = "undoStop" /\ faults' # 0
      /\ \A q \in Request \ {r} : pc'[q] = pc[q]
      /\ faults' = 0 => faults = 0
      /\ UNCHANGED <<live, job>>
  <2>1. "create" \in Label /\ "undoStop" \in Label /\ CanRename(t, n) \in BOOLEAN
    BY DEF Label, CanRename
  <2> HIDE DEF t, n
  <2> QED
    BY <2>1, Outcome DEF SetAside, t, n
<1>4. /\ \A e \in Container \ {t} : box'[e] = box[e]
      /\ box'[t].image = box[t].image /\ box'[t].state = "stopped"
      /\ box'[t].name \in {OwnName(t), Backup(t)}
      /\ pc'[r] = "create" => box'[t].name = Backup(t)
  BY <1>1, <1>2, <1>3, RenameDoes
<1>5. Local(r)
  BY <1>3, <1>4 DEF Local
<1>6. RequestInv(r)'
  <2>1. Target(r)' = t /\ ~Exists(r)' /\ box'[r].state # "running"
    BY <1>1, <1>2, <1>3, <1>4, Sides DEF Target, Exists
  <2>2. pc'[r] \in {"create", "undoStop"}
    BY <1>3
  <2>3. AimOf(r)' /\ NewOf(r)' /\ ApartOf(r)'
    BY <1>2, <1>3, <2>1, <2>2 DEF AimOf, NewOf, ApartOf, Proven
  <2>4. OldOf(r)'
    BY <1>4, <2>1, <2>2 DEF OldOf, Before, AtHome, Aside, Somewhere
  <2> QED
    BY <2>3, <2>4 DEF RequestInv
<1> QED
  BY <1>1, <1>4, <1>5, <1>6, LocalStep

\* The start that undoes the stop.
LEMMA UndoStopKept ==
  ASSUME Separate, IInv, TInv, NEW r \in Request, UndoStop(r)
  PROVE  TInv'
<1> DEFINE t == Target(r)
<1>1. pc[r] = "undoStop" /\ pc[r] \in Begun /\ ~Exists(r)
  BY DEF UndoStop, Begun, Label, TInv, RequestInv, NewOf, Unborn
<1>2. t \in Container /\ t \in App /\ t # r /\ job[r].name = OwnName(t) /\ t \in Targets[r]
  BY <1>1, Aimed
<1>3. /\ box' \in {box, StartResult(t)} /\ pc'[r] = "fail"
      /\ \A q \in Request \ {r} : pc'[q] = pc[q]
      /\ faults' = 0 => faults = 0
      /\ UNCHANGED <<live, job>>
  <2>1. "fail" \in Label /\ CanStart(t) \in BOOLEAN
    BY DEF Label, CanStart
  <2> HIDE DEF t
  <2> QED
    BY <2>1, Outcome DEF UndoStop, t
<1>4. /\ \A e \in Container \ {t} : box'[e] = box[e]
      /\ box'[t].image = box[t].image /\ box'[t].name = box[t].name
  BY <1>2, <1>3, StartDoes
<1>5. Local(r)
  BY <1>3, <1>4 DEF Local
<1>6. RequestInv(r)'
  <2>1. Target(r)' = t /\ ~Exists(r)' /\ box'[r].state # "running"
    BY <1>1, <1>2, <1>3, <1>4, Sides DEF Target, Exists
  <2>2. AimOf(r)' /\ NewOf(r)' /\ ApartOf(r)'
    BY <1>2, <1>3, <2>1 DEF AimOf, NewOf, ApartOf, Proven
  <2>3. OldOf(r)'
    BY <1>3 DEF OldOf, Before, AtHome, Aside, Somewhere
  <2> QED
    BY <2>2, <2>3 DEF RequestInv
<1> QED
  BY <1>1, <1>2, <1>4, <1>5, <1>6, LocalStep DEF TInv, OldKnown

\* The creation: the new container exists under the service's name, not started.
LEMMA CreateKept ==
  ASSUME Separate, IInv, TInv, NEW r \in Request, Create(r)
  PROVE  TInv'
<1> DEFINE t == Target(r)
           new == CreateResult(r, job[r].name, job[r].staged)
<1>1. /\ pc[r] = "create" /\ pc[r] \in Begun /\ ~Exists(r)
      /\ box[t].name = Backup(t) /\ box[t].state = "stopped"
  BY DEF Create, Begun, Label, TInv, RequestInv, OldOf, NewOf, Unborn, Aside
<1>2. /\ t \in Container /\ t # r /\ job[r].name = OwnName(t) /\ t \in Targets[r]
      /\ r \in Container
  BY <1>1, Aimed, Sides
<1>3. /\ \/ box' = new /\ pc'[r] = "start"
         \/ box' \in {box, new} /\ pc'[r] = "restoreName"
      /\ \A q \in Request \ {r} : pc'[q] = pc[q]
      /\ faults' = 0 => faults = 0
      /\ UNCHANGED <<live, job>>
  <2> DEFINE accepted == Holders(job[r].name) = {} /\ job[r].staged \in images
  <2>1. "start" \in Label /\ "restoreName" \in Label /\ accepted \in BOOLEAN
    BY DEF Label
  <2>2. EngineCall(r, accepted, new, "start", "restoreName")
    BY DEF Create
  <2> HIDE DEF accepted, new
  <2> QED
    BY <2>1, <2>2, Outcome
<1>4. /\ \A e \in Container \ {r} : box'[e] = box[e]
      /\ box'[r].state \in {"absent", "created"}
      /\ pc'[r] = "start" => box'[r].state = "created"
      /\ Exists(r)' => box'[r].name = job[r].name
  BY <1>1, <1>2, <1>3, CreateDoes DEF Exists
<1>5. Local(r)
  BY <1>3, <1>4 DEF Local
<1>6. RequestInv(r)'
  <2>1. Target(r)' = t /\ pc'[r] \in {"start", "restoreName"} /\ box'[t] = box[t]
    BY <1>2, <1>3, <1>4 DEF Target
  <2>2. AimOf(r)' /\ NewOf(r)' /\ ApartOf(r)'
    BY <1>2, <1>3, <1>4, <2>1 DEF AimOf, NewOf, ApartOf, Proven, Unborn, Before
  <2>3. OldOf(r)'
    BY <1>1, <2>1 DEF OldOf, Before, AtHome, Aside, Somewhere
  <2> QED
    BY <2>2, <2>3 DEF RequestInv
<1> QED
  BY <1>1, <1>2, <1>4, <1>5, <1>6, LocalStep

\* The start of the new container, the old one being stopped.
LEMMA StartNewKept ==
  ASSUME Separate, IInv, TInv, NEW r \in Request, StartNew(r)
  PROVE  TInv'
<1> DEFINE t == Target(r)
<1>1. /\ pc[r] = "start" /\ pc[r] \in Begun /\ box[r].state = "created"
      /\ box[t].name = Backup(t) /\ box[t].state = "stopped"
      /\ Exists(r) => box[r].name = job[r].name
  BY DEF StartNew, Begun, Label, TInv, RequestInv, OldOf, NewOf, Aside
<1>2. /\ t \in Container /\ t # r /\ job[r].name = OwnName(t) /\ t \in Targets[r]
      /\ r \in Container
  BY <1>1, Aimed, Sides
<1>3. /\ \/ box' = StartResult(r) /\ pc'[r] = "health"
         \/ box' = box /\ pc'[r] = "restoreName"
         \/ box' = StartResult(r) /\ pc'[r] = "restoreName" /\ faults' # 0
      /\ \A q \in Request \ {r} : pc'[q] = pc[q]
      /\ faults' = 0 => faults = 0
      /\ UNCHANGED <<live, job>>
  <2>1. "health" \in Label /\ "restoreName" \in Label /\ CanStart(r) \in BOOLEAN
    BY DEF Label, CanStart
  <2> QED
    BY <2>1, Outcome DEF StartNew
<1>4. /\ \A e \in Container \ {r} : box'[e] = box[e]
      /\ box'[r].name = job[r].name
      /\ pc'[r] = "health" => box'[r].state \in {"running", "crashed"}
      /\ pc'[r] # "health" /\ faults' = 0 => box'[r].state = "created"
  BY <1>1, <1>2, <1>3, StartDoes DEF Exists
<1>5. Local(r)
  BY <1>3, <1>4 DEF Local
<1>6. RequestInv(r)'
  <2>1. Target(r)' = t /\ pc'[r] \in {"health", "restoreName"} /\ box'[t] = box[t]
    BY <1>2, <1>3, <1>4 DEF Target
  <2>2. AimOf(r)' /\ NewOf(r)'
    BY <1>2, <1>3, <1>4, <2>1 DEF AimOf, NewOf, Proven, Unborn, Before, Exists
  <2>3. ApartOf(r)'
    BY <1>1, <1>4, <2>1 DEF ApartOf
  <2>4. OldOf(r)'
    BY <1>1, <2>1 DEF OldOf, Before, AtHome, Aside, Somewhere
  <2> QED
    BY <2>2, <2>3, <2>4 DEF RequestInv
<1> QED
  BY <1>1, <1>2, <1>4, <1>5, <1>6, LocalStep

\* The test: what passes runs; what does not, does not, unless the client left.
LEMMA HealthKept ==
  ASSUME Separate, IInv, TInv, NEW r \in Request, Health(r)
  PROVE  TInv'
<1> DEFINE t == Target(r)
<1>1. /\ pc[r] = "health" /\ pc[r] \in Begun /\ Exists(r) /\ box[r].name = job[r].name
      /\ box[t].name = Backup(t) /\ box[t].state = "stopped"
  BY DEF Health, Begun, Label, TInv, RequestInv, OldOf, NewOf, Aside
<1>2. t \in Container /\ job[r].name = OwnName(t) /\ t \in Targets[r]
  BY <1>1, Aimed
<1>3. /\ box' = box
      /\ \/ box[r].state = "running" /\ pc'[r] = "dropOld"
         \/ pc'[r] = "discard" /\ faults' # 0
         \/ pc'[r] = "discard" /\ ~(live[r] /\ box[r].state = "running")
      /\ \A q \in Request \ {r} : pc'[q] = pc[q]
      /\ faults' = 0 => faults = 0
      /\ UNCHANGED <<live, job>>
  <2> DEFINE accepted == box[r].state = "running"
  <2>1. "dropOld" \in Label /\ "discard" \in Label /\ accepted \in BOOLEAN
    BY DEF Label
  <2>2. EngineCall(r, accepted, box, "dropOld", "discard")
    BY DEF Health
  <2> HIDE DEF accepted
  <2>3. /\ box' = box
        /\ \/ accepted /\ pc'[r] = "dropOld"
           \/ pc'[r] = "discard" /\ faults' # 0
           \/ pc'[r] = "discard" /\ ~(live[r] /\ accepted)
        /\ \A q \in Request \ {r} : pc'[q] = pc[q]
        /\ faults' = 0 => faults = 0
        /\ UNCHANGED <<live, job>>
    BY <2>1, <2>2, Outcome
  <2> QED
    BY <2>3 DEF accepted
<1>4. Local(r)
  BY <1>3 DEF Local
<1>5. RequestInv(r)'
  <2>1. Target(r)' = t /\ Exists(r)' /\ pc'[r] \in {"dropOld", "discard"}
    BY <1>1, <1>3 DEF Target, Exists
  <2>2. AimOf(r)' /\ NewOf(r)' /\ ApartOf(r)'
    BY <1>1, <1>2, <1>3, <2>1 DEF AimOf, NewOf, ApartOf, Proven, Unborn, Before
  <2>3. OldOf(r)'
    BY <1>1, <1>3, <2>1 DEF OldOf, Before, AtHome, Aside, Somewhere
  <2> QED
    BY <2>2, <2>3 DEF RequestInv
<1> QED
  BY <1>1, <1>3, <1>4, <1>5, LocalStep

\* The removal of a new container that failed.
LEMMA DiscardKept ==
  ASSUME Separate, IInv, TInv, NEW r \in Request, Discard(r)
  PROVE  TInv'
<1> DEFINE t == Target(r)
<1>1. /\ pc[r] = "discard" /\ pc[r] \in Begun /\ Exists(r) /\ box[r].name = job[r].name
      /\ box[t].name = Backup(t) /\ box[t].state = "stopped"
      /\ faults = 0 /\ box[r].state = "running" => ~live[r]
  BY DEF Discard, Begun, Label, TInv, RequestInv, OldOf, NewOf, Aside, ApartOf
<1>2. /\ t \in Container /\ t # r /\ job[r].name = OwnName(t) /\ t \in Targets[r]
      /\ r \in Container
  BY <1>1, Aimed, Sides
<1>3. /\ box' \in {box, RemoveResult({r})} /\ pc'[r] = "restoreName"
      /\ \A q \in Request \ {r} : pc'[q] = pc[q]
      /\ faults' = 0 => faults = 0
      /\ UNCHANGED <<live, job>>
  <2>1. "restoreName" \in Label /\ Exists(r) \in BOOLEAN
    BY DEF Label, Exists
  <2> QED
    BY <2>1, Outcome DEF Discard
<1>4. /\ \A e \in Container \ {r} : box'[e] = box[e]
      /\ box'[r].name = box[r].name
      /\ box'[r].state \in {box[r].state, "absent"}
  BY <1>2, <1>3, RemoveDoes
<1>5. Local(r)
  BY <1>3, <1>4 DEF Local
<1>6. RequestInv(r)'
  <2>1. Target(r)' = t /\ box'[t] = box[t]
    BY <1>2, <1>3, <1>4 DEF Target
  <2>2. AimOf(r)' /\ NewOf(r)' /\ ApartOf(r)'
    BY <1>1, <1>2, <1>3, <1>4, <2>1 DEF AimOf, NewOf, ApartOf, Proven, Unborn, Before
  <2>3. OldOf(r)'
    BY <1>1, <1>3, <2>1 DEF OldOf, Before, AtHome, Aside, Somewhere
  <2> QED
    BY <2>2, <2>3 DEF RequestInv
<1> QED
  BY <1>1, <1>2, <1>4, <1>5, <1>6, LocalStep

\* The removal of the old container, the new one having been seen to run.
LEMMA DropOldKept ==
  ASSUME Separate, IInv, TInv, NEW r \in Request, DropOld(r)
  PROVE  TInv'
<1> DEFINE t == Target(r)
<1>1. /\ pc[r] = "dropOld" /\ pc[r] \in Begun /\ Exists(r) /\ box[r].name = job[r].name
      /\ box[t].name = Backup(t) /\ box[t].state = "stopped" /\ box[r].state = "running"
  BY DEF DropOld, Begun, Label, TInv, RequestInv, OldOf, NewOf, Aside, Proven, Exists
<1>2. /\ t \in Container /\ t # r /\ job[r].name = OwnName(t) /\ t \in Targets[r]
      /\ r \in Container
  BY <1>1, Aimed, Sides
<1>3. /\ box' \in {box, RemoveResult({t})} /\ pc'[r] = "commit"
      /\ \A q \in Request \ {r} : pc'[q] = pc[q]
      /\ faults' = 0 => faults = 0
      /\ UNCHANGED <<live, job>>
  <2>1. "commit" \in Label /\ Exists(t) \in BOOLEAN
    BY DEF Label, Exists
  <2> HIDE DEF t
  <2> QED
    BY <2>1, Outcome DEF DropOld, t
<1>4. /\ \A e \in Container \ {t} : box'[e] = box[e]
      /\ box'[t].name = box[t].name /\ box'[t].image = box[t].image
      /\ box'[t].state \in {"stopped", "absent"}
  BY <1>1, <1>2, <1>3, RemoveDoes
<1>5. Local(r)
  BY <1>3, <1>4 DEF Local
<1>6. RequestInv(r)'
  <2>1. Target(r)' = t /\ box'[r] = box[r] /\ Exists(r)'
    BY <1>1, <1>2, <1>3, <1>4 DEF Target, Exists
  <2>2. AimOf(r)' /\ NewOf(r)' /\ ApartOf(r)'
    BY <1>1, <1>2, <1>3, <1>4, <2>1 DEF AimOf, NewOf, ApartOf, Proven, Unborn, Before
  <2>3. OldOf(r)'
    BY <1>3 DEF OldOf, Before, AtHome, Aside, Somewhere
  <2> QED
    BY <2>2, <2>3 DEF RequestInv
<1> QED
  BY <1>1, <1>4, <1>5, <1>6, LocalStep

\* The rollback gives the old container its name back, or cannot.
LEMMA RestoreNameKept ==
  ASSUME Separate, IInv, TInv, NEW r \in Request, RestoreName(r)
  PROVE  TInv'
<1> DEFINE t == Target(r)
           n == job[r].name
<1>1. /\ pc[r] = "restoreName" /\ pc[r] \in Begun /\ RequestInv(r)
      /\ box[t].name = Backup(t) /\ box[t].state = "stopped"
  BY DEF RestoreName, Begun, Label, TInv, RequestInv, OldOf, Aside
<1>2. t \in Container /\ t # r /\ n = OwnName(t) /\ t \in Targets[r]
  BY <1>1, Aimed
<1>3. /\ box' \in {box, RenameResult(t, n)} /\ pc'[r] = "restartOld"
      /\ \A q \in Request \ {r} : pc'[q] = pc[q]
      /\ faults' = 0 => faults = 0
      /\ UNCHANGED <<live, job>>
  <2>1. "restartOld" \in Label /\ CanRename(t, n) \in BOOLEAN
    BY DEF Label, CanRename
  <2> HIDE DEF t, n
  <2> QED
    BY <2>1, Outcome DEF RestoreName, t, n
<1>4. /\ \A e \in Container \ {t} : box'[e] = box[e]
      /\ box'[t].image = box[t].image /\ box'[t].state = "stopped"
      /\ box'[t].name \in {OwnName(t), Backup(t)}
  BY <1>1, <1>2, <1>3, RenameDoes
<1>5. Local(r)
  BY <1>3, <1>4 DEF Local
<1>6. RequestInv(r)'
  <2>1. Target(r)' = t /\ box'[r] = box[r]
    BY <1>2, <1>3, <1>4, Sides DEF Target
  <2>2. AimOf(r)' /\ NewOf(r)' /\ ApartOf(r)'
    BY <1>1, <1>2, <1>3, <1>4, <2>1
    DEF RequestInv, AimOf, NewOf, ApartOf, Proven, Unborn, Before, Exists
  <2>3. OldOf(r)'
    BY <1>3, <1>4, <2>1 DEF OldOf, Before, AtHome, Aside, Somewhere
  <2> QED
    BY <2>2, <2>3 DEF RequestInv
<1> QED
  BY <1>4, <1>5, <1>6, <1>1, LocalStep

\* The rollback starts the old container, unless the client left the new one
\* running.
LEMMA RestartOldKept ==
  ASSUME Separate, IInv, TInv, NEW r \in Request, RestartOld(r)
  PROVE  TInv'
<1> DEFINE t == Target(r)
<1>1. /\ pc[r] = "restartOld" /\ pc[r] \in Begun /\ RequestInv(r)
      /\ box[t].state = "stopped"
      /\ faults = 0 /\ box[r].state = "running" => ~live[r]
  BY DEF RestartOld, Begun, Label, TInv, RequestInv, OldOf, ApartOf, Somewhere
<1>2. /\ t \in Container /\ t \in App /\ t # r /\ job[r].name = OwnName(t)
      /\ t \in Targets[r]
  BY <1>1, Aimed
<1>3. /\ \/ box' = box
         \/ box' = StartResult(t) /\ live[r]
         \/ box' = StartResult(t) /\ faults' # 0
      /\ pc'[r] = "fail"
      /\ \A q \in Request \ {r} : pc'[q] = pc[q]
      /\ faults' = 0 => faults = 0
      /\ UNCHANGED <<live, job>>
  <2>1. "fail" \in Label /\ CanStart(t) \in BOOLEAN
    BY DEF Label, CanStart
  <2> HIDE DEF t
  <2> QED
    BY <2>1, Outcome DEF RestartOld, t
<1>4. /\ \A e \in Container \ {t} : box'[e] = box[e]
      /\ box'[t].image = box[t].image /\ box'[t].name = box[t].name
  BY <1>2, <1>3, StartDoes
<1>5. Local(r)
  BY <1>3, <1>4 DEF Local
<1>6. RequestInv(r)'
  <2>1. Target(r)' = t /\ box'[r] = box[r]
    BY <1>2, <1>3, <1>4, Sides DEF Target
  <2>2. AimOf(r)' /\ NewOf(r)'
    BY <1>1, <1>2, <1>3, <2>1 DEF RequestInv, AimOf, NewOf, Proven, Unborn, Before, Exists
  <2>3. ApartOf(r)'
    BY <1>1, <1>3, <2>1 DEF ApartOf
  <2>4. OldOf(r)'
    BY <1>3 DEF OldOf, Before, AtHome, Aside, Somewhere
  <2> QED
    BY <2>2, <2>3, <2>4 DEF RequestInv
<1> QED
  BY <1>1, <1>2, <1>4, <1>5, <1>6, LocalStep DEF TInv, OldKnown

\* Before the pivot and after it, a request touches no container; what it is
\* aimed at does not change when it learns its digest.
LEMMA QuietKept ==
  ASSUME Separate, IInv, TInv, NEW r \in Request, Staging(r) \/ Conclusion(r)
  PROVE  TInv'
<1> DEFINE t == Target(r)
<1>1. /\ pc[r] \in Begun /\ RequestInv(r)
      /\ box' = box /\ live' = live /\ (faults' = 0 => faults = 0)
  BY DEF Staging, Conclusion, Lookup, Pull, Scan, Judge, Fail, Commit, Preload, Cleanup,
         Fault, Begun, Label, TInv, IInv, TypeOK
<1>2. /\ \A q \in Request \ {r} : job'[q] = job[q]
      /\ job'[r].target = job[r].target /\ job'[r].name = job[r].name
  BY DEF Staging, Conclusion, Lookup, Pull, Scan, Judge, Fail, Commit, Preload, Cleanup,
         IInv, TypeOK, Target
<1>3. \A q \in Request \ {r} : pc'[q] = pc[q]
  BY DEF Staging, Conclusion, Lookup, Pull, Scan, Judge, Fail, Commit, Preload, Cleanup,
         Goto, IInv, TypeOK
<1>4. \/ pc[r] \in Before \ {"stop"}
         /\ pc'[r] \in (Before \ {"lookup"}) \cup {"upToDate", "error", "cleanup"}
      \/ pc[r] \in {"fail", "cleanup"} /\ pc'[r] \in {"cleanup", "error"}
      \/ pc[r] \in {"commit", "preload"} /\ pc'[r] \in {"preload", "updated"}
  BY DEF Staging, Conclusion, Lookup, Pull, Scan, Judge, Fail, Commit, Preload, Cleanup,
         Goto, IInv, TypeOK, Before
<1>5. t \in Container /\ t \in App /\ job[r].name = OwnName(t) /\ t \in Targets[r]
  BY <1>1, Aimed
<1>6. Local(r)
  BY <1>1, <1>2, <1>3 DEF Local
<1>7. RequestInv(r)'
  <2>1. Target(r)' = t /\ Exists(r)' = Exists(r)
    BY <1>1, <1>2 DEF Target, Exists
  <2>2. AimOf(r)'
    BY <1>2, <1>5, <2>1 DEF AimOf
  <2>3. OldOf(r)'
    BY <1>1, <1>4, <2>1 DEF RequestInv, OldOf, Intact, Before, AtHome, Aside, Somewhere
  <2>4. NewOf(r)'
    BY <1>1, <1>2, <1>4, <2>1 DEF RequestInv, NewOf, Before, Unborn, Proven
  <2>5. ApartOf(r)'
    BY <1>1, <1>4, <2>1 DEF RequestInv, ApartOf, Before
  <2> QED
    BY <2>2, <2>3, <2>4, <2>5 DEF RequestInv
<1> QED
  BY <1>1, <1>5, <1>6, <1>7, LocalStep DEF TInv, OldKnown

\* The inspection that opens a request finds its target as it was given.
LEMMA BeginKept ==
  ASSUME Separate, IInv, TInv, NEW r \in Request, Begin(r)
  PROVE  TInv'
<1>1. PICK c \in Targets[r] :
        \/ /\ pc'[r] = "lookup"
           /\ job'[r].target = c /\ job'[r].name = box[c].name
        \/ pc'[r] = "error"
  BY DEF Begin, Goto, IInv, TypeOK
<1>2. /\ pc[r] = "idle" /\ ~Exists(r) /\ \A a \in Targets[r] : Intact(a)
      /\ box' = box /\ live' = live /\ faults' = faults
  BY DEF Begin, TInv, RequestInv, OldOf, NewOf, Unborn
<1>3. \A q \in Request \ {r} : pc'[q] = pc[q] /\ job'[q] = job[q]
  BY DEF Begin, Goto, IInv, TypeOK
<1>4. ASSUME NEW q \in Request, q # r PROVE RequestInv(q)'
  <2>1. RequestInv(q) /\ Target(q)' = Target(q) /\ Exists(q)' = Exists(q)
    BY <1>2, <1>3, <1>4 DEF TInv, Target, Exists
  <2> QED
    BY <2>1, <1>2, <1>3, <1>4 DEF RequestInv, AimOf, OldOf, NewOf, ApartOf, Intact
<1>5. RequestInv(r)'
  <2>1. ~Exists(r)' /\ box'[r].state # "running" /\ pc'[r] \in {"lookup", "error"}
    BY <1>1, <1>2 DEF Exists
  <2>2. NewOf(r)' /\ ApartOf(r)'
    BY <2>1 DEF NewOf, ApartOf, Proven
  <2>3. AimOf(r)'
    BY <1>1, <1>2, <2>1 DEF AimOf, Begun, Intact, Target
  <2>4. OldOf(r)'
    BY <1>1, <1>2, <2>1 DEF OldOf, Intact, Before, AtHome, Aside, Somewhere, Target
  <2> QED
    BY <2>2, <2>3, <2>4 DEF RequestInv
<1> QED
  BY <1>2, <1>4, <1>5 DEF TInv, OldKnown

\* What the client, the registry and the end of the process do.
LEMMA EnvironmentKept ==
  ASSUME TInv, UNCHANGED <<box, job>>,
         faults' = 0 => faults = 0 /\ \A r \in Request : live'[r] => live[r],
         \A r \in Request : pc'[r] = pc[r] \/ (pc'[r] = "killed" /\ faults' # 0)
  PROVE  TInv'
<1>1. OldKnown'
  BY DEF TInv, OldKnown
<1>2. ASSUME NEW r \in Request PROVE RequestInv(r)'
  <2>1. RequestInv(r) /\ Target(r)' = Target(r) /\ Exists(r)' = Exists(r)
    BY DEF TInv, Target, Exists
  <2>2. AimOf(r)' /\ OldOf(r)' /\ NewOf(r)'
    BY <2>1 DEF RequestInv, AimOf, OldOf, NewOf, Intact, Begun, Before, AtHome, Aside,
                Somewhere, Unborn, Proven
  <2>3. ApartOf(r)'
    BY <2>1 DEF RequestInv, ApartOf
  <2> QED
    BY <2>2, <2>3 DEF RequestInv
<1> QED
  BY <1>1, <1>2 DEF TInv

\* Every step keeps the transaction.
LEMMA NextTInv ==
  ASSUME Separate, IInv, TInv, [Next]_vars
  PROVE  TInv'
<1>1. ASSUME NEW r \in Request, Begin(r) PROVE TInv'
  BY <1>1, BeginKept
<1>2. ASSUME NEW r \in Request, Step(r) PROVE TInv'
  <2>1. CASE Staging(r) \/ Conclusion(r)
    BY <2>1, QuietKept
  <2>2. CASE Pivot(r)
    BY <2>2, StopOldKept, DropLeftoverKept, SetAsideKept, UndoStopKept, CreateKept,
       StartNewKept, HealthKept, DiscardKept, DropOldKept, RestoreNameKept, RestartOldKept
    DEF Pivot
  <2> QED
    BY <1>2, <2>1, <2>2 DEF Step
<1>3. ASSUME NEW r \in Request, Disconnect(r) PROVE TInv'
  <2>1. \A q \in Request : live'[q] => live[q]
    BY <1>3 DEF Disconnect, IInv, TypeOK
  <2> QED
    BY <1>3, <2>1, EnvironmentKept DEF Disconnect
<1>4. CASE Publish
  BY <1>4, EnvironmentKept DEF Publish
<1>5. CASE Crash
  <2>1. faults' # 0 /\ UNCHANGED <<box, job>>
    BY <1>5 DEF Crash, Fault, IInv, TypeOK
  <2>2. \A r \in Request : pc'[r] = pc[r] \/ pc'[r] = "killed"
    BY <1>5 DEF Crash
  <2> QED
    BY <2>1, <2>2, EnvironmentKept
<1>6. CASE UNCHANGED vars
  BY <1>6, EnvironmentKept DEF vars
<1> QED
  BY <1>1, <1>2, <1>3, <1>4, <1>5, <1>6 DEF Next

\* The state of the transaction is known in every reachable state.
THEOREM Transaction ==
  ASSUME Separate
  PROVE  Spec => [](IInv /\ TInv)
<1>1. Init => TInv
  BY InitTInv
<1>2. IInv /\ TInv /\ [Next]_vars => TInv'
  BY NextTInv
<1> QED
  BY <1>1, <1>2, Invariance, PTL DEF Spec

-----------------------------------------------------------------------------
(* The backup outlives the trial *)

\* The only step that removes an operator's container is the one that follows a
\* test the new container passed.
LEMMA RemovalStep ==
  ASSUME Separate, IInv, TInv, [Next]_vars, NEW a \in App, Exists(a), ~Exists(a)'
  PROVE  \E r \in Request : DropOld(r) /\ Target(r) = a
<1>1. a \in Container /\ box'[a] # box[a]
  BY Sides DEF Exists
<1>2. PICK r \in Request : Step(r)
  BY <1>1 DEF Next, vars, Begin, Disconnect, Publish, Crash
<1>3. Pivot(r)
  BY <1>1, <1>2 DEF Step, Staging, Conclusion, Lookup, Pull, Scan, Judge, Fail, Commit,
     Preload, Cleanup
<1>4. pc[r] \in Begun
  BY <1>3 DEF Pivot, StopOld, DropLeftover, SetAside, UndoStop, Create, StartNew, Health,
     Discard, DropOld, RestoreName, RestartOld, Begun, Label
<1>5. Target(r) \in Container /\ r \in Container /\ a # r
  BY <1>4, Aimed, Sides
<1>6. CASE StopOld(r)
  BY <1>1, <1>5, <1>6 DEF StopOld, EngineCall, StopResult, Exists, IInv, TypeOK, Box
<1>7. CASE DropLeftover(r)
  BY <1>1, <1>7, NoLeftover DEF DropLeftover, EngineCall, AtHome
<1>8. CASE SetAside(r) \/ RestoreName(r)
  <2>1. PICK n : box' \in {box, RenameResult(Target(r), n)}
    BY <1>8 DEF SetAside, RestoreName, EngineCall
  <2>2. box'[a].state = box[a].state
    BY <1>1, <1>5, <2>1, RenameDoes
  <2> QED
    BY <2>2 DEF Exists
<1>9. CASE UndoStop(r) \/ RestartOld(r)
  <2>1. box' \in {box, StartResult(Target(r))}
    BY <1>9 DEF UndoStop, RestartOld, EngineCall
  <2>2. box'[a].state \in {box[a].state, "running", "crashed"}
    BY <1>1, <1>5, <2>1, StartDoes
  <2> QED
    BY <2>2 DEF Exists
<1>10. CASE Create(r)
  BY <1>1, <1>5, <1>10, CreateDoes DEF Create, EngineCall
<1>11. CASE StartNew(r) \/ Health(r) \/ Discard(r)
  <2>1. box' \in {box, StartResult(r), RemoveResult({r})}
    BY <1>11 DEF StartNew, Health, Discard, EngineCall
  <2> QED
    BY <1>1, <1>5, <2>1, StartDoes, RemoveDoes
<1>12. CASE DropOld(r)
  BY <1>1, <1>5, <1>12, RemoveDoes DEF DropOld, EngineCall
<1> QED
  BY <1>3, <1>6, <1>7, <1>8, <1>9, <1>10, <1>11, <1>12 DEF Pivot

\* The operator's container is only removed when its successor has been seen to
\* run and holds the name, whatever call fails, whoever disconnects, and however
\* many services are updated at once.
THEOREM BackupKept ==
  ASSUME Separate
  PROVE  Spec => BackupOutlivesTrial
<1>1. IInv /\ TInv /\ [Next]_vars => [\A a \in App : (Exists(a) /\ ~Exists(a)') => Up(a)']_vars
  <2> SUFFICES ASSUME IInv, TInv, [Next]_vars, NEW a \in App, Exists(a), ~Exists(a)'
               PROVE  Up(a)'
    OBVIOUS
  <2>1. PICK r \in Request : DropOld(r) /\ Target(r) = a
    BY RemovalStep
  <2>2. pc[r] = "dropOld" /\ pc[r] \in Begun /\ r \in Container
    BY <2>1, Sides DEF DropOld, Begun, Label
  <2>3. box[r].state = "running" /\ box[r].name = OwnName(a) /\ a # r /\ a \in Container
    BY <2>1, <2>2, Aimed DEF TInv, RequestInv, NewOf, Proven, Exists
  <2>4. box'[r] = box[r]
    BY <2>1, <2>2, <2>3, RemoveDoes DEF DropOld, EngineCall
  <2> QED
    BY <2>2, <2>3, <2>4 DEF Up, Serves
<1> QED
  BY <1>1, Transaction, PTL DEF Spec, BackupOutlivesTrial

-----------------------------------------------------------------------------
(* Staging leaves nothing behind *)

\* A request's step changes no container but its own and its target.
LEMMA StepTouches ==
  ASSUME Separate, IInv, TInv, NEW r \in Request, Step(r),
         NEW c \in Container, c # r, c # Target(r)
  PROVE  box'[c] = box[c]
<1>1. CASE Staging(r) \/ Conclusion(r)
  BY <1>1 DEF Staging, Conclusion, Lookup, Pull, Scan, Judge, Fail, Commit, Preload, Cleanup
<1>2. CASE Pivot(r)
  <2>1. pc[r] \in Begun
    BY <1>2 DEF Pivot, StopOld, DropLeftover, SetAside, UndoStop, Create, StartNew, Health,
       Discard, DropOld, RestoreName, RestartOld, Begun, Label
  <2>2. Target(r) \in Container /\ r \in Container
    BY <2>1, Aimed, Sides
  <2>3. CASE StopOld(r)
    BY <2>2, <2>3, StopDoes DEF StopOld, EngineCall
  <2>4. CASE DropLeftover(r)
    BY <2>4, NoLeftover DEF DropLeftover, EngineCall, AtHome
  <2>5. CASE SetAside(r) \/ RestoreName(r)
    <3>1. PICK n : box' \in {box, RenameResult(Target(r), n)}
      BY <2>5 DEF SetAside, RestoreName, EngineCall
    <3> QED
      BY <2>2, <3>1, RenameDoes
  <2>6. CASE UndoStop(r) \/ RestartOld(r)
    <3>1. box' \in {box, StartResult(Target(r))}
      BY <2>6 DEF UndoStop, RestartOld, EngineCall
    <3> QED
      BY <2>2, <3>1, StartDoes
  <2>7. CASE Create(r)
    BY <2>2, <2>7, CreateDoes DEF Create, EngineCall
  <2>8. CASE StartNew(r) \/ Health(r) \/ Discard(r)
    <3>1. box' \in {box, StartResult(r), RemoveResult({r})}
      BY <2>8 DEF StartNew, Health, Discard, EngineCall
    <3> QED
      BY <2>2, <3>1, StartDoes, RemoveDoes
  <2>9. CASE DropOld(r)
    BY <2>2, <2>9, RemoveDoes DEF DropOld, EngineCall
  <2> QED
    BY <1>2, <2>3, <2>4, <2>5, <2>6, <2>7, <2>8, <2>9 DEF Pivot
<1> QED
  BY <1>1, <1>2 DEF Step

\* A new container only goes away when its own request discards it, and keeps
\* its image until then.
LEMMA NewStays ==
  ASSUME Separate, IInv, TInv, NEW r \in Request, Step(r), Exists(r), ~Discard(r)
  PROVE  Exists(r)' /\ box'[r].image = box[r].image
<1>1. CASE Staging(r) \/ Conclusion(r)
  BY <1>1 DEF Staging, Conclusion, Lookup, Pull, Scan, Judge, Fail, Commit, Preload, Cleanup,
     Exists
<1>2. CASE Pivot(r)
  <2>1. pc[r] \in Begun
    BY <1>2 DEF Pivot, StopOld, DropLeftover, SetAside, UndoStop, Create, StartNew, Health,
       Discard, DropOld, RestoreName, RestartOld, Begun, Label
  <2>2. Target(r) \in Container /\ r \in Container /\ Target(r) # r
    BY <2>1, Aimed, Sides
  <2>3. pc[r] \notin Unborn
    BY DEF TInv, RequestInv, NewOf
  <2>4. CASE StartNew(r) \/ Health(r)
    <3>1. box' \in {box, StartResult(r)}
      BY <2>4 DEF StartNew, Health, EngineCall
    <3> QED
      BY <2>2, <3>1, StartDoes DEF Exists
  <2>5. CASE DropOld(r)
    BY <2>2, <2>5, RemoveDoes DEF DropOld, EngineCall, Exists
  <2>6. CASE RestoreName(r)
    <3>1. PICK n : box' \in {box, RenameResult(Target(r), n)}
      BY <2>6 DEF RestoreName, EngineCall
    <3> QED
      BY <2>2, <3>1, RenameDoes DEF Exists
  <2>7. CASE RestartOld(r)
    <3>1. box' \in {box, StartResult(Target(r))}
      BY <2>7 DEF RestartOld, EngineCall
    <3> QED
      BY <2>2, <3>1, StartDoes DEF Exists
  <2> QED
    BY <1>2, <2>3, <2>4, <2>5, <2>6, <2>7
    DEF Pivot, Unborn, Before, StopOld, DropLeftover, SetAside, UndoStop, Create
<1> QED
  BY <1>1, <1>2 DEF Step

\* Where a request that holds a staged image goes next.
LEMMA HoldingMoves ==
  ASSUME IInv, NEW r \in Request, Step(r)
  PROVE  /\ \A q \in Request \ {r} : pc'[q] = pc[q] /\ job'[q] = job[q]
         /\ pc[r] \in Holding \ {"cleanup"} =>
              job' = job /\ (pc'[r] \in Holding \/ pc'[r] = "dropOld")
         /\ Discard(r) => pc[r] \in Holding \ {"cleanup"} /\ pc'[r] = "restoreName"
BY DEF Step, Staging, Conclusion, Pivot, Lookup, Pull, Scan, Judge, Fail, Commit, Preload,
   Cleanup, StopOld, DropLeftover, SetAside, UndoStop, Create, StartNew, Health, Discard,
   DropOld, RestoreName, RestartOld, EngineCall, Goto, Holding, IInv, TypeOK

\* What a step does to the store.
LEMMA StoreMoves ==
  ASSUME Separate, IInv, TInv, NEW r \in Request, Step(r), faults' = 0
  PROVE  \/ images' = images /\ pc[r] # "cleanup"
         \/ Pull(r) /\ images' \subseteq images \cup {job[r].staged} /\ pc'[r] = "scan"
         \/ /\ Cleanup(r) /\ box' = box
            /\ \/ images' = images \ {job[r].staged}
               \/ images' = images /\ InUse(job[r].staged)
<1>1. CASE Pivot(r)
  BY <1>1 DEF Pivot, StopOld, DropLeftover, SetAside, UndoStop, Create, StartNew, Health,
     Discard, DropOld, RestoreName, RestartOld, EngineCall
<1>2. CASE Staging(r)
  BY <1>2 DEF Staging, Lookup, Pull, Scan, Judge, Goto, IInv, TypeOK
<1>3. CASE Conclusion(r)
  BY <1>3 DEF Conclusion, Fail, Commit, Preload, Cleanup, Fault, IInv, TypeOK
<1> QED
  BY <1>1, <1>2, <1>3 DEF Step

\* What held an image holds it after the step, or has handed it over.
LEMMA StillHeld ==
  ASSUME Separate, IInv, TInv, IInv', TInv', NEW r \in Request, Step(r), pc[r] # "cleanup",
         NEW d,
         \/ \E q \in Request : Exists(q) /\ box[q].image = d
         \/ \E q \in Request : pc[q] \in Holding /\ job[q].staged = d
  PROVE  \/ \E q \in Request : Exists(q)' /\ box'[q].image = d
         \/ \E q \in Request : pc'[q] \in Holding /\ job'[q].staged = d
<1>1. ASSUME NEW q \in Request, pc[q] \in Holding, job[q].staged = d
      PROVE  \/ Exists(q)' /\ box'[q].image = d
             \/ pc'[q] \in Holding /\ job'[q].staged = d
  <2>1. CASE q # r
    BY <1>1, <2>1, HoldingMoves
  <2>2. CASE q = r
    <3>1. job' = job /\ (pc'[r] \in Holding \/ pc'[r] = "dropOld")
      BY <1>1, <2>2, HoldingMoves
    <3>2. pc'[r] = "dropOld" => Exists(r)'
      BY DEF TInv, RequestInv, NewOf, Proven, Exists
    <3>3. Exists(r)' => box'[r].image = job'[r].staged
      BY DEF IInv, CreatedFromGate
    <3> QED
      BY <1>1, <2>2, <3>1, <3>2, <3>3
  <2> QED
    BY <2>1, <2>2
<1>2. ASSUME NEW q \in Request, Exists(q), box[q].image = d
      PROVE  \/ Exists(q)' /\ box'[q].image = d
             \/ pc'[q] \in Holding /\ job'[q].staged = d
  <2>1. CASE q # r
    <3>1. q \in Container
      BY Sides
    <3>2. Target(r) # q
      <4>1. pc[r] \in Begun
        BY DEF Step, Staging, Conclusion, Pivot, Lookup, Pull, Scan, Judge, Fail, Commit,
           Preload, Cleanup, StopOld, DropLeftover, SetAside, UndoStop, Create, StartNew,
           Health, Discard, DropOld, RestoreName, RestartOld, Begun, Label
      <4> QED
        BY <4>1, Aimed, Sides
    <3>3. box'[q] = box[q]
      BY <2>1, <3>1, <3>2, StepTouches
    <3> QED
      BY <1>2, <3>3 DEF Exists
  <2>2. CASE q = r /\ ~Discard(r)
    BY <1>2, <2>2, NewStays
  <2>3. CASE q = r /\ Discard(r)
    <3>1. pc[r] \in Holding
      BY <2>3, HoldingMoves
    <3>2. job[r].staged = d
      BY <1>2, <2>3 DEF IInv, CreatedFromGate
    <3> QED
      BY <1>1, <2>3, <3>1, <3>2
  <2> QED
    BY <2>1, <2>2, <2>3
<1> QED
  BY <1>1, <1>2

\* The store is known after every step.
LEMMA StoreStep ==
  ASSUME Separate, IInv, TInv, IInv', TInv', StoreKnown, [Next]_vars
  PROVE  StoreKnown'
<1> SUFFICES ASSUME faults' = 0, NEW d \in images'
             PROVE  \/ \E a \in App : d = FirstImage[a]
                    \/ \E r \in Request : Exists(r)' /\ box'[r].image = d
                    \/ \E r \in Request : pc'[r] \in Holding /\ job'[r].staged = d
  BY DEF StoreKnown
<1>1. faults = 0
  <2>1. ASSUME NEW r \in Request, Step(r) PROVE faults = 0
    BY <2>1 DEF Step, Staging, Conclusion, Pivot, Lookup, Pull, Scan, Judge, Fail, Commit,
       Preload, Cleanup, StopOld, DropLeftover, SetAside, UndoStop, Create, StartNew, Health,
       Discard, DropOld, RestoreName, RestartOld, EngineCall, Fault, IInv, TypeOK
  <2> QED
    BY <2>1 DEF Next, vars, Begin, Disconnect, Publish, Crash, Fault, IInv, TypeOK
<1>2. ASSUME NEW r \in Request, Step(r)
      PROVE  \/ \E a \in App : d = FirstImage[a]
             \/ \E q \in Request : Exists(q)' /\ box'[q].image = d
             \/ \E q \in Request : pc'[q] \in Holding /\ job'[q].staged = d
  <2>1. CASE d \in images /\ pc[r] # "cleanup"
    BY <1>1, <1>2, <2>1, StillHeld DEF StoreKnown
  <2>2. CASE Pull(r) /\ d = job[r].staged /\ pc'[r] = "scan"
    BY <2>2 DEF Pull, Holding
  <2>3. CASE Cleanup(r)
    <3>1. /\ box' = box /\ d \in images
          /\ d = job[r].staged => InUse(d)
      BY <1>2, <2>3, StoreMoves DEF Cleanup, Pull
    <3>2. CASE d = job[r].staged
      <4>1. PICK c \in Container : Exists(c) /\ box[c].image = d
        BY <3>1, <3>2 DEF InUse
      <4> QED
        BY <3>1, <4>1 DEF Container, TInv, OldKnown, Exists
    <3>3. CASE d # job[r].staged
      <4>1. \A q \in Request \ {r} : pc'[q] = pc[q] /\ job'[q] = job[q]
        BY <1>2, HoldingMoves
      <4> QED
        BY <1>1, <3>1, <3>3, <4>1 DEF StoreKnown, Exists
    <3> QED
      BY <3>2, <3>3
  <2> QED
    BY <1>2, <2>1, <2>2, <2>3, StoreMoves DEF Pull, Cleanup
<1>3. ASSUME NEW r \in Request, Begin(r)
      PROVE  \/ \E q \in Request : Exists(q)' /\ box'[q].image = d
             \/ \E q \in Request : pc'[q] \in Holding /\ job'[q].staged = d
             \/ \E a \in App : d = FirstImage[a]
  <2>1. /\ pc[r] = "idle" /\ images' = images /\ box' = box
        /\ \A q \in Request \ {r} : pc'[q] = pc[q] /\ job'[q] = job[q]
    BY <1>3 DEF Begin, Goto, IInv, TypeOK
  <2> QED
    BY <1>1, <2>1 DEF StoreKnown, Exists, Holding
<1>4. CASE UNCHANGED <<box, images, pc, job>>
  BY <1>1, <1>4 DEF StoreKnown, Exists
<1>5. ~Crash
  BY DEF Crash, Fault, IInv, TypeOK
<1> QED
  BY <1>2, <1>3, <1>4, <1>5 DEF Next, vars, Disconnect, Publish

\* Once every request has ended, the store holds no image that was staged and
\* not deployed, also when clients went away.
THEOREM StagingEmptied ==
  ASSUME Separate
  PROVE  Spec => []StagingReclaimed
<1>1. Init => StoreKnown
  BY DEF Init, StoreKnown
<1>2. StoreKnown /\ [Next]_vars /\ IInv /\ TInv /\ IInv' /\ TInv' => StoreKnown'
  BY StoreStep
<1>3. StoreKnown => StagingReclaimed
  BY Sides DEF StoreKnown, StagingReclaimed, Active, Ended, Holding, InUse
<1> QED
  BY <1>1, <1>2, <1>3, Transaction, PTL DEF Spec

-----------------------------------------------------------------------------
(* One instance at a time *)

\* Where no fault is allowed none happens.
LEMMA NoFaults ==
  ASSUME MaxFaults = 0
  PROVE  Spec => [](faults = 0)
<1>1. Init => faults = 0
  BY DEF Init
<1>2. faults = 0 /\ [Next]_vars => (faults = 0)'
  <2>1. faults = 0 => ~Fault
    BY DEF Fault
  <2>2. ASSUME faults = 0, NEW r \in Request, Step(r) PROVE faults' = 0
    BY <2>1, <2>2 DEF Step, Staging, Conclusion, Pivot, Lookup, Pull, Scan, Judge, Fail,
       Commit, Preload, Cleanup, StopOld, DropLeftover, SetAside, UndoStop, Create, StartNew,
       Health, Discard, DropOld, RestoreName, RestartOld, EngineCall
  <2> QED
    BY <2>1, <2>2 DEF Next, vars, Begin, Disconnect, Publish, Crash
<1> QED
  BY <1>1, <1>2, PTL DEF Spec

\* Two containers of a service never run at the same time, also when clients go
\* away in the middle of a rollback.
THEOREM OneAtATime ==
  ASSUME Separate, MaxFaults = 0
  PROVE  Spec => []OneInstance
<1>1. IInv /\ TInv /\ faults = 0 => OneInstance
  <2> SUFFICES ASSUME IInv, TInv, faults = 0,
                      NEW c \in Container, NEW e \in Container,
                      box[c].state = "running", box[e].state = "running",
                      box[c].name[1] = box[e].name[1], c # e
               PROVE  FALSE
    BY DEF OneInstance
  <2>1. Exists(c) /\ Exists(e)
    BY DEF Exists
  <2>2. /\ c \in App => box[c].name[1] = c
        /\ e \in App => box[e].name[1] = e
        /\ c \in Request => box[c].name[1] = Target(c) /\ Target(c) \in App
        /\ e \in Request => box[e].name[1] = Target(e) /\ Target(e) \in App
    BY <2>1, Named, NamesApart, Sides
  <2>3. \A r \in Request : box[r].state = "running" => box[Target(r)].state # "running"
    BY DEF TInv, RequestInv, ApartOf
  <2>4. CASE c \in Request /\ e \in Request
    BY <2>1, <2>2, <2>4, NoneMeet
  <2> QED
    BY <2>2, <2>3, <2>4 DEF Container
<1> QED
  BY <1>1, NoFaults, Transaction, PTL

-----------------------------------------------------------------------------
(* From version to version *)

\* Who serves a service: its old container or the one of the request aimed at
\* it, and the version it serves.
ServingKnown ==
  \A a \in App :
    /\ \A r \in Request : Serves(r, a) => Target(r) = a /\ ServedVersion(a) = box[r].image
    /\ (\A r \in Request : ~Serves(r, a)) => ServedVersion(a) = FirstImage[a]
    /\ \A c \in App : Serves(c, a) => c = a

\* It follows from the names.
LEMMA Serving ==
  ASSUME Separate
  PROVE  IInv /\ TInv => ServingKnown
<1> SUFFICES ASSUME IInv, TInv, NEW a \in App
             PROVE  /\ \A r \in Request : Serves(r, a) =>
                         Target(r) = a /\ ServedVersion(a) = box[r].image
                    /\ (\A r \in Request : ~Serves(r, a)) => ServedVersion(a) = FirstImage[a]
                    /\ \A c \in App : Serves(c, a) => c = a
  BY DEF ServingKnown
<1>1. ASSUME NEW r \in Request, Serves(r, a)
      PROVE  Target(r) = a /\ Exists(r)
  <2>1. Exists(r) /\ r \in Container /\ box[r].name = OwnName(a)
    BY <1>1, Sides DEF Serves, Exists
  <2> QED
    BY <2>1, Named, NamesApart, Sides
<1>2. ASSUME NEW r \in Request, Serves(r, a)
      PROVE  ServedVersion(a) = box[r].image
  <2>1. \A q \in Request : Serves(q, a) => q = r
    BY <1>1, <1>2, NoneMeet
  <2>2. (CHOOSE q \in Request : Serves(q, a)) = r
    BY <1>2, <2>1
  <2> QED
    BY <1>2, <2>2 DEF ServedVersion
<1>3. (\A r \in Request : ~Serves(r, a)) => ServedVersion(a) = FirstImage[a]
  BY DEF ServedVersion, TInv, OldKnown
<1>4. ASSUME NEW c \in App, Serves(c, a) PROVE c = a
  BY <1>4, NamesApart DEF Serves, TInv, OldKnown
<1> QED
  BY <1>1, <1>2, <1>3, <1>4

\* Container c serves what it served.
SameServed(c) == \A a \in App : Serves(c, a)' <=> Serves(c, a)

\* Only c may have changed what it serves, and it can only serve t.
ServeMove(t, c) ==
  /\ \A e \in Container \ {c} : SameServed(e)
  /\ \A a \in App \ {t} : ~Serves(c, a) /\ ~Serves(c, a)'

\* A request's step, seen from the services: nobody serves more or less, or the
\* old container stops, or starts again, or the new one starts, each while
\* nothing else serves that service.
LEMMA Moves ==
  ASSUME Separate, IInv, TInv, IInv', TInv', NEW r \in Request, Step(r), faults' = 0,
         NEW t, t = Target(r)
  PROVE  \/ \A c \in Container : SameServed(c)
         \/ /\ ServeMove(t, t) /\ ~Exists(r)
            /\ Serves(t, t) /\ ~Serves(t, t)'
         \/ /\ ServeMove(t, t) /\ ~Serves(r, t)
            /\ ~Serves(t, t) /\ Serves(t, t)'
         \/ /\ ServeMove(t, r) /\ ~Serves(t, t)
            /\ ~Serves(r, t) /\ Serves(r, t)'
<1>1. CASE Staging(r) \/ Conclusion(r)
  <2>1. box' = box
    BY <1>1 DEF Staging, Conclusion, Lookup, Pull, Scan, Judge, Fail, Commit, Preload, Cleanup
  <2> QED
    BY <2>1 DEF SameServed, Serves
<1>2. CASE Pivot(r)
  <2>1. pc[r] \in Begun /\ job' = job /\ RequestInv(r) /\ RequestInv(r)' /\ faults = 0
    BY <1>2 DEF Pivot, StopOld, DropLeftover, SetAside, UndoStop, Create, StartNew, Health,
       Discard, DropOld, RestoreName, RestartOld, EngineCall, Fault, Begun, Label, TInv, IInv,
       TypeOK
  <2>2. /\ t \in Container /\ r \in Container /\ t # r /\ t \in App
        /\ job[r].name = OwnName(t)
    BY <2>1, Aimed, Sides
  <2>3. \A c \in Container \ {r, t} : SameServed(c)
    BY StepTouches DEF SameServed, Serves
  <2>4. \A a \in App \ {t} : ~Serves(t, a) /\ ~Serves(t, a)'
    BY <2>2, NamesApart DEF Serves, TInv, OldKnown
  <2>5. \A a \in App \ {t} : ~Serves(r, a) /\ ~Serves(r, a)'
    BY <2>1, <2>2, NamesApart DEF Serves, RequestInv, NewOf, Exists
  <2>6. CASE StopOld(r)
    <3>1. Intact(t) /\ ~Exists(r) /\ box' \in {box, StopResult(t)}
      BY <2>1, <2>6 DEF StopOld, EngineCall, RequestInv, OldOf, NewOf, Before, Unborn
    <3>2. SameServed(r)
      BY <2>2, <3>1, StopDoes DEF SameServed, Serves
    <3> QED
      BY <2>2, <2>3, <2>4, <3>1, <3>2 DEF ServeMove, SameServed, Serves, Intact
  <2>7. CASE DropLeftover(r) \/ Health(r)
    <3>1. box' = box
      BY <2>7, NoLeftover DEF DropLeftover, Health, EngineCall, AtHome
    <3> QED
      BY <3>1 DEF SameServed, Serves
  <2>8. CASE SetAside(r) \/ RestoreName(r) \/ DropOld(r)
    <3>1. PICK n : box' \in {box, RenameResult(t, n), RemoveResult({t})}
      BY <2>8 DEF SetAside, RestoreName, DropOld, EngineCall
    <3>2. box[t].state = "stopped"
      BY <2>1, <2>8 DEF SetAside, RestoreName, DropOld, RequestInv, OldOf, AtHome, Aside
    <3>3. box'[t].state # "running" /\ box'[r] = box[r]
      BY <2>2, <3>1, <3>2, RenameDoes, RemoveDoes
    <3> QED
      BY <2>3, <3>2, <3>3 DEF SameServed, Serves
  <2>9. CASE UndoStop(r) \/ RestartOld(r)
    <3>1. box' = box \/ (box' = StartResult(t) /\ live[r])
      BY <2>1, <2>9 DEF UndoStop, RestartOld, EngineCall, Fault
    <3>2. box[t].state = "stopped" /\ (box' = box \/ box[r].state # "running")
      BY <2>1, <2>9, <3>1 DEF UndoStop, RestartOld, RequestInv, OldOf, NewOf, ApartOf,
         Somewhere, Unborn, Exists
    <3>3. box'[r] = box[r]
      BY <2>2, <3>1, StartDoes
    <3>4. SameServed(r)
      BY <3>3 DEF SameServed, Serves
    <3>5. CASE box' = box
      BY <3>5 DEF SameServed, Serves
    <3>6. CASE box[r].state # "running"
      BY <2>2, <2>3, <2>4, <3>2, <3>4, <3>6 DEF ServeMove, SameServed, Serves
    <3> QED
      BY <3>2, <3>5, <3>6
  <2>10. CASE Create(r) \/ Discard(r)
    <3>1. box'[t] = box[t] /\ (box' = box \/ box'[r].state # "running")
      BY <2>2, <2>10, CreateDoes, RemoveDoes DEF Create, Discard, EngineCall
    <3>2. box' = box \/ box[r].state # "running"
      BY <2>1, <2>10 DEF Create, Discard, EngineCall, Fault, RequestInv, NewOf, ApartOf, Unborn,
         Exists
    <3> QED
      BY <2>3, <3>1, <3>2 DEF SameServed, Serves
  <2>11. CASE StartNew(r)
    <3>1. box'[t] = box[t] /\ box[t].state = "stopped" /\ box[r].state = "created"
      BY <2>1, <2>2, <2>11, StartDoes DEF StartNew, EngineCall, RequestInv, OldOf, NewOf, Aside
    <3>2. SameServed(t)
      BY <3>1 DEF SameServed, Serves
    <3> QED
      BY <2>2, <2>3, <2>5, <3>1, <3>2 DEF ServeMove, SameServed, Serves
  <2> QED
    BY <1>2, <2>6, <2>7, <2>8, <2>9, <2>10, <2>11 DEF Pivot
<1> QED
  BY <1>1, <1>2 DEF Step

\* A new container that still serves still runs the image it was created from.
LEMMA VersionKept ==
  ASSUME IInv, IInv', NEW r \in Request, Step(r), NEW q \in Request, NEW a \in App,
         Serves(q, a), Serves(q, a)'
  PROVE  box'[q].image = box[q].image
<1>1. Exists(q) /\ Exists(q)'
  BY DEF Serves, Exists
<1>2. box[q].image = job[q].staged /\ box'[q].image = job'[q].staged /\ pc[q] # "lookup"
  BY <1>1 DEF IInv, CreatedFromGate
<1>3. q # r => job'[q] = job[q]
  BY HoldingMoves
<1>4. pc[r] # "lookup" => job' = job
  BY DEF Step, Staging, Conclusion, Pivot, Lookup, Pull, Scan, Judge, Fail, Commit,
     Preload, Cleanup, StopOld, DropLeftover, SetAside, UndoStop, Create, StartNew, Health,
     Discard, DropOld, RestoreName, RestartOld, EngineCall
<1> QED
  BY <1>2, <1>3, <1>4

\* A service of which nothing changed is up as before, with the same version.
LEMMA Untouched ==
  ASSUME IInv, IInv', ServingKnown, ServingKnown', NEW r \in Request, Step(r), NEW a \in App,
         \A c \in Container : Serves(c, a)' <=> Serves(c, a)
  PROVE  (Up(a)' <=> Up(a)) /\ ServedVersion(a)' = ServedVersion(a)
<1>1. Up(a)' <=> Up(a)
  BY DEF Up
<1>2. CASE \E q \in Request : Serves(q, a)
  <2>1. PICK q \in Request : Serves(q, a)
    BY <1>2
  <2>2. Serves(q, a)'
    BY <2>1, Sides
  <2>3. ServedVersion(a) = box[q].image
    BY <2>1 DEF ServingKnown
  <2>4. ServedVersion(a)' = box'[q].image
    BY <2>2 DEF ServingKnown
  <2> QED
    BY <1>1, <2>1, <2>2, <2>3, <2>4, VersionKept
<1>3. CASE \A q \in Request : ~Serves(q, a)
  <2>1. \A q \in Request : ~Serves(q, a)'
    BY <1>3, Sides
  <2>2. ServedVersion(a) = FirstImage[a] /\ ServedVersion(a)' = FirstImage[a]
    BY <1>3, <2>1 DEF ServingKnown
  <2> QED
    BY <1>1, <2>2
<1> QED
  BY <1>2, <1>3

\* What a step does to one service: nothing, or its old container stops, or it
\* comes back, or an admissible version takes over.
Goes(a) ==
  \/ (Up(a)' <=> Up(a)) /\ ServedVersion(a)' = ServedVersion(a)
  \/ Up(a) /\ ~Up(a)' /\ ServedVersion(a)' = ServedVersion(a)
  \/ ~Up(a) /\ Up(a)' /\ ServedVersion(a)' = ServedVersion(a)
  \/ /\ ~Up(a) /\ Up(a)'
     /\ ServedVersion(a)' \in Digest /\ AdmissibleFor(a, ServedVersion(a)')

\* A request's step only does something to the service it is aimed at.
LEMMA ServiceStep ==
  ASSUME Separate, IInv, TInv, IInv', TInv', ServingKnown, ServingKnown',
         NEW r \in Request, Step(r), faults' = 0
  PROVE  /\ \A a \in App : Goes(a)
         /\ \A a \in App \ {Target(r)} :
              (Up(a)' <=> Up(a)) /\ ServedVersion(a)' = ServedVersion(a)
<1>1. PICK t : t = Target(r)
  OBVIOUS
<1>2. CASE \A c \in Container : SameServed(c)
  BY <1>2, Untouched DEF SameServed, Goes
<1>3. ASSUME NEW c \in Container, ServeMove(t, c), NEW a \in App, a # t
      PROVE  (Up(a)' <=> Up(a)) /\ ServedVersion(a)' = ServedVersion(a)
  BY <1>3, Untouched DEF ServeMove, SameServed
<1>4. pc[r] \in Begun
  BY DEF Step, Staging, Conclusion, Pivot, Lookup, Pull, Scan, Judge, Fail, Commit,
     Preload, Cleanup, StopOld, DropLeftover, SetAside, UndoStop, Create, StartNew,
     Health, Discard, DropOld, RestoreName, RestartOld, Begun, Label
<1>5. t \in App /\ t \in Container /\ r \in Container /\ t # r
  BY <1>1, <1>4, Aimed, Sides
<1>6. \A c \in Container \ {r, t} : ~Serves(c, t) /\ (SameServed(c) => ~Serves(c, t)')
  <2> SUFFICES ASSUME NEW c \in Container \ {r, t} PROVE ~Serves(c, t)
    BY <1>5 DEF SameServed
  <2>1. CASE c \in App
    BY <1>5, <2>1 DEF ServingKnown
  <2>2. CASE c \in Request
    <3>1. Serves(c, t) => Target(c) = Target(r) /\ Exists(c)
      BY <1>1, <1>5, <2>2 DEF ServingKnown, Serves, Exists
    <3> QED
      BY <1>4, <2>2, <3>1, NoneMeet
  <2> QED
    BY <2>1, <2>2 DEF Container
<1>7. CASE /\ ServeMove(t, t) /\ ~Exists(r)
           /\ Serves(t, t) /\ ~Serves(t, t)'
  <2>1. ~Serves(r, t) /\ ~Serves(r, t)'
    BY <1>5, <1>7 DEF ServeMove, SameServed, Serves, Exists
  <2>2. Up(t) /\ ~Up(t)'
    BY <1>5, <1>6, <1>7, <2>1 DEF Up, ServeMove
  <2>3. \A q \in Request : ~Serves(q, t) /\ ~Serves(q, t)'
    BY <1>5, <1>6, <1>7, <2>1, Sides DEF ServeMove
  <2>4. ServedVersion(t) = FirstImage[t] /\ ServedVersion(t)' = FirstImage[t]
    BY <1>5, <2>3 DEF ServingKnown
  <2> QED
    BY <1>1, <1>3, <1>5, <1>7, <2>2, <2>4 DEF Goes
<1>8. CASE /\ ServeMove(t, t) /\ ~Serves(r, t)
           /\ ~Serves(t, t) /\ Serves(t, t)'
  <2>1. ~Serves(r, t)'
    BY <1>5, <1>8 DEF ServeMove, SameServed
  <2>2. ~Up(t) /\ Up(t)'
    BY <1>5, <1>6, <1>8 DEF Up
  <2>3. \A q \in Request : ~Serves(q, t) /\ ~Serves(q, t)'
    BY <1>5, <1>6, <1>8, <2>1, Sides DEF ServeMove
  <2>4. ServedVersion(t) = FirstImage[t] /\ ServedVersion(t)' = FirstImage[t]
    BY <1>5, <2>3 DEF ServingKnown
  <2> QED
    BY <1>1, <1>3, <1>5, <1>8, <2>2, <2>4 DEF Goes
<1>9. CASE /\ ServeMove(t, r) /\ ~Serves(t, t)
           /\ ~Serves(r, t) /\ Serves(r, t)'
  <2>1. ~Up(t) /\ Up(t)'
    BY <1>5, <1>6, <1>9 DEF Up
  <2>2. ServedVersion(t)' = box'[r].image /\ Target(r)' = t
    BY <1>5, <1>9 DEF ServingKnown
  <2>3. Exists(r)' /\ box'[r].name = OwnName(t)
    BY <1>9 DEF Serves, Exists
  <2>4. box'[r].name = job'[r].name
    BY <2>3 DEF TInv, RequestInv, NewOf
  <2>5. Admissible(job[r].name, box[r].image)' /\ box'[r].image \in Digest
    BY <1>5, <2>3 DEF IInv, CreatedFromGate, BoxKnown
  <2>6. \A n, d : Admissible(n, d)' = Admissible(n, d)
    BY DEF Admissible, SettingsRead, ExceptedOf, OverrideOf
  <2>7. AdmissibleFor(t, ServedVersion(t)')
    BY <2>2, <2>3, <2>4, <2>5, <2>6 DEF AdmissibleFor
  <2> QED
    BY <1>1, <1>3, <1>5, <1>9, <2>1, <2>2, <2>5, <2>7 DEF Goes
<1> QED
  BY <1>1, <1>2, <1>7, <1>8, <1>9, Moves

\* A step that changes no service leaves the contract's variables alone.
LEMMA ContractStays ==
  ASSUME \A a \in App : (Up(a)' <=> Up(a)) /\ ServedVersion(a)' = ServedVersion(a)
  PROVE  UNCHANGED Contract!vars
<1>1. \A a \in App : Up(a) \in BOOLEAN /\ Up(a)' \in BOOLEAN
  BY DEF Up
<1>2. \A a \in App : Up(a)' = Up(a) /\ ServedVersion(a)' = ServedVersion(a)
  BY <1>1
<1>3. [a \in App |-> Up(a)]' = [a \in App |-> Up(a)]
  BY <1>2
<1>4. [a \in App |-> ServedVersion(a)]' = [a \in App |-> ServedVersion(a)]
  BY <1>2
<1> QED
  BY <1>3, <1>4 DEF Contract!vars

\* A step that changes one service changes one value of the contract's variables.
LEMMA ContractChanges ==
  ASSUME NEW t \in App, NEW b \in BOOLEAN, NEW v,
         Up(t)' <=> b, ServedVersion(t)' = v,
         \A a \in App \ {t} : (Up(a)' <=> Up(a)) /\ ServedVersion(a)' = ServedVersion(a)
  PROVE  /\ [a \in App |-> Up(a)]' = [[a \in App |-> Up(a)] EXCEPT ![t] = b]
         /\ [a \in App |-> ServedVersion(a)]' =
              [[a \in App |-> ServedVersion(a)] EXCEPT ![t] = v]
<1>1. \A a \in App : Up(a) \in BOOLEAN /\ Up(a)' \in BOOLEAN
  BY DEF Up
<1>2. Up(t)' = b /\ \A a \in App \ {t} : Up(a)' = Up(a)
  BY <1>1
<1>3. [a \in App |-> Up(a)]' = [[a \in App |-> Up(a)] EXCEPT ![t] = b]
  BY <1>2
<1>4. [a \in App |-> ServedVersion(a)]' =
        [[a \in App |-> ServedVersion(a)] EXCEPT ![t] = v]
  OBVIOUS
<1> QED
  BY <1>3, <1>4

\* A step of Rollout is a step of the contract, or leaves it where it is.
LEMMA ContractStep ==
  ASSUME Separate, IInv, TInv, IInv', TInv', ServingKnown, ServingKnown', faults' = 0,
         [Next]_vars
  PROVE  [Contract!Next]_(Contract!vars)
<1>1. CASE box' = box
  <2>1. \A a \in App : (Up(a)' <=> Up(a)) /\ ServedVersion(a)' = ServedVersion(a)
    BY <1>1 DEF Up, ServedVersion, Serves
  <2> QED
    BY <2>1, ContractStays
<1>2. ASSUME NEW r \in Request, Step(r) PROVE [Contract!Next]_(Contract!vars)
  <2>1. CASE \A a \in App : (Up(a)' <=> Up(a)) /\ ServedVersion(a)' = ServedVersion(a)
    BY <2>1, ContractStays
  <2>2. ASSUME NEW t \in App, t = Target(r),
               ~((Up(t)' <=> Up(t)) /\ ServedVersion(t)' = ServedVersion(t))
        PROVE  Contract!Next
    <3>1. \A a \in App \ {t} : (Up(a)' <=> Up(a)) /\ ServedVersion(a)' = ServedVersion(a)
      BY <1>2, <2>2, ServiceStep
    <3>2. Goes(t)
      BY <1>2, ServiceStep
    <3>3. CASE Up(t) /\ ~Up(t)' /\ ServedVersion(t)' = ServedVersion(t)
      <4>1. [a \in App |-> ServedVersion(a)]' = [a \in App |-> ServedVersion(a)]
        BY <3>1, <3>3
      <4>2. [a \in App |-> Up(a)]' = [[a \in App |-> Up(a)] EXCEPT ![t] = FALSE]
        BY <3>1, <3>3, ContractChanges
      <4>3. Contract!TakeDown(t)
        BY <3>3, <4>1, <4>2 DEF Contract!TakeDown
      <4> QED
        BY <4>3 DEF Contract!Next
    <3>4. CASE ~Up(t) /\ Up(t)' /\ ServedVersion(t)' = ServedVersion(t)
      <4>1. [a \in App |-> ServedVersion(a)]' = [a \in App |-> ServedVersion(a)]
        BY <3>1, <3>4
      <4>2. [a \in App |-> Up(a)]' = [[a \in App |-> Up(a)] EXCEPT ![t] = TRUE]
        BY <3>1, <3>4, ContractChanges
      <4>3. Contract!Restore(t)
        BY <3>4, <4>1, <4>2 DEF Contract!Restore
      <4> QED
        BY <4>3 DEF Contract!Next, Contract!BringUp
    <3>5. CASE /\ ~Up(t) /\ Up(t)'
               /\ ServedVersion(t)' \in Digest /\ AdmissibleFor(t, ServedVersion(t)')
      <4>1. PICK v : v = ServedVersion(t)'
        OBVIOUS
      <4>2. /\ [a \in App |-> Up(a)]' = [[a \in App |-> Up(a)] EXCEPT ![t] = TRUE]
            /\ [a \in App |-> ServedVersion(a)]' =
                 [[a \in App |-> ServedVersion(a)] EXCEPT ![t] = v]
        BY <3>1, <3>5, <4>1, ContractChanges
      <4>3. Contract!Switch(t)
        BY <3>5, <4>1, <4>2 DEF Contract!Switch
      <4> QED
        BY <4>3 DEF Contract!Next, Contract!BringUp
    <3> QED
      BY <2>2, <3>2, <3>3, <3>4, <3>5 DEF Goes
  <2> QED
    BY <1>2, <2>1, <2>2, ServiceStep
<1> QED
  BY <1>1, <1>2 DEF Next, vars, Begin, Disconnect, Publish, Crash
\* At first every service is up.
LEMMA ContractInit == Init => Contract!Init
<1> SUFFICES ASSUME Init PROVE Contract!Init
  OBVIOUS
<1>1. \A a \in App : Serves(a, a)
  BY Sides DEF Init, Serves
<1>2. \A a \in App : Up(a) = TRUE
  BY <1>1, Sides DEF Up
<1>3. \A r \in Request, a \in App : ~Serves(r, a)
  BY Sides DEF Init, Serves
<1>4. \A a \in App : ServedVersion(a) \in Digest
  BY <1>3, Sides, RolloutAssumption DEF ServedVersion, Init
<1> QED
  BY <1>2, <1>4 DEF Contract!Init

\* Every service goes from version to version as the contract says: when it comes
\* back it runs the version of before or an admissible one, also when clients
\* go away, images refuse to start or exit, and the tag moves.  That it comes back
\* is the part of ImplementsContract which is only model-checked.
THEOREM FollowsContract ==
  ASSUME Separate, MaxFaults = 0
  PROVE  Spec => Contract!Init /\ [][Contract!Next]_(Contract!vars)
<1>1. IInv /\ TInv => ServingKnown
  BY Serving
<1>2. /\ IInv /\ TInv /\ ServingKnown /\ (IInv /\ TInv /\ ServingKnown)'
      /\ (faults = 0)' /\ [Next]_vars
      => [Contract!Next]_(Contract!vars)
  BY ContractStep
<1> QED
  BY <1>1, <1>2, ContractInit, NoFaults, Transaction, PTL DEF Spec

-----------------------------------------------------------------------------
(* When nothing goes wrong that the code does not answer for *)

\* Once the new container is gone, the rollback finds the service's name free.
LEMMA NameFree ==
  ASSUME Separate, IInv, TInv, NEW r \in Request, pc[r] = "restoreName", ~Exists(r)
  PROVE  Holders(job[r].name) = {}
<1>1. pc[r] \in Begun /\ box[Target(r)].name = Backup(Target(r))
  BY DEF Begun, Label, TInv, RequestInv, OldOf, Aside
<1>2. PICK t \in App : t = Target(r) /\ job[r].name = OwnName(t)
  BY <1>1, Aimed
<1> SUFFICES ASSUME NEW c \in Container, Exists(c), box[c].name = OwnName(t)
             PROVE  FALSE
  BY <1>2 DEF Holders
<1>3. c \in App => c = t
  BY <1>2, Named, NamesApart, Sides
<1>4. c \in Request => Target(c) = t
  BY <1>2, Named, NamesApart, Sides
<1> QED
  BY <1>1, <1>2, <1>3, <1>4, NamesApart, NoneMeet DEF Container

\* An image that was staged does not refuse to start, nor does an operator's.
LEMMA Starts ==
  ASSUME Calm, IInv, TInv, NEW c \in Container, Exists(c)
  PROVE  CanStart(c) /\ (c \in App => Boot[box[c].image] = "runs")
BY DEF Calm, IInv, BoxKnown, TInv, OldKnown, CanStart

\* It is enough to look at the request that takes the step, and at its target.
LEMMA CalmLocal ==
  ASSUME Calm, IInv, TInv, CalmInv, faults' = 0, NEW r \in Request, Step(r),
         NEW t \in App, t = Target(r), t = Target(r)',
         SettledOf(r)', AuditOf(r)', Intact(t)' \/ pc'[r] \in Away
  PROVE  CalmInv'
<1>1. live' = live /\ \A q \in Request \ {r} : audit'[q] = audit[q]
  BY DEF Step, Staging, Conclusion, Pivot, Lookup, Pull, Scan, Judge, Fail, Commit,
     Preload, Cleanup, StopOld, DropLeftover, SetAside, UndoStop, Create, StartNew, Health,
     Discard, DropOld, RestoreName, RestartOld, EngineCall, IInv, TypeOK
<1>2. pc[r] \in Begun
  BY DEF Step, Staging, Conclusion, Pivot, Lookup, Pull, Scan, Judge, Fail, Commit,
     Preload, Cleanup, StopOld, DropLeftover, SetAside, UndoStop, Create, StartNew,
     Health, Discard, DropOld, RestoreName, RestartOld, Begun, Label
<1>3. \A a \in App \ {t} : box'[a] = box[a]
  BY StepTouches, Sides DEF Calm
<1>4. ASSUME NEW q \in Request, q # r PROVE SettledOf(q)' /\ AuditOf(q)'
  <2>1. pc'[q] = pc[q] /\ Target(q)' = Target(q)
    BY <1>4, HoldingMoves DEF Target
  <2>2. box'[q] = box[q]
    BY <1>4, StepTouches, Sides DEF Calm
  <2>3. pc[q] \in Begun => Target(q) \in App \ {t}
    BY <1>2, <1>4, Aimed, NoneMeet DEF Calm
  <2>4. SettledOf(q) /\ AuditOf(q)
    BY DEF CalmInv
  <2>5. pc[q] \in {"fail", "cleanup", "commit", "preload", "updated"} \cup Somewhere
          => pc[q] \in Begun
    BY DEF Begun, Label, Somewhere
  <2>6. SettledOf(q)'
    BY <1>3, <2>1, <2>2, <2>3, <2>4, <2>5 DEF SettledOf, Intact, Exists
  <2> QED
    BY <1>1, <1>4, <2>1, <2>4, <2>6 DEF AuditOf
<1>5. HandsOn'
  <2> SUFFICES ASSUME NEW a \in App
               PROVE  Intact(a)' \/ \E q \in Request : pc'[q] \in Away /\ Target(q)' = a
    BY DEF HandsOn
  <2>1. CASE a = t
    BY <2>1
  <2>2. CASE a # t /\ Intact(a)
    BY <1>3, <2>2 DEF Intact
  <2>3. CASE a # t /\ \E q \in Request : pc[q] \in Away /\ Target(q) = a
    <3>1. PICK q \in Request : pc[q] \in Away /\ Target(q) = a
      BY <2>3
    <3>2. pc'[q] = pc[q] /\ Target(q)' = Target(q)
      BY <2>3, <3>1, HoldingMoves DEF Target
    <3> QED
      BY <3>1, <3>2
  <2> QED
    BY <2>1, <2>2, <2>3 DEF CalmInv, HandsOn
<1> QED
  BY <1>1, <1>4, <1>5 DEF CalmInv

\* The pivot and the rollback go through to one of their two ends.
LEMMA CalmPivot ==
  ASSUME Calm, IInv, TInv, TInv', CalmInv, faults' = 0, NEW r \in Request, Pivot(r)
  PROVE  CalmInv'
<1>1. pc[r] \in Begun /\ job' = job /\ audit' = audit
  BY DEF Pivot, StopOld, DropLeftover, SetAside, UndoStop, Create, StartNew, Health, Discard,
     DropOld, RestoreName, RestartOld, EngineCall, Begun, Label
<1>2. PICK t \in App : t = Target(r) /\ t = Target(r)' /\ t # r /\ t \in Container
                       /\ r \in Container /\ job[r].name = OwnName(t)
  BY <1>1, Aimed, Sides DEF Target, Calm
<1>3. RequestInv(r) /\ RequestInv(r)' /\ live[r] /\ SettledOf(r) /\ faults = 0 /\ ~Fault
  BY DEF TInv, CalmInv, Fault, IInv, TypeOK
<1>4. SettledOf(r)' /\ AuditOf(r)' /\ (Intact(t)' \/ pc'[r] \in Away)
  <2>1. CASE StopOld(r)
    <3>1. Exists(t)
      BY <1>2, <1>3, <2>1 DEF StopOld, RequestInv, OldOf, Before, Intact, Exists
    <3>2. pc'[r] = "dropLeftover"
      BY <1>2, <1>3, <2>1, <3>1 DEF StopOld, EngineCall, Goto, IInv, TypeOK
    <3> QED
      BY <3>2 DEF SettledOf, AuditOf, Away, AtHome, Somewhere
  <2>2. CASE DropLeftover(r)
    <3>1. pc'[r] = "setAside"
      BY <1>3, <2>2 DEF DropLeftover, EngineCall, Goto, IInv, TypeOK
    <3> QED
      BY <3>1 DEF SettledOf, AuditOf, Away, AtHome, Somewhere
  <2>3. CASE SetAside(r)
    <3>1. Holders(RollbackName(job[r].name)) = {} /\ box[t].state = "stopped"
      BY <1>2, <1>3, <2>3, NoLeftover DEF SetAside, RequestInv, OldOf, AtHome, Calm
    <3>2. pc'[r] = "create"
      BY <1>2, <1>3, <2>3, <3>1 DEF SetAside, CanRename, Exists, EngineCall, Goto, IInv, TypeOK
    <3> QED
      BY <3>2 DEF SettledOf, AuditOf, Away, Aside, Somewhere
  <2>4. CASE UndoStop(r) \/ RestartOld(r)
    <3>1. box[t].state = "stopped" /\ box[t].name = OwnName(t) /\ ~Exists(r)
      BY <1>2, <1>3, <2>4 DEF UndoStop, RestartOld, RequestInv, OldOf, NewOf, SettledOf,
         Somewhere, Unborn
    <3>2. Exists(t) /\ CanStart(t) /\ Boot[box[t].image] = "runs"
      BY <1>2, <3>1, Starts DEF Exists
    <3>3. pc'[r] = "fail" /\ box' = StartResult(t)
      BY <1>2, <1>3, <2>4, <3>2 DEF UndoStop, RestartOld, EngineCall, Goto, IInv, TypeOK
    <3>4. Intact(t)' /\ ~Exists(r)'
      BY <1>2, <3>1, <3>2, <3>3, StartDoes DEF Intact, Exists
    <3> QED
      BY <1>2, <3>3, <3>4 DEF SettledOf, AuditOf, Somewhere
  <2>5. CASE Create(r)
    <3>1. ~Exists(r)
      BY <1>3, <2>5 DEF Create, RequestInv, NewOf, Unborn
    <3>2. pc'[r] = "start" \/ (pc'[r] = "restoreName" /\ box' = box)
      BY <1>3, <2>5 DEF Create, EngineCall, Goto, IInv, TypeOK
    <3> QED
      BY <3>1, <3>2 DEF SettledOf, AuditOf, Away, Aside, Somewhere, Exists
  <2>6. CASE StartNew(r)
    <3>1. CanStart(r)
      BY <1>2, <1>3, <2>6, Starts DEF StartNew, RequestInv, NewOf, Exists
    <3>2. pc'[r] = "health"
      BY <1>3, <2>6, <3>1 DEF StartNew, EngineCall, Goto, IInv, TypeOK
    <3> QED
      BY <3>2 DEF SettledOf, AuditOf, Away, Aside, Somewhere
  <2>7. CASE Health(r)
    <3>1. pc'[r] \in {"dropOld", "discard"}
      BY <2>7 DEF Health, EngineCall, Goto, IInv, TypeOK
    <3> QED
      BY <3>1 DEF SettledOf, AuditOf, Away, Aside, Somewhere
  <2>8. CASE Discard(r)
    <3>1. Exists(r)
      BY <1>3, <2>8 DEF Discard, RequestInv, NewOf
    <3>2. pc'[r] = "restoreName" /\ box' = RemoveResult({r})
      BY <1>3, <2>8, <3>1 DEF Discard, EngineCall, Goto, IInv, TypeOK
    <3>3. ~Exists(r)'
      BY <1>2, <3>2, RemoveDoes DEF Exists
    <3> QED
      BY <3>2, <3>3 DEF SettledOf, AuditOf, Away, Aside, Somewhere
  <2>9. CASE DropOld(r)
    <3>1. Exists(t)
      BY <1>2, <1>3, <2>9 DEF DropOld, RequestInv, OldOf, Aside, Exists
    <3>2. pc'[r] = "commit" /\ box' = RemoveResult({t})
      BY <1>2, <1>3, <2>9, <3>1 DEF DropOld, EngineCall, Goto, IInv, TypeOK
    <3>3. ~Exists(t)'
      BY <1>2, <3>2, RemoveDoes DEF Exists
    <3> QED
      BY <1>2, <3>2, <3>3 DEF SettledOf, AuditOf, Away, Proven, Somewhere, Exists
  <2>10. CASE RestoreName(r)
    <3>1. ~Exists(r) /\ box[t].state = "stopped"
      BY <1>2, <1>3, <2>10 DEF RestoreName, SettledOf, RequestInv, OldOf, Aside
    <3>2. Holders(job[r].name) = {}
      BY <2>10, <3>1, NameFree DEF RestoreName, Calm
    <3>3. pc'[r] = "restartOld" /\ box' = RenameResult(t, OwnName(t))
      BY <1>2, <1>3, <2>10, <3>1, <3>2
      DEF RestoreName, CanRename, Exists, EngineCall, Goto, IInv, TypeOK
    <3>4. box'[t].name = OwnName(t) /\ ~Exists(r)'
      BY <1>2, <3>1, <3>3, RenameDoes DEF Exists
    <3> QED
      BY <1>2, <3>3, <3>4 DEF SettledOf, AuditOf, Away, Somewhere
  <2> QED
    BY <2>1, <2>2, <2>3, <2>4, <2>5, <2>6, <2>7, <2>8, <2>9, <2>10 DEF Pivot
<1> QED
  BY <1>2, <1>4, CalmLocal DEF Step

\* Before the pivot the old container is as it was; the row that is written after
\* it says which end was reached.
LEMMA CalmQuiet ==
  ASSUME Calm, IInv, TInv, TInv', CalmInv, faults' = 0, NEW r \in Request,
         Staging(r) \/ Conclusion(r)
  PROVE  CalmInv'
<1>1. pc[r] \in Begun /\ box' = box /\ job'[r].target = job[r].target
  BY DEF Staging, Conclusion, Lookup, Pull, Scan, Judge, Fail, Commit, Preload, Cleanup,
     Begun, Label, IInv, TypeOK, Target
<1>2. PICK t \in App : t = Target(r) /\ t = Target(r)'
  BY <1>1, Aimed DEF Target, Calm
<1>3. RequestInv(r) /\ SettledOf(r) /\ AuditOf(r)
  BY DEF TInv, CalmInv
<1>4. \/ /\ pc[r] \in {"lookup", "pull", "scan", "judge"}
         /\ \/ pc'[r] \in {"pull", "scan", "judge", "error"} /\ audit'[r] = audit[r]
            \/ pc'[r] \in {"upToDate", "stop"}
            \/ pc'[r] = "cleanup" /\ audit'[r] \in {audit[r], "BLOCKED"}
      \/ pc[r] = "fail" /\ pc'[r] = "cleanup" /\ audit'[r] = "FAILED"
      \/ pc[r] = "cleanup" /\ pc'[r] = "error"
      \/ pc[r] = "commit" /\ pc'[r] = "preload" /\ audit'[r] = "SUCCESS"
      \/ pc[r] = "preload" /\ pc'[r] = "updated"
  BY DEF Staging, Conclusion, Lookup, Pull, Scan, Judge, Fail, Commit, Preload, Cleanup,
     Goto, IInv, TypeOK
<1>5. pc[r] \in {"lookup", "pull", "scan", "judge"} => Intact(t) /\ ~Exists(r)
  BY <1>2, <1>3 DEF RequestInv, OldOf, NewOf, Before, Unborn
<1>6. Exists(r)' = Exists(r) /\ Intact(t)' = Intact(t) /\ Exists(t)' = Exists(t)
  BY <1>1 DEF Exists, Intact
<1>7. SettledOf(r)'
  BY <1>2, <1>3, <1>4, <1>5, <1>6 DEF SettledOf, Somewhere
<1>8. AuditOf(r)'
  BY <1>3, <1>4, RolloutAssumption DEF AuditOf
<1>9. Intact(t)' \/ pc'[r] \in Away
  BY <1>2, <1>3, <1>4, <1>5, <1>6 DEF SettledOf, Away, Proven
<1> QED
  BY <1>2, <1>7, <1>8, <1>9, CalmLocal DEF Step

\* Every step keeps the calm.
LEMMA NextCalm ==
  ASSUME Calm, IInv, TInv, TInv', CalmInv, faults' = 0, [Next]_vars
  PROVE  CalmInv'
<1>1. ASSUME NEW r \in Request, Begin(r) PROVE CalmInv'
  <2>1. /\ pc[r] = "idle" /\ ~Exists(r) /\ pc'[r] \in {"lookup", "error"}
        /\ UNCHANGED <<box, live, audit>>
        /\ \A q \in Request \ {r} : pc'[q] = pc[q] /\ job'[q] = job[q]
    BY <1>1 DEF Begin, Goto, TInv, RequestInv, NewOf, Unborn, IInv, TypeOK
  <2>2. ASSUME NEW q \in Request PROVE SettledOf(q)' /\ AuditOf(q)'
    <3>1. SettledOf(q) /\ AuditOf(q)
      BY DEF CalmInv
    <3> QED
      BY <2>1, <3>1 DEF SettledOf, AuditOf, Somewhere, Exists, Intact, Target
  <2>3. HandsOn'
    BY <2>1 DEF CalmInv, HandsOn, Intact, Target, Away, AtHome, Aside, Somewhere, Proven
  <2> QED
    BY <2>1, <2>2, <2>3 DEF CalmInv
<1>2. ASSUME NEW r \in Request, Step(r) PROVE CalmInv'
  BY <1>2, CalmPivot, CalmQuiet DEF Step
<1>3. \A r \in Request : ~Disconnect(r)
  BY DEF Disconnect, Calm
<1>4. ~Crash
  BY DEF Crash, Fault, IInv, TypeOK, Calm
<1>5. CASE UNCHANGED <<box, pc, live, job, audit>>
  <2>1. \A r \in Request : SettledOf(r)' /\ AuditOf(r)'
    BY <1>5 DEF CalmInv, SettledOf, AuditOf, Exists, Intact, Target
  <2>2. HandsOn'
    BY <1>5 DEF CalmInv, HandsOn, Intact, Target
  <2> QED
    BY <1>5, <2>1, <2>2 DEF CalmInv
<1> QED
  BY <1>1, <1>2, <1>3, <1>4, <1>5 DEF Next, vars, Publish

\* What the calm adds to the transaction.
LEMMA CalmAlways ==
  ASSUME Calm
  PROVE  Spec => [](IInv /\ TInv /\ CalmInv)
<1>1. Separate /\ MaxFaults = 0
  BY DEF Calm
<1>2. Init => CalmInv
  <2> SUFFICES ASSUME Init PROVE CalmInv
    OBVIOUS
  <2>1. \A r \in Request : live[r] /\ SettledOf(r) /\ AuditOf(r)
    BY DEF Init, SettledOf, AuditOf, Somewhere
  <2>2. HandsOn
    BY Sides DEF Init, HandsOn, Intact
  <2> QED
    BY <2>1, <2>2 DEF Init, CalmInv
<1>3. IInv /\ TInv /\ TInv' /\ CalmInv /\ (faults = 0)' /\ [Next]_vars => CalmInv'
  BY NextCalm
<1>4. Spec => [](IInv /\ TInv)
  BY <1>1, Transaction
<1>5. Spec => [](faults = 0)
  BY <1>1, NoFaults
<1> QED
  BY <1>2, <1>3, <1>4, <1>5, PTL DEF Spec

\* The pivot is a transaction: when no update of a service is in progress, a
\* container runs under the service's own name.
THEOREM NeverLeftDown ==
  ASSUME Calm
  PROVE  Spec => []ServiceSurvivesUpdate
<1>1. IInv /\ TInv /\ CalmInv => ServiceSurvivesUpdate
  <2> SUFFICES ASSUME IInv, TInv, CalmInv, NEW a \in App PROVE Updating(a) \/ Up(a)
    BY DEF ServiceSurvivesUpdate
  <2>1. CASE Intact(a)
    BY <2>1, Sides DEF Intact, Up, Serves
  <2>2. CASE \E r \in Request : pc[r] \in Away /\ Target(r) = a
    <3>1. PICK r \in Request : pc[r] \in Away /\ Target(r) = a
      BY <2>2
    <3>2. pc[r] \in Begun
      BY <3>1 DEF Away, AtHome, Aside, Somewhere, Proven, Begun, Label
    <3>3. job[r].name = OwnName(a)
      BY <3>1, <3>2, Aimed DEF Calm
    <3>4. CASE pc[r] = "updated"
      <4>1. box[r].state = "running" /\ box[r].name = OwnName(a)
        BY <3>3, <3>4 DEF TInv, RequestInv, NewOf, Proven, Exists
      <4> QED
        BY <4>1, Sides DEF Up, Serves
    <3>5. CASE pc[r] # "updated"
      <4>1. Active(r)
        BY <3>1, <3>5 DEF Active, Ended, Away, AtHome, Aside, Somewhere, Proven
      <4>2. AppOf(r) = a
        BY <3>3 DEF AppOf, OwnName
      <4> QED
        BY <4>1, <4>2 DEF Updating
    <3> QED
      BY <3>4, <3>5
  <2> QED
    BY <2>1, <2>2 DEF CalmInv, HandsOn
<1> QED
  BY <1>1, CalmAlways, PTL

\* When a request answers, its row of the audit log says what became of the
\* containers.
THEOREM AuditTrue ==
  ASSUME Calm
  PROVE  Spec => AuditTellsTheTruth
<1>1. IInv /\ TInv /\ CalmInv /\ (IInv /\ TInv /\ CalmInv)' /\ [Next]_vars
      => [\A r \in Request : (Active(r) /\ pc'[r] \in {"updated", "error"}) => TrueOf(r)']_vars
  <2> SUFFICES ASSUME IInv, TInv, CalmInv, IInv', TInv', CalmInv', [Next]_vars,
                      NEW r \in Request, Active(r), pc'[r] \in {"updated", "error"}
               PROVE  TrueOf(r)'
    OBVIOUS
  <2>1. Staging(r) \/ Conclusion(r)
    <3>1. \A q \in Request : Begin(q) => pc'[r] = pc[r] \/ ~Active(r)
      BY DEF Begin, Goto, Active, IInv, TypeOK
    <3>2. \A q \in Request \ {r} : Step(q) => pc'[r] = pc[r]
      BY HoldingMoves
    <3>3. Pivot(r) => pc'[r] \notin {"updated", "error"}
      BY DEF Pivot, StopOld, DropLeftover, SetAside, UndoStop, Create, StartNew, Health,
         Discard, DropOld, RestoreName, RestartOld, EngineCall, Goto, IInv, TypeOK
    <3>4. pc[r] \notin {"updated", "error"} /\ ~Crash
      BY DEF Active, Ended, Crash, Fault, CalmInv, IInv, TypeOK
    <3> QED
      BY <3>1, <3>2, <3>3, <3>4 DEF Next, vars, Step, Disconnect, Publish
  <2>2. PICK t \in App : t = Target(r) /\ t = Target(r)' /\ job'[r].name = OwnName(t)
    <3>1. pc[r] \in Begun /\ job'[r].target = job[r].target /\ job'[r].name = job[r].name
      BY <2>1 DEF Staging, Conclusion, Lookup, Pull, Scan, Judge, Fail, Commit, Preload,
         Cleanup, Begun, Label, IInv, TypeOK, Target
    <3> QED
      BY <3>1, Aimed DEF Target, Calm
  <2>3. box' = box /\ RequestInv(r) /\ SettledOf(r) /\ AuditOf(r)
    BY <2>1 DEF Staging, Conclusion, Lookup, Pull, Scan, Judge, Fail, Commit, Preload, Cleanup,
       TInv, CalmInv
  <2>4. \/ pc[r] = "preload" /\ audit'[r] = audit[r] /\ audit[r] = "SUCCESS"
        \/ pc[r] = "cleanup" /\ audit'[r] = audit[r] /\ audit[r] # "SUCCESS"
        \/ pc[r] \in {"lookup", "pull"} /\ audit'[r] = audit[r] /\ audit[r] = None
    BY <2>1, <2>3 DEF Staging, Conclusion, Lookup, Pull, Scan, Judge, Fail, Commit, Preload,
       Cleanup, Goto, AuditOf, IInv, TypeOK
  <2>5. CASE pc[r] = "preload"
    <3>1. box[r].state = "running" /\ box[r].name = OwnName(t) /\ ~Exists(t)
      BY <2>2, <2>3, <2>5 DEF RequestInv, AimOf, NewOf, SettledOf, Proven, Exists, Begun, Label
    <3> QED
      BY <2>2, <2>3, <2>4, <2>5, <3>1 DEF TrueOf, Exists
  <2>6. CASE pc[r] # "preload"
    <3>1. Intact(t) /\ ~Exists(r)
      BY <2>2, <2>3, <2>4, <2>6 DEF RequestInv, OldOf, NewOf, SettledOf, Before, Unborn
    <3>2. audit'[r] # "SUCCESS"
      BY <2>4, <2>6, RolloutAssumption
    <3> QED
      BY <2>2, <2>3, <3>1, <3>2 DEF TrueOf, Intact, Exists
  <2> QED
    BY <2>5, <2>6
<1> QED
  BY <1>1, CalmAlways, PTL DEF Spec, AuditTellsTheTruth
=============================================================================
