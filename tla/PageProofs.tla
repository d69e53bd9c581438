----------------------------- MODULE PageProofs -----------------------------
(***************************************************************************)
(* What the page of a container shows, for any containers, images,         *)
(* scanners, questions in flight and scenarios; and the full types of the  *)
(* reports.                                                                *)
(***************************************************************************)
EXTENDS ReportsProofs

-----------------------------------------------------------------------------
(* The inductive invariant *)

TablesIn ==
  /\ limit \in Scenarios /\ day \in Days
  /\ disk \in [Keys -> Report] /\ mem \in [Keys -> Report] /\ told \in [Images -> Report]
  /\ missed \in [Images -> Report]
  /\ \A i \in Images : latest[i] = "none" <=> \A s \in Scanners : disk[<<i, s>>] = Absent
  /\ \A i \in Images : latest[i] # "none" => disk[<<i, latest[i]>>] # Absent

\* A report that is to be saved is a report.
SchedIn ==
  /\ sched \in [at : {"rest", "list", "scan", "save", "alert"}, all : BOOLEAN,
                todo : SUBSET (Containers \X Images), of : Images, before : Report, got : Report]
  /\ sched.at \in {"save", "alert"} => sched.got # Absent

RollIn ==
  /\ roll \in [at : {"none", "staged", "purge", "preload"}, of : Containers,
               old : Images, new : Images, got : Report]
  /\ roll.at # "none" => roll.got # Absent

Pages ==
  [at : {"closed", "open"}, on : Images, listed : Images, report : Report,
   by : Scanners \cup {""}, last : Scanners \cup {""}, failed : BOOLEAN, loading : BOOLEAN]

PageIn == page \in Pages

\* The page that is closed waits for nothing it wrote.
WriteIn ==
  /\ write \in [at : {"none", "sent", "served"}, delete : BOOLEAN, chosen : Scanners \cup {""}, mine : BOOLEAN]
  /\ write.mine => page.at = "open"

Asked == [at : {"none", "sent", "disk", "read", "scan", "scanned", "saved", "answered", "failed"},
          on : Images, by : Scanners \cup {""}, got : Report, mine : BOOLEAN]

\* An answer without an error has a report, and waits for the page that asked.
Sound(a) ==
  /\ a \in Asked
  /\ a.at \in {"read", "scanned", "saved", "answered"} => a.got # Absent
  /\ a.at \in {"answered", "failed"} => a.mine

QuestionIn ==
  /\ question \in [Questions -> Asked]
  /\ \A q \in Questions : Sound(question[q]) /\ (question[q].mine => page.at = "open")

CountersIn ==
  /\ asks \in 0 .. limit.asks /\ faults \in 0 .. limit.faults /\ writes \in 0 .. limit.writes
  /\ crossed \in BOOLEAN /\ stored \in Scanners \cup {"", "none"}

\* The page that neither waits nor shows an error has received a report.
Received == page.at = "open" /\ ~page.loading /\ ~page.failed => page.report # Absent

\* A page that never asked twice at once waits for its only question, which is by the
\* scanner last asked for; and so was the one whose report it shows.
OneAtATime ==
  ~crossed =>
    /\ \A p, q \in Questions : question[p].mine /\ question[q].mine => p = q
    /\ \A q \in Questions : question[q].mine =>
         page.loading /\ (page.last # "" => question[q].by = page.last)
    /\ page.at = "open" /\ ~page.loading /\ ~page.failed /\ page.last # "" => page.by = page.last

PageInv ==
  /\ TablesIn /\ SchedIn /\ RollIn /\ PageIn /\ WriteIn /\ QuestionIn /\ CountersIn
  /\ Received /\ OneAtATime

-----------------------------------------------------------------------------
(* The tables, the scheduler, the rollout *)

\* The scenario never changes, nor what may be a day or a report.
LEMMA LimitStays ==
  ASSUME [Next]_vars
  PROVE  limit' = limit /\ Days' = Days /\ Report' = Report /\ Asked' = Asked /\ Pages' = Pages
<1> SUFFICES limit' = limit
  BY DEF Days, Report, Asked, Pages
<1>1. CASE Scheduler \/ RescanFails \/ SaveRescanFails
  BY <1>1 DEF Scheduler, RescanFails, SaveRescanFails, StartPass, Take, Rescan, SaveRescan, Alert, EndPass, world
<1>2. CASE Deployment
  BY <1>2 DEF Deployment, Stage, Refused, Pivot, PurgeScanReportsByDigest, Preload, PreloadSkipped, world
<1>3. CASE \E q \in Questions : Serve(q) \/ ScanFails(q) \/ StoreFails(q) \/ TrivyArrives(q)
  BY <1>3 DEF Serve, Look, LookOnDisk, ScanImage, Store, Remember, ScanFails, StoreFails, TrivyArrives, world
<1>4. CASE Person \/ Poll \/ ServeOverride \/ OverrideSaved
  BY <1>4 DEF Person, Open, Leave, Scan, SubmitOverride, Poll, ServeOverride, OverrideSaved, world
<1>5. CASE NextDay \/ Restart \/ UNCHANGED vars
  BY <1>5 DEF NextDay, Restart, vars, world
<1> QED BY <1>1, <1>2, <1>3, <1>4, <1>5 DEF Next

\* A scenario is bounded.
LEMMA Bounded ==
  ASSUME TablesIn
  PROVE  /\ limit.days \in Nat /\ limit.asks \in Nat /\ limit.faults \in Nat /\ limit.writes \in Nat
         /\ Report \subseteq Level /\ Absent \in Report /\ 0 \in Report /\ day \in Report /\ day # Absent
<1>1. limit \in [days : Nat, asks : Nat, updates : Nat, faults : Nat, writes : Nat]
  BY ReportsAssumption DEF TablesIn
<1>2. limit.days \in Nat /\ limit.asks \in Nat /\ limit.faults \in Nat /\ limit.writes \in Nat
  BY <1>1
<1> QED BY <1>2 DEF TablesIn, Days, Report, Absent, Level

\* A report that is saved is the latest of its image.
LEMMA SavedIn ==
  ASSUME TablesIn, TablesOK, NEW k \in Keys, NEW r \in Report, r # Absent, SaveScanReport(k, r)
  PROVE  /\ disk' \in [Keys -> Report]
         /\ \A i \in Images : latest'[i] = "none" <=> \A s \in Scanners : disk'[<<i, s>>] = Absent
         /\ \A i \in Images : latest'[i] # "none" => disk'[<<i, latest'[i]>>] # Absent
<1>0. k[1] \in Images /\ k[2] \in Scanners /\ k = <<k[1], k[2]>>
  BY DEF Keys
<1>1. k[1] \in Images /\ k[2] \in Scanners /\ k = <<k[1], k[2]>> /\ k[2] # "none"
  BY <1>0, Outside
<1>2. disk' = [disk EXCEPT ![k] = r] /\ latest' = [latest EXCEPT ![k[1]] = k[2]]
  BY DEF SaveScanReport
<1>3. disk' \in [Keys -> Report] /\ disk'[k] = r
  BY <1>2 DEF TablesIn
<1>4. ASSUME NEW i \in Images
      PROVE  /\ latest'[i] = "none" <=> \A s \in Scanners : disk'[<<i, s>>] = Absent
             /\ latest'[i] # "none" => disk'[<<i, latest'[i]>>] # Absent
  <2>1. CASE i = k[1]
    <3>1. latest'[i] = k[2] /\ disk'[<<i, k[2]>>] = r
      BY <1>1, <1>2, <1>3, <2>1 DEF TablesOK
    <3> QED BY <1>1, <3>1
  <2>2. CASE i # k[1]
    <3>1. latest'[i] = latest[i]
      BY <1>2, <2>2 DEF TablesOK
    <3>2. \A s \in Scanners : disk'[<<i, s>>] = disk[<<i, s>>]
      <4>1. \A s \in Scanners : <<i, s>> \in Keys /\ <<i, s>> # k
        BY <1>1, <2>2 DEF Keys
      <4> QED BY <1>2, <4>1 DEF TablesIn
    <3>3. latest[i] # "none" => latest[i] \in Scanners
      BY DEF TablesOK
    <3> QED BY <3>1, <3>2, <3>3 DEF TablesIn
  <2> QED BY <2>1, <2>2
<1> QED BY <1>3, <1>4

\* A purged image has no report and no latest one.
LEMMA PurgedIn ==
  ASSUME TablesIn, TablesOK, RollIn, PurgeScanReportsByDigest
  PROVE  /\ disk' \in [Keys -> Report]
         /\ \A i \in Images : latest'[i] = "none" <=> \A s \in Scanners : disk'[<<i, s>>] = Absent
         /\ \A i \in Images : latest'[i] # "none" => disk'[<<i, latest'[i]>>] # Absent
<1>0. roll.old \in Images /\ Absent \in Report
  BY Bounded DEF RollIn
<1>1. /\ disk' = [k \in Keys |-> IF k \in {j \in Keys : j[1] = roll.old} THEN Absent ELSE disk[k]]
      /\ latest' = [latest EXCEPT ![roll.old] = "none"]
  BY DEF PurgeScanReportsByDigest
<1>2. disk' \in [Keys -> Report]
  BY <1>0, <1>1 DEF TablesIn
<1>3. \A i \in Images, s \in Scanners :
        <<i, s>> \in Keys /\ disk'[<<i, s>>] = IF i = roll.old THEN Absent ELSE disk[<<i, s>>]
  BY <1>1 DEF Keys
<1>4. \A i \in Images : latest'[i] = IF i = roll.old THEN "none" ELSE latest[i]
  BY <1>1 DEF TablesOK
<1>5. \A i \in Images : latest[i] # "none" => latest[i] \in Scanners
  BY DEF TablesOK
<1> QED BY <1>2, <1>3, <1>4, <1>5 DEF TablesIn

\* The table knows of an image what it knows of its latest report.
LEMMA TablesKept ==
  ASSUME PageInv, Typed, [Next]_vars
  PROVE  TablesIn'
<1> DEFINE Said == told' \in [Images -> Report] /\ missed' \in [Images -> Report]
           Facts ==
      /\ disk' \in [Keys -> Report]
      /\ \A i \in Images : latest'[i] = "none" <=> \A s \in Scanners : disk'[<<i, s>>] = Absent
      /\ \A i \in Images : latest'[i] # "none" => disk'[<<i, latest'[i]>>] # Absent
<1>1. /\ TablesIn /\ SchedIn /\ RollIn /\ QuestionIn /\ TablesOK /\ QuestionOK
      /\ limit' = limit /\ Days' = Days /\ Report' = Report
      /\ day \in Days /\ Absent \in Report /\ Report \subseteq Level
  BY LimitStays, Bounded DEF PageInv, Typed, TablesIn
<1>2. ASSUME Facts, day' \in Days, mem' \in [Keys -> Report], Said PROVE TablesIn'
  BY <1>1, <1>2 DEF TablesIn
<1>3. ASSUME NEW i \in Images, NEW r \in Report, Tell(i, r) \/ Miss(i, r) PROVE Said
  <2>1. \A m \in Report : Larger(m, r) \in Report
    BY DEF Larger
  <2> QED BY <1>1, <1>3, <2>1 DEF Tell, Miss, TablesIn
<1>4. UNCHANGED <<disk, latest>> => Facts
  BY <1>1 DEF TablesIn
<1>5. UNCHANGED history => Said
  BY <1>1 DEF TablesIn, history
<1>6. mem' = mem => mem' \in [Keys -> Report]
  BY <1>1 DEF TablesIn
<1>7. ASSUME NEW k \in Keys, NEW r \in Report, r # Absent, SaveScanReport(k, r) PROVE Facts
  BY <1>1, <1>7, SavedIn
<1> HIDE DEF Facts, Said
<1>8. CASE UNCHANGED <<day, disk, latest, mem, history>>
  BY <1>1, <1>2, <1>4, <1>5, <1>6, <1>8
<1>9. CASE SaveRescan
  <2>1. <<sched.of, Global>> \in Keys /\ sched.of \in Images /\ sched.got \in Report /\ sched.got # Absent
    BY <1>1, <1>9, ReportsAssumption DEF SchedIn, Keys, SaveRescan
  <2>2. Facts
    BY <1>7, <1>9, <2>1 DEF SaveRescan
  <2>3. Said
    BY <1>3, <1>5, <1>9, <2>1 DEF SaveRescan
  <2> QED BY <1>1, <1>2, <1>6, <1>9, <2>2, <2>3 DEF SaveRescan, world
<1>10. CASE Alert
  <2>1. Said
    BY <1>1, <1>3, <1>5, <1>10 DEF Alert, SchedIn
  <2> QED BY <1>1, <1>2, <1>4, <1>6, <1>10, <2>1 DEF Alert, world, cache
<1>11. CASE Pivot
  <2>1. Said
    BY <1>1, <1>3, <1>11 DEF Pivot, RollIn
  <2> QED BY <1>1, <1>2, <1>4, <1>6, <1>11, <2>1 DEF Pivot, cache
<1>12. CASE PurgeScanReportsByDigest
  <2>1. Facts
    BY <1>1, <1>12, PurgedIn DEF Facts
  <2> QED BY <1>1, <1>2, <1>5, <1>6, <1>12, <2>1 DEF PurgeScanReportsByDigest, world
<1>13. CASE Preload
  <2>1. <<roll.new, Staging>> \in Keys /\ roll.got \in Report /\ roll.got # Absent
    BY <1>1, <1>13, ReportsAssumption DEF RollIn, Keys, Preload
  <2>2. Facts
    BY <1>7, <1>13, <2>1 DEF Preload
  <2> QED BY <1>1, <1>2, <1>5, <1>6, <1>13, <2>2 DEF Preload, world
<1>14. ASSUME NEW q \in Questions, Store(q) PROVE TablesIn'
  <2>1. /\ <<question[q].on, question[q].by>> \in Keys /\ question[q].on \in Images
        /\ question[q].got \in Report /\ question[q].got # Absent
    BY <1>1, <1>14 DEF Store, QuestionOK, InHand, Keys, QuestionIn, Sound, Asked
  <2>2. Facts
    BY <1>7, <1>14, <2>1 DEF Store
  <2>3. Said
    BY <1>3, <1>14, <2>1 DEF Store
  <2> QED BY <1>1, <1>2, <1>6, <1>14, <2>2, <2>3 DEF Store, world
<1>15. ASSUME NEW q \in Questions, Remember(q) PROVE TablesIn'
  <2>1. question[q].got \in Report
    BY <1>1 DEF QuestionIn, Asked
  <2>2. mem' \in [Keys -> Report]
    BY <1>1, <1>15, <2>1 DEF Remember, TablesIn
  <2> QED BY <1>1, <1>2, <1>4, <1>5, <1>15, <2>2 DEF Remember, world
<1>16. CASE NextDay
  <2>1. day' \in Days
    BY <1>1, <1>16, Bounded DEF NextDay, Days
  <2> QED BY <1>1, <1>2, <1>4, <1>5, <1>6, <1>16, <2>1 DEF NextDay, cache
<1>17. CASE Restart
  <2>1. mem' \in [Keys -> Report]
    BY <1>1, <1>17 DEF Restart
  <2>2. Said
    BY <1>1, <1>3, <1>5, <1>17 DEF Restart, SchedIn
  <2> QED BY <1>1, <1>2, <1>4, <1>17, <2>1, <2>2 DEF Restart, world
<1>18. CASE Scheduler \/ RescanFails \/ SaveRescanFails
  BY <1>8, <1>9, <1>10, <1>18
     DEF Scheduler, RescanFails, SaveRescanFails, StartPass, Take, Rescan, EndPass, world, cache
<1>19. CASE Deployment
  BY <1>8, <1>11, <1>12, <1>13, <1>19
     DEF Deployment, Stage, Refused, PreloadSkipped, world, cache
<1>20. CASE \E q \in Questions : Serve(q) \/ ScanFails(q) \/ StoreFails(q) \/ TrivyArrives(q)
  BY <1>8, <1>14, <1>15, <1>20
     DEF Serve, Look, LookOnDisk, ScanImage, ScanFails, StoreFails, TrivyArrives, world, cache
<1>21. CASE Person \/ Poll \/ ServeOverride \/ OverrideSaved
  BY <1>8, <1>21
     DEF Person, Open, Leave, Scan, SubmitOverride, Poll, ServeOverride, OverrideSaved, world, cache
<1>22. CASE UNCHANGED vars
  BY <1>8, <1>22 DEF vars, world, cache
<1> QED BY <1>16, <1>17, <1>18, <1>19, <1>20, <1>21, <1>22 DEF Next

\* What the scheduler is about to save is a report.
LEMMA SchedKept ==
  ASSUME PageInv, Typed, [Next]_vars
  PROVE  SchedIn'
<1> DEFINE Scheds == [at : {"rest", "list", "scan", "save", "alert"}, all : BOOLEAN,
                      todo : SUBSET (Containers \X Images), of : Images, before : Report, got : Report]
<1>1. /\ TablesIn /\ SchedIn /\ TablesOK /\ sched \in Scheds /\ Report' = Report
      /\ Absent \in Report /\ day \in Report /\ day # Absent
  BY LimitStays, Bounded DEF PageInv, Typed, SchedIn
<1>2. ASSUME sched' \in Scheds, sched'.at \in {"save", "alert"} => sched'.got # Absent PROVE SchedIn'
  BY <1>1, <1>2 DEF SchedIn
<1>3. CASE UNCHANGED sched
  BY <1>1, <1>3 DEF SchedIn
<1>4. CASE sched' = Resting
  <2>1. Resting \in Scheds /\ Resting.at = "rest"
    BY <1>1, ReportsAssumption DEF Resting
  <2> QED BY <1>2, <1>4, <2>1
<1>5. ASSUME NEW all \in BOOLEAN, StartPass(all) PROVE SchedIn'
  <2>1. sched' = [sched EXCEPT !.at = "list", !.all = all, !.todo = {<<c, image[c]>> : c \in Containers}]
    BY <1>5 DEF StartPass
  <2>2. {<<c, image[c]>> : c \in Containers} \in SUBSET (Containers \X Images)
    BY <1>1 DEF TablesOK
  <2>3. sched' \in Scheds /\ sched'.at = "list"
    <3> DEFINE todo == {<<c, image[c]>> : c \in Containers}
    <3>1. sched' = [sched EXCEPT !.at = "list", !.all = all, !.todo = todo] /\ todo \in SUBSET (Containers \X Images)
      BY <2>1, <2>2
    <3> HIDE DEF todo
    <3> QED BY <1>1, <3>1
  <2> QED BY <1>2, <2>3
<1>6. ASSUME NEW x \in sched.todo, Take(x) PROVE SchedIn'
  <2>1. x[2] \in Images
    BY <1>1
  <2>2. Before(x[2]) \in Report
    BY <1>1, <2>1 DEF Before, TablesOK, TablesIn, Keys
  <2>3. CASE sched' = [sched EXCEPT !.todo = @ \ {x}] /\ sched.at = "list"
    <3>1. sched' \in Scheds /\ sched'.at = "list"
      BY <1>1, <2>3
    <3> QED BY <1>2, <3>1
  <2>4. CASE sched' = [sched EXCEPT !.at = "scan", !.todo = @ \ {x}, !.of = x[2],
                                   !.before = IF sched.all THEN Before(x[2]) ELSE Absent]
    <3>1. sched' \in Scheds /\ sched'.at = "scan"
      BY <1>1, <2>1, <2>2, <2>4
    <3> QED BY <1>2, <3>1
  <2> QED BY <1>6, <2>3, <2>4 DEF Take
<1>7. CASE Rescan
  <2>1. sched' = [sched EXCEPT !.at = "save", !.got = day]
    BY <1>7 DEF Rescan
  <2>2. sched' \in Scheds /\ sched'.got = day
    BY <1>1, <2>1
  <2> QED BY <1>1, <1>2, <2>2
<1>8. CASE RescanFails \/ SaveRescan \/ SaveRescanFails \/ Alert
  <2>1. \/ sched' = [sched EXCEPT !.at = "list"]
        \/ sched' = [sched EXCEPT !.at = "alert"] /\ sched.at = "save"
    BY <1>8 DEF RescanFails, SaveRescan, SaveRescanFails, Compares, Alert
  <2>2. sched' \in Scheds /\ sched'.got = sched.got /\ (sched'.at = "list" \/ sched.at = "save")
    BY <1>1, <2>1
  <2> QED BY <1>1, <1>2, <2>2 DEF SchedIn
<1>9. CASE Scheduler \/ RescanFails \/ SaveRescanFails
  BY <1>4, <1>5, <1>6, <1>7, <1>8, <1>9 DEF Scheduler, EndPass
<1>10. CASE Deployment
  BY <1>3, <1>10 DEF Deployment, Stage, Refused, Pivot, PurgeScanReportsByDigest, Preload, PreloadSkipped
<1>11. CASE \E q \in Questions : Serve(q) \/ ScanFails(q) \/ StoreFails(q) \/ TrivyArrives(q)
  BY <1>3, <1>11 DEF Serve, Look, LookOnDisk, ScanImage, Store, Remember, ScanFails, StoreFails, TrivyArrives
<1>12. CASE Person \/ Poll \/ ServeOverride \/ OverrideSaved \/ NextDay
  BY <1>3, <1>12 DEF Person, Open, Leave, Scan, SubmitOverride, Poll, ServeOverride, OverrideSaved, NextDay
<1>13. CASE Restart
  BY <1>4, <1>13 DEF Restart
<1>14. CASE UNCHANGED vars
  BY <1>3, <1>14 DEF vars
<1> QED BY <1>9, <1>10, <1>11, <1>12, <1>13, <1>14 DEF Next

\* What the rollout is about to save is a report.
LEMMA RollKept ==
  ASSUME PageInv, Typed, [Next]_vars
  PROVE  RollIn'
<1> DEFINE Rolls == [at : {"none", "staged", "purge", "preload"}, of : Containers,
                     old : Images, new : Images, got : Report]
<1>1. /\ RollIn /\ TablesOK /\ roll \in Rolls /\ Report' = Report
      /\ Absent \in Report /\ day \in Report /\ day # Absent
  BY LimitStays, Bounded DEF PageInv, Typed, RollIn
<1>2. ASSUME roll' \in Rolls, roll'.at # "none" => roll'.got # Absent PROVE RollIn'
  BY <1>1, <1>2 DEF RollIn
<1>3. CASE UNCHANGED roll
  BY <1>1, <1>3 DEF RollIn
<1>4. CASE roll' = NoRollout
  <2>1. NoRollout \in Rolls /\ NoRollout.at = "none"
    BY <1>1, ReportsAssumption DEF NoRollout
  <2> QED BY <1>2, <1>4, <2>1
<1>5. ASSUME NEW c \in Containers, NEW i \in Images, Stage(c, i) PROVE RollIn'
  <2>1. roll' = [at |-> "staged", of |-> c, old |-> image[c], new |-> i, got |-> day]
    BY <1>5 DEF Stage
  <2>2. roll' \in Rolls /\ roll'.got = day
    BY <1>1, <2>1 DEF TablesOK
  <2> QED BY <1>1, <1>2, <2>2
<1>6. CASE Pivot \/ PurgeScanReportsByDigest
  <2>1. /\ roll' = [roll EXCEPT !.at = "purge"] \/ roll' = [roll EXCEPT !.at = "preload"]
        /\ roll.at # "none"
    BY <1>6 DEF Pivot, PurgeScanReportsByDigest
  <2>2. roll' \in Rolls /\ roll'.got = roll.got
    BY <1>1, <2>1
  <2> QED BY <1>1, <1>2, <2>1, <2>2 DEF RollIn
<1>7. CASE Deployment
  BY <1>4, <1>5, <1>6, <1>7 DEF Deployment, Refused, Preload, PreloadSkipped
<1>8. CASE Scheduler \/ RescanFails \/ SaveRescanFails
  BY <1>3, <1>8 DEF Scheduler, RescanFails, SaveRescanFails, StartPass, Take, Rescan, SaveRescan, Alert, EndPass
<1>9. CASE \E q \in Questions : Serve(q) \/ ScanFails(q) \/ StoreFails(q) \/ TrivyArrives(q)
  BY <1>3, <1>9 DEF Serve, Look, LookOnDisk, ScanImage, Store, Remember, ScanFails, StoreFails, TrivyArrives
<1>10. CASE Person \/ Poll \/ ServeOverride \/ OverrideSaved \/ NextDay
  BY <1>3, <1>10 DEF Person, Open, Leave, Scan, SubmitOverride, Poll, ServeOverride, OverrideSaved, NextDay
<1>11. CASE Restart
  BY <1>4, <1>11 DEF Restart
<1>12. CASE UNCHANGED vars
  BY <1>3, <1>12 DEF vars
<1> QED BY <1>7, <1>8, <1>9, <1>10, <1>11, <1>12 DEF Next

-----------------------------------------------------------------------------
(* The page and its questions *)

\* A free place holds no question.
LEMMA FreePlace ==
  ASSUME TablesIn
  PROVE  Sound(NoQuestion) /\ ~NoQuestion.mine /\ NoQuestion.at = "none"
BY Bounded, ReportsAssumption DEF Sound, Asked, NoQuestion

\* The server works on one question, and forgets it or keeps whose it is and, once it
\* is known, by which scanner.
LEMMA ServedKept ==
  ASSUME PageInv, limit' = limit, UNCHANGED <<page, crossed>>,
         NEW q \in Questions, NEW x, Sound(x), question' = [question EXCEPT ![q] = x],
         x.mine => question[q].mine /\ (x.by = question[q].by \/ question[q].by = "")
  PROVE  QuestionIn' /\ OneAtATime'
<1>1. /\ question \in [Questions -> Asked] /\ QuestionIn /\ OneAtATime
      /\ Report' = Report /\ Asked' = Asked
  BY DEF PageInv, QuestionIn, Report, Days, Asked
<1>2. \A p \in Questions : question'[p] = IF p = q THEN x ELSE question[p]
  BY <1>1
<1>3. QuestionIn'
  <2>1. question' \in [Questions -> Asked']
    BY <1>1 DEF Sound
  <2>2. ASSUME NEW p \in Questions PROVE Sound(question[p])' /\ (question'[p].mine => page'.at = "open")
    <3>1. Sound(question'[p])
      BY <1>1, <1>2 DEF QuestionIn
    <3>2. Sound(question[p])'
      BY <1>1, <3>1 DEF Sound
    <3>3. question'[p].mine => page.at = "open"
      BY <1>1, <1>2 DEF QuestionIn
    <3> QED BY <3>2, <3>3
  <2> QED BY <2>1, <2>2 DEF QuestionIn
<1>4. \A p \in Questions : question'[p].mine =>
        question[p].mine /\ (question'[p].by = question[p].by \/ question[p].by = "")
  BY <1>2
<1>5. OneAtATime'
  BY <1>1, <1>4 DEF OneAtATime
<1> QED BY <1>3, <1>5

\* Every step of getTrivyReport is such a step.
LEMMA ServesKept ==
  ASSUME PageInv, Typed, NEW q \in Questions, Serve(q) \/ ScanFails(q) \/ StoreFails(q), [Next]_vars
  PROVE  /\ QuestionIn' /\ OneAtATime' /\ UNCHANGED <<page, write>>
<1> DEFINE a == question[q]
<1>1. /\ a \in Asked /\ Sound(a) /\ TablesIn /\ TablesOK /\ QuestionOK /\ limit' = limit
      /\ Absent \in Report /\ day \in Report /\ day # Absent
      /\ DOMAIN question = Questions
  BY LimitStays, Bounded DEF PageInv, QuestionIn, Typed
<1>2. UNCHANGED <<page, write, crossed>>
  BY DEF Serve, Look, LookOnDisk, ScanImage, Store, Remember, ScanFails, StoreFails
<1> SUFFICES QuestionIn' /\ OneAtATime'
  BY <1>2
<1>3. ASSUME NEW x, Sound(x), question' = [question EXCEPT ![q] = x],
             x.mine => a.mine /\ (x.by = a.by \/ a.by = "")
      PROVE  QuestionIn' /\ OneAtATime'
  BY <1>1, <1>2, <1>3, ServedKept
<1>4. ASSUME NEW at \in {"failed", "answered"}, Replies(q, at), at = "answered" => ~a.mine \/ a.got # Absent
      PROVE  QuestionIn' /\ OneAtATime'
  <2>1. CASE a.mine
    <3> DEFINE x == [a EXCEPT !.at = at]
    <3>1. question' = [question EXCEPT ![q] = x]
      BY <1>4, <2>1 DEF Replies, Moves
    <3>2. Sound(x) /\ x.by = a.by
      BY <1>1, <1>4, <2>1 DEF Sound, Asked
    <3> HIDE DEF x
    <3> QED BY <1>3, <2>1, <3>1, <3>2
  <2>2. CASE ~a.mine
    <3>1. question' = [question EXCEPT ![q] = NoQuestion]
      BY <1>4, <2>2 DEF Replies
    <3> QED BY <1>1, <1>3, <3>1, FreePlace
  <2> QED BY <2>1, <2>2
<1>5. CASE Look(q)
  <2> DEFINE s == Scanner(a.by)
             r == mem[<<a.on, s>>]
             x == [a EXCEPT !.by = s, !.got = r, !.at = IF r = Absent THEN "disk" ELSE "answered"]
  <2>1. s \in Scanners /\ (s = a.by \/ a.by = "")
    BY <1>1, ReportsAssumption DEF Scanner, Asked
  <2>2. r \in Report
    BY <1>1, <2>1 DEF TablesIn, Keys, Asked
  <2>3. CASE question' = [question EXCEPT ![q] = x] /\ (r = Absent \/ a.mine)
    <3>1. x.mine = a.mine /\ x.by = s /\ x \in Asked /\ x.got = r /\ x.at = IF r = Absent THEN "disk" ELSE "answered"
      <4> HIDE DEF s, r
      <4> QED BY <1>1, <2>1, <2>2 DEF Asked
    <3>2. Sound(x)
      BY <2>3, <3>1 DEF Sound
    <3> HIDE DEF x
    <3> QED BY <1>3, <2>1, <2>3, <3>1, <3>2
  <2>4. CASE Replies(q, "failed")
    BY <1>4, <2>4
  <2>5. CASE Replies(q, "answered") /\ ~a.mine
    BY <1>4, <2>5
  <2>6. \/ Replies(q, "failed")
        \/ Replies(q, "answered") /\ ~a.mine
        \/ /\ question' = [question EXCEPT ![q].by = s, ![q].got = r,
                                           ![q].at = IF r = Absent THEN "disk" ELSE "answered"]
           /\ r = Absent \/ a.mine
    BY <1>5 DEF Look
  <2>7. [question EXCEPT ![q].by = s, ![q].got = r, ![q].at = IF r = Absent THEN "disk" ELSE "answered"]
          = [question EXCEPT ![q] = x]
    <3> HIDE DEF s, r
    <3> QED BY <1>1
  <2> HIDE DEF s, r, x
  <2> QED BY <2>3, <2>4, <2>5, <2>6, <2>7
<1>6. CASE LookOnDisk(q)
  <2> DEFINE r == disk[<<a.on, a.by>>]
             x == [a EXCEPT !.at = IF r = Absent THEN "scan" ELSE "read", !.got = r]
  <2>1. r \in Report /\ a.at = "disk"
    BY <1>1, <1>6 DEF LookOnDisk, TablesIn, Keys, QuestionOK, InHand
  <2>2. question' = [question EXCEPT ![q] = x]
    <3>1. question' = [question EXCEPT ![q].at = IF r = Absent THEN "scan" ELSE "read", ![q].got = r]
      BY <1>6 DEF LookOnDisk
    <3> HIDE DEF r
    <3> QED BY <1>1, <3>1
  <2>3. Sound(x) /\ x.mine = a.mine /\ x.by = a.by
    <3> HIDE DEF r
    <3> QED BY <1>1, <2>1 DEF Sound, Asked
  <2> HIDE DEF x
  <2> QED BY <1>3, <2>2, <2>3
<1>7. CASE ScanImage(q)
  <2> DEFINE x == [a EXCEPT !.at = "scanned", !.got = day]
  <2>1. question' = [question EXCEPT ![q] = x]
    BY <1>1, <1>7 DEF ScanImage
  <2>2. Sound(x) /\ x.mine = a.mine /\ x.by = a.by
    BY <1>1 DEF Sound, Asked
  <2> HIDE DEF x
  <2> QED BY <1>3, <2>1, <2>2
<1>8. CASE Store(q) \/ StoreFails(q)
  <2> DEFINE x == [a EXCEPT !.at = "saved"]
  <2>1. question' = [question EXCEPT ![q] = x] /\ a.at = "scanned"
    BY <1>1, <1>8 DEF Store, StoreFails, Moves
  <2>2. Sound(x) /\ x.mine = a.mine /\ x.by = a.by
    BY <1>1, <2>1 DEF Sound, Asked
  <2> HIDE DEF x
  <2> QED BY <1>3, <2>1, <2>2
<1>9. CASE Remember(q)
  <2>1. a.got # Absent /\ Replies(q, "answered")
    BY <1>1, <1>9 DEF Remember, Sound
  <2> QED BY <1>4, <2>1
<1>10. CASE ScanFails(q)
  BY <1>4, <1>10 DEF ScanFails
<1> QED BY <1>5, <1>6, <1>7, <1>8, <1>9, <1>10 DEF Serve

\* An answer ends the waiting of the page, with its report or with an error.
LEMMA ArrivesKept ==
  ASSUME PageInv, [Next]_vars, NEW q \in Questions, TrivyArrives(q)
  PROVE  PageIn' /\ QuestionIn' /\ Received' /\ OneAtATime' /\ write' = write /\ page'.at = page.at
<1> DEFINE a == question[q]
<1>1. /\ a \in Asked /\ Sound(a) /\ TablesIn /\ QuestionIn /\ OneAtATime /\ Received /\ page \in Pages
      /\ question \in [Questions -> Asked] /\ limit' = limit /\ Asked' = Asked /\ Report' = Report /\ Pages' = Pages
  BY LimitStays DEF PageInv, QuestionIn, PageIn
<1>2. /\ a.at \in {"answered", "failed"} /\ question' = [question EXCEPT ![q] = NoQuestion]
      /\ page' = (IF a.at = "failed" THEN [page EXCEPT !.loading = FALSE, !.failed = TRUE]
                  ELSE [page EXCEPT !.loading = FALSE, !.report = a.got, !.by = a.by])
      /\ write' = write /\ crossed' = crossed
  BY DEF TrivyArrives, Arrived
<1>3. /\ page' \in Pages /\ page'.at = page.at /\ ~page'.loading /\ page'.last = page.last
      /\ a.at = "failed" => page'.failed
      /\ a.at = "answered" => page'.report = a.got /\ page'.by = a.by
  BY <1>1, <1>2 DEF Pages, Asked
<1>4. a.mine /\ (a.at = "answered" => a.got # Absent)
  BY <1>1, <1>2 DEF Sound
<1>5. /\ \A p \in Questions : question'[p] = IF p = q THEN NoQuestion ELSE question[p]
      /\ Sound(NoQuestion) /\ ~NoQuestion.mine
  BY <1>1, <1>2, FreePlace
<1>6. QuestionIn'
  <2>1. question' \in [Questions -> Asked]
    BY <1>1, <1>2, <1>5 DEF Sound
  <2>2. ASSUME NEW p \in Questions PROVE Sound(question[p])' /\ (question'[p].mine => page'.at = "open")
    <3>1. Sound(question'[p])
      BY <1>1, <1>5 DEF QuestionIn
    <3>2. Sound(question[p])'
      BY <1>1, <3>1 DEF Sound
    <3>3. question'[p].mine => page'.at = "open"
      BY <1>1, <1>3, <1>5 DEF QuestionIn
    <3> QED BY <3>2, <3>3
  <2> QED BY <1>1, <2>1, <2>2 DEF QuestionIn
<1>7. Received'
  BY <1>2, <1>3, <1>4 DEF Received
<1>8. OneAtATime'
  BY <1>1, <1>2, <1>3, <1>4, <1>5 DEF OneAtATime
<1> QED BY <1>1, <1>2, <1>3, <1>6, <1>7, <1>8 DEF PageIn

\* A counter below its bound may count.
LEMMA OneUp == \A n \in Nat : \A a \in 0 .. n : a < n => a + 1 \in 0 .. n
OBVIOUS

\* A page that asks waits, and has one question more.
LEMMA AskKept ==
  ASSUME PageInv, limit' = limit, NEW asked \in Scanners \cup {""}, NEW p \in Pages, p.at = "open", Ask(asked, p)
  PROVE  /\ PageIn' /\ QuestionIn' /\ Received' /\ OneAtATime' /\ page'.at = "open"
         /\ asks' \in 0 .. limit.asks /\ crossed' \in BOOLEAN
<1>1. /\ TablesIn /\ QuestionIn /\ OneAtATime /\ Received /\ CountersIn /\ page \in Pages /\ Absent \in Report
      /\ question \in [Questions -> Asked] /\ Asked' = Asked /\ Report' = Report /\ Pages' = Pages
  BY Bounded DEF PageInv, QuestionIn, PageIn, Report, Days, Asked, Pages
<1> DEFINE free == {q \in Questions : question[q] = NoQuestion}
           q == CHOOSE q \in free : TRUE
           x == [at |-> "sent", on |-> p.on, by |-> asked, got |-> Absent, mine |-> TRUE]
<1>2. q \in Questions /\ question' = [question EXCEPT ![q] = x]
  <2>1. free # {} /\ question' = [question EXCEPT ![q] = x]
    BY DEF Ask
  <2>2. q \in free
    BY <2>1
  <2> HIDE DEF q
  <2> QED BY <2>1, <2>2
<1> HIDE DEF q
<1>3. /\ page' = [p EXCEPT !.loading = TRUE, !.failed = FALSE, !.last = asked]
      /\ crossed' = (crossed \/ \E other \in Questions : question[other].mine)
      /\ asks < limit.asks /\ asks' = asks + 1
  BY DEF Ask
<1>4. page' \in Pages /\ page'.at = "open" /\ page'.loading /\ page'.last = asked
  BY <1>3 DEF Pages
<1>5. Sound(x) /\ x.mine /\ x.by = asked
  BY <1>1 DEF Sound, Asked, Pages
<1> HIDE DEF x
<1>6. \A r \in Questions : question'[r] = IF r = q THEN x ELSE question[r]
  BY <1>1, <1>2
<1>7. QuestionIn'
  <2>1. question' \in [Questions -> Asked]
    BY <1>1, <1>2, <1>5 DEF Sound
  <2>2. ASSUME NEW r \in Questions PROVE Sound(question[r])' /\ (question'[r].mine => page'.at = "open")
    <3>1. Sound(question'[r])
      BY <1>1, <1>5, <1>6 DEF QuestionIn
    <3>2. Sound(question[r])'
      BY <1>1, <3>1 DEF Sound
    <3> QED BY <1>4, <3>2
  <2> QED BY <1>1, <2>1, <2>2 DEF QuestionIn
<1>8. OneAtATime'
  <2>1. ~crossed' => \A r \in Questions : question'[r].mine => r = q
    BY <1>3, <1>6
  <2>2. question'[q].by = asked
    BY <1>2, <1>5, <1>6
  <2> QED BY <1>4, <2>1, <2>2 DEF OneAtATime
<1>9. asks' \in 0 .. limit.asks
  <2>1. asks \in 0 .. limit.asks /\ limit.asks \in Nat
    BY <1>1, Bounded DEF CountersIn
  <2>2. asks < limit.asks /\ asks' = asks + 1
    BY <1>3
  <2> QED BY <2>1, <2>2, OneUp
<1>10. crossed' \in BOOLEAN
  BY <1>1, <1>3 DEF CountersIn
<1> QED BY <1>1, <1>4, <1>7, <1>8, <1>9, <1>10 DEF PageIn, Received

\* Nothing of the page moves, or nobody waits for its questions any more.
LEMMA CalmScreen ==
  ASSUME PageInv, limit' = limit, UNCHANGED <<page, question, crossed>>
  PROVE  PageIn' /\ QuestionIn' /\ Received' /\ OneAtATime'
BY DEF PageInv, PageIn, QuestionIn, Received, OneAtATime, Sound, Asked, Pages, Report, Days

\* Closing the tab forgets what was asked: the answers that arrive are nobody's.
LEMMA LeaveKept ==
  ASSUME PageInv, [Next]_vars, Leave
  PROVE  PageIn' /\ QuestionIn' /\ Received' /\ OneAtATime' /\ WriteIn'
<1>1. /\ TablesIn /\ QuestionIn /\ WriteIn /\ question \in [Questions -> Asked] /\ Absent \in Report
      /\ limit' = limit /\ Asked' = Asked /\ Report' = Report /\ Pages' = Pages
  BY LimitStays, Bounded DEF PageInv, QuestionIn
<1>2. /\ page' = Closed /\ write' = [write EXCEPT !.mine = FALSE] /\ crossed' = FALSE
      /\ question' = [q \in Questions |->
                        IF question[q].at \in {"answered", "failed"} THEN NoQuestion
                        ELSE [question[q] EXCEPT !.mine = FALSE]]
  BY DEF Leave
<1>3. Closed \in Pages /\ Closed.at = "closed"
  BY <1>1, ReportsAssumption DEF Closed, Pages
<1>4. PageIn' /\ Received'
  BY <1>1, <1>2, <1>3 DEF PageIn, Received
<1>5. ASSUME NEW q \in Questions PROVE question'[q] \in Asked /\ Sound(question'[q]) /\ ~question'[q].mine
  <2>1. CASE question[q].at \in {"answered", "failed"}
    <3>1. question'[q] = NoQuestion
      BY <1>2, <2>1
    <3> QED BY <1>1, <3>1, FreePlace DEF Sound
  <2>2. CASE question[q].at \notin {"answered", "failed"}
    <3>1. question'[q] = [question[q] EXCEPT !.mine = FALSE] /\ question[q] \in Asked /\ Sound(question[q])
      BY <1>1, <1>2, <2>2 DEF QuestionIn
    <3> DEFINE x == [question[q] EXCEPT !.mine = FALSE]
    <3>2. x \in Asked /\ x.at = question[q].at /\ x.got = question[q].got /\ x.mine = FALSE
      BY <3>1 DEF Asked
    <3>3. question'[q] = x
      BY <3>1
    <3> HIDE DEF x
    <3> QED BY <2>2, <3>1, <3>2, <3>3 DEF Sound
  <2> QED BY <2>1, <2>2
<1>6. QuestionIn'
  <2>1. question' \in [Questions -> Asked]
    <3>1. question' = [q \in Questions |-> question'[q]]
      BY <1>2
    <3> QED BY <1>5, <3>1
  <2>2. \A q \in Questions : Sound(question[q])' /\ ~question'[q].mine
    BY <1>1, <1>5 DEF Sound
  <2> QED BY <1>1, <2>1, <2>2 DEF QuestionIn
<1>7. OneAtATime'
  BY <1>2, <1>3, <1>5 DEF OneAtATime
<1>8. WriteIn'
  <2>1. write' \in [at : {"none", "sent", "served"}, delete : BOOLEAN, chosen : Scanners \cup {""}, mine : BOOLEAN]
        /\ ~write'.mine
    BY <1>1, <1>2 DEF WriteIn
  <2> QED BY <2>1 DEF WriteIn
<1> QED BY <1>4, <1>6, <1>7, <1>8

\* The questions that the process was working on fail with it.
LEMMA RestartKept ==
  ASSUME PageInv, [Next]_vars, Restart
  PROVE  PageIn' /\ QuestionIn' /\ Received' /\ OneAtATime'
<1>1. /\ TablesIn /\ QuestionIn /\ OneAtATime /\ question \in [Questions -> Asked] /\ page \in Pages /\ Received
      /\ limit' = limit /\ Asked' = Asked /\ Report' = Report /\ Pages' = Pages
  BY LimitStays DEF PageInv, QuestionIn, PageIn
<1>2. /\ page' = page /\ crossed' = crossed
      /\ question' = [q \in Questions |->
                        IF question[q].at = "answered" THEN question[q]
                        ELSE IF ~question[q].mine THEN NoQuestion
                        ELSE [question[q] EXCEPT !.at = "failed"]]
  BY DEF Restart
<1>3. ASSUME NEW q \in Questions
      PROVE  /\ question'[q] \in Asked /\ Sound(question'[q])
             /\ question'[q].mine => question[q].mine /\ question'[q].by = question[q].by
  <2>1. question[q] \in Asked /\ Sound(question[q])
    BY <1>1 DEF QuestionIn
  <2>2. CASE question[q].at = "answered"
    BY <1>2, <2>1, <2>2
  <2>3. CASE question[q].at # "answered" /\ ~question[q].mine
    BY <1>1, <1>2, <2>3, FreePlace DEF Sound
  <2>4. CASE question[q].at # "answered" /\ question[q].mine
    <3> DEFINE x == [question[q] EXCEPT !.at = "failed"]
    <3>1. x \in Asked /\ x.at = "failed" /\ x.mine = question[q].mine /\ x.by = question[q].by
      BY <2>1 DEF Asked
    <3>2. question'[q] = x
      BY <1>2, <2>4
    <3> HIDE DEF x
    <3> QED BY <2>4, <3>1, <3>2 DEF Sound
  <2> QED BY <2>2, <2>3, <2>4
<1>4. QuestionIn'
  <2>1. question' \in [Questions -> Asked]
    <3>1. question' = [q \in Questions |-> question'[q]]
      BY <1>2
    <3> QED BY <1>3, <3>1
  <2>2. \A q \in Questions : Sound(question[q])' /\ (question'[q].mine => page'.at = "open")
    BY <1>1, <1>2, <1>3 DEF Sound, QuestionIn
  <2> QED BY <1>1, <2>1, <2>2 DEF QuestionIn
<1>5. OneAtATime'
  BY <1>1, <1>2, <1>3 DEF OneAtATime
<1> QED BY <1>1, <1>2, <1>4, <1>5 DEF PageIn, Received

\* The list is read again: the page itself stays.
LEMMA RefreshedPage ==
  ASSUME PageInv, Typed
  PROVE  /\ Refreshed(page) \in Pages /\ Refreshed(page).at = page.at
         /\ Refreshed(page).loading = page.loading /\ Refreshed(page).failed = page.failed
         /\ Refreshed(page).report = page.report /\ Refreshed(page).by = page.by
         /\ Refreshed(page).last = page.last
<1>1. page \in Pages /\ image[Shown] \in Images
  BY ReportsAssumption DEF PageInv, PageIn, Typed, TablesOK
<1> QED BY <1>1 DEF Pages, Refreshed

\* A poll refreshes the image the page shows, and neither its report nor what it waits for.
LEMMA PollKept ==
  ASSUME PageInv, Typed, [Next]_vars, Poll
  PROVE  PageIn' /\ QuestionIn' /\ Received' /\ OneAtATime' /\ page'.at = page.at
<1>1. /\ page' = Refreshed(page) /\ question' = question /\ crossed' = crossed
      /\ limit' = limit /\ Asked' = Asked /\ Report' = Report /\ Pages' = Pages
  BY LimitStays DEF Poll
<1>2. PageIn' /\ page'.at = page.at
  BY <1>1, RefreshedPage DEF PageIn
<1>3. Received' /\ OneAtATime'
  BY <1>1, RefreshedPage DEF PageInv, Received, OneAtATime
<1>4. QuestionIn'
  BY <1>1, <1>2 DEF PageInv, QuestionIn, Sound
<1> QED BY <1>2, <1>3, <1>4

\* The page and the questions, whatever happens.
LEMMA ScreenKept ==
  ASSUME PageInv, Typed, [Next]_vars
  PROVE  PageIn' /\ QuestionIn' /\ Received' /\ OneAtATime'
<1>0. limit' = limit /\ page \in Pages /\ WriteIn
  BY LimitStays DEF PageInv, PageIn
<1>1. CASE UNCHANGED <<page, question, crossed>>
  BY <1>0, <1>1, CalmScreen
<1>2. CASE \E q \in Questions : Serve(q) \/ ScanFails(q) \/ StoreFails(q) \/ TrivyArrives(q)
  <2>1. ASSUME NEW q \in Questions, Serve(q) \/ ScanFails(q) \/ StoreFails(q) PROVE PageIn' /\ QuestionIn' /\ Received' /\ OneAtATime'
    <3>1. QuestionIn' /\ OneAtATime' /\ page' = page
      BY <2>1, ServesKept
    <3>2. PageIn' /\ Received'
      BY <3>1, LimitStays DEF PageInv, PageIn, Received
    <3> QED BY <3>1, <3>2
  <2> QED BY <1>2, <2>1, ArrivesKept
<1>3. ASSUME NEW on \in Images, Open(on) PROVE PageIn' /\ QuestionIn' /\ Received' /\ OneAtATime'
  <2> DEFINE p == [Closed EXCEPT !.at = "open", !.on = on, !.listed = on]
  <2>1. p \in Pages /\ p.at = "open"
    <3>1. Absent \in Report
      BY Bounded DEF PageInv
    <3> QED BY <3>1 DEF Closed, Pages
  <2>2. Ask("", p)
    BY <1>3 DEF Open
  <2> HIDE DEF p
  <2> QED BY <1>0, <2>1, <2>2, AskKept
<1>4. ASSUME NEW chosen \in Scanners \cup {""}, Scan(chosen) PROVE PageIn' /\ QuestionIn' /\ Received' /\ OneAtATime'
  BY <1>0, <1>4, AskKept DEF Scan, OnScreen
<1>5. CASE OverrideSaved
  <2>1. CASE write.mine /\ asks < limit.asks
    <3>1. page.at = "open" /\ write.chosen \in Scanners \cup {""} /\ Ask(write.chosen, Refreshed(page))
      BY <1>0, <1>5, <2>1 DEF WriteIn, OverrideSaved
    <3> QED BY <1>0, <3>1, AskKept, RefreshedPage
  <2>2. CASE ~(write.mine /\ asks < limit.asks)
    BY <1>1, <1>5, <2>2 DEF OverrideSaved
  <2> QED BY <2>1, <2>2
<1>6. CASE Person
  BY <1>1, <1>3, <1>4, <1>6, LeaveKept DEF Person, SubmitOverride
<1>7. CASE Poll \/ Restart
  BY <1>7, PollKept, RestartKept
<1>8. CASE ServeOverride \/ NextDay
  BY <1>1, <1>8 DEF ServeOverride, NextDay, screen
<1>9. CASE Scheduler \/ RescanFails \/ SaveRescanFails
  BY <1>1, <1>9 DEF Scheduler, RescanFails, SaveRescanFails, StartPass, Take, Rescan, SaveRescan, Alert, EndPass, screen
<1>10. CASE Deployment
  BY <1>1, <1>10
     DEF Deployment, Stage, Refused, Pivot, PurgeScanReportsByDigest, Preload, PreloadSkipped, screen
<1>11. CASE UNCHANGED vars
  BY <1>1, <1>11 DEF vars, screen
<1> QED BY <1>2, <1>5, <1>6, <1>7, <1>8, <1>9, <1>10, <1>11 DEF Next

\* A write of the override is waited for by an open page only.
LEMMA WriteKept ==
  ASSUME PageInv, Typed, [Next]_vars
  PROVE  WriteIn'
<1> DEFINE Writes == [at : {"none", "sent", "served"}, delete : BOOLEAN, chosen : Scanners \cup {""}, mine : BOOLEAN]
<1>0. WriteIn /\ limit' = limit /\ page \in Pages
  BY LimitStays DEF PageInv, PageIn
<1>1. CASE write' = write /\ page'.at = page.at
  BY <1>0, <1>1 DEF WriteIn
<1>2. CASE write' = NoWrite
  BY <1>2 DEF WriteIn, NoWrite
<1>3. CASE write' = write /\ page'.at = "open"
  BY <1>0, <1>3 DEF WriteIn
<1>4. ASSUME NEW q \in Questions, Serve(q) \/ ScanFails(q) \/ StoreFails(q) \/ TrivyArrives(q) PROVE WriteIn'
  BY <1>1, <1>4, ServesKept, ArrivesKept
<1>5. ASSUME NEW on \in Images, Open(on) PROVE WriteIn'
  <2> DEFINE p == [Closed EXCEPT !.at = "open", !.on = on, !.listed = on]
  <2>1. p.at = "open" /\ DOMAIN p = DOMAIN Closed
    BY DEF Closed
  <2>2. page' = [p EXCEPT !.loading = TRUE, !.failed = FALSE, !.last = ""] /\ write' = write
    BY <1>5 DEF Open, Ask
  <2>3. page'.at = "open"
    BY <2>1, <2>2 DEF Closed
  <2> QED BY <1>3, <2>2, <2>3
<1>6. ASSUME NEW chosen \in Scanners \cup {""}, Scan(chosen) PROVE WriteIn'
  <2>1. page'.at = "open" /\ write' = write
    BY <1>0, <1>6, AskKept DEF Scan, OnScreen
  <2> QED BY <1>3, <2>1
<1>7. ASSUME NEW delete \in BOOLEAN, NEW chosen \in Scanners \cup {""}, SubmitOverride(delete, chosen)
      PROVE  WriteIn'
  <2>1. /\ write' = [at |-> "sent", delete |-> delete, chosen |-> chosen, mine |-> TRUE]
        /\ page.at = "open" /\ page' = page
    BY <1>7 DEF SubmitOverride, OnScreen
  <2> QED BY <2>1 DEF WriteIn
<1>8. CASE ServeOverride
  <2>1. write' = [write EXCEPT !.at = "served"] /\ page' = page /\ write \in Writes
    BY <1>0, <1>8 DEF ServeOverride, WriteIn
  <2>2. write' \in Writes /\ write'.mine = write.mine
    BY <2>1
  <2> QED BY <1>0, <2>1, <2>2 DEF WriteIn
<1>9. CASE Person \/ Poll \/ OverrideSaved \/ ServeOverride \/ NextDay
  BY <1>1, <1>2, <1>5, <1>6, <1>7, <1>8, <1>9, LeaveKept, PollKept DEF Person, Poll, OverrideSaved, NextDay, screen
<1>10. CASE Restart
  BY <1>2, <1>10 DEF Restart
<1>11. CASE Scheduler \/ RescanFails \/ SaveRescanFails
  BY <1>1, <1>11 DEF Scheduler, RescanFails, SaveRescanFails, StartPass, Take, Rescan, SaveRescan, Alert, EndPass, screen
<1>12. CASE Deployment
  BY <1>1, <1>12
     DEF Deployment, Stage, Refused, Pivot, PurgeScanReportsByDigest, Preload, PreloadSkipped, screen
<1>13. CASE UNCHANGED vars
  BY <1>1, <1>13 DEF vars, screen
<1> QED BY <1>4, <1>9, <1>10, <1>11, <1>12, <1>13 DEF Next

\* The counters keep to the scenario.
LEMMA CountersKept ==
  ASSUME PageInv, Typed, [Next]_vars
  PROVE  CountersIn'
<1>0. /\ CountersIn /\ TablesIn /\ limit' = limit /\ page \in Pages /\ WriteIn /\ SchedIn /\ Typed
      /\ limit.asks \in Nat /\ limit.faults \in Nat /\ limit.writes \in Nat
  BY LimitStays, Bounded DEF PageInv, PageIn
<1>1. asks' \in 0 .. limit.asks
  <2>1. asks \in 0 .. limit.asks
    BY <1>0 DEF CountersIn
  <2>2. asks' = asks \/ (asks < limit.asks /\ asks' = asks + 1)
    <3>1. CASE Person \/ Poll \/ OverrideSaved \/ ServeOverride \/ NextDay
      BY <3>1 DEF Person, Open, Leave, Scan, SubmitOverride, Ask, Poll, ServeOverride, OverrideSaved, NextDay, screen
    <3>2. CASE \E q \in Questions : Serve(q) \/ ScanFails(q) \/ StoreFails(q) \/ TrivyArrives(q)
      BY <3>2 DEF Serve, Look, LookOnDisk, ScanImage, Store, Remember, ScanFails, StoreFails, TrivyArrives
    <3>3. CASE Scheduler \/ RescanFails \/ SaveRescanFails
      BY <3>3 DEF Scheduler, RescanFails, SaveRescanFails, StartPass, Take, Rescan, SaveRescan, Alert, EndPass, screen
    <3>4. CASE Deployment
      BY <3>4 DEF Deployment, Stage, Refused, Pivot, PurgeScanReportsByDigest, Preload, PreloadSkipped, screen
    <3>5. CASE Restart \/ UNCHANGED vars
      BY <3>5 DEF Restart, vars, screen
    <3> QED BY <3>1, <3>2, <3>3, <3>4, <3>5 DEF Next
  <2> QED BY <1>0, <2>1, <2>2, OneUp
<1>2. faults' \in 0 .. limit.faults
  <2>1. faults \in 0 .. limit.faults
    BY <1>0 DEF CountersIn
  <2>2. faults' = faults \/ (faults < limit.faults /\ faults' = faults + 1)
    <3>1. CASE Person \/ Poll \/ OverrideSaved \/ ServeOverride \/ NextDay
      BY <3>1 DEF Person, Open, Leave, Scan, SubmitOverride, Poll, ServeOverride, OverrideSaved, NextDay
    <3>2. CASE \E q \in Questions : Serve(q) \/ ScanFails(q) \/ StoreFails(q) \/ TrivyArrives(q)
      BY <3>2 DEF Serve, Look, LookOnDisk, ScanImage, Store, Remember, ScanFails, StoreFails, TrivyArrives, Fault
    <3>3. CASE Scheduler \/ RescanFails \/ SaveRescanFails
      BY <3>3 DEF Scheduler, RescanFails, SaveRescanFails, StartPass, Take, Rescan, SaveRescan, Alert, EndPass, Fault
    <3>4. CASE Deployment
      BY <3>4 DEF Deployment, Stage, Refused, Pivot, PurgeScanReportsByDigest, Preload, PreloadSkipped, Fault
    <3>5. CASE Restart \/ UNCHANGED vars
      BY <3>5 DEF Restart, vars, Fault
    <3> QED BY <3>1, <3>2, <3>3, <3>4, <3>5 DEF Next
  <2> QED BY <1>0, <2>1, <2>2, OneUp
<1>3. writes' \in 0 .. limit.writes
  <2>1. writes \in 0 .. limit.writes
    BY <1>0 DEF CountersIn
  <2>2. writes' = writes \/ (writes < limit.writes /\ writes' = writes + 1)
    <3>1. CASE Person \/ Poll \/ OverrideSaved \/ ServeOverride \/ NextDay
      BY <3>1 DEF Person, Open, Leave, Scan, SubmitOverride, Poll, ServeOverride, OverrideSaved, NextDay, screen
    <3>2. CASE \E q \in Questions : Serve(q) \/ ScanFails(q) \/ StoreFails(q) \/ TrivyArrives(q)
      BY <3>2 DEF Serve, Look, LookOnDisk, ScanImage, Store, Remember, ScanFails, StoreFails, TrivyArrives
    <3>3. CASE Scheduler \/ RescanFails \/ SaveRescanFails
      BY <3>3 DEF Scheduler, RescanFails, SaveRescanFails, StartPass, Take, Rescan, SaveRescan, Alert, EndPass, screen
    <3>4. CASE Deployment
      BY <3>4 DEF Deployment, Stage, Refused, Pivot, PurgeScanReportsByDigest, Preload, PreloadSkipped, screen
    <3>5. CASE Restart \/ UNCHANGED vars
      BY <3>5 DEF Restart, vars, screen
    <3> QED BY <3>1, <3>2, <3>3, <3>4, <3>5 DEF Next
  <2> QED BY <1>0, <2>1, <2>2, OneUp
<1>6. crossed' \in BOOLEAN
  <2>1. crossed \in BOOLEAN
    BY <1>0 DEF CountersIn
  <2>2. crossed' \in {crossed, FALSE} \/ \E asked, p : Ask(asked, p)
    <3>1. CASE Person \/ Poll \/ OverrideSaved \/ ServeOverride \/ NextDay
      BY <3>1 DEF Person, Open, Leave, Scan, SubmitOverride, Poll, ServeOverride, OverrideSaved, NextDay, screen
    <3>2. CASE \E q \in Questions : Serve(q) \/ ScanFails(q) \/ StoreFails(q) \/ TrivyArrives(q)
      BY <3>2 DEF Serve, Look, LookOnDisk, ScanImage, Store, Remember, ScanFails, StoreFails, TrivyArrives
    <3>3. CASE Scheduler \/ RescanFails \/ SaveRescanFails
      BY <3>3 DEF Scheduler, RescanFails, SaveRescanFails, StartPass, Take, Rescan, SaveRescan, Alert, EndPass, screen
    <3>4. CASE Deployment
      BY <3>4 DEF Deployment, Stage, Refused, Pivot, PurgeScanReportsByDigest, Preload, PreloadSkipped, screen
    <3>5. CASE Restart \/ UNCHANGED vars
      BY <3>5 DEF Restart, vars, screen
    <3> QED BY <3>1, <3>2, <3>3, <3>4, <3>5 DEF Next
  <2> QED BY <2>1, <2>2 DEF Ask
<1>7. stored' \in Scanners \cup {"", "none"}
  <2>1. stored' \in {stored, "", "none"}
    <3>1. CASE Person \/ Poll \/ OverrideSaved \/ ServeOverride \/ NextDay
      BY <3>1 DEF Person, Open, Leave, Scan, SubmitOverride, Poll, ServeOverride, OverrideSaved, NextDay
    <3>2. CASE \E q \in Questions : Serve(q) \/ ScanFails(q) \/ StoreFails(q) \/ TrivyArrives(q)
      BY <3>2 DEF Serve, Look, LookOnDisk, ScanImage, Store, Remember, ScanFails, StoreFails, TrivyArrives
    <3>3. CASE Scheduler \/ RescanFails \/ SaveRescanFails
      BY <3>3 DEF Scheduler, RescanFails, SaveRescanFails, StartPass, Take, Rescan, SaveRescan, Alert, EndPass
    <3>4. CASE Deployment
      BY <3>4 DEF Deployment, Stage, Refused, Pivot, PurgeScanReportsByDigest, Preload, PreloadSkipped
    <3>5. CASE Restart \/ UNCHANGED vars
      BY <3>5 DEF Restart, vars
    <3> QED BY <3>1, <3>2, <3>3, <3>4, <3>5 DEF Next
  <2> QED BY <1>0, <2>1 DEF CountersIn
<1> QED BY <1>0, <1>1, <1>2, <1>3, <1>6, <1>7 DEF CountersIn

-----------------------------------------------------------------------------
(* Theorems *)

\* At the start there are no reports and the page is closed.
LEMMA InitPage == Init => PageInv
<1> SUFFICES ASSUME Init PROVE PageInv
  OBVIOUS
<1>0. /\ limit \in Scenarios /\ limit.days \in Nat /\ limit.asks \in Nat /\ limit.faults \in Nat /\ limit.writes \in Nat
      /\ Absent \in Report /\ 0 \in Days
  <2>1. limit \in [days : Nat, asks : Nat, updates : Nat, faults : Nat, writes : Nat] /\ limit \in Scenarios
    BY ReportsAssumption DEF Init
  <2>2. limit.days \in Nat /\ limit.asks \in Nat /\ limit.faults \in Nat /\ limit.writes \in Nat
    BY <2>1
  <2>3. Absent \in Report /\ 0 \in Days
    BY <2>2 DEF Report, Days
  <2> QED BY <2>1, <2>2, <2>3
<1>1. TablesIn
  <2>1. /\ disk \in [Keys -> Report] /\ mem \in [Keys -> Report]
        /\ told \in [Images -> Report] /\ missed \in [Images -> Report]
    BY <1>0 DEF Init
  <2>2. \A i \in Images, s \in Scanners : disk[<<i, s>>] = Absent /\ latest[i] = "none"
    BY DEF Init, Keys
  <2>3. \A i \in Images : latest[i] = "none"
    BY DEF Init
  <2> QED BY <1>0, <2>1, <2>2, <2>3 DEF Init, TablesIn
<1>2. SchedIn /\ RollIn
  BY <1>0, ReportsAssumption DEF Init, SchedIn, RollIn, Resting, NoRollout
<1>3. PageIn /\ WriteIn
  BY <1>0, ReportsAssumption DEF Init, PageIn, Pages, WriteIn, Closed, NoWrite
<1>4. QuestionIn
  <2>1. Sound(NoQuestion) /\ ~NoQuestion.mine
    BY <1>1, FreePlace
  <2> QED BY <2>1 DEF Init, QuestionIn, Sound
<1>5. CountersIn
  <2>1. \A n \in Nat : 0 \in 0 .. n
    OBVIOUS
  <2>2. asks \in 0 .. limit.asks /\ faults \in 0 .. limit.faults /\ writes \in 0 .. limit.writes
    <3>1. asks = 0 /\ faults = 0 /\ writes = 0
      BY DEF Init
    <3> QED BY <1>0, <2>1, <3>1, Zenon
  <2>3. crossed = FALSE /\ stored \in {"none"} \cup (Scanners \ {Global})
    BY DEF Init
  <2> QED BY <2>2, <2>3 DEF CountersIn
<1>6. Received /\ OneAtATime
  BY DEF Init, Received, OneAtATime, Closed, NoQuestion
<1> QED BY <1>1, <1>2, <1>3, <1>4, <1>5, <1>6 DEF PageInv

\* The invariant holds in every state.
LEMMA PageAlways == Spec => [](PageInv /\ Typed)
<1>1. PageInv /\ Typed /\ [Next]_vars => PageInv'
  BY TablesKept, SchedKept, RollKept, ScreenKept, WriteKept, CountersKept DEF PageInv
<1> QED BY <1>1, InitPage, TypedAlways, PTL DEF Spec

\* TypeOK: every variable holds what it may, within the scenario; an image has a latest
\* report exactly when the table has one of it.
THEOREM ReportTypes == Spec => []TypeOK
<1>1. PageInv /\ Typed => TypeOK
  BY DEF PageInv, Typed, TablesOK, TablesIn, SchedIn, RollIn, PageIn, Pages, WriteIn, QuestionIn, Asked,
         CountersIn, TypeOK
<1> QED BY <1>1, PageAlways, PTL

\* NoFalseAllClear (ContainerDetailView.jsx:335-347): a page that neither waits nor shows
\* an error shows a report.
THEOREM AllClearIsTrue == Spec => []NoFalseAllClear
<1>1. PageInv => NoFalseAllClear
  BY DEF PageInv, Received, NoFalseAllClear, OnScreen
<1> QED BY <1>1, PageAlways, PTL

\* ShownIsAsked: a page that never asked twice at once shows the report of the scanner
\* the person asked for last.
THEOREM AskedIsShown == Spec => []ShownIsAsked
<1>1. PageInv => ShownIsAsked
  BY DEF PageInv, OneAtATime, ShownIsAsked, OnScreen
<1> QED BY <1>1, PageAlways, PTL

=============================================================================
