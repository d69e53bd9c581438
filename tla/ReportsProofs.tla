---------------------------- MODULE ReportsProofs ----------------------------
(***************************************************************************)
(* What holds of the reports for any containers, images, scanners, pages   *)
(* and scenarios: nothing gets into the table that nobody is told of, but  *)
(* for the alerts that are lost one by one.                                *)
(***************************************************************************)
EXTENDS Reports, TLAPS

Level == {n \in Int : n >= Absent}

\* The stages of a request that has chosen its scanner.
InHand == {"disk", "read", "scan", "scanned", "saved"}

TablesOK ==
  /\ day \in Level /\ image \in [Containers -> Images]
  /\ disk \in [Keys -> Level] /\ mem \in [Keys -> Level]
  /\ told \in [Images -> Level] /\ missed \in [Images -> Level]
  /\ latest \in [Images -> Scanners \cup {"none"}]

SchedOK ==
  /\ DOMAIN sched = {"at", "all", "todo", "of", "before", "got"}
  /\ sched.todo \subseteq Containers \X Images
  /\ sched.of \in Images /\ sched.before \in Level /\ sched.got \in Level

RollOK ==
  /\ DOMAIN roll = {"at", "of", "old", "new", "got"}
  /\ roll.of \in Containers /\ roll.old \in Images /\ roll.new \in Images /\ roll.got \in Level

PageOK ==
  /\ DOMAIN page = {"at", "on", "listed", "report", "by", "last", "failed", "loading"}
  /\ page.on \in Images

WriteOK ==
  /\ DOMAIN write = {"at", "delete", "chosen", "mine"}
  /\ write.chosen \in Scanners \cup {""}

QuestionOK ==
  /\ question = [q \in Questions |-> question[q]]
  /\ \A q \in Questions :
       /\ DOMAIN question[q] = {"at", "on", "by", "got", "mine"}
       /\ question[q].on \in Images /\ question[q].got \in Level
       /\ question[q].by \in Scanners \cup {""}
       /\ question[q].at \in InHand => question[q].by \in Scanners

Typed == TablesOK /\ SchedOK /\ RollOK /\ PageOK /\ WriteOK /\ QuestionOK

-----------------------------------------------------------------------------
(* Types *)

\* Days are ordered, and nothing comes before the absent report.
LEMMA Levels ==
  /\ 0 \in Level /\ Absent \in Level /\ \A n \in Level : n + 1 \in Level /\ Absent <= n
  /\ \A m, n \in Level : Larger(m, n) \in Level /\ m <= Larger(m, n) /\ n <= Larger(m, n)
  /\ \A m, n \in Level : m <= n \/ n <= m
BY DEF Level, Absent, Larger

\* "" and "none" name no scanner.
LEMMA Outside == "none" \notin Scanners /\ "" \notin Scanners
BY ReportsAssumption

\* Every variable keeps its type: one lemma for each part of the state.
LEMMA SavedTyped ==
  ASSUME TablesOK, NEW k \in Keys, NEW r \in Level, SaveScanReport(k, r)
  PROVE  disk' \in [Keys -> Level] /\ latest' \in [Images -> Scanners \cup {"none"}]
<1>1. k[1] \in Images /\ k[2] \in Scanners
  BY DEF Keys
<1> QED BY <1>1 DEF TablesOK, SaveScanReport

\* What a person is told of an image is a level, and so is what nobody is told.
LEMMA ToldTyped ==
  ASSUME TablesOK, NEW i \in Images, NEW r \in Level,
         Tell(i, r) \/ Miss(i, r) \/ UNCHANGED history
  PROVE  told' \in [Images -> Level] /\ missed' \in [Images -> Level]
BY Levels DEF TablesOK, Tell, Miss, history

\* The tables, the memory and the history keep their types.
LEMMA TablesTyped ==
  ASSUME Typed, [Next]_vars
  PROVE  TablesOK'
<1> USE DEF Typed
<1>1. CASE UNCHANGED <<day, image, disk, mem, told, missed, latest>>
  BY <1>1 DEF TablesOK
<1>2. CASE SaveRescan
  <2>1. <<sched.of, Global>> \in Keys /\ sched.of \in Images /\ sched.got \in Level
    BY ReportsAssumption DEF SchedOK, Keys
  <2>2. /\ SaveScanReport(<<sched.of, Global>>, sched.got)
        /\ Tell(sched.of, sched.got) \/ Miss(sched.of, sched.got) \/ UNCHANGED history
    BY <1>2 DEF SaveRescan
  <2>3. disk' \in [Keys -> Level] /\ latest' \in [Images -> Scanners \cup {"none"}]
    BY <2>1, <2>2, SavedTyped
  <2>4. told' \in [Images -> Level] /\ missed' \in [Images -> Level]
    BY <2>1, <2>2, ToldTyped
  <2> QED BY <1>2, <2>3, <2>4 DEF SaveRescan, TablesOK, world
<1>3. CASE Alert
  <2>1. Tell(sched.of, sched.got) \/ UNCHANGED history
    BY <1>3 DEF Alert
  <2>2. told' \in [Images -> Level] /\ missed' \in [Images -> Level]
    BY <2>1, ToldTyped DEF SchedOK
  <2> QED BY <1>3, <2>2 DEF Alert, TablesOK, world, cache
<1>4. CASE Pivot
  <2>1. told' \in [Images -> Level] /\ missed' \in [Images -> Level]
    BY <1>4, ToldTyped DEF Pivot, RollOK
  <2>2. image' \in [Containers -> Images]
    BY <1>4 DEF Pivot, RollOK, TablesOK
  <2> QED BY <1>4, <2>1, <2>2 DEF Pivot, TablesOK, cache
<1>5. CASE PurgeScanReportsByDigest
  BY <1>5, Levels DEF PurgeScanReportsByDigest, TablesOK, RollOK, world, history
<1>6. CASE Preload
  <2>1. <<roll.new, Staging>> \in Keys
    BY ReportsAssumption DEF RollOK, Keys
  <2>2. disk' \in [Keys -> Level] /\ latest' \in [Images -> Scanners \cup {"none"}]
    BY <1>6, <2>1, SavedTyped DEF Preload, RollOK
  <2> QED BY <1>6, <2>2 DEF Preload, TablesOK, world, history
<1>7. ASSUME NEW q \in Questions, Store(q) PROVE TablesOK'
  <2>1. <<question[q].on, question[q].by>> \in Keys
    BY <1>7 DEF Store, QuestionOK, InHand, Keys
  <2>2. disk' \in [Keys -> Level] /\ latest' \in [Images -> Scanners \cup {"none"}]
    BY <1>7, <2>1, SavedTyped DEF Store, QuestionOK
  <2>3. told' \in [Images -> Level] /\ missed' \in [Images -> Level]
    BY <1>7, ToldTyped DEF Store, QuestionOK
  <2> QED BY <1>7, <2>2, <2>3 DEF Store, TablesOK, world
<1>8. ASSUME NEW q \in Questions, Remember(q) PROVE TablesOK'
  BY <1>8 DEF Remember, QuestionOK, TablesOK, world, history
<1>9. CASE NextDay
  BY <1>9, Levels DEF NextDay, TablesOK, cache, history
<1>10. CASE Restart
  <2>1. told' \in [Images -> Level] /\ missed' \in [Images -> Level]
    BY <1>10, ToldTyped DEF Restart, SchedOK
  <2> QED BY <1>10, <2>1, Levels DEF Restart, TablesOK, world
<1>11. CASE Scheduler \/ RescanFails \/ SaveRescanFails
  BY <1>1, <1>2, <1>3, <1>11
     DEF Scheduler, RescanFails, SaveRescanFails, StartPass, Take, Rescan, EndPass, world, cache, history
<1>12. CASE Deployment
  BY <1>1, <1>4, <1>5, <1>6, <1>12
     DEF Deployment, Stage, Refused, PreloadSkipped, world, cache, history
<1>13. CASE \E q \in Questions : Serve(q) \/ ScanFails(q) \/ StoreFails(q) \/ TrivyArrives(q)
  BY <1>1, <1>7, <1>8, <1>13
     DEF Serve, Look, LookOnDisk, ScanImage, ScanFails, StoreFails, TrivyArrives, world, cache, history
<1>14. CASE Person \/ Poll \/ ServeOverride \/ OverrideSaved
  BY <1>1, <1>14
     DEF Person, Open, Leave, Scan, SubmitOverride, Poll, ServeOverride, OverrideSaved, world, cache, history
<1>15. CASE UNCHANGED vars
  BY <1>1, <1>15 DEF vars, world, cache, history
<1> QED BY <1>9, <1>10, <1>11, <1>12, <1>13, <1>14, <1>15 DEF Next

\* The scheduler keeps its types.
LEMMA SchedTyped ==
  ASSUME Typed, [Next]_vars
  PROVE  SchedOK'
<1> USE DEF Typed
<1>1. CASE UNCHANGED sched
  BY <1>1 DEF SchedOK
<1>2. CASE sched' = Resting
  BY <1>2, Levels, ReportsAssumption DEF SchedOK, Resting
<1>3. CASE \E all \in BOOLEAN : StartPass(all)
  BY <1>3 DEF StartPass, SchedOK, TablesOK
<1>4. ASSUME NEW x \in sched.todo, Take(x) PROVE SchedOK'
  <2>1. x[2] \in Images
    BY DEF SchedOK
  <2>2. Before(x[2]) \in Level
    BY <2>1, Levels DEF Before, TablesOK, Keys
  <2>3. CASE sched' = [sched EXCEPT !.todo = @ \ {x}]
    BY <2>3 DEF SchedOK
  <2>4. CASE sched' = [sched EXCEPT !.at = "scan", !.todo = @ \ {x}, !.of = x[2],
                                   !.before = IF sched.all THEN Before(x[2]) ELSE Absent]
    BY <2>1, <2>2, <2>4, Levels DEF SchedOK
  <2> QED BY <1>4, <2>3, <2>4 DEF Take
<1>5. CASE Rescan
  BY <1>5 DEF Rescan, SchedOK, TablesOK
<1>6. CASE RescanFails \/ SaveRescan \/ SaveRescanFails \/ Alert
  <2>1. PICK at : sched' = [sched EXCEPT !.at = at]
    BY <1>6 DEF RescanFails, SaveRescan, SaveRescanFails, Alert
  <2> QED BY <2>1 DEF SchedOK
<1>7. CASE Scheduler \/ RescanFails \/ SaveRescanFails
  BY <1>2, <1>3, <1>4, <1>5, <1>6, <1>7 DEF Scheduler, EndPass
<1>8. CASE Deployment
  BY <1>1, <1>8 DEF Deployment, Stage, Refused, Pivot, PurgeScanReportsByDigest, Preload, PreloadSkipped
<1>9. CASE \E q \in Questions : Serve(q) \/ ScanFails(q) \/ StoreFails(q) \/ TrivyArrives(q)
  BY <1>1, <1>9 DEF Serve, Look, LookOnDisk, ScanImage, Store, Remember, ScanFails, StoreFails, TrivyArrives
<1>10. CASE Person \/ Poll \/ ServeOverride \/ OverrideSaved \/ NextDay
  BY <1>1, <1>10 DEF Person, Open, Leave, Scan, SubmitOverride, Poll, ServeOverride, OverrideSaved, NextDay
<1>11. CASE Restart
  BY <1>2, <1>11 DEF Restart
<1>12. CASE UNCHANGED vars
  BY <1>1, <1>12 DEF vars
<1> QED BY <1>7, <1>8, <1>9, <1>10, <1>11, <1>12 DEF Next

\* The rollout keeps its types.
LEMMA RollTyped ==
  ASSUME Typed, [Next]_vars
  PROVE  RollOK'
<1> USE DEF Typed
<1>1. CASE UNCHANGED roll
  BY <1>1 DEF RollOK
<1>2. CASE roll' = NoRollout
  BY <1>2, Levels, ReportsAssumption DEF RollOK, NoRollout
<1>3. CASE \E c \in Containers, i \in Images : Stage(c, i)
  BY <1>3 DEF Stage, RollOK, TablesOK
<1>4. CASE \E at : roll' = [roll EXCEPT !.at = at]
  BY <1>4 DEF RollOK
<1>5. CASE Deployment
  BY <1>2, <1>3, <1>4, <1>5 DEF Deployment, Refused, Pivot, PurgeScanReportsByDigest, Preload, PreloadSkipped
<1>6. CASE Scheduler \/ RescanFails \/ SaveRescanFails
  BY <1>1, <1>6 DEF Scheduler, RescanFails, SaveRescanFails, StartPass, Take, Rescan, SaveRescan, Alert, EndPass
<1>7. CASE \E q \in Questions : Serve(q) \/ ScanFails(q) \/ StoreFails(q) \/ TrivyArrives(q)
  BY <1>1, <1>7 DEF Serve, Look, LookOnDisk, ScanImage, Store, Remember, ScanFails, StoreFails, TrivyArrives
<1>8. CASE Person \/ Poll \/ ServeOverride \/ OverrideSaved \/ NextDay
  BY <1>1, <1>8 DEF Person, Open, Leave, Scan, SubmitOverride, Poll, ServeOverride, OverrideSaved, NextDay
<1>9. CASE Restart
  BY <1>2, <1>9 DEF Restart
<1>10. CASE UNCHANGED vars
  BY <1>1, <1>10 DEF vars
<1> QED BY <1>5, <1>6, <1>7, <1>8, <1>9, <1>10 DEF Next

\* A page that asks for a report stays a page, and its question one in hand.
LEMMA AskTyped ==
  ASSUME Typed, NEW asked \in Scanners \cup {""}, NEW p, Ask(asked, p), p.on \in Images,
         DOMAIN p = {"at", "on", "listed", "report", "by", "last", "failed", "loading"}
  PROVE  PageOK' /\ QuestionOK'
<1>1. page' = [p EXCEPT !.loading = TRUE, !.failed = FALSE, !.last = asked]
  BY DEF Ask
<1>2. PageOK'
  BY <1>1 DEF PageOK
<1>3. PICK q \in Questions :
        question' = [question EXCEPT ![q] = [at |-> "sent", on |-> p.on, by |-> asked,
                                            got |-> Absent, mine |-> TRUE]]
  <2> DEFINE free == {q \in Questions : question[q] = NoQuestion}
             q0 == CHOOSE q \in free : TRUE
  <2>1. free # {} /\ question' = [question EXCEPT ![q0] = [at |-> "sent", on |-> p.on, by |-> asked,
                                                         got |-> Absent, mine |-> TRUE]]
    BY DEF Ask
  <2>2. q0 \in Questions
    <3> HIDE DEF q0
    <3>1. q0 \in free
      BY <2>1 DEF q0
    <3> QED BY <3>1
  <2> QED BY <2>1, <2>2
<1>4. QuestionOK'
  BY <1>3, Levels DEF Typed, QuestionOK, InHand
<1> QED BY <1>2, <1>4

\* The questions and the page keep their types.
LEMMA QuestionTyped ==
  ASSUME Typed, [Next]_vars
  PROVE  QuestionOK' /\ PageOK'
<1> USE DEF Typed
<1> DEFINE OK == QuestionOK' /\ PageOK'
<1>1. CASE UNCHANGED <<question, page>>
  BY <1>1 DEF QuestionOK, PageOK
<1>2. NoQuestion.at = "none" /\ NoQuestion.on \in Images /\ NoQuestion.got \in Level
        /\ NoQuestion.by \in Scanners \cup {""} /\ DOMAIN NoQuestion = {"at", "on", "by", "got", "mine"}
  BY Levels, ReportsAssumption DEF NoQuestion
<1>3. ASSUME NEW q \in Questions, NEW at, at \notin InHand, Replies(q, at) PROVE QuestionOK'
  <2>1. CASE question' = [question EXCEPT ![q].at = at]
    BY <1>3, <2>1 DEF QuestionOK
  <2>2. CASE question' = [question EXCEPT ![q] = NoQuestion]
    <3>1. NoQuestion.at \notin InHand
      BY <1>2 DEF InHand
    <3> QED BY <1>2, <2>2, <3>1 DEF QuestionOK
  <2> QED BY <1>3, <2>1, <2>2 DEF Replies, Moves
<1>4. ASSUME NEW q \in Questions, NEW at, Moves(q, at), question[q].at \in InHand PROVE QuestionOK'
  BY <1>4 DEF Moves, QuestionOK
<1>5. ASSUME NEW q \in Questions, Look(q) PROVE OK
  <2> DEFINE s == Scanner(question[q].by)
             r == mem[<<question[q].on, s>>]
  <2>1. s \in Scanners
    BY ReportsAssumption DEF Scanner, QuestionOK
  <2>2. r \in Level
    BY <2>1 DEF QuestionOK, TablesOK, Keys
  <2> "failed" \notin InHand /\ "answered" \notin InHand
    BY DEF InHand
  <2>3. ASSUME Replies(q, "failed") \/ Replies(q, "answered") PROVE QuestionOK'
    BY <1>3, <2>3
  <2>4. ASSUME question' = [question EXCEPT
                              ![q].by = s, ![q].got = r,
                              ![q].at = IF r = Absent THEN "disk" ELSE "answered"]
        PROVE  QuestionOK'
    <3>1. PICK at : question' = [question EXCEPT ![q].by = s, ![q].got = r, ![q].at = at]
      BY <2>4
    <3> HIDE DEF s, r
    <3> QED BY <2>1, <2>2, <3>1 DEF QuestionOK
  <2>5. QuestionOK'
    BY <1>5, <2>3, <2>4 DEF Look
  <2> QED BY <1>5, <2>5 DEF Look, PageOK
<1>6. ASSUME NEW q \in Questions, LookOnDisk(q) PROVE OK
  <2>1. disk[<<question[q].on, question[q].by>>] \in Level
    BY <1>6 DEF LookOnDisk, QuestionOK, TablesOK, Keys, InHand
  <2>2. QuestionOK'
    BY <1>6, <2>1 DEF LookOnDisk, QuestionOK, InHand
  <2> QED BY <1>6, <2>2 DEF LookOnDisk, PageOK
<1>7. ASSUME NEW q \in Questions, ScanImage(q) PROVE OK
  <2>1. QuestionOK'
    BY <1>7 DEF ScanImage, QuestionOK, InHand, TablesOK
  <2> QED BY <1>7, <2>1 DEF ScanImage, PageOK
<1>8. ASSUME NEW q \in Questions, Store(q) PROVE OK
  BY <1>4, <1>8 DEF Store, PageOK, InHand
<1>25. ASSUME NEW q \in Questions, StoreFails(q) PROVE OK
  BY <1>4, <1>25 DEF StoreFails, PageOK, InHand
<1>9. ASSUME NEW q \in Questions, Remember(q) PROVE OK
  BY <1>3, <1>9 DEF Remember, PageOK, InHand
<1>10. ASSUME NEW q \in Questions, ScanFails(q) PROVE OK
  BY <1>3, <1>10 DEF ScanFails, PageOK, InHand
<1>11. ASSUME NEW q \in Questions, TrivyArrives(q) PROVE OK
  <2>1. QuestionOK'
    BY <1>2, <1>11 DEF TrivyArrives, QuestionOK, InHand
  <2>2. PageOK'
    BY <1>11 DEF TrivyArrives, Arrived, PageOK
  <2> QED BY <2>1, <2>2
<1>12. CASE \E q \in Questions : Serve(q) \/ ScanFails(q) \/ StoreFails(q) \/ TrivyArrives(q)
  BY <1>5, <1>6, <1>7, <1>8, <1>9, <1>10, <1>11, <1>12, <1>25 DEF Serve
<1>13. ASSUME NEW on \in Images, Open(on) PROVE OK
  <2> DEFINE p == [Closed EXCEPT !.at = "open", !.on = on, !.listed = on]
  <2>1. p.on \in Images
           /\ DOMAIN p = {"at", "on", "listed", "report", "by", "last", "failed", "loading"}
    BY DEF Closed
  <2>2. Ask("", p)
    BY <1>13 DEF Open
  <2> QED BY <2>1, <2>2, AskTyped
<1>14. CASE Leave
  <2>1. PageOK'
    BY <1>14, ReportsAssumption DEF Leave, PageOK, Closed
  <2>2. QuestionOK'
    BY <1>2, <1>14 DEF Leave, QuestionOK, InHand
  <2> QED BY <2>1, <2>2
<1>15. Refreshed(page).on \in Images /\ DOMAIN Refreshed(page) = DOMAIN page
  BY DEF Refreshed, PageOK
<1>16. CASE Poll
  BY <1>15, <1>16 DEF Poll, PageOK, QuestionOK
<1>17. ASSUME NEW chosen \in Scanners \cup {""}, Scan(chosen) PROVE OK
  BY <1>17, AskTyped DEF Scan, PageOK
<1>18. CASE Person
  BY <1>1, <1>13, <1>14, <1>17, <1>18 DEF Person, SubmitOverride
<1>19. CASE OverrideSaved
  BY <1>1, <1>15, <1>19, AskTyped DEF OverrideSaved, WriteOK, PageOK
<1>20. CASE ServeOverride \/ NextDay
  BY <1>1, <1>20 DEF ServeOverride, NextDay, screen
<1>21. CASE Restart
  <2>1. PageOK'
    BY <1>21 DEF Restart, PageOK
  <2>2. QuestionOK'
    BY <1>2, <1>21 DEF Restart, QuestionOK, InHand
  <2> QED BY <2>1, <2>2
<1>22. CASE Scheduler \/ RescanFails \/ SaveRescanFails
  BY <1>1, <1>22 DEF Scheduler, RescanFails, SaveRescanFails, StartPass, Take, Rescan, SaveRescan, Alert, EndPass, screen
<1>23. CASE Deployment
  BY <1>1, <1>23
     DEF Deployment, Stage, Refused, Pivot, PurgeScanReportsByDigest, Preload, PreloadSkipped, screen
<1>24. CASE UNCHANGED vars
  BY <1>1, <1>24 DEF vars, screen
<1> QED
  BY <1>12, <1>16, <1>18, <1>19, <1>20, <1>21, <1>22, <1>23, <1>24 DEF Next

\* The save of the page keeps its types.
LEMMA WriteTyped ==
  ASSUME Typed, [Next]_vars
  PROVE  WriteOK'
<1> USE DEF Typed
<1>1. CASE UNCHANGED write
  BY <1>1 DEF WriteOK
<1>2. CASE write' = NoWrite
  BY <1>2 DEF WriteOK, NoWrite
<1>3. CASE Leave \/ ServeOverride
  BY <1>3 DEF Leave, ServeOverride, WriteOK
<1>4. ASSUME NEW delete \in BOOLEAN, NEW chosen \in Scanners \cup {""}, SubmitOverride(delete, chosen)
      PROVE  WriteOK'
  <2>1. write' = [at |-> "sent", delete |-> delete, chosen |-> chosen, mine |-> TRUE]
    BY <1>4 DEF SubmitOverride
  <2> QED BY <2>1 DEF WriteOK
<1>5. CASE Person \/ Poll \/ ServeOverride \/ OverrideSaved \/ NextDay
  BY <1>1, <1>2, <1>3, <1>4, <1>5 DEF Person, Open, Scan, Poll, OverrideSaved, NextDay, screen
<1>6. CASE \E q \in Questions : Serve(q) \/ ScanFails(q) \/ StoreFails(q) \/ TrivyArrives(q)
  BY <1>1, <1>6 DEF Serve, Look, LookOnDisk, ScanImage, Store, Remember, ScanFails, StoreFails, TrivyArrives
<1>7. CASE Scheduler \/ RescanFails \/ SaveRescanFails
  BY <1>1, <1>7 DEF Scheduler, RescanFails, SaveRescanFails, StartPass, Take, Rescan, SaveRescan, Alert, EndPass, screen
<1>8. CASE Deployment
  BY <1>1, <1>8
     DEF Deployment, Stage, Refused, Pivot, PurgeScanReportsByDigest, Preload, PreloadSkipped, screen
<1>9. CASE Restart
  BY <1>2, <1>9 DEF Restart
<1>10. CASE UNCHANGED vars
  BY <1>1, <1>10 DEF vars, screen
<1> QED BY <1>5, <1>6, <1>7, <1>8, <1>9, <1>10 DEF Next

\* The types hold at the start.
LEMMA InitTyped == Init => Typed
<1> SUFFICES ASSUME Init PROVE Typed
  OBVIOUS
<1> USE ReportsAssumption
<1>1. TablesOK
  <2>1. 0 \in Level /\ Absent \in Level
    BY Levels
  <2>2. day \in Level /\ image \in [Containers -> Images]
    BY <2>1 DEF Init
  <2>3. disk \in [Keys -> Level] /\ mem \in [Keys -> Level]
           /\ told \in [Images -> Level] /\ missed \in [Images -> Level]
    BY <2>1 DEF Init
  <2>4. latest \in [Images -> Scanners \cup {"none"}]
    BY DEF Init
  <2> QED BY <2>2, <2>3, <2>4 DEF TablesOK
<1>2. SchedOK /\ RollOK
  BY Levels DEF Init, SchedOK, RollOK, Resting, NoRollout
<1>3. PageOK /\ WriteOK
  BY DEF Init, PageOK, WriteOK, Closed, NoWrite
<1>4. QuestionOK
  BY Levels DEF Init, QuestionOK, NoQuestion, InHand
<1> QED BY <1>1, <1>2, <1>3, <1>4 DEF Typed

\* The types hold of every reachable state.
LEMMA TypedAlways == Spec => []Typed
<1>1. Typed /\ [Next]_vars => Typed'
  BY TablesTyped, SchedTyped, RollTyped, QuestionTyped, WriteTyped DEF Typed
<1> QED BY <1>1, InitTyped, PTL DEF Spec

-----------------------------------------------------------------------------
(* The alerts *)

\* The worst that was told of i, or lost with an alert.
Known(i) == Larger(told[i], missed[i])

\* An alert that makes up for what the latest report of i holds is under way.
AlertComes(i) == AlertDue(i) /\ Before(i) <= Larger(Known(i), sched.got)

Heard == \A i \in Images : Before(i) <= Known(i) \/ AlertComes(i)

\* What a pass compares with was news when it was read.
ReferenceHeard ==
  /\ sched.at \in {"scan", "save", "alert"} => sched.before <= Known(sched.of)
  /\ sched.at = "alert" => sched.before # Absent

\* What a rollout is about to preload has been notified.
PreloadHeard == roll.at \in {"purge", "preload"} => roll.got <= told[roll.new]

Alerts == Heard /\ ReferenceHeard /\ PreloadHeard

\* What a pass compares with is a level.
LEMMA BeforeTyped == ASSUME TablesOK PROVE \A i \in Images : Before(i) \in Level
BY Levels DEF TablesOK, Before, Keys

\* The report just saved is the reference of its image, and of no other.
LEMMA SavedBefore ==
  ASSUME TablesOK, NEW i \in Images, NEW s \in Scanners, NEW r \in Level, SaveScanReport(<<i, s>>, r)
  PROVE  \A j \in Images : Before(j)' = IF j = i THEN r ELSE Before(j)
<1> TAKE j \in Images
<1>1. <<i, s>> \in Keys /\ s # "none"
  BY Outside DEF Keys
<1>2. disk' = [disk EXCEPT ![<<i, s>>] = r] /\ latest' = [latest EXCEPT ![i] = s]
  BY DEF SaveScanReport
<1>3. CASE j = i
  BY <1>1, <1>2, <1>3 DEF Before, TablesOK
<1>4. CASE j # i
  <2>1. latest'[j] = latest[j]
    BY <1>2, <1>4 DEF TablesOK
  <2>2. latest[j] # "none" => disk'[<<j, latest[j]>>] = disk[<<j, latest[j]>>]
    BY <1>1, <1>2, <1>4 DEF TablesOK, Keys
  <2> QED BY <1>4, <2>1, <2>2 DEF Before
<1> QED BY <1>3, <1>4

\* What is known of an image is a level, no less than what was told of it.
LEMMA KnownTyped ==
  ASSUME TablesOK
  PROVE  \A i \in Images : Known(i) \in Level /\ told[i] <= Known(i) /\ missed[i] <= Known(i)
BY Levels DEF TablesOK, Known

\* Telling a person of a report covers it, and takes nothing back.
LEMMA Told ==
  ASSUME TablesOK, NEW i \in Images, NEW r \in Level, Tell(i, r)
  PROVE  r <= told'[i] /\ \A j \in Images : told[j] <= told'[j] /\ missed'[j] = missed[j]
BY Levels DEF TablesOK, Tell

\* The record of an alert that was lost covers its report, and takes nothing back.
LEMMA Missed ==
  ASSUME TablesOK, NEW i \in Images, NEW r \in Level, Miss(i, r)
  PROVE  r <= missed'[i] /\ \A j \in Images : missed[j] <= missed'[j] /\ told'[j] = told[j]
BY Levels DEF TablesOK, Miss

\* What a person was told of stays told, and a lost alert stays lost.
LEMMA OnlyMore ==
  ASSUME Typed, [Next]_vars
  PROVE  \A i \in Images : told[i] <= told'[i] /\ missed[i] <= missed'[i]
<1> USE DEF Typed
<1> DEFINE More == \A i \in Images : told[i] <= told'[i] /\ missed[i] <= missed'[i]
<1>1. CASE UNCHANGED history
  BY <1>1 DEF TablesOK, Level, history
<1>2. ASSUME NEW i \in Images, NEW r \in Level, Tell(i, r) \/ Miss(i, r) PROVE More
  BY <1>2, Told, Missed DEF TablesOK, Level
<1>3. CASE SaveRescan \/ Alert
  BY <1>1, <1>2, <1>3 DEF SaveRescan, Alert, SchedOK
<1>4. CASE Pivot
  BY <1>2, <1>4 DEF Pivot, RollOK
<1>5. ASSUME NEW q \in Questions, Store(q) PROVE More
  BY <1>2, <1>5 DEF Store, QuestionOK
<1>6. CASE Scheduler \/ RescanFails \/ SaveRescanFails
  BY <1>1, <1>3, <1>6 DEF Scheduler, RescanFails, SaveRescanFails, StartPass, Take, Rescan, EndPass
<1>7. CASE Deployment
  BY <1>1, <1>4, <1>7 DEF Deployment, Stage, Refused, PurgeScanReportsByDigest, Preload, PreloadSkipped
<1>8. CASE \E q \in Questions : Serve(q) \/ ScanFails(q) \/ StoreFails(q) \/ TrivyArrives(q)
  BY <1>1, <1>5, <1>8 DEF Serve, Look, LookOnDisk, ScanImage, Remember, ScanFails, StoreFails, TrivyArrives
<1>9. CASE Person \/ Poll \/ ServeOverride \/ OverrideSaved \/ NextDay
  BY <1>1, <1>9 DEF Person, Open, Leave, Scan, SubmitOverride, Poll, ServeOverride, OverrideSaved, NextDay
<1>10. CASE Restart
  BY <1>1, <1>2, <1>10 DEF Restart, SchedOK
<1>11. CASE UNCHANGED vars
  BY <1>1, <1>11 DEF vars
<1> QED BY <1>6, <1>7, <1>8, <1>9, <1>10, <1>11 DEF Next

\* So is what is known.
LEMMA KnownMore ==
  ASSUME Typed, [Next]_vars
  PROVE  \A i \in Images : Known(i) <= Known(i)' /\ told'[i] <= Known(i)' /\ missed'[i] <= Known(i)'
                         /\ Known(i) \in Level /\ Known(i)' \in Level
<1> TAKE i \in Images
<1>1. TablesOK /\ TablesOK'
  BY TablesTyped DEF Typed
<1>2. told[i] \in Level /\ missed[i] \in Level /\ told'[i] \in Level /\ missed'[i] \in Level
  BY <1>1 DEF TablesOK
<1>3. told[i] <= told'[i] /\ missed[i] <= missed'[i]
  BY OnlyMore
<1> QED BY <1>2, <1>3 DEF Known, Larger, Level

\* What is about to be preloaded stays notified.
LEMMA PreloadStep ==
  ASSUME Typed, Alerts, [Next]_vars
  PROVE  PreloadHeard'
<1> USE DEF Typed
<1>1. \A i \in Images : told[i] <= told'[i] /\ told[i] \in Level /\ told'[i] \in Level
  BY OnlyMore, TablesTyped DEF TablesOK
<1>2. CASE UNCHANGED roll
  BY <1>1, <1>2 DEF Alerts, PreloadHeard, RollOK, Level
<1>3. CASE roll'.at \in {"none", "staged"}
  BY <1>3 DEF PreloadHeard
<1>4. CASE Pivot
  <2>1. Tell(roll.new, roll.got) /\ roll' = [roll EXCEPT !.at = "purge"]
    BY <1>4 DEF Pivot
  <2>2. roll.got <= told'[roll.new]
    BY <2>1, Told DEF RollOK
  <2> QED BY <2>1, <2>2 DEF PreloadHeard, RollOK
<1>5. CASE PurgeScanReportsByDigest
  <2>1. roll' = [roll EXCEPT !.at = "preload"] /\ told' = told /\ roll.at = "purge"
    BY <1>5 DEF PurgeScanReportsByDigest, history
  <2> QED BY <2>1 DEF Alerts, PreloadHeard, RollOK
<1>6. CASE Deployment
  <2>1. NoRollout.at = "none"
    BY DEF NoRollout
  <2>2. ASSUME NEW c \in Containers, NEW i \in Images, Stage(c, i) PROVE roll'.at = "staged"
    BY <2>2 DEF Stage
  <2>3. CASE Refused \/ Preload \/ PreloadSkipped
    BY <1>3, <2>1, <2>3 DEF Refused, Preload, PreloadSkipped
  <2> QED BY <1>3, <1>4, <1>5, <1>6, <2>2, <2>3 DEF Deployment
<1>7. CASE Scheduler \/ RescanFails \/ SaveRescanFails
  BY <1>2, <1>7 DEF Scheduler, RescanFails, SaveRescanFails, StartPass, Take, Rescan, SaveRescan, Alert, EndPass
<1>8. CASE \E q \in Questions : Serve(q) \/ ScanFails(q) \/ StoreFails(q) \/ TrivyArrives(q)
  BY <1>2, <1>8 DEF Serve, Look, LookOnDisk, ScanImage, Store, Remember, ScanFails, StoreFails, TrivyArrives
<1>9. CASE Person \/ Poll \/ ServeOverride \/ OverrideSaved \/ NextDay
  BY <1>2, <1>9 DEF Person, Open, Leave, Scan, SubmitOverride, Poll, ServeOverride, OverrideSaved, NextDay
<1>10. CASE Restart
  BY <1>3, <1>10 DEF Restart, NoRollout
<1>11. CASE UNCHANGED vars
  BY <1>2, <1>11 DEF vars
<1> QED BY <1>6, <1>7, <1>8, <1>9, <1>10, <1>11 DEF Next

\* What a pass compares with stays a report somebody was told of.
LEMMA ReferenceStep ==
  ASSUME Typed, Alerts, [Next]_vars
  PROVE  ReferenceHeard'
<1> USE DEF Typed
<1>1. \A i \in Images : Known(i) <= Known(i)' /\ Known(i) \in Level /\ Known(i)' \in Level
  BY KnownMore
<1>3. ASSUME sched'.before = sched.before, sched'.of = sched.of,
             sched.at \in {"scan", "save", "alert"},
             sched'.at = "alert" => sched.before # Absent
      PROVE  ReferenceHeard'
  <2>1. sched.of \in Images /\ sched.before \in Level
    BY DEF SchedOK
  <2>2. PICK i \in Images : i = sched.of
    BY <2>1
  <2>3. sched.before <= Known(i)
    BY <1>3, <2>2 DEF Alerts, ReferenceHeard
  <2>4. sched.before <= Known(i)'
    BY <1>1, <2>1, <2>3 DEF Level
  <2>5. Known(sched.of)' = Known(i)'
    BY <1>3, <2>2 DEF Known
  <2> QED BY <1>3, <2>4, <2>5 DEF ReferenceHeard
<1>4. CASE UNCHANGED sched
  <2>1. CASE sched.at \in {"scan", "save", "alert"}
    BY <1>3, <1>4, <2>1 DEF Alerts, ReferenceHeard
  <2>2. CASE sched.at \notin {"scan", "save", "alert"}
    BY <1>4, <2>2 DEF ReferenceHeard
  <2> QED BY <2>1, <2>2
<1>5. CASE sched'.at \in {"rest", "list"}
  BY <1>5 DEF ReferenceHeard
<1>6. ASSUME NEW x \in sched.todo, Take(x) PROVE ReferenceHeard'
  <2>1. x[2] \in Images /\ sched.at = "list"
    BY <1>6 DEF Take, SchedOK
  <2>2. Before(x[2]) <= Known(x[2])
    BY <2>1 DEF Alerts, Heard, AlertComes, AlertDue
  <2>3. CASE sched' = [sched EXCEPT !.todo = @ \ {x}]
    BY <1>5, <2>1, <2>3 DEF SchedOK
  <2>4. CASE sched' = [sched EXCEPT !.at = "scan", !.todo = @ \ {x}, !.of = x[2],
                                   !.before = IF sched.all THEN Before(x[2]) ELSE Absent]
    <3>1. sched'.at = "scan" /\ sched'.of = x[2] /\ sched'.before \in {Before(x[2]), Absent}
      BY <2>4 DEF SchedOK
    <3>2. Known(sched.of)' = Known(x[2])
      BY <1>6, <3>1 DEF Take, history, Known
    <3>3. Absent <= Known(x[2])
      BY <1>1, <2>1, Levels
    <3> QED BY <2>2, <3>1, <3>2, <3>3 DEF ReferenceHeard
  <2> QED BY <1>6, <2>3, <2>4 DEF Take
<1>7. CASE Rescan
  BY <1>3, <1>7 DEF Rescan, SchedOK
<1>8. CASE SaveRescan \/ SaveRescanFails
  BY <1>3, <1>5, <1>8 DEF SaveRescan, SaveRescanFails, Compares, SchedOK
<1>9. CASE Scheduler \/ RescanFails \/ SaveRescanFails
  <2>1. CASE RescanFails \/ Alert \/ EndPass \/ \E all \in BOOLEAN : StartPass(all)
    <3>1. sched' = Resting \/ \E all : sched' = [sched EXCEPT !.at = "list", !.all = all,
                                                         !.todo = {<<c, image[c]>> : c \in Containers}]
            \/ sched' = [sched EXCEPT !.at = "list"]
      BY <2>1 DEF RescanFails, Alert, EndPass, StartPass
    <3>2. Resting.at = "rest"
      BY DEF Resting
    <3>3. sched'.at \in {"rest", "list"}
      BY <3>1, <3>2 DEF SchedOK
    <3> QED BY <1>5, <3>3
  <2> QED BY <1>6, <1>7, <1>8, <1>9, <2>1 DEF Scheduler
<1>10. CASE Deployment
  BY <1>4, <1>10 DEF Deployment, Stage, Refused, Pivot, PurgeScanReportsByDigest, Preload, PreloadSkipped
<1>11. CASE \E q \in Questions : Serve(q) \/ ScanFails(q) \/ StoreFails(q) \/ TrivyArrives(q)
  BY <1>4, <1>11 DEF Serve, Look, LookOnDisk, ScanImage, Store, Remember, ScanFails, StoreFails, TrivyArrives
<1>12. CASE Person \/ Poll \/ ServeOverride \/ OverrideSaved \/ NextDay
  BY <1>4, <1>12 DEF Person, Open, Leave, Scan, SubmitOverride, Poll, ServeOverride, OverrideSaved, NextDay
<1>13. CASE Restart
  BY <1>5, <1>13 DEF Restart, Resting
<1>14. CASE UNCHANGED vars
  BY <1>4, <1>14 DEF vars
<1> QED BY <1>9, <1>10, <1>11, <1>12, <1>13, <1>14 DEF Next

\* Every saved report has been told, or the alert under way will make up for it.
LEMMA HeardStep ==
  ASSUME Typed, Alerts, [Next]_vars
  PROVE  Heard'
<1> USE DEF Typed
<1>1. \A i \in Images : Known(i) <= Known(i)' /\ told'[i] <= Known(i)' /\ missed'[i] <= Known(i)'
                        /\ Known(i) \in Level /\ Known(i)' \in Level /\ Before(i) \in Level
  BY KnownMore, BeforeTyped
<1>2. TablesOK' /\ \A i \in Images : told'[i] \in Level /\ missed'[i] \in Level
  BY TablesTyped DEF TablesOK
<1>3. ASSUME NEW i \in Images, Before(i)' = Before(i), ~AlertComes(i)
      PROVE  Before(i)' <= Known(i)'
  BY <1>1, <1>3 DEF Alerts, Heard, Level
<1>4. ASSUME NEW i \in Images, Before(i)' = Before(i), AlertComes(i), UNCHANGED sched
      PROVE  AlertComes(i)'
  <2>1. Larger(Known(i), sched.got) <= Larger(Known(i)', sched.got)
    BY <1>1 DEF Larger, SchedOK, Level
  <2>2. Larger(Known(i), sched.got) \in Level /\ Larger(Known(i)', sched.got) \in Level
    BY <1>1, Levels DEF SchedOK
  <2>3. Before(i) <= Larger(Known(i), sched.got)
    BY <1>4 DEF AlertComes
  <2>4. Before(i) <= Larger(Known(i)', sched.got)
    BY <1>1, <2>1, <2>2, <2>3 DEF Level
  <2> QED BY <1>4, <2>4 DEF AlertComes, AlertDue
<1>5. CASE UNCHANGED sched /\ \A i \in Images : Before(i)' = Before(i)
  BY <1>3, <1>4, <1>5 DEF Heard
<1>6. ASSUME UNCHANGED sched, NEW j \in Images, Before(j)' <= Known(j)',
             \A i \in Images \ {j} : Before(i)' = Before(i)
      PROVE  Heard'
  BY <1>3, <1>4, <1>6 DEF Heard
<1>7. CASE sched.at # "alert" /\ \A i \in Images : Before(i)' = Before(i)
  BY <1>3, <1>7 DEF Heard, AlertComes, AlertDue
<1>8. UNCHANGED cache => \A i \in Images : Before(i)' = Before(i)
  BY DEF cache, Before
<1>9. CASE SaveRescan
  <2>1. sched.of \in Images /\ sched.got \in Level /\ SaveScanReport(<<sched.of, Global>>, sched.got)
    BY <1>9 DEF SaveRescan, SchedOK
  <2>2. \A j \in Images : Before(j)' = IF j = sched.of THEN sched.got ELSE Before(j)
    BY <2>1, SavedBefore, ReportsAssumption
  <2>3. \A j \in Images \ {sched.of} : Before(j)' <= Known(j)'
    BY <1>3, <1>9, <2>2 DEF SaveRescan, AlertComes, AlertDue
  <2>4. CASE sched.before = Absent
    <3>1. Tell(sched.of, sched.got) \/ Miss(sched.of, sched.got)
      BY <1>9, <2>4 DEF SaveRescan
    <3>2. sched.got <= told'[sched.of] \/ sched.got <= missed'[sched.of]
      BY <2>1, <3>1, Told, Missed
    <3>3. \A j \in Images : j = sched.of => sched.got <= Known(j)'
      BY <1>1, <1>2, <2>1, <3>2 DEF Level
    <3> QED BY <2>2, <2>3, <3>3 DEF Heard
  <2>5. CASE sched.before # Absent
    <3>1. sched' = [sched EXCEPT !.at = "alert"]
      BY <1>9, <2>5 DEF SaveRescan, Compares
    <3>2. sched'.at = "alert" /\ sched'.of = sched.of /\ sched'.got = sched.got
      BY <3>1 DEF SchedOK
    <3>3. \A i \in Images : sched.got <= Larger(Known(i)', sched.got)
      BY <1>1, <2>1, Levels
    <3>4. \A i \in Images : i = sched.of => AlertComes(i)'
      BY <2>1, <2>2, <3>2, <3>3 DEF AlertComes, AlertDue
    <3> QED BY <2>3, <3>4 DEF Heard
  <2> QED BY <2>4, <2>5
<1>10. CASE Alert
  <2>1. \A i \in Images : Before(i)' = Before(i)
    BY <1>8, <1>10 DEF Alert
  <2>2. \A i \in Images \ {sched.of} : Before(i)' <= Known(i)'
    BY <1>3, <2>1 DEF AlertComes, AlertDue
  <2>3. sched.of \in Images /\ sched.got \in Level /\ sched.before \in Level /\ sched.at = "alert"
    BY <1>10 DEF Alert, SchedOK
  <2>4. PICK i \in Images : i = sched.of
    BY <2>3
  <2>5. sched.got <= Known(i)'
    <3>1. CASE Worse(sched.before, sched.got)
      <4>1. sched.got <= told'[i]
        BY <1>10, <2>3, <2>4, <3>1, Told DEF Alert
      <4> QED BY <1>1, <1>2, <2>3, <4>1 DEF Level
    <3>2. CASE ~Worse(sched.before, sched.got)
      <4>1. sched.got <= sched.before /\ sched.before <= Known(i)
        BY <2>3, <2>4, <3>2 DEF Worse, Alerts, ReferenceHeard, Level
      <4> QED BY <1>1, <2>3, <4>1 DEF Level
    <3> QED BY <3>1, <3>2
  <2>6. Before(i) <= Known(i)'
    <3>1. Before(i) <= Known(i) \/ Before(i) <= Larger(Known(i), sched.got)
      BY DEF Alerts, Heard, AlertComes
    <3> QED BY <1>1, <2>3, <2>5, <3>1 DEF Larger, Level
  <2> QED BY <2>1, <2>2, <2>4, <2>6 DEF Heard
<1>11. CASE PurgeScanReportsByDigest
  <2>1. UNCHANGED sched /\ latest' = [latest EXCEPT ![roll.old] = "none"]
           /\ disk' = [k \in Keys |-> IF k[1] = roll.old THEN Absent ELSE disk[k]]
    BY <1>11 DEF PurgeScanReportsByDigest
  <2>2. \A i \in Images \ {roll.old} : Before(i)' = Before(i)
    <3> TAKE i \in Images \ {roll.old}
    <3>1. latest'[i] = latest[i]
      BY <2>1 DEF TablesOK
    <3>2. latest[i] # "none" => disk'[<<i, latest[i]>>] = disk[<<i, latest[i]>>]
      BY <2>1 DEF TablesOK, Keys
    <3> QED BY <3>1, <3>2 DEF Before
  <2>3. PICK i \in Images : i = roll.old
    BY DEF RollOK
  <2>4. Before(i)' = Absent
    <3>1. latest'[i] = "none"
      BY <2>1, <2>3 DEF TablesOK
    <3> QED BY <3>1 DEF Before
  <2>5. Absent <= Known(i)'
    BY <1>1, Levels
  <2> QED BY <1>6, <2>1, <2>2, <2>3, <2>4, <2>5
<1>12. CASE Preload
  <2>1. \A j \in Images : Before(j)' = IF j = roll.new THEN roll.got ELSE Before(j)
    BY <1>12, SavedBefore, ReportsAssumption DEF Preload, RollOK
  <2>2. roll.got <= told[roll.new] /\ UNCHANGED <<history, sched>>
    BY <1>12 DEF Preload, Alerts, PreloadHeard
  <2>3. PICK j \in Images : j = roll.new
    BY DEF RollOK
  <2>4. Before(j)' <= Known(j)'
    <3>1. roll.got <= told'[j] /\ told'[j] <= Known(j)' /\ roll.got \in Level
      BY <1>1, <2>2, <2>3 DEF history, RollOK
    <3> QED BY <1>1, <1>2, <2>1, <2>3, <3>1 DEF Level
  <2> QED BY <1>6, <2>1, <2>2, <2>3, <2>4
<1>13. ASSUME NEW q \in Questions, Store(q) PROVE Heard'
  <2>1. question[q].on \in Images /\ question[q].by \in Scanners /\ question[q].got \in Level
    BY <1>13 DEF Store, QuestionOK, InHand
  <2>2. \A j \in Images : Before(j)' = IF j = question[q].on THEN question[q].got ELSE Before(j)
    BY <1>13, <2>1, SavedBefore DEF Store
  <2>3. PICK j \in Images : j = question[q].on
    BY <2>1
  <2>4. Before(j)' <= Known(j)'
    <3>1. question[q].got <= told'[j] /\ told'[j] <= Known(j)'
      BY <1>1, <1>13, <2>1, <2>3, Told DEF Store
    <3> QED BY <1>1, <1>2, <2>1, <2>2, <2>3, <3>1 DEF Level
  <2> QED BY <1>6, <1>13, <2>2, <2>3, <2>4 DEF Store
<1>14. ASSUME NEW q \in Questions, Remember(q) PROVE Heard'
  BY <1>5, <1>14 DEF Remember, Before
<1>15. CASE Restart
  <2>1. \A i \in Images : Before(i)' = Before(i)
    BY <1>15 DEF Restart, Before
  <2>2. ASSUME NEW i \in Images, AlertComes(i) PROVE Before(i)' <= Known(i)'
    <3>1. sched.got \in Level /\ Before(i) <= Larger(Known(i), sched.got) /\ Miss(i, sched.got)
      BY <1>15, <2>2 DEF Restart, AlertComes, AlertDue, SchedOK
    <3>2. sched.got <= missed'[i]
      BY <3>1, Missed
    <3> QED BY <1>1, <1>2, <2>1, <3>1, <3>2 DEF Larger, Level
  <2> QED BY <1>3, <2>1, <2>2 DEF Heard
<1>16. CASE Scheduler \/ RescanFails \/ SaveRescanFails
  <2>1. CASE RescanFails \/ SaveRescanFails \/ EndPass \/ Rescan \/ (\E all \in BOOLEAN : StartPass(all))
             \/ (\E x \in sched.todo : Take(x))
    BY <1>7, <1>8, <2>1 DEF RescanFails, SaveRescanFails, EndPass, Rescan, StartPass, Take
  <2> QED BY <1>9, <1>10, <1>16, <2>1 DEF Scheduler
<1>17. CASE Deployment
  BY <1>5, <1>8, <1>11, <1>12, <1>17 DEF Deployment, Stage, Refused, Pivot, PreloadSkipped
<1>18. CASE \E q \in Questions : Serve(q) \/ ScanFails(q) \/ StoreFails(q) \/ TrivyArrives(q)
  BY <1>5, <1>8, <1>13, <1>14, <1>18 DEF Serve, Look, LookOnDisk, ScanImage, ScanFails, StoreFails, TrivyArrives
<1>19. CASE Person \/ Poll \/ ServeOverride \/ OverrideSaved \/ NextDay
  BY <1>5, <1>8, <1>19
     DEF Person, Open, Leave, Scan, SubmitOverride, Poll, ServeOverride, OverrideSaved, NextDay
<1>20. CASE UNCHANGED vars
  BY <1>5, <1>8, <1>20 DEF vars
<1> QED
  BY <1>15, <1>16, <1>17, <1>18, <1>19, <1>20 DEF Next

\* However scans of pages, passes of the scheduler and rollouts cross each
\* other, and whichever scans and saves fail, nothing worse gets into the latest
\* report of an image that nobody is told of, but by an alert that a death of the
\* process or a report stored after the scan began lost; what gets worse after that
\* is told again (scheduler.go:123-133, 157-222, handlers.go:600-609).
THEOREM NobodyMissesAnAlert == Spec => []AlertsNotLost
<1>1. Init => Alerts
  <2> SUFFICES ASSUME Init PROVE Alerts
    OBVIOUS
  <2>1. \A i \in Images : Before(i) = Absent /\ Known(i) = Absent
    BY DEF Init, Before, Known, Larger
  <2>2. Absent <= Absent
    BY DEF Absent
  <2>3. sched.at = "rest" /\ roll.at = "none"
    BY DEF Init, Resting, NoRollout
  <2> QED BY <2>1, <2>2, <2>3 DEF Alerts, Heard, ReferenceHeard, PreloadHeard
<1>2. Typed /\ Alerts /\ [Next]_vars => Alerts'
  BY HeardStep, ReferenceStep, PreloadStep DEF Alerts
<1>3. Alerts => AlertsNotLost
  BY DEF Alerts, Heard, AlertComes, AlertsNotLost, Known
<1> QED BY <1>1, <1>2, <1>3, TypedAlways, PTL DEF Spec

=============================================================================
