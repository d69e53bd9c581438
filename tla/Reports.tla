------------------------------ MODULE Reports ------------------------------
(***************************************************************************)
(* Reports of vulnerabilities: who writes them, who reads them.            *)
(*                                                                         *)
(*   disk   the table scan_reports, by image and scanner (db.go)           *)
(*   mem    the map trivyCache in front of it (handlers.go)                *)
(*   sched  the goroutine of the scheduler: every five minutes it scans    *)
(*          what was never scanned, every day it scans everything again    *)
(*          and raises an alert when an unchanged image got worse          *)
(*   roll   the end of a rollout: notification, purge, preload             *)
(*   page   the page of one container (ContainerDetailView.jsx): the scans *)
(*          a person asks for, and the scanner chosen for the container    *)
(*                                                                         *)
(* What a scan finds depends on its day only: a report is the day of its   *)
(* scan, and a later report holds more vulnerabilities; no scanner finds   *)
(* what another does not.  An image is its content hash.  A container has  *)
(* another identifier once its image has changed, so the page keeps the    *)
(* image it was opened on.  An image that replaces another is never        *)
(* replaced again.                                                         *)
(***************************************************************************)
EXTENDS Integers, FiniteSets

CONSTANTS Containers, Images, Scanners,
          Shown,         \* the container whose page a person opens
          First,         \* the image that all containers run at the start
          Global,        \* scanner of the global settings
          Staging,       \* scanner of the rollouts, "trivy"
          Questions,     \* scans that pages may have in flight
          Scenarios      \* bounds, one of which a behaviour keeps to: the last day,
                         \* scans asked for by pages, containers updated, failed
                         \* scans and restarts, writes of the override

ASSUME ReportsAssumption ==
    /\ Shown \in Containers /\ First \in Images /\ {Global, Staging} \subseteq Scanners
    /\ IsFiniteSet(Containers) /\ IsFiniteSet(Images)
    /\ Scenarios \subseteq [days : Nat, asks : Nat, updates : Nat, faults : Nat, writes : Nat]
    /\ {"", "none"} \cap Scanners = {}

VARIABLES
    day, image,         \* the day, and the image of every container
    disk, latest, mem,  \* the reports, and the scanner of the last one written
    stored,             \* scanner of the override in the table: "none" without a
                        \* row, "" when the row says nothing of the scanner
    sched, roll,        \* the scheduler and a rollout
    page, write,        \* the page, and its write of the override in flight
    question,           \* the scans asked for by the page
    limit,              \* the scenario; never changes
    asks, faults, writes,  \* bounded counters
    told,               \* history: last day of which a person knows, by image
    missed,             \* history: worst report of an image whose alert was lost
    crossed             \* history: this page asked twice at once

cache == <<disk, latest, mem>>
world == <<limit, day, image>>
history == <<told, missed>>
screen == <<page, write, question, asks, writes, crossed>>
vars == <<world, cache, stored, sched, roll, screen, faults, history>>

Absent == -1
Days == 0 .. limit.days
Report == Days \cup {Absent}
Keys == Images \X Scanners

Larger(a, b) == IF a > b THEN a ELSE b

Resting == [at |-> "rest", all |-> FALSE, todo |-> {}, of |-> First, before |-> Absent, got |-> Absent]

NoRollout == [at |-> "none", of |-> Shown, old |-> First, new |-> First, got |-> Absent]

Closed == [at |-> "closed", on |-> First, listed |-> First,
           report |-> Absent, by |-> "", last |-> "", failed |-> FALSE, loading |-> FALSE]

NoWrite == [at |-> "none", delete |-> FALSE, chosen |-> "", mine |-> FALSE]

NoQuestion == [at |-> "none", on |-> First, by |-> "", got |-> Absent, mine |-> FALSE]

Init ==
    /\ limit \in Scenarios
    /\ day = 0
    /\ image = [c \in Containers |-> First]
    /\ disk = [k \in Keys |-> Absent]
    /\ latest = [i \in Images |-> "none"]
    /\ mem = [k \in Keys |-> Absent]
    /\ stored \in {"none"} \cup (Scanners \ {Global})
    /\ sched = Resting /\ roll = NoRollout
    /\ page = Closed /\ write = NoWrite
    /\ question = [q \in Questions |-> NoQuestion]
    /\ asks = 0 /\ faults = 0 /\ writes = 0
    /\ told = [i \in Images |-> Absent] /\ missed = [i \in Images |-> Absent]
    /\ crossed = FALSE

Fault == faults < limit.faults /\ faults' = faults + 1

-----------------------------------------------------------------------------
(* The table and the memory *)

SaveScanReport(k, r) ==
    /\ disk' = [disk EXCEPT ![k] = r]
    /\ latest' = [latest EXCEPT ![k[1]] = k[2]]

Tell(i, r) == told' = [told EXCEPT ![i] = Larger(@, r)] /\ missed' = missed

Miss(i, r) == missed' = [missed EXCEPT ![i] = Larger(@, r)] /\ told' = told

\* The reference of an alert: the last report of the image, whoever asked for it.
Before(i) == IF latest[i] = "none" THEN Absent ELSE disk[<<i, latest[i]>>]

\* Mutant: the comparison is the wrong way round.
WorseReversed(before, got) == before # Absent /\ got < before

Worse(before, got) == before # Absent /\ got > before

-----------------------------------------------------------------------------
(* The scheduler *)

\* A pass begins: the daily one over everything, or the quick one.  Where no
\* day passes there is no daily one, and a quick one that would leave out
\* everything is left out.
StartPass(all) ==
    /\ sched.at = "rest"
    /\ IF all THEN limit.days > 0 ELSE \E c \in Containers : latest[image[c]] = "none"
    /\ sched' = [sched EXCEPT !.at = "list", !.all = all,
                              !.todo = {<<c, image[c]>> : c \in Containers}]
    /\ UNCHANGED <<world, cache, stored, roll, screen, faults, history>>

\* Mutant: the test of the error is the wrong way round.
SkipsUnknown(i) == latest[i] = "none"

\* The quick pass leaves out what has a report.
Skips(i) == latest[i] # "none"

Take(x) ==
    /\ sched.at = "list" /\ x \in sched.todo
    /\ IF ~sched.all /\ Skips(x[2])
       THEN sched' = [sched EXCEPT !.todo = @ \ {x}]
       ELSE sched' = [sched EXCEPT !.at = "scan", !.todo = @ \ {x}, !.of = x[2],
                                   !.before = IF sched.all THEN Before(x[2]) ELSE Absent]
    /\ UNCHANGED <<world, cache, stored, roll, screen, faults, history>>

Rescan ==
    /\ sched.at = "scan"
    /\ sched' = [sched EXCEPT !.at = "save", !.got = day]
    /\ UNCHANGED <<world, cache, stored, roll, screen, faults, history>>

RescanFails ==
    /\ sched.at = "scan" /\ Fault
    /\ sched' = [sched EXCEPT !.at = "list"]
    /\ UNCHANGED <<world, cache, stored, roll, screen, history>>

\* An image that had no report when its scan began raises no alert.
Compares == IF sched.before = Absent THEN "list" ELSE "alert"

\* The report is saved, then compared.  The first of an image is the reference;
\* one that replaces a report stored since the scan began is news to nobody.
SaveRescan ==
    /\ sched.at = "save"
    /\ SaveScanReport(<<sched.of, Global>>, sched.got)
    /\ sched' = [sched EXCEPT !.at = Compares]
    /\ IF sched.before # Absent THEN UNCHANGED history
       ELSE IF latest[sched.of] = "none" THEN Tell(sched.of, sched.got)
       ELSE Miss(sched.of, sched.got)
    /\ UNCHANGED <<world, mem, stored, roll, screen, faults>>

\* Nobody looks at the error of the save.
SaveRescanFails ==
    /\ sched.at = "save" /\ Fault
    /\ sched' = [sched EXCEPT !.at = Compares]
    /\ UNCHANGED <<world, cache, stored, roll, screen, history>>

Alert ==
    /\ sched.at = "alert"
    /\ sched' = [sched EXCEPT !.at = "list"]
    /\ IF Worse(sched.before, sched.got) THEN Tell(sched.of, sched.got) ELSE UNCHANGED history
    /\ UNCHANGED <<world, cache, stored, roll, screen, faults>>

EndPass ==
    /\ sched.at = "list" /\ sched.todo = {}
    /\ sched' = Resting
    /\ UNCHANGED <<world, cache, stored, roll, screen, faults, history>>

-----------------------------------------------------------------------------
(* The end of a rollout *)

Stage(c, new) ==
    /\ roll.at = "none"
    /\ image[c] = First /\ new # First
    /\ Cardinality({d \in Containers : image[d] # First}) < limit.updates
    /\ roll' = [at |-> "staged", of |-> c, old |-> image[c], new |-> new, got |-> day]
    /\ UNCHANGED <<world, cache, stored, sched, screen, faults, history>>

Refused ==
    /\ roll.at = "staged"
    /\ roll' = NoRollout
    /\ UNCHANGED <<world, cache, stored, sched, screen, faults, history>>

\* The new image is in service; the notification compares the reports.
Pivot ==
    /\ roll.at = "staged"
    /\ roll' = [roll EXCEPT !.at = "purge"]
    /\ image' = [image EXCEPT ![roll.of] = roll.new]
    /\ Tell(roll.new, roll.got)
    /\ UNCHANGED <<limit, day, cache, stored, sched, screen, faults>>

\* Mutant: only the report of the scanner of the rollouts is deleted.
PurgeOne ==
    LET gone == {<<roll.old, Staging>>}
    IN  /\ roll.at = "purge"
        /\ roll' = [roll EXCEPT !.at = "preload"]
        /\ disk' = [k \in Keys |-> IF k \in gone THEN Absent ELSE disk[k]]
        /\ latest' = [latest EXCEPT ![roll.old] = "none"]
        /\ UNCHANGED <<world, mem, stored, sched, screen, faults, history>>

PurgeScanReportsByDigest ==
    LET gone == {k \in Keys : k[1] = roll.old}
    IN  /\ roll.at = "purge"
        /\ roll' = [roll EXCEPT !.at = "preload"]
        /\ disk' = [k \in Keys |-> IF k \in gone THEN Absent ELSE disk[k]]
        /\ latest' = [latest EXCEPT ![roll.old] = "none"]
        /\ UNCHANGED <<world, mem, stored, sched, screen, faults, history>>

Preload ==
    /\ roll.at = "preload"
    /\ roll' = NoRollout
    /\ SaveScanReport(<<roll.new, Staging>>, roll.got)
    /\ UNCHANGED <<world, mem, stored, sched, screen, faults, history>>

\* The client is gone: its context keeps the new image from being inspected.
PreloadSkipped ==
    /\ roll.at = "preload" /\ Fault
    /\ roll' = NoRollout
    /\ UNCHANGED <<world, cache, stored, sched, screen, history>>

-----------------------------------------------------------------------------
(* getTrivyReport: one request *)

\* Mutant: the override of the container wins over the choice of the person.
ScannerByOverride(asked) ==
    IF stored \in Scanners THEN stored ELSE IF asked # "" THEN asked ELSE Global

\* The scanner asked for, else the one of the override, else the global one.
Scanner(asked) ==
    IF asked # "" THEN asked ELSE IF stored \in Scanners THEN stored ELSE Global

Moves(q, at) == question' = [question EXCEPT ![q].at = at]

\* An answer goes to the page, if it is still there.
Replies(q, at) ==
    IF question[q].mine THEN Moves(q, at) ELSE question' = [question EXCEPT ![q] = NoQuestion]

\* The container is inspected, the scanner resolved, the memory read.
Look(q) ==
    LET s == Scanner(question[q].by)
        r == mem[<<question[q].on, s>>]
    IN  /\ question[q].at = "sent"
        /\ IF question[q].on # image[Shown] THEN Replies(q, "failed")
           ELSE IF r # Absent /\ ~question[q].mine THEN Replies(q, "answered")
           ELSE question' = [question EXCEPT
                               ![q].by = s, ![q].got = r,
                               ![q].at = IF r = Absent THEN "disk" ELSE "answered"]
        /\ UNCHANGED <<world, cache, stored, sched, roll, page, write, asks, writes, crossed, faults, history>>

LookOnDisk(q) ==
    LET r == disk[<<question[q].on, question[q].by>>]
    IN  /\ question[q].at = "disk"
        /\ question' = [question EXCEPT ![q].at = IF r = Absent THEN "scan" ELSE "read", ![q].got = r]
        /\ UNCHANGED <<world, cache, stored, sched, roll, page, write, asks, writes, crossed, faults, history>>

ScanImage(q) ==
    /\ question[q].at = "scan"
    /\ question' = [question EXCEPT ![q].at = "scanned", ![q].got = day]
    /\ UNCHANGED <<world, cache, stored, sched, roll, page, write, asks, writes, crossed, faults, history>>

ScanFails(q) ==
    /\ question[q].at = "scan" /\ Fault
    /\ Replies(q, "failed")
    /\ UNCHANGED <<world, cache, stored, sched, roll, page, write, asks, writes, crossed, history>>

\* Two requests that scan the same image by the same scanner both save.
Store(q) ==
    /\ question[q].at = "scanned"
    /\ Moves(q, "saved")
    /\ SaveScanReport(<<question[q].on, question[q].by>>, question[q].got)
    /\ Tell(question[q].on, question[q].got)
    /\ UNCHANGED <<world, mem, stored, sched, roll, page, write, asks, writes, crossed, faults>>

\* A save that fails is logged; the memory is filled, and the page answered, all
\* the same.
StoreFails(q) ==
    /\ question[q].at = "scanned" /\ Fault
    /\ Moves(q, "saved")
    /\ UNCHANGED <<world, cache, stored, sched, roll, page, write, asks, writes, crossed, history>>

\* What was read from the table, or scanned, fills the memory.
Remember(q) ==
    /\ question[q].at \in {"read", "saved"}
    /\ mem' = [mem EXCEPT ![<<question[q].on, question[q].by>>] = question[q].got]
    /\ Replies(q, "answered")
    /\ UNCHANGED <<world, disk, latest, stored, sched, roll, page, write, asks, writes, crossed,
                   faults, history>>

Serve(q) == Look(q) \/ LookOnDisk(q) \/ ScanImage(q) \/ Store(q) \/ Remember(q)
-----------------------------------------------------------------------------
(* The page of the container *)

\* The page shows its container, not "Conteneur non sélectionné".
OnScreen == page.at = "open" /\ page.listed = page.on

\* fetchTrivy: the page waits and forgets the last error.
Ask(asked, p) ==
    LET free == {q \in Questions : question[q] = NoQuestion}
        q == CHOOSE q \in free : TRUE
    IN  /\ asks < limit.asks /\ asks' = asks + 1
        /\ free # {}
        /\ question' = [question EXCEPT ![q] = [at |-> "sent", on |-> p.on, by |-> asked,
                                               got |-> Absent, mine |-> TRUE]]
        /\ page' = [p EXCEPT !.loading = TRUE, !.failed = FALSE, !.last = asked]
        /\ crossed' = (crossed \/ \E other \in Questions : question[other].mine)

\* The list may still name the container by its former identifier.  The page
\* asks before its form is filled.
Open(on) ==
    /\ page.at = "closed"
    /\ on \in {image[Shown], First}
    /\ crossed = FALSE
    /\ Ask("", [Closed EXCEPT !.at = "open", !.on = on, !.listed = on])
    /\ UNCHANGED <<world, cache, stored, sched, roll, write, writes, faults, history>>

\* Nobody waits for the answers any more; the server serves the questions.
Leave ==
    /\ page.at = "open"
    /\ page' = Closed
    /\ question' = [q \in Questions |->
                      IF question[q].at \in {"answered", "failed"} THEN NoQuestion
                      ELSE [question[q] EXCEPT !.mine = FALSE]]
    /\ write' = [write EXCEPT !.mine = FALSE]
    /\ crossed' = FALSE
    /\ UNCHANGED <<world, cache, stored, sched, roll, asks, writes, faults, history>>

\* The list is read again.  A container that was replaced is no longer in it.
Refreshed(p) == [p EXCEPT !.listed = image[Shown]]

Poll ==
    /\ page.at = "open"
    /\ page' = Refreshed(page)
    /\ UNCHANGED <<world, cache, stored, sched, roll, write, writes, question, asks, crossed,
                   faults, history>>

\* The button "Scanner", disabled while the page waits.
Scan(chosen) ==
    /\ OnScreen /\ ~page.loading
    /\ Ask(chosen, page)
    /\ UNCHANGED <<world, cache, stored, sched, roll, write, writes, faults, history>>

\* "Enregistrer" and "Supprimer".  The scan that follows an answer is by the
\* scanner chosen when the button was pressed.
SubmitOverride(delete, chosen) ==
    /\ OnScreen /\ write.at = "none"
    /\ writes < limit.writes /\ writes' = writes + 1
    /\ write' = [at |-> "sent", delete |-> delete, chosen |-> chosen, mine |-> TRUE]
    /\ UNCHANGED <<world, cache, stored, sched, roll, page, question, asks, crossed, faults, history>>

\* The page sends the scanner under a name the server does not read: what is
\* stored is an override that says nothing.
ServeOverride ==
    /\ write.at = "sent"
    /\ write' = [write EXCEPT !.at = "served"]
    /\ stored' = IF write.delete THEN "none" ELSE ""
    /\ UNCHANGED <<world, cache, sched, roll, page, question, asks, writes, crossed, faults, history>>

\* The slice is read again, then the page scans, waiting already or not.  On a
\* page that was left, nothing of it shows.
OverrideSaved ==
    /\ write.at = "served"
    /\ write' = NoWrite
    /\ IF write.mine /\ asks < limit.asks THEN Ask(write.chosen, Refreshed(page))
       ELSE UNCHANGED <<page, question, asks, crossed>>
    /\ UNCHANGED <<world, cache, stored, sched, roll, writes, faults, history>>

\* Mutant: an error leaves the page as it was before the question.
ArrivedSilently(p, a) ==
    IF a.at = "failed" THEN [p EXCEPT !.loading = FALSE]
    ELSE [p EXCEPT !.loading = FALSE, !.report = a.got, !.by = a.by]

\* Mutant: only an answer with a report ends the waiting.
ArrivedWaiting(p, a) ==
    IF a.at = "failed" THEN [p EXCEPT !.failed = TRUE]
    ELSE [p EXCEPT !.loading = FALSE, !.report = a.got, !.by = a.by]

\* Either answer ends the waiting, also when another is still on its way.
Arrived(p, a) ==
    IF a.at = "failed" THEN [p EXCEPT !.loading = FALSE, !.failed = TRUE]
    ELSE [p EXCEPT !.loading = FALSE, !.report = a.got, !.by = a.by]

TrivyArrives(q) ==
    /\ question[q].at \in {"answered", "failed"}
    /\ question' = [question EXCEPT ![q] = NoQuestion]
    /\ page' = Arrived(page, question[q])
    /\ UNCHANGED <<world, cache, stored, sched, roll, write, asks, writes, crossed, faults, history>>

-----------------------------------------------------------------------------
(* The world *)

NextDay ==
    /\ day < limit.days
    /\ day' = day + 1
    /\ UNCHANGED <<limit, image, cache, stored, sched, roll, screen, faults, history>>

\* The process dies: with it the memory, the pass, the rollout and the requests.
Restart ==
    /\ Fault
    /\ mem' = [k \in Keys |-> Absent]
    /\ IF sched.at = "alert" THEN Miss(sched.of, sched.got) ELSE UNCHANGED history
    /\ sched' = Resting
    /\ roll' = NoRollout
    /\ write' = NoWrite
    /\ question' = [q \in Questions |->
                      IF question[q].at = "answered" THEN question[q]
                      ELSE IF ~question[q].mine THEN NoQuestion
                      ELSE [question[q] EXCEPT !.at = "failed"]]
    /\ UNCHANGED <<world, disk, latest, stored, page, asks, writes, crossed>>

Scheduler ==
    \/ \E all \in BOOLEAN : StartPass(all)
    \/ \E x \in sched.todo : Take(x)
    \/ Rescan
    \/ SaveRescan
    \/ Alert
    \/ EndPass

Deployment ==
    \/ \E c \in Containers, i \in Images : Stage(c, i)
    \/ Refused
    \/ Pivot
    \/ PurgeScanReportsByDigest
    \/ Preload
    \/ PreloadSkipped

Person ==
    \/ \E on \in Images : Open(on)
    \/ Leave
    \/ \E chosen \in Scanners \cup {""} : Scan(chosen)
    \/ \E delete \in BOOLEAN, chosen \in Scanners \cup {""} : SubmitOverride(delete, chosen)

Next ==
    \/ Scheduler
    \/ RescanFails
    \/ SaveRescanFails
    \/ Deployment
    \/ \E q \in Questions : Serve(q) \/ ScanFails(q) \/ StoreFails(q) \/ TrivyArrives(q)
    \/ Person
    \/ Poll
    \/ ServeOverride
    \/ OverrideSaved
    \/ NextDay
    \/ Restart

\* The goroutine of the scheduler runs, a request is served and its answer
\* arrives.  A rollout, a person and a poll owe nothing.
Fairness ==
    /\ WF_vars(Scheduler)
    /\ \A q \in Questions : WF_vars(Serve(q)) /\ WF_vars(TrivyArrives(q))

Spec == Init /\ [][Next]_vars /\ Fairness

-----------------------------------------------------------------------------
(* Properties *)

\* What every variable may hold.
TypeOK ==
    /\ day \in Days /\ image \in [Containers -> Images]
    /\ disk \in [Keys -> Report] /\ mem \in [Keys -> Report]
    /\ latest \in [Images -> Scanners \cup {"none"}]
    /\ \A i \in Images : latest[i] = "none" <=> \A s \in Scanners : disk[<<i, s>>] = Absent
    /\ \A i \in Images : latest[i] # "none" => disk[<<i, latest[i]>>] # Absent
    /\ stored \in Scanners \cup {"", "none"}
    /\ sched \in [at : {"rest", "list", "scan", "save", "alert"}, all : BOOLEAN,
                  todo : SUBSET (Containers \X Images), of : Images, before : Report, got : Report]
    /\ roll \in [at : {"none", "staged", "purge", "preload"}, of : Containers,
                 old : Images, new : Images, got : Report]
    /\ page \in [at : {"closed", "open"}, on : Images, listed : Images,
                 report : Report, by : Scanners \cup {""}, last : Scanners \cup {""},
                 failed : BOOLEAN, loading : BOOLEAN]
    /\ write \in [at : {"none", "sent", "served"}, delete : BOOLEAN,
                  chosen : Scanners \cup {""}, mine : BOOLEAN]
    /\ question \in [Questions ->
                      [at : {"none", "sent", "disk", "read", "scan", "scanned", "saved",
                             "answered", "failed"},
                       on : Images, by : Scanners \cup {""}, got : Report, mine : BOOLEAN]]
    /\ limit \in Scenarios /\ asks \in 0 .. limit.asks
    /\ faults \in 0 .. limit.faults /\ writes \in 0 .. limit.writes
    /\ told \in [Images -> Report] /\ missed \in [Images -> Report]
    /\ crossed \in BOOLEAN

\* "Aucune faille détectée" is never shown for want of a report: whatever
\* questions and answers cross each other, a page that neither waits nor shows
\* an error has received a report (ContainerDetailView.jsx:335-347).
NoFalseAllClear ==
    OnScreen /\ ~page.loading /\ ~page.failed => page.report # Absent

\* The report on the screen is by the scanner the person last asked for, unless
\* the page asked twice at once, which "Enregistrer" makes possible.
ShownIsAsked ==
    OnScreen /\ ~page.loading /\ ~page.failed /\ ~crossed /\ page.last # "" => page.by = page.last

\* An alert about the latest report of i is still to come.
AlertDue(i) == sched.at = "alert" /\ sched.of = i

\* What the table holds is news to nobody: a vulnerability gets into the latest
\* report of an image by a scan that a person asked for (it counts as told, also
\* when the person left before the answer), by the first report of the image, by
\* a rollout that notified it, or else an alert is raised.  Two ways to lose an
\* alert are known: the process dies between the report and the alert, or the
\* report replaces one that was stored after the scan began; both lose that one
\* alert, and the next scan that finds more raises its own
\* (scheduler.go:123-133, 157-222).
AlertsNotLost ==
    \A i \in Images : Before(i) <= Larger(told[i], missed[i]) \/ AlertDue(i)

\* What lifecycle.go:327-328 and handlers.go:816-818 say: a rollout purges the reports
\* of an image that no container runs any more, and the memory with the table.  Then
\* no page is answered, about an image in service, with a report the table lost.
PurgedIsGone ==
    [][\A q \in Questions :
          question[q].at = "sent" /\ question'[q].at = "answered"
          => disk[<<question'[q].on, question'[q].by>>] # Absent]_vars

\* A scan that a page waits for ends, with a report or an error, or the person
\* leaves.
ScanEnds == page.loading ~> ~page.loading

\* An image in service without a report gets one: a purge that went too far, a
\* rollout that died before the preload, a scan or a save that failed is made
\* good by the quick pass.
EveryImageScanned ==
    \A c \in Containers : latest[image[c]] = "none" ~> latest[image[c]] # "none"
=============================================================================
