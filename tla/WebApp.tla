------------------------------- MODULE WebApp -------------------------------
(***************************************************************************)
(* One tab of the web interface (App.jsx, SettingsView.jsx, lib/session.js) *)
(* and the handlers it talks to: the gate of the session, the slices of    *)
(* the server's state that the tab keeps, the polling that refreshes some  *)
(* of them, and the forms that are filled from them.                       *)
(*                                                                         *)
(* Nothing orders the answers: each fetch is on its way by itself, across  *)
(* a change of page, of session or of person.  An answer to a read is      *)
(* computed when it is asked for and arrives later; a write is executed at *)
(* some time after it is sent, and answered later still.  Two answers of   *)
(* the same content on their way at once count as one.                     *)
(*                                                                         *)
(* The tab is the only writer of the settings: what a second administrator *)
(* overwrites is not a question of this module.  Of the settings, x stands *)
(* for the ones the person edits and y for the ones they leave alone; the  *)
(* containers and the audit log, polled together, are one slice.           *)
(*                                                                         *)
(* A person comes for one thing: to watch the containers and update them,  *)
(* to change the settings, or to switch the backups.  What they do not     *)
(* come for is left out: a slice touches another one only through the end  *)
(* of a session, which every visit has.                                    *)
(***************************************************************************)
EXTENDS Naturals, FiniteSets

CONSTANTS
  MaxWorld,    \* bound on the changes of the containers
  MaxAnswers,  \* bound on the answers to one read in flight at once
  MaxPosts,    \* bound on the writes in flight at once
  MaxTrouble   \* bound on expirations, imposed passwords, lost calls,
               \* sign-ins and saves

ASSUME WebAppAssumption == MaxWorld \in Nat /\ MaxAnswers \in Nat /\ MaxPosts \in Nat /\ MaxTrouble \in Nat

VARIABLES
  visit,    \* what the person is here for; never changes
  cookie,   \* whose session cookie the browser holds, "none" without one
  must,     \* who must change their password
  cfg,      \* the settings the server has
  backup,   \* whether the server backs the database up every night
  world,    \* the state of the containers
  me,       \* authed and me of App
  page,     \* activePage, with the tab of the settings page; "crashed" when React gave up
  config,   \* the slice of the settings
  lists,    \* the slices of the containers and of the audit log
  form,     \* the form of the settings page
  toggle,   \* the switch of the backups, and whether an answer ever set it
  loading,  \* isRolloutLoading
  answers,  \* the answers to reads on their way, by kind
  posts,    \* the writes on their way
  blind,    \* settings were saved from a form no settings had filled
  unsure,  \* kinds of which a read or a write overlapped another write, or an
            \* answer was lost
  trouble

server == <<visit, cookie, must, cfg, backup, world>>
slices == <<config, lists>>
forms == <<form, toggle>>
ghosts == <<blind, unsure>>
vars == <<server, me, page, slices, forms, loading, answers, posts, ghosts, trouble>>

-----------------------------------------------------------------------------
(* What a tab shows, and what it is told *)

Roles == {"admin", "viewer"}

Kinds == {"session", "config", "lists", "backups"}

\* The settings are "low" or "high" when somebody chose them; a form no settings
\* filled is "default".
Settings == {"low", "high", "default"}
EmptyForm == "default"

\* A slice of settings, or the answer that brings one: res is "none" before the
\* first answer and "error" for the body of a refusal.
Config(res, f) == [res |-> res, form |-> f]

Lists(logs, n) == [logs |-> logs, n |-> n]

Authed == me.authed = "yes"

\* The application is on the screen, and not a page that replaces it.
AppShown == Authed /\ ~me.must /\ page # "crashed"

IsAdmin == me.role = "admin"

\* What the session of the cookie may do: nothing without one, nothing but the
\* change while one is imposed, and what the handler asks of the role.
Verdict(roles) ==
  IF cookie = "none" THEN "expired"
  ELSE IF cookie \in must \/ cookie \notin roles THEN "error"
  ELSE "ok"

SessionAnswer ==
  IF cookie = "none" THEN [authed |-> "no", role |-> "none", must |-> FALSE]
  ELSE [authed |-> "yes", role |-> cookie, must |-> cookie \in must]

ConfigAnswer(c) ==
  LET v == Verdict({"admin"}) IN Config(v, IF v = "ok" THEN c ELSE EmptyForm)

\* The containers are for everyone, the audit log is not for a viewer.  A refusal
\* of the containers is not a list: it throws before it is stored.
ListsAnswer ==
  IF Verdict(Roles) = "ok" THEN [res |-> "ok", logs |-> Verdict({"admin"}), n |-> world]
  ELSE [res |-> Verdict(Roles), logs |-> "error", n |-> 0]

BackupsAnswer == [res |-> Verdict({"admin"}), on |-> backup, mine |-> TRUE]

\* React unmounts everything when a page throws: the dashboard maps over the audit
\* log it holds.
Rendered(m, p, l) ==
  IF m.authed = "yes" /\ ~m.must /\ p = "dashboard" /\ l.logs = "error" THEN "crashed" ELSE p

ShowsSettings(m, p) ==
  m.authed = "yes" /\ ~m.must /\ m.role = "admin" /\ p \in {"settings", "backups"}

\* Mutant: the form is filled when the page is mounted, and then no more.
SeededOnce(c) == UNCHANGED form

\* The effect of SettingsView on [config]: whatever the slice holds now fills the
\* form, a refusal fills it with the defaults.
Seeded(c) == form' = IF ShowsSettings(me, page) THEN c.form ELSE form

\* Mutant: the fields of a new form have no value.
NewFormBlank == IF config.res = "none" THEN "none" ELSE config.form

\* A form starts empty, then is filled if there is a slice to fill it from.
NewForm == IF config.res = "none" THEN EmptyForm ELSE config.form

\* The switch of a new page: on until an answer says otherwise.
NewSwitch == [on |-> TRUE, known |-> FALSE]

Mounts(m, p) == ShowsSettings(m, p) /\ ~ShowsSettings(me, page)

\* The settings page comes on the screen.  What was on its way for an earlier
\* instance of it will find nobody.
Mount(m, p) ==
  IF Mounts(m, p)
    THEN form' = NewForm /\ toggle' = NewSwitch /\ posts' = {[q EXCEPT !.mine = FALSE] : q \in posts}
    ELSE UNCHANGED <<form, toggle, posts>>

Kept(m, p) ==
  IF Mounts(m, p) THEN [answers EXCEPT !["backups"] = {[a EXCEPT !.mine = FALSE] : a \in @}] ELSE answers

Ask(kind, answer) ==
  /\ Cardinality(answers[kind]) < MaxAnswers \/ answer \in answers[kind]
  /\ answers' = [answers EXCEPT ![kind] = @ \cup {answer}]

\* fetchAllData.
AskAll(left) ==
  answers' = CASE visit = "settings" -> [left EXCEPT !["config"] = @ \cup {ConfigAnswer(cfg)}]
               [] visit = "watch"    -> [left EXCEPT !["lists"] = @ \cup {ListsAnswer}]
               [] OTHER              -> left

Without(left, kind, answer) == [left EXCEPT ![kind] = @ \ {answer}]

Drop(kind, answer) == Without(answers, kind, answer)

\* A read that overlaps a write of what it reads may be answered before or after
\* it, and arrive before or after its answer.
WritesOf(kind) == CASE kind = "config" -> {"saveConfig"} [] kind = "backups" -> {"saveBackup"}
                    [] OTHER -> {}
Overlap(kinds) ==
  unsure' = unsure \cup {k \in kinds : \E p \in posts : p.op \in WritesOf(k)}

\* from: what the switch showed; mine: its page is still there.
Post(op, f, from) == [op |-> op, at |-> "sent", form |-> f, from |-> from, mine |-> TRUE]

\* A write crosses the reads of its kind and the other writes of it.
Submit(p, kind) ==
  /\ Cardinality(posts) < MaxPosts
  /\ posts' = posts \cup {p}
  /\ unsure' = IF WritesOf(kind) # {} /\ (answers[kind] # {} \/ \E q \in posts : q.op \in WritesOf(kind))
                  THEN unsure \cup {kind} ELSE unsure

Trouble == trouble < MaxTrouble /\ trouble' = trouble + 1

Pages ==
  CASE visit = "watch"    -> {"dashboard", "other"}
    [] visit = "settings" -> {"settings", "other"}
    [] visit = "backups"  -> {"settings", "backups", "other"}

-----------------------------------------------------------------------------
(* The site is opened on the dashboard, or on the page in the address, with any
   session: checkSession is on its way. *)

Init ==
  /\ visit \in {"watch", "settings", "backups"}
  /\ cookie \in Roles \cup {"none"}
  /\ must \in SUBSET {cookie}  /\ "none" \notin must
  /\ cfg = "low" /\ backup \in (IF visit = "backups" THEN BOOLEAN ELSE {TRUE}) /\ world = 0
  /\ me = [authed |-> "unknown", role |-> "none", must |-> FALSE]
  /\ page \in Pages \ {"backups"}
  /\ config = Config("none", EmptyForm) /\ lists = Lists("ok", 0)
  /\ form = EmptyForm /\ toggle = NewSwitch
  /\ loading = FALSE
  /\ answers = [k \in Kinds |-> IF k = "session" THEN {SessionAnswer} ELSE {}]
  /\ posts = {}
  /\ blind = FALSE /\ unsure = {} /\ trouble = 0

-----------------------------------------------------------------------------
(* The answers to reads *)

Login == [authed |-> "no", role |-> "none", must |-> FALSE]

\* checkSession.  Everything is fetched when authed turns true, and only then; the
\* settings page opens on its first tab.
SessionArrives(a) ==
  /\ a \in answers["session"] /\ page # "crashed"
  /\ me' = a
  /\ LET p == IF page = "backups" /\ ~ShowsSettings(me, page) THEN "settings" ELSE page
         left == Without(Kept(a, p), "session", a)
     IN /\ page' = Rendered(a, p, lists)
        /\ Mount(a, p)
        /\ IF a.authed = "yes" /\ ~Authed THEN AskAll(left) /\ Overlap({"config"})
           ELSE answers' = left /\ UNCHANGED unsure
  /\ UNCHANGED <<server, slices, loading, blind, trouble>>

\* Mutant: a 401 is an error like another.
ExpiresQuietly(res) == UNCHANGED me

\* handleJson and check of lib/session: a 401 leads back to the sign-in page.
Expires(res) == me' = IF res = "expired" THEN Login ELSE me

ConfigArrives(a) ==
  /\ a \in answers["config"] /\ page # "crashed"
  /\ Expires(a.res)
  /\ answers' = Drop("config", a)
  /\ IF a.res = "expired" THEN UNCHANGED <<config, form>> ELSE config' = a /\ Seeded(a)
  /\ UNCHANGED <<server, page, lists, toggle, loading, posts, ghosts, trouble>>

ListsArrive(a) ==
  /\ a \in answers["lists"] /\ page # "crashed"
  /\ Expires(a.res)
  /\ answers' = Drop("lists", a)
  /\ lists' = CASE a.res = "ok"    -> Lists(a.logs, a.n)
                [] a.res = "error" -> Lists("error", lists.n)
                [] OTHER           -> lists
  /\ page' = Rendered(me, page, lists')
  /\ UNCHANGED <<server, config, forms, loading, posts, ghosts, trouble>>

\* loadBackups keeps the default when it is refused.
BackupsArrive(a) ==
  /\ a \in answers["backups"] /\ page # "crashed"
  /\ Expires(a.res)
  /\ answers' = Drop("backups", a)
  /\ toggle' = IF a.res = "ok" /\ a.mine
                 THEN [toggle EXCEPT !.on = a.on, !.known = TRUE] ELSE toggle
  /\ UNCHANGED <<server, page, slices, form, loading, posts, ghosts, trouble>>

\* A read fails on the way: only the one of the session leads somewhere.
ReadLost(kind, a) ==
  /\ a \in answers[kind] /\ page # "crashed"
  /\ Trouble
  /\ answers' = Drop(kind, a)
  /\ me' = IF kind = "session" THEN Login ELSE me
  /\ unsure' = IF WritesOf(kind) # {} THEN unsure \cup {kind} ELSE unsure
  /\ UNCHANGED <<server, page, slices, forms, loading, posts, blind>>

\* Mutant: the interval only runs while an update does.
PollWhileLoading ==
  /\ loading /\ visit = "watch" /\ Authed /\ page # "crashed"
  /\ Ask("lists", ListsAnswer)
  /\ UNCHANGED <<server, me, page, slices, forms, loading, posts, ghosts, trouble>>

\* The interval of ten seconds, and the refresh button of the sidebar.
Poll ==
  /\ visit = "watch" /\ Authed /\ page # "crashed"
  /\ Ask("lists", ListsAnswer)
  /\ UNCHANGED <<server, me, page, slices, forms, loading, posts, ghosts, trouble>>

-----------------------------------------------------------------------------
(* The person *)

\* The sign-in page, its imposed change of password included; then checkSession.
SignIn(who) ==
  /\ me.authed = "no" /\ page # "crashed"
  /\ Trouble
  /\ cookie' = who /\ must' = must \ {who}
  /\ Ask("session", [authed |-> "yes", role |-> who, must |-> FALSE])
  /\ UNCHANGED <<visit, cfg, backup, world, me, page, slices, forms, loading, posts, ghosts>>

\* Another page, from the menu or by the arrows of the browser: every page can be
\* asked for, and the settings open on their first tab.
Navigate(p) ==
  /\ AppShown /\ p \in Pages \ {page, "backups"} /\ ~(page = "backups" /\ p = "settings")
  /\ page' = Rendered(me, p, lists)
  /\ Mount(me, p)
  /\ answers' = Kept(me, p)
  /\ UNCHANGED <<server, me, slices, loading, ghosts, trouble>>

\* Another tab of the settings.  The one of the backups asks for them each time.
SelectTab(p) ==
  /\ ShowsSettings(me, page) /\ AppShown /\ p \in Pages \ {page}
  /\ page' = p
  /\ IF p = "backups" THEN Ask("backups", BackupsAnswer) /\ Overlap({"backups"})
     ELSE UNCHANGED <<answers, unsure>>
  /\ UNCHANGED <<server, me, slices, forms, loading, posts, blind, trouble>>

EditForm ==
  /\ ShowsSettings(me, page) /\ page = "settings" /\ visit = "settings"
  /\ \E x \in {"low", "high"} : x # form /\ form' = x
  /\ UNCHANGED <<server, me, page, slices, toggle, loading, answers, posts, ghosts, trouble>>

\* saveGlobal: every field of the form goes out.
SaveConfig ==
  /\ ShowsSettings(me, page) /\ page = "settings" /\ visit = "settings"
  /\ Trouble
  /\ Submit(Post("saveConfig", form, FALSE), "config")
  /\ blind' = (blind \/ config.res # "ok")
  /\ UNCHANGED <<server, me, page, slices, forms, loading, answers>>

\* saveBackupCfg: the switch moves before the server knows.
SaveBackup ==
  /\ ShowsSettings(me, page) /\ page = "backups"
  /\ Trouble
  /\ Submit(Post("saveBackup", EmptyForm, toggle.on), "backups")
  /\ toggle' = [toggle EXCEPT !.on = ~@]
  /\ UNCHANGED <<server, me, page, slices, form, loading, answers, blind>>

\* createBackup, whose button is disabled meanwhile, and deleteBackup.
CreateBackup ==
  /\ ShowsSettings(me, page) /\ page = "backups"
  /\ \A p \in posts : p.op = "create" => ~p.mine
  /\ Trouble
  /\ Submit(Post("create", EmptyForm, FALSE), "archives")
  /\ UNCHANGED <<server, me, page, slices, forms, loading, answers, blind>>

DeleteBackup ==
  /\ ShowsSettings(me, page) /\ page = "backups"
  /\ Trouble
  /\ Submit(Post("delete", EmptyForm, FALSE), "archives")
  /\ UNCHANGED <<server, me, page, slices, forms, loading, answers, blind>>

\* The button of the container page is disabled while an update runs, the one of
\* the actions page is not.
OffersRollout == AppShown /\ page = "other"

TriggerRollout ==
  /\ visit = "watch" /\ OffersRollout /\ world < MaxWorld
  /\ Submit(Post("rollout", EmptyForm, FALSE), "lists")
  /\ loading' = TRUE
  /\ UNCHANGED <<server, me, page, slices, forms, answers, blind, trouble>>

\* ForcedPasswordChange replaces the application.  The change and the end of a
\* session are executed when they are sent, or not at all.
ChangePassword ==
  /\ Authed /\ me.must /\ page # "crashed" /\ cookie # "none"
  /\ must' = must \ {cookie}
  /\ Ask("session", [authed |-> "yes", role |-> cookie, must |-> FALSE])
  /\ UNCHANGED <<visit, cookie, cfg, backup, world, me, page, slices, forms, loading, posts, ghosts, trouble>>

Logout ==
  /\ Authed /\ page # "crashed"
  /\ me' = Login
  /\ cookie' \in {"none", cookie}
  /\ UNCHANGED <<visit, must, cfg, backup, world, page, slices, forms, loading, answers, posts, ghosts, trouble>>

-----------------------------------------------------------------------------
(* The writes *)

Becomes(p, at) == posts' = (posts \ {p}) \cup {[p EXCEPT !.at = at]}

Served(p, op) == p \in posts /\ p.at = "sent" /\ p.op = op

\* handlePostConfig.
ServeConfig(p) ==
  /\ Served(p, "saveConfig")
  /\ Becomes(p, Verdict({"admin"}))
  /\ cfg' = IF Verdict({"admin"}) = "ok" THEN p.form ELSE cfg
  /\ UNCHANGED <<visit, cookie, must, backup, world, me, page, slices, forms, loading, answers, ghosts, trouble>>

\* HandleBackupsConfig.
ServeBackup(p) ==
  /\ Served(p, "saveBackup")
  /\ Becomes(p, Verdict({"admin"}))
  /\ backup' = IF Verdict({"admin"}) = "ok" THEN ~p.from ELSE backup
  /\ UNCHANGED <<visit, cookie, must, cfg, world, me, page, slices, forms, loading, answers, ghosts, trouble>>

\* HandleBackups and HandleBackupsDelete: the list of the archives is not modelled.
ServeArchives(p) ==
  /\ Served(p, "create") \/ Served(p, "delete")
  /\ Becomes(p, Verdict({"admin"}))
  /\ UNCHANGED <<server, me, page, slices, forms, loading, answers, ghosts, trouble>>

\* HandleContainerUpdate, for administrators; the new version is refused or runs.
ServeRollout(p) ==
  /\ Served(p, "rollout")
  /\ \/ Verdict({"admin"}) = "ok" /\ world < MaxWorld /\ world' = world + 1 /\ Becomes(p, "ok")
     \/ Becomes(p, "error") /\ UNCHANGED world
  /\ UNCHANGED <<visit, cookie, must, cfg, backup, me, page, slices, forms, loading, answers, ghosts, trouble>>

Answered(p, op) ==
  /\ p \in posts /\ p.at # "sent" /\ p.op = op /\ page # "crashed"
  /\ posts' = posts \ {p}

\* Mutant: the slice is not fetched again.
ConfigSavedUnseen(p) ==
  /\ Answered(p, "saveConfig")
  /\ UNCHANGED <<server, me, page, slices, forms, loading, answers, ghosts, trouble>>

\* handleSaveGlobalSettings: fetchConfig once it is saved.  A 401 is an error of
\* the save, and does not end the session of the page.
ConfigSaved(p) ==
  /\ Answered(p, "saveConfig")
  /\ IF p.at = "ok"
       THEN /\ Ask("config", ConfigAnswer(cfg))
            /\ unsure' = IF \E q \in posts \ {p} : q.op = "saveConfig" THEN unsure \cup {"config"} ELSE unsure
       ELSE UNCHANGED <<answers, unsure>>
  /\ UNCHANGED <<server, me, page, slices, forms, loading, blind, trouble>>

\* Mutant: a refusal leaves the switch where it was moved to.
BackupSavedUnchecked(p) ==
  /\ Answered(p, "saveBackup")
  /\ Expires(p.at)
  /\ UNCHANGED <<server, page, slices, forms, loading, answers, ghosts, trouble>>

\* saveBackupCfg: an error puts back what the switch showed when it was sent.
BackupSaved(p) ==
  /\ Answered(p, "saveBackup")
  /\ Expires(p.at)
  /\ toggle' = IF p.at # "ok" /\ p.mine THEN [toggle EXCEPT !.on = p.from] ELSE toggle
  /\ UNCHANGED <<server, page, slices, form, loading, answers, ghosts, trouble>>

\* The list is read again, and the switch with it: always after a deletion, after a
\* creation that succeeded.
ArchivesChanged(p) ==
  /\ Answered(p, "create") \/ Answered(p, "delete")
  /\ Expires(p.at)
  /\ IF p.op = "delete" \/ p.at = "ok"
       THEN Ask("backups", [BackupsAnswer EXCEPT !.mine = p.mine]) /\ Overlap({"backups"})
       ELSE UNCHANGED <<answers, unsure>>
  /\ UNCHANGED <<server, page, slices, forms, loading, blind, trouble>>

\* Mutant: the button is only released by a success.
RolloutAnsweredUnreleased(p) ==
  /\ Answered(p, "rollout")
  /\ IF p.at = "ok" THEN AskAll(answers) /\ Overlap({"config"}) /\ loading' = FALSE
     ELSE UNCHANGED <<answers, unsure, loading>>
  /\ UNCHANGED <<server, me, page, slices, forms, blind, trouble>>

RolloutAnswered(p) ==
  /\ Answered(p, "rollout")
  /\ loading' = FALSE
  /\ IF p.at = "ok" THEN AskAll(answers) /\ Overlap({"config"}) ELSE UNCHANGED <<answers, unsure>>
  /\ UNCHANGED <<server, me, page, slices, forms, blind, trouble>>

\* A write fails before it reaches the server, or its answer on the way back.
WriteLost(p) ==
  /\ p \in posts /\ p.at \in {"sent", "ok"}
  /\ Trouble
  /\ Becomes(p, "error")
  /\ unsure' = IF p.at = "ok" THEN unsure \cup {k \in Kinds : p.op \in WritesOf(k)} ELSE unsure
  /\ UNCHANGED <<server, me, page, slices, forms, loading, answers, blind>>

-----------------------------------------------------------------------------
(* The rest of the world *)

SessionExpires ==
  /\ cookie # "none" /\ Trouble
  /\ cookie' = "none"
  /\ UNCHANGED <<visit, must, cfg, backup, world, me, page, slices, forms, loading, answers, posts, ghosts>>

\* An administrator sets the password of the person in the tab.
PasswordImposed ==
  /\ cookie \notin must \cup {"none"} /\ Trouble
  /\ must' = must \cup {cookie}
  /\ UNCHANGED <<visit, cookie, cfg, backup, world, me, page, slices, forms, loading, answers, posts, ghosts>>

WorldChanges ==
  /\ visit = "watch" /\ world < MaxWorld
  /\ world' = world + 1
  /\ UNCHANGED <<visit, cookie, must, cfg, backup, me, page, slices, forms, loading, answers, posts, ghosts, trouble>>

-----------------------------------------------------------------------------
(* The specification *)

Arrival ==
  \/ \E a \in answers["session"] : SessionArrives(a)
  \/ \E a \in answers["config"] : ConfigArrives(a)
  \/ \E a \in answers["backups"] : BackupsArrive(a)

Service ==
  \E p \in posts : ServeConfig(p) \/ ServeBackup(p) \/ ServeArchives(p) \/ ServeRollout(p)

Answering ==
  \E p \in posts : ConfigSaved(p) \/ BackupSaved(p) \/ ArchivesChanged(p) \/ RolloutAnswered(p)

ListsArrival == \E a \in answers["lists"] : ListsArrive(a)

Person ==
  \/ \E who \in Roles : SignIn(who)
  \/ \E p \in {"dashboard", "settings", "other"} : Navigate(p)
  \/ \E p \in {"settings", "backups"} : SelectTab(p)
  \/ EditForm \/ SaveConfig \/ SaveBackup \/ CreateBackup \/ DeleteBackup \/ TriggerRollout \/ ChangePassword \/ Logout

Environment ==
  \/ \E kind \in Kinds : \E a \in answers[kind] : ReadLost(kind, a)
  \/ \E p \in posts : WriteLost(p)
  \/ SessionExpires \/ PasswordImposed \/ WorldChanges

Next == Arrival \/ ListsArrival \/ Service \/ Answering \/ Poll \/ Person \/ Environment

\* The browser delivers what arrives and the interval fires; the server executes
\* and answers.  Nothing is asked of the person.
Fairness ==
  /\ WF_vars(Poll)
  /\ \A n \in 0..MaxWorld, logs \in {"ok", "error"}, res \in {"ok", "error", "expired"} :
       WF_vars(ListsArrive([res |-> res, logs |-> logs, n |-> n]))
  /\ WF_vars(Service) /\ WF_vars(Answering)

Spec == Init /\ [][Next]_vars /\ Fairness

-----------------------------------------------------------------------------
(* Properties *)

Answers(kind) ==
  CASE kind = "session" -> [authed : {"yes", "no"}, role : Roles \cup {"none"}, must : BOOLEAN]
    [] kind = "config"  -> [res : {"ok", "error", "expired"}, form : Settings]
    [] kind = "lists"   -> [res : {"ok", "error", "expired"}, logs : {"ok", "error"}, n : 0..MaxWorld]
    [] kind = "backups" -> [res : {"ok", "error", "expired"}, on : BOOLEAN, mine : BOOLEAN]

TypeOK ==
  /\ cookie \in Roles \cup {"none"} /\ must \subseteq Roles
  /\ cfg \in Settings /\ backup \in BOOLEAN /\ world \in 0..MaxWorld
  /\ me.authed \in {"unknown", "yes", "no"} /\ me.role \in Roles \cup {"none"} /\ me.must \in BOOLEAN
  /\ page \in Pages \cup {"crashed"}
  /\ config.res \in {"none", "ok", "error"} /\ config.form \in Settings
  /\ lists.logs \in {"ok", "error"} /\ lists.n \in 0..MaxWorld
  /\ form \in Settings /\ toggle \in [on : BOOLEAN, known : BOOLEAN]
  /\ loading \in BOOLEAN /\ blind \in BOOLEAN /\ unsure \subseteq Kinds
  /\ \A k \in Kinds : answers[k] \subseteq Answers(k)
  /\ posts \subseteq [op : {"saveConfig", "saveBackup", "create", "delete", "rollout"}, at : {"sent", "ok", "error", "expired"},
                       form : Settings, from : BOOLEAN, mine : BOOLEAN]

\* Saving the settings never replaces them by the defaults of an empty form, in
\* whatever order answers, expirations and people come, unless the button was
\* pressed before the settings ever arrived or after a refusal was stored in
\* their place.
SettingsKept == cfg = EmptyForm => blind

\* With nothing about the settings on its way, the settings a tab holds are the
\* server's.  Exempt is a tab whose reads and writes overlapped: a late answer to
\* an early read then replaces what the save brought; or one that lost an answer.
QuietSettingsTrue ==
  ShowsSettings(me, page) /\ config.res = "ok" /\ "config" \notin unsure /\ answers["config"] = {}
  /\ (\A p \in posts : p.op # "saveConfig") => config.form = cfg

\* The same for the switch of the backups, which moves before the server knows and
\* moves back when it refuses.
QuietSwitchTrue ==
  toggle.known /\ "backups" \notin unsure /\ answers["backups"] = {}
  /\ (\A p \in posts : p.op # "saveBackup") /\ ShowsSettings(me, page) => toggle.on = backup

\* The page that a viewer opens is rendered.
PagesRender == page # "crashed"

\* A session that ended leads back to the sign-in page, whether or not its person
\* does anything.
ExpiredSessionReturns ==
  visit = "watch" /\ Authed /\ cookie = "none" ~> ~Authed \/ page = "crashed"

\* A tab left open on a session that stays shows the containers as they are, once
\* they no longer change, whatever answers of other sessions were on their way.
PollingConverges ==
  <>[](visit = "watch" /\ Authed /\ page # "crashed" /\ Verdict(Roles) = "ok") => <>[](lists.n = world)

\* The update button comes back, however the update ends.
RolloutReleased == loading ~> ~loading \/ page = "crashed"
=============================================================================
