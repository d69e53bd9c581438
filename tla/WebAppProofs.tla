---------------------------- MODULE WebAppProofs ----------------------------
(***************************************************************************)
(* The settings of the server survive the interface, whatever order its    *)
(* answers arrive in and however many are on their way; and what the tab   *)
(* shows of the settings and of the backups is what the server has, once   *)
(* nothing about them is on its way.                                       *)
(***************************************************************************)
EXTENDS WebApp, TLAPS

\* What actions change in part has the parts.
ShapeOK ==
  /\ answers = [k \in Kinds |-> answers[k]]
  /\ \A p \in posts : p = [op |-> p.op, at |-> p.at, form |-> p.form, from |-> p.from, mine |-> p.mine]

\* Nothing that may fill the form, or leave it, is the empty form.
Filled ==
  /\ cfg # EmptyForm
  /\ \A a \in answers["config"] : a.res = "ok" => a.form # EmptyForm
  /\ config.res = "ok" => config.form # EmptyForm
  /\ \A p \in posts : p.op = "saveConfig" => p.form # EmptyForm

\* The form on the screen is filled once the settings have arrived.
Shown == config.res = "ok" /\ ShowsSettings(me, page) => form # EmptyForm

IInv == ShapeOK /\ (blind \/ (Filled /\ Shown))

-----------------------------------------------------------------------------
(* Where a step takes settings from *)

\* Answers are computed from the settings of the server; what is saved comes from
\* the form, what the server stores from a save, and the slice from an answer.
AnswersFrom == \A a \in answers'["config"] : a \in answers["config"] \/ a = ConfigAnswer(cfg)

PostsFrom ==
  \A p \in posts' :
    p.op = "saveConfig" =>
      \/ \E q \in posts : q.op = p.op /\ q.form = p.form
      \/ p.form = form /\ ShowsSettings(me, page) /\ (config.res = "ok" \/ blind')

ServerFrom == cfg' = cfg \/ \E p \in posts : p.op = "saveConfig" /\ cfg' = p.form

SliceFrom == config' = config \/ config' \in answers["config"]

FormFrom ==
  config'.res = "ok" /\ ShowsSettings(me', page') =>
    \/ form' = config'.form
    \/ form' \in {"low", "high"}
    \/ form' = form /\ config = config' /\ ShowsSettings(me, page)

Flow ==
  /\ ShapeOK' /\ (blind => blind')
  /\ AnswersFrom /\ PostsFrom /\ ServerFrom /\ SliceFrom /\ FormFrom

\* The argument: such a step keeps the settings from the empty form.
LEMMA FlowKeeps == IInv /\ Flow => IInv'
<1>1. SUFFICES ASSUME IInv, Flow, ~blind' PROVE Filled' /\ Shown'
  BY DEF IInv, Flow
<1>2. ~blind /\ Filled /\ Shown
  BY <1>1 DEF IInv, Flow
<1>3. cfg' # EmptyForm
  BY <1>1, <1>2 DEF Flow, ServerFrom, Filled
<1>4. ConfigAnswer(cfg).res = "ok" => ConfigAnswer(cfg).form = cfg
  BY DEF ConfigAnswer, Config
<1>5. \A a \in answers'["config"] : a.res = "ok" => a.form # EmptyForm
  BY <1>1, <1>2, <1>4 DEF Flow, AnswersFrom, Filled
<1>6. config'.res = "ok" => config'.form # EmptyForm
  BY <1>1, <1>2 DEF Flow, SliceFrom, Filled
<1>7. \A p \in posts' : p.op = "saveConfig" => p.form # EmptyForm
  BY <1>1, <1>2 DEF Flow, PostsFrom, Filled, Shown
<1>8. Shown'
  BY <1>1, <1>2, <1>6 DEF Flow, FormFrom, Shown, EmptyForm
<1> QED BY <1>3, <1>5, <1>6, <1>7, <1>8 DEF Filled

\* Initially the server has settings and nothing has arrived.
LEMMA InitIInv == Init => IInv
<1>1. SUFFICES ASSUME Init PROVE IInv
  OBVIOUS
<1>2. answers["config"] = {} /\ posts = {} /\ config.res = "none"
  BY <1>1 DEF Init, Kinds, Config
<1>3. Filled /\ Shown
  BY <1>1, <1>2 DEF Init, Filled, Shown, EmptyForm
<1>4. ShapeOK
  BY <1>1 DEF Init, ShapeOK
<1> QED BY <1>3, <1>4 DEF IInv

-----------------------------------------------------------------------------
(* The reads *)

\* The helpers only touch the answers of their kind.
LEMMA AskedAnswers ==
  ASSUME NEW kind \in Kinds, NEW answer, ShapeOK, Ask(kind, answer),
         kind = "config" => answer = ConfigAnswer(cfg)
  PROVE  AnswersFrom /\ answers' = [k \in Kinds |-> answers'[k]]
BY DEF Ask, ShapeOK, AnswersFrom, Kinds

\* Asking for everything adds answers that come from the server.
LEMMA AskedAll ==
  ASSUME NEW left, left = [k \in Kinds |-> left[k]], left["config"] \subseteq answers["config"],
         AskAll(left)
  PROVE  AnswersFrom /\ answers' = [k \in Kinds |-> answers'[k]]
BY DEF AskAll, AnswersFrom, Kinds

\* An answer that is received leaves the others as they were.
LEMMA DroppedAnswers ==
  ASSUME ShapeOK, NEW kind \in Kinds, NEW a, answers' = Drop(kind, a)
  PROVE  AnswersFrom /\ answers' = [k \in Kinds |-> answers'[k]]
BY DEF Drop, Without, ShapeOK, AnswersFrom, Kinds

\* A change of page keeps the answers about the settings.
LEMMA KeptAnswers ==
  ASSUME ShapeOK, NEW m, NEW p
  PROVE  Kept(m, p) = [k \in Kinds |-> Kept(m, p)[k]] /\ Kept(m, p)["config"] = answers["config"]
BY DEF Kept, ShapeOK, Kinds

\* Opening the settings fills the form from the slice, and forgets what was sent
\* from an earlier instance of the page.
LEMMA MountKeeps ==
  ASSUME ShapeOK, NEW m, NEW p, me' = m, page' = p \/ ~ShowsSettings(me', page'), config' = config, Mount(m, p)
  PROVE  /\ PostsFrom /\ FormFrom
         /\ \A q \in posts' : q = [op |-> q.op, at |-> q.at, form |-> q.form, from |-> q.from, mine |-> q.mine]
<1>1. CASE Mounts(m, p)
  <2>1. ASSUME NEW q \in posts
        PROVE  [q EXCEPT !.mine = FALSE] = [op |-> q.op, at |-> q.at, form |-> q.form, from |-> q.from, mine |-> FALSE]
    <3>1. PICK no : no = FALSE
      OBVIOUS
    <3>2. [q EXCEPT !.mine = no] = [op |-> q.op, at |-> q.at, form |-> q.form, from |-> q.from, mine |-> no]
      BY DEF ShapeOK
    <3> QED BY <3>1, <3>2, Zenon
  <2>2. posts' = {[q EXCEPT !.mine = FALSE] : q \in posts}
    BY <1>1 DEF Mount
  <2>5. ASSUME NEW n \in posts'
        PROVE  \E o \in posts :
                 n = [op |-> o.op, at |-> o.at, form |-> o.form, from |-> o.from, mine |-> FALSE]
    <3>1. PICK o \in posts : n = [o EXCEPT !.mine = FALSE]
      BY <2>2
    <3> QED BY <2>1, <3>1
  <2>3. form' = NewForm
    BY <1>1 DEF Mount
  <2>4. config.res = "ok" => form' = config.form
    BY <2>3 DEF NewForm
  <2> QED BY <2>5, <2>4 DEF PostsFrom, FormFrom
<1>2. CASE ~Mounts(m, p)
  <2>1. UNCHANGED <<form, posts>>
    BY <1>2 DEF Mount
  <2>2. ShowsSettings(me', page') => ShowsSettings(me, page)
    BY <1>2 DEF Mounts, ShowsSettings
  <2> QED BY <2>1, <2>2 DEF PostsFrom, FormFrom, ShapeOK
<1> QED BY <1>1, <1>2

\* A crashed page is not one of settings.
LEMMA RenderedIs ==
  ASSUME NEW m, NEW p, NEW l
  PROVE  Rendered(m, p, l) = p \/ ~ShowsSettings(m, Rendered(m, p, l))
BY DEF Rendered, ShowsSettings

\* An answer about the session moves settings only along the flow.
LEMMA SessionStep ==
  ASSUME ShapeOK, NEW a, SessionArrives(a)
  PROVE  Flow
<1> DEFINE p == IF page = "backups" /\ ~ShowsSettings(me, page) THEN "settings" ELSE page
           left == Without(Kept(a, p), "session", a)
<1>1. /\ me' = a /\ page' = Rendered(a, p, lists) /\ Mount(a, p)
      /\ AskAll(left) \/ answers' = left
      /\ UNCHANGED <<cfg, config, blind>>
  BY DEF SessionArrives, server, slices
<1>2. page' = p \/ ~ShowsSettings(me', page')
  BY <1>1, RenderedIs
<1>3. /\ PostsFrom /\ FormFrom
      /\ \A q \in posts' : q = [op |-> q.op, at |-> q.at, form |-> q.form, from |-> q.from, mine |-> q.mine]
  <2> HIDE DEF p
  <2> QED BY <1>1, <1>2, MountKeeps
<1>4. left = [k \in Kinds |-> left[k]] /\ left["config"] \subseteq answers["config"]
  <2> HIDE DEF p
  <2>1. Kept(a, p) = [k \in Kinds |-> Kept(a, p)[k]] /\ Kept(a, p)["config"] = answers["config"]
    BY KeptAnswers
  <2> DEFINE K == Kept(a, p)
  <2>2. K = [k \in Kinds |-> K[k]] /\ K["config"] = answers["config"]
    BY <2>1
  <2> HIDE DEF K
  <2>3. Without(K, "session", a) = [k \in Kinds |-> Without(K, "session", a)[k]]
    BY <2>2 DEF Without
  <2>4. Without(K, "session", a)["config"] = K["config"]
    BY <2>2 DEF Without, Kinds
  <2> QED BY <2>2, <2>3, <2>4 DEF K
<1>5. AnswersFrom /\ answers' = [k \in Kinds |-> answers'[k]]
  <2> HIDE DEF left
  <2>1. CASE AskAll(left)
    BY <2>1, <1>4, AskedAll
  <2>2. CASE answers' = left
    BY <2>2, <1>4 DEF AnswersFrom
  <2> QED BY <1>1, <2>1, <2>2
<1> QED BY <1>1, <1>3, <1>5 DEF Flow, ShapeOK, ServerFrom, SliceFrom

\* An answer about the settings fills the slice, and the form with it.
LEMMA ConfigStep ==
  ASSUME ShapeOK, NEW a, ConfigArrives(a)
  PROVE  Flow
<1>1. /\ a \in answers["config"] /\ answers' = Drop("config", a)
      /\ UNCHANGED <<cfg, page, posts, blind>>
  BY DEF ConfigArrives, server, ghosts
<1>2. AnswersFrom /\ answers' = [k \in Kinds |-> answers'[k]]
  BY <1>1, DroppedAnswers DEF Kinds
<1>3. SliceFrom /\ FormFrom
  <2>1. CASE a.res = "expired"
    <3>1. me' = Login /\ config' = config
      BY <2>1 DEF ConfigArrives, Expires
    <3> QED BY <3>1 DEF SliceFrom, FormFrom, ShowsSettings, Login
  <2>2. CASE a.res # "expired"
    <3>1. me' = me /\ config' = a /\ Seeded(a)
      BY <2>2 DEF ConfigArrives, Expires
    <3> QED BY <1>1, <3>1 DEF SliceFrom, FormFrom, Seeded
  <2> QED BY <2>1, <2>2
<1> QED BY <1>1, <1>2, <1>3 DEF Flow, ShapeOK, ServerFrom, PostsFrom

\* Answers about anything else, and lost ones, bring no settings.
LEMMA OtherReadsStep ==
  ASSUME ShapeOK,
         \/ \E a \in answers["lists"] : ListsArrive(a)
         \/ \E a \in answers["backups"] : BackupsArrive(a)
         \/ \E kind \in Kinds : \E a \in answers[kind] : ReadLost(kind, a)
  PROVE  Flow
<1>1. PICK kind \in Kinds : \E a : answers' = Drop(kind, a)
  BY DEF ListsArrive, BackupsArrive, ReadLost, Kinds
<1>2. AnswersFrom /\ answers' = [k \in Kinds |-> answers'[k]]
  BY <1>1, DroppedAnswers
<1>3. UNCHANGED <<cfg, config, form, posts, blind>>
  BY DEF ListsArrive, BackupsArrive, ReadLost, server, slices, forms, ghosts
<1>4. (me' = me \/ me' = Login) /\ (page' = page \/ \E l : page' = Rendered(me, page, l))
  BY DEF ListsArrive, BackupsArrive, ReadLost, Expires
<1>5. ShowsSettings(me', page') => ShowsSettings(me, page)
  BY <1>4 DEF ShowsSettings, Login, Rendered
<1> QED BY <1>2, <1>3, <1>5 DEF Flow, ShapeOK, ServerFrom, SliceFrom, PostsFrom, FormFrom

-----------------------------------------------------------------------------
(* The person, the server and the rest *)

\* What leaves the settings, the form and the writes of settings alone.
LEMMA QuietStep ==
  ASSUME ShapeOK, ShapeOK', AnswersFrom, UNCHANGED <<cfg, config, form, blind>>,
         ShowsSettings(me', page') => ShowsSettings(me, page), PostsFrom
  PROVE  Flow
BY DEF Flow, ServerFrom, SliceFrom, FormFrom

\* A change of page fills a form from the slice, or not at all.
LEMMA NavigateStep ==
  ASSUME ShapeOK, NEW p, Navigate(p)
  PROVE  Flow
<1>1. /\ me' = me /\ page' = Rendered(me, p, lists) /\ Mount(me, p) /\ answers' = Kept(me, p)
      /\ UNCHANGED <<cfg, config, blind>>
  BY DEF Navigate, server, slices, ghosts
<1>2. page' = p \/ ~ShowsSettings(me', page')
  BY <1>1, RenderedIs
<1>3. /\ PostsFrom /\ FormFrom
      /\ \A q \in posts' : q = [op |-> q.op, at |-> q.at, form |-> q.form, from |-> q.from, mine |-> q.mine]
  BY <1>1, <1>2, MountKeeps
<1>4. AnswersFrom /\ answers' = [k \in Kinds |-> answers'[k]]
  BY <1>1, KeptAnswers DEF AnswersFrom
<1> QED BY <1>1, <1>3, <1>4 DEF Flow, ShapeOK, ServerFrom, SliceFrom

\* Requests that read something else.
LEMMA AskingStep ==
  ASSUME ShapeOK,
         \/ Poll \/ ChangePassword \/ \E who \in Roles : SignIn(who)
         \/ \E p \in {"settings", "backups"} : SelectTab(p)
  PROVE  Flow
<1>1. AnswersFrom /\ answers' = [k \in Kinds |-> answers'[k]]
  <2>1. CASE \E p \in {"settings", "backups"} : SelectTab(p)
    <3>1. Ask("backups", BackupsAnswer) \/ UNCHANGED answers
      BY <2>1 DEF SelectTab
    <3> QED BY <3>1, AskedAnswers DEF Kinds, ShapeOK, AnswersFrom
  <2>2. CASE Poll
    BY <2>2, AskedAnswers DEF Poll, Kinds
  <2>3. CASE ChangePassword \/ \E who \in Roles : SignIn(who)
    <3>1. PICK x : Ask("session", x)
      BY <2>3 DEF ChangePassword, SignIn
    <3> QED BY <3>1, AskedAnswers DEF Kinds
  <2> QED BY <2>1, <2>2, <2>3
<1>2. /\ UNCHANGED <<cfg, config, form, blind, posts, me>>
      /\ page' = page \/ ShowsSettings(me, page)
  BY DEF Poll, ChangePassword, SignIn, SelectTab, server, slices, forms, ghosts
<1> QED BY <1>1, <1>2, QuietStep DEF ShapeOK, PostsFrom, ShowsSettings

\* The writes that go out.
LEMMA SubmitStep ==
  ASSUME ShapeOK, SaveConfig \/ SaveBackup \/ CreateBackup \/ DeleteBackup \/ TriggerRollout
  PROVE  Flow
<1>1. UNCHANGED <<cfg, me, page, config, form, answers>>
  BY DEF SaveConfig, SaveBackup, CreateBackup, DeleteBackup, TriggerRollout, server, slices, forms
<1>5. blind => blind'
  <2>1. CASE SaveConfig
    BY <2>1, Zenon DEF SaveConfig
  <2>2. CASE ~SaveConfig
    BY <2>2 DEF SaveBackup, CreateBackup, DeleteBackup, TriggerRollout
  <2> QED BY <2>1, <2>2
<1>2. PICK op, f, from : posts' = posts \cup {Post(op, f, from)}
                        /\ (op = "saveConfig" => f = form /\ ShowsSettings(me, page) /\ (config.res = "ok" \/ blind'))
  <2>1. CASE SaveConfig
    BY <2>1 DEF SaveConfig, Submit
  <2>2. CASE SaveBackup
    <3>1. posts' = posts \cup {Post("saveBackup", EmptyForm, toggle.on)}
      BY <2>2 DEF SaveBackup, Submit
    <3>2. "saveBackup" # "saveConfig"
      OBVIOUS
    <3> QED BY <3>1, <3>2
  <2>3. CASE CreateBackup
    <3>1. posts' = posts \cup {Post("create", EmptyForm, FALSE)}
      BY <2>3 DEF CreateBackup, Submit
    <3>2. "create" # "saveConfig"
      OBVIOUS
    <3> QED BY <3>1, <3>2
  <2>4. CASE DeleteBackup
    <3>1. posts' = posts \cup {Post("delete", EmptyForm, FALSE)}
      BY <2>4 DEF DeleteBackup, Submit
    <3>2. "delete" # "saveConfig"
      OBVIOUS
    <3> QED BY <3>1, <3>2
  <2>5. CASE TriggerRollout
    <3>1. posts' = posts \cup {Post("rollout", EmptyForm, FALSE)}
      BY <2>5 DEF TriggerRollout, Submit
    <3>2. "rollout" # "saveConfig"
      OBVIOUS
    <3> QED BY <3>1, <3>2
  <2> QED BY <2>1, <2>2, <2>3, <2>4, <2>5
<1>3. ShapeOK'
  BY <1>1, <1>2 DEF ShapeOK, Post
<1>4. PostsFrom
  BY <1>2 DEF PostsFrom, Post
<1> QED BY <1>1, <1>3, <1>4, <1>5 DEF Flow, AnswersFrom, ServerFrom, SliceFrom, FormFrom

\* The server executes a write, or loses it.
LEMMA ServeStep ==
  ASSUME ShapeOK, NEW p \in posts,
         ServeConfig(p) \/ ServeBackup(p) \/ ServeArchives(p) \/ ServeRollout(p) \/ WriteLost(p)
  PROVE  Flow
<1>1. /\ UNCHANGED <<me, page, config, form, answers, blind>>
      /\ cfg' = cfg \/ (p.op = "saveConfig" /\ cfg' = p.form)
      /\ \E at : Becomes(p, at)
  BY DEF ServeConfig, ServeBackup, ServeArchives, ServeRollout, WriteLost, Served, server, slices, forms, ghosts
<1>2. PICK at : posts' = (posts \ {p}) \cup {[p EXCEPT !.at = at]}
  BY <1>1 DEF Becomes
<1>3. [p EXCEPT !.at = at] = [op |-> p.op, at |-> at, form |-> p.form, from |-> p.from, mine |-> p.mine]
  BY DEF ShapeOK
<1>4. ShapeOK' /\ PostsFrom
  BY <1>1, <1>2, <1>3 DEF ShapeOK, PostsFrom
<1> QED BY <1>1, <1>4 DEF Flow, AnswersFrom, ServerFrom, SliceFrom, FormFrom

\* A write is answered, and some answers make the page read again.
LEMMA AnsweredStep ==
  ASSUME ShapeOK, NEW p \in posts,
         ConfigSaved(p) \/ BackupSaved(p) \/ ArchivesChanged(p) \/ RolloutAnswered(p)
  PROVE  Flow
<1>1. /\ UNCHANGED <<cfg, page, config, form, blind>> /\ posts' = posts \ {p}
      /\ me' = me \/ me' = Login
  BY DEF ConfigSaved, BackupSaved, ArchivesChanged, RolloutAnswered, Answered, Expires, server, slices, forms, ghosts
<1>2. AnswersFrom /\ answers' = [k \in Kinds |-> answers'[k]]
  <2>1. CASE ConfigSaved(p)
    <3>1. Ask("config", ConfigAnswer(cfg)) \/ UNCHANGED answers
      BY <2>1 DEF ConfigSaved
    <3> QED BY <3>1, AskedAnswers DEF Kinds, ShapeOK, AnswersFrom
  <2>2. CASE BackupSaved(p)
    BY <2>2 DEF BackupSaved, ShapeOK, AnswersFrom
  <2>3. CASE ArchivesChanged(p)
    <3>1. (\E x : Ask("backups", x)) \/ UNCHANGED answers
      BY <2>3 DEF ArchivesChanged
    <3> QED BY <3>1, AskedAnswers DEF Kinds, ShapeOK, AnswersFrom
  <2>4. CASE RolloutAnswered(p)
    <3>1. AskAll(answers) \/ UNCHANGED answers
      BY <2>4 DEF RolloutAnswered
    <3> QED BY <3>1, AskedAll DEF ShapeOK, AnswersFrom
  <2> QED BY <2>1, <2>2, <2>3, <2>4
<1> QED BY <1>1, <1>2, QuietStep DEF ShapeOK, PostsFrom, ShowsSettings, Login

\* The rest changes neither answers nor writes.
LEMMA RestStep ==
  ASSUME ShapeOK, EditForm \/ Logout \/ SessionExpires \/ PasswordImposed \/ WorldChanges
  PROVE  Flow
<1>1. /\ UNCHANGED <<cfg, page, config, answers, posts, blind>>
      /\ \/ UNCHANGED <<me, form>>
         \/ UNCHANGED me /\ form' \in {"low", "high"}
         \/ me' = Login /\ UNCHANGED form
  BY DEF EditForm, Logout, SessionExpires, PasswordImposed, WorldChanges, server, slices, forms, ghosts
<1> QED BY <1>1 DEF Flow, ShapeOK, AnswersFrom, PostsFrom, ServerFrom, SliceFrom, FormFrom, ShowsSettings, Login

\* Every step is a flow, and a flow keeps the invariant.
LEMMA NextIInv == IInv /\ [Next]_vars => IInv'
<1>1. SUFFICES ASSUME ShapeOK, [Next]_vars PROVE Flow
  BY FlowKeeps DEF IInv
<1>2. CASE UNCHANGED vars
  BY <1>1, <1>2, QuietStep
     DEF vars, server, slices, forms, ghosts, ShapeOK, AnswersFrom, PostsFrom, ShowsSettings
<1>3. CASE Arrival
  BY <1>1, <1>3, SessionStep, ConfigStep, OtherReadsStep DEF Arrival
<1>4. CASE ListsArrival
  BY <1>1, <1>4, OtherReadsStep DEF ListsArrival
<1>5. CASE Service
  BY <1>1, <1>5, ServeStep DEF Service
<1>6. CASE Answering
  BY <1>1, <1>6, AnsweredStep DEF Answering
<1>7. CASE Poll
  BY <1>1, <1>7, AskingStep
<1>8. CASE Person
  BY <1>1, <1>8, AskingStep, NavigateStep, SubmitStep, RestStep DEF Person
<1>9. CASE Environment
  BY <1>1, <1>9, OtherReadsStep, ServeStep, RestStep DEF Environment
<1> QED BY <1>1, <1>2, <1>3, <1>4, <1>5, <1>6, <1>7, <1>8, <1>9 DEF Next

-----------------------------------------------------------------------------
(* The theorems *)

\* Where settings come from, along every behaviour.
THEOREM Provenance == Spec => []IInv
<1>1. Init => IInv
  BY InitIInv
<1>2. IInv /\ [Next]_vars => IInv'
  BY NextIInv
<1> QED BY <1>1, <1>2, PTL DEF Spec

\* saveGlobal never stores the defaults of an empty form over the settings of the
\* server, unless it was pressed before any settings had arrived.
THEOREM SettingsSurvive == Spec => []SettingsKept
<1>1. IInv => SettingsKept
  BY DEF IInv, Filled, SettingsKept
<1> QED BY <1>1, Provenance, PTL

-----------------------------------------------------------------------------
(* What the tab holds is well formed *)

ServerIn ==
  /\ visit \in {"watch", "settings", "backups"}
  /\ cookie \in Roles \cup {"none"} /\ must \subseteq Roles
  /\ cfg \in Settings /\ backup \in BOOLEAN /\ world \in 0..MaxWorld

PersonIn ==
  /\ me \in [authed : {"unknown", "yes", "no"}, role : Roles \cup {"none"}, must : BOOLEAN]
  /\ page \in Pages \cup {"crashed"}

FormsIn ==
  /\ config \in [res : {"none", "ok", "error"}, form : Settings]
  /\ lists \in [logs : {"ok", "error"}, n : 0..MaxWorld]
  /\ form \in Settings /\ toggle \in [on : BOOLEAN, known : BOOLEAN]

FlagsIn == loading \in BOOLEAN /\ blind \in BOOLEAN /\ unsure \subseteq Kinds

\* Answers on their way, of each kind what that kind brings.
Told(held) == held = [k \in Kinds |-> held[k]] /\ \A k \in Kinds : held[k] \subseteq Answers(k)

AnswersIn == Told(answers)

Writes == [op : {"saveConfig", "saveBackup", "create", "delete", "rollout"}, at : {"sent", "ok", "error", "expired"},
           form : Settings, from : BOOLEAN, mine : BOOLEAN]

PostsIn == posts \subseteq Writes

TabIn == ServerIn /\ PersonIn /\ FormsIn /\ FlagsIn /\ AnswersIn /\ PostsIn

-----------------------------------------------------------------------------
(* What the tab holds is what the server has *)

WritesOn(op) == {p \in posts : p.op = op}

\* Nobody writes settings who did not come for them.
SettingsVisit ==
  visit # "settings" => config.res = "none" /\ answers["config"] = {} /\ WritesOn("saveConfig") = {}

\* Reads and a write of the settings are never on their way together, nor two
\* writes; and the slice is right but for a save that was executed and is not yet
\* answered, while nothing is on its way that will replace it.
SettingsKnown ==
  "config" \notin unsure =>
    /\ answers["config"] # {} => WritesOn("saveConfig") = {}
    /\ \A a \in answers["config"] : a.res = "ok" => a.form = cfg
    /\ \A p, q \in WritesOn("saveConfig") : p = q
    /\ Authed /\ answers["config"] = {} /\ config.res = "ok" /\ (\A p \in WritesOn("saveConfig") : p.at # "ok")
         => config.form = cfg

\* The same for the switch: right without a write, and with one the opposite of
\* what the write was sent from; a write of an earlier page meets a switch that no
\* answer ever set.
SwitchKnown ==
  "backups" \notin unsure =>
    /\ answers["backups"] # {} => WritesOn("saveBackup") = {}
    /\ \A a \in answers["backups"] : a.res = "ok" => a.on = backup
    /\ \A p, q \in WritesOn("saveBackup") : p = q
    /\ toggle.known /\ WritesOn("saveBackup") = {} => toggle.on = backup
    /\ \A p \in WritesOn("saveBackup") : toggle.known =>
         p.mine /\ toggle.on = ~p.from /\ backup = (IF p.at = "ok" THEN ~p.from ELSE p.from)

TabInv == TabIn /\ SettingsVisit /\ SettingsKnown /\ SwitchKnown

-----------------------------------------------------------------------------
(* The types, step by step *)

\* What the handlers decide is one of three things, and a session that is not there
\* is the only way to the third.
LEMMA VerdictIn ==
  ASSUME NEW roles
  PROVE  Verdict(roles) \in {"ok", "error", "expired"} /\ (Verdict(roles) = "expired" <=> cookie = "none")
BY DEF Verdict

\* What the server answers is an answer of its kind.
LEMMA AnswersWell ==
  ASSUME ServerIn
  PROVE  /\ SessionAnswer \in Answers("session") /\ ConfigAnswer(cfg) \in Answers("config")
         /\ ListsAnswer \in Answers("lists") /\ BackupsAnswer \in Answers("backups")
         /\ \A b \in BOOLEAN : [BackupsAnswer EXCEPT !.mine = b] \in Answers("backups")
<1>1. SessionAnswer \in Answers("session")
  BY DEF ServerIn, SessionAnswer, Answers, Roles
<1>2. ConfigAnswer(cfg) \in Answers("config")
  BY VerdictIn DEF ServerIn, ConfigAnswer, Config, Answers, Settings, EmptyForm
<1>3. ListsAnswer \in Answers("lists")
  <2>1. CASE Verdict(Roles) = "ok"
    <3>1. cookie # "none"
      BY <2>1, VerdictIn
    <3>2. Verdict({"admin"}) \in {"ok", "error"}
      BY <3>1, VerdictIn
    <3>3. ListsAnswer = [res |-> "ok", logs |-> Verdict({"admin"}), n |-> world]
      BY <2>1 DEF ListsAnswer
    <3> QED BY <3>2, <3>3 DEF ServerIn, Answers
  <2>2. CASE Verdict(Roles) # "ok"
    <3>1. ListsAnswer = [res |-> Verdict(Roles), logs |-> "error", n |-> 0]
      BY <2>2 DEF ListsAnswer
    <3>2. 0 \in 0..MaxWorld
      BY WebAppAssumption
    <3> QED BY <3>1, <3>2, VerdictIn DEF Answers
  <2> QED BY <2>1, <2>2
<1>4. BackupsAnswer \in Answers("backups")
  BY VerdictIn DEF ServerIn, BackupsAnswer, Answers
<1>5. ASSUME NEW b \in BOOLEAN PROVE [BackupsAnswer EXCEPT !.mine = b] \in Answers("backups")
  <2>1. [BackupsAnswer EXCEPT !.mine = b] = [res |-> Verdict({"admin"}), on |-> backup, mine |-> b]
    BY DEF BackupsAnswer
  <2> QED BY <2>1, VerdictIn DEF ServerIn, Answers
<1> QED BY <1>1, <1>2, <1>3, <1>4, <1>5

\* Asking, being answered and leaving a page keep the answers of their kinds.
LEMMA AskTold ==
  ASSUME AnswersIn, NEW kind \in Kinds, NEW answer \in Answers(kind), Ask(kind, answer)
  PROVE  AnswersIn'
<1>1. /\ answers = [k \in Kinds |-> answers[k]] /\ \A k \in Kinds : answers[k] \subseteq Answers(k)
      /\ answers' = [answers EXCEPT ![kind] = @ \cup {answer}]
  BY DEF Ask, AnswersIn, Told
<1>2. answers' = [k \in Kinds |-> IF k = kind THEN answers[k] \cup {answer} ELSE answers[k]]
  BY <1>1
<1> HIDE DEF Kinds
<1> QED BY <1>1, <1>2 DEF AnswersIn, Told

\* Answers less one are answers.
LEMMA WithoutTold ==
  ASSUME NEW held, Told(held), NEW kind \in Kinds, NEW answer
  PROVE  Told(Without(held, kind, answer))
<1>1. Without(held, kind, answer) = [k \in Kinds |-> IF k = kind THEN held[k] \ {answer} ELSE held[k]]
  BY DEF Told, Without
<1> QED BY <1>1 DEF Told

\* Answers that outlive a change of page are answers.
LEMMA KeptTold ==
  ASSUME AnswersIn, NEW m, NEW p
  PROVE  Told(Kept(m, p))
<1>1. CASE Mounts(m, p)
  <2> DEFINE forgotten == {[a EXCEPT !.mine = FALSE] : a \in answers["backups"]}
  <2>1. answers["backups"] \subseteq [res : {"ok", "error", "expired"}, on : BOOLEAN, mine : BOOLEAN]
    BY DEF AnswersIn, Told, Kinds, Answers
  <2>2. forgotten \subseteq [res : {"ok", "error", "expired"}, on : BOOLEAN, mine : BOOLEAN]
    BY <2>1
  <2>3. forgotten \subseteq Answers("backups")
    BY <2>2 DEF Answers
  <2> HIDE DEF forgotten
  <2>4. Kept(m, p) = [answers EXCEPT !["backups"] = forgotten]
    BY <1>1 DEF Kept, forgotten
  <2>5. Kept(m, p) = [k \in Kinds |-> IF k = "backups" THEN forgotten ELSE answers[k]]
    BY <2>4 DEF AnswersIn, Told
  <2> QED BY <2>3, <2>5 DEF AnswersIn, Told
<1>2. CASE ~Mounts(m, p)
  BY <1>2 DEF Kept, AnswersIn
<1> QED BY <1>1, <1>2

\* Asking for everything adds answers of their kinds.
LEMMA AskAllTold ==
  ASSUME ServerIn, NEW held, Told(held), AskAll(held)
  PROVE  AnswersIn'
<1>1. PICK kind, got :
         kind \in Kinds /\ got \subseteq Answers(kind) /\ answers' = [held EXCEPT ![kind] = @ \cup got]
  <2>1. CASE visit = "settings"
    <3>1. answers' = [held EXCEPT !["config"] = @ \cup {ConfigAnswer(cfg)}]
      BY <2>1 DEF AskAll
    <3> QED BY <3>1, AnswersWell DEF Kinds
  <2>2. CASE visit = "watch"
    <3>1. answers' = [held EXCEPT !["lists"] = @ \cup {ListsAnswer}]
      BY <2>2 DEF AskAll
    <3> QED BY <3>1, AnswersWell DEF Kinds
  <2>3. CASE visit = "backups"
    <3>1. answers' = held
      BY <2>3 DEF AskAll
    <3>2. held = [held EXCEPT !["lists"] = @ \cup {}]
      BY DEF Told, Kinds
    <3> QED BY <3>1, <3>2 DEF Kinds
  <2> QED BY <2>1, <2>2, <2>3 DEF ServerIn
<1>2. answers' = [k \in Kinds |-> IF k = kind THEN held[k] \cup got ELSE held[k]]
  BY <1>1 DEF Told
<1> QED BY <1>1, <1>2 DEF AnswersIn, Told

\* A new settings page has a form, a switch, and writes it does not know.
LEMMA MountIn ==
  ASSUME FormsIn, PostsIn, NEW m, NEW p, Mount(m, p)
  PROVE  form' \in Settings /\ toggle' \in [on : BOOLEAN, known : BOOLEAN] /\ PostsIn'
<1>1. CASE Mounts(m, p)
  <2>1. form' = NewForm /\ toggle' = NewSwitch /\ posts' = {[q EXCEPT !.mine = FALSE] : q \in posts}
    BY <1>1 DEF Mount
  <2>2. PostsIn'
    BY <2>1 DEF PostsIn, Writes
  <2>3. NewForm \in Settings
    BY DEF NewForm, FormsIn, Settings, EmptyForm
  <2>4. NewSwitch \in [on : BOOLEAN, known : BOOLEAN]
    BY DEF NewSwitch
  <2> QED BY <2>1, <2>2, <2>3, <2>4
<1>2. CASE ~Mounts(m, p)
  BY <1>2 DEF Mount, FormsIn, PostsIn
<1> QED BY <1>1, <1>2

\* The page that is rendered is the one that was opened, or none.
LEMMA RenderedIn ==
  ASSUME NEW m, NEW p, NEW l
  PROVE  Rendered(m, p, l) \in {p, "crashed"}
BY DEF Rendered

\* What leaves the server and the visit alone leaves the pages and the answers they
\* allow alone.
LEMMA ServerKept == TabIn /\ UNCHANGED server => ServerIn' /\ Pages' = Pages
BY DEF TabIn, ServerIn, Pages, server

\* Initially.
LEMMA InitTabIn == Init => TabIn
<1>1. SUFFICES ASSUME Init PROVE TabIn
  OBVIOUS
<1>2. ServerIn
  <2>1. must \subseteq Roles /\ cookie \in Roles \cup {"none"}
    BY <1>1 DEF Init
  <2>2. visit \in {"watch", "settings", "backups"} /\ backup \in BOOLEAN
    BY <1>1 DEF Init
  <2>3. cfg \in Settings /\ world \in 0..MaxWorld
    BY <1>1, WebAppAssumption DEF Init, Settings
  <2> QED BY <2>1, <2>2, <2>3 DEF ServerIn
<1>3. PersonIn
  BY <1>1 DEF Init, PersonIn
<1>4. FormsIn
  BY <1>1, WebAppAssumption DEF Init, FormsIn, Config, Lists, NewSwitch, Settings, EmptyForm
<1>5. FlagsIn /\ PostsIn
  BY <1>1 DEF Init, FlagsIn, PostsIn
<1>6. AnswersIn
  BY <1>1, <1>2, AnswersWell DEF Init, AnswersIn, Told, Kinds
<1> QED BY <1>2, <1>3, <1>4, <1>5, <1>6 DEF TabIn

\* An answer about the session, which may bring the settings page and ask for
\* everything.
LEMMA SessionTabIn ==
  ASSUME TabIn, NEW a, SessionArrives(a)
  PROVE  TabIn'
<1> DEFINE p == IF page = "backups" /\ ~ShowsSettings(me, page) THEN "settings" ELSE page
           left == Without(Kept(a, p), "session", a)
<1>1. /\ a \in answers["session"] /\ me' = a /\ page' = Rendered(a, p, lists) /\ Mount(a, p)
      /\ UNCHANGED <<server, slices, loading, blind, trouble>>
      /\ (AskAll(left) /\ Overlap({"config"})) \/ (answers' = left /\ UNCHANGED unsure)
  BY DEF SessionArrives
<1>2. ServerIn' /\ Pages' = Pages
  BY <1>1, ServerKept
<1>3. a \in [authed : {"yes", "no"}, role : Roles \cup {"none"}, must : BOOLEAN]
  BY <1>1 DEF TabIn, AnswersIn, Told, Kinds, Answers
<1>4. p \in Pages \cup {"crashed"}
  BY DEF TabIn, ServerIn, PersonIn, Pages
<1>5. PersonIn'
  <2> HIDE DEF p
  <2>1. page' \in {p, "crashed"}
    BY <1>1, RenderedIn
  <2> QED BY <1>1, <1>2, <1>3, <1>4, <2>1 DEF PersonIn
<1>6. FormsIn' /\ PostsIn'
  <2> HIDE DEF p
  <2> QED BY <1>1, MountIn DEF TabIn, FormsIn, slices
<1>7. Told(left)
  <2> HIDE DEF p
  <2> QED BY KeptTold, WithoutTold DEF TabIn, Kinds
<1>8. AnswersIn'
  <2> HIDE DEF left
  <2> QED BY <1>1, <1>7, AskAllTold DEF TabIn, AnswersIn
<1>9. FlagsIn'
  BY <1>1 DEF TabIn, FlagsIn, Overlap, Kinds
<1> QED BY <1>2, <1>5, <1>6, <1>8, <1>9 DEF TabIn

\* What the other reads bring.
LEMMA ReadTabIn ==
  ASSUME TabIn,
         \/ \E a \in answers["config"] : ConfigArrives(a)
         \/ \E a \in answers["lists"] : ListsArrive(a)
         \/ \E a \in answers["backups"] : BackupsArrive(a)
         \/ \E kind \in Kinds : \E a \in answers[kind] : ReadLost(kind, a)
  PROVE  TabIn'
<1>1. UNCHANGED <<server, posts, loading, blind>>
  BY DEF ConfigArrives, ListsArrive, BackupsArrive, ReadLost, ghosts
<1>2. ServerIn' /\ Pages' = Pages /\ PostsIn'
  BY <1>1, ServerKept DEF TabIn, PostsIn
<1>3. PersonIn'
  <2>1. (me' = me \/ me' = Login) /\ (page' = page \/ \E l : page' = Rendered(me, page, l))
    BY DEF ConfigArrives, ListsArrive, BackupsArrive, ReadLost, Expires
  <2>2. page' \in {page, "crashed"}
    BY <2>1, RenderedIn
  <2>3. page' \in Pages' \cup {"crashed"}
    BY <1>2, <2>2 DEF TabIn, PersonIn
  <2>4. Login \in [authed : {"unknown", "yes", "no"}, role : Roles \cup {"none"}, must : BOOLEAN]
    BY DEF Login
  <2> QED BY <2>1, <2>3, <2>4 DEF TabIn, PersonIn
<1>4. FormsIn'
  <2>1. CASE \E a \in answers["config"] : ConfigArrives(a)
    <3>1. PICK a \in answers["config"] : ConfigArrives(a)
      BY <2>1
    <3>2. a \in [res : {"ok", "error", "expired"}, form : Settings]
      BY DEF TabIn, AnswersIn, Told, Kinds, Answers
    <3>3. (UNCHANGED <<config, form>>) \/ (a.res # "expired" /\ config' = a /\ form' \in {a.form, form})
      BY <3>1 DEF ConfigArrives, Seeded
    <3>4. UNCHANGED <<lists, toggle>>
      BY <3>1 DEF ConfigArrives
    <3> QED BY <3>2, <3>3, <3>4 DEF TabIn, FormsIn
  <2>2. CASE \E a \in answers["lists"] : ListsArrive(a)
    <3>1. PICK a \in answers["lists"] : ListsArrive(a)
      BY <2>2
    <3>2. a \in [res : {"ok", "error", "expired"}, logs : {"ok", "error"}, n : 0..MaxWorld]
      BY DEF TabIn, AnswersIn, Told, Kinds, Answers
    <3>3. lists' \in {Lists(a.logs, a.n), Lists("error", lists.n), lists}
      BY <3>1, <3>2 DEF ListsArrive
    <3>4. UNCHANGED <<config, forms>>
      BY <3>1 DEF ListsArrive
    <3> QED BY <3>2, <3>3, <3>4 DEF TabIn, FormsIn, Lists, forms
  <2>3. CASE \E a \in answers["backups"] : BackupsArrive(a)
    <3>1. PICK a \in answers["backups"] : BackupsArrive(a)
      BY <2>3
    <3>2. a \in [res : {"ok", "error", "expired"}, on : BOOLEAN, mine : BOOLEAN]
      BY DEF TabIn, AnswersIn, Told, Kinds, Answers
    <3>3. toggle' = toggle \/ toggle' = [toggle EXCEPT !.on = a.on, !.known = TRUE]
      BY <3>1 DEF BackupsArrive
    <3>4. UNCHANGED <<slices, form>>
      BY <3>1 DEF BackupsArrive
    <3> QED BY <3>2, <3>3, <3>4 DEF TabIn, FormsIn, slices
  <2>4. CASE \E kind \in Kinds : \E a \in answers[kind] : ReadLost(kind, a)
    BY <2>4 DEF ReadLost, TabIn, FormsIn, slices, forms
  <2> QED BY <2>1, <2>2, <2>3, <2>4
<1>5. AnswersIn'
  <2>1. PICK kind \in Kinds : \E a : answers' = Drop(kind, a)
    BY DEF ConfigArrives, ListsArrive, BackupsArrive, ReadLost, Kinds
  <2> QED BY <2>1, WithoutTold DEF TabIn, AnswersIn, Drop
<1>6. FlagsIn'
  <2>1. unsure' = unsure \/ \E kind \in Kinds : unsure' = unsure \cup {kind}
    BY DEF ConfigArrives, ListsArrive, BackupsArrive, ReadLost, ghosts
  <2> QED BY <1>1, <2>1 DEF TabIn, FlagsIn
<1> QED BY <1>2, <1>3, <1>4, <1>5, <1>6 DEF TabIn

\* Another page.
LEMMA NavigateTabIn ==
  ASSUME TabIn, NEW p, Navigate(p)
  PROVE  TabIn'
<1>1. /\ p \in Pages /\ page' = Rendered(me, p, lists) /\ Mount(me, p) /\ answers' = Kept(me, p)
      /\ UNCHANGED <<server, me, slices, loading, blind, unsure>>
  BY DEF Navigate, ghosts
<1>2. ServerIn' /\ Pages' = Pages
  BY <1>1, ServerKept
<1>3. PersonIn'
  <2>1. page' \in {p, "crashed"}
    BY <1>1, RenderedIn
  <2> QED BY <1>1, <1>2, <2>1 DEF TabIn, PersonIn
<1>4. FormsIn' /\ PostsIn'
  BY <1>1, MountIn DEF TabIn, FormsIn, slices
<1>5. AnswersIn'
  BY <1>1, KeptTold DEF TabIn, AnswersIn
<1> QED BY <1>1, <1>2, <1>3, <1>4, <1>5 DEF TabIn, FlagsIn

\* Requests of the person and of the interval.
LEMMA AskingTabIn ==
  ASSUME TabIn,
         \/ Poll \/ ChangePassword \/ \E who \in Roles : SignIn(who)
         \/ \E p \in {"settings", "backups"} : SelectTab(p)
  PROVE  TabIn'
<1>1. UNCHANGED <<visit, cfg, backup, world, me, slices, forms, loading, posts, blind>>
  BY DEF Poll, ChangePassword, SignIn, SelectTab, server, slices, forms, ghosts
<1>2. cookie' \in Roles \cup {"none"} /\ must' \subseteq Roles /\ page' \in Pages \cup {"crashed"}
  BY DEF Poll, ChangePassword, SignIn, SelectTab, server, TabIn, ServerIn, PersonIn
<1>3. unsure' \subseteq Kinds
  BY DEF Poll, ChangePassword, SignIn, SelectTab, ghosts, TabIn, FlagsIn, Overlap, Kinds
<1>4. Pages' = Pages
  BY <1>1 DEF Pages
<1>5. AnswersIn'
  <2>1. CASE \E p \in {"settings", "backups"} : SelectTab(p)
    <3>1. Ask("backups", BackupsAnswer) \/ UNCHANGED answers
      BY <2>1 DEF SelectTab
    <3> QED BY <3>1, AskTold, AnswersWell DEF TabIn, AnswersIn, Kinds
  <2>2. CASE Poll
    BY <2>2, AskTold, AnswersWell DEF Poll, Kinds, TabIn
  <2>3. CASE ChangePassword \/ \E who \in Roles : SignIn(who)
    <3>1. PICK who \in Roles : Ask("session", [authed |-> "yes", role |-> who, must |-> FALSE])
      BY <2>3 DEF ChangePassword, SignIn, TabIn, ServerIn
    <3>2. [authed |-> "yes", role |-> who, must |-> FALSE] \in Answers("session")
      BY DEF Answers
    <3> QED BY <3>1, <3>2, AskTold DEF Kinds, TabIn
  <2> QED BY <2>1, <2>2, <2>3
<1> QED BY <1>1, <1>2, <1>3, <1>4, <1>5
        DEF TabIn, ServerIn, PersonIn, FormsIn, FlagsIn, PostsIn, slices, forms

\* The writes that go out, and the edits.
LEMMA SubmitTabIn ==
  ASSUME TabIn, SaveConfig \/ SaveBackup \/ CreateBackup \/ DeleteBackup \/ TriggerRollout \/ EditForm
  PROVE  TabIn'
<1>1. UNCHANGED <<server, me, page, slices, answers>>
  BY DEF SaveConfig, SaveBackup, CreateBackup, DeleteBackup, TriggerRollout, EditForm
<1>2. PICK op \in {"saveConfig", "saveBackup", "create", "delete", "rollout"}, f \in Settings, from \in BOOLEAN :
        posts' = posts \/ posts' = posts \cup {Post(op, f, from)}
  <2>1. form \in Settings /\ toggle.on \in BOOLEAN /\ EmptyForm \in Settings
    BY DEF TabIn, FormsIn, Settings, EmptyForm
  <2>2. CASE SaveConfig
    BY <2>1, <2>2 DEF SaveConfig, Submit
  <2>3. CASE SaveBackup
    BY <2>1, <2>3 DEF SaveBackup, Submit
  <2>4. CASE CreateBackup
    BY <2>1, <2>4 DEF CreateBackup, Submit
  <2>5. CASE DeleteBackup
    BY <2>1, <2>5 DEF DeleteBackup, Submit
  <2>6. CASE TriggerRollout
    BY <2>1, <2>6 DEF TriggerRollout, Submit
  <2>7. CASE EditForm
    BY <2>1, <2>7 DEF EditForm
  <2> QED BY <2>2, <2>3, <2>4, <2>5, <2>6, <2>7
<1>3. Post(op, f, from) \in Writes
  BY DEF Post, Writes
<1>4. PostsIn'
  BY <1>2, <1>3 DEF TabIn, PostsIn
<1>5. form' \in Settings /\ (toggle' = toggle \/ toggle' = [toggle EXCEPT !.on = ~@])
  BY DEF SaveConfig, SaveBackup, CreateBackup, DeleteBackup, TriggerRollout, EditForm, forms, TabIn, FormsIn, Settings
<1>6. loading' \in BOOLEAN /\ blind' \in BOOLEAN
  <2>1. (loading' = loading \/ loading' = TRUE) /\ (blind' = blind \/ blind' \in BOOLEAN)
    BY DEF SaveConfig, SaveBackup, CreateBackup, DeleteBackup, TriggerRollout, EditForm, ghosts
  <2> QED BY <2>1 DEF TabIn, FlagsIn
<1>7. unsure' \subseteq Kinds
  <2>1. unsure' = unsure \/ \E kind \in Kinds : unsure' = unsure \cup {kind}
    BY DEF SaveConfig, SaveBackup, CreateBackup, DeleteBackup, TriggerRollout, EditForm, Submit, ghosts,
           Kinds, WritesOf
  <2> QED BY <2>1 DEF TabIn, FlagsIn
<1>8. toggle' \in [on : BOOLEAN, known : BOOLEAN]
  BY <1>5 DEF TabIn, FormsIn
<1>9. ServerIn' /\ Pages' = Pages
  BY <1>1, ServerKept
<1> QED BY <1>1, <1>4, <1>5, <1>6, <1>7, <1>8, <1>9 DEF TabIn, PersonIn, FormsIn, FlagsIn, AnswersIn, slices

\* The server executes a write, or it is lost.
LEMMA ServeTabIn ==
  ASSUME TabIn, NEW p \in posts,
         ServeConfig(p) \/ ServeBackup(p) \/ ServeArchives(p) \/ ServeRollout(p) \/ WriteLost(p)
  PROVE  TabIn'
<1>1. UNCHANGED <<visit, cookie, must, me, page, slices, forms, loading, answers, blind>>
  BY DEF ServeConfig, ServeBackup, ServeArchives, ServeRollout, WriteLost, server, ghosts
<1>2. p \in Writes
  BY DEF TabIn, PostsIn
<1>3. cfg' \in Settings /\ backup' \in BOOLEAN /\ world' \in 0..MaxWorld
  <2>1. cfg' \in {cfg, p.form} /\ (backup' = backup \/ backup' = ~p.from)
    BY DEF ServeConfig, ServeBackup, ServeArchives, ServeRollout, WriteLost, server
  <2>2. world' = world \/ (world < MaxWorld /\ world' = world + 1)
    BY DEF ServeConfig, ServeBackup, ServeArchives, ServeRollout, WriteLost, server
  <2>3. world' \in 0..MaxWorld
    BY <2>2, WebAppAssumption DEF TabIn, ServerIn
  <2> QED BY <1>2, <2>1, <2>3 DEF TabIn, ServerIn, Writes
<1>4. PICK at \in {"sent", "ok", "error", "expired"} : Becomes(p, at)
  <2>1. Becomes(p, Verdict({"admin"})) \/ Becomes(p, "ok") \/ Becomes(p, "error")
    BY DEF ServeConfig, ServeBackup, ServeArchives, ServeRollout, WriteLost
  <2> QED BY <2>1, VerdictIn
<1>5. [p EXCEPT !.at = at] \in Writes
  BY <1>2 DEF Writes
<1>6. PostsIn'
  BY <1>4, <1>5 DEF TabIn, PostsIn, Becomes
<1>7. unsure' \subseteq Kinds
  BY DEF ServeConfig, ServeBackup, ServeArchives, ServeRollout, WriteLost, ghosts, TabIn, FlagsIn
<1>8. Pages' = Pages
  BY <1>1 DEF Pages
<1> QED BY <1>1, <1>3, <1>6, <1>7, <1>8 DEF TabIn, ServerIn, PersonIn, FormsIn, FlagsIn, AnswersIn, slices, forms

\* A write is answered.
LEMMA AnsweredTabIn ==
  ASSUME TabIn, NEW p \in posts,
         ConfigSaved(p) \/ BackupSaved(p) \/ ArchivesChanged(p) \/ RolloutAnswered(p)
  PROVE  TabIn'
<1>1. /\ UNCHANGED <<server, page, slices, form, blind>> /\ posts' = posts \ {p}
      /\ me' = me \/ me' = Login
      /\ loading' = loading \/ loading' = FALSE
      /\ toggle' = toggle \/ toggle' = [toggle EXCEPT !.on = p.from]
  BY DEF ConfigSaved, BackupSaved, ArchivesChanged, RolloutAnswered, Answered, Expires, forms, ghosts
<1>2. p \in Writes
  BY DEF TabIn, PostsIn
<1>3. ServerIn' /\ Pages' = Pages
  BY <1>1, ServerKept
<1>4. PersonIn'
  <2>1. Login \in [authed : {"unknown", "yes", "no"}, role : Roles \cup {"none"}, must : BOOLEAN]
    BY DEF Login
  <2> QED BY <1>1, <1>3, <2>1 DEF TabIn, PersonIn
<1>5. FormsIn'
  <2>1. toggle' \in [on : BOOLEAN, known : BOOLEAN]
    BY <1>1, <1>2 DEF TabIn, FormsIn, Writes
  <2> QED BY <1>1, <2>1 DEF TabIn, FormsIn, slices
<1>6. FlagsIn'
  <2>1. unsure' \subseteq Kinds
    BY DEF ConfigSaved, BackupSaved, ArchivesChanged, RolloutAnswered, Overlap, ghosts, TabIn, FlagsIn, Kinds
  <2> QED BY <1>1, <2>1 DEF TabIn, FlagsIn
<1>7. AnswersIn'
  <2>1. CASE ConfigSaved(p)
    <3>1. Ask("config", ConfigAnswer(cfg)) \/ UNCHANGED answers
      BY <2>1 DEF ConfigSaved
    <3> QED BY <3>1, AskTold, AnswersWell DEF Kinds, TabIn, AnswersIn
  <2>2. CASE BackupSaved(p)
    BY <2>2 DEF BackupSaved, TabIn, AnswersIn
  <2>3. CASE ArchivesChanged(p)
    <3>1. Ask("backups", [BackupsAnswer EXCEPT !.mine = p.mine]) \/ UNCHANGED answers
      BY <2>3 DEF ArchivesChanged
    <3>2. p.mine \in BOOLEAN
      BY <1>2 DEF Writes
    <3> QED BY <3>1, <3>2, AskTold, AnswersWell DEF Kinds, TabIn, AnswersIn
  <2>4. CASE RolloutAnswered(p)
    <3>1. AskAll(answers) \/ UNCHANGED answers
      BY <2>4 DEF RolloutAnswered
    <3> QED BY <3>1, AskAllTold DEF TabIn, AnswersIn
  <2> QED BY <2>1, <2>2, <2>3, <2>4
<1>8. PostsIn'
  BY <1>1 DEF TabIn, PostsIn
<1> QED BY <1>3, <1>4, <1>5, <1>6, <1>7, <1>8 DEF TabIn

\* The end of a session, an imposed password and the containers.
LEMMA RestTabIn ==
  ASSUME TabIn, Logout \/ SessionExpires \/ PasswordImposed \/ WorldChanges
  PROVE  TabIn'
<1>1. UNCHANGED <<visit, cfg, backup, page, slices, forms, loading, answers, posts, blind, unsure>>
  BY DEF Logout, SessionExpires, PasswordImposed, WorldChanges, ghosts
<1>2. cookie' \in Roles \cup {"none"} /\ must' \subseteq Roles
  BY DEF Logout, SessionExpires, PasswordImposed, WorldChanges, TabIn, ServerIn
<1>3. world' \in 0..MaxWorld
  <2>1. world' = world \/ (world < MaxWorld /\ world' = world + 1)
    BY DEF Logout, SessionExpires, PasswordImposed, WorldChanges
  <2> QED BY <2>1, WebAppAssumption DEF TabIn, ServerIn
<1>4. me' \in [authed : {"unknown", "yes", "no"}, role : Roles \cup {"none"}, must : BOOLEAN]
  <2>1. me' = me \/ me' = Login
    BY DEF Logout, SessionExpires, PasswordImposed, WorldChanges
  <2>2. Login \in [authed : {"unknown", "yes", "no"}, role : Roles \cup {"none"}, must : BOOLEAN]
    BY DEF Login
  <2> QED BY <2>1, <2>2 DEF TabIn, PersonIn
<1>5. Pages' = Pages
  BY <1>1 DEF Pages
<1> QED BY <1>1, <1>2, <1>3, <1>4, <1>5
        DEF TabIn, ServerIn, PersonIn, FormsIn, FlagsIn, AnswersIn, PostsIn, slices, forms

\* Every step of the tab, of the server and of the world.
LEMMA NextTabIn == TabIn /\ [Next]_vars => TabIn'
<1>1. SUFFICES ASSUME TabIn, [Next]_vars PROVE TabIn'
  OBVIOUS
<1>2. CASE UNCHANGED vars
  <2>1. ServerIn' /\ Pages' = Pages
    BY <1>1, <1>2, ServerKept DEF vars
  <2> QED BY <1>1, <1>2, <2>1
          DEF vars, slices, forms, ghosts, TabIn, PersonIn, FormsIn, FlagsIn, AnswersIn, PostsIn
<1>3. CASE Arrival
  BY <1>1, <1>3, SessionTabIn, ReadTabIn DEF Arrival
<1>4. CASE ListsArrival
  BY <1>1, <1>4, ReadTabIn DEF ListsArrival
<1>5. CASE Service
  BY <1>1, <1>5, ServeTabIn DEF Service
<1>6. CASE Answering
  BY <1>1, <1>6, AnsweredTabIn DEF Answering
<1>7. CASE Poll
  BY <1>1, <1>7, AskingTabIn
<1>8. CASE Person
  BY <1>1, <1>8, AskingTabIn, NavigateTabIn, SubmitTabIn, RestTabIn DEF Person
<1>9. CASE Environment
  BY <1>1, <1>9, ReadTabIn, ServeTabIn, RestTabIn DEF Environment
<1> QED BY <1>1, <1>2, <1>3, <1>4, <1>5, <1>6, <1>7, <1>8, <1>9 DEF Next

\* The tab, what is on its way and what the server has are well formed.
THEOREM TabTypes == Spec => []TypeOK
<1>1. TabIn => TypeOK
  BY DEF TabIn, ServerIn, PersonIn, FormsIn, FlagsIn, AnswersIn, Told, PostsIn, Writes, TypeOK
<1> QED BY <1>1, InitTabIn, NextTabIn, PTL DEF Spec

-----------------------------------------------------------------------------
(* The settings and the switch, step by step *)

\* Writes that only lost their page are the same writes.
Same(op) ==
  \/ WritesOn(op)' = WritesOn(op)
  \/ WritesOn(op)' = {[p EXCEPT !.mine = FALSE] : p \in WritesOn(op)}

\* A write that moves on moves among the writes of its operation.
LEMMA BecomesWrites ==
  ASSUME PostsIn, NEW p \in posts, NEW at, Becomes(p, at)
  PROVE  /\ WritesOn(p.op)' = (WritesOn(p.op) \ {p}) \cup {[p EXCEPT !.at = at]}
         /\ \A op : op # p.op => WritesOn(op)' = WritesOn(op)
<1>1. posts' = (posts \ {p}) \cup {[p EXCEPT !.at = at]} /\ p \in Writes
  BY DEF Becomes, PostsIn
<1>2. [p EXCEPT !.at = at].op = p.op
  BY <1>1 DEF Writes
<1> QED BY <1>1, <1>2 DEF WritesOn

\* A new settings page forgets the writes of the one before.
LEMMA MountWrites ==
  ASSUME PostsIn, NEW m, NEW p, Mount(m, p), NEW op
  PROVE  Same(op)
<1>1. CASE Mounts(m, p)
  <2>1. posts' = {[q EXCEPT !.mine = FALSE] : q \in posts}
    BY <1>1 DEF Mount
  <2>2. \A q \in posts : [q EXCEPT !.mine = FALSE].op = q.op
    BY DEF PostsIn, Writes
  <2> QED BY <2>1, <2>2 DEF Same, WritesOn
<1>2. CASE ~Mounts(m, p)
  BY <1>2 DEF Mount, Same, WritesOn
<1> QED BY <1>1, <1>2

\* What the same writes share.
LEMMA SameWrites ==
  ASSUME PostsIn, NEW op, Same(op)
  PROVE  /\ \A p \in WritesOn(op)' : \E q \in WritesOn(op) : p.at = q.at
         /\ \A q \in WritesOn(op) : \E p \in WritesOn(op)' : p.at = q.at
         /\ WritesOn(op)' = {} <=> WritesOn(op) = {}
         /\ (\A p, q \in WritesOn(op) : p = q) => (\A p, q \in WritesOn(op)' : p = q)
<1>1. \A q \in WritesOn(op) : [q EXCEPT !.mine = FALSE].at = q.at
  BY DEF PostsIn, Writes, WritesOn
<1>2. CASE WritesOn(op)' = WritesOn(op)
  BY <1>2
<1>3. CASE WritesOn(op)' = {[p EXCEPT !.mine = FALSE] : p \in WritesOn(op)}
  BY <1>1, <1>3
<1> QED BY <1>2, <1>3 DEF Same

\* Steps that leave the settings, their slice, their answers and their writes alone.
LEMMA SettingsQuiet ==
  ASSUME TabIn, SettingsVisit, SettingsKnown,
         UNCHANGED <<visit, cfg, config>>, Authed' => Authed, unsure \subseteq unsure',
         answers'["config"] = answers["config"], Same("saveConfig")
  PROVE  SettingsVisit' /\ SettingsKnown'
<1>1. /\ \A q \in WritesOn("saveConfig") : \E p \in WritesOn("saveConfig")' : p.at = q.at
      /\ WritesOn("saveConfig")' = {} <=> WritesOn("saveConfig") = {}
      /\ (\A p, q \in WritesOn("saveConfig") : p = q) => (\A p, q \in WritesOn("saveConfig")' : p = q)
  BY SameWrites DEF TabIn
<1>2. SettingsVisit'
  BY <1>1 DEF SettingsVisit
<1>3. SettingsKnown'
  <2> SUFFICES ASSUME "config" \notin unsure'
               PROVE  /\ answers'["config"] # {} => WritesOn("saveConfig")' = {}
                      /\ \A a \in answers'["config"] : a.res = "ok" => a.form = cfg'
                      /\ \A p, q \in WritesOn("saveConfig")' : p = q
                      /\ Authed' /\ answers'["config"] = {} /\ config'.res = "ok"
                         /\ (\A p \in WritesOn("saveConfig")' : p.at # "ok") => config'.form = cfg'
    BY DEF SettingsKnown
  <2> QED BY <1>1 DEF SettingsKnown
<1> QED BY <1>2, <1>3

\* Steps that leave the switch and its writes alone, or that bring a new one.
LEMMA SwitchQuiet ==
  ASSUME TabIn, SwitchKnown, backup' = backup, unsure \subseteq unsure',
         \A a \in answers'["backups"] : \E b \in answers["backups"] : a.res = b.res /\ a.on = b.on,
         Same("saveBackup"),
         (toggle' = toggle /\ WritesOn("saveBackup")' = WritesOn("saveBackup")) \/ ~toggle'.known
  PROVE  SwitchKnown'
<1>1. /\ WritesOn("saveBackup")' = {} <=> WritesOn("saveBackup") = {}
      /\ (\A p, q \in WritesOn("saveBackup") : p = q) => (\A p, q \in WritesOn("saveBackup")' : p = q)
  BY SameWrites DEF TabIn
<1> SUFFICES ASSUME "backups" \notin unsure'
             PROVE  /\ answers'["backups"] # {} => WritesOn("saveBackup")' = {}
                    /\ \A a \in answers'["backups"] : a.res = "ok" => a.on = backup'
                    /\ \A p, q \in WritesOn("saveBackup")' : p = q
                    /\ toggle'.known /\ WritesOn("saveBackup")' = {} => toggle'.on = backup'
                    /\ \A p \in WritesOn("saveBackup")' : toggle'.known =>
                         p.mine /\ toggle'.on = ~p.from /\ backup' = (IF p.at = "ok" THEN ~p.from ELSE p.from)
  BY DEF SwitchKnown
<1>2. /\ answers["backups"] # {} => WritesOn("saveBackup") = {}
      /\ \A a \in answers["backups"] : a.res = "ok" => a.on = backup
      /\ \A p, q \in WritesOn("saveBackup") : p = q
      /\ toggle.known /\ WritesOn("saveBackup") = {} => toggle.on = backup
      /\ \A p \in WritesOn("saveBackup") : toggle.known =>
           p.mine /\ toggle.on = ~p.from /\ backup = (IF p.at = "ok" THEN ~p.from ELSE p.from)
  BY DEF SwitchKnown
<1>3. answers'["backups"] # {} => WritesOn("saveBackup")' = {}
  BY <1>1, <1>2
<1>4. \A a \in answers'["backups"] : a.res = "ok" => a.on = backup'
  BY <1>2
<1>5. CASE toggle' = toggle /\ WritesOn("saveBackup")' = WritesOn("saveBackup")
  BY <1>2, <1>3, <1>4, <1>5
<1>6. CASE ~toggle'.known
  BY <1>1, <1>2, <1>3, <1>4, <1>6
<1> QED BY <1>5, <1>6

\* Steps that ask for the settings when no save is on its way.
LEMMA SettingsAsked ==
  ASSUME TabIn, SettingsVisit, SettingsKnown, UNCHANGED <<visit, cfg, config>>, visit = "settings",
         unsure \subseteq unsure', answers'["config"] = answers["config"] \cup {ConfigAnswer(cfg)},
         WritesOn("saveConfig")' = {} \/ "config" \in unsure'
  PROVE  SettingsVisit' /\ SettingsKnown'
<1>1. ConfigAnswer(cfg).res = "ok" => ConfigAnswer(cfg).form = cfg
  BY DEF ConfigAnswer, Config
<1>2. SettingsVisit'
  BY DEF SettingsVisit
<1>3. SettingsKnown'
  <2> SUFFICES ASSUME "config" \notin unsure'
               PROVE  /\ answers'["config"] # {} => WritesOn("saveConfig")' = {}
                      /\ \A a \in answers'["config"] : a.res = "ok" => a.form = cfg'
                      /\ \A p, q \in WritesOn("saveConfig")' : p = q
                      /\ Authed' /\ answers'["config"] = {} /\ config'.res = "ok"
                         /\ (\A p \in WritesOn("saveConfig")' : p.at # "ok") => config'.form = cfg'
    BY DEF SettingsKnown
  <2> QED BY <1>1 DEF SettingsKnown
<1> QED BY <1>2, <1>3

\* Where answers go.
LEMMA AskedAt ==
  ASSUME AnswersIn, NEW kind \in Kinds, NEW answer, Ask(kind, answer)
  PROVE  /\ answers'[kind] = answers[kind] \cup {answer}
         /\ \A k \in Kinds : k # kind => answers'[k] = answers[k]
<1> HIDE DEF Kinds
<1> QED BY DEF Ask, AnswersIn, Told

\* An answer that arrived, or was lost, is one less of its kind.
LEMMA WithoutAt ==
  ASSUME NEW held, Told(held), NEW kind \in Kinds, NEW answer
  PROVE  /\ Without(held, kind, answer)[kind] = held[kind] \ {answer}
         /\ \A k \in Kinds : k # kind => Without(held, kind, answer)[k] = held[k]
BY DEF Told, Without

\* Asking for everything asks for the settings, for whom came for them.
LEMMA AskedAllAt ==
  ASSUME ServerIn, NEW held, Told(held), AskAll(held)
  PROVE  /\ answers'["config"] = IF visit = "settings" THEN held["config"] \cup {ConfigAnswer(cfg)} ELSE held["config"]
         /\ answers'["backups"] = held["backups"]
<1>1. CASE visit = "settings"
  BY <1>1 DEF AskAll, Told, Kinds
<1>2. CASE visit = "watch"
  BY <1>2 DEF AskAll, Told, Kinds
<1>3. CASE visit = "backups"
  BY <1>3 DEF AskAll
<1> QED BY <1>1, <1>2, <1>3 DEF ServerIn

\* The answers an earlier page is still owed keep what they say.
LEMMA KeptAt ==
  ASSUME AnswersIn, NEW m, NEW p
  PROVE  /\ Kept(m, p)["config"] = answers["config"]
         /\ \A a \in Kept(m, p)["backups"] : \E b \in answers["backups"] : a.res = b.res /\ a.on = b.on
<1>1. CASE Mounts(m, p)
  <2>1. Kept(m, p) = [answers EXCEPT !["backups"] = {[a EXCEPT !.mine = FALSE] : a \in answers["backups"]}]
    BY <1>1 DEF Kept, AnswersIn, Told, Kinds
  <2>2. /\ Kept(m, p)["config"] = answers["config"]
        /\ Kept(m, p)["backups"] = {[a EXCEPT !.mine = FALSE] : a \in answers["backups"]}
    BY <2>1 DEF AnswersIn, Told, Kinds
  <2>3. answers["backups"] \subseteq [res : {"ok", "error", "expired"}, on : BOOLEAN, mine : BOOLEAN]
    BY DEF AnswersIn, Told, Kinds, Answers
  <2>4. \A b \in answers["backups"] : [b EXCEPT !.mine = FALSE].res = b.res /\ [b EXCEPT !.mine = FALSE].on = b.on
    BY <2>3
  <2> QED BY <2>2, <2>4
<1>2. CASE ~Mounts(m, p)
  BY <1>2 DEF Kept
<1> QED BY <1>1, <1>2

\* The switch of a page that opens or stays.
LEMMA MountSwitch ==
  ASSUME PostsIn, NEW m, NEW p, Mount(m, p)
  PROVE  (toggle' = toggle /\ WritesOn("saveBackup")' = WritesOn("saveBackup")) \/ ~toggle'.known
BY DEF Mount, WritesOn, NewSwitch

\* A session that comes asks for the settings, and a save on its way is then doubtful.
LEMMA SessionKnown ==
  ASSUME TabInv, NEW a, SessionArrives(a)
  PROVE  SettingsVisit' /\ SettingsKnown' /\ SwitchKnown'
<1> DEFINE p == IF page = "backups" /\ ~ShowsSettings(me, page) THEN "settings" ELSE page
           left == Without(Kept(a, p), "session", a)
<1>1. /\ me' = a /\ Mount(a, p) /\ UNCHANGED <<server, slices>>
      /\ IF a.authed = "yes" /\ ~Authed THEN AskAll(left) /\ Overlap({"config"})
         ELSE answers' = left /\ UNCHANGED unsure
  BY DEF SessionArrives
<1> HIDE DEF p
<1>2. TabIn /\ SettingsVisit /\ SettingsKnown /\ SwitchKnown /\ UNCHANGED <<visit, cfg, config, backup>>
  BY <1>1 DEF TabInv, server, slices
<1>3. Told(left) /\ left["config"] = answers["config"] /\ left["backups"] = Kept(a, p)["backups"]
  <2>1. Told(Kept(a, p))
    BY <1>2, KeptTold DEF TabIn
  <2>2. Told(left) /\ left["config"] = Kept(a, p)["config"] /\ left["backups"] = Kept(a, p)["backups"]
    BY <2>1, WithoutTold, WithoutAt DEF Kinds
  <2> QED BY <1>2, <2>2, KeptAt DEF TabIn
<1>4. unsure \subseteq unsure'
  BY <1>1 DEF Overlap
<1>5. Same("saveConfig") /\ Same("saveBackup")
  BY <1>1, <1>2, MountWrites DEF TabIn
<1> HIDE DEF left
<1>6. SettingsVisit' /\ SettingsKnown'
  <2>1. CASE a.authed = "yes" /\ ~Authed /\ visit = "settings"
    <3>1. answers'["config"] = answers["config"] \cup {ConfigAnswer(cfg)}
      BY <1>1, <1>2, <1>3, <2>1, AskedAllAt DEF TabIn
    <3>2. WritesOn("saveConfig")' = {} \/ "config" \in unsure'
      <4>1. WritesOn("saveConfig") # {} => "config" \in unsure'
        BY <1>1, <2>1 DEF Overlap, WritesOn, WritesOf
      <4> QED BY <1>2, <1>5, <4>1, SameWrites DEF TabIn
    <3> QED BY <1>2, <1>4, <2>1, <3>1, <3>2, SettingsAsked
  <2>2. CASE a.authed = "yes" /\ ~Authed /\ visit # "settings"
    <3>1. answers'["config"] = answers["config"]
      BY <1>1, <1>2, <1>3, <2>2, AskedAllAt DEF TabIn
    <3>2. config.res = "none" /\ answers["config"] = {} /\ WritesOn("saveConfig") = {}
      BY <1>2, <2>2 DEF SettingsVisit
    <3>3. WritesOn("saveConfig")' = {}
      BY <1>2, <1>5, <3>2, SameWrites DEF TabIn
    <3> QED BY <1>2, <3>1, <3>2, <3>3 DEF SettingsVisit, SettingsKnown
  <2>3. CASE ~(a.authed = "yes" /\ ~Authed)
    <3>1. answers'["config"] = answers["config"] /\ (Authed' => Authed)
      BY <1>1, <1>3, <2>3 DEF Authed
    <3> QED BY <1>2, <1>4, <1>5, <3>1, SettingsQuiet
  <2> QED BY <2>1, <2>2, <2>3
<1>7. SwitchKnown'
  <2>1. answers'["backups"] = Kept(a, p)["backups"]
    BY <1>1, <1>2, <1>3, AskedAllAt DEF TabIn
  <2>2. \A x \in answers'["backups"] : \E b \in answers["backups"] : x.res = b.res /\ x.on = b.on
    BY <1>2, <2>1, KeptAt DEF TabIn
  <2> QED BY <1>1, <1>2, <1>4, <1>5, <2>2, MountSwitch, SwitchQuiet DEF TabIn
<1> QED BY <1>6, <1>7

\* The settings arrive: what is stored is what the server has.
LEMMA ConfigKnown ==
  ASSUME TabInv, NEW a, ConfigArrives(a)
  PROVE  SettingsVisit' /\ SettingsKnown' /\ SwitchKnown'
<1>1. /\ a \in answers["config"] /\ answers' = Without(answers, "config", a)
      /\ UNCHANGED <<visit, cfg, backup, toggle, posts, unsure>>
      /\ IF a.res = "expired" THEN me' = Login /\ config' = config ELSE me' = me /\ config' = a
  BY DEF ConfigArrives, Expires, Drop, server, ghosts
<1>2. TabIn /\ SettingsVisit /\ SettingsKnown /\ SwitchKnown
  BY DEF TabInv
<1>3. /\ answers'["config"] = answers["config"] \ {a} /\ answers'["backups"] = answers["backups"]
  BY <1>1, <1>2, WithoutAt DEF TabIn, AnswersIn, Kinds
<1>4. \A op : WritesOn(op)' = WritesOn(op)
  BY <1>1 DEF WritesOn
<1>5. visit = "settings" /\ SettingsVisit'
  BY <1>1, <1>2 DEF SettingsVisit
<1>6. SettingsKnown'
  <2> SUFFICES ASSUME "config" \notin unsure'
               PROVE  /\ answers'["config"] # {} => WritesOn("saveConfig")' = {}
                      /\ \A b \in answers'["config"] : b.res = "ok" => b.form = cfg'
                      /\ \A p, q \in WritesOn("saveConfig")' : p = q
                      /\ Authed' /\ answers'["config"] = {} /\ config'.res = "ok"
                         /\ (\A p \in WritesOn("saveConfig")' : p.at # "ok") => config'.form = cfg'
    BY DEF SettingsKnown
  <2>1. /\ WritesOn("saveConfig") = {}
        /\ \A b \in answers["config"] : b.res = "ok" => b.form = cfg
    BY <1>1, <1>2 DEF SettingsKnown
  <2>2. Authed' /\ config'.res = "ok" => config'.form = cfg'
    <3>1. CASE a.res = "expired"
      BY <1>1, <3>1 DEF Authed, Login
    <3>2. CASE a.res # "expired"
      BY <1>1, <2>1, <3>2
    <3> QED BY <3>1, <3>2
  <2> QED BY <1>1, <1>3, <1>4, <2>1, <2>2
<1>7. SwitchKnown'
  BY <1>1, <1>2, <1>3, <1>4, SwitchQuiet DEF Same
<1> QED BY <1>5, <1>6, <1>7

\* The switch arrives.
LEMMA BackupsKnown ==
  ASSUME TabInv, NEW a, BackupsArrive(a)
  PROVE  SettingsVisit' /\ SettingsKnown' /\ SwitchKnown'
<1>1. /\ a \in answers["backups"] /\ answers' = Without(answers, "backups", a)
      /\ UNCHANGED <<visit, cfg, backup, config, posts, unsure>>
      /\ me' = me \/ me' = Login
      /\ toggle' = IF a.res = "ok" /\ a.mine THEN [toggle EXCEPT !.on = a.on, !.known = TRUE] ELSE toggle
  BY DEF BackupsArrive, Expires, Drop, server, slices, ghosts
<1>2. TabIn /\ SettingsVisit /\ SettingsKnown /\ SwitchKnown
  BY DEF TabInv
<1>3. /\ answers'["backups"] = answers["backups"] \ {a} /\ answers'["config"] = answers["config"]
  BY <1>1, <1>2, WithoutAt DEF TabIn, AnswersIn, Kinds
<1>4. \A op : WritesOn(op)' = WritesOn(op)
  BY <1>1 DEF WritesOn
<1>5. SettingsVisit' /\ SettingsKnown'
  <2>1. Authed' => Authed
    BY <1>1 DEF Authed, Login
  <2> QED BY <1>1, <1>2, <1>3, <1>4, <2>1, SettingsQuiet DEF Same
<1>6. SwitchKnown'
  <2>1. CASE "backups" \in unsure
    BY <1>1, <2>1 DEF SwitchKnown
  <2>2. CASE "backups" \notin unsure
    <3>1. /\ WritesOn("saveBackup") = {} /\ \A b \in answers["backups"] : b.res = "ok" => b.on = backup
          /\ toggle.known => toggle.on = backup
      BY <1>1, <1>2, <2>2 DEF SwitchKnown
    <3>2. toggle'.known => toggle'.on = backup
      BY <1>1, <1>2, <3>1 DEF TabIn, FormsIn
    <3> QED BY <1>1, <1>3, <1>4, <3>1, <3>2 DEF SwitchKnown
  <2> QED BY <2>1, <2>2
<1> QED BY <1>5, <1>6

\* Nothing about the settings or the backups.
LEMMA ElsewhereKnown ==
  ASSUME TabInv, UNCHANGED <<visit, cfg, backup, config, toggle>>, Authed' => Authed, unsure \subseteq unsure',
         answers'["config"] = answers["config"], answers'["backups"] = answers["backups"],
         WritesOn("saveConfig")' = WritesOn("saveConfig"), WritesOn("saveBackup")' = WritesOn("saveBackup")
  PROVE  SettingsVisit' /\ SettingsKnown' /\ SwitchKnown'
BY SettingsQuiet, SwitchQuiet DEF TabInv, Same

\* The lists arrive, a read is lost, the interval fires, somebody signs in.
LEMMA ListsKnown ==
  ASSUME TabInv,
         \/ \E a \in answers["lists"] : ListsArrive(a)
         \/ \E kind \in Kinds : \E a \in answers[kind] : ReadLost(kind, a)
         \/ Poll \/ ChangePassword \/ \E who \in Roles : SignIn(who)
  PROVE  SettingsVisit' /\ SettingsKnown' /\ SwitchKnown'
<1>1. /\ UNCHANGED <<visit, cfg, backup, config, toggle, posts>> /\ unsure \subseteq unsure'
      /\ me' = me \/ me' = Login
  BY DEF ListsArrive, ReadLost, Poll, ChangePassword, SignIn, Expires, server, slices, forms, ghosts
<1>2. (Authed' => Authed) /\ \A op : WritesOn(op)' = WritesOn(op)
  BY <1>1 DEF Authed, Login, WritesOn
<1>3. TabIn /\ SettingsVisit /\ SettingsKnown /\ SwitchKnown
  BY DEF TabInv
<1>4. CASE \E kind \in {"config", "backups"} : \E a \in answers[kind] : ReadLost(kind, a)
  <2>1. PICK kind \in {"config", "backups"} : \E a \in answers[kind] : ReadLost(kind, a)
    BY <1>4
  <2>2. PICK a \in answers[kind] : answers' = Without(answers, kind, a) /\ kind \in unsure'
    BY <2>1 DEF ReadLost, Drop, WritesOf
  <2>3. /\ answers'[kind] = answers[kind] \ {a}
        /\ \A k \in Kinds : k # kind => answers'[k] = answers[k]
    BY <1>3, <2>2, WithoutAt DEF TabIn, AnswersIn, Kinds
  <2>4. CASE kind = "config"
    <3>1. SettingsVisit' /\ SettingsKnown'
      BY <1>1, <1>2, <1>3, <2>2, <2>3, <2>4 DEF SettingsVisit, SettingsKnown
    <3>2. SwitchKnown'
      BY <1>1, <1>2, <1>3, <2>3, <2>4, SwitchQuiet DEF Same, Kinds
    <3> QED BY <3>1, <3>2
  <2>5. CASE kind = "backups"
    <3>1. SettingsVisit' /\ SettingsKnown'
      BY <1>1, <1>2, <1>3, <2>3, <2>5, SettingsQuiet DEF Same, Kinds
    <3>2. SwitchKnown'
      BY <2>2, <2>5 DEF SwitchKnown
    <3> QED BY <3>1, <3>2
  <2> QED BY <2>4, <2>5
<1>5. CASE ~\E kind \in {"config", "backups"} : \E a \in answers[kind] : ReadLost(kind, a)
  <2>1. \/ \E kind \in {"lists", "session"} : \E a : answers' = Without(answers, kind, a)
        \/ \E kind \in {"lists", "session"} : \E a : Ask(kind, a)
    BY <1>5 DEF ListsArrive, ReadLost, Poll, ChangePassword, SignIn, Drop, Kinds
  <2>2. answers'["config"] = answers["config"] /\ answers'["backups"] = answers["backups"]
    <3>1. CASE \E kind \in {"lists", "session"} : \E a : answers' = Without(answers, kind, a)
      BY <1>3, <3>1, WithoutAt DEF TabIn, AnswersIn, Kinds
    <3>2. CASE \E kind \in {"lists", "session"} : \E a : Ask(kind, a)
      BY <1>3, <3>2, AskedAt DEF TabIn, Kinds
    <3> QED BY <2>1, <3>1, <3>2
  <2> QED BY <1>1, <1>2, <2>2, ElsewhereKnown
<1> QED BY <1>4, <1>5

\* Another page.
LEMMA NavigateKnown ==
  ASSUME TabInv, NEW p, Navigate(p)
  PROVE  SettingsVisit' /\ SettingsKnown' /\ SwitchKnown'
<1>1. /\ Mount(me, p) /\ answers' = Kept(me, p)
      /\ UNCHANGED <<visit, cfg, backup, config, me, unsure>>
  BY DEF Navigate, server, slices, ghosts
<1>2. TabIn /\ SettingsVisit /\ SettingsKnown /\ SwitchKnown
  BY DEF TabInv
<1>3. Same("saveConfig") /\ Same("saveBackup")
  BY <1>1, <1>2, MountWrites DEF TabIn
<1>4. answers'["config"] = answers["config"]
  BY <1>1, <1>2, KeptAt DEF TabIn
<1>5. \A x \in answers'["backups"] : \E b \in answers["backups"] : x.res = b.res /\ x.on = b.on
  BY <1>1, <1>2, KeptAt DEF TabIn
<1>6. Authed' => Authed
  BY <1>1 DEF Authed
<1>7. SettingsVisit' /\ SettingsKnown'
  BY <1>1, <1>2, <1>3, <1>4, <1>6, SettingsQuiet
<1>8. SwitchKnown'
  BY <1>1, <1>2, <1>3, <1>5, MountSwitch, SwitchQuiet DEF TabIn
<1> QED BY <1>7, <1>8

\* Asking for the switch while a write of it is on its way is doubtful.
LEMMA SwitchAsked ==
  ASSUME TabInv, UNCHANGED <<visit, cfg, backup, config, toggle>>, Authed' => Authed,
         NEW answer, answer.res = "ok" => answer.on = backup, Ask("backups", answer), Overlap({"backups"}),
         WritesOn("saveConfig")' = WritesOn("saveConfig"), WritesOn("saveBackup")' = WritesOn("saveBackup")
  PROVE  SettingsVisit' /\ SettingsKnown' /\ SwitchKnown'
<1>1. TabIn /\ SettingsVisit /\ SettingsKnown /\ SwitchKnown
  BY DEF TabInv
<1>2. /\ answers'["backups"] = answers["backups"] \cup {answer}
      /\ answers'["config"] = answers["config"]
  BY <1>1, AskedAt DEF TabIn, Kinds
<1>3. unsure \subseteq unsure' /\ (WritesOn("saveBackup") # {} => "backups" \in unsure')
  BY DEF Overlap, WritesOn, WritesOf
<1>4. SettingsVisit' /\ SettingsKnown'
  BY <1>1, <1>2, <1>3, SettingsQuiet DEF Same
<1>5. SwitchKnown'
  <2>1. CASE "backups" \in unsure'
    BY <2>1 DEF SwitchKnown
  <2>2. CASE "backups" \notin unsure'
    <3>1. /\ WritesOn("saveBackup") = {} /\ \A b \in answers["backups"] : b.res = "ok" => b.on = backup
          /\ toggle.known => toggle.on = backup
      BY <1>1, <1>3, <2>2 DEF SwitchKnown
    <3> QED BY <1>2, <3>1 DEF SwitchKnown
  <2> QED BY <2>1, <2>2
<1> QED BY <1>4, <1>5

\* Another tab, an edit, the end of a session, an imposed password, the containers.
LEMMA RestKnown ==
  ASSUME TabInv,
         \/ \E p \in {"settings", "backups"} : SelectTab(p)
         \/ EditForm \/ Logout \/ SessionExpires \/ PasswordImposed \/ WorldChanges
  PROVE  SettingsVisit' /\ SettingsKnown' /\ SwitchKnown'
<1>1. /\ UNCHANGED <<visit, cfg, backup, config, toggle, posts>>
      /\ me' = me \/ me' = Login
  BY DEF SelectTab, EditForm, Logout, SessionExpires, PasswordImposed, WorldChanges, server, slices, forms
<1>2. (Authed' => Authed) /\ \A op : WritesOn(op)' = WritesOn(op)
  BY <1>1 DEF Authed, Login, WritesOn
<1>3. CASE \E p \in {"settings", "backups"} : SelectTab(p)
  <2>1. (Ask("backups", BackupsAnswer) /\ Overlap({"backups"})) \/ UNCHANGED <<answers, unsure>>
    BY <1>3 DEF SelectTab
  <2>2. BackupsAnswer.on = backup
    BY DEF BackupsAnswer
  <2> QED BY <1>1, <1>2, <2>1, <2>2, SwitchAsked, ElsewhereKnown
<1>4. CASE EditForm \/ Logout \/ SessionExpires \/ PasswordImposed \/ WorldChanges
  <2>1. UNCHANGED <<answers, unsure>>
    BY <1>4 DEF EditForm, Logout, SessionExpires, PasswordImposed, WorldChanges, ghosts
  <2> QED BY <1>1, <1>2, <2>1, ElsewhereKnown
<1> QED BY <1>3, <1>4

\* A write that goes out joins the writes of its operation.
LEMMA SubmittedWrites ==
  ASSUME NEW p, posts' = posts \cup {p}
  PROVE  WritesOn(p.op)' = WritesOn(p.op) \cup {p} /\ \A op : op # p.op => WritesOn(op)' = WritesOn(op)
BY DEF WritesOn

\* A save is doubtful if anything about the settings was on its way.
LEMMA SaveConfigKnown ==
  ASSUME TabInv, SaveConfig
  PROVE  SettingsVisit' /\ SettingsKnown' /\ SwitchKnown'
<1> DEFINE new == Post("saveConfig", form, FALSE)
<1>1. /\ visit = "settings" /\ posts' = posts \cup {new}
      /\ unsure' = IF answers["config"] # {} \/ WritesOn("saveConfig") # {} THEN unsure \cup {"config"} ELSE unsure
      /\ UNCHANGED <<visit, cfg, backup, config, toggle, me, answers>>
  <2>1. Submit(new, "config") /\ visit = "settings" /\ UNCHANGED <<server, me, slices, forms, answers>>
    BY DEF SaveConfig
  <2>2. WritesOf("config") = {"saveConfig"}
    BY DEF WritesOf
  <2> HIDE DEF new
  <2> QED BY <2>1, <2>2 DEF Submit, WritesOn, server, slices, forms
<1>2. new.op = "saveConfig" /\ new.at = "sent"
  BY DEF Post
<1> HIDE DEF new
<1>3. TabIn /\ SettingsVisit /\ SettingsKnown /\ SwitchKnown
  BY DEF TabInv
<1>4. /\ WritesOn("saveConfig")' = WritesOn("saveConfig") \cup {new}
      /\ WritesOn("saveBackup")' = WritesOn("saveBackup")
  BY <1>1, <1>2, SubmittedWrites
<1>5. SettingsVisit'
  BY <1>1 DEF SettingsVisit
<1>6. SettingsKnown'
  <2>1. CASE "config" \in unsure'
    BY <2>1 DEF SettingsKnown
  <2>2. CASE "config" \notin unsure'
    <3>1. /\ answers["config"] = {} /\ WritesOn("saveConfig") = {}
          /\ Authed /\ config.res = "ok" => config.form = cfg
      BY <1>1, <1>3, <2>2 DEF SettingsKnown
    <3>2. Authed' => Authed
      BY <1>1 DEF Authed
    <3> QED BY <1>1, <1>2, <1>4, <3>1, <3>2 DEF SettingsKnown
  <2> QED BY <2>1, <2>2
<1>7. SwitchKnown'
  BY <1>1, <1>3, <1>4, SwitchQuiet DEF Same
<1> QED BY <1>5, <1>6, <1>7

\* The switch moves when its write goes out.
LEMMA SaveBackupKnown ==
  ASSUME TabInv, SaveBackup
  PROVE  SettingsVisit' /\ SettingsKnown' /\ SwitchKnown'
<1> DEFINE new == Post("saveBackup", EmptyForm, toggle.on)
<1>1. /\ posts' = posts \cup {new} /\ toggle' = [toggle EXCEPT !.on = ~@]
      /\ unsure' = IF answers["backups"] # {} \/ WritesOn("saveBackup") # {} THEN unsure \cup {"backups"} ELSE unsure
      /\ UNCHANGED <<visit, cfg, backup, config, me, answers>>
  <2>1. Submit(new, "backups") /\ toggle' = [toggle EXCEPT !.on = ~@] /\ UNCHANGED <<server, me, slices, answers>>
    BY DEF SaveBackup
  <2>2. WritesOf("backups") = {"saveBackup"}
    BY DEF WritesOf
  <2> HIDE DEF new
  <2> QED BY <2>1, <2>2 DEF Submit, WritesOn, server, slices
<1>2. new.op = "saveBackup" /\ new.at = "sent" /\ new.mine /\ new.from = toggle.on
  BY DEF Post
<1> HIDE DEF new
<1>3. TabIn /\ SettingsVisit /\ SettingsKnown /\ SwitchKnown
  BY DEF TabInv
<1>4. /\ WritesOn("saveBackup")' = WritesOn("saveBackup") \cup {new}
      /\ WritesOn("saveConfig")' = WritesOn("saveConfig")
  BY <1>1, <1>2, SubmittedWrites
<1>5. SettingsVisit' /\ SettingsKnown'
  <2>1. (Authed' => Authed) /\ unsure \subseteq unsure'
    BY <1>1 DEF Authed
  <2> QED BY <1>1, <1>3, <1>4, <2>1, SettingsQuiet DEF Same
<1>6. SwitchKnown'
  <2>1. CASE "backups" \in unsure'
    BY <2>1 DEF SwitchKnown
  <2>2. CASE "backups" \notin unsure'
    <3>1. /\ answers["backups"] = {} /\ WritesOn("saveBackup") = {}
          /\ toggle.known => toggle.on = backup
      BY <1>1, <1>3, <2>2 DEF SwitchKnown
    <3>2. toggle'.known = toggle.known /\ toggle'.on = ~toggle.on
      BY <1>1, <1>3 DEF TabIn, FormsIn
    <3>3. WritesOn("saveBackup")' = {new}
      BY <1>4, <3>1
    <3> QED BY <1>1, <1>2, <3>1, <3>2, <3>3 DEF SwitchKnown
  <2> QED BY <2>1, <2>2
<1> QED BY <1>5, <1>6

\* Writes of archives and updates of containers are not of the settings nor of the
\* switch.
LEMMA OtherSubmitsKnown ==
  ASSUME TabInv, CreateBackup \/ DeleteBackup \/ TriggerRollout
  PROVE  SettingsVisit' /\ SettingsKnown' /\ SwitchKnown'
<1>1. /\ UNCHANGED <<visit, cfg, backup, config, toggle, me, answers>> /\ unsure \subseteq unsure'
      /\ \E op \in {"create", "delete", "rollout"} : posts' = posts \cup {Post(op, EmptyForm, FALSE)}
  BY DEF CreateBackup, DeleteBackup, TriggerRollout, Submit, server, slices, forms
<1>2. PICK op \in {"create", "delete", "rollout"} : posts' = posts \cup {Post(op, EmptyForm, FALSE)}
  BY <1>1
<1>3. Post(op, EmptyForm, FALSE).op = op
  BY DEF Post
<1>4. /\ WritesOn("saveConfig")' = WritesOn("saveConfig")
      /\ WritesOn("saveBackup")' = WritesOn("saveBackup")
  BY <1>2, <1>3, SubmittedWrites
<1>5. Authed' => Authed
  BY <1>1 DEF Authed
<1> QED BY <1>1, <1>4, <1>5, ElsewhereKnown

\* The server stores a save: from then on only its answer makes the slice right.
LEMMA ServeConfigKnown ==
  ASSUME TabInv, NEW p \in posts, ServeConfig(p)
  PROVE  SettingsVisit' /\ SettingsKnown' /\ SwitchKnown'
<1> DEFINE v == Verdict({"admin"})
           q == [p EXCEPT !.at = v]
<1>1. /\ p.op = "saveConfig" /\ p.at = "sent" /\ Becomes(p, v)
      /\ cfg' = IF v = "ok" THEN p.form ELSE cfg
      /\ UNCHANGED <<visit, backup, config, toggle, me, answers, unsure>>
  BY DEF ServeConfig, Served, slices, forms, ghosts
<1> HIDE DEF v
<1>2. TabIn /\ SettingsVisit /\ SettingsKnown /\ SwitchKnown /\ p \in Writes
  BY DEF TabInv, TabIn, PostsIn
<1>3. /\ WritesOn("saveConfig")' = (WritesOn("saveConfig") \ {p}) \cup {q}
      /\ WritesOn("saveBackup")' = WritesOn("saveBackup")
  BY <1>1, <1>2, BecomesWrites DEF TabIn
<1>4. q.at = v /\ p \in WritesOn("saveConfig")
  BY <1>1, <1>2 DEF Writes, WritesOn
<1> HIDE DEF q
<1>5. visit = "settings" /\ SettingsVisit'
  BY <1>1, <1>2, <1>4 DEF SettingsVisit
<1>6. SettingsKnown'
  <2>1. CASE "config" \in unsure
    BY <1>1, <2>1 DEF SettingsKnown
  <2>2. CASE "config" \notin unsure
    <3>1. /\ answers["config"] = {} /\ WritesOn("saveConfig") = {p}
          /\ Authed /\ config.res = "ok" => config.form = cfg
      BY <1>1, <1>2, <1>4, <2>2 DEF SettingsKnown
    <3>2. WritesOn("saveConfig")' = {q} /\ (Authed' <=> Authed)
      BY <1>1, <1>3, <3>1 DEF Authed
    <3> QED BY <1>1, <1>4, <3>1, <3>2 DEF SettingsKnown
  <2> QED BY <2>1, <2>2
<1>7. SwitchKnown'
  BY <1>1, <1>2, <1>3, SwitchQuiet DEF Same
<1> QED BY <1>5, <1>6, <1>7

\* The server stores the switch.
LEMMA ServeBackupKnown ==
  ASSUME TabInv, NEW p \in posts, ServeBackup(p)
  PROVE  SettingsVisit' /\ SettingsKnown' /\ SwitchKnown'
<1> DEFINE v == Verdict({"admin"})
           q == [p EXCEPT !.at = v]
<1>1. /\ p.op = "saveBackup" /\ p.at = "sent" /\ Becomes(p, v)
      /\ backup' = IF v = "ok" THEN ~p.from ELSE backup
      /\ UNCHANGED <<visit, cfg, config, toggle, me, answers, unsure>>
  BY DEF ServeBackup, Served, slices, forms, ghosts
<1> HIDE DEF v
<1>2. TabIn /\ SettingsVisit /\ SettingsKnown /\ SwitchKnown /\ p \in Writes
  BY DEF TabInv, TabIn, PostsIn
<1>3. /\ WritesOn("saveBackup")' = (WritesOn("saveBackup") \ {p}) \cup {q}
      /\ WritesOn("saveConfig")' = WritesOn("saveConfig")
  BY <1>1, <1>2, BecomesWrites DEF TabIn
<1>4. q.at = v /\ q.from = p.from /\ q.mine = p.mine /\ p \in WritesOn("saveBackup")
  BY <1>1, <1>2 DEF Writes, WritesOn
<1> HIDE DEF q
<1>5. SettingsVisit' /\ SettingsKnown'
  <2>1. Authed' => Authed
    BY <1>1 DEF Authed
  <2> QED BY <1>1, <1>2, <1>3, <2>1, SettingsQuiet DEF Same
<1>6. SwitchKnown'
  <2>1. CASE "backups" \in unsure
    BY <1>1, <2>1 DEF SwitchKnown
  <2>2. CASE "backups" \notin unsure
    <3>1. /\ answers["backups"] = {} /\ WritesOn("saveBackup") = {p}
          /\ toggle.known => p.mine /\ toggle.on = ~p.from /\ backup = p.from
      BY <1>1, <1>2, <1>4, <2>2 DEF SwitchKnown
    <3>2. WritesOn("saveBackup")' = {q}
      BY <1>3, <3>1
    <3> QED BY <1>1, <1>4, <3>1, <3>2 DEF SwitchKnown
  <2> QED BY <2>1, <2>2
<1> QED BY <1>5, <1>6

\* The other writes are executed.
LEMMA ServeOtherKnown ==
  ASSUME TabInv, NEW p \in posts, ServeArchives(p) \/ ServeRollout(p)
  PROVE  SettingsVisit' /\ SettingsKnown' /\ SwitchKnown'
<1>1. /\ p.op \in {"create", "delete", "rollout"} /\ \E at : Becomes(p, at)
      /\ UNCHANGED <<visit, cfg, backup, config, toggle, me, answers, unsure>>
  BY DEF ServeArchives, ServeRollout, Served, server, slices, forms, ghosts
<1>2. /\ WritesOn("saveConfig")' = WritesOn("saveConfig")
      /\ WritesOn("saveBackup")' = WritesOn("saveBackup")
  BY <1>1, BecomesWrites DEF TabInv, TabIn
<1> QED BY <1>1, <1>2, ElsewhereKnown DEF Authed

\* A write that is lost on its way has changed nothing; one whose answer is lost is
\* doubtful.
LEMMA WriteLostKnown ==
  ASSUME TabInv, NEW p \in posts, WriteLost(p)
  PROVE  SettingsVisit' /\ SettingsKnown' /\ SwitchKnown'
<1> DEFINE q == [p EXCEPT !.at = "error"]
<1>1. /\ p.at \in {"sent", "ok"} /\ Becomes(p, "error")
      /\ unsure' = IF p.at = "ok" THEN unsure \cup {k \in Kinds : p.op \in WritesOf(k)} ELSE unsure
      /\ UNCHANGED <<visit, cfg, backup, config, toggle, me, answers>>
  BY DEF WriteLost, server, slices, forms
<1>2. TabIn /\ SettingsVisit /\ SettingsKnown /\ SwitchKnown /\ p \in Writes
  BY DEF TabInv, TabIn, PostsIn
<1>3. /\ WritesOn(p.op)' = (WritesOn(p.op) \ {p}) \cup {q}
      /\ \A op : op # p.op => WritesOn(op)' = WritesOn(op)
  BY <1>1, <1>2, BecomesWrites DEF TabIn
<1>4. q.at = "error" /\ q.from = p.from /\ q.mine = p.mine /\ p \in WritesOn(p.op)
  BY <1>2 DEF Writes, WritesOn
<1> HIDE DEF q
<1>5. (Authed' <=> Authed) /\ unsure \subseteq unsure'
  BY <1>1 DEF Authed
<1>6. CASE p.op = "saveConfig"
  <2>1. p.at = "ok" => "config" \in unsure'
    BY <1>1, <1>6 DEF WritesOf, Kinds
  <2>2. visit = "settings" /\ SettingsVisit'
    BY <1>1, <1>2, <1>4, <1>6 DEF SettingsVisit
  <2>3. SettingsKnown'
    <3>1. CASE "config" \in unsure'
      BY <3>1 DEF SettingsKnown
    <3>2. CASE "config" \notin unsure'
      <4>1. p.at = "sent" /\ "config" \notin unsure
        BY <1>1, <1>5, <2>1, <3>2
      <4>2. /\ answers["config"] = {} /\ WritesOn("saveConfig") = {p}
            /\ Authed /\ config.res = "ok" => config.form = cfg
        BY <1>2, <1>4, <1>6, <4>1 DEF SettingsKnown
      <4>3. WritesOn("saveConfig")' = {q}
        BY <1>3, <1>6, <4>2
      <4> QED BY <1>1, <1>4, <1>5, <4>2, <4>3 DEF SettingsKnown
    <3> QED BY <3>1, <3>2
  <2>4. SwitchKnown'
    BY <1>1, <1>2, <1>3, <1>5, <1>6, SwitchQuiet DEF Same
  <2> QED BY <2>2, <2>3, <2>4
<1>7. CASE p.op = "saveBackup"
  <2>1. p.at = "ok" => "backups" \in unsure'
    BY <1>1, <1>7 DEF WritesOf, Kinds
  <2>2. SettingsVisit' /\ SettingsKnown'
    BY <1>1, <1>2, <1>3, <1>5, <1>7, SettingsQuiet DEF Same
  <2>3. SwitchKnown'
    <3>1. CASE "backups" \in unsure'
      BY <3>1 DEF SwitchKnown
    <3>2. CASE "backups" \notin unsure'
      <4>1. p.at = "sent" /\ "backups" \notin unsure
        BY <1>1, <1>5, <2>1, <3>2
      <4>2. /\ answers["backups"] = {} /\ WritesOn("saveBackup") = {p}
            /\ toggle.known => p.mine /\ toggle.on = ~p.from /\ backup = p.from
        BY <1>2, <1>4, <1>7, <4>1 DEF SwitchKnown
      <4>3. WritesOn("saveBackup")' = {q}
        BY <1>3, <1>7, <4>2
      <4> QED BY <1>1, <1>4, <4>2, <4>3 DEF SwitchKnown
    <3> QED BY <3>1, <3>2
  <2> QED BY <2>2, <2>3
<1>8. CASE p.op \notin {"saveConfig", "saveBackup"}
  BY <1>1, <1>3, <1>5, <1>8, ElsewhereKnown
<1> QED BY <1>6, <1>7, <1>8

\* A save is answered: executed, the settings are asked for again; refused, nothing
\* had changed.
LEMMA ConfigSavedKnown ==
  ASSUME TabInv, NEW p \in posts, ConfigSaved(p)
  PROVE  SettingsVisit' /\ SettingsKnown' /\ SwitchKnown'
<1>1. /\ p.op = "saveConfig" /\ p.at # "sent" /\ posts' = posts \ {p}
      /\ IF p.at = "ok"
           THEN /\ Ask("config", ConfigAnswer(cfg))
                /\ unsure' = IF WritesOn("saveConfig") \ {p} # {} THEN unsure \cup {"config"} ELSE unsure
           ELSE UNCHANGED <<answers, unsure>>
      /\ UNCHANGED <<visit, cfg, backup, config, toggle, me>>
  BY DEF ConfigSaved, Answered, WritesOn, server, slices, forms
<1>2. TabIn /\ SettingsVisit /\ SettingsKnown /\ SwitchKnown
  BY DEF TabInv
<1>3. /\ WritesOn("saveConfig")' = WritesOn("saveConfig") \ {p}
      /\ WritesOn("saveBackup")' = WritesOn("saveBackup")
      /\ p \in WritesOn("saveConfig")
  BY <1>1 DEF WritesOn
<1>4. visit = "settings" /\ (Authed' <=> Authed) /\ unsure \subseteq unsure'
  BY <1>1, <1>2, <1>3 DEF SettingsVisit, Authed
<1>5. SettingsVisit' /\ SettingsKnown'
  <2>1. CASE p.at = "ok"
    <3>1. answers'["config"] = answers["config"] \cup {ConfigAnswer(cfg)}
      BY <1>1, <1>2, <2>1, AskedAt DEF TabIn, Kinds
    <3> QED BY <1>1, <1>2, <1>3, <1>4, <2>1, <3>1, SettingsAsked
  <2>2. CASE p.at # "ok"
    <3>1. SettingsVisit'
      BY <1>1, <1>4 DEF SettingsVisit
    <3>2. CASE "config" \in unsure
      BY <1>1, <2>2, <3>1, <3>2 DEF SettingsKnown
    <3>3. CASE "config" \notin unsure
      <4>1. /\ answers["config"] = {} /\ WritesOn("saveConfig") = {p}
            /\ Authed /\ config.res = "ok" => config.form = cfg
        BY <1>2, <1>3, <2>2, <3>3 DEF SettingsKnown
      <4> QED BY <1>1, <1>3, <1>4, <2>2, <3>1, <4>1 DEF SettingsKnown
    <3> QED BY <3>2, <3>3
  <2> QED BY <2>1, <2>2
<1>6. answers'["backups"] = answers["backups"]
  BY <1>1, <1>2, AskedAt DEF TabIn, Kinds
<1>7. SwitchKnown'
  BY <1>1, <1>2, <1>3, <1>4, <1>6, SwitchQuiet DEF Same
<1> QED BY <1>5, <1>7

\* A refused switch goes back to what it was sent from, which is what the server has.
LEMMA BackupSavedKnown ==
  ASSUME TabInv, NEW p \in posts, BackupSaved(p)
  PROVE  SettingsVisit' /\ SettingsKnown' /\ SwitchKnown'
<1>1. /\ p.op = "saveBackup" /\ posts' = posts \ {p} /\ (me' = me \/ me' = Login)
      /\ toggle' = IF p.at # "ok" /\ p.mine THEN [toggle EXCEPT !.on = p.from] ELSE toggle
      /\ UNCHANGED <<visit, cfg, backup, config, answers, unsure>>
  BY DEF BackupSaved, Answered, Expires, server, slices, ghosts
<1>2. TabIn /\ SettingsVisit /\ SettingsKnown /\ SwitchKnown
  BY DEF TabInv
<1>3. /\ WritesOn("saveBackup")' = WritesOn("saveBackup") \ {p}
      /\ WritesOn("saveConfig")' = WritesOn("saveConfig")
      /\ p \in WritesOn("saveBackup")
  BY <1>1 DEF WritesOn
<1>4. SettingsVisit' /\ SettingsKnown'
  <2>1. Authed' => Authed
    BY <1>1 DEF Authed, Login
  <2> QED BY <1>1, <1>2, <1>3, <2>1, SettingsQuiet DEF Same
<1>5. SwitchKnown'
  <2>1. CASE "backups" \in unsure
    BY <1>1, <2>1 DEF SwitchKnown
  <2>2. CASE "backups" \notin unsure
    <3>1. /\ answers["backups"] = {} /\ WritesOn("saveBackup") = {p}
          /\ toggle.known => p.mine /\ toggle.on = ~p.from /\ backup = (IF p.at = "ok" THEN ~p.from ELSE p.from)
      BY <1>2, <1>3, <2>2 DEF SwitchKnown
    <3>2. toggle'.known = toggle.known /\ toggle'.on = (IF p.at # "ok" /\ p.mine THEN p.from ELSE toggle.on)
      BY <1>1, <1>2 DEF TabIn, FormsIn
    <3> QED BY <1>1, <1>3, <3>1, <3>2 DEF SwitchKnown
  <2> QED BY <2>1, <2>2
<1> QED BY <1>4, <1>5

\* The other answers: the archives bring the switch with them, an update brings
\* everything.
LEMMA OtherAnsweredKnown ==
  ASSUME TabInv, NEW p \in posts, ArchivesChanged(p) \/ RolloutAnswered(p)
  PROVE  SettingsVisit' /\ SettingsKnown' /\ SwitchKnown'
<1>1. /\ p.op \in {"create", "delete", "rollout"} /\ posts' = posts \ {p} /\ (me' = me \/ me' = Login)
      /\ UNCHANGED <<visit, cfg, backup, config, toggle>>
  BY DEF ArchivesChanged, RolloutAnswered, Answered, Expires, server, slices, forms
<1>2. TabIn /\ SettingsVisit /\ SettingsKnown /\ SwitchKnown
  BY DEF TabInv
<1>3. /\ WritesOn("saveConfig")' = WritesOn("saveConfig")
      /\ WritesOn("saveBackup")' = WritesOn("saveBackup")
  BY <1>1 DEF WritesOn
<1>4. Authed' => Authed
  BY <1>1 DEF Authed, Login
<1>5. CASE ArchivesChanged(p)
  <2>1. \/ Ask("backups", [BackupsAnswer EXCEPT !.mine = p.mine]) /\ Overlap({"backups"})
        \/ UNCHANGED <<answers, unsure>>
    BY <1>5 DEF ArchivesChanged
  <2>2. [BackupsAnswer EXCEPT !.mine = p.mine].on = backup
    BY DEF BackupsAnswer
  <2> QED BY <1>1, <1>3, <1>4, <2>1, <2>2, SwitchAsked, ElsewhereKnown
<1>6. CASE RolloutAnswered(p)
  <2>1. CASE UNCHANGED <<answers, unsure>>
    BY <1>1, <1>3, <1>4, <2>1, ElsewhereKnown
  <2>2. CASE AskAll(answers) /\ Overlap({"config"})
    <3>1. /\ answers'["backups"] = answers["backups"]
          /\ answers'["config"] = IF visit = "settings" THEN answers["config"] \cup {ConfigAnswer(cfg)} ELSE answers["config"]
      BY <1>2, <2>2, AskedAllAt DEF TabIn, AnswersIn
    <3>2. unsure \subseteq unsure' /\ (WritesOn("saveConfig") # {} => "config" \in unsure')
      BY <2>2 DEF Overlap, WritesOn, WritesOf
    <3>3. SettingsVisit' /\ SettingsKnown'
      BY <1>1, <1>2, <1>3, <1>4, <3>1, <3>2, SettingsQuiet, SettingsAsked DEF Same
    <3>4. SwitchKnown'
      BY <1>1, <1>2, <1>3, <3>1, <3>2, SwitchQuiet DEF Same
    <3> QED BY <3>3, <3>4
  <2> QED BY <1>6, <2>1, <2>2 DEF RolloutAnswered
<1> QED BY <1>5, <1>6

-----------------------------------------------------------------------------
(* The theorems about what the tab shows *)

\* Initially nothing was asked but the session.
LEMMA InitTabInv == Init => TabInv
<1>1. SUFFICES ASSUME Init PROVE SettingsVisit /\ SettingsKnown /\ SwitchKnown
  BY InitTabIn DEF TabInv
<1>2. /\ answers["config"] = {} /\ answers["backups"] = {} /\ \A op : WritesOn(op) = {}
      /\ config.res = "none" /\ ~toggle.known
  BY <1>1 DEF Init, Kinds, Config, NewSwitch, WritesOn
<1> QED BY <1>2 DEF SettingsVisit, SettingsKnown, SwitchKnown

\* Every step keeps what the tab knows.
LEMMA NextTabInv == TabInv /\ [Next]_vars => TabInv'
<1>1. SUFFICES ASSUME TabInv, [Next]_vars PROVE SettingsVisit' /\ SettingsKnown' /\ SwitchKnown'
  BY NextTabIn DEF TabInv
<1>2. CASE UNCHANGED vars
  BY <1>1, <1>2, ElsewhereKnown DEF vars, server, slices, forms, ghosts, Authed, WritesOn
<1>3. CASE Arrival
  BY <1>1, <1>3, SessionKnown, ConfigKnown, BackupsKnown DEF Arrival
<1>4. CASE ListsArrival
  BY <1>1, <1>4, ListsKnown DEF ListsArrival
<1>5. CASE Service
  BY <1>1, <1>5, ServeConfigKnown, ServeBackupKnown, ServeOtherKnown DEF Service
<1>6. CASE Answering
  BY <1>1, <1>6, ConfigSavedKnown, BackupSavedKnown, OtherAnsweredKnown DEF Answering
<1>7. CASE Poll
  BY <1>1, <1>7, ListsKnown
<1>8. CASE Person
  BY <1>1, <1>8, ListsKnown, NavigateKnown, RestKnown, SaveConfigKnown, SaveBackupKnown, OtherSubmitsKnown
     DEF Person
<1>9. CASE Environment
  BY <1>1, <1>9, ListsKnown, WriteLostKnown, RestKnown DEF Environment
<1> QED BY <1>1, <1>2, <1>3, <1>4, <1>5, <1>6, <1>7, <1>8, <1>9 DEF Next

\* A tab with nothing about the settings on its way shows the settings of the
\* server: a save is answered before it is read again, a refused one changed
\* nothing, and a session that comes asks again.
THEOREM SettingsAreShown == Spec => []QuietSettingsTrue
<1>1. TabInv => QuietSettingsTrue
  BY DEF TabInv, SettingsKnown, QuietSettingsTrue, ShowsSettings, Authed, WritesOn
<1> QED BY <1>1, InitTabInv, NextTabInv, PTL DEF Spec

\* The switch of the backups moves before the server knows, and is right again when
\* nothing about it is on its way.
THEOREM SwitchIsShown == Spec => []QuietSwitchTrue
<1>1. TabInv => QuietSwitchTrue
  BY DEF TabInv, SwitchKnown, QuietSwitchTrue, WritesOn
<1> QED BY <1>1, InitTabInv, NextTabInv, PTL DEF Spec
=============================================================================
