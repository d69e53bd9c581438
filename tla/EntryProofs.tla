---------------------------- MODULE EntryProofs ----------------------------
(***************************************************************************)
(* The way into an account: whoever has one can enter it, the backup codes *)
(* that were shown open it, and while an invitation waits only its link    *)
(* gives a secret.  For any people, any browsers and any bounds; the cases *)
(* in which two requests write the same account at once are the ones       *)
(* SignIn records in clash.                                                *)
(***************************************************************************)
EXTENDS SignIn, FiniteSetTheorems, TLAPS

-----------------------------------------------------------------------------
(* What holds of a browser *)

\* The requests of a person about the enrolment of their own account.
Enrols(b) == req[b].op \in {"setupMfa", "verify", "inviteAccept", "inviteVerify"}

\* A request is sent from the page its answer is shown on, and by who it is about.
OnPage(b) ==
  /\ req[b].op \in {"setupMfa", "verify"} => view[b].page \in {"login", "setup"}
  /\ req[b].op \in {"login", "setupPassword"} => view[b].page = "login"
  /\ req[b].op = "setupComplete" => view[b].page = "setup"
  /\ req[b].op \in {"inviteAccept", "inviteVerify"} => view[b].page = "invite"
  /\ Enrols(b) => req[b].on = owner[b]
  /\ req[b].at = "insert" => req[b].op \in {"verify", "inviteVerify"}

\* An enrolment is of an account that was made; past its password it has one, and
\* its secret is a number.
EnrolmentKnown(b) ==
  Enrols(b) =>
    /\ req[b].at # "read" => row[owner[b]].id # 0
    /\ req[b].at \in {"secret", "enable", "drop", "insert", "clear"} /\ Exists(owner[b]) => row[owner[b]].pw
    /\ req[b].at = "done" /\ req[b].op \in {"setupMfa", "inviteAccept"} => req[b].got # 0

\* What is about to be activated is in the phone of the owner.
ActivationKnown(b) ==
  Enrols(b) /\ req[b].at = "enable" /\ Exists(owner[b]) /\ owner[b] \notin clash =>
    row[owner[b]].secret = req[b].key /\ <<owner[b], req[b].key>> \in phone

\* The login page only gives a secret to who is not invited.
FinalisationKnown(b) == At(b, {"setupMfa"}, "secret") /\ owner[b] \notin clash => ~Invited(owner[b])

\* What drops codes drops them of an account without a secret, or of nobody; a role
\* is one of the two.
ErasureKnown(b) ==
  /\ At(b, {"setRole"}, "write") => req[b].arg \in {"admin", "viewer"}
  /\ req[b].op \in {"delete", "setRole", "resetMfa"} /\ req[b].at \in {"write", "codes"} => row[req[b].on].id # 0
  /\ At(b, {"resetMfa"}, "codes") /\ req[b].on \notin clash /\ Exists(req[b].on) => row[req[b].on].secret = 0
  /\ At(b, {"delete"}, "codes") => ~Exists(req[b].on)

\* The secret on a page was scanned.
ScreenKnown(b) == view[b].phase = "enroll" => <<owner[b], view[b].key>> \in phone

BrowserOK(b) ==
  /\ OnPage(b) /\ EnrolmentKnown(b) /\ ActivationKnown(b) /\ FinalisationKnown(b)
  /\ ErasureKnown(b) /\ ScreenKnown(b)

-----------------------------------------------------------------------------
(* What holds of an account *)

\* A secret is only given to who has a password, and who has none is invited.
RowSound(u) ==
  /\ Exists(u) => row[u].id # 0 /\ (Invited(u) \/ row[u].pw)
  /\ row[u].secret # 0 => row[u].pw

\* An active secret is in the phone of the owner.
ActiveKnown(u) == Exists(u) /\ row[u].totp /\ u \notin clash => <<u, row[u].secret>> \in phone

\* The codes the owner was shown, and those an answer is about to show.
Owed(u) ==
  {c[2] : c \in {c \in sheet : c[1] = u}}
  \cup {req[b].got : b \in {b \in Browser : req[b].op \in {"verify", "inviteVerify"} /\ owner[b] = u}}

OwedNumbered(u) == \A n \in Owed(u) : n <= made[u]

\* A code, or a later one, opens the account, or is about to be replaced.
Covered(u, n) ==
  \/ \E d \in codes \cup spent : d[1] = u /\ d[2] >= n
  \/ \E b \in Browser : req[b].at = "insert" /\ req[b].on = u

OwedStand(u) ==
  Exists(u) /\ row[u].secret # 0 /\ u \notin clash \cup cut =>
    \A n \in Owed(u) : row[u].secret < n => Covered(u, n)

AccountOK(u) == RowSound(u) /\ ActiveKnown(u) /\ OwedNumbered(u) /\ OwedStand(u)

Numbered == \A p \in phone : p[2] # 0

EntryInv ==
  TypeOK /\ Numbered /\ (\A b \in Browser : BrowserOK(b)) /\ (\A u \in User : AccountOK(u))

-----------------------------------------------------------------------------
(* Statements on the accounts *)

\* A row that is updated is the only one that changes, if it is there.
LEMMA UpdatedRow ==
  ASSUME row \in [User -> Row], NEW u, NEW new, u \in User => new \in Row, row' = Updated(u, new)
  PROVE  /\ row' \in [User -> Row]
         /\ \A v \in User : row'[v] = IF v = u /\ Exists(u) THEN new ELSE row[v]
<1>1. CASE u \in User
  BY <1>1 DEF Updated
<1>2. CASE u \notin User
  <2>1. row' = row
    BY <1>2 DEF Updated
  <2> QED BY <1>2, <2>1
<1> QED BY <1>1, <1>2

\* What each statement writes: the password, imposed or not,
LEMMA PasswordRow ==
  ASSUME NEW r \in Row, NEW m \in BOOLEAN, NEW n, n = [r EXCEPT !.pw = TRUE, !.must = m]
  PROVE  n \in Row /\ n.pw /\ n.must = m /\ n.id = r.id /\ n.exists = r.exists /\ n.role = r.role
         /\ n.totp = r.totp /\ n.secret = r.secret /\ n.invite = r.invite
BY DEF Row

\* a secret, which waits for its first code,
LEMMA SecretRow ==
  ASSUME NEW r \in Row, NEW s \in Nat, NEW n, n = [r EXCEPT !.secret = s, !.totp = FALSE]
  PROVE  n \in Row /\ ~n.totp /\ n.secret = s /\ n.id = r.id /\ n.exists = r.exists /\ n.role = r.role
         /\ n.pw = r.pw /\ n.must = r.must /\ n.invite = r.invite
BY DEF Row

\* the activation,
LEMMA EnabledRow ==
  ASSUME NEW r \in Row, NEW n, n = [r EXCEPT !.totp = TRUE]
  PROVE  n \in Row /\ n.totp /\ n.secret = r.secret /\ n.id = r.id /\ n.exists = r.exists
         /\ n.role = r.role /\ n.pw = r.pw /\ n.must = r.must /\ n.invite = r.invite
BY DEF Row

\* an invitation, or its end,
LEMMA InviteRow ==
  ASSUME NEW r \in Row, NEW i \in Nat, NEW n, n = [r EXCEPT !.invite = i]
  PROVE  n \in Row /\ n.invite = i /\ n.totp = r.totp /\ n.secret = r.secret /\ n.id = r.id
         /\ n.exists = r.exists /\ n.role = r.role /\ n.pw = r.pw /\ n.must = r.must
BY DEF Row

\* the role,
LEMMA RoleRow ==
  ASSUME NEW r \in Row, NEW role \in {"admin", "viewer"}, NEW n, n = [r EXCEPT !.role = role]
  PROVE  n \in Row /\ n.role = role /\ n.totp = r.totp /\ n.secret = r.secret /\ n.id = r.id
         /\ n.exists = r.exists /\ n.pw = r.pw /\ n.must = r.must /\ n.invite = r.invite
BY DEF Row

\* and the end of the account.
LEMMA GoneRow ==
  ASSUME NEW r \in Row, NEW n, n = [r EXCEPT !.exists = FALSE]
  PROVE  n \in Row /\ ~n.exists /\ n.role = r.role /\ n.totp = r.totp /\ n.secret = r.secret /\ n.id = r.id
         /\ n.pw = r.pw /\ n.must = r.must /\ n.invite = r.invite
BY DEF Row

\* A new account has a number.
LEMMA InsertedRow ==
  ASSUME row \in [User -> Row], NEW u \in User, NEW role \in {"admin", "viewer"}, NEW pw \in BOOLEAN, NEW i \in Nat,
         row' = Inserted(u, role, pw, i)
  PROVE  /\ row' \in [User -> Row]
         /\ row'[u].id # 0 /\ row'[u].exists /\ row'[u].role = role /\ row'[u].pw = pw /\ row'[u].invite = i
         /\ row'[u].secret = 0 /\ ~row'[u].totp /\ ~row'[u].must
         /\ \A v \in User : v # u => row'[v] = row[v]
<1>1. NextId \in Nat \ {0}
  <2> DEFINE known == {v \in User : row[v].id # 0}
  <2>1. IsFiniteSet(known)
    BY AccountsAssumption, FS_Subset
  <2>2. Cardinality(known) \in Nat
    BY <2>1, FS_CardinalityType
  <2>3. NextId = 1 + Cardinality(known)
    BY DEF NextId
  <2> QED BY <2>2, <2>3
<1>2. PICK r : r = NoRow
  OBVIOUS
<1>3. r \in Row /\ r.secret = 0 /\ ~r.totp /\ ~r.must
  BY <1>2 DEF NoRow, Row
<1>4. PICK there : there = TRUE
  OBVIOUS
<1>5. PICK new : new = [r EXCEPT !.id = NextId, !.exists = there, !.role = role, !.pw = pw, !.invite = i]
  OBVIOUS
<1>6. new \in Row
  BY <1>1, <1>3, <1>4, <1>5 DEF Row
<1>7. /\ new.id = NextId /\ new.exists = there /\ new.role = role /\ new.pw = pw /\ new.invite = i
      /\ new.secret = r.secret /\ new.totp = r.totp /\ new.must = r.must
  BY <1>3, <1>5 DEF Row
<1>8. row' = [row EXCEPT ![u] = new]
  BY <1>2, <1>4, <1>5, Zenon DEF Inserted
<1>9. row' \in [User -> Row] /\ row'[u] = new /\ \A v \in User : v # u => row'[v] = row[v]
  BY <1>6, <1>8
<1> QED BY <1>1, <1>3, <1>4, <1>7, <1>9

-----------------------------------------------------------------------------
(* Requests and pages *)

\* A new request of a browser,
LEMMA ReqSet ==
  ASSUME RequestsOK, NEW b \in Browser, NEW r \in Requests, req' = [req EXCEPT ![b] = r]
  PROVE  RequestsOK' /\ req'[b] = r /\ \A c \in Browser : c # b => req'[c] = req[c]
BY DEF RequestsOK

\* and one that moves on.
LEMMA ReqMoved ==
  ASSUME RequestsOK, NEW b \in Browser, NEW at \in Stages, req' = [req EXCEPT ![b].at = at]
  PROVE  /\ RequestsOK' /\ \A c \in Browser : c # b => req'[c] = req[c]
         /\ req'[b].at = at /\ req'[b].op = req[b].op /\ req'[b].on = req[b].on
         /\ req'[b].key = req[b].key /\ req'[b].got = req[b].got
<1>1. req[b] \in Requests
  BY DEF RequestsOK
<1>2. PICK r : r = [req[b] EXCEPT !.at = at]
  OBVIOUS
<1>3. r \in Requests /\ r.at = at /\ r.op = req[b].op /\ r.on = req[b].on /\ r.key = req[b].key /\ r.got = req[b].got
  BY <1>1, <1>2 DEF Requests
<1>4. req' = [req EXCEPT ![b] = r]
  BY <1>2
<1> QED BY <1>3, <1>4, ReqSet

\* The request as it is written.
LEMMA RequestIs ==
  ASSUME NEW op \in Ops, NEW at \in Stages, NEW u \in User, NEW arg \in Args, NEW key \in Nat
  PROVE  /\ Request(op, at, u, arg, key) \in Requests
         /\ Request(op, at, u, arg, key).op = op /\ Request(op, at, u, arg, key).at = at
         /\ Request(op, at, u, arg, key).on = u /\ Request(op, at, u, arg, key).key = key
         /\ Request(op, at, u, arg, key).arg = arg /\ Request(op, at, u, arg, key).got = 0
BY DEF Request, Requests

\* No request.
LEMMA IdleIs ==
  ASSUME PagesOK, NEW b \in Browser
  PROVE  Idle(b) \in Requests /\ Idle(b).op = "none" /\ Idle(b).at = "none" /\ Idle(b).got = 0
BY DEF PagesOK, Idle, Request, Requests, Ops, Stages, Args

\* Another page of a browser.
LEMMA ViewSet ==
  ASSUME DOMAIN view = Browser, \A c \in Browser : ViewOK(view[c]), NEW b \in Browser, NEW v, ViewOK(v), Show(b, v)
  PROVE  /\ DOMAIN view' = Browser /\ \A c \in Browser : ViewOK(view'[c])
         /\ view'[b] = v /\ \A c \in Browser : c # b => view'[c] = view[c]
BY DEF Show

\* The pages that are opened.
LEMMA ViewIs ==
  ASSUME NEW page, NEW phase, HasPhase(page, phase), NEW tok \in Nat, NEW key \in Nat, NEW must \in BOOLEAN
  PROVE  /\ ViewOK(View(page, phase, tok, key, must)) /\ View(page, phase, tok, key, must).page = page
         /\ View(page, phase, tok, key, must).phase = phase /\ View(page, phase, tok, key, must).key = key
<1>1. page \in {"none", "login", "setup", "invite", "app"} /\ phase \in Phases
  BY DEF HasPhase, Phases
<1> QED BY <1>1 DEF View, ViewOK, Views

\* Another phase of a page.
LEMMA ViewMoved ==
  ASSUME NEW v, ViewOK(v), NEW phase, HasPhase(v.page, phase), NEW key \in Nat, NEW must \in BOOLEAN, NEW w,
         \/ w = [v EXCEPT !.phase = phase] /\ key = v.key
         \/ w = [v EXCEPT !.phase = phase, !.key = key]
         \/ w = [v EXCEPT !.phase = phase, !.key = key, !.must = must]
  PROVE  ViewOK(w) /\ w.page = v.page /\ w.phase = phase /\ w.key = key
<1>1. phase \in Phases
  BY DEF HasPhase, Phases
<1>2. v \in Views
  BY DEF ViewOK
<1>3. w \in Views /\ w.page = v.page /\ w.phase = phase /\ w.key = key
  BY <1>1, <1>2 DEF Views
<1> QED BY <1>3 DEF ViewOK

\* The sign-in page, and what checkSession leads to.
LEMMA EnteredIs ==
  ASSUME NEW b
  PROVE  /\ ViewOK(LoginPage) /\ LoginPage.page = "login" /\ LoginPage.phase = "password"
         /\ ViewOK(Entered(b, LoginPage)) /\ Entered(b, LoginPage).phase # "enroll"
<1>1. HasPhase("login", "password") /\ HasPhase("app", "forced") /\ HasPhase("app", "home")
  BY DEF HasPhase
<1>2. ViewOK(LoginPage) /\ LoginPage.page = "login" /\ LoginPage.phase = "password"
  BY <1>1 DEF LoginPage, View, ViewOK, Views, Phases
<1>3. CASE SessionOpen(b)
  <2>1. \E phase \in {"forced", "home"} : Entered(b, LoginPage) = View("app", phase, 0, 0, FALSE)
    BY <1>3 DEF Entered
  <2> QED BY <1>1, <1>2, <2>1 DEF View, ViewOK, Views, Phases
<1>4. CASE ~SessionOpen(b)
  BY <1>2, <1>4 DEF Entered
<1> QED BY <1>2, <1>3, <1>4

\* Where each form is.
LEMMA FormIs ==
  ASSUME NEW v
  PROVE  /\ Form(v) \in {"login", "setupPassword"} => v.page = "login"
         /\ Form(v) = "verify" => v.page \in {"login", "setup"}
         /\ Form(v) \in {"setupStart", "setupComplete"} => v.page = "setup"
         /\ Form(v) = "inviteAccept" => v.page = "invite"
         /\ Form(v) = "inviteVerify" => v.page = "invite" /\ v.phase = "enroll"
BY DEF Form, LoginForm, SetupForm, InviteForm, AppForm

-----------------------------------------------------------------------------
(* What a step of one browser leaves alone *)

\* The other browsers, and what was scanned or went wrong before.
Frame(b) ==
  /\ owner' = owner /\ phone \subseteq phone' /\ clash \subseteq clash' /\ cut \subseteq cut'
  /\ \A c \in Browser : c # b => req'[c] = req[c] /\ view'[c] = view[c]

\* No account comes back or loses its password; who changes a secret or invites
\* clashes with the requests of others that read it.
RowsMove(b) ==
  \A u \in User : row[u].id # 0 =>
    /\ row'[u].id # 0 /\ (Exists(u)' => Exists(u)) /\ (row[u].pw => row'[u].pw)
    /\ row'[u].secret # row[u].secret \/ (Invited(u)' /\ ~Invited(u)) =>
         \A c \in Browser : c # b /\ req[c].op \in Enrolling /\ req[c].on = u => u \in clash'

\* The requests of the others stay what they were.
LEMMA OthersKept ==
  ASSUME RequestsOK, PagesOK, NEW b \in Browser, Frame(b), RowsMove(b), NEW c \in Browser, c # b, BrowserOK(c)
  PROVE  BrowserOK(c)'
<1>1. /\ req'[c] = req[c] /\ view'[c] = view[c] /\ owner' = owner /\ phone \subseteq phone' /\ clash \subseteq clash'
      /\ owner[c] \in User /\ req[c].on \in User
  BY DEF Frame, RequestsOK, Requests, PagesOK
<1>2. \A u \in User : row[u].id # 0 =>
        /\ row'[u].id # 0 /\ (Exists(u)' => Exists(u)) /\ (row[u].pw => row'[u].pw)
        /\ req[c].op \in Enrolling /\ req[c].on = u /\ u \notin clash' =>
             row'[u].secret = row[u].secret /\ (Invited(u)' => Invited(u))
  BY DEF RowsMove
<1>3. OnPage(c)' /\ ScreenKnown(c)'
  BY <1>1 DEF BrowserOK, OnPage, ScreenKnown, Enrols
<1>4. EnrolmentKnown(c)'
  BY <1>1, <1>2 DEF BrowserOK, EnrolmentKnown, Enrols, Exists
<1>5. Enrols(c) => req[c].op \in Enrolling /\ req[c].on = owner[c]
  BY DEF BrowserOK, OnPage, Enrols, Enrolling
<1>6. ActivationKnown(c)'
  BY <1>1, <1>2, <1>5 DEF BrowserOK, EnrolmentKnown, ActivationKnown, Enrols, Exists
<1>7. FinalisationKnown(c)'
  BY <1>1, <1>2, <1>5 DEF BrowserOK, EnrolmentKnown, FinalisationKnown, Enrols, At
<1>8. ErasureKnown(c)'
  <2>1. req[c].op = "resetMfa" => req[c].op \in Enrolling
    BY DEF Enrolling
  <2> QED BY <1>1, <1>2, <2>1 DEF BrowserOK, ErasureKnown, At, Exists
<1> QED BY <1>3, <1>4, <1>6, <1>7, <1>8 DEF BrowserOK

\* A browser without a request only has its screen.
LEMMA IdleKept ==
  ASSUME NEW b \in Browser, req'[b].op = "none", req'[b].at # "insert", ScreenKnown(b)'
  PROVE  BrowserOK(b)'
BY DEF BrowserOK, OnPage, Enrols, EnrolmentKnown, ActivationKnown, FinalisationKnown, ErasureKnown, At

\* Nothing that covers u goes away, and no later code is owed to it.
Calm(b, u) ==
  /\ \A d \in codes \cup spent : d[1] = u => d \in codes' \cup spent'
  /\ req[b].at = "insert" => req[b].on # u
  /\ made[u] <= made'[u] /\ Owed(u)' \subseteq Owed(u) \cup {0}

CodesCalm(b) == \A u \in User : Calm(b, u)

\* What is owed to an account.
LEMMA OwedIn ==
  ASSUME TypeOK, NEW u \in User
  PROVE  Owed(u) \subseteq Nat
<1>1. \A c \in sheet : c[2] \in Nat
  BY DEF TypeOK, HistoryOK
<1>2. \A b \in Browser : req[b].got \in Nat
  BY DEF TypeOK, RequestsOK, Requests
<1> QED BY <1>1, <1>2 DEF Owed

\* Codes that cover an account cover it after such a step.
LEMMA CoveredKept ==
  ASSUME NEW b \in Browser, Frame(b), NEW u \in User, Calm(b, u), NEW n, Covered(u, n)
  PROVE  Covered(u, n)'
<1>1. CASE \E d \in codes \cup spent : d[1] = u /\ d[2] >= n
  BY <1>1 DEF Covered, Calm
<1>2. CASE \E c \in Browser : req[c].at = "insert" /\ req[c].on = u
  BY <1>2 DEF Covered, Calm, Frame
<1> QED BY <1>1, <1>2 DEF Covered

\* The numbers owed to it stay below those made.
LEMMA NumbersKept ==
  ASSUME TypeOK, made' \in [User -> Nat], NEW u \in User, OwedNumbered(u),
         made[u] <= made'[u], Owed(u)' \subseteq Owed(u) \cup {0}
  PROVE  OwedNumbered(u)'
<1>1. Owed(u) \subseteq Nat /\ made[u] \in Nat /\ made'[u] \in Nat /\ made[u] <= made'[u]
  BY OwedIn DEF TypeOK, TablesOK
<1>2. \A n \in Owed(u) : n <= made[u]
  BY DEF OwedNumbered
<1>3. ASSUME NEW n \in Owed(u)' PROVE n <= made'[u]
  <2>1. CASE n \in Owed(u)
    BY <1>1, <1>2, <2>1
  <2>2. CASE n = 0
    BY <1>1, <2>2
  <2> QED BY <1>3, <2>1, <2>2
<1> QED BY <1>3 DEF OwedNumbered

\* An account whose secret does not change is as covered as before.
LEMMA StandKept ==
  ASSUME TypeOK, NEW b \in Browser, Frame(b), made' \in [User -> Nat], NEW u \in User, Calm(b, u), OwedStand(u),
         Exists(u)' => Exists(u), row'[u].secret = row[u].secret
  PROVE  OwedStand(u)'
<1> SUFFICES ASSUME Exists(u)', row'[u].secret # 0, u \notin clash' \cup cut',
                    NEW n \in Owed(u)', row'[u].secret < n
             PROVE  Covered(u, n)'
  BY DEF OwedStand
<1>1. row[u].secret \in Nat
  BY DEF TypeOK, TablesOK, Row
<1>2. n # 0
  BY <1>1
<1>3. n \in Owed(u)
  BY <1>2 DEF Calm
<1>4. Covered(u, n)
  BY <1>3 DEF OwedStand, Frame
<1> QED BY <1>4, CoveredKept

\* An account whose row does not change.
LEMMA AccountKept ==
  ASSUME TypeOK, NEW b \in Browser, Frame(b), made' \in [User -> Nat],
         NEW u \in User, Calm(b, u), AccountOK(u), row'[u] = row[u]
  PROVE  AccountOK(u)'
<1>1. RowSound(u)'
  BY DEF AccountOK, RowSound, Exists, Invited
<1>2. ActiveKnown(u)'
  BY DEF AccountOK, ActiveKnown, Exists, Frame
<1>3. OwedNumbered(u)' /\ OwedStand(u)'
  BY NumbersKept, StandKept DEF AccountOK, Exists, Calm
<1> QED BY <1>1, <1>2, <1>3 DEF AccountOK

\* Steps that write no row.
LEMMA NoRowMoves ==
  ASSUME UNCHANGED row
  PROVE  \A b \in Browser : RowsMove(b)
BY DEF RowsMove, Exists, Invited

\* What is owed only changes with the codes shown, and with the requests about them.
LEMMA OwedSame ==
  ASSUME NEW b \in Browser, UNCHANGED <<sheet, owner>>, \A c \in Browser : c # b => req'[c] = req[c],
         \/ req'[b].got = 0
         \/ req'[b].got = req[b].got /\ req'[b].op = req[b].op
         \/ req'[b].op \notin {"verify", "inviteVerify"}
  PROVE  \A u \in User : Owed(u)' \subseteq Owed(u) \cup {0}
<1> SUFFICES ASSUME NEW u \in User, NEW n \in Owed(u)', n # 0 PROVE n \in Owed(u)
  OBVIOUS
<1>1. CASE \E c \in sheet : c[1] = u /\ c[2] = n
  BY <1>1 DEF Owed
<1>2. CASE \E c \in Browser : req'[c].op \in {"verify", "inviteVerify"} /\ owner[c] = u /\ req'[c].got = n
  <2>1. PICK c \in Browser : req'[c].op \in {"verify", "inviteVerify"} /\ owner[c] = u /\ req'[c].got = n
    BY <1>2
  <2>2. req[c].op \in {"verify", "inviteVerify"} /\ req[c].got = n
    BY <2>1
  <2> QED BY <2>1, <2>2 DEF Owed
<1> QED BY <1>1, <1>2 DEF Owed

\* A step that writes no row and keeps the codes: its own browser remains.
LEMMA StepKept ==
  ASSUME EntryInv, NEW b \in Browser, Frame(b), CodesCalm(b), UNCHANGED row, TypeOK', Numbered', BrowserOK(b)'
  PROVE  EntryInv'
<1>1. \A c \in Browser : BrowserOK(c)'
  BY OthersKept, NoRowMoves DEF EntryInv, TypeOK
<1>2. \A u \in User : AccountOK(u)'
  <2>1. made' \in [User -> Nat]
    BY DEF TypeOK, TablesOK
  <2> QED BY <2>1, AccountKept DEF EntryInv, CodesCalm
<1> QED BY <1>1, <1>2 DEF EntryInv

-----------------------------------------------------------------------------
(* The person *)

\* The person looks at another page.
LEMMA PersonLooks ==
  ASSUME EntryInv, NEW b \in Browser,
         Load(b) \/ OpenLink(b) \/ SubmitToken(b) \/ Continue(b) \/ Logout(b)
  PROVE  EntryInv'
<1>1. /\ ~Busy(b) /\ UNCHANGED <<tables, req, people, ghosts, trouble>>
      /\ TypeOK /\ Numbered /\ BrowserOK(b)
  BY DEF Load, OpenLink, SubmitToken, Continue, Logout, EntryInv
<1>2. \E v : Show(b, v) /\ ViewOK(v) /\ v.phase # "enroll"
  <2>1. /\ ViewOK(LoginPage) /\ LoginPage.phase = "password"
        /\ ViewOK(Entered(b, LoginPage)) /\ Entered(b, LoginPage).phase # "enroll"
    BY EnteredIs
  <2>2. ViewOK(view[b]) /\ setupToken \in Nat /\ links \subseteq User \X Nat
    BY <1>1 DEF TypeOK, PagesOK, TablesOK, HistoryOK
  <2>3. CASE Load(b)
    <3>1. ViewOK(View("setup", "token", 0, 0, FALSE)) /\ View("setup", "token", 0, 0, FALSE).phase # "enroll"
      BY DEF View, ViewOK, Views, Phases, HasPhase
    <3> QED BY <2>1, <2>3, <3>1 DEF Load
  <2>4. CASE OpenLink(b)
    <3>1. \A tok \in Nat : /\ ViewOK(View("invite", "password", tok, 0, FALSE))
                           /\ View("invite", "password", tok, 0, FALSE).phase # "enroll"
      BY DEF View, ViewOK, Views, Phases, HasPhase
    <3>2. ViewOK(View("invite", "invalid", 0, 0, FALSE)) /\ View("invite", "invalid", 0, 0, FALSE).phase # "enroll"
      BY DEF View, ViewOK, Views, Phases, HasPhase
    <3> QED BY <2>2, <2>4, <3>1, <3>2 DEF OpenLink
  <2>5. CASE SubmitToken(b)
    <3>1. \A tok \in Nat : /\ ViewOK(View("setup", "identity", tok, 0, FALSE))
                           /\ View("setup", "identity", tok, 0, FALSE).phase # "enroll"
      BY DEF View, ViewOK, Views, Phases, HasPhase
    <3> QED BY <2>2, <2>5, <3>1 DEF SubmitToken
  <2>6. CASE Continue(b)
    <3>1. CASE view[b].page = "invite" /\ view[b].phase = "backup"
      <4>1. Show(b, [view[b] EXCEPT !.phase = "done"])
        BY <2>6, <3>1 DEF Continue
      <4>2. HasPhase(view[b].page, "done")
        BY <3>1 DEF HasPhase
      <4>3. ViewOK([view[b] EXCEPT !.phase = "done"]) /\ [view[b] EXCEPT !.phase = "done"].phase # "enroll"
        BY <2>2, <4>2 DEF ViewOK, Views, Phases
      <4> QED BY <4>1, <4>3
    <3>2. CASE view[b].page = "login" /\ view[b].must
      <4>1. Show(b, [view[b] EXCEPT !.phase = "mustchange"])
        BY <2>6, <3>2 DEF Continue
      <4>2. HasPhase(view[b].page, "mustchange")
        BY <3>2 DEF HasPhase
      <4>3. /\ ViewOK([view[b] EXCEPT !.phase = "mustchange"])
            /\ [view[b] EXCEPT !.phase = "mustchange"].phase # "enroll"
        BY <2>2, <4>2 DEF ViewOK, Views, Phases
      <4> QED BY <4>1, <4>3
    <3>3. CASE ~(view[b].page = "invite" /\ view[b].phase = "backup") /\ ~(view[b].page = "login" /\ view[b].must)
      BY <2>1, <2>6, <3>3 DEF Continue
    <3> QED BY <3>1, <3>2, <3>3
  <2>7. CASE Logout(b)
    BY <2>1, <2>7 DEF Logout
  <2> QED BY <2>3, <2>4, <2>5, <2>6, <2>7
<1>3. PICK v : Show(b, v) /\ ViewOK(v) /\ v.phase # "enroll"
  BY <1>2
<1>4. /\ DOMAIN view' = Browser /\ \A c \in Browser : ViewOK(view'[c])
      /\ view'[b] = v /\ \A c \in Browser : c # b => view'[c] = view[c]
  BY <1>1, <1>3, ViewSet DEF TypeOK, PagesOK
<1>5. jar' \in [Browser -> [pre : BOOLEAN, sess : {"none", "admin", "viewer"}]]
  <2>1. jar' = jar \/ jar' = [jar EXCEPT ![b] = [pre |-> FALSE, sess |-> "none"]]
    BY DEF Load, OpenLink, SubmitToken, Continue, Logout
  <2>2. [pre |-> FALSE, sess |-> "none"] \in [pre : BOOLEAN, sess : {"none", "admin", "viewer"}]
    OBVIOUS
  <2> QED BY <1>1, <2>1, <2>2 DEF TypeOK, PagesOK
<1>6. TypeOK' /\ Numbered'
  BY <1>1, <1>4, <1>5 DEF TypeOK, TablesOK, RequestsOK, PagesOK, HistoryOK, Numbered, tables, people, ghosts
<1>7. req[b].op = "none" /\ req[b].at # "insert"
  BY <1>1 DEF Busy, BrowserOK, OnPage
<1>8. BrowserOK(b)'
  BY <1>1, <1>3, <1>4, <1>7, IdleKept DEF ScreenKnown
<1>9. Frame(b) /\ CodesCalm(b)
  <2>1. \A u \in User : Owed(u)' \subseteq Owed(u) \cup {0}
    BY <1>1, OwedSame DEF people
  <2>2. \A u \in User : made'[u] = made[u] /\ made[u] \in Nat
    BY <1>1 DEF TypeOK, TablesOK, tables
  <2> QED BY <1>1, <1>4, <1>7, <2>1, <2>2 DEF Frame, CodesCalm, Calm, tables, people, ghosts
<1> QED BY <1>1, <1>6, <1>8, <1>9, StepKept DEF tables

\* A request goes out, moves on or ends: only the requests and the cookies change.
LEMMA RequestStep ==
  ASSUME EntryInv, NEW b \in Browser, UNCHANGED <<tables, view, people, ghosts, trouble>>,
         RequestsOK', \A c \in Browser : c # b => req'[c] = req[c],
         jar' \in [Browser -> [pre : BOOLEAN, sess : {"none", "admin", "viewer"}]],
         req[b].at # "insert",
         \/ req'[b].got = 0
         \/ req'[b].got = req[b].got /\ req'[b].op = req[b].op,
         OnPage(b)', EnrolmentKnown(b)', ActivationKnown(b)', FinalisationKnown(b)', ErasureKnown(b)'
  PROVE  EntryInv'
<1>1. TypeOK' /\ Numbered'
  BY DEF EntryInv, TypeOK, TablesOK, RequestsOK, PagesOK, HistoryOK, Numbered, tables, people, ghosts
<1>2. BrowserOK(b)'
  <2>1. ScreenKnown(b)'
    BY DEF EntryInv, BrowserOK, ScreenKnown, people
  <2> QED BY <2>1 DEF BrowserOK
<1>3. Frame(b) /\ CodesCalm(b)
  <2>1. \A u \in User : Owed(u)' \subseteq Owed(u) \cup {0}
    BY OwedSame DEF people
  <2>2. \A u \in User : made'[u] = made[u] /\ made[u] \in Nat
    BY DEF EntryInv, TypeOK, TablesOK, tables
  <2> QED BY <2>1, <2>2 DEF Frame, CodesCalm, Calm, tables, people, ghosts
<1> QED BY <1>1, <1>2, <1>3, StepKept DEF tables

\* An end of the request, with the cookie of the first step kept or taken away.
LEMMA Ended ==
  ASSUME EntryInv, NEW b \in Browser, UNCHANGED <<tables, view, people, ghosts, trouble>>,
         req[b].at # "insert", Refuse(b) \/ Expel(b) \/ (Release(b) /\ UNCHANGED jar)
  PROVE  EntryInv'
<1>1. TypeOK
  BY DEF EntryInv
<1>2. req' = [req EXCEPT ![b] = Idle(b)]
  BY DEF Refuse, Expel, Release
<1>3. Idle(b) \in Requests /\ Idle(b).op = "none" /\ Idle(b).at = "none" /\ Idle(b).got = 0
  BY <1>1, IdleIs DEF TypeOK
<1>4. RequestsOK' /\ req'[b] = Idle(b) /\ \A c \in Browser : c # b => req'[c] = req[c]
  BY <1>1, <1>2, <1>3, ReqSet DEF TypeOK
<1>5. jar' \in [Browser -> [pre : BOOLEAN, sess : {"none", "admin", "viewer"}]]
  BY <1>1 DEF Refuse, Expel, Release, TypeOK, PagesOK
<1>6. OnPage(b)' /\ EnrolmentKnown(b)' /\ ActivationKnown(b)' /\ FinalisationKnown(b)' /\ ErasureKnown(b)'
  BY <1>3, <1>4 DEF OnPage, Enrols, EnrolmentKnown, ActivationKnown, FinalisationKnown, ErasureKnown, At
<1> QED BY <1>3, <1>4, <1>5, <1>6, RequestStep

\* A browser without a request has no step of its handler.
LEMMA NotBusy ==
  ASSUME EntryInv, NEW b \in Browser, ~Busy(b)
  PROVE  req[b].op = "none" /\ req[b].at # "insert"
BY DEF EntryInv, BrowserOK, OnPage, Busy

\* The passwords a person submits.
LEMMA PersonIdentifies ==
  ASSUME EntryInv, NEW b \in Browser,
         SubmitPassword(b) \/ SubmitSetupPassword(b) \/ SubmitNewPassword(b) \/ SubmitIdentity(b)
  PROVE  EntryInv'
<1>1. UNCHANGED <<tables, view, people, ghosts, trouble>> /\ ~Busy(b) /\ TypeOK
  BY DEF SubmitPassword, SubmitSetupPassword, SubmitNewPassword, SubmitIdentity, Send, EntryInv
<1>2. req[b].at # "insert"
  BY <1>1, NotBusy
<1>3. CASE Expel(b)
  BY <1>1, <1>2, <1>3, Ended
<1>4. CASE \E op \in {"login", "setupPassword", "changePassword", "setupComplete"},
              at \in {"code", "setup", "pw", "create"}, arg \in {"none", "must"} :
             /\ req' = [req EXCEPT ![b] = Request(op, at, owner[b], arg, 0)]
             /\ op \in {"login", "setupPassword"} => view[b].page = "login"
             /\ op = "setupComplete" => view[b].page = "setup"
             /\ UNCHANGED jar
  <2>1. PICK op \in {"login", "setupPassword", "changePassword", "setupComplete"},
             at \in {"code", "setup", "pw", "create"}, arg \in {"none", "must"} :
             /\ req' = [req EXCEPT ![b] = Request(op, at, owner[b], arg, 0)]
             /\ op \in {"login", "setupPassword"} => view[b].page = "login"
             /\ op = "setupComplete" => view[b].page = "setup"
             /\ UNCHANGED jar
    BY <1>4
  <2>2. op \in Ops /\ at \in Stages /\ arg \in Args /\ owner[b] \in User
    BY <1>1 DEF Ops, Stages, Args, TypeOK, PagesOK
  <2> DEFINE r == Request(op, at, owner[b], arg, 0)
  <2>3. r \in Requests /\ r.op = op /\ r.at = at /\ r.got = 0
    BY <2>2, RequestIs
  <2> HIDE DEF r
  <2>4. RequestsOK' /\ req'[b] = r /\ \A c \in Browser : c # b => req'[c] = req[c]
    BY <1>1, <2>1, <2>3, ReqSet DEF TypeOK, r
  <2>5. OnPage(b)' /\ EnrolmentKnown(b)' /\ ActivationKnown(b)' /\ FinalisationKnown(b)' /\ ErasureKnown(b)'
    BY <1>1, <2>1, <2>3, <2>4
       DEF OnPage, Enrols, EnrolmentKnown, ActivationKnown, FinalisationKnown, ErasureKnown, At
  <2>6. jar' \in [Browser -> [pre : BOOLEAN, sess : {"none", "admin", "viewer"}]]
    BY <1>1, <2>1 DEF TypeOK, PagesOK
  <2> QED BY <1>1, <1>2, <2>3, <2>4, <2>5, <2>6, RequestStep
<1>5. CASE SubmitPassword(b)
  <2>1. view[b].page = "login"
    BY <1>5, FormIs DEF SubmitPassword
  <2> QED BY <1>3, <1>4, <1>5, <2>1 DEF SubmitPassword, Send
<1>6. CASE SubmitSetupPassword(b)
  <2>1. view[b].page = "login"
    BY <1>6, FormIs DEF SubmitSetupPassword
  <2> QED BY <1>3, <1>4, <1>6, <2>1 DEF SubmitSetupPassword, Send
<1>7. CASE SubmitNewPassword(b)
  BY <1>4, <1>7 DEF SubmitNewPassword, Send
<1>8. CASE SubmitIdentity(b)
  <2>1. view[b].page = "setup"
    BY <1>8, FormIs DEF SubmitIdentity
  <2> QED BY <1>4, <1>8, <2>1 DEF SubmitIdentity, Send
<1> QED BY <1>5, <1>6, <1>7, <1>8

\* What the code typed proves: it is in the phone, unless it is a backup code.
LEMMA TypedIs ==
  ASSUME EntryInv, NEW b \in Browser, NEW c \in Typed(b), c[1] = "totp"
  PROVE  <<owner[b], c[2]>> \in phone
<1>1. CASE view[b].phase = "enroll"
  <2>1. c = <<"totp", view[b].key>>
    BY <1>1 DEF Typed
  <2> QED BY <1>1, <2>1 DEF EntryInv, BrowserOK, ScreenKnown
<1>2. CASE view[b].phase # "enroll" /\ \E p \in phone : p[1] = owner[b] /\ c = <<"totp", p[2]>>
  <2>1. PICK p \in phone : p[1] = owner[b] /\ c = <<"totp", p[2]>>
    BY <1>2
  <2>2. p = <<p[1], p[2]>>
    BY DEF EntryInv, TypeOK, HistoryOK
  <2> QED BY <2>1, <2>2
<1>3. CASE view[b].phase # "enroll" /\ \E d \in sheet : c = <<"backup", d[2]>>
  BY <1>3
<1> QED BY <1>1, <1>2, <1>3 DEF Typed

\* The codes a person submits, and their password on the page of an invitation.
LEMMA PersonEnrols ==
  ASSUME EntryInv, NEW b \in Browser, SubmitCode(b) \/ AcceptInvite(b) \/ VerifyInvite(b)
  PROVE  EntryInv'
<1>1. /\ UNCHANGED <<tables, view, jar, people, ghosts, trouble>> /\ ~Busy(b) /\ TypeOK /\ Numbered
      /\ owner[b] \in User /\ RowSound(owner[b])
  BY DEF SubmitCode, AcceptInvite, VerifyInvite, Send, EntryInv, AccountOK, TypeOK, PagesOK
<1>2. req[b].at # "insert"
  BY <1>1, NotBusy
<1>3. jar' \in [Browser -> [pre : BOOLEAN, sess : {"none", "admin", "viewer"}]]
  BY <1>1 DEF TypeOK, PagesOK
<1>4. ASSUME NEW op \in {"verify", "inviteAccept", "inviteVerify"}, NEW at \in {"done", "enable", "consume", "pw"},
             NEW arg \in Args, NEW key \in Nat,
             req' = [req EXCEPT ![b] = Request(op, at, owner[b], arg, key)],
             op = "verify" => view[b].page \in {"login", "setup"},
             op \in {"inviteAccept", "inviteVerify"} => view[b].page = "invite",
             op = "inviteAccept" => at = "pw",
             Exists(owner[b]),
             at = "enable" => row[owner[b]].secret = key /\ <<owner[b], key>> \in phone
      PROVE  EntryInv'
  <2>1. op \in Ops /\ at \in Stages
    BY DEF Ops, Stages
  <2> DEFINE r == Request(op, at, owner[b], arg, key)
  <2>2. r \in Requests /\ r.op = op /\ r.at = at /\ r.on = owner[b] /\ r.key = key /\ r.got = 0
    BY <1>1, <2>1, RequestIs
  <2> HIDE DEF r
  <2>3. RequestsOK' /\ req'[b] = r /\ \A c \in Browser : c # b => req'[c] = req[c]
    BY <1>1, <1>4, <2>2, ReqSet DEF TypeOK, r
  <2>4. row[owner[b]].id # 0 /\ (at = "enable" => row[owner[b]].pw)
    BY <1>1, <1>4 DEF RowSound, Numbered
  <2>5. UNCHANGED <<row, view, owner, phone>>
    BY <1>1 DEF tables, people
  <2>6. OnPage(b)'
    BY <1>4, <2>2, <2>3, <2>5 DEF OnPage, Enrols
  <2>7. EnrolmentKnown(b)'
    BY <1>4, <2>2, <2>3, <2>4, <2>5 DEF EnrolmentKnown, Enrols
  <2>8. ActivationKnown(b)'
    BY <1>4, <2>2, <2>3, <2>5 DEF ActivationKnown, Enrols
  <2>9. FinalisationKnown(b)' /\ ErasureKnown(b)'
    BY <2>2, <2>3 DEF FinalisationKnown, ErasureKnown, At
  <2> QED BY <1>1, <1>2, <1>3, <2>2, <2>3, <2>6, <2>7, <2>8, <2>9, RequestStep
<1>5. CASE SubmitCode(b)
  <2>1. PICK c \in Typed(b) :
          \/ /\ c = <<"totp", row[owner[b]].secret>>
             /\ Send(b, "verify", IF row[owner[b]].totp THEN "done" ELSE "enable", owner[b], "totp", c[2])
          \/ c[1] = "backup" /\ <<owner[b], c[2]>> \in codes /\ Send(b, "verify", "consume", owner[b], "backup", c[2])
    BY <1>5 DEF SubmitCode
  <2>2. view[b].page \in {"login", "setup"} /\ Exists(owner[b])
    BY <1>5, FormIs DEF SubmitCode, Exists
  <2>3. "totp" \in Args /\ "backup" \in Args
    BY DEF Args
  <2>4. row[owner[b]].secret \in Nat /\ codes \subseteq User \X Nat
    BY <1>1 DEF TypeOK, TablesOK, Row
  <2>5. CASE c = <<"totp", row[owner[b]].secret>> /\ row[owner[b]].totp
    <3>1. req' = [req EXCEPT ![b] = Request("verify", "done", owner[b], "totp", c[2])] /\ c[2] \in Nat
      BY <2>1, <2>4, <2>5 DEF Send
    <3> QED BY <1>4, <2>2, <2>3, <3>1
  <2>6. CASE c = <<"totp", row[owner[b]].secret>> /\ ~row[owner[b]].totp
    <3>1. /\ req' = [req EXCEPT ![b] = Request("verify", "enable", owner[b], "totp", c[2])]
          /\ c[2] \in Nat /\ c[2] = row[owner[b]].secret /\ c[1] = "totp"
      BY <2>1, <2>4, <2>6 DEF Send
    <3>2. <<owner[b], c[2]>> \in phone
      BY <3>1, TypedIs
    <3> QED BY <1>4, <2>2, <2>3, <3>1, <3>2
  <2>7. CASE c[1] = "backup" /\ c # <<"totp", row[owner[b]].secret>>
    <3>1. req' = [req EXCEPT ![b] = Request("verify", "consume", owner[b], "backup", c[2])] /\ c[2] \in Nat
      BY <2>1, <2>4, <2>7 DEF Send
    <3> QED BY <1>4, <2>2, <2>3, <3>1
  <2> QED BY <2>1, <2>5, <2>6, <2>7
<1>6. CASE AcceptInvite(b)
  <2>1. view[b].page = "invite" /\ Exists(owner[b])
    BY <1>6, FormIs DEF AcceptInvite, LinkOpens, Invited
  <2>2. "none" \in Args
    BY DEF Args
  <2>3. req' = [req EXCEPT ![b] = Request("inviteAccept", "pw", owner[b], "none", 0)]
    BY <1>6 DEF AcceptInvite, Send
  <2> QED BY <1>4, <2>1, <2>2, <2>3
<1>7. CASE VerifyInvite(b)
  <2>1. /\ view[b].page = "invite" /\ view[b].phase = "enroll" /\ Exists(owner[b])
        /\ row[owner[b]].secret = view[b].key
    BY <1>7, FormIs DEF VerifyInvite, LinkOpens, Invited
  <2>2. "totp" \in Args /\ view[b].key \in Nat /\ <<owner[b], view[b].key>> \in phone
    BY <1>1, <2>1 DEF Args, TypeOK, PagesOK, ViewOK, Views, EntryInv, BrowserOK, ScreenKnown
  <2>3. req' = [req EXCEPT ![b] = Request("inviteVerify", "enable", owner[b], "totp", view[b].key)]
    BY <1>7 DEF VerifyInvite, Send
  <2> QED BY <1>4, <2>1, <2>2, <2>3
<1> QED BY <1>5, <1>6, <1>7

-----------------------------------------------------------------------------
(* Steps that write *)

\* A write of an enrolment or of a reset, and those it meets.
LEMMA ClashIs ==
  ASSUME TypeOK, NEW b \in Browser, NEW u \in User, Clashes(b, u)
  PROVE  /\ clash \subseteq clash' /\ clash' \subseteq User
         /\ \A c \in Browser : c # b /\ req[c].op \in Enrolling /\ req[c].on = u => u \in clash'
BY DEF Clashes, TypeOK, HistoryOK

\* A row that changes alone.  Its secret and its invitation are read by the requests
\* of others: a step that changes one or gives the other records whom it meets.
LEMMA OneRowMoves ==
  ASSUME TypeOK, NEW b \in Browser, NEW u \in User,
         \A v \in User : v # u => row'[v] = row[v],
         row[u].id # 0 => /\ row'[u].id # 0 /\ (Exists(u)' => Exists(u)) /\ (row[u].pw => row'[u].pw)
                          /\ \/ Clashes(b, u)
                             \/ row'[u].secret = row[u].secret /\ (Invited(u)' => Invited(u))
  PROVE  RowsMove(b)
<1> SUFFICES ASSUME NEW v \in User, row[v].id # 0
             PROVE  /\ row'[v].id # 0 /\ (Exists(v)' => Exists(v)) /\ (row[v].pw => row'[v].pw)
                    /\ row'[v].secret # row[v].secret \/ (Invited(v)' /\ ~Invited(v)) =>
                         \A c \in Browser : c # b /\ req[c].op \in Enrolling /\ req[c].on = v => v \in clash'
  BY DEF RowsMove
<1>1. CASE v # u
  BY <1>1 DEF Exists, Invited
<1>2. CASE v = u
  BY <1>2, ClashIs
<1> QED BY <1>1, <1>2

\* A step of one browser that writes at most one row.
LEMMA WriteStep ==
  ASSUME EntryInv, NEW b \in Browser, NEW u \in User,
         UNCHANGED <<view, people, cut, lost>>, TablesOK', RequestsOK', \A c \in Browser : c # b => req'[c] = req[c],
         jar' \in [Browser -> [pre : BOOLEAN, sess : {"none", "admin", "viewer"}]],
         spent' \subseteq User \X Nat, respent' \subseteq User \X Nat,
         clash \subseteq clash', clash' \subseteq User, rivals' \in BOOLEAN, trouble' \in Nat,
         RowsMove(b), \A v \in User : v # u => row'[v] = row[v] /\ Calm(b, v),
         OnPage(b)', EnrolmentKnown(b)', ActivationKnown(b)', FinalisationKnown(b)', ErasureKnown(b)',
         AccountOK(u)'
  PROVE  EntryInv'
<1>1. TypeOK' /\ Numbered'
  BY DEF EntryInv, TypeOK, PagesOK, HistoryOK, Numbered, people
<1>2. BrowserOK(b)'
  <2>1. ScreenKnown(b)'
    BY DEF EntryInv, BrowserOK, ScreenKnown, people
  <2> QED BY <2>1 DEF BrowserOK
<1>3. Frame(b)
  BY DEF Frame, people
<1>4. \A c \in Browser : BrowserOK(c)'
  BY <1>2, <1>3, OthersKept DEF EntryInv, TypeOK
<1>5. \A v \in User : AccountOK(v)'
  <2>1. made' \in [User -> Nat]
    BY DEF TablesOK
  <2> QED BY <1>3, <2>1, AccountKept DEF EntryInv
<1> QED BY <1>1, <1>4, <1>5 DEF EntryInv

\* Steps that keep the codes, of a request that shows none.
LEMMA CalmIs ==
  ASSUME TypeOK, NEW b \in Browser, UNCHANGED <<sheet, owner>>, codes \cup spent \subseteq codes' \cup spent',
         \A u \in User : made'[u] \in Nat /\ made[u] <= made'[u],
         \A c \in Browser : c # b => req'[c] = req[c], req[b].at # "insert",
         \/ req'[b].got = 0
         \/ req'[b].got = req[b].got /\ req'[b].op = req[b].op
         \/ req'[b].op \notin {"verify", "inviteVerify"}
  PROVE  \A u \in User : Calm(b, u)
BY OwedSame DEF Calm

\* A value was made for one account.
LEMMA MadeOne ==
  ASSUME TypeOK, NEW u \in User, made' = [made EXCEPT ![u] = Fresh(u)]
  PROVE  /\ made' \in [User -> Nat] /\ Fresh(u) \in Nat \ {0} /\ made'[u] = Fresh(u) /\ Fresh(u) = made[u] + 1
         /\ \A v \in User : made'[v] \in Nat /\ made[v] <= made'[v]
BY DEF TypeOK, TablesOK, Fresh

\* No value was made.
LEMMA MadeNone ==
  ASSUME TypeOK, UNCHANGED made
  PROVE  made' \in [User -> Nat] /\ \A v \in User : made'[v] \in Nat /\ made[v] <= made'[v]
BY DEF TypeOK, TablesOK

-----------------------------------------------------------------------------
(* The handlers *)

\* HandleSetupMFA reads whether it may finalise the account.
LEMMA KeptByFinalizeRead ==
  ASSUME EntryInv, NEW b \in Browser, FinalizeRead(b)
  PROVE  EntryInv'
<1>1. /\ UNCHANGED <<tables, view, people, ghosts, trouble>> /\ At(b, {"setupMfa"}, "read")
      /\ TypeOK /\ BrowserOK(b) /\ owner[b] \in User /\ RowSound(owner[b])
  BY DEF FinalizeRead, EntryInv, AccountOK, TypeOK, PagesOK
<1>2. req[b].op = "setupMfa" /\ req[b].at # "insert"
  BY <1>1 DEF At
<1>3. CASE Expel(b) \/ Refuse(b)
  BY <1>1, <1>2, <1>3, Ended
<1>4. CASE MayFinalize(owner[b]) /\ Goto(b, "secret") /\ UNCHANGED jar
  <2>1. "secret" \in Stages
    BY DEF Stages
  <2>2. /\ RequestsOK' /\ \A c \in Browser : c # b => req'[c] = req[c]
        /\ req'[b].at = "secret" /\ req'[b].op = "setupMfa" /\ req'[b].on = req[b].on /\ req'[b].got = req[b].got
    BY <1>1, <1>2, <1>4, <2>1, ReqMoved DEF Goto, TypeOK
  <2>3. jar' \in [Browser -> [pre : BOOLEAN, sess : {"none", "admin", "viewer"}]]
    BY <1>1, <1>4 DEF TypeOK, PagesOK
  <2>4. UNCHANGED <<row, owner, view>>
    BY <1>1 DEF tables, people
  <2>5. Exists(owner[b]) /\ row[owner[b]].pw /\ ~Invited(owner[b]) /\ row[owner[b]].id # 0
    BY <1>1, <1>4 DEF MayFinalize, AwaitsMfa, RowSound
  <2>6. OnPage(b)'
    BY <1>1, <1>2, <2>2, <2>4 DEF BrowserOK, OnPage, Enrols
  <2>7. EnrolmentKnown(b)' /\ ActivationKnown(b)' /\ FinalisationKnown(b)' /\ ErasureKnown(b)'
    BY <2>2, <2>4, <2>5
       DEF EnrolmentKnown, ActivationKnown, FinalisationKnown, ErasureKnown, At, Exists, Invited
  <2> QED BY <1>1, <1>2, <2>2, <2>3, <2>6, <2>7, RequestStep
<1> QED BY <1>3, <1>4 DEF FinalizeRead

\* SetUserPassword by the owner of the account.
LEMMA KeptByPasswordWrite ==
  ASSUME EntryInv, NEW b \in Browser, PasswordWrite(b)
  PROVE  EntryInv'
<1>0. PICK u \in User : u = owner[b]
  BY DEF EntryInv, TypeOK, PagesOK
<1>1. /\ UNCHANGED <<codes, setupToken, made, view, jar, people, ghosts, trouble>> /\ row' = PasswordSet(u, FALSE)
      /\ req[b].op \in {"setupPassword", "changePassword", "inviteAccept"} /\ req[b].at = "pw"
      /\ TypeOK /\ BrowserOK(b) /\ AccountOK(u)
  BY <1>0 DEF PasswordWrite, At, EntryInv
<1>2. PICK at \in {"secret", "done"} :
        Goto(b, at) /\ (at = "secret" <=> req[b].op = "inviteAccept")
  BY <1>1 DEF PasswordWrite
<1>3. at \in Stages
  BY DEF Stages
<1>4. /\ RequestsOK' /\ \A c \in Browser : c # b => req'[c] = req[c]
      /\ req'[b].at = at /\ req'[b].op = req[b].op /\ req'[b].on = req[b].on /\ req'[b].got = req[b].got
  BY <1>1, <1>2, <1>3, ReqMoved DEF Goto, TypeOK
<1>5. PICK n : n = [row[u] EXCEPT !.pw = TRUE, !.must = FALSE]
  OBVIOUS
<1>6. /\ n \in Row /\ n.pw /\ n.id = row[u].id /\ n.exists = row[u].exists
      /\ n.totp = row[u].totp /\ n.secret = row[u].secret /\ n.invite = row[u].invite
  BY <1>1, <1>5 DEF TypeOK, TablesOK, Row
<1>7. row' = Updated(u, n)
  BY <1>1, <1>5 DEF PasswordSet
<1>8. /\ row' \in [User -> Row]
      /\ \A v \in User : row'[v] = IF v = u /\ Exists(u) THEN n ELSE row[v]
  BY <1>1, <1>6, <1>7, UpdatedRow DEF TypeOK, TablesOK
<1>9. /\ row'[u].id = row[u].id /\ (Exists(u)' <=> Exists(u)) /\ (Invited(u)' <=> Invited(u))
      /\ (row[u].pw \/ Exists(u) => row'[u].pw) /\ row'[u].secret = row[u].secret /\ row'[u].totp = row[u].totp
  BY <1>1, <1>6, <1>8 DEF Exists, Invited
<1>10. RowsMove(b) /\ \A v \in User : Calm(b, v)
  <2>1. RowsMove(b)
    BY <1>1, <1>8, <1>9, OneRowMoves
  <2>2. \A v \in User : Calm(b, v)
    BY <1>1, <1>4, MadeNone, CalmIs DEF people, ghosts
  <2> QED BY <2>1, <2>2
<1>11. AccountOK(u)'
  <2>1. RowSound(u)' /\ ActiveKnown(u)'
    BY <1>1, <1>9 DEF AccountOK, RowSound, ActiveKnown, people, ghosts
  <2>2. OwedNumbered(u)'
    BY <1>1, <1>10, MadeNone, NumbersKept DEF AccountOK, Calm
  <2>3. Frame(b)
    BY <1>1, <1>4 DEF Frame, people, ghosts
  <2>4. OwedStand(u)'
    BY <1>1, <1>9, <1>10, <2>3, MadeNone, StandKept DEF AccountOK
  <2> QED BY <2>1, <2>2, <2>4 DEF AccountOK
<1>12. OnPage(b)'
  BY <1>1, <1>2, <1>4 DEF BrowserOK, OnPage, Enrols, people
<1>13. EnrolmentKnown(b)'
  BY <1>0, <1>1, <1>2, <1>4, <1>9 DEF BrowserOK, EnrolmentKnown, Enrols, people
<1>14. ActivationKnown(b)' /\ FinalisationKnown(b)' /\ ErasureKnown(b)'
  BY <1>1, <1>2, <1>4 DEF ActivationKnown, FinalisationKnown, ErasureKnown, At
<1> QED BY <1>1, <1>4, <1>8, <1>10, <1>11, <1>12, <1>13, <1>14, WriteStep
     DEF TypeOK, TablesOK, PagesOK, HistoryOK, ghosts

\* SetUserTOTPSecret: no code shown or about to be shown is later than the new secret.
LEMMA KeptBySecretWrite ==
  ASSUME EntryInv, NEW b \in Browser, SecretWrite(b)
  PROVE  EntryInv'
<1>0. PICK u \in User : u = owner[b]
  BY DEF EntryInv, TypeOK, PagesOK
<1>1. /\ UNCHANGED <<codes, setupToken, view, jar, people, spent, respent, cut, rivals, lost, trouble>>
      /\ made' = [made EXCEPT ![u] = Fresh(u)] /\ row' = SecretStored(u, Fresh(u)) /\ Clashes(b, u)
      /\ req' = [req EXCEPT ![b].at = "done", ![b].got = Fresh(u)]
      /\ req[b].op \in {"setupMfa", "inviteAccept"} /\ req[b].at = "secret"
      /\ TypeOK /\ BrowserOK(b) /\ AccountOK(u)
  BY <1>0 DEF SecretWrite, At, EntryInv
<1>2. /\ made' \in [User -> Nat] /\ Fresh(u) \in Nat \ {0} /\ made'[u] = Fresh(u) /\ Fresh(u) = made[u] + 1
      /\ \A v \in User : made'[v] \in Nat /\ made[v] <= made'[v]
  BY <1>1, MadeOne
<1>3. PICK s \in Nat \ {0} : s = Fresh(u)
  BY <1>2
<1>4. /\ RequestsOK' /\ \A c \in Browser : c # b => req'[c] = req[c]
      /\ req'[b].at = "done" /\ req'[b].got = s /\ req'[b].op = req[b].op /\ req'[b].on = req[b].on
  <2>1. "done" \in Stages
    BY DEF Stages
  <2>2. PICK r : r = [req[b] EXCEPT !.at = "done", !.got = s]
    OBVIOUS
  <2>3. RequestsOK
    BY <1>1 DEF TypeOK
  <2>4. req' = [req EXCEPT ![b] = r]
    BY <1>1, <1>3, <2>2, <2>3 DEF RequestsOK
  <2>5. r \in Requests /\ r.at = "done" /\ r.got = s /\ r.op = req[b].op /\ r.on = req[b].on
    BY <1>3, <2>1, <2>2, <2>3 DEF RequestsOK, Requests
  <2> QED BY <2>3, <2>4, <2>5, ReqSet
<1>5. PICK n : n = [row[u] EXCEPT !.secret = s, !.totp = FALSE]
  OBVIOUS
<1>6. /\ n \in Row /\ ~n.totp /\ n.secret = s /\ n.id = row[u].id /\ n.exists = row[u].exists
      /\ n.pw = row[u].pw /\ n.invite = row[u].invite
  BY <1>1, <1>3, <1>5 DEF TypeOK, TablesOK, Row
<1>7. row' = Updated(u, n)
  BY <1>1, <1>3, <1>5 DEF SecretStored
<1>8. /\ row' \in [User -> Row]
      /\ \A v \in User : row'[v] = IF v = u /\ Exists(u) THEN n ELSE row[v]
  BY <1>1, <1>6, <1>7, UpdatedRow DEF TypeOK, TablesOK
<1>9. /\ row'[u].id = row[u].id /\ (Exists(u)' <=> Exists(u)) /\ (Invited(u)' <=> Invited(u))
      /\ row'[u].pw = row[u].pw
      /\ Exists(u) => row'[u].secret = s /\ ~row'[u].totp
      /\ ~Exists(u) => row'[u] = row[u]
  BY <1>6, <1>8 DEF Exists, Invited
<1>10. /\ clash \subseteq clash' /\ clash' \subseteq User
       /\ \A c \in Browser : c # b /\ req[c].op \in Enrolling /\ req[c].on = u => u \in clash'
  BY <1>1, ClashIs
<1>11. RowsMove(b)
  BY <1>1, <1>8, <1>9, OneRowMoves
<1>12. \A v \in User : Calm(b, v)
  BY <1>1, <1>2, <1>4, CalmIs DEF people
<1>13. row[u].id # 0 /\ (Exists(u) => row[u].pw)
  BY <1>0, <1>1 DEF BrowserOK, EnrolmentKnown, Enrols
<1>14. AccountOK(u)'
  <2>1. RowSound(u)' /\ ActiveKnown(u)'
    BY <1>1, <1>9, <1>13 DEF AccountOK, RowSound, ActiveKnown
  <2>2. OwedNumbered(u)'
    BY <1>1, <1>2, <1>12, NumbersKept DEF AccountOK, Calm
  <2>3. OwedStand(u)'
    <3> SUFFICES ASSUME Exists(u)', NEW m \in Owed(u)', row'[u].secret < m
                 PROVE  FALSE
      BY DEF OwedStand
    <3>1. row'[u].secret = s /\ s = made[u] + 1 /\ made[u] \in Nat
      BY <1>1, <1>2, <1>3, <1>9 DEF TypeOK, TablesOK
    <3>2. m \in Owed(u) \cup {0} /\ Owed(u) \subseteq Nat
      BY <1>1, <1>12, OwedIn DEF Calm
    <3>3. m # 0 => m <= made[u]
      BY <1>1, <3>2 DEF AccountOK, OwedNumbered
    <3> QED BY <3>1, <3>2, <3>3
  <2> QED BY <2>1, <2>2, <2>3 DEF AccountOK
<1>15. OnPage(b)'
  BY <1>1, <1>4 DEF BrowserOK, OnPage, Enrols, people
<1>16. EnrolmentKnown(b)'
  BY <1>0, <1>1, <1>4, <1>9, <1>13 DEF EnrolmentKnown, people
<1>17. ActivationKnown(b)' /\ FinalisationKnown(b)' /\ ErasureKnown(b)'
  BY <1>1, <1>4 DEF ActivationKnown, FinalisationKnown, ErasureKnown, At
<1> QED BY <1>1, <1>2, <1>4, <1>8, <1>10, <1>11, <1>12, <1>14, <1>15, <1>16, <1>17, WriteStep
     DEF TypeOK, TablesOK, PagesOK, HistoryOK

\* ConsumeUserBackupCodeMatch: a code that opened the account still counts.
LEMMA KeptByCodeConsume ==
  ASSUME EntryInv, NEW b \in Browser, CodeConsume(b)
  PROVE  EntryInv'
<1> DEFINE c == <<owner[b], req[b].key>>
<1>1. /\ UNCHANGED <<row, setupToken, made, view, jar, people, clash, cut, rivals, lost, trouble>>
      /\ req[b].op = "verify" /\ req[b].at = "consume" /\ codes' = codes \ {c}
      /\ TypeOK /\ BrowserOK(b) /\ owner[b] \in User /\ req[b].key \in Nat
  BY DEF CodeConsume, At, Accept, Refuse, EntryInv, TypeOK, PagesOK, RequestsOK, Requests
<1>2. /\ spent' \subseteq User \X Nat /\ respent' \subseteq User \X Nat
      /\ codes \cup spent \subseteq codes' \cup spent'
  BY <1>1 DEF CodeConsume, Accept, TypeOK, HistoryOK
<1>3. /\ RequestsOK' /\ \A d \in Browser : d # b => req'[d] = req[d]
      /\ \/ req'[b].op = "none" /\ req'[b].at = "none" /\ req'[b].got = 0
         \/ req'[b].op = "verify" /\ req'[b].at = "done" /\ req'[b].on = req[b].on /\ req'[b].got = req[b].got
  <2>1. CASE Goto(b, "done")
    <3>1. "done" \in Stages
      BY DEF Stages
    <3> QED BY <1>1, <2>1, <3>1, ReqMoved DEF Goto, TypeOK
  <2>2. CASE Refuse(b)
    BY <1>1, <2>2, IdleIs, ReqSet DEF Refuse, TypeOK
  <2> QED BY <2>1, <2>2 DEF CodeConsume, Accept
<1>4. UNCHANGED <<owner, sheet>>
  BY <1>1 DEF people
<1>5. \A v \in User : Calm(b, v)
  BY <1>1, <1>2, <1>3, <1>4, MadeNone, CalmIs
<1>6. AccountOK(owner[b])'
  <2>1. PICK u \in User : u = owner[b]
    BY <1>1
  <2>2. Frame(b)
    BY <1>1, <1>3 DEF Frame, people
  <2>3. AccountOK(u)'
    BY <1>1, <1>5, <2>2, MadeNone, AccountKept DEF EntryInv
  <2>4. owner'[b] = u
    BY <1>4, <2>1
  <2> QED BY <2>3, <2>4
<1>7. OnPage(b)'
  BY <1>1, <1>3, <1>4 DEF BrowserOK, OnPage, Enrols
<1>8. EnrolmentKnown(b)'
  BY <1>1, <1>3, <1>4 DEF BrowserOK, EnrolmentKnown, Enrols
<1>9. ActivationKnown(b)' /\ FinalisationKnown(b)' /\ ErasureKnown(b)'
  BY <1>3 DEF ActivationKnown, FinalisationKnown, ErasureKnown, At, Enrols
<1>10. RowsMove(b)
  BY <1>1, NoRowMoves
<1>11. PICK u \in User : u = owner[b]
  BY <1>1
<1>12. AccountOK(u)'
  BY <1>4, <1>6, <1>11
<1>13. TablesOK' /\ jar' \in [Browser -> [pre : BOOLEAN, sess : {"none", "admin", "viewer"}]]
  BY <1>1 DEF TypeOK, TablesOK, PagesOK
<1>14. clash \subseteq clash' /\ clash' \subseteq User /\ rivals' \in BOOLEAN /\ trouble' \in Nat
  BY <1>1 DEF TypeOK, HistoryOK
<1> QED BY <1>1, <1>2, <1>3, <1>5, <1>7, <1>8, <1>9, <1>10, <1>12, <1>13, <1>14, WriteStep

\* EnableUserMFA: the secret that is activated is in the phone.
LEMMA KeptByEnableMfa ==
  ASSUME EntryInv, NEW b \in Browser, EnableMfa(b)
  PROVE  EntryInv'
<1>0. PICK u \in User : u = owner[b]
  BY DEF EntryInv, TypeOK, PagesOK
<1>1. /\ UNCHANGED <<codes, setupToken, made, view, jar, people, spent, respent, cut, rivals, lost, trouble>>
      /\ row' = MfaEnabled(u) /\ Goto(b, "drop") /\ Clashes(b, u)
      /\ req[b].op \in {"verify", "inviteVerify"} /\ req[b].at = "enable"
      /\ TypeOK /\ BrowserOK(b) /\ AccountOK(u)
  BY <1>0 DEF EnableMfa, Write, At, EntryInv
<1>2. /\ RequestsOK' /\ \A c \in Browser : c # b => req'[c] = req[c]
      /\ req'[b].at = "drop" /\ req'[b].op = req[b].op /\ req'[b].on = req[b].on /\ req'[b].got = req[b].got
  <2>1. "drop" \in Stages
    BY DEF Stages
  <2> QED BY <1>1, <2>1, ReqMoved DEF Goto, TypeOK
<1>3. PICK n : n = [row[u] EXCEPT !.totp = TRUE]
  OBVIOUS
<1>4. /\ n \in Row /\ n.totp /\ n.secret = row[u].secret /\ n.id = row[u].id /\ n.exists = row[u].exists
      /\ n.pw = row[u].pw /\ n.invite = row[u].invite
  BY <1>1, <1>3 DEF TypeOK, TablesOK, Row
<1>5. row' = Updated(u, n)
  BY <1>1, <1>3 DEF MfaEnabled
<1>6. /\ row' \in [User -> Row]
      /\ \A v \in User : row'[v] = IF v = u /\ Exists(u) THEN n ELSE row[v]
  BY <1>1, <1>4, <1>5, UpdatedRow DEF TypeOK, TablesOK
<1>7. /\ row'[u].id = row[u].id /\ (Exists(u)' <=> Exists(u)) /\ (Invited(u)' <=> Invited(u))
      /\ row'[u].pw = row[u].pw /\ row'[u].secret = row[u].secret
  BY <1>4, <1>6 DEF Exists, Invited
<1>8. clash \subseteq clash' /\ clash' \subseteq User
  BY <1>1, ClashIs
<1>9. RowsMove(b)
  BY <1>1, <1>6, <1>7, OneRowMoves
<1>10. \A v \in User : Calm(b, v)
  BY <1>1, <1>2, MadeNone, CalmIs DEF people
<1>11. AccountOK(u)'
  <2>1. RowSound(u)'
    BY <1>1, <1>7 DEF AccountOK, RowSound
  <2>2. ActiveKnown(u)'
    BY <1>0, <1>1, <1>7, <1>8 DEF BrowserOK, ActivationKnown, Enrols, ActiveKnown, people
  <2>3. OwedNumbered(u)'
    BY <1>1, <1>10, MadeNone, NumbersKept DEF AccountOK, Calm
  <2>4. Frame(b)
    BY <1>1, <1>2, <1>8 DEF Frame, people
  <2>5. OwedStand(u)'
    BY <1>1, <1>7, <1>10, <2>4, MadeNone, StandKept DEF AccountOK
  <2> QED BY <2>1, <2>2, <2>3, <2>5 DEF AccountOK
<1>12. OnPage(b)'
  BY <1>1, <1>2 DEF BrowserOK, OnPage, Enrols, people
<1>13. EnrolmentKnown(b)'
  BY <1>0, <1>1, <1>2, <1>7 DEF BrowserOK, EnrolmentKnown, Enrols, people
<1>14. ActivationKnown(b)' /\ FinalisationKnown(b)' /\ ErasureKnown(b)'
  BY <1>1, <1>2 DEF ActivationKnown, FinalisationKnown, ErasureKnown, At
<1> QED BY <1>1, <1>2, <1>6, <1>8, <1>9, <1>10, <1>11, <1>12, <1>13, <1>14, WriteStep
     DEF TypeOK, TablesOK, PagesOK, HistoryOK

\* The end of an invitation: the account has a password by then.
LEMMA KeptByClearInvite ==
  ASSUME EntryInv, NEW b \in Browser, ClearInvite(b)
  PROVE  EntryInv'
<1>0. PICK u \in User : u = owner[b]
  BY DEF EntryInv, TypeOK, PagesOK
<1>1. /\ UNCHANGED <<codes, setupToken, made, view, jar, people, spent, respent, cut, rivals, lost, trouble>>
      /\ row' = InviteStored(u, 0) /\ Goto(b, "done") /\ Clashes(b, u)
      /\ req[b].op = "inviteVerify" /\ req[b].at = "clear"
      /\ TypeOK /\ BrowserOK(b) /\ AccountOK(u)
  BY <1>0 DEF ClearInvite, Write, At, EntryInv
<1>2. /\ RequestsOK' /\ \A c \in Browser : c # b => req'[c] = req[c]
      /\ req'[b].at = "done" /\ req'[b].op = req[b].op /\ req'[b].on = req[b].on /\ req'[b].got = req[b].got
  <2>1. "done" \in Stages
    BY DEF Stages
  <2> QED BY <1>1, <2>1, ReqMoved DEF Goto, TypeOK
<1>3. PICK n : n = [row[u] EXCEPT !.invite = 0]
  OBVIOUS
<1>4. /\ n \in Row /\ n.totp = row[u].totp /\ n.secret = row[u].secret /\ n.id = row[u].id
      /\ n.exists = row[u].exists /\ n.pw = row[u].pw /\ n.invite = 0
  BY <1>1, <1>3 DEF TypeOK, TablesOK, Row
<1>5. row' = Updated(u, n)
  BY <1>1, <1>3 DEF InviteStored
<1>6. /\ row' \in [User -> Row]
      /\ \A v \in User : row'[v] = IF v = u /\ Exists(u) THEN n ELSE row[v]
  BY <1>1, <1>4, <1>5, UpdatedRow DEF TypeOK, TablesOK
<1>7. /\ row'[u].id = row[u].id /\ (Exists(u)' <=> Exists(u)) /\ ~Invited(u)'
      /\ row'[u].pw = row[u].pw /\ row'[u].secret = row[u].secret /\ row'[u].totp = row[u].totp
  BY <1>4, <1>6 DEF Exists, Invited
<1>8. clash \subseteq clash' /\ clash' \subseteq User
  BY <1>1, ClashIs
<1>9. RowsMove(b)
  BY <1>1, <1>6, <1>7, OneRowMoves
<1>10. \A v \in User : Calm(b, v)
  BY <1>1, <1>2, MadeNone, CalmIs DEF people
<1>11. Exists(u) => row[u].pw
  BY <1>0, <1>1 DEF BrowserOK, EnrolmentKnown, Enrols
<1>12. AccountOK(u)'
  <2>1. RowSound(u)'
    BY <1>1, <1>7, <1>11 DEF AccountOK, RowSound
  <2>2. ActiveKnown(u)'
    BY <1>1, <1>7, <1>8 DEF AccountOK, ActiveKnown, people
  <2>3. OwedNumbered(u)'
    BY <1>1, <1>10, MadeNone, NumbersKept DEF AccountOK, Calm
  <2>4. Frame(b)
    BY <1>1, <1>2, <1>8 DEF Frame, people
  <2>5. OwedStand(u)'
    BY <1>1, <1>7, <1>10, <2>4, MadeNone, StandKept DEF AccountOK
  <2> QED BY <2>1, <2>2, <2>3, <2>5 DEF AccountOK
<1>13. OnPage(b)'
  BY <1>1, <1>2 DEF BrowserOK, OnPage, Enrols, people
<1>14. EnrolmentKnown(b)'
  BY <1>0, <1>1, <1>2, <1>7 DEF BrowserOK, EnrolmentKnown, Enrols, people
<1>15. ActivationKnown(b)' /\ FinalisationKnown(b)' /\ ErasureKnown(b)'
  BY <1>1, <1>2 DEF ActivationKnown, FinalisationKnown, ErasureKnown, At
<1> QED BY <1>1, <1>2, <1>6, <1>8, <1>9, <1>10, <1>12, <1>13, <1>14, <1>15, WriteStep
     DEF TypeOK, TablesOK, PagesOK, HistoryOK

\* ReplaceUserBackupCodes, its first statement: until the second one the request
\* itself stands for the codes.
LEMMA KeptByDropCodes ==
  ASSUME EntryInv, NEW b \in Browser, DropCodes(b)
  PROVE  EntryInv'
<1>0. PICK u \in User : u = owner[b]
  BY DEF EntryInv, TypeOK, PagesOK
<1>1. /\ UNCHANGED <<row, setupToken, made, view, jar, people, spent, respent, cut, rivals, lost, trouble>>
      /\ codes' = WithoutCodesOf(u) /\ Goto(b, "insert") /\ Clashes(b, u)
      /\ req[b].op \in {"verify", "inviteVerify"} /\ req[b].at = "drop" /\ req[b].on = u
      /\ TypeOK /\ BrowserOK(b) /\ AccountOK(u)
  BY <1>0 DEF DropCodes, Write, At, EntryInv, BrowserOK, OnPage, Enrols
<1>2. /\ RequestsOK' /\ \A c \in Browser : c # b => req'[c] = req[c]
      /\ req'[b].at = "insert" /\ req'[b].op = req[b].op /\ req'[b].on = req[b].on /\ req'[b].got = req[b].got
  <2>1. "insert" \in Stages
    BY DEF Stages
  <2> QED BY <1>1, <2>1, ReqMoved DEF Goto, TypeOK
<1>3. \A v \in User : made'[v] \in Nat /\ made[v] <= made'[v]
  BY <1>1, MadeNone
<1>4. \A v \in User : Owed(v)' \subseteq Owed(v) \cup {0}
  BY <1>1, <1>2, OwedSame DEF people
<1>5. \A v \in User : v # u => Calm(b, v)
  BY <1>1, <1>3, <1>4 DEF Calm, WithoutCodesOf
<1>6. clash \subseteq clash' /\ clash' \subseteq User
  BY <1>1, ClashIs
<1>7. RowsMove(b)
  BY <1>1, NoRowMoves
<1>8. AccountOK(u)'
  <2>1. RowSound(u)'
    BY <1>1 DEF AccountOK, RowSound, Exists, Invited
  <2>2. ActiveKnown(u)'
    BY <1>1, <1>6 DEF AccountOK, ActiveKnown, Exists, people
  <2>3. OwedNumbered(u)'
    BY <1>1, <1>3, <1>4, MadeNone, NumbersKept DEF AccountOK
  <2>4. OwedStand(u)'
    BY <1>1, <1>2 DEF OwedStand, Covered
  <2> QED BY <2>1, <2>2, <2>3, <2>4 DEF AccountOK
<1>9. OnPage(b)'
  BY <1>1, <1>2 DEF BrowserOK, OnPage, Enrols, people
<1>10. EnrolmentKnown(b)'
  BY <1>0, <1>1, <1>2 DEF BrowserOK, EnrolmentKnown, Enrols, Exists, people
<1>11. ActivationKnown(b)' /\ FinalisationKnown(b)' /\ ErasureKnown(b)'
  BY <1>1, <1>2 DEF ActivationKnown, FinalisationKnown, ErasureKnown, At
<1>12. TablesOK'
  BY <1>1 DEF TypeOK, TablesOK, WithoutCodesOf
<1> QED BY <1>1, <1>2, <1>5, <1>6, <1>7, <1>8, <1>9, <1>10, <1>11, <1>12, WriteStep
     DEF TypeOK, PagesOK, HistoryOK

\* The second statement: the new codes are later than any owed, and are owed now.
LEMMA KeptByInsertCodes ==
  ASSUME EntryInv, NEW b \in Browser, InsertCodes(b)
  PROVE  EntryInv'
<1>0. PICK u \in User : u = owner[b]
  BY DEF EntryInv, TypeOK, PagesOK
<1>1. /\ UNCHANGED <<row, setupToken, view, jar, people, spent, respent, cut, rivals, lost, trouble>>
      /\ made' = [made EXCEPT ![u] = Fresh(u)] /\ codes' = codes \cup {<<u, Fresh(u)>>} /\ Clashes(b, u)
      /\ req[b].op \in {"verify", "inviteVerify"} /\ req[b].at = "insert" /\ req[b].on = u
      /\ TypeOK /\ BrowserOK(b) /\ AccountOK(u)
  BY <1>0 DEF InsertCodes, At, EntryInv, BrowserOK, OnPage, Enrols
<1>2. /\ made' \in [User -> Nat] /\ Fresh(u) \in Nat \ {0} /\ made'[u] = Fresh(u) /\ Fresh(u) = made[u] + 1
      /\ \A v \in User : made'[v] \in Nat /\ made[v] <= made'[v]
  BY <1>1, MadeOne
<1>3. PICK s \in Nat \ {0} : s = Fresh(u)
  BY <1>2
<1>4. PICK at \in {"clear", "done"} : /\ req' = [req EXCEPT ![b].at = at, ![b].got = s]
                                      /\ at = "clear" => req[b].op = "inviteVerify"
  BY <1>0, <1>3 DEF InsertCodes
<1>5. /\ RequestsOK' /\ \A c \in Browser : c # b => req'[c] = req[c]
      /\ req'[b].at = at /\ req'[b].got = s /\ req'[b].op = req[b].op /\ req'[b].on = req[b].on
  <2>1. at \in Stages
    BY DEF Stages
  <2>2. PICK r : r = [req[b] EXCEPT !.at = at, !.got = s]
    OBVIOUS
  <2>3. RequestsOK
    BY <1>1 DEF TypeOK
  <2>4. req' = [req EXCEPT ![b] = r]
    BY <1>4, <2>2, <2>3 DEF RequestsOK
  <2>5. r \in Requests /\ r.at = at /\ r.got = s /\ r.op = req[b].op /\ r.on = req[b].on
    BY <1>3, <2>1, <2>2, <2>3 DEF RequestsOK, Requests
  <2> QED BY <2>3, <2>4, <2>5, ReqSet
<1>6. UNCHANGED <<owner, sheet, phone>>
  BY <1>1 DEF people
<1>7. Owed(u)' \subseteq Owed(u) \cup {s} /\ \A v \in User : v # u => Owed(v)' \subseteq Owed(v)
  BY <1>0, <1>5, <1>6 DEF Owed
<1>8. \A v \in User : v # u => Calm(b, v)
  BY <1>1, <1>2, <1>7 DEF Calm
<1>9. clash \subseteq clash' /\ clash' \subseteq User
  BY <1>1, ClashIs
<1>10. RowsMove(b)
  BY <1>1, NoRowMoves
<1>11. AccountOK(u)'
  <2>1. RowSound(u)'
    BY <1>1 DEF AccountOK, RowSound, Exists, Invited
  <2>2. ActiveKnown(u)'
    BY <1>1, <1>6, <1>9 DEF AccountOK, ActiveKnown, Exists
  <2>3. \A n \in Owed(u)' : n <= s
    <3> SUFFICES ASSUME NEW n \in Owed(u)' PROVE n <= s
      OBVIOUS
    <3>1. n \in Owed(u) => n \in Nat /\ n <= made[u]
      BY <1>1, OwedIn DEF AccountOK, OwedNumbered
    <3>2. made[u] \in Nat /\ s = made[u] + 1
      BY <1>1, <1>2, <1>3 DEF TypeOK, TablesOK
    <3> QED BY <1>7, <3>1, <3>2
  <2>4. OwedNumbered(u)'
    BY <1>2, <1>3, <2>3 DEF OwedNumbered
  <2>5. OwedStand(u)'
    <3>1. <<u, s>> \in codes' \cup spent'
      BY <1>1, <1>3
    <3>2. \A n \in Owed(u)' : n \in Nat
      BY <1>1, <1>3, <1>7, OwedIn
    <3>3. ASSUME NEW n \in Owed(u)' PROVE Covered(u, n)'
      <4>1. s >= n
        BY <2>3, <3>2
      <4> QED BY <3>1, <4>1 DEF Covered
    <3> QED BY <3>3 DEF OwedStand
  <2> QED BY <2>1, <2>2, <2>4, <2>5 DEF AccountOK
<1>12. OnPage(b)'
  BY <1>1, <1>4, <1>5, <1>6 DEF BrowserOK, OnPage, Enrols
<1>13. EnrolmentKnown(b)'
  BY <1>0, <1>1, <1>4, <1>5, <1>6 DEF BrowserOK, EnrolmentKnown, Enrols, Exists
<1>14. ActivationKnown(b)' /\ FinalisationKnown(b)' /\ ErasureKnown(b)'
  BY <1>1, <1>4, <1>5 DEF ActivationKnown, FinalisationKnown, ErasureKnown, At
<1>15. TablesOK'
  BY <1>1, <1>2 DEF TypeOK, TablesOK
<1> QED BY <1>1, <1>5, <1>8, <1>9, <1>10, <1>11, <1>12, <1>13, <1>14, <1>15, WriteStep
     DEF TypeOK, PagesOK, HistoryOK

\* CreateFirstAdmin: a new account has its password and no secret.
LEMMA KeptByCreateAdmin ==
  ASSUME EntryInv, NEW b \in Browser, CreateAdmin(b)
  PROVE  EntryInv'
<1>0. PICK u \in User : u = owner[b]
  BY DEF EntryInv, TypeOK, PagesOK
<1>1. /\ UNCHANGED <<codes, setupToken, made, view, people, ghosts, trouble>>
      /\ req[b].op = "setupComplete" /\ req[b].at = "create"
      /\ TypeOK /\ BrowserOK(b) /\ AccountOK(u)
  BY DEF CreateAdmin, At, EntryInv
<1>2. CASE row[u].id # 0
  <2>1. Refuse(b) /\ UNCHANGED row
    BY <1>0, <1>2 DEF CreateAdmin
  <2> QED BY <1>1, <2>1, Ended DEF tables
<1>3. CASE row[u].id = 0
  <2>1. row' = Inserted(u, "admin", TRUE, 0) /\ Goto(b, "spend") /\ UNCHANGED jar
    BY <1>0, <1>3 DEF CreateAdmin
  <2>2. /\ RequestsOK' /\ \A c \in Browser : c # b => req'[c] = req[c]
        /\ req'[b].at = "spend" /\ req'[b].op = req[b].op /\ req'[b].on = req[b].on /\ req'[b].got = req[b].got
    <3>1. "spend" \in Stages
      BY DEF Stages
    <3> QED BY <1>1, <2>1, <3>1, ReqMoved DEF Goto, TypeOK
  <2>3. PICK pw \in BOOLEAN : pw = TRUE
    OBVIOUS
  <2>4. row \in [User -> Row] /\ row' = Inserted(u, "admin", pw, 0)
    BY <1>1, <2>1, <2>3 DEF TypeOK, TablesOK
  <2>5. /\ row' \in [User -> Row]
        /\ row'[u].id # 0 /\ row'[u].pw = pw /\ row'[u].secret = 0 /\ ~row'[u].totp
        /\ \A v \in User : v # u => row'[v] = row[v]
    BY <2>4, InsertedRow
  <2>6. RowsMove(b)
    BY <1>1, <1>3, <2>5, OneRowMoves
  <2>7. \A v \in User : Calm(b, v)
    BY <1>1, <2>2, MadeNone, CalmIs DEF people, ghosts
  <2>8. AccountOK(u)'
    <3>1. RowSound(u)' /\ ActiveKnown(u)' /\ OwedStand(u)'
      BY <2>3, <2>5 DEF RowSound, ActiveKnown, OwedStand
    <3>2. OwedNumbered(u)'
      BY <1>1, <2>7, MadeNone, NumbersKept DEF AccountOK, Calm
    <3> QED BY <3>1, <3>2 DEF AccountOK
  <2>9. OnPage(b)'
    BY <1>1, <2>2 DEF BrowserOK, OnPage, Enrols
  <2>10. EnrolmentKnown(b)' /\ ActivationKnown(b)' /\ FinalisationKnown(b)' /\ ErasureKnown(b)'
    BY <1>1, <2>2 DEF EnrolmentKnown, ActivationKnown, FinalisationKnown, ErasureKnown, Enrols, At
  <2>11. TablesOK'
    BY <1>1, <2>5 DEF TypeOK, TablesOK
  <2> QED BY <1>1, <2>1, <2>2, <2>5, <2>6, <2>7, <2>8, <2>9, <2>10, <2>11, WriteStep
       DEF TypeOK, PagesOK, HistoryOK, ghosts
<1> QED BY <1>2, <1>3

\* The token of the first setup ends.
LEMMA KeptBySpendToken ==
  ASSUME EntryInv, NEW b \in Browser, SpendToken(b)
  PROVE  EntryInv'
<1>1. /\ UNCHANGED <<row, codes, made, view, jar, people, ghosts, trouble>> /\ setupToken' = 0
      /\ Goto(b, "done") /\ req[b].op = "setupComplete" /\ req[b].at = "spend" /\ TypeOK /\ BrowserOK(b)
  BY DEF SpendToken, At, EntryInv
<1>2. /\ RequestsOK' /\ \A c \in Browser : c # b => req'[c] = req[c]
      /\ req'[b].at = "done" /\ req'[b].op = req[b].op /\ req'[b].on = req[b].on /\ req'[b].got = req[b].got
  <2>1. "done" \in Stages
    BY DEF Stages
  <2> QED BY <1>1, <2>1, ReqMoved DEF Goto, TypeOK
<1>3. TypeOK' /\ Numbered'
  BY <1>1, <1>2 DEF EntryInv, TypeOK, TablesOK, PagesOK, HistoryOK, Numbered, people, ghosts
<1>4. Frame(b)
  BY <1>1, <1>2 DEF Frame, people, ghosts
<1>5. CodesCalm(b)
  BY <1>1, <1>2, MadeNone, CalmIs DEF CodesCalm, people, ghosts
<1>6. OnPage(b)' /\ ScreenKnown(b)'
  BY <1>1, <1>2 DEF BrowserOK, OnPage, Enrols, ScreenKnown, people
<1>7. EnrolmentKnown(b)' /\ ActivationKnown(b)' /\ FinalisationKnown(b)' /\ ErasureKnown(b)'
  BY <1>1, <1>2 DEF EnrolmentKnown, ActivationKnown, FinalisationKnown, ErasureKnown, Enrols, At
<1>8. BrowserOK(b)'
  BY <1>6, <1>7 DEF BrowserOK
<1> QED BY <1>1, <1>3, <1>4, <1>5, <1>8, StepKept

\* An account is deleted or gets a role: its way in, if it stays, is what it was.
LEMMA KeptByRoleWrite ==
  ASSUME EntryInv, NEW b \in Browser, RoleWrite(b)
  PROVE  EntryInv'
<1>0. PICK u \in User : u = req[b].on
  BY DEF EntryInv, TypeOK, RequestsOK, Requests
<1>1. /\ UNCHANGED <<codes, setupToken, made, view, jar, people, spent, respent, clash, cut, lost, trouble>>
      /\ rivals' \in BOOLEAN /\ req[b].op \in {"delete", "setRole"} /\ req[b].at = "write"
      /\ TypeOK /\ BrowserOK(b) /\ AccountOK(u)
  BY DEF RoleWrite, At, EntryInv
<1>2. PICK at \in {"codes", "done"} : Goto(b, at) /\ (at = "codes" <=> req[b].op = "delete")
  BY DEF RoleWrite
<1>3. /\ RequestsOK' /\ \A c \in Browser : c # b => req'[c] = req[c]
      /\ req'[b].at = at /\ req'[b].op = req[b].op /\ req'[b].on = req[b].on /\ req'[b].got = req[b].got
  <2>1. at \in Stages
    BY DEF Stages
  <2> QED BY <1>1, <1>2, <2>1, ReqMoved DEF Goto, TypeOK
<1>4. row[u].id # 0 /\ row \in [User -> Row]
  BY <1>0, <1>1 DEF BrowserOK, ErasureKnown, TypeOK, TablesOK
<1>5. /\ row' \in [User -> Row] /\ \A v \in User : v # u => row'[v] = row[v]
      /\ row'[u].id = row[u].id /\ row'[u].secret = row[u].secret /\ row'[u].totp = row[u].totp
      /\ row'[u].pw = row[u].pw /\ row'[u].invite = row[u].invite
      /\ (Exists(u)' => Exists(u)) /\ (req[b].op = "delete" => ~Exists(u)')
  <2>1. CASE req[b].op = "delete"
    <3>1. PICK n : n = [row[u] EXCEPT !.exists = FALSE]
      OBVIOUS
    <3>2. /\ n \in Row /\ ~n.exists /\ n.totp = row[u].totp /\ n.secret = row[u].secret /\ n.id = row[u].id
          /\ n.pw = row[u].pw /\ n.invite = row[u].invite
      BY <1>4, <3>1 DEF Row
    <3>3. row' = [row EXCEPT ![u] = n]
      BY <1>0, <2>1, <3>1 DEF RoleWrite, Deleted
    <3> QED BY <1>4, <3>2, <3>3 DEF Exists
  <2>2. CASE req[b].op = "setRole"
    <3>1. PICK role \in {"admin", "viewer"} : role = req[b].arg
      BY <1>1, <2>2 DEF BrowserOK, ErasureKnown, At
    <3>2. PICK n : n = [row[u] EXCEPT !.role = role]
      OBVIOUS
    <3>3. /\ n \in Row /\ n.exists = row[u].exists /\ n.totp = row[u].totp /\ n.secret = row[u].secret
          /\ n.id = row[u].id /\ n.pw = row[u].pw /\ n.invite = row[u].invite
      BY <1>4, <3>2 DEF Row
    <3>4. row' = Updated(u, n)
      BY <1>0, <2>2, <3>1, <3>2 DEF RoleWrite, RoleSet
    <3>5. row' \in [User -> Row] /\ \A v \in User : row'[v] = IF v = u /\ Exists(u) THEN n ELSE row[v]
      BY <1>4, <3>3, <3>4, UpdatedRow
    <3> QED BY <2>2, <3>3, <3>5 DEF Exists
  <2> QED BY <1>1, <2>1, <2>2
<1>6. RowsMove(b)
  BY <1>1, <1>5, OneRowMoves DEF Invited
<1>7. \A v \in User : Calm(b, v)
  BY <1>1, <1>3, MadeNone, CalmIs DEF people
<1>8. AccountOK(u)'
  <2>1. RowSound(u)' /\ ActiveKnown(u)'
    BY <1>1, <1>5 DEF AccountOK, RowSound, ActiveKnown, Invited, people
  <2>2. OwedNumbered(u)'
    BY <1>1, <1>7, MadeNone, NumbersKept DEF AccountOK, Calm
  <2>3. Frame(b)
    BY <1>1, <1>3 DEF Frame, people
  <2>4. OwedStand(u)'
    BY <1>1, <1>5, <1>7, <2>3, MadeNone, StandKept DEF AccountOK
  <2> QED BY <2>1, <2>2, <2>4 DEF AccountOK
<1>9. OnPage(b)' /\ EnrolmentKnown(b)' /\ ActivationKnown(b)' /\ FinalisationKnown(b)'
  BY <1>1, <1>2, <1>3 DEF OnPage, EnrolmentKnown, ActivationKnown, FinalisationKnown, Enrols, At
<1>10. ErasureKnown(b)'
  BY <1>0, <1>1, <1>2, <1>3, <1>4, <1>5 DEF ErasureKnown, At
<1>11. TablesOK'
  BY <1>1, <1>5 DEF TypeOK, TablesOK
<1> QED BY <1>1, <1>3, <1>5, <1>6, <1>7, <1>8, <1>9, <1>10, <1>11, WriteStep
     DEF TypeOK, PagesOK, HistoryOK

\* The codes of an account that was deleted, or that starts over, go.
LEMMA KeptByEraseCodes ==
  ASSUME EntryInv, NEW b \in Browser, EraseCodes(b)
  PROVE  EntryInv'
<1>0. PICK u \in User : u = req[b].on
  BY DEF EntryInv, TypeOK, RequestsOK, Requests
<1>1. /\ UNCHANGED <<row, setupToken, made, view, jar, people, spent, respent, cut, rivals, lost, trouble>>
      /\ codes' = WithoutCodesOf(u) /\ Clashes(b, u)
      /\ req[b].op \in {"delete", "resetMfa"} /\ req[b].at = "codes"
      /\ TypeOK /\ BrowserOK(b) /\ AccountOK(u)
  BY <1>0 DEF EraseCodes, Write, At, EntryInv
<1>2. PICK at \in {"done", "invite"} : Goto(b, at)
  BY DEF EraseCodes, Write
<1>3. /\ RequestsOK' /\ \A c \in Browser : c # b => req'[c] = req[c]
      /\ req'[b].at = at /\ req'[b].op = req[b].op /\ req'[b].on = req[b].on /\ req'[b].got = req[b].got
  <2>1. at \in Stages
    BY DEF Stages
  <2> QED BY <1>1, <1>2, <2>1, ReqMoved DEF Goto, TypeOK
<1>4. \A v \in User : made'[v] \in Nat /\ made[v] <= made'[v]
  BY <1>1, MadeNone
<1>5. \A v \in User : Owed(v)' \subseteq Owed(v) \cup {0}
  BY <1>1, <1>3, OwedSame DEF people
<1>6. \A v \in User : v # u => Calm(b, v)
  BY <1>1, <1>4, <1>5 DEF Calm, WithoutCodesOf
<1>7. clash \subseteq clash' /\ clash' \subseteq User
  BY <1>1, ClashIs
<1>8. RowsMove(b)
  BY <1>1, NoRowMoves
<1>9. AccountOK(u)'
  <2>1. RowSound(u)'
    BY <1>1 DEF AccountOK, RowSound, Exists, Invited
  <2>2. ActiveKnown(u)'
    BY <1>1, <1>7 DEF AccountOK, ActiveKnown, Exists, people
  <2>3. OwedNumbered(u)'
    BY <1>1, <1>4, <1>5, MadeNone, NumbersKept DEF AccountOK
  <2>4. OwedStand(u)'
    BY <1>0, <1>1, <1>7 DEF OwedStand, BrowserOK, ErasureKnown, At, Exists
  <2> QED BY <2>1, <2>2, <2>3, <2>4 DEF AccountOK
<1>10. OnPage(b)' /\ EnrolmentKnown(b)' /\ ActivationKnown(b)' /\ FinalisationKnown(b)' /\ ErasureKnown(b)'
  BY <1>1, <1>3 DEF OnPage, EnrolmentKnown, ActivationKnown, FinalisationKnown, ErasureKnown, Enrols, At
<1>11. TablesOK'
  BY <1>1 DEF TypeOK, TablesOK, WithoutCodesOf
<1> QED BY <1>1, <1>3, <1>6, <1>7, <1>8, <1>9, <1>10, <1>11, WriteStep
     DEF TypeOK, PagesOK, HistoryOK

\* The new invitation of an account that starts over.
LEMMA KeptByReinvite ==
  ASSUME EntryInv, NEW b \in Browser, Reinvite(b)
  PROVE  EntryInv'
<1>0. PICK u \in User : u = req[b].on
  BY DEF EntryInv, TypeOK, RequestsOK, Requests
<1>1. /\ UNCHANGED <<codes, setupToken, view, jar, people, spent, respent, cut, rivals, lost, trouble>>
      /\ made' = [made EXCEPT ![u] = Fresh(u)] /\ row' = InviteStored(u, Fresh(u)) /\ Clashes(b, u)
      /\ req' = [req EXCEPT ![b].at = "done", ![b].got = Fresh(u)]
      /\ req[b].op = "resetMfa" /\ req[b].at = "invite" /\ TypeOK /\ BrowserOK(b) /\ AccountOK(u)
  BY <1>0 DEF Reinvite, At, EntryInv
<1>2. /\ made' \in [User -> Nat] /\ Fresh(u) \in Nat \ {0} /\ made'[u] = Fresh(u) /\ Fresh(u) = made[u] + 1
      /\ \A v \in User : made'[v] \in Nat /\ made[v] <= made'[v]
  BY <1>1, MadeOne
<1>3. PICK s \in Nat \ {0} : s = Fresh(u)
  BY <1>2
<1>4. /\ RequestsOK' /\ \A c \in Browser : c # b => req'[c] = req[c]
      /\ req'[b].at = "done" /\ req'[b].got = s /\ req'[b].op = req[b].op /\ req'[b].on = req[b].on
  <2>1. "done" \in Stages
    BY DEF Stages
  <2>2. PICK r : r = [req[b] EXCEPT !.at = "done", !.got = s]
    OBVIOUS
  <2>3. RequestsOK
    BY <1>1 DEF TypeOK
  <2>4. req' = [req EXCEPT ![b] = r]
    BY <1>1, <1>3, <2>2, <2>3 DEF RequestsOK
  <2>5. r \in Requests /\ r.at = "done" /\ r.got = s /\ r.op = req[b].op /\ r.on = req[b].on
    BY <1>3, <2>1, <2>2, <2>3 DEF RequestsOK, Requests
  <2> QED BY <2>3, <2>4, <2>5, ReqSet
<1>5. PICK n : n = [row[u] EXCEPT !.invite = s]
  OBVIOUS
<1>6. /\ n \in Row /\ n.totp = row[u].totp /\ n.secret = row[u].secret /\ n.id = row[u].id
      /\ n.exists = row[u].exists /\ n.pw = row[u].pw /\ n.invite = s
  BY <1>1, <1>3, <1>5 DEF TypeOK, TablesOK, Row
<1>7. row' = Updated(u, n)
  BY <1>1, <1>3, <1>5 DEF InviteStored
<1>8. /\ row' \in [User -> Row]
      /\ \A v \in User : row'[v] = IF v = u /\ Exists(u) THEN n ELSE row[v]
  BY <1>1, <1>6, <1>7, UpdatedRow DEF TypeOK, TablesOK
<1>9. /\ row'[u].id = row[u].id /\ (Exists(u)' <=> Exists(u)) /\ (Exists(u) => Invited(u)')
      /\ row'[u].pw = row[u].pw /\ row'[u].secret = row[u].secret /\ row'[u].totp = row[u].totp
  BY <1>3, <1>6, <1>8 DEF Exists, Invited
<1>10. clash \subseteq clash' /\ clash' \subseteq User
  BY <1>1, ClashIs
<1>11. RowsMove(b)
  BY <1>1, <1>8, <1>9, OneRowMoves
<1>12. \A v \in User : Calm(b, v)
  BY <1>1, <1>2, <1>4, CalmIs DEF people
<1>13. AccountOK(u)'
  <2>1. RowSound(u)'
    BY <1>1, <1>9 DEF AccountOK, RowSound
  <2>2. ActiveKnown(u)'
    BY <1>1, <1>9, <1>10 DEF AccountOK, ActiveKnown, people
  <2>3. OwedNumbered(u)'
    BY <1>1, <1>2, <1>12, NumbersKept DEF AccountOK, Calm
  <2>4. Frame(b)
    BY <1>1, <1>4, <1>10 DEF Frame, people
  <2>5. OwedStand(u)'
    BY <1>1, <1>2, <1>9, <1>12, <2>4, StandKept DEF AccountOK
  <2> QED BY <2>1, <2>2, <2>3, <2>5 DEF AccountOK
<1>14. OnPage(b)' /\ EnrolmentKnown(b)' /\ ActivationKnown(b)' /\ FinalisationKnown(b)' /\ ErasureKnown(b)'
  BY <1>1, <1>4 DEF OnPage, EnrolmentKnown, ActivationKnown, FinalisationKnown, ErasureKnown, Enrols, At
<1>15. TablesOK'
  BY <1>1, <1>2, <1>8 DEF TypeOK, TablesOK
<1> QED BY <1>1, <1>4, <1>8, <1>10, <1>11, <1>12, <1>13, <1>14, <1>15, WriteStep
     DEF TypeOK, PagesOK, HistoryOK

-----------------------------------------------------------------------------
(* The administrators *)

\* A new account waits for who holds its invitation.
LEMMA KeptByInvite ==
  ASSUME EntryInv, NEW b \in Browser, Invite(b)
  PROVE  EntryInv'
<1>1. PICK u \in User, role \in {"admin", "viewer"} :
        /\ row[u].id = 0 /\ made' = [made EXCEPT ![u] = Fresh(u)] /\ row' = Inserted(u, role, FALSE, Fresh(u))
        /\ req' = [req EXCEPT ![b] = [Request("invite", "done", u, role, 0) EXCEPT !.got = Fresh(u)]]
        /\ UNCHANGED <<codes, setupToken, view, jar, people, ghosts>> /\ ~Busy(b) /\ trouble' = trouble + 1
  BY DEF Invite, Administers, Befalls
<1>2. TypeOK /\ AccountOK(u)
  BY DEF EntryInv
<1>3. /\ made' \in [User -> Nat] /\ Fresh(u) \in Nat \ {0} /\ made'[u] = Fresh(u) /\ Fresh(u) = made[u] + 1
      /\ \A v \in User : made'[v] \in Nat /\ made[v] <= made'[v]
  BY <1>1, <1>2, MadeOne
<1>4. PICK s \in Nat \ {0} : s = Fresh(u)
  BY <1>3
<1>5. /\ RequestsOK' /\ \A c \in Browser : c # b => req'[c] = req[c]
      /\ req'[b].op = "invite" /\ req'[b].at = "done"
  <2>1. PICK q : q = Request("invite", "done", u, role, 0)
    OBVIOUS
  <2>2. q \in Requests /\ q.op = "invite" /\ q.at = "done"
    BY <2>1 DEF Request, Requests, Ops, AdminOps, Stages, Args
  <2>3. PICK r : r = [q EXCEPT !.got = s]
    OBVIOUS
  <2>4. r \in Requests /\ r.op = "invite" /\ r.at = "done"
    BY <1>4, <2>2, <2>3 DEF Requests
  <2>5. req' = [req EXCEPT ![b] = r] /\ RequestsOK
    BY <1>1, <1>2, <1>4, <2>1, <2>3 DEF TypeOK
  <2> QED BY <2>4, <2>5, ReqSet
<1>6. PICK pw \in BOOLEAN : pw = FALSE
  OBVIOUS
<1>7. row \in [User -> Row] /\ row' = Inserted(u, role, pw, s)
  BY <1>1, <1>2, <1>4, <1>6 DEF TypeOK, TablesOK
<1>8. /\ row' \in [User -> Row]
      /\ row'[u].id # 0 /\ row'[u].exists /\ row'[u].invite = s /\ row'[u].secret = 0 /\ ~row'[u].totp
      /\ \A v \in User : v # u => row'[v] = row[v]
  BY <1>4, <1>7, InsertedRow
<1>9. RowsMove(b)
  BY <1>1, <1>2, <1>8, OneRowMoves
<1>10. req[b].at # "insert"
  BY <1>1, NotBusy
<1>11. \A v \in User : Calm(b, v)
  BY <1>1, <1>2, <1>3, <1>5, <1>10, CalmIs DEF people, ghosts
<1>12. AccountOK(u)'
  <2>1. RowSound(u)' /\ ActiveKnown(u)' /\ OwedStand(u)'
    BY <1>4, <1>8 DEF RowSound, ActiveKnown, OwedStand, Exists, Invited
  <2>2. OwedNumbered(u)'
    BY <1>2, <1>3, <1>11, NumbersKept DEF AccountOK, Calm
  <2> QED BY <2>1, <2>2 DEF AccountOK
<1>13. OnPage(b)' /\ EnrolmentKnown(b)' /\ ActivationKnown(b)' /\ FinalisationKnown(b)' /\ ErasureKnown(b)'
  BY <1>5 DEF OnPage, EnrolmentKnown, ActivationKnown, FinalisationKnown, ErasureKnown, Enrols, At
<1>14. TablesOK'
  BY <1>1, <1>2, <1>3, <1>8 DEF TypeOK, TablesOK
<1>15. jar' \in [Browser -> [pre : BOOLEAN, sess : {"none", "admin", "viewer"}]]
  BY <1>1, <1>2 DEF TypeOK, PagesOK
<1>16. /\ spent' \subseteq User \X Nat /\ respent' \subseteq User \X Nat /\ clash \subseteq clash'
       /\ clash' \subseteq User /\ rivals' \in BOOLEAN /\ trouble' \in Nat /\ UNCHANGED <<cut, lost>>
  BY <1>1, <1>2 DEF TypeOK, HistoryOK, ghosts
<1> QED BY <1>1, <1>5, <1>8, <1>9, <1>11, <1>12, <1>13, <1>14, <1>15, <1>16, WriteStep

\* What the others ask for goes out with an account that exists.
LEMMA AskedAbout ==
  ASSUME EntryInv, NEW b \in Browser, NEW u \in User, NEW op \in {"delete", "setRole", "resetMfa", "resetPassword"},
         NEW at \in {"write", "codes", "done"}, NEW arg \in {"none", "admin", "viewer"},
         req' = [req EXCEPT ![b] = Request(op, at, u, arg, 0)]
  PROVE  /\ RequestsOK' /\ \A c \in Browser : c # b => req'[c] = req[c]
         /\ req'[b].op = op /\ req'[b].at = at /\ req'[b].on = u /\ req'[b].arg = arg /\ req'[b].got = 0
<1> DEFINE r == Request(op, at, u, arg, 0)
<1>1. op \in Ops /\ at \in Stages /\ arg \in Args
  BY DEF Ops, AdminOps, Stages, Args
<1>2. r \in Requests /\ r.op = op /\ r.at = at /\ r.on = u /\ r.arg = arg /\ r.got = 0
  BY <1>1, RequestIs
<1> HIDE DEF r
<1>3. req' = [req EXCEPT ![b] = r] /\ RequestsOK
  BY DEF r, EntryInv, TypeOK
<1> QED BY <1>2, <1>3, ReqSet

\* An account will be deleted or get a role.
LEMMA KeptByRemoveOrPromote ==
  ASSUME EntryInv, NEW b \in Browser, RemoveOrPromote(b)
  PROVE  EntryInv'
<1>1. PICK u \in User, op \in {"delete", "setRole"}, role \in {"admin", "viewer"} :
        /\ Exists(u) /\ ~Busy(b) /\ req' = [req EXCEPT ![b] = Request(op, "write", u, role, 0)]
        /\ UNCHANGED <<tables, view, jar, people, ghosts>> /\ trouble' = trouble + 1
  BY DEF RemoveOrPromote, Send, Administers, Befalls
<1>2. TypeOK /\ BrowserOK(b) /\ RowSound(u)
  BY DEF EntryInv, AccountOK
<1>3. /\ RequestsOK' /\ \A c \in Browser : c # b => req'[c] = req[c]
      /\ req'[b].op = op /\ req'[b].at = "write" /\ req'[b].on = u /\ req'[b].arg = role /\ req'[b].got = 0
  <2>1. /\ op \in {"delete", "setRole", "resetMfa", "resetPassword"} /\ "write" \in {"write", "codes", "done"}
        /\ role \in {"none", "admin", "viewer"}
    OBVIOUS
  <2> QED BY <1>1, <2>1, AskedAbout
<1>4. req[b].at # "insert" /\ row[u].id # 0
  BY <1>1, <1>2, NotBusy DEF RowSound
<1>5. TypeOK' /\ Numbered'
  BY <1>1, <1>2, <1>3 DEF EntryInv, TypeOK, TablesOK, PagesOK, HistoryOK, Numbered, tables, people, ghosts
<1>6. Frame(b)
  BY <1>1, <1>3 DEF Frame, people, ghosts
<1>7. CodesCalm(b)
  BY <1>1, <1>2, <1>3, <1>4, MadeNone, CalmIs DEF CodesCalm, tables, people, ghosts
<1>8. OnPage(b)' /\ EnrolmentKnown(b)' /\ ActivationKnown(b)' /\ FinalisationKnown(b)'
  BY <1>3 DEF OnPage, EnrolmentKnown, ActivationKnown, FinalisationKnown, Enrols, At
<1>9. ErasureKnown(b)'
  BY <1>1, <1>3, <1>4 DEF ErasureKnown, At, tables
<1>10. ScreenKnown(b)'
  BY <1>1, <1>2 DEF BrowserOK, ScreenKnown, people
<1>11. BrowserOK(b)'
  BY <1>8, <1>9, <1>10 DEF BrowserOK
<1> QED BY <1>1, <1>5, <1>6, <1>7, <1>11, StepKept DEF tables

\* ResetUserMFA, its first statement: without a secret the account is not active.
LEMMA KeptByResetMfa ==
  ASSUME EntryInv, NEW b \in Browser, ResetMfa(b)
  PROVE  EntryInv'
<1>1. PICK u \in User :
        /\ Exists(u) /\ row' = MfaErased(u) /\ Clashes(b, u) /\ ~Busy(b)
        /\ req' = [req EXCEPT ![b] = Request("resetMfa", "codes", u, "none", 0)] /\ trouble' = trouble + 1
        /\ UNCHANGED <<codes, setupToken, made, view, jar, people, spent, respent, cut, rivals, lost>>
  BY DEF ResetMfa, Send, Administers, Befalls
<1>2. TypeOK /\ BrowserOK(b) /\ AccountOK(u)
  BY DEF EntryInv
<1>3. /\ RequestsOK' /\ \A c \in Browser : c # b => req'[c] = req[c]
      /\ req'[b].op = "resetMfa" /\ req'[b].at = "codes" /\ req'[b].on = u /\ req'[b].got = 0
  BY <1>1, AskedAbout
<1>4. req[b].at # "insert"
  BY <1>1, NotBusy
<1>5. PICK n : n = [row[u] EXCEPT !.secret = 0, !.totp = FALSE]
  OBVIOUS
<1>6. /\ n \in Row /\ ~n.totp /\ n.secret = 0 /\ n.id = row[u].id /\ n.exists = row[u].exists
      /\ n.pw = row[u].pw /\ n.invite = row[u].invite
  BY <1>2, <1>5 DEF TypeOK, TablesOK, Row
<1>7. row' = Updated(u, n)
  BY <1>1, <1>5 DEF MfaErased
<1>8. /\ row' \in [User -> Row]
      /\ \A v \in User : row'[v] = IF v = u /\ Exists(u) THEN n ELSE row[v]
  BY <1>2, <1>6, <1>7, UpdatedRow DEF TypeOK, TablesOK
<1>9. /\ row'[u].id = row[u].id /\ (Exists(u)' <=> Exists(u)) /\ (Invited(u)' <=> Invited(u))
      /\ row'[u].pw = row[u].pw /\ row'[u].secret = 0 /\ ~row'[u].totp
  BY <1>1, <1>6, <1>8 DEF Exists, Invited
<1>10. clash \subseteq clash' /\ clash' \subseteq User
  BY <1>1, <1>2, ClashIs
<1>11. RowsMove(b)
  BY <1>1, <1>2, <1>8, <1>9, OneRowMoves
<1>12. \A v \in User : Calm(b, v)
  BY <1>1, <1>2, <1>3, <1>4, MadeNone, CalmIs DEF people
<1>13. AccountOK(u)'
  <2>1. RowSound(u)' /\ ActiveKnown(u)' /\ OwedStand(u)'
    BY <1>2, <1>9 DEF AccountOK, RowSound, ActiveKnown, OwedStand
  <2>2. OwedNumbered(u)'
    BY <1>1, <1>2, <1>12, MadeNone, NumbersKept DEF AccountOK, Calm
  <2> QED BY <2>1, <2>2 DEF AccountOK
<1>14. OnPage(b)' /\ EnrolmentKnown(b)' /\ ActivationKnown(b)' /\ FinalisationKnown(b)'
  BY <1>3 DEF OnPage, EnrolmentKnown, ActivationKnown, FinalisationKnown, Enrols, At
<1>15. ErasureKnown(b)'
  BY <1>1, <1>2, <1>3, <1>9 DEF ErasureKnown, At, AccountOK, RowSound
<1>16. TablesOK'
  BY <1>1, <1>2, <1>8 DEF TypeOK, TablesOK
<1>17. trouble' \in Nat
  BY <1>1, <1>2 DEF TypeOK, HistoryOK
<1> QED BY <1>1, <1>2, <1>3, <1>8, <1>10, <1>11, <1>12, <1>13, <1>14, <1>15, <1>16, <1>17, WriteStep
     DEF TypeOK, PagesOK, HistoryOK

\* SetUserPassword by an administrator.
LEMMA KeptByImposePassword ==
  ASSUME EntryInv, NEW b \in Browser, ImposePassword(b)
  PROVE  EntryInv'
<1>1. PICK u \in User :
        /\ Exists(u) /\ row' = PasswordSet(u, TRUE) /\ ~Busy(b)
        /\ req' = [req EXCEPT ![b] = Request("resetPassword", "done", u, "none", 0)] /\ trouble' = trouble + 1
        /\ UNCHANGED <<codes, setupToken, made, view, jar, people, ghosts>>
  BY DEF ImposePassword, Send, Administers, Befalls
<1>2. TypeOK /\ BrowserOK(b) /\ AccountOK(u)
  BY DEF EntryInv
<1>3. /\ RequestsOK' /\ \A c \in Browser : c # b => req'[c] = req[c]
      /\ req'[b].op = "resetPassword" /\ req'[b].at = "done" /\ req'[b].got = 0
  BY <1>1, AskedAbout
<1>4. req[b].at # "insert"
  BY <1>1, NotBusy
<1>5. PICK n : n = [row[u] EXCEPT !.pw = TRUE, !.must = TRUE]
  OBVIOUS
<1>6. /\ n \in Row /\ n.pw /\ n.id = row[u].id /\ n.exists = row[u].exists
      /\ n.totp = row[u].totp /\ n.secret = row[u].secret /\ n.invite = row[u].invite
  BY <1>2, <1>5 DEF TypeOK, TablesOK, Row
<1>7. row' = Updated(u, n)
  BY <1>1, <1>5 DEF PasswordSet
<1>8. /\ row' \in [User -> Row]
      /\ \A v \in User : row'[v] = IF v = u /\ Exists(u) THEN n ELSE row[v]
  BY <1>2, <1>6, <1>7, UpdatedRow DEF TypeOK, TablesOK
<1>9. /\ row'[u].id = row[u].id /\ (Exists(u)' <=> Exists(u)) /\ (Invited(u)' <=> Invited(u))
      /\ row'[u].pw /\ row'[u].secret = row[u].secret /\ row'[u].totp = row[u].totp
  BY <1>1, <1>6, <1>8 DEF Exists, Invited
<1>10. RowsMove(b)
  BY <1>2, <1>8, <1>9, OneRowMoves
<1>11. \A v \in User : Calm(b, v)
  BY <1>1, <1>2, <1>3, <1>4, MadeNone, CalmIs DEF people, ghosts
<1>12. AccountOK(u)'
  <2>1. RowSound(u)' /\ ActiveKnown(u)'
    BY <1>1, <1>2, <1>9 DEF AccountOK, RowSound, ActiveKnown, people, ghosts
  <2>2. OwedNumbered(u)'
    BY <1>1, <1>2, <1>11, MadeNone, NumbersKept DEF AccountOK, Calm
  <2>3. Frame(b)
    BY <1>1, <1>3 DEF Frame, people, ghosts
  <2>4. OwedStand(u)'
    BY <1>1, <1>2, <1>9, <1>11, <2>3, MadeNone, StandKept DEF AccountOK
  <2> QED BY <2>1, <2>2, <2>4 DEF AccountOK
<1>13. OnPage(b)' /\ EnrolmentKnown(b)' /\ ActivationKnown(b)' /\ FinalisationKnown(b)' /\ ErasureKnown(b)'
  BY <1>3 DEF OnPage, EnrolmentKnown, ActivationKnown, FinalisationKnown, ErasureKnown, Enrols, At
<1>14. TablesOK'
  BY <1>1, <1>2, <1>8 DEF TypeOK, TablesOK
<1>15. trouble' \in Nat
  BY <1>1, <1>2 DEF TypeOK, HistoryOK
<1> QED BY <1>1, <1>2, <1>3, <1>8, <1>10, <1>11, <1>12, <1>13, <1>14, <1>15, WriteStep
     DEF TypeOK, PagesOK, HistoryOK, ghosts

-----------------------------------------------------------------------------
(* The answers *)

\* A step that writes no table and changes what one browser shows.
LEMMA AnswerStep ==
  ASSUME EntryInv, NEW b \in Browser, UNCHANGED <<tables, owner, expired, ghosts, trouble>>,
         DOMAIN view' = Browser, \A c \in Browser : ViewOK(view'[c]), \A c \in Browser : c # b => view'[c] = view[c],
         jar' \in [Browser -> [pre : BOOLEAN, sess : {"none", "admin", "viewer"}]],
         RequestsOK', \A c \in Browser : c # b => req'[c] = req[c],
         phone \subseteq phone', phone' \subseteq User \X Nat, sheet' \subseteq User \X Nat,
         links' \subseteq User \X Nat, Numbered', req[b].at # "insert",
         \A u \in User : Owed(u)' \subseteq Owed(u) \cup {0}, BrowserOK(b)'
  PROVE  EntryInv'
<1>1. TypeOK'
  BY DEF EntryInv, TypeOK, TablesOK, PagesOK, HistoryOK, tables, ghosts
<1>2. Frame(b)
  BY DEF Frame, ghosts
<1>3. CodesCalm(b)
  <2>1. \A u \in User : made'[u] = made[u] /\ made[u] \in Nat
    BY DEF EntryInv, TypeOK, TablesOK, tables
  <2> QED BY <2>1 DEF CodesCalm, Calm, tables, ghosts
<1> QED BY <1>1, <1>2, <1>3, StepKept DEF tables

\* A browser is idle again.
LEMMA Released ==
  ASSUME TypeOK, NEW b \in Browser, Release(b)
  PROVE  /\ RequestsOK' /\ \A c \in Browser : c # b => req'[c] = req[c]
         /\ req'[b].op = "none" /\ req'[b].at = "none" /\ req'[b].got = 0
BY IdleIs, ReqSet DEF Release, TypeOK

\* The links an answer carries are of accounts.
LEMMA UntoldIs ==
  ASSUME TypeOK, NEW bs \in SUBSET Browser
  PROVE  Untold(bs) \subseteq User \X Nat
BY DEF TypeOK, RequestsOK, Requests, Untold

\* The page asks for a secret.
LEMMA SecretAsked ==
  ASSUME EntryInv, NEW b \in Browser, AskSecret(b), UNCHANGED <<view, owner, phone>>,
         view[b].page \in {"login", "setup"}
  PROVE  /\ RequestsOK' /\ \A c \in Browser : c # b => req'[c] = req[c]
         /\ req'[b].got = 0 /\ BrowserOK(b)'
<1> DEFINE r == Request("setupMfa", "read", owner[b], "none", 0)
<1>1. TypeOK /\ BrowserOK(b) /\ owner[b] \in User
  BY DEF EntryInv, TypeOK, PagesOK
<1>2. r \in Requests /\ r.op = "setupMfa" /\ r.at = "read" /\ r.on = owner[b] /\ r.got = 0
  <2>1. "setupMfa" \in Ops /\ "read" \in Stages /\ "none" \in Args
    BY DEF Ops, Stages, Args
  <2> QED BY <1>1, <2>1, RequestIs
<1>3. req' = [req EXCEPT ![b] = r]
  BY DEF AskSecret
<1> HIDE DEF r
<1>4. RequestsOK' /\ req'[b] = r /\ \A c \in Browser : c # b => req'[c] = req[c]
  BY <1>1, <1>2, <1>3, ReqSet DEF TypeOK
<1>5. OnPage(b)' /\ EnrolmentKnown(b)' /\ ActivationKnown(b)' /\ FinalisationKnown(b)' /\ ErasureKnown(b)'
  BY <1>2, <1>4 DEF OnPage, EnrolmentKnown, ActivationKnown, FinalisationKnown, ErasureKnown, At
<1>6. ScreenKnown(b)'
  BY <1>1 DEF BrowserOK, ScreenKnown
<1> QED BY <1>2, <1>4, <1>5, <1>6 DEF BrowserOK

\* The code an answer shows was owed before.
LEMMA OwedShown ==
  ASSUME NEW b \in Browser, UNCHANGED owner, req[b].op \in {"verify", "inviteVerify"},
         sheet' \subseteq sheet \cup {<<owner[b], req[b].got>>},
         \A c \in Browser : c # b => req'[c] = req[c], req'[b].got = 0
  PROVE  \A u \in User : Owed(u)' \subseteq Owed(u) \cup {0}
<1> SUFFICES ASSUME NEW u \in User, NEW n \in Owed(u)', n # 0 PROVE n \in Owed(u)
  OBVIOUS
<1>1. CASE \E c \in sheet' : c[1] = u /\ c[2] = n
  <2>1. PICK c \in sheet' : c[1] = u /\ c[2] = n
    BY <1>1
  <2>2. CASE c \in sheet
    BY <2>1, <2>2 DEF Owed
  <2>3. CASE c = <<owner[b], req[b].got>>
    BY <2>1, <2>3 DEF Owed
  <2> QED BY <2>2, <2>3
<1>2. CASE \E c \in Browser : req'[c].op \in {"verify", "inviteVerify"} /\ owner[c] = u /\ req'[c].got = n
  <2>1. PICK c \in Browser : req'[c].op \in {"verify", "inviteVerify"} /\ owner[c] = u /\ req'[c].got = n
    BY <1>2
  <2>2. req[c].op \in {"verify", "inviteVerify"} /\ req[c].got = n
    BY <2>1
  <2> QED BY <2>1, <2>2 DEF Owed
<1> QED BY <1>1, <1>2 DEF Owed

\* HandleLogin: the page asks for a code or a new password, or fetches a secret.
LEMMA KeptByLoginAnswered ==
  ASSUME EntryInv, NEW b \in Browser, LoginAnswered(b)
  PROVE  EntryInv'
<1>1. /\ UNCHANGED <<tables, people, ghosts, trouble>> /\ jar' = [jar EXCEPT ![b].pre = TRUE]
      /\ req[b].op = "login" /\ req[b].at # "insert" /\ TypeOK /\ BrowserOK(b) /\ Numbered
  BY DEF LoginAnswered, At, EntryInv
<1>2. jar' \in [Browser -> [pre : BOOLEAN, sess : {"none", "admin", "viewer"}]]
  BY <1>1 DEF TypeOK, PagesOK
<1>3. /\ UNCHANGED <<owner, expired, phone, sheet, links>> /\ phone \subseteq phone' /\ phone' \subseteq User \X Nat
      /\ sheet' \subseteq User \X Nat /\ links' \subseteq User \X Nat /\ Numbered'
  BY <1>1 DEF people, TypeOK, HistoryOK, Numbered
<1>4. DOMAIN view = Browser /\ \A c \in Browser : ViewOK(view[c])
  BY <1>1 DEF TypeOK, PagesOK
<1>5. CASE Release(b) /\ \E phase \in {"code", "setup_mustchange"} : Show(b, [LoginPage EXCEPT !.phase = phase])
  <2>1. PICK phase \in {"code", "setup_mustchange"} : Show(b, [LoginPage EXCEPT !.phase = phase])
    BY <1>5
  <2>2. PICK v : v = [LoginPage EXCEPT !.phase = phase]
    OBVIOUS
  <2>3. ViewOK(v) /\ v.phase # "enroll"
    BY <2>2 DEF LoginPage, View, ViewOK, Views, Phases, HasPhase
  <2>4. /\ DOMAIN view' = Browser /\ \A c \in Browser : ViewOK(view'[c])
        /\ view'[b] = v /\ \A c \in Browser : c # b => view'[c] = view[c]
    BY <1>4, <2>1, <2>2, <2>3, ViewSet
  <2>5. /\ RequestsOK' /\ \A c \in Browser : c # b => req'[c] = req[c]
        /\ req'[b].op = "none" /\ req'[b].at = "none" /\ req'[b].got = 0
    BY <1>1, <1>5, Released
  <2>6. BrowserOK(b)'
    BY <2>3, <2>4, <2>5, IdleKept DEF ScreenKnown
  <2>7. \A u \in User : Owed(u)' \subseteq Owed(u) \cup {0}
    BY <1>3, <2>5, OwedSame
  <2> QED BY <1>1, <1>2, <1>3, <2>4, <2>5, <2>6, <2>7, AnswerStep
<1>6. CASE AskSecret(b) /\ UNCHANGED view
  <2>1. view[b].page \in {"login", "setup"}
    BY <1>1 DEF BrowserOK, OnPage
  <2>2. RequestsOK' /\ (\A c \in Browser : c # b => req'[c] = req[c]) /\ req'[b].got = 0 /\ BrowserOK(b)'
    BY <1>3, <1>6, <2>1, SecretAsked
  <2>3. \A u \in User : Owed(u)' \subseteq Owed(u) \cup {0}
    BY <1>3, <2>2, OwedSame
  <2> QED BY <1>1, <1>2, <1>3, <1>4, <1>6, <2>2, <2>3, AnswerStep
<1> QED BY <1>5, <1>6 DEF LoginAnswered

\* After the new password of the login page, or the first account, the page asks for
\* a secret.
LEMMA KeptByPasswordAnswered ==
  ASSUME EntryInv, NEW b \in Browser, PasswordAnswered(b)
  PROVE  EntryInv'
<1>1. /\ UNCHANGED <<tables, view, people, ghosts, trouble>> /\ jar' = [jar EXCEPT ![b].pre = TRUE]
      /\ AskSecret(b) /\ req[b].op \in {"setupPassword", "setupComplete"} /\ req[b].at = "done"
      /\ TypeOK /\ BrowserOK(b) /\ Numbered
  BY DEF PasswordAnswered, At, EntryInv
<1>2. jar' \in [Browser -> [pre : BOOLEAN, sess : {"none", "admin", "viewer"}]]
  BY <1>1 DEF TypeOK, PagesOK
<1>3. /\ UNCHANGED <<owner, expired, phone, sheet, links>> /\ phone \subseteq phone' /\ phone' \subseteq User \X Nat
      /\ sheet' \subseteq User \X Nat /\ links' \subseteq User \X Nat /\ Numbered'
  BY <1>1 DEF people, TypeOK, HistoryOK, Numbered
<1>4. DOMAIN view = Browser /\ \A c \in Browser : ViewOK(view[c])
  BY <1>1 DEF TypeOK, PagesOK
<1>5. view[b].page \in {"login", "setup"}
  BY <1>1 DEF BrowserOK, OnPage
<1>6. RequestsOK' /\ (\A c \in Browser : c # b => req'[c] = req[c]) /\ req'[b].got = 0 /\ BrowserOK(b)'
  BY <1>1, <1>3, <1>5, SecretAsked
<1>7. \A u \in User : Owed(u)' \subseteq Owed(u) \cup {0}
  BY <1>3, <1>6, OwedSame
<1> QED BY <1>1, <1>2, <1>3, <1>4, <1>6, <1>7, AnswerStep

\* The phone scans the secret the page shows.
LEMMA KeptBySecretAnswered ==
  ASSUME EntryInv, NEW b \in Browser, SecretAnswered(b)
  PROVE  EntryInv'
<1>1. /\ UNCHANGED <<tables, jar, owner, sheet, links, expired, ghosts, trouble>> /\ Release(b)
      /\ phone' = phone \cup {<<owner[b], req[b].got>>}
      /\ Show(b, [view[b] EXCEPT !.phase = "enroll", !.key = req[b].got])
      /\ req[b].op \in {"setupMfa", "inviteAccept"} /\ req[b].at = "done"
      /\ TypeOK /\ BrowserOK(b) /\ Numbered
  BY DEF SecretAnswered, At, EntryInv
<1>2. req[b].got \in Nat /\ owner[b] \in User /\ req[b].got # 0
  BY <1>1 DEF TypeOK, RequestsOK, Requests, PagesOK, BrowserOK, EnrolmentKnown, Enrols
<1>3. DOMAIN view = Browser /\ \A c \in Browser : ViewOK(view[c])
  BY <1>1 DEF TypeOK, PagesOK
<1>4. PICK v : v = [view[b] EXCEPT !.phase = "enroll", !.key = req[b].got]
  OBVIOUS
<1>5. ViewOK(v) /\ v.phase = "enroll" /\ v.key = req[b].got
  <2>1. view[b] \in Views
    BY <1>3 DEF ViewOK
  <2>2. v \in Views /\ v.page = view[b].page /\ v.phase = "enroll" /\ v.key = req[b].got
    BY <1>2, <1>4, <2>1 DEF Views, Phases
  <2>3. view[b].page \in {"login", "setup", "invite"}
    BY <1>1 DEF BrowserOK, OnPage
  <2> QED BY <2>2, <2>3 DEF ViewOK, HasPhase
<1>6. /\ DOMAIN view' = Browser /\ \A c \in Browser : ViewOK(view'[c])
      /\ view'[b] = v /\ \A c \in Browser : c # b => view'[c] = view[c]
  BY <1>1, <1>3, <1>4, <1>5, ViewSet
<1>7. /\ RequestsOK' /\ \A c \in Browser : c # b => req'[c] = req[c]
      /\ req'[b].op = "none" /\ req'[b].at = "none" /\ req'[b].got = 0
  BY <1>1, Released
<1>8. ScreenKnown(b)'
  BY <1>1, <1>5, <1>6 DEF ScreenKnown
<1>9. BrowserOK(b)'
  BY <1>7, <1>8, IdleKept
<1>10. /\ phone \subseteq phone' /\ phone' \subseteq User \X Nat /\ Numbered'
       /\ sheet' \subseteq User \X Nat /\ links' \subseteq User \X Nat
  BY <1>1, <1>2 DEF Numbered, TypeOK, HistoryOK
<1>11. \A u \in User : Owed(u)' \subseteq Owed(u) \cup {0}
  BY <1>1, <1>7, OwedSame
<1>12. jar' \in [Browser -> [pre : BOOLEAN, sess : {"none", "admin", "viewer"}]]
  BY <1>1 DEF TypeOK, PagesOK
<1> QED BY <1>1, <1>6, <1>7, <1>9, <1>10, <1>11, <1>12, AnswerStep

\* HandleLoginVerify: the session, and the codes if there are any.
LEMMA KeptByVerifyAnswered ==
  ASSUME EntryInv, NEW b \in Browser, VerifyAnswered(b)
  PROVE  EntryInv'
<1>1. /\ UNCHANGED <<tables, owner, phone, links, expired, ghosts, trouble>> /\ Release(b)
      /\ sheet' \subseteq sheet \cup {<<owner[b], req[b].got>>}
      /\ req[b].op = "verify" /\ req[b].at = "done" /\ TypeOK /\ BrowserOK(b) /\ Numbered
  BY DEF VerifyAnswered, At, EntryInv
<1>2. req[b].got \in Nat /\ owner[b] \in User /\ row[owner[b]] \in Row /\ view[b].page \in {"login", "setup"}
  BY <1>1 DEF TypeOK, TablesOK, RequestsOK, Requests, PagesOK, BrowserOK, OnPage
<1>3. DOMAIN view = Browser /\ \A c \in Browser : ViewOK(view[c])
  BY <1>1 DEF TypeOK, PagesOK
<1>4. \E v : Show(b, v) /\ ViewOK(v) /\ v.phase # "enroll"
  <2>1. PICK must \in BOOLEAN : must = (Exists(owner[b]) /\ row[owner[b]].must)
    BY <1>2 DEF Exists, Row
  <2>2. CASE req[b].got # 0
    <3>1. PICK v : v = [view[b] EXCEPT !.phase = "backup", !.key = req[b].got, !.must = must]
      OBVIOUS
    <3>2. Show(b, v)
      BY <2>1, <2>2, <3>1, Zenon DEF VerifyAnswered
    <3>3. view[b] \in Views
      BY <1>3 DEF ViewOK
    <3>4. v \in Views /\ v.page = view[b].page /\ v.phase = "backup"
      BY <1>2, <3>1, <3>3 DEF Views, Phases
    <3>5. ViewOK(v)
      BY <1>2, <3>4 DEF ViewOK, HasPhase
    <3> QED BY <3>2, <3>4, <3>5
  <2>3. CASE req[b].got = 0 /\ view[b].page = "setup"
    <3>1. PICK v : v = [view[b] EXCEPT !.phase = "done"]
      OBVIOUS
    <3>2. Show(b, v)
      BY <2>3, <3>1 DEF VerifyAnswered
    <3>3. view[b] \in Views
      BY <1>3 DEF ViewOK
    <3>4. v \in Views /\ v.page = view[b].page /\ v.phase = "done"
      BY <3>1, <3>3 DEF Views, Phases
    <3>5. ViewOK(v)
      BY <2>3, <3>4 DEF ViewOK, HasPhase
    <3> QED BY <3>2, <3>4, <3>5
  <2>4. CASE req[b].got = 0 /\ view[b].page # "setup" /\ must
    <3>1. PICK v : v = [LoginPage EXCEPT !.phase = "mustchange"]
      OBVIOUS
    <3>2. Show(b, v)
      BY <2>1, <2>4, <3>1 DEF VerifyAnswered
    <3>3. ViewOK(v) /\ v.phase # "enroll"
      BY <3>1 DEF LoginPage, View, ViewOK, Views, Phases, HasPhase
    <3> QED BY <3>2, <3>3
  <2>5. CASE req[b].got = 0 /\ view[b].page # "setup" /\ ~must /\ Exists(owner[b])
    <3>1. PICK v : v = View("app", "home", 0, 0, FALSE)
      OBVIOUS
    <3>2. Show(b, v)
      BY <2>1, <2>5, <3>1 DEF VerifyAnswered
    <3>3. ViewOK(v) /\ v.phase # "enroll"
      BY <3>1 DEF View, ViewOK, Views, Phases, HasPhase
    <3> QED BY <3>2, <3>3
  <2>6. CASE req[b].got = 0 /\ view[b].page # "setup" /\ ~must /\ ~Exists(owner[b])
    <3>1. Show(b, LoginPage)
      BY <2>1, <2>6 DEF VerifyAnswered
    <3>2. ViewOK(LoginPage) /\ LoginPage.phase # "enroll"
      BY EnteredIs
    <3> QED BY <3>1, <3>2
  <2> QED BY <2>2, <2>3, <2>4, <2>5, <2>6
<1>5. PICK v : Show(b, v) /\ ViewOK(v) /\ v.phase # "enroll"
  BY <1>4
<1>6. /\ DOMAIN view' = Browser /\ \A c \in Browser : ViewOK(view'[c])
      /\ view'[b] = v /\ \A c \in Browser : c # b => view'[c] = view[c]
  BY <1>3, <1>5, ViewSet
<1>7. jar' \in [Browser -> [pre : BOOLEAN, sess : {"none", "admin", "viewer"}]]
  <2>1. PICK sess \in {"none", "admin", "viewer"} : sess = IF Exists(owner[b]) THEN row[owner[b]].role ELSE "viewer"
    BY <1>2 DEF Row
  <2>2. PICK j : j = [pre |-> FALSE, sess |-> sess]
    OBVIOUS
  <2>3. j \in [pre : BOOLEAN, sess : {"none", "admin", "viewer"}]
    BY <2>2
  <2>4. jar' = [jar EXCEPT ![b] = j]
    BY <2>1, <2>2, Zenon DEF VerifyAnswered
  <2> QED BY <1>1, <2>3, <2>4 DEF TypeOK, PagesOK
<1>8. /\ RequestsOK' /\ \A c \in Browser : c # b => req'[c] = req[c]
      /\ req'[b].op = "none" /\ req'[b].at = "none" /\ req'[b].got = 0
  BY <1>1, Released
<1>9. BrowserOK(b)'
  BY <1>5, <1>6, <1>8, IdleKept DEF ScreenKnown
<1>10. /\ phone \subseteq phone' /\ phone' \subseteq User \X Nat /\ Numbered'
       /\ sheet' \subseteq User \X Nat /\ links' \subseteq User \X Nat
  BY <1>1, <1>2 DEF Numbered, TypeOK, HistoryOK
<1>11. \A u \in User : Owed(u)' \subseteq Owed(u) \cup {0}
  BY <1>1, <1>8, OwedShown
<1> QED BY <1>1, <1>6, <1>7, <1>8, <1>9, <1>10, <1>11, AnswerStep

\* The password was changed.
LEMMA KeptByChangeAnswered ==
  ASSUME EntryInv, NEW b \in Browser, ChangeAnswered(b)
  PROVE  EntryInv'
<1>1. /\ UNCHANGED <<tables, jar, people, ghosts, trouble>> /\ Release(b)
      /\ req[b].op = "changePassword" /\ req[b].at = "done" /\ TypeOK /\ BrowserOK(b) /\ Numbered
  BY DEF ChangeAnswered, At, EntryInv
<1>2. DOMAIN view = Browser /\ \A c \in Browser : ViewOK(view[c])
  BY <1>1 DEF TypeOK, PagesOK
<1>3. \E v : Show(b, v) /\ ViewOK(v) /\ v.phase # "enroll"
  <2>1. CASE view[b].phase = "home"
    <3>1. Show(b, view[b])
      BY <2>1 DEF ChangeAnswered
    <3> QED BY <1>2, <2>1, <3>1
  <2>2. CASE view[b].phase # "home"
    <3>1. Show(b, Entered(b, LoginPage))
      BY <2>2 DEF ChangeAnswered
    <3>2. ViewOK(Entered(b, LoginPage)) /\ Entered(b, LoginPage).phase # "enroll"
      BY EnteredIs
    <3> QED BY <3>1, <3>2
  <2> QED BY <2>1, <2>2
<1>4. PICK v : Show(b, v) /\ ViewOK(v) /\ v.phase # "enroll"
  BY <1>3
<1>5. /\ DOMAIN view' = Browser /\ \A c \in Browser : ViewOK(view'[c])
      /\ view'[b] = v /\ \A c \in Browser : c # b => view'[c] = view[c]
  BY <1>2, <1>4, ViewSet
<1>6. /\ RequestsOK' /\ \A c \in Browser : c # b => req'[c] = req[c]
      /\ req'[b].op = "none" /\ req'[b].at = "none" /\ req'[b].got = 0
  BY <1>1, Released
<1>7. BrowserOK(b)'
  BY <1>4, <1>5, <1>6, IdleKept DEF ScreenKnown
<1>8. /\ UNCHANGED <<owner, expired, phone, sheet, links>> /\ phone \subseteq phone' /\ phone' \subseteq User \X Nat
      /\ sheet' \subseteq User \X Nat /\ links' \subseteq User \X Nat /\ Numbered'
  BY <1>1 DEF people, TypeOK, HistoryOK, Numbered
<1>9. \A u \in User : Owed(u)' \subseteq Owed(u) \cup {0}
  BY <1>6, <1>8, OwedSame
<1>10. jar' \in [Browser -> [pre : BOOLEAN, sess : {"none", "admin", "viewer"}]]
  BY <1>1 DEF TypeOK, PagesOK
<1> QED BY <1>1, <1>5, <1>6, <1>7, <1>8, <1>9, <1>10, AnswerStep

\* The codes of who accepted an invitation.
LEMMA KeptByInviteVerifyAnswered ==
  ASSUME EntryInv, NEW b \in Browser, InviteVerifyAnswered(b)
  PROVE  EntryInv'
<1>1. /\ UNCHANGED <<tables, jar, owner, phone, links, expired, ghosts, trouble>> /\ Release(b)
      /\ sheet' = sheet \cup {<<owner[b], req[b].got>>}
      /\ Show(b, [view[b] EXCEPT !.phase = "backup", !.key = req[b].got])
      /\ req[b].op = "inviteVerify" /\ req[b].at = "done" /\ TypeOK /\ BrowserOK(b) /\ Numbered
  BY DEF InviteVerifyAnswered, At, EntryInv
<1>2. req[b].got \in Nat /\ owner[b] \in User /\ view[b].page = "invite"
  BY <1>1 DEF TypeOK, RequestsOK, Requests, PagesOK, BrowserOK, OnPage
<1>3. DOMAIN view = Browser /\ \A c \in Browser : ViewOK(view[c])
  BY <1>1 DEF TypeOK, PagesOK
<1>4. PICK v : v = [view[b] EXCEPT !.phase = "backup", !.key = req[b].got]
  OBVIOUS
<1>5. ViewOK(v) /\ v.phase = "backup"
  <2>1. view[b] \in Views
    BY <1>3 DEF ViewOK
  <2>2. v \in Views /\ v.page = view[b].page /\ v.phase = "backup"
    BY <1>2, <1>4, <2>1 DEF Views, Phases
  <2> QED BY <1>2, <2>2 DEF ViewOK, HasPhase
<1>6. /\ DOMAIN view' = Browser /\ \A c \in Browser : ViewOK(view'[c])
      /\ view'[b] = v /\ \A c \in Browser : c # b => view'[c] = view[c]
  BY <1>1, <1>3, <1>4, <1>5, ViewSet
<1>7. /\ RequestsOK' /\ \A c \in Browser : c # b => req'[c] = req[c]
      /\ req'[b].op = "none" /\ req'[b].at = "none" /\ req'[b].got = 0
  BY <1>1, Released
<1>8. BrowserOK(b)'
  BY <1>5, <1>6, <1>7, IdleKept DEF ScreenKnown
<1>9. /\ phone \subseteq phone' /\ phone' \subseteq User \X Nat /\ Numbered'
      /\ sheet' \subseteq User \X Nat /\ links' \subseteq User \X Nat
  BY <1>1, <1>2 DEF Numbered, TypeOK, HistoryOK
<1>10. \A u \in User : Owed(u)' \subseteq Owed(u) \cup {0}
  BY <1>1, <1>7, OwedShown
<1>11. jar' \in [Browser -> [pre : BOOLEAN, sess : {"none", "admin", "viewer"}]]
  BY <1>1 DEF TypeOK, PagesOK
<1> QED BY <1>1, <1>6, <1>7, <1>8, <1>9, <1>10, <1>11, AnswerStep

\* The administrator hands a link over, or only reads that it is done.
LEMMA KeptByAdminAnswered ==
  ASSUME EntryInv, NEW b \in Browser, AdminAnswered(b)
  PROVE  EntryInv'
<1>1. /\ UNCHANGED <<tables, view, jar, owner, phone, sheet, expired, ghosts, trouble>> /\ Release(b)
      /\ links' \subseteq links \cup {<<req[b].on, req[b].got>>}
      /\ req[b].at = "done" /\ TypeOK /\ BrowserOK(b) /\ Numbered
  BY DEF AdminAnswered, At, EntryInv
<1>2. DOMAIN view = Browser /\ \A c \in Browser : ViewOK(view[c])
  BY <1>1 DEF TypeOK, PagesOK
<1>3. /\ RequestsOK' /\ \A c \in Browser : c # b => req'[c] = req[c]
      /\ req'[b].op = "none" /\ req'[b].at = "none" /\ req'[b].got = 0
  BY <1>1, Released
<1>4. BrowserOK(b)'
  BY <1>1, <1>3, IdleKept DEF BrowserOK, ScreenKnown
<1>5. req[b].got \in Nat /\ req[b].on \in User
  BY <1>1 DEF TypeOK, RequestsOK, Requests
<1>6. /\ phone \subseteq phone' /\ phone' \subseteq User \X Nat /\ Numbered'
      /\ sheet' \subseteq User \X Nat /\ links' \subseteq User \X Nat
  BY <1>1, <1>5 DEF Numbered, TypeOK, HistoryOK
<1>7. \A u \in User : Owed(u)' \subseteq Owed(u) \cup {0}
  BY <1>1, <1>3, OwedSame
<1>8. jar' \in [Browser -> [pre : BOOLEAN, sess : {"none", "admin", "viewer"}]]
  BY <1>1 DEF TypeOK, PagesOK
<1> QED BY <1>1, <1>2, <1>3, <1>4, <1>6, <1>7, <1>8, AnswerStep

\* An answer is lost.
LEMMA KeptByAnswerLost ==
  ASSUME EntryInv, NEW b \in Browser, AnswerLost(b)
  PROVE  EntryInv'
<1>1. /\ UNCHANGED <<tables, view, jar, people, spent, respent, clash, cut, rivals, trouble>> /\ Release(b)
      /\ lost' = lost \cup Untold({b}) /\ req[b].at # "insert"
      /\ TypeOK /\ BrowserOK(b) /\ Numbered
  BY DEF AnswerLost, EntryInv
<1>2. /\ RequestsOK' /\ \A c \in Browser : c # b => req'[c] = req[c]
      /\ req'[b].op = "none" /\ req'[b].at = "none" /\ req'[b].got = 0
  BY <1>1, Released
<1>3. TypeOK' /\ Numbered'
  <2>1. lost' \subseteq User \X Nat
    BY <1>1, UntoldIs DEF TypeOK, HistoryOK
  <2> QED BY <1>1, <1>2, <2>1 DEF TypeOK, TablesOK, PagesOK, HistoryOK, Numbered, tables, people
<1>4. BrowserOK(b)'
  BY <1>1, <1>2, IdleKept DEF BrowserOK, ScreenKnown, people
<1>5. Frame(b) /\ CodesCalm(b)
  <2>1. \A u \in User : Owed(u)' \subseteq Owed(u) \cup {0}
    BY <1>1, <1>2, OwedSame DEF people
  <2>2. \A u \in User : made'[u] = made[u] /\ made[u] \in Nat
    BY <1>1 DEF TypeOK, TablesOK, tables
  <2> QED BY <1>1, <1>2, <2>1, <2>2 DEF Frame, CodesCalm, Calm, tables, people
<1> QED BY <1>1, <1>3, <1>4, <1>5, StepKept DEF tables

-----------------------------------------------------------------------------
(* Restarts *)

\* The handlers are gone, and the codes that were not replaced yet with them.
LEMMA HandlersGone ==
  ASSUME EntryInv, req' = [b \in Browser |-> Idle(b)], CutCodes, UNCHANGED <<view, people>>
  PROVE  /\ RequestsOK' /\ (\A b \in Browser : BrowserOK(b)') /\ (\A b \in Browser : req'[b].at # "insert")
         /\ cut \subseteq cut' /\ cut' \subseteq User
         /\ \A u \in User : Owed(u)' \subseteq Owed(u) \cup {0}
         /\ \A b \in Browser : req[b].at = "insert" => req[b].on \in cut'
<1>1. TypeOK /\ UNCHANGED <<owner, sheet, phone>>
  BY DEF EntryInv, people
<1>2. \A b \in Browser : req'[b] \in Requests /\ req'[b].op = "none" /\ req'[b].at = "none" /\ req'[b].got = 0
  BY <1>1, IdleIs DEF TypeOK
<1>3. RequestsOK'
  BY <1>2 DEF RequestsOK
<1>4. ASSUME NEW b \in Browser PROVE BrowserOK(b)'
  <2>1. ScreenKnown(b)'
    BY <1>1 DEF EntryInv, BrowserOK, ScreenKnown
  <2> QED BY <1>2, <2>1, IdleKept
<1>5. \A b \in Browser : req[b].on \in User
  BY <1>1 DEF TypeOK, RequestsOK, Requests
<1>6. cut \subseteq cut' /\ cut' \subseteq User /\ \A b \in Browser : req[b].at = "insert" => req[b].on \in cut'
  BY <1>1, <1>5 DEF CutCodes, TypeOK, HistoryOK
<1>7. \A u \in User : Owed(u)' \subseteq Owed(u) \cup {0}
  BY <1>1, <1>2 DEF Owed
<1> QED BY <1>2, <1>3, <1>4, <1>6, <1>7

\* The process starts again.
LEMMA KeptByRestart ==
  ASSUME EntryInv, Restart
  PROVE  EntryInv'
<1>1. /\ UNCHANGED <<row, codes, made, view, jar, people, spent, respent, clash, rivals>> /\ CutCodes
      /\ req' = [b \in Browser |-> Idle(b)] /\ trouble' = trouble + 1 /\ setupToken' \in {trouble + 2, 0}
      /\ lost' = lost \cup Untold(Browser) /\ TypeOK /\ Numbered
  BY DEF Restart, Befalls, EntryInv
<1>2. /\ RequestsOK' /\ (\A b \in Browser : BrowserOK(b)') /\ (\A b \in Browser : req'[b].at # "insert")
      /\ cut \subseteq cut' /\ cut' \subseteq User
      /\ \A u \in User : Owed(u)' \subseteq Owed(u) \cup {0}
      /\ \A b \in Browser : req[b].at = "insert" => req[b].on \in cut'
  BY <1>1, HandlersGone
<1>3. TypeOK' /\ Numbered'
  <2>1. trouble' \in Nat /\ setupToken' \in Nat /\ lost' \subseteq User \X Nat
    BY <1>1, UntoldIs DEF TypeOK, HistoryOK
  <2> QED BY <1>1, <1>2, <2>1 DEF TypeOK, TablesOK, PagesOK, HistoryOK, Numbered, people
<1>4. ASSUME NEW u \in User PROVE AccountOK(u)'
  <2>1. AccountOK(u)
    BY DEF EntryInv
  <2>2. RowSound(u)' /\ ActiveKnown(u)'
    BY <1>1, <2>1 DEF AccountOK, RowSound, ActiveKnown, Exists, Invited, people
  <2>3. OwedNumbered(u)'
    BY <1>1, <1>2, <2>1, MadeNone, NumbersKept DEF AccountOK
  <2>4. OwedStand(u)'
    <3> SUFFICES ASSUME Exists(u)', row'[u].secret # 0, u \notin clash' \cup cut',
                        NEW n \in Owed(u)', row'[u].secret < n
                 PROVE  Covered(u, n)'
      BY DEF OwedStand
    <3>1. row[u].secret \in Nat /\ row'[u] = row[u]
      BY <1>1 DEF TypeOK, TablesOK, Row
    <3>2. n \in Owed(u)
      BY <1>2, <3>1
    <3>3. Covered(u, n)
      BY <1>1, <1>2, <2>1, <3>1, <3>2 DEF AccountOK, OwedStand, Exists
    <3> QED BY <1>1, <1>2, <3>3 DEF Covered
  <2> QED BY <2>2, <2>3, <2>4 DEF AccountOK
<1> QED BY <1>2, <1>3, <1>4 DEF EntryInv

\* The same with SAFEDOCK_RESET_MFA: who starts over is not active and has no secret.
LEMMA KeptByRestartResettingMfa ==
  ASSUME EntryInv, RestartResettingMfa
  PROVE  EntryInv'
<1>1. PICK f : f = FirstAdmin
  OBVIOUS
<1>2. /\ UNCHANGED <<made, view, jar, people, spent, respent, clash, rivals>> /\ CutCodes
      /\ req' = [b \in Browser |-> Idle(b)] /\ trouble' = trouble + 1 /\ setupToken' = 0
      /\ row' = MfaErased(f) /\ codes' = WithoutCodesOf(f) /\ lost' = lost \cup Untold(Browser)
      /\ TypeOK /\ Numbered
  BY <1>1 DEF RestartResettingMfa, Befalls, EntryInv
<1>3. /\ RequestsOK' /\ (\A b \in Browser : BrowserOK(b)') /\ (\A b \in Browser : req'[b].at # "insert")
      /\ cut \subseteq cut' /\ cut' \subseteq User
      /\ \A u \in User : Owed(u)' \subseteq Owed(u) \cup {0}
      /\ \A b \in Browser : req[b].at = "insert" => req[b].on \in cut'
  BY <1>2, HandlersGone
<1>4. PICK n : n = [row[f] EXCEPT !.secret = 0, !.totp = FALSE]
  OBVIOUS
<1>5. f \in User =>
        /\ n \in Row /\ ~n.totp /\ n.secret = 0 /\ n.id = row[f].id /\ n.exists = row[f].exists
        /\ n.pw = row[f].pw /\ n.invite = row[f].invite
  BY <1>2, <1>4 DEF TypeOK, TablesOK, Row
<1>6. row' = Updated(f, n)
  BY <1>2, <1>4 DEF MfaErased
<1>7. /\ row' \in [User -> Row]
      /\ \A v \in User : row'[v] = IF v = f /\ Exists(f) THEN n ELSE row[v]
  BY <1>2, <1>5, <1>6, UpdatedRow DEF TypeOK, TablesOK
<1>8. TypeOK' /\ Numbered'
  <2>1. trouble' \in Nat /\ setupToken' \in Nat /\ lost' \subseteq User \X Nat
    BY <1>2, UntoldIs DEF TypeOK, HistoryOK
  <2>2. codes' \subseteq User \X Nat
    BY <1>2 DEF TypeOK, TablesOK, WithoutCodesOf
  <2> QED BY <1>2, <1>3, <1>7, <2>1, <2>2 DEF TypeOK, TablesOK, PagesOK, HistoryOK, Numbered, people
<1>9. ASSUME NEW u \in User PROVE AccountOK(u)'
  <2>1. AccountOK(u)
    BY DEF EntryInv
  <2>2. OwedNumbered(u)'
    BY <1>2, <1>3, <2>1, MadeNone, NumbersKept DEF AccountOK
  <2>3. CASE u = f
    <3>1. Exists(u)' => ~row'[u].totp /\ row'[u].secret = 0
      BY <1>5, <1>7, <2>3 DEF Exists
    <3>2. /\ row'[u].id = row[u].id /\ (Exists(u)' => Exists(u)) /\ (Invited(u) => Invited(u)')
          /\ row'[u].pw = row[u].pw /\ (row'[u].secret = 0 \/ row'[u] = row[u])
      BY <1>5, <1>7, <2>3 DEF Exists, Invited
    <3>3. RowSound(u)' /\ ActiveKnown(u)' /\ OwedStand(u)'
      BY <2>1, <3>1, <3>2 DEF AccountOK, RowSound, ActiveKnown, OwedStand
    <3> QED BY <2>2, <3>3 DEF AccountOK
  <2>4. CASE u # f
    <3>1. row'[u] = row[u] /\ row[u].secret \in Nat
      BY <1>2, <1>7, <2>4 DEF TypeOK, TablesOK, Row
    <3>2. RowSound(u)' /\ ActiveKnown(u)'
      BY <1>2, <2>1, <3>1 DEF AccountOK, RowSound, ActiveKnown, Exists, Invited, people
    <3>3. OwedStand(u)'
      <4> SUFFICES ASSUME Exists(u)', row'[u].secret # 0, u \notin clash' \cup cut',
                          NEW m \in Owed(u)', row'[u].secret < m
                   PROVE  Covered(u, m)'
        BY DEF OwedStand
      <4>1. m \in Owed(u)
        BY <1>3, <3>1
      <4>2. Covered(u, m)
        BY <1>2, <1>3, <2>1, <3>1, <4>1 DEF AccountOK, OwedStand, Exists
      <4> QED BY <1>2, <1>3, <2>4, <4>2 DEF Covered, WithoutCodesOf
    <3> QED BY <2>2, <3>2, <3>3 DEF AccountOK
  <2> QED BY <2>3, <2>4
<1> QED BY <1>3, <1>8, <1>9 DEF EntryInv

-----------------------------------------------------------------------------
(* The invariant *)

\* Before anything happened.
LEMMA EntryStart ==
  ASSUME Init
  PROVE  EntryInv
<1>1. /\ row = [u \in User |-> NoRow] /\ codes = {} /\ setupToken = 1 /\ made = [u \in User |-> 0]
      /\ view = [b \in Browser |-> View("none", "closed", 0, 0, FALSE)]
      /\ jar = [b \in Browser |-> [pre |-> FALSE, sess |-> "none"]] /\ req = [b \in Browser |-> Idle(b)]
      /\ phone = {} /\ sheet = {} /\ links = {} /\ spent = {} /\ respent = {} /\ clash = {} /\ cut = {}
      /\ rivals = FALSE /\ expired = {} /\ lost = {} /\ trouble = 0 /\ owner \in [Browser -> User]
  BY DEF Init
<1>2. \A u \in User : row[u] = NoRow /\ made[u] = 0
  BY <1>1
<1>3. NoRow \in Row /\ NoRow.exists = FALSE /\ NoRow.secret = 0
  BY DEF NoRow, Row
<1>4. TablesOK
  BY <1>1, <1>3 DEF TablesOK
<1>5. PagesOK
  <2>1. HasPhase("none", "closed") /\ FALSE \in BOOLEAN
    BY DEF HasPhase
  <2>2. ViewOK(View("none", "closed", 0, 0, FALSE))
    BY DEF View, ViewOK, Views, Phases, HasPhase
  <2>3. [pre |-> FALSE, sess |-> "none"] \in [pre : BOOLEAN, sess : {"none", "admin", "viewer"}]
    OBVIOUS
  <2> QED BY <1>1, <2>2, <2>3 DEF PagesOK
<1>6. \A b \in Browser : req[b] \in Requests /\ req[b].op = "none" /\ req[b].at = "none" /\ req[b].got = 0
  BY <1>1, <1>5, IdleIs
<1>7. TypeOK /\ Numbered
  BY <1>1, <1>4, <1>5, <1>6 DEF TypeOK, RequestsOK, HistoryOK, Numbered
<1>8. ASSUME NEW b \in Browser PROVE BrowserOK(b)
  <2>1. view[b].phase = "closed"
    BY <1>1 DEF View
  <2> QED BY <1>6, <2>1
        DEF BrowserOK, OnPage, Enrols, EnrolmentKnown, ActivationKnown, FinalisationKnown, ErasureKnown, ScreenKnown, At
<1>9. ASSUME NEW u \in User PROVE AccountOK(u)
  <2>1. Owed(u) \subseteq {0}
    BY <1>1, <1>6 DEF Owed
  <2> QED BY <1>2, <1>3, <2>1 DEF AccountOK, RowSound, ActiveKnown, OwedNumbered, OwedStand, Exists
<1> QED BY <1>7, <1>8, <1>9 DEF EntryInv

\* Nothing happens, or nothing but the end of an invitation.
LEMMA EntryStutters ==
  ASSUME EntryInv, Expire \/ UNCHANGED vars
  PROVE  EntryInv'
<1>1. /\ UNCHANGED <<row, codes, setupToken, made, view, jar, req, owner, phone, sheet, links,
                     spent, respent, clash, cut, rivals, lost>>
      /\ trouble' \in Nat /\ expired' \subseteq User \X Nat
  BY DEF Expire, Befalls, vars, tables, pages, people, ghosts, EntryInv, TypeOK, HistoryOK
<1>2. TypeOK' /\ Numbered'
  BY <1>1 DEF EntryInv, TypeOK, TablesOK, RequestsOK, PagesOK, HistoryOK, Numbered
<1>3. ASSUME NEW b \in Browser PROVE BrowserOK(b)'
  BY <1>1 DEF EntryInv, BrowserOK, OnPage, Enrols, EnrolmentKnown, ActivationKnown, FinalisationKnown,
              ErasureKnown, ScreenKnown, At, Exists, Invited
<1>4. ASSUME NEW u \in User PROVE AccountOK(u)'
  BY <1>1 DEF EntryInv, AccountOK, RowSound, ActiveKnown, OwedNumbered, OwedStand, Owed, Covered, Exists, Invited
<1> QED BY <1>2, <1>3, <1>4 DEF EntryInv

\* Every step keeps it.
LEMMA EntryStep ==
  ASSUME EntryInv, [Next]_vars
  PROVE  EntryInv'
<1>1. ASSUME NEW b \in Browser, Person(b) PROVE EntryInv'
  BY <1>1, PersonLooks, PersonIdentifies, PersonEnrols DEF Person
<1>2. ASSUME NEW b \in Browser, Administration(b) PROVE EntryInv'
  BY <1>2, KeptByInvite, KeptByRemoveOrPromote, KeptByResetMfa, KeptByImposePassword DEF Administration
<1>3. ASSUME NEW b \in Browser, Handler(b) PROVE EntryInv'
  BY <1>3, KeptByFinalizeRead, KeptByPasswordWrite, KeptBySecretWrite, KeptByCodeConsume, KeptByEnableMfa,
     KeptByDropCodes, KeptByInsertCodes, KeptByClearInvite, KeptByCreateAdmin, KeptBySpendToken, KeptByRoleWrite,
     KeptByEraseCodes, KeptByReinvite DEF Handler
<1>4. ASSUME NEW b \in Browser, Answer(b) PROVE EntryInv'
  BY <1>4, KeptByLoginAnswered, KeptByPasswordAnswered, KeptBySecretAnswered, KeptByVerifyAnswered,
     KeptByChangeAnswered, KeptByInviteVerifyAnswered, KeptByAdminAnswered, KeptByAnswerLost DEF Answer
<1>5. CASE Restart \/ RestartResettingMfa
  BY <1>5, KeptByRestart, KeptByRestartResettingMfa
<1>6. CASE Expire \/ UNCHANGED vars
  BY <1>6, EntryStutters
<1> QED BY <1>1, <1>2, <1>3, <1>4, <1>5, <1>6 DEF Next

\* The invariant holds of every state.
LEMMA EntryAlways == Spec => []EntryInv
<1>1. Init => EntryInv
  BY EntryStart
<1>2. EntryInv /\ [Next]_vars => EntryInv'
  BY EntryStep
<1> QED BY <1>1, <1>2, PTL DEF Spec

-----------------------------------------------------------------------------
(* The links of the invitations *)

\* The link of an invitation in wait was told to its owner, is about to be, or got
\* lost with the answer that held it.
LinkKnown(u) == Invited(u) => <<u, row[u].invite>> \in links \cup lost \cup Untold(Browser)

LinksInv == \A u \in User : LinkKnown(u)

\* Statements that invite nobody,
InvitesKept == \A v \in User : Invited(v)' => Invited(v) /\ row'[v].invite = row[v].invite

\* and steps that forget no answer.
LinksKept(b) ==
  /\ \A c \in Browser : c # b => req'[c] = req[c]
  /\ Carries(b) /\ req[b].got # 0 => <<req[b].on, req[b].got>> \in links' \cup lost'
  /\ links \subseteq links' /\ lost \subseteq lost'

\* Together they keep every link known.
LEMMA LinksStay ==
  ASSUME LinksInv, InvitesKept, NEW b \in Browser, LinksKept(b)
  PROVE  LinksInv'
<1> SUFFICES ASSUME NEW u \in User, Invited(u)'
             PROVE  <<u, row'[u].invite>> \in links' \cup lost' \cup Untold(Browser)'
  BY DEF LinksInv, LinkKnown
<1>1. PICK n : n = row[u].invite
  OBVIOUS
<1>2. Invited(u) /\ row'[u].invite = n /\ n # 0
  BY <1>1 DEF InvitesKept, Invited
<1>3. <<u, n>> \in links \cup lost \cup Untold(Browser)
  BY <1>1, <1>2 DEF LinksInv, LinkKnown
<1>4. CASE <<u, n>> \in Untold(Browser)
  <2>1. PICK c \in Browser : Carries(c) /\ <<u, n>> = <<req[c].on, req[c].got>>
    BY <1>4 DEF Untold
  <2>2. CASE c = b
    BY <1>2, <2>1, <2>2 DEF LinksKept
  <2>3. CASE c # b
    <3>1. req'[c] = req[c] /\ Carries(c)'
      BY <2>1, <2>3 DEF LinksKept, Carries
    <3>2. <<u, n>> \in Untold(Browser)'
      BY <2>1, <3>1 DEF Untold
    <3> QED BY <1>2, <3>2
  <2> QED BY <2>2, <2>3
<1> QED BY <1>2, <1>3, <1>4 DEF LinksKept

\* A row that is updated, and invites nobody by it.
LEMMA QuietUpdate ==
  ASSUME row \in [User -> Row], NEW o, NEW n, row' = Updated(o, n),
         o \in User => n \in Row /\ (n.invite = row[o].invite \/ n.invite = 0)
  PROVE  InvitesKept
<1>1. \A v \in User : row'[v] = IF v = o /\ Exists(o) THEN n ELSE row[v]
  BY UpdatedRow
<1> QED BY <1>1 DEF InvitesKept, Invited, Exists

\* The statements that do not invite.
LEMMA QuietStatements ==
  ASSUME row \in [User -> Row], NEW o, NEW s \in Nat, NEW m \in BOOLEAN, NEW role \in {"admin", "viewer"},
         \/ row' = PasswordSet(o, m) \/ row' = SecretStored(o, s) \/ row' = MfaEnabled(o)
         \/ row' = MfaErased(o) \/ row' = InviteStored(o, 0) \/ row' = RoleSet(o, role) \/ row' = Deleted(o)
  PROVE  InvitesKept
<1>1. CASE row' = PasswordSet(o, m)
  <2>1. PICK n : n = [row[o] EXCEPT !.pw = TRUE, !.must = m]
    OBVIOUS
  <2>2. o \in User => n \in Row /\ (n.invite = row[o].invite \/ n.invite = 0)
    <3>1. o \in User => row[o] \in Row
      OBVIOUS
    <3>2. CASE o \in User
      BY <2>1, <3>1, <3>2 DEF Row
    <3> QED BY <3>2
  <2>3. row' = Updated(o, n)
    BY <1>1, <2>1 DEF PasswordSet
  <2> QED BY <2>2, <2>3, QuietUpdate
<1>2. CASE row' = SecretStored(o, s)
  <2>1. PICK n : n = [row[o] EXCEPT !.secret = s, !.totp = FALSE]
    OBVIOUS
  <2>2. o \in User => n \in Row /\ (n.invite = row[o].invite \/ n.invite = 0)
    <3>1. o \in User => row[o] \in Row
      OBVIOUS
    <3>2. CASE o \in User
      BY <2>1, <3>1, <3>2 DEF Row
    <3> QED BY <3>2
  <2>3. row' = Updated(o, n)
    BY <1>2, <2>1 DEF SecretStored
  <2> QED BY <2>2, <2>3, QuietUpdate
<1>3. CASE row' = MfaEnabled(o)
  <2>1. PICK n : n = [row[o] EXCEPT !.totp = TRUE]
    OBVIOUS
  <2>2. o \in User => n \in Row /\ (n.invite = row[o].invite \/ n.invite = 0)
    <3>1. o \in User => row[o] \in Row
      OBVIOUS
    <3>2. CASE o \in User
      BY <2>1, <3>1, <3>2, EnabledRow
    <3> QED BY <3>2
  <2>3. row' = Updated(o, n)
    BY <1>3, <2>1 DEF MfaEnabled
  <2> QED BY <2>2, <2>3, QuietUpdate
<1>4. CASE row' = MfaErased(o)
  <2>1. PICK n : n = [row[o] EXCEPT !.secret = 0, !.totp = FALSE]
    OBVIOUS
  <2>2. o \in User => n \in Row /\ (n.invite = row[o].invite \/ n.invite = 0)
    <3>1. o \in User => row[o] \in Row
      OBVIOUS
    <3>2. CASE o \in User
      BY <2>1, <3>1, <3>2 DEF Row
    <3> QED BY <3>2
  <2>3. row' = Updated(o, n)
    BY <1>4, <2>1 DEF MfaErased
  <2> QED BY <2>2, <2>3, QuietUpdate
<1>5. CASE row' = InviteStored(o, 0)
  <2>1. PICK n : n = [row[o] EXCEPT !.invite = 0]
    OBVIOUS
  <2>2. o \in User => n \in Row /\ (n.invite = row[o].invite \/ n.invite = 0)
    <3>1. o \in User => row[o] \in Row
      OBVIOUS
    <3>2. CASE o \in User
      BY <2>1, <3>1, <3>2, InviteRow
    <3> QED BY <3>2
  <2>3. row' = Updated(o, n)
    BY <1>5, <2>1 DEF InviteStored
  <2> QED BY <2>2, <2>3, QuietUpdate
<1>6. CASE row' = RoleSet(o, role)
  <2>1. PICK n : n = [row[o] EXCEPT !.role = role]
    OBVIOUS
  <2>2. o \in User => n \in Row /\ (n.invite = row[o].invite \/ n.invite = 0)
    <3>1. o \in User => row[o] \in Row
      OBVIOUS
    <3>2. CASE o \in User
      BY <2>1, <3>1, <3>2, RoleRow
    <3> QED BY <3>2
  <2>3. row' = Updated(o, n)
    BY <1>6, <2>1 DEF RoleSet
  <2> QED BY <2>2, <2>3, QuietUpdate
<1>7. CASE row' = Deleted(o)
  <2>1. PICK n : n = [row[o] EXCEPT !.exists = FALSE]
    OBVIOUS
  <2>2. row' = [row EXCEPT ![o] = n]
    BY <1>7, <2>1 DEF Deleted
  <2>3. o \in User => ~n.exists
    BY <2>1, GoneRow
  <2>4. \A v \in User : row'[v] = IF v = o THEN n ELSE row[v]
    BY <2>2
  <2> QED BY <2>3, <2>4 DEF InvitesKept, Invited, Exists
<1> QED BY <1>1, <1>2, <1>3, <1>4, <1>5, <1>6, <1>7

\* An account that is invited while the answer takes its link away.
LEMMA LinkGiven ==
  ASSUME LinksInv, NEW b \in Browser, NEW u \in User, NEW n, ~Carries(b),
         Invited(u)' => row'[u].invite = n, \A v \in User : v # u => row'[v] = row[v],
         UNCHANGED <<links, lost>>, \A c \in Browser : c # b => req'[c] = req[c],
         req'[b].op \in {"invite", "resetMfa"}, req'[b].at = "done", req'[b].on = u, req'[b].got = n
  PROVE  LinksInv'
<1>1. <<u, n>> \in Untold(Browser)'
  BY DEF Untold, Carries
<1>2. Untold(Browser) \subseteq Untold(Browser)'
  <2> SUFFICES ASSUME NEW c \in Browser, Carries(c)
               PROVE  <<req[c].on, req[c].got>> \in Untold(Browser)'
    BY DEF Untold
  <2>1. c # b /\ req'[c] = req[c]
    OBVIOUS
  <2>2. Carries(c)'
    BY <2>1 DEF Carries
  <2> QED BY <2>1, <2>2 DEF Untold
<1>3. ASSUME NEW v \in User, v # u PROVE LinkKnown(v)'
  <2>1. row'[v] = row[v] /\ links' = links /\ lost' = lost
    BY <1>3
  <2> QED BY <1>2, <2>1 DEF LinksInv, LinkKnown, Invited, Exists
<1>4. LinkKnown(u)'
  BY <1>1 DEF LinkKnown
<1> QED BY <1>3, <1>4 DEF LinksInv

\* The requests of people and of administrators: only a new account is invited.
LEMMA LinksAsked ==
  ASSUME TypeOK, LinksInv, NEW b \in Browser, Person(b) \/ Administration(b)
  PROVE  LinksInv'
<1>1. row \in [User -> Row] /\ TRUE \in BOOLEAN /\ 0 \in Nat /\ "admin" \in {"admin", "viewer"}
  BY DEF TypeOK, TablesOK
<1>2. CASE Person(b)
  <2>1. /\ UNCHANGED <<row, links, lost>> /\ ~Busy(b) /\ \A c \in Browser : c # b => req'[c] = req[c]
    BY <1>2
       DEF Person, Load, OpenLink, SubmitPassword, SubmitSetupPassword, SubmitCode, SubmitNewPassword,
           SubmitToken, SubmitIdentity, AcceptInvite, VerifyInvite, Continue, Logout, Send, Expel,
           tables, people, ghosts, TypeOK, RequestsOK
  <2> QED BY <2>1, LinksStay DEF InvitesKept, LinksKept, Invited, Exists, Busy, Carries
<1>3. CASE RemoveOrPromote(b) \/ ResetMfa(b) \/ ImposePassword(b)
  <2>1. /\ UNCHANGED <<links, lost>> /\ ~Busy(b) /\ \A c \in Browser : c # b => req'[c] = req[c]
    BY <1>3 DEF RemoveOrPromote, ResetMfa, ImposePassword, Send, people, ghosts, TypeOK, RequestsOK
  <2>2. InvitesKept
    <3>1. CASE RemoveOrPromote(b)
      BY <3>1 DEF RemoveOrPromote, tables, InvitesKept, Invited, Exists
    <3>2. CASE ResetMfa(b)
      <4>1. \E u \in User : row' = MfaErased(u)
        BY <3>2 DEF ResetMfa
      <4> QED BY <1>1, <4>1, QuietStatements
    <3>3. CASE ImposePassword(b)
      <4>1. \E u \in User : row' = PasswordSet(u, TRUE)
        BY <3>3 DEF ImposePassword
      <4> QED BY <1>1, <4>1, QuietStatements
    <3> QED BY <1>3, <3>1, <3>2, <3>3
  <2> QED BY <2>1, <2>2, LinksStay DEF LinksKept, Busy, Carries
<1>4. CASE Invite(b)
  <2>1. PICK u \in User, role \in {"admin", "viewer"} :
          /\ row' = Inserted(u, role, FALSE, Fresh(u)) /\ UNCHANGED <<links, lost>> /\ ~Busy(b)
          /\ req' = [req EXCEPT ![b] = [Request("invite", "done", u, role, 0) EXCEPT !.got = Fresh(u)]]
    BY <1>4 DEF Invite, people, ghosts
  <2>2. PICK n \in Nat : n = Fresh(u)
    BY DEF TypeOK, TablesOK, Fresh
  <2>3. row'[u].invite = n /\ \A v \in User : v # u => row'[v] = row[v]
    BY <1>1, <2>1, <2>2, InsertedRow
  <2>4. /\ req'[b].op = "invite" /\ req'[b].at = "done" /\ req'[b].on = u /\ req'[b].got = n
        /\ \A c \in Browser : c # b => req'[c] = req[c]
    BY <2>1, <2>2 DEF TypeOK, RequestsOK, Request
  <2> QED BY <2>1, <2>3, <2>4, LinkGiven DEF Busy, Carries
<1> QED BY <1>2, <1>3, <1>4 DEF Administration

\* The handlers: only the reset of a MFA invites again.
LEMMA LinksHandled ==
  ASSUME EntryInv, LinksInv, NEW b \in Browser, Handler(b)
  PROVE  LinksInv'
<1>1. /\ row \in [User -> Row] /\ TRUE \in BOOLEAN /\ FALSE \in BOOLEAN /\ 0 \in Nat
      /\ "admin" \in {"admin", "viewer"} /\ req \in [Browser -> Requests]
  BY DEF EntryInv, TypeOK, TablesOK, RequestsOK
<1>2. UNCHANGED <<links, lost>> /\ ~Carries(b) /\ \A c \in Browser : c # b => req'[c] = req[c]
  BY <1>1
     DEF Handler, FinalizeRead, PasswordWrite, SecretWrite, CodeConsume, EnableMfa, DropCodes, InsertCodes,
         ClearInvite, CreateAdmin, SpendToken, RoleWrite, EraseCodes, Reinvite, At, Goto, Write, Refuse, Expel,
         Accept, Carries, people, ghosts
<1>3. CASE InvitesKept
  BY <1>2, <1>3, LinksStay DEF LinksKept
<1>4. PICK o \in User, t \in User : o = owner[b] /\ t = req[b].on
  BY <1>1 DEF EntryInv, TypeOK, PagesOK, Requests
<1>5. CASE FinalizeRead(b) \/ CodeConsume(b) \/ DropCodes(b) \/ InsertCodes(b) \/ SpendToken(b) \/ EraseCodes(b)
  <2>1. UNCHANGED row
    BY <1>5 DEF FinalizeRead, CodeConsume, DropCodes, InsertCodes, SpendToken, EraseCodes, tables
  <2> QED BY <1>3, <2>1 DEF InvitesKept, Invited, Exists
<1>6. CASE PasswordWrite(b) \/ EnableMfa(b) \/ ClearInvite(b) \/ SecretWrite(b)
  <2>1. Fresh(o) \in Nat
    BY DEF EntryInv, TypeOK, TablesOK, Fresh
  <2>2. \/ row' = PasswordSet(o, FALSE) \/ row' = MfaEnabled(o) \/ row' = InviteStored(o, 0)
        \/ row' = SecretStored(o, Fresh(o))
    BY <1>4, <1>6 DEF PasswordWrite, EnableMfa, ClearInvite, SecretWrite
  <2> QED BY <1>1, <1>3, <2>1, <2>2, QuietStatements
<1>7. CASE CreateAdmin(b)
  <2>1. CASE UNCHANGED row
    BY <1>3, <2>1 DEF InvitesKept, Invited, Exists
  <2>2. CASE row' = Inserted(o, "admin", TRUE, 0)
    <3>1. row'[o].invite = 0 /\ \A v \in User : v # o => row'[v] = row[v]
      BY <1>1, <2>2, InsertedRow
    <3> QED BY <1>3, <3>1 DEF InvitesKept, Invited, Exists
  <2> QED BY <1>4, <1>7, <2>1, <2>2 DEF CreateAdmin
<1>8. CASE RoleWrite(b)
  <2>1. row' = Deleted(t) \/ (row' = RoleSet(t, req[b].arg) /\ req[b].op = "setRole")
    BY <1>4, <1>8 DEF RoleWrite, At
  <2>2. At(b, {"setRole"}, "write") => req[b].arg \in {"admin", "viewer"}
    BY DEF EntryInv, BrowserOK, ErasureKnown
  <2>3. req[b].at = "write"
    BY <1>8 DEF RoleWrite, At
  <2> QED BY <1>1, <1>3, <2>1, <2>2, <2>3, QuietStatements DEF At
<1>9. CASE Reinvite(b)
  <2>1. PICK n \in Nat : n = Fresh(t)
    BY DEF EntryInv, TypeOK, TablesOK, Fresh
  <2>2. /\ row' = Updated(t, [row[t] EXCEPT !.invite = n]) /\ req[b].op = "resetMfa"
        /\ req' = [req EXCEPT ![b].at = "done", ![b].got = n]
    BY <1>4, <1>9, <2>1 DEF Reinvite, InviteStored, At
  <2>3. PICK r : r = [row[t] EXCEPT !.invite = n]
    OBVIOUS
  <2>4. r \in Row /\ r.invite = n
    BY <1>1, <2>3, InviteRow
  <2>5. \A v \in User : row'[v] = IF v = t /\ Exists(t) THEN r ELSE row[v]
    BY <1>1, <2>2, <2>3, <2>4, UpdatedRow
  <2>6. /\ req'[b].op = "resetMfa" /\ req'[b].at = "done" /\ req'[b].on = t /\ req'[b].got = n
    BY <1>1, <1>4, <2>2 DEF Requests
  <2>7. Invited(t)' => row'[t].invite = n
    BY <2>4, <2>5 DEF Invited, Exists
  <2>8. \A v \in User : v # t => row'[v] = row[v]
    BY <2>5
  <2> QED BY <1>2, <2>6, <2>7, <2>8, LinkGiven
<1> QED BY <1>5, <1>6, <1>7, <1>8, <1>9 DEF Handler

\* The answers tell a link or lose it, and a restart loses those in flight.
LEMMA LinksAnswered ==
  ASSUME TypeOK, LinksInv, NEW b \in Browser, Answer(b)
  PROVE  LinksInv'
<1>1. InvitesKept
  BY DEF Answer, LoginAnswered, PasswordAnswered, SecretAnswered, VerifyAnswered, ChangeAnswered,
         InviteVerifyAnswered, AdminAnswered, AnswerLost, tables, InvitesKept, Invited, Exists
<1>2. \A c \in Browser : c # b => req'[c] = req[c]
  BY DEF Answer, LoginAnswered, PasswordAnswered, SecretAnswered, VerifyAnswered, ChangeAnswered,
         InviteVerifyAnswered, AdminAnswered, AnswerLost, Release, AskSecret, TypeOK, RequestsOK
<1>3. CASE LoginAnswered(b) \/ PasswordAnswered(b) \/ SecretAnswered(b) \/ VerifyAnswered(b)
           \/ ChangeAnswered(b) \/ InviteVerifyAnswered(b)
  <2>1. UNCHANGED <<links, lost>> /\ ~Carries(b)
    BY <1>3 DEF LoginAnswered, PasswordAnswered, SecretAnswered, VerifyAnswered, ChangeAnswered,
                InviteVerifyAnswered, At, Carries, people, ghosts
  <2> QED BY <1>1, <1>2, <2>1, LinksStay DEF LinksKept
<1>4. CASE AdminAnswered(b)
  <2>1. /\ links' = IF req[b].got # 0 THEN links \cup {<<req[b].on, req[b].got>>} ELSE links
        /\ UNCHANGED lost
    BY <1>4 DEF AdminAnswered, ghosts
  <2> QED BY <1>1, <1>2, <2>1, LinksStay DEF LinksKept
<1>5. CASE AnswerLost(b)
  <2>1. lost' = lost \cup Untold({b}) /\ UNCHANGED links
    BY <1>5 DEF AnswerLost, people
  <2>2. Carries(b) => <<req[b].on, req[b].got>> \in Untold({b})
    BY DEF Untold
  <2> QED BY <1>1, <1>2, <2>1, <2>2, LinksStay DEF LinksKept
<1> QED BY <1>3, <1>4, <1>5 DEF Answer

\* Every step keeps the links known.
LEMMA LinksStep ==
  ASSUME EntryInv, LinksInv, [Next]_vars
  PROVE  LinksInv'
<1>1. TypeOK /\ row \in [User -> Row] /\ TRUE \in BOOLEAN /\ 0 \in Nat /\ "admin" \in {"admin", "viewer"}
  BY DEF EntryInv, TypeOK, TablesOK
<1>2. CASE Restart \/ RestartResettingMfa
  <2>1. InvitesKept
    <3>1. CASE Restart
      BY <3>1 DEF Restart, InvitesKept, Invited, Exists
    <3>2. CASE RestartResettingMfa
      <4>1. row' = MfaErased(FirstAdmin)
        BY <3>2 DEF RestartResettingMfa
      <4> QED BY <1>1, <4>1, QuietStatements
    <3> QED BY <1>2, <3>1, <3>2
  <2>2. UNCHANGED links /\ lost' = lost \cup Untold(Browser)
    BY <1>2 DEF Restart, RestartResettingMfa, people
  <2>3. \A u \in User : Invited(u)' => <<u, row'[u].invite>> \in links' \cup lost'
    BY <2>1, <2>2 DEF InvitesKept, LinksInv, LinkKnown
  <2> QED BY <2>3 DEF LinksInv, LinkKnown
<1>3. CASE Expire \/ UNCHANGED vars
  BY <1>3 DEF Expire, vars, tables, pages, people, ghosts, LinksInv, LinkKnown, Invited, Exists, Untold, Carries
<1> QED BY <1>1, <1>2, <1>3, LinksAsked, LinksHandled, LinksAnswered DEF Next

\* They are known in every state.
LEMMA LinksAlways == Spec => []LinksInv
<1>1. Init => LinksInv
  BY DEF Init, LinksInv, LinkKnown, Invited, Exists, NoRow
<1>2. EntryInv /\ LinksInv /\ [Next]_vars => LinksInv'
  BY LinksStep
<1> QED BY <1>1, <1>2, EntryAlways, PTL DEF Spec

-----------------------------------------------------------------------------
(* The theorems *)

\* No secret in a phone is nothing.
LEMMA PhoneNumbered ==
  ASSUME Numbered, NEW u, NEW n, <<u, n>> \in phone
  PROVE  n # 0
<1>1. PICK p \in phone : p = <<u, n>>
  OBVIOUS
<1>2. p[2] # 0 /\ p[2] = n
  BY <1>1 DEF Numbered
<1> QED BY <1>2

\* The tables of the accounts, the pages, the requests and the phones only hold what
\* SignIn says they hold: every page on a phase of its own, every handler at a stage.
THEOREM SignInTypes == Spec => []TypeOK
<1>1. EntryInv => TypeOK
  BY DEF EntryInv
<1> QED BY <1>1, EntryAlways, PTL

\* Nobody is locked out: whoever has an account can sign in with their phone, or be
\* finalised by the login page, or holds the link of an invitation that still opens
\* it, or is about to be told it, whatever handlers of whatever browsers interleave,
\* are lost or die with the server; but for an invitation that expired or was lost,
\* and for two requests that wrote the account at once.
THEOREM NobodyIsLockedOut == Spec => []OwnerCanGetIn
<1>1. EntryInv /\ LinksInv => OwnerCanGetIn
  <2> SUFFICES ASSUME EntryInv, LinksInv, NEW u \in User, Exists(u), u \notin clash
               PROVE  WayIn(u) \/ (Invited(u) /\ <<u, row[u].invite>> \in lost \cup expired)
    BY DEF OwnerCanGetIn
  <2>1. (Invited(u) \/ row[u].pw) /\ (row[u].secret # 0 => row[u].pw)
    BY DEF EntryInv, AccountOK, RowSound
  <2>2. CASE row[u].totp
    <3>1. <<u, row[u].secret>> \in phone
      BY <2>2 DEF EntryInv, AccountOK, ActiveKnown
    <3>2. row[u].secret # 0
      BY <3>1, PhoneNumbered DEF EntryInv
    <3> QED BY <2>1, <2>2, <3>1, <3>2 DEF WayIn
  <2>3. CASE ~row[u].totp /\ ~Invited(u)
    BY <2>1, <2>3 DEF WayIn, MayFinalize, AwaitsMfa
  <2>4. CASE Invited(u)
    <3>1. <<u, row[u].invite>> \in links \cup lost \cup Untold(Browser)
      BY <2>4 DEF LinksInv, LinkKnown
    <3> QED BY <2>4, <3>1 DEF WayIn, LinkHeld
  <2> QED BY <2>2, <2>3, <2>4
<1> QED BY <1>1, EntryAlways, LinksAlways, PTL

\* The backup codes that were shown open the account, or later ones do, or those the
\* request in flight is about to store.
THEOREM CodesShownStand == Spec => []ShownCodesWork
<1>1. EntryInv => ShownCodesWork
  <2> SUFFICES ASSUME EntryInv, NEW c \in sheet, NEW u, u = c[1],
                      Exists(u), row[u].totp, row[u].secret < c[2], u \notin clash \cup cut
               PROVE  \/ \E d \in codes \cup spent : d[1] = u /\ d[2] >= c[2]
                      \/ \E b \in Browser : req[b].at = "insert" /\ req[b].on = u
    BY DEF ShownCodesWork
  <2>1. u \in User
    BY DEF EntryInv, TypeOK, HistoryOK
  <2>2. <<u, row[u].secret>> \in phone
    BY <2>1 DEF EntryInv, AccountOK, ActiveKnown
  <2>3. row[u].secret # 0
    <3>1. PICK p \in phone : p = <<u, row[u].secret>>
      BY <2>2
    <3>2. p[2] # 0 /\ p[2] = row[u].secret
      BY <3>1 DEF EntryInv, Numbered
    <3> QED BY <3>2
  <2>4. c[2] \in Owed(u)
    BY DEF Owed
  <2> QED BY <2>1, <2>3, <2>4 DEF EntryInv, AccountOK, OwedStand, Covered
<1> QED BY <1>1, EntryAlways, PTL

\* A secret that a step writes is the one of its owner's request.
LEMMA WhoWritesSecrets ==
  ASSUME EntryInv, [Next]_vars, NEW u \in User, Exists(u), Exists(u)', row[u].secret # row'[u].secret, row'[u].secret # 0
  PROVE  \E b \in Browser : SecretWrite(b) /\ owner[b] = u
<1>0. row \in [User -> Row] /\ \A v \in User : row[v] \in Row
  BY DEF EntryInv, TypeOK, TablesOK
<1> DEFINE Kept == row'[u].secret = row[u].secret \/ row'[u].secret = 0
<1>1. ASSUME NEW b \in Browser, Person(b) PROVE Kept
  BY <1>1 DEF Person, Load, OpenLink, SubmitPassword, SubmitSetupPassword, SubmitCode, SubmitNewPassword,
              SubmitToken, SubmitIdentity, AcceptInvite, VerifyInvite, Continue, Logout, tables
<1>2. ASSUME NEW b \in Browser, Administration(b) PROVE Kept
  <2>1. CASE Invite(b)
    <3>1. PICK v \in User, role \in {"admin", "viewer"} : row[v].id = 0 /\ row' = Inserted(v, role, FALSE, Fresh(v))
      BY <2>1 DEF Invite
    <3>2. v # u
      BY <3>1 DEF EntryInv, AccountOK, RowSound
    <3> QED BY <1>0, <3>1, <3>2 DEF Inserted
  <2>2. CASE RemoveOrPromote(b)
    BY <2>2 DEF RemoveOrPromote, tables
  <2>3. CASE ResetMfa(b)
    <3>1. PICK v \in User : row' = MfaErased(v)
      BY <2>3 DEF ResetMfa
    <3>2. PICK n : n = [row[v] EXCEPT !.secret = 0, !.totp = FALSE]
      OBVIOUS
    <3>3. n \in Row /\ n.secret = 0
      BY <1>0, <3>2 DEF Row
    <3>4. row' = Updated(v, n)
      BY <3>1, <3>2 DEF MfaErased
    <3> QED BY <1>0, <3>3, <3>4, UpdatedRow
  <2>4. CASE ImposePassword(b)
    <3>1. PICK v \in User : row' = PasswordSet(v, TRUE)
      BY <2>4 DEF ImposePassword
    <3>2. PICK n : n = [row[v] EXCEPT !.pw = TRUE, !.must = TRUE]
      OBVIOUS
    <3>3. n \in Row /\ n.secret = row[v].secret
      BY <1>0, <3>2 DEF Row
    <3>4. row' = Updated(v, n)
      BY <3>1, <3>2 DEF PasswordSet
    <3> QED BY <1>0, <3>3, <3>4, UpdatedRow
  <2> QED BY <1>2, <2>1, <2>2, <2>3, <2>4 DEF Administration
<1>3. ASSUME NEW b \in Browser, Handler(b), ~(SecretWrite(b) /\ owner[b] = u) PROVE Kept
  <2>1. PICK o \in User : o = owner[b]
    BY DEF EntryInv, TypeOK, PagesOK
  <2>2. CASE FinalizeRead(b) \/ CodeConsume(b) \/ DropCodes(b) \/ InsertCodes(b) \/ SpendToken(b) \/ EraseCodes(b)
    BY <2>2 DEF FinalizeRead, CodeConsume, DropCodes, InsertCodes, SpendToken, EraseCodes, tables
  <2>3. CASE PasswordWrite(b)
    <3>1. PICK n : n = [row[o] EXCEPT !.pw = TRUE, !.must = FALSE]
      OBVIOUS
    <3>2. n \in Row /\ n.secret = row[o].secret
      BY <1>0, <3>1 DEF Row
    <3>3. row' = Updated(o, n)
      BY <2>1, <2>3, <3>1 DEF PasswordWrite, PasswordSet
    <3> QED BY <1>0, <3>2, <3>3, UpdatedRow
  <2>4. CASE SecretWrite(b)
    <3>1. row' = Updated(o, [row[o] EXCEPT !.secret = Fresh(o), !.totp = FALSE]) /\ o # u
      BY <1>3, <2>1, <2>4 DEF SecretWrite, SecretStored
    <3>2. row'[u] = row[u]
      BY <1>0, <3>1 DEF Updated
    <3> QED BY <3>2
  <2>5. CASE EnableMfa(b)
    <3>1. PICK n : n = [row[o] EXCEPT !.totp = TRUE]
      OBVIOUS
    <3>2. n \in Row /\ n.secret = row[o].secret
      BY <1>0, <3>1 DEF Row
    <3>3. row' = Updated(o, n)
      BY <2>1, <2>5, <3>1 DEF EnableMfa, MfaEnabled
    <3> QED BY <1>0, <3>2, <3>3, UpdatedRow
  <2>6. CASE ClearInvite(b)
    <3>1. PICK n : n = [row[o] EXCEPT !.invite = 0]
      OBVIOUS
    <3>2. n \in Row /\ n.secret = row[o].secret
      BY <1>0, <3>1 DEF Row
    <3>3. row' = Updated(o, n)
      BY <2>1, <2>6, <3>1 DEF ClearInvite, InviteStored
    <3> QED BY <1>0, <3>2, <3>3, UpdatedRow
  <2>7. CASE CreateAdmin(b)
    <3>1. CASE row[o].id # 0
      BY <2>1, <2>7, <3>1 DEF CreateAdmin
    <3>2. CASE row[o].id = 0
      <4>1. o # u
        BY <3>2 DEF EntryInv, AccountOK, RowSound
      <4>2. row' = Inserted(o, "admin", TRUE, 0)
        BY <2>1, <2>7, <3>2 DEF CreateAdmin
      <4> QED BY <1>0, <4>1, <4>2 DEF Inserted
    <3> QED BY <3>1, <3>2
  <2>8. CASE RoleWrite(b)
    <3>1. PICK v \in User : v = req[b].on
      BY DEF EntryInv, TypeOK, RequestsOK, Requests
    <3>2. CASE req[b].op = "delete"
      <4>1. PICK n : n = [row[v] EXCEPT !.exists = FALSE]
        OBVIOUS
      <4>2. n \in Row /\ n.secret = row[v].secret
        BY <1>0, <4>1 DEF Row
      <4>3. row' = [row EXCEPT ![v] = n]
        BY <2>8, <3>1, <3>2, <4>1 DEF RoleWrite, Deleted
      <4> QED BY <1>0, <4>2, <4>3
    <3>3. CASE req[b].op # "delete"
      <4>1. req[b].arg \in {"admin", "viewer"}
        BY <2>8, <3>3 DEF RoleWrite, At, EntryInv, BrowserOK, ErasureKnown
      <4>2. PICK role \in {"admin", "viewer"} : role = req[b].arg
        BY <4>1
      <4>3. PICK n : n = [row[v] EXCEPT !.role = role]
        OBVIOUS
      <4>4. n \in Row /\ n.secret = row[v].secret
        BY <1>0, <4>3 DEF Row
      <4>5. row' = Updated(v, n)
        BY <2>8, <3>1, <3>3, <4>2, <4>3 DEF RoleWrite, RoleSet
      <4> QED BY <1>0, <4>4, <4>5, UpdatedRow
    <3> QED BY <3>2, <3>3
  <2>9. CASE Reinvite(b)
    <3>1. PICK v \in User : v = req[b].on
      BY DEF EntryInv, TypeOK, RequestsOK, Requests
    <3>2. PICK i \in Nat : i = Fresh(v)
      BY DEF EntryInv, TypeOK, TablesOK, Fresh
    <3>3. PICK n : n = [row[v] EXCEPT !.invite = i]
      OBVIOUS
    <3>4. n \in Row /\ n.secret = row[v].secret
      BY <1>0, <3>2, <3>3 DEF Row
    <3>5. row' = Updated(v, n)
      BY <2>9, <3>1, <3>2, <3>3 DEF Reinvite, InviteStored
    <3> QED BY <1>0, <3>4, <3>5, UpdatedRow
  <2> QED BY <1>3, <2>2, <2>3, <2>4, <2>5, <2>6, <2>7, <2>8, <2>9 DEF Handler
<1>4. ASSUME NEW b \in Browser, Answer(b) PROVE Kept
  BY <1>4 DEF Answer, LoginAnswered, PasswordAnswered, SecretAnswered, VerifyAnswered, ChangeAnswered,
              InviteVerifyAnswered, AdminAnswered, AnswerLost, tables
<1>5. CASE Expire \/ Restart \/ UNCHANGED vars
  BY <1>5 DEF Expire, Restart, vars, tables
<1>6. CASE RestartResettingMfa
  <2>1. PICK f : f = FirstAdmin
    OBVIOUS
  <2>2. PICK n : n = [row[f] EXCEPT !.secret = 0, !.totp = FALSE]
    OBVIOUS
  <2>3. f \in User => n \in Row /\ n.secret = 0
    BY <1>0, <2>2 DEF Row
  <2>4. row' = Updated(f, n)
    BY <1>6, <2>1, <2>2 DEF RestartResettingMfa, MfaErased
  <2>5. \A v \in User : row'[v] = IF v = f /\ Exists(f) THEN n ELSE row[v]
    BY <1>0, <2>3, <2>4, UpdatedRow
  <2> QED BY <2>3, <2>5
<1> QED BY <1>1, <1>2, <1>3, <1>4, <1>5, <1>6 DEF Next

\* While an invitation waits, the secret of its account comes from the page of the
\* link: the sign-in page does not finalise it, unless two requests wrote the account
\* at once.
THEOREM OnlyTheLinkFinalises == Spec => LinkOnlyFinalisation
<1>1. EntryInv /\ [Next]_vars => [\A u \in User : SecretOfInvited(u)]_vars
  <2> SUFFICES ASSUME EntryInv, [Next]_vars, NEW u \in User,
                      Invited(u), u \notin clash, Exists(u)', row[u].secret # row'[u].secret, row'[u].secret # 0
               PROVE  \E b \in Browser : owner[b] = u /\ At(b, {"inviteAccept"}, "secret")
    BY DEF SecretOfInvited
  <2>1. PICK b \in Browser : SecretWrite(b) /\ owner[b] = u
    BY WhoWritesSecrets DEF Invited
  <2>2. req[b].at = "secret" /\ req[b].op \in {"setupMfa", "inviteAccept"}
    BY <2>1 DEF SecretWrite, At
  <2>3. req[b].op # "setupMfa"
    BY <2>1, <2>2 DEF EntryInv, BrowserOK, FinalisationKnown, At
  <2> QED BY <2>1, <2>2, <2>3 DEF At
<1> QED BY <1>1, EntryAlways, PTL DEF Spec, LinkOnlyFinalisation
=============================================================================
