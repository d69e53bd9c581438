------------------------------- MODULE SignIn -------------------------------
(***************************************************************************)
(* Signing in to SafeDock: the three wizards of the web interface (login,  *)
(* first-run setup, invitation), the administration of the accounts, and   *)
(* the handlers of the server behind them (internal/auth, internal/api).   *)
(*                                                                         *)
(* A browser belongs to one person and shows one page.  Its submit button  *)
(* is disabled while a request is in flight, so a browser has at most one; *)
(* the handlers of different browsers interleave around every statement    *)
(* that writes to the database (what a handler reads between two writes is *)
(* one step), and a crash of the server may end them all anywhere.  People *)
(* type their own passwords and the codes of the secrets their phone       *)
(* holds: LoginLimiter is about wrong guesses.                             *)
(***************************************************************************)
EXTENDS Accounts

CONSTANTS
  Browser,     \* the browsers
  Operator,    \* who reads the log of the server and runs the first setup
  MaxMade,     \* MaxMade[u]: bound on the random values generated for u
  Troubles,    \* what may happen besides people signing in, of the kinds below
  MaxTrouble   \* bound on all of that together

\* The requests of administrators, the end of an invitation, the restarts.
TroubleKinds == {"invite", "remove", "reset", "impose", "expire", "restart", "recover"}

ASSUME SignInAssumption ==
  /\ Operator \in User
  /\ MaxMade \in [User -> Nat]
  /\ Troubles \subseteq TroubleKinds
  /\ MaxTrouble \in Nat

VARIABLES
  owner,    \* owner[b]: the person who uses b, named by their address; never changes
  view,     \* view[b]: the page b shows
  jar,      \* jar[b]: the cookies of b
  req,      \* req[b]: the request of b in flight, and where its handler is
  phone,    \* the secrets in the authenticators, each <<owner, number>>
  sheet,    \* the backup codes shown to their owner, each <<owner, number>>
  links,    \* the invitation links handed to their owner, each <<owner, number>>
  expired,  \* the invitations whose 72 hours are over, each <<owner, number>>
  spent,    \* the backup codes a login accepted
  respent,  \* those another login accepted
  clash,    \* accounts written by one request while another was about them
  cut,      \* accounts whose backup codes a crash left dropped and not replaced
  rivals,   \* removals of two administrators overlapped
  lost,     \* the invitations nobody was told the link of
  trouble   \* how much of Troubles happened so far

pages == <<view, jar, req>>
people == <<owner, phone, sheet, links, expired>>
ghosts == <<spent, respent, clash, cut, rivals, lost>>
vars == <<tables, pages, people, ghosts, trouble>>

-----------------------------------------------------------------------------
(* What a page offers *)

\* The request the form of each phase submits.
LoginForm(phase) ==
  CASE phase = "password"           -> "login"
    [] phase = "setup_mustchange"   -> "setupPassword"
    [] phase \in {"enroll", "code"} -> "verify"
    [] phase = "mustchange"         -> "changePassword"
    [] OTHER                        -> "none"

SetupForm(phase) ==
  CASE phase = "token"    -> "setupStart"
    [] phase = "identity" -> "setupComplete"
    [] phase = "enroll"   -> "verify"
    [] OTHER              -> "none"

InviteForm(phase) ==
  CASE phase = "password" -> "inviteAccept"
    [] phase = "enroll"   -> "inviteVerify"
    [] OTHER              -> "none"

\* The account page, and the page that replaces the application when the change is
\* imposed.
AppForm(phase) == IF phase \in {"forced", "home"} THEN "changePassword" ELSE "none"

Form(v) ==
  CASE v.page = "login"  -> LoginForm(v.phase)
    [] v.page = "setup"  -> SetupForm(v.phase)
    [] v.page = "invite" -> InviteForm(v.phase)
    [] v.page = "app"    -> AppForm(v.phase)
    [] OTHER             -> "none"

\* What the accounts page lets an administrator do: the form, and the role select
\* and the buttons of each row.
AdminOps == {"invite", "delete", "setRole", "resetMfa", "resetPassword"}

\* tok: the token in the address or the form; key: the secret or the codes shown;
\* must: the password change announced by the last answer.
View(page, phase, tok, key, must) ==
  [page |-> page, phase |-> phase, tok |-> tok, key |-> key, must |-> must]

Request(op, at, u, arg, key) ==
  [op |-> op, at |-> at, on |-> u, arg |-> arg, key |-> key, got |-> 0]

Idle(b) == Request("none", "none", owner[b], "none", 0)

Busy(b) == req[b].op # "none"

SessionOpen(b) == jar[b].sess # "none" /\ Exists(owner[b])

\* What checkSession leads to: the application, or its forced change of password.
Entered(b, stay) ==
  IF SessionOpen(b)
    THEN View("app", IF row[owner[b]].must THEN "forced" ELSE "home", 0, 0, FALSE)
    ELSE stay

LoginPage == View("login", "password", 0, 0, FALSE)

Show(b, v) == view' = [view EXCEPT ![b] = v]

\* The operator has a browser; who has the others is any choice.
Init ==
  /\ owner \in {f \in [Browser -> User] : \E b \in Browser : f[b] = Operator}
  /\ row = [u \in User |-> NoRow]
  /\ codes = {}
  /\ setupToken = 1
  /\ made = [u \in User |-> 0]
  /\ view = [b \in Browser |-> View("none", "closed", 0, 0, FALSE)]
  /\ jar = [b \in Browser |-> [pre |-> FALSE, sess |-> "none"]]
  /\ req = [b \in Browser |-> Idle(b)]
  /\ phone = {} /\ sheet = {} /\ links = {} /\ expired = {}
  /\ spent = {} /\ respent = {} /\ clash = {} /\ cut = {} /\ rivals = FALSE /\ lost = {}
  /\ trouble = 0

-----------------------------------------------------------------------------
(* The person at a browser *)

\* Loading the site, or reloading it: /api/setup/status, then /api/session.
Load(b) ==
  /\ ~Busy(b)
  /\ Show(b, IF Admins = {} THEN View("setup", "token", 0, 0, FALSE) ELSE Entered(b, LoginPage))
  /\ UNCHANGED <<tables, jar, req, people, ghosts, trouble>>

\* GetUserByInviteHash: the link is the one in wait, not older than 72 hours.
LinkOpens(u, n) == Invited(u) /\ row[u].invite = n /\ <<u, n>> \notin expired

\* Opening an invitation link: its token is checked when the page loads.
OpenLink(b) ==
  /\ ~Busy(b)
  /\ \E l \in links :
       /\ l[1] = owner[b]
       /\ Show(b, IF LinkOpens(l[1], l[2])
                    THEN View("invite", "password", l[2], 0, FALSE)
                    ELSE View("invite", "invalid", 0, 0, FALSE))
  /\ UNCHANGED <<tables, jar, req, people, ghosts, trouble>>

\* The requests that enrol an account, or make it start over.  A write of one of
\* them clashes with another one in flight about the same account.
Enrolling == {"setupMfa", "verify", "inviteAccept", "inviteVerify", "resetMfa"}

Clashes(b, u) ==
  clash' = IF \E c \in Browser \ {b} : req[c].op \in Enrolling /\ req[c].on = u
             THEN clash \cup {u} ELSE clash

\* A request goes out and its handler executes its first statement.  One that the
\* first statement refuses changes nothing: it is left out.
Send(b, op, at, u, arg, key) ==
  /\ ~Busy(b)
  /\ req' = [req EXCEPT ![b] = Request(op, at, u, arg, key)]

\* The codes a person may type: those of the secret on the screen, or, on the
\* page that asks for a code, those of the secrets in their phone and any backup
\* code of the account that was shown to them.
Typed(b) ==
  IF view[b].phase = "enroll" THEN {<<"totp", view[b].key>>}
  ELSE {<<"totp", p[2]>> : p \in {p \in phone : p[1] = owner[b]}}
       \cup {<<"backup", c[2]>> : c \in {c \in sheet : c[1] = owner[b]}}

\* An error: the page stays and shows it.  Some take the cookie of the first step
\* away.
Refuse(b) == req' = [req EXCEPT ![b] = Idle(b)] /\ UNCHANGED jar

Expel(b) ==
  /\ req' = [req EXCEPT ![b] = Idle(b)]
  /\ jar' = [jar EXCEPT ![b].pre = FALSE]

\* HandleLogin: an active MFA asks for a code; without it a pending invitation is
\* the only way in.
SubmitPassword(b) ==
  LET r == row[owner[b]]
      sent(at) == Send(b, "login", at, owner[b], IF r.must THEN "must" ELSE "none", 0)
  IN /\ Form(view[b]) = "login"
     /\ r.exists /\ r.pw
     /\ \/ r.totp /\ sent("code") /\ UNCHANGED jar
        \/ ~r.totp /\ ~Invited(owner[b]) /\ sent("setup") /\ UNCHANGED jar
        \/ ~r.totp /\ Invited(owner[b]) /\ ~Busy(b) /\ Expel(b)
     /\ UNCHANGED <<tables, view, people, ghosts, trouble>>

\* Mutant: the invitation in wait is not looked at.
MayFinalizeInvited(u) == AwaitsMfa(u)

\* canFinalizeViaLogin.
MayFinalize(u) == AwaitsMfa(u) /\ ~Invited(u)

SubmitSetupPassword(b) ==
  /\ Form(view[b]) = "setupPassword" /\ jar[b].pre
  /\ \/ MayFinalize(owner[b]) /\ Send(b, "setupPassword", "pw", owner[b], "none", 0) /\ UNCHANGED jar
     \/ ~MayFinalize(owner[b]) /\ ~Busy(b) /\ Expel(b)
  /\ UNCHANGED <<tables, view, people, ghosts, trouble>>

\* The code of the login page and of the setup page.  HandleLoginVerify reads the
\* secret and whether it is active; a code that is not the secret's is looked for
\* among the unused backup codes of an active account.
SubmitCode(b) ==
  LET r == row[owner[b]]
  IN /\ Form(view[b]) = "verify" /\ jar[b].pre
     /\ r.exists /\ r.secret # 0
     /\ \E c \in Typed(b) :
          \/ c = <<"totp", r.secret>>
               /\ Send(b, "verify", IF r.totp THEN "done" ELSE "enable", owner[b], "totp", c[2])
          \/ r.totp /\ c[1] = "backup" /\ <<owner[b], c[2]>> \in codes
               /\ Send(b, "verify", "consume", owner[b], "backup", c[2])
     /\ UNCHANGED <<tables, view, jar, people, ghosts, trouble>>

\* A change of one's own password that was imposed, in the login page or in the
\* application; the current one is what its owner types.  One that nobody imposed
\* changes nothing that matters here.
SubmitNewPassword(b) ==
  /\ Form(view[b]) = "changePassword" /\ jar[b].sess # "none"
  /\ Exists(owner[b]) /\ row[owner[b]].must
  /\ Send(b, "changePassword", "pw", owner[b], "none", 0)
  /\ UNCHANGED <<tables, view, jar, people, ghosts, trouble>>

\* The operator pastes the token of the log; the handler only reads.
SubmitToken(b) ==
  /\ ~Busy(b) /\ Form(view[b]) = "setupStart" /\ owner[b] = Operator
  /\ setupToken # 0 /\ Admins = {}
  /\ Show(b, View("setup", "identity", setupToken, 0, FALSE))
  /\ UNCHANGED <<tables, jar, req, people, ghosts, trouble>>

\* HandleSetupComplete: nobody administers yet, the token is right and the address
\* free; then the account is created and the token spent.
SubmitIdentity(b) ==
  /\ Form(view[b]) = "setupComplete"
  /\ Admins = {} /\ setupToken # 0 /\ setupToken = view[b].tok /\ row[owner[b]].id = 0
  /\ Send(b, "setupComplete", "create", owner[b], "none", 0)
  /\ UNCHANGED <<tables, view, jar, people, ghosts, trouble>>

\* The token of an invitation names its account.
AcceptInvite(b) ==
  /\ Form(view[b]) = "inviteAccept"
  /\ LinkOpens(owner[b], view[b].tok)
  /\ Send(b, "inviteAccept", "pw", owner[b], "none", 0)
  /\ UNCHANGED <<tables, view, jar, people, ghosts, trouble>>

VerifyInvite(b) ==
  /\ Form(view[b]) = "inviteVerify"
  /\ LinkOpens(owner[b], view[b].tok)
  /\ row[owner[b]].secret = view[b].key
  /\ Send(b, "inviteVerify", "enable", owner[b], "totp", view[b].key)
  /\ UNCHANGED <<tables, view, jar, people, ghosts, trouble>>

\* Mutant: every wizard ends on a page that only two of them have.
ContinueToDone(b) ==
  /\ ~Busy(b)
  /\ view[b].phase \in {"backup", "done"}
  /\ Show(b, [view[b] EXCEPT !.phase = "done"])
  /\ UNCHANGED <<tables, jar, req, people, ghosts, trouble>>

\* The codes are saved: the button below them leads on.
Continue(b) ==
  /\ ~Busy(b)
  /\ view[b].phase \in {"backup", "done"}
  /\ Show(b, CASE view[b].page = "invite" /\ view[b].phase = "backup"
                    -> [view[b] EXCEPT !.phase = "done"]
               [] view[b].page = "login" /\ view[b].must
                    -> [view[b] EXCEPT !.phase = "mustchange"]
               [] OTHER -> Entered(b, LoginPage))
  /\ UNCHANGED <<tables, jar, req, people, ghosts, trouble>>

Logout(b) ==
  /\ ~Busy(b) /\ view[b].page = "app"
  /\ jar' = [jar EXCEPT ![b] = [pre |-> FALSE, sess |-> "none"]]
  /\ Show(b, LoginPage)
  /\ UNCHANGED <<tables, req, people, ghosts, trouble>>

\* What happens besides people signing in is counted.
Befalls(kind) == kind \in Troubles /\ trouble < MaxTrouble /\ trouble' = trouble + 1

\* Who may administer: the middleware refuses everyone who must change their
\* password, and the handlers the sessions of another role.
Administers(b, kind) ==
  /\ Befalls(kind)
  /\ view[b].page = "app" /\ view[b].phase = "home" /\ jar[b].sess = "admin"
  /\ ~(Exists(owner[b]) /\ row[owner[b]].must)

\* HandleUsers POST: the account and its invitation in one statement.
Invite(b) ==
  \E u \in User, role \in {"admin", "viewer"} :
    /\ Administers(b, "invite") /\ row[u].id = 0
    /\ made[u] < MaxMade[u]
    /\ made' = [made EXCEPT ![u] = Fresh(u)]
    /\ row' = Inserted(u, role, FALSE, Fresh(u))
    /\ ~Busy(b) /\ req' = [req EXCEPT ![b] = [Request("invite", "done", u, role, 0) EXCEPT !.got = Fresh(u)]]
    /\ UNCHANGED <<codes, setupToken, view, jar, people, ghosts>>

\* CountAdmins() <= 1.
LastOne == \A u, v \in Admins : u = v

\* HandleUsersDelete and HandleUserRole read the account, and count the
\* administrators when one of them goes.  The page hides the deletion of oneself.
RemoveOrPromote(b) ==
  \E u \in User, op \in {"delete", "setRole"}, role \in {"admin", "viewer"} :
    /\ Administers(b, "remove") /\ Exists(u)
    /\ op = "delete" => u # owner[b] /\ role = "viewer"
    /\ row[u].role = "admin" /\ role # "admin" => ~LastOne
    /\ Send(b, op, "write", u, role, 0)
    /\ UNCHANGED <<tables, view, jar, people, ghosts>>

\* HandleUserResetMFA: ResetUserMFA is two statements, then a new invitation.
ResetMfa(b) ==
  \E u \in User :
    /\ Administers(b, "reset") /\ Exists(u)
    /\ row' = MfaErased(u)
    /\ Send(b, "resetMfa", "codes", u, "none", 0)
    /\ Clashes(b, u)
    /\ UNCHANGED <<codes, setupToken, made, view, jar, people, spent, respent, cut, rivals, lost>>

\* HandleUserPassword; the administrator tells the new password to its owner.
ImposePassword(b) ==
  \E u \in User :
    /\ Administers(b, "impose") /\ Exists(u)
    /\ row' = PasswordSet(u, TRUE)
    /\ Send(b, "resetPassword", "done", u, "none", 0)
    /\ UNCHANGED <<codes, setupToken, made, view, jar, people, ghosts>>

-----------------------------------------------------------------------------
(* The statements that follow *)

At(b, op, at) == req[b].op \in op /\ req[b].at = at

Goto(b, at) == req' = [req EXCEPT ![b].at = at]

\* A write of an enrolment or of a reset.
Write(b, u, at) == Goto(b, at) /\ Clashes(b, u)

\* HandleSetupMFA, which the page calls without waiting for its owner; an imposed
\* change of password comes first.
FinalizeRead(b) ==
  /\ At(b, {"setupMfa"}, "read")
  /\ \/ ~MayFinalize(owner[b]) /\ Expel(b)
     \/ MayFinalize(owner[b]) /\ row[owner[b]].must /\ Refuse(b)
     \/ MayFinalize(owner[b]) /\ ~row[owner[b]].must /\ Goto(b, "secret") /\ UNCHANGED jar
  /\ UNCHANGED <<tables, view, people, ghosts, trouble>>

\* SetUserPassword by the owner of the account.
PasswordWrite(b) ==
  /\ At(b, {"setupPassword", "changePassword", "inviteAccept"}, "pw")
  /\ row' = PasswordSet(owner[b], FALSE)
  /\ Goto(b, IF req[b].op = "inviteAccept" THEN "secret" ELSE "done")
  /\ UNCHANGED <<codes, setupToken, made, view, jar, people, ghosts, trouble>>

\* SetUserTOTPSecret: a new secret, to be shown to the owner.
SecretWrite(b) ==
  LET u == owner[b]
  IN /\ At(b, {"setupMfa", "inviteAccept"}, "secret")
     /\ made[u] < MaxMade[u]
     /\ made' = [made EXCEPT ![u] = Fresh(u)]
     /\ row' = SecretStored(u, Fresh(u))
     /\ req' = [req EXCEPT ![b].at = "done", ![b].got = Fresh(u)]
     /\ Clashes(b, u)
     /\ UNCHANGED <<codes, setupToken, view, jar, people, spent, respent, cut, rivals, lost, trouble>>

\* ConsumeUserBackupCodeMatch found the code among the unused ones; it marks it, if
\* it still is unused.  A code may be accepted for the first time or again.
Accept(b, c) ==
  /\ Goto(b, "done") /\ UNCHANGED jar
  /\ spent' = spent \cup {c}
  /\ respent' = respent \cup ({c} \cap spent)

\* Mutant: the code is marked whether or not it still is unused.
CodeConsumeUnchecked(b) ==
  LET c == <<owner[b], req[b].key>>
  IN /\ At(b, {"verify"}, "consume")
     /\ codes' = codes \ {c}
     /\ Accept(b, c)
     /\ UNCHANGED <<row, setupToken, made, view, people, clash, cut, rivals, lost, trouble>>

CodeConsume(b) ==
  LET c == <<owner[b], req[b].key>>
  IN /\ At(b, {"verify"}, "consume")
     /\ codes' = codes \ {c}
     /\ IF c \in codes THEN Accept(b, c) ELSE Refuse(b) /\ UNCHANGED <<spent, respent>>
     /\ UNCHANGED <<row, setupToken, made, view, people, clash, cut, rivals, lost, trouble>>

EnableMfa(b) ==
  /\ At(b, {"verify", "inviteVerify"}, "enable")
  /\ row' = MfaEnabled(owner[b])
  /\ Write(b, owner[b], "drop")
  /\ UNCHANGED <<codes, setupToken, made, view, jar, people, spent, respent, cut, rivals, lost, trouble>>

\* ReplaceUserBackupCodes: the old codes go, then the new ones come.
DropCodes(b) ==
  /\ At(b, {"verify", "inviteVerify"}, "drop")
  /\ codes' = WithoutCodesOf(owner[b])
  /\ Write(b, owner[b], "insert")
  /\ UNCHANGED <<row, setupToken, made, view, jar, people, spent, respent, cut, rivals, lost, trouble>>

\* Mutant: the codes are shown although they could not be stored.
InsertCodesUnsaved(b) ==
  LET u == owner[b]
  IN /\ At(b, {"verify", "inviteVerify"}, "insert")
     /\ made[u] < MaxMade[u]
     /\ made' = [made EXCEPT ![u] = Fresh(u)]
     /\ req' = [req EXCEPT ![b].at = IF req[b].op = "inviteVerify" THEN "clear" ELSE "done",
                           ![b].got = Fresh(u)]
     /\ UNCHANGED <<codes, row, setupToken, view, jar, people, ghosts, trouble>>

\* One code stands for the ten of a set.
InsertCodes(b) ==
  LET u == owner[b]
  IN /\ At(b, {"verify", "inviteVerify"}, "insert")
     /\ made[u] < MaxMade[u]
     /\ made' = [made EXCEPT ![u] = Fresh(u)]
     /\ codes' = codes \cup {<<u, Fresh(u)>>}
     /\ req' = [req EXCEPT ![b].at = IF req[b].op = "inviteVerify" THEN "clear" ELSE "done",
                           ![b].got = Fresh(u)]
     /\ Clashes(b, u)
     /\ UNCHANGED <<row, setupToken, view, jar, people, spent, respent, cut, rivals, lost, trouble>>

ClearInvite(b) ==
  /\ At(b, {"inviteVerify"}, "clear")
  /\ row' = InviteStored(owner[b], 0)
  /\ Write(b, owner[b], "done")
  /\ UNCHANGED <<codes, setupToken, made, view, jar, people, spent, respent, cut, rivals, lost, trouble>>

CreateAdmin(b) ==
  /\ At(b, {"setupComplete"}, "create")
  /\ IF row[owner[b]].id # 0 THEN Refuse(b) /\ UNCHANGED row
     ELSE row' = Inserted(owner[b], "admin", TRUE, 0) /\ Goto(b, "spend") /\ UNCHANGED jar
  /\ UNCHANGED <<codes, setupToken, made, view, people, ghosts, trouble>>

SpendToken(b) ==
  /\ At(b, {"setupComplete"}, "spend")
  /\ setupToken' = 0
  /\ Goto(b, "done")
  /\ UNCHANGED <<row, codes, made, view, jar, people, ghosts, trouble>>

\* Whether the request of c is about to take an administrator away.
Removing(c) == At(c, {"delete", "setRole"}, "write") /\ (req[c].op = "delete" \/ req[c].arg # "admin")

RoleWrite(b) ==
  LET u == req[b].on
  IN /\ At(b, {"delete", "setRole"}, "write")
     /\ row' = IF req[b].op = "delete" THEN Deleted(u) ELSE RoleSet(u, req[b].arg)
     /\ rivals' = (rivals \/ (Removing(b) /\ \E c \in Browser : Removing(c) /\ req[c].on # u))
     /\ Goto(b, IF req[b].op = "delete" THEN "codes" ELSE "done")
     /\ UNCHANGED <<codes, setupToken, made, view, jar, people, spent, respent, clash, cut, lost, trouble>>

EraseCodes(b) ==
  LET u == req[b].on
  IN /\ At(b, {"delete", "resetMfa"}, "codes")
     /\ codes' = WithoutCodesOf(u)
     /\ Write(b, u, IF req[b].op = "delete" THEN "done" ELSE "invite")
     /\ UNCHANGED <<row, setupToken, made, view, jar, people, spent, respent, cut, rivals, lost, trouble>>

\* Mutant: the new link is stored and not in the answer.
ReinviteUntold(b) ==
  LET u == req[b].on
  IN /\ At(b, {"resetMfa"}, "invite")
     /\ made[u] < MaxMade[u]
     /\ made' = [made EXCEPT ![u] = Fresh(u)]
     /\ row' = InviteStored(u, Fresh(u))
     /\ Write(b, u, "done")
     /\ UNCHANGED <<codes, setupToken, view, jar, people, spent, respent, cut, rivals, lost, trouble>>

Reinvite(b) ==
  LET u == req[b].on
  IN /\ At(b, {"resetMfa"}, "invite")
     /\ made[u] < MaxMade[u]
     /\ made' = [made EXCEPT ![u] = Fresh(u)]
     /\ row' = InviteStored(u, Fresh(u))
     /\ req' = [req EXCEPT ![b].at = "done", ![b].got = Fresh(u)]
     /\ Clashes(b, u)
     /\ UNCHANGED <<codes, setupToken, view, jar, people, spent, respent, cut, rivals, lost, trouble>>

-----------------------------------------------------------------------------
(* The answers *)

\* The page asks for a new secret without waiting for its owner (startMfaSetup).
AskSecret(b) == req' = [req EXCEPT ![b] = Request("setupMfa", "read", owner[b], "none", 0)]

Release(b) == req' = [req EXCEPT ![b] = Idle(b)]

LoginAnswered(b) ==
  /\ At(b, {"login"}, "code") \/ At(b, {"login"}, "setup")
  /\ jar' = [jar EXCEPT ![b].pre = TRUE]
  /\ IF req[b].at = "code" THEN Release(b) /\ Show(b, [LoginPage EXCEPT !.phase = "code"])
     ELSE IF req[b].arg = "must"
       THEN Release(b) /\ Show(b, [LoginPage EXCEPT !.phase = "setup_mustchange"])
       ELSE AskSecret(b) /\ UNCHANGED view
  /\ UNCHANGED <<tables, people, ghosts, trouble>>

\* After the two requests that come before the enrolment.
PasswordAnswered(b) ==
  /\ At(b, {"setupPassword", "setupComplete"}, "done")
  /\ jar' = [jar EXCEPT ![b].pre = TRUE]
  /\ AskSecret(b)
  /\ UNCHANGED <<tables, view, people, ghosts, trouble>>

\* The phone scans the secret shown.
SecretAnswered(b) ==
  /\ At(b, {"setupMfa", "inviteAccept"}, "done")
  /\ Show(b, [view[b] EXCEPT !.phase = "enroll", !.key = req[b].got])
  /\ phone' = phone \cup {<<owner[b], req[b].got>>}
  /\ Release(b)
  /\ UNCHANGED <<tables, jar, owner, sheet, links, expired, ghosts, trouble>>

\* The session opens, with the role and the imposed change the row has now.  The
\* backup codes are shown if there are any.
VerifyAnswered(b) ==
  LET u == owner[b]
      must == Exists(u) /\ row[u].must
  IN /\ At(b, {"verify"}, "done")
     /\ jar' = [jar EXCEPT ![b] = [pre |-> FALSE, sess |-> IF Exists(u) THEN row[u].role ELSE "viewer"]]
     /\ Show(b, IF req[b].got # 0
                  THEN [view[b] EXCEPT !.phase = "backup", !.key = req[b].got, !.must = must]
                  ELSE IF view[b].page = "setup" THEN [view[b] EXCEPT !.phase = "done"]
                  ELSE IF must THEN [LoginPage EXCEPT !.phase = "mustchange"]
                  ELSE IF Exists(u) THEN View("app", "home", 0, 0, FALSE) ELSE LoginPage)
     /\ sheet' = IF req[b].got # 0 THEN sheet \cup {<<u, req[b].got>>} ELSE sheet
     /\ Release(b)
     /\ UNCHANGED <<tables, owner, phone, links, expired, ghosts, trouble>>

ChangeAnswered(b) ==
  /\ At(b, {"changePassword"}, "done")
  /\ Show(b, IF view[b].phase = "home" THEN view[b] ELSE Entered(b, LoginPage))
  /\ Release(b)
  /\ UNCHANGED <<tables, jar, people, ghosts, trouble>>

InviteVerifyAnswered(b) ==
  /\ At(b, {"inviteVerify"}, "done")
  /\ Show(b, [view[b] EXCEPT !.phase = "backup", !.key = req[b].got])
  /\ sheet' = sheet \cup {<<owner[b], req[b].got>>}
  /\ Release(b)
  /\ UNCHANGED <<tables, jar, owner, phone, links, expired, ghosts, trouble>>

\* The administrator hands a link over.
AdminAnswered(b) ==
  /\ At(b, AdminOps, "done")
  /\ links' = IF req[b].got # 0 THEN links \cup {<<req[b].on, req[b].got>>} ELSE links
  /\ Release(b)
  /\ UNCHANGED <<tables, view, jar, owner, phone, sheet, expired, ghosts, trouble>>

-----------------------------------------------------------------------------
(* What goes wrong *)

\* An answer that carries the link of an invitation, and the links that nobody is
\* told of when the answers to these browsers are lost.
Carries(b) == req[b].op \in {"invite", "resetMfa"} /\ req[b].at = "done"

Untold(bs) == {<<req[b].on, req[b].got>> : b \in {b \in bs : Carries(b)}}

\* The answer of a finished handler is lost: the page shows an error.
AnswerLost(b) ==
  /\ req[b].at \in {"done", "code", "setup"}
  /\ Release(b)
  /\ lost' = lost \cup Untold({b})
  /\ UNCHANGED <<tables, view, jar, people, spent, respent, clash, cut, rivals, trouble>>

\* The 72 hours of an invitation in wait are over.
Expire ==
  /\ Befalls("expire")
  /\ \E l \in links \ expired :
       /\ Invited(l[1]) /\ row[l[1]].invite = l[2]
       /\ expired' = expired \cup {l}
  /\ UNCHANGED <<tables, pages, owner, phone, sheet, links, ghosts>>

\* A crash between the two statements of ReplaceUserBackupCodes.
CutCodes == cut' = cut \cup {req[b].on : b \in {b \in Browser : req[b].at = "insert"}}

\* Mutant: the token of the first setup is not looked at when there is an
\* administrator.
RestartKeepsToken ==
  /\ Befalls("restart")
  /\ req' = [b \in Browser |-> Idle(b)]
  /\ CutCodes /\ lost' = lost \cup Untold(Browser)
  /\ setupToken' = IF Admins = {} THEN trouble + 2 ELSE setupToken
  /\ UNCHANGED <<row, codes, made, view, jar, people, spent, respent, clash, rivals>>

\* The process dies with its handlers and starts again: EnsureFirstRunSetup makes
\* a token as long as nobody administers, and clears it otherwise.
Restart ==
  /\ Befalls("restart")
  /\ req' = [b \in Browser |-> Idle(b)]
  /\ CutCodes /\ lost' = lost \cup Untold(Browser)
  /\ setupToken' = IF Admins = {} THEN trouble + 2 ELSE 0
  /\ UNCHANGED <<row, codes, made, view, jar, people, spent, respent, clash, rivals>>

\* The same with SAFEDOCK_RESET_MFA: the oldest administrator starts over.
RestartResettingMfa ==
  /\ Befalls("recover") /\ Admins # {}
  /\ req' = [b \in Browser |-> Idle(b)]
  /\ CutCodes /\ lost' = lost \cup Untold(Browser)
  /\ setupToken' = 0
  /\ row' = MfaErased(FirstAdmin)
  /\ codes' = WithoutCodesOf(FirstAdmin)
  /\ UNCHANGED <<made, view, jar, people, spent, respent, clash, rivals>>

-----------------------------------------------------------------------------
(* The specification *)

Person(b) ==
  \/ Load(b) \/ OpenLink(b) \/ SubmitPassword(b) \/ SubmitSetupPassword(b) \/ SubmitCode(b)
  \/ SubmitNewPassword(b) \/ SubmitToken(b) \/ SubmitIdentity(b) \/ AcceptInvite(b)
  \/ VerifyInvite(b) \/ Continue(b) \/ Logout(b)

Administration(b) ==
  \/ Invite(b) \/ RemoveOrPromote(b) \/ ResetMfa(b) \/ ImposePassword(b)

Handler(b) ==
  \/ FinalizeRead(b) \/ PasswordWrite(b) \/ SecretWrite(b) \/ CodeConsume(b) \/ EnableMfa(b)
  \/ DropCodes(b) \/ InsertCodes(b) \/ ClearInvite(b) \/ CreateAdmin(b) \/ SpendToken(b)
  \/ RoleWrite(b) \/ EraseCodes(b) \/ Reinvite(b)

Answer(b) ==
  \/ LoginAnswered(b) \/ PasswordAnswered(b) \/ SecretAnswered(b) \/ VerifyAnswered(b)
  \/ ChangeAnswered(b) \/ InviteVerifyAnswered(b) \/ AdminAnswered(b) \/ AnswerLost(b)

Next ==
  \/ \E b \in Browser : Person(b) \/ Administration(b) \/ Handler(b) \/ Answer(b)
  \/ Expire \/ Restart \/ RestartResettingMfa

Spec == Init /\ [][Next]_vars

-----------------------------------------------------------------------------
(* Properties *)

Stages ==
  {"none", "read", "code", "setup", "invite", "pw", "secret", "codes", "consume", "enable", "drop",
   "insert", "clear", "create", "spend", "write", "done"}

Ops ==
  {"none", "login", "setupPassword", "setupMfa", "verify", "changePassword", "setupComplete",
   "inviteAccept", "inviteVerify"} \cup AdminOps

TablesOK ==
  /\ row \in [User -> Row] /\ codes \subseteq User \X Nat
  /\ setupToken \in Nat /\ made \in [User -> Nat]

\* The phases of each page.  "enroll" is "setup_enroll" on the login page.
HasPhase(page, phase) ==
  \/ page = "login" /\ phase \in {"password", "setup_mustchange", "enroll", "code", "backup", "mustchange"}
  \/ page = "setup" /\ phase \in {"token", "identity", "enroll", "backup", "done"}
  \/ page = "invite" /\ phase \in {"invalid", "password", "enroll", "backup", "done"}
  \/ page = "app" /\ phase \in {"forced", "home"}
  \/ page = "none" /\ phase = "closed"

Phases ==
  {"closed", "password", "setup_mustchange", "enroll", "code", "backup", "mustchange", "token", "identity",
   "done", "invalid", "forced", "home"}

Views ==
  [page : {"none", "login", "setup", "invite", "app"}, phase : Phases, tok : Nat, key : Nat, must : BOOLEAN]

ViewOK(v) ==
  /\ v \in Views
  /\ HasPhase(v.page, v.phase)

Args == {"none", "must", "totp", "backup", "admin", "viewer"}

Requests == [op : Ops, at : Stages, on : User, arg : Args, key : Nat, got : Nat]

RequestsOK == req \in [Browser -> Requests]

PagesOK ==
  /\ owner \in [Browser -> User]
  /\ DOMAIN view = Browser /\ \A b \in Browser : ViewOK(view[b])
  /\ jar \in [Browser -> [pre : BOOLEAN, sess : {"none", "admin", "viewer"}]]

HistoryOK ==
  /\ phone \subseteq User \X Nat /\ sheet \subseteq User \X Nat /\ links \subseteq User \X Nat
  /\ spent \subseteq User \X Nat /\ respent \subseteq User \X Nat
  /\ clash \subseteq User /\ cut \subseteq User /\ rivals \in BOOLEAN /\ trouble \in Nat
  /\ expired \subseteq User \X Nat /\ lost \subseteq User \X Nat

\* Types: the tables, pages on a phase of their own, handlers at a stage.
TypeOK == TablesOK /\ RequestsOK /\ PagesOK /\ HistoryOK

\* A backup code opens one session, however many browsers submit it at once: the
\* lookup and the mark are two statements, and the mark counts.
BackupCodeOnce == respent = {}

\* A way into an account: its password with the active secret in the phone of its
\* owner, or without a MFA the wizard of the login page, or an invitation whose link
\* its owner holds or is about to be given, and whose 72 hours are not over.
LinkHeld(u) ==
  /\ Invited(u)
  /\ \/ <<u, row[u].invite>> \in links \ expired
     \/ <<u, row[u].invite>> \in Untold(Browser)

WayIn(u) ==
  \/ row[u].pw /\ row[u].totp /\ <<u, row[u].secret>> \in phone
  \/ MayFinalize(u)
  \/ LinkHeld(u)

\* Nobody is locked out: every account has a way in, also in the middle of an
\* enrolment or of a reset, unless the invitation it waits for expired or was lost
\* with the answer that held its link.  Two requests about the same account at the
\* same time void it: the statements of an enrolment and of a reset may alternate.
OwnerCanGetIn ==
  \A u \in User :
    Exists(u) /\ u \notin clash
      => WayIn(u) \/ (Invited(u) /\ <<u, row[u].invite>> \in lost \cup expired)

\* The owner of an active account who was shown backup codes can use those, or
\* codes made later (the answer that shows them may be lost), until they are used.
\* Exempt are an enrolment whose codes are being replaced, two enrolments of one
\* account at the same time, and one that a crash cut between dropping the old
\* codes and storing the new ones.
ShownCodesWork ==
  \A c \in sheet :
    LET u == c[1]
    IN Exists(u) /\ row[u].totp /\ row[u].secret < c[2] /\ u \notin clash \cup cut
         => \/ \E d \in codes \cup spent : d[1] = u /\ d[2] >= c[2]
            \/ \E b \in Browser : req[b].at = "insert" /\ req[b].on = u

\* Somebody always administers: the last administrator is neither deleted nor
\* demoted, as users.go:129 and users.go:223 say.
SomebodyAdministers == (\E u \in User : row[u].id # 0) => Admins # {}

\* The same but for the removals of two administrators past their counts at the
\* same time.
LastAdminKept == SomebodyAdministers \/ rivals

\* The first setup closes with the first administrator, across a crash between
\* the two statements that do it, unless the administrators were all removed.
SetupClosed ==
  Admins # {} /\ ~rivals /\ (\A b \in Browser : req[b].op # "setupComplete") => setupToken = 0

\* The secret of an account whose owner holds an invitation comes from that
\* invitation: the login page does not finalise it.
SecretOfInvited(u) ==
  Invited(u) /\ u \notin clash /\ Exists(u)' /\ row[u].secret # row'[u].secret /\ row'[u].secret # 0
    => u \in clash' \/ \E b \in Browser : owner[b] = u /\ At(b, {"inviteAccept"}, "secret")

LinkOnlyFinalisation == [][\A u \in User : SecretOfInvited(u)]_vars
=============================================================================
