---------------------------- MODULE SignInProofs ----------------------------
(***************************************************************************)
(* What holds of the accounts for any people, any browsers and any bounds: *)
(* a backup code opens one session, an administrator remains, the setup    *)
(* closes.                                                                 *)
(***************************************************************************)
EXTENDS SignIn, FiniteSetTheorems, TLAPS

\* What actions change in part has the parts.
ShapeOK ==
  /\ row = [u \in User |-> row[u]]
  /\ \A u \in User :
       row[u] = [id |-> row[u].id, exists |-> row[u].exists, role |-> row[u].role, pw |-> row[u].pw,
                 must |-> row[u].must, totp |-> row[u].totp, secret |-> row[u].secret,
                 invite |-> row[u].invite]
  /\ req = [b \in Browser |-> req[b]]
  /\ \A b \in Browser :
       req[b] = [op |-> req[b].op, at |-> req[b].at, on |-> req[b].on, arg |-> req[b].arg,
                 key |-> req[b].key, got |-> req[b].got]
  /\ jar = [b \in Browser |-> jar[b]]
  /\ \A b \in Browser : jar[b] = [pre |-> jar[b].pre, sess |-> jar[b].sess]

\* Codes are numbered as they are made, and no code is both used and not used.
CodesOK ==
  /\ owner \in [Browser -> User] /\ made \in [User -> Nat]
  /\ respent = {} /\ codes \cap spent = {}
  /\ \A c \in codes \cup spent : c[1] \in User /\ c[2] \in Nat /\ c[2] <= made[c[1]]

Somebody == \E u \in User : row[u].id # 0

\* A request past its count leaves another administrator behind, if it is alone.
AnotherRemains ==
  rivals \/ \A b \in Browser : Removing(b) => \E v \in Admins : v # req[b].on

\* Accounts have a number, and only they have sessions.
AccountsKnown ==
  /\ \A u \in User : Exists(u) => row[u].id # 0
  /\ \A b \in Browser : jar[b].sess # "none" \/ req[b].op = "verify" => Somebody

\* With an administrator the token is spent, or about to be.
TokenSpent ==
  Admins # {} /\ ~rivals => setupToken = 0 \/ \E b \in Browser : At(b, {"setupComplete"}, "spend")

IInv == ShapeOK /\ CodesOK /\ LastAdminKept /\ AnotherRemains /\ AccountsKnown /\ TokenSpent

\* Initially there is nobody and nothing.
LEMMA InitIInv == Init => IInv
<1>1. SUFFICES ASSUME Init PROVE IInv
  OBVIOUS
<1>2. ShapeOK
  BY <1>1 DEF Init, ShapeOK, NoRow, Idle, Request
<1>3. CodesOK
  BY <1>1 DEF Init, CodesOK
<1>4. \A u \in User : row[u].id = 0 /\ ~row[u].exists
  BY <1>1 DEF Init, NoRow
<1>5. \A b \in Browser : req[b].op = "none" /\ jar[b].sess = "none"
  BY <1>1 DEF Init, Idle, Request
<1>6. LastAdminKept /\ AccountsKnown /\ TokenSpent
  BY <1>4, <1>5 DEF LastAdminKept, SomebodyAdministers, AccountsKnown, TokenSpent, Exists, Somebody, Admins
<1>7. AnotherRemains
  BY <1>5 DEF AnotherRemains, Removing, At
<1> QED BY <1>2, <1>3, <1>6, <1>7 DEF IInv

-----------------------------------------------------------------------------
(* The backup codes *)

\* A step does nothing to the codes but drop some, or generates a value;
CodesCalm ==
  /\ codes' \subseteq codes
  /\ UNCHANGED made \/ \E u : made' = [made EXCEPT ![u] = Fresh(u)]
  /\ UNCHANGED <<owner, spent, respent>>

\* or uses one of them;
CodesUsed ==
  /\ \E c : /\ c \in codes /\ codes' = codes \ {c}
            /\ spent' = spent \cup {c} /\ respent' = respent \cup ({c} \cap spent)
  /\ UNCHANGED <<owner, made>>

\* or adds one with a number of its own.
CodesAdded ==
  /\ \E u \in User : made' = [made EXCEPT ![u] = Fresh(u)] /\ codes' = codes \cup {<<u, Fresh(u)>>}
  /\ UNCHANGED <<owner, spent, respent>>

\* The argument: no code comes back once it is used.
LEMMA CodesKept == CodesOK /\ (CodesCalm \/ CodesUsed \/ CodesAdded) => CodesOK'
<1>1. ASSUME CodesOK, NEW u, made' = [made EXCEPT ![u] = Fresh(u)]
      PROVE  made' \in [User -> Nat] /\ \A v \in User : made[v] \in Nat /\ made[v] <= made'[v]
  <2>1. CASE u \in User
    <3>1. made[u] \in Nat /\ made[u] + 1 \in Nat
      BY <1>1, <2>1 DEF CodesOK
    <3>2. made' \in [User -> Nat] /\ \A v \in User : made'[v] = IF v = u THEN made[u] + 1 ELSE made[v]
      BY <1>1, <2>1, <3>1 DEF CodesOK, Fresh
    <3> QED BY <1>1, <3>1, <3>2 DEF CodesOK
  <2>2. CASE u \notin User
    <3>1. made' = made
      BY <1>1, <2>2 DEF CodesOK
    <3>2. \A v \in User : made[v] \in Nat /\ made[v] <= made[v]
      BY <1>1 DEF CodesOK
    <3> QED BY <1>1, <3>1, <3>2, Zenon DEF CodesOK
  <2> QED BY <2>1, <2>2
<1>2. ASSUME CodesOK, CodesCalm PROVE CodesOK'
  <2>1. made' \in [User -> Nat] /\ \A v \in User : made[v] \in Nat /\ made[v] <= made'[v]
    BY <1>1, <1>2 DEF CodesCalm, CodesOK
  <2>2. ASSUME NEW c \in codes \cup spent PROVE c[1] \in User /\ c[2] \in Nat /\ c[2] <= made'[c[1]]
    BY <1>2, <2>1 DEF CodesOK
  <2>3. \A c \in (codes \cup spent)' : c \in codes \cup spent
    BY <1>2 DEF CodesCalm
  <2> QED BY <1>2, <2>1, <2>2, <2>3 DEF CodesOK, CodesCalm
<1>3. ASSUME CodesOK, CodesUsed PROVE CodesOK'
  BY <1>3 DEF CodesOK, CodesUsed
<1>4. ASSUME CodesOK, CodesAdded PROVE CodesOK'
  <2>1. PICK u \in User : made' = [made EXCEPT ![u] = Fresh(u)] /\ codes' = codes \cup {<<u, Fresh(u)>>}
    BY <1>4 DEF CodesAdded
  <2>2. made' \in [User -> Nat] /\ \A v \in User : made[v] \in Nat /\ made[v] <= made'[v]
    BY <1>1, <1>4, <2>1
  <2>3. made'[u] = Fresh(u) /\ Fresh(u) \in Nat /\ ~(Fresh(u) <= made[u])
    BY <1>4, <2>1, <2>2 DEF CodesOK, Fresh
  <2>4. <<u, Fresh(u)>> \notin spent
    BY <1>4, <2>3 DEF CodesOK
  <2>5. ASSUME NEW c \in codes \cup spent PROVE c[1] \in User /\ c[2] \in Nat /\ c[2] <= made'[c[1]]
    BY <1>4, <2>2 DEF CodesOK
  <2> QED BY <1>4, <2>1, <2>2, <2>3, <2>4, <2>5 DEF CodesOK, CodesAdded
<1> QED BY <1>2, <1>3, <1>4

\* Every step leaves, uses or adds codes, so their numbers stay sound.
LEMMA CodesStep == CodesOK /\ [Next]_vars => CodesOK'
<1>1. SUFFICES ASSUME CodesOK, [Next]_vars PROVE CodesCalm \/ CodesUsed \/ CodesAdded
  BY CodesKept
<1>2. ASSUME NEW b \in Browser, Person(b) PROVE CodesCalm
  BY <1>2
     DEF Person, CodesCalm, Load, OpenLink, SubmitPassword, SubmitSetupPassword, SubmitCode,
         SubmitNewPassword, SubmitToken, SubmitIdentity, AcceptInvite, VerifyInvite, Continue,
         Logout, tables, people, ghosts
<1>3. ASSUME NEW b \in Browser, Administration(b) PROVE CodesCalm
  BY <1>3
     DEF Administration, CodesCalm, Invite, RemoveOrPromote, ResetMfa, ImposePassword, tables,
         people, ghosts
<1>4. ASSUME NEW b \in Browser, CodeConsume(b) PROVE CodesCalm \/ CodesUsed
  BY <1>4 DEF CodeConsume, Accept, CodesCalm, CodesUsed, people
<1>5. ASSUME NEW b \in Browser, InsertCodes(b) PROVE CodesAdded
  <2>1. owner[b] \in User
    BY <1>1 DEF CodesOK
  <2> QED BY <1>5, <2>1 DEF InsertCodes, CodesAdded, people
<1>6. ASSUME NEW b \in Browser, Handler(b) PROVE CodesCalm \/ CodesUsed \/ CodesAdded
  <2>1. CASE ~CodeConsume(b) /\ ~InsertCodes(b)
    BY <1>6, <2>1
       DEF Handler, CodesCalm, WithoutCodesOf, FinalizeRead, PasswordWrite, SecretWrite,
           EnableMfa, DropCodes, ClearInvite, CreateAdmin, SpendToken, RoleWrite, EraseCodes,
           Reinvite, tables, people, ghosts
  <2> QED BY <1>4, <1>5, <2>1
<1>7. ASSUME NEW b \in Browser, Answer(b) PROVE CodesCalm
  BY <1>7
     DEF Answer, CodesCalm, LoginAnswered, PasswordAnswered, SecretAnswered, VerifyAnswered,
         ChangeAnswered, InviteVerifyAnswered, AdminAnswered, AnswerLost, tables, people, ghosts
<1>8. CASE Expire \/ Restart \/ RestartResettingMfa
  BY <1>8 DEF Expire, Restart, RestartResettingMfa, CodesCalm, WithoutCodesOf, tables, ghosts, people
<1>9. CASE UNCHANGED vars
  BY <1>9 DEF vars, tables, people, ghosts, CodesCalm
<1> QED BY <1>1, <1>2, <1>3, <1>6, <1>7, <1>8, <1>9 DEF Next

-----------------------------------------------------------------------------
(* The administrators and the setup: what most steps have in common *)

\* They keep who has an account, and in what role.
RowsCalm ==
  /\ row' = [u \in User |-> row'[u]]
  /\ \A u \in User :
       row'[u] = [id |-> row[u].id, exists |-> row[u].exists, role |-> row[u].role, pw |-> row'[u].pw,
                  must |-> row'[u].must, totp |-> row'[u].totp, secret |-> row'[u].secret,
                  invite |-> row'[u].invite]

\* The request of one browser moves, and it neither spends the token nor is about
\* to remove anybody;
ReqCalm(b) ==
  /\ req' = [c \in Browser |-> IF c = b THEN req'[b] ELSE req[c]]
  /\ req'[b] = [op |-> req'[b].op, at |-> req'[b].at, on |-> req'[b].on, arg |-> req'[b].arg,
                key |-> req'[b].key, got |-> req'[b].got]
  /\ At(b, {"setupComplete"}, "spend") \/ req'[b].at = "write" => req'[b] = req[b]
  /\ req'[b].op = "verify" => req[b].op = "verify" \/ Somebody

\* a session opens only for who has an account.
JarCalm(b) ==
  /\ jar' = [c \in Browser |-> IF c = b THEN jar'[b] ELSE jar[c]]
  /\ jar'[b] = [pre |-> jar'[b].pre, sess |-> jar'[b].sess]
  /\ jar'[b].sess # "none" => jar[b].sess # "none" \/ req[b].op = "verify"

PagesCalm(b) == ReqCalm(b) /\ JarCalm(b)

AccountsOK == ShapeOK /\ LastAdminKept /\ AnotherRemains /\ AccountsKnown /\ TokenSpent

\* Rows, requests and cookies keep their fields.
LEMMA ShapeKept ==
  ASSUME ShapeOK, NEW b \in Browser, PagesCalm(b), row' = [u \in User |-> row'[u]],
         \A u \in User :
           row'[u] = [id |-> row'[u].id, exists |-> row'[u].exists, role |-> row'[u].role,
                      pw |-> row'[u].pw, must |-> row'[u].must, totp |-> row'[u].totp,
                      secret |-> row'[u].secret, invite |-> row'[u].invite]
  PROVE  ShapeOK'
<1>1. \A c \in Browser :
     req'[c] = [op |-> req'[c].op, at |-> req'[c].at, on |-> req'[c].on, arg |-> req'[c].arg,
               key |-> req'[c].key, got |-> req'[c].got]
  BY DEF PagesCalm, ReqCalm, ShapeOK
<1>2. \A c \in Browser : jar'[c] = [pre |-> jar'[c].pre, sess |-> jar'[c].sess]
  BY DEF PagesCalm, JarCalm, ShapeOK
<1>3. req' = [c \in Browser |-> req'[c]] /\ jar' = [c \in Browser |-> jar'[c]]
  BY DEF PagesCalm, ReqCalm, JarCalm
<1> QED BY <1>1, <1>2, <1>3 DEF ShapeOK

\* The accounts such a step leaves are those it found.
LEMMA RowsKept ==
  ASSUME RowsCalm
  PROVE  /\ Admins' = Admins /\ Somebody' = Somebody
         /\ \A u \in User : Exists(u)' = Exists(u) /\ row'[u].id = row[u].id
BY DEF RowsCalm, Admins, Exists, Somebody

\* Requests that are calm leave the removals and the setup where they are.
LEMMA RequestsKept ==
  ASSUME ShapeOK, NEW b \in Browser, ReqCalm(b)
  PROVE  /\ \A c \in Browser : Removing(c)' => Removing(c) /\ req'[c] = req[c]
         /\ \A c \in Browser : At(c, {"setupComplete"}, "spend") => At(c, {"setupComplete"}, "spend")'
<1>1. \A c \in Browser \ {b} : req'[c] = req[c]
  BY DEF ReqCalm
<1>2. Removing(b)' => req'[b] = req[b]
  BY DEF ReqCalm, Removing, At
<1>3. At(b, {"setupComplete"}, "spend") => req'[b] = req[b]
  BY DEF ReqCalm
<1> QED BY <1>1, <1>2, <1>3 DEF Removing, At

\* The argument: a step that is calm about all of them disturbs nothing.
LEMMA CalmKeeps ==
  ASSUME AccountsOK, NEW b \in Browser, RowsCalm, PagesCalm(b), UNCHANGED <<rivals, setupToken>>
  PROVE  AccountsOK'
<1>1. ShapeOK'
  BY ShapeKept DEF RowsCalm, AccountsOK
<1>2. /\ Admins' = Admins /\ Somebody' = Somebody
      /\ \A u \in User : Exists(u)' = Exists(u) /\ row'[u].id = row[u].id
  BY RowsKept
<1>3. /\ \A c \in Browser : Removing(c)' => Removing(c) /\ req'[c] = req[c]
      /\ \A c \in Browser : At(c, {"setupComplete"}, "spend") => At(c, {"setupComplete"}, "spend")'
  BY RequestsKept DEF AccountsOK, PagesCalm
<1>4. LastAdminKept'
  BY <1>2 DEF AccountsOK, LastAdminKept, SomebodyAdministers, Somebody
<1>5. AccountsKnown'
  <2>1. ASSUME NEW c \in Browser, jar'[c].sess # "none" \/ req'[c].op = "verify" PROVE Somebody
    BY <2>1 DEF AccountsOK, AccountsKnown, PagesCalm, ReqCalm, JarCalm
  <2> QED BY <1>2, <2>1 DEF AccountsOK, AccountsKnown
<1>6. AnotherRemains'
  BY <1>2, <1>3 DEF AccountsOK, AnotherRemains
<1>7. TokenSpent'
  BY <1>2, <1>3 DEF AccountsOK, TokenSpent
<1> QED BY <1>1, <1>4, <1>5, <1>6, <1>7 DEF AccountsOK

-----------------------------------------------------------------------------
(* Calm statements, requests and cookies *)

\* A statement that leaves identifier, existence and role alone is calm.
LEMMA Rewritten ==
  ASSUME ShapeOK, NEW u, NEW pw, NEW must, NEW totp, NEW secret, NEW invite,
         row' = Updated(u, [id |-> row[u].id, exists |-> row[u].exists, role |-> row[u].role, pw |-> pw,
                            must |-> must, totp |-> totp, secret |-> secret, invite |-> invite])
  PROVE  RowsCalm
<1> DEFINE new == [id |-> row[u].id, exists |-> row[u].exists, role |-> row[u].role, pw |-> pw,
                   must |-> must, totp |-> totp, secret |-> secret, invite |-> invite]
<1>1. PICK r : r = new
  OBVIOUS
<1>2. row' = row \/ row' = [row EXCEPT ![u] = r]
  BY <1>1 DEF Updated
<1>3. row' = [v \in User |-> row'[v]]
  BY <1>2 DEF ShapeOK
<1>4. \A v \in User : row'[v] = row[v] \/ (v = u /\ row'[v] = r)
  <2> HIDE DEF new
  <2> QED BY <1>2 DEF ShapeOK
<1>5. ASSUME NEW v \in User
      PROVE  row'[v] = [id |-> row[v].id, exists |-> row[v].exists, role |-> row[v].role, pw |-> row'[v].pw,
                        must |-> row'[v].must, totp |-> row'[v].totp, secret |-> row'[v].secret,
                        invite |-> row'[v].invite]
  <2>1. CASE row'[v] = row[v]
    BY <2>1 DEF ShapeOK
  <2>2. CASE v = u /\ row'[v] = r
    BY <1>1, <2>2
  <2> QED BY <1>4, <2>1, <2>2
<1> QED BY <1>3, <1>5 DEF RowsCalm

\* Of the statements on the table only three change who has an account, or its role.
LEMMA StatementsCalm ==
  ASSUME ShapeOK, NEW u,
         \/ UNCHANGED row
         \/ \E must : row' = PasswordSet(u, must)
         \/ \E s : row' = SecretStored(u, s)
         \/ row' = MfaEnabled(u)
         \/ row' = MfaErased(u)
         \/ \E n : row' = InviteStored(u, n)
  PROVE  RowsCalm
<1> DEFINE New(pw, must, totp, secret, invite) ==
             [id |-> row[u].id, exists |-> row[u].exists, role |-> row[u].role, pw |-> pw,
              must |-> must, totp |-> totp, secret |-> secret, invite |-> invite]
<1>0. CASE u \notin User
  <2>1. \A r : Updated(u, r) = row
    BY <1>0 DEF Updated, ShapeOK
  <2>2. \A x : PasswordSet(u, x) = row
    BY <2>1 DEF PasswordSet
  <2>3. \A x : SecretStored(u, x) = row /\ InviteStored(u, x) = row
    BY <2>1 DEF SecretStored, InviteStored
  <2>4. MfaEnabled(u) = row /\ MfaErased(u) = row
    BY <2>1 DEF MfaEnabled, MfaErased
  <2>5. UNCHANGED row
    BY <2>2, <2>3, <2>4
  <2> QED BY <2>5 DEF RowsCalm, ShapeOK
<1> SUFFICES ASSUME u \in User PROVE RowsCalm
  BY <1>0
<1>1. row[u] = New(row[u].pw, row[u].must, row[u].totp, row[u].secret, row[u].invite)
  BY DEF ShapeOK
<1>2. PICK t : t = TRUE
  OBVIOUS
<1>3. PICK f : f = FALSE
  OBVIOUS
<1>4. CASE UNCHANGED row
  BY <1>4 DEF RowsCalm, ShapeOK
<1>5. ASSUME NEW must, row' = PasswordSet(u, must) PROVE RowsCalm
  <2>1. [row[u] EXCEPT !.pw = t, !.must = must] = New(t, must, row[u].totp, row[u].secret, row[u].invite)
    <3>1. PICK r : r = [row[u] EXCEPT !.pw = t]
      OBVIOUS
    <3>2. r = New(t, row[u].must, row[u].totp, row[u].secret, row[u].invite)
      BY <1>1, <3>1
    <3>3. [r EXCEPT !.must = must] = New(t, must, row[u].totp, row[u].secret, row[u].invite)
      BY <3>2
    <3> QED BY <3>1, <3>3
  <2>2. row' = Updated(u, New(t, must, row[u].totp, row[u].secret, row[u].invite))
    BY <1>2, <1>5, <2>1, Zenon DEF PasswordSet
  <2> QED BY <2>2, Rewritten
<1>6. ASSUME NEW s, row' = SecretStored(u, s) PROVE RowsCalm
  <2>1. [row[u] EXCEPT !.secret = s, !.totp = f] = New(row[u].pw, row[u].must, f, s, row[u].invite)
    <3>1. PICK r : r = [row[u] EXCEPT !.secret = s]
      OBVIOUS
    <3>2. r = New(row[u].pw, row[u].must, row[u].totp, s, row[u].invite)
      BY <1>1, <3>1
    <3>3. [r EXCEPT !.totp = f] = New(row[u].pw, row[u].must, f, s, row[u].invite)
      BY <3>2
    <3> QED BY <3>1, <3>3
  <2>2. row' = Updated(u, New(row[u].pw, row[u].must, f, s, row[u].invite))
    BY <1>3, <1>6, <2>1, Zenon DEF SecretStored
  <2> QED BY <2>2, Rewritten
<1>7. CASE row' = MfaEnabled(u)
  <2>1. [row[u] EXCEPT !.totp = t] = New(row[u].pw, row[u].must, t, row[u].secret, row[u].invite)
    BY <1>1
  <2>2. row' = Updated(u, New(row[u].pw, row[u].must, t, row[u].secret, row[u].invite))
    BY <1>2, <1>7, <2>1, Zenon DEF MfaEnabled
  <2> QED BY <2>2, Rewritten
<1>8. CASE row' = MfaErased(u)
  <2>1. [row[u] EXCEPT !.secret = 0, !.totp = f] = New(row[u].pw, row[u].must, f, 0, row[u].invite)
    <3>1. PICK r : r = [row[u] EXCEPT !.secret = 0]
      OBVIOUS
    <3>2. r = New(row[u].pw, row[u].must, row[u].totp, 0, row[u].invite)
      BY <1>1, <3>1
    <3>3. [r EXCEPT !.totp = f] = New(row[u].pw, row[u].must, f, 0, row[u].invite)
      BY <3>2
    <3> QED BY <3>1, <3>3
  <2>2. row' = Updated(u, New(row[u].pw, row[u].must, f, 0, row[u].invite))
    BY <1>3, <1>8, <2>1, Zenon DEF MfaErased
  <2> QED BY <2>2, Rewritten
<1>9. ASSUME NEW n, row' = InviteStored(u, n) PROVE RowsCalm
  <2>1. [row[u] EXCEPT !.invite = n] = New(row[u].pw, row[u].must, row[u].totp, row[u].secret, n)
    BY <1>1
  <2>2. row' = Updated(u, New(row[u].pw, row[u].must, row[u].totp, row[u].secret, n))
    BY <1>9, <2>1, Zenon DEF InviteStored
  <2> QED BY <2>2, Rewritten
<1> QED BY <1>4, <1>5, <1>6, <1>7, <1>8, <1>9

\* A request that is sent, asked for or put aside, in place of one that is not about
\* to spend the token;
LEMMA Replaced ==
  ASSUME ShapeOK, NEW b \in Browser, NEW op, NEW at, NEW u, NEW arg, NEW key,
         req' = [req EXCEPT ![b] = Request(op, at, u, arg, key)],
         at # "write", ~At(b, {"setupComplete"}, "spend"),
         op = "verify" => Somebody
  PROVE  ReqCalm(b)
BY DEF ShapeOK, Request, ReqCalm

\* one that goes on, perhaps with something made;
LEMMA Advanced ==
  ASSUME ShapeOK, NEW b \in Browser, NEW at,
         \/ req' = [req EXCEPT ![b].at = at]
         \/ \E got : req' = [req EXCEPT ![b].at = at, ![b].got = got],
         at # "write", ~At(b, {"setupComplete"}, "spend")
  PROVE  ReqCalm(b)
<1>1. req[b] = [op |-> req[b].op, at |-> req[b].at, on |-> req[b].on, arg |-> req[b].arg,
                key |-> req[b].key, got |-> req[b].got]
  BY DEF ShapeOK
<1>2. /\ req' = [c \in Browser |-> IF c = b THEN req'[b] ELSE req[c]]
      /\ \E got : req'[b] = [op |-> req[b].op, at |-> at, on |-> req[b].on, arg |-> req[b].arg,
                             key |-> req[b].key, got |-> got]
  <2>1. CASE req' = [req EXCEPT ![b].at = at]
    BY <1>1, <2>1 DEF ShapeOK
  <2>2. CASE \E got : req' = [req EXCEPT ![b].at = at, ![b].got = got]
    BY <1>1, <2>2 DEF ShapeOK
  <2> QED BY <2>1, <2>2
<1> QED BY <1>2 DEF ReqCalm

\* and the request of a browser that has none.
LEMMA Unmoved ==
  ASSUME ShapeOK, NEW b \in Browser, UNCHANGED req
  PROVE  ReqCalm(b)
BY DEF ShapeOK, ReqCalm

\* A cookie that is dropped, or set by a verified code, is calm.
LEMMA CookiesCalm ==
  ASSUME ShapeOK, NEW b \in Browser,
         \/ UNCHANGED jar
         \/ \E pre : jar' = [jar EXCEPT ![b].pre = pre]
         \/ \E pre, sess : /\ jar' = [jar EXCEPT ![b] = [pre |-> pre, sess |-> sess]]
                           /\ sess = "none" \/ req[b].op = "verify"
  PROVE  JarCalm(b)
<1>1. CASE UNCHANGED jar
  BY <1>1 DEF ShapeOK, JarCalm
<1>2. CASE \E pre : jar' = [jar EXCEPT ![b].pre = pre]
  BY <1>2 DEF ShapeOK, JarCalm
<1>3. CASE \E pre, sess : /\ jar' = [jar EXCEPT ![b] = [pre |-> pre, sess |-> sess]]
                          /\ sess = "none" \/ req[b].op = "verify"
  BY <1>3 DEF ShapeOK, JarCalm
<1> QED BY <1>1, <1>2, <1>3

-----------------------------------------------------------------------------
(* The calm actions *)

\* The person at a browser reads, or sends a request that is not to be written yet.
LEMMA PersonCalm ==
  ASSUME AccountsOK, CodesOK, NEW b \in Browser, Person(b)
  PROVE  RowsCalm /\ PagesCalm(b) /\ UNCHANGED <<rivals, setupToken>>
<1>1. UNCHANGED <<row, rivals, setupToken>>
  BY DEF Person, Load, OpenLink, SubmitPassword, SubmitSetupPassword, SubmitCode,
         SubmitNewPassword, SubmitToken, SubmitIdentity, AcceptInvite, VerifyInvite, Continue,
         Logout, tables, ghosts
<1>2. RowsCalm
  BY <1>1, StatementsCalm DEF AccountsOK
<1>3. ReqCalm(b)
  <2>1. CASE UNCHANGED req
    BY <2>1, Unmoved DEF AccountsOK
  <2>2. CASE req' # req
    <3> DEFINE Sends(op) == \E at, u, arg, key :
                               req' = [req EXCEPT ![b] = Request(op, at, u, arg, key)] /\ at # "write"
    <3>1. /\ ~Busy(b)
          /\ \E op : Sends(op) /\ (op = "verify" => row[owner[b]].exists)
      <4>1. CASE SubmitPassword(b)
        BY <4>1 DEF SubmitPassword, Send, Expel, Idle, Busy
      <4>2. CASE SubmitSetupPassword(b)
        BY <4>2 DEF SubmitSetupPassword, Send, Busy, Expel, Idle
      <4>3. CASE SubmitCode(b)
        BY <4>3 DEF SubmitCode, Send, Busy
      <4>4. CASE SubmitNewPassword(b)
        <5>1. ~Busy(b) /\ req' = [req EXCEPT ![b] = Request("changePassword", "pw", owner[b], "none", 0)]
          BY <4>4 DEF SubmitNewPassword, Send
        <5>2. "changePassword" # "verify" /\ "pw" # "write"
          OBVIOUS
        <5> QED BY <5>1, <5>2, Zenon
      <4>5. CASE SubmitIdentity(b)
        <5>1. ~Busy(b) /\ req' = [req EXCEPT ![b] = Request("setupComplete", "create", owner[b], "none", 0)]
          BY <4>5 DEF SubmitIdentity, Send
        <5>2. "setupComplete" # "verify" /\ "create" # "write"
          OBVIOUS
        <5> QED BY <5>1, <5>2, Zenon
      <4>6. CASE AcceptInvite(b)
        <5>1. ~Busy(b) /\ req' = [req EXCEPT ![b] = Request("inviteAccept", "pw", owner[b], "none", 0)]
          BY <4>6 DEF AcceptInvite, Send
        <5>2. "inviteAccept" # "verify" /\ "pw" # "write"
          OBVIOUS
        <5> QED BY <5>1, <5>2, Zenon
      <4>7. CASE VerifyInvite(b)
        <5>1. ~Busy(b) /\ req' = [req EXCEPT ![b] = Request("inviteVerify", "enable", owner[b], "totp", view[b].key)]
          BY <4>7 DEF VerifyInvite, Send
        <5>2. "inviteVerify" # "verify" /\ "enable" # "write"
          OBVIOUS
        <5> QED BY <5>1, <5>2, Zenon
      <4> QED
        BY <2>2, <4>1, <4>2, <4>3, <4>4, <4>5, <4>6, <4>7
        DEF Person, Load, OpenLink, SubmitToken, Continue, Logout
    <3>2. row[owner[b]].exists => Somebody
      BY DEF AccountsOK, AccountsKnown, Somebody, CodesOK, Exists
    <3> QED BY <3>1, <3>2, Replaced DEF AccountsOK, Busy, At
  <2> QED BY <2>1, <2>2
<1>4. JarCalm(b)
  <2>1. \/ UNCHANGED jar
        \/ jar' = [jar EXCEPT ![b].pre = FALSE]
        \/ jar' = [jar EXCEPT ![b] = [pre |-> FALSE, sess |-> "none"]]
    BY DEF Person, Load, OpenLink, SubmitPassword, SubmitSetupPassword, SubmitCode,
           SubmitNewPassword, SubmitToken, SubmitIdentity, AcceptInvite, VerifyInvite, Continue,
           Logout, Expel
  <2> QED BY <2>1, CookiesCalm DEF AccountsOK
<1> QED BY <1>1, <1>2, <1>3, <1>4 DEF PagesCalm

\* A reset of a second factor or of a password takes no administrator away.
LEMMA ResetCalm ==
  ASSUME AccountsOK, NEW b \in Browser, ResetMfa(b) \/ ImposePassword(b)
  PROVE  RowsCalm /\ PagesCalm(b) /\ UNCHANGED <<rivals, setupToken>>
<1>1. PICK u \in User : row' = MfaErased(u) \/ row' = PasswordSet(u, TRUE)
  BY DEF ResetMfa, ImposePassword
<1>2. RowsCalm
  BY <1>1, StatementsCalm, Zenon DEF AccountsOK
<1>3. /\ ~Busy(b) /\ UNCHANGED <<jar, rivals, setupToken>>
      /\ \E v : \/ req' = [req EXCEPT ![b] = Request("resetMfa", "codes", v, "none", 0)]
                \/ req' = [req EXCEPT ![b] = Request("resetPassword", "done", v, "none", 0)]
  BY DEF ResetMfa, ImposePassword, Send, ghosts
<1>4. ReqCalm(b)
  <2>1. "codes" # "write" /\ "done" # "write" /\ "resetMfa" # "verify" /\ "resetPassword" # "verify"
    OBVIOUS
  <2>2. ~At(b, {"setupComplete"}, "spend")
    BY <1>3 DEF Busy, At
  <2>3. ShapeOK
    BY DEF AccountsOK
  <2> QED BY <1>3, <2>1, <2>2, <2>3, Replaced, Zenon
<1>5. JarCalm(b)
  BY <1>3, CookiesCalm DEF AccountsOK
<1> QED BY <1>2, <1>3, <1>4, <1>5 DEF PagesCalm

\* The handlers that leave the administrators and the token alone.
QuietHandler(b) ==
  \/ FinalizeRead(b) \/ PasswordWrite(b) \/ SecretWrite(b) \/ CodeConsume(b) \/ EnableMfa(b)
  \/ DropCodes(b) \/ InsertCodes(b) \/ ClearInvite(b) \/ EraseCodes(b) \/ Reinvite(b)

\* The statements of a handler that touch neither role nor existence are calm.
LEMMA HandlerCalm ==
  ASSUME AccountsOK, NEW b \in Browser, QuietHandler(b)
  PROVE  RowsCalm /\ PagesCalm(b) /\ UNCHANGED <<rivals, setupToken>>
<1>1. UNCHANGED <<rivals, setupToken>> /\ ~At(b, {"setupComplete"}, "spend")
  BY DEF QuietHandler, FinalizeRead, PasswordWrite, SecretWrite, CodeConsume, EnableMfa,
         DropCodes, InsertCodes, ClearInvite, EraseCodes, Reinvite, At, tables, ghosts
<1>2. \E u : \/ UNCHANGED row
             \/ row' = PasswordSet(u, FALSE)
             \/ \E s : row' = SecretStored(u, s)
             \/ row' = MfaEnabled(u)
             \/ \E n : row' = InviteStored(u, n)
  BY DEF QuietHandler, FinalizeRead, PasswordWrite, SecretWrite, CodeConsume, EnableMfa,
         DropCodes, InsertCodes, ClearInvite, EraseCodes, Reinvite, tables
<1>3. RowsCalm
  BY <1>2, StatementsCalm, Zenon DEF AccountsOK
<1>4. \/ req' = [req EXCEPT ![b] = Idle(b)]
      \/ \E at, got : /\ at # "write"
                      /\ \/ req' = [req EXCEPT ![b].at = at]
                         \/ req' = [req EXCEPT ![b].at = at, ![b].got = got]
  <2>1. CASE FinalizeRead(b)
    BY <2>1 DEF FinalizeRead, Goto, Write, Expel, Refuse
  <2>2. CASE PasswordWrite(b)
    BY <2>2 DEF PasswordWrite, Goto, Write
  <2>3. CASE SecretWrite(b)
    BY <2>3 DEF SecretWrite, Goto, Write
  <2>4. CASE CodeConsume(b)
    BY <2>4 DEF CodeConsume, Goto, Write, Accept, Refuse
  <2>5. CASE EnableMfa(b)
    BY <2>5 DEF EnableMfa, Goto, Write
  <2>6. CASE DropCodes(b)
    BY <2>6 DEF DropCodes, Goto, Write
  <2>7. CASE InsertCodes(b)
    BY <2>7 DEF InsertCodes, Goto, Write
  <2>8. CASE ClearInvite(b)
    BY <2>8 DEF ClearInvite, Goto, Write
  <2>9. CASE EraseCodes(b)
    BY <2>9 DEF EraseCodes, Goto, Write
  <2>10. CASE Reinvite(b)
    BY <2>10 DEF Reinvite, Goto, Write
  <2> QED BY <2>1, <2>2, <2>3, <2>4, <2>5, <2>6, <2>7, <2>8, <2>9, <2>10 DEF QuietHandler
<1>5. ReqCalm(b)
  <2>1. CASE req' = [req EXCEPT ![b] = Idle(b)]
    <3>1. "none" # "write" /\ "none" # "verify"
      OBVIOUS
    <3> QED BY <1>1, <2>1, <3>1, Replaced, Zenon DEF AccountsOK, Idle
  <2>2. CASE \E at, got : /\ at # "write"
                          /\ \/ req' = [req EXCEPT ![b].at = at]
                             \/ req' = [req EXCEPT ![b].at = at, ![b].got = got]
    BY <1>1, <2>2, Advanced, Zenon DEF AccountsOK
  <2> QED BY <1>4, <2>1, <2>2
<1>6. UNCHANGED jar \/ jar' = [jar EXCEPT ![b].pre = FALSE]
  BY DEF QuietHandler, FinalizeRead, PasswordWrite, SecretWrite, CodeConsume, EnableMfa,
         DropCodes, InsertCodes, ClearInvite, EraseCodes, Reinvite, Accept, Expel, Refuse
<1>7. JarCalm(b)
  BY <1>6, CookiesCalm DEF AccountsOK
<1> QED BY <1>1, <1>3, <1>5, <1>7 DEF PagesCalm

\* The answers: a session opens at the end of a login.
LEMMA AnswerCalm ==
  ASSUME AccountsOK, NEW b \in Browser, Answer(b)
  PROVE  RowsCalm /\ PagesCalm(b) /\ UNCHANGED <<rivals, setupToken>>
<1>1. UNCHANGED <<row, rivals, setupToken>> /\ ~At(b, {"setupComplete"}, "spend")
  BY DEF Answer, LoginAnswered, PasswordAnswered, SecretAnswered, VerifyAnswered, ChangeAnswered,
         InviteVerifyAnswered, AdminAnswered, AnswerLost, At, AdminOps, tables, ghosts
<1>2. RowsCalm
  BY <1>1 DEF AccountsOK, ShapeOK, RowsCalm
<1>3. \E op : /\ req' = [req EXCEPT ![b] = Request(op, IF op = "none" THEN "none" ELSE "read", owner[b], "none", 0)]
              /\ op \in {"none", "setupMfa"}
  <2>1. CASE LoginAnswered(b)
    BY <2>1 DEF LoginAnswered, Release, Idle, AskSecret
  <2>2. CASE PasswordAnswered(b)
    BY <2>2 DEF PasswordAnswered, Release, Idle, AskSecret
  <2>3. CASE SecretAnswered(b)
    BY <2>3 DEF SecretAnswered, Release, Idle
  <2>4. CASE VerifyAnswered(b)
    BY <2>4 DEF VerifyAnswered, Release, Idle
  <2>5. CASE ChangeAnswered(b)
    BY <2>5 DEF ChangeAnswered, Release, Idle
  <2>6. CASE InviteVerifyAnswered(b)
    BY <2>6 DEF InviteVerifyAnswered, Release, Idle
  <2>7. CASE AdminAnswered(b)
    BY <2>7 DEF AdminAnswered, Release, Idle
  <2>8. CASE AnswerLost(b)
    BY <2>8 DEF AnswerLost, Release, Idle
  <2> QED BY <2>1, <2>2, <2>3, <2>4, <2>5, <2>6, <2>7, <2>8 DEF Answer
<1>4. ReqCalm(b)
  <2>1. PICK op, at : req' = [req EXCEPT ![b] = Request(op, at, owner[b], "none", 0)]
                      /\ op # "verify" /\ at # "write"
    BY <1>3
  <2> QED BY <1>1, <2>1, Replaced, Zenon DEF AccountsOK
<1>5. \/ UNCHANGED jar
      \/ jar' = [jar EXCEPT ![b].pre = TRUE]
      \/ /\ req[b].op = "verify"
         /\ \E sess : jar' = [jar EXCEPT ![b] = [pre |-> FALSE, sess |-> sess]]
  BY DEF Answer, LoginAnswered, PasswordAnswered, SecretAnswered, VerifyAnswered, ChangeAnswered,
         InviteVerifyAnswered, AdminAnswered, AnswerLost, At
<1>6. JarCalm(b)
  BY <1>5, CookiesCalm DEF AccountsOK
<1> QED BY <1>1, <1>2, <1>4, <1>6 DEF PagesCalm

-----------------------------------------------------------------------------
(* The actions about administrators and the token *)

\* A new account: nobody loses theirs.
LEMMA AccountInserted ==
  ASSUME ShapeOK, AccountsKnown, NEW u \in User, NEW role, NEW pw, NEW invite,
         row[u].id = 0, row' = Inserted(u, role, pw, invite)
  PROVE  /\ row' = [v \in User |-> row'[v]]
         /\ \A v \in User :
              row'[v] = [id |-> row'[v].id, exists |-> row'[v].exists, role |-> row'[v].role,
                         pw |-> row'[v].pw, must |-> row'[v].must, totp |-> row'[v].totp,
                         secret |-> row'[v].secret, invite |-> row'[v].invite]
         /\ \A v \in User : Exists(v)' => row'[v].id # 0
         /\ Admins \subseteq Admins' /\ Somebody'
         /\ role = "admin" => u \in Admins'
         /\ role # "admin" => Admins' = Admins
<1>1. NextId # 0
  <2>1. IsFiniteSet({v \in User : row[v].id # 0})
    BY AccountsAssumption, FS_Subset
  <2>2. Cardinality({v \in User : row[v].id # 0}) \in Nat
    BY <2>1, FS_CardinalityType
  <2> QED BY <2>2 DEF NextId
<1>2. PICK q : q = [NoRow EXCEPT !.id = NextId, !.exists = TRUE, !.role = role, !.pw = pw, !.invite = invite]
  OBVIOUS
<1>3. PICK r : r = NoRow
  OBVIOUS
<1>4. DOMAIN r = {"id", "exists", "role", "pw", "must", "totp", "secret", "invite"}
  BY <1>3 DEF NoRow
<1>5. PICK t : t = TRUE
  OBVIOUS
<1>6. q = [r EXCEPT !.id = NextId, !.exists = t, !.role = role, !.pw = pw, !.invite = invite]
  BY <1>2, <1>3, <1>5, Zenon
<1>7. q.id = NextId /\ q.exists = t /\ q.role = role
  BY <1>4, <1>6
<1>8. q = [id |-> q.id, exists |-> q.exists, role |-> q.role, pw |-> q.pw, must |-> q.must,
           totp |-> q.totp, secret |-> q.secret, invite |-> q.invite]
  <2>1. q = [z \in {"id", "exists", "role", "pw", "must", "totp", "secret", "invite"} |-> q[z]]
    BY <1>4, <1>6
  <2> QED BY <2>1
<1>9. q.exists
  BY <1>5, <1>7, Zenon
<1>10. row' = [row EXCEPT ![u] = q]
  BY <1>2, Zenon DEF Inserted
<1>11. /\ row' = [v \in User |-> row'[v]]
       /\ \A v \in User : row'[v] = IF v = u THEN q ELSE row[v]
  BY <1>10 DEF ShapeOK
<1>12. ~Exists(u)
  BY DEF AccountsKnown
<1>13. \A v \in User \ {u} : Exists(v)' = Exists(v)
  BY <1>11 DEF Exists
<1>14. Exists(u)' /\ row'[u].id # 0 /\ row'[u].role = role
  BY <1>1, <1>7, <1>9, <1>11 DEF Exists
<1>15. \A v \in User : row'[v] = [id |-> row'[v].id, exists |-> row'[v].exists, role |-> row'[v].role,
                         pw |-> row'[v].pw, must |-> row'[v].must, totp |-> row'[v].totp,
                         secret |-> row'[v].secret, invite |-> row'[v].invite]
  BY <1>8, <1>11 DEF ShapeOK
<1>16. \A v \in User : Exists(v)' => row'[v].id # 0
  BY <1>11, <1>13, <1>14 DEF AccountsKnown
<1>17. Admins \subseteq Admins' /\ (role = "admin" => u \in Admins') /\ (role # "admin" => Admins' = Admins)
  BY <1>11, <1>12, <1>13, <1>14 DEF Admins
<1> QED BY <1>11, <1>14, <1>15, <1>16, <1>17 DEF Somebody

\* An administrator invites: the session is that of an account, so somebody
\* administers already.
LEMMA InviteStep ==
  ASSUME AccountsOK, NEW b \in Browser, Invite(b)
  PROVE  AccountsOK'
<1>1. PICK u \in User, role \in {"admin", "viewer"} :
        /\ row[u].id = 0 /\ row' = Inserted(u, role, FALSE, Fresh(u))
        /\ ~Busy(b) /\ jar[b].sess = "admin"
        /\ req' = [req EXCEPT ![b] = [Request("invite", "done", u, role, 0) EXCEPT !.got = Fresh(u)]]
        /\ UNCHANGED <<setupToken, jar, rivals>>
  BY DEF Invite, Administers, ghosts
<1>2. /\ row' = [v \in User |-> row'[v]]
      /\ \A v \in User :
           row'[v] = [id |-> row'[v].id, exists |-> row'[v].exists, role |-> row'[v].role,
                      pw |-> row'[v].pw, must |-> row'[v].must, totp |-> row'[v].totp,
                      secret |-> row'[v].secret, invite |-> row'[v].invite]
      /\ \A v \in User : Exists(v)' => row'[v].id # 0
      /\ Admins \subseteq Admins' /\ Somebody'
  BY <1>1, AccountInserted DEF AccountsOK
<1>3. Admins # {} \/ rivals
  BY <1>1 DEF AccountsOK, AccountsKnown, LastAdminKept, SomebodyAdministers, Somebody
<1>4. ReqCalm(b)
  <2>1. PICK r : r = Request("invite", "done", u, role, 0)
    OBVIOUS
  <2>2. r = [op |-> "invite", at |-> "done", on |-> u, arg |-> role, key |-> 0, got |-> 0]
    BY <2>1 DEF Request
  <2>3. [r EXCEPT !.got = Fresh(u)] =
          [op |-> "invite", at |-> "done", on |-> u, arg |-> role, key |-> 0, got |-> Fresh(u)]
    BY <2>2
  <2>4. req' = [req EXCEPT ![b] = [op |-> "invite", at |-> "done", on |-> u, arg |-> role, key |-> 0, got |-> Fresh(u)]]
    BY <1>1, <2>1, <2>3
  <2>5. /\ req' = [c \in Browser |-> IF c = b THEN req'[b] ELSE req[c]]
        /\ req'[b] = [op |-> "invite", at |-> "done", on |-> u, arg |-> role, key |-> 0, got |-> Fresh(u)]
    BY <2>4 DEF AccountsOK, ShapeOK
  <2>6. ~At(b, {"setupComplete"}, "spend")
    BY <1>1 DEF At, Busy
  <2> QED BY <2>5, <2>6 DEF ReqCalm
<1>5. PagesCalm(b)
  BY <1>1, <1>4, CookiesCalm DEF AccountsOK, PagesCalm
<1>6. /\ \A c \in Browser : Removing(c)' => Removing(c) /\ req'[c] = req[c]
      /\ \A c \in Browser : At(c, {"setupComplete"}, "spend") => At(c, {"setupComplete"}, "spend")'
  BY <1>4, RequestsKept DEF AccountsOK
<1>7. ShapeOK'
  BY <1>2, <1>5, ShapeKept DEF AccountsOK
<1>8. LastAdminKept' /\ AccountsKnown' /\ AnotherRemains'
  <2>1. LastAdminKept'
    BY <1>1, <1>2, <1>3 DEF LastAdminKept, SomebodyAdministers
  <2>2. AccountsKnown'
    BY <1>2 DEF AccountsKnown
  <2>3. AnotherRemains'
    <3>1. ASSUME NEW c \in Browser, Removing(c)', ~rivals PROVE \E v \in Admins' : v # req'[c].on
      BY <1>2, <1>6, <3>1 DEF AccountsOK, AnotherRemains
    <3> QED BY <1>1, <3>1 DEF AnotherRemains
  <2> QED BY <2>1, <2>2, <2>3
<1>9. TokenSpent'
  BY <1>1, <1>3, <1>6 DEF AccountsOK, TokenSpent
<1> QED BY <1>7, <1>8, <1>9 DEF AccountsOK

\* A removal passes its count: with nobody else about to remove, one of those
\* counted stays.
LEMMA RemoveOrPromoteStep ==
  ASSUME AccountsOK, NEW b \in Browser, RemoveOrPromote(b)
  PROVE  AccountsOK'
<1>1. PICK u \in User, op \in {"delete", "setRole"}, role \in {"admin", "viewer"} :
        /\ Exists(u) /\ (row[u].role = "admin" /\ role # "admin" => ~LastOne)
        /\ op = "delete" => role = "viewer"
        /\ ~Busy(b) /\ req' = [req EXCEPT ![b] = Request(op, "write", u, role, 0)]
        /\ UNCHANGED <<row, setupToken, jar, rivals>>
  BY DEF RemoveOrPromote, Send, tables, ghosts
<1>2. /\ req' = [c \in Browser |-> IF c = b THEN req'[b] ELSE req[c]]
      /\ req'[b] = [op |-> op, at |-> "write", on |-> u, arg |-> role, key |-> 0, got |-> 0]
  BY <1>1 DEF AccountsOK, ShapeOK, Request
<1>3. ShapeOK'
  BY <1>1, <1>2 DEF AccountsOK, ShapeOK
<1>4. Admins' = Admins /\ Somebody' = Somebody /\ \A v \in User : Exists(v)' = Exists(v)
  BY <1>1 DEF Admins, Exists, Somebody
<1>5. Admins # {} \/ rivals
  BY <1>1 DEF AccountsOK, AccountsKnown, LastAdminKept, SomebodyAdministers
<1>6. AnotherRemains'
  <2>1. ASSUME Removing(b)', ~rivals PROVE \E v \in Admins : v # u
    <3>1. role # "admin"
      BY <1>1, <1>2, <2>1 DEF Removing, At
    <3>2. CASE row[u].role = "admin"
      BY <1>1, <3>1, <3>2 DEF LastOne
    <3>3. CASE row[u].role # "admin"
      BY <1>5, <2>1, <3>3 DEF Admins
    <3> QED BY <3>2, <3>3
  <2>2. ASSUME NEW c \in Browser \ {b}, Removing(c)' PROVE Removing(c) /\ req'[c] = req[c]
    BY <1>2, <2>2 DEF Removing, At
  <2> QED BY <1>1, <1>2, <1>4, <2>1, <2>2 DEF AccountsOK, AnotherRemains
<1>7. TokenSpent'
  <2>1. \A c \in Browser : At(c, {"setupComplete"}, "spend") => At(c, {"setupComplete"}, "spend")'
    BY <1>1, <1>2 DEF At, Busy
  <2> QED BY <1>1, <1>4, <2>1 DEF AccountsOK, TokenSpent
<1>8. LastAdminKept' /\ AccountsKnown'
  <2>1. \A c \in Browser : jar'[c] = jar[c] /\ (req'[c].op = "verify" => req[c].op = "verify")
    BY <1>1, <1>2
  <2>2. AccountsKnown'
    BY <1>1, <1>4, <2>1 DEF AccountsOK, AccountsKnown
  <2>3. LastAdminKept'
    BY <1>1, <1>4 DEF AccountsOK, LastAdminKept, SomebodyAdministers, Somebody
  <2> QED BY <2>2, <2>3
<1> QED BY <1>3, <1>6, <1>7, <1>8 DEF AccountsOK

\* The first account is an administrator; the token is spent next.
LEMMA CreateAdminStep ==
  ASSUME AccountsOK, CodesOK, NEW b \in Browser, CreateAdmin(b)
  PROVE  AccountsOK'
<1>1. CASE row[owner[b]].id # 0
  <2>1. UNCHANGED <<row, jar, rivals, setupToken>> /\ req' = [req EXCEPT ![b] = Idle(b)]
    BY <1>1 DEF CreateAdmin, Refuse, ghosts
  <2>2. ~At(b, {"setupComplete"}, "spend")
    BY DEF CreateAdmin, At
  <2>3. "none" # "write" /\ "none" # "verify"
    OBVIOUS
  <2>4. ReqCalm(b)
    BY <2>1, <2>2, <2>3, Replaced, Zenon DEF AccountsOK, Idle
  <2>5. RowsCalm /\ JarCalm(b)
    BY <2>1, CookiesCalm DEF AccountsOK, ShapeOK, RowsCalm
  <2> QED BY <2>1, <2>4, <2>5, CalmKeeps DEF PagesCalm
<1>2. CASE row[owner[b]].id = 0
  <2> DEFINE u == owner[b]
  <2>1. u \in User
    BY DEF CodesOK
  <2>2. /\ row' = Inserted(u, "admin", TRUE, 0) /\ req' = [req EXCEPT ![b].at = "spend"]
        /\ req[b].op = "setupComplete" /\ req[b].at = "create"
        /\ UNCHANGED <<setupToken, jar, rivals>>
    BY <1>2 DEF CreateAdmin, Goto, At, ghosts
  <2>3. /\ row' = [v \in User |-> row'[v]]
        /\ \A v \in User :
             row'[v] = [id |-> row'[v].id, exists |-> row'[v].exists, role |-> row'[v].role,
                        pw |-> row'[v].pw, must |-> row'[v].must, totp |-> row'[v].totp,
                        secret |-> row'[v].secret, invite |-> row'[v].invite]
        /\ \A v \in User : Exists(v)' => row'[v].id # 0
        /\ Admins \subseteq Admins' /\ Somebody' /\ u \in Admins'
    BY <1>2, <2>1, <2>2, AccountInserted DEF AccountsOK
  <2>4. ReqCalm(b)
    <3>1. ~At(b, {"setupComplete"}, "spend") /\ "spend" # "write"
      BY <2>2 DEF At
    <3> QED BY <2>2, <3>1, Advanced, Zenon DEF AccountsOK
  <2>5. PagesCalm(b)
    BY <2>2, <2>4, CookiesCalm DEF AccountsOK, PagesCalm
  <2>6. \A c \in Browser : Removing(c)' => Removing(c) /\ req'[c] = req[c]
    BY <2>4, RequestsKept DEF AccountsOK
  <2>7. ShapeOK'
    BY <2>3, <2>5, ShapeKept DEF AccountsOK
  <2>8. LastAdminKept'
    BY <2>3 DEF LastAdminKept, SomebodyAdministers
  <2>9. AccountsKnown'
    BY <2>3 DEF AccountsKnown
  <2>10. AnotherRemains'
    <3>1. ASSUME NEW c \in Browser, Removing(c)', ~rivals PROVE \E v \in Admins' : v # req'[c].on
      BY <2>3, <2>6, <3>1 DEF AccountsOK, AnotherRemains
    <3> QED BY <2>2, <3>1 DEF AnotherRemains
  <2>11. TokenSpent'
    <3>1. At(b, {"setupComplete"}, "spend")'
      BY <2>2 DEF AccountsOK, ShapeOK, At
    <3> QED BY <3>1 DEF TokenSpent
  <2> QED BY <2>7, <2>8, <2>9, <2>10, <2>11 DEF AccountsOK
<1> QED BY <1>1, <1>2

\* Clearing the setup token keeps the accounts sound.
LEMMA SpendTokenStep ==
  ASSUME AccountsOK, NEW b \in Browser, SpendToken(b)
  PROVE  AccountsOK'
<1>1. /\ UNCHANGED <<row, jar, rivals>> /\ setupToken' = 0
      /\ req' = [req EXCEPT ![b].at = "done"] /\ req[b].op = "setupComplete"
  BY DEF SpendToken, Goto, At, ghosts
<1>2. /\ req' = [c \in Browser |-> IF c = b THEN req'[b] ELSE req[c]]
      /\ req'[b] = [op |-> "setupComplete", at |-> "done", on |-> req[b].on, arg |-> req[b].arg,
                    key |-> req[b].key, got |-> req[b].got]
  BY <1>1 DEF AccountsOK, ShapeOK
<1>3. Admins' = Admins /\ Somebody' = Somebody /\ \A v \in User : Exists(v)' = Exists(v)
  BY <1>1 DEF Admins, Exists, Somebody
<1>4. ShapeOK'
  BY <1>1, <1>2 DEF AccountsOK, ShapeOK
<1>5. AnotherRemains'
  <2>1. \A c \in Browser : Removing(c)' => Removing(c) /\ req'[c] = req[c]
    BY <1>2 DEF Removing, At
  <2> QED BY <1>1, <1>3, <2>1 DEF AccountsOK, AnotherRemains
<1>6. AccountsKnown'
  <2>1. \A c \in Browser : jar'[c] = jar[c] /\ (req'[c].op = "verify" => req[c].op = "verify")
    BY <1>1, <1>2
  <2> QED BY <1>1, <1>3, <2>1 DEF AccountsOK, AccountsKnown
<1>7. LastAdminKept' /\ TokenSpent'
  BY <1>1, <1>3 DEF AccountsOK, LastAdminKept, SomebodyAdministers, TokenSpent, Somebody
<1> QED BY <1>4, <1>5, <1>6, <1>7 DEF AccountsOK

\* An account is deleted, or takes a role.
LEMMA RoleWritten ==
  ASSUME ShapeOK, NEW u, NEW role, row' = Deleted(u) \/ row' = RoleSet(u, role)
  PROVE  /\ row' = [v \in User |-> row'[v]]
         /\ \A v \in User :
              row'[v] = [id |-> row'[v].id, exists |-> row'[v].exists, role |-> row'[v].role,
                         pw |-> row'[v].pw, must |-> row'[v].must, totp |-> row'[v].totp,
                         secret |-> row'[v].secret, invite |-> row'[v].invite]
         /\ \A v \in User : row'[v].id = row[v].id /\ (Exists(v)' => Exists(v)) /\ (v # u => row'[v] = row[v])
         /\ row' = RoleSet(u, role) /\ role = "admin" => Admins \subseteq Admins'
         /\ row' = Deleted(u) \/ role # "admin" => Admins' \subseteq Admins
<1>1. PICK f : f = FALSE
  OBVIOUS
<1>2. PICK d : d = [row EXCEPT ![u].exists = f]
  OBVIOUS
<1>3. Deleted(u) = d
  BY <1>1, <1>2, Zenon DEF Deleted
<1>4. /\ d = [v \in User |-> d[v]]
      /\ \A v \in User : d[v] = [id |-> row[v].id, exists |-> IF v = u THEN f ELSE row[v].exists,
                                 role |-> row[v].role, pw |-> row[v].pw, must |-> row[v].must,
                                 totp |-> row[v].totp, secret |-> row[v].secret, invite |-> row[v].invite]
  <2>1. d = [v \in User |-> d[v]] /\ \A v \in User : v # u => d[v] = row[v]
    BY <1>2 DEF ShapeOK
  <2>2. ASSUME u \in User
        PROVE  d[u] = [id |-> row[u].id, exists |-> f, role |-> row[u].role, pw |-> row[u].pw,
                       must |-> row[u].must, totp |-> row[u].totp, secret |-> row[u].secret,
                       invite |-> row[u].invite]
    BY <1>2, <2>2 DEF ShapeOK
  <2> QED BY <2>1, <2>2 DEF ShapeOK
<1>5. PICK e : e = [row EXCEPT ![u] = [row[u] EXCEPT !.role = role]]
  OBVIOUS
<1>6. RoleSet(u, role) = e \/ RoleSet(u, role) = row
  BY <1>5 DEF RoleSet, Updated
<1>7. /\ e = [v \in User |-> e[v]]
      /\ \A v \in User : e[v] = [id |-> row[v].id, exists |-> row[v].exists,
                                 role |-> IF v = u THEN role ELSE row[v].role, pw |-> row[v].pw,
                                 must |-> row[v].must, totp |-> row[v].totp, secret |-> row[v].secret,
                                 invite |-> row[v].invite]
  <2>1. e = [v \in User |-> e[v]] /\ \A v \in User : v # u => e[v] = row[v]
    BY <1>5 DEF ShapeOK
  <2>2. ASSUME u \in User
        PROVE  e[u] = [id |-> row[u].id, exists |-> row[u].exists, role |-> role, pw |-> row[u].pw,
                       must |-> row[u].must, totp |-> row[u].totp, secret |-> row[u].secret,
                       invite |-> row[u].invite]
    BY <1>5, <2>2 DEF ShapeOK
  <2> QED BY <2>1, <2>2 DEF ShapeOK
<1>8. CASE row' = d
  <2>1. \A v \in User : (Exists(v)' => Exists(v)) /\ (v # u => row'[v] = row[v])
    <3>1. ~f
      BY <1>1
    <3>2. \A v \in User : row'[v].exists = IF v = u THEN f ELSE row[v].exists
      BY <1>4, <1>8
    <3>3. \A v \in User : v # u => row'[v] = row[v]
      BY <1>4, <1>8 DEF ShapeOK
    <3>4. \A v \in User : v = u => ~Exists(v)'
      BY <3>1, <3>2, Zenon DEF Exists
    <3> QED BY <3>3, <3>4 DEF Exists
  <2>2. \A v \in User : row'[v].id = row[v].id /\ row'[v].role = row[v].role
    BY <1>4, <1>8
  <2>3. \A v \in User : row'[v] = [id |-> row'[v].id, exists |-> row'[v].exists, role |-> row'[v].role,
                         pw |-> row'[v].pw, must |-> row'[v].must, totp |-> row'[v].totp,
                         secret |-> row'[v].secret, invite |-> row'[v].invite]
    BY <1>4, <1>8
  <2>4. Admins' \subseteq Admins
    BY <2>1, <2>2 DEF Admins
  <2>5. row' = RoleSet(u, role) /\ role = "admin" => Admins \subseteq Admins'
    <3>1. ASSUME row' = RoleSet(u, role), role = "admin", NEW v \in Admins PROVE v \in Admins'
      <4>1. CASE v # u
        BY <2>1, <4>1 DEF Admins, Exists
      <4>2. CASE v = u
        <5>1. Exists(u) /\ u \in User
          BY <4>2 DEF Admins
        <5>2. row' = e
          BY <1>5, <3>1, <5>1 DEF RoleSet, Updated
        <5>3. row'[u].exists = row[u].exists /\ row'[u].role = "admin"
          BY <1>7, <3>1, <5>1, <5>2
        <5> QED BY <4>2, <5>1, <5>3 DEF Admins, Exists
      <4> QED BY <4>1, <4>2
    <3> QED BY <3>1
  <2> QED BY <1>4, <1>8, <2>1, <2>2, <2>3, <2>4, <2>5
<1>9. CASE row' = row
  BY <1>9 DEF ShapeOK, Admins, Exists
<1>10. CASE row' = e
  <2>1. \A v \in User : /\ row'[v].id = row[v].id /\ row'[v].exists = row[v].exists
                        /\ row'[v].role = IF v = u THEN role ELSE row[v].role
    BY <1>7, <1>10
  <2>2. \A v \in User : v # u => row'[v] = row[v]
    BY <1>7, <1>10 DEF ShapeOK
  <2>3. \A v \in User : row'[v] = [id |-> row'[v].id, exists |-> row'[v].exists, role |-> row'[v].role,
                         pw |-> row'[v].pw, must |-> row'[v].must, totp |-> row'[v].totp,
                         secret |-> row'[v].secret, invite |-> row'[v].invite]
    BY <1>7, <1>10
  <2>4. role = "admin" => Admins \subseteq Admins'
    BY <2>1 DEF Admins, Exists
  <2>5. role # "admin" => Admins' \subseteq Admins
    BY <2>1 DEF Admins, Exists
  <2>6. row' = Deleted(u) => Admins' \subseteq Admins
    BY <1>3, <1>8
  <2> QED BY <1>7, <1>10, <2>1, <2>2, <2>3, <2>4, <2>5, <2>6 DEF Exists
<1> QED BY <1>3, <1>6, <1>8, <1>9, <1>10

\* The removal itself.  It leaves the administrator that AnotherRemains promises,
\* also to other removals of the same account; past the count of a removal of
\* somebody else, rivals tells.
LEMMA RoleWriteStep ==
  ASSUME AccountsOK, NEW b \in Browser, RoleWrite(b)
  PROVE  AccountsOK'
<1> DEFINE u == req[b].on
           role == req[b].arg
<1>1. /\ row' = Deleted(u) \/ row' = RoleSet(u, role)
      /\ row' = RoleSet(u, role) \/ req[b].op = "delete"
      /\ row' = Deleted(u) \/ req[b].op # "delete"
      /\ req[b].op \in {"delete", "setRole"} /\ req[b].at = "write"
      /\ UNCHANGED <<setupToken, jar>>
  BY DEF RoleWrite, At
<1>2. rivals' = (rivals \/ (Removing(b) /\ \E c \in Browser : Removing(c) /\ req[c].on # u))
  BY DEF RoleWrite
<1>3. PICK at : req' = [req EXCEPT ![b].at = at] /\ at # "write"
  <2>1. PICK at : req' = [req EXCEPT ![b].at = at] /\ at \in {"codes", "done"}
    BY DEF RoleWrite, Goto
  <2> QED BY <2>1
<1>4. /\ row' = [v \in User |-> row'[v]]
      /\ \A v \in User :
           row'[v] = [id |-> row'[v].id, exists |-> row'[v].exists, role |-> row'[v].role,
                      pw |-> row'[v].pw, must |-> row'[v].must, totp |-> row'[v].totp,
                      secret |-> row'[v].secret, invite |-> row'[v].invite]
      /\ \A v \in User : row'[v].id = row[v].id /\ (Exists(v)' => Exists(v)) /\ (v # u => row'[v] = row[v])
      /\ row' = RoleSet(u, role) /\ role = "admin" => Admins \subseteq Admins'
      /\ row' = Deleted(u) \/ role # "admin" => Admins' \subseteq Admins
  <2> HIDE DEF u, role
  <2> QED BY <1>1, RoleWritten DEF AccountsOK
<1>5. ~At(b, {"setupComplete"}, "spend")
  BY <1>1 DEF At
<1>6. ReqCalm(b)
  BY <1>3, <1>5, Advanced DEF AccountsOK
<1>7. PagesCalm(b)
  BY <1>1, <1>6, CookiesCalm DEF AccountsOK, PagesCalm
<1>8. ShapeOK'
  BY <1>4, <1>7, ShapeKept DEF AccountsOK
<1>9. req'[b].at # "write"
  BY <1>3 DEF AccountsOK, ShapeOK
<1>10. /\ \A c \in Browser : Removing(c)' => c # b /\ Removing(c) /\ req'[c] = req[c]
       /\ \A c \in Browser : At(c, {"setupComplete"}, "spend") => At(c, {"setupComplete"}, "spend")'
  <2>1. ~Removing(b)'
    BY <1>9 DEF Removing, At
  <2> QED BY <1>6, <2>1, RequestsKept DEF AccountsOK
<1>11. Somebody' = Somebody
  BY <1>4 DEF Somebody
<1>12. AccountsKnown'
  <2>1. \A c \in Browser : jar'[c].sess # "none" \/ req'[c].op = "verify" => Somebody
    BY <1>7 DEF AccountsOK, AccountsKnown, PagesCalm, ReqCalm, JarCalm
  <2>2. \A v \in User : Exists(v)' => row'[v].id # 0
    BY <1>4 DEF AccountsOK, AccountsKnown
  <2> QED BY <1>11, <2>1, <2>2 DEF AccountsKnown
<1>13. rivals => rivals'
  BY <1>2
<1>14. Admins' # {} => Admins # {}  \/ rivals
  BY <1>4, <1>11 DEF AccountsOK, AccountsKnown, LastAdminKept, SomebodyAdministers, Somebody, Admins
<1>15. TokenSpent'
  BY <1>1, <1>10, <1>13, <1>14 DEF AccountsOK, TokenSpent
<1>16. CASE Removing(b)
  <2>1. CASE rivals'
    BY <1>8, <1>12, <1>15, <2>1 DEF AccountsOK, LastAdminKept, SomebodyAdministers, AnotherRemains
  <2>2. CASE ~rivals'
    <3>1. \A c \in Browser : Removing(c)' => req'[c].on = u
      BY <1>2, <1>10, <1>16, <2>2
    <3>2. PICK v \in Admins : v # u
      BY <1>13, <1>16, <2>2 DEF AccountsOK, AnotherRemains
    <3>3. v \in Admins'
      BY <1>4, <3>2 DEF Admins, Exists
    <3>4. AnotherRemains'
      BY <3>1, <3>2, <3>3, Zenon DEF AnotherRemains
    <3>5. LastAdminKept'
      BY <3>3 DEF LastAdminKept, SomebodyAdministers
    <3> QED BY <1>8, <1>12, <1>15, <3>4, <3>5 DEF AccountsOK
  <2> QED BY <2>1, <2>2
<1>17. CASE ~Removing(b)
  <2>1. row' = RoleSet(u, role) /\ role = "admin"
    BY <1>1, <1>17 DEF Removing, At
  <2>2. Admins \subseteq Admins'
    BY <1>4, <2>1
  <2>3. LastAdminKept'
    BY <1>11, <1>13, <2>2 DEF AccountsOK, LastAdminKept, SomebodyAdministers, Somebody
  <2>4. AnotherRemains'
    <3>1. ASSUME NEW c \in Browser, Removing(c)', ~rivals PROVE \E v \in Admins' : v # req'[c].on
      BY <1>10, <2>2, <3>1 DEF AccountsOK, AnotherRemains
    <3> QED BY <1>13, <3>1 DEF AnotherRemains
  <2> QED BY <1>8, <1>12, <1>15, <2>3, <2>4 DEF AccountsOK
<1> QED BY <1>16, <1>17

\* The process restarts: its requests are gone, and the token is cleared once
\* somebody administers.
LEMMA RestartStep ==
  ASSUME AccountsOK, Restart \/ RestartResettingMfa
  PROVE  AccountsOK'
<1>1. /\ req' = [b \in Browser |-> Idle(b)] /\ UNCHANGED <<jar, rivals>>
      /\ Admins # {} => setupToken' = 0
  BY DEF Restart, RestartResettingMfa
<1>2. RowsCalm
  <2>1. UNCHANGED row \/ \E u : row' = MfaErased(u)
    BY DEF Restart, RestartResettingMfa
  <2> QED BY <2>1, StatementsCalm, Zenon DEF AccountsOK
<1>3. /\ Admins' = Admins /\ Somebody' = Somebody
      /\ \A u \in User : Exists(u)' = Exists(u) /\ row'[u].id = row[u].id
  BY <1>2, RowsKept
<1>4. ASSUME NEW b \in Browser
      PROVE  /\ req'[b] = [op |-> req'[b].op, at |-> req'[b].at, on |-> req'[b].on, arg |-> req'[b].arg,
                           key |-> req'[b].key, got |-> req'[b].got]
             /\ req'[b].op = "none" /\ req'[b].at = "none"
  <2>1. PICK r : r = Idle(b)
    OBVIOUS
  <2>2. r = [op |-> "none", at |-> "none", on |-> owner[b], arg |-> "none", key |-> 0, got |-> 0]
    BY <2>1 DEF Idle, Request
  <2>3. r = [op |-> r.op, at |-> r.at, on |-> r.on, arg |-> r.arg, key |-> r.key, got |-> r.got]
    BY <2>2
  <2>4. req'[b] = r
    BY <1>1, <2>1
  <2>5. r.op = "none" /\ r.at = "none"
    BY <2>2
  <2> QED BY <2>3, <2>4, <2>5
<1>5. ShapeOK'
  <2>1. \A u \in User :
       row'[u] = [id |-> row'[u].id, exists |-> row'[u].exists, role |-> row'[u].role, pw |-> row'[u].pw,
                 must |-> row'[u].must, totp |-> row'[u].totp, secret |-> row'[u].secret,
                 invite |-> row'[u].invite]
    BY <1>2 DEF RowsCalm
  <2>2. \A b \in Browser :
       req'[b] = [op |-> req'[b].op, at |-> req'[b].at, on |-> req'[b].on, arg |-> req'[b].arg,
                 key |-> req'[b].key, got |-> req'[b].got]
    BY <1>4
  <2>3. row' = [u \in User |-> row'[u]] /\ req' = [b \in Browser |-> req'[b]]
    BY <1>1, <1>2 DEF RowsCalm
  <2> QED BY <1>1, <2>1, <2>2, <2>3 DEF AccountsOK, ShapeOK
<1>6. AnotherRemains'
  BY <1>4 DEF AnotherRemains, Removing, At
<1>7. AccountsKnown'
  BY <1>1, <1>3, <1>4 DEF AccountsOK, AccountsKnown
<1>8. LastAdminKept' /\ TokenSpent'
  BY <1>1, <1>3 DEF AccountsOK, LastAdminKept, SomebodyAdministers, TokenSpent, Somebody
<1> QED BY <1>5, <1>6, <1>7, <1>8 DEF AccountsOK

\* Every step keeps the invariant.
LEMMA NextIInv == IInv /\ [Next]_vars => IInv'
<1>1. SUFFICES ASSUME AccountsOK, CodesOK, [Next]_vars PROVE AccountsOK'
  BY CodesStep DEF IInv, AccountsOK
<1>2. ASSUME NEW b \in Browser, Person(b) \/ QuietHandler(b) \/ Answer(b) \/ ResetMfa(b) \/ ImposePassword(b)
      PROVE  AccountsOK'
  BY <1>1, <1>2, PersonCalm, HandlerCalm, AnswerCalm, ResetCalm, CalmKeeps
<1>3. ASSUME NEW b \in Browser, Administration(b) PROVE AccountsOK'
  BY <1>1, <1>2, <1>3, InviteStep, RemoveOrPromoteStep DEF Administration
<1>4. ASSUME NEW b \in Browser, Handler(b) PROVE AccountsOK'
  BY <1>1, <1>2, <1>4, CreateAdminStep, SpendTokenStep, RoleWriteStep DEF Handler, QuietHandler
<1>5. CASE Restart \/ RestartResettingMfa
  BY <1>1, <1>5, RestartStep
<1>6. CASE Expire \/ UNCHANGED vars
  BY <1>1, <1>6
     DEF Expire, vars, tables, pages, people, ghosts, AccountsOK, ShapeOK, LastAdminKept, SomebodyAdministers, AnotherRemains,
         AccountsKnown, TokenSpent, Admins, Exists, Somebody, Removing, At
<1> QED BY <1>1, <1>2, <1>3, <1>4, <1>5, <1>6 DEF Next

-----------------------------------------------------------------------------
(* The theorems *)

\* What a request past its check may still rely on.
THEOREM Reliance == Spec => []IInv
<1>1. IInv /\ [Next]_vars => IInv'
  BY NextIInv
<1> QED BY InitIInv, <1>1, PTL DEF Spec

\* ConsumeUserBackupCodeMatch accepts a backup code for one login only.
THEOREM CodesOnce == Spec => []BackupCodeOnce
<1>1. IInv => BackupCodeOnce
  BY DEF IInv, CodesOK, BackupCodeOnce
<1> QED BY <1>1, Reliance, PTL

\* The counts before HandleUsersDelete and HandleUserRole keep an administrator, as
\* long as the removals of two of them do not overlap.
THEOREM AdminRemains == Spec => []LastAdminKept
<1>1. IInv => LastAdminKept
  BY DEF IInv
<1> QED BY <1>1, Reliance, PTL

\* The token of the first setup is of no use once there is an administrator and the
\* requests of the setup have ended.
THEOREM SetupCloses == Spec => []SetupClosed
<1>1. IInv => SetupClosed
  BY DEF IInv, TokenSpent, SetupClosed, At
<1> QED BY <1>1, Reliance, PTL
=============================================================================
