------------------------------ MODULE Accounts ------------------------------
(***************************************************************************)
(* The accounts of SafeDock as its database holds them (internal/db):      *)
(* one row per account, the backup codes not used yet, and the token of    *)
(* the first-run setup.  SQLite has one connection, so every statement is  *)
(* atomic; the operators below are the statements the handlers execute,    *)
(* each as the value a table takes.                                        *)
(***************************************************************************)
EXTENDS Naturals, FiniteSets

CONSTANT User   \* the e-mail addresses accounts are made for

ASSUME AccountsAssumption == IsFiniteSet(User)

VARIABLES
  row,        \* row[u]: the row of u in the table of accounts
  codes,      \* the unused backup codes, each <<account, number>>
  setupToken, \* the token of the first-run setup, 0 when there is none
  made        \* made[u]: secrets, code sets and links generated for u so far

tables == <<row, codes, setupToken, made>>

\* id numbers the rows in the order of their creation, 0 before; an address is
\* used for one row only.  secret and invite are 0 when empty.  pw tells that a
\* password is set: its holder knows it.
Row ==
  [id : Nat, exists : BOOLEAN, role : {"admin", "viewer"}, pw : BOOLEAN,
   must : BOOLEAN, totp : BOOLEAN, secret : Nat, invite : Nat]

NoRow ==
  [id |-> 0, exists |-> FALSE, role |-> "viewer", pw |-> FALSE,
   must |-> FALSE, totp |-> FALSE, secret |-> 0, invite |-> 0]

Exists(u) == row[u].exists

\* CountAdmins, as the set it counts.
Admins == {u \in User : Exists(u) /\ row[u].role = "admin"}

\* A random value no earlier one for u equals.
Fresh(u) == made[u] + 1

NextId == 1 + Cardinality({u \in User : row[u].id # 0})

\* INSERT INTO users; the addresses are unique.
Inserted(u, role, pw, invite) ==
  [row EXCEPT ![u] = [NoRow EXCEPT !.id = NextId, !.exists = TRUE, !.role = role,
                                   !.pw = pw, !.invite = invite]]

\* UPDATE users ... WHERE id = u: nothing when the row is gone.
Updated(u, new) == IF Exists(u) THEN [row EXCEPT ![u] = new] ELSE row

PasswordSet(u, must) == Updated(u, [row[u] EXCEPT !.pw = TRUE, !.must = must])

\* A new secret waits for its first code.
SecretStored(u, s) == Updated(u, [row[u] EXCEPT !.secret = s, !.totp = FALSE])

MfaEnabled(u) == Updated(u, [row[u] EXCEPT !.totp = TRUE])

MfaErased(u) == Updated(u, [row[u] EXCEPT !.secret = 0, !.totp = FALSE])

InviteStored(u, n) == Updated(u, [row[u] EXCEPT !.invite = n])

RoleSet(u, role) == Updated(u, [row[u] EXCEPT !.role = role])

Deleted(u) == [row EXCEPT ![u].exists = FALSE]

WithoutCodesOf(u) == {c \in codes : c[1] # u}

\* What GetUserAuth must find for an account to be finalised through the login
\* page; HasPendingInvite is read by a statement of its own.
AwaitsMfa(u) == Exists(u) /\ row[u].pw /\ ~row[u].totp

Invited(u) == Exists(u) /\ row[u].invite # 0

\* GetFirstAdmin: the oldest administrator.
FirstAdmin == CHOOSE u \in Admins : \A v \in Admins : row[u].id <= row[v].id
=============================================================================
