--------------------------- MODULE ServiceContract ---------------------------
(***************************************************************************)
(* What an update promises to the users of a service, without Docker,      *)
(* without requests and without rollback (docs/architecture.md, pillar 3): *)
(* a service may be down for a while, and when it comes back it runs       *)
(* either the version it ran before or one that the security policy        *)
(* admits for it.  It never stays down.                                    *)
(***************************************************************************)

CONSTANTS
  Service,      \* the services, named as their users know them
  Version,      \* the versions a service can run
  Admitted(_,_) \* Admitted(s, v): the policy lets v be deployed for s

VARIABLES
  up,           \* up[s]: s answers under its own name
  version       \* version[s]: the version s runs, or ran before it went down

vars == <<up, version>>

TypeOK ==
  /\ up \in [Service -> BOOLEAN]
  /\ version \in [Service -> Version]

Init ==
  /\ up = [s \in Service |-> TRUE]
  /\ version \in [Service -> Version]

TakeDown(s) ==
  /\ up[s]
  /\ up' = [up EXCEPT ![s] = FALSE]
  /\ UNCHANGED version

\* The old version comes back.
Restore(s) ==
  /\ ~up[s]
  /\ up' = [up EXCEPT ![s] = TRUE]
  /\ UNCHANGED version

\* An admitted version takes over.
Switch(s) ==
  /\ ~up[s]
  /\ up' = [up EXCEPT ![s] = TRUE]
  /\ \E v \in Version :
       /\ Admitted(s, v)
       /\ version' = [version EXCEPT ![s] = v]

BringUp(s) == Restore(s) \/ Switch(s)

Next == \E s \in Service : TakeDown(s) \/ BringUp(s)

Spec == Init /\ [][Next]_vars /\ \A s \in Service : WF_vars(BringUp(s))
=============================================================================
