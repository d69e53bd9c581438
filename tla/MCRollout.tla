------------------------------ MODULE MCRollout ------------------------------
(***************************************************************************)
(* Instances of Rollout for TLC: two services, the images they may be      *)
(* updated to, and the settings under which each image passes or fails.    *)
(***************************************************************************)
EXTENDS Rollout

CONSTANTS a1, a2, r1, r2, r3, old, fresh, broken, rejected

\* old: what both services run at first, which no longer passes for a2.
\* fresh: passes for a1, which accepts its critical CVE, and not for a2.
\* broken: passes and exits at once.   rejected: passes and does not start.
MCReport ==
  [d \in Digest |->
     IF d = fresh THEN {[cve |-> "CVE-1", severity |-> "CRITICAL"],
                        [cve |-> "CVE-2", severity |-> "MEDIUM"]}
     ELSE IF d = old THEN {[cve |-> "CVE-1", severity |-> "CRITICAL"]}
     ELSE {}]

MCBoot ==
  [d \in Digest |->
     CASE d = broken -> "crashes" [] d = rejected -> "refuses" [] OTHER -> "runs"]

MCFirstImage == [a \in App |-> old]

MCWorkload == [a \in App |-> [root |-> a = a1, privileged |-> FALSE]]

MCGlobal == [maxSev |-> "HIGH", allowRoot |-> "no", allowPrivileged |-> "no"]

MCOverride ==
  [a \in App |->
     IF a = a1
       THEN [maxSev |-> "unset", allowRoot |-> "yes", allowPrivileged |-> "unset"]
       ELSE [maxSev |-> "CRITICAL", allowRoot |-> "unset", allowPrivileged |-> "unset"]]

MCExcepted == [a \in App |-> IF a = a1 THEN {"CVE-1"} ELSE {}]

MCExceptedForAll == {"CVE-2"}

\* One request per service, and a third that follows the one on a1 and is aimed
\* at what it left: the old container after a rollback, else the new one.
OneEach ==
  [r \in Request |-> CASE r = r1 -> {a1} [] r = r2 -> {a2} [] OTHER -> {a1, r1}]

InTurn == [r \in Request |-> IF r = r3 THEN {r1} ELSE {}]

AtOnce == [r \in Request |-> {}]

\* Every request may be aimed at any container.
AnyContainer == [r \in Request |-> Container]
=============================================================================
