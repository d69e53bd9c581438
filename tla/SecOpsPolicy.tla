---------------------------- MODULE SecOpsPolicy ----------------------------
(***************************************************************************)
(* The verdict of SafeDock's staging pipeline on one image                 *)
(* (internal/deployer/lifecycle.go): which settings apply to a container,  *)
(* which vulnerabilities count once the accepted risks are taken out, and  *)
(* whether the image may replace the one in production.                    *)
(*                                                                         *)
(* A scan report is a set of findings [cve, severity].  The verdict only   *)
(* tests whether a counter is positive, so the number of packages a CVE    *)
(* was found in is abstracted away.                                        *)
(***************************************************************************)

\* Severities of a parsed report: whatever the scanner prints that is not one
\* of the four names is counted as "UNKNOWN".
Severity == {"CRITICAL", "HIGH", "MEDIUM", "LOW", "UNKNOWN"}

\* Thresholds the policy knows.  The column is free text, so a container may
\* also carry a value outside this set.
Threshold == {"CRITICAL", "HIGH", "MEDIUM", "LOW", "NONE"}

\* The severities that block an update at a threshold.  A threshold is the
\* lowest severity refused; a value the switch does not know refuses nothing.
Blocking(threshold) ==
  CASE threshold = "CRITICAL" -> {"CRITICAL"}
    [] threshold = "HIGH"     -> {"CRITICAL", "HIGH"}
    [] threshold = "MEDIUM"   -> {"CRITICAL", "HIGH", "MEDIUM"}
    [] threshold = "LOW"      -> {"CRITICAL", "HIGH", "MEDIUM", "LOW"}
    [] threshold = "NONE"     -> Severity
    [] OTHER                  -> {}

\* effectiveCounts: the findings left once the accepted CVEs are removed.
Effective(report, excepted) == {f \in report : f.cve \notin excepted}

\* The settings in force: every field a container overrides replaces the
\* global one.  "unset" stands for the empty string and for SQL NULL.
Resolve(global, override) ==
  [field \in DOMAIN global |->
     IF override[field] = "unset" THEN global[field] ELSE override[field]]

RootRule(settings, workload) ==
  workload.root => settings.allowRoot = "yes"

PrivilegedRule(settings, workload) ==
  workload.privileged => settings.allowPrivileged = "yes"

CveRule(settings, report, excepted) ==
  \A f \in Effective(report, excepted) : f.severity \notin Blocking(settings.maxSev)

\* Rules 5a, 5b and 5c.  A later rule is only evaluated when the earlier ones
\* passed, which changes the reason given and not the verdict.
Complies(settings, workload, report, excepted) ==
  /\ RootRule(settings, workload)
  /\ PrivilegedRule(settings, workload)
  /\ CveRule(settings, report, excepted)
=============================================================================
