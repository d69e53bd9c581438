----------------------------- MODULE MCReports -----------------------------
(* A small instance of Reports for TLC. *)
EXTENDS Reports

Scenario(d, a, u, f, w) == [days |-> d, asks |-> a, updates |-> u, faults |-> f, writes |-> w]

\* A person who scans again and again, and a scan, a save or the process that fails; one
\* who sets the scanner meanwhile; a person, an update and a failure; a person and one
\* night, or two; a night and two updates; a person, a night and a failure.
MCScenarios ==
    {Scenario(0, 3, 0, 1, 0), Scenario(0, 2, 0, 0, 1), Scenario(0, 1, 1, 1, 0),
     Scenario(1, 2, 0, 0, 0), Scenario(2, 1, 0, 0, 0), Scenario(1, 0, 2, 0, 0),
     Scenario(1, 1, 0, 1, 0)}

\* A person and an update, nothing that fails.
MCMemory == {Scenario(0, 2, 1, 0, 0)}
=============================================================================
