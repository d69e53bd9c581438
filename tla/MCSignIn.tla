------------------------------ MODULE MCSignIn ------------------------------
(***************************************************************************)
(* The instance of SignIn that TLC checks.  The browsers are alike: who    *)
(* owns them is chosen in the initial state.                               *)
(***************************************************************************)
EXTENDS SignIn, TLC

CONSTANTS op, ann, b1, b2

\* The operator enrols, may be reset and start to enrol again; the other person is
\* invited and enrols, or is invited again meanwhile.
MCMaxMade == (op :> 4) @@ (ann :> 3)

BrowserSymmetry == Permutations(Browser)
=============================================================================
