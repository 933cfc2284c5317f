----------------------------- MODULE MCAdminTools -----------------------------
(***************************************************************************)
(* The programs that an administrator runs by hand, for TLC.  HarborInit   *)
(* and Redirects share nothing, so a behaviour is one of the one or the    *)
(* other.                                                                  *)
(***************************************************************************)
EXTENDS HarborInit, Redirects

CONSTANTS r1, r2, g1, g2

TwoRuns == {r1, r2}
TwoProjects == {g1, g2}
ThreePaths == {"a", "b", "c"}
TwoSecrets == {"s1", "s2"}

VARIABLE tool

AdminInit == /\ tool \in {"harbor-init", "generate-redirects"}
             /\ Init
             /\ RedirectInit

AdminNext == \/ /\ tool = "harbor-init"
                /\ Next
                /\ UNCHANGED <<redirectVars, tool>>
             \/ /\ tool = "generate-redirects"
                /\ RedirectNext
                /\ UNCHANGED <<vars, tool>>

AdminSpec == AdminInit /\ [][AdminNext]_<<tool, vars, redirectVars>> /\ Fairness
=============================================================================
