---------------------------- MODULE MCDeployment ----------------------------
(* Two terminals on one project.                                              *)
EXTENDS Deployment, TLC

CONSTANTS t1, t2

TwoTerminals == {t1, t2}
=============================================================================
