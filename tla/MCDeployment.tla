---------------------------- MODULE MCDeployment ----------------------------
(* A small instance of Deployment, and of Attendance within it, for TLC.  *)
EXTENDS Deployment
=============================================================================
