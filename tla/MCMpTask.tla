------------------------------ MODULE MCMpTask ------------------------------
(* Task objects outnumber or match two CPUs, so that a CPU and its device    *)
(* get a second user, a task may find no CPU, and one may hold both.         *)
EXTENDS MpTask
=============================================================================
