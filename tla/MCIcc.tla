------------------------------- MODULE MCIcc -------------------------------
(* Two threads against one client protocol, the reserved protocols and the  *)
(* message queue of one CPU, with two buffers each: two receives can meet   *)
(* on a device, a message can meet a watchdog expiry, and a third unread    *)
(* message reaches PANIC().  Values and threads are not declared symmetric, *)
(* for the runs check liveness.                                             *)
EXTENDS Icc
=============================================================================
