------------------------------- MODULE MCRpc -------------------------------
(* Two system control callers and one far API caller before a FIFO of two   *)
(* words and one entry, which the other traffic can fill at any moment.     *)
EXTENDS Rpc
=============================================================================
