----------------------------- MODULE MCCpuFifo -----------------------------
(* A PUSH FIFO of two words before three entries: every queue can be empty, *)
(* partly filled and full, and an entry is reused while another is parked. *)
EXTENDS CpuFifo
=============================================================================
