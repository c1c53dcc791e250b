----------------------------- MODULE MCFreqLock -----------------------------
(* Two threads, a lock for each voltage and one for both: a release may or  *)
(* may not change what is wanted, and two threads may share a lock.  A      *)
(* single other message in the channel is enough to refuse a request.       *)
EXTENDS FreqLock
=============================================================================
