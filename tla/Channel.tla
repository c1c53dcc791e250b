------------------------------ MODULE Channel ------------------------------
(***************************************************************************)
(* What the CPU FIFO driver promises to its callers: an unbounded, ordered,*)
(* lossless channel towards another CPU.  A send that is answered OK puts  *)
(* its message at the end of the channel; a send may be refused, and then  *)
(* has no effect, only while at least Capacity messages are undelivered;   *)
(* messages leave from the front, and every one of them finally leaves.    *)
(***************************************************************************)
EXTENDS Naturals, Sequences

CONSTANTS Msg,        \* the words that can be sent
          Capacity    \* a send may be refused from this backlog on

VARIABLES chan,       \* accepted and not yet delivered, oldest first
          result      \* how the last send was answered

chanVars == <<chan, result>>

Init == chan = <<>> /\ result = "none"

Send(m) == /\ chan' = Append(chan, m)
           /\ result' = "OK"

Refuse == /\ Len(chan) >= Capacity
          /\ result' = "EAGAIN"
          /\ UNCHANGED chan

Deliver == /\ chan # <<>>
           /\ chan' = Tail(chan)
           /\ UNCHANGED result

Next == (\E m \in Msg : Send(m)) \/ Refuse \/ Deliver

Safe == Init /\ [][Next]_chanVars

Spec == Safe /\ WF_chanVars(Deliver)
=============================================================================
