----------------------------- MODULE ByteQueue -----------------------------
(***************************************************************************)
(* What a simple FIFO promises: a bounded queue of bytes.  An offer puts   *)
(* all of its bytes at the end, or is given up; only one that keeps them   *)
(* together may leave a gap of meaningless ones before them.  A poll takes *)
(* all of its bytes from the front and hands them out, or discards them.   *)
(***************************************************************************)
EXTENDS Naturals, Sequences

CONSTANTS Byte,       \* the bytes
          Capacity    \* how many of them the queue can hold

VARIABLES queue,      \* oldest first
          in,         \* what the producer is offering
          whole,      \* and whether it keeps that together
          out         \* what the last poll handed out

queueVars == <<queue, in, whole, out>>

Init == queue = <<>> /\ in = <<>> /\ whole = FALSE /\ out = <<>>

\* Strings of at most n bytes.
UpTo(n) == UNION {[1 .. k -> Byte] : k \in 0 .. n}

Offer(d) == in = <<>> /\ in' = d /\ whole' \in BOOLEAN /\ UNCHANGED <<queue, out>>

GiveUp == in' = <<>> /\ whole' = FALSE /\ UNCHANGED <<queue, out>>

Put == \E gap \in IF whole THEN UpTo(Capacity) ELSE {<<>>} :
         /\ in # <<>> /\ Len(queue) + Len(gap) + Len(in) <= Capacity
         /\ queue' = queue \o gap \o in /\ in' = <<>> /\ whole' = FALSE
         /\ UNCHANGED out

Poll(n) == /\ n <= Len(queue)
           /\ out' \in {<<>>, SubSeq(queue, 1, n)}
           /\ queue' = SubSeq(queue, n + 1, Len(queue))
           /\ UNCHANGED <<in, whole>>

Clear == queue' = <<>> /\ in' = <<>> /\ whole' = FALSE /\ out' = <<>>

Next == \/ \E d \in UpTo(Capacity) : Offer(d)
        \/ GiveUp \/ Put
        \/ \E n \in 1 .. Capacity : Poll(n)
        \/ Clear

Spec == Init /\ [][Next]_queueVars
=============================================================================
