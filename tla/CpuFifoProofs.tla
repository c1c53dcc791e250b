--------------------------- MODULE CpuFifoProofs ---------------------------
(***************************************************************************)
(* Proofs about CpuFifo for every depth, every number of entries and every *)
(* set of messages.  IInv is inductive; the safety invariants are its      *)
(* conjuncts, and it is what the refinement of Channel needs: an entry     *)
(* that cpufifo_reserve takes is not one whose word is still parked, and   *)
(* the handler runs only when the hardware has room.                       *)
(***************************************************************************)
EXTENDS CpuFifo, SequenceTheorems, TLAPS

IInv == TypeOK /\ PoolInv /\ IrqArmedInv

\* cxd56_cfinitialize establishes the invariant.
LEMMA InitIInv == Init => IInv
<1> USE FifoAssumption
<1> SUFFICES ASSUME Init PROVE IInv
  OBVIOUS
<1>1. TypeOK
  <2>1. emptyqueue \in Seq(Entry)
    BY DEF Init, TxInit, Entry
  <2>2. /\ hwPush \in Seq(Msg) /\ Len(hwPush) <= HwDepth
        /\ hwPull \in Seq(Msg) /\ Len(hwPull) <= HwDepth
        /\ pushqueue \in Seq(Entry)
    BY DEF Init, TxInit, RxInit
  <2> QED BY <2>1, <2>2 DEF Init, TxInit, RxInit, TypeOK
<1>2. PoolInv
  BY DEF Init, TxInit, PoolInv, Entry
<1>3. IrqArmedInv
  BY DEF Init, TxInit, IrqArmedInv
<1> QED BY <1>1, <1>2, <1>3 DEF IInv

\* cpufifo_reserve moves one entry and overwrites no parked one.
LEMMA ReserveIInv ==
  ASSUME TypeOK, PoolInv, NEW m \in Msg, Reserve(m)
  PROVE  /\ pushqueue' \in Seq(Entry) /\ emptyqueue' \in Seq(Entry)
         /\ buffer' \in [Entry -> Msg]
         /\ PoolInv' /\ pushqueue' # <<>>
<1> USE FifoAssumption DEF TypeOK
<1>1. /\ Len(emptyqueue) \in Nat \ {0} /\ Head(emptyqueue) \in Entry
      /\ Head(emptyqueue) = emptyqueue[1]
  BY DEF Reserve
<1>2. /\ pushqueue' \in Seq(Entry) /\ emptyqueue' \in Seq(Entry)
      /\ Len(pushqueue') = Len(pushqueue) + 1
      /\ Len(emptyqueue') = Len(emptyqueue) - 1
      /\ \A i \in 1 .. Len(pushqueue) : pushqueue'[i] = pushqueue[i]
      /\ pushqueue'[Len(pushqueue) + 1] = emptyqueue[1]
      /\ \A i \in 1 .. Len(emptyqueue') : emptyqueue'[i] = emptyqueue[i + 1]
  BY <1>1 DEF Reserve
<1>3. buffer' \in [Entry -> Msg]
  BY <1>1 DEF Reserve
<1>4. pushqueue' # <<>>
  BY <1>2
<1>5. PoolInv'
  <2>1. ASSUME NEW i \in 1 .. Len(pushqueue'), NEW j \in 1 .. Len(pushqueue'),
               pushqueue'[i] = pushqueue'[j]
        PROVE  i = j
    <3>1. \A k \in 1 .. Len(pushqueue) : pushqueue'[k] # emptyqueue[1]
      BY <1>1, <1>2 DEF PoolInv
    <3>2. CASE i = Len(pushqueue) + 1 \/ j = Len(pushqueue) + 1
      BY <1>2, <2>1, <3>1, <3>2
    <3>3. CASE i \in 1 .. Len(pushqueue) /\ j \in 1 .. Len(pushqueue)
      BY <1>2, <2>1, <3>3 DEF PoolInv
    <3> QED BY <1>2, <3>2, <3>3
  <2>2. ASSUME NEW i \in 1 .. Len(emptyqueue'), NEW j \in 1 .. Len(emptyqueue'),
               emptyqueue'[i] = emptyqueue'[j]
        PROVE  i = j
    <3>1. /\ i + 1 \in 1 .. Len(emptyqueue) /\ j + 1 \in 1 .. Len(emptyqueue)
          /\ emptyqueue[i + 1] = emptyqueue[j + 1]
      BY <1>1, <1>2, <2>2
    <3>2. i + 1 = j + 1
      BY <3>1 DEF PoolInv
    <3> QED BY <3>2
  <2>3. ASSUME NEW i \in 1 .. Len(pushqueue'), NEW j \in 1 .. Len(emptyqueue')
        PROVE  pushqueue'[i] # emptyqueue'[j]
    <3>1. /\ j + 1 \in 1 .. Len(emptyqueue) /\ 1 \in 1 .. Len(emptyqueue)
          /\ emptyqueue'[j] = emptyqueue[j + 1]
      BY <1>1, <1>2
    <3>2. CASE i = Len(pushqueue) + 1
      <4>1. emptyqueue[1] # emptyqueue[j + 1]
        BY <3>1 DEF PoolInv
      <4> QED BY <1>2, <3>1, <3>2, <4>1
    <3>3. CASE i \in 1 .. Len(pushqueue)
      BY <1>2, <3>1, <3>3 DEF PoolInv
    <3> QED BY <1>2, <3>2, <3>3
  <2>4. Len(pushqueue') + Len(emptyqueue') = NR_PUSHBUFENTRIES
    BY <1>1, <1>2 DEF PoolInv
  <2> QED BY <2>1, <2>2, <2>3, <2>4 DEF PoolInv
<1> QED BY <1>2, <1>3, <1>4, <1>5

\* The part of the type invariant that is about sending.
TxTypeOK ==
  /\ hwPush \in Seq(Msg) /\ Len(hwPush) <= HwDepth
  /\ pushqueue \in Seq(Entry)
  /\ emptyqueue \in Seq(Entry)
  /\ buffer \in [Entry -> Msg]
  /\ txIrqEnabled \in BOOLEAN
  /\ result \in {"none", "OK", "EAGAIN"}

\* cxd56_cfpush preserves what is about sending on each of its paths.
LEMMA PushTxInv ==
  ASSUME IInv, NEW m \in Msg, PushWord(m)
  PROVE  TxTypeOK' /\ PoolInv' /\ IrqArmedInv'
<1> USE FifoAssumption
<1>1. CASE PushBehind(m) /\ Reserve(m)
  <2>1. result' = "OK" \/ result' = "EAGAIN"
    BY <1>1 DEF PushBehind
  <2>2. TxTypeOK'
    BY <1>1, <2>1, ReserveIInv DEF IInv, TypeOK, TxTypeOK, PushBehind
  <2> QED BY <1>1, <2>2, ReserveIInv DEF IInv, IrqArmedInv, PushBehind
<1>2. CASE PushBehind(m) /\ ReserveFails
  BY <1>2 DEF IInv, TypeOK, TxTypeOK, PoolInv, IrqArmedInv, PushBehind, ReserveFails, Reserve
<1>3. CASE PushDirect(m)
  BY <1>3 DEF IInv, TypeOK, TxTypeOK, PoolInv, IrqArmedInv, PushDirect, TryPush, HwPushFull
<1>4. CASE PushFirst(m) /\ Reserve(m)
  <2>1. TxTypeOK'
    BY <1>4, ReserveIInv DEF IInv, TypeOK, TxTypeOK, PushFirst
  <2> QED BY <1>4, <2>1, ReserveIInv DEF IInv, IrqArmedInv, PushFirst
<1>5. CASE PushFirst(m) /\ ReserveFails
  BY <1>5 DEF IInv, TypeOK, PoolInv, PushFirst, ReserveFails
<1> QED BY <1>1, <1>2, <1>3, <1>4, <1>5 DEF PushWord, PushBehind, PushFirst

\* cxd56_cfpush preserves the invariant.
LEMMA PushIInv ==
  ASSUME IInv, NEW m \in Msg, Push(m)
  PROVE  IInv'
BY PushTxInv DEF Push, rxVars, IInv, TypeOK, TxTypeOK

\* cpufifo_txhandler preserves it.
LEMMA TxIrqIInv == ASSUME IInv, TxIrq PROVE IInv'
<1> USE FifoAssumption
<1>1. pushqueue # <<>> /\ ~HwPushFull
  BY DEF IInv, IrqArmedInv, TxIrq, TxIrqRaised
<1>2. /\ hwPush' = Append(hwPush, buffer[Head(pushqueue)])
      /\ pushqueue' = Tail(pushqueue)
      /\ emptyqueue' = Append(emptyqueue, Head(pushqueue))
      /\ UNCHANGED buffer
  BY <1>1 DEF TxIrq, TxMove, TryPush
<1>3. /\ Head(pushqueue) \in Entry /\ Head(pushqueue) = pushqueue[1]
      /\ Len(pushqueue) \in Nat \ {0}
      /\ pushqueue' \in Seq(Entry) /\ emptyqueue' \in Seq(Entry)
      /\ Len(pushqueue') = Len(pushqueue) - 1
      /\ Len(emptyqueue') = Len(emptyqueue) + 1
      /\ \A i \in 1 .. Len(pushqueue') : pushqueue'[i] = pushqueue[i + 1]
      /\ \A i \in 1 .. Len(emptyqueue) : emptyqueue'[i] = emptyqueue[i]
      /\ emptyqueue'[Len(emptyqueue) + 1] = pushqueue[1]
  BY <1>1, <1>2 DEF IInv, TypeOK
<1>4. TypeOK'
  <2>1. buffer[Head(pushqueue)] \in Msg
    BY <1>3 DEF IInv, TypeOK
  <2>2. hwPush' \in Seq(Msg) /\ Len(hwPush') <= HwDepth
    BY <1>1, <1>2, <2>1 DEF IInv, TypeOK, HwPushFull
  <2> QED BY <1>2, <1>3, <2>2 DEF IInv, TypeOK, TxIrq, rxVars
<1>5. PoolInv'
  <2>0. PoolInv /\ Len(emptyqueue) \in Nat
    BY DEF IInv, TypeOK
  <2>1. ASSUME NEW i \in 1 .. Len(pushqueue'), NEW j \in 1 .. Len(pushqueue'),
               pushqueue'[i] = pushqueue'[j]
        PROVE  i = j
    <3>1. /\ i + 1 \in 1 .. Len(pushqueue) /\ j + 1 \in 1 .. Len(pushqueue)
          /\ pushqueue[i + 1] = pushqueue[j + 1]
      BY <2>0, <1>3, <2>1
    <3>2. i + 1 = j + 1
      BY <2>0, <3>1 DEF PoolInv
    <3> QED BY <3>2
  <2>2. ASSUME NEW i \in 1 .. Len(emptyqueue'), NEW j \in 1 .. Len(emptyqueue'),
               emptyqueue'[i] = emptyqueue'[j]
        PROVE  i = j
    <3>1. \A k \in 1 .. Len(emptyqueue) : emptyqueue'[k] # pushqueue[1]
      BY <2>0, <1>3 DEF PoolInv
    <3>2. CASE i = Len(emptyqueue) + 1 \/ j = Len(emptyqueue) + 1
      BY <2>0, <1>3, <2>2, <3>1, <3>2
    <3>3. CASE i \in 1 .. Len(emptyqueue) /\ j \in 1 .. Len(emptyqueue)
      BY <2>0, <1>3, <2>2, <3>3 DEF PoolInv
    <3> QED BY <2>0, <1>3, <3>2, <3>3
  <2>3. ASSUME NEW i \in 1 .. Len(pushqueue'), NEW j \in 1 .. Len(emptyqueue')
        PROVE  pushqueue'[i] # emptyqueue'[j]
    <3>1. /\ i + 1 \in 1 .. Len(pushqueue) /\ 1 \in 1 .. Len(pushqueue)
          /\ pushqueue'[i] = pushqueue[i + 1]
      BY <2>0, <1>3
    <3>2. CASE j = Len(emptyqueue) + 1
      <4>1. pushqueue[1] # pushqueue[i + 1]
        BY <2>0, <3>1 DEF PoolInv
      <4> QED BY <2>0, <1>3, <3>1, <3>2, <4>1
    <3>3. CASE j \in 1 .. Len(emptyqueue)
      BY <2>0, <1>3, <3>1, <3>3 DEF PoolInv
    <3> QED BY <2>0, <1>3, <3>2, <3>3
  <2>4. Len(pushqueue') + Len(emptyqueue') = NR_PUSHBUFENTRIES
    <3>1. Len(pushqueue) + Len(emptyqueue) = NR_PUSHBUFENTRIES
      BY <2>0 DEF PoolInv
    <3>2. /\ Len(pushqueue) \in Nat /\ Len(emptyqueue) \in Nat
          /\ Len(pushqueue') = Len(pushqueue) - 1
          /\ Len(emptyqueue') = Len(emptyqueue) + 1
      BY <2>0, <1>3
    <3> QED BY <3>1, <3>2
  <2> QED BY <2>1, <2>2, <2>3, <2>4 DEF PoolInv
<1>6. IrqArmedInv'
  BY DEF TxIrq, IrqArmedInv
<1> QED BY <1>4, <1>5, <1>6 DEF IInv

\* The other steps leave the queues alone.
LEMMA OtherIInv ==
  ASSUME IInv,
         \/ RemoteTake \/ (\E m \in Msg : RemoteSend(m)) \/ RxIrq
         \/ (\E h \in Handler : RegRxHandler(h)) \/ UnregRxHandler
         \/ UNCHANGED fifoVars
  PROVE  IInv'
<1> USE FifoAssumption DEF IInv
<1>1. CASE RemoteTake
  BY <1>1 DEF RemoteTake, TypeOK, PoolInv, IrqArmedInv, rxVars
<1>2. ASSUME NEW m \in Msg, RemoteSend(m) PROVE IInv'
  BY <1>2 DEF RemoteSend, TypeOK, PoolInv, IrqArmedInv, txVars
<1>3. CASE RxIrq
  <2>1. Head(hwPull) \in Msg /\ hwPull' \in Seq(Msg) /\ Len(hwPull') <= HwDepth
    BY <1>3 DEF RxIrq, RxTake, Pull, TypeOK
  <2>2. handled' \in {NoHandler} \cup (Handler \X Msg)
    BY <1>3, <2>1 DEF RxIrq, RxTake, Pull, TypeOK
  <2> QED BY <1>3, <2>1, <2>2 DEF RxIrq, RxTake, Pull, TypeOK, PoolInv, IrqArmedInv, txVars
<1>4. ASSUME NEW h \in Handler, RegRxHandler(h) PROVE IInv'
  BY <1>4 DEF RegRxHandler, TypeOK, PoolInv, IrqArmedInv, txVars
<1>5. CASE UnregRxHandler
  BY <1>5 DEF UnregRxHandler, TypeOK, PoolInv, IrqArmedInv, txVars
<1>6. CASE UNCHANGED fifoVars
  BY <1>6 DEF fifoVars, TypeOK, PoolInv, IrqArmedInv
<1> QED BY <1>1, <1>2, <1>3, <1>4, <1>5, <1>6

\* Every step preserves the invariant.
LEMMA NextIInv == IInv /\ [Next]_fifoVars => IInv'
<1> SUFFICES ASSUME IInv, [Next]_fifoVars PROVE IInv'
  OBVIOUS
<1>1. ASSUME NEW m \in Msg, Push(m) PROVE IInv'
  BY <1>1, PushIInv
<1>2. CASE TxIrq
  BY <1>2, TxIrqIInv
<1> QED BY <1>1, <1>2, OtherIInv DEF Next

\* Hence it holds in every reachable state.
LEMMA SpecIInv == SafeSpec => []IInv
  BY InitIInv, NextIInv, PTL DEF SafeSpec
-----------------------------------------------------------------------------
\* Every variable keeps the shape the code gives it.
THEOREM TypeCorrect == Spec => []TypeOK
<1>1. IInv => TypeOK
  BY DEF IInv
<1> QED BY <1>1, SpecIInv, PTL DEF Spec

\* No entry of g_pushbuffer is leaked or parked twice.
THEOREM PoolConserved == Spec => []PoolInv
<1>1. IInv => PoolInv
  BY DEF IInv
<1> QED BY <1>1, SpecIInv, PTL DEF Spec

\* FIFO_TO is enabled exactly while a message is parked.
THEOREM IrqArmed == Spec => []IrqArmedInv
<1>1. IInv => IrqArmedInv
  BY DEF IInv
<1> QED BY <1>1, SpecIInv, PTL DEF Spec

-----------------------------------------------------------------------------
\* Appending to the right piece of a queue cut in two appends to the whole.
LEMMA AppendRight ==
  ASSUME NEW S, NEW s \in Seq(S), NEW t \in Seq(S), NEW e \in S
  PROVE  s \o Append(t, e) = Append(s \o t, e)
<1>1. s \o Append(t, e) = s \o (t \o <<e>>)
  BY AppendIsConcat
<1>2. Append(s \o t, e) = (s \o t) \o <<e>>
  BY AppendIsConcat, ConcatProperties
<1>3. <<e>> \in Seq(S)
  OBVIOUS
<1> QED BY <1>1, <1>2, <1>3, ConcatAssociative

\* Moving the head of the right piece to the left one leaves the whole as it is.
LEMMA MoveHead ==
  ASSUME NEW S, NEW s \in Seq(S), NEW t \in Seq(S), t # <<>>
  PROVE  Append(s, Head(t)) \o Tail(t) = s \o t
<1>1. /\ Head(t) \in S /\ Tail(t) \in Seq(S) /\ Len(Tail(t)) = Len(t) - 1
      /\ Head(t) = t[1] /\ \A i \in 1 .. Len(Tail(t)) : Tail(t)[i] = t[i + 1]
      /\ Len(s) \in Nat /\ Len(t) \in Nat \ {0}
  BY HeadTailProperties, LenProperties, EmptySeq
<1>2. /\ Append(s, Head(t)) \in Seq(S) /\ Len(Append(s, Head(t))) = Len(s) + 1
      /\ \A i \in 1 .. Len(s) : Append(s, Head(t))[i] = s[i]
      /\ Append(s, Head(t))[Len(s) + 1] = t[1]
  BY <1>1, AppendProperties
<1> DEFINE l == Append(s, Head(t)) \o Tail(t)
           r == s \o t
<1>3. /\ l \in Seq(S) /\ Len(l) = Len(s) + Len(t)
      /\ \A i \in 1 .. Len(s) + Len(t) :
            l[i] = IF i <= Len(s) + 1 THEN Append(s, Head(t))[i]
                   ELSE Tail(t)[i - (Len(s) + 1)]
  BY <1>1, <1>2, ConcatProperties
<1>4. /\ r \in Seq(S) /\ Len(r) = Len(s) + Len(t)
      /\ \A i \in 1 .. Len(s) + Len(t) :
            r[i] = IF i <= Len(s) THEN s[i] ELSE t[i - Len(s)]
  BY <1>1, ConcatProperties
<1> HIDE DEF l, r
<1>5. ASSUME NEW i \in 1 .. Len(l) PROVE l[i] = r[i]
  <2>1. CASE i <= Len(s)
    BY <1>1, <1>2, <1>3, <1>4, <2>1
  <2>2. CASE i = Len(s) + 1
    BY <1>1, <1>2, <1>3, <1>4, <2>2
  <2>3. CASE i > Len(s) + 1
    <3>1. /\ i - (Len(s) + 1) \in 1 .. Len(Tail(t))
          /\ (i - (Len(s) + 1)) + 1 = i - Len(s)
      BY <1>1, <1>3, <2>3
    <3>2. l[i] = Tail(t)[i - (Len(s) + 1)]
      BY <1>1, <1>3, <2>3
    <3>3. Tail(t)[i - (Len(s) + 1)] = t[(i - (Len(s) + 1)) + 1]
      BY <1>1, <3>1
    <3>4. l[i] = t[i - Len(s)]
      BY <3>1, <3>2, <3>3
    <3> QED BY <1>1, <1>3, <1>4, <2>3, <3>4
  <2> QED BY <1>1, <1>3, <2>1, <2>2, <2>3
<1>6. l = r
  BY <1>3, <1>4, <1>5, SeqEqual
<1> QED BY <1>6 DEF l, r

\* Taking the head off a nonempty left piece takes the head off the whole.
LEMMA TailLeft ==
  ASSUME NEW S, NEW s \in Seq(S), NEW t \in Seq(S), s # <<>>
  PROVE  s \o t # <<>> /\ Tail(s \o t) = Tail(s) \o t
<1>1. Head(s) \in S /\ Tail(s) \in Seq(S) /\ <<Head(s)>> \in Seq(S)
  BY HeadTailProperties
<1>2. s = <<Head(s)>> \o Tail(s)
  BY <1>1, MoveHead, ConcatEmptySeq, EmptySeq
<1>3. s \o t = <<Head(s)>> \o (Tail(s) \o t)
  BY <1>1, <1>2, ConcatAssociative
<1> DEFINE u == Tail(s) \o t
<1>4. u \in Seq(S)
  BY <1>1, ConcatProperties
<1> HIDE DEF u
<1>5. <<Head(s)>> \o u # <<>> /\ Tail(<<Head(s)>> \o u) = u
  BY <1>1, <1>4
<1> QED BY <1>3, <1>5 DEF u

-----------------------------------------------------------------------------
\* The words read through a queue of entries.
LEMMA WordsType ==
  ASSUME NEW q \in Seq(Entry), NEW b \in [Entry -> Msg]
  PROVE  /\ [i \in 1 .. Len(q) |-> b[q[i]]] \in Seq(Msg)
         /\ Len([i \in 1 .. Len(q) |-> b[q[i]]]) = Len(q)
<1>1. Len(q) \in Nat /\ \A i \in 1 .. Len(q) : q[i] \in Entry
  OBVIOUS
<1>2. \A i \in 1 .. Len(q) : b[q[i]] \in Msg
  BY <1>1
<1> QED BY <1>1, <1>2

\* The backlog is a queue of messages.
LEMMA ParkedType ==
  ASSUME IInv
  PROVE  /\ Parked \in Seq(Msg) /\ Len(Parked) = Len(pushqueue)
         /\ hwPush \in Seq(Msg) /\ Undelivered \in Seq(Msg)
         /\ Len(Undelivered) = Len(hwPush) + Len(pushqueue)
<1>1. Parked \in Seq(Msg) /\ Len(Parked) = Len(pushqueue) /\ hwPush \in Seq(Msg)
  BY WordsType DEF IInv, TypeOK, Parked
<1>2. hwPush \o Parked \in Seq(Msg) /\ Len(hwPush \o Parked) = Len(hwPush) + Len(Parked)
  BY <1>1, ConcatProperties
<1> QED BY <1>1, <1>2 DEF Undelivered

\* Parking a message puts it behind everything accepted before.
LEMMA ReserveAppends ==
  ASSUME IInv, IInv', NEW m \in Msg, Reserve(m)
  PROVE  Parked' = Append(Parked, m)
<1>1. /\ Len(emptyqueue) \in Nat \ {0} /\ Head(emptyqueue) = emptyqueue[1]
      /\ Head(emptyqueue) \in Entry /\ 1 \in 1 .. Len(emptyqueue)
      /\ pushqueue \in Seq(Entry) /\ buffer \in [Entry -> Msg]
  BY DEF Reserve, IInv, TypeOK
<1>2. /\ Parked' \in Seq(Msg) /\ Len(Parked') = Len(Parked) + 1
      /\ Parked \in Seq(Msg) /\ Len(Parked) = Len(pushqueue)
      /\ Len(pushqueue') = Len(pushqueue) + 1 /\ Len(pushqueue) \in Nat
  <2>1. Parked \in Seq(Msg) /\ Len(Parked) = Len(pushqueue)
    BY ParkedType
  <2>2. Parked' \in Seq(Msg) /\ Len(Parked') = Len(pushqueue')
    BY WordsType DEF IInv, TypeOK, Parked
  <2> QED BY <1>1, <2>1, <2>2 DEF Reserve
<1>3. ASSUME NEW i \in 1 .. Len(Parked') PROVE Parked'[i] = Append(Parked, m)[i]
  <2>1. CASE i \in 1 .. Len(pushqueue)
    <3>1. pushqueue[i] # Head(emptyqueue) /\ pushqueue[i] \in Entry
      BY <1>1, <2>1 DEF IInv, PoolInv
    <3>2. pushqueue'[i] = pushqueue[i]
      BY <1>1, <2>1 DEF Reserve
    <3>3. Parked'[i] = buffer'[pushqueue[i]]
      BY <1>2, <2>1, <3>2 DEF Parked
    <3>4. Append(Parked, m)[i] = buffer[pushqueue[i]]
      BY <1>2, <2>1 DEF Parked
    <3> QED BY <1>1, <3>1, <3>3, <3>4 DEF Reserve
  <2>2. CASE i = Len(pushqueue) + 1
    <3>1. pushqueue'[i] = Head(emptyqueue)
      BY <1>1, <2>2 DEF Reserve
    <3>2. Parked'[i] = m
      BY <1>1, <1>2, <2>2, <3>1 DEF Parked, Reserve
    <3> QED BY <1>2, <2>2, <3>2, AppendProperties
  <2> QED BY <1>2, <2>1, <2>2
<1>4. Append(Parked, m) \in Seq(Msg) /\ Len(Append(Parked, m)) = Len(Parked')
  BY <1>2
<1> QED BY <1>2, <1>3, <1>4, SeqEqual

\* The interrupt handler unparks the oldest message.
LEMMA TxMoveHead ==
  ASSUME IInv, IInv', TxIrq
  PROVE  /\ Parked # <<>> /\ Parked' = Tail(Parked)
         /\ hwPush' = Append(hwPush, Head(Parked))
<1>1. /\ pushqueue # <<>> /\ pushqueue \in Seq(Entry) /\ ~HwPushFull
      /\ pushqueue' = Tail(pushqueue) /\ UNCHANGED buffer
      /\ hwPush' = Append(hwPush, buffer[Head(pushqueue)])
  BY DEF IInv, TypeOK, IrqArmedInv, TxIrq, TxIrqRaised, TxMove, TryPush
<1>2. /\ Parked \in Seq(Msg) /\ Len(Parked) = Len(pushqueue)
      /\ Parked' \in Seq(Msg) /\ Len(Parked') = Len(pushqueue')
      /\ Len(pushqueue') = Len(pushqueue) - 1 /\ Len(pushqueue) \in Nat \ {0}
      /\ \A i \in 1 .. Len(pushqueue') : pushqueue'[i] = pushqueue[i + 1]
      /\ Head(pushqueue) = pushqueue[1]
  <2>1. Parked' \in Seq(Msg) /\ Len(Parked') = Len(pushqueue')
    BY WordsType DEF IInv, TypeOK, Parked
  <2> QED BY <1>1, <2>1, ParkedType, HeadTailProperties, EmptySeq
<1>3. Parked # <<>> /\ Head(Parked) = buffer[Head(pushqueue)]
  BY <1>2 DEF Parked
<1>4. /\ Tail(Parked) \in Seq(Msg) /\ Len(Tail(Parked)) = Len(Parked')
      /\ \A i \in 1 .. Len(Parked') : Tail(Parked)[i] = Parked[i + 1]
  BY <1>2, <1>3, HeadTailProperties
<1>5. ASSUME NEW i \in 1 .. Len(Parked') PROVE Parked'[i] = Tail(Parked)[i]
  <2>1. Parked'[i] = buffer[pushqueue[i + 1]]
    BY <1>1, <1>2 DEF Parked
  <2>2. Parked[i + 1] = buffer[pushqueue[i + 1]]
    BY <1>2 DEF Parked
  <2> QED BY <1>4, <2>1, <2>2
<1>6. Parked' = Tail(Parked)
  BY <1>2, <1>4, <1>5, SeqEqual
<1> QED BY <1>1, <1>3, <1>6

\* cxd56_cfpush is a Send or a Refuse of the channel.
LEMMA PushRefines ==
  ASSUME IInv, IInv', NEW m \in Msg, PushWord(m)
  PROVE  Chan!Send(m) \/ Chan!Refuse
<1> USE ParkedType DEF Undelivered
<1>1. CASE Reserve(m) /\ UNCHANGED hwPush /\ result' = "OK"
  BY <1>1, ReserveAppends, AppendRight DEF Chan!Send
<1>2. CASE PushBehind(m) /\ ReserveFails
  <2>1. UNCHANGED Undelivered /\ result' = "EAGAIN"
    BY <1>2 DEF PushBehind, ReserveFails, Reserve, Parked
  <2>2. Len(emptyqueue) = 0
    BY <1>2 DEF ReserveFails
  <2>3. Len(Undelivered) >= NR_PUSHBUFENTRIES
    BY <2>2, FifoAssumption, LenProperties DEF IInv, TypeOK, PoolInv
  <2> QED BY <2>1, <2>3 DEF Chan!Refuse
<1>3. CASE PushDirect(m)
  <2>1. Parked = <<>> /\ Parked' = <<>>
    BY <1>3 DEF PushDirect, Parked
  <2>2. hwPush' = Append(hwPush, m) /\ result' = "OK"
    BY <1>3 DEF PushDirect, TryPush
  <2> QED BY <2>1, <2>2, ConcatEmptySeq, AppendProperties DEF Chan!Send
<1>4. CASE PushFirst(m) /\ ReserveFails
  <2>1. pushqueue = <<>> /\ emptyqueue = <<>>
    BY <1>4 DEF PushFirst, ReserveFails
  <2> QED BY <2>1, FifoAssumption, EmptySeq DEF IInv, PoolInv
<1> QED BY <1>1, <1>2, <1>3, <1>4 DEF PushWord, PushBehind, PushFirst

\* Every step of the driver is a step of the channel or leaves it alone.
LEMMA StepRefines ==
  IInv /\ IInv' /\ [Next]_fifoVars => [Chan!Next]_(Chan!chanVars)
<1> SUFFICES ASSUME IInv, IInv', [Next]_fifoVars
             PROVE  Chan!Next \/ UNCHANGED <<Undelivered, result>>
  BY DEF Chan!chanVars
<1> USE ParkedType
<1>1. ASSUME NEW m \in Msg, Push(m) PROVE Chan!Next
  BY <1>1, PushRefines DEF Push, Chan!Next
<1>2. CASE TxIrq
  BY <1>2, TxMoveHead, MoveHead DEF TxIrq, Undelivered
<1>3. CASE RemoteTake
  <2>1. UNCHANGED Parked
    BY <1>3 DEF RemoteTake, Parked
  <2>2. Undelivered # <<>> /\ Undelivered' = Tail(Undelivered)
    BY <1>3, <2>1, TailLeft DEF RemoteTake, Undelivered
  <2> QED BY <1>3, <2>2 DEF RemoteTake, Chan!Next, Chan!Deliver
<1>4. CASE UNCHANGED txVars
  BY <1>4 DEF txVars, Undelivered, Parked
<1>5. CASE UNCHANGED fifoVars
  BY <1>4, <1>5 DEF fifoVars, txVars
<1> QED BY <1>1, <1>2, <1>3, <1>4, <1>5
        DEF Next, RemoteSend, RxIrq, RxTake, Pull, RegRxHandler, UnregRxHandler

\* The driver implements the safety part of Channel: no accepted message is
\* lost, duplicated or overtaken, and a refusal has no effect.
THEOREM Refinement == Spec => Chan!Safe
<1>1. Init => Chan!Init
  BY EmptySeq DEF Init, TxInit, Chan!Init, Undelivered, Parked
<1> QED BY <1>1, StepRefines, SpecIInv, PTL DEF Spec, SafeSpec, Chan!Safe
=============================================================================
