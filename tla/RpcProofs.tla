------------------------------ MODULE RpcProofs ------------------------------
(***************************************************************************)
(* Proofs about Rpc for any clients and any FIFO.  What CpuFifoProofs says *)
(* of the FIFO is used of the instance that Rpc shares with other traffic: *)
(* a push appends to what is undelivered or changes nothing.  On top, the  *)
(* calls of each client under way are counted wherever they can be.        *)
(***************************************************************************)
EXTENDS Rpc, FiniteSetTheorems, FunctionTheorems, SequenceTheorems, TLAPS

FP == INSTANCE CpuFifoProofs WITH Msg <- Client \cup {Ack, Other}, Handler <- {ICC}

Word == Client \cup {Ack, Other}

-----------------------------------------------------------------------------
(* How often a word occurs in a queue *)

LEMMA IndexesFinite ==
  ASSUME NEW n \in Nat, NEW T \in SUBSET (1 .. n)
  PROVE  IsFiniteSet(T) /\ Cardinality(T) \in Nat
<1>1. IsFiniteSet(1 .. n)
  BY FS_Interval
<1>2. IsFiniteSet(T)
  BY <1>1, FS_Subset
<1> QED BY <1>2, FS_CardinalityType

LEMMA OccursType ==
  ASSUME NEW S, NEW q \in Seq(S), NEW t
  PROVE  Occurs(t, q) \in Nat
<1>1. Len(q) \in Nat /\ {i \in 1 .. Len(q) : q[i] = t} \in SUBSET (1 .. Len(q))
  OBVIOUS
<1> QED BY <1>1, IndexesFinite DEF Occurs

LEMMA OccursEmpty == \A t : Occurs(t, <<>>) = 0
<1> SUFFICES ASSUME NEW t PROVE Occurs(t, <<>>) = 0
  OBVIOUS
<1>1. {i \in 1 .. Len(<<>>) : <<>>[i] = t} = {}
  OBVIOUS
<1> QED BY <1>1, FS_EmptySet DEF Occurs

\* A word put at the end is one more.
LEMMA OccursAppend ==
  ASSUME NEW S, NEW q \in Seq(S), NEW m \in S, NEW t
  PROVE  Occurs(t, Append(q, m)) = Occurs(t, q) + (IF m = t THEN 1 ELSE 0)
<1> DEFINE A == {i \in 1 .. Len(q) : q[i] = t}
           B == {i \in 1 .. Len(Append(q, m)) : Append(q, m)[i] = t}
<1>1. /\ Len(q) \in Nat /\ Len(Append(q, m)) = Len(q) + 1
      /\ \A i \in 1 .. Len(q) : Append(q, m)[i] = q[i]
      /\ Append(q, m)[Len(q) + 1] = m
  BY AppendProperties, LenProperties
<1>2. IsFiniteSet(A) /\ Cardinality(A) \in Nat /\ Len(q) + 1 \notin A
  <2>1. A \in SUBSET (1 .. Len(q)) /\ Len(q) + 1 \notin 1 .. Len(q)
    BY <1>1
  <2> HIDE DEF A
  <2> QED BY <1>1, <2>1, IndexesFinite
<1>3. B = IF m = t THEN A \cup {Len(q) + 1} ELSE A
  <2>1. ASSUME NEW i
        PROVE  i \in B <=> i \in A \/ (m = t /\ i = Len(q) + 1)
    <3>1. i \in 1 .. Len(q) + 1 <=> i \in 1 .. Len(q) \/ i = Len(q) + 1
      BY <1>1
    <3> QED BY <1>1, <3>1
  <2> HIDE DEF A, B
  <2> QED BY <2>1
<1> HIDE DEF A, B
<1>4. Cardinality(A \cup {Len(q) + 1}) = Cardinality(A) + 1
  BY <1>2, FS_AddElement
<1>5. Cardinality(B) = Cardinality(A) + (IF m = t THEN 1 ELSE 0)
  BY <1>2, <1>3, <1>4
<1> QED BY <1>5 DEF Occurs, A, B

\* The word at the front is one of them.
LEMMA OccursTail ==
  ASSUME NEW S, NEW q \in Seq(S), q # <<>>, NEW t
  PROVE  Occurs(t, q) = Occurs(t, Tail(q)) + (IF Head(q) = t THEN 1 ELSE 0)
<1> DEFINE A == {i \in 1 .. Len(q) : q[i] = t}
           B == {i \in 1 .. Len(Tail(q)) : Tail(q)[i] = t}
           C == A \ {1}
           f == [i \in B |-> i + 1]
<1>1. /\ Len(q) \in Nat \ {0} /\ Len(Tail(q)) = Len(q) - 1 /\ Head(q) = q[1]
      /\ \A i \in 1 .. Len(Tail(q)) : Tail(q)[i] = q[i + 1]
  BY HeadTailProperties, EmptySeq
<1>2. /\ IsFiniteSet(A) /\ Cardinality(A) \in Nat
      /\ IsFiniteSet(B) /\ Cardinality(B) \in Nat
  <2>1. A \in SUBSET (1 .. Len(q)) /\ B \in SUBSET (1 .. Len(Tail(q)))
        /\ Len(Tail(q)) \in Nat /\ Len(q) \in Nat
    BY <1>1
  <2> HIDE DEF A, B
  <2> QED BY <2>1, IndexesFinite
<1>3. ExistsBijection(B, C)
  <2>1. ASSUME NEW i \in B PROVE i + 1 \in C
    BY <1>1
  <2>2. ASSUME NEW j \in C PROVE \E i \in B : i + 1 = j
    <3>1. /\ j - 1 \in 1 .. Len(Tail(q)) /\ (j - 1) + 1 = j
      BY <1>1
    <3> QED BY <1>1, <3>1
  <2>3. B \subseteq Nat
    BY <1>1
  <2> HIDE DEF B, C
  <2>4. f \in [B -> C]
    BY <2>1
  <2>5. \A a, b \in B : f[a] = f[b] => a = b
    BY <2>3
  <2>6. \A j \in C : \E i \in B : f[i] = j
    BY <2>2
  <2> HIDE DEF f
  <2>7. f \in Bijection(B, C)
    BY <2>4, <2>5, <2>6 DEF Bijection, Injection, Surjection, IsInjective
  <2> QED BY <2>7 DEF ExistsBijection
<1>4. Cardinality(C) = Cardinality(B)
  <2> HIDE DEF B, C
  <2> QED BY <1>2, <1>3, FS_Bijection
<1>5. 1 \in A <=> Head(q) = t
  BY <1>1
<1>6. Cardinality(C) = IF Head(q) = t THEN Cardinality(A) - 1 ELSE Cardinality(A)
  <2> HIDE DEF A
  <2> QED BY <1>2, <1>5, FS_RemoveElement
<1> HIDE DEF A, B, C
<1>7. Cardinality(A) = Cardinality(B) + (IF Head(q) = t THEN 1 ELSE 0)
  BY <1>2, <1>4, <1>6
<1> QED BY <1>7 DEF Occurs, A, B

-----------------------------------------------------------------------------
(* The FIFO *)

FifoInv == Fifo!TypeOK /\ Fifo!PoolInv /\ Fifo!IrqArmedInv

\* The part of its types that is about receiving.
RxTypeOK ==
  /\ hwPull \in Seq(Word) /\ Len(hwPull) <= HwDepth
  /\ rxhandler \in {ICC, NoHandler}
  /\ handled \in {NoHandler} \cup ({ICC} \X Word)

\* What its proofs say of the FIFO is about the one of Rpc.
LEMMA SameFifo ==
  /\ FifoInv <=> FP!IInv
  /\ FifoInv => RxTypeOK
  /\ Fifo!Undelivered = FP!Undelivered
  /\ FP!TxTypeOK /\ RxTypeOK /\ FP!PoolInv /\ FP!IrqArmedInv => FifoInv
<1> USE DEF FifoInv, FP!IInv, Fifo!TypeOK, FP!TypeOK, Fifo!PoolInv, FP!PoolInv,
            Fifo!IrqArmedInv, FP!IrqArmedInv, RxTypeOK, FP!TxTypeOK, Fifo!Entry, FP!Entry, Word
<1>1. FifoInv <=> FP!IInv
  OBVIOUS
<1>2. FifoInv => RxTypeOK
  OBVIOUS
<1>3. Fifo!Undelivered = FP!Undelivered
  BY DEF Fifo!Undelivered, FP!Undelivered, Fifo!Parked, FP!Parked
<1>4. FP!TxTypeOK /\ RxTypeOK /\ FP!PoolInv /\ FP!IrqArmedInv => FifoInv
  OBVIOUS
<1> QED BY <1>1, <1>2, <1>3, <1>4

LEMMA SameFifoNext ==
  /\ FifoInv' <=> FP!IInv'
  /\ Fifo!Undelivered' = FP!Undelivered'
  /\ FP!TxTypeOK' /\ RxTypeOK' /\ FP!PoolInv' /\ FP!IrqArmedInv' => FifoInv'
<1> USE DEF FifoInv, FP!IInv, Fifo!TypeOK, FP!TypeOK, Fifo!PoolInv, FP!PoolInv,
            Fifo!IrqArmedInv, FP!IrqArmedInv, RxTypeOK, FP!TxTypeOK, Fifo!Entry, FP!Entry, Word
<1>1. FifoInv' <=> FP!IInv'
  OBVIOUS
<1>2. Fifo!Undelivered' = FP!Undelivered'
  BY DEF Fifo!Undelivered, FP!Undelivered, Fifo!Parked, FP!Parked
<1>3. FP!TxTypeOK' /\ RxTypeOK' /\ FP!PoolInv' /\ FP!IrqArmedInv' => FifoInv'
  OBVIOUS
<1> QED BY <1>1, <1>2, <1>3

\* cxd56_cfinitialize
LEMMA FifoStarts ==
  ASSUME Fifo!TxInit, hwPull = <<>>, rxhandler = ICC, handled = NoHandler
  PROVE  FifoInv /\ Fifo!Undelivered = <<>>
<1> USE RpcAssumption DEF Fifo!TxInit, Fifo!Entry
<1>1. emptyqueue \in Seq(Fifo!Entry) /\ Len(emptyqueue) = NR_PUSHBUFENTRIES
  OBVIOUS
<1>2. /\ hwPush \in Seq(Word) /\ Len(hwPush) <= HwDepth
      /\ hwPull \in Seq(Word) /\ Len(hwPull) <= HwDepth
      /\ pushqueue \in Seq(Fifo!Entry)
  OBVIOUS
<1>3. Fifo!TypeOK
  BY <1>1, <1>2 DEF Fifo!TypeOK, Word
<1>4. Fifo!PoolInv
  BY DEF Fifo!PoolInv
<1>5. Fifo!IrqArmedInv
  BY DEF Fifo!IrqArmedInv
<1>6. Fifo!Undelivered = <<>>
  BY DEF Fifo!Undelivered, Fifo!Parked
<1> QED BY <1>3, <1>4, <1>5, <1>6 DEF FifoInv

\* The words of the FIFO.
LEMMA FifoWords ==
  ASSUME FifoInv
  PROVE  Fifo!Undelivered \in Seq(Word) /\ hwPull \in Seq(Word) /\ hwPush \in Seq(Word)
<1>1. FP!IInv
  BY SameFifo
<1>2. FP!Undelivered \in Seq(Word) /\ hwPush \in Seq(Word)
  BY <1>1, FP!ParkedType, RpcAssumption DEF Word
<1> QED BY <1>2, SameFifo DEF RxTypeOK

\* cxd56_cfpush, whoever calls it.
LEMMA FifoPush ==
  ASSUME FifoInv, NEW m \in Word, Fifo!PushWord(m), RxTypeOK'
  PROVE  /\ FifoInv'
         /\ \/ result' = "OK" /\ Fifo!Undelivered' = Append(Fifo!Undelivered, m)
            \/ /\ result' = "EAGAIN" /\ Fifo!Undelivered' = Fifo!Undelivered
               /\ Len(Fifo!Undelivered) >= NR_PUSHBUFENTRIES
<1>1. FP!IInv
  BY SameFifo
<1>2. FP!PushWord(m)
  BY DEF Fifo!PushWord, FP!PushWord, Fifo!PushBehind, FP!PushBehind, Fifo!PushDirect,
         FP!PushDirect, Fifo!PushFirst, FP!PushFirst, Fifo!Reserve, FP!Reserve,
         Fifo!ReserveFails, FP!ReserveFails, Fifo!TryPush, FP!TryPush,
         Fifo!HwPushFull, FP!HwPushFull
<1>3. FP!TxTypeOK' /\ FP!PoolInv' /\ FP!IrqArmedInv'
  BY <1>1, <1>2, FP!PushTxInv, RpcAssumption DEF Word
<1>4. FifoInv' /\ FP!IInv'
  BY <1>3, SameFifoNext
<1>5. FP!Chan!Send(m) \/ FP!Chan!Refuse
  BY <1>1, <1>2, <1>4, FP!PushRefines, RpcAssumption DEF Word
<1>6. /\ Fifo!Undelivered = FP!Undelivered
      /\ Fifo!Undelivered' = FP!Undelivered'
  BY SameFifo, SameFifoNext
<1>7. \/ result' = "OK" /\ FP!Undelivered' = Append(FP!Undelivered, m)
      \/ /\ result' = "EAGAIN" /\ FP!Undelivered' = FP!Undelivered
         /\ Len(FP!Undelivered) >= NR_PUSHBUFENTRIES
  BY <1>5 DEF FP!Chan!Send, FP!Chan!Refuse
<1> QED BY <1>4, <1>6, <1>7

\* cpufifo_txhandler
LEMMA FifoTx ==
  ASSUME FifoInv, Fifo!TxIrq
  PROVE  FifoInv' /\ Fifo!Undelivered' = Fifo!Undelivered /\ hwPull' = hwPull
<1>1. FP!IInv
  BY SameFifo
<1>2. FP!TxIrq
  BY DEF Fifo!TxIrq, FP!TxIrq, Fifo!TxIrqRaised, FP!TxIrqRaised, Fifo!TxMove, FP!TxMove,
         Fifo!TryPush, FP!TryPush, Fifo!HwPushFull, FP!HwPushFull, Fifo!rxVars, FP!rxVars
<1>3. FP!IInv'
  BY <1>1, <1>2, FP!TxIrqIInv, RpcAssumption
<1>4. FifoInv'
  BY <1>3, SameFifoNext
<1>5. /\ FP!Parked # <<>> /\ FP!Parked' = Tail(FP!Parked)
      /\ hwPush' = Append(hwPush, Head(FP!Parked))
  BY <1>1, <1>2, <1>3, FP!TxMoveHead, RpcAssumption
<1>6. FP!Parked \in Seq(Word) /\ hwPush \in Seq(Word)
  BY <1>1, FP!ParkedType, RpcAssumption DEF Word
<1>7. hwPush' \o FP!Parked' = hwPush \o FP!Parked
  BY <1>5, <1>6, FP!MoveHead
<1>8. FP!Undelivered' = FP!Undelivered
  BY <1>7 DEF FP!Undelivered
<1> QED BY <1>4, <1>8, SameFifo, SameFifoNext DEF Fifo!TxIrq, Fifo!rxVars

\* The remote CPU takes the oldest word.
LEMMA FifoTake ==
  ASSUME FifoInv, Fifo!RemoteTake
  PROVE  /\ FifoInv' /\ hwPull' = hwPull
         /\ Fifo!Undelivered # <<>> /\ Head(hwPush) = Head(Fifo!Undelivered)
         /\ Fifo!Undelivered' = Tail(Fifo!Undelivered)
<1>1. FP!IInv
  BY SameFifo
<1>2. FP!RemoteTake
  BY DEF Fifo!RemoteTake, FP!RemoteTake, Fifo!rxVars, FP!rxVars
<1>3. FP!IInv'
  BY <1>1, <1>2, FP!OtherIInv, RpcAssumption
<1>4. FifoInv'
  BY <1>3, SameFifoNext
<1>5. FP!Parked \in Seq(Word) /\ hwPush \in Seq(Word) /\ hwPush # <<>>
      /\ hwPush' = Tail(hwPush) /\ FP!Parked' = FP!Parked
  BY <1>1, <1>2, FP!ParkedType, RpcAssumption DEF Word, FP!RemoteTake, FP!Parked
<1>6. FP!Undelivered # <<>> /\ FP!Undelivered' = Tail(FP!Undelivered)
  BY <1>5, FP!TailLeft DEF FP!Undelivered
<1>7. Head(hwPush) = Head(FP!Undelivered)
  <2>1. /\ Len(hwPush) \in Nat \ {0} /\ Len(FP!Parked) \in Nat
        /\ (hwPush \o FP!Parked)[1] = hwPush[1]
    BY <1>5, ConcatProperties, EmptySeq, LenProperties
  <2>2. hwPush \o FP!Parked \in Seq(Word) /\ hwPush \o FP!Parked # <<>>
    BY <1>5, <1>6, ConcatProperties DEF FP!Undelivered
  <2> QED BY <1>5, <2>1, <2>2, HeadTailProperties DEF FP!Undelivered
<1> QED BY <1>4, <1>5, <1>6, <1>7, <1>2, SameFifo, SameFifoNext DEF FP!RemoteTake, FP!rxVars

\* The words that arrive.
LEMMA FifoRx ==
  ASSUME FifoInv
  PROVE  /\ \A m \in Word : Fifo!RemoteSend(m) =>
              /\ FifoInv' /\ Fifo!Undelivered' = Fifo!Undelivered
              /\ hwPull' = Append(hwPull, m)
         /\ Fifo!Pull /\ UNCHANGED handled => RxTypeOK' /\ hwPull # <<>> /\ hwPull' = Tail(hwPull)
         /\ RxTypeOK' /\ UNCHANGED fifoTx => FifoInv' /\ Fifo!Undelivered' = Fifo!Undelivered
<1>1. hwPull \in Seq(Word) /\ Len(hwPull) <= HwDepth
      /\ \A m \in Word : /\ Append(hwPull, m) \in Seq(Word)
                         /\ Len(Append(hwPull, m)) = Len(hwPull) + 1
      /\ hwPull # <<>> => /\ Tail(hwPull) \in Seq(Word) /\ Head(hwPull) \in Word
                          /\ Len(Tail(hwPull)) = Len(hwPull) - 1
      /\ Len(hwPull) \in Nat
  BY FifoWords, SameFifo DEF RxTypeOK
<1>2. ASSUME RxTypeOK', UNCHANGED fifoTx
      PROVE  FifoInv' /\ Fifo!Undelivered' = Fifo!Undelivered
  BY <1>2, SameFifo DEF fifoTx, FifoInv, Fifo!TypeOK, Fifo!PoolInv, Fifo!IrqArmedInv,
     RxTypeOK, Word, Fifo!Undelivered, Fifo!Parked
<1>3. ASSUME NEW m \in Word, Fifo!RemoteSend(m)
      PROVE  RxTypeOK' /\ UNCHANGED fifoTx /\ hwPull' = Append(hwPull, m)
  BY <1>1, <1>3, SameFifo, RpcAssumption DEF Fifo!RemoteSend, RxTypeOK, fifoTx, Fifo!txVars
<1>4. ASSUME Fifo!Pull, UNCHANGED handled
      PROVE  RxTypeOK' /\ hwPull # <<>> /\ hwPull' = Tail(hwPull)
  BY <1>1, <1>4, SameFifo, RpcAssumption DEF Fifo!Pull, RxTypeOK
<1> QED BY <1>2, <1>3, <1>4

-----------------------------------------------------------------------------
(* The invariant, of each client instead of their sets *)

\* The client is between taking and giving its lock, or waits for its answer.
Inside(t) == pc[t] \notin {"idle", "lock", "blocked"}
Waits(t) == pc[t] \in {"sent", "wait", "asleep"}

Types ==
  /\ inbox \subseteq Client
  /\ lock \in [Service -> {0, 1}]
  /\ sync \in [Service -> {0, 1}]
  /\ errcode \in SysClient \cup {NoHandler}
  /\ wlock \in {0, 1}
  /\ pc \in [Client -> PC]

\* One client of a service is inside, and then its lock is taken; the far
\* API's lock is taken for nothing else.
OneInside ==
  /\ \A t, u \in Client : Inside(t) /\ Inside(u) /\ ServiceOf(t) = ServiceOf(u) => t = u
  /\ \A t \in Client : Inside(t) \/ pc[t] = "blocked" => lock[ServiceOf(t)] = 0
  /\ lock["farapi"] = 0 => \E t \in FarClient : Inside(t)

\* The wakelock is held for a far API caller from the end of its send on.
AwakeInv ==
  /\ \A t \in Client : pc[t] = "sent" => t \in FarClient
  /\ wlock = 1 <=> \E t \in FarClient : pc[t] \in {"wait", "asleep", "answered"}

\* A waiting client has one call under way or the token of its answer.
CountInv ==
  /\ \A t \in Client : Waits(t) => InFlight(t) + sync[ServiceOf(t)] = 1
  /\ \A t \in Client : ~Waits(t) => InFlight(t) = 0
  /\ \A s \in Service : sync[s] = 1 => \E t \in Client : ServiceOf(t) = s /\ Waits(t)

\* With the token, and with nothing but it, the error code is the client's.
OwnInv ==
  \A t \in SysClient : (Waits(t) /\ sync["sysctl"] = 1) \/ pc[t] \in {"answered", "unlock"}
                         => errcode = t

IInv == FifoInv /\ Types /\ OneInside /\ AwakeInv /\ CountInv /\ OwnInv

LEMMA ServiceFacts ==
  /\ \A t \in Client : ServiceOf(t) \in Service
  /\ \A t \in Client : ServiceOf(t) = "sysctl" <=> t \in SysClient
  /\ \A t \in Client : ServiceOf(t) = "farapi" <=> t \in FarClient
  BY RpcAssumption DEF ServiceOf, Service, Client

\* The calls of a client under way can be counted.
LEMMA CountType ==
  ASSUME FifoInv, inbox \subseteq Client, NEW t \in Client
  PROVE  /\ Occurs(t, Fifo!Undelivered) \in Nat /\ Occurs(t, hwPull) \in Nat
         /\ Cardinality(inbox \cap {t}) = IF t \in inbox THEN 1 ELSE 0
         /\ InFlight(t) \in Nat
<1>1. Occurs(t, Fifo!Undelivered) \in Nat /\ Occurs(t, hwPull) \in Nat
  BY FifoWords, OccursType
<1>2. Cardinality(inbox \cap {t}) = IF t \in inbox THEN 1 ELSE 0
  <2>1. inbox \cap {t} = IF t \in inbox THEN {t} ELSE {}
    OBVIOUS
  <2> QED BY <2>1, FS_EmptySet, FS_Singleton
<1> QED BY <1>1, <1>2 DEF InFlight

\* A client with a call under way waits, has no token, and nobody else of
\* its service is inside.
LEMMA UnderWay ==
  ASSUME IInv, NEW t \in Client, InFlight(t) # 0
  PROVE  /\ InFlight(t) = 1 /\ Waits(t) /\ sync[ServiceOf(t)] = 0
         /\ \A u \in Client : Inside(u) /\ ServiceOf(u) = ServiceOf(t) => u = t
<1>1. Waits(t) /\ Inside(t)
  BY DEF IInv, CountInv, Waits, Inside
<1>2. InFlight(t) \in Nat /\ sync[ServiceOf(t)] \in {0, 1}
  BY CountType, ServiceFacts DEF IInv, Types
<1>3. InFlight(t) + sync[ServiceOf(t)] = 1
  BY <1>1 DEF IInv, CountInv
<1> QED BY <1>1, <1>2, <1>3 DEF IInv, OneInside

\* With nothing moved in the FIFO and at the remote CPUs the counts stay.
LEMMA Still ==
  ASSUME FifoInv, UNCHANGED <<fifo, inbox>>
  PROVE  FifoInv' /\ \A t \in Client : InFlight(t)' = InFlight(t)
<1>1. RxTypeOK'
  BY SameFifo DEF fifo, RxTypeOK
<1>2. FifoInv' /\ Fifo!Undelivered' = Fifo!Undelivered /\ hwPull' = hwPull
  BY <1>1, FifoRx DEF fifo
<1> QED BY <1>2 DEF InFlight

LEMMA InitIInv == Init => IInv
<1> SUFFICES ASSUME Init PROVE IInv
  OBVIOUS
<1>1. FifoInv /\ Fifo!Undelivered = <<>>
  BY FifoStarts DEF Init
<1>2. Types
  BY DEF Init, Types, PC
<1>3. \A t \in Client : pc[t] = "idle" /\ ~Inside(t) /\ ~Waits(t) /\ InFlight(t) = 0
  <2>1. \A t \in Client : Cardinality(inbox \cap {t}) = 0
    BY FS_EmptySet DEF Init
  <2> QED BY <1>1, <2>1, OccursEmpty DEF Init, Inside, Waits, InFlight
<1>4. OneInside /\ AwakeInv /\ CountInv /\ OwnInv
  BY <1>3 DEF Init, OneInside, AwakeInv, CountInv, OwnInv, Client, Service
<1> QED BY <1>1, <1>2, <1>4 DEF IInv

-----------------------------------------------------------------------------
(* The steps of a client, but for its send *)

\* Locks and places that nobody else's affair changes.
LEMMA OutsideIInv ==
  ASSUME IInv, NEW t \in Client, Call(t) \/ TakeLock(t) PROVE IInv'
<1> USE DEF Call, TakeLock, Goto
<1>1. /\ UNCHANGED <<fifo, inbox, sync, errcode, wlock>>
      /\ pc[t] \in {"idle", "lock"}
      /\ ServiceOf(t) \in Service
  BY ServiceFacts
<1>2. PICK to \in {"lock", "send", "blocked"} :
        /\ pc' = [pc EXCEPT ![t] = to]
        /\ to = "send" => /\ lock[ServiceOf(t)] = 1
                          /\ lock' = [lock EXCEPT ![ServiceOf(t)] = 0]
        /\ to # "send" => lock' = lock
        /\ to = "blocked" => lock[ServiceOf(t)] = 0
  BY <1>1 DEF IInv, Types
<1>3. /\ pc'[t] = to /\ \A u \in Client \ {t} : pc'[u] = pc[u]
      /\ lock' \in [Service -> {0, 1}]
      /\ \A s \in Service : lock'[s] = lock[s] \/ (s = ServiceOf(t) /\ to = "send" /\ lock'[s] = 0)
  BY <1>1, <1>2 DEF IInv, Types
<1>4. FifoInv' /\ \A u \in Client : InFlight(u)' = InFlight(u)
  BY <1>1, Still DEF IInv
<1>5. Types'
  BY <1>1, <1>2, <1>3 DEF IInv, Types, PC
<1>6. \A u \in Client : Waits(u)' <=> Waits(u)
  BY <1>1, <1>2, <1>3 DEF Waits
<1>7. \A u \in Client \ {t} : Inside(u)' <=> Inside(u)
  BY <1>3 DEF Inside
<1>8. Inside(t)' <=> to = "send"
  BY <1>2, <1>3 DEF Inside
<1>9. OneInside'
  <2>1. ASSUME NEW u \in Client, NEW v \in Client, Inside(u)', Inside(v)',
               ServiceOf(u) = ServiceOf(v)
        PROVE  u = v
    <3>1. CASE u # t /\ v # t
      BY <1>7, <2>1, <3>1 DEF IInv, OneInside
    <3>2. ASSUME NEW w \in Client \ {t}, ServiceOf(w) = ServiceOf(t), Inside(w)', Inside(t)'
          PROVE  FALSE
      BY <1>2, <1>7, <1>8, <3>2 DEF IInv, OneInside
    <3> QED BY <2>1, <3>1, <3>2
  <2>2. ASSUME NEW u \in Client, Inside(u)' \/ pc'[u] = "blocked"
        PROVE  lock'[ServiceOf(u)] = 0
    <3>1. CASE u = t
      BY <1>1, <1>2, <1>3, <1>8, <2>2, <3>1 DEF IInv, Types
    <3>2. CASE u # t
      <4>1. lock[ServiceOf(u)] = 0
        BY <1>3, <1>7, <2>2, <3>2 DEF IInv, OneInside
      <4> QED BY <1>3, <4>1, ServiceFacts
    <3> QED BY <3>1, <3>2
  <2>3. ASSUME lock'["farapi"] = 0 PROVE \E u \in FarClient : Inside(u)'
    <3>1. CASE lock["farapi"] = 0
      <4>1. PICK u \in FarClient : Inside(u)
        BY <3>1 DEF IInv, OneInside
      <4>2. u # t /\ u \in Client
        BY <1>1, <4>1 DEF Inside, Client
      <4> QED BY <1>7, <4>1, <4>2
    <3>2. CASE lock["farapi"] # 0
      <4>1. ServiceOf(t) = "farapi" /\ to = "send"
        BY <1>3, <2>3, <3>2 DEF Service
      <4> QED BY <1>8, <4>1, ServiceFacts
    <3> QED BY <3>1, <3>2
  <2> QED BY <2>1, <2>2, <2>3, ServiceFacts DEF OneInside, ServiceOf
<1>10. AwakeInv'
  <2>1. \A u \in FarClient : u \in Client
    BY DEF Client
  <2>2. \A u \in Client : /\ pc'[u] = "sent" => pc[u] = "sent"
                          /\ pc'[u] \in {"wait", "asleep", "answered"}
                               <=> pc[u] \in {"wait", "asleep", "answered"}
    BY <1>1, <1>2, <1>3
  <2> QED BY <1>1, <2>1, <2>2 DEF IInv, AwakeInv
<1>11. CountInv'
  BY <1>1, <1>4, <1>6 DEF IInv, CountInv, ServiceOf
<1>12. OwnInv'
  <2>1. \A u \in SysClient : u \in Client
    BY DEF Client
  <2>2. \A u \in Client : pc'[u] \in {"answered", "unlock"} <=> pc[u] \in {"answered", "unlock"}
    BY <1>1, <1>2, <1>3
  <2> QED BY <1>1, <1>6, <2>1, <2>2 DEF IInv, OwnInv
<1> QED BY <1>4, <1>5, <1>9, <1>10, <1>11, <1>12 DEF IInv

\* Who stays inside keeps the lock.
LEMMA KeepLock ==
  ASSUME IInv, UNCHANGED lock, \A u \in Client : Inside(u)' <=> Inside(u),
         \A u \in Client : pc'[u] = "blocked" => pc[u] = "blocked"
  PROVE  OneInside'
<1>1. \A u \in FarClient : u \in Client
  BY DEF Client
<1> QED BY <1>1 DEF IInv, OneInside, ServiceOf

\* The wakelock, the semaphore of the answer, and the error code.
LEMMA InsideIInv ==
  ASSUME IInv, NEW t \in Client,
         AcquireWakelock(t) \/ TakeSync(t) \/ Interrupt(t) \/ Finish(t)
  PROVE  IInv'
<1>1. /\ UNCHANGED <<fifo, inbox, lock, errcode>>
      /\ ServiceOf(t) \in Service
  BY ServiceFacts DEF AcquireWakelock, TakeSync, Interrupt, Finish
<1>2. FifoInv' /\ \A u \in Client : InFlight(u)' = InFlight(u)
  BY <1>1, Still DEF IInv
<1>3. \A u \in FarClient : u \in Client /\ ServiceOf(u) = "farapi"
  BY ServiceFacts DEF Client
<1>4. \A u \in SysClient : u \in Client /\ ServiceOf(u) = "sysctl" /\ u \notin FarClient
  BY ServiceFacts, RpcAssumption DEF Client
<1>5. \A u, v \in Client : Inside(u) /\ Inside(v) /\ ServiceOf(u) = ServiceOf(v) => u = v
  BY DEF IInv, OneInside
<1>6. ASSUME NEW from \in PC, NEW to \in PC, pc[t] = from, pc' = [pc EXCEPT ![t] = to],
             from \in {"idle", "lock", "blocked"} <=> to \in {"idle", "lock", "blocked"},
             to # "blocked"
      PROVE  OneInside' /\ pc'[t] = to /\ (\A u \in Client \ {t} : pc'[u] = pc[u])
             /\ pc' \in [Client -> PC]
  <2>1. pc'[t] = to /\ (\A u \in Client \ {t} : pc'[u] = pc[u]) /\ pc' \in [Client -> PC]
    BY <1>6 DEF IInv, Types
  <2>2. \A u \in Client : Inside(u)' <=> Inside(u)
    BY <1>6, <2>1 DEF Inside
  <2> QED BY <1>1, <1>6, <2>1, <2>2, KeepLock
<1>7. CASE AcquireWakelock(t)
  <2>1. OneInside' /\ pc'[t] = "wait" /\ (\A u \in Client \ {t} : pc'[u] = pc[u])
        /\ pc' \in [Client -> PC]
    BY <1>6, <1>7 DEF AcquireWakelock, Goto, PC
  <2>2. pc[t] = "sent" /\ t \in FarClient /\ Inside(t) /\ sync' = sync /\ wlock' = wlock + 1
    BY <1>7 DEF AcquireWakelock, Goto, IInv, AwakeInv, Inside
  <2>3. \A u \in FarClient : pc[u] \notin {"wait", "asleep", "answered"}
    BY <1>3, <1>5, <2>2 DEF Inside
  <2>4. wlock' = 1
    BY <2>2, <2>3 DEF IInv, AwakeInv, Types
  <2>5. AwakeInv'
    BY <2>1, <2>2, <2>4 DEF IInv, AwakeInv
  <2>6. \A u \in Client : Waits(u)' <=> Waits(u)
    BY <2>1, <2>2 DEF Waits
  <2>7. CountInv'
    BY <1>2, <2>2, <2>6 DEF IInv, CountInv, ServiceOf
  <2>8. OwnInv'
    BY <1>1, <1>4, <2>1, <2>2, <2>6 DEF IInv, OwnInv
  <2> QED BY <1>1, <1>2, <2>1, <2>2, <2>4, <2>5, <2>7, <2>8 DEF IInv, Types
<1>8. CASE TakeSync(t)
  <2>1. PICK to \in {"answered", "asleep"} :
          /\ pc[t] = "wait" /\ pc' = [pc EXCEPT ![t] = to]
          /\ to = "answered" => /\ sync[ServiceOf(t)] = 1
                                /\ sync' = [sync EXCEPT ![ServiceOf(t)] = 0]
          /\ to = "asleep" => sync' = sync
    BY <1>1, <1>8 DEF TakeSync, Goto, IInv, Types
  <2>2. OneInside' /\ pc'[t] = to /\ (\A u \in Client \ {t} : pc'[u] = pc[u])
        /\ pc' \in [Client -> PC]
    BY <1>6, <2>1 DEF PC
  <2>3. wlock' = wlock /\ sync' \in [Service -> {0, 1}] /\ Waits(t) /\ Inside(t)
    BY <1>8, <2>1 DEF TakeSync, IInv, Types, Waits, Inside
  <2>4. AwakeInv'
    BY <2>1, <2>2, <2>3 DEF IInv, AwakeInv
  <2>5. CASE to = "asleep"
    <3>1. \A u \in Client : Waits(u)' <=> Waits(u)
      BY <2>1, <2>2, <2>5 DEF Waits
    <3>2. CountInv'
      BY <1>2, <2>1, <2>5, <3>1 DEF IInv, CountInv, ServiceOf
    <3>3. OwnInv'
      BY <1>1, <1>4, <2>1, <2>2, <2>5, <3>1 DEF IInv, OwnInv
    <3> QED BY <1>1, <1>2, <2>2, <2>3, <2>4, <3>2, <3>3 DEF IInv, Types
  <2>6. CASE to = "answered"
    <3>1. ~Waits(t)' /\ \A u \in Client \ {t} : Waits(u)' <=> Waits(u)
      BY <2>2, <2>6 DEF Waits
    <3>2. InFlight(t) = 0
      <4>1. InFlight(t) + 1 = 1 /\ InFlight(t) \in Nat
        BY <2>1, <2>3, <2>6, CountType DEF IInv, CountInv, Types
      <4> QED BY <4>1
    <3>3. \A u \in Client \ {t} : Waits(u) => ServiceOf(u) # ServiceOf(t)
      BY <1>5, <2>3 DEF Waits, Inside
    <3>4. /\ \A r \in Service \ {ServiceOf(t)} : sync'[r] = sync[r]
          /\ sync'[ServiceOf(t)] = 0
      BY <1>1, <2>1, <2>6 DEF IInv, Types
    <3>5. CountInv'
      <4>1. ASSUME NEW u \in Client, Waits(u)'
            PROVE  InFlight(u)' + sync'[ServiceOf(u)] = 1
        <5>1. u # t /\ Waits(u) /\ ServiceOf(u) \in Service \ {ServiceOf(t)}
          BY <3>1, <3>3, <4>1, ServiceFacts
        <5> QED BY <1>2, <3>4, <5>1 DEF IInv, CountInv
      <4>2. ASSUME NEW u \in Client, ~Waits(u)' PROVE InFlight(u)' = 0
        BY <1>2, <3>1, <3>2, <4>2 DEF IInv, CountInv
      <4>3. ASSUME NEW r \in Service, sync'[r] = 1
            PROVE  \E u \in Client : ServiceOf(u) = r /\ Waits(u)'
        <5>1. r # ServiceOf(t) /\ sync[r] = 1
          BY <3>4, <4>3
        <5>2. PICK u \in Client : ServiceOf(u) = r /\ Waits(u)
          BY <5>1 DEF IInv, CountInv
        <5> QED BY <3>1, <5>1, <5>2
      <4> QED BY <4>1, <4>2, <4>3 DEF CountInv, ServiceOf
    <3>6. OwnInv'
      <4> SUFFICES ASSUME NEW u \in SysClient,
                          (Waits(u)' /\ sync'["sysctl"] = 1) \/ pc'[u] \in {"answered", "unlock"}
                   PROVE  errcode = u
        BY <1>1 DEF OwnInv
      <4>1. CASE u = t
        BY <1>4, <2>1, <2>3, <2>6, <4>1 DEF IInv, OwnInv
      <4>2. CASE u # t
        <5>1. pc'[u] = pc[u] /\ (Waits(u)' <=> Waits(u)) /\ u \in Client
          BY <1>4, <2>2, <3>1, <4>2
        <5>2. sync'["sysctl"] = 1 => sync["sysctl"] = 1
          BY <3>4 DEF Service
        <5> QED BY <5>1, <5>2 DEF IInv, OwnInv
      <4> QED BY <4>1, <4>2
    <3> QED BY <1>1, <1>2, <2>2, <2>3, <2>4, <3>5, <3>6 DEF IInv, Types
  <2> QED BY <2>5, <2>6
<1>9. CASE Interrupt(t)
  <2>1. PICK from \in {"blocked", "asleep"}, to \in {"lock", "wait"} :
          /\ pc[t] = from /\ pc' = [pc EXCEPT ![t] = to]
          /\ from = "blocked" <=> to = "lock"
    BY <1>9 DEF Interrupt, Goto
  <2>2. OneInside' /\ pc'[t] = to /\ (\A u \in Client \ {t} : pc'[u] = pc[u])
        /\ pc' \in [Client -> PC] /\ sync' = sync /\ wlock' = wlock
    BY <1>6, <1>9, <2>1 DEF PC, Interrupt
  <2>3. \A u \in Client : Waits(u)' <=> Waits(u)
    BY <2>1, <2>2 DEF Waits
  <2>4. AwakeInv'
    BY <1>3, <2>1, <2>2 DEF IInv, AwakeInv
  <2>5. CountInv' /\ OwnInv'
    BY <1>1, <1>2, <1>4, <2>1, <2>2, <2>3 DEF IInv, CountInv, OwnInv, ServiceOf
  <2> QED BY <1>1, <1>2, <2>2, <2>4, <2>5 DEF IInv, Types
<1>10. CASE Finish(t)
  <2>1. pc[t] = "answered" /\ pc' = [pc EXCEPT ![t] = "unlock"] /\ sync' = sync /\ Inside(t)
        /\ wlock' = IF t \in FarClient THEN wlock - 1 ELSE wlock
    BY <1>10 DEF Finish, Goto, Inside
  <2>2. OneInside' /\ pc'[t] = "unlock" /\ (\A u \in Client \ {t} : pc'[u] = pc[u])
        /\ pc' \in [Client -> PC]
    BY <1>6, <2>1 DEF PC
  <2>3. \A u \in Client : Waits(u)' <=> Waits(u)
    BY <2>1, <2>2 DEF Waits
  <2>4. AwakeInv' /\ wlock' \in {0, 1}
    <3>1. CASE t \in FarClient
      <4>1. \A u \in FarClient \ {t} : pc[u] \notin {"wait", "asleep", "answered"}
        BY <1>3, <1>5, <2>1, <3>1 DEF Inside
      <4>2. wlock = 1
        BY <2>1, <3>1 DEF IInv, AwakeInv
      <4> QED BY <1>3, <2>1, <2>2, <3>1, <4>1, <4>2 DEF IInv, AwakeInv
    <3>2. CASE t \notin FarClient
      BY <1>3, <2>1, <2>2, <3>2 DEF IInv, AwakeInv, Types
    <3> QED BY <3>1, <3>2
  <2>5. CountInv' /\ OwnInv'
    BY <1>1, <1>2, <1>4, <2>1, <2>2, <2>3 DEF IInv, CountInv, OwnInv, ServiceOf
  <2> QED BY <1>1, <1>2, <2>1, <2>2, <2>4, <2>5 DEF IInv, Types
<1> QED BY <1>7, <1>8, <1>9, <1>10

\* The lock goes to a client that sleeps on it, or is free.
LEMMA GiveLockIInv ==
  ASSUME IInv, NEW t \in Client, GiveLock(t) PROVE IInv'
<1>1. /\ pc[t] = "unlock" /\ Inside(t) /\ ServiceOf(t) \in Service
      /\ UNCHANGED <<fifo, inbox, sync, errcode, wlock>>
  BY ServiceFacts DEF GiveLock, Inside
<1>2. FifoInv' /\ \A u \in Client : InFlight(u)' = InFlight(u)
  BY <1>1, Still DEF IInv
<1>3. \A u \in FarClient : u \in Client
  BY DEF Client
<1>4. \A u \in SysClient : u \in Client
  BY DEF Client
<1>5. \A u, v \in Client : Inside(u) /\ Inside(v) /\ ServiceOf(u) = ServiceOf(v) => u = v
  BY DEF IInv, OneInside
<1>6. lock[ServiceOf(t)] = 0
  BY <1>1 DEF IInv, OneInside
<1>7. ASSUME NEW N \in SUBSET {u \in Client : pc[u] = "blocked"},
             pc' = [u \in Client |-> IF u = t THEN "idle" ELSE IF u \in N THEN "send" ELSE pc[u]],
             lock' \in [Service -> {0, 1}], OneInside'
      PROVE  IInv'
  <2>1. Types'
    BY <1>1, <1>7 DEF IInv, Types, PC
  <2>2. \A u \in Client : Waits(u)' <=> Waits(u)
    BY <1>1, <1>7 DEF Waits
  <2>3. AwakeInv'
    BY <1>1, <1>3, <1>7 DEF IInv, AwakeInv
  <2>4. CountInv'
    BY <1>1, <1>2, <2>2 DEF IInv, CountInv, ServiceOf
  <2>5. OwnInv'
    BY <1>1, <1>4, <1>7, <2>2 DEF IInv, OwnInv
  <2> QED BY <1>2, <1>7, <2>1, <2>3, <2>4, <2>5 DEF IInv
<1>8. ASSUME NEW v \in Blocked(ServiceOf(t)),
             pc' = [pc EXCEPT ![t] = "idle", ![v] = "send"], UNCHANGED lock
      PROVE  IInv'
  <2>1. v \in Client /\ ServiceOf(v) = ServiceOf(t) /\ pc[v] = "blocked" /\ v # t
    BY <1>1, <1>8 DEF Blocked, Clients
  <2>2. pc' = [u \in Client |-> IF u = t THEN "idle" ELSE IF u \in {v} THEN "send" ELSE pc[u]]
    BY <1>8, <2>1 DEF IInv, Types
  <2>3. OneInside'
    <3>1. \A u \in Client : Inside(u)' <=> u = v \/ (u # t /\ Inside(u))
      BY <1>1, <2>1, <2>2 DEF Inside
    <3>2. ASSUME NEW u \in Client, NEW w \in Client, Inside(u)', Inside(w)',
                 ServiceOf(u) = ServiceOf(w)
          PROVE  u = w
      BY <1>1, <1>5, <2>1, <3>1, <3>2
    <3>3. \A u \in Client : Inside(u)' \/ pc'[u] = "blocked" => lock[ServiceOf(u)] = 0
      BY <1>6, <2>1, <2>2, <3>1 DEF IInv, OneInside
    <3>4. ASSUME lock["farapi"] = 0 PROVE \E u \in FarClient : Inside(u)'
      <4>1. PICK u \in FarClient : Inside(u)
        BY <3>4 DEF IInv, OneInside
      <4>2. CASE u = t
        <5>1. v \in FarClient
          BY <2>1, <4>1, <4>2, ServiceFacts
        <5> QED BY <2>1, <3>1, <5>1
      <4>3. CASE u # t
        BY <1>3, <3>1, <4>1, <4>3
      <4> QED BY <4>2, <4>3
    <3> QED BY <1>8, <3>2, <3>3, <3>4 DEF OneInside, ServiceOf
  <2>4. lock' \in [Service -> {0, 1}]
    BY <1>8 DEF IInv, Types
  <2> QED BY <1>7, <2>1, <2>2, <2>3, <2>4
<1>9. ASSUME Blocked(ServiceOf(t)) = {}, pc' = [pc EXCEPT ![t] = "idle"],
             lock' = [lock EXCEPT ![ServiceOf(t)] = @ + 1]
      PROVE  IInv'
  <2>1. pc' = [u \in Client |-> IF u = t THEN "idle" ELSE IF u \in {} THEN "send" ELSE pc[u]]
    BY <1>9 DEF IInv, Types
  <2>2. lock' = [lock EXCEPT ![ServiceOf(t)] = 1] /\ lock' \in [Service -> {0, 1}]
    BY <1>1, <1>6, <1>9 DEF IInv, Types
  <2>3. \A r \in Service : lock'[r] = IF r = ServiceOf(t) THEN 1 ELSE lock[r]
    BY <2>2 DEF IInv, Types
  <2>4. \A u \in Client : ServiceOf(u) = ServiceOf(t) => pc[u] # "blocked"
    BY <1>9 DEF Blocked, Clients
  <2>5. \A u \in Client : Inside(u)' <=> u # t /\ Inside(u)
    BY <1>1, <2>1 DEF Inside
  <2>6. OneInside'
    <3>1. \A u, w \in Client : Inside(u)' /\ Inside(w)' /\ ServiceOf(u) = ServiceOf(w) => u = w
      BY <1>5, <2>5
    <3>2. ASSUME NEW u \in Client, Inside(u)' \/ pc'[u] = "blocked"
          PROVE  lock'[ServiceOf(u)] = 0
      <4>1. u # t /\ (Inside(u) \/ pc[u] = "blocked")
        BY <2>1, <2>5, <3>2
      <4>2. ServiceOf(u) # ServiceOf(t) /\ ServiceOf(u) \in Service /\ lock[ServiceOf(u)] = 0
        BY <1>1, <1>5, <2>4, <4>1, ServiceFacts DEF IInv, OneInside
      <4> QED BY <2>3, <4>2
    <3>3. ASSUME lock'["farapi"] = 0 PROVE \E u \in FarClient : Inside(u)'
      <4>1. ServiceOf(t) # "farapi" /\ lock["farapi"] = 0
        BY <2>3, <3>3 DEF Service
      <4>2. PICK u \in FarClient : Inside(u)
        BY <4>1 DEF IInv, OneInside
      <4>3. u # t
        BY <1>3, <4>1, ServiceFacts
      <4> QED BY <1>3, <2>5, <4>2, <4>3
    <3> QED BY <3>1, <3>2, <3>3 DEF OneInside, ServiceOf
  <2>7. {} \in SUBSET {u \in Client : pc[u] = "blocked"}
    OBVIOUS
  <2>8. pc' = [u \in Client |-> IF u = t THEN "idle" ELSE IF u \in {} THEN "send" ELSE pc[u]]
        /\ lock' \in [Service -> {0, 1}] /\ OneInside'
    BY <2>1, <2>2, <2>6
  <2> QED BY <1>7, <2>7, <2>8
<1> QED BY <1>8, <1>9 DEF GiveLock

-----------------------------------------------------------------------------
(* Messages *)

\* A call that is sent is under way; one that is refused never was.
LEMMA SendIInv ==
  ASSUME IInv, NEW t \in Client, Send(t) PROVE IInv'
<1>1. /\ pc[t] = "send" /\ Fifo!PushWord(t) /\ Inside(t) /\ ~Waits(t)
      /\ UNCHANGED <<inbox, lock, sync, errcode, wlock, hwPull, rxhandler, handled>>
      /\ ServiceOf(t) \in Service
  BY ServiceFacts DEF Send, Fifo!Push, Fifo!rxVars, Inside, Waits
<1>2. \A u \in FarClient : u \in Client
  BY DEF Client
<1>3. \A u \in SysClient : u \in Client /\ ServiceOf(u) = "sysctl" /\ u \notin FarClient
  BY RpcAssumption, ServiceFacts DEF Client
<1>4. \A u, v \in Client : Inside(u) /\ Inside(v) /\ ServiceOf(u) = ServiceOf(v) => u = v
  BY DEF IInv, OneInside
<1>5. /\ FifoInv'
      /\ \/ result' = "OK" /\ Fifo!Undelivered' = Append(Fifo!Undelivered, t)
         \/ result' = "EAGAIN" /\ Fifo!Undelivered' = Fifo!Undelivered
  <2>1. RxTypeOK'
    BY <1>1, SameFifo DEF IInv, RxTypeOK
  <2>2. t \in Word
    BY DEF Word
  <2> QED BY <1>1, <2>1, <2>2, FifoPush DEF IInv
<1>6. PICK to \in {"wait", "sent", "idle", "unlock"} :
        /\ pc' = [pc EXCEPT ![t] = to]
        /\ result' = "OK" <=> to \in {"wait", "sent"}
        /\ to = "sent" => t \in FarClient
        /\ to = "wait" => t \in SysClient
        /\ to = "idle" => t \in SysClient
        /\ to = "unlock" => t \in FarClient
  BY <1>1 DEF Send, Goto
<1>7. pc'[t] = to /\ (\A u \in Client \ {t} : pc'[u] = pc[u]) /\ pc' \in [Client -> PC]
  BY <1>6 DEF IInv, Types, PC
<1>8. Types'
  BY <1>1, <1>7 DEF IInv, Types
<1>9. \A u \in Client \ {t} : (Waits(u)' <=> Waits(u)) /\ (Inside(u)' <=> Inside(u))
  BY <1>7 DEF Waits, Inside
<1>10. OneInside'
  <2>1. CASE to # "idle"
    <3>1. \A u \in Client : (Inside(u)' <=> Inside(u)) /\ (pc'[u] = "blocked" => pc[u] = "blocked")
      BY <1>1, <1>6, <1>7, <1>9, <2>1 DEF Inside
    <3> QED BY <1>1, <3>1, KeepLock
  <2>2. CASE to = "idle"
    <3>1. t \notin FarClient /\ ~Inside(t)'
      BY <1>3, <1>6, <1>7, <2>2 DEF Inside
    <3>2. \A u, v \in Client : Inside(u)' /\ Inside(v)' /\ ServiceOf(u) = ServiceOf(v) => u = v
      BY <1>4, <1>9, <3>1
    <3>3. \A u \in Client : Inside(u)' \/ pc'[u] = "blocked" => lock[ServiceOf(u)] = 0
      BY <1>7, <1>9, <2>2, <3>1 DEF IInv, OneInside
    <3>4. lock["farapi"] = 0 => \E u \in FarClient : Inside(u)'
      BY <1>2, <1>9, <3>1 DEF IInv, OneInside
    <3> QED BY <1>1, <3>2, <3>3, <3>4 DEF OneInside, ServiceOf
  <2> QED BY <2>1, <2>2
<1>11. AwakeInv'
  BY <1>1, <1>2, <1>3, <1>6, <1>7 DEF IInv, AwakeInv
<1>12. \A u \in Client : Waits(u) => ServiceOf(u) # ServiceOf(t)
  BY <1>1, <1>4 DEF Waits, Inside
<1>13. /\ \A u \in Client \ {t} : InFlight(u)' = InFlight(u)
       /\ InFlight(t)' = IF to \in {"wait", "sent"} THEN 1 ELSE 0
  <2>1. InFlight(t) = 0
    BY <1>1 DEF IInv, CountInv
  <2>2. Fifo!Undelivered \in Seq(Word) /\ t \in Word
    BY FifoWords DEF IInv, Word
  <2>3. \A u \in Client : Occurs(u, Append(Fifo!Undelivered, t))
                            = Occurs(u, Fifo!Undelivered) + (IF t = u THEN 1 ELSE 0)
    BY <2>2, OccursAppend
  <2>4. \A u \in Client : /\ Occurs(u, Fifo!Undelivered) \in Nat /\ Occurs(u, hwPull) \in Nat
                          /\ Cardinality(inbox \cap {u}) \in Nat
    BY CountType, SMTT(30) DEF IInv, Types
  <2>5. ASSUME NEW u \in Client
        PROVE  Occurs(u, Fifo!Undelivered')
                 = Occurs(u, Fifo!Undelivered) + (IF u = t /\ to \in {"wait", "sent"} THEN 1 ELSE 0)
    <3>1. CASE to \in {"wait", "sent"}
      BY <1>5, <1>6, <2>3, <3>1
    <3>2. CASE to \notin {"wait", "sent"}
      <4>1. Fifo!Undelivered' = Fifo!Undelivered
        BY <1>5, <1>6, <3>2
      <4>2. Occurs(u, Fifo!Undelivered) \in Nat
        BY <2>4
      <4>3. ~(u = t /\ to \in {"wait", "sent"})
        BY <3>2
      <4>4. Occurs(u, Fifo!Undelivered') = Occurs(u, Fifo!Undelivered) + 0
        <5> DEFINE n == Occurs(u, Fifo!Undelivered)
        <5>1. n = n + 0
          <6> HIDE DEF n
          <6>1. n \in Nat
            BY <4>2 DEF n
          <6> QED BY <6>1
        <5> QED BY <4>1, <5>1
      <4> QED BY <4>3, <4>4
    <3> QED BY <3>1, <3>2
  <2>6. \A u \in Client : InFlight(u)' = Occurs(u, Fifo!Undelivered')
                                         + Cardinality(inbox \cap {u}) + Occurs(u, hwPull)
    BY <1>1 DEF InFlight
  <2>7. ASSUME NEW u \in Client
        PROVE  InFlight(u)' = InFlight(u) + (IF u = t /\ to \in {"wait", "sent"} THEN 1 ELSE 0)
    <3> DEFINE n == IF u = t /\ to \in {"wait", "sent"} THEN 1 ELSE 0
    <3>1. n \in Nat
      OBVIOUS
    <3>2. Occurs(u, Fifo!Undelivered') = Occurs(u, Fifo!Undelivered) + n
      BY <2>5
    <3>3. InFlight(u) = Occurs(u, Fifo!Undelivered) + Cardinality(inbox \cap {u})
                        + Occurs(u, hwPull)
      BY DEF InFlight
    <3> HIDE DEF n
    <3>4. InFlight(u)' = InFlight(u) + n
      BY <2>4, <2>6, <3>1, <3>2, <3>3
    <3> QED BY <3>4 DEF n
  <2>8. \A u \in Client : InFlight(u) \in Nat
    BY CountType DEF IInv, Types
  <2>9. \A u \in Client \ {t} : InFlight(u)' = InFlight(u)
    BY <2>7, <2>8
  <2>10. InFlight(t)' = IF to \in {"wait", "sent"} THEN 1 ELSE 0
    BY <2>1, <2>7
  <2> QED BY <2>9, <2>10
<1>14. CountInv'
  <2>1. sync[ServiceOf(t)] = 0
    BY <1>1, <1>12 DEF IInv, CountInv, Types
  <2>2. ASSUME NEW u \in Client, Waits(u)' PROVE InFlight(u)' + sync[ServiceOf(u)] = 1
    <3>1. CASE u = t
      BY <1>7, <1>13, <2>1, <2>2, <3>1 DEF Waits
    <3>2. CASE u # t
      BY <1>9, <1>13, <2>2, <3>2 DEF IInv, CountInv
    <3> QED BY <3>1, <3>2
  <2>3. ASSUME NEW u \in Client, ~Waits(u)' PROVE InFlight(u)' = 0
    <3>1. CASE u = t
      BY <1>7, <1>13, <2>3, <3>1 DEF Waits
    <3>2. CASE u # t
      BY <1>9, <1>13, <2>3, <3>2 DEF IInv, CountInv
    <3> QED BY <3>1, <3>2
  <2>4. ASSUME NEW r \in Service, sync[r] = 1
        PROVE  \E u \in Client : ServiceOf(u) = r /\ Waits(u)'
    <3>1. PICK u \in Client : ServiceOf(u) = r /\ Waits(u)
      BY <2>4 DEF IInv, CountInv
    <3> QED BY <1>1, <1>9, <3>1
  <2> QED BY <1>1, <2>2, <2>3, <2>4 DEF CountInv, ServiceOf
<1>15. OwnInv'
  <2> SUFFICES ASSUME NEW u \in SysClient,
                      (Waits(u)' /\ sync["sysctl"] = 1) \/ pc'[u] \in {"answered", "unlock"}
               PROVE  errcode = u
    BY <1>1 DEF OwnInv
  <2>1. CASE u = t
    <3>1. sync["sysctl"] = 0
      BY <1>1, <1>3, <1>12, <2>1 DEF IInv, CountInv, Types
    <3>2. to # "unlock"
      BY <1>3, <1>6, <2>1
    <3> QED BY <1>7, <2>1, <3>1, <3>2
  <2>2. CASE u # t
    BY <1>3, <1>7, <1>9, <2>2 DEF IInv, OwnInv
  <2> QED BY <2>1, <2>2
<1> QED BY <1>5, <1>8, <1>10, <1>11, <1>14, <1>15 DEF IInv

\* The FIFO, its other users and the remote CPUs leave each count as it is.
LEMMA ElsewhereIInv ==
  ASSUME IInv, FifoInv', inbox' \subseteq Client, UNCHANGED <<lock, sync, errcode, wlock, pc>>,
         \A u \in Client : InFlight(u)' = InFlight(u)
  PROVE  IInv'
<1>1. Types' /\ AwakeInv'
  BY DEF IInv, Types, AwakeInv
<1>2. \A u \in Client : (Waits(u)' <=> Waits(u)) /\ (Inside(u)' <=> Inside(u))
  BY DEF Waits, Inside
<1>3. OneInside'
  BY <1>2, KeepLock
<1>4. CountInv'
  BY <1>2 DEF IInv, CountInv, ServiceOf
<1>5. OwnInv'
  <2>1. \A u \in SysClient : u \in Client
    BY DEF Client
  <2> QED BY <1>2, <2>1 DEF IInv, OwnInv
<1> QED BY <1>1, <1>3, <1>4, <1>5 DEF IInv

LEMMA TrafficIInv ==
  ASSUME IInv, TxIrq \/ OtherSend PROVE IInv'
<1>1. UNCHANGED <<inbox, lock, sync, errcode, wlock, pc>>
  BY DEF TxIrq, OtherSend
<1>2. /\ FifoInv' /\ hwPull' = hwPull
      /\ \/ Fifo!Undelivered' = Fifo!Undelivered
         \/ Fifo!Undelivered' = Append(Fifo!Undelivered, Other)
  <2>1. CASE TxIrq
    BY <2>1, FifoTx DEF TxIrq, IInv
  <2>2. CASE OtherSend
    <3>1. RxTypeOK' /\ Fifo!PushWord(Other) /\ hwPull' = hwPull /\ Other \in Word
      BY <2>2, SameFifo DEF OtherSend, Fifo!Push, Fifo!rxVars, IInv, RxTypeOK, Word
    <3> QED BY <3>1, FifoPush DEF IInv
  <2> QED BY <2>1, <2>2
<1>3. ASSUME NEW u \in Client PROVE InFlight(u)' = InFlight(u)
  <2>1. Fifo!Undelivered \in Seq(Word) /\ Other \in Word /\ Other # u
    BY FifoWords, RpcAssumption DEF IInv, Word
  <2>2. Occurs(u, Append(Fifo!Undelivered, Other)) = Occurs(u, Fifo!Undelivered)
    BY <2>1, OccursAppend, OccursType
  <2>3. Occurs(u, Fifo!Undelivered') = Occurs(u, Fifo!Undelivered)
    BY <1>2, <2>2
  <2> QED BY <1>1, <1>2, <2>3 DEF InFlight
<1> QED BY <1>1, <1>2, <1>3, ElsewhereIInv DEF IInv, Types

\* A call arrives at the remote CPU, or its answer leaves it.
LEMMA RemoteIInv ==
  ASSUME IInv, RemoteTake \/ \E t \in Client : RemoteAnswer(t) PROVE IInv'
<1>1. UNCHANGED <<lock, sync, errcode, wlock, pc>>
  BY DEF RemoteTake, RemoteAnswer
<1>2. CASE RemoteTake
  <2>1. /\ FifoInv' /\ hwPull' = hwPull /\ Fifo!Undelivered # <<>>
        /\ Fifo!Undelivered' = Tail(Fifo!Undelivered)
        /\ inbox' = inbox \cup ({Head(Fifo!Undelivered)} \cap Client)
    BY <1>2, FifoTake DEF RemoteTake, IInv
  <2>2. inbox' \subseteq Client
    BY <2>1 DEF IInv, Types
  <2>3. ASSUME NEW u \in Client PROVE InFlight(u)' = InFlight(u)
    <3>1. /\ Occurs(u, Fifo!Undelivered) = Occurs(u, Fifo!Undelivered')
                + (IF Head(Fifo!Undelivered) = u THEN 1 ELSE 0)
          /\ Occurs(u, Fifo!Undelivered') \in Nat
      <4>1. Fifo!Undelivered \in Seq(Word) /\ Tail(Fifo!Undelivered) \in Seq(Word)
        BY <2>1, FifoWords, HeadTailProperties DEF IInv
      <4> QED BY <2>1, <4>1, OccursTail, OccursType
    <3>2. /\ Cardinality(inbox \cap {u}) = IF u \in inbox THEN 1 ELSE 0
          /\ Occurs(u, hwPull) \in Nat
      BY CountType DEF IInv, Types
    <3>3. Cardinality(inbox' \cap {u}) = IF u \in inbox' THEN 1 ELSE 0
      <4>1. inbox' \cap {u} = IF u \in inbox' THEN {u} ELSE {}
        OBVIOUS
      <4> QED BY <4>1, FS_EmptySet, FS_Singleton
    <3>4. Head(Fifo!Undelivered) = u => u \notin inbox
      <4>1. InFlight(u) \in {0, 1}
        BY UnderWay
      <4> QED BY <3>1, <3>2, <4>1 DEF InFlight
    <3>5. u \in inbox' <=> u \in inbox \/ Head(Fifo!Undelivered) = u
      BY <2>1
    <3>6. InFlight(u)' = Occurs(u, Fifo!Undelivered') + Cardinality(inbox' \cap {u})
                         + Occurs(u, hwPull)
      BY <2>1 DEF InFlight
    <3> QED BY <3>1, <3>2, <3>3, <3>4, <3>5, <3>6 DEF InFlight
  <2> QED BY <1>1, <2>1, <2>2, <2>3, ElsewhereIInv
<1>3. ASSUME NEW t \in Client, RemoteAnswer(t) PROVE IInv'
  <2>1. /\ FifoInv' /\ Fifo!Undelivered' = Fifo!Undelivered /\ hwPull' = Append(hwPull, t)
        /\ t \in inbox /\ inbox' = inbox \ {t} /\ t \in Word
    BY <1>3, FifoRx DEF RemoteAnswer, IInv, Word
  <2>2. inbox' \subseteq Client
    BY <2>1 DEF IInv, Types
  <2>3. ASSUME NEW u \in Client PROVE InFlight(u)' = InFlight(u)
    <3>1. Occurs(u, hwPull') = Occurs(u, hwPull) + (IF t = u THEN 1 ELSE 0)
      <4>1. hwPull \in Seq(Word)
        BY FifoWords DEF IInv
      <4> QED BY <2>1, <4>1, OccursAppend
    <3>2. /\ Cardinality(inbox \cap {u}) = IF u \in inbox THEN 1 ELSE 0
          /\ Occurs(u, hwPull) \in Nat /\ Occurs(u, Fifo!Undelivered) \in Nat
      BY CountType DEF IInv, Types
    <3>3. Cardinality(inbox' \cap {u}) = IF u \in inbox' THEN 1 ELSE 0
      <4>1. inbox' \cap {u} = IF u \in inbox' THEN {u} ELSE {}
        OBVIOUS
      <4> QED BY <4>1, FS_EmptySet, FS_Singleton
    <3>4. u \in inbox' <=> u \in inbox /\ u # t
      BY <2>1
    <3>5. InFlight(u)' = Occurs(u, Fifo!Undelivered) + Cardinality(inbox' \cap {u})
                         + Occurs(u, hwPull')
      BY <2>1 DEF InFlight
    <3> QED BY <2>1, <3>1, <3>2, <3>3, <3>4, <3>5 DEF InFlight
  <2> QED BY <1>1, <2>1, <2>2, <2>3, ElsewhereIInv
<1> QED BY <1>2, <1>3

\* The answer is taken from the FIFO and posted: the client it wakes, or for
\* which it leaves a token, is the one that called.
LEMMA RxIrqIInv ==
  ASSUME IInv, RxIrq PROVE IInv'
<1>0. PICK w \in Client : w = Head(hwPull)
  BY DEF RxIrq, Client
<1> DEFINE s == ServiceOf(w)
<1>1. /\ hwPull # <<>> /\ hwPull' = Tail(hwPull) /\ RxTypeOK'
      /\ hwPull \in Seq(Word) /\ Tail(hwPull) \in Seq(Word)
      /\ UNCHANGED <<inbox, lock, wlock>>
      /\ s \in Service
  <2>1. Fifo!Pull /\ UNCHANGED handled /\ UNCHANGED <<inbox, lock, wlock>>
    BY DEF RxIrq
  <2>2. hwPull # <<>> /\ hwPull' = Tail(hwPull) /\ RxTypeOK' /\ hwPull \in Seq(Word)
    BY <2>1, FifoRx, FifoWords DEF IInv
  <2> QED BY <2>1, <2>2, HeadTailProperties, ServiceFacts
<1>2. /\ PostSync(s)
      /\ \/ w \in SysClient /\ errcode' = w /\ UNCHANGED fifoTx
         \/ w \notin SysClient /\ errcode' = errcode /\ Fifo!PushWord(Ack)
  BY <1>1, <1>0, RpcAssumption DEF RxIrq, SysctlRxHandler, FarApiDoneHandler, ServiceOf
<1> HIDE DEF s
<1>3. /\ FifoInv'
      /\ \/ Fifo!Undelivered' = Fifo!Undelivered
         \/ Fifo!Undelivered' = Append(Fifo!Undelivered, Ack)
  <2>1. CASE UNCHANGED fifoTx
    BY <1>1, <2>1, FifoRx DEF IInv
  <2>2. CASE Fifo!PushWord(Ack)
    BY <1>1, <2>2, FifoPush DEF IInv, Word
  <2> QED BY <1>2, <2>1, <2>2
<1>4. ASSUME NEW u \in Client
      PROVE  InFlight(u) = InFlight(u)' + (IF w = u THEN 1 ELSE 0) /\ InFlight(u)' \in Nat
  <2>1. Fifo!Undelivered \in Seq(Word) /\ Ack \in Word /\ Ack # u
    BY FifoWords, RpcAssumption DEF IInv, Word
  <2>2. Occurs(u, Append(Fifo!Undelivered, Ack)) = Occurs(u, Fifo!Undelivered)
    BY <2>1, OccursAppend, OccursType
  <2>3. Occurs(u, Fifo!Undelivered') = Occurs(u, Fifo!Undelivered)
    BY <1>3, <2>2
  <2>4. Occurs(u, hwPull) = Occurs(u, hwPull') + (IF w = u THEN 1 ELSE 0)
        /\ Occurs(u, hwPull') \in Nat
    BY <1>1, <1>0, OccursTail, OccursType
  <2>5. Occurs(u, Fifo!Undelivered) \in Nat /\ Cardinality(inbox \cap {u}) \in Nat
    BY CountType DEF IInv, Types
  <2> QED BY <1>1, <2>3, <2>4, <2>5, SMTT(30) DEF InFlight
<1>5. /\ InFlight(w)' = 0 /\ Waits(w) /\ Inside(w) /\ sync[s] = 0
      /\ \A u \in Client : Inside(u) /\ ServiceOf(u) = s => u = w
      /\ \A u \in Client \ {w} : InFlight(u)' = InFlight(u)
  <2>1. \A u \in Client : InFlight(u)' \in Nat
    BY <1>4
  <2>2. InFlight(w) # 0
    BY <1>1, <1>4, <2>1
  <2>3. InFlight(w) = 1 /\ Waits(w) /\ sync[s] = 0
        /\ \A u \in Client : Inside(u) /\ ServiceOf(u) = s => u = w
    BY <1>1, <2>2, UnderWay DEF s
  <2> QED BY <1>1, <1>4, <2>1, <2>3 DEF Waits, Inside
<1>6. \/ /\ pc[w] = "asleep" /\ pc' = [pc EXCEPT ![w] = "answered"] /\ sync' = sync
      \/ /\ pc' = pc /\ sync' = [sync EXCEPT ![s] = 1]
  <2>1. \A u \in Waiting(s) : u = w
    BY <1>5 DEF Waiting, Clients, Inside
  <2> QED BY <1>1, <1>2, <1>5, <2>1 DEF PostSync, Goto, IInv, Types
<1>7. \A u \in Client \ {w} : /\ pc'[u] = pc[u] /\ (Waits(u)' <=> Waits(u))
                              /\ Waits(u) \/ Inside(u) => ServiceOf(u) # s
  BY <1>1, <1>5, <1>6 DEF Waits, Inside, IInv, Types
<1>8. Types'
  <2>1. errcode' \in SysClient \cup {NoHandler}
    BY <1>2 DEF IInv, Types
  <2>2. sync' \in [Service -> {0, 1}] /\ pc' \in [Client -> PC]
    BY <1>1, <1>6 DEF IInv, Types, PC
  <2> QED BY <1>1, <2>1, <2>2 DEF IInv, Types
<1>9. pc'[w] = IF sync' = sync THEN "answered" ELSE pc[w]
  BY <1>1, <1>5, <1>6 DEF IInv, Types
<1>10. OneInside'
  <2>1. \A u \in Client : (Inside(u)' <=> Inside(u)) /\ (pc'[u] = "blocked" => pc[u] = "blocked")
    BY <1>1, <1>5, <1>6 DEF IInv, Types, Inside
  <2> QED BY <1>1, <2>1, KeepLock
<1>11. AwakeInv'
  <2>1. \A u \in FarClient : u \in Client
    BY DEF Client
  <2>2. \A u \in Client : /\ pc'[u] = "sent" => pc[u] = "sent"
                          /\ pc'[u] \in {"wait", "asleep", "answered"}
                               <=> pc[u] \in {"wait", "asleep", "answered"}
    BY <1>1, <1>6 DEF IInv, Types
  <2> QED BY <1>1, <2>1, <2>2 DEF IInv, AwakeInv
<1>12. \/ /\ sync' = sync /\ ~Waits(w)' /\ pc'[w] = "answered"
       \/ /\ Waits(w)' /\ pc'[w] = pc[w] /\ sync'[s] = 1
          /\ \A r \in Service \ {s} : sync'[r] = sync[r]
  BY <1>1, <1>5, <1>6 DEF IInv, Types, Waits
<1>13. CountInv'
  <2>1. ASSUME NEW u \in Client, Waits(u)' PROVE InFlight(u)' + sync'[ServiceOf(u)] = 1
    <3>1. CASE u = w
      BY <1>5, <1>12, <2>1, <3>1 DEF s
    <3>2. CASE u # w
      <4>1. Waits(u) /\ ServiceOf(u) \in Service \ {s} /\ InFlight(u)' = InFlight(u)
        BY <1>5, <1>7, <2>1, <3>2, ServiceFacts
      <4>2. sync'[ServiceOf(u)] = sync[ServiceOf(u)]
        BY <1>12, <4>1
      <4> QED BY <4>1, <4>2 DEF IInv, CountInv
    <3> QED BY <3>1, <3>2
  <2>2. ASSUME NEW u \in Client, ~Waits(u)' PROVE InFlight(u)' = 0
    <3>1. CASE u = w
      BY <1>5, <3>1
    <3>2. CASE u # w
      BY <1>5, <1>7, <2>2, <3>2 DEF IInv, CountInv
    <3> QED BY <3>1, <3>2
  <2>3. ASSUME NEW r \in Service, sync'[r] = 1
        PROVE  \E u \in Client : ServiceOf(u) = r /\ Waits(u)'
    <3>1. CASE r = s
      <4>1. Waits(w)'
        BY <1>5, <1>12, <2>3, <3>1
      <4> QED BY <1>1, <3>1, <4>1 DEF s
    <3>2. CASE r # s
      <4>1. sync[r] = 1
        BY <1>12, <2>3, <3>2
      <4>2. PICK u \in Client : ServiceOf(u) = r /\ Waits(u)
        BY <4>1 DEF IInv, CountInv
      <4>3. u # w
        BY <3>2, <4>2 DEF s
      <4> QED BY <1>7, <4>2, <4>3
    <3> QED BY <3>1, <3>2
  <2> QED BY <2>1, <2>2, <2>3 DEF CountInv, ServiceOf
<1>14. OwnInv'
  <2> SUFFICES ASSUME NEW u \in SysClient,
                      (Waits(u)' /\ sync'["sysctl"] = 1) \/ pc'[u] \in {"answered", "unlock"}
               PROVE  errcode' = u
    BY DEF OwnInv
  <2>1. u \in Client /\ ServiceOf(u) = "sysctl" /\ "sysctl" \in Service
    BY ServiceFacts DEF Client, Service
  <2>2. CASE w \in SysClient
    <3>1. errcode' = w /\ s = "sysctl"
      BY <1>2, <2>2 DEF s, ServiceOf
    <3>2. CASE u # w
      BY <1>7, <2>1, <3>1, <3>2 DEF Waits, Inside
    <3> QED BY <3>1, <3>2
  <2>3. CASE w \notin SysClient
    <3>1. errcode' = errcode /\ s # "sysctl" /\ u # w
      BY <1>2, <2>3 DEF s, ServiceOf
    <3>2. sync'["sysctl"] = sync["sysctl"]
      BY <1>12, <2>1, <3>1
    <3> QED BY <1>7, <2>1, <3>1, <3>2 DEF IInv, OwnInv
  <2> QED BY <2>2, <2>3
<1> QED BY <1>3, <1>8, <1>10, <1>11, <1>13, <1>14 DEF IInv

-----------------------------------------------------------------------------
(* Every step *)

LEMMA NextIInv == IInv /\ [Next]_rpcVars => IInv'
<1> SUFFICES ASSUME IInv, [Next]_rpcVars PROVE IInv'
  OBVIOUS
<1>1. ASSUME NEW t \in Client, Call(t) \/ TakeLock(t) PROVE IInv'
  BY <1>1, OutsideIInv
<1>2. ASSUME NEW t \in Client,
             AcquireWakelock(t) \/ TakeSync(t) \/ Interrupt(t) \/ Finish(t)
      PROVE  IInv'
  BY <1>2, InsideIInv
<1>3. ASSUME NEW t \in Client, Send(t) PROVE IInv'
  BY <1>3, SendIInv
<1>4. ASSUME NEW t \in Client, GiveLock(t) PROVE IInv'
  BY <1>4, GiveLockIInv
<1>5. ASSUME NEW t \in Client, RemoteAnswer(t) PROVE IInv'
  BY <1>5, RemoteIInv
<1>6. CASE RemoteTake
  BY <1>6, RemoteIInv
<1>7. CASE TxIrq \/ OtherSend
  BY <1>7, TrafficIInv
<1>8. CASE RxIrq
  BY <1>8, RxIrqIInv
<1>9. CASE UNCHANGED rpcVars
  <2>1. FifoInv' /\ \A u \in Client : InFlight(u)' = InFlight(u)
    BY <1>9, Still DEF rpcVars, IInv
  <2> QED BY <1>9, <2>1, ElsewhereIInv DEF rpcVars, IInv, Types
<1> QED BY <1>1, <1>2, <1>3, <1>4, <1>5, <1>6, <1>7, <1>8, <1>9 DEF Next, Step

THEOREM SpecIInv == Spec => []IInv
<1> QED BY InitIInv, NextIInv, PTL DEF Spec

-----------------------------------------------------------------------------
(* What it means for the sets of clients *)

LEMMA AtMostOne ==
  ASSUME NEW S, \A a, b \in S : a = b
  PROVE  Cardinality(S) = IF S = {} THEN 0 ELSE 1
<1>1. CASE S = {}
  BY <1>1, FS_EmptySet
<1>2. ASSUME NEW a \in S PROVE Cardinality(S) = 1
  <2>1. S = {a}
    BY <1>2
  <2> QED BY <2>1, FS_Singleton
<1> QED BY <1>1, <1>2

LEMMA IInvInv == IInv => Inv
<1> SUFFICES ASSUME IInv PROVE Inv
  OBVIOUS
<1>1. TypeOK
  BY DEF IInv, FifoInv, Types, TypeOK
<1>2. \A s \in Service : \A t, u \in Holders(s) : t = u
  BY DEF IInv, OneInside, Holders, Clients, Inside
<1>3. \A s \in Service : Cardinality(Holders(s)) = IF Holders(s) = {} THEN 0 ELSE 1
  BY <1>2, AtMostOne
<1>4. \A s \in Service : Holders(s) # {} \/ Blocked(s) # {} => lock[s] = 0
  BY DEF IInv, OneInside, Holders, Blocked, Clients, Inside
<1>5. \A s \in Service : lock[s] \in {0, 1}
  BY DEF IInv, Types
<1>6. lock["farapi"] = 0 => Holders("farapi") # {}
  <2>1. \A u \in FarClient : u \in Client /\ ServiceOf(u) = "farapi"
    BY ServiceFacts DEF Client
  <2> QED BY <2>1 DEF IInv, OneInside, Holders, Clients, Inside
<1>7. LockInv
  <2>1. \A s \in Service : lock[s] + Cardinality(Holders(s)) <= 1
    BY <1>3, <1>4, <1>5
  <2>2. lock["farapi"] + Cardinality(Holders("farapi")) = 1
    <3>1. "farapi" \in Service
      BY DEF Service
    <3> QED BY <1>3, <1>4, <1>5, <1>6, <3>1
  <2> QED BY <1>4, <2>1, <2>2 DEF LockInv
<1>8. WakelockInv
  <2> DEFINE S == {t \in FarClient : pc[t] \in {"wait", "asleep", "answered"}}
  <2>1. \A t \in FarClient : t \in Client /\ ServiceOf(t) = "farapi"
    BY ServiceFacts DEF Client
  <2>2. \A t, u \in S : t = u
    BY <2>1 DEF IInv, OneInside, Inside
  <2>3. wlock = 1 <=> S # {}
    BY DEF IInv, AwakeInv
  <2>4. wlock \in {0, 1}
    BY DEF IInv, Types
  <2> HIDE DEF S
  <2>5. Cardinality(S) = IF S = {} THEN 0 ELSE 1
    BY <2>2, AtMostOne
  <2>6. wlock = Cardinality(S)
    BY <2>3, <2>4, <2>5
  <2> QED BY <2>6 DEF WakelockInv, S
<1> QED BY <1>1, <1>7, <1>8 DEF Inv

\* cxd56_sysctlcmd and farapi_main are one client's at a time, whatever the
\* handlers, the remote CPUs and other senders do meanwhile, a client that
\* sleeps on the lock sleeps on a taken one, farapi_main gives its lock after
\* a refused send, too, and it keeps the wakelock exactly while it may sleep.
THEOREM OneAtATime == Spec => []Inv
<1> QED BY SpecIInv, IInvInv, PTL

\* An answer posted to g_sync or g_farwait is for the client that waits there:
\* each has one call under way or its token, and a client that does not wait
\* leaves no answer behind, not even when its send was refused.
THEOREM AnswersPaired == Spec => []AnswerInv
<1>1. IInv => AnswerInv
  <2> SUFFICES ASSUME IInv PROVE AnswerInv
    OBVIOUS
  <2>1. \A s \in Service : \A t \in Clients(s) : t \in Client /\ ServiceOf(t) = s
                                                 /\ (t \in Waiting(s) <=> Waits(t))
    BY DEF Clients, Waiting, Waits
  <2>2. \A s \in Service : Waiting(s) \subseteq Clients(s)
    BY DEF Waiting
  <2>3. ASSUME NEW s \in Service, NEW t \in Waiting(s) PROVE InFlight(t) + sync[s] = 1
    BY <2>1, <2>2 DEF IInv, CountInv
  <2>4. ASSUME NEW s \in Service, NEW t \in Clients(s) \ Waiting(s) PROVE InFlight(t) = 0
    BY <2>1 DEF IInv, CountInv
  <2>5. ASSUME NEW s \in Service, Waiting(s) = {} PROVE sync[s] = 0
    <3>1. \A t \in Client : ServiceOf(t) = s => ~Waits(t)
      BY <2>5 DEF Waiting, Clients, Waits
    <3> QED BY <3>1 DEF IInv, CountInv, Types
  <2> QED BY <2>3, <2>4, <2>5 DEF AnswerInv
<1> QED BY <1>1, SpecIInv, PTL

\* cxd56_sysctlcmd reads g_errcode after its wait, without a critical section,
\* and finds the answer to its own command there.
THEOREM ErrcodeOwn == Spec => []OwnAnswer
<1>1. IInv => OwnAnswer
  BY DEF IInv, OwnInv, OwnAnswer
<1> QED BY <1>1, SpecIInv, PTL

-----------------------------------------------------------------------------
(* The FIFO that the two protocols share is still the channel that its     *)
(* driver promises, although here cxd56_cfpush is also called from the     *)
(* handler of the receive interrupt, which is no step of CpuFifo.          *)

Chan == INSTANCE Channel WITH chan <- Fifo!Undelivered, Msg <- Word,
                              Capacity <- NR_PUSHBUFENTRIES

LEMMA PushRefines ==
  ASSUME IInv, IInv', NEW m \in Word, Fifo!PushWord(m)
  PROVE  Chan!Send(m) \/ Chan!Refuse
<1>1. RxTypeOK'
  BY DEF IInv, FifoInv, Fifo!TypeOK, RxTypeOK, Word
<1> QED BY <1>1, FifoPush DEF IInv, Chan!Send, Chan!Refuse

\* What leaves the sending side of the FIFO alone leaves the channel alone.
LEMMA QuietRefines ==
  ASSUME UNCHANGED fifoTx PROVE UNCHANGED <<Fifo!Undelivered, result>>
  BY DEF fifoTx, Fifo!Undelivered, Fifo!Parked

LEMMA StepRefines ==
  IInv /\ IInv' /\ [Next]_rpcVars => [Chan!Next]_(Chan!chanVars)
<1> SUFFICES ASSUME IInv, IInv', [Next]_rpcVars
             PROVE  Chan!Next \/ UNCHANGED <<Fifo!Undelivered, result>>
  BY DEF Chan!chanVars
<1>1. ASSUME NEW m \in Word, Fifo!PushWord(m) PROVE Chan!Next
  BY <1>1, PushRefines DEF Chan!Next
<1>2. ASSUME NEW t \in Client, Send(t) PROVE Chan!Next
  BY <1>1, <1>2 DEF Send, Fifo!Push, Word
<1>3. CASE OtherSend
  BY <1>1, <1>3 DEF OtherSend, Fifo!Push, Word
<1>4. ASSUME NEW t \in Client,
             \/ Call(t) \/ TakeLock(t) \/ AcquireWakelock(t) \/ TakeSync(t)
             \/ Finish(t) \/ GiveLock(t) \/ Interrupt(t) \/ RemoteAnswer(t)
      PROVE  UNCHANGED fifoTx
  BY <1>4 DEF Call, TakeLock, AcquireWakelock, TakeSync, Finish, GiveLock, Interrupt,
              RemoteAnswer, Fifo!RemoteSend, Fifo!txVars, fifo, fifoTx
<1>5. CASE RxIrq
  <2>1. CASE FarApiDoneHandler
    BY <1>1, <2>1 DEF FarApiDoneHandler, Word
  <2>2. CASE SysctlRxHandler(Head(hwPull))
    BY <2>2, QuietRefines DEF SysctlRxHandler
  <2> QED BY <1>5, <2>1, <2>2 DEF RxIrq
<1>6. CASE TxIrq
  BY <1>6, FifoTx DEF IInv, TxIrq, Fifo!TxIrq
<1>7. CASE RemoteTake
  BY <1>7, FifoTake DEF IInv, RemoteTake, Fifo!RemoteTake, Chan!Next, Chan!Deliver
<1>8. CASE UNCHANGED rpcVars
  BY <1>8, QuietRefines DEF rpcVars, fifo
<1> QED BY <1>2, <1>3, <1>4, <1>5, <1>6, <1>7, <1>8, QuietRefines DEF Next, Step

\* Whoever calls cxd56_cfpush, clients, other drivers or the receive interrupt
\* in cxd56_farapidonehandler, the accepted words are delivered once and in
\* the order of the calls, and a refusal has no effect and needs a backlog.
THEOREM SharedFifo == Spec => Chan!Safe
<1>1. Init => Chan!Init
  <2> SUFFICES ASSUME Init PROVE Chan!Init
    OBVIOUS
  <2>1. Fifo!TxInit /\ hwPull = <<>> /\ rxhandler = ICC /\ handled = NoHandler
    BY DEF Init
  <2>2. Fifo!Undelivered = <<>>
    BY <2>1, FifoStarts
  <2> QED BY <2>1, <2>2 DEF Chan!Init, Fifo!TxInit
<1> QED BY <1>1, StepRefines, SpecIInv, PTL DEF Spec, Chan!Safe
=============================================================================
