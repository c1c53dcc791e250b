----------------------------- MODULE IccProofs -----------------------------
(***************************************************************************)
(* Proofs about Icc for any finite set of threads and any devices, data    *)
(* and buffers.  The heart is TokenInv, the account of a device's          *)
(* semaphore: each step changes both sides of it alike.                    *)
(***************************************************************************)
EXTENDS Icc, FiniteSetTheorems, SequenceTheorems, TLAPS

\* A thread sleeps only while the semaphore is zero.
WaitInv == \A d \in live : Waiters(d) # {} => rxwait[d] = 0

\* The reserved protocols keep their devices, handlers and empty queues.
ReservedInv == {MSG, SIG} \subseteq live /\ {MSG, SIG} \subseteq handler
                 /\ ReservedNeverQueue

IInv == /\ TypeOK /\ PoolInv /\ TokenInv /\ TimeoutsPaid
        /\ WaitInv /\ ReservedInv

\* The takers of a device can be counted.
LEMMA TakersFinite ==
  ASSUME NEW d PROVE IsFiniteSet(Takers(d)) /\ Cardinality(Takers(d)) \in Nat
<1>1. Takers(d) \subseteq Thread
  BY DEF Takers
<1> QED BY <1>1, IccAssumption, FS_Subset, FS_CardinalityType

\* The empty queue is a queue of anything.
LEMMA EmptySeqs == \A S : <<>> \in Seq(S)
OBVIOUS

\* cxd56_iccinitialize establishes the invariant.
LEMMA InitIInv == Init => IInv
<1> SUFFICES ASSUME Init PROVE IInv
  OBVIOUS
<1> USE IccAssumption DEF Init, Device
<1>1. TypeOK
  <2>1. recvq \in [Device -> Seq(Data)] /\ expiries \in [Device -> Int]
    BY EmptySeqs
  <2>2. free \in [Device -> Nat] /\ rxwait \in [Device -> Nat]
    OBVIOUS
  <2>3. pc \in [Thread -> {"idle", "take", "blocked", "took", "dequeue"}]
    OBVIOUS
  <2>4. \A t \in Thread : pc[t] = "idle"
    OBVIOUS
  <2> QED BY <2>1, <2>2, <2>3, <2>4 DEF TypeOK
<1>2. \A d : Takers(d) = {} /\ Waiters(d) = {}
  BY DEF Takers, Waiters
<1>3. PoolInv /\ TimeoutsPaid /\ WaitInv /\ ReservedInv
  BY <1>2 DEF PoolInv, TimeoutsPaid, WaitInv, ReservedInv, ReservedNeverQueue
<1>4. TokenInv
  BY <1>2, FS_EmptySet DEF TokenInv
<1> QED BY <1>1, <1>3, <1>4 DEF IInv

\* sem_post adds one token to the device, in the count or in a thread's hands,
\* and none elsewhere.
LEMMA SemGiveAdds ==
  ASSUME IInv, NEW d \in live, SemGive(d), UNCHANGED <<live, dev, mode>>
  PROVE  /\ rxwait' \in [Device -> Nat]
         /\ pc' \in [Thread -> {"idle", "take", "blocked", "took", "dequeue"}]
         /\ \A t \in Thread : pc'[t] # "idle" => dev'[t] \in live /\ mode'[t] \in Mode
         /\ \A e \in live \ {d} : Takers(e)' = Takers(e) /\ rxwait'[e] = rxwait[e]
         /\ rxwait'[d] + Cardinality(Takers(d)')
              = rxwait[d] + Cardinality(Takers(d)) + 1
         /\ WaitInv'
<1> USE DEF IInv, TypeOK
<1>0. d \in Device /\ rxwait[d] \in Nat
  OBVIOUS
<1>1. CASE Waiters(d) = {}
  <2>1. rxwait' = [rxwait EXCEPT ![d] = @ + 1] /\ UNCHANGED pc
    BY <1>1 DEF SemGive
  <2>2. \A e : Takers(e)' = Takers(e) /\ Waiters(e)' = Waiters(e)
    BY <2>1 DEF Takers, Waiters
  <2>3. WaitInv'
    BY <1>0, <1>1, <2>1, <2>2 DEF WaitInv
  <2>4. rxwait'[d] = rxwait[d] + 1 /\ \A e \in live \ {d} : rxwait'[e] = rxwait[e]
    BY <1>0, <2>1
  <2>5. rxwait'[d] + Cardinality(Takers(d)') = rxwait[d] + Cardinality(Takers(d)) + 1
    BY <1>0, <2>2, <2>4, TakersFinite
  <2> QED BY <1>0, <2>1, <2>2, <2>3, <2>4, <2>5
<1>2. CASE Waiters(d) # {}
  <2>1. PICK t \in Waiters(d) : pc' = [pc EXCEPT ![t] = "took"] /\ UNCHANGED rxwait
    BY <1>2 DEF SemGive
  <2>2. t \in Thread /\ pc[t] = "blocked" /\ dev[t] = d /\ pc'[t] = "took"
    BY <2>1 DEF Waiters
  <2>3. Takers(d)' = Takers(d) \cup {t} /\ t \notin Takers(d)
    BY <2>1, <2>2 DEF Takers
  <2>4. \A e \in live \ {d} : Takers(e)' = Takers(e)
    BY <2>1, <2>2 DEF Takers
  <2>5. Cardinality(Takers(d)') = Cardinality(Takers(d)) + 1
    BY <2>3, TakersFinite, FS_AddElement
  <2>6. \A e : Waiters(e)' \subseteq Waiters(e)
    BY <2>1, <2>2 DEF Waiters
  <2>7. WaitInv'
    BY <2>1, <2>6 DEF WaitInv
  <2>8. rxwait'[d] + Cardinality(Takers(d)') = rxwait[d] + Cardinality(Takers(d)) + 1
    BY <1>0, <2>1, <2>5, TakersFinite
  <2> QED BY <2>1, <2>2, <2>4, <2>7, <2>8
<1> QED BY <1>1, <1>2

\* Allocating or freeing a device that no thread receives from starts its
\* account afresh.
LEMMA FreshIInv ==
  ASSUME IInv, NEW d \in Device, d \notin {MSG, SIG}, Inside(d) = {}, Fresh(d),
         \/ live' = live \cup {d}
         \/ live' = live \ {d},
         UNCHANGED <<pc, dev, mode, panicked>>
  PROVE  IInv'
<1> USE DEF IInv
<1>1. /\ Takers(d) = {} /\ Waiters(d) = {}
      /\ \A e : Takers(e)' = Takers(e) /\ Waiters(e)' = Waiters(e)
  BY DEF Inside, Takers, Waiters
<1>2. \A e \in live' \ {d} : /\ e \in live /\ recvq'[e] = recvq[e] /\ free'[e] = free[e]
                            /\ rxwait'[e] = rxwait[e] /\ expiries'[e] = expiries[e]
  BY DEF Fresh, TypeOK
<1>3. /\ recvq'[d] = <<>> /\ free'[d] = NBUFFERS /\ rxwait'[d] = 0 /\ expiries'[d] = 0
  BY DEF Fresh, TypeOK
<1>4. TypeOK'
  <2>1. recvq' \in [Device -> Seq(Data)] /\ expiries' \in [Device -> Int]
    BY EmptySeqs DEF Fresh, TypeOK
  <2>2. free' \in [Device -> Nat] /\ rxwait' \in [Device -> Nat]
    BY IccAssumption DEF Fresh, TypeOK
  <2>3. live' \subseteq Device /\ armed' \subseteq live' /\ handler' \subseteq Proto
    BY DEF Fresh, TypeOK
  <2>4. \A t \in Thread : pc'[t] # "idle" => dev'[t] \in live' /\ mode'[t] \in Mode
    BY DEF Inside, TypeOK
  <2> QED BY <2>1, <2>2, <2>3, <2>4 DEF TypeOK
<1>5. PoolInv' /\ TimeoutsPaid' /\ WaitInv'
  BY <1>1, <1>2, <1>3, IccAssumption DEF PoolInv, TimeoutsPaid, WaitInv
<1>6. TokenInv'
  <2>1. ASSUME NEW e \in live', e # d
        PROVE  rxwait'[e] + Cardinality(Takers(e)') = Len(recvq'[e]) + expiries'[e]
    BY <1>1, <1>2, <2>1 DEF TokenInv
  <2>2. Cardinality(Takers(d)') = 0 /\ Len(recvq'[d]) = 0
    BY <1>1, <1>3, FS_EmptySet
  <2>3. rxwait'[d] + Cardinality(Takers(d)') = Len(recvq'[d]) + expiries'[d]
    BY <1>3, <2>2
  <2> QED BY <2>1, <2>3 DEF TokenInv
<1>7. ReservedInv'
  BY IccAssumption DEF ReservedInv, ReservedNeverQueue, Fresh, TypeOK, Device
<1> QED BY <1>4, <1>5, <1>6, <1>7

\* The receive interrupt: a queued message brings its token along, and the
\* reserved protocols never queue one.
LEMMA ArriveIInv ==
  ASSUME IInv, NEW p \in Proto, NEW c \in Cpu, NEW m \in Data, Arrive(p, c, m)
  PROVE  IInv'
<1> USE DEF IInv
<1> DEFINE d == QueueOf(p, c)
<1>1. CASE UNCHANGED <<free, recvq, rxwait, pc>>
  <2>1. \A e : Takers(e)' = Takers(e) /\ Waiters(e)' = Waiters(e)
    BY <1>1 DEF Takers, Waiters, Arrive
  <2>2. panicked' \in BOOLEAN
    BY <1>1 DEF Arrive, Dispose, Enqueue, Overrun, TypeOK
  <2>3. TypeOK'
    BY <1>1, <2>2 DEF Arrive, TypeOK
  <2>4. PoolInv' /\ TokenInv' /\ TimeoutsPaid' /\ WaitInv' /\ ReservedInv'
    BY <1>1, <2>1 DEF Arrive, PoolInv, TokenInv, TimeoutsPaid, WaitInv, ReservedInv,
                      ReservedNeverQueue
  <2> QED BY <2>3, <2>4
<1>2. CASE d \in live /\ MayDecline(p) /\ Enqueue(d, m)
  <2>1. d \in Device /\ d \in live /\ d \notin {MSG, SIG}
    BY <1>2, IccAssumption DEF QueueOf, MayDecline, ReservedInv, Device
  <2>2. /\ SemGive(d) /\ UNCHANGED <<live, dev, mode>>
        /\ UNCHANGED <<handler, armed, expiries, panicked>>
    BY <1>2 DEF Enqueue, Arrive
  <2> HIDE DEF d
  <2>3. /\ recvq' = [recvq EXCEPT ![d] = Append(@, m)] /\ free[d] > 0
        /\ free' = [free EXCEPT ![d] = @ - 1]
    BY <1>2 DEF Enqueue
  <2>4. /\ recvq[d] \in Seq(Data) /\ recvq'[d] = Append(recvq[d], m)
        /\ Len(recvq'[d]) = Len(recvq[d]) + 1 /\ Len(recvq[d]) \in Nat
        /\ free'[d] = free[d] - 1 /\ free[d] \in Nat
        /\ \A e \in Device \ {d} : recvq'[e] = recvq[e] /\ free'[e] = free[e]
    BY <2>1, <2>3 DEF TypeOK
  <2>5. TypeOK'
    <3>1. recvq' \in [Device -> Seq(Data)] /\ free' \in [Device -> Nat]
      BY <2>1, <2>3, <2>4 DEF TypeOK
    <3> QED BY <2>1, <2>2, <3>1, SemGiveAdds DEF TypeOK
  <2>6. PoolInv'
    <3>1. ASSUME NEW e \in live, e # d PROVE free'[e] + Len(recvq'[e]) = NBUFFERS
      BY <2>4, <3>1 DEF PoolInv, TypeOK
    <3>2. free[d] + Len(recvq[d]) = NBUFFERS
      BY <2>1 DEF PoolInv
    <3>3. /\ Len(recvq'[d]) = Len(recvq[d]) + 1 /\ Len(recvq[d]) \in Nat
          /\ free'[d] = free[d] - 1 /\ free[d] \in Nat
      BY <2>4
    <3>4. free'[d] + Len(recvq'[d]) = NBUFFERS
      BY <3>2, <3>3
    <3> QED BY <2>2, <3>1, <3>4 DEF PoolInv
  <2>7. TokenInv'
    <3>1. ASSUME NEW e \in live, e # d
          PROVE  rxwait'[e] + Cardinality(Takers(e)') = Len(recvq'[e]) + expiries'[e]
      BY <2>1, <2>2, <2>4, <3>1, SemGiveAdds DEF TokenInv, TypeOK
    <3>2. rxwait'[d] + Cardinality(Takers(d)') = Len(recvq'[d]) + expiries'[d]
      <4>1. rxwait[d] + Cardinality(Takers(d)) = Len(recvq[d]) + expiries[d]
        BY <2>1 DEF TokenInv
      <4>2. expiries'[d] = expiries[d] /\ expiries[d] \in Int
        BY <2>1, <2>2 DEF TypeOK
      <4>3. rxwait'[d] + Cardinality(Takers(d)') = rxwait[d] + Cardinality(Takers(d)) + 1
        BY <2>1, <2>2, SemGiveAdds
      <4> QED BY <2>4, <4>1, <4>2, <4>3
    <3> QED BY <2>2, <3>1, <3>2 DEF TokenInv
  <2>8. WaitInv' /\ TimeoutsPaid'
    BY <2>1, <2>2, SemGiveAdds DEF TimeoutsPaid
  <2>9. ReservedInv'
    BY <2>1, <2>2, <2>4, IccAssumption DEF ReservedInv, ReservedNeverQueue, Device
  <2> QED BY <2>5, <2>6, <2>7, <2>8, <2>9
<1> QED BY <1>1, <1>2 DEF Arrive, Dispose, Overrun

\* The watchdog function adds a token and an unanswered expiry.
LEMMA WdExpireIInv == ASSUME IInv, NEW d \in Device, WdExpire(d) PROVE IInv'
<1> USE DEF IInv
<1>1. /\ d \in live /\ SemGive(d) /\ UNCHANGED <<live, dev, mode>>
      /\ UNCHANGED <<handler, recvq, free, panicked>> /\ armed' = armed \ {d}
      /\ expiries' = [expiries EXCEPT ![d] = @ + 1]
  BY DEF WdExpire, TypeOK
<1>2. /\ expiries'[d] = expiries[d] + 1 /\ expiries[d] \in Int /\ expiries' \in [Device -> Int]
      /\ \A e \in live \ {d} : expiries'[e] = expiries[e]
  BY <1>1 DEF TypeOK
<1>3. TypeOK'
  BY <1>1, <1>2, SemGiveAdds DEF TypeOK
<1>4. TokenInv'
  <2>1. ASSUME NEW e \in live, e # d
        PROVE  rxwait'[e] + Cardinality(Takers(e)') = Len(recvq'[e]) + expiries'[e]
    BY <1>1, <1>2, <2>1, SemGiveAdds DEF TokenInv
  <2>2. rxwait[d] + Cardinality(Takers(d)) = Len(recvq[d]) + expiries[d]
    BY <1>1 DEF TokenInv
  <2>3. recvq[d] \in Seq(Data) /\ Len(recvq[d]) \in Nat
    BY DEF TypeOK
  <2>4. rxwait'[d] + Cardinality(Takers(d)') = Len(recvq'[d]) + expiries'[d]
    BY <1>1, <1>2, <2>2, <2>3, SemGiveAdds
  <2> QED BY <1>1, <2>1, <2>4 DEF TokenInv
<1>5. PoolInv' /\ WaitInv' /\ ReservedInv'
  BY <1>1, SemGiveAdds DEF PoolInv, ReservedInv, ReservedNeverQueue
<1>6. TimeoutsPaid'
  BY <1>1, <1>2 DEF TimeoutsPaid
<1> QED BY <1>3, <1>4, <1>5, <1>6

\* What a thread does with its own pc, apart from taking and using a token.
LEMMA ThreadStepIInv ==
  ASSUME IInv, NEW t \in Thread, NEW v \in {"idle", "take", "blocked", "dequeue"},
         pc' = [pc EXCEPT ![t] = v],
         v = "dequeue" <=> pc[t] \in {"took", "dequeue"},
         v = "blocked" => rxwait[dev[t]] = 0,
         dev' \in [Thread -> Device \cup {Unused}],
         mode' \in [Thread -> Mode \cup {Unused}],
         \A u \in Thread \ {t} : dev'[u] = dev[u] /\ mode'[u] = mode[u],
         v \in {"blocked", "dequeue"} => dev'[t] = dev[t],
         v # "idle" => dev'[t] \in live /\ mode'[t] \in Mode,
         armed' \subseteq live,
         UNCHANGED <<live, handler, recvq, free, rxwait, expiries, panicked>>
  PROVE  IInv'
<1> USE DEF IInv
<1>1. TypeOK'
  BY DEF TypeOK
<1>2. \A d : Takers(d)' = Takers(d)
  BY DEF Takers, TypeOK
<1>3. ASSUME NEW d \in live, Waiters(d)' # {} PROVE rxwait'[d] = 0
  <2>1. PICK u \in Thread : pc'[u] = "blocked" /\ dev'[u] = d
    BY <1>3 DEF Waiters
  <2>2. CASE u = t
    BY <2>1, <2>2 DEF TypeOK
  <2>3. CASE u # t
    BY <2>1, <2>3 DEF Waiters, WaitInv, TypeOK
  <2> QED BY <2>2, <2>3
<1>4. TokenInv' /\ WaitInv' /\ PoolInv' /\ TimeoutsPaid' /\ ReservedInv'
  BY <1>2, <1>3 DEF TokenInv, WaitInv, PoolInv, TimeoutsPaid, ReservedInv, ReservedNeverQueue
<1> QED BY <1>1, <1>4

\* sem_wait and sem_trywait move a token from the count to the thread.
LEMMA TakeTokenIInv ==
  ASSUME IInv, NEW t \in Thread, pc[t] = "take", rxwait[dev[t]] > 0,
         rxwait' = [rxwait EXCEPT ![dev[t]] = @ - 1],
         pc' = [pc EXCEPT ![t] = "took"],
         UNCHANGED <<dev, mode, live, handler, recvq, free, armed, expiries, panicked>>
  PROVE  IInv'
<1> USE DEF IInv
<1> DEFINE d == dev[t]
<1>1. d \in live /\ d \in Device /\ rxwait[d] \in Nat
  BY DEF TypeOK
<1>2. rxwait'[d] = rxwait[d] - 1 /\ \A e \in Device \ {d} : rxwait'[e] = rxwait[e]
  BY <1>1 DEF TypeOK
<1>3. TypeOK'
  BY <1>1, <1>2 DEF TypeOK
<1>4. /\ Takers(d)' = Takers(d) \cup {t} /\ t \notin Takers(d)
      /\ \A e \in live \ {d} : Takers(e)' = Takers(e)
      /\ \A e : Waiters(e)' = Waiters(e)
  BY DEF Takers, Waiters, TypeOK
<1>5. Cardinality(Takers(d)') = Cardinality(Takers(d)) + 1
  <2>1. IsFiniteSet(Takers(d))
    BY TakersFinite
  <2> QED BY <1>4, <2>1, FS_AddElement, ZenonT(30)
<1>6. TokenInv'
  <2>1. ASSUME NEW e \in live, e # d
        PROVE  rxwait'[e] + Cardinality(Takers(e)') = Len(recvq'[e]) + expiries'[e]
    BY <1>2, <1>4, <2>1 DEF TokenInv, TypeOK
  <2>2. rxwait[d] + Cardinality(Takers(d)) = Len(recvq[d]) + expiries[d]
    BY <1>1 DEF TokenInv
  <2>3. rxwait'[d] + Cardinality(Takers(d)') = Len(recvq'[d]) + expiries'[d]
    BY <1>1, <1>2, <1>5, <2>2, TakersFinite
  <2> QED BY <2>1, <2>3 DEF TokenInv
<1>7. WaitInv'
  BY <1>1, <1>4, <1>2 DEF WaitInv, TypeOK
<1>8. PoolInv' /\ TimeoutsPaid' /\ ReservedInv'
  BY DEF PoolInv, TimeoutsPaid, ReservedInv, ReservedNeverQueue
<1> QED BY <1>3, <1>6, <1>7, <1>8

\* The account of a device with one taker and one expiry less.
LEMMA OneLess ==
  ASSUME NEW a \in Nat, NEW n \in Nat, NEW l \in Nat, NEW x \in Int, a + n = l + x
  PROVE  a + (n - 1) = l + x - 1
OBVIOUS

\* The end of icc_recv uses up the thread's token together with a message or,
\* when there is none, with an expiry.
LEMMA DequeueIInv == ASSUME IInv, NEW t \in Thread, Dequeue(t) PROVE IInv'
<1> USE DEF IInv
<1> DEFINE d == dev[t]
<1>1. /\ d \in live /\ d \in Device /\ pc[t] = "dequeue"
      /\ rxwait[d] \in Nat /\ free[d] \in Nat /\ expiries[d] \in Int
      /\ recvq[d] \in Seq(Data) /\ Len(recvq[d]) \in Nat
  BY DEF Dequeue, TypeOK
<1>2. /\ UNCHANGED <<live, handler, rxwait, armed, panicked>>
      /\ pc' = [pc EXCEPT ![t] = "idle"]
      /\ dev' = [dev EXCEPT ![t] = Unused] /\ mode' = [mode EXCEPT ![t] = Unused]
  BY DEF Dequeue, Return
<1>3. /\ t \in Takers(d)
      /\ \A e \in live : e = d => Takers(e)' = Takers(d) \ {t}
      /\ \A e \in live \ {d} : Takers(e)' = Takers(e)
      /\ \A e \in live : Waiters(e)' = Waiters(e)
  BY <1>1, <1>2, IccAssumption DEF Takers, Waiters, TypeOK
<1> DEFINE n == Cardinality(Takers(d))
<1>4. n \in Nat \ {0} /\ \A e \in live : e = d => Cardinality(Takers(e)') = n - 1
  <2>1. IsFiniteSet(Takers(d)) /\ n \in Nat
    BY TakersFinite
  <2>2. n # 0
    BY <1>3, <2>1, FS_EmptySet
  <2> QED BY <1>3, <2>1, <2>2, FS_RemoveElement
<1>5. rxwait[d] + n = Len(recvq[d]) + expiries[d]
  BY <1>1 DEF TokenInv
<1>6. /\ recvq' \in [Device -> Seq(Data)] /\ free' \in [Device -> Nat]
      /\ expiries' \in [Device -> Int]
      /\ \A e \in live \ {d} : /\ recvq'[e] = recvq[e] /\ free'[e] = free[e]
                              /\ expiries'[e] = expiries[e]
      /\ Len(recvq'[d]) + expiries'[d] = Len(recvq[d]) + expiries[d] - 1
      /\ free'[d] + Len(recvq'[d]) = free[d] + Len(recvq[d])
      /\ expiries'[d] >= 0
      /\ recvq[d] = <<>> => recvq'[d] = <<>>
  <2>0. expiries[d] >= 0
    BY <1>1 DEF TimeoutsPaid
  <2>1. CASE recvq[d] # <<>>
    <3>1. /\ recvq' = [recvq EXCEPT ![d] = Tail(@)] /\ free' = [free EXCEPT ![d] = @ + 1]
          /\ UNCHANGED expiries
      BY <2>1 DEF Dequeue
    <3>2. /\ Tail(recvq[d]) \in Seq(Data) /\ recvq'[d] = Tail(recvq[d])
          /\ Len(recvq'[d]) = Len(recvq[d]) - 1 /\ free'[d] = free[d] + 1
      BY <1>1, <2>1, <3>1 DEF TypeOK
    <3> QED BY <1>1, <2>0, <2>1, <3>1, <3>2 DEF TypeOK
  <2>2. CASE recvq[d] = <<>>
    <3>1. /\ UNCHANGED <<recvq, free>> /\ expiries' = [expiries EXCEPT ![d] = @ - 1]
      BY <2>2 DEF Dequeue
    <3>2. expiries'[d] = expiries[d] - 1
      BY <1>1, <3>1 DEF TypeOK
    <3>3. expiries[d] >= 1
      BY <1>1, <1>4, <1>5, <2>2
    <3> QED BY <1>1, <2>2, <3>1, <3>2, <3>3 DEF TypeOK
  <2> QED BY <2>1, <2>2
<1>7. TypeOK'
  BY <1>1, <1>2, <1>6 DEF TypeOK
<1>8. TokenInv'
  <2>1. ASSUME NEW e \in live, e # d
        PROVE  rxwait'[e] + Cardinality(Takers(e)') = Len(recvq'[e]) + expiries'[e]
    BY <1>2, <1>3, <1>6, <2>1 DEF TokenInv
  <2>2. ASSUME NEW e \in live, e = d
        PROVE  rxwait'[e] + Cardinality(Takers(e)') = Len(recvq'[e]) + expiries'[e]
    <3>1. Cardinality(Takers(e)') = n - 1 /\ rxwait'[e] = rxwait[d]
      BY <1>2, <1>4, <2>2
    <3>2. Len(recvq'[e]) + expiries'[e] = Len(recvq[d]) + expiries[d] - 1
      BY <1>6, <2>2
    <3>3. n \in Nat /\ rxwait[d] + n = Len(recvq[d]) + expiries[d]
      BY <1>4, <1>5
    <3>4. rxwait[d] + (n - 1) = Len(recvq[d]) + expiries[d] - 1
      <4>1. rxwait[d] \in Nat
        BY <1>1
      <4>2. Len(recvq[d]) \in Nat
        BY <1>1
      <4>3. expiries[d] \in Int
        BY <1>1
      <4>4. n \in Nat
        BY <3>3
      <4>5. rxwait[d] + n = Len(recvq[d]) + expiries[d]
        BY <3>3
      <4> QED BY <4>1, <4>2, <4>3, <4>4, <4>5, OneLess
    <3> QED BY <3>1, <3>2, <3>4
  <2> QED BY <1>2, <2>1, <2>2 DEF TokenInv
<1>9. PoolInv'
  <2>1. ASSUME NEW e \in live, e # d PROVE free'[e] + Len(recvq'[e]) = NBUFFERS
    BY <1>6, <2>1 DEF PoolInv
  <2>2. free'[d] + Len(recvq'[d]) = NBUFFERS
    BY <1>1, <1>6 DEF PoolInv
  <2> QED BY <1>2, <2>1, <2>2 DEF PoolInv
<1>10. WaitInv' /\ TimeoutsPaid'
  BY <1>1, <1>2, <1>3, <1>6 DEF WaitInv, TimeoutsPaid
<1>11. ReservedInv'
  BY <1>1, <1>2, <1>6 DEF ReservedInv, ReservedNeverQueue
<1> QED BY <1>7, <1>8, <1>9, <1>10, <1>11

\* Every step of threads, interrupts and watchdogs preserves the invariant.
LEMMA NextIInv == IInv /\ [Next]_iccVars => IInv'
<1> SUFFICES ASSUME IInv, [Next]_iccVars PROVE IInv'
  OBVIOUS
<1>1. ASSUME NEW d \in Device, InitDevice(d) PROVE IInv'
  <2>1. d \notin {MSG, SIG} /\ Inside(d) = {}
    BY <1>1 DEF InitDevice, IInv, ReservedInv, Inside, TypeOK
  <2> QED BY <1>1, <2>1, FreshIInv DEF InitDevice
<1>2. ASSUME NEW d \in Device, UninitDevice(d) PROVE IInv'
  BY <1>2, FreshIInv DEF UninitDevice
<1>3. ASSUME NEW p \in Proto, NEW set \in BOOLEAN, RegisterHandler(p, set) PROVE IInv'
  <2>1. \A e : Takers(e)' = Takers(e) /\ Waiters(e)' = Waiters(e)
    BY <1>3 DEF RegisterHandler, Takers, Waiters
  <2>2. TypeOK'
    BY <1>3 DEF RegisterHandler, IInv, TypeOK
  <2>3. PoolInv' /\ TokenInv' /\ TimeoutsPaid' /\ WaitInv' /\ ReservedInv'
    BY <1>3, <2>1 DEF RegisterHandler, IInv, PoolInv, TokenInv, TimeoutsPaid, WaitInv,
                      ReservedInv, ReservedNeverQueue
  <2> QED BY <2>2, <2>3 DEF IInv
<1>4. ASSUME NEW t \in Thread, NEW d \in Device, NEW ms \in Mode, Call(t, d, ms) PROVE IInv'
  <2>1. CASE d \in live
    <3>1. /\ pc[t] = "idle" /\ pc' = [pc EXCEPT ![t] = "take"]
          /\ dev' = [dev EXCEPT ![t] = d] /\ mode' = [mode EXCEPT ![t] = ms]
          /\ UNCHANGED <<live, handler, recvq, free, rxwait, expiries, panicked>>
      BY <1>4, <2>1 DEF Call
    <3>2. armed' \subseteq live
      BY <1>4, <2>1 DEF Call, IInv, TypeOK
    <3>3. /\ dev' \in [Thread -> Device \cup {Unused}]
          /\ mode' \in [Thread -> Mode \cup {Unused}]
          /\ dev'[t] \in live /\ mode'[t] \in Mode
          /\ \A u \in Thread \ {t} : dev'[u] = dev[u] /\ mode'[u] = mode[u]
      BY <2>1, <3>1 DEF IInv, TypeOK
    <3> QED BY <3>1, <3>2, <3>3, ThreadStepIInv
  <2>2. CASE d \notin live
    <3>1. UNCHANGED iccVars
      BY <1>4, <2>2 DEF Call, iccVars
    <3> QED BY <3>1 DEF iccVars, IInv, TypeOK, PoolInv, TokenInv, TimeoutsPaid, WaitInv,
                        ReservedInv, ReservedNeverQueue, Takers, Waiters
  <2> QED BY <2>1, <2>2
<1>5. ASSUME NEW t \in Thread, SemTake(t) PROVE IInv'
  <2>1. CASE /\ rxwait[dev[t]] > 0 /\ rxwait' = [rxwait EXCEPT ![dev[t]] = @ - 1]
             /\ pc' = [pc EXCEPT ![t] = "took"] /\ UNCHANGED <<dev, mode>>
    BY <1>5, <2>1, TakeTokenIInv DEF SemTake
  <2>2. CASE rxwait[dev[t]] = 0 /\ Return(t) /\ UNCHANGED rxwait
    BY <1>5, <2>2, ThreadStepIInv DEF SemTake, Return, IInv, TypeOK
  <2>3. CASE rxwait[dev[t]] = 0 /\ pc' = [pc EXCEPT ![t] = "blocked"]
                /\ UNCHANGED <<rxwait, dev, mode>>
    BY <1>5, <2>3, ThreadStepIInv DEF SemTake, IInv, TypeOK
  <2> QED BY <1>5, <2>1, <2>2, <2>3 DEF SemTake
<1>6. ASSUME NEW t \in Thread, Interrupt(t) PROVE IInv'
  BY <1>6, ThreadStepIInv DEF Interrupt, IInv, TypeOK
<1>7. ASSUME NEW t \in Thread, CancelTimeout(t) PROVE IInv'
  BY <1>7, ThreadStepIInv DEF CancelTimeout, IInv, TypeOK
<1>8. CASE UNCHANGED iccVars
  BY <1>8 DEF iccVars, IInv, TypeOK, PoolInv, TokenInv, TimeoutsPaid, WaitInv,
              ReservedInv, ReservedNeverQueue, Takers, Waiters
<1> QED BY <1>1, <1>2, <1>3, <1>4, <1>5, <1>6, <1>7, <1>8,
           ArriveIInv, WdExpireIInv, DequeueIInv DEF Next

\* Hence it holds in every reachable state.
LEMMA SpecIInv == Spec => []IInv
  BY InitIInv, NextIInv, PTL DEF Spec, SafeSpec

\* Every variable keeps the shape the code gives it; in particular a thread in
\* icc_recv and a running watchdog always have their device.
THEOREM TypeCorrect == Spec => []TypeOK
<1>1. IInv => TypeOK
  BY DEF IInv
<1> QED BY <1>1, SpecIInv, PTL

\* A device's requests are free or queued, never leaked.
THEOREM PoolConserved == Spec => []PoolInv
<1>1. IInv => PoolInv
  BY DEF IInv
<1> QED BY <1>1, SpecIInv, PTL

\* The account of the semaphore: tokens = messages + unanswered expiries.
THEOREM TokensAccounted == Spec => []TokensPaid
<1>1. IInv => TokensPaid
  BY DEF IInv, TokensPaid
<1> QED BY <1>1, SpecIInv, PTL

\* No receiver sleeps on a device while one of its messages has no taker.
THEOREM NobodyForgotten == Spec => []NoLostWakeup
<1>1. IInv => NoLostWakeup
  <2> SUFFICES ASSUME IInv, NEW d \in live, Waiters(d) # {}
               PROVE  rxwait[d] = 0 /\ Len(recvq[d]) <= Cardinality(Takers(d))
    BY DEF NoLostWakeup
  <2>1. rxwait[d] = 0 /\ expiries[d] >= 0 /\ expiries[d] \in Int
        /\ Len(recvq[d]) \in Nat
        /\ rxwait[d] + Cardinality(Takers(d)) = Len(recvq[d]) + expiries[d]
    BY DEF IInv, WaitInv, TimeoutsPaid, TokenInv, TypeOK
  <2> QED BY <2>1, TakersFinite
<1> QED BY <1>1, SpecIInv, PTL

\* The MSG and SIG devices never queue and so never overrun.
THEOREM ReservedEmpty == Spec => []ReservedNeverQueue
<1>1. IInv => ReservedNeverQueue
  BY DEF IInv, ReservedInv
<1> QED BY <1>1, SpecIInv, PTL

\* A message of the receive interrupt goes to the end of its queue.
LEMMA ArriveFifo ==
  ASSUME IInv, NEW p \in Proto, NEW c \in Cpu, NEW m \in Data, Arrive(p, c, m), NEW d \in live
  PROVE  recvq'[d] = recvq[d] \/ recvq'[d] = Append(recvq[d], m)
<1>1. CASE UNCHANGED recvq
  BY <1>1
<1>2. CASE recvq' = [recvq EXCEPT ![QueueOf(p, c)] = Append(@, m)]
  BY <1>2 DEF IInv, TypeOK
<1> QED BY <1>1, <1>2 DEF Arrive, Dispose, Enqueue, Overrun

\* A receive takes the oldest message of its device, or none.
LEMMA DequeueFifo ==
  ASSUME IInv, NEW t \in Thread, Dequeue(t), NEW d \in live
  PROVE  \/ recvq'[d] = recvq[d]
         \/ /\ dev[t] = d /\ pc'[t] = "idle"
            /\ \E m \in Data : recvq[d] = <<m>> \o recvq'[d]
<1>1. pc'[t] = "idle"
  BY DEF Dequeue, Return, IInv, TypeOK
<1>2. CASE UNCHANGED recvq
  BY <1>2
<1>3. CASE recvq[dev[t]] # <<>> /\ recvq' = [recvq EXCEPT ![dev[t]] = Tail(@)] /\ dev[t] = d
  <2>1. recvq[d] \in Seq(Data) /\ recvq[d] # <<>> /\ recvq'[d] = Tail(recvq[d])
    BY <1>3 DEF IInv, TypeOK
  <2>2. Head(recvq[d]) \in Data /\ recvq[d] = <<Head(recvq[d])>> \o Tail(recvq[d])
    BY <2>1, HeadTailProperties
  <2> QED BY <1>1, <1>3, <2>1, <2>2
<1>4. CASE recvq' = [recvq EXCEPT ![dev[t]] = Tail(@)] /\ dev[t] # d
  BY <1>4 DEF IInv, TypeOK
<1> QED BY <1>2, <1>3, <1>4 DEF Dequeue

\* Messages are neither lost, doubled nor reordered between the interrupt and
\* the receives, whatever the threads do: the queue of a device that stays
\* allocated changes only at its two ends.
THEOREM ReceivedInOrder == Spec => FifoPerDevice
<1> DEFINE Ends(d) ==
      \/ recvq'[d] = recvq[d]
      \/ \E m \in Data : recvq'[d] = Append(recvq[d], m)
      \/ \E t \in Thread : /\ dev[t] = d /\ pc'[t] = "idle"
                           /\ \E m \in Data : recvq[d] = <<m>> \o recvq'[d]
<1>1. ASSUME IInv, [Next]_iccVars, NEW d \in live \cap live' PROVE Ends(d)
  <2>1. d \in live
    OBVIOUS
  <2>2. ASSUME NEW e \in Device, InitDevice(e) \/ UninitDevice(e) PROVE Ends(d)
    <3>1. d # e /\ recvq' = [recvq EXCEPT ![e] = <<>>]
      BY <2>2 DEF InitDevice, UninitDevice, Fresh
    <3> QED BY <1>1, <3>1 DEF IInv, TypeOK
  <2>3. ASSUME NEW p \in Proto, NEW c \in Cpu, NEW m \in Data, Arrive(p, c, m) PROVE Ends(d)
    BY <1>1, <2>1, <2>3, ArriveFifo
  <2>4. ASSUME NEW t \in Thread, Dequeue(t) PROVE Ends(d)
    BY <1>1, <2>1, <2>4, DequeueFifo
  <2>5. CASE \/ \E e \in Device : WdExpire(e)
             \/ \E p \in Proto, set \in BOOLEAN : RegisterHandler(p, set)
             \/ \E t \in Thread : \/ \E e \in Device, ms \in Mode : Call(t, e, ms)
                                  \/ SemTake(t) \/ Interrupt(t) \/ CancelTimeout(t)
             \/ UNCHANGED iccVars
    <3>1. UNCHANGED recvq
      BY <2>5 DEF WdExpire, RegisterHandler, Call, SemTake, Interrupt, CancelTimeout, iccVars
    <3> QED BY <3>1
  <2> QED BY <1>1, <2>2, <2>3, <2>4, <2>5 DEF Next
<1>2. IInv /\ [Next]_iccVars => [\A d \in live \cap live' : Ends(d)]_iccVars
  BY <1>1
<1> QED BY <1>2, SpecIInv, PTL DEF Spec, SafeSpec, FifoPerDevice

=============================================================================
