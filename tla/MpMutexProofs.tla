---------------------------- MODULE MpMutexProofs ----------------------------
(***************************************************************************)
(* Proofs about MpMutex for any number of objects, workers, semaphores and *)
(* any SEM_VALUE_MAX.  That a mutex excludes needs three things together:  *)
(* the device of a semaphore opens for one object only, a thread uses its  *)
(* mutex only while the object is ready, and own[n] is changed only when n *)
(* is idle or by the one that holds it.                                    *)
(***************************************************************************)
EXTENDS MpMutex, TLAPS

Place == {"idle", "status", "request", "check", "hold",
          "reserve", "first", "second", "sleep", "latest"}

\* The object a thread locks.
ObjOf(t) == IF t \in Worker THEN Bound[t] ELSE t

\* An object that is not being created has a tag, a ready one an open device,
\* and only a ready one is used.
UseInv ==
  /\ \A o \in Obj : obj[o] # "none" => tag[o] \in Tag
  /\ \A o \in Obj : obj[o] = "ready" => tag[o] \in open
  /\ \A t \in Thread : pc[t] # "idle" => obj[ObjOf(t)] = "ready"

\* The CPU of a holder owns the semaphore: with UseInv and TagExclusive this
\* is all of MutualExclusion.
OwnInv == \A t \in Thread : pc[t] = "hold" => own[Sem(t)] = Cpu(t)

IInv == TypeOK /\ TagExclusive /\ UseInv /\ OwnInv /\ SleepCovered

\* The semaphore of a thread is the one of its object.
LEMMA SemOfObj ==
  ASSUME NEW t \in Thread
  PROVE  ObjOf(t) \in Obj /\ Sem(t) = tag[ObjOf(t)] /\ Cpu(t) \in CPU
  BY MpMutexAssumption DEF ObjOf, Sem, Cpu, Thread, CPU

\* A thread that uses its mutex has a semaphore.
LEMMA SemInUse ==
  ASSUME IInv, NEW t \in Thread, pc[t] # "idle"
  PROVE  Sem(t) \in Tag /\ obj[ObjOf(t)] = "ready"
  BY SemOfObj DEF IInv, UseInv

\* Two holders of one semaphore are one thread.
LEMMA OneHolder ==
  ASSUME IInv, NEW t \in Thread, NEW u \in Thread,
         pc[t] = "hold", pc[u] = "hold", Sem(t) = Sem(u)
  PROVE  t = u
<1>1. Cpu(t) = Cpu(u)
  BY DEF IInv, OwnInv
<1>2. CASE t \in Worker \/ u \in Worker
  BY <1>1, <1>2, MpMutexAssumption DEF Cpu
<1>3. CASE t \notin Worker /\ u \notin Worker
  <2>1. obj[t] = "ready" /\ obj[u] = "ready" /\ tag[t] = tag[u] /\ t \in Obj /\ u \in Obj
    BY <1>3, SemInUse DEF ObjOf, Sem, Thread
  <2> QED BY <2>1 DEF IInv, TagExclusive
<1> QED BY <1>2, <1>3

\* mpmutex_initialize and cxd56_sphinitialize establish the invariant.
LEMMA InitIInv == Init => IInv
<1> SUFFICES ASSUME Init PROVE IInv
  OBVIOUS
<1> USE MpMutexAssumption DEF Init
<1>1. TypeOK
  BY DEF TypeOK
<1>2. \A t \in Thread : pc[t] = "idle"
  OBVIOUS
<1>3. \A o \in Obj : obj[o] = "none" /\ pc[o] = "idle"
  BY <1>2 DEF Thread
<1>4. TagExclusive /\ SleepCovered
  BY <1>3 DEF TagExclusive, SleepCovered
<1>5. UseInv /\ OwnInv
  BY <1>2, <1>3 DEF UseInv, OwnInv
<1> QED BY <1>1, <1>4, <1>5 DEF IInv
-----------------------------------------------------------------------------
(* Objects come and go; threads that use a mutex do not notice *)

\* What the steps on an object o that nobody uses have in common: the tags
\* and states of the others stay.
LEMMA ObjStepIInv ==
  ASSUME IInv, NEW o \in Obj, NEW n \in Tag \cup {None},
         NEW s \in {"none", "ready", "failed", "freeing", "closed"},
         UNCHANGED <<pc, try, hwVars, wait>>,
         tag' = [tag EXCEPT ![o] = n], obj' = [obj EXCEPT ![o] = s],
         free' \subseteq Tag, open' \subseteq Tag, seen' \in [Obj -> SUBSET Tag],
         s # "none" => n \in Tag,
         s = "ready" => n \in open' /\ n \notin open,
         s # "ready" => \A t \in Thread : ObjOf(t) = o => pc[t] = "idle",
         open \subseteq open' \/ (obj[o] = "ready" /\ open \ {tag[o]} \subseteq open'),
         obj[o] = "ready" => s # "ready"
  PROVE  IInv'
<1> USE DEF IInv, hwVars
<1>1. \A p \in Obj : p # o => tag'[p] = tag[p] /\ obj'[p] = obj[p]
  BY DEF TypeOK
<1>2. tag'[o] = n /\ obj'[o] = s
  BY DEF TypeOK
<1>3. TypeOK'
  BY DEF TypeOK
<1>4. \A p \in Obj : p # o /\ obj[p] = "ready" => tag[p] \in open /\ tag[p] \in open'
  <2> SUFFICES ASSUME NEW p \in Obj, p # o, obj[p] = "ready"
               PROVE  tag[p] \in open /\ tag[p] \in open'
    OBVIOUS
  <2>1. tag[p] \in open
    BY DEF UseInv
  <2>2. CASE obj[o] = "ready"
    BY <2>1, <2>2 DEF TagExclusive
  <2>3. CASE obj[o] # "ready"
    BY <2>1, <2>3
  <2> QED BY <2>1, <2>2, <2>3
<1>5. TagExclusive'
  BY <1>1, <1>2, <1>4 DEF TagExclusive
<1>6. \A t \in Thread : pc[t] # "idle" => obj'[ObjOf(t)] = "ready"
  BY <1>1, <1>2, SemOfObj DEF UseInv
<1>7. UseInv'
  BY <1>1, <1>2, <1>4, <1>6 DEF UseInv, ObjOf
<1>8. \A t \in Thread : pc[t] # "idle" => tag'[ObjOf(t)] = tag[ObjOf(t)]
  <2> SUFFICES ASSUME NEW t \in Thread, pc[t] # "idle"
               PROVE  tag'[ObjOf(t)] = tag[ObjOf(t)]
    OBVIOUS
  <2>1. obj[ObjOf(t)] = "ready" /\ ObjOf(t) \in Obj /\ obj'[ObjOf(t)] = "ready"
    BY <1>6, SemOfObj DEF UseInv
  <2>2. ObjOf(t) # o
    BY <2>1, <1>2
  <2> QED BY <2>1, <2>2, <1>1
<1>9. OwnInv'
  <2> SUFFICES ASSUME NEW t \in Thread, pc[t] = "hold" PROVE own[Sem(t)'] = Cpu(t)
    BY DEF OwnInv, Cpu
  <2>1. Sem(t)' = Sem(t)
    BY <1>8 DEF Sem, ObjOf
  <2> QED BY <2>1 DEF OwnInv
<1>10. SleepCovered'
  <2> SUFFICES ASSUME NEW p \in Obj, pc[p] = "sleep"
               PROVE  resv[tag'[p]] = Sup \/ tag'[p] \in irq \/ wait[tag'[p]] > 0
    BY DEF SleepCovered
  <2>1. tag'[p] = tag[p]
    BY <1>8, MpMutexAssumption DEF ObjOf, Thread
  <2> QED BY <2>1 DEF SleepCovered
<1> QED BY <1>3, <1>5, <1>7, <1>9, <1>10

\* Every step of mpmutex_init and mpmutex_destroy is of that kind.
LEMMA ObjectsIInv ==
  ASSUME IInv, NEW o \in Obj,
         MutexInit(o) \/ OpenFails(o) \/ Close(o) \/ ObjStep(o)
  PROVE  IInv'
<1> USE DEF IInv
<1>1. Alloc \subseteq free /\ free \subseteq Tag /\ open \subseteq Tag
  BY DEF Alloc, TypeOK
<1>2. \A t \in Thread : obj[o] # "ready" /\ ObjOf(t) = o => pc[t] = "idle"
  BY DEF UseInv
<1>3. CASE MutexInit(o)
  <2> USE <1>3 DEF MutexInit
  <2>1. PICK n \in Alloc : /\ n \notin open
                           /\ free' = free \ {n} /\ open' = open \cup {n}
                           /\ tag' = [tag EXCEPT ![o] = n]
    OBVIOUS
  <2>2. n \in Tag /\ free' \subseteq Tag /\ open' \subseteq Tag /\ seen' \in [Obj -> SUBSET Tag]
    BY <2>1, <1>1 DEF TypeOK
  <2> QED BY <2>1, <2>2, ObjStepIInv
<1>4. CASE OpenFails(o)
  <2> USE <1>4 DEF OpenFails
  <2>1. PICK n \in Alloc : free' = free \ {n} /\ tag' = [tag EXCEPT ![o] = n]
    OBVIOUS
  <2> QED BY <2>1, <1>1, <1>2, ObjStepIInv DEF TypeOK
<1>5. CASE FreeRead(o)
  <2> USE <1>5 DEF FreeRead
  <2>1. tag' = [tag EXCEPT ![o] = tag[o]] /\ tag[o] \in Tag
    BY DEF TypeOK, UseInv
  <2>2. seen' \in [Obj -> SUBSET Tag]
    BY <1>1 DEF TypeOK
  <2> QED BY <2>1, <2>2, <1>1, <1>2, ObjStepIInv
<1>6. CASE FreeWrite(o)
  <2> USE <1>6 DEF FreeWrite
  <2>1. seen[o] \subseteq Tag /\ tag[o] \in Tag
    BY DEF TypeOK, UseInv
  <2>2. seen' \in [Obj -> SUBSET Tag] /\ free' \subseteq Tag
    BY <2>1 DEF TypeOK
  <2> QED BY <2>1, <2>2, <1>1, <1>2, ObjStepIInv
<1>7. CASE Close(o)
  <2> USE <1>7 DEF Close
  <2>1. tag' = [tag EXCEPT ![o] = tag[o]] /\ tag[o] \in Tag
    BY DEF TypeOK, UseInv
  <2>2. \A t \in Thread : ObjOf(t) = o => pc[t] = "idle"
    BY DEF ObjOf
  <2> QED BY <2>1, <2>2, <1>1, ObjStepIInv DEF TypeOK
<1>8. CASE Destroy(o)
  <2> USE <1>8 DEF Destroy
  <2>1. tag[o] \in Tag
    BY DEF UseInv
  <2> QED BY <2>1, <1>1, <1>2, ObjStepIInv DEF TypeOK
<1> QED BY <1>3, <1>4, <1>5, <1>6, <1>7, <1>8 DEF ObjStep
-----------------------------------------------------------------------------
(* Threads lock *)

\* A thread moves on without a request: it may come to hold the mutex only
\* when its CPU owns the semaphore, and to sleep only with a reservation.
LEMMA MoveIInv ==
  ASSUME IInv, NEW t \in Thread, NEW v \in Place,
         pc' = [pc EXCEPT ![t] = v], try' \subseteq Thread,
         UNCHANGED <<objVars, hwVars, wait>>,
         obj[ObjOf(t)] = "ready",
         v = "hold" => own[Sem(t)] = Cpu(t),
         v = "sleep" /\ t \in Obj => resv[tag[t]] = Sup
  PROVE  IInv'
<1> USE DEF IInv, objVars, hwVars
<1>1. \A u \in Thread : pc'[u] = IF u = t THEN v ELSE pc[u]
  BY DEF TypeOK
<1>2. TypeOK'
  BY DEF TypeOK, Place
<1>3. TagExclusive'
  BY DEF TagExclusive
<1>4. UseInv'
  BY <1>1 DEF UseInv, ObjOf
<1>5. OwnInv'
  <2> SUFFICES ASSUME NEW u \in Thread, pc'[u] = "hold" PROVE own[Sem(u)] = Cpu(u)
    BY DEF OwnInv, Sem, Cpu
  <2> QED BY <1>1 DEF OwnInv
<1>6. SleepCovered'
  <2> SUFFICES ASSUME NEW o \in Obj, pc'[o] = "sleep"
               PROVE  resv[tag[o]] = Sup \/ tag[o] \in irq \/ wait[tag[o]] > 0
    BY DEF SleepCovered
  <2>1. o \in Thread
    BY DEF Thread
  <2> QED BY <1>1, <2>1 DEF SleepCovered
<1> QED BY <1>2, <1>3, <1>4, <1>5, <1>6

\* The steps that only look.
LEMMA LooksIInv ==
  ASSUME IInv, NEW t \in Thread,
         \/ LockCall(t) \/ TryCall(t) \/ StatusIdle(t) \/ StatusTaken(t) \/ Check(t)
         \/ t \in Obj /\ (ReadFirst(t) \/ ReadSecond(t) \/ ReadLatest(t))
  PROVE  IInv'
<1> USE DEF Place
<1>1. try \subseteq Thread /\ UNCHANGED <<objVars, hwVars, wait>>
  BY DEF IInv, TypeOK, LockCall, TryCall, StatusIdle, StatusTaken, Check,
         ReadFirst, ReadSecond, ReadLatest
<1>2. pc[t] # "idle" => obj[ObjOf(t)] = "ready"
  BY DEF IInv, UseInv
<1>3. CASE LockCall(t) \/ TryCall(t)
  <2>1. obj[ObjOf(t)] = "ready"
    BY <1>3, MpMutexAssumption DEF LockCall, TryCall, Ready, ObjOf
  <2> QED BY <1>1, <1>3, <2>1, MoveIInv DEF LockCall, TryCall, Goto
<1>4. CASE StatusIdle(t)
  BY <1>1, <1>2, <1>4, MoveIInv DEF StatusIdle, Goto
<1>5. CASE StatusTaken(t)
  BY <1>1, <1>2, <1>5, MoveIInv DEF StatusTaken, Missed
<1>6. CASE Check(t)
  BY <1>1, <1>2, <1>6, MoveIInv DEF Check, Missed, LockedBy
<1>7. CASE t \in Obj /\ (ReadFirst(t) \/ ReadSecond(t) \/ ReadLatest(t))
  <2>1. t \notin Worker /\ Sem(t) = tag[t] /\ Cpu(t) = Sup /\ try' = try /\ pc[t] # "idle"
    BY <1>7, MpMutexAssumption DEF Sem, Cpu, ReadFirst, ReadSecond, ReadLatest
  <2>2. tag[t] \in Tag
    BY <2>1, SemInUse
  <2>3. Busy(tag[t]) => resv[tag[t]] = Sup
    BY <2>2 DEF IInv, TypeOK, Busy
  <2> QED BY <1>1, <1>2, <1>7, <2>1, <2>3, MoveIInv
          DEF ReadFirst, ReadSecond, ReadLatest, Confirm, LockedBy
<1> QED BY <1>3, <1>4, <1>5, <1>6, <1>7
-----------------------------------------------------------------------------
(* Requests to the semaphores *)

\* A thread's request for its semaphore changes the owner only of an idle
\* one, reserves only for the supervisor and takes no reservation away.
LEMMA RequestIInv ==
  ASSUME IInv, NEW t \in Thread, NEW v \in {"check", "first"},
         pc[t] # "idle", pc' = [pc EXCEPT ![t] = v],
         \/ ReqLock(Sem(t), Cpu(t))
         \/ Cpu(t) = Sup /\ ReqReserve(Sem(t), Sup),
         UNCHANGED <<objVars, try, wait>>
  PROVE  IInv'
<1> USE DEF IInv, objVars
<1> DEFINE n == Sem(t)
<1>1. n \in Tag /\ obj[ObjOf(t)] = "ready" /\ Cpu(t) \in CPU /\ Cpu(t) # None
  BY SemInUse, SemOfObj, MpMutexAssumption
<1>2. \A u \in Thread : pc'[u] = IF u = t THEN v ELSE pc[u]
  BY DEF TypeOK
<1>3. own' \in [Tag -> CPU \cup {None}] /\ resv' \in [Tag -> {Sup, None}] /\ irq' = irq
  BY <1>1 DEF TypeOK, ReqLock, ReqReserve
<1>4. \A m \in Tag : /\ own[m] # None => own'[m] = own[m]
                     /\ resv[m] = Sup => resv'[m] = Sup
  BY <1>1, MpMutexAssumption DEF TypeOK, ReqLock, ReqReserve, Idle, Busy
<1>5. TypeOK'
  BY <1>3 DEF TypeOK
<1>6. TagExclusive'
  BY DEF TagExclusive
<1>7. UseInv'
  BY <1>1, <1>2 DEF UseInv, ObjOf
<1>8. OwnInv'
  <2> SUFFICES ASSUME NEW u \in Thread, pc'[u] = "hold" PROVE own'[Sem(u)] = Cpu(u)
    BY DEF OwnInv, Sem, Cpu
  <2>1. pc[u] = "hold" /\ own[Sem(u)] = Cpu(u)
    BY <1>2 DEF OwnInv
  <2>2. Sem(u) \in Tag /\ Cpu(u) # None
    BY <2>1, SemInUse, SemOfObj, MpMutexAssumption
  <2> QED BY <2>1, <2>2, <1>4
<1>9. SleepCovered'
  <2> SUFFICES ASSUME NEW o \in Obj, pc'[o] = "sleep"
               PROVE  resv'[tag[o]] = Sup \/ tag[o] \in irq \/ wait[tag[o]] > 0
    BY <1>3 DEF SleepCovered
  <2>1. o \in Thread /\ pc[o] = "sleep"
    BY <1>2 DEF Thread
  <2>2. tag[o] \in Tag
    BY <2>1, SemInUse, MpMutexAssumption DEF Sem
  <2> QED BY <2>1, <2>2, <1>4 DEF SleepCovered
<1> QED BY <1>5, <1>6, <1>7, <1>8, <1>9

\* The holder unlocks: nobody else holds the semaphore, and a reservation
\* that goes leaves an interrupt behind.
LEMMA UnlockIInv == ASSUME IInv, NEW t \in Thread, Unlock(t) PROVE IInv'
<1> USE DEF IInv, objVars, Unlock, Goto, ReqUnlock
<1> DEFINE n == Sem(t)
<1>1. n \in Tag /\ pc[t] = "hold"
  BY SemInUse
<1>2. \A u \in Thread : pc'[u] = IF u = t THEN "idle" ELSE pc[u]
  BY DEF TypeOK
<1>3. TypeOK'
  <2>1. own' \in [Tag -> CPU \cup {None}] /\ resv' \in [Tag -> {Sup, None}]
    BY <1>1 DEF TypeOK, CPU
  <2>2. irq' \subseteq Tag
    BY <1>1 DEF TypeOK
  <2> QED BY <2>1, <2>2 DEF TypeOK
<1>4. TagExclusive'
  BY DEF TagExclusive
<1>5. UseInv'
  BY <1>2 DEF UseInv, ObjOf
<1>6. OwnInv'
  <2> SUFFICES ASSUME NEW u \in Thread, pc'[u] = "hold" PROVE own'[Sem(u)] = Cpu(u)
    BY DEF OwnInv, Sem, Cpu
  <2>1. u # t /\ pc[u] = "hold" /\ own[Sem(u)] = Cpu(u)
    BY <1>2 DEF OwnInv
  <2>2. Sem(u) # n
    BY <2>1, <1>1, OneHolder
  <2>3. Sem(u) \in Tag
    BY <2>1, SemInUse
  <2> QED BY <2>1, <2>2, <2>3 DEF TypeOK
<1>7. SleepCovered'
  <2> SUFFICES ASSUME NEW o \in Obj, pc'[o] = "sleep"
               PROVE  resv'[tag[o]] = Sup \/ tag[o] \in irq' \/ wait[tag[o]] > 0
    BY DEF SleepCovered
  <2>1. o \in Thread /\ pc[o] = "sleep"
    BY <1>2 DEF Thread
  <2>2. tag[o] \in Tag
    BY <2>1, SemInUse, MpMutexAssumption DEF Sem
  <2>3. resv[tag[o]] = Sup => resv'[tag[o]] = Sup \/ tag[o] \in irq'
    BY <2>2, <1>1, MpMutexAssumption DEF TypeOK, Busy, CPU
  <2>4. irq \subseteq irq'
    OBVIOUS
  <2> QED BY <2>1, <2>3, <2>4 DEF SleepCovered
<1> QED BY <1>3, <1>4, <1>5, <1>6, <1>7

\* The interrupt turns into a token ...
LEMMA IrqIInv == ASSUME IInv, NEW n \in Tag, IrqHandler(n) PROVE IInv'
<1> USE MpMutexAssumption DEF IInv, objVars, IrqHandler
<1>1. TypeOK' /\ wait'[n] > 0 /\ \A m \in Tag : m # n => wait'[m] = wait[m]
  BY DEF TypeOK
<1>2. TagExclusive' /\ UseInv'
  BY DEF TagExclusive, UseInv, ObjOf
<1>3. OwnInv'
  BY DEF OwnInv, Sem, Cpu
<1>4. SleepCovered'
  <2> SUFFICES ASSUME NEW o \in Obj, pc[o] = "sleep"
               PROVE  resv[tag[o]] = Sup \/ tag[o] \in irq' \/ wait'[tag[o]] > 0
    BY DEF SleepCovered
  <2>1. tag[o] \in Tag
    BY SemInUse DEF Sem, Thread
  <2> QED BY <2>1, <1>1 DEF SleepCovered
<1> QED BY <1>1, <1>2, <1>3, <1>4

\* ... and the token wakes the one thread that can wait for it.
LEMMA WakeIInv == ASSUME IInv, NEW o \in Obj, Wake(o) PROVE IInv'
<1> USE MpMutexAssumption DEF IInv, objVars, hwVars, Wake, Goto
<1>1. o \in Thread /\ tag[o] \in Tag /\ obj[o] = "ready"
  BY SemInUse DEF Sem, ObjOf, Thread
<1>2. \A u \in Thread : pc'[u] = IF u = o THEN "latest" ELSE pc[u]
  BY DEF TypeOK
<1>3. TypeOK' /\ \A m \in Tag : m # tag[o] => wait'[m] = wait[m]
  <2>1. wait[tag[o]] - 1 \in 0 .. SemMax /\ wait \in [Tag -> 0 .. SemMax]
    <3>1. wait \in [Tag -> 0 .. SemMax]
      BY DEF TypeOK
    <3>2. wait[tag[o]] \in 0 .. SemMax /\ wait[tag[o]] > 0 /\ SemMax \in Nat
      BY <3>1, <1>1
    <3> QED BY <3>1, <3>2
  <2>2. wait' \in [Tag -> 0 .. SemMax] /\ \A m \in Tag : m # tag[o] => wait'[m] = wait[m]
    BY <1>1, <2>1
  <2>3. pc' \in [Thread -> Place]
    BY <1>2 DEF TypeOK, Place
  <2> QED BY <2>2, <2>3 DEF TypeOK, Place
<1>4. TagExclusive' /\ UseInv'
  BY <1>1, <1>2 DEF TagExclusive, UseInv, ObjOf
<1>5. OwnInv'
  BY <1>2 DEF OwnInv, Sem, Cpu
<1>6. SleepCovered'
  <2> SUFFICES ASSUME NEW p \in Obj, pc'[p] = "sleep"
               PROVE  resv[tag[p]] = Sup \/ tag[p] \in irq \/ wait'[tag[p]] > 0
    BY DEF SleepCovered
  <2>1. p # o /\ pc[p] = "sleep" /\ p \in Thread
    BY <1>2 DEF Thread
  <2>2. tag[p] \in Tag /\ obj[p] = "ready"
    BY <2>1, SemInUse DEF Sem, ObjOf
  <2>3. tag[p] # tag[o]
    BY <2>1, <2>2, <1>1 DEF TagExclusive
  <2> QED BY <2>1, <2>2, <2>3, <1>3 DEF SleepCovered
<1> QED BY <1>3, <1>4, <1>5, <1>6
-----------------------------------------------------------------------------
\* Every step keeps the invariant.
LEMMA NextIInv == IInv /\ [Next]_mutexVars => IInv'
<1> SUFFICES ASSUME IInv, [Next]_mutexVars PROVE IInv'
  OBVIOUS
<1>1. ASSUME NEW o \in Obj, MutexInit(o) \/ OpenFails(o) \/ Close(o) \/ ObjStep(o)
      PROVE  IInv'
  BY <1>1, ObjectsIInv
<1>2. ASSUME NEW o \in Obj, LockStep(o) PROVE IInv'
  <2>1. o \in Thread /\ Sem(o) = tag[o] /\ Cpu(o) = Sup
    BY MpMutexAssumption DEF Thread, Sem, Cpu
  <2>2. CASE Reserve(o)
    BY <2>1, <2>2, RequestIInv DEF Reserve, Goto
  <2>3. CASE ReadFirst(o) \/ ReadSecond(o) \/ ReadLatest(o)
    BY <2>1, <2>3, LooksIInv
  <2>4. CASE Wake(o)
    BY <2>4, WakeIInv
  <2> QED BY <1>2, <2>2, <2>3, <2>4 DEF LockStep
<1>3. ASSUME NEW t \in Thread, LockCall(t) \/ TryCall(t) \/ TryStep(t) \/ Unlock(t)
      PROVE  IInv'
  <2>1. CASE Request(t)
    BY <2>1, RequestIInv DEF Request, Goto
  <2>2. CASE Unlock(t)
    BY <2>2, UnlockIInv
  <2> QED BY <1>3, <2>1, <2>2, LooksIInv DEF TryStep
<1>4. ASSUME NEW n \in Tag, IrqHandler(n) PROVE IInv'
  BY <1>4, IrqIInv
<1>5. CASE UNCHANGED mutexVars
  BY <1>5 DEF mutexVars, objVars, hwVars, IInv, TypeOK, TagExclusive, UseInv, ObjOf,
              OwnInv, Sem, Cpu, SleepCovered
<1> QED BY <1>1, <1>2, <1>3, <1>4, <1>5 DEF Next

\* Hence it holds in every reachable state.
LEMMA SpecIInv == Spec => []IInv
  BY InitIInv, NextIInv, PTL DEF Spec

\* Well typed, and no two ready objects share a semaphore, although a failed
\* open can mark the semaphores of others as free.
THEOREM Exclusive == Spec => []Inv
<1>1. IInv => Inv
  BY DEF IInv, Inv
<1> QED BY <1>1, SpecIInv, PTL

\* At most one thread of all CPUs holds a mutex.
THEOREM Excludes == Spec => []MutualExclusion
<1>1. IInv => MutualExclusion
  BY OneHolder DEF MutualExclusion, IInv, OwnInv
<1> QED BY <1>1, SpecIInv, PTL

\* A thread that sleeps for a mutex has something that will wake it.
THEOREM Covered == Spec => []SleepCovered
<1>1. IInv => SleepCovered
  BY DEF IInv
<1> QED BY <1>1, SpecIInv, PTL
=============================================================================
