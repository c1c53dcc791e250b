------------------------------- MODULE MpMutex -------------------------------
(***************************************************************************)
(* MP mutexes: mutual exclusion between the supervisor and the workers by  *)
(* the hardware semaphores of the chip.                                    *)
(*   sdk/modules/asmp/supervisor/mpmutex.c  allocation of the semaphores   *)
(*   sdk/bsp/src/cxd56_sph.c                their driver, /dev/hsem<tag>   *)
(*   sdk/modules/asmp/worker/mpmutex.c      locking on a worker            *)
(*                                                                         *)
(* A semaphore is IDLE, LOCKED by a CPU, or LOCKEDANDRESERVED: then it     *)
(* passes to the CPU that reserved it when the owner unlocks, and the new  *)
(* owner gets an interrupt.  The supervisor reserves and sleeps; workers   *)
(* try again and again.  The semaphores are external, modelled from the    *)
(* states and requests the code uses; a request that does not fit the      *)
(* state has no effect.                                                    *)
(*                                                                         *)
(* Each object is used by one thread of the supervisor, and each worker    *)
(* uses one object, bound to its task.                                     *)
(***************************************************************************)
EXTENDS Naturals, FiniteSets

CONSTANTS Obj,      \* mpmutex_t objects of the supervisor
          Worker,   \* worker CPUs
          Bound,    \* the object bound to a worker
          Tag,      \* numbers of the semaphores, 3 .. 14 in the code
          SemMax,   \* SEM_VALUE_MAX, the largest value of a semaphore
          Sup,      \* the CPU of the supervisor
          None      \* no CPU, no tag

Thread == Obj \cup Worker
CPU == Worker \cup {Sup}

ASSUME MpMutexAssumption ==
  /\ Bound \in [Worker -> Obj]
  /\ Tag \subseteq Nat /\ IsFiniteSet(Tag)
  /\ SemMax \in Nat \ {0}
  /\ Obj \cap Worker = {} /\ Sup \notin Worker
  /\ None \notin CPU \cup Tag

VARIABLES free,    \* g_freemutexes
          open,    \* tags whose device is open
          tag,     \* tag of an object, also while it is being freed
          obj,     \* an object: "none", "ready", "failed", "freeing", "closed"
          seen,    \* g_freemutexes as read by a thread that changes it
          pc,      \* what a thread does with its mutex
          try,     \* threads whose call is mpmutex_trylock
          own,     \* LOCK_OWNER of a semaphore, None when it is IDLE
          resv,    \* RESV_OWNER, None unless it is LOCKEDANDRESERVED
          irq,     \* tags with an interrupt pending
          wait     \* value of the semaphore wait of a device

objVars == <<free, open, tag, obj, seen>>
hwVars == <<own, resv, irq>>
mutexVars == <<objVars, pc, try, hwVars, wait>>

\* cxd56_sphinitialize, mpmutex_initialize
Init == /\ free = Tag
        /\ open = {}
        /\ tag = [o \in Obj |-> None]
        /\ obj = [o \in Obj |-> "none"]
        /\ seen = [o \in Obj |-> {}]
        /\ pc = [t \in Thread |-> "idle"]
        /\ try = {}
        /\ own = [n \in Tag |-> None]
        /\ resv = [n \in Tag |-> None]
        /\ irq = {}
        /\ wait = [n \in Tag |-> 0]

Goto(t, from, to) == pc[t] = from /\ pc' = [pc EXCEPT ![t] = to]

\* The CPU and the semaphore of a thread.
Cpu(t) == IF t \in Worker THEN t ELSE Sup
Sem(t) == IF t \in Worker THEN tag[Bound[t]] ELSE tag[t]

Idle(n) == own[n] = None
LockedBy(n, c) == own[n] = c /\ resv[n] = None
Busy(n) == resv[n] # None

-----------------------------------------------------------------------------
(* Requests to a semaphore *)

ReqLock(n, c) == /\ own' = [own EXCEPT ![n] = IF Idle(n) THEN c ELSE @]
                 /\ UNCHANGED <<resv, irq>>

\* An idle semaphore is locked, a locked one reserved if nobody has yet.
ReqReserve(n, c) ==
  /\ own' = [own EXCEPT ![n] = IF Idle(n) THEN c ELSE @]
  /\ resv' = [resv EXCEPT ![n] = IF ~ Idle(n) /\ ~ Busy(n) /\ own[n] # c THEN c ELSE @]
  /\ UNCHANGED irq

ReqUnlock(n) ==
  /\ own' = [own EXCEPT ![n] = resv[n]]
  /\ resv' = [resv EXCEPT ![n] = None]
  /\ irq' = IF Busy(n) THEN irq \cup {n} ELSE irq

-----------------------------------------------------------------------------
(* supervisor/mpmutex.c: objects *)

Alloc == {n \in free : \A m \in free : n <= m}

\* Mutant: the device opens for anyone.
MutantMutexInitShared(o) ==
  /\ obj[o] = "none"
  /\ \E n \in Alloc :
       /\ free' = free \ {n} /\ open' = open \cup {n}
       /\ tag' = [tag EXCEPT ![o] = n]
  /\ obj' = [obj EXCEPT ![o] = "ready"]
  /\ UNCHANGED <<seen, pc, try, hwVars, wait>>

\* mpmutex_init; the device opens for one user at a time.
MutexInit(o) ==
  /\ obj[o] = "none"
  /\ \E n \in Alloc :
       /\ n \notin open
       /\ free' = free \ {n} /\ open' = open \cup {n}
       /\ tag' = [tag EXCEPT ![o] = n]
  /\ obj' = [obj EXCEPT ![o] = "ready"]
  /\ UNCHANGED <<seen, pc, try, hwVars, wait>>

\* The device is in use, or there is no descriptor left.
OpenFails(o) ==
  /\ obj[o] = "none"
  /\ \E n \in Alloc :
       /\ free' = free \ {n}
       /\ tag' = [tag EXCEPT ![o] = n]
  /\ obj' = [obj EXCEPT ![o] = "failed"]
  /\ UNCHANGED <<open, seen, pc, try, hwVars, wait>>

\* mpmutex_mutexfree after a failed open reads the bitmap and writes it back
\* outside of the critical section of the others.
FreeRead(o) ==
  /\ obj[o] = "failed"
  /\ seen' = [seen EXCEPT ![o] = free]
  /\ obj' = [obj EXCEPT ![o] = "freeing"]
  /\ UNCHANGED <<free, open, tag, pc, try, hwVars, wait>>

FreeWrite(o) ==
  /\ obj[o] = "freeing"
  /\ free' = seen[o] \cup {tag[o]}
  /\ seen' = [seen EXCEPT ![o] = {}]
  /\ tag' = [tag EXCEPT ![o] = None]
  /\ obj' = [obj EXCEPT ![o] = "none"]
  /\ UNCHANGED <<open, pc, try, hwVars, wait>>

\* mpmutex_destroy of a mutex nobody uses any more
Close(o) ==
  /\ obj[o] = "ready" /\ pc[o] = "idle"
  /\ \A w \in Worker : Bound[w] = o => pc[w] = "idle"
  /\ open' = open \ {tag[o]}
  /\ obj' = [obj EXCEPT ![o] = "closed"]
  /\ UNCHANGED <<free, tag, seen, pc, try, hwVars, wait>>

Destroy(o) ==
  /\ obj[o] = "closed"
  /\ free' = free \cup {tag[o]}
  /\ tag' = [tag EXCEPT ![o] = None]
  /\ obj' = [obj EXCEPT ![o] = "none"]
  /\ UNCHANGED <<open, seen, pc, try, hwVars, wait>>

-----------------------------------------------------------------------------
(* mpmutex_trylock of the worker, sph_trylock *)

\* A mutex is used once it is initialized; one without a worker that shares
\* it is not locked.
Ready(t) == \E w \in Worker : t \in {w, Bound[w]} /\ obj[Bound[w]] = "ready"

LockCall(t) ==
  /\ Ready(t)
  /\ Goto(t, "idle", "status")
  /\ UNCHANGED <<objVars, try, hwVars, wait>>

TryCall(t) ==
  /\ Ready(t)
  /\ Goto(t, "idle", "status")
  /\ try' = try \cup {t}
  /\ UNCHANGED <<objVars, hwVars, wait>>

\* The attempt was in vain: trylock returns -EBUSY, the driver of the
\* supervisor goes on to reserve, a worker starts again.
Missed(t) == /\ pc' = [pc EXCEPT ![t] = IF t \in try THEN "idle"
                                        ELSE IF t \in Obj THEN "reserve" ELSE "status"]
             /\ try' = try \ {t}

\* The semaphore looks idle ...
StatusIdle(t) ==
  /\ Goto(t, "status", "request") /\ Idle(Sem(t))
  /\ UNCHANGED <<objVars, try, hwVars, wait>>

StatusTaken(t) ==
  /\ pc[t] = "status" /\ ~ Idle(Sem(t))
  /\ Missed(t)
  /\ UNCHANGED <<objVars, hwVars, wait>>

\* ... it is requested ...
Request(t) ==
  /\ Goto(t, "request", "check")
  /\ ReqLock(Sem(t), Cpu(t))
  /\ UNCHANGED <<objVars, try, wait>>

\* Mutant: a semaphore that is no longer idle is taken to be one's own.
MutantCheckAny(t) ==
  /\ pc[t] = "check"
  /\ pc' = [pc EXCEPT ![t] = "hold"] /\ try' = try \ {t}
  /\ UNCHANGED <<objVars, hwVars, wait>>

\* ... and this CPU holds it if it is LOCKED, not reserved, by this CPU.
Check(t) ==
  /\ pc[t] = "check"
  /\ IF LockedBy(Sem(t), Cpu(t))
     THEN pc' = [pc EXCEPT ![t] = "hold"] /\ try' = try \ {t}
     ELSE Missed(t)
  /\ UNCHANGED <<objVars, hwVars, wait>>

\* mpmutex_unlock
Unlock(t) ==
  /\ Goto(t, "hold", "idle")
  /\ ReqUnlock(Sem(t))
  /\ UNCHANGED <<objVars, try, wait>>

-----------------------------------------------------------------------------
(* sph_lock after its first attempt *)

Reserve(o) ==
  /\ Goto(o, "reserve", "first")
  /\ ReqReserve(tag[o], Sup)
  /\ UNCHANGED <<objVars, try, wait>>

Reserved(o) == resv[tag[o]] = Sup

\* Confirm locked CPU is me.
Confirm(o) == pc' = [pc EXCEPT ![o] = IF LockedBy(tag[o], Sup) THEN "hold" ELSE "reserve"]

\* The first read of the status: without a reservation it is the last.
ReadFirst(o) ==
  /\ pc[o] = "first"
  /\ IF Reserved(o) THEN pc' = [pc EXCEPT ![o] = "second"] ELSE Confirm(o)
  /\ UNCHANGED <<objVars, try, hwVars, wait>>

\* The second: sleep unless the semaphore has passed to this CPU meanwhile.
ReadSecond(o) ==
  /\ pc[o] = "second"
  /\ pc' = [pc EXCEPT ![o] = IF Busy(tag[o]) THEN "sleep" ELSE "latest"]
  /\ UNCHANGED <<objVars, try, hwVars, wait>>

Wake(o) ==
  /\ Goto(o, "sleep", "latest")
  /\ wait[tag[o]] > 0
  /\ wait' = [wait EXCEPT ![tag[o]] = @ - 1]
  /\ UNCHANGED <<objVars, try, hwVars>>

ReadLatest(o) ==
  /\ pc[o] = "latest"
  /\ Confirm(o)
  /\ UNCHANGED <<objVars, try, hwVars, wait>>

\* Mutant: the interrupt is cleared and nobody woken.
MutantIrqHandlerSilent(n) ==
  /\ n \in irq
  /\ irq' = irq \ {n}
  /\ UNCHANGED <<objVars, pc, try, own, resv, wait>>

\* cxd56_sphirqhandler
IrqHandler(n) ==
  /\ n \in irq
  /\ irq' = irq \ {n}
  /\ wait' = [wait EXCEPT ![n] = IF @ < SemMax THEN @ + 1 ELSE @]
  /\ UNCHANGED <<objVars, pc, try, own, resv>>

-----------------------------------------------------------------------------
ObjStep(o) == FreeRead(o) \/ FreeWrite(o) \/ Destroy(o)
TryStep(t) == StatusIdle(t) \/ StatusTaken(t) \/ Request(t) \/ Check(t)
LockStep(o) == Reserve(o) \/ ReadFirst(o) \/ ReadSecond(o) \/ Wake(o) \/ ReadLatest(o)

Next == \/ \E o \in Obj : MutexInit(o) \/ OpenFails(o) \/ Close(o) \/ ObjStep(o) \/ LockStep(o)
        \/ \E t \in Thread : LockCall(t) \/ TryCall(t) \/ TryStep(t) \/ Unlock(t)
        \/ \E n \in Tag : IrqHandler(n)

\* Threads and workers run, interrupts are served and every holder unlocks.
Fairness == /\ \A t \in Thread : WF_mutexVars(TryStep(t)) /\ WF_mutexVars(Unlock(t))
            /\ \A o \in Obj : WF_mutexVars(LockStep(o))
            /\ \A n \in Tag : WF_mutexVars(IrqHandler(n))

Spec == Init /\ [][Next]_mutexVars /\ Fairness

-----------------------------------------------------------------------------
TypeOK ==
  /\ free \subseteq Tag /\ open \subseteq Tag
  /\ tag \in [Obj -> Tag \cup {None}]
  /\ obj \in [Obj -> {"none", "ready", "failed", "freeing", "closed"}]
  /\ seen \in [Obj -> SUBSET Tag]
  /\ pc \in [Thread -> {"idle", "status", "request", "check", "hold",
                        "reserve", "first", "second", "sleep", "latest"}]
  /\ try \subseteq Thread
  /\ own \in [Tag -> CPU \cup {None}]
  /\ resv \in [Tag -> {Sup, None}]
  /\ irq \subseteq Tag
  /\ wait \in [Tag -> 0 .. SemMax]

\* No two objects use one semaphore: although a thread whose open failed can
\* mark semaphores of others as free, the device opens for one user only.
TagExclusive ==
  \A o, p \in Obj : obj[o] = "ready" /\ obj[p] = "ready" /\ o # p => tag[o] # tag[p]

\* The type invariant with the invariant of the objects.
Inv == TypeOK /\ TagExclusive

\* At most one thread, of whatever CPU, is between lock and unlock of a
\* mutex, and its CPU owns the semaphore.
MutualExclusion ==
  /\ \A t \in Thread : pc[t] = "hold" => own[Sem(t)] = Cpu(t)
  /\ \A t, u \in Thread : pc[t] = "hold" /\ pc[u] = "hold" /\ Sem(t) = Sem(u) => t = u

\* No wake-up is lost: while a thread sleeps, its CPU has the reservation, or
\* the semaphore has passed to it and the interrupt or a token says so.  That
\* a reservation is served once the owner unlocks is LockServed, which excepts
\* an owner that does not know that it has to.
SleepCovered ==
  \A o \in Obj : pc[o] = "sleep" =>
    resv[tag[o]] = Sup \/ tag[o] \in irq \/ wait[tag[o]] > 0

\* A worker requested the semaphore and got it, but read the status only
\* after the supervisor had reserved it: LOCKEDANDRESERVED is not LOCKED, so
\* the worker answers -EBUSY, or tries again, and nobody will unlock.
Orphaned(o) == \E w \in Worker :
  Bound[w] = o /\ own[tag[o]] = w /\ Busy(tag[o]) /\ pc[w] \in {"idle", "status"}

\* mpmutex_lock of the supervisor returns, whatever the workers do, unless
\* the semaphore is orphaned.
LockServed == \A o \in Obj :
  pc[o] = "reserve" ~> pc[o] = "hold" \/ (pc[o] # "idle" /\ Orphaned(o))

\* mpmutex_lock waits for the mutex "to be unlocked by locker" (mpmutex.h): if
\* every thread that is told it has the mutex unlocks it, the call returns.
LockReturns == \A o \in Obj : pc[o] = "reserve" ~> pc[o] = "hold"
=============================================================================
