-------------------------------- MODULE Icc --------------------------------
(***************************************************************************)
(* sdk/bsp/src/cxd56_icc.c: the inter-CPU communication driver, above the  *)
(* CPU FIFO.  A message carries a protocol and the CPU it comes from.  Its *)
(* protocol selects a device of g_protocol; that device's handler may      *)
(* consume it, otherwise it is queued on the device or, for the MSG        *)
(* protocol, on the g_cpumsg device of the sending CPU.  Threads receive   *)
(* from a device by polling, waiting for ever, or waiting with a timeout;  *)
(* a device has one counting semaphore and one watchdog for all of them.   *)
(*                                                                         *)
(* The receive interrupt, the watchdog function and each critical section  *)
(* are atomic; a thread may be preempted everywhere else.  sem_post wakes  *)
(* one waiting thread and hands it the token (NuttX), or counts up.  The   *)
(* POSIX signal of cxd56_iccnotify and the callback icc_sighandler makes   *)
(* change nothing in the driver and are left out.                          *)
(***************************************************************************)
EXTENDS Integers, Sequences, FiniteSets

CONSTANTS Thread,      \* threads that call the receive functions
          Proto,       \* protocol ids, among them MSG and SIG
          Cpu,         \* CPU ids
          MSG, SIG,    \* CXD56_PROTO_MSG, CXD56_PROTO_SIG
          Data,        \* message contents
          NBUFFERS,    \* receive buffers of a device
          Unused,      \* no value yet
          MaxExpiries  \* bound on expiries not yet answered, per device

Device == Proto \cup Cpu

ASSUME IccAssumption ==
  /\ MSG \in Proto /\ SIG \in Proto /\ MSG # SIG
  /\ Proto \cap Cpu = {}
  /\ NBUFFERS \in Nat \ {0}
  /\ MaxExpiries \in Nat
  /\ IsFiniteSet(Thread)
  /\ Unused \notin Thread \cup Device \cup Data

VARIABLES live,      \* devices allocated: g_protocol[p], g_cpumsg[c] not NULL
          handler,   \* protocols whose device has a handler (u.handler)
          recvq,     \* contents of the queued requests, oldest first
          free,      \* length of the freelist
          rxwait,    \* value of the semaphore
          armed,     \* devices whose rxtimeout watchdog is running
          pc,        \* where a thread is in icc_recv
          dev,       \* the device it receives from
          mode,      \* its ms argument: "poll" (-1), "forever" (0), "timed"
          expiries,  \* watchdog expiries no receive has answered for yet
          panicked   \* PANIC() was reached

iccVars == <<live, handler, recvq, free, rxwait, armed, pc, dev, mode,
             expiries, panicked>>

Mode == {"poll", "forever", "timed"}

\* Threads holding a token of d they have not used yet.
Takers(d) == {t \in Thread : pc[t] \in {"took", "dequeue"} /\ dev[t] = d}
\* Threads asleep in sem_wait on d.
Waiters(d) == {t \in Thread : pc[t] = "blocked" /\ dev[t] = d}
\* Threads anywhere inside a receive on d.
Inside(d) == {t \in Thread : pc[t] # "idle" /\ dev[t] = d}

\* cxd56_iccinitialize: the two reserved protocols with their handlers.
Init == /\ live = {MSG, SIG}
        /\ handler = {MSG, SIG}
        /\ recvq = [d \in Device |-> <<>>]
        /\ free = [d \in Device |-> NBUFFERS]
        /\ rxwait = [d \in Device |-> 0]
        /\ armed = {}
        /\ pc = [t \in Thread |-> "idle"]
        /\ dev = [t \in Thread |-> Unused]
        /\ mode = [t \in Thread |-> Unused]
        /\ expiries = [d \in Device |-> 0]
        /\ panicked = FALSE

\* Mutant: the count goes up but no sleeping thread is woken.
MutantSemGiveNoWake(d) == /\ rxwait' = [rxwait EXCEPT ![d] = @ + 1]
                          /\ UNCHANGED pc

\* sem_post(&priv->rxwait)
SemGive(d) ==
  \/ \E t \in Waiters(d) : pc' = [pc EXCEPT ![t] = "took"] /\ UNCHANGED rxwait
  \/ /\ Waiters(d) = {}
     /\ rxwait' = [rxwait EXCEPT ![d] = @ + 1]
     /\ UNCHANGED pc

-----------------------------------------------------------------------------
(* icc_devnew and icc_devfree *)

\* The contents icc_devnew gives a device; those of a freed one are gone.
Fresh(d) == /\ recvq' = [recvq EXCEPT ![d] = <<>>]
            /\ free' = [free EXCEPT ![d] = NBUFFERS]
            /\ rxwait' = [rxwait EXCEPT ![d] = 0]
            /\ expiries' = [expiries EXCEPT ![d] = 0]
            /\ armed' = armed \ {d}
            /\ handler' = handler \ {d}

\* cxd56_iccinit, cxd56_iccinitmsg: nothing if the device exists already.
InitDevice(d) ==
  /\ ~panicked
  /\ d \notin live
  /\ live' = live \cup {d}
  /\ Fresh(d)
  /\ UNCHANGED <<pc, dev, mode, panicked>>

\* cxd56_iccuninit, cxd56_iccuninitmsg on a device no thread receives from:
\* freeing it under a receiver is outside the API.  The reserved protocols
\* are never given up.
UninitDevice(d) ==
  /\ ~panicked
  /\ d \in live \ {MSG, SIG}
  /\ Inside(d) = {}
  /\ live' = live \ {d}
  /\ Fresh(d)
  /\ UNCHANGED <<pc, dev, mode, panicked>>

\* cxd56_iccregisterhandler (NULL unregisters); -EINVAL without a device.
\* Nobody replaces the handlers of the reserved protocols.
RegisterHandler(p, set) ==
  /\ ~panicked
  /\ p \in live \ {MSG, SIG}
  /\ handler' = IF set THEN handler \cup {p} ELSE handler \ {p}
  /\ UNCHANGED <<live, recvq, free, rxwait, armed, expiries, panicked>>
  /\ UNCHANGED <<pc, dev, mode>>

-----------------------------------------------------------------------------
(* icc_irqhandler *)

\* Mutant: the result of icc_sighandler is not looked at.
MutantDecline(p) == TRUE

\* The handler of protocol p may return OK: icc_sighandler always does,
\* icc_msghandler never does, a client's handler may do either.
MayConsume(p) == p \in handler \ {MSG}
MayDecline(p) == p \notin handler \ {MSG} \/ p # SIG

\* Mutant: the message is queued without posting the semaphore.
MutantEnqueueSilent(d, m) ==
  /\ free[d] > 0
  /\ free' = [free EXCEPT ![d] = @ - 1]
  /\ recvq' = [recvq EXCEPT ![d] = Append(@, m)]
  /\ UNCHANGED <<rxwait, pc, panicked>>

\* Mutant: sq_addfirst instead of sq_addlast.
MutantEnqueueFront(d, m) ==
  /\ free[d] > 0
  /\ free' = [free EXCEPT ![d] = @ - 1]
  /\ recvq' = [recvq EXCEPT ![d] = <<m>> \o @]
  /\ SemGive(d)
  /\ UNCHANGED panicked

\* The message is queued on device d.
Enqueue(d, m) ==
  /\ free[d] > 0
  /\ free' = [free EXCEPT ![d] = @ - 1]
  /\ recvq' = [recvq EXCEPT ![d] = Append(@, m)]
  /\ SemGive(d)
  /\ UNCHANGED panicked

\* There is no buffer left for it.
Overrun(d) ==
  /\ free[d] = 0
  /\ panicked' = TRUE
  /\ UNCHANGED <<free, recvq, rxwait, pc>>

\* Nobody waits for it, or the handler consumed it.
Dispose == UNCHANGED <<free, recvq, rxwait, pc, panicked>>

\* Where a message that is not consumed goes.
QueueOf(p, c) == IF p = MSG THEN c ELSE p

Arrive(p, c, m) ==
  LET d == QueueOf(p, c) IN
  /\ ~panicked
  /\ \/ /\ p \notin live \/ MayConsume(p)
        /\ Dispose
     \/ /\ p \in live /\ MayDecline(p) /\ d \notin live
        /\ Dispose
     \/ /\ p \in live /\ MayDecline(p) /\ d \in live
        /\ Enqueue(d, m) \/ Overrun(d)
  /\ UNCHANGED <<live, handler, armed, dev, mode, expiries>>

-----------------------------------------------------------------------------
(* icc_recv *)

\* cxd56_iccrecv, cxd56_iccrecvmsg: -EINVAL without a device.  Nobody asks
\* for a message of a reserved protocol, whose handler leaves none.
Call(t, d, ms) ==
  /\ ~panicked
  /\ pc[t] = "idle"
  /\ d \notin {MSG, SIG}
  /\ \/ /\ d \notin live
        /\ UNCHANGED <<pc, dev, mode, armed>>
     \/ /\ d \in live
        /\ pc' = [pc EXCEPT ![t] = "take"]
        /\ dev' = [dev EXCEPT ![t] = d]
        /\ mode' = [mode EXCEPT ![t] = ms]
        /\ armed' = IF ms = "timed" THEN armed \cup {d} ELSE armed  \* wd_start
  /\ UNCHANGED <<live, handler, recvq, free, rxwait, expiries, panicked>>

\* icc_recv returns: its arguments are gone.
Return(t) == /\ pc' = [pc EXCEPT ![t] = "idle"]
             /\ dev' = [dev EXCEPT ![t] = Unused]
             /\ mode' = [mode EXCEPT ![t] = Unused]

\* Mutant: two pollers that both saw a token take it.
MutantSemTakeUnchecked(t) ==
  /\ ~panicked
  /\ pc[t] = "take"
  /\ rxwait' = [rxwait EXCEPT ![dev[t]] = @ - 1]
  /\ pc' = [pc EXCEPT ![t] = "took"]
  /\ UNCHANGED <<live, handler, recvq, free, armed, dev, mode, expiries, panicked>>

\* icc_semtake, icc_semtrytake
SemTake(t) ==
  /\ ~panicked
  /\ pc[t] = "take"
  /\ \/ /\ rxwait[dev[t]] > 0
        /\ rxwait' = [rxwait EXCEPT ![dev[t]] = @ - 1]
        /\ pc' = [pc EXCEPT ![t] = "took"]
        /\ UNCHANGED <<dev, mode>>
     \/ /\ rxwait[dev[t]] = 0 /\ mode[t] = "poll"
        /\ Return(t)          \* -EAGAIN
        /\ UNCHANGED rxwait
     \/ /\ rxwait[dev[t]] = 0 /\ mode[t] # "poll"
        /\ pc' = [pc EXCEPT ![t] = "blocked"]
        /\ UNCHANGED <<rxwait, dev, mode>>
  /\ UNCHANGED <<live, handler, recvq, free, armed, expiries, panicked>>

\* sem_wait is interrupted by a POSIX signal (EINTR): icc_semtake retries.
Interrupt(t) ==
  /\ ~panicked
  /\ pc[t] = "blocked"
  /\ pc' = [pc EXCEPT ![t] = "take"]
  /\ UNCHANGED <<live, handler, recvq, free, rxwait, armed, dev, mode, expiries, panicked>>

\* wd_cancel after a timed wait
CancelTimeout(t) ==
  /\ ~panicked
  /\ pc[t] = "took"
  /\ pc' = [pc EXCEPT ![t] = "dequeue"]
  /\ armed' = IF mode[t] = "timed" THEN armed \ {dev[t]} ELSE armed
  /\ UNCHANGED <<live, handler, recvq, free, rxwait, dev, mode, expiries, panicked>>

\* Mutant: the request is not put back into the freelist.
MutantDequeueLeaks(t) ==
  /\ ~panicked
  /\ pc[t] = "dequeue"
  /\ LET d == dev[t] IN
     \/ /\ recvq[d] # <<>>
        /\ recvq' = [recvq EXCEPT ![d] = Tail(@)]
        /\ UNCHANGED expiries
     \/ /\ recvq[d] = <<>>
        /\ expiries' = [expiries EXCEPT ![d] = @ - 1]
        /\ UNCHANGED recvq
  /\ Return(t)
  /\ UNCHANGED <<live, handler, free, rxwait, armed, panicked>>

\* The critical section that ends icc_recv.
Dequeue(t) ==
  /\ ~panicked
  /\ pc[t] = "dequeue"
  /\ LET d == dev[t] IN
     \/ /\ recvq[d] # <<>>
        /\ recvq' = [recvq EXCEPT ![d] = Tail(@)]
        /\ free' = [free EXCEPT ![d] = @ + 1]
        /\ UNCHANGED expiries
     \/ /\ recvq[d] = <<>>    \* -ETIMEDOUT
        /\ expiries' = [expiries EXCEPT ![d] = @ - 1]
        /\ UNCHANGED <<recvq, free>>
  /\ Return(t)
  /\ UNCHANGED <<live, handler, rxwait, armed, panicked>>

\* Mutant: the watchdog function does not post the semaphore.
MutantWdExpireSilent(d) ==
  /\ ~panicked
  /\ d \in armed
  /\ expiries[d] < MaxExpiries
  /\ armed' = armed \ {d}
  /\ expiries' = [expiries EXCEPT ![d] = @ + 1]
  /\ UNCHANGED <<live, handler, recvq, free, rxwait, pc, dev, mode, panicked>>

\* icc_rxtimeout, when the watchdog of d expires.
WdExpire(d) ==
  /\ ~panicked
  /\ d \in armed
  /\ expiries[d] < MaxExpiries
  /\ armed' = armed \ {d}
  /\ SemGive(d)
  /\ expiries' = [expiries EXCEPT ![d] = @ + 1]
  /\ UNCHANGED <<live, handler, recvq, free, dev, mode, panicked>>

Next == \/ \E d \in Device : InitDevice(d) \/ UninitDevice(d) \/ WdExpire(d)
        \/ \E p \in Proto, set \in BOOLEAN : RegisterHandler(p, set)
        \/ \E p \in Proto, c \in Cpu, m \in Data : Arrive(p, c, m)
        \/ \E t \in Thread : \/ \E d \in Device, ms \in Mode : Call(t, d, ms)
                             \/ SemTake(t) \/ Interrupt(t)
                             \/ CancelTimeout(t) \/ Dequeue(t)

\* A thread that can run is scheduled, a running watchdog expires.
Fairness == /\ \A t \in Thread : WF_iccVars(SemTake(t) \/ CancelTimeout(t) \/ Dequeue(t))
            /\ \A d \in Device : WF_iccVars(WdExpire(d))

SafeSpec == Init /\ [][Next]_iccVars

Spec == SafeSpec /\ Fairness
-----------------------------------------------------------------------------
TypeOK ==
  /\ live \subseteq Device
  /\ handler \subseteq Proto
  /\ recvq \in [Device -> Seq(Data)]
  /\ free \in [Device -> Nat]
  /\ rxwait \in [Device -> Nat]
  /\ armed \subseteq live
  /\ pc \in [Thread -> {"idle", "take", "blocked", "took", "dequeue"}]
  /\ dev \in [Thread -> Device \cup {Unused}]
  /\ mode \in [Thread -> Mode \cup {Unused}]
  /\ \A t \in Thread : pc[t] # "idle" => dev[t] \in live /\ mode[t] \in Mode
  /\ expiries \in [Device -> Int]
  /\ panicked \in BOOLEAN

\* The NBUFFERS requests of a device are either free or queued: a receive
\* gives back what the interrupt took, so that PANIC() is reached only with
\* NBUFFERS unread messages.
PoolInv == \A d \in live : free[d] + Len(recvq[d]) = NBUFFERS

\* The tokens of a device, counted or already taken by a thread that has not
\* dequeued yet, are its queued messages plus the watchdog expiries that no
\* receive has answered for: no message is queued without a token, and a
\* receive that finds no message is always paid by one expiry.
TokenInv ==
  \A d \in live :
     rxwait[d] + Cardinality(Takers(d)) = Len(recvq[d]) + expiries[d]

\* ... so -ETIMEDOUT, by the end of any receive, never comes more often than
\* the watchdog of the device expired.
TimeoutsPaid == \A d \in live : expiries[d] >= 0

\* The account of the semaphores in both directions: no message without its
\* token, no timeout without its expiry.
TokensPaid == TokenInv /\ TimeoutsPaid

\* No thread sleeps while a message is there for it: whenever one waits, all
\* queued messages have takers under way.
NoLostWakeup ==
  \A d \in live : Waiters(d) # {} =>
     rxwait[d] = 0 /\ Len(recvq[d]) <= Cardinality(Takers(d))

\* The devices of the reserved protocols never queue (their handlers consume
\* or redirect every message), so they cannot overrun.
ReservedNeverQueue == recvq[MSG] = <<>> /\ recvq[SIG] = <<>>

\* What mpmq.h says of a receive with ms = 0: it "waits forever until
\* receiving message".  A stale token of an earlier expiry breaks it.
ForeverNeverTimesOut ==
  [][\A t \in Thread : mode[t] = "forever" /\ pc'[t] = "idle"
                          => recvq[dev[t]] # <<>>]_iccVars

\* Messages leave a device in the order of arrival, each to one receive: a
\* step changes a live device's queue only at its two ends.
FifoPerDevice ==
  [][\A d \in live \cap live' :
       \/ recvq'[d] = recvq[d]
       \/ \E m \in Data : recvq'[d] = Append(recvq[d], m)
       \/ \E t \in Thread : /\ dev[t] = d /\ pc'[t] = "idle"
                            /\ \E m \in Data : recvq[d] = <<m>> \o recvq'[d]]_iccVars

\* A timed receive whose watchdog is running returns, message or not, unless
\* another thread receives on the same device meanwhile (that one's wd_start
\* or wd_cancel may take the watchdog away) or the CPU panics.
TimedReturns ==
  \A t \in Thread :
     (mode[t] = "timed" /\ dev[t] \in armed)
       ~> (pc[t] = "idle" \/ panicked \/ Inside(dev[t]) # {t})
=============================================================================
