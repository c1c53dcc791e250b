------------------------------ MODULE FreqLock ------------------------------
(***************************************************************************)
(* sdk/bsp/src/cxd56_powermgr.c, the frequency locks: threads acquire and  *)
(* release locks that ask for a high or low core voltage.  When the union  *)
(* of the queued locks' flags changes, the system CPU is asked for the new *)
(* clock with an ICC message, and the caller sleeps until the answer,      *)
(* holding the mutex g_freqlock and the wakelock g_wlock.                  *)
(*                                                                         *)
(* Messages leave through the channel that CpuFifo implements, shared with *)
(* all other messages; the result of sending is ignored by the code.       *)
(***************************************************************************)
EXTENDS Naturals, Sequences, FiniteSets

CONSTANTS Thread,          \* threads that call the functions
          HvLock, LvLock,  \* locks that request HV, LV (or both)
          Other,           \* any message of another driver
          Capacity,        \* backlog from which a send may be refused
          MaxBacklog,      \* bound on the backlog other messages build up
          MaxCount,        \* bound on the count of a lock
          None             \* no operation, no lock

Lock == HvLock \cup LvLock

\* PM_CPUFREQLOCK_FLAG_*, INIT for INITIALIZED
Flag == {"INIT", "HV", "LV"}

ASSUME FreqLockAssumption ==
  /\ IsFiniteSet(Thread)
  /\ Capacity \in Nat /\ MaxBacklog \in Nat /\ MaxCount \in Nat
  /\ None \notin Lock \cup {"acquire", "release", "count"}
  /\ \A F \in SUBSET Flag : Other # F

VARIABLES freqlockqueue,  \* locks in g_freqlockqueue
          count,          \* lock->count
          flag,           \* g_freqlock_flag
          mutex,          \* value of g_freqlock
          answer,         \* value of g_freqlockwait
          wlock,          \* count of g_wlock
          pc, op, arg,    \* the call of a thread and where it is in it
          chan, result,   \* messages to the system CPU, the last send
          inbox,          \* requests the system CPU is working on
          granted,        \* the flags it set the clock for last
          answers,        \* answers of the system CPU on their way
          refused         \* some request was refused by the FIFO

lockVars == <<freqlockqueue, count, flag>>
callVars == <<pc, op, arg>>
cpuVars == <<inbox, granted, answers>>
freqVars == <<lockVars, mutex, answer, wlock, callVars, chan, result, cpuVars, refused>>

\* The flags of a lock.
Flags(l) == {f \in {"HV"} : l \in HvLock} \cup {f \in {"LV"} : l \in LvLock}

\* The flags cxd56_pm_checkfreqlock collects from the queue.
Wanted(Q) == {"INIT"} \cup UNION {Flags(l) : l \in Q}

Chan == INSTANCE Channel WITH Msg <- (SUBSET Flag) \cup {Other}

\* Threads between taking and giving g_freqlock, those asleep on it, those
\* that wait for the system CPU, and those that hold g_wlock.
Holders == {t \in Thread : pc[t] \in {"edit", "send", "wait", "asleep", "post"}}
Blocked == {t \in Thread : pc[t] = "blocked"}
Waiting == {t \in Thread : pc[t] \in {"wait", "asleep"}}
WlockUsers == {t \in Thread : op[t] \in {"acquire", "release"} /\ pc[t] # "wake"}

\* cxd56_pm_initialize
Init == /\ freqlockqueue = {}
        /\ count = [l \in Lock |-> 0]
        /\ flag = {}
        /\ mutex = 1 /\ answer = 0 /\ wlock = 0
        /\ pc = [t \in Thread |-> "idle"]
        /\ op = [t \in Thread |-> None] /\ arg = [t \in Thread |-> None]
        /\ Chan!Init
        /\ inbox = <<>> /\ granted = {} /\ answers = 0
        /\ refused = FALSE

Goto(t, from, to) == pc[t] = from /\ pc' = [pc EXCEPT ![t] = to]

-----------------------------------------------------------------------------
(* up_pm_acquire_freqlock, up_pm_release_freqlock, up_pm_get_freqlock_count *)

Call(t, o, l) ==
  /\ Goto(t, "idle", IF o = "count" THEN "lock" ELSE "wake")
  /\ o = "acquire" => count[l] < MaxCount
  /\ op' = [op EXCEPT ![t] = o]
  /\ arg' = [arg EXCEPT ![t] = l]
  /\ UNCHANGED <<lockVars, mutex, answer, wlock, chan, result, cpuVars, refused>>

\* up_pm_acquire_wakelock(&g_wlock)
HoldWlock(t) ==
  /\ Goto(t, "wake", "lock")
  /\ wlock' = wlock + 1
  /\ UNCHANGED <<lockVars, mutex, answer, op, arg, chan, result, cpuVars, refused>>

\* cxd56_pm_semtake(&g_freqlock)
TakeMutex(t) ==
  /\ \/ mutex > 0 /\ mutex' = mutex - 1 /\ Goto(t, "lock", "edit")
     \/ mutex = 0 /\ Goto(t, "lock", "blocked") /\ UNCHANGED mutex
  /\ UNCHANGED <<lockVars, answer, wlock, op, arg, chan, result, cpuVars, refused>>

\* Mutant: the flags are collected before a released lock leaves the queue.
MutantCheckEarly(t, Q) ==
  LET new == Wanted(IF op[t] = "release" THEN freqlockqueue ELSE Q) IN
  /\ freqlockqueue' = Q
  /\ flag' = new
  /\ Goto(t, "edit", IF new = flag THEN "post" ELSE "send")

\* The queue is Q now: cxd56_pm_checkfreqlock up to its message.
CheckFreqlock(t, Q) ==
  /\ freqlockqueue' = Q
  /\ flag' = Wanted(Q)
  /\ Goto(t, "edit", IF Wanted(Q) = flag THEN "post" ELSE "send")

\* The queue does not change.
NoCheck(t) == Goto(t, "edit", "post") /\ UNCHANGED <<freqlockqueue, flag>>

\* The search in the queue and what follows from it.
Edit(t) ==
  LET l == arg[t] IN
  /\ pc[t] = "edit"
  /\ \/ /\ op[t] = "acquire" /\ l \notin freqlockqueue
        /\ CheckFreqlock(t, freqlockqueue \cup {l})
        /\ UNCHANGED count
     \/ /\ op[t] = "release" /\ l \in freqlockqueue
        /\ count' = [count EXCEPT ![l] = @ - 1]
        /\ IF count[l] = 1 THEN CheckFreqlock(t, freqlockqueue \ {l}) ELSE NoCheck(t)
     \/ /\ op[t] = "acquire" => l \in freqlockqueue
        /\ op[t] = "release" => l \notin freqlockqueue
        /\ NoCheck(t)
        /\ UNCHANGED count
  /\ UNCHANGED <<mutex, answer, wlock, op, arg, chan, result, cpuVars, refused>>

\* Mutant: the caller does not wait for the answer.
MutantSendNoWait(t) ==
  /\ Goto(t, "send", "post")
  /\ \/ Chan!Send(flag) /\ UNCHANGED refused
     \/ Chan!Refuse /\ refused' = TRUE
  /\ UNCHANGED <<lockVars, mutex, answer, wlock, op, arg, cpuVars>>

\* cxd56_pmsendmsg; whatever comes of it, the caller waits.
Send(t) ==
  /\ Goto(t, "send", "wait")
  /\ \/ Chan!Send(flag) /\ UNCHANGED refused
     \/ Chan!Refuse /\ refused' = TRUE
  /\ UNCHANGED <<lockVars, mutex, answer, wlock, op, arg, cpuVars>>

\* cxd56_pm_semtake(&g_freqlockwait)
TakeAnswer(t) ==
  /\ \/ answer > 0 /\ answer' = answer - 1 /\ Goto(t, "wait", "post")
     \/ answer = 0 /\ Goto(t, "wait", "asleep") /\ UNCHANGED answer
  /\ UNCHANGED <<lockVars, mutex, wlock, op, arg, chan, result, cpuVars, refused>>

\* Mutant: EINTR is taken for the answer.
MutantInterruptProceeds(t) ==
  /\ Goto(t, "blocked", "lock") \/ Goto(t, "asleep", "post")
  /\ UNCHANGED <<lockVars, mutex, answer, wlock, op, arg, chan, result, cpuVars, refused>>

\* sem_wait is interrupted by a signal: the loop of cxd56_pm_semtake.
Interrupt(t) ==
  /\ Goto(t, "blocked", "lock") \/ Goto(t, "asleep", "wait")
  /\ UNCHANGED <<lockVars, mutex, answer, wlock, op, arg, chan, result, cpuVars, refused>>

\* Mutant: the mutex is given back without waking a sleeping thread.
MutantPostNoWake(t) ==
  LET to == IF op[t] = "count" THEN "idle" ELSE "unwake" IN
  /\ Goto(t, "post", to)
  /\ count' = IF op[t] = "acquire" THEN [count EXCEPT ![arg[t]] = @ + 1] ELSE count
  /\ mutex' = mutex + 1
  /\ IF to = "idle" THEN /\ op' = [op EXCEPT ![t] = None]
                         /\ arg' = [arg EXCEPT ![t] = None]
                    ELSE UNCHANGED <<op, arg>>
  /\ UNCHANGED <<freqlockqueue, flag, answer, wlock, chan, result, cpuVars, refused>>

\* lock->count++ of an acquire and sem_post(&g_freqlock)
Post(t) ==
  LET to == IF op[t] = "count" THEN "idle" ELSE "unwake" IN
  /\ pc[t] = "post"
  /\ count' = IF op[t] = "acquire" THEN [count EXCEPT ![arg[t]] = @ + 1] ELSE count
  /\ \/ /\ \E u \in Blocked : pc' = [pc EXCEPT ![t] = to, ![u] = "edit"]
        /\ UNCHANGED mutex
     \/ /\ Blocked = {}
        /\ pc' = [pc EXCEPT ![t] = to]
        /\ mutex' = mutex + 1
  /\ IF to = "idle" THEN /\ op' = [op EXCEPT ![t] = None]
                         /\ arg' = [arg EXCEPT ![t] = None]
                    ELSE UNCHANGED <<op, arg>>
  /\ UNCHANGED <<freqlockqueue, flag, answer, wlock, chan, result, cpuVars, refused>>

\* up_pm_release_wakelock(&g_wlock)
DropWlock(t) ==
  /\ Goto(t, "unwake", "idle")
  /\ wlock' = wlock - 1
  /\ op' = [op EXCEPT ![t] = None] /\ arg' = [arg EXCEPT ![t] = None]
  /\ UNCHANGED <<lockVars, mutex, answer, chan, result, cpuVars, refused>>

-----------------------------------------------------------------------------
(* The receive interrupt, the system CPU, and the other senders *)

\* Mutant: the count goes up but the sleeping caller is not woken.
MutantAnswerNoWake ==
  /\ answers > 0 /\ answers' = answers - 1
  /\ answer' = answer + 1
  /\ UNCHANGED <<lockVars, mutex, wlock, callVars, chan, result, inbox, granted, refused>>

\* cxd56_pmmsghandler: sem_post(&g_freqlockwait)
AnswerIrq ==
  /\ answers > 0 /\ answers' = answers - 1
  /\ \/ \E t \in Thread : Goto(t, "asleep", "post") /\ UNCHANGED answer
     \/ /\ \A t \in Thread : pc[t] # "asleep"
        /\ answer' = answer + 1 /\ UNCHANGED pc
  /\ UNCHANGED <<lockVars, mutex, wlock, op, arg, chan, result, inbox, granted, refused>>

SystemTake ==
  /\ Chan!Deliver
  /\ inbox' = IF Head(chan) = Other THEN inbox ELSE Append(inbox, Head(chan))
  /\ UNCHANGED <<lockVars, mutex, answer, wlock, callVars, granted, answers, refused>>

SystemAnswer ==
  /\ inbox # <<>>
  /\ granted' = Head(inbox) /\ inbox' = Tail(inbox)
  /\ answers' = answers + 1
  /\ UNCHANGED <<lockVars, mutex, answer, wlock, callVars, chan, result, refused>>

\* Other drivers fill the channel.
OtherSend ==
  /\ Len(chan) < MaxBacklog
  /\ Chan!Send(Other)
  /\ UNCHANGED <<lockVars, mutex, answer, wlock, callVars, cpuVars, refused>>

Step(t) == \/ HoldWlock(t) \/ TakeMutex(t) \/ Edit(t) \/ Send(t)
           \/ TakeAnswer(t) \/ Post(t) \/ DropWlock(t)

Next == \/ \E t \in Thread :
             \/ \E o \in {"acquire", "release", "count"}, l \in Lock : Call(t, o, l)
             \/ Step(t) \/ Interrupt(t)
        \/ AnswerIrq \/ SystemTake \/ SystemAnswer \/ OtherSend

\* Runnable threads run, interrupts are served, and the system CPU takes
\* its messages (the liveness of Channel) and answers.
Fairness == /\ \A t \in Thread : WF_freqVars(Step(t))
            /\ WF_freqVars(AnswerIrq) /\ WF_freqVars(SystemTake) /\ WF_freqVars(SystemAnswer)

SafeSpec == Init /\ [][Next]_freqVars

Spec == SafeSpec /\ Fairness
-----------------------------------------------------------------------------
PC == {"idle", "wake", "lock", "blocked", "edit", "send", "wait", "asleep", "post", "unwake"}

TypeOK ==
  /\ freqlockqueue \subseteq Lock
  /\ count \in [Lock -> Nat]
  /\ flag \subseteq Flag
  /\ mutex \in {0, 1} /\ answer \in Nat /\ wlock \in Nat
  /\ pc \in [Thread -> PC]
  /\ op \in [Thread -> {"acquire", "release", "count", None}]
  /\ arg \in [Thread -> Lock \cup {None}]
  /\ \A t \in Thread : pc[t] = "idle" <=> op[t] = None
  /\ \A t \in Thread : pc[t] = "idle" <=> arg[t] = None
  /\ chan \in Seq((SUBSET Flag) \cup {Other})
  /\ result \in {"none", "OK", "EAGAIN"}
  /\ inbox \in Seq(SUBSET Flag) /\ granted \subseteq Flag /\ answers \in Nat
  /\ refused \in BOOLEAN

\* up_pm_acquire_freqlock returns only when the system CPU runs at the clock
\* it asked for, and what other threads acquire and release meanwhile never
\* takes that away: a lock that is held has its flags granted.  Even a request
\* that the FIFO refused does no harm here, for its caller never returns.
HeldGranted == \A l \in Lock : count[l] > 0 => Flags(l) \subseteq granted

\* When nobody is inside, the clock is exactly what the locks ask for: no
\* release leaves the system at the high voltage.
Settled ==
  Holders = {} =>
     /\ freqlockqueue = {l \in Lock : count[l] > 0}
     /\ granted = IF flag = {} THEN {} ELSE Wanted(freqlockqueue)

\* One request is under way for a waiting thread, and none otherwise: no
\* answer is left over in g_freqlockwait that a later caller would take for
\* its own and go on at the old clock.
Requests == {i \in 1 .. Len(chan) : chan[i] # Other}
AnswerInv ==
  Cardinality(Requests) + Len(inbox) + answers + answer
     = IF refused THEN 0 ELSE Cardinality(Waiting)

\* One thread at a time changes the queue, and nobody sleeps on a free mutex.
MutexInv == /\ mutex + Cardinality(Holders) = 1
            /\ Blocked # {} => mutex = 0

\* The wakelock of the frequency locks is held once for each thread inside a
\* call that may wait for the system CPU, and by nobody afterwards.  Whether
\* the task that enters hot sleep looks at it in time is its own matter.
WakelockInv == wlock = Cardinality(WlockUsers)

\* The mutex and the wakelock are taken and given once on every path of the
\* three calls.
Inv == TypeOK /\ MutexInv /\ WakelockInv

\* A thread that has the mutex finally returns, unless a request was refused:
\* then it waits for ever and keeps the mutex and the wakelock.
HolderReturns ==
  \A t \in Thread : t \in Holders ~> (pc[t] = "idle" \/ refused)
=============================================================================
