------------------------------ MODULE PowerMgr ------------------------------
(***************************************************************************)
(* sdk/bsp/src/cxd56_powermgr.c, the power manager task: it takes messages *)
(* from a queue and calls the registered callbacks before and after the    *)
(* system CPU changes a clock, and before and after hot sleep.  A callback *)
(* may refuse; those called before it are then called to recover.          *)
(*   cxd56_pmmsghandler  queues the clock messages, in the interrupt       *)
(*   cxd56_pm_hotsleep   queues a hot sleep, in the idle thread, when      *)
(*                       nothing else can run and no wakelock is held      *)
(* The list of callbacks is locked by g_regcblock, but not in hot sleep.   *)
(*                                                                         *)
(* Threads may be preempted between any two actions; a critical section    *)
(* and an interrupt are one.  Callbacks do not block and do not call back. *)
(*                                                                         *)
(* FreqLock models the other half of the file; the proofs about the two    *)
(* are in one module, hence the Pm in the names that both would have.      *)
(***************************************************************************)
EXTENDS Naturals, Sequences, FiniteSets, SequencesExt

CONSTANTS Callback,      \* entries of g_cbqueue, by their function
          Permanent,     \* those registered at startup for good
          Refusable,     \* callback ids that a callback may refuse
          WakeLock,      \* wakelocks of threads and handlers
          MaxWakeCount,  \* bound on the count of a wakelock
          MqMax,         \* mq_maxmsg, 8 in the code
          NoEntry        \* no entry

ASSUME PowerMgrAssumption ==
  /\ NoEntry \notin Callback /\ Permanent \subseteq Callback
  /\ IsFiniteSet(Permanent)
  /\ MqMax \in Nat /\ MqMax >= 3 /\ MaxWakeCount \in Nat
  /\ Refusable \subseteq {"CLK_CHG_START", "CLK_CHG_END", "HOT_SLEEP", "HOT_BOOT"}

VARIABLES wakecount,  \* count of each wakelock; those above 0 are queued
          mq,         \* messages for the task, oldest first
          dropped,    \* a message found the queue full
          cbqueue,    \* g_cbqueue
          regcblock,  \* value of g_regcblock
          started,    \* g_clockcange_start
          tpc, id,    \* where the task is, and the callback id of its walk
          cur, last,  \* entry called last, and the one that refused
          intc,       \* the interrupt controller is not suspended
          ipc,        \* where the idle thread is in cxd56_pm_hotsleep
          rpc, rarg,  \* a thread that (un)registers a callback, and which
          change,     \* the system CPU has a clock change open
          targets,    \* callbacks that g_target_id_table selects
          unbooted,   \* a callback refused the last HOT_BOOT
          stopped,    \* callbacks that accepted START and got no END since
          down        \* callbacks that accepted SLEEP and got no BOOT since

taskVars == <<tpc, id, cur, last, intc>>
regVars == <<cbqueue, regcblock, rpc, rarg>>
cbVars == <<stopped, down, unbooted>>
msgVars == <<mq, dropped>>
sysVars == <<change, targets>>
pmVars == <<wakecount, msgVars, regVars, started, taskVars, ipc, sysVars, cbVars>>

\* After cxd56_pm_initialize, when the drivers have registered (the system
\* timer, the watchdog and the console).
PmInit == /\ wakecount = [l \in WakeLock |-> 0]
        /\ mq = <<>> /\ dropped = FALSE
        /\ cbqueue \in SetToSeqs(Permanent) /\ regcblock = 1
        /\ started = FALSE
        /\ tpc = "receive" /\ id = "none" /\ cur = NoEntry /\ last = NoEntry
        /\ intc = TRUE
        /\ ipc = "run"
        /\ rpc = "idle" /\ rarg = NoEntry
        /\ change = FALSE /\ targets = {}
        /\ stopped = {} /\ down = {} /\ unbooted = FALSE

\* The CPU runs, and takes device interrupts.
Running == tpc # "asleep"
Interruptible == Running /\ intc

\* mq_send
MqSend(m) == IF Len(mq) < MqMax THEN mq' = Append(mq, m) /\ UNCHANGED dropped
                                ELSE dropped' = TRUE /\ UNCHANGED mq

-----------------------------------------------------------------------------
(* Wakelocks *)

\* up_pm_acquire_wakelock
AcquireWakelock(l) ==
  /\ Running /\ wakecount[l] < MaxWakeCount
  /\ wakecount' = [wakecount EXCEPT ![l] = @ + 1]
  /\ UNCHANGED <<msgVars, regVars, started, taskVars, ipc, sysVars, cbVars>>

\* up_pm_release_wakelock; without effect on a lock that is not queued.
ReleaseWakelock(l) ==
  /\ Running /\ wakecount[l] > 0
  /\ wakecount' = [wakecount EXCEPT ![l] = @ - 1]
  /\ UNCHANGED <<msgVars, regVars, started, taskVars, ipc, sysVars, cbVars>>

\* up_pm_count_acquire_wakelock() != 0
WakeLocked == \E l \in WakeLock : wakecount[l] > 0

-----------------------------------------------------------------------------
(* The clock messages of the system CPU and cxd56_pmmsghandler *)

\* No clock message is queued or being handled.
ClockQuiet == /\ \A i \in 1 .. Len(mq) : mq[i] = "HOT_SLEEP"
              /\ id \notin {"CLK_CHG_START", "CLK_CHG_END"}

\* Mutant: START falls through to the code of END.
MutantFallThrough ==
  /\ Interruptible /\ ~change /\ ClockQuiet
  /\ change' = TRUE
  /\ \E T \in SUBSET Callback : targets' = T
  /\ IF Len(mq) + 1 < MqMax THEN mq' = mq \o <<"CLK_CHG_START", "CLK_CHG_END">> /\ UNCHANGED dropped
                            ELSE dropped' = TRUE /\ UNCHANGED mq
  /\ UNCHANGED <<wakecount, regVars, started, taskVars, ipc, cbVars>>

\* The system CPU sets the table only for a new change.
ClockStart ==
  /\ Interruptible /\ ~change /\ ClockQuiet
  /\ change' = TRUE
  /\ \E T \in SUBSET Callback : targets' = T
  /\ MqSend("CLK_CHG_START")
  /\ UNCHANGED <<wakecount, regVars, started, taskVars, ipc, cbVars>>

\* It ends a change after the reply, or without one after a timeout.
ClockEnd ==
  /\ Interruptible /\ change
  /\ change' = FALSE
  /\ MqSend("CLK_CHG_END")
  /\ UNCHANGED <<wakecount, regVars, started, taskVars, ipc, targets, cbVars>>

-----------------------------------------------------------------------------
(* cxd56_pm_hotsleep, called by the idle thread *)

\* The idle thread runs only while no other thread can.
Idle == tpc = "receive" /\ mq = <<>> /\ rpc = "idle"

HotSleepCheck ==
  /\ Idle /\ ipc = "run" /\ ~WakeLocked
  /\ ipc' = "send"
  /\ UNCHANGED <<wakecount, msgVars, regVars, started, taskVars, sysVars, cbVars>>

HotSleepSend ==
  /\ Idle /\ ipc = "send"
  /\ ipc' = "run"
  /\ MqSend("HOT_SLEEP")
  /\ UNCHANGED <<wakecount, regVars, started, taskVars, sysVars, cbVars>>

-----------------------------------------------------------------------------
(* cxd56_pm_register_callback, cxd56_pm_unregister_callback *)

\* A thread that unregisters does not preempt the task in hot sleep, where
\* the list is not locked: the entry could be freed under the walk.
HotWalk == id \in {"HOT_SLEEP", "HOT_BOOT"} /\ tpc \in {"walk", "recover"}

RegCall(c) ==
  /\ Running /\ rpc = "idle" /\ c \notin Permanent
  /\ rpc' = "take" /\ rarg' = c
  /\ UNCHANGED <<cbqueue, regcblock>>
  /\ UNCHANGED <<wakecount, msgVars, started, taskVars, ipc, sysVars, cbVars>>

\* cxd56_pm_semtake(&g_regcblock) in both functions
RegTake ==
  /\ Running /\ rpc = "take"
  /\ \/ regcblock > 0 /\ regcblock' = regcblock - 1 /\ rpc' = "hold"
     \/ regcblock = 0 /\ rpc' = "blocked" /\ UNCHANGED regcblock
  /\ UNCHANGED <<cbqueue, rarg>>
  /\ UNCHANGED <<wakecount, msgVars, started, taskVars, ipc, sysVars, cbVars>>

\* Mutant: the waiting task is not woken.
MutantPostByReg == regcblock' = regcblock + 1 /\ UNCHANGED tpc

\* sem_post(&g_regcblock) by the registering thread
PostByReg == \/ tpc = "blocked" /\ tpc' = "walk" /\ UNCHANGED regcblock
             \/ tpc # "blocked" /\ regcblock' = regcblock + 1 /\ UNCHANGED tpc

\* Where an entry is in the list.
Pos(c) == CHOOSE i \in 1 .. Len(cbqueue) : cbqueue[i] = c

\* dq_addlast, unless there is no memory, or dq_rem and kmm_free
RegDone ==
  /\ Running /\ rpc = "hold"
  /\ \/ ~Contains(cbqueue, rarg) /\ cbqueue' = Append(cbqueue, rarg) /\ UNCHANGED cbVars
     \/ ~Contains(cbqueue, rarg) /\ UNCHANGED <<cbqueue, cbVars>>
     \/ /\ Contains(cbqueue, rarg) /\ ~HotWalk
        /\ cbqueue' = RemoveAt(cbqueue, Pos(rarg))
        /\ stopped' = stopped \ {rarg} /\ down' = down \ {rarg} /\ UNCHANGED unbooted
  /\ PostByReg
  /\ rpc' = "idle" /\ rarg' = NoEntry
  /\ UNCHANGED <<wakecount, msgVars, started, id, cur, last, intc, ipc, sysVars>>

-----------------------------------------------------------------------------
(* cxd56_pm_maintask *)

\* mq_receive and the dispatch of the message; an END without a START ends
\* here.
Receive ==
  /\ tpc = "receive" /\ mq # <<>>
  /\ mq' = Tail(mq)
  /\ \/ /\ Head(mq) = "HOT_SLEEP"
        /\ tpc' = "check" /\ id' = "HOT_SLEEP"
        /\ UNCHANGED started
     \/ /\ Head(mq) = "CLK_CHG_START"
        /\ tpc' = "take" /\ id' = "CLK_CHG_START"
        /\ started' = TRUE
     \/ /\ Head(mq) = "CLK_CHG_END" /\ started
        /\ tpc' = "take" /\ id' = "CLK_CHG_END"
        /\ started' = FALSE
     \/ /\ Head(mq) = "CLK_CHG_END" /\ ~started
        /\ UNCHANGED <<tpc, id, started>>
  /\ UNCHANGED <<wakecount, dropped, regVars, cur, last, intc, ipc, sysVars, cbVars>>

\* cxd56_pm_semtake(&g_regcblock) in cxd56_pm_clkchange
Take ==
  /\ tpc = "take"
  /\ \/ regcblock > 0 /\ regcblock' = regcblock - 1 /\ tpc' = "walk"
     \/ regcblock = 0 /\ tpc' = "blocked" /\ UNCHANGED regcblock
  /\ UNCHANGED <<cbqueue, rpc, rarg>>
  /\ UNCHANGED <<wakecount, msgVars, started, id, cur, last, intc, ipc, sysVars, cbVars>>

\* The task waits for the next message.
ToReceive == /\ tpc' = "receive" /\ id' = "none"
             /\ cur' = NoEntry /\ last' = NoEntry

\* The test that begins cxd56_pm_do_hotsleep
Check ==
  /\ tpc = "check"
  /\ IF WakeLocked THEN ToReceive ELSE tpc' = "walk" /\ UNCHANGED <<id, cur, last>>
  /\ UNCHANGED <<wakecount, msgVars, regVars, started, intc, ipc, sysVars, cbVars>>

\* cxd56_pm_needcallback; in hot sleep the table selects everything.
Needed(c) == id \in {"HOT_SLEEP", "HOT_BOOT"} \/ c \in targets

\* dq_peek before the first entry, dq_next after it
Rest == IF cur = NoEntry THEN cbqueue
        ELSE SubSeq(cbqueue, Pos(cur) + 1, Len(cbqueue))

\* A callback that is told i and does not refuse
Told(c, i) ==
  /\ stopped' = CASE i = "CLK_CHG_START" -> stopped \cup {c}
                  [] i = "CLK_CHG_END"   -> stopped \ {c}
                  [] OTHER               -> stopped
  /\ down' = CASE i = "HOT_SLEEP" -> down \cup {c}
               [] i = "HOT_BOOT"  -> down \ {c}
               [] OTHER           -> down
  /\ UNCHANGED unbooted

\* Mutant: an entry that needs no callback ends the walk.
MutantWalk ==
  /\ tpc = "walk" /\ Rest # <<>>
  /\ LET c == Head(Rest) IN
     \/ Needed(c) /\ Told(c, id) /\ cur' = c /\ UNCHANGED <<tpc, id, last>>
     \/ ~Needed(c) /\ tpc' = "called" /\ UNCHANGED <<cbVars, cur, id, last>>
  /\ UNCHANGED <<wakecount, msgVars, regVars, started, intc, ipc, sysVars>>

\* The first loop of cxd56_pm_do_callback: the next entry; one that refuses
\* ends it, and turns START and SLEEP to the id for recovery.
Walk ==
  /\ tpc = "walk" /\ Rest # <<>>
  /\ LET c == Head(Rest) IN
     \/ ~Needed(c) /\ cur' = c /\ UNCHANGED <<cbVars, tpc, id, last>>
     \/ Needed(c) /\ Told(c, id) /\ cur' = c /\ UNCHANGED <<tpc, id, last>>
     \/ /\ Needed(c) /\ id \in Refusable
        /\ tpc' = "recover" /\ last' = c /\ cur' = NoEntry
        /\ unbooted' = (unbooted \/ id = "HOT_BOOT")
        /\ UNCHANGED <<stopped, down, id>>
  /\ UNCHANGED <<wakecount, msgVars, regVars, started, intc, ipc, sysVars>>

WalkEnd ==
  /\ tpc = "walk" /\ Rest = <<>>
  /\ tpc' = "called" /\ cur' = NoEntry
  /\ UNCHANGED <<wakecount, msgVars, regVars, started, id, last, intc, ipc, sysVars, cbVars>>

\* Mutant: SLEEP is not turned to BOOT.
MutantRecoveryId == IF id = "CLK_CHG_START" THEN "CLK_CHG_END" ELSE id

RecoveryId == CASE id = "CLK_CHG_START" -> "CLK_CHG_END"
                [] id = "HOT_SLEEP"     -> "HOT_BOOT"
                [] OTHER                -> id

\* The second loop: the entries before the one that refused.
Recover ==
  /\ tpc = "recover" /\ Head(Rest) # last
  /\ LET c == Head(Rest) IN
     /\ IF Needed(c) THEN Told(c, RecoveryId) ELSE UNCHANGED cbVars
     /\ cur' = c
  /\ UNCHANGED <<wakecount, msgVars, regVars, started, tpc, id, last, intc, ipc, sysVars>>

RecoverEnd ==
  /\ tpc = "recover" /\ Head(Rest) = last
  /\ tpc' = "called" /\ cur' = NoEntry
  /\ UNCHANGED <<wakecount, msgVars, regVars, started, id, last, intc, ipc, sysVars, cbVars>>

\* cxd56_pm_clkchange: the system CPU is told whether a callback refused
\* (the result of sending is ignored), and sem_post(&g_regcblock).
ClkChangeEnd ==
  /\ tpc = "called" /\ id \in {"CLK_CHG_START", "CLK_CHG_END"}
  /\ \/ rpc = "blocked" /\ rpc' = "hold" /\ UNCHANGED regcblock
     \/ rpc # "blocked" /\ regcblock' = regcblock + 1 /\ UNCHANGED rpc
  /\ ToReceive
  /\ UNCHANGED <<cbqueue, rarg>>
  /\ UNCHANGED <<wakecount, msgVars, started, intc, ipc, sysVars, cbVars>>

\* cxd56_pm_do_hotsleep when a callback refused to sleep
Awake ==
  /\ tpc = "called" /\ id = "HOT_SLEEP" /\ last # NoEntry
  /\ ToReceive
  /\ UNCHANGED <<wakecount, msgVars, regVars, started, intc, ipc, sysVars, cbVars>>

\* Its critical section: the controller is suspended and the CPU stops.
Sleep ==
  /\ tpc = "called" /\ id = "HOT_SLEEP" /\ last = NoEntry
  /\ tpc' = "asleep" /\ intc' = FALSE
  /\ UNCHANGED <<wakecount, msgVars, regVars, started, id, cur, last, ipc, sysVars, cbVars>>

\* The CPU wakes up and the callbacks are told.
Wake ==
  /\ tpc = "asleep"
  /\ tpc' = "walk" /\ id' = "HOT_BOOT"
  /\ unbooted' = FALSE
  /\ UNCHANGED <<wakecount, msgVars, regVars, started, cur, last, intc, ipc, sysVars>>
  /\ UNCHANGED <<stopped, down>>

\* cxd56_pm_intc_resume, whatever the callbacks returned
Resume ==
  /\ tpc = "called" /\ id = "HOT_BOOT"
  /\ ToReceive
  /\ intc' = TRUE
  /\ UNCHANGED <<wakecount, msgVars, regVars, started, ipc, sysVars, cbVars>>

Task == \/ Receive \/ Take \/ Check \/ Walk \/ WalkEnd \/ Recover \/ RecoverEnd
        \/ ClkChangeEnd \/ Awake \/ Sleep \/ Wake \/ Resume

PmNext == \/ \E l \in WakeLock : AcquireWakelock(l) \/ ReleaseWakelock(l)
        \/ ClockStart \/ ClockEnd
        \/ HotSleepCheck \/ HotSleepSend
        \/ \E c \in Callback : RegCall(c)
        \/ RegTake \/ RegDone
        \/ Task

\* Threads that can run do, and a sleeping CPU is woken.
PmFairness == WF_pmVars(Task) /\ WF_pmVars(RegTake) /\ WF_pmVars(RegDone)

PmSafeSpec == PmInit /\ [][PmNext]_pmVars

PmSpec == PmSafeSpec /\ PmFairness
-----------------------------------------------------------------------------
Ids == {"CLK_CHG_START", "CLK_CHG_END", "HOT_SLEEP", "HOT_BOOT"}

PmTypeOK ==
  /\ wakecount \in [WakeLock -> Nat]
  /\ mq \in Seq(Ids \ {"HOT_BOOT"})
  /\ {dropped, unbooted, started, intc, change} \subseteq BOOLEAN
  /\ cbqueue \in Seq(Callback)
  /\ regcblock \in {0, 1}
  /\ tpc \in {"receive", "check", "take", "blocked", "walk", "recover", "called", "asleep"}
  /\ id \in Ids \cup {"none"}
  /\ cur \in Callback \cup {NoEntry} /\ last \in Callback \cup {NoEntry}
  /\ ipc \in {"run", "send"}
  /\ rpc \in {"idle", "take", "blocked", "hold"} /\ rarg \in Callback \cup {NoEntry}
  /\ targets \subseteq Callback /\ stopped \subseteq Callback /\ down \subseteq Callback

\* No message of the system CPU is lost: the hot sleep requests of the idle
\* thread cannot fill the queue, for it runs only when that is empty.
MessagesKept == ~dropped

\* What the system CPU is about to be told is true.  After an accepted START every
\* callback that it concerns has stopped, so that the clock may change;
\* after a refused one, or an END, every callback works again, the ones
\* called before the refusal included.
ReplyTrue ==
  tpc = "called" /\ id \in {"CLK_CHG_START", "CLK_CHG_END"} =>
     stopped = IF id = "CLK_CHG_START" /\ last = NoEntry
               THEN ToSet(cbqueue) \cap targets ELSE {}

\* The entry the task stands at during a clock change is in the list: nobody
\* removes and frees it between two callbacks.
WalkInv ==
  id \in {"CLK_CHG_START", "CLK_CHG_END"} =>
     /\ cur # NoEntry => Contains(cbqueue, cur)
     /\ last # NoEntry => Contains(cbqueue, last)

\* Neither a message nor an entry of the list is lost under the task.
PmInv == PmTypeOK /\ MessagesKept /\ WalkInv

\* When the task waits for a message, whatever was refused, registered and
\* interleaved: each callback that prepared for hot sleep was told of its
\* end, unless one refused to boot (the ones behind it wait for the next
\* sleep), and each one stopped for a clock change is still to get the END.
Balanced ==
  tpc = "receive" => (~unbooted => down = {}) /\ (~started => stopped = {})

\* The task finally waits for a message again, and a thread that registers
\* gets the list.
TaskReturns == /\ tpc # "receive" ~> tpc = "receive"
               /\ rpc # "idle" ~> rpc = "idle"

=============================================================================
