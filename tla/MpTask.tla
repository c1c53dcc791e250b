------------------------------- MODULE MpTask -------------------------------
(***************************************************************************)
(* sdk/modules/asmp/supervisor/mptask*.c: MP tasks, which load a worker    *)
(* program onto one or more of the application CPUs, run it, wait for its  *)
(* end and give the CPUs back, together with                               *)
(*   supervisor/mpmq.c       a queue shares g_cpumsg[] with the signals    *)
(*   worker/arch/startup.c   what a worker signals (_signal, wk_exit)      *)
(*                                                                         *)
(* A worker of the framework sends MPSIGSTART and, when its main returns,  *)
(* MPSIGEXIT; icc_sighandler passes them to mptask_sighandler of the task  *)
(* that was registered last for that CPU.  mptask_exec waits for the start *)
(* only if MP objects are bound to the task.                               *)
(*                                                                         *)
(* The calls on one task come from one thread.  g_freecpus is not locked,  *)
(* so the callers of different tasks must not be preempted inside the part *)
(* of a call that does not block; waits, loading and the unload command of *)
(* a secure task interleave.  A task object is used once.                  *)
(***************************************************************************)
EXTENDS Naturals, Sequences, FiniteSets

CONSTANTS Task,       \* task objects
          NCPU,       \* application CPUs are 1 .. NCPU
          NrOffs,     \* number of binaries in a unified binary
          Affinities, \* CPU sets that callers permit a task to use
          Queued,     \* tasks that callers may open a message queue for
          None        \* no task, no CPU

CPU == 1 .. NCPU

\* bound     framework worker with MP objects bound to it (binddata found)
\* unbound   framework worker without bound objects
\* foreign   any other ELF program, which sends no signal
\* secure, unified   encrypted firmware, of one binary or of NrOffs
Kind == {"bound", "unbound", "foreign", "secure", "unified"}
Secure == {"secure", "unified"}

ASSUME MpTaskAssumption ==
  /\ NCPU \in Nat \ {0} /\ NrOffs \in Nat \ {0}
  /\ Affinities \subseteq SUBSET CPU
  /\ Queued \subseteq Task
  /\ None \notin Task \cup CPU
  /\ IsFiniteSet(Task)

VARIABLES kind,       \* of an initialized task, else None
          affinity,   \* task->attr.affinity
          cpuids,     \* task->cpuids, never cleared
          status,     \* task->attr.status: "INIT", "EXEC", "EXIT"
          wait,       \* value of task->wait
          pc,         \* the call in progress, "failed" after a failed exec,
                      \* "over" after mptask_destroy
          booted,     \* tasks whose CPUs were started and not stopped
          mqcpu,      \* CPU of the message queue opened for the task
          freecpus,   \* g_freecpus
          wlock,      \* count of g_mptask_wlock
          dev,        \* CPUs with a device g_cpumsg[]
          sigtask,    \* task whose handler is registered for a CPU
          worker,     \* what runs on a CPU: off, boot, run, done
          sigs        \* signals of a CPU on their way, oldest first

taskVars == <<kind, affinity, cpuids, status, wait, pc, booted>>
mpVars == <<taskVars, mqcpu, freecpus, wlock, dev, sigtask, worker, sigs>>

\* asmp_initialize
Init == /\ kind = [t \in Task |-> None]
        /\ affinity = [t \in Task |-> CPU]
        /\ cpuids = [t \in Task |-> {}]
        /\ status = [t \in Task |-> "INIT"]
        /\ wait = [t \in Task |-> 0]
        /\ pc = [t \in Task |-> "idle"]
        /\ booted = {}
        /\ mqcpu = [t \in Task |-> None]
        /\ freecpus = CPU
        /\ wlock = 0
        /\ dev = {}
        /\ sigtask = [c \in CPU |-> None]
        /\ worker = [c \in CPU |-> "off"]
        /\ sigs = [c \in CPU |-> <<>>]

Goto(t, from, to) == pc[t] = from /\ pc' = [pc EXCEPT ![t] = to]

\* The n lowest members of a set of CPUs.
Lowest(S, n) == {c \in S : Cardinality({d \in S : d < c}) < n}
\* find_firstcpu
FindFirst(S) == IF S = {} THEN None ELSE CHOOSE c \in Lowest(S, 1) : TRUE
FirstCpu(t) == FindFirst(cpuids[t])

\* The CPUs that run the task: a normal one runs on the first it has.
Started(t) == IF kind[t] \in Secure THEN cpuids[t] ELSE {FirstCpu(t)}

\* The thread takes its token of task->wait.
TakeWait(t) == wait[t] > 0 /\ wait' = [wait EXCEPT ![t] = @ - 1]

-----------------------------------------------------------------------------
(* mptask.c: initialization and CPU assignment *)

\* mptask_init, mptask_init_secure: any CPU is permitted.
TaskInit(t, k) ==
  /\ kind[t] = None
  /\ kind' = [kind EXCEPT ![t] = k]
  /\ UNCHANGED <<affinity, cpuids, status, wait, pc, booted>>
  /\ UNCHANGED <<mqcpu, freecpus, wlock, dev, sigtask, worker, sigs>>

\* mptask_setattr; a caller uses it before the CPUs are assigned.
SetAttr(t, a) ==
  /\ kind[t] # None /\ pc[t] = "idle" /\ status[t] = "INIT" /\ cpuids[t] = {}
  /\ affinity' = [affinity EXCEPT ![t] = a]
  /\ UNCHANGED <<kind, cpuids, status, wait, pc, booted>>
  /\ UNCHANGED <<mqcpu, freecpus, wlock, dev, sigtask, worker, sigs>>

\* Mutant: the CPUs taken stay in g_freecpus.
MutantAssignShared(t, n) ==
  /\ Cardinality(freecpus) >= n
  /\ cpuids' = [cpuids EXCEPT ![t] = @ \cup Lowest(freecpus \cap affinity[t], n)]
  /\ UNCHANGED freecpus

\* assign_cpus: the free CPUs are counted, the permitted ones among them are
\* taken, and the call succeeds even when these are too few.
AssignCpus(t, n) ==
  /\ Cardinality(freecpus) >= n
  /\ LET got == Lowest(freecpus \cap affinity[t], n) IN
     /\ cpuids' = [cpuids EXCEPT ![t] = @ \cup got]
     /\ freecpus' = freecpus \ got

\* Number of CPUs a caller may ask for: mptask_assign takes one,
\* mptask_assign_cpus any number for secure tasks, NrOffs for unified ones.
Requests(t) == CASE kind[t] = "secure"  -> CPU
                 [] kind[t] = "unified" -> {1, NrOffs}
                 [] OTHER               -> {1}

\* mptask_assign, mptask_assign_cpus before mptask_exec
Assign(t, n) ==
  /\ kind[t] # None /\ pc[t] = "idle" /\ status[t] = "INIT" /\ t \notin booted
  /\ n \in Requests(t)
  /\ AssignCpus(t, n)
  /\ UNCHANGED <<kind, affinity, status, wait, pc, booted>>
  /\ UNCHANGED <<mqcpu, wlock, dev, sigtask, worker, sigs>>

-----------------------------------------------------------------------------
(* mptask_exec.c, mptask_secure.c *)

\* The device for the worker's signals, and the task as its handler.
Register(t, c) == /\ dev' = dev \cup {c}
                  /\ sigtask' = [sigtask EXCEPT ![c] = t]

\* mptask_exec up to loading: CPUs are assigned when there are none.  It
\* fails with -ENOENT when too few are free or none was permitted.  That no
\* signal of a former worker is left is assumed of the interrupt, not checked
\* by the code: that worker was stopped by a thread, and the receive interrupt
\* preempts threads, so it has taken the last signals when one gets here.
ExecStart(t) ==
  /\ kind[t] # None /\ pc[t] = "idle" /\ status[t] = "INIT" /\ t \notin booted
  /\ IF cpuids[t] # {} THEN UNCHANGED <<cpuids, freecpus>>
                       ELSE AssignCpus(t, IF kind[t] = "unified" THEN NrOffs ELSE 1)
  /\ cpuids'[t] # {}
  /\ \A c \in cpuids'[t] : sigs[c] = <<>>
  /\ \/ /\ IF kind[t] \in Secure THEN UNCHANGED <<dev, sigtask>>
                               ELSE Register(t, FirstCpu(t)')
        /\ pc' = [pc EXCEPT ![t] = "load"]
     \/ /\ kind[t] \notin Secure /\ FirstCpu(t)' \notin dev   \* cxd56_iccinitmsg fails
        /\ UNCHANGED <<dev, sigtask>>
        /\ pc' = [pc EXCEPT ![t] = "failed"]
  /\ UNCHANGED <<kind, affinity, status, wait, booted>>
  /\ UNCHANGED <<mqcpu, wlock, worker, sigs>>

\* An error return of mptask_exec or mptask_exec_secure before the CPUs are
\* started: only when a secure task gets no memory its CPUs are freed, and
\* they stay in task->cpuids.
ExecFail(t) ==
  /\ Goto(t, "load", "failed")
  /\ \/ kind[t] \in Secure /\ freecpus' = freecpus \cup cpuids[t]
     \/ (kind[t] \in Secure => Cardinality(cpuids[t]) > 1) /\ UNCHANGED freecpus
  /\ UNCHANGED <<kind, affinity, cpuids, status, wait, booted>>
  /\ UNCHANGED <<mqcpu, wlock, dev, sigtask, worker, sigs>>

\* Suppress hot sleep.  A unified binary needs a CPU for each part, unless
\* it has one CPU only (mptask_exec_unified).
ExecWake(t) ==
  /\ kind[t] = "unified" => Cardinality(cpuids[t]) \in {1, NrOffs}
  /\ Goto(t, "load", "wake")
  /\ wlock' = wlock + 1
  /\ UNCHANGED <<kind, affinity, cpuids, status, wait, booted>>
  /\ UNCHANGED <<mqcpu, freecpus, dev, sigtask, worker, sigs>>

\* Mutant: the task is marked running when its CPUs are started.
MutantBootMarksExec(t) ==
  /\ Goto(t, "wake", IF kind[t] = "bound" THEN "starting" ELSE "idle")
  /\ booted' = booted \cup {t}
  /\ worker' = [c \in CPU |-> IF c \in Started(t) THEN "boot" ELSE worker[c]]
  /\ status' = [status EXCEPT ![t] = "EXEC"]
  /\ UNCHANGED <<kind, affinity, cpuids, wait>>
  /\ UNCHANGED <<mqcpu, freecpus, wlock, dev, sigtask, sigs>>

\* Mutant: mptask_exec never waits for the start signal.
MutantBootNoWait(t) ==
  /\ Goto(t, "wake", "idle")
  /\ booted' = booted \cup {t}
  /\ worker' = [c \in CPU |-> IF c \in Started(t) THEN "boot" ELSE worker[c]]
  /\ UNCHANGED <<kind, affinity, cpuids, status, wait>>
  /\ UNCHANGED <<mqcpu, freecpus, wlock, dev, sigtask, sigs>>

\* Reset and clock of the CPUs; then a bound task waits for its start signal.
ExecBoot(t) ==
  /\ Goto(t, "wake", IF kind[t] = "bound" THEN "starting" ELSE "idle")
  /\ booted' = booted \cup {t}
  /\ worker' = [c \in CPU |-> IF c \in Started(t) THEN "boot" ELSE worker[c]]
  /\ UNCHANGED <<kind, affinity, cpuids, status, wait>>
  /\ UNCHANGED <<mqcpu, freecpus, wlock, dev, sigtask, sigs>>

ExecStarted(t) ==
  /\ Goto(t, "starting", "idle")
  /\ TakeWait(t)
  /\ UNCHANGED <<kind, affinity, cpuids, status, booted>>
  /\ UNCHANGED <<mqcpu, freecpus, wlock, dev, sigtask, worker, sigs>>

-----------------------------------------------------------------------------
(* mptask_join, mptask_destroy *)

\* mptask_join of a running task; the other statuses return at once.
Join(t) ==
  /\ status[t] = "EXEC"
  /\ Goto(t, "idle", "joining")
  /\ UNCHANGED <<kind, affinity, cpuids, status, wait, booted>>
  /\ UNCHANGED <<mqcpu, freecpus, wlock, dev, sigtask, worker, sigs>>

JoinReturn(t) ==
  /\ Goto(t, "joining", "idle")
  /\ TakeWait(t)
  /\ UNCHANGED <<kind, affinity, cpuids, status, booted>>
  /\ UNCHANGED <<mqcpu, freecpus, wlock, dev, sigtask, worker, sigs>>

\* mptask_destroy is called on a task that was executed, once.  Called after
\* a failed mptask_exec it would release a wakelock the task never took.
MayDestroy(t) == pc[t] = "idle" /\ t \in booted

\* A secure task is always destroyed by force.
Destroy(t, force) ==
  /\ MayDestroy(t)
  /\ pc' = [pc EXCEPT ![t] = IF ~force /\ kind[t] \notin Secure /\ status[t] = "EXEC"
                             THEN "destroying" ELSE "stop"]
  /\ UNCHANGED <<kind, affinity, cpuids, status, wait, booted>>
  /\ UNCHANGED <<mqcpu, freecpus, wlock, dev, sigtask, worker, sigs>>

\* ... after the mptask_join in it
DestroyJoined(t) ==
  /\ Goto(t, "destroying", "stop")
  /\ TakeWait(t)
  /\ UNCHANGED <<kind, affinity, cpuids, status, booted>>
  /\ UNCHANGED <<mqcpu, freecpus, wlock, dev, sigtask, worker, sigs>>

\* mptask_clock_disable
DestroyStop(t) ==
  /\ Goto(t, "stop", "release")
  /\ worker' = [c \in CPU |-> IF c \in cpuids[t] THEN "off" ELSE worker[c]]
  /\ booted' = booted \ {t}
  /\ UNCHANGED <<kind, affinity, cpuids, status, wait>>
  /\ UNCHANGED <<mqcpu, freecpus, wlock, dev, sigtask, sigs>>

\* Permit hot sleep: the release does nothing when the wakelock is not held.
DestroyRelease(t) ==
  /\ Goto(t, "release", "free")
  /\ wlock' = IF wlock > 0 THEN wlock - 1 ELSE 0
  /\ UNCHANGED <<kind, affinity, cpuids, status, wait, booted>>
  /\ UNCHANGED <<mqcpu, freecpus, dev, sigtask, worker, sigs>>

\* After the unload command: mptask_cpu_free and the rest.
DestroyFree(t) ==
  /\ Goto(t, "free", "over")
  /\ freecpus' = freecpus \cup cpuids[t]
  /\ status' = [status EXCEPT ![t] = "EXIT"]
  /\ UNCHANGED <<kind, affinity, cpuids, wait, booted>>
  /\ UNCHANGED <<mqcpu, wlock, dev, sigtask, worker, sigs>>

-----------------------------------------------------------------------------
(* mpmq.c *)

\* mpmq_init with the CPU of an assigned task: the device is shared.
MqInit(t) ==
  /\ t \in Queued
  /\ pc[t] = "idle" /\ status[t] = "INIT" /\ t \notin booted
  /\ mqcpu[t] = None /\ FirstCpu(t) # None
  /\ mqcpu' = [mqcpu EXCEPT ![t] = FirstCpu(t)]
  /\ dev' = dev \cup {FirstCpu(t)}
  /\ UNCHANGED <<freecpus, wlock, sigtask, worker, sigs>>
  /\ UNCHANGED taskVars

\* mpmq_destroy, after the task: the device is freed with its handler,
\* whoever uses the CPU now.
MqDestroy(t) ==
  /\ pc[t] \in {"failed", "over"} /\ mqcpu[t] # None
  /\ mqcpu' = [mqcpu EXCEPT ![t] = None]
  /\ dev' = dev \ {mqcpu[t]}
  /\ sigtask' = [sigtask EXCEPT ![mqcpu[t]] = None]
  /\ UNCHANGED <<freecpus, wlock, worker, sigs>>
  /\ UNCHANGED taskVars

-----------------------------------------------------------------------------
(* The workers and their signals *)

\* A program of the framework runs on c.
Signals(c) == \E t \in booted : c \in Started(t) /\ kind[t] # "foreign"

\* __start
WorkerStart(c) ==
  /\ worker[c] = "boot"
  /\ worker' = [worker EXCEPT ![c] = "run"]
  /\ sigs' = IF Signals(c) THEN [sigs EXCEPT ![c] = Append(@, "START")] ELSE sigs
  /\ UNCHANGED <<mqcpu, freecpus, wlock, dev, sigtask>>
  /\ UNCHANGED taskVars

\* wk_exit
WorkerExit(c) ==
  /\ worker[c] = "run"
  /\ worker' = [worker EXCEPT ![c] = "done"]
  /\ sigs' = IF Signals(c) THEN [sigs EXCEPT ![c] = Append(@, "EXIT")] ELSE sigs
  /\ UNCHANGED <<mqcpu, freecpus, wlock, dev, sigtask>>
  /\ UNCHANGED taskVars

\* Mutant: the end of a worker does not post task->wait.
MutantHandleExitSilent(t, sig) ==
  \/ /\ sig = "START" /\ status[t] = "INIT"
     /\ status' = [status EXCEPT ![t] = "EXEC"]
     /\ wait' = [wait EXCEPT ![t] = @ + 1]
  \/ /\ sig = "EXIT" /\ status[t] = "EXEC"
     /\ status' = [status EXCEPT ![t] = "EXIT"]
     /\ UNCHANGED wait
  \/ /\ ~(sig = "START" /\ status[t] = "INIT")
     /\ ~(sig = "EXIT" /\ status[t] = "EXEC")
     /\ UNCHANGED <<status, wait>>

\* What mptask_sighandler does with a signal of task t.
Handle(t, sig) ==
  \/ /\ sig = "START" /\ status[t] = "INIT"
     /\ status' = [status EXCEPT ![t] = "EXEC"]
     /\ wait' = [wait EXCEPT ![t] = @ + 1]
  \/ /\ sig = "EXIT" /\ status[t] = "EXEC"
     /\ status' = [status EXCEPT ![t] = "EXIT"]
     /\ wait' = [wait EXCEPT ![t] = @ + 1]
  \/ /\ ~(sig = "START" /\ status[t] = "INIT")
     /\ ~(sig = "EXIT" /\ status[t] = "EXEC")
     /\ UNCHANGED <<status, wait>>

\* The receive interrupt; icc_sighandler drops it without device or handler.
Signal(c) ==
  /\ sigs[c] # <<>>
  /\ sigs' = [sigs EXCEPT ![c] = Tail(@)]
  /\ \/ c \in dev /\ sigtask[c] # None /\ Handle(sigtask[c], Head(sigs[c]))
     \/ (c \notin dev \/ sigtask[c] = None) /\ UNCHANGED <<status, wait>>
  /\ UNCHANGED <<kind, affinity, cpuids, pc, booted>>
  /\ UNCHANGED <<mqcpu, freecpus, wlock, dev, sigtask, worker>>

\* The steps of a call under way.
Proceed(t) == \/ ExecFail(t) \/ ExecWake(t) \/ ExecBoot(t) \/ ExecStarted(t)
              \/ JoinReturn(t) \/ DestroyJoined(t)
              \/ DestroyStop(t) \/ DestroyRelease(t) \/ DestroyFree(t)

Next ==
  \/ \E t \in Task :
       \/ \E k \in Kind : TaskInit(t, k)
       \/ \E a \in Affinities : SetAttr(t, a)
       \/ \E n \in CPU : Assign(t, n)
       \/ ExecStart(t) \/ Join(t) \/ MqInit(t) \/ MqDestroy(t) \/ Proceed(t)
       \/ \E force \in BOOLEAN : Destroy(t, force)
  \/ \E c \in CPU : WorkerStart(c) \/ WorkerExit(c) \/ Signal(c)

\* Threads run, interrupts are served and a started CPU reaches __start.  A
\* worker's main need not return.
Fairness == /\ \A t \in Task : WF_mpVars(Proceed(t))
            /\ \A c \in CPU : WF_mpVars(WorkerStart(c)) /\ WF_mpVars(Signal(c))

Spec == Init /\ [][Next]_mpVars /\ Fairness
-----------------------------------------------------------------------------
TypeOK ==
  /\ kind \in [Task -> Kind \cup {None}]
  /\ affinity \in [Task -> SUBSET CPU]
  /\ cpuids \in [Task -> SUBSET CPU]
  /\ status \in [Task -> {"INIT", "EXEC", "EXIT"}]
  /\ wait \in [Task -> 0 .. 2]
  /\ pc \in [Task -> {"idle", "load", "failed", "wake", "starting", "joining",
                      "destroying", "stop", "release", "free", "over"}]
  /\ booted \subseteq Task
  /\ mqcpu \in [Task -> CPU \cup {None}]
  /\ freecpus \subseteq CPU
  /\ wlock \in Nat
  /\ dev \subseteq CPU
  /\ sigtask \in [CPU -> Task \cup {None}]
  /\ worker \in [CPU -> {"off", "boot", "run", "done"}]
  /\ sigs \in [CPU -> {<<>>, <<"START">>, <<"EXIT">>, <<"START", "EXIT">>}]

\* Tasks that still have a right to their CPUs.
Owners == {t \in Task : pc[t] \notin {"failed", "over"}}

\* An application CPU belongs to one task at most and is not free while it
\* does; a CPU runs exactly while the task it belongs to is booted.
CpuExclusive ==
  /\ \A t, u \in Owners : t # u => cpuids[t] \cap cpuids[u] = {}
  /\ \A t \in Owners : cpuids[t] \cap freecpus = {}
  /\ {c \in CPU : worker[c] # "off"} = UNION {Started(t) : t \in booted}

\* Tasks that suppress hot sleep: from before the start of their CPUs until
\* these have stopped.
Awake == booted \cup {t \in Task : pc[t] \in {"wake", "release"}}

\* The hot sleep is suppressed once for each of them, neither more (the SoC
\* would never sleep again) nor less (it would stop a running worker).
WakelockInv == wlock = Cardinality(Awake)

\* What tasks share is theirs alone or counted once for each, whatever other
\* tasks assign, start and destroy meanwhile.
Inv == TypeOK /\ CpuExclusive /\ WakelockInv

\* A booted task's status follows its own worker: it is not reported running
\* before that has started nor finished before that has ended, although the
\* CPU and its device had other users before.
StatusTrue ==
  \A t \in booted :
     /\ status[t] = "EXEC" => worker[FirstCpu(t)] \in {"run", "done"}
     /\ status[t] = "EXIT" => worker[FirstCpu(t)] = "done"

\* mptask_exec, mptask_join and mptask_destroy share one semaphore: a bound
\* task's wait never takes the token of another event, so exec returns only
\* after the start and join and an unforced destroy go on only after the end.
BoundWaits ==
  [][\A t \in Task :
       /\ pc[t] = "starting" /\ pc'[t] = "idle" => status[t] \in {"EXEC", "EXIT"}
       /\ kind[t] = "bound" /\ pc[t] \in {"joining", "destroying"} /\ pc'[t] # pc[t]
            => status[t] = "EXIT"]_mpVars

\* The signals of t's worker no longer reach t: its device was freed, or
\* made anew by another.
Orphaned(t) == sigtask[FirstCpu(t)] # t

\* A thread waiting for a start gets it, and one waiting for an end gets it
\* when the worker has ended, unless an mpmq_destroy freed the device.
CallsReturn ==
  \A t \in Task :
     (\/ pc[t] = "starting"
      \/ pc[t] \in {"joining", "destroying"} /\ worker[FirstCpu(t)] = "done")
       ~> (pc[t] \in {"idle", "stop"} \/ Orphaned(t))

\* mptask.h says: "mptask_join() waits for MP task finish".  Once that has
\* finished it should return.
JoinReturns ==
  \A t \in Task :
     (pc[t] = "joining" /\ worker[FirstCpu(t)] = "done") ~> pc[t] = "idle"
=============================================================================
