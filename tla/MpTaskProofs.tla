---------------------------- MODULE MpTaskProofs ----------------------------
(***************************************************************************)
(* Proofs about MpTask for any tasks, CPUs and affinities.  The account of *)
(* the CPUs needs to know which calls own what; the status of a task needs *)
(* that a handler outlives its task only where its signals change nothing, *)
(* and that nobody is loaded onto a CPU with signals on their way.         *)
(***************************************************************************)
EXTENDS MpTask, FiniteSetTheorems, SequenceTheorems, TLAPS

\* Which calls a task can be in before, while and after it runs.
CallInv ==
  \A t \in Task :
    /\ t \in booted => /\ pc[t] \in {"idle", "starting", "joining", "destroying", "stop"}
                       /\ kind[t] # None /\ cpuids[t] # {}
    /\ pc[t] \in {"starting", "joining", "destroying", "stop"} => t \in booted
    /\ pc[t] = "idle" /\ status[t] # "INIT" => t \in booted
    /\ pc[t] \in {"load", "wake"} =>
         /\ kind[t] # None /\ cpuids[t] # {} /\ status[t] = "INIT"
         /\ \A c \in cpuids[t] : sigs[c] = <<>>

\* A worker has sent no more than it got to.
WorkerInv ==
  \A c \in CPU : /\ worker[c] = "boot" => sigs[c] = <<>>
                 /\ worker[c] = "run" => sigs[c] \in {<<>>, <<"START">>}

\* A task with a handler has been executed; while it loads or runs, that is
\* the handler of its first CPU.
HandlerInv ==
  \A c \in CPU, t \in Task : sigtask[c] = t =>
    /\ t \in booted \/ pc[t] \in {"load", "wake", "failed", "release", "free", "over"}
    /\ t \in booted \/ pc[t] \in {"load", "wake"} => c = FirstCpu(t)

\* The tokens a task may still have by its status.
Events(t) == CASE status[t] = "INIT" -> 0 [] status[t] = "EXEC" -> 1 [] OTHER -> 2

\* Once mptask_exec of a bound task is over, the token of its start is gone.
TokenInv ==
  \A t \in Task :
    /\ wait[t] <= Events(t)
    /\ kind[t] = "bound" /\ t \in booted /\ pc[t] # "starting"
         => status[t] # "INIT" /\ wait[t] < Events(t)

IInv == Inv /\ StatusTrue /\ CallInv /\ WorkerInv /\ HandlerInv /\ TokenInv

Status == {"INIT", "EXEC", "EXIT"}
Place == {"idle", "load", "failed", "wake", "starting", "joining",
          "destroying", "stop", "release", "free", "over"}
Sent == {<<>>, <<"START">>, <<"EXIT">>, <<"START", "EXIT">>}

-----------------------------------------------------------------------------
(* find_firstcpu *)

\* A set of numbers has a least one: its intervals from 0 are well-founded.
LEMMA Least ==
  ASSUME NEW S \in SUBSET Nat, S # {}
  PROVE  \E m \in S : \A n \in S : m <= n
<1> DEFINE T == {0 .. m : m \in S}
           R == StrictSubsetOrdering(Nat)
<1>1. T \subseteq FiniteSubsetsOf(Nat) /\ T # {}
  <2>1. \A m \in Nat : IsFiniteSet(0 .. m)
    BY FS_Interval
  <2>2. \A m \in Nat : 0 .. m \in SUBSET Nat
    OBVIOUS
  <2> QED BY <2>1, <2>2 DEF FiniteSubsetsOf
<1>2. IsWellFoundedOn(R, FiniteSubsetsOf(Nat))
  BY FS_StrictSubsetOrderingWellFounded
<1> HIDE DEF T, R
<1>3. PICK x \in T : \A y \in T : ~(<<y, x>> \in R)
  BY <1>1, <1>2, WFMin
<1>4. PICK m \in S : x = 0 .. m
  BY <1>3 DEF T
<1>5. ASSUME NEW n \in S, n < m PROVE FALSE
  <2>1. 0 .. n \in T
    BY DEF T
  <2>2. 0 .. n \subseteq 0 .. m /\ 0 .. n # 0 .. m
    BY <1>5
  <2>3. 0 .. n \in SUBSET Nat /\ 0 .. m \in SUBSET Nat
    OBVIOUS
  <2>4. <<0 .. n, 0 .. m>> \in R
    BY <2>2, <2>3 DEF R, StrictSubsetOrdering
  <2> QED BY <1>3, <1>4, <2>1, <2>4
<1> QED BY <1>5

\* It finds a CPU of any set that has one, and none in the empty set.
LEMMA FindFirstIn ==
  ASSUME NEW S \in SUBSET CPU
  PROVE  /\ S # {} => FindFirst(S) \in S
         /\ S = {} => FindFirst(S) = None
<1>1. CASE S # {}
  <2>1. S \in SUBSET Nat
    BY MpTaskAssumption DEF CPU
  <2>2. PICK m \in S : \A n \in S : m <= n
    BY <1>1, <2>1, Least
  <2>3. {d \in S : d < m} = {}
    <3>1. \A d \in S : d \in Nat /\ m \in Nat /\ m <= d
      BY <2>1, <2>2
    <3>2. \A d \in S : ~(d < m)
      BY <3>1
    <3> QED BY <3>2
  <2>4. Cardinality({d \in S : d < m}) = 0
    BY <2>3, FS_EmptySet
  <2>5. m \in Lowest(S, 1)
    BY <2>4 DEF Lowest
  <2> QED BY <1>1, <2>5 DEF FindFirst, Lowest
<1> QED BY <1>1 DEF FindFirst

\* A booted task runs on CPUs it has, among them its first one.
LEMMA StartedOwned ==
  ASSUME TypeOK, NEW t \in Task, cpuids[t] # {}
  PROVE  /\ Started(t) \subseteq cpuids[t] /\ FirstCpu(t) \in Started(t)
         /\ FirstCpu(t) \in CPU
<1>1. cpuids[t] \in SUBSET CPU
  BY DEF TypeOK
<1>2. FirstCpu(t) \in cpuids[t]
  BY <1>1, FindFirstIn DEF FirstCpu
<1> QED BY <1>1, <1>2 DEF Started

\* The CPUs that run, and those of a task that does not.
LEMMA CpuFacts ==
  ASSUME IInv
  PROVE  /\ \A t \in booted : /\ t \in Owners /\ Started(t) \subseteq cpuids[t]
                              /\ FirstCpu(t) \in Started(t) /\ FirstCpu(t) \in CPU
         /\ \A t \in booted : \A c \in Started(t) : c \in CPU /\ worker[c] # "off"
         /\ \A c \in CPU : worker[c] # "off" => \E t \in booted : c \in Started(t)
         /\ \A t \in Owners \ booted : \A c \in cpuids[t] : worker[c] = "off"
<1>1. booted \subseteq Task
  BY DEF IInv, Inv, TypeOK
<1>2. ASSUME NEW t \in booted
      PROVE  /\ t \in Owners /\ Started(t) \subseteq cpuids[t]
             /\ FirstCpu(t) \in Started(t) /\ FirstCpu(t) \in CPU
  <2>1. t \in Task /\ t \in Owners /\ cpuids[t] # {}
    BY <1>1 DEF IInv, CallInv, Owners
  <2> QED BY <2>1, StartedOwned DEF IInv, Inv
<1>3. {c \in CPU : worker[c] # "off"} = UNION {Started(t) : t \in booted}
  BY DEF IInv, Inv, CpuExclusive
<1>4. \A t \in booted : \A c \in Started(t) : c \in CPU /\ worker[c] # "off"
  BY <1>3
<1>5. \A c \in CPU : worker[c] # "off" => \E t \in booted : c \in Started(t)
  BY <1>3
<1>6. \A t \in Owners \ booted : \A c \in cpuids[t] : worker[c] = "off"
  <2> SUFFICES ASSUME NEW t \in Owners \ booted, NEW c \in cpuids[t], worker[c] # "off"
               PROVE  FALSE
    OBVIOUS
  <2>1. c \in CPU
    BY DEF IInv, Inv, TypeOK, Owners
  <2>2. PICK u \in booted : c \in Started(u)
    BY <1>5, <2>1
  <2>3. c \in cpuids[u] /\ u \in Owners /\ u # t
    BY <1>2, <2>2
  <2> QED BY <2>3 DEF IInv, Inv, CpuExclusive
<1> QED BY <1>2, <1>4, <1>5, <1>6

\* asmp_initialize establishes the invariant.
LEMMA InitIInv == Init => IInv
<1> SUFFICES ASSUME Init PROVE IInv
  OBVIOUS
<1> USE MpTaskAssumption DEF Init
<1>1. TypeOK
  BY DEF TypeOK
<1>2. CpuExclusive
  <2>1. {c \in CPU : worker[c] # "off"} = {} /\ UNION {Started(t) : t \in booted} = {}
    OBVIOUS
  <2>2. \A t \in Task : cpuids[t] = {}
    OBVIOUS
  <2> QED BY <2>1, <2>2 DEF CpuExclusive, Owners
<1>3. WakelockInv /\ StatusTrue
  <2>1. Awake = {}
    BY DEF Awake
  <2> QED BY <2>1, FS_EmptySet DEF WakelockInv, StatusTrue
<1>4. CallInv /\ WorkerInv
  BY DEF CallInv, WorkerInv
<1>5. HandlerInv
  BY DEF HandlerInv
<1>6. TokenInv
  BY DEF TokenInv, Events
<1> QED BY <1>1, <1>2, <1>3, <1>4, <1>5, <1>6 DEF IInv, Inv
-----------------------------------------------------------------------------
(* Calls that change neither a device, a worker nor a signal *)

\* The status of the booted tasks follows the same workers as before.
LEMMA SameStatusTrue ==
  ASSUME IInv, booted' \subseteq booted, UNCHANGED <<status, worker>>,
         \A t \in booted : cpuids'[t] = cpuids[t]
  PROVE  StatusTrue'
BY DEF IInv, StatusTrue, FirstCpu

\* A call that is neither before the start nor behind the stop of the CPUs
\* leaves the wakelock.
LEMMA SameWakelock ==
  ASSUME IInv, UNCHANGED <<wlock, booted>>,
         \A u \in Task : pc'[u] \in {"wake", "release"} <=> pc[u] \in {"wake", "release"}
  PROVE  WakelockInv'
<1>1. Awake' = Awake
  BY DEF Awake
<1> QED BY <1>1 DEF IInv, Inv, WakelockInv

\* assign_cpus gives a task that does not run CPUs that were free.
LEMMA AssignExclusive ==
  ASSUME IInv, NEW t \in Task, t \notin booted, NEW got \in SUBSET freecpus,
         cpuids' = [cpuids EXCEPT ![t] = @ \cup got], freecpus' = freecpus \ got,
         Owners' \subseteq Owners, UNCHANGED <<worker, booted>>,
         \A u \in booted : kind'[u] = kind[u]
  PROVE  CpuExclusive' /\ \A u \in booted : cpuids'[u] = cpuids[u]
<1>1. /\ \A u \in Task : u # t => cpuids'[u] = cpuids[u]
      /\ cpuids'[t] = cpuids[t] \cup got
      /\ booted \subseteq Task
  BY DEF IInv, Inv, TypeOK
<1>2. \A u \in booted : Started(u)' = Started(u) /\ cpuids'[u] = cpuids[u]
  BY <1>1 DEF Started, FirstCpu
<1>3. UNION {Started(u)' : u \in booted} = UNION {Started(u) : u \in booted}
  BY <1>2
<1>4. \A u \in Owners : u \in Task /\ cpuids[u] \cap freecpus = {}
  BY DEF IInv, Inv, CpuExclusive, Owners
<1>5. /\ \A u, v \in Owners : u # v => cpuids'[u] \cap cpuids'[v] = {}
      /\ \A u \in Owners : cpuids'[u] \cap freecpus' = {}
  BY <1>1, <1>4 DEF IInv, Inv, CpuExclusive
<1> QED BY <1>2, <1>3, <1>5 DEF IInv, Inv, CpuExclusive

\* The free CPUs that a task gets, if any.
LEMMA AssignGets ==
  ASSUME IInv, NEW t \in Task,
         UNCHANGED <<cpuids, freecpus>> \/ \E n \in Nat : AssignCpus(t, n)
  PROVE  \E got \in SUBSET freecpus : /\ cpuids' = [cpuids EXCEPT ![t] = @ \cup got]
                                      /\ freecpus' = freecpus \ got
<1>1. CASE UNCHANGED <<cpuids, freecpus>>
  <2>1. cpuids' = [cpuids EXCEPT ![t] = @ \cup {}] /\ freecpus' = freecpus \ {}
    BY <1>1 DEF IInv, Inv, TypeOK
  <2> QED BY <2>1
<1>2. ASSUME NEW n \in Nat, AssignCpus(t, n)
      PROVE  \E got \in SUBSET freecpus : /\ cpuids' = [cpuids EXCEPT ![t] = @ \cup got]
                                          /\ freecpus' = freecpus \ got
  <2>1. Lowest(freecpus \cap affinity[t], n) \in SUBSET freecpus
    BY DEF Lowest
  <2> QED BY <1>2, <2>1 DEF AssignCpus
<1> QED BY <1>1, <1>2

\* Before they run, tasks come, get permissions and CPUs.
LEMMA ConfigIInv ==
  ASSUME IInv, NEW t \in Task,
         \/ \E k \in Kind : TaskInit(t, k)
         \/ \E a \in Affinities : SetAttr(t, a)
         \/ \E n \in CPU : Assign(t, n)
  PROVE  IInv'
<1>1. /\ t \notin booted /\ pc[t] \notin {"load", "wake"}
      /\ UNCHANGED <<status, wait, pc, booted, mqcpu, wlock, dev, sigtask, worker, sigs>>
  BY DEF TaskInit, SetAttr, Assign, IInv, CallInv
<1>2. PICK got \in SUBSET freecpus :
        /\ cpuids' = [cpuids EXCEPT ![t] = @ \cup got] /\ freecpus' = freecpus \ got
  <2>1. CPU \subseteq Nat
    BY MpTaskAssumption DEF CPU
  <2> QED BY <2>1, AssignGets DEF TaskInit, SetAttr, Assign
<1>3. /\ kind' \in [Task -> Kind \cup {None}] /\ affinity' \in [Task -> SUBSET CPU]
      /\ \A u \in Task \ {t} : kind'[u] = kind[u]
  BY MpTaskAssumption DEF TaskInit, SetAttr, Assign, IInv, Inv, TypeOK
<1>4. TypeOK'
  <2>1. cpuids' \in [Task -> SUBSET CPU] /\ freecpus' \subseteq CPU
    BY <1>2 DEF IInv, Inv, TypeOK
  <2> QED BY <1>1, <1>3, <2>1 DEF IInv, Inv, TypeOK
<1>5. Owners' = Owners /\ booted \subseteq Task /\ \A u \in booted : kind'[u] = kind[u]
  BY <1>1, <1>3 DEF Owners, IInv, Inv, TypeOK
<1>6. CpuExclusive' /\ \A u \in booted : cpuids'[u] = cpuids[u]
  BY <1>1, <1>2, <1>5, AssignExclusive
<1>7. \A u \in Task \ {t} : cpuids'[u] = cpuids[u]
  BY <1>2
<1>8. WakelockInv' /\ StatusTrue'
  BY <1>1, <1>6, SameStatusTrue, SameWakelock
<1>9. CallInv'
  BY <1>1, <1>3, <1>5, <1>6, <1>7 DEF IInv, CallInv
<1>10. WorkerInv' /\ HandlerInv'
  BY <1>1, <1>6, <1>7 DEF IInv, WorkerInv, HandlerInv, FirstCpu
<1>11. TokenInv'
  BY <1>1, <1>5 DEF IInv, TokenInv, Events
<1> QED BY <1>4, <1>6, <1>8, <1>9, <1>10, <1>11 DEF IInv, Inv

\* mptask_exec: a handler is registered where nothing is on its way.
LEMMA ExecStartIInv ==
  ASSUME IInv, NEW t \in Task, ExecStart(t) PROVE IInv'
<1>1. /\ t \notin booted /\ kind[t] # None /\ pc[t] = "idle" /\ status[t] = "INIT"
      /\ UNCHANGED <<kind, affinity, status, wait, booted, mqcpu, wlock, worker, sigs>>
      /\ cpuids'[t] # {} /\ \A c \in cpuids'[t] : sigs[c] = <<>>
  BY DEF ExecStart
<1>2. PICK got \in SUBSET freecpus :
        /\ cpuids' = [cpuids EXCEPT ![t] = @ \cup got] /\ freecpus' = freecpus \ got
  <2>1. NrOffs \in Nat /\ 1 \in Nat
    BY MpTaskAssumption
  <2> QED BY <2>1, AssignGets DEF ExecStart
<1>3. cpuids' \in [Task -> SUBSET CPU] /\ freecpus' \subseteq CPU /\ booted \subseteq Task
  BY <1>2 DEF IInv, Inv, TypeOK
<1>4. FirstCpu(t)' \in CPU
  BY <1>1, <1>3, FindFirstIn DEF FirstCpu
<1>5. PICK to \in {"load", "failed"} : pc' = [pc EXCEPT ![t] = to]
  BY DEF ExecStart
<1>6. \/ UNCHANGED <<dev, sigtask>>
      \/ /\ dev' = dev \cup {FirstCpu(t)'} /\ to = "load"
         /\ sigtask' = [sigtask EXCEPT ![FirstCpu(t)'] = t]
  <2>1. "load" # "failed" /\ pc \in [Task -> Place]
    BY DEF IInv, Inv, TypeOK, Place
  <2>2. pc'[t] = to
    BY <1>5, <2>1
  <2> QED BY <1>5, <2>1, <2>2 DEF ExecStart, Register
<1>7. TypeOK'
  <2>1. dev' \subseteq CPU /\ sigtask' \in [CPU -> Task \cup {None}]
    BY <1>4, <1>6 DEF IInv, Inv, TypeOK
  <2> QED BY <1>1, <1>3, <1>5, <2>1 DEF IInv, Inv, TypeOK
<1>8. Owners' \subseteq Owners
  BY <1>1, <1>5 DEF Owners, IInv, Inv, TypeOK
<1>9. CpuExclusive' /\ \A u \in booted : cpuids'[u] = cpuids[u]
  BY <1>1, <1>2, <1>8, AssignExclusive
<1>10. \A u \in Task \ {t} : cpuids'[u] = cpuids[u] /\ pc'[u] = pc[u]
  BY <1>2, <1>5 DEF IInv, Inv, TypeOK
<1>11. pc'[t] = to
  BY <1>5 DEF IInv, Inv, TypeOK
<1>12. WakelockInv' /\ StatusTrue'
  BY <1>1, <1>9, <1>10, <1>11, SameStatusTrue, SameWakelock
<1>13. CallInv'
  BY <1>1, <1>5, <1>10, <1>11 DEF IInv, CallInv
<1>14. HandlerInv'
  <2>1. \A c \in CPU : sigtask[c] # t
    BY <1>1 DEF IInv, HandlerInv
  <2>2. ASSUME NEW c \in CPU, sigtask'[c] = t
        PROVE  pc'[t] = "load" /\ c = FirstCpu(t)'
    BY <1>4, <1>6, <1>11, <2>1, <2>2 DEF IInv, Inv, TypeOK
  <2>3. ASSUME NEW c \in CPU, NEW u \in Task \ {t}, sigtask'[c] = u
        PROVE  sigtask[c] = u
    BY <1>4, <1>6, <2>3 DEF IInv, Inv, TypeOK
  <2> QED BY <1>1, <1>10, <2>2, <2>3 DEF IInv, HandlerInv, FirstCpu
<1>15. WorkerInv' /\ TokenInv'
  BY <1>1, <1>10 DEF IInv, WorkerInv, TokenInv, Events
<1> QED BY <1>7, <1>9, <1>12, <1>13, <1>14, <1>15 DEF IInv, Inv

\* An error return: the task gives up its CPUs, whether they are freed or not.
LEMMA ExecFailIInv ==
  ASSUME IInv, NEW t \in Task, ExecFail(t) PROVE IInv'
<1>1. /\ pc[t] = "load" /\ pc' = [pc EXCEPT ![t] = "failed"] /\ t \notin booted
      /\ freecpus' \in {freecpus, freecpus \cup cpuids[t]}
      /\ UNCHANGED <<kind, affinity, cpuids, status, wait, booted, mqcpu, wlock,
                     dev, sigtask, worker, sigs>>
  BY DEF ExecFail, Goto, IInv, CallInv
<1>2. TypeOK'
  BY <1>1 DEF IInv, Inv, TypeOK
<1>3. Owners' = Owners \ {t} /\ t \in Owners
  BY <1>1 DEF Owners, IInv, Inv, TypeOK
<1>4. CpuExclusive'
  <2>1. \A u \in booted : Started(u)' = Started(u)
    BY <1>1 DEF Started, FirstCpu
  <2>2. \A u \in Owners \ {t} : cpuids[u] \cap freecpus' = {}
    BY <1>1, <1>3 DEF IInv, Inv, CpuExclusive
  <2> QED BY <1>1, <1>3, <2>1, <2>2 DEF IInv, Inv, CpuExclusive
<1>5. \A u \in Task \ {t} : pc'[u] = pc[u]
  BY <1>1 DEF IInv, Inv, TypeOK
<1>6. pc'[t] = "failed"
  BY <1>1 DEF IInv, Inv, TypeOK
<1>7. WakelockInv' /\ StatusTrue'
  BY <1>1, <1>5, <1>6, SameStatusTrue, SameWakelock
<1>8. CallInv'
  BY <1>1, <1>5, <1>6 DEF IInv, CallInv
<1>9. WorkerInv' /\ HandlerInv' /\ TokenInv'
  BY <1>1, <1>5, <1>6 DEF IInv, WorkerInv, HandlerInv, FirstCpu, TokenInv, Events
<1> QED BY <1>2, <1>4, <1>7, <1>8, <1>9 DEF IInv, Inv
-----------------------------------------------------------------------------
(* A task runs, is waited for, and stops *)

\* Before the CPUs of a task start and after they have stopped, it takes and
\* gives back its share of the wakelock.
LEMMA WakelockIInv ==
  ASSUME IInv, NEW t \in Task, ExecWake(t) \/ DestroyRelease(t) PROVE IInv'
<1>1. /\ UNCHANGED <<kind, affinity, cpuids, status, wait, booted>>
      /\ UNCHANGED <<mqcpu, freecpus, dev, sigtask, worker, sigs>>
      /\ t \notin booted /\ t \in Owners
  BY DEF ExecWake, DestroyRelease, Goto, IInv, CallInv, Owners
<1>2. PICK to \in {"wake", "free"} :
        /\ pc[t] = (IF to = "wake" THEN "load" ELSE "release")
        /\ pc' = [pc EXCEPT ![t] = to]
        /\ wlock' = IF to = "wake" THEN wlock + 1 ELSE IF wlock > 0 THEN wlock - 1 ELSE 0
  BY DEF ExecWake, DestroyRelease, Goto
<1>3. pc'[t] = to /\ \A u \in Task \ {t} : pc'[u] = pc[u]
  BY <1>2 DEF IInv, Inv, TypeOK
<1>4. WakelockInv' /\ wlock' \in Nat
  <2>1. Awake \subseteq Task
    BY DEF Awake, IInv, Inv, TypeOK
  <2>2. IsFiniteSet(Awake) /\ Cardinality(Awake) \in Nat /\ wlock = Cardinality(Awake)
    BY <2>1, MpTaskAssumption, FS_Subset, FS_CardinalityType DEF IInv, Inv, WakelockInv
  <2>3. CASE to = "wake"
    <3>1. t \notin Awake /\ Awake' = Awake \cup {t}
      BY <1>1, <1>2, <1>3, <2>3 DEF Awake
    <3>2. Cardinality(Awake') = Cardinality(Awake) + 1
      BY <2>2, <3>1, FS_AddElement
    <3> QED BY <1>2, <2>2, <2>3, <3>2 DEF WakelockInv
  <2>4. CASE to = "free"
    <3>1. t \in Awake /\ Awake' = Awake \ {t}
      BY <1>1, <1>2, <1>3, <2>4 DEF Awake
    <3>2. Cardinality(Awake') = Cardinality(Awake) - 1 /\ Cardinality(Awake) # 0
      BY <2>2, <3>1, FS_RemoveElement, FS_EmptySet
    <3> QED BY <1>2, <2>2, <2>4, <3>2 DEF WakelockInv
  <2> QED BY <2>3, <2>4
<1>5. TypeOK'
  BY <1>1, <1>2, <1>4 DEF IInv, Inv, TypeOK
<1>6. Owners' = Owners
  BY <1>1, <1>2, <1>3 DEF Owners
<1>7. CpuExclusive' /\ StatusTrue'
  BY <1>1, <1>6, SameStatusTrue DEF IInv, Inv, CpuExclusive, Started, FirstCpu
<1>8. CallInv'
  BY <1>1, <1>2, <1>3 DEF IInv, CallInv
<1>9. WorkerInv' /\ HandlerInv' /\ TokenInv'
  BY <1>1, <1>2, <1>3 DEF IInv, WorkerInv, HandlerInv, FirstCpu, TokenInv, Events
<1> QED BY <1>4, <1>5, <1>7, <1>8, <1>9 DEF IInv, Inv

\* The CPUs of the task start, with no signal of a former worker left.
LEMMA ExecBootIInv ==
  ASSUME IInv, NEW t \in Task, ExecBoot(t) PROVE IInv'
<1>1. /\ pc[t] = "wake" /\ t \notin booted /\ t \in Owners /\ kind[t] # None
      /\ cpuids[t] # {} /\ status[t] = "INIT" /\ \A c \in cpuids[t] : sigs[c] = <<>>
      /\ booted' = booted \cup {t}
      /\ worker' = [c \in CPU |-> IF c \in Started(t) THEN "boot" ELSE worker[c]]
      /\ UNCHANGED <<kind, affinity, cpuids, status, wait>>
      /\ UNCHANGED <<mqcpu, freecpus, wlock, dev, sigtask, sigs>>
  BY DEF ExecBoot, Goto, IInv, CallInv, Owners
<1>2. PICK to \in {"starting", "idle"} :
        /\ pc' = [pc EXCEPT ![t] = to] /\ (kind[t] = "bound" => to = "starting")
  BY DEF ExecBoot, Goto
<1>3. /\ \A u \in Task \ {t} : pc'[u] = pc[u]
      /\ pc'[t] = to /\ booted \subseteq Task
      /\ Started(t) \subseteq cpuids[t] /\ Started(t) \subseteq CPU
  BY <1>1, <1>2, StartedOwned DEF IInv, Inv, TypeOK
<1>4. TypeOK'
  BY <1>1, <1>2 DEF IInv, Inv, TypeOK
<1>5. Owners' = Owners
  BY <1>1, <1>2, <1>3 DEF Owners
<1>6. \A u \in Task : Started(u)' = Started(u) /\ FirstCpu(u)' = FirstCpu(u)
  BY <1>1 DEF Started, FirstCpu
<1>7. CpuExclusive'
  <2>1. ASSUME NEW c \in CPU
        PROVE  worker'[c] # "off" <=> \E u \in booted' : c \in Started(u)
    <3>1. worker[c] # "off" <=> \E u \in booted : c \in Started(u)
      BY CpuFacts
    <3> QED BY <1>1, <3>1
  <2>2. \A u \in booted' : u \in Task /\ Started(u) \subseteq CPU
    BY <1>1, <1>3, CpuFacts
  <2>3. {c \in CPU : worker'[c] # "off"} = UNION {Started(u)' : u \in booted'}
    BY <1>6, <2>1, <2>2
  <2>4. /\ \A u, v \in Owners : u # v => cpuids'[u] \cap cpuids'[v] = {}
        /\ \A u \in Owners : cpuids'[u] \cap freecpus' = {}
    BY <1>1 DEF IInv, Inv, CpuExclusive
  <2> QED BY <1>5, <2>3, <2>4 DEF CpuExclusive
<1>8. WakelockInv'
  <2>1. Awake' = Awake
    BY <1>1, <1>2, <1>3 DEF Awake
  <2> QED BY <1>1, <2>1 DEF IInv, Inv, WakelockInv
<1>9. \A u \in booted : FirstCpu(u) \in CPU /\ worker'[FirstCpu(u)] = worker[FirstCpu(u)]
  <2> SUFFICES ASSUME NEW u \in booted
               PROVE  FirstCpu(u) \in CPU /\ FirstCpu(u) \notin Started(t)
    BY <1>1
  <2>1. u \in Owners /\ FirstCpu(u) \in cpuids[u] /\ FirstCpu(u) \in CPU /\ u # t
    BY <1>1, CpuFacts
  <2> QED BY <1>1, <1>3, <2>1 DEF IInv, Inv, CpuExclusive
<1>10. StatusTrue'
  BY <1>1, <1>6, <1>9, <1>3 DEF IInv, StatusTrue
<1>11. CallInv'
  BY <1>1, <1>2, <1>3 DEF IInv, CallInv
<1>12. WorkerInv'
  BY <1>1, <1>3 DEF IInv, WorkerInv
<1>13. HandlerInv'
  BY <1>1, <1>3, <1>6 DEF IInv, HandlerInv
<1>14. TokenInv'
  BY <1>1, <1>2, <1>3 DEF IInv, TokenInv, Events
<1> QED BY <1>4, <1>7, <1>8, <1>10, <1>11, <1>12, <1>13, <1>14 DEF IInv, Inv

\* Steps of the calls of a running task that move nothing but the task, and
\* its token when it has one.
LEMMA CallStepIInv ==
  ASSUME IInv, NEW t \in Task,
         \/ ExecStarted(t) \/ Join(t) \/ JoinReturn(t)
         \/ (\E force \in BOOLEAN : Destroy(t, force)) \/ DestroyJoined(t)
  PROVE  IInv'
<1> USE DEF ExecStarted, Join, JoinReturn, Destroy, MayDestroy, DestroyJoined, Goto, TakeWait
<1>1. /\ UNCHANGED <<kind, affinity, cpuids, status, booted>>
      /\ UNCHANGED <<mqcpu, freecpus, wlock, dev, sigtask, worker, sigs>>
      /\ t \in booted
  BY DEF IInv, CallInv
<1>2. PICK to \in {"idle", "joining", "destroying", "stop"} : pc' = [pc EXCEPT ![t] = to]
  OBVIOUS
<1>3. /\ wait' \in [Task -> 0 .. 2]
      /\ \A u \in Task : wait'[u] <= wait[u]
      /\ pc[t] = "starting" => wait[t] > 0 /\ wait'[t] < wait[t]
  BY DEF IInv, Inv, TypeOK
<1>4. pc'[t] = to /\ \A u \in Task \ {t} : pc'[u] = pc[u]
  BY <1>2 DEF IInv, Inv, TypeOK
<1>5. TypeOK'
  BY <1>1, <1>2, <1>3 DEF IInv, Inv, TypeOK
<1>6. Owners' = Owners
  <2>1. t \in Owners
    BY <1>1, CpuFacts
  <2> QED BY <1>2, <1>4, <2>1 DEF Owners
<1>7. CpuExclusive' /\ WakelockInv'
  <2>1. pc[t] \notin {"wake", "release"}
    BY <1>1 DEF IInv, CallInv
  <2>2. WakelockInv'
    BY <1>1, <1>2, <1>4, <2>1, SameWakelock
  <2> QED BY <1>1, <1>6, <2>2 DEF IInv, Inv, CpuExclusive, Started, FirstCpu
<1>8. StatusTrue'
  BY <1>1, SameStatusTrue
<1>9. CallInv'
  BY <1>1, <1>2, <1>4 DEF IInv, CallInv
<1>10. WorkerInv' /\ HandlerInv'
  BY <1>1, <1>4 DEF IInv, WorkerInv, HandlerInv, FirstCpu
<1>11. TokenInv'
  <2>1. \A u \in Task : Events(u)' = Events(u) /\ Events(u) \in Nat
                       /\ wait[u] \in Nat /\ wait'[u] \in Nat
    BY <1>1, <1>3 DEF Events, IInv, Inv, TypeOK
  <2>2. pc[t] = "starting" => status[t] # "INIT" /\ wait'[t] < Events(t)
    <3>1. status[t] = "INIT" => Events(t) = 0
      BY DEF Events
    <3>2. wait[t] <= Events(t)
      BY DEF IInv, TokenInv
    <3> QED BY <1>3, <2>1, <3>1, <3>2
  <2>3. \A u \in Task : wait'[u] <= Events(u)'
    BY <1>3, <2>1 DEF IInv, TokenInv
  <2>4. ASSUME NEW u \in Task, kind[u] = "bound", u \in booted, pc'[u] # "starting"
        PROVE  status[u] # "INIT" /\ wait'[u] < Events(u)
    <3>1. CASE pc[u] = "starting"
      BY <1>4, <2>2, <2>4, <3>1
    <3>2. CASE pc[u] # "starting"
      <4>1. status[u] # "INIT" /\ wait[u] < Events(u)
        BY <2>4, <3>2 DEF IInv, TokenInv
      <4> QED BY <1>3, <2>1, <4>1
    <3> QED BY <3>1, <3>2
  <2> QED BY <1>1, <2>1, <2>3, <2>4 DEF TokenInv
<1> QED BY <1>5, <1>7, <1>8, <1>9, <1>10, <1>11 DEF IInv, Inv

\* The CPUs of the task stop, and no others.
LEMMA DestroyStopIInv ==
  ASSUME IInv, NEW t \in Task, DestroyStop(t) PROVE IInv'
<1>1. /\ pc[t] = "stop" /\ pc' = [pc EXCEPT ![t] = "release"] /\ t \in booted
      /\ worker' = [c \in CPU |-> IF c \in cpuids[t] THEN "off" ELSE worker[c]]
      /\ booted' = booted \ {t}
      /\ UNCHANGED <<kind, affinity, cpuids, status, wait>>
      /\ UNCHANGED <<mqcpu, freecpus, wlock, dev, sigtask, sigs>>
  BY DEF DestroyStop, Goto, IInv, CallInv
<1>2. pc'[t] = "release" /\ (\A u \in Task \ {t} : pc'[u] = pc[u]) /\ booted \subseteq Task
  BY <1>1 DEF IInv, Inv, TypeOK
<1>3. WakelockInv'
  <2>1. Awake' = Awake
    BY <1>1, <1>2 DEF Awake
  <2> QED BY <1>1, <2>1 DEF IInv, Inv, WakelockInv
<1>4. TypeOK'
  BY <1>1 DEF IInv, Inv, TypeOK
<1>5. Owners' = Owners
  BY <1>1, <1>2 DEF Owners
<1>6. \A u \in Task : Started(u)' = Started(u) /\ FirstCpu(u)' = FirstCpu(u)
  BY <1>1 DEF Started, FirstCpu
<1>7. \A u \in booted \ {t} : Started(u) \cap cpuids[t] = {} /\ FirstCpu(u) \in Started(u)
                                /\ FirstCpu(u) \in CPU
  <2> SUFFICES ASSUME NEW u \in booted \ {t}
               PROVE  /\ Started(u) \cap cpuids[t] = {} /\ FirstCpu(u) \in Started(u)
                      /\ FirstCpu(u) \in CPU
    OBVIOUS
  <2>1. u \in Owners /\ t \in Owners /\ Started(u) \subseteq cpuids[u]
        /\ FirstCpu(u) \in Started(u) /\ FirstCpu(u) \in CPU
    BY <1>1, CpuFacts
  <2> QED BY <2>1 DEF IInv, Inv, CpuExclusive
<1>8. CpuExclusive'
  <2>1. ASSUME NEW c \in CPU
        PROVE  worker'[c] # "off" <=> \E u \in booted' : c \in Started(u)
    <3>1. Started(t) \subseteq cpuids[t]
      BY <1>1, CpuFacts
    <3>2. worker[c] # "off" <=> \E u \in booted : c \in Started(u)
      BY CpuFacts
    <3> QED BY <1>1, <1>7, <3>1, <3>2
  <2>2. \A u \in booted' : Started(u) \subseteq CPU
    BY <1>1, CpuFacts
  <2>3. {c \in CPU : worker'[c] # "off"} = UNION {Started(u)' : u \in booted'}
    BY <1>2, <1>1, <1>6, <2>1, <2>2
  <2> QED BY <1>1, <1>5, <2>3 DEF IInv, Inv, CpuExclusive
<1>9. StatusTrue'
  <2>1. \A u \in booted' : worker'[FirstCpu(u)] = worker[FirstCpu(u)]
    BY <1>1, <1>7
  <2> QED BY <1>1, <1>2, <1>6, <2>1 DEF IInv, StatusTrue
<1>10. CallInv'
  BY <1>1, <1>2 DEF IInv, CallInv
<1>11. WorkerInv' /\ HandlerInv'
  BY <1>1, <1>2, <1>6 DEF IInv, WorkerInv, HandlerInv
<1>12. TokenInv'
  BY <1>1, <1>2 DEF IInv, TokenInv, Events
<1> QED BY <1>3, <1>4, <1>8, <1>9, <1>10, <1>11, <1>12 DEF IInv, Inv

\* Its CPUs are free, and not its any more.
LEMMA DestroyFreeIInv ==
  ASSUME IInv, NEW t \in Task, DestroyFree(t) PROVE IInv'
<1>1. /\ pc[t] = "free" /\ pc' = [pc EXCEPT ![t] = "over"] /\ t \notin booted
      /\ freecpus' = freecpus \cup cpuids[t] /\ status' = [status EXCEPT ![t] = "EXIT"]
      /\ UNCHANGED <<kind, affinity, cpuids, wait, booted, mqcpu, wlock, dev,
                     sigtask, worker, sigs>>
  BY DEF DestroyFree, Goto, IInv, CallInv
<1>2. /\ pc'[t] = "over" /\ status'[t] = "EXIT" /\ booted \subseteq Task
      /\ \A u \in Task \ {t} : pc'[u] = pc[u] /\ status'[u] = status[u]
  BY <1>1 DEF IInv, Inv, TypeOK
<1>3. TypeOK'
  BY <1>1 DEF IInv, Inv, TypeOK
<1>4. Owners' = Owners \ {t} /\ t \in Owners
  BY <1>1, <1>2 DEF Owners
<1>5. CpuExclusive' /\ WakelockInv'
  <2>1. \A u \in booted : Started(u)' = Started(u)
    BY <1>1 DEF Started, FirstCpu
  <2>2. \A u \in Owners \ {t} : cpuids[u] \cap freecpus' = {}
    BY <1>1, <1>4 DEF IInv, Inv, CpuExclusive
  <2> QED BY <1>1, <1>2, <1>4, <2>1, <2>2, SameWakelock DEF IInv, Inv, CpuExclusive
<1>6. StatusTrue'
  BY <1>1, <1>2 DEF IInv, StatusTrue, FirstCpu
<1>7. CallInv'
  BY <1>1, <1>2 DEF IInv, CallInv
<1>8. WorkerInv' /\ HandlerInv'
  BY <1>1, <1>2 DEF IInv, WorkerInv, HandlerInv, FirstCpu
<1>9. TokenInv'
  <2>1. wait[t] \in 0 .. 2 /\ Events(t)' = 2
    BY <1>2 DEF IInv, Inv, TypeOK, Events
  <2> QED BY <1>1, <1>2, <2>1 DEF IInv, TokenInv, Events
<1> QED BY <1>3, <1>5, <1>6, <1>7, <1>8, <1>9 DEF IInv, Inv
-----------------------------------------------------------------------------
(* Message queues, workers and signals *)

\* mpmq_init and mpmq_destroy only take handlers away.
LEMMA QueueIInv ==
  ASSUME IInv, NEW t \in Task, MqInit(t) \/ MqDestroy(t) PROVE IInv'
<1>1. UNCHANGED <<taskVars, freecpus, wlock, worker, sigs>>
  BY DEF MqInit, MqDestroy
<1>2. /\ mqcpu' \in [Task -> CPU \cup {None}] /\ dev' \subseteq CPU
      /\ sigtask' \in [CPU -> Task \cup {None}]
      /\ \A c \in CPU : sigtask'[c] = sigtask[c] \/ sigtask'[c] = None
  <2>1. CASE MqInit(t)
    <3>1. cpuids[t] # {}
      BY <2>1, FindFirstIn DEF MqInit, FirstCpu, IInv, Inv, TypeOK
    <3>2. FirstCpu(t) \in CPU
      BY <3>1, StartedOwned DEF IInv, Inv
    <3> QED BY <2>1, <3>2 DEF MqInit, IInv, Inv, TypeOK
  <2>2. CASE MqDestroy(t)
    BY <2>2 DEF MqDestroy, IInv, Inv, TypeOK
  <2> QED BY <2>1, <2>2
<1>3. TypeOK'
  BY <1>1, <1>2 DEF taskVars, IInv, Inv, TypeOK
<1>4. CpuExclusive' /\ WakelockInv' /\ StatusTrue'
  BY <1>1, SameStatusTrue, SameWakelock DEF taskVars, IInv, Inv, CpuExclusive, Owners,
                                            Started, FirstCpu
<1>5. CallInv' /\ WorkerInv' /\ TokenInv'
  BY <1>1 DEF taskVars, IInv, CallInv, WorkerInv, TokenInv, Events
<1>6. HandlerInv'
  BY <1>1, <1>2, MpTaskAssumption DEF taskVars, IInv, HandlerInv, FirstCpu
<1> QED BY <1>3, <1>4, <1>5, <1>6 DEF IInv, Inv

\* What a worker that has started and ended has sent.
LEMMA StartThenExit == Append(<<"START">>, "EXIT") = <<"START", "EXIT">>
<1> DEFINE S == {"START", "EXIT"}
           p == Append(<<"START">>, "EXIT")
           q == <<"START", "EXIT">>
<1>1. "START" \in S /\ "EXIT" \in S
  OBVIOUS
<1>2. <<"START">> \in Seq(S) /\ Len(<<"START">>) = 1 /\ <<"START">>[1] = "START"
  OBVIOUS
<1>3. q \in Seq(S) /\ Len(q) = 2 /\ q[1] = "START" /\ q[2] = "EXIT"
  OBVIOUS
<1> HIDE DEF S, q
<1>4. p \in Seq(S) /\ Len(p) = 2 /\ p[1] = "START" /\ p[2] = "EXIT"
  BY <1>1, <1>2, AppendProperties
<1> HIDE DEF p
<1>5. \A i \in 1 .. Len(p) : p[i] = q[i]
  <2>1. \A i \in 1 .. 2 : i = 1 \/ i = 2
    OBVIOUS
  <2> QED BY <1>3, <1>4, <2>1
<1>6. p = q
  BY <1>3, <1>4, <1>5, SeqEqual
<1> QED BY <1>6 DEF p, q

\* A worker moves on; its CPU is one of a booted task.
LEMMA WorkerIInv ==
  ASSUME IInv, NEW c \in CPU, WorkerStart(c) \/ WorkerExit(c) PROVE IInv'
<1>1. UNCHANGED <<taskVars, mqcpu, freecpus, wlock, dev, sigtask>>
  BY DEF WorkerStart, WorkerExit
<1>2. PICK w \in {"run", "done"}, q \in Sent :
        /\ worker' = [worker EXCEPT ![c] = w] /\ sigs' = [sigs EXCEPT ![c] = q]
        /\ worker[c] = IF w = "run" THEN "boot" ELSE "run"
        /\ w = "run" => q \in {<<>>, <<"START">>}
  <2>1. sigs[c] \in Sent /\ sigs = [sigs EXCEPT ![c] = sigs[c]]
    BY DEF IInv, Inv, TypeOK, Sent
  <2>2. CASE WorkerStart(c)
    <3>1. sigs[c] = <<>> /\ Append(sigs[c], "START") = <<"START">>
      <4>1. sigs[c] = <<>>
        BY <2>2 DEF WorkerStart, IInv, WorkerInv
      <4>2. Append(<<>>, "START") = <<"START">>
        OBVIOUS
      <4> QED BY <4>1, <4>2
    <3>2. PICK q \in {<<>>, <<"START">>} : sigs' = [sigs EXCEPT ![c] = q]
      BY <2>1, <2>2, <3>1 DEF WorkerStart
    <3>3. worker' = [worker EXCEPT ![c] = "run"] /\ worker[c] = "boot" /\ q \in Sent
      BY <2>2 DEF WorkerStart, Sent
    <3> QED BY <3>2, <3>3
  <2>3. CASE WorkerExit(c)
    <3>1. sigs[c] \in {<<>>, <<"START">>}
      BY <2>3 DEF WorkerExit, IInv, WorkerInv
    <3>2. Append(sigs[c], "EXIT") \in Sent
      <4>1. Append(<<>>, "EXIT") = <<"EXIT">>
        OBVIOUS
      <4>2. Append(<<"START">>, "EXIT") = <<"START", "EXIT">>
        BY StartThenExit
      <4> QED BY <3>1, <4>1, <4>2 DEF Sent
    <3>3. PICK q \in Sent : sigs' = [sigs EXCEPT ![c] = q]
      BY <2>1, <2>3, <3>2 DEF WorkerExit
    <3>4. worker' = [worker EXCEPT ![c] = "done"] /\ worker[c] = "run"
      BY <2>3 DEF WorkerExit
    <3> QED BY <3>3, <3>4
  <2> QED BY <2>2, <2>3
<1>3. TypeOK'
  BY <1>1, <1>2 DEF taskVars, IInv, Inv, TypeOK, Sent
<1>4. /\ worker[c] \in {"boot", "run"} /\ worker'[c] = w
      /\ \A d \in CPU \ {c} : worker'[d] = worker[d] /\ sigs'[d] = sigs[d]
      /\ sigs'[c] = q
  BY <1>2 DEF IInv, Inv, TypeOK
<1>5. CpuExclusive' /\ WakelockInv'
  <2>1. \A d \in CPU : worker'[d] # "off" <=> worker[d] # "off"
    BY <1>4
  <2>2. {d \in CPU : worker'[d] # "off"} = {d \in CPU : worker[d] # "off"}
    BY <2>1
  <2>3. UNION {Started(u)' : u \in booted'} = UNION {Started(u) : u \in booted}
    BY <1>1 DEF taskVars, Started, FirstCpu
  <2> QED BY <1>1, <2>2, <2>3, SameWakelock DEF taskVars, IInv, Inv, CpuExclusive, Owners
<1>6. StatusTrue'
  <2> SUFFICES ASSUME NEW u \in booted
               PROVE  /\ status[u] = "EXEC" => worker'[FirstCpu(u)] \in {"run", "done"}
                      /\ status[u] = "EXIT" => worker'[FirstCpu(u)] = "done"
    BY <1>1 DEF taskVars, StatusTrue, FirstCpu
  <2>1. FirstCpu(u) \in CPU
    BY CpuFacts
  <2> QED BY <1>4, <2>1 DEF IInv, StatusTrue
<1>7. CallInv'
  <2>1. \A u \in Task : pc[u] \in {"load", "wake"} => c \notin cpuids[u]
    <3> SUFFICES ASSUME NEW u \in Task, pc[u] \in {"load", "wake"}, c \in cpuids[u] PROVE FALSE
      OBVIOUS
    <3>1. u \in Owners \ booted
      BY DEF Owners, IInv, CallInv
    <3> QED BY <1>4, <3>1, CpuFacts
  <2>2. \A u \in Task : cpuids[u] \subseteq CPU
    BY DEF IInv, Inv, TypeOK
  <2> QED BY <1>1, <1>4, <2>1, <2>2 DEF taskVars, IInv, CallInv
<1>8. WorkerInv'
  BY <1>2, <1>4 DEF IInv, WorkerInv
<1>9. HandlerInv' /\ TokenInv'
  BY <1>1 DEF taskVars, IInv, HandlerInv, FirstCpu, TokenInv, Events
<1> QED BY <1>3, <1>5, <1>6, <1>7, <1>8, <1>9 DEF IInv, Inv

\* A signal that is handled tells what the worker on its CPU did.
LEMMA SignalTells ==
  ASSUME IInv, NEW c \in CPU, sigs[c] # <<>>
  PROVE  /\ worker[c] # "boot"
         /\ Head(sigs[c]) = "EXIT" => worker[c] # "run"
         /\ Tail(sigs[c]) \in Sent
         /\ worker[c] = "run" => Tail(sigs[c]) = <<>>
         /\ \A t \in Task : pc[t] \in {"load", "wake"} => c \notin cpuids[t]
<1>1. sigs[c] \in {<<"START">>, <<"EXIT">>, <<"START", "EXIT">>}
  BY DEF IInv, Inv, TypeOK
<1>2. worker[c] # "boot" /\ (worker[c] = "run" => sigs[c] = <<"START">>)
  BY DEF IInv, WorkerInv
<1>3. Head(<<"START">>) = "START" /\ Tail(<<"START">>) = <<>>
  OBVIOUS
<1>4. Tail(<<"EXIT">>) = <<>> /\ Tail(<<"START", "EXIT">>) = <<"EXIT">>
  OBVIOUS
<1>5. Tail(sigs[c]) \in Sent
  BY <1>1, <1>3, <1>4 DEF Sent
<1>6. \A t \in Task : pc[t] \in {"load", "wake"} => c \notin cpuids[t]
  BY DEF IInv, CallInv
<1> QED BY <1>2, <1>3, <1>5, <1>6

\* A task whose status the signal of a CPU changes either runs there, as the
\* signal tells, or is over.
LEMMA SignalFinds ==
  ASSUME IInv, NEW c \in CPU, sigs[c] # <<>>, NEW t \in Task, sigtask[c] = t
  PROVE  /\ t \in booted => c = FirstCpu(t) /\ worker[c] \in {"run", "done"}
         /\ t \notin booted => pc[t] \in {"failed", "release", "free", "over"}
<1>1. pc[t] \notin {"load", "wake"}
  <2> SUFFICES ASSUME pc[t] \in {"load", "wake"} PROVE FALSE
    OBVIOUS
  <2>1. c = FirstCpu(t) /\ cpuids[t] # {}
    BY DEF IInv, HandlerInv, CallInv
  <2>2. cpuids[t] \in SUBSET CPU
    BY DEF IInv, Inv, TypeOK
  <2>3. c \in cpuids[t]
    BY <2>1, <2>2, FindFirstIn DEF FirstCpu
  <2> QED BY <2>3, SignalTells
<1>2. t \in booted => c = FirstCpu(t)
  BY DEF IInv, HandlerInv
<1>3. t \in booted => worker[c] # "off"
  BY <1>2, CpuFacts
<1>4. worker[c] \in {"off", "boot", "run", "done"} /\ worker[c] # "boot"
  BY SignalTells DEF IInv, Inv, TypeOK
<1> QED BY <1>1, <1>2, <1>3, <1>4 DEF IInv, HandlerInv

\* The receive interrupt.
LEMMA SignalIInv ==
  ASSUME IInv, NEW c \in CPU, Signal(c) PROVE IInv'
<1>1. /\ sigs[c] # <<>> /\ sigs' = [sigs EXCEPT ![c] = Tail(@)]
      /\ UNCHANGED <<kind, affinity, cpuids, pc, booted,
                     mqcpu, freecpus, wlock, dev, sigtask, worker>>
  BY DEF Signal
<1>2. sigs'[c] = Tail(sigs[c]) /\ \A d \in CPU \ {c} : sigs'[d] = sigs[d]
  BY <1>1 DEF IInv, Inv, TypeOK
<1>3. sigs' \in [CPU -> Sent]
  BY <1>1, SignalTells DEF IInv, Inv, TypeOK, Sent
<1>4. CpuExclusive' /\ WakelockInv'
  BY <1>1, SameWakelock DEF IInv, Inv, CpuExclusive, Owners, Started, FirstCpu
<1>5. WorkerInv'
  BY <1>1, <1>2, SignalTells DEF IInv, WorkerInv
<1>6. HandlerInv'
  BY <1>1 DEF IInv, HandlerInv, FirstCpu
<1>7. \A t \in Task : pc[t] \in {"load", "wake"} => \A d \in cpuids[t] : sigs'[d] = <<>>
  <2>1. \A t \in Task : cpuids[t] \subseteq CPU
    BY DEF IInv, Inv, TypeOK
  <2> QED BY <1>1, <1>2, <2>1, SignalTells DEF IInv, CallInv
<1>8. CASE UNCHANGED <<status, wait>>
  <2>1. TypeOK'
    BY <1>1, <1>3, <1>8 DEF IInv, Inv, TypeOK, Sent
  <2>2. StatusTrue' /\ TokenInv'
    BY <1>1, <1>8, SameStatusTrue DEF IInv, TokenInv, Events
  <2>3. CallInv'
    BY <1>1, <1>7, <1>8 DEF IInv, CallInv
  <2> QED BY <1>4, <1>5, <1>6, <2>1, <2>2, <2>3 DEF IInv, Inv
<1>9. ASSUME NEW t \in Task, sigtask[c] = t,
             NEW old \in Status, NEW new \in Status, status[t] = old,
             \/ old = "INIT" /\ new = "EXEC"
             \/ old = "EXEC" /\ new = "EXIT" /\ Head(sigs[c]) = "EXIT",
             status' = [status EXCEPT ![t] = new], wait' = [wait EXCEPT ![t] = @ + 1]
      PROVE  IInv'
  <2>1. /\ status'[t] = new /\ wait'[t] = wait[t] + 1
        /\ \A u \in Task \ {t} : status'[u] = status[u] /\ wait'[u] = wait[u]
    BY <1>9 DEF IInv, Inv, TypeOK
  <2>2. Events(t)' = Events(t) + 1 /\ Events(t) \in {0, 1}
    BY <1>9, <2>1 DEF Events
  <2>3. wait[t] \in Nat /\ wait[t] <= Events(t)
    BY DEF IInv, Inv, TypeOK, TokenInv
  <2>4. TypeOK'
    <3>1. wait' \in [Task -> 0 .. 2]
      BY <1>9, <2>2, <2>3 DEF IInv, Inv, TypeOK
    <3>2. status' \in [Task -> {"INIT", "EXEC", "EXIT"}]
      BY <1>9 DEF IInv, Inv, TypeOK, Status
    <3> QED BY <1>1, <1>3, <3>1, <3>2 DEF IInv, Inv, TypeOK, Sent
  <2>5. StatusTrue'
    <3>1. booted \subseteq Task
      BY DEF IInv, Inv, TypeOK
    <3>2. t \in booted => /\ c = FirstCpu(t) /\ worker[c] \in {"run", "done"}
                          /\ new = "EXIT" => worker[c] = "done"
      BY <1>1, <1>9, SignalFinds, SignalTells
    <3>3. new # "INIT"
      BY <1>9
    <3> QED BY <1>1, <2>1, <3>1, <3>2, <3>3 DEF IInv, StatusTrue, FirstCpu
  <2>6. CallInv'
    <3>1. pc[t] \notin {"load", "wake"} /\ (pc[t] = "idle" => t \in booted)
      BY <1>1, <1>9, SignalFinds DEF IInv, CallInv
    <3> QED BY <1>1, <1>7, <2>1, <3>1 DEF IInv, CallInv
  <2>7. TokenInv'
    <3>1. \A u \in Task \ {t} : Events(u)' = Events(u)
      BY <2>1 DEF Events
    <3>2. kind[t] = "bound" /\ t \in booted /\ pc[t] # "starting"
            => status'[t] # "INIT" /\ wait[t] < Events(t)
      BY <1>9, <2>1 DEF IInv, TokenInv
    <3>3. wait'[t] <= Events(t)' /\ (wait[t] < Events(t) => wait'[t] < Events(t)')
      BY <2>1, <2>2, <2>3
    <3> QED BY <1>1, <2>1, <3>1, <3>2, <3>3 DEF IInv, TokenInv
  <2> QED BY <1>4, <1>5, <1>6, <2>4, <2>5, <2>6, <2>7 DEF IInv, Inv
<1>10. CASE c \in dev /\ sigtask[c] # None /\ Handle(sigtask[c], Head(sigs[c]))
  <2>1. sigtask[c] \in Task
    BY <1>10 DEF IInv, Inv, TypeOK
  <2>2. status[sigtask[c]] \in Status
    BY <2>1 DEF IInv, Inv, TypeOK, Status
  <2>3. "INIT" \in Status /\ "EXEC" \in Status /\ "EXIT" \in Status
    BY DEF Status
  <2> QED BY <1>8, <1>9, <1>10, <2>1, <2>2, <2>3 DEF Handle
<1> QED BY <1>8, <1>10 DEF Signal
-----------------------------------------------------------------------------
(* The theorems *)

LEMMA NextIInv == IInv /\ [Next]_mpVars => IInv'
<1> SUFFICES ASSUME IInv, [Next]_mpVars PROVE IInv'
  OBVIOUS
<1>1. ASSUME NEW t \in Task, \/ \E k \in Kind : TaskInit(t, k)
                             \/ \E a \in Affinities : SetAttr(t, a)
                             \/ \E n \in CPU : Assign(t, n)
      PROVE  IInv'
  BY <1>1, ConfigIInv
<1>2. ASSUME NEW t \in Task, ExecStart(t) PROVE IInv'
  BY <1>2, ExecStartIInv
<1>3. ASSUME NEW t \in Task, Join(t) \/ \E force \in BOOLEAN : Destroy(t, force)
      PROVE  IInv'
  BY <1>3, CallStepIInv
<1>4. ASSUME NEW t \in Task, MqInit(t) \/ MqDestroy(t) PROVE IInv'
  BY <1>4, QueueIInv
<1>5. ASSUME NEW t \in Task, Proceed(t) PROVE IInv'
  BY <1>5, ExecFailIInv, WakelockIInv, ExecBootIInv, CallStepIInv, DestroyStopIInv,
     DestroyFreeIInv DEF Proceed
<1>6. ASSUME NEW c \in CPU, WorkerStart(c) \/ WorkerExit(c) \/ Signal(c) PROVE IInv'
  BY <1>6, WorkerIInv, SignalIInv
<1>7. CASE UNCHANGED mpVars
  <2> USE <1>7 DEF mpVars, taskVars
  <2>1. Inv' /\ StatusTrue'
    BY SameStatusTrue, SameWakelock DEF IInv, Inv, TypeOK, CpuExclusive, Owners,
                                        Started, FirstCpu
  <2>2. CallInv' /\ WorkerInv' /\ HandlerInv' /\ TokenInv'
    BY DEF IInv, CallInv, WorkerInv, HandlerInv, FirstCpu, TokenInv, Events
  <2> QED BY <2>1, <2>2 DEF IInv
<1> QED BY <1>1, <1>2, <1>3, <1>4, <1>5, <1>6, <1>7 DEF Next

LEMMA SpecIInv == Spec => []IInv
<1>1. Init => IInv
  BY InitIInv
<1>2. IInv /\ [Next]_mpVars => IInv'
  BY NextIInv
<1> QED BY <1>1, <1>2, PTL DEF Spec

\* An application CPU belongs to one task at most and runs exactly while that
\* is booted, and the hot sleep is suppressed once for each booted task,
\* however many tasks there are and whatever each may use (g_freecpus,
\* g_mptask_wlock).
THEOREM SharedRight == Spec => []Inv
<1>1. IInv => Inv
  BY DEF IInv
<1> QED BY <1>1, SpecIInv, PTL

\* The status that mptask_sighandler keeps of a running task is never ahead
\* of its own worker, whoever used the CPU and its device before.
THEOREM StatusOwn == Spec => []StatusTrue
<1>1. IInv => StatusTrue
  BY DEF IInv
<1> QED BY <1>1, SpecIInv, PTL

\* A bound task's mptask_exec returns only after the start of its worker, and
\* mptask_join and an unforced mptask_destroy go on only after its end: the
\* one semaphore never gives a wait the token of another event.
THEOREM WaitsFit == Spec => BoundWaits
<1>1. ASSUME IInv, Next, NEW t \in Task,
             pc[t] \in {"starting", "joining", "destroying"}, pc'[t] # pc[t]
      PROVE  wait[t] > 0
  <2>1. pc \in [Task -> Place]
    BY <1>1 DEF IInv, Inv, TypeOK, Place
  <2>2. ASSUME NEW u \in Task,
               \/ \E k \in Kind : TaskInit(u, k)
               \/ \E a \in Affinities : SetAttr(u, a)
               \/ \E n \in CPU : Assign(u, n)
               \/ MqInit(u) \/ MqDestroy(u)
        PROVE  FALSE
    BY <1>1, <2>2 DEF TaskInit, SetAttr, Assign, MqInit, MqDestroy, taskVars
  <2>3. ASSUME NEW u \in Task,
               \/ ExecStart(u) \/ Join(u) \/ \E force \in BOOLEAN : Destroy(u, force)
               \/ ExecFail(u) \/ ExecWake(u) \/ ExecBoot(u)
               \/ DestroyStop(u) \/ DestroyRelease(u) \/ DestroyFree(u)
        PROVE  FALSE
    <3>1. pc[u] \in {"idle", "load", "wake", "stop", "release", "free"}
      BY <2>3 DEF ExecStart, Join, Destroy, MayDestroy, ExecFail, ExecWake, ExecBoot,
                  DestroyStop, DestroyRelease, DestroyFree, Goto
    <3>2. PICK to \in Place : pc' = [pc EXCEPT ![u] = to]
      BY <2>3 DEF ExecStart, Join, Destroy, MayDestroy, ExecFail, ExecWake, ExecBoot,
                  DestroyStop, DestroyRelease, DestroyFree, Goto, Place
    <3> QED BY <1>1, <2>1, <3>1, <3>2
  <2>4. ASSUME NEW u \in Task, ExecStarted(u) \/ JoinReturn(u) \/ DestroyJoined(u)
        PROVE  wait[t] > 0
    <3>1. /\ wait[u] > 0
          /\ \E to \in Place : pc' = [pc EXCEPT ![u] = to]
      BY <2>4 DEF ExecStarted, JoinReturn, DestroyJoined, Goto, TakeWait, Place
    <3>2. u = t
      BY <1>1, <2>1, <3>1
    <3> QED BY <3>1, <3>2
  <2>5. ASSUME NEW c \in CPU, WorkerStart(c) \/ WorkerExit(c) \/ Signal(c)
        PROVE  FALSE
    BY <1>1, <2>5 DEF WorkerStart, WorkerExit, Signal, taskVars
  <2> QED BY <1>1, <2>2, <2>3, <2>4, <2>5 DEF Next, Proceed
<1>2. ASSUME IInv, Next, NEW t \in Task
      PROVE  /\ pc[t] = "starting" /\ pc'[t] = "idle" => status[t] \in {"EXEC", "EXIT"}
             /\ kind[t] = "bound" /\ pc[t] \in {"joining", "destroying"} /\ pc'[t] # pc[t]
                  => status[t] = "EXIT"
  <2>1. wait[t] <= Events(t) /\ wait[t] \in 0 .. 2 /\ status[t] \in Status
    BY <1>2 DEF IInv, Inv, TypeOK, TokenInv, Status
  <2>2. ASSUME pc[t] = "starting", pc'[t] = "idle" PROVE status[t] \in {"EXEC", "EXIT"}
    BY <1>1, <1>2, <2>1, <2>2 DEF Events, Status
  <2>3. ASSUME kind[t] = "bound", pc[t] \in {"joining", "destroying"}, pc'[t] # pc[t]
        PROVE  status[t] = "EXIT"
    <3>1. wait[t] > 0
      BY <1>1, <1>2, <2>3
    <3>2. status[t] # "INIT" /\ wait[t] < Events(t)
      BY <1>2, <2>3 DEF IInv, CallInv, TokenInv
    <3>3. status[t] = "EXEC" => Events(t) = 1
      BY DEF Events
    <3> QED BY <2>1, <3>1, <3>2, <3>3 DEF Status
  <2> QED BY <2>2, <2>3
<1>3. IInv /\ [Next]_mpVars
        => [\A t \in Task :
              /\ pc[t] = "starting" /\ pc'[t] = "idle" => status[t] \in {"EXEC", "EXIT"}
              /\ kind[t] = "bound" /\ pc[t] \in {"joining", "destroying"} /\ pc'[t] # pc[t]
                   => status[t] = "EXIT"]_mpVars
  BY <1>2
<1> QED BY <1>3, SpecIInv, PTL DEF Spec, BoundWaits
=============================================================================
