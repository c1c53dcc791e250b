# Formal model of the Spresense SDK core

TLA+ models, TLC checks and TLAPS proofs for the part of the Spresense SDK
(`src/sdk`) that ties the CPUs of the CXD56xx together: the driver of the
inter-CPU FIFO, the inter-CPU communication (ICC) driver above it, the remote
calls above ICC, the MP tasks and mutexes of the ASMP framework, the power
manager, the gateway of the LTE API, and the lock-free FIFO of memutils.
This is where several threads, interrupt handlers and other CPUs change the same
few variables, and where a test sees one order of events out of very many.

Everything below is about the code in `src/sdk/bsp/src` and
`src/sdk/modules/{asmp,lte,memutils}`; line numbers are those of the commit in `src/`.

## 1. The system

The repository is a firmware SDK: about 10,000 files, most of them headers,
examples, vendored libraries and register-level drivers.  Its own concurrent
logic is small and layered:

```
   applications, audio, sensing, LTE
        |                 |
   MP tasks, queues,   power manager   far API / system control
   mutexes, shm           |                 |
        +---------+-------+--------+--------+
                  |   ICC driver   |
                  +-------+--------+
                          |
                   CPU FIFO driver      (one PUSH and one PULL FIFO)
                          |
              the other CPUs (system CPU, GNSS, workers)
```

| part | state it keeps | operations | what is hard |
|---|---|---|---|
| CPU FIFO driver `cxd56_cpufifo.c` | `g_pushqueue`, `g_emptyqueue`, `g_pushbuffer`, `g_cfrxhandler`, the enable bit of FIFO_TO | `cxd56_cfpush`, `cpufifo_txhandler`, `cpufifo_rxhandler`/`cxd56_cfpull`, (un)registration | order between direct and parked messages; who moves a parked message; a full pool |
| ICC driver `cxd56_icc.c` | `g_protocol[]`, `g_cpumsg[]`: per device a handler, a queue and freelist of requests, a counting semaphore, a watchdog | `icc_irqhandler`, `cxd56_iccrecv[msg]`, `icc_rxtimeout`, init/uninit, registration | a message racing its timeout; several receivers of one device; EINTR; PANIC on overrun |
| system control `cxd56_sysctl.c`, far API `cxd56_farapi.c` | `g_exc`/`g_farlock`, `g_sync`/`g_farwait`, `g_errcode`, the wakelock of the far API | `cxd56_sysctlcmd`, `sysctl_rxhandler`, `farapi_main`, `cxd56_farapidonehandler` | the send is refused; the answer comes before the caller sleeps; one result variable |
| MP tasks `modules/asmp/supervisor/mptask*.c` | `g_freecpus`; per task `cpuids`, `attr.status`, `wait`; `g_mptask_wlock` | init, setattr, assign, exec, join, destroy, signal handler | CPUs and their devices change owner while old signals and calls are under way; one semaphore for start and end |
| message queues of MP tasks `mpmq.c` | a device `g_cpumsg[cpu]`, shared with the task's signals | init, destroy, send, receive | destroy frees a device in use |
| worker runtime `modules/asmp/worker` | the worker's program | start, exit signals, mutexes without interrupts | no help from an operating system |
| power manager `cxd56_powermgr.c` | wakelocks, frequency locks, callbacks, a message queue and a task | acquire/release, clock change, hot sleep, register | callbacks with recovery, request/answer with the system CPU, check-then-sleep |
| GNSS signal dispatcher `cxd56_cpu1signal.c` | user count, worker thread | init/uninit | life of the thread against its users |
| MP mutexes and hardware semaphores `mpmutex.c` (two of them), `cxd56_sph.c` | `g_freemutexes`, a semaphore wait per device, the state of the hardware | init, lock, trylock, unlock, destroy, the interrupt | request and status are two accesses; a reservation races an unlock; a failed open frees outside of the lock |
| shared memory, tiles `mpshm.c`, `mm_tile` | tile bitmap, address-converter tags | alloc, free, attach, detach | search for runs, tags without a common lock |
| LTE gateway `apicmdgw.c` | `g_blkinfotbl`, an entry with mutex and condition per call, transaction ids | send, receive task, abort, finalization | late answers after timeouts; the modem restarts; an entry is freed by its caller, whoever is about to signal it |
| LTE event dispatcher, pools, modem driver | pools with waiting callers, SPI task | | exhaustion, power state |
| simple FIFO of memutils `CMN_SimpleFifo.c` | ring, `m_rp`, `m_wp` | offer, poll, peek, clear | no lock: each side uses an old value of the other's pointer |
| message library and segments of memutils, video, audio, sensing | queues and buffers between threads | | |
| peripheral drivers, loaders, tools | registers, file formats | | not concurrent, or the hardware is the point |

How they interact.  A thread sends with `cxd56_iccsend`, a call of
`cxd56_cfpush` inside a critical section.  All messages that arrive are taken by
one interrupt handler, `cpufifo_rxhandler`, which calls `icc_irqhandler`; the
protocol selects a device, and its handler (`sysctl_rxhandler`,
`cxd56_farapidonehandler`, `icc_sighandler` and through it `mptask_sighandler`)
runs at interrupt level.  Threads meet handlers only through semaphores.

What makes each part correct, beyond types: a channel loses, duplicates and
reorders nothing; a pool of buffers is conserved; a semaphore's tokens match
what they stand for; nobody sleeps while there is something for him; an answer
reaches the caller it is for; exclusive resources have one owner; memory of a call
is not touched after the call; a hold on the
sleep state is taken and given exactly once; what somebody waits for finally
comes.  `PROJECT.json` lists the hazards behind these, at their lines, with the
properties that cover them.

## 2. Modules

| module | models | built on |
|---|---|---|
| `Channel` | what the CPU FIFO driver promises: an ordered, lossless channel that may refuse only with a full backlog | |
| `CpuFifo` | `cxd56_cpufifo.c` | refines `Channel` |
| `CpuFifoProofs` | its invariants and the refinement, proved | `CpuFifo` |
| `Icc` | `cxd56_icc.c`, receive side | |
| `IccProofs` | its invariants and the order of messages, proved | `Icc` |
| `Rpc` | `cxd56_sysctl.c` and `cxd56_farapi.c`, composed with the FIFO they share | instance of `CpuFifo` |
| `RpcProofs` | its invariants, and that the shared FIFO still implements `Channel`, proved from what is proved of the FIFO | `Rpc`, instances of `CpuFifoProofs` and `Channel` |
| `MpTask` | `mptask*.c`, `mpmq.c` and the signals of the workers | |
| `MpTaskProofs` | its invariants and an action property, proved | `MpTask` |
| `MpMutex` | `mpmutex.c` of supervisor and worker, `cxd56_sph.c` | |
| `MpMutexProofs` | its invariants, proved | `MpMutex` |
| `FreqLock` | the frequency locks of `cxd56_powermgr.c`, with the system CPU | instance of `Channel` |
| `PowerMgr` | the power manager task of `cxd56_powermgr.c`: callbacks, clock changes, hot sleep, wakelocks | |
| `PowerMgrProofs` | the invariants of both halves of the file, proved | `FreqLock`, `PowerMgr` |
| `ApiGateway` | `apicmdgw.c`, the gateway between LTE API calls and the modem | |
| `ApiGatewayProofs` | its invariants, proved | `ApiGateway` |
| `ByteQueue` | what the simple FIFO promises: a bounded queue of bytes | |
| `SimpleFifo` | `CMN_SimpleFifo.c` | refines `ByteQueue` |
| `SimpleFifoProofs` | that the two sides touch different bytes, that a peek is right, and the refinement, proved | `SimpleFifo` |
| `MC*` | the instances TLC checks | |

Common conventions.  The variables and actions have the names of the C
variables and functions where there is one.  A critical section
(`enter_critical_section`) and an interrupt handler are one atomic action, for
the supervisor is a single CPU and handlers do not nest at one level; a thread
may be preempted between any two actions, and its position is `pc[t]`.
`sem_post` follows NuttX: if a thread waits it gets the token directly and the
count stays 0, else the count goes up; which waiter is woken is left open, so
no scheduling policy or priority is assumed.  Operators named `Mutant...` are
plausible faults of the operator they stand before; nothing refers to them, and
each property is known to fail under one of them.

### CpuFifo
`hwPush`, `hwPull` are the hardware FIFOs, `pushqueue`, `emptyqueue`, `buffer`
the software entries, `txIrqEnabled` the bit of the interrupt controller,
`rxhandler` is `g_cfrxhandler`.  `Push` is `cxd56_cfpush` with its three paths
(`PushBehind`, `PushDirect`, `PushFirst`; the last ignores the result of the
reservation, as line 191 does), `TxIrq` is `cpufifo_txhandler`, `RxIrq` is
`cpufifo_rxhandler`.  External: `RemoteTake`, `RemoteSend`, and FIFO_TO being
raised whenever it is enabled and the PUSH FIFO has room.

### Icc
A device is a protocol or a CPU; `recvq`, `free`, `rxwait`, `armed` are its
queue, freelist, semaphore and watchdog.  `Arrive` is the whole of
`icc_irqhandler` (consume, redirect, queue, drop, or PANIC).  A receive is
`Call`, `SemTake`, (`Interrupt`,) `CancelTimeout`, `Dequeue`, the points between
which `icc_recv` can be preempted.  `expiries` is a history variable: expiries
of the watchdog for which no receive returned -ETIMEDOUT yet.  Sending is
`cxd56_cfpush` and thus in `CpuFifo`.  Restrictions: a device is not freed while
a thread receives from it, the handlers of the reserved protocols are not
replaced, and `cxd56_iccinit` is one step (two concurrent first calls for the
same protocol can both allocate; see the hazards).

### Rpc
Both call paths, with the lock, the send that may be refused, the wait, and the
return, above a full `CpuFifo` that `OtherSend` can fill at any time.  A message
carries the name of its caller, and the remote CPU answers with that name
(external).  The model follows `cxd56_sysctlcmd` in keeping `g_exc` when the
send is refused (line 130), so `BlockedServed` and `LockInv` say for system
control what still holds then.  `rxhandler` and `handled` of the FIFO never
change here.

### MpTask
A task object goes through `TaskInit`, `SetAttr`, `Assign`, `ExecStart`,
`ExecFail` or `ExecWake` (the wakelock), `ExecBoot` (the CPUs) and `ExecStarted`,
then `Join` and `Destroy`, which stops the CPUs (`DestroyStop`), gives the
wakelock back (`DestroyRelease`) and frees the rest (`DestroyFree`).
Five kinds of program differ in what the code does with them: framework workers
with and without bound objects, foreign ELF programs, and secure programs of one
binary or several.  Workers send their start and exit signals in order; `Signal`
is the receive interrupt with `icc_sighandler` and `mptask_sighandler`.  Calls
on one task come from one thread, calls on different tasks interleave wherever
they can block; `g_freecpus` is not locked in the code, and the model assumes
what it needs for that, namely that callers are not preempted inside the short
part that reads and writes it.  A task object is used once, executed at most
once and destroyed only after `mptask_exec`; its queue is destroyed after it.
`booted` and `Owners` say whose CPUs they are, `Awake` whose hold on the
wakelock.  `ExecStart` assumes what the code does not check: when a thread gives a
CPU to a task, the receive interrupt has taken the last signals of the worker
that another thread stopped there, since it preempts threads.  Left out: the
memory of the tasks, the bind area, pause and restart.

### MpMutex
`MutexInit`, `OpenFails`, `FreeRead`, `FreeWrite`, `Close` and `Destroy` are
`mpmutex_init` and `mpmutex_destroy` with the devices: taking a tag is in a
critical section, giving it back after a failed open is a read and a write
outside of it (`seen`).  A call to lock is `StatusIdle` or `StatusTaken`,
`Request`, `Check` on either side: reading the status and writing the request
register are separate accesses.  The supervisor goes on with `Reserve`,
`ReadFirst`, `ReadSecond`, `Wake`, `ReadLatest`, which are `sph_lock`; a worker
begins again.  `IrqHandler` is the interrupt of a reservation that became an
ownership, and its post, which `SEM_VALUE_MAX` (`SemMax`) bounds.  `own`, `resv`,
`irq` are the hardware, external: its states are those the code tests, and a
request in the wrong state does nothing.  Objects are not locked while they are
destroyed, and a worker uses the one object bound to its task.

### FreqLock
`up_pm_acquire_freqlock`, `up_pm_release_freqlock` and
`up_pm_get_freqlock_count` up to their return: the wakelock, the mutex
`g_freqlock`, the search in `g_freqlockqueue` (`Edit`, with
`cxd56_pm_checkfreqlock` in `CheckFreqlock`), the request (`Send`), the wait
(`TakeAnswer`), and `Post`, which stands for `lock->count++` and the `sem_post`
after it: nobody else changes the count before the mutex is free.  A lock is
queued or not and a queue is a set, for only the union of its flags is used.
Requests go through an instance of `Channel`, what `CpuFifo` is proved to
implement (its safety), and are refused when that may refuse.  The code ignores
the refusal and waits for an answer nobody will send; `refused` remembers that it
happened, and the properties that depend on answers say so.  The system CPU
(`SystemTake`, `SystemAnswer`, the clock in `granted`) is external: it answers
requests one by one.

### PowerMgr
The task is `Receive` (with the dispatch), `Take` and `Walk`/`WalkEnd`,
`Recover`/`RecoverEnd`, the two loops of `cxd56_pm_do_callback` one entry at a
time, and what follows: `ClkChangeEnd` with the reply, or `Awake`, `Sleep`,
`Wake`, `Resume`.  `cbqueue` is the list in its order, `cur` the entry called
last, `last` the one that refused.  `HotSleepCheck` and `HotSleepSend` are
`cxd56_pm_hotsleep` in the idle thread, which runs only when no other thread
can; `ClockStart`, `ClockEnd` are `cxd56_pmmsghandler` with a message of the
system CPU, masked from `Sleep` to `Resume`.  `RegCall`, `RegTake`, `RegDone`
register or unregister a callback.  `stopped`, `down`, `unbooted` record what the
callbacks were told and whether one refused `HOT_BOOT`, as the console does when
data arrived (`cxd56_uart.c`).

Assumed of the environment: the system CPU writes the table of targets only when
it opens a change, opens one only when the messages of the last were handled,
and may end one without waiting for the reply.  Callbacks neither block nor call
the power manager.  At most one thread registers at a time.  A thread that
unregisters does not preempt the task while it walks the list in hot sleep
(`HotWalk`): that walk does not take `g_regcblock`, and the entry would be freed
under it.  Left out: the boot mask and the save and restore of registers, and
cold and deep sleep, which do not return.  The names of the specification carry
the prefix `Pm` (`PmSpec`, `PmTypeOK`, `PmInv`), for the proofs extend both halves
of the file.

### ApiGateway
A call is `Begin`, `NoEntry` or `AddTable`, `SendOk` or `SendFails`, `Wait`,
`TimeOut` or `Resume`, and `RemTable`; the receive task is `Receive` with
`WriteTable` (it finds the entry and writes the buffer) and `SignalReply`, or
`Dispatch` for what nobody waits for and `Damaged` for a bad checksum.
`tblmtx` is `g_blkinfotbl_mtx`, held from `WriteTable` to `SignalReply`; who
holds the `waitcondmtx` of an entry follows from `pc` (`HoldsCond`).
`apicmdgw_sendabort` is `Restarted` or `PowerOff`, `Mark`, `ReleaseAll`,
`ReleaseOne` per entry; `apicmdgw_fin` is `FinAbort`, the same release,
`FinJoined`, `FinDelete`, and `GwInit` initializes again.  The modem (external)
answers a command, damages or forgets it (`Reply`, `pending`), and may restart.
An entry comes from the buffer pool (line 964) and its caller frees it at the end
of the call (line 488), so writing to one that is not in a call would be a use
after free: `TableInv` is about that.

Restrictions: callers use different command ids and the increment of the
transaction id is one step (it is not synchronized in the code), `MaxCalls` keeps
its 16 bits from wrapping, and the finalization deletes the mutexes only when no
caller is before its send (nothing in the code makes it wait).

### SimpleFifo
`Offer`, `OfferInPlace`, `OfferWrapped`, `FallBack`/`OfferAgain` are the four
ways of `CMN_SimpleFifoOffer` and `CMN_SimpleFifoOfferContinuous`; then one chunk
or two are copied (`CopyFirst`, `CopySecond`) and `Publish` writes `m_wp`.
`data` is what is being offered, until it is published or given up.
`Poll`, `ReadFirst`, `ReadSecond`, `Release` are `CMN_SimpleFifoPoll` and its
discarding form, `Peek` with an offset the peeks, `Clear` is done while both
sides rest.  Producer and consumer interleave between any two of these.
`ImplementsQueue` maps the ring to `ByteQueue` with `Queue`, the bytes between
`m_rp` and `m_wp`, and its `in` with `data`: the bytes that are put when an offer
publishes are the ones it was called with, and those a poll takes when it
releases are the ones it hands out.  `whole` remembers whether the offer was a
continuous one: only then may meaningless bytes precede what is put.

## 3. Runs

| run | result | shows |
|---|---|---|
| `cpufifo` | pass | the driver implements `Channel` with its liveness, entries are conserved, FIFO_TO is enabled exactly while something is parked |
| `icc` | pass | tokens = messages + unanswered expiries, no lost wakeup, order per device, a timed receive returns |
| `icc_forever` | violation | a receive "for ever" can return -ETIMEDOUT |
| `rpc` | pass | own answer, request/answer accounting, exclusion, the wakelock; callers return |
| `mptask` | pass | CPU ownership, wakelock count, status follows the own worker, waits match events, calls return |
| `mptask_queue` | violation | destroying an old queue loses the signals of the next task |
| `mpmutex` | pass | one mutex per semaphore, exclusion between CPUs, no sleeper without a wake-up to come, locks are served |
| `mpmutex_lock` | violation | a trylock of a worker takes a semaphore and forgets it |
| `freqlock` | pass | a lock held has its voltage granted, no release is forgotten, one answer per request, exclusion, the wakelock; callers return |
| `powermgr` | pass | the reply to the system CPU is true, callbacks end balanced, no message is lost, no entry is freed under a clock change, the task returns |
| `gateway` | pass | no entry outlives its call, own reply, no reply slept through, callers are released |
| `simplefifo` | pass | the ring implements a bounded queue, the sides touch different bytes, a peek sees what a poll would take |

An invariant named `Inv` is the type invariant together with the safety
properties of the module that belong together; each of those has a name and a
comment of its own (`LockInv` and `WakelockInv` in `Rpc`, `CpuExclusive` and
`WakelockInv` in `MpTask`, `MutexInv` and `WakelockInv` in `FreqLock`,
`MessagesKept` and `WalkInv` in `PmInv`, `TableInv` in `ApiGateway`,
`TagExclusive` in `MpMutex`, `Disjoint` in `SimpleFifo`), and `TokensPaid` in
`Icc` is the account of the tokens with the payment of the expiries.

Bounds, and why they are enough.

* `cpufifo`: hardware FIFOs of 2 words (their depth is not in the source), 3
  entries (`NR_PUSHBUFENTRIES` is a configuration value), 2 message values.
  Every queue can be empty, partly filled and full; an entry is reused while
  another is parked; two values expose every swap.  Nothing is bounded in time:
  the state space is finite.
* `icc`: 2 threads, 2 ordinary devices (one protocol, one CPU) besides the
  reserved ones, 2 buffers, 2 contents; `MaxExpiries = 1` bounds the expiries
  not yet answered per device.  Two receivers can meet on a device and one
  expiry can meet a message; a third message overruns the device.
* `icc_forever`: one thread, one buffer, which is all the counterexample needs.
* `rpc`: two system control clients (contention for `g_exc`, and one lost
  lock), one far API client, one entry behind two words of hardware, any number
  of foreign messages.  At most two answers are under way, so the remote CPUs
  never find the PULL FIFO of two words full.
* `mptask`, `mptask_queue`: two task objects and two CPUs, binaries of one and
  of two parts, an affinity that excludes the first CPU, and one task that may
  have a message queue (`Queued`).  A CPU and its device get a second user; a
  task may hold both CPUs or find none.  Callers leave a task whose `mptask_exec`
  failed alone, as `src/examples/asmp/asmp_main.c` does.
* `mpmutex`, `mpmutex_lock`: two objects on two semaphores, the first used by a
  worker, too; the second comes and goes, and its open may fail, so that the
  bitmap is written under the first.  `SemMax = 1`: a second post meets the limit.
* `freqlock`: two threads and three locks, one for each voltage and one for
  both, so that a release may or may not change what is wanted and two threads
  may share a lock (`MaxCount = 2`).  `Capacity = MaxBacklog = 1`: one foreign
  message in the backlog is enough for a refusal.
* `powermgr`: one callback registered for good and two that come and go, hence
  every order, a refusal with entries before and behind, and an entry that
  leaves the middle of the list.  `CLK_CHG_END` is the one id nobody refuses: no
  callback of the SDK does, and the code has no recovery for it.  One wakelock
  stands for all, for only whether any is held matters.  `MqMax = 3` where the
  code has 8: a start, an end and a hot sleep fit, a fourth message would be
  dropped.
* `gateway`: two callers, one of them with a timeout, one thread that aborts and
  one that finalizes.  `MaxCalls = 2`: a caller can return and call again while
  the answer to its first command is still to come.  `MaxBacklog = 1`: the modem
  stalls behind one message.
* `simplefifo`: a ring of four bytes, of which three are used, with two values:
  offers and polls of one to three bytes wrap at every place, and the gap of a
  continuous offer may be as long as what follows it.

`CHECK_DEADLOCK FALSE` is set where the system may stop for good: `icc` after
PANIC, the task runs when all task objects are used up, and `gateway` when
`MaxCalls` are made and an untimed caller waits for an answer the modem forgot.

## 4. Fairness

* An interrupt that is enabled and stays raised is served (`TxIrq`, `RxIrq`,
  `Signal`, `IrqHandler`): interrupts preempt threads and are masked only in
  short critical sections.
* A thread that can run is finally scheduled: NuttX runs the highest priority
  first, so this assumes that no thread of a higher priority loops for ever; it
  is weak fairness of the steps of a call already made.  Nobody is made to call.
* A running watchdog expires.
* In `MpMutex` holders unlock, on a worker too, and nobody is made to lock.
* In `PowerMgr` the task and the registering thread are scheduled, and a
  sleeping CPU is woken (by an interrupt or the timer); the idle thread, the
  wakelock users and the system CPU are not made to do anything.
* In `ApiGateway` the fairness of the threads is strong, for they meet at two
  mutexes: `sem_post` of NuttX, under `sys_unlock_mutex`, hands the mutex to a
  waiter, so a thread that waits for it again and again gets it, which weak
  fairness of a step that is enabled only while the mutex is free does not say.
  Timeouts expire; the modem is not made to do anything.
* The destination CPU drains its FIFO and, in `Rpc` and `FreqLock`, answers; a
  started worker CPU reaches `__start`.  These are external; that a worker's
  `main` returns is not assumed.

Outside of `ApiGateway` no strong fairness is used.  A thread that sleeps gets
its token from `sem_post`, so nothing depends on the order in which waiters are
served.

## 5. Findings

Each is a violation run whose property is a sentence of the repository.

* `icc_forever` - `mpmq.h:183` says a receive with `ms = 0` waits for ever.  A
  timed receive whose message comes together with the expiry leaves one token
  too many, which a later untimed receive answers with -ETIMEDOUT.
* `mptask_queue` - `mptask.h:504` says `mptask_join` waits for the finish; it
  sleeps for ever when the queue of the CPU's former task is destroyed meanwhile.
* `mpmutex_lock` - `include/asmp/mpmutex.h:116` says that locking waits for the
  unlock by the locker.  A worker's trylock that finds the semaphore locked for
  itself but already reserved by the supervisor (`worker/mpmutex.c:166`) answers
  -EBUSY and owns it for good: `sph_lock` sleeps for ever.

Met while reading, with no run of their own (some are hazards, some assumptions
of a module):

* `cxd56_sysctl.c:130`: a refused system control command keeps its lock; see
  `BlockedServed`.
* `mptask_destroy.c:178` releases the wakelock also for a task whose
  `mptask_exec` failed and never took it, and so that of another worker.
* `mptask.h:344` says an unforced `mptask_destroy` waits for a running task;
  without bound objects it takes the token of the start (`mptask_exec.c:274`).
* `cxd56_powermgr.c:661` says that the CPU cannot enter hot sleep while a
  wakelock is acquired; `cxd56_pm_do_hotsleep` looks at the wakelocks (line 377)
  before it calls the callbacks and not again when it sleeps.
* `cxd56_iccinit` and `g_freecpus` are not locked; the range checks
  `cpuid < 3 && cpuid > 7` (`cxd56_icc.c:530`, `mpmq.c:112`) are never true;
  `assign_cpus` succeeds with fewer CPUs than asked when the affinity excludes
  free ones (`mptask.c:293-322`).
* The header of the simple FIFO says that a continuous offer falls back for a
  `fallback` of zero; the code does for any other value.
* `apicmdgw.c:1078`: an entry added between the two critical sections of
  `apicmdgw_sendabort` is released without being marked, and its caller returns
  success without a response; `OwnReply` excepts this window.  A release between
  a caller's entry into the table and its lock of `waitcondmtx` is lost, and an
  untimed caller then waits for an answer the modem has forgotten.
  `apicmdgw_fin` deletes the mutex of the table and clears `g_hal_if` under
  callers (line 900), and the transaction id is incremented without a lock.

## 6. Proofs

The proof modules prove for all values of the constants what the runs check on
small ones, each from the named assumption of its module.  The inductive
invariant is called `IInv` everywhere; one lemma per action, or group of them,
shows that it is preserved.

`CpuFifoProofs`, from `FifoAssumption` (at least one entry, at least one word of
hardware, a null handler that is no handler):

* `TypeCorrect`: `Spec => []TypeOK`.
* `PoolConserved`: `Spec => []PoolInv`.  `PoolInv` is inductive relative to
  the types: what matters is that `Reserve` and `TxMove` move the head of one
  queue to the end of the other.
* `IrqArmed`: `Spec => []IrqArmedInv`.
* `Refinement`: `Spec => Chan!Safe`.  Each step is shown to be a step of
  `Channel` or to leave `Undelivered` and `result` unchanged.  It needs both
  invariants: `PoolInv` because writing a reserved entry must not change the
  content of a parked one and because a failed reservation means a full backlog
  (in `PushFirst`, that it cannot fail); `IrqArmedInv` because the handler, when
  FIFO_TO is raised, takes a message that must be there.

`IccProofs`, from `IccAssumption` (the reserved protocols differ, protocols and
CPUs are disjoint, a positive number of buffers, finitely many threads):

* `TypeCorrect`, `PoolConserved`: as above, per live device.
* `TokensAccounted`: `TokensPaid`, that is `TokenInv` and `TimeoutsPaid`.  The
  inductive invariant adds that a sleeping thread means a zero count;
  `Cardinality` of the takers changes by one with each thread that
  takes or uses a token (lemmas over constants, so that they can be used for
  the primed state as well).
* `NobodyForgotten`: `NoLostWakeup`, from the same invariant: with a sleeper the
  count is 0, so tokens = takers, and the queue is no longer than that.
* `ReservedEmpty`: the handlers of MSG and SIG leave nothing on their devices.
* `ReceivedInOrder`: `Spec => FifoPerDevice`, the action property: the interrupt
  appends, a receive takes the head and returns, and a device that is allocated or
  freed is not live before and after the step.  It rests on the types of `IInv`
  only: what could break it is a step that touches a queue in another place.

`RpcProofs`, from `RpcAssumption` (the two kinds of clients differ, finitely many
of them, the names of other words are no clients):

* `OneAtATime`: `Spec => []Inv`; `AnswersPaired`: `Spec => []AnswerInv`;
  `ErrcodeOwn`: `Spec => []OwnAnswer`.  The FIFO is an instance of `CpuFifo`, and
  its theorems are used of an instance of `CpuFifoProofs`: a push appends to
  `Undelivered` or changes nothing, the interrupt keeps it, the remote CPU takes
  its head.  So `InFlight`, a count over two sequences and a set, changes only by
  a client's send and by the receipt of its answer (`OccursAppend`,
  `OccursTail`).  `IInv` states exclusion and the accounts client by client, and
  adds that `errcode` is the caller's as soon as its token exists: that is what
  makes the read after the wait right.
* `SharedFifo`: `Spec => Chan!Safe`, `Channel` over the `Undelivered` of the FIFO
  of `Rpc`.  `Refinement` of `CpuFifoProofs` does not give it: the receive
  interrupt of `Rpc` pulls a word and pushes the far API's response in one step,
  which is no step of `CpuFifo`.  The lemmas about a single push, move and take
  do: every step of `Rpc` is a send, a refusal with a full backlog, a delivery,
  or leaves `Undelivered` and `result` alone.

`MpTaskProofs`, from the assumption on CPUs, tasks and affinities:

* `SharedRight`: `Spec => []Inv`; `StatusOwn`: `Spec => []StatusTrue`.
  `StatusTrue` is not inductive: the handler of a CPU may name a task that is
  gone (`HandlerInv` says that its signals change nothing then), and nobody is
  loaded onto a CPU with signals under way (`WorkerInv`).
* `WaitsFit`: `Spec => BoundWaits`, from `TokenInv`: start and end post the same
  semaphore, and the tokens that exist are those of events that happened and were
  not waited for.

`MpMutexProofs`, from `MpMutexAssumption`:

* `Exclusive`: `Spec => []Inv`; `Excludes`: `Spec => []MutualExclusion`;
  `Covered`: `Spec => []SleepCovered`.  The writes of a stale bitmap keep
  exclusion because a device opens for one object only; `OwnInv` says that the
  owner of a semaphore changes by its unlock alone.

`PowerMgrProofs`, the frequency locks, from the assumption on threads and locks:

* `TakenAndGiven`: `Inv`; `HeldIsGranted`: `HeldGranted`; `QuietIsSettled`:
  `Settled`; `AnswersMatch`: `AnswerInv`.  The mutex makes the caller that
  changed the flags the only one with a request (`RequestInv`), so what is under
  way asks for the flags of now, and the answer makes `granted` equal to them
  (`GrantInv`).

`PowerMgrProofs`, the task, from `PowerMgrAssumption` (finitely many callbacks
that stay registered, a queue of at least three messages):

* `NothingLost`: `PmSpec => []PmInv`.  The inductive part, `TaskInv`, says where
  the task may be with which callback id (`WalkShape`), who has `g_regcblock`
  (`LockInv`), and which messages are queued in which state of a change
  (`ChangeInv`): never more than a start or an end, and a hot sleep, so a queue of
  three drops nothing.  With the lock the list has no step of a registration
  during a clock change, so the entry called last stays in it.
* `SystemToldTrue`: `ReplyTrue`; `CallbacksBalanced`: `Balanced`.  They need to
  know which callbacks are stopped in the middle of a walk: those before and at
  `cur`, those between `cur` and `last` during a recovery (`StopInv`, and
  `DownInv` for hot sleep).  Places in the list are `Pos`; an entry that is
  appended or removed during hot sleep keeps the others in their order.
  Both have the hypothesis `EndAccepted`, that no callback refuses
  `CLK_CHG_END`, which is also what the run assumes: the code has no recovery for
  such a refusal (`cxd56_pm_do_callback` would tell the callbacks before it of the
  end once more, and those behind it never), and no callback of the SDK refuses.

`ApiGatewayProofs`, from `GatewayAssumption`:

* `EntriesLive`: `Inv`; `RepliesOwn`: `OwnReply`; `RepliesWake`: `NoLostReply`.
  Ids are fresh (`FreshInv`), so a reply matches only a command that was sent;
  from the send to the wait its caller has `waitcondmtx`, so that the signal comes
  when it waits; `g_blkinfotbl_mtx`, held from the write to the signal, keeps the
  entry from being marked or freed in between (`EntryInv`).

`SimpleFifoProofs`, from `SimpleFifoAssumption`:

* `Separate`: `Spec => []Inv`, for a ring of any size.  Each side plans with an
  old value of the other's pointer; `ProdInv` and `ConsInv` say that the plan
  stays within what was vacant, or occupied, for the other side only adds to it.
* `Peeked`: `Spec => []PeekRight`, and `Implements`: `Spec => ImplementsQueue`,
  the refinement.  `IInv` is not enough: `WrittenInv` says that the bytes copied
  so far are those offered, `ReadInv` that the bytes read so far are the front of
  the queue, `PeekInv` where the chunks of a handle are.  They hold across the
  steps of the other side because of `Separate`: a copy changes no occupied byte
  (`OccupiedKept`), so it leaves the queue as it is, and what is released or
  published is counted by `OccupiedRest` and `OccupiedAdds`.  `Publish` is then
  `Put` of `ByteQueue`, with the bytes from `m_wp` to the end of the ring as the
  gap of a continuous offer that wrapped, `Release` is its `Poll`, an offer that
  fits or falls back is its `Offer`, and all the rest are stutters.

Only model-checked: everything under fairness (the fairness of
`ImplementsChannel`, `TimedReturns`, `HolderReturns` of `Rpc` and of `FreqLock`,
`BlockedServed`, `CallsReturn` of `MpTask` and of `ApiGateway`, `LockServed`,
`TaskReturns`), for liveness and ENABLED are out of the prover's reach here.  Every
other property of the passing runs is proved for all values of the constants.
`FreqLock` uses the safety of `Channel`, which is proved of
`CpuFifo`, and its liveness (a message is finally delivered), which the run
`cpufifo` checks.

## 7. Not modelled

Left for later, in order of importance:

1. The steps inside `cxd56_iccinit` and `cxd56_iccnotify`, which other threads and
   the interrupt can meet, and the width of the timeout conversion
   (`cxd56_icc.c:342`); now one step each, and a hazard each.
2. `cxd56_cpu1signal.c` above ICC: its count of users and the life of its thread.
3. Shared memory: the tile allocator against a reference definition, and the tags
   of the address converter, which two objects may search at once.
4. The message library of memutils and the queues of the workers.
5. The LTE dispatcher, its pools with waiting callers, and the modem driver: a
   power state machine around SPI transfers.

Audio, sensing, video capture, firmware update, the DNN runtime and Bluetooth are
state machines of single tasks over messages, or wrappers around libraries; none
is a part others depend on.  Not planned: peripheral drivers (they are register
sequences whose meaning is in the hardware), the ELF loader (sequential parsing),
examples, tools and vendored code.
