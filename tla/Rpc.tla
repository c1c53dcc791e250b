-------------------------------- MODULE Rpc --------------------------------
(***************************************************************************)
(* The two remote procedure calls of the supervisor CPU over the CPU FIFO: *)
(*   sdk/bsp/src/cxd56_sysctl.c  system control commands to the system CPU *)
(*   sdk/bsp/src/cxd56_farapi.c  far API calls into the firmware CPUs      *)
(* Both send one ICC message at a time under a lock and sleep on a         *)
(* semaphore that the receive handler of their protocol posts when the     *)
(* answer arrives.  They share the FIFO with each other and with all other *)
(* messages, so their sends can be refused with -EAGAIN.                   *)
(*                                                                         *)
(* A message is named by the client that calls; the answer of the remote   *)
(* CPU carries the same name, for g_errcode of sysctl is the answer to the *)
(* command.  icc_irqhandler, between the FIFO and the two handlers, keeps  *)
(* no state for a protocol whose handler consumes every message.           *)
(***************************************************************************)
EXTENDS Naturals, Sequences, FiniteSets

CONSTANTS SysClient, FarClient,  \* threads calling cxd56_sysctlcmd, farapi_main
          Ack,                   \* event flag response of the far API
          Other,                 \* any message of another driver
          ICC,                   \* icc_irqhandler, the receive handler
          NR_PUSHBUFENTRIES, HwDepth, NoHandler

Client == SysClient \cup FarClient

ASSUME RpcAssumption ==
  /\ SysClient \cap FarClient = {}
  /\ IsFiniteSet(Client)
  /\ {Ack, Other, NoHandler} \cap Client = {} /\ NoHandler # ICC
  /\ NR_PUSHBUFENTRIES \in Nat \ {0} /\ HwDepth \in Nat \ {0}

VARIABLES hwPush, pushqueue, emptyqueue, buffer, txIrqEnabled, result,
          hwPull, rxhandler, handled,    \* the CPU FIFO
          inbox,    \* calls the remote CPUs took and have not answered
          lock,     \* values of g_exc and g_farlock
          sync,     \* values of g_sync and g_farwait
          errcode,  \* g_errcode: the answer stored last, NoHandler before one
          wlock,    \* count of the far API's wakelock g_wlock
          pc        \* where a client is in cxd56_sysctlcmd or farapi_main

fifoTx == <<hwPush, pushqueue, emptyqueue, buffer, txIrqEnabled, result>>
fifo == <<fifoTx, hwPull, rxhandler, handled>>
rpcVars == <<fifo, inbox, lock, sync, errcode, wlock, pc>>

Fifo == INSTANCE CpuFifo WITH Msg <- Client \cup {Ack, Other}, Handler <- {ICC}

Service == {"sysctl", "farapi"}
ServiceOf(t) == IF t \in SysClient THEN "sysctl" ELSE "farapi"
Clients(s) == {t \in Client : ServiceOf(t) = s}

\* Clients asleep on the lock, and those between taking and giving it.
Blocked(s) == {t \in Clients(s) : pc[t] = "blocked"}
Holders(s) == {t \in Clients(s) : pc[t] \notin {"idle", "lock", "blocked"}}
\* Clients whose call was sent and whose answer they have not seen yet.
Waiting(s) == {t \in Clients(s) : pc[t] \in {"sent", "wait", "asleep"}}

\* cxd56_cfinitialize, cxd56_iccinitialize, cxd56_farapiinitialize and
\* cxd56_sysctlinitialize have run.
Init == /\ Fifo!TxInit
        /\ hwPull = <<>> /\ rxhandler = ICC /\ handled = NoHandler
        /\ inbox = {}
        /\ lock = [s \in Service |-> 1]
        /\ sync = [s \in Service |-> 0]
        /\ errcode = NoHandler
        /\ wlock = 0
        /\ pc = [t \in Client |-> "idle"]

Goto(t, from, to) == /\ pc[t] = from
                     /\ pc' = [pc EXCEPT ![t] = to]

-----------------------------------------------------------------------------
(* cxd56_sysctlcmd and farapi_main *)

Call(t) == /\ Goto(t, "idle", "lock")
           /\ UNCHANGED <<fifo, inbox, lock, sync, errcode, wlock>>

\* Mutant: calls are not serialized.
MutantTakeNoLock(t) == /\ Goto(t, "lock", "send")
                       /\ UNCHANGED <<fifo, inbox, lock, sync, errcode, wlock>>

\* sysctl_semtake(&g_exc), farapi_semtake(&g_farlock)
TakeLock(t) ==
  LET s == ServiceOf(t) IN
  /\ pc[t] = "lock"
  /\ \/ /\ lock[s] > 0
        /\ lock' = [lock EXCEPT ![s] = @ - 1]
        /\ Goto(t, "lock", "send")
     \/ /\ lock[s] = 0
        /\ Goto(t, "lock", "blocked")
        /\ UNCHANGED lock
  /\ UNCHANGED <<fifo, inbox, sync, errcode, wlock>>

\* Mutant: the result of cxd56_iccsend is ignored.
MutantSendUnchecked(t) ==
  /\ pc[t] = "send"
  /\ Fifo!Push(t)
  /\ Goto(t, "send", IF t \in SysClient THEN "wait" ELSE "sent")
  /\ UNCHANGED <<inbox, lock, sync, errcode, wlock>>

\* Mutant: farapi_main returns at once when its send fails, too.
MutantSendReturns(t) ==
  /\ pc[t] = "send"
  /\ Fifo!Push(t)
  /\ \/ result' = "OK" /\ Goto(t, "send", IF t \in SysClient THEN "wait" ELSE "sent")
     \/ result' = "EAGAIN" /\ Goto(t, "send", "idle")
  /\ UNCHANGED <<inbox, lock, sync, errcode, wlock>>

\* cxd56_iccsend.  When it fails, farapi_main goes on to give its lock;
\* cxd56_sysctlcmd returns at once and keeps g_exc.
Send(t) ==
  /\ pc[t] = "send"
  /\ Fifo!Push(t)
  /\ \/ result' = "OK" /\ t \in SysClient /\ Goto(t, "send", "wait")
     \/ result' = "OK" /\ t \in FarClient /\ Goto(t, "send", "sent")
     \/ result' = "EAGAIN" /\ t \in SysClient /\ Goto(t, "send", "idle")
     \/ result' = "EAGAIN" /\ t \in FarClient /\ Goto(t, "send", "unlock")
  /\ UNCHANGED <<inbox, lock, sync, errcode, wlock>>

\* up_pm_acquire_wakelock, in farapi_main
AcquireWakelock(t) ==
  /\ Goto(t, "sent", "wait")
  /\ wlock' = wlock + 1
  /\ UNCHANGED <<fifo, inbox, lock, sync, errcode>>

\* sysctl_semtake(&g_sync), farapi_semtake(&g_farwait)
TakeSync(t) ==
  LET s == ServiceOf(t) IN
  /\ pc[t] = "wait"
  /\ \/ /\ sync[s] > 0
        /\ sync' = [sync EXCEPT ![s] = @ - 1]
        /\ Goto(t, "wait", "answered")
     \/ /\ sync[s] = 0
        /\ Goto(t, "wait", "asleep")
        /\ UNCHANGED sync
  /\ UNCHANGED <<fifo, inbox, lock, errcode, wlock>>

\* sem_wait is interrupted by a signal: the loops of the semtake functions.
Interrupt(t) ==
  /\ Goto(t, "blocked", "lock") \/ Goto(t, "asleep", "wait")
  /\ UNCHANGED <<fifo, inbox, lock, sync, errcode, wlock>>

\* ret = g_errcode; up_pm_release_wakelock
Finish(t) ==
  /\ Goto(t, "answered", "unlock")
  /\ wlock' = IF t \in FarClient THEN wlock - 1 ELSE wlock
  /\ UNCHANGED <<fifo, inbox, lock, sync, errcode>>

\* Mutant: the lock is given without waking a sleeping client.
MutantGiveLockNoWake(t) ==
  LET s == ServiceOf(t) IN
  /\ pc[t] = "unlock"
  /\ pc' = [pc EXCEPT ![t] = "idle"]
  /\ lock' = [lock EXCEPT ![s] = @ + 1]
  /\ UNCHANGED <<fifo, inbox, sync, errcode, wlock>>

\* sem_post(&g_exc), sem_post(&g_farlock): handed to a sleeping client.
GiveLock(t) ==
  LET s == ServiceOf(t) IN
  /\ pc[t] = "unlock"
  /\ \/ \E u \in Blocked(s) :
          /\ pc' = [pc EXCEPT ![t] = "idle", ![u] = "send"]
          /\ UNCHANGED lock
     \/ /\ Blocked(s) = {}
        /\ pc' = [pc EXCEPT ![t] = "idle"]
        /\ lock' = [lock EXCEPT ![s] = @ + 1]
  /\ UNCHANGED <<fifo, inbox, sync, errcode, wlock>>

-----------------------------------------------------------------------------
(* The FIFO interrupts and the handlers of the two protocols *)

\* Mutant: the answer wakes nobody.
MutantPostSyncNoWake(s) == /\ sync' = [sync EXCEPT ![s] = @ + 1]
                           /\ UNCHANGED pc

\* sem_post(&g_sync), sem_post(&g_farwait)
PostSync(s) ==
  \/ \E u \in Waiting(s) : Goto(u, "asleep", "answered") /\ UNCHANGED sync
  \/ /\ \A u \in Waiting(s) : pc[u] # "asleep"
     /\ sync' = [sync EXCEPT ![s] = @ + 1]
     /\ UNCHANGED pc

\* sysctl_rxhandler
SysctlRxHandler(m) == /\ errcode' = m
                      /\ PostSync("sysctl")
                      /\ UNCHANGED fifoTx

\* cxd56_farapidonehandler: the result of sending the response is ignored.
FarApiDoneHandler == /\ Fifo!PushWord(Ack)
                     /\ PostSync("farapi")
                     /\ UNCHANGED errcode

\* cpufifo_rxhandler: its handler is the one that was registered at the
\* start, so there is nothing to remember in `handled'.
RxIrq == /\ Fifo!Pull /\ UNCHANGED handled
         /\ \/ Head(hwPull) \in SysClient /\ SysctlRxHandler(Head(hwPull))
            \/ Head(hwPull) \in FarClient /\ FarApiDoneHandler
         /\ UNCHANGED <<inbox, lock, wlock>>

TxIrq == /\ Fifo!TxIrq
         /\ UNCHANGED <<inbox, lock, sync, errcode, wlock, pc>>

-----------------------------------------------------------------------------
(* The other users of the FIFO and the remote CPUs *)

OtherSend == /\ Fifo!Push(Other)
             /\ UNCHANGED <<inbox, lock, sync, errcode, wlock, pc>>

RemoteTake == /\ Fifo!RemoteTake
              /\ inbox' = inbox \cup ({Head(hwPush)} \cap Client)
              /\ UNCHANGED <<lock, sync, errcode, wlock, pc>>

RemoteAnswer(t) == /\ t \in inbox
                   /\ Fifo!RemoteSend(t)
                   /\ inbox' = inbox \ {t}
                   /\ UNCHANGED <<lock, sync, errcode, wlock, pc>>

Step(t) == TakeLock(t) \/ Send(t) \/ AcquireWakelock(t) \/ TakeSync(t) \/ Finish(t) \/ GiveLock(t)

Next == \/ \E t \in Client : Call(t) \/ Step(t) \/ Interrupt(t) \/ RemoteAnswer(t)
        \/ RxIrq \/ TxIrq \/ OtherSend \/ RemoteTake

\* Runnable threads run, raised interrupts are served, and the remote CPUs
\* take their messages and answer them.
Fairness == /\ \A t \in Client : WF_rpcVars(Step(t)) /\ WF_rpcVars(RemoteAnswer(t))
            /\ WF_rpcVars(RxIrq) /\ WF_rpcVars(TxIrq) /\ WF_rpcVars(RemoteTake)

Spec == Init /\ [][Next]_rpcVars /\ Fairness
-----------------------------------------------------------------------------
PC == {"idle", "lock", "blocked", "send", "sent", "wait", "asleep", "answered", "unlock"}

TypeOK ==
  /\ Fifo!TypeOK
  /\ inbox \subseteq Client
  /\ lock \in [Service -> {0, 1}]
  /\ sync \in [Service -> {0, 1}]
  /\ errcode \in SysClient \cup {NoHandler}
  /\ wlock \in {0, 1}
  /\ pc \in [Client -> PC]

\* How often t's call is under way: towards the remote CPU, there, or back.
Occurs(t, q) == Cardinality({i \in 1 .. Len(q) : q[i] = t})
InFlight(t) == Occurs(t, Fifo!Undelivered) + Cardinality(inbox \cap {t}) + Occurs(t, hwPull)

\* Every answer has its waiter and every waiter its answer: a waiting client
\* has exactly one call under way or one token in the semaphore, and nothing
\* is under way for anybody else.  No answer can be left over for a later
\* call, whatever the handler, the sender and the interrupts interleave.
AnswerInv ==
  /\ \A s \in Service : \A t \in Waiting(s) : InFlight(t) + sync[s] = 1
  /\ \A s \in Service : \A t \in Clients(s) \ Waiting(s) : InFlight(t) = 0
  /\ \A s \in Service : Waiting(s) = {} => sync[s] = 0

\* The error code a command returns is the answer to that command: g_errcode
\* is one variable that the interrupt overwrites, and it is read after the
\* semaphore wait, without a critical section.
OwnAnswer == \A t \in SysClient : pc[t] \in {"answered", "unlock"} => errcode = t

\* The lock is held by one client at most, and nobody sleeps on a free lock;
\* the far API's lock is always held or free, also after a refused send.
LockInv ==
  /\ \A s \in Service : lock[s] + Cardinality(Holders(s)) <= 1
  /\ \A s \in Service : Blocked(s) # {} => lock[s] = 0
  /\ lock["farapi"] + Cardinality(Holders("farapi")) = 1

\* The CPU may not enter hot sleep while a far API caller sleeps, and the
\* wakelock is released with every call.
WakelockInv ==
  wlock = Cardinality({t \in FarClient : pc[t] \in {"wait", "asleep", "answered"}})

\* Exclusion and the hold on the sleep state belong together: both are taken
\* and given on every path of a call, the refused ones included.
Inv == TypeOK /\ LockInv /\ WakelockInv

\* A client that has the lock finally returns: its message leaves the FIFO
\* however full that is, and its answer wakes it.
HolderReturns ==
  \A t \in Client : pc[t] \notin {"idle", "lock", "blocked"} ~> pc[t] = "idle"

\* Clients sleeping on the lock are served as long as it is not lost; it is
\* lost when cxd56_iccsend refuses a system control command, and then every
\* later command sleeps for ever.
Lost(s) == lock[s] = 0 /\ Holders(s) = {}
BlockedServed ==
  \A s \in Service :
     Blocked(s) # {} ~> \/ \E t \in Clients(s) : pc[t] = "send"
                        \/ Blocked(s) = {}
                        \/ s = "sysctl" /\ Lost(s)
=============================================================================
