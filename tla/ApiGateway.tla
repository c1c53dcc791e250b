----------------------------- MODULE ApiGateway -----------------------------
(***************************************************************************)
(* sdk/modules/lte/altcom/gw/apicmdgw.c: the gateway between the threads   *)
(* that call the LTE API and the modem.  apicmdgw_send puts an entry into  *)
(* a table, sends its command and waits on the condition of the entry; the *)
(* receive task finds the entry of a reply by its command and transaction  *)
(* ids, writes the caller's buffer and signals the entry.  A modem that    *)
(* restarts or is switched off makes apicmdgw_sendabort release everyone,  *)
(* and so does apicmdgw_fin, which also ends the receive task.             *)
(*                                                                         *)
(* g_blkinfotbl_mtx protects the table; waitcondmtx of an entry is held by *)
(* its caller from before the send until it waits, and again while it looks*)
(* at the result.  A signaller takes it while it holds g_blkinfotbl_mtx.   *)
(*                                                                         *)
(* Every caller uses a command id of its own, and the increment of the     *)
(* transaction id is one step.  Commands without a response buffer share   *)
(* no state with the rest and are left out, but for the error indication.  *)
(* The modem is external, as is the order in which callers are scheduled.  *)
(***************************************************************************)
EXTENDS Naturals, Sequences, FiniteSets

CONSTANTS Sender,      \* threads that send a command and wait for the reply
          Timed,       \* those that wait with a timeout, not SYS_TIMEO_FEVR
          Aborter,     \* threads that run apicmdgw_sendabort
          Fin,         \* the thread that finalizes the gateway
          MaxCalls,    \* bound of the calls, so that the 16 bits of the
                       \* transaction id do not wrap
          MaxBacklog,  \* bound of the messages not yet received
          None         \* no thread

\* The thread of the receive task, and those that release every caller.
Recv == "recv"
Releaser == Aborter \cup {Fin}

ASSUME GatewayAssumption ==
  /\ Timed \subseteq Sender
  /\ Fin \notin Aborter
  /\ Recv \notin Releaser
  /\ None \notin Sender \cup Releaser \cup {Recv}
  /\ MaxCalls \in Nat \ {0} /\ MaxBacklog \in Nat

\* A reply fits the buffer or is too long for it; of a message that fails its
\* checksum nothing else is looked at.
Bad == [to |-> None, tid |-> 0, form |-> "bad"]
Message == [to : Sender, tid : 1 .. MaxCalls, form : {"fits", "long"}] \cup {Bad}

VARIABLES isinit,    \* g_isinit
          transid,   \* transid of apicmdgw_createtransid
          pc,        \* what a caller of apicmdgw_send does
          tid,       \* transaction id of its command
          result,    \* result of its entry
          buf,       \* id of the reply in its response buffer, 0 for none
          woken,     \* who signalled its entry: "none", "reply", "abort"
          ret,       \* what apicmdgw_send is about to return: "OK" or "error"
          table,     \* g_blkinfotbl, the callers with an entry in it
          tblmtx,    \* the thread that holds g_blkinfotbl_mtx
          rel,       \* progress of a thread that releases the callers
          todo,      \* entries that apicmdgw_relcondwaitall has not reached
          task,      \* the receive task: "recv", "signal", "ended"
          target,    \* the entry it is about to signal
          modem,     \* "on", "off", or "reset" until it reports the restart
          pending,   \* commands the modem has not answered
          inq        \* messages of the modem, oldest first

callVars == <<transid, pc, tid, result, buf, woken, ret>>
tblVars == <<table, tblmtx>>
relVars == <<isinit, rel, todo>>
taskVars == <<task, target>>
modemVars == <<modem, pending, inq>>
gwVars == <<callVars, tblVars, relVars, taskVars, modemVars>>

Init == /\ isinit = TRUE
        /\ transid = 0
        /\ pc = [s \in Sender |-> "idle"]
        /\ tid = [s \in Sender |-> 0]
        /\ result = [s \in Sender |-> "OK"]
        /\ buf = [s \in Sender |-> 0]
        /\ woken = [s \in Sender |-> "none"]
        /\ ret = [s \in Sender |-> "none"]
        /\ table = {}
        /\ tblmtx = None
        /\ rel = [r \in Releaser |-> "idle"]
        /\ todo = [r \in Releaser |-> {}]
        /\ task = "recv"
        /\ target = None
        /\ modem = "on"
        /\ pending = {}
        /\ inq = <<>>

Goto(s, from, to) == pc[s] = from /\ pc' = [pc EXCEPT ![s] = to]
Return(s, r) == ret' = [ret EXCEPT ![s] = r]

\* The entry and the buffer are given up; what was returned is forgotten.
Leave(s) == /\ tid' = [tid EXCEPT ![s] = 0]
            /\ result' = [result EXCEPT ![s] = "OK"]
            /\ buf' = [buf EXCEPT ![s] = 0]
            /\ woken' = [woken EXCEPT ![s] = "none"]
            /\ Return(s, "none")

\* Callers that hold waitcondmtx of their entry between two steps.
HoldsCond == {s \in Sender : pc[s] = "sent"}

-----------------------------------------------------------------------------
(* apicmdgw_send *)

\* The command gets its id (apicmdgw_cmd_allocbuff) and its zeroed entry.
Begin(s) ==
  /\ isinit /\ transid < MaxCalls
  /\ Goto(s, "idle", "add")
  /\ transid' = transid + 1
  /\ tid' = [tid EXCEPT ![s] = transid + 1]
  /\ UNCHANGED <<result, buf, woken, ret, tblVars, relVars, taskVars, modemVars>>

\* There is no memory for the entry or its condition.
NoEntry(s) ==
  /\ Goto(s, "add", "idle")
  /\ tid' = [tid EXCEPT ![s] = 0]
  /\ UNCHANGED <<transid, result, buf, woken, ret, tblVars, relVars, taskVars, modemVars>>

\* apicmdgw_addtable
AddTable(s) ==
  /\ tblmtx = None
  /\ Goto(s, "add", "send")
  /\ table' = table \cup {s}
  /\ UNCHANGED <<transid, tid, result, buf, woken, ret, tblmtx, relVars, taskVars, modemVars>>

\* From its lock of waitcondmtx to the wait the caller holds it.  The driver
\* takes the command; a modem about to restart forgets it.
SendOk(s) ==
  /\ Goto(s, "send", "sent")
  /\ modem # "off"
  /\ pending' = IF modem = "on" THEN pending \cup {<<s, tid[s]>>} ELSE pending
  /\ UNCHANGED <<transid, tid, result, buf, woken, ret, tblVars, relVars, taskVars, modem, inq>>

SendFails(s) ==
  /\ Goto(s, "send", "remove") /\ Return(s, "error")
  /\ UNCHANGED <<transid, tid, result, buf, woken, tblVars, relVars, taskVars, modemVars>>

Wait(s) ==
  /\ Goto(s, "sent", "wait")
  /\ UNCHANGED <<transid, tid, result, buf, woken, ret, tblVars, relVars, taskVars, modemVars>>

TimeOut(s) ==
  /\ s \in Timed
  /\ Goto(s, "wait", "remove") /\ Return(s, "error")
  /\ UNCHANGED <<transid, tid, result, buf, woken, tblVars, relVars, taskVars, modemVars>>

\* The signalled caller has waitcondmtx again and looks at its entry.
Resume(s) ==
  /\ Goto(s, "awake", "remove")
  /\ Return(s, IF isinit /\ result[s] = "OK" THEN "OK" ELSE "error")
  /\ UNCHANGED <<transid, tid, result, buf, woken, tblVars, relVars, taskVars, modemVars>>

\* Mutant: the entry is not taken out after a timeout or another error.
MutantRemoveAwake(s) ==
  /\ tblmtx = None
  /\ Goto(s, "remove", "idle")
  /\ table' = IF ret[s] = "error" THEN table ELSE table \ {s}
  /\ Leave(s)
  /\ UNCHANGED <<transid, tblmtx, relVars, taskVars, modemVars>>

\* apicmdgw_remtable, which also frees the entry
RemTable(s) ==
  /\ tblmtx = None
  /\ Goto(s, "remove", "idle")
  /\ table' = table \ {s}
  /\ Leave(s)
  /\ UNCHANGED <<transid, tblmtx, relVars, taskVars, modemVars>>

-----------------------------------------------------------------------------
(* Signals *)

\* Mutant: the signal is sent without waitcondmtx.
MutantSignalUnlocked(s, who) ==
  /\ pc' = [pc EXCEPT ![s] = IF @ = "wait" THEN "awake" ELSE @]
  /\ woken' = [woken EXCEPT ![s] = IF pc[s] = "wait" THEN who ELSE @]

\* sys_signal_thread_cond: wakes the caller if it waits, and is lost if not.
Signal(s, who) ==
  /\ s \notin HoldsCond
  /\ pc' = [pc EXCEPT ![s] = IF @ = "wait" THEN "awake" ELSE @]
  /\ woken' = [woken EXCEPT ![s] = IF pc[s] = "wait" THEN who ELSE @]

-----------------------------------------------------------------------------
(* apicmdgw_recvtask *)

Receive == task = "recv" /\ inq # <<>> /\ inq' = Tail(inq)
Received == Head(inq)

\* Mutant: the transaction id is not compared.
MutantMatchesAny == {s \in table : Received.to = s}

\* The entry that waits for a message, apicmdgw_writetable.
Matches == {s \in table : Received.to = s /\ Received.tid = tid[s]}

\* apicmdgw_writetable up to the signal, with g_blkinfotbl_mtx held
WriteTable ==
  /\ tblmtx = None
  /\ Receive /\ Received # Bad
  /\ \E s \in Matches :
       /\ target' = s
       /\ IF Received.form = "fits"
          THEN /\ result' = [result EXCEPT ![s] = "OK"]
               /\ buf' = [buf EXCEPT ![s] = Received.tid]
          ELSE /\ result' = [result EXCEPT ![s] = "ENOSPC"]
               /\ UNCHANGED buf
  /\ task' = "signal" /\ tblmtx' = Recv
  /\ UNCHANGED <<transid, pc, tid, woken, ret, table, relVars, modem, pending>>

SignalReply ==
  /\ task = "signal"
  /\ Signal(target, "reply")
  /\ task' = "recv" /\ target' = None /\ tblmtx' = None
  /\ UNCHANGED <<transid, tid, result, buf, ret, table, relVars, modemVars>>

\* Nobody waits for the message: it is an event for the dispatcher.
Dispatch ==
  /\ tblmtx = None
  /\ Receive /\ Received # Bad /\ Matches = {}
  /\ UNCHANGED <<callVars, tblVars, relVars, taskVars, modem, pending>>

\* A damaged message is reported, and the modem reset.
Damaged ==
  /\ Receive /\ Received = Bad
  /\ modem' = "reset" /\ pending' = {}
  /\ UNCHANGED <<callVars, tblVars, relVars, taskVars>>

\* recv returns -ECONNABORTED.
EndTask ==
  /\ task = "recv" /\ rel[Fin] = "join"
  /\ task' = "ended"
  /\ UNCHANGED <<callVars, tblVars, relVars, target, modemVars>>

-----------------------------------------------------------------------------
(* apicmdgw_sendabort and apicmdgw_fin *)

\* restart_callback of lte_power.c: the modem has started again.
Restarted(a) ==
  /\ modem = "reset" /\ rel[a] = "idle"
  /\ modem' = "on"
  /\ rel' = [rel EXCEPT ![a] = "mark"]
  /\ UNCHANGED <<callVars, tblVars, isinit, todo, taskVars, pending, inq>>

\* lte_power_off; the driver then delivers nothing more
PowerOff(a) ==
  /\ modem # "off" /\ rel[a] = "idle"
  /\ modem' = "off" /\ pending' = {} /\ inq' = <<>>
  /\ rel' = [rel EXCEPT ![a] = "mark"]
  /\ UNCHANGED <<callVars, tblVars, isinit, todo, taskVars>>

\* apicmdgw_sendabort, first critical section
Mark(a) ==
  /\ rel[a] = "mark" /\ tblmtx = None
  /\ result' = [s \in Sender |-> IF s \in table THEN "ENETDOWN" ELSE result[s]]
  /\ rel' = [rel EXCEPT ![a] = "release"]
  /\ UNCHANGED <<transid, pc, tid, buf, woken, ret, tblVars, isinit, todo, taskVars, modemVars>>

\* Where a thread goes after apicmdgw_relcondwaitall.
After(r) == IF r = Fin THEN "delete" ELSE "idle"

\* apicmdgw_relcondwaitall: takes the table, with nothing to do if it is empty.
ReleaseAll(r) ==
  /\ rel[r] = "release" /\ tblmtx = None
  /\ todo' = [todo EXCEPT ![r] = table]
  /\ IF table = {}
     THEN rel' = [rel EXCEPT ![r] = After(r)] /\ UNCHANGED tblmtx
     ELSE rel' = [rel EXCEPT ![r] = "signal"] /\ tblmtx' = r
  /\ UNCHANGED <<callVars, table, isinit, taskVars, modemVars>>

\* Mutant: only the first entry is signalled.
MutantReleaseFirst(r, s) ==
  /\ s \in todo[r]
  /\ Signal(s, "abort")
  /\ todo' = [todo EXCEPT ![r] = {}]
  /\ rel' = [rel EXCEPT ![r] = After(r)] /\ tblmtx' = None
  /\ UNCHANGED <<transid, tid, result, buf, ret, table, isinit, taskVars, modemVars>>

\* It signals every entry, then gives the table.
ReleaseOne(r, s) ==
  /\ s \in todo[r]
  /\ Signal(s, "abort")
  /\ todo' = [todo EXCEPT ![r] = @ \ {s}]
  /\ IF todo[r] = {s}
     THEN rel' = [rel EXCEPT ![r] = After(r)] /\ tblmtx' = None
     ELSE UNCHANGED <<rel, tblmtx>>
  /\ UNCHANGED <<transid, tid, result, buf, ret, table, isinit, taskVars, modemVars>>

\* apicmdgw_fin, up to the wait for the receive task; lte_finalize has
\* switched the modem off.
FinAbort ==
  /\ isinit /\ modem = "off"
  /\ isinit' = FALSE
  /\ rel' = [rel EXCEPT ![Fin] = "join"]
  /\ UNCHANGED <<callVars, tblVars, todo, taskVars, modemVars>>

FinJoined ==
  /\ rel[Fin] = "join" /\ task = "ended"
  /\ rel' = [rel EXCEPT ![Fin] = "release"]
  /\ UNCHANGED <<callVars, tblVars, isinit, todo, taskVars, modemVars>>

\* The mutex is deleted and g_hal_if set to NULL: no caller is before its
\* send any more.
FinDelete ==
  /\ rel[Fin] = "delete" /\ tblmtx = None
  /\ \A s \in Sender : pc[s] \notin {"add", "send"}
  /\ rel' = [rel EXCEPT ![Fin] = "deleted"]
  /\ UNCHANGED <<callVars, tblVars, isinit, todo, taskVars, modemVars>>

\* apicmdgw_init; lte_destroy has freed the pools, so the callers have left.
GwInit ==
  /\ rel[Fin] = "deleted"
  /\ \A s \in Sender : pc[s] = "idle"
  /\ isinit' = TRUE
  /\ rel' = [rel EXCEPT ![Fin] = "idle"]
  /\ task' = "recv"
  /\ UNCHANGED <<callVars, tblVars, todo, target, modemVars>>

-----------------------------------------------------------------------------
(* The modem *)

Receivable == Len(inq) < MaxBacklog

\* A reply, in time or late, but at most one to a command; it may be damaged.
Reply(p) ==
  /\ modem = "on" /\ Receivable
  /\ pending' = pending \ {p}
  /\ \E m \in {n \in Message : n = Bad \/ <<n.to, n.tid>> = p} : inq' = Append(inq, m)
  /\ UNCHANGED <<callVars, tblVars, relVars, taskVars, modem>>

\* The modem forgets its commands and starts again, by itself or because
\* lte_power_on switches it on.
ModemStarts ==
  /\ modem = "on" \/ (modem = "off" /\ isinit)
  /\ modem' = "reset" /\ pending' = {}
  /\ UNCHANGED <<callVars, tblVars, relVars, taskVars, inq>>

-----------------------------------------------------------------------------
CallStep(s) == \/ NoEntry(s) \/ AddTable(s)
               \/ SendOk(s) \/ SendFails(s) \/ Wait(s)
               \/ TimeOut(s) \/ Resume(s) \/ RemTable(s)

TaskStep == WriteTable \/ Dispatch \/ Damaged \/ SignalReply \/ EndTask

ReleaseStep(r) == \/ ReleaseAll(r)
                  \/ \E s \in Sender : ReleaseOne(r, s)

AbortStep(a) == Restarted(a) \/ Mark(a) \/ ReleaseStep(a)
FinStep == FinJoined \/ ReleaseStep(Fin)

Next == \/ \E s \in Sender : Begin(s) \/ CallStep(s)
        \/ TaskStep
        \/ \E a \in Aborter : PowerOff(a) \/ AbortStep(a)
        \/ FinAbort \/ FinStep \/ FinDelete \/ GwInit
        \/ \E p \in pending : Reply(p)
        \/ ModemStarts

\* The scheduler runs every thread, a mutex goes to the thread of highest
\* priority that waits for it and so to each of them in turn, timeouts
\* expire, and a modem that restarts says so.  Callers, the modem and the
\* threads that switch it off or finalize the gateway need do nothing.
Fairness == /\ \A s \in Sender : SF_gwVars(CallStep(s))
            /\ SF_gwVars(TaskStep)
            /\ \A a \in Aborter : SF_gwVars(AbortStep(a))
            /\ SF_gwVars(FinStep)

Spec == Init /\ [][Next]_gwVars /\ Fairness

-----------------------------------------------------------------------------
InTable == {s \in Sender : pc[s] \in {"send", "sent", "wait", "awake", "remove"}}

TypeOK ==
  /\ isinit \in BOOLEAN
  /\ transid \in 0 .. MaxCalls
  /\ pc \in [Sender -> {"idle", "add", "send", "sent", "wait", "awake", "remove"}]
  /\ tid \in [Sender -> 0 .. MaxCalls]
  /\ result \in [Sender -> {"OK", "ENOSPC", "ENETDOWN"}]
  /\ buf \in [Sender -> 0 .. MaxCalls]
  /\ woken \in [Sender -> {"none", "reply", "abort"}]
  /\ ret \in [Sender -> {"none", "OK", "error"}]
  /\ table \subseteq Sender
  /\ tblmtx \in Releaser \cup {Recv, None}
  /\ rel \in [Releaser -> {"idle", "mark", "release", "signal", "join", "delete", "deleted"}]
  /\ todo \in [Releaser -> SUBSET Sender]
  /\ task \in {"recv", "signal", "ended"}
  /\ target \in Sender \cup {None}
  /\ modem \in {"on", "off", "reset"}
  /\ pending \subseteq Sender \X (1 .. MaxCalls)
  /\ inq \in Seq(Message)

\* Entries: a caller is in the table from apicmdgw_addtable to the freeing of
\* its entry in apicmdgw_remtable, so neither the receive task nor a release
\* can signal or write an entry that is gone; whoever walks the table in
\* more than one step holds its mutex.
TableInv ==
  /\ table = InTable
  /\ tblmtx = Recv <=> task = "signal"
  /\ task = "signal" <=> target # None
  /\ \A r \in Releaser :
       /\ tblmtx = r <=> rel[r] = "signal"
       /\ rel[r] = "signal" <=> todo[r] # {}
       /\ todo[r] \subseteq table
  /\ target # None => target \in table

\* The type invariant with the invariant of the table.
Inv == TypeOK /\ TableInv

\* What apicmdgw_send answers: the buffer never holds the reply to another
\* command, an earlier one of the same caller that timed out included, and
\* success means that the reply is there.  The one exception is a caller
\* released by another thread: sendabort marks the entries in one critical
\* section and signals them in the next, and an entry added in between is
\* signalled unmarked.
OwnReply ==
  \A s \in Sender :
    /\ buf[s] \in {0, tid[s]}
    /\ pc[s] = "remove" /\ ret[s] = "OK" => buf[s] = tid[s] \/ woken[s] = "abort"

\* No lost wake-up: a caller sleeps on a reply that was written, fitting or
\* too long, only until the receive task makes its signal, although the
\* reply can come before the caller waits.
NoLostReply ==
  \A s \in Sender :
    pc[s] = "wait" /\ (buf[s] # 0 \/ result[s] = "ENOSPC") => target = s

Answered(s) == pc[s] # "idle" /\ \E k \in 1 .. Len(inq) :
                 inq[k].to = s /\ inq[k].tid = tid[s] 
Released(s) == pc[s] = "wait" /\ (rel[Fin] = "join" \/ \E a \in Aborter : rel[a] = "mark")

\* apicmdgw_send returns: with a timeout always, without one when the reply
\* has arrived undamaged, when the modem has restarted or was switched off
\* while it waited, and when the gateway is finalized while it waits.
CallsReturn ==
  \A s \in Sender :
    (s \in Timed /\ pc[s] # "idle") \/ Answered(s) \/ Released(s) ~> pc[s] = "idle"
=============================================================================
