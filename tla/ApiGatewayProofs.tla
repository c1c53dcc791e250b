--------------------------- MODULE ApiGatewayProofs ---------------------------
(***************************************************************************)
(* Proofs about ApiGateway for any number of callers, aborters and calls.  *)
(* Why no caller gets the reply to another command, nor sleeps through its *)
(* own: ids are fresh, so a reply finds its entry only once the command is *)
(* sent; from then to its wait the caller holds waitcondmtx, so the signal *)
(* comes when it waits; and g_blkinfotbl_mtx, held from the write to the   *)
(* signal, keeps the entry from being marked or freed in between.          *)
(***************************************************************************)
EXTENDS ApiGateway, TLAPS

Place == {"idle", "add", "send", "sent", "wait", "awake", "remove"}
Step == {"idle", "mark", "release", "signal", "join", "delete", "deleted"}

\* The commands that the modem has, or has answered with a message not yet
\* received.
Known == pending \cup {<<inq[k].to, inq[k].tid>> : k \in 1 .. Len(inq)}

\* The receive task runs while the gateway is initialized and has ended when
\* apicmdgw_fin goes on.
FinInv ==
  /\ isinit <=> rel[Fin] = "idle"
  /\ task = "ended" => rel[Fin] # "idle"
  /\ rel[Fin] \in {"release", "signal", "delete", "deleted"} => task = "ended"

\* Transaction ids are handed out once.
FreshInv ==
  /\ \A p \in Known : p[2] \in 0 .. transid
  /\ \A s \in Sender : tid[s] <= transid
  /\ \A s \in Sender : pc[s] # "idle" => tid[s] > 0
  /\ \A s \in Sender : pc[s] \in {"add", "send"} => <<s, tid[s]>> \notin Known

\* What an entry tells of the reply, at each place of its caller.
EntryInv ==
  \A s \in Sender :
    /\ pc[s] \in {"idle", "add", "send"} => buf[s] = 0 /\ result[s] # "ENOSPC"
    /\ buf[s] \in {0, tid[s]}
    /\ target = s => result[s] = "ENOSPC" \/ buf[s] = tid[s]
    /\ pc[s] = "awake" => woken[s] = "abort" \/ result[s] # "OK" \/ buf[s] = tid[s]
    /\ pc[s] = "remove" /\ ret[s] = "OK" => woken[s] = "abort" \/ buf[s] = tid[s]
    /\ pc[s] \in {"sent", "wait"} /\ (buf[s] # 0 \/ result[s] = "ENOSPC") => target = s

IInv == Inv /\ FinInv /\ FreshInv /\ EntryInv

\* apicmdgw_init establishes the invariant.
LEMMA InitIInv == Init => IInv
<1> SUFFICES ASSUME Init PROVE IInv
  OBVIOUS
<1> USE GatewayAssumption DEF Init
<1>1. TypeOK
  BY DEF TypeOK, Message, Releaser, Recv
<1>2. TableInv
  BY DEF TableInv, InTable, Releaser, Recv
<1>3. FinInv
  BY DEF FinInv, Releaser
<1>4. FreshInv
  BY DEF FreshInv, Known
<1>5. EntryInv
  BY DEF EntryInv
<1> QED BY <1>1, <1>2, <1>3, <1>4, <1>5 DEF IInv, Inv
-----------------------------------------------------------------------------
(* What the modem and the receive task do to the messages *)

\* A received message leaves.
LEMMA TailMessages ==
  ASSUME TypeOK, inq # <<>>, inq' = Tail(inq), pending' \subseteq pending
  PROVE  /\ inq' \in Seq(Message)
         /\ Known' \subseteq Known
<1>1. inq' \in Seq(Message) /\ Len(inq') = Len(inq) - 1 /\ Len(inq) \in Nat
      /\ \A k \in 1 .. Len(inq') : inq'[k] = inq[k + 1]
  BY DEF TypeOK
<1>2. ASSUME NEW k \in 1 .. Len(inq')
      PROVE  k + 1 \in 1 .. Len(inq) /\ inq'[k] = inq[k + 1]
  BY <1>1
<1> QED BY <1>1, <1>2 DEF Known

\* The message looked at is one of those known.
LEMMA HeadMessage ==
  ASSUME TypeOK, inq # <<>>
  PROVE  Received \in Message /\ <<Received.to, Received.tid>> \in Known
<1>1. 1 \in 1 .. Len(inq) /\ Received = inq[1] /\ Received \in Message
  BY DEF TypeOK, Received
<1> QED BY <1>1 DEF Known

\* A message arrives; a damaged one is from nobody.
LEMMA AppendMessage ==
  ASSUME TypeOK, NEW m \in Message, NEW p \in pending,
         m = Bad \/ <<m.to, m.tid>> = p,
         inq' = Append(inq, m), pending' = pending \ {p}
  PROVE  /\ inq' \in Seq(Message)
         /\ Known' \subseteq Known \cup {<<None, 0>>}
<1>1. inq' \in Seq(Message) /\ Len(inq') = Len(inq) + 1 /\ Len(inq) \in Nat
      /\ \A k \in 1 .. Len(inq) : inq'[k] = inq[k]
      /\ inq'[Len(inq) + 1] = m
  BY DEF TypeOK
<1>2. <<m.to, m.tid>> \in Known \cup {<<None, 0>>}
  BY DEF Known, Bad
<1>3. ASSUME NEW k \in 1 .. Len(inq')
      PROVE  <<inq'[k].to, inq'[k].tid>> \in Known \cup {<<None, 0>>}
  <2>1. CASE k \in 1 .. Len(inq)
    BY <1>1, <2>1 DEF Known
  <2>2. CASE k = Len(inq) + 1
    BY <1>1, <1>2, <2>2
  <2>3. k \in 1 .. Len(inq) \/ k = Len(inq) + 1
    BY <1>1
  <2> QED BY <2>1, <2>2, <2>3
<1>4. pending' \subseteq Known
  BY DEF Known
<1>5. ASSUME NEW q \in Known' PROVE q \in Known \cup {<<None, 0>>}
  <2>1. q \in pending' \/ \E k \in 1 .. Len(inq') : q = <<inq'[k].to, inq'[k].tid>>
    BY DEF Known
  <2> QED BY <2>1, <1>3, <1>4
<1> QED BY <1>1, <1>5


-----------------------------------------------------------------------------
(* Steps of a caller *)

\* The table follows the caller, who leaves it only with the mutex free.
LEMMA CallerTable ==
  ASSUME TypeOK, TableInv, NEW s \in Sender, NEW to \in Place,
         pc' = [pc EXCEPT ![s] = to],
         table' = IF to \in {"idle", "add"} THEN table \ {s} ELSE table \cup {s},
         s \in table /\ to \in {"idle", "add"} => tblmtx = None,
         UNCHANGED <<tblmtx, rel, todo, task, target>>
  PROVE  TableInv'
<1>1. table' = InTable'
  BY DEF TypeOK, TableInv, InTable, Place
<1>2. table' = table \/ table \subseteq table' \/ tblmtx = None
  OBVIOUS
<1>3. ASSUME NEW r \in Releaser PROVE todo[r] \subseteq table'
  <2>1. tblmtx = None => todo[r] = {}
    BY GatewayAssumption DEF TableInv
  <2> QED BY <1>2, <2>1 DEF TableInv
<1>4. target # None => target \in table'
  BY <1>2, GatewayAssumption DEF TableInv
<1> QED BY <1>1, <1>3, <1>4 DEF TableInv

\* A caller leaves the state well typed.
LEMMA CallerTypeOK ==
  ASSUME IInv, NEW s \in Sender, Begin(s) \/ CallStep(s) PROVE TypeOK'
<1> USE DEF IInv, Inv, Goto, Return, Leave,
           callVars, tblVars, relVars, taskVars, modemVars
<1>1. CASE Begin(s)
  BY <1>1, GatewayAssumption DEF Begin, TypeOK
<1>2. CASE NoEntry(s)
  BY <1>2, GatewayAssumption DEF NoEntry, TypeOK
<1>3. CASE AddTable(s)
  BY <1>3 DEF AddTable, TypeOK
<1>4. CASE SendOk(s)
  <2>1. tid[s] \in 1 .. MaxCalls
    <3>1. pc[s] = "send" /\ tid[s] > 0
      BY <1>4 DEF SendOk, FreshInv
    <3> QED BY <3>1, GatewayAssumption DEF TypeOK
  <2>2. pending' \subseteq Sender \X (1 .. MaxCalls)
    BY <1>4, <2>1 DEF SendOk, TypeOK
  <2> QED BY <1>4, <2>2 DEF SendOk, TypeOK
<1>5. CASE SendFails(s)
  BY <1>5 DEF SendFails, TypeOK
<1>6. CASE Wait(s)
  BY <1>6 DEF Wait, TypeOK
<1>7. CASE TimeOut(s)
  BY <1>7 DEF TimeOut, TypeOK
<1>8. CASE Resume(s)
  BY <1>8 DEF Resume, TypeOK
<1>9. CASE RemTable(s)
  BY <1>9, GatewayAssumption DEF RemTable, TypeOK
<1> QED BY <1>1, <1>2, <1>3, <1>4, <1>5, <1>6, <1>7, <1>8, <1>9 DEF CallStep

\* A caller is in the table from apicmdgw_addtable to apicmdgw_remtable.
LEMMA CallerTableInv ==
  ASSUME IInv, NEW s \in Sender, Begin(s) \/ CallStep(s) PROVE TableInv'
<1> USE DEF IInv, Inv, Goto, Return, Leave,
           callVars, tblVars, relVars, taskVars, modemVars
<1>1. CASE Begin(s)
  <2>1. pc' = [pc EXCEPT ![s] = "add"] /\ table' = table \ {s}
    BY <1>1 DEF Begin, TypeOK, TableInv, InTable
  <2> QED BY <1>1, <2>1, CallerTable DEF Begin, Place, TableInv, InTable
<1>2. CASE NoEntry(s)
  <2>1. pc' = [pc EXCEPT ![s] = "idle"] /\ table' = table \ {s}
    BY <1>2 DEF NoEntry, TypeOK, TableInv, InTable
  <2> QED BY <1>2, <2>1, CallerTable DEF NoEntry, Place, TableInv, InTable
<1>3. CASE AddTable(s)
  <2>1. pc' = [pc EXCEPT ![s] = "send"] /\ table' = table \cup {s}
    BY <1>3 DEF AddTable, TypeOK, TableInv, InTable
  <2> QED BY <1>3, <2>1, CallerTable DEF AddTable, Place, TableInv, InTable
<1>4. CASE SendOk(s)
  <2>1. pc' = [pc EXCEPT ![s] = "sent"] /\ table' = table \cup {s}
    BY <1>4 DEF SendOk, TypeOK, TableInv, InTable
  <2> QED BY <1>4, <2>1, CallerTable DEF SendOk, Place, TableInv, InTable
<1>5. CASE SendFails(s)
  <2>1. pc' = [pc EXCEPT ![s] = "remove"] /\ table' = table \cup {s}
    BY <1>5 DEF SendFails, TypeOK, TableInv, InTable
  <2> QED BY <1>5, <2>1, CallerTable DEF SendFails, Place, TableInv, InTable
<1>6. CASE Wait(s)
  <2>1. pc' = [pc EXCEPT ![s] = "wait"] /\ table' = table \cup {s}
    BY <1>6 DEF Wait, TypeOK, TableInv, InTable
  <2> QED BY <1>6, <2>1, CallerTable DEF Wait, Place, TableInv, InTable
<1>7. CASE TimeOut(s)
  <2>1. pc' = [pc EXCEPT ![s] = "remove"] /\ table' = table \cup {s}
    BY <1>7 DEF TimeOut, TypeOK, TableInv, InTable
  <2> QED BY <1>7, <2>1, CallerTable DEF TimeOut, Place, TableInv, InTable
<1>8. CASE Resume(s)
  <2>1. pc' = [pc EXCEPT ![s] = "remove"] /\ table' = table \cup {s}
    BY <1>8 DEF Resume, TypeOK, TableInv, InTable
  <2> QED BY <1>8, <2>1, CallerTable DEF Resume, Place, TableInv, InTable
<1>9. CASE RemTable(s)
  <2>1. pc' = [pc EXCEPT ![s] = "idle"] /\ table' = table \ {s}
    BY <1>9 DEF RemTable, TypeOK, TableInv, InTable
  <2> QED BY <1>9, <2>1, CallerTable DEF RemTable, Place, TableInv, InTable
<1> QED BY <1>1, <1>2, <1>3, <1>4, <1>5, <1>6, <1>7, <1>8, <1>9 DEF CallStep

\* A caller does not finalize.
LEMMA CallerFinInv ==
  ASSUME IInv, NEW s \in Sender, Begin(s) \/ CallStep(s) PROVE FinInv'
<1> USE DEF IInv, Inv, Goto, Return, Leave,
           callVars, tblVars, relVars, taskVars, modemVars
<1>1. CASE Begin(s)
  BY <1>1 DEF Begin, FinInv
<1>2. CASE NoEntry(s)
  BY <1>2 DEF NoEntry, FinInv
<1>3. CASE AddTable(s)
  BY <1>3 DEF AddTable, FinInv
<1>4. CASE SendOk(s)
  BY <1>4 DEF SendOk, FinInv
<1>5. CASE SendFails(s)
  BY <1>5 DEF SendFails, FinInv
<1>6. CASE Wait(s)
  BY <1>6 DEF Wait, FinInv
<1>7. CASE TimeOut(s)
  BY <1>7 DEF TimeOut, FinInv
<1>8. CASE Resume(s)
  BY <1>8 DEF Resume, FinInv
<1>9. CASE RemTable(s)
  BY <1>9 DEF RemTable, FinInv
<1> QED BY <1>1, <1>2, <1>3, <1>4, <1>5, <1>6, <1>7, <1>8, <1>9 DEF CallStep

\* A command is known once it is sent.
LEMMA CallerFreshInv ==
  ASSUME IInv, NEW s \in Sender, Begin(s) \/ CallStep(s) PROVE FreshInv'
<1> USE DEF IInv, Inv, Goto, Return, Leave,
           callVars, tblVars, relVars, taskVars, modemVars
<1>1. CASE Begin(s)
  <2>1. transid \in Nat /\ tid' = [tid EXCEPT ![s] = transid + 1] /\ transid' = transid + 1
        /\ pc' = [pc EXCEPT ![s] = "add"] /\ Known' = Known
    BY <1>1, GatewayAssumption DEF Begin, TypeOK, Known
  <2>2. <<s, transid + 1>> \notin Known
    BY <2>1 DEF FreshInv
  <2> QED BY <2>1, <2>2 DEF FreshInv, TypeOK
<1>2. CASE NoEntry(s)
  <2>1. Known' = Known
    BY <1>2 DEF NoEntry, Known
  <2>2. transid \in Nat /\ tid' = [tid EXCEPT ![s] = 0] /\ pc' = [pc EXCEPT ![s] = "idle"]
        /\ transid' = transid
    BY <1>2, GatewayAssumption DEF NoEntry, TypeOK
  <2> QED BY <2>1, <2>2 DEF FreshInv, TypeOK
<1>3. CASE AddTable(s)
  BY <1>3, GatewayAssumption DEF AddTable, TypeOK, FreshInv, Known
<1>4. CASE SendOk(s)
  BY <1>4, GatewayAssumption DEF SendOk, TypeOK, FreshInv, Known
<1>5. CASE SendFails(s)
  BY <1>5, GatewayAssumption DEF SendFails, TypeOK, FreshInv, Known
<1>6. CASE Wait(s)
  BY <1>6, GatewayAssumption DEF Wait, TypeOK, FreshInv, Known
<1>7. CASE TimeOut(s)
  BY <1>7, GatewayAssumption DEF TimeOut, TypeOK, FreshInv, Known
<1>8. CASE Resume(s)
  BY <1>8, GatewayAssumption DEF Resume, TypeOK, FreshInv, Known
<1>9. CASE RemTable(s)
  BY <1>9, GatewayAssumption DEF RemTable, TypeOK, FreshInv, Known
<1> QED BY <1>1, <1>2, <1>3, <1>4, <1>5, <1>6, <1>7, <1>8, <1>9 DEF CallStep

\* What the entry of a caller tells.
LEMMA CallerEntryInv ==
  ASSUME IInv, NEW s \in Sender, Begin(s) \/ CallStep(s) PROVE EntryInv'
<1> USE DEF IInv, Inv, Goto, Return, Leave,
           callVars, tblVars, relVars, taskVars, modemVars
<1>1. CASE Begin(s)
  BY <1>1, GatewayAssumption DEF Begin, TypeOK, TableInv, InTable, FreshInv, EntryInv
<1>2. CASE NoEntry(s)
  BY <1>2, GatewayAssumption DEF NoEntry, TypeOK, TableInv, InTable, FreshInv, EntryInv
<1>3. CASE AddTable(s)
  BY <1>3, GatewayAssumption DEF AddTable, TypeOK, TableInv, InTable, FreshInv, EntryInv
<1>4. CASE SendOk(s)
  BY <1>4, GatewayAssumption DEF SendOk, TypeOK, TableInv, InTable, FreshInv, EntryInv
<1>5. CASE SendFails(s)
  BY <1>5, GatewayAssumption DEF SendFails, TypeOK, TableInv, InTable, FreshInv, EntryInv
<1>6. CASE Wait(s)
  BY <1>6, GatewayAssumption DEF Wait, TypeOK, TableInv, InTable, FreshInv, EntryInv
<1>7. CASE TimeOut(s)
  BY <1>7, GatewayAssumption DEF TimeOut, TypeOK, TableInv, InTable, FreshInv, EntryInv
<1>8. CASE Resume(s)
  BY <1>8, GatewayAssumption DEF Resume, TypeOK, TableInv, InTable, FreshInv, EntryInv
<1>9. CASE RemTable(s)
  BY <1>9, GatewayAssumption DEF RemTable, TypeOK, TableInv, InTable, FreshInv, EntryInv
<1> QED BY <1>1, <1>2, <1>3, <1>4, <1>5, <1>6, <1>7, <1>8, <1>9 DEF CallStep

-----------------------------------------------------------------------------
(* Steps of the receive task *)

\* A message that is not damaged is an answer to a command that was sent.
LEMMA WriteTableIInv ==
  ASSUME IInv, WriteTable PROVE IInv'
<1> USE DEF IInv, Inv, WriteTable, Receive, relVars
<1>1. PICK s \in Matches :
        /\ target' = s
        /\ IF Received.form = "fits"
           THEN result' = [result EXCEPT ![s] = "OK"] /\ buf' = [buf EXCEPT ![s] = Received.tid]
           ELSE result' = [result EXCEPT ![s] = "ENOSPC"] /\ UNCHANGED buf
  OBVIOUS
<1>2. s \in Sender /\ s \in table /\ tid[s] = Received.tid /\ <<s, tid[s]>> \in Known
      /\ Received.tid \in 1 .. MaxCalls
  BY <1>1, HeadMessage DEF Matches, TypeOK, TableInv, InTable, Message
<1>3. pc[s] \in {"sent", "wait", "awake", "remove"}
  BY <1>2 DEF FreshInv, TypeOK, TableInv, InTable
<1>4. Known' \subseteq Known /\ inq' \in Seq(Message)
  BY TailMessages
<1>5. TypeOK'
  <2>1. /\ result' \in [Sender -> {"OK", "ENOSPC", "ENETDOWN"}]
        /\ buf' \in [Sender -> 0 .. MaxCalls]
    <3>1. /\ result \in [Sender -> {"OK", "ENOSPC", "ENETDOWN"}]
          /\ buf \in [Sender -> 0 .. MaxCalls]
          /\ Received.tid \in 0 .. MaxCalls
      BY <1>2 DEF TypeOK
    <3>2. CASE Received.form = "fits"
      BY <1>1, <1>2, <3>1, <3>2
    <3>3. CASE Received.form # "fits"
      BY <1>1, <1>2, <3>1, <3>3
    <3> QED BY <3>2, <3>3
  <2> QED BY <1>1, <1>2, <1>4, <2>1 DEF TypeOK
<1>6. TableInv'
  BY <1>1, <1>2, GatewayAssumption DEF TableInv, InTable
<1>7. FinInv'
  BY DEF FinInv
<1>8. FreshInv'
  BY <1>4 DEF FreshInv
<1>9. EntryInv'
  <2>1. target = None /\ None \notin Sender
    BY GatewayAssumption DEF TableInv
  <2>2. /\ buf'[s] \in {buf[s], tid[s]}
        /\ result'[s] = "ENOSPC" \/ buf'[s] = tid[s]
        /\ \A u \in Sender \ {s} : buf'[u] = buf[u] /\ result'[u] = result[u]
    BY <1>1, <1>2 DEF TypeOK
  <2>3. UNCHANGED <<pc, tid, woken, ret>>
    OBVIOUS
  <2> QED BY <1>1, <1>2, <1>3, <2>1, <2>2, <2>3 DEF EntryInv
<1> QED BY <1>5, <1>6, <1>7, <1>8, <1>9

LEMMA SignalReplyIInv ==
  ASSUME IInv, SignalReply PROVE IInv'
<1> USE DEF IInv, Inv, SignalReply, Signal, relVars, modemVars
<1>1. target \in Sender /\ target \in table
  BY DEF TypeOK, TableInv
<1>2. TypeOK'
  BY <1>1 DEF TypeOK
<1>3. TableInv'
  BY <1>1, GatewayAssumption DEF TypeOK, TableInv, InTable
<1>4. FinInv'
  BY DEF FinInv
<1>5. FreshInv'
  <2>1. Known' = Known /\ UNCHANGED <<transid, tid>>
    BY DEF Known
  <2>2. \A s \in Sender : pc'[s] = pc[s] \/ (pc[s] = "wait" /\ pc'[s] = "awake")
    <3>1. pc \in [Sender -> Place]
      BY DEF TypeOK, Place
    <3> QED BY <1>1, <3>1
  <2> QED BY <2>1, <2>2 DEF FreshInv
<1>6. EntryInv'
  BY <1>1, GatewayAssumption DEF TypeOK, EntryInv, HoldsCond
<1> QED BY <1>2, <1>3, <1>4, <1>5, <1>6

\* The other steps touch neither callers nor table.
LEMMA TaskIInv ==
  ASSUME IInv, Dispatch \/ Damaged \/ EndTask PROVE IInv'
<1> USE DEF IInv, Inv, Receive, callVars, tblVars, relVars, taskVars, modemVars
<1>1. inq' \in Seq(Message) /\ Known' \subseteq Known
  <2>1. CASE Dispatch \/ Damaged
    BY <2>1, TailMessages DEF Dispatch, Damaged
  <2>2. CASE EndTask
    BY <2>2 DEF EndTask, TypeOK, Known
  <2> QED BY <2>1, <2>2
<1>2. TypeOK'
  BY <1>1 DEF Dispatch, Damaged, EndTask, TypeOK
<1>3. TableInv'
  BY DEF Dispatch, Damaged, EndTask, TableInv, InTable
<1>4. FinInv'
  BY DEF Dispatch, Damaged, EndTask, FinInv
<1>5. FreshInv'
  BY <1>1 DEF Dispatch, Damaged, EndTask, FreshInv
<1>6. EntryInv'
  BY DEF Dispatch, Damaged, EndTask, EntryInv
<1> QED BY <1>2, <1>3, <1>4, <1>5, <1>6
-----------------------------------------------------------------------------
(* Steps of the threads that release the callers, and of the modem *)

\* They leave the entries as they are, and make no command known.
LEMMA AbortIInv ==
  ASSUME IInv, NEW a \in Aborter, Restarted(a) \/ PowerOff(a) PROVE IInv'
<1> USE DEF IInv, Inv, Restarted, PowerOff, callVars, tblVars, taskVars
<1>1. a \in Releaser /\ a # Fin /\ rel' = [rel EXCEPT ![a] = "mark"] /\ rel[a] = "idle"
  BY GatewayAssumption DEF Releaser
<1>2. inq' \in Seq(Message) /\ Known' \subseteq Known
  <2>1. CASE Restarted(a)
    BY <2>1 DEF TypeOK, Known
  <2>2. CASE PowerOff(a)
    <3>1. inq' = <<>> /\ Len(inq') = 0 /\ pending' = {}
      BY <2>2
    <3>2. Known' = {}
      BY <3>1 DEF Known
    <3> QED BY <3>1, <3>2
  <2> QED BY <2>1, <2>2
<1>3. TypeOK'
  BY <1>1, <1>2 DEF TypeOK
<1>4. TableInv'
  BY <1>1 DEF TypeOK, TableInv, InTable
<1>5. FinInv'
  BY <1>1 DEF TypeOK, FinInv
<1>6. FreshInv'
  BY <1>2 DEF FreshInv
<1>7. EntryInv'
  BY DEF EntryInv
<1> QED BY <1>3, <1>4, <1>5, <1>6, <1>7

\* The receive task is not about to signal when entries are marked.
LEMMA MarkIInv ==
  ASSUME IInv, NEW a \in Aborter, Mark(a) PROVE IInv'
<1> USE DEF IInv, Inv, Mark, tblVars, taskVars, modemVars
<1>1. a \in Releaser /\ a # Fin /\ target = None
  BY GatewayAssumption DEF Releaser, TableInv
<1>2. TypeOK'
  BY <1>1 DEF TypeOK
<1>3. TableInv'
  BY <1>1 DEF TypeOK, TableInv, InTable
<1>4. FinInv'
  BY <1>1 DEF TypeOK, FinInv
<1>5. FreshInv'
  BY DEF FreshInv, Known
<1>6. EntryInv'
  <2>1. \A s \in Sender : result'[s] \in {result[s], "ENETDOWN"}
    BY DEF TypeOK
  <2> QED BY <1>1, <2>1, GatewayAssumption DEF EntryInv
<1> QED BY <1>2, <1>3, <1>4, <1>5, <1>6

\* A thread takes the table, or has found it empty.
LEMMA ReleaseAllIInv ==
  ASSUME IInv, NEW r \in Releaser, ReleaseAll(r) PROVE IInv'
<1> USE DEF IInv, Inv, ReleaseAll, callVars, taskVars, modemVars
<1>1. TypeOK'
  <2>1. After(r) \in Step /\ table \in SUBSET Sender
    BY DEF After, Step, TypeOK
  <2>2. rel' \in [Releaser -> Step] /\ tblmtx' \in Releaser \cup {Recv, None}
    BY <2>1, ZenonT(30) DEF TypeOK, Step
  <2>3. todo' \in [Releaser -> SUBSET Sender]
    BY <2>1 DEF TypeOK
  <2> QED BY <2>2, <2>3 DEF TypeOK, Step
<1>2. TableInv'
  BY GatewayAssumption DEF TypeOK, TableInv, InTable, After
<1>3. FinInv'
  BY DEF TypeOK, FinInv, After, Releaser
<1>4. FreshInv'
  BY DEF FreshInv, Known
<1>5. EntryInv'
  BY DEF EntryInv
<1> QED BY <1>1, <1>2, <1>3, <1>4, <1>5

\* Whoever releases a caller that waits wakes it.
LEMMA ReleaseOneIInv ==
  ASSUME IInv, NEW r \in Releaser, NEW s \in Sender, ReleaseOne(r, s) PROVE IInv'
<1> USE DEF IInv, Inv, ReleaseOne, Signal, taskVars, modemVars
<1>1. rel[r] = "signal" /\ tblmtx = r /\ target = None
  BY GatewayAssumption DEF TableInv
<1>2. TypeOK'
  BY DEF TypeOK, After
<1>3. TableInv'
  BY <1>1, GatewayAssumption DEF TypeOK, TableInv, InTable, After
<1>4. FinInv'
  BY <1>1 DEF TypeOK, FinInv, After, Releaser
<1>5. \A u \in Sender : \/ pc'[u] = pc[u] /\ woken'[u] = woken[u]
                        \/ pc[u] = "wait" /\ pc'[u] = "awake" /\ woken'[u] = "abort"
  BY DEF TypeOK
<1>6. FreshInv'
  BY <1>5 DEF FreshInv, Known
<1>7. EntryInv'
  BY <1>1, <1>5 DEF EntryInv
<1> QED BY <1>2, <1>3, <1>4, <1>6, <1>7

\* apicmdgw_fin and apicmdgw_init
LEMMA FinIInv ==
  ASSUME IInv, FinAbort \/ FinJoined \/ FinDelete \/ GwInit PROVE IInv'
<1> USE DEF IInv, Inv, FinAbort, FinJoined, FinDelete, GwInit,
            callVars, tblVars, taskVars, modemVars
<1>1. Fin \in Releaser
  BY DEF Releaser
<1>2. TypeOK'
  <2>1. CASE FinAbort
    BY <1>1, <2>1, Zenon DEF TypeOK
  <2>2. CASE FinJoined
    BY <1>1, <2>2, Zenon DEF TypeOK
  <2>3. CASE FinDelete
    BY <1>1, <2>3, Zenon DEF TypeOK
  <2>4. CASE GwInit
    BY <1>1, <2>4, Zenon DEF TypeOK
  <2> QED BY <2>1, <2>2, <2>3, <2>4
<1>3. TableInv'
  BY <1>1, GatewayAssumption DEF TypeOK, TableInv, InTable, FinInv
<1>4. FinInv'
  BY <1>1 DEF TypeOK, FinInv
<1>5. FreshInv'
  BY DEF FreshInv, Known
<1>6. EntryInv'
  BY DEF EntryInv
<1> QED BY <1>2, <1>3, <1>4, <1>5, <1>6

LEMMA ModemIInv ==
  ASSUME IInv, ModemStarts \/ \E p \in pending : Reply(p) PROVE IInv'
<1> USE DEF IInv, Inv, callVars, tblVars, relVars, taskVars
<1>1. /\ inq' \in Seq(Message) /\ pending' \subseteq pending
      /\ Known' \subseteq Known \cup {<<None, 0>>}
  <2>1. CASE ModemStarts
    BY <2>1 DEF ModemStarts, TypeOK, Known
  <2>2. ASSUME NEW p \in pending, Reply(p)
        PROVE  /\ inq' \in Seq(Message) /\ pending' \subseteq pending
               /\ Known' \subseteq Known \cup {<<None, 0>>}
    BY <2>2, AppendMessage DEF Reply
  <2> QED BY <2>1, <2>2
<1>2. TypeOK'
  BY <1>1 DEF ModemStarts, Reply, TypeOK
<1>3. TableInv' /\ FinInv' /\ EntryInv'
  BY DEF ModemStarts, Reply, TableInv, InTable, FinInv, EntryInv
<1>4. FreshInv'
  <2>1. \A q \in Known' : q \in Known \/ q = <<None, 0>>
    BY <1>1
  <2>2. \A s \in Sender : <<s, tid[s]>> \in Known' => <<s, tid[s]>> \in Known
    BY <2>1, GatewayAssumption
  <2>3. transid \in Nat
    BY GatewayAssumption DEF TypeOK
  <2>4. UNCHANGED <<transid, pc, tid>>
    BY DEF ModemStarts, Reply
  <2> QED BY <2>1, <2>2, <2>3, <2>4 DEF FreshInv
<1> QED BY <1>1, <1>2, <1>3, <1>4
-----------------------------------------------------------------------------
\* Every step keeps the invariant.
LEMMA NextIInv == IInv /\ [Next]_gwVars => IInv'
<1> SUFFICES ASSUME IInv, [Next]_gwVars PROVE IInv'
  OBVIOUS
<1>1. ASSUME NEW s \in Sender, Begin(s) \/ CallStep(s) PROVE IInv'
  BY <1>1, CallerTypeOK, CallerTableInv, CallerFinInv, CallerFreshInv, CallerEntryInv
     DEF IInv, Inv
<1>2. CASE TaskStep
  BY <1>2, WriteTableIInv, SignalReplyIInv, TaskIInv DEF TaskStep
<1>3. ASSUME NEW r \in Releaser, ReleaseStep(r) PROVE IInv'
  BY <1>3, ReleaseAllIInv, ReleaseOneIInv DEF ReleaseStep
<1>4. ASSUME NEW a \in Aborter, PowerOff(a) \/ AbortStep(a) PROVE IInv'
  BY <1>3, <1>4, AbortIInv, MarkIInv DEF AbortStep, Releaser
<1>5. CASE FinAbort \/ FinStep \/ FinDelete \/ GwInit
  BY <1>3, <1>5, FinIInv DEF FinStep, Releaser
<1>6. CASE ModemStarts \/ \E p \in pending : Reply(p)
  BY <1>6, ModemIInv
<1>7. CASE UNCHANGED gwVars
  BY <1>7 DEF gwVars, callVars, tblVars, relVars, taskVars, modemVars, IInv, Inv, TypeOK,
              TableInv, InTable, FinInv, FreshInv, Known, EntryInv
<1> QED BY <1>1, <1>2, <1>4, <1>5, <1>6, <1>7 DEF Next

\* Hence it holds in every reachable state.
LEMMA SpecIInv == Spec => []IInv
  BY InitIInv, NextIInv, PTL DEF Spec

\* No entry is written, marked or signalled after it was freed.
THEOREM EntriesLive == Spec => []Inv
<1>1. IInv => Inv
  BY DEF IInv
<1> QED BY <1>1, SpecIInv, PTL

\* No caller gets the reply to another command, and success means that the
\* reply is there, unless another thread released the caller.
THEOREM RepliesOwn == Spec => []OwnReply
<1>1. IInv => OwnReply
  BY DEF IInv, EntryInv, OwnReply
<1> QED BY <1>1, SpecIInv, PTL

\* Nobody waits for a reply that was written, but for the signal to come.
THEOREM RepliesWake == Spec => []NoLostReply
<1>1. IInv => NoLostReply
  BY DEF IInv, EntryInv, NoLostReply
<1> QED BY <1>1, SpecIInv, PTL
=============================================================================
