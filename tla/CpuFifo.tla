------------------------------ MODULE CpuFifo ------------------------------
(***************************************************************************)
(* sdk/bsp/src/cxd56_cpufifo.c: the driver of the inter-CPU FIFO.          *)
(*                                                                         *)
(* A sender writes a two-word message into the hardware PUSH FIFO.  When   *)
(* that is full the message is parked in one of NR_PUSHBUFENTRIES entries  *)
(* and the FIFO_TO interrupt, raised while the PUSH FIFO has room, is      *)
(* enabled; its handler moves one entry per interrupt and disables the     *)
(* interrupt when nothing is parked.  Messages of the other CPUs arrive    *)
(* in the PULL FIFO; the FIFO_FROM handler hands them, one per interrupt,  *)
(* to the receive handler that is registered, and drops them otherwise.    *)
(*                                                                         *)
(* cxd56_cfpush runs inside a critical section and the handlers run at     *)
(* interrupt level of the one CPU, so each is one atomic action here.  The *)
(* state is the one after cxd56_cfinitialize.                              *)
(***************************************************************************)
EXTENDS Naturals, Sequences

CONSTANTS Msg,                 \* the two-word messages
          NR_PUSHBUFENTRIES,   \* entries of g_pushbuffer
          HwDepth,             \* depth of each hardware FIFO
          Handler,             \* receive handlers a client may register
          NoHandler            \* g_cfrxhandler == NULL

ASSUME FifoAssumption ==
  /\ NR_PUSHBUFENTRIES \in Nat \ {0}
  /\ HwDepth \in Nat \ {0}
  /\ NoHandler \notin Handler

VARIABLES hwPush,        \* words in the hardware PUSH FIFO, oldest first
          pushqueue,     \* g_pushqueue: entries waiting for room
          emptyqueue,    \* g_emptyqueue: unused entries
          buffer,        \* data of g_pushbuffer
          txIrqEnabled,  \* FIFO_TO enabled in the interrupt controller
          result,        \* what the last cxd56_cfpush returned
          hwPull,        \* words in the hardware PULL FIFO, oldest first
          rxhandler,     \* g_cfrxhandler
          handled        \* the last handler called and its word

txVars == <<hwPush, pushqueue, emptyqueue, buffer, txIrqEnabled, result>>
rxVars == <<hwPull, rxhandler, handled>>
fifoVars == <<hwPush, pushqueue, emptyqueue, buffer, txIrqEnabled, result,
              hwPull, rxhandler, handled>>

Entry == 1 .. NR_PUSHBUFENTRIES

\* cxd56_cfinitialize: every entry is free, only FIFO_FROM is enabled.
TxInit == /\ hwPush = <<>>
          /\ pushqueue = <<>>
          /\ emptyqueue = [i \in Entry |-> i]
          /\ buffer \in [Entry -> Msg]
          /\ txIrqEnabled = FALSE
          /\ result = "none"

RxInit == /\ hwPull = <<>>
          /\ rxhandler = NoHandler
          /\ handled = NoHandler

Init == TxInit /\ RxInit

\* Mutant: the full condition is noticed one word too late.
MutantFullLate == Len(hwPush) > HwDepth

HwPushFull == Len(hwPush) = HwDepth

\* cpufifo_trypush
TryPush(m) == hwPush' = IF HwPushFull THEN hwPush ELSE Append(hwPush, m)

\* cpufifo_reserve when an entry is free
Reserve(m) == /\ emptyqueue # <<>>
              /\ buffer' = [buffer EXCEPT ![Head(emptyqueue)] = m]
              /\ pushqueue' = Append(pushqueue, Head(emptyqueue))
              /\ emptyqueue' = Tail(emptyqueue)

\* cpufifo_reserve when none is
ReserveFails == /\ emptyqueue = <<>>
                /\ UNCHANGED <<buffer, pushqueue, emptyqueue>>

\* Something is parked already: park behind it to keep the order.
PushBehind(m) ==
  /\ pushqueue # <<>>
  /\ \/ Reserve(m) /\ result' = "OK"
     \/ ReserveFails /\ result' = "EAGAIN"
  /\ UNCHANGED <<hwPush, txIrqEnabled>>

\* Mutant: the hardware is tried first even when messages are parked.
MutantPushOvertakes(m) ==
  /\ ~HwPushFull
  /\ TryPush(m)
  /\ result' = "OK"
  /\ UNCHANGED <<pushqueue, emptyqueue, buffer, txIrqEnabled>>

\* Nothing is parked and the hardware takes the message.
PushDirect(m) ==
  /\ pushqueue = <<>>
  /\ ~HwPushFull
  /\ TryPush(m)
  /\ result' = "OK"
  /\ UNCHANGED <<pushqueue, emptyqueue, buffer, txIrqEnabled>>

\* Mutant: parking the first message forgets up_enable_irq.
MutantPushFirstNoIrq(m) ==
  /\ pushqueue = <<>>
  /\ HwPushFull
  /\ Reserve(m) \/ ReserveFails
  /\ result' = "OK"
  /\ UNCHANGED <<hwPush, txIrqEnabled>>

\* Nothing is parked but the hardware is full: the result of the
\* reservation is not looked at, OK is returned in any case.
PushFirst(m) ==
  /\ pushqueue = <<>>
  /\ HwPushFull
  /\ Reserve(m) \/ ReserveFails
  /\ txIrqEnabled' = TRUE
  /\ result' = "OK"
  /\ UNCHANGED hwPush

\* cxd56_cfpush
PushWord(m) == PushBehind(m) \/ PushDirect(m) \/ PushFirst(m)

Push(m) == PushWord(m) /\ UNCHANGED rxVars

\* The condition under which the controller delivers FIFO_TO.
TxIrqRaised == txIrqEnabled /\ ~HwPushFull

\* Mutant: the moved entry is not put back into g_emptyqueue.
MutantTxMoveLeaks ==
  \/ /\ pushqueue # <<>>
     /\ TryPush(buffer[Head(pushqueue)])
     /\ pushqueue' = Tail(pushqueue)
     /\ UNCHANGED emptyqueue
  \/ /\ pushqueue = <<>>
     /\ UNCHANGED <<hwPush, pushqueue, emptyqueue>>

\* cpufifo_txhandler
TxMove ==
  \/ /\ pushqueue # <<>>
     /\ TryPush(buffer[Head(pushqueue)])
     /\ pushqueue' = Tail(pushqueue)
     /\ emptyqueue' = Append(emptyqueue, Head(pushqueue))
  \/ /\ pushqueue = <<>>
     /\ UNCHANGED <<hwPush, pushqueue, emptyqueue>>

TxIrq == /\ TxIrqRaised
         /\ TxMove
         /\ txIrqEnabled' = (pushqueue' # <<>>)
         /\ UNCHANGED <<buffer, result>>
         /\ UNCHANGED rxVars

\* The destination CPU takes the oldest message out of the hardware.
RemoteTake == /\ hwPush # <<>>
              /\ hwPush' = Tail(hwPush)
              /\ UNCHANGED <<pushqueue, emptyqueue, buffer, txIrqEnabled, result>>
              /\ UNCHANGED rxVars

\* Another CPU sends: its hardware waits while the PULL FIFO is full.
RemoteSend(m) == /\ Len(hwPull) < HwDepth
                 /\ hwPull' = Append(hwPull, m)
                 /\ UNCHANGED <<rxhandler, handled>>
                 /\ UNCHANGED txVars

\* cxd56_cfpull
Pull == /\ hwPull # <<>>
        /\ hwPull' = Tail(hwPull)
        /\ UNCHANGED rxhandler

\* cpufifo_rxhandler: one message per interrupt.  What the receive handler
\* does with it is up to the module of that handler.
RxTake == /\ Pull
          /\ handled' = IF rxhandler = NoHandler THEN handled
                        ELSE <<rxhandler, Head(hwPull)>>

RxIrq == RxTake /\ UNCHANGED txVars

\* cxd56_cfregrxhandler: refused while one is registered.
RegRxHandler(h) == /\ rxhandler' = IF rxhandler = NoHandler THEN h ELSE rxhandler
                   /\ UNCHANGED <<hwPull, handled>>
                   /\ UNCHANGED txVars

\* cxd56_cfunregrxhandler
UnregRxHandler == /\ rxhandler' = NoHandler
                  /\ UNCHANGED <<hwPull, handled>>
                  /\ UNCHANGED txVars

Next == \/ \E m \in Msg : Push(m)
        \/ TxIrq
        \/ RemoteTake
        \/ \E m \in Msg : RemoteSend(m)
        \/ RxIrq
        \/ \E h \in Handler : RegRxHandler(h)
        \/ UnregRxHandler

\* An enabled interrupt that stays raised is served, and the destination
\* CPU drains its FIFO.
Fairness == WF_fifoVars(TxIrq) /\ WF_fifoVars(RemoteTake) /\ WF_fifoVars(RxIrq)

SafeSpec == Init /\ [][Next]_fifoVars

Spec == SafeSpec /\ Fairness
-----------------------------------------------------------------------------
\* Every variable has the shape the code gives it.
TypeOK ==
  /\ hwPush \in Seq(Msg) /\ Len(hwPush) <= HwDepth
  /\ pushqueue \in Seq(Entry)
  /\ emptyqueue \in Seq(Entry)
  /\ buffer \in [Entry -> Msg]
  /\ txIrqEnabled \in BOOLEAN
  /\ result \in {"none", "OK", "EAGAIN"}
  /\ hwPull \in Seq(Msg) /\ Len(hwPull) <= HwDepth
  /\ rxhandler \in Handler \cup {NoHandler}
  /\ handled \in {NoHandler} \cup (Handler \X Msg)

\* Each of the NR_PUSHBUFENTRIES entries is in exactly one place of one of
\* the two queues: cxd56_cfpush and cpufifo_txhandler neither leak an entry
\* nor let one be parked twice (which would overwrite a waiting message).
PoolInv ==
  /\ \A i, j \in 1 .. Len(pushqueue) : pushqueue[i] = pushqueue[j] => i = j
  /\ \A i, j \in 1 .. Len(emptyqueue) : emptyqueue[i] = emptyqueue[j] => i = j
  /\ \A i \in 1 .. Len(pushqueue), j \in 1 .. Len(emptyqueue) :
        pushqueue[i] # emptyqueue[j]
  /\ Len(pushqueue) + Len(emptyqueue) = NR_PUSHBUFENTRIES

\* FIFO_TO is enabled exactly while a message is parked: cxd56_cfpush
\* cannot leave a message behind with nobody to move it, and
\* cpufifo_txhandler does not stay raised with nothing to do.
IrqArmedInv == txIrqEnabled <=> pushqueue # <<>>

-----------------------------------------------------------------------------
\* The words of the parked entries, and with what is in the hardware before
\* them everything that was accepted and not delivered yet.
Parked == [i \in 1 .. Len(pushqueue) |-> buffer[pushqueue[i]]]
Undelivered == hwPush \o Parked

\* The channel the driver implements.
Chan == INSTANCE Channel WITH chan <- Undelivered,
                              Capacity <- NR_PUSHBUFENTRIES

\* cxd56_cfpush and cpufifo_txhandler together implement Channel: what was
\* answered OK is delivered once, in the order of the calls, whether it
\* went to the hardware or through an entry; -EAGAIN means no effect and is
\* answered only with a full backlog; every accepted message leaves.
ImplementsChannel == Chan!Spec

=============================================================================
