--------------------------- MODULE PowerMgrProofs ---------------------------
(***************************************************************************)
(* Proofs about the two halves of cxd56_powermgr.c.                        *)
(*                                                                         *)
(* FreqLock, for any threads, locks and backlogs: the mutex makes the      *)
(* caller that changed the flags the only one with a request, so whatever  *)
(* is under way asks for the flags of now.  When the answer comes, granted *)
(* is flag, and every lock that is held is among its reasons.              *)
(*                                                                         *)
(* PowerMgr, for any callbacks: the lock of the list keeps it as it is     *)
(* during a clock change, so the callbacks stopped so far are those of a   *)
(* part of the list, up to the entry called last or between two entries.   *)
(***************************************************************************)
EXTENDS FreqLock, PowerMgr, FiniteSetTheorems, SequenceTheorems, TLAPS

-----------------------------------------------------------------------------
(* The frequency locks: the inductive invariant *)


\* One thread is between taking and giving the mutex, or it is free.
OneHolder == /\ \/ mutex = 1 /\ Holders = {}
                \/ mutex = 0 /\ \E t \in Thread : Holders = {t}
             /\ Blocked # {} => mutex = 0

\* Where the request of a waiting thread can be, and what it asks for.
Nothing == Requests = {} /\ inbox = <<>> /\ answers = 0 /\ answer = 0
InChan == /\ \E i \in 1 .. Len(chan) : Requests = {i} /\ chan[i] = flag
          /\ inbox = <<>> /\ answers = 0 /\ answer = 0
AtSystem == Requests = {} /\ inbox = <<flag>> /\ answers = 0 /\ answer = 0
Answered == Requests = {} /\ inbox = <<>> /\ answers + answer = 1 /\ granted = flag

RequestInv ==
  /\ refused => Waiting # {}
  /\ Waiting = {} \/ refused => Nothing
  /\ Waiting # {} /\ ~refused => InChan \/ AtSystem \/ Answered

\* Threads that have changed the queue and not returned from it.
Edited == {t \in Thread : pc[t] \in {"send", "wait", "asleep", "post"}}

\* A thread that has or will have a request.
Asking == {t \in Thread : pc[t] \in {"send", "wait", "asleep"}}

\* The queue has the locks with a count, and the one being acquired.
QueueInv ==
  /\ \A l \in Lock : count[l] > 0 => l \in freqlockqueue
  /\ \A l \in freqlockqueue :
       count[l] > 0 \/ \E t \in Edited : op[t] = "acquire" /\ arg[t] = l
  /\ \A t \in Edited : op[t] = "acquire" => arg[t] \in freqlockqueue
  /\ flag = Wanted(freqlockqueue) \/ (flag = {} /\ freqlockqueue = {})

\* With no request under way the clock is the one of the flags.
GrantInv ==
  /\ Asking = {} => granted = flag
  /\ HeldGranted

\* up_pm_get_freqlock_count leaves the wakelock alone.
CallInv == \A t \in Thread : pc[t] \in {"wake", "unwake"} => op[t] # "count"

IInv == TypeOK /\ CallInv /\ OneHolder /\ WakelockInv /\ RequestInv /\ QueueInv /\ GrantInv

\* A message on its way to the system CPU.
Word == (SUBSET Flag) \cup {Other}

\* The thread with the mutex is the only one, in whatever set it is.
LEMMA Sole ==
  ASSUME IInv, NEW t \in Holders
  PROVE  /\ Holders = {t} /\ mutex = 0 /\ t \in Thread
         /\ Waiting \subseteq {t} /\ Edited \subseteq {t} /\ Asking \subseteq {t}
<1>1. Holders = {t} /\ mutex = 0
  BY DEF IInv, OneHolder
<1>2. Waiting \subseteq Holders /\ Edited \subseteq Holders /\ Asking \subseteq Holders
  BY DEF Holders, Waiting, Edited, Asking
<1> QED BY <1>1, <1>2 DEF Holders

\* The calls that hold the wakelock can be counted.
LEMMA AwakeFinite == IsFiniteSet(WlockUsers) /\ Cardinality(WlockUsers) \in Nat
<1>1. WlockUsers \subseteq Thread
  BY DEF WlockUsers
<1> QED BY <1>1, FreqLockAssumption, FS_Subset, FS_CardinalityType

\* The flags of any locks are flags.
LEMMA WantedFlags == \A Q \in SUBSET Lock : Wanted(Q) \subseteq Flag
  BY DEF Wanted, Flags, Flag

\* Messages come and go.
LEMMA SeqFacts ==
  ASSUME NEW S, NEW q \in Seq(S)
  PROVE  /\ \A e \in S : Append(q, e) \in Seq(S)
         /\ q # <<>> => Tail(q) \in Seq(S) /\ Head(q) \in S
OBVIOUS

LEMMA ChanFacts ==
  ASSUME TypeOK
  PROVE  /\ chan \in Seq(Word) /\ \A e \in Word : Append(chan, e) \in Seq(Word)
         /\ chan # <<>> => Tail(chan) \in Seq(Word) /\ Head(chan) \in Word
         /\ inbox \in Seq(SUBSET Flag)
         /\ \A e \in SUBSET Flag : Append(inbox, e) \in Seq(SUBSET Flag)
         /\ flag \in Word /\ Other \in Word
         /\ \A e \in Word : e # Other => e \in SUBSET Flag
<1>1. chan \in Seq(Word) /\ inbox \in Seq(SUBSET Flag)
  BY DEF TypeOK, Word
<1>2. flag \in Word /\ Other \in Word
  BY DEF TypeOK, Word
<1>3. \A e \in Word : e # Other => e \in SUBSET Flag
  BY DEF Word
<1> QED BY <1>1, <1>2, <1>3, SeqFacts

\* What an edit finds: nobody else has changed the queue, so a lock in it is
\* one with a count.
LEMMA EditFinds ==
  ASSUME IInv, NEW t \in Thread, pc[t] = "edit"
  PROVE  /\ Holders = {t} /\ Edited = {} /\ Waiting = {} /\ Asking = {}
         /\ \A l \in Lock : l \in freqlockqueue <=> count[l] > 0
         /\ granted = flag /\ ~refused
         /\ op[t] # None /\ arg[t] \in Lock
<1>1. t \in Holders /\ t \notin Edited \cup Waiting \cup Asking
  BY DEF Holders, Edited, Waiting, Asking
<1>2. Holders = {t} /\ Edited = {} /\ Waiting = {} /\ Asking = {}
  BY <1>1, Sole
<1>3. \A l \in Lock : l \in freqlockqueue <=> count[l] > 0
  BY <1>2 DEF IInv, QueueInv
<1>4. granted = flag /\ ~refused
  BY <1>2 DEF IInv, GrantInv, RequestInv
<1> QED BY <1>2, <1>3, <1>4 DEF IInv, TypeOK

\* cxd56_pm_initialize establishes the invariant.
LEMMA InitIInv == Init => IInv
<1> SUFFICES ASSUME Init PROVE IInv
  OBVIOUS
<1> USE FreqLockAssumption DEF Init, Chan!Init
<1>1. TypeOK
  <2>1. \A S : <<>> \in Seq(S)
    OBVIOUS
  <2>2. chan \in Seq((SUBSET Flag) \cup {Other}) /\ inbox \in Seq(SUBSET Flag)
    BY <2>1
  <2>3. \A t \in Thread : pc[t] = "idle" /\ op[t] = None /\ arg[t] = None
    OBVIOUS
  <2> QED BY <2>2, <2>3 DEF TypeOK, PC
<1>2. Holders = {} /\ Blocked = {} /\ Waiting = {} /\ Edited = {} /\ Asking = {} /\ WlockUsers = {}
  BY DEF Holders, Blocked, Waiting, Edited, Asking, WlockUsers
<1>3. OneHolder /\ WakelockInv
  BY <1>2, FS_EmptySet DEF OneHolder, WakelockInv
<1>4. Requests = {}
  BY DEF Requests
<1>5. CallInv /\ RequestInv /\ QueueInv /\ GrantInv
  BY <1>2, <1>4 DEF CallInv, RequestInv, Nothing, QueueInv, GrantInv, HeldGranted
<1> QED BY <1>1, <1>3, <1>5 DEF IInv
-----------------------------------------------------------------------------
(* The types *)

LEMMA ThreadTypeOK ==
  ASSUME IInv, NEW t \in Thread,
         \/ \E o \in {"acquire", "release", "count"}, l \in Lock : Call(t, o, l)
         \/ Step(t) \/ Interrupt(t)
  PROVE  TypeOK'
<1> USE FreqLockAssumption DEF IInv, TypeOK, PC, Goto, lockVars, callVars, cpuVars
<1>1. ASSUME NEW o \in {"acquire", "release", "count"}, NEW l \in Lock, Call(t, o, l)
      PROVE  TypeOK'
  BY <1>1 DEF Call
<1>2. CASE HoldWlock(t)
  BY <1>2 DEF HoldWlock
<1>3. CASE TakeMutex(t)
  BY <1>3 DEF TakeMutex
<1>4. CASE Edit(t)
  <2>1. /\ arg[t] \in Lock
        /\ arg[t] \in freqlockqueue => count[arg[t]] - 1 \in Nat
    BY <1>4, EditFinds DEF Edit
  <2>2. count' \in [Lock -> Nat]
    BY <1>4, <2>1 DEF Edit
  <2>3. freqlockqueue' \subseteq Lock
    BY <1>4, <2>1 DEF Edit, CheckFreqlock, NoCheck
  <2>4. flag' \subseteq Flag
    <3>1. flag' = Wanted(freqlockqueue') \/ flag' = flag
      BY <1>4 DEF Edit, CheckFreqlock, NoCheck
    <3> QED BY <2>3, <3>1, WantedFlags
  <2>5. pc' = [pc EXCEPT ![t] = "post"] \/ pc' = [pc EXCEPT ![t] = "send"]
    BY <1>4 DEF Edit, CheckFreqlock, NoCheck
  <2> QED BY <1>4, <2>2, <2>3, <2>4, <2>5 DEF Edit
<1>5. CASE Send(t)
  <2>1. chan' \in Seq(Word) /\ result' \in {"none", "OK", "EAGAIN"}
    <3>1. CASE Chan!Send(flag)
      BY <3>1, ChanFacts DEF Chan!Send
    <3>2. CASE Chan!Refuse
      BY <3>2, ChanFacts DEF Chan!Refuse
    <3> QED BY <1>5, <3>1, <3>2 DEF Send
  <2> QED BY <1>5, <2>1 DEF Send, Word
<1>6. CASE TakeAnswer(t)
  <2>1. answer' \in Nat /\ pc[t] = "wait"
        /\ \E to \in {"post", "asleep"} : pc' = [pc EXCEPT ![t] = to]
    BY <1>6 DEF TakeAnswer
  <2> QED BY <1>6, <2>1 DEF TakeAnswer
<1>7. CASE Post(t)
  <2>1. arg[t] \in Lock /\ op[t] # None
    BY <1>7 DEF Post
  <2>2. count' \in [Lock -> Nat]
    BY <1>7, <2>1 DEF Post
  <2>3. PICK to \in {"idle", "unwake"} :
          /\ to = "idle" <=> op[t] = "count"
          /\ \/ \E u \in Blocked : pc' = [pc EXCEPT ![t] = to, ![u] = "edit"]
             \/ pc' = [pc EXCEPT ![t] = to]
          /\ mutex' \in {0, 1}
          /\ op' = IF to = "idle" THEN [op EXCEPT ![t] = None] ELSE op
          /\ arg' = IF to = "idle" THEN [arg EXCEPT ![t] = None] ELSE arg
    <3>1. mutex' \in {0, 1}
      BY <1>7 DEF Post, OneHolder, Holders
    <3> QED BY <1>7, <3>1 DEF Post
  <2>4. /\ pc' \in [Thread -> PC]
        /\ \A u \in Thread \ {t} : pc'[u] = "idle" <=> pc[u] = "idle"
        /\ pc'[t] = to
    BY <1>7, <2>3 DEF Post, Blocked
  <2>5. /\ \A u \in Thread : pc'[u] = "idle" <=> op'[u] = None
        /\ \A u \in Thread : pc'[u] = "idle" <=> arg'[u] = None
    BY <2>1, <2>3, <2>4
  <2>6. /\ op' \in [Thread -> {"acquire", "release", "count", None}]
        /\ arg' \in [Thread -> Lock \cup {None}]
    BY <2>3
  <2> QED BY <1>7, <2>2, <2>3, <2>4, <2>5, <2>6 DEF Post
<1>8. CASE DropWlock(t)
  <2>1. t \in WlockUsers
    BY <1>8 DEF DropWlock, WlockUsers, CallInv
  <2>2. wlock - 1 \in Nat
    BY <2>1, AwakeFinite, FS_EmptySet DEF WakelockInv
  <2> QED BY <1>8, <2>2 DEF DropWlock
<1>9. CASE Interrupt(t)
  BY <1>9 DEF Interrupt
<1> QED BY <1>1, <1>2, <1>3, <1>4, <1>5, <1>6, <1>7, <1>8, <1>9 DEF Step

LEMMA OtherTypeOK ==
  ASSUME IInv, AnswerIrq \/ SystemTake \/ SystemAnswer \/ OtherSend
  PROVE  TypeOK'
<1> USE FreqLockAssumption DEF IInv, TypeOK, PC, Goto, lockVars, callVars, cpuVars
<1>1. CASE AnswerIrq
  <2>1. /\ answer' \in Nat /\ answers' \in Nat
        /\ \/ \E t \in Thread : pc[t] = "asleep" /\ pc' = [pc EXCEPT ![t] = "post"]
           \/ UNCHANGED pc
    BY <1>1 DEF AnswerIrq
  <2> QED BY <1>1, <2>1 DEF AnswerIrq
<1>2. CASE SystemTake
  <2>1. chan' \in Seq(Word) /\ Head(chan) \in Word
    BY <1>2, ChanFacts DEF SystemTake, Chan!Deliver
  <2>2. inbox' \in Seq(SUBSET Flag)
    <3>1. CASE Head(chan) = Other
      BY <1>2, <3>1, ChanFacts DEF SystemTake
    <3>2. CASE Head(chan) # Other
      BY <1>2, <2>1, <3>2, ChanFacts DEF SystemTake
    <3> QED BY <3>1, <3>2
  <2> QED BY <1>2, <2>1, <2>2 DEF SystemTake, Chan!Deliver, Word
<1>3. CASE SystemAnswer
  BY <1>3 DEF SystemAnswer
<1>4. CASE OtherSend
  <2>1. chan' \in Seq(Word) /\ result' = "OK"
    BY <1>4, ChanFacts DEF OtherSend, Chan!Send
  <2> QED BY <1>4, <2>1 DEF OtherSend, Word
<1> QED BY <1>1, <1>2, <1>3, <1>4
-----------------------------------------------------------------------------
(* The wakelock *)

\* A thread enters or leaves the calls that hold the wakelock when it counts.
LEMMA ThreadWakelock ==
  ASSUME IInv, NEW t \in Thread,
         \/ \E o \in {"acquire", "release", "count"}, l \in Lock : Call(t, o, l)
         \/ Step(t) \/ Interrupt(t)
  PROVE  CallInv' /\ WakelockInv'
<1> USE DEF IInv, TypeOK, Goto, lockVars, cpuVars
<1>1. ASSUME WlockUsers' = WlockUsers, wlock' = wlock PROVE WakelockInv'
  BY <1>1 DEF WakelockInv
<1>2. ASSUME NEW o \in {"acquire", "release", "count"}, NEW l \in Lock, Call(t, o, l)
      PROVE  CallInv' /\ WakelockInv'
  <2>1. CallInv'
    BY <1>2 DEF Call, CallInv
  <2>2. pc'[t] = "wake" \/ op'[t] = "count"
    BY <1>2 DEF Call
  <2>3. t \notin WlockUsers /\ op[t] = None
    BY <1>2, FreqLockAssumption DEF Call, WlockUsers
  <2>4. WlockUsers' = WlockUsers /\ wlock' = wlock
    BY <1>2, <2>2, <2>3 DEF Call, WlockUsers
  <2> QED BY <1>1, <2>1, <2>4
<1>3. CASE HoldWlock(t)
  <2>1. t \notin WlockUsers /\ op[t] \in {"acquire", "release"}
    BY <1>3 DEF HoldWlock, WlockUsers, CallInv
  <2>2. WlockUsers' = WlockUsers \cup {t}
    BY <1>3, <2>1 DEF HoldWlock, WlockUsers
  <2>3. Cardinality(WlockUsers') = Cardinality(WlockUsers) + 1
    BY <2>1, <2>2, AwakeFinite, FS_AddElement
  <2>4. CallInv'
    BY <1>3 DEF HoldWlock, CallInv
  <2> QED BY <1>3, <2>3, <2>4 DEF HoldWlock, WakelockInv
<1>4. CASE DropWlock(t)
  <2>1. t \in WlockUsers
    BY <1>4 DEF DropWlock, WlockUsers, CallInv
  <2>2. WlockUsers' = WlockUsers \ {t}
    BY <1>4, FreqLockAssumption DEF DropWlock, WlockUsers
  <2>3. Cardinality(WlockUsers') = Cardinality(WlockUsers) - 1
    BY <2>1, <2>2, AwakeFinite, FS_RemoveElement
  <2>4. CallInv'
    BY <1>4 DEF DropWlock, CallInv
  <2> QED BY <1>4, <2>3, <2>4 DEF DropWlock, WakelockInv
<1>5. CASE Post(t)
  <2>1. PICK to \in {"idle", "unwake"} :
          /\ to = "idle" <=> op[t] = "count"
          /\ \/ \E u \in Blocked : pc' = [pc EXCEPT ![t] = to, ![u] = "edit"]
             \/ pc' = [pc EXCEPT ![t] = to]
          /\ op' = IF to = "idle" THEN [op EXCEPT ![t] = None] ELSE op
    BY <1>5 DEF Post
  <2>2. /\ pc[t] = "post" /\ pc'[t] = to
        /\ \A u \in Thread \ {t} : op'[u] = op[u] /\
              (pc'[u] = pc[u] \/ (pc[u] = "blocked" /\ pc'[u] = "edit"))
    BY <1>5, <2>1 DEF Post, Blocked
  <2>3. CallInv'
    BY <2>1, <2>2 DEF CallInv
  <2>4. \A u \in Thread : u \in WlockUsers' <=> u \in WlockUsers
    BY <2>1, <2>2, FreqLockAssumption DEF WlockUsers
  <2>5. WlockUsers' = WlockUsers /\ wlock' = wlock
    BY <1>5, <2>4 DEF Post, WlockUsers
  <2> QED BY <1>1, <2>3, <2>5
<1>6. CASE TakeMutex(t) \/ Edit(t) \/ Send(t) \/ TakeAnswer(t) \/ Interrupt(t)
  <2>1. /\ op' = op /\ wlock' = wlock /\ pc[t] \notin {"wake", "unwake"}
        /\ \E to \in PC \ {"wake", "unwake"} : pc' = [pc EXCEPT ![t] = to]
    BY <1>6 DEF TakeMutex, Edit, CheckFreqlock, NoCheck, Send, TakeAnswer, Interrupt, PC
  <2>2. CallInv' /\ WlockUsers' = WlockUsers
    BY <2>1 DEF CallInv, WlockUsers
  <2> QED BY <1>1, <2>1, <2>2
<1> QED BY <1>2, <1>3, <1>4, <1>5, <1>6 DEF Step
-----------------------------------------------------------------------------
(* The steps of a thread *)

\* Steps that leave the mutex with its holder and touch nothing it guards.
LEMMA OutsideIInv ==
  ASSUME IInv, TypeOK', CallInv', WakelockInv',
         NEW t \in Thread, NEW to \in PC, pc' = [pc EXCEPT ![t] = to],
         \/ {pc[t], to} \subseteq {"idle", "wake", "lock", "blocked", "unwake"}
         \/ {pc[t], to} \subseteq {"wait", "asleep"},
         to = "blocked" => mutex = 0,
         \A u \in Edited : op'[u] = op[u] /\ arg'[u] = arg[u],
         UNCHANGED <<freqlockqueue, count, flag, mutex, answer, chan, cpuVars, refused>>
  PROVE  IInv'
<1> USE DEF cpuVars
<1>1. pc \in [Thread -> PC]
  BY DEF IInv, TypeOK
<1>2. Holders' = Holders /\ Waiting' = Waiting /\ Edited' = Edited /\ Asking' = Asking
  BY <1>1 DEF Holders, Waiting, Edited, Asking
<1>3. Blocked' \subseteq Blocked \cup {t} /\ (t \in Blocked' => to = "blocked")
  BY <1>1 DEF Blocked
<1>4. OneHolder'
  BY <1>2, <1>3 DEF IInv, OneHolder
<1>5. RequestInv'
  BY <1>2 DEF IInv, RequestInv, Nothing, InChan, AtSystem, Answered, Requests
<1>6. QueueInv'
  BY <1>2 DEF IInv, QueueInv
<1>7. GrantInv'
  BY <1>2 DEF IInv, GrantInv, HeldGranted
<1> QED BY <1>4, <1>5, <1>6, <1>7 DEF IInv

\* Sending adds a request, unless the message is another one; taking one from
\* the channel moves the others up.
LEMMA RequestsAppend ==
  ASSUME TypeOK, NEW e \in Word, chan' = Append(chan, e)
  PROVE  /\ Requests' = IF e = Other THEN Requests ELSE Requests \cup {Len(chan) + 1}
         /\ \A i \in 1 .. Len(chan) : i \in 1 .. Len(chan)' /\ chan'[i] = chan[i]
         /\ Len(chan) + 1 \in 1 .. Len(chan)' /\ chan'[Len(chan) + 1] = e
<1>1. chan \in Seq(Word) /\ Len(chan) \in Nat
  BY ChanFacts
<1>2. /\ Len(chan)' = Len(chan) + 1 /\ chan'[Len(chan) + 1] = e
      /\ \A i \in 1 .. Len(chan) : chan'[i] = chan[i]
  BY <1>1
<1>3. \A i : i \in Requests' <=> i \in Requests \/ (i = Len(chan) + 1 /\ e # Other)
  BY <1>1, <1>2 DEF Requests
<1>4. Requests' = IF e = Other THEN Requests ELSE Requests \cup {Len(chan) + 1}
  BY <1>3
<1> QED BY <1>1, <1>2, <1>4

LEMMA RequestsTail ==
  ASSUME TypeOK, chan # <<>>, chan' = Tail(chan)
  PROVE  /\ 1 \in Requests <=> Head(chan) # Other
         /\ \A i : i \in Requests' <=> i \in Nat /\ i # 0 /\ i + 1 \in Requests
         /\ \A i \in Requests' : i \in 1 .. Len(chan)' /\ chan'[i] = chan[i + 1]
<1>1. chan \in Seq(Word) /\ Len(chan) \in Nat /\ Len(chan) > 0
  BY ChanFacts
<1>2. /\ Len(chan)' = Len(chan) - 1 /\ Head(chan) = chan[1]
      /\ \A i \in 1 .. Len(chan) - 1 : chan'[i] = chan[i + 1]
  BY <1>1
<1> QED BY <1>1, <1>2 DEF Requests

\* g_freqlock goes to a thread that has not changed anything yet.
LEMMA TakeMutexIInv ==
  ASSUME IInv, NEW t \in Thread, TakeMutex(t) PROVE IInv'
<1> USE DEF TakeMutex, Goto, lockVars, cpuVars
<1>1. TypeOK' /\ CallInv' /\ WakelockInv'
  BY ThreadTypeOK, ThreadWakelock DEF Step
<1>2. CASE pc'[t] = "blocked"
  BY <1>1, <1>2, OutsideIInv DEF PC, IInv, TypeOK
<1>3. CASE mutex > 0 /\ mutex' = mutex - 1 /\ pc' = [pc EXCEPT ![t] = "edit"]
  <2>1. Holders' = {t} /\ mutex' = 0
    BY <1>3 DEF IInv, TypeOK, OneHolder, Holders
  <2>2. Waiting' = Waiting /\ Edited' = Edited /\ Asking' = Asking
    BY <1>3 DEF IInv, TypeOK, Waiting, Edited, Asking
  <2>3. OneHolder'
    BY <2>1 DEF OneHolder
  <2>4. RequestInv' /\ QueueInv' /\ GrantInv'
    BY <2>2 DEF IInv, RequestInv, Nothing, InChan, AtSystem, Answered, Requests,
                QueueInv, GrantInv, HeldGranted
  <2> QED BY <1>1, <2>3, <2>4 DEF IInv
<1> QED BY <1>2, <1>3 DEF IInv, TypeOK

\* The holder changes the queue: what it asks for is what is wanted now, and
\* locks that stay keep what they have.
LEMMA EditIInv ==
  ASSUME IInv, NEW t \in Thread, Edit(t) PROVE IInv'
<1> USE DEF Edit, Goto, lockVars, cpuVars
<1> DEFINE l == arg[t]
<1>1. TypeOK' /\ CallInv' /\ WakelockInv'
  BY ThreadTypeOK, ThreadWakelock DEF Step
<1>2. /\ pc \in [Thread -> PC] /\ count \in [Lock -> Nat] /\ l \in Lock
      /\ freqlockqueue \subseteq Lock
      /\ Holders = {t} /\ Edited = {} /\ Waiting = {} /\ Asking = {}
      /\ \A k \in Lock : k \in freqlockqueue <=> count[k] > 0
      /\ granted = flag /\ ~refused /\ mutex = 0
  BY EditFinds, Sole DEF IInv, TypeOK
<1>3. PICK to \in {"send", "post"} :
        /\ pc' = [pc EXCEPT ![t] = to]
        /\ to = "post" => flag' = flag
        /\ \/ flag' = Wanted(freqlockqueue')
           \/ freqlockqueue' = freqlockqueue /\ flag' = flag
  BY DEF CheckFreqlock, NoCheck
<1>4. /\ Holders' = {t} /\ Edited' = {t} /\ Waiting' = {}
      /\ Asking' = IF to = "send" THEN {t} ELSE {}
      /\ Blocked' = Blocked
  BY <1>2, <1>3 DEF Holders, Edited, Waiting, Asking, Blocked
<1>5. OneHolder'
  BY <1>2, <1>4 DEF OneHolder, IInv
<1>6. RequestInv'
  BY <1>2, <1>4 DEF IInv, RequestInv, Nothing, Requests
<1>7. /\ \A k \in Lock : count'[k] > 0 => count[k] > 0 /\ k \in freqlockqueue'
      /\ \A k \in freqlockqueue' : count'[k] > 0 \/ (op[t] = "acquire" /\ l = k)
      /\ op[t] = "acquire" => l \in freqlockqueue'
  <2>1. CASE op[t] = "acquire" /\ l \notin freqlockqueue /\ UNCHANGED count
               /\ CheckFreqlock(t, freqlockqueue \cup {l})
    BY <1>2, <2>1 DEF CheckFreqlock
  <2>2. CASE op[t] = "release" /\ l \in freqlockqueue
               /\ count' = [count EXCEPT ![l] = @ - 1]
    <3>1. CASE count[l] = 1
      BY <1>2, <2>2, <3>1 DEF CheckFreqlock
    <3>2. CASE count[l] # 1
      BY <1>2, <2>2, <3>2 DEF NoCheck
    <3> QED BY <3>1, <3>2
  <2>3. CASE /\ op[t] = "acquire" => l \in freqlockqueue
             /\ NoCheck(t) /\ UNCHANGED count
    BY <1>2, <2>3 DEF NoCheck
  <2> QED BY <2>1, <2>2, <2>3
<1>8. QueueInv'
  BY <1>3, <1>4, <1>7 DEF IInv, QueueInv
<1>9. GrantInv'
  BY <1>2, <1>3, <1>4, <1>7 DEF IInv, GrantInv, HeldGranted
<1> QED BY <1>1, <1>5, <1>6, <1>8, <1>9 DEF IInv

\* The request is put into the channel, or refused and its caller lost.
LEMMA SendIInv ==
  ASSUME IInv, NEW t \in Thread, Send(t) PROVE IInv'
<1> USE DEF Send, Goto, lockVars, cpuVars
<1>1. TypeOK' /\ CallInv' /\ WakelockInv'
  BY ThreadTypeOK, ThreadWakelock DEF Step
<1>2. pc \in [Thread -> PC] /\ pc[t] = "send" /\ pc' = [pc EXCEPT ![t] = "wait"]
  BY DEF IInv, TypeOK
<1>3. t \in Holders /\ t \in Edited /\ t \notin Waiting
  BY <1>2 DEF Holders, Edited, Waiting
<1>4. Waiting = {} /\ Nothing /\ ~refused
  BY <1>3, Sole DEF IInv, RequestInv
<1>5. /\ Holders' = Holders /\ Edited' = Edited /\ Asking' = Asking
      /\ Blocked' = Blocked /\ Waiting' = {t}
  BY <1>2, <1>4 DEF Holders, Edited, Asking, Blocked, Waiting
<1>6. OneHolder' /\ QueueInv' /\ GrantInv'
  BY <1>5 DEF IInv, OneHolder, QueueInv, GrantInv, HeldGranted
<1>7. CASE Chan!Send(flag) /\ UNCHANGED refused
  <2>1. flag \in Word /\ flag # Other /\ chan' = Append(chan, flag)
    BY <1>7, ChanFacts, FreqLockAssumption DEF IInv, TypeOK, Chan!Send
  <2>2. InChan'
    BY <1>4, <2>1, RequestsAppend DEF Nothing, InChan, IInv
  <2> QED BY <1>1, <1>4, <1>5, <1>6, <1>7, <2>2 DEF IInv, RequestInv
<1>8. CASE Chan!Refuse /\ refused' = TRUE
  <2>1. Nothing'
    BY <1>4, <1>8 DEF Nothing, Requests, Chan!Refuse
  <2> QED BY <1>1, <1>5, <1>6, <1>8, <2>1 DEF IInv, RequestInv
<1> QED BY <1>7, <1>8

\* A caller that finds the answer goes on at the clock of the flags.
LEMMA TakeAnswerIInv ==
  ASSUME IInv, NEW t \in Thread, TakeAnswer(t) PROVE IInv'
<1> USE DEF TakeAnswer, Goto, lockVars, cpuVars
<1>1. TypeOK' /\ CallInv' /\ WakelockInv'
  BY ThreadTypeOK, ThreadWakelock DEF Step
<1>2. CASE answer = 0 /\ Goto(t, "wait", "asleep") /\ UNCHANGED answer
  BY <1>1, <1>2, OutsideIInv DEF PC
<1>3. CASE answer > 0 /\ answer' = answer - 1 /\ Goto(t, "wait", "post")
  <2>1. pc \in [Thread -> PC] /\ t \in Holders /\ t \in Waiting /\ answers \in Nat
    BY <1>3 DEF IInv, TypeOK, Holders, Waiting
  <2>2. Holders = {t} /\ Waiting = {t} /\ Asking \subseteq {t}
    BY <2>1, Sole
  <2>3. ~refused /\ Answered
    BY <1>3, <2>2 DEF IInv, RequestInv, Nothing, InChan, AtSystem
  <2>4. /\ Holders' = Holders /\ Blocked' = Blocked /\ Edited' = Edited
        /\ Waiting' = {} /\ Asking' = {}
    BY <1>3, <2>1, <2>2 DEF Holders, Blocked, Edited, Waiting, Asking
  <2>5. OneHolder' /\ QueueInv' /\ GrantInv'
    BY <2>3, <2>4 DEF IInv, OneHolder, QueueInv, GrantInv, HeldGranted, Answered
  <2>6. answers' = 0 /\ answer' = 0
    BY <1>3, <2>1, <2>3 DEF Answered, IInv, TypeOK
  <2>7. Requests' = Requests
    BY DEF Requests
  <2>8. RequestInv'
    BY <2>3, <2>4, <2>6, <2>7 DEF RequestInv, Nothing, Answered
  <2> QED BY <1>1, <2>5, <2>8 DEF IInv
<1> QED BY <1>2, <1>3

\* The holder counts its lock, whose flags are granted, and gives the mutex.
LEMMA PostIInv ==
  ASSUME IInv, NEW t \in Thread, Post(t) PROVE IInv'
<1> USE DEF Post, cpuVars
<1>1. TypeOK' /\ CallInv' /\ WakelockInv'
  BY ThreadTypeOK, ThreadWakelock DEF Step
<1>2. /\ pc \in [Thread -> PC] /\ count \in [Lock -> Nat] /\ arg[t] \in Lock
      /\ t \in Holders /\ t \in Edited /\ t \notin Waiting /\ t \notin Asking
  BY DEF IInv, TypeOK, Holders, Edited, Waiting, Asking
<1>3. /\ Holders = {t} /\ Edited = {t} /\ Waiting = {} /\ Asking = {} /\ mutex = 0
      /\ Nothing /\ ~refused /\ granted = flag
  BY <1>2, Sole DEF IInv, RequestInv, GrantInv
<1>4. PICK to \in {"idle", "unwake"} :
        \/ \E u \in Blocked : pc' = [pc EXCEPT ![t] = to, ![u] = "edit"] /\ UNCHANGED mutex
        \/ Blocked = {} /\ pc' = [pc EXCEPT ![t] = to] /\ mutex' = mutex + 1
  OBVIOUS
<1>5. Edited' = {} /\ Waiting' = {} /\ Asking' = {}
  BY <1>2, <1>3, <1>4 DEF Edited, Waiting, Asking, Blocked
<1>6. OneHolder'
  <2>1. ASSUME NEW u \in Blocked, UNCHANGED mutex,
               pc' = [pc EXCEPT ![t] = to, ![u] = "edit"]
        PROVE  OneHolder'
    <3>1. Holders' = {u} /\ u \in Thread
      BY <1>2, <1>3, <2>1 DEF Holders, Blocked
    <3> QED BY <1>3, <2>1, <3>1 DEF OneHolder
  <2>2. CASE Blocked = {} /\ pc' = [pc EXCEPT ![t] = to] /\ mutex' = mutex + 1
    <3>1. Holders' = {} /\ Blocked' = {}
      BY <1>2, <1>3, <2>2 DEF Holders, Blocked
    <3> QED BY <1>3, <2>2, <3>1 DEF OneHolder
  <2> QED BY <1>4, <2>1, <2>2
<1>7. RequestInv'
  BY <1>3, <1>5 DEF RequestInv, Nothing, Requests
<1>8. op[t] = "acquire" => arg[t] \in freqlockqueue
  BY <1>2 DEF IInv, QueueInv
<1>9. \A k \in Lock : count'[k] > 0 <=> count[k] > 0 \/ (op[t] = "acquire" /\ k = arg[t])
  BY <1>2
<1>10. QueueInv'
  <2>1. \A k \in freqlockqueue : k \in Lock /\ count'[k] > 0
    BY <1>3, <1>9 DEF IInv, TypeOK, QueueInv
  <2>2. \A k \in Lock : count'[k] > 0 => k \in freqlockqueue
    BY <1>8, <1>9 DEF IInv, QueueInv
  <2> QED BY <1>5, <2>1, <2>2 DEF IInv, QueueInv
<1>11. GrantInv'
  <2>1. op[t] = "acquire" => Flags(arg[t]) \subseteq granted
    BY <1>3, <1>8 DEF IInv, QueueInv, Wanted
  <2> QED BY <1>3, <1>9, <2>1 DEF IInv, GrantInv, HeldGranted
<1> QED BY <1>1, <1>6, <1>7, <1>10, <1>11 DEF IInv
-----------------------------------------------------------------------------
(* The interrupt, the system CPU and the other senders *)

\* Steps that move the request of the waiting thread, or a message of others.
LEMMA MessageIInv ==
  ASSUME IInv, TypeOK', RequestInv', GrantInv',
         UNCHANGED <<freqlockqueue, count, flag, mutex, wlock, op, arg>>,
         \/ UNCHANGED pc
         \/ \E t \in Thread : pc[t] = "asleep" /\ pc' = [pc EXCEPT ![t] = "post"]
  PROVE  IInv'
<1>1. pc \in [Thread -> PC]
  BY DEF IInv, TypeOK
<1>2. Holders' = Holders /\ Blocked' = Blocked /\ Edited' = Edited /\ WlockUsers' = WlockUsers
  BY <1>1 DEF Holders, Blocked, Edited, WlockUsers
<1>3. OneHolder' /\ WakelockInv' /\ QueueInv'
  BY <1>2 DEF IInv, OneHolder, WakelockInv, QueueInv
<1>4. CallInv'
  BY <1>1 DEF IInv, CallInv
<1> QED BY <1>3, <1>4 DEF IInv

LEMMA AnswerIrqIInv == ASSUME IInv, AnswerIrq PROVE IInv'
<1> USE DEF AnswerIrq, Goto, lockVars
<1>1. TypeOK'
  BY OtherTypeOK
<1>2. Waiting # {} /\ ~refused /\ Answered /\ answers = 1 /\ answer = 0
  BY DEF IInv, TypeOK, RequestInv, Nothing, InChan, AtSystem, Answered
<1>3. ASSUME NEW t \in Thread, Goto(t, "asleep", "post"), UNCHANGED answer
      PROVE  RequestInv' /\ GrantInv'
  <2>1. pc \in [Thread -> PC] /\ t \in Holders
    BY <1>3 DEF IInv, TypeOK, Holders
  <2>2. Waiting' = {} /\ Asking' = {}
    BY <1>3, <2>1, Sole DEF Waiting, Asking
  <2> QED BY <1>2, <1>3, <2>2 DEF RequestInv, Nothing, Answered, Requests,
                                  IInv, GrantInv, HeldGranted
<1>4. ASSUME answer' = answer + 1, UNCHANGED pc PROVE RequestInv' /\ GrantInv'
  <2>1. Waiting' = Waiting /\ Asking' = Asking /\ Requests' = Requests
    BY <1>4 DEF Waiting, Asking, Requests
  <2>2. Answered'
    BY <1>2, <1>4, <2>1 DEF Answered
  <2>3. RequestInv'
    BY <1>2, <2>1, <2>2 DEF RequestInv
  <2>4. GrantInv'
    BY <2>1 DEF IInv, GrantInv, HeldGranted
  <2> QED BY <2>3, <2>4
<1>5. RequestInv' /\ GrantInv'
  BY <1>3, <1>4
<1> QED BY <1>1, <1>5, MessageIInv

LEMMA SystemTakeIInv == ASSUME IInv, SystemTake PROVE IInv'
<1> USE DEF SystemTake, Chan!Deliver, lockVars, callVars
<1>1. TypeOK' /\ chan # <<>> /\ chan' = Tail(chan) /\ TypeOK
  BY OtherTypeOK DEF IInv
<1>2. GrantInv' /\ Waiting' = Waiting
  BY DEF IInv, GrantInv, HeldGranted, Asking, Waiting
<1>3. Requests \subseteq 1 .. Len(chan) /\ Requests' \subseteq Nat
  BY <1>1, RequestsTail DEF Requests
<1>4. Requests = {} => Requests' = {} /\ Head(chan) = Other
  BY <1>1, RequestsTail
<1>5. ASSUME InChan PROVE InChan' \/ AtSystem'
  <2>1. PICK i \in 1 .. Len(chan) : Requests = {i} /\ chan[i] = flag
    BY <1>5 DEF InChan
  <2>2. CASE i = 1
    <3>1. Requests' = {} /\ Head(chan) = flag /\ Head(chan) # Other
      BY <1>1, <2>1, <2>2, RequestsTail, ChanFacts
    <3>2. inbox' = <<flag>>
      BY <1>5, <3>1 DEF InChan
    <3> QED BY <1>5, <3>1, <3>2 DEF InChan, AtSystem
  <2>3. CASE i # 1
    <3>1. Requests' = {i - 1} /\ Head(chan) = Other
      BY <1>1, <2>1, <2>3, RequestsTail
    <3>2. i - 1 \in 1 .. Len(chan)' /\ chan'[i - 1] = flag
      BY <1>1, <2>1, <3>1, RequestsTail
    <3> QED BY <1>5, <3>1, <3>2 DEF InChan
  <2> QED BY <2>2, <2>3
<1>6. RequestInv'
  BY <1>2, <1>4, <1>5 DEF IInv, RequestInv, Nothing, AtSystem, Answered
<1> QED BY <1>1, <1>2, <1>6, MessageIInv

\* The clock is set for the flags of now, which cover every lock held.
LEMMA SystemAnswerIInv == ASSUME IInv, SystemAnswer PROVE IInv'
<1> USE DEF SystemAnswer, lockVars, callVars
<1>1. TypeOK' /\ Waiting' = Waiting /\ Asking' = Asking /\ Requests' = Requests
  BY OtherTypeOK DEF Waiting, Asking, Requests
<1>2. Waiting # {} /\ ~refused /\ AtSystem
  BY DEF IInv, RequestInv, Nothing, InChan, Answered
<1>3. granted' = flag /\ inbox' = <<>> /\ answers' = 1
  BY <1>2 DEF AtSystem
<1>4. RequestInv'
  BY <1>1, <1>2, <1>3 DEF RequestInv, AtSystem, Answered
<1>5. \A k \in Lock : count[k] > 0 => Flags(k) \subseteq flag
  BY DEF IInv, QueueInv, Wanted
<1>6. GrantInv'
  BY <1>1, <1>3, <1>5 DEF GrantInv, HeldGranted
<1> QED BY <1>1, <1>4, <1>6, MessageIInv

LEMMA OtherSendIInv == ASSUME IInv, OtherSend PROVE IInv'
<1> USE DEF OtherSend, Chan!Send, lockVars, callVars, cpuVars
<1>1. TypeOK' /\ Other \in Word /\ chan' = Append(chan, Other) /\ TypeOK
  BY OtherTypeOK, ChanFacts DEF IInv
<1>2. GrantInv' /\ Waiting' = Waiting
  BY DEF IInv, GrantInv, HeldGranted, Asking, Waiting
<1>3. /\ Requests' = Requests
      /\ \A i \in 1 .. Len(chan) : i \in 1 .. Len(chan)' /\ chan'[i] = chan[i]
  BY <1>1, RequestsAppend
<1>4. RequestInv'
  BY <1>2, <1>3 DEF IInv, RequestInv, Nothing, InChan, AtSystem, Answered
<1> QED BY <1>1, <1>2, <1>4, MessageIInv
-----------------------------------------------------------------------------
LEMMA NextIInv == IInv /\ [Next]_freqVars => IInv'
<1> SUFFICES ASSUME IInv, [Next]_freqVars PROVE IInv'
  OBVIOUS
<1> USE DEF Goto, lockVars, cpuVars, callVars
<1>1. ASSUME NEW t \in Thread, NEW o \in {"acquire", "release", "count"}, NEW k \in Lock,
             Call(t, o, k)
      PROVE  IInv'
  <2>1. TypeOK' /\ CallInv' /\ WakelockInv'
    BY <1>1, ThreadTypeOK, ThreadWakelock
  <2>2. t \notin Edited /\ op' = [op EXCEPT ![t] = o] /\ arg' = [arg EXCEPT ![t] = k]
    BY <1>1 DEF Call, Edited
  <2>3. \A u \in Edited : op'[u] = op[u] /\ arg'[u] = arg[u]
    BY <2>2 DEF IInv, TypeOK, Edited
  <2>4. PICK to \in {"lock", "wake"} : pc[t] = "idle" /\ pc' = [pc EXCEPT ![t] = to]
    BY <1>1 DEF Call
  <2> QED BY <1>1, <2>1, <2>3, <2>4, OutsideIInv DEF Call, PC
<1>2. ASSUME NEW t \in Thread, HoldWlock(t) PROVE IInv'
  BY <1>2, ThreadTypeOK, ThreadWakelock, OutsideIInv DEF HoldWlock, Step, PC
<1>3. ASSUME NEW t \in Thread, DropWlock(t) PROVE IInv'
  <2>1. TypeOK' /\ CallInv' /\ WakelockInv'
    BY <1>3, ThreadTypeOK, ThreadWakelock DEF Step
  <2>2. \A u \in Edited : op'[u] = op[u] /\ arg'[u] = arg[u]
    BY <1>3 DEF DropWlock, IInv, TypeOK, Edited
  <2> QED BY <1>3, <2>1, <2>2, OutsideIInv DEF DropWlock, PC
<1>4. ASSUME NEW t \in Thread, Interrupt(t) PROVE IInv'
  BY <1>4, ThreadTypeOK, ThreadWakelock, OutsideIInv DEF Interrupt, PC
<1>5. CASE UNCHANGED freqVars
  <2> USE <1>5 DEF freqVars
  <2>1. /\ Holders' = Holders /\ Blocked' = Blocked /\ Waiting' = Waiting
        /\ Edited' = Edited /\ Asking' = Asking /\ WlockUsers' = WlockUsers /\ Requests' = Requests
    BY DEF Holders, Blocked, Waiting, Edited, Asking, WlockUsers, Requests
  <2>2. TypeOK' /\ CallInv' /\ OneHolder' /\ WakelockInv'
    BY <2>1 DEF IInv, TypeOK, CallInv, OneHolder, WakelockInv
  <2>3. RequestInv'
    BY <2>1 DEF IInv, RequestInv, Nothing, InChan, AtSystem, Answered
  <2>4. QueueInv' /\ GrantInv'
    BY <2>1 DEF IInv, QueueInv, GrantInv, HeldGranted
  <2> QED BY <2>2, <2>3, <2>4 DEF IInv
<1> QED BY <1>1, <1>2, <1>3, <1>4, <1>5, TakeMutexIInv, EditIInv, SendIInv,
           TakeAnswerIInv, PostIInv, AnswerIrqIInv, SystemTakeIInv,
           SystemAnswerIInv, OtherSendIInv DEF Next, Step

\* Hence it holds in every reachable state.
LEMMA SpecIInv == Spec => []IInv
  BY InitIInv, NextIInv, PTL DEF Spec, SafeSpec

\* g_freqlock has one owner, nobody sleeps while it is free, and every call of
\* up_pm_acquire_freqlock and up_pm_release_freqlock gives back the wakelock.
THEOREM TakenAndGiven == Spec => []Inv
<1>1. IInv => Inv
  <2> SUFFICES ASSUME IInv PROVE MutexInv
    BY DEF IInv, Inv
  <2> QED BY FS_EmptySet, FS_Singleton DEF IInv, OneHolder, MutexInv
<1> QED BY <1>1, SpecIInv, PTL

\* A lock that is held has its voltage, whatever other threads release.
THEOREM HeldIsGranted == Spec => []HeldGranted
<1>1. IInv => HeldGranted
  BY DEF IInv, GrantInv
<1> QED BY <1>1, SpecIInv, PTL

\* With nobody inside, the clock is what the locks ask for and no more.
THEOREM QuietIsSettled == Spec => []Settled
<1>1. IInv => Settled
  <2> SUFFICES ASSUME IInv, Holders = {} PROVE Settled
    BY DEF Settled
  <2>1. Edited = {} /\ Asking = {}
    BY DEF Holders, Edited, Asking
  <2>2. granted = flag /\ freqlockqueue \subseteq Lock
    BY <2>1 DEF IInv, GrantInv, TypeOK
  <2>3. freqlockqueue = {l \in Lock : count[l] > 0}
    BY <2>1, <2>2 DEF IInv, QueueInv
  <2> QED BY <2>2, <2>3 DEF IInv, QueueInv, Settled
<1> QED BY <1>1, SpecIInv, PTL

\* There is one request for a waiting caller and none for anybody else, so
\* nobody takes an answer that is not its own.
THEOREM AnswersMatch == Spec => []AnswerInv
<1>1. IInv => AnswerInv
  <2> SUFFICES ASSUME IInv PROVE AnswerInv
    OBVIOUS
  <2>1. answers \in Nat /\ answer \in Nat
    BY DEF IInv, TypeOK
  <2>2. Waiting = {} \/ \E t : Waiting = {t}
    BY Sole DEF Waiting, Holders
  <2>3. Waiting = {} => Cardinality(Waiting) = 0 /\ Nothing /\ ~refused
    BY FS_EmptySet DEF IInv, RequestInv
  <2>4. Waiting # {} => Cardinality(Waiting) = 1
    BY <2>2, FS_Singleton
  <2>5. ASSUME InChan \/ AtSystem \/ Answered
        PROVE  Cardinality(Requests) + Len(inbox) + answers + answer = 1
    <3>1. Requests = {} => Cardinality(Requests) = 0
      BY FS_EmptySet
    <3>2. Len(<<>>) = 0 /\ Len(<<flag>>) = 1
      OBVIOUS
    <3>3. CASE InChan
      <4>1. Cardinality(Requests) = 1
        BY <3>3, FS_Singleton DEF InChan
      <4> QED BY <3>2, <3>3, <4>1 DEF InChan
    <3>4. CASE AtSystem
      BY <3>1, <3>2, <3>4 DEF AtSystem
    <3>5. CASE Answered
      BY <2>1, <3>1, <3>2, <3>5 DEF Answered
    <3> QED BY <2>5, <3>3, <3>4, <3>5
  <2>6. ASSUME Nothing
        PROVE  Cardinality(Requests) + Len(inbox) + answers + answer = 0
    BY <2>6, FS_EmptySet DEF Nothing
  <2> QED BY <2>3, <2>4, <2>5, <2>6 DEF IInv, RequestInv, AnswerInv
<1> QED BY <1>1, SpecIInv, PTL
-----------------------------------------------------------------------------
(* The task of the power manager: the inductive invariant *)

\* The clock messages.  The queue holds at most one request for hot sleep,
\* then the START and then the END of one change.
Clk == {"CLK_CHG_START", "CLK_CHG_END"}
QueueOf(q) == {q, <<"HOT_SLEEP">> \o q}
QuietQueue == QueueOf(<<>>)
StartQueue == QueueOf(<<"CLK_CHG_START">>)
EndQueue == QueueOf(<<"CLK_CHG_END">>)
BothQueue == QueueOf(<<"CLK_CHG_START", "CLK_CHG_END">>)

\* The change of the system CPU, the messages about it, and what the task
\* has seen of it.
ChangeInv ==
  /\ ~dropped
  /\ \/ ~change /\ ~started /\ mq \in QuietQueue /\ id # "CLK_CHG_START"
     \/ change /\ ~started /\ mq \in StartQueue /\ id \notin Clk
     \/ change /\ started /\ mq \in QuietQueue /\ id # "CLK_CHG_END"
     \/ ~change /\ started /\ mq \in EndQueue /\ id # "CLK_CHG_END"
     \/ ~change /\ ~started /\ mq \in BothQueue /\ id \notin Clk

\* Who holds g_regcblock, and on whom the other sleeps.
TaskHolds == id \in Clk /\ tpc \in {"walk", "recover", "called"}
RegHolds == rpc = "hold"
LockInv ==
  /\ regcblock = IF TaskHolds \/ RegHolds THEN 0 ELSE 1
  /\ ~(TaskHolds /\ RegHolds)
  /\ rpc = "blocked" => TaskHolds
  /\ tpc = "blocked" => RegHolds
  /\ rpc # "idle" => rarg \in Callback

\* An entry is in the list once.
Injective(q) == \A i, j \in 1 .. Len(q) : q[i] = q[j] => i = j

\* The entries at some places of the list; those called in this walk, and
\* those a recovery still has to call.
Done == IF cur = NoEntry THEN 0 ELSE Pos(cur)
Part(i, j) == {cbqueue[k] : k \in i .. j}
Seen == Part(1, Done)
Behind == Part(Done + 1, Pos(last) - 1)

\* Where the task is, and the entries it stands at.
WalkShape ==
  /\ Injective(cbqueue)
  /\ tpc = "receive" <=> id = "none"
  /\ tpc \in {"check", "asleep"} => id = "HOT_SLEEP"
  /\ tpc \in {"take", "blocked"} => id \in Clk
  /\ tpc \notin {"walk", "recover"} => cur = NoEntry
  /\ tpc \notin {"recover", "called"} => last = NoEntry
  /\ cur # NoEntry => Contains(cbqueue, cur)
  /\ tpc = "recover" => /\ last # NoEntry /\ Contains(cbqueue, last)
                        /\ Done < Pos(last)
  /\ id \in Clk /\ last # NoEntry => Contains(cbqueue, last)

TaskInv == PmTypeOK /\ ChangeInv /\ LockInv /\ WalkShape

\* The callbacks that are stopped for a change.
StopInv ==
  /\ stopped \subseteq targets \cap ToSet(cbqueue)
  /\ ~started /\ id # "CLK_CHG_END" => stopped = {}
  /\ id = "CLK_CHG_START" =>
       /\ tpc \in {"take", "blocked"} => stopped = {}
       /\ tpc = "walk" => stopped = Seen \cap targets
       /\ tpc = "recover" => stopped = Behind \cap targets
       /\ tpc = "called" =>
            stopped = IF last = NoEntry THEN ToSet(cbqueue) \cap targets ELSE {}
  /\ id = "CLK_CHG_END" =>
       /\ tpc # "recover"
       /\ tpc = "walk" => stopped \cap Seen = {}
       /\ tpc = "called" => stopped = {}

\* The callbacks that are prepared for hot sleep.
DownInv ==
  /\ down \subseteq ToSet(cbqueue)
  /\ ~unbooted =>
       /\ id = "HOT_SLEEP" /\ tpc = "walk" => down \subseteq Seen
       /\ id = "HOT_SLEEP" /\ tpc = "recover" => down \subseteq Behind
       /\ id = "HOT_SLEEP" /\ tpc = "called" /\ last # NoEntry => down = {}
       /\ id = "HOT_SLEEP" /\ tpc = "check" => down = {}
       /\ id = "HOT_BOOT" /\ tpc = "walk" => down \cap Seen = {}
       /\ ~(id = "HOT_BOOT" /\ tpc = "recover")
       /\ id = "HOT_BOOT" /\ tpc = "called" => down = {}
       /\ id \notin {"HOT_SLEEP", "HOT_BOOT"} => down = {}

-----------------------------------------------------------------------------
(* Entries and their places *)

\* An entry of the list is found at its place, and only there.
LEMMA PosIn ==
  ASSUME NEW c, Contains(cbqueue, c)
  PROVE  Pos(c) \in 1 .. Len(cbqueue) /\ cbqueue[Pos(c)] = c
  BY DEF Contains, Pos

LEMMA PosOf ==
  ASSUME Injective(cbqueue), NEW i \in 1 .. Len(cbqueue)
  PROVE  Pos(cbqueue[i]) = i /\ Contains(cbqueue, cbqueue[i])
<1>1. Contains(cbqueue, cbqueue[i])
  BY DEF Contains
<1>2. Pos(cbqueue[i]) \in 1 .. Len(cbqueue) /\ cbqueue[Pos(cbqueue[i])] = cbqueue[i]
  BY <1>1, PosIn
<1> QED BY <1>1, <1>2 DEF Injective

\* The list as a set.
LEMMA ListSet ==
  ASSUME PmTypeOK
  PROVE  /\ ToSet(cbqueue) = Part(1, Len(cbqueue))
         /\ \A c : Contains(cbqueue, c) <=> c \in ToSet(cbqueue)
<1>1. DOMAIN cbqueue = 1 .. Len(cbqueue)
  BY DEF PmTypeOK
<1> QED BY <1>1 DEF ToSet, Part, Contains

\* The end of a sequence.
LEMMA Suffix ==
  ASSUME NEW S, NEW q \in Seq(S), NEW i \in 0 .. Len(q)
  PROVE  LET r == SubSeq(q, i + 1, Len(q)) IN
         /\ r # <<>> <=> i < Len(q)
         /\ i < Len(q) => Head(r) = q[i + 1]
<1> DEFINE r == SubSeq(q, i + 1, Len(q))
<1>1. r \in Seq(S) /\ Len(r) = Len(q) - i
  OBVIOUS
<1>2. i < Len(q) => r[1] = q[i + 1]
  OBVIOUS
<1> HIDE DEF r
<1>3. r # <<>> <=> Len(r) > 0
  BY <1>1
<1> QED BY <1>1, <1>2, <1>3 DEF r

\* What is left of a walk begins with the entry behind the last one called.
LEMMA RestFacts ==
  ASSUME PmTypeOK, WalkShape
  PROVE  /\ Done \in 0 .. Len(cbqueue)
         /\ Rest # <<>> <=> Done < Len(cbqueue)
         /\ Done < Len(cbqueue) => Head(Rest) = cbqueue[Done + 1]
<1>1. cbqueue \in Seq(Callback)
  BY DEF PmTypeOK
<1>2. CASE cur = NoEntry
  BY <1>1, <1>2 DEF Done, Rest
<1>3. CASE cur # NoEntry
  <2>1. Pos(cur) \in 1 .. Len(cbqueue)
    BY <1>3, PosIn DEF WalkShape
  <2>2. Rest = SubSeq(cbqueue, Done + 1, Len(cbqueue))
    BY <1>3 DEF Done, Rest
  <2> QED BY <1>1, <1>3, <2>1, <2>2, Suffix DEF Done
<1> QED BY <1>2, <1>3

\* The next entry of a walk, and what the walk has done when it was called.
LEMMA Advance ==
  ASSUME PmTypeOK, WalkShape, Rest # <<>>, cur' = Head(Rest), UNCHANGED cbqueue
  PROVE  LET c == Head(Rest) IN
         /\ c \in Callback /\ c \notin Seen /\ Contains(cbqueue, c)
         /\ Pos(c) = Done + 1 /\ Done' = Done + 1
         /\ Seen' = Seen \cup {c}
         /\ tpc = "recover" /\ c # last /\ UNCHANGED last =>
              Behind' = Behind \ {c} /\ Done' < Pos(last)
<1> DEFINE c == Head(Rest)
<1>1. Done \in 0 .. Len(cbqueue) /\ Done < Len(cbqueue) /\ c = cbqueue[Done + 1]
  BY RestFacts
<1>2. cbqueue \in Seq(Callback) /\ Injective(cbqueue)
  BY DEF PmTypeOK, WalkShape
<1>3. c \in Callback /\ c # NoEntry
  BY <1>1, <1>2, PowerMgrAssumption
<1>4. Pos(c) = Done + 1 /\ Contains(cbqueue, c)
  BY <1>1, <1>2, PosOf
<1>5. Done' = Done + 1
  BY <1>3, <1>4 DEF Done, Pos
<1>6. c \notin Seen /\ Seen' = Seen \cup {c}
  BY <1>1, <1>2, <1>5 DEF Seen, Part, Injective
<1>7. ASSUME tpc = "recover", c # last, UNCHANGED last
      PROVE  Behind' = Behind \ {c} /\ Done' < Pos(last)
  <2>1. Pos(last) \in 1 .. Len(cbqueue) /\ cbqueue[Pos(last)] = last /\ Done < Pos(last)
    BY <1>7, PosIn DEF WalkShape
  <2>2. Pos(last)' = Pos(last)
    BY <1>7 DEF Pos
  <2>3. Behind' = {cbqueue[k] : k \in (Done + 2) .. (Pos(last) - 1)}
    BY <1>1, <1>5, <2>2 DEF Behind, Part
  <2> HIDE DEF c
  <2>4. Behind' = Behind \ {c}
    <3>1. \A k \in (Done + 1) .. (Pos(last) - 1) : cbqueue[k] = c <=> k = Done + 1
      BY <1>1, <1>2, <2>1 DEF Injective
    <3>2. Behind = {cbqueue[k] : k \in (Done + 1) .. (Pos(last) - 1)}
      BY DEF Behind, Part
    <3>3. \A k : k \in (Done + 2) .. (Pos(last) - 1)
                    <=> k \in (Done + 1) .. (Pos(last) - 1) /\ k # Done + 1
      BY <1>1, <2>1
    <3> QED BY <2>3, <3>1, <3>2, <3>3
  <2>5. Done + 1 # Pos(last)
    BY <1>1, <1>7, <2>1
  <2> QED BY <1>1, <1>5, <2>1, <2>4, <2>5
<1> QED BY <1>3, <1>4, <1>5, <1>6, <1>7

\* dq_addlast leaves the entries where they are.
LEMMA Appended ==
  ASSUME PmTypeOK, Injective(cbqueue),
         NEW e \in Callback, ~Contains(cbqueue, e), cbqueue' = Append(cbqueue, e)
  PROVE  /\ cbqueue' \in Seq(Callback) /\ Injective(cbqueue')
         /\ ToSet(cbqueue) \subseteq ToSet(cbqueue')
         /\ \A c : Contains(cbqueue, c) => Contains(cbqueue', c) /\ Pos(c)' = Pos(c)
         /\ WalkShape /\ UNCHANGED <<cur, last>> => Seen' = Seen /\ Done' = Done
         /\ WalkShape /\ tpc = "recover" /\ UNCHANGED <<cur, last>> =>
              Behind' = Behind /\ Pos(last)' = Pos(last)
<1> DEFINE n == Len(cbqueue)
<1>1. /\ cbqueue \in Seq(Callback) /\ n \in Nat
      /\ cbqueue' \in Seq(Callback) /\ Len(cbqueue') = n + 1
      /\ \A i \in 1 .. n : cbqueue'[i] = cbqueue[i]
      /\ cbqueue'[n + 1] = e
  BY DEF PmTypeOK
<1>2. \A i \in 1 .. n : cbqueue[i] # e
  BY DEF Contains
<1> HIDE DEF n
<1>3. Len(cbqueue) = n
  BY DEF n
<1>4. Injective(cbqueue')
  BY <1>1, <1>2, <1>3 DEF Injective
<1>5. ASSUME NEW c, Contains(cbqueue, c)
      PROVE  Contains(cbqueue', c) /\ Pos(c)' = Pos(c) /\ Pos(c) \in 1 .. n
  <2>1. Pos(c) \in 1 .. n /\ cbqueue[Pos(c)] = c
    BY <1>3, <1>5, PosIn
  <2>2. Pos(c) \in 1 .. Len(cbqueue') /\ cbqueue'[Pos(c)] = c
    BY <1>1, <2>1
  <2>3. \A i \in 1 .. Len(cbqueue') : cbqueue'[i] = c => i = Pos(c)
    BY <1>4, <2>2 DEF Injective
  <2>4. Pos(c)' = CHOOSE i \in 1 .. Len(cbqueue') : cbqueue'[i] = c
    BY DEF Pos
  <2>5. Pos(c)' \in 1 .. Len(cbqueue') /\ cbqueue'[Pos(c)'] = c
    BY <2>2, <2>4
  <2> QED BY <2>1, <2>2, <2>3, <2>5 DEF Contains
<1>6. ToSet(cbqueue) \subseteq ToSet(cbqueue')
  BY <1>1, <1>3 DEF ToSet
<1>7. ASSUME WalkShape, UNCHANGED <<cur, last>>
      PROVE  Seen' = Seen /\ Done' = Done /\ Done \in 0 .. n
  <2>1. Done' = Done /\ Done \in 0 .. n
    BY <1>1, <1>5, <1>7 DEF WalkShape, Done
  <2>2. Seen = {cbqueue[k] : k \in 1 .. Done} /\ Seen' = {cbqueue'[k] : k \in 1 .. Done}
    BY <2>1 DEF Seen, Part
  <2> QED BY <1>1, <2>1, <2>2
<1>8. ASSUME WalkShape, tpc = "recover", UNCHANGED <<cur, last>>
      PROVE  Behind' = Behind /\ Pos(last)' = Pos(last)
  <2>1. Pos(last)' = Pos(last) /\ Pos(last) \in 1 .. n
    BY <1>5, <1>8 DEF WalkShape, Pos
  <2>2. /\ Behind = {cbqueue[k] : k \in Done + 1 .. Pos(last) - 1}
        /\ Behind' = {cbqueue'[k] : k \in Done + 1 .. Pos(last) - 1}
    BY <1>7, <1>8, <2>1 DEF Behind, Part
  <2> QED BY <1>1, <1>7, <1>8, <2>1, <2>2
<1> QED BY <1>1, <1>4, <1>5, <1>6, <1>7, <1>8

\* dq_rem removes one entry.
LEMMA Removed ==
  ASSUME PmTypeOK, Injective(cbqueue),
         NEW e, Contains(cbqueue, e), cbqueue' = RemoveAt(cbqueue, Pos(e))
  PROVE  /\ cbqueue' \in Seq(Callback) /\ Injective(cbqueue')
         /\ ToSet(cbqueue') = ToSet(cbqueue) \ {e}
<1> DEFINE n == Len(cbqueue)
           k == Pos(e)
<1>1. cbqueue \in Seq(Callback) /\ n \in Nat /\ k \in 1 .. n /\ cbqueue[k] = e
  BY PosIn DEF PmTypeOK
<1>2. /\ SubSeq(cbqueue, 1, k - 1) \in Seq(Callback)
      /\ Len(SubSeq(cbqueue, 1, k - 1)) = k - 1
      /\ \A i \in 1 .. k - 1 : SubSeq(cbqueue, 1, k - 1)[i] = cbqueue[i]
  BY <1>1
<1>3. /\ SubSeq(cbqueue, k + 1, n) \in Seq(Callback)
      /\ Len(SubSeq(cbqueue, k + 1, n)) = n - k
      /\ \A i \in 1 .. n - k : SubSeq(cbqueue, k + 1, n)[i] = cbqueue[k + i]
  BY <1>1
<1>4. cbqueue' = SubSeq(cbqueue, 1, k - 1) \o SubSeq(cbqueue, k + 1, n)
  BY DEF RemoveAt
<1> HIDE DEF k, n
<1>5. /\ cbqueue' \in Seq(Callback) /\ Len(cbqueue') = n - 1
      /\ \A i \in 1 .. n - 1 : cbqueue'[i] = IF i < k THEN cbqueue[i] ELSE cbqueue[i + 1]
  <2> DEFINE q == SubSeq(cbqueue, 1, k - 1)
             r == SubSeq(cbqueue, k + 1, n)
  <2> HIDE DEF q, r
  <2>1. q \in Seq(Callback) /\ Len(q) = k - 1 /\ \A i \in 1 .. k - 1 : q[i] = cbqueue[i]
    BY <1>2 DEF q
  <2>2. r \in Seq(Callback) /\ Len(r) = n - k /\ \A i \in 1 .. n - k : r[i] = cbqueue[k + i]
    BY <1>3 DEF r
  <2>3. cbqueue' = q \o r
    BY <1>4 DEF q, r
  <2>4. /\ q \o r \in Seq(Callback) /\ Len(q \o r) = n - 1
        /\ \A i \in 1 .. k - 1 : (q \o r)[i] = q[i]
        /\ \A i \in k .. n - 1 : (q \o r)[i] = r[i - (k - 1)]
    <3>1. q \o r \in Seq(Callback) /\ Len(q \o r) = Len(q) + Len(r)
      BY <2>1, <2>2
    <3>2. \A i \in 1 .. Len(q) + Len(r) :
            (q \o r)[i] = IF i <= Len(q) THEN q[i] ELSE r[i - Len(q)]
      BY <2>1, <2>2
    <3>3. Len(q) \in Nat /\ Len(q) = k - 1 /\ Len(r) = n - k /\ k \in 1 .. n /\ n \in Nat
      BY <1>1, <2>1, <2>2
    <3>4. \A i \in k .. n - 1 : i \in 1 .. Len(q) + Len(r) /\ ~(i <= Len(q))
      BY <3>3
    <3>5. \A i \in 1 .. k - 1 : i \in 1 .. Len(q) + Len(r) /\ i <= Len(q)
      BY <3>3
    <3> QED BY <3>1, <3>2, <3>3, <3>4, <3>5
  <2>5. n \in Nat /\ k \in 1 .. n
    BY <1>1
  <2>6. ASSUME NEW i \in 1 .. n - 1
        PROVE  (q \o r)[i] = IF i < k THEN cbqueue[i] ELSE cbqueue[i + 1]
    <3>1. CASE i < k
      <4>1. i \in 1 .. k - 1
        BY <2>5, <3>1
      <4> QED BY <2>1, <2>4, <3>1, <4>1
    <3>2. CASE ~(i < k)
      <4>1. i \in k .. n - 1 /\ i - (k - 1) \in 1 .. n - k /\ k + (i - (k - 1)) = i + 1
        BY <2>5, <3>2
      <4>2. (q \o r)[i] = r[i - (k - 1)]
        BY <2>4, <4>1
      <4>3. r[i - (k - 1)] = cbqueue[k + (i - (k - 1))]
        BY <2>2, <4>1
      <4> QED BY <3>2, <4>1, <4>2, <4>3
    <3> QED BY <3>1, <3>2
  <2> QED BY <2>3, <2>4, <2>6
<1>6. Len(cbqueue) = n
  BY DEF n
<1>7. Injective(cbqueue')
  BY <1>1, <1>5, <1>6 DEF Injective
<1>8. ASSUME NEW c PROVE c \in ToSet(cbqueue') <=> c \in ToSet(cbqueue) /\ c # e
  <2>1. /\ c \in ToSet(cbqueue) <=> \E i \in 1 .. n : cbqueue[i] = c
        /\ c \in ToSet(cbqueue') <=> \E i \in 1 .. n - 1 : cbqueue'[i] = c
    BY <1>1, <1>5, <1>6, SMTT(30) DEF ToSet
  <2>2. ASSUME NEW i \in 1 .. n - 1, cbqueue'[i] = c
        PROVE  c \in ToSet(cbqueue) /\ c # e
    BY <1>1, <1>5, <1>6, <2>1, <2>2 DEF Injective
  <2>3. ASSUME NEW i \in 1 .. n, cbqueue[i] = c, c # e
        PROVE  c \in ToSet(cbqueue')
    <3>1. CASE i < k
      BY <1>1, <1>5, <2>1, <2>3, <3>1
    <3>2. CASE i > k
      <4>1. i - 1 \in 1 .. n - 1 /\ cbqueue'[i - 1] = c
        BY <1>1, <1>5, <2>3, <3>2
      <4> QED BY <2>1, <4>1
    <3> QED BY <1>1, <2>3, <3>1, <3>2
  <2> QED BY <2>1, <2>2, <2>3
<1> QED BY <1>5, <1>7, <1>8
-----------------------------------------------------------------------------
(* The task, the queue and the lock *)

\* After startup the list is free, and nothing is under way.
LEMMA InitTaskInv == PmInit => TaskInv
<1> SUFFICES ASSUME PmInit PROVE TaskInv
  OBVIOUS
<1>1. cbqueue \in Seq(Callback) /\ Injective(cbqueue)
  <2>1. Cardinality(Permanent) \in Nat
    BY PowerMgrAssumption, FS_CardinalityType
  <2>2. /\ cbqueue \in [1 .. Cardinality(Permanent) -> Permanent]
        /\ \A i, j \in 1 .. Cardinality(Permanent) : i # j => cbqueue[i] # cbqueue[j]
    BY DEF PmInit, SetToSeqs
  <2>3. cbqueue \in Seq(Permanent) /\ Len(cbqueue) = Cardinality(Permanent)
    BY <2>1, <2>2
  <2> QED BY <2>2, <2>3, PowerMgrAssumption DEF Injective
<1>2. PmTypeOK
  <2>1. mq \in Seq(Ids \ {"HOT_BOOT"}) /\ wakecount \in [WakeLock -> Nat]
    BY DEF PmInit
  <2> QED BY <1>1, <2>1, PowerMgrAssumption DEF PmInit, PmTypeOK, Ids
<1>3. ChangeInv /\ LockInv
  BY DEF PmInit, ChangeInv, QueueOf, QuietQueue, LockInv, TaskHolds, RegHolds, Clk
<1>4. WalkShape
  BY <1>1 DEF PmInit, WalkShape
<1> QED BY <1>2, <1>3, <1>4 DEF TaskInv

LEMMA StepType ==
  ASSUME TaskInv, [PmNext]_pmVars PROVE PmTypeOK'
<1>t. /\ \A m \in Ids \ {"HOT_BOOT"} :
            MqSend(m) => mq' \in Seq(Ids \ {"HOT_BOOT"}) /\ dropped' \in BOOLEAN
      /\ mq # <<>> => Tail(mq) \in Seq(Ids \ {"HOT_BOOT"})
  <2> DEFINE Messages == Ids \ {"HOT_BOOT"}
  <2>1. mq \in Seq(Messages) /\ dropped \in BOOLEAN
    BY DEF TaskInv, PmTypeOK
  <2> HIDE DEF Messages
  <2>2. mq # <<>> => Tail(mq) \in Seq(Messages)
    BY <2>1
  <2>3. ASSUME NEW m \in Messages, MqSend(m)
        PROVE  mq' \in Seq(Messages) /\ dropped' \in BOOLEAN
    <3>1. Append(mq, m) \in Seq(Messages)
      BY <2>1
    <3> QED BY <2>1, <2>3, <3>1 DEF MqSend
  <2> QED BY <2>2, <2>3 DEF Messages
<1> USE DEF PmTypeOK, TaskInv, Ids
<1>1. ASSUME NEW l \in WakeLock, AcquireWakelock(l) \/ ReleaseWakelock(l) PROVE PmTypeOK'
  BY <1>1 DEF AcquireWakelock, ReleaseWakelock, msgVars, regVars, taskVars, sysVars, cbVars
<1>2. CASE ClockStart
  BY <1>2, <1>t DEF ClockStart, regVars, taskVars, cbVars
<1>3. CASE ClockEnd
  <2>1. mq' \in Seq(Ids \ {"HOT_BOOT"}) /\ dropped' \in BOOLEAN /\ change' \in BOOLEAN
    BY <1>3, <1>t DEF ClockEnd
  <2> QED BY <1>3, <2>1 DEF ClockEnd, regVars, taskVars, cbVars
<1>4. CASE HotSleepCheck \/ HotSleepSend
  BY <1>4, <1>t DEF HotSleepCheck, HotSleepSend, msgVars, regVars, taskVars, sysVars, cbVars
<1>5. ASSUME NEW c \in Callback, RegCall(c) PROVE PmTypeOK'
  BY <1>5 DEF RegCall, msgVars, taskVars, sysVars, cbVars
<1>6. CASE RegTake
  BY <1>6 DEF RegTake, msgVars, taskVars, sysVars, cbVars
<1>7. CASE RegDone
  <2>1. cbqueue' \in Seq(Callback)
    BY <1>7, Appended, Removed DEF RegDone, LockInv, WalkShape, cbVars
  <2>2. stopped' \subseteq stopped /\ down' \subseteq down /\ UNCHANGED unbooted
    BY <1>7 DEF RegDone, cbVars
  <2>3. /\ regcblock' \in {0, 1}
        /\ tpc' \in {tpc, "walk"} /\ rpc' = "idle" /\ rarg' = NoEntry
    BY <1>7 DEF RegDone, PostByReg, LockInv, RegHolds
  <2> QED BY <1>7, <2>1, <2>2, <2>3 DEF RegDone, msgVars, sysVars
<1>8. CASE Receive
  BY <1>8, <1>t, ZenonT(30) DEF Receive, regVars, sysVars, cbVars
<1>9. CASE Take \/ Check
  BY <1>9 DEF Take, Check, ToReceive, msgVars, regVars, sysVars, cbVars
<1>10. CASE Walk \/ Recover
  <2>1. Rest # <<>> => Head(Rest) \in Callback
    BY RestFacts
  <2>2. CASE Walk
    BY <1>10, <2>1, <2>2, ZenonT(30) DEF Walk, Told, msgVars, regVars, sysVars, cbVars
  <2>3. CASE Recover
    <3>1. Rest # <<>>
      BY <2>3, PosIn, RestFacts DEF Recover, WalkShape
    <3> QED BY <2>1, <2>3, <3>1 DEF Recover, Told, msgVars, regVars, sysVars, cbVars
  <2> QED BY <1>10, <2>2, <2>3
<1>11. CASE WalkEnd \/ RecoverEnd \/ Awake \/ Sleep \/ Wake \/ Resume
  BY <1>11, ZenonT(30) DEF WalkEnd, RecoverEnd, Awake, Sleep, Wake, Resume, ToReceive,
               msgVars, regVars, sysVars, cbVars
<1>12. CASE ClkChangeEnd
  BY <1>12 DEF ClkChangeEnd, ToReceive, LockInv, TaskHolds, Clk, msgVars, sysVars, cbVars
<1>13. CASE UNCHANGED pmVars
  BY <1>13 DEF pmVars, msgVars, regVars, taskVars, sysVars, cbVars
<1> QED BY <1>1, <1>2, <1>3, <1>4, <1>5, <1>6, <1>7, <1>8, <1>9, <1>10, <1>11, <1>12, <1>13
        DEF PmNext, Task

\* The queue: a message in front of it, taken from it and put at its end.
LEMMA QueueFacts ==
  /\ \A q \in StartQueue \cup EndQueue \cup BothQueue :
       \E i \in 1 .. Len(q) : q[i] # "HOT_SLEEP"
  /\ \A q \in QuietQueue :
       /\ Append(q, "CLK_CHG_START") \in StartQueue
       /\ Append(q, "CLK_CHG_END") \in EndQueue
       /\ q # <<>> => Head(q) = "HOT_SLEEP" /\ Tail(q) \in QuietQueue
  /\ \A q \in StartQueue :
       /\ Append(q, "CLK_CHG_END") \in BothQueue
       /\ \/ Head(q) = "HOT_SLEEP" /\ Tail(q) \in StartQueue
          \/ Head(q) = "CLK_CHG_START" /\ Tail(q) \in QuietQueue
  /\ \A q \in EndQueue :
       \/ Head(q) = "HOT_SLEEP" /\ Tail(q) \in EndQueue
       \/ Head(q) = "CLK_CHG_END" /\ Tail(q) \in QuietQueue
  /\ \A q \in BothQueue :
       \/ Head(q) = "HOT_SLEEP" /\ Tail(q) \in BothQueue
       \/ Head(q) = "CLK_CHG_START" /\ Tail(q) \in EndQueue
  /\ \A q \in QuietQueue \cup StartQueue : Len(q) \in Nat /\ Len(q) <= 2
  /\ Append(<<>>, "HOT_SLEEP") \in QuietQueue
<1> DEFINE HS == "HOT_SLEEP"
           S == "CLK_CHG_START"
           E == "CLK_CHG_END"
<1>1. /\ QuietQueue = {<<>>, <<HS>>}
      /\ StartQueue = {<<S>>, <<HS, S>>}
      /\ EndQueue = {<<E>>, <<HS, E>>}
      /\ BothQueue = {<<S, E>>, <<HS, S, E>>}
  BY DEF QueueOf, QuietQueue, StartQueue, EndQueue, BothQueue
<1> HIDE DEF HS, S, E
<1>2. /\ Append(<<>>, S) = <<S>> /\ Append(<<HS>>, S) = <<HS, S>>
      /\ Append(<<>>, E) = <<E>> /\ Append(<<HS>>, E) = <<HS, E>>
      /\ Append(<<S>>, E) = <<S, E>> /\ Append(<<HS, S>>, E) = <<HS, S, E>>
      /\ Append(<<>>, HS) = <<HS>>
  <2>1. \A e : Append(<<>>, e) = <<e>>
    OBVIOUS
  <2>2. \A a, e : Append(<<a>>, e) = <<a, e>>
    <3>1. SUFFICES ASSUME NEW a, NEW e PROVE Append(<<a>>, e) = <<a, e>>
      OBVIOUS
    <3>2. <<a>> \in Seq({a, e}) /\ <<a, e>> \in Seq({a, e})
      OBVIOUS
    <3>3. /\ Append(<<a>>, e) \in Seq({a, e}) /\ Len(Append(<<a>>, e)) = 2
          /\ \A i \in 1 .. 2 : Append(<<a>>, e)[i] = <<a, e>>[i]
      BY <3>2
    <3> QED BY <3>2, <3>3, SeqEqual, Len(<<a, e>>) = 2
  <2>3. \A a, b, e : Append(<<a, b>>, e) = <<a, b, e>>
    <3>1. SUFFICES ASSUME NEW a, NEW b, NEW e PROVE Append(<<a, b>>, e) = <<a, b, e>>
      OBVIOUS
    <3>2. <<a, b>> \in Seq({a, b, e}) /\ <<a, b, e>> \in Seq({a, b, e})
      OBVIOUS
    <3>3. /\ Append(<<a, b>>, e) \in Seq({a, b, e}) /\ Len(Append(<<a, b>>, e)) = 3
          /\ \A i \in 1 .. 3 : Append(<<a, b>>, e)[i] = <<a, b, e>>[i]
      BY <3>2
    <3> QED BY <3>2, <3>3, SeqEqual, Len(<<a, b, e>>) = 3
  <2> QED BY <2>1, <2>2, <2>3
<1>3. /\ Tail(<<HS>>) = <<>> /\ Tail(<<S>>) = <<>> /\ Tail(<<E>>) = <<>>
      /\ Tail(<<HS, S>>) = <<S>> /\ Tail(<<HS, E>>) = <<E>> /\ Tail(<<S, E>>) = <<E>>
      /\ Tail(<<HS, S, E>>) = <<S, E>>
  OBVIOUS
<1>4. /\ <<HS>>[1] = HS /\ <<S>>[1] = S /\ <<E>>[1] = E
      /\ <<HS, S>>[1] = HS /\ <<HS, S>>[2] = S /\ <<HS, E>>[1] = HS /\ <<HS, E>>[2] = E
      /\ <<S, E>>[1] = S /\ <<HS, S, E>>[1] = HS /\ <<HS, S, E>>[2] = S
  OBVIOUS
<1>5. /\ Len(<<>>) = 0 /\ Len(<<HS>>) = 1 /\ Len(<<S>>) = 1 /\ Len(<<E>>) = 1
      /\ Len(<<HS, S>>) = 2 /\ Len(<<HS, E>>) = 2 /\ Len(<<S, E>>) = 2
      /\ Len(<<HS, S, E>>) = 3
  OBVIOUS
<1>6. HS # S /\ HS # E /\ HS = "HOT_SLEEP" /\ S = "CLK_CHG_START" /\ E = "CLK_CHG_END"
  BY DEF HS, S, E
<1>7. \A q \in StartQueue \cup EndQueue \cup BothQueue :
        \E i \in 1 .. Len(q) : q[i] # "HOT_SLEEP"
  BY <1>1, <1>4, <1>5, <1>6
<1>8. /\ Head(<<HS>>) = HS /\ Head(<<S>>) = S /\ Head(<<E>>) = E
      /\ Head(<<HS, S>>) = HS /\ Head(<<HS, E>>) = HS
      /\ Head(<<S, E>>) = S /\ Head(<<HS, S, E>>) = HS
  OBVIOUS
<1> QED BY <1>1, <1>2, <1>3, <1>4, <1>5, <1>6, <1>7, <1>8

LEMMA StepChange ==
  ASSUME TaskInv, [PmNext]_pmVars PROVE ChangeInv'
<1>l. mq \in QuietQueue \cup StartQueue => Len(mq) < MqMax
  <2> SUFFICES ASSUME mq \in QuietQueue \cup StartQueue PROVE Len(mq) < MqMax
    OBVIOUS
  <2>1. Len(mq) \in Nat /\ Len(mq) <= 2
    BY QueueFacts
  <2>2. MqMax \in Nat /\ MqMax >= 3
    BY PowerMgrAssumption
  <2> QED BY <2>1, <2>2
<1> USE DEF TaskInv, ChangeInv
<1>1. ASSUME NEW l \in WakeLock, AcquireWakelock(l) \/ ReleaseWakelock(l) PROVE ChangeInv'
  BY <1>1 DEF AcquireWakelock, ReleaseWakelock, msgVars, taskVars, sysVars
<1>2. CASE ClockStart
  <2>1. ~change /\ ~started /\ mq \in QuietQueue /\ id \notin Clk
    BY <1>2, QueueFacts DEF ClockStart, ClockQuiet, Clk
  <2>2. mq' = Append(mq, "CLK_CHG_START") /\ ~dropped'
    BY <1>2, <1>l, <2>1 DEF ClockStart, MqSend
  <2>3. mq' \in StartQueue
    BY <2>1, <2>2, QueueFacts
  <2> QED BY <1>2, <2>1, <2>2, <2>3 DEF ClockStart, taskVars
<1>3. CASE ClockEnd
  <2>1. Len(mq) < MqMax /\ mq' = Append(mq, "CLK_CHG_END") /\ ~dropped'
    BY <1>3, <1>l DEF ClockEnd, MqSend
  <2> QED BY <1>3, <2>1, QueueFacts DEF ClockEnd, taskVars
<1>4. CASE HotSleepCheck
  BY <1>4 DEF HotSleepCheck, msgVars, taskVars, sysVars
<1>5. CASE HotSleepSend
  <2>1. mq = <<>> /\ id = "none"
    BY <1>5 DEF HotSleepSend, Idle, WalkShape
  <2>2. \A q \in StartQueue \cup EndQueue \cup BothQueue : q # <<>>
    BY QueueFacts
  <2>3. mq' \in QuietQueue /\ ~dropped'
    BY <1>5, <2>1, QueueFacts, PowerMgrAssumption DEF HotSleepSend, MqSend
  <2> QED BY <1>5, <2>1, <2>2, <2>3 DEF HotSleepSend, taskVars, sysVars
<1>6. ASSUME NEW c \in Callback, RegCall(c) PROVE ChangeInv'
  BY <1>6 DEF RegCall, msgVars, taskVars, sysVars
<1>7. CASE RegTake \/ RegDone
  BY <1>7 DEF RegTake, RegDone, msgVars, taskVars, sysVars
<1>8. CASE Receive
  <2>1. id = "none" /\ mq # <<>> /\ mq' = Tail(mq)
    BY <1>8 DEF Receive, WalkShape
  <2>2. CASE Head(mq) = "HOT_SLEEP" /\ id' = "HOT_SLEEP" /\ UNCHANGED started
    BY <1>8, <2>1, <2>2, QueueFacts DEF Receive, sysVars, Clk
  <2>3. CASE Head(mq) = "CLK_CHG_START" /\ id' = "CLK_CHG_START" /\ started' = TRUE
    BY <1>8, <2>1, <2>3, QueueFacts, SMTT(30) DEF Receive, sysVars, Clk
  <2>4. CASE Head(mq) = "CLK_CHG_END" /\ started /\ id' = "CLK_CHG_END" /\ started' = FALSE
    BY <1>8, <2>1, <2>4, QueueFacts DEF Receive, sysVars, Clk
  <2>5. CASE Head(mq) = "CLK_CHG_END" /\ ~started
    BY <2>1, <2>5, QueueFacts
  <2> QED BY <1>8, <2>2, <2>3, <2>4, <2>5 DEF Receive
<1>9. CASE Take \/ Check \/ Walk \/ WalkEnd \/ Recover \/ RecoverEnd \/ Sleep
  BY <1>9 DEF Take, Check, Walk, WalkEnd, Recover, RecoverEnd, Sleep, ToReceive, Clk,
              msgVars, sysVars
<1>10. CASE ClkChangeEnd \/ Awake \/ Wake \/ Resume
  BY <1>10 DEF ClkChangeEnd, Awake, Wake, Resume, ToReceive, Clk, WalkShape, msgVars, sysVars
<1>11. CASE UNCHANGED pmVars
  BY <1>11 DEF pmVars, msgVars, taskVars, sysVars
<1> QED BY <1>1, <1>2, <1>3, <1>4, <1>5, <1>6, <1>7, <1>8, <1>9, <1>10, <1>11
        DEF PmNext, Task

LEMMA StepLock ==
  ASSUME TaskInv, [PmNext]_pmVars PROVE LockInv'
<1> USE DEF TaskInv, LockInv, TaskHolds, RegHolds, Clk
<1>1. ASSUME NEW l \in WakeLock, AcquireWakelock(l) \/ ReleaseWakelock(l) PROVE LockInv'
  BY <1>1 DEF AcquireWakelock, ReleaseWakelock, regVars, taskVars
<1>2. CASE ClockStart \/ ClockEnd \/ HotSleepCheck \/ HotSleepSend
  BY <1>2 DEF ClockStart, ClockEnd, HotSleepCheck, HotSleepSend, regVars, taskVars
<1>3. ASSUME NEW c \in Callback, RegCall(c) PROVE LockInv'
  BY <1>3 DEF RegCall, taskVars
<1>4. CASE RegTake
  BY <1>4, PowerMgrAssumption DEF RegTake, taskVars, PmTypeOK
<1>5. CASE RegDone
  <2>1. /\ rpc = "hold" /\ rpc' = "idle" /\ UNCHANGED id
        /\ \/ tpc = "blocked" /\ tpc' = "walk" /\ UNCHANGED regcblock
           \/ tpc # "blocked" /\ regcblock' = regcblock + 1 /\ UNCHANGED tpc
    BY <1>5 DEF RegDone, PostByReg
  <2>2. tpc = "blocked" => id \in Clk
    BY DEF WalkShape
  <2> QED BY <2>1, <2>2
<1>6. CASE Receive
  BY <1>6 DEF Receive, WalkShape, regVars
<1>7. CASE Take
  BY <1>7 DEF Take, WalkShape, PmTypeOK
<1>8. CASE Check \/ Walk \/ WalkEnd \/ Recover \/ RecoverEnd
  BY <1>8 DEF Check, Walk, WalkEnd, Recover, RecoverEnd, ToReceive, WalkShape, regVars
<1>9. CASE ClkChangeEnd
  BY <1>9 DEF ClkChangeEnd, ToReceive
<1>10. CASE Awake \/ Sleep \/ Wake \/ Resume
  BY <1>10 DEF Awake, Sleep, Wake, Resume, ToReceive, WalkShape, regVars
<1>11. CASE UNCHANGED pmVars
  BY <1>11 DEF pmVars, regVars, taskVars
<1> QED BY <1>1, <1>2, <1>3, <1>4, <1>5, <1>6, <1>7, <1>8, <1>9, <1>10, <1>11
        DEF PmNext, Task

LEMMA StepShape ==
  ASSUME TaskInv, [PmNext]_pmVars PROVE WalkShape'
<1> USE DEF TaskInv, WalkShape
<1>a. ASSUME UNCHANGED <<cbqueue, tpc, id, cur, last>> PROVE WalkShape'
  BY <1>a DEF Contains, Injective, Done, Pos
<1>1. ASSUME NEW l \in WakeLock, AcquireWakelock(l) \/ ReleaseWakelock(l) PROVE WalkShape'
  BY <1>1, <1>a DEF AcquireWakelock, ReleaseWakelock, regVars, taskVars
<1>2. CASE ClockStart \/ ClockEnd \/ HotSleepCheck \/ HotSleepSend
  BY <1>2, <1>a DEF ClockStart, ClockEnd, HotSleepCheck, HotSleepSend, regVars, taskVars
<1>3. ASSUME NEW c \in Callback, RegCall(c) PROVE WalkShape'
  BY <1>3, <1>a DEF RegCall, taskVars
<1>4. CASE RegTake
  BY <1>4, <1>a DEF RegTake, taskVars
<1>5. CASE RegDone
  <2>1. /\ UNCHANGED <<id, cur, last>> /\ rarg \in Callback
        /\ UNCHANGED tpc \/ (tpc = "blocked" /\ tpc' = "walk")
        /\ ~(id \in Clk /\ tpc \in {"walk", "recover", "called"})
    <3>1. rpc = "hold" /\ UNCHANGED <<id, cur, last>> /\ PostByReg
      BY <1>5 DEF RegDone
    <3>2. rarg \in Callback /\ ~TaskHolds
      BY <3>1 DEF LockInv, RegHolds
    <3> QED BY <3>1, <3>2 DEF PostByReg, TaskHolds
  <2>2. CASE UNCHANGED cbqueue
    BY <2>1, <2>2 DEF Contains, Injective, Done, Pos, Clk
  <2>3. CASE ~Contains(cbqueue, rarg) /\ cbqueue' = Append(cbqueue, rarg)
    <3>1. Injective(cbqueue') /\ \A c : Contains(cbqueue, c) => Contains(cbqueue', c)
      BY <2>1, <2>3, Appended
    <3>2. tpc = "recover" => Done' = Done /\ Pos(last)' = Pos(last)
      BY <2>1, <2>3, Appended
    <3> QED BY <2>1, <3>1, <3>2 DEF Clk
  <2>4. CASE ~HotWalk /\ Contains(cbqueue, rarg) /\ cbqueue' = RemoveAt(cbqueue, Pos(rarg))
    <3>1. Injective(cbqueue')
      BY <2>4, Removed
    <3>2. tpc \notin {"walk", "recover"}
      BY <2>1, <2>4 DEF HotWalk, PmTypeOK, Clk, Ids
    <3> QED BY <2>1, <3>1, <3>2 DEF Clk
  <2> QED BY <1>5, <2>2, <2>3, <2>4 DEF RegDone
<1>6. CASE Receive \/ Take \/ Check
  BY <1>6 DEF Receive, Take, Check, ToReceive, regVars, Injective, Contains, Clk, PmTypeOK
<1>7. CASE Walk
  <2>1. Rest # <<>> /\ tpc = "walk" /\ UNCHANGED <<cbqueue, id>>
    BY <1>7 DEF Walk, regVars
  <2>2. CASE cur' = Head(Rest) /\ UNCHANGED <<tpc, last>>
    <3>1. Contains(cbqueue, Head(Rest)) /\ Head(Rest) \in Callback
      BY <2>1, <2>2, Advance
    <3> QED BY <2>1, <2>2, <3>1 DEF Contains, Injective
  <2>3. CASE cur' = NoEntry /\ tpc' = "recover" /\ last' = Head(Rest)
    <3>1. /\ Done < Len(cbqueue) /\ Done \in 0 .. Len(cbqueue)
          /\ Head(Rest) = cbqueue[Done + 1] /\ cbqueue \in Seq(Callback)
      BY <2>1, RestFacts DEF PmTypeOK
    <3>2. Head(Rest) \in Callback /\ Contains(cbqueue, Head(Rest)) /\ Pos(Head(Rest)) = Done + 1
      BY <3>1, PosOf
    <3>3. Done' = 0 /\ Pos(last)' = Done + 1
      BY <2>1, <2>3, <3>2 DEF Done, Pos
    <3>4. Done' < Pos(last)'
      BY <3>1, <3>3
    <3> QED BY <2>1, <2>3, <3>2, <3>4, PowerMgrAssumption DEF Contains, Injective
  <2> QED BY <1>7, <2>2, <2>3 DEF Walk
<1>8. CASE Recover
  <2>1. Rest # <<>> /\ tpc = "recover" /\ UNCHANGED <<cbqueue, id, tpc, last>>
        /\ cur' = Head(Rest) /\ Head(Rest) # last
    BY <1>8, PosIn, RestFacts DEF Recover, regVars
  <2>2. Contains(cbqueue, Head(Rest)) /\ Head(Rest) \in Callback /\ Done' < Pos(last)
    BY <2>1, Advance
  <2>3. Pos(last)' = Pos(last)
    BY <2>1 DEF Pos
  <2> QED BY <2>1, <2>2, <2>3 DEF Contains, Injective
<1>9. CASE WalkEnd \/ RecoverEnd \/ ClkChangeEnd \/ Awake \/ Sleep \/ Wake \/ Resume
  BY <1>9 DEF WalkEnd, RecoverEnd, ClkChangeEnd, Awake, Sleep, Wake, Resume, ToReceive,
              regVars, Injective, Contains, Clk
<1>10. CASE UNCHANGED pmVars
  BY <1>10, <1>a DEF pmVars, regVars, taskVars
<1> QED BY <1>1, <1>2, <1>3, <1>4, <1>5, <1>6, <1>7, <1>8, <1>9, <1>10 DEF PmNext, Task

\* Whatever the threads, the system CPU and the callbacks do.
LEMMA NextTaskInv == TaskInv /\ [PmNext]_pmVars => TaskInv'
<1> SUFFICES ASSUME TaskInv, [PmNext]_pmVars PROVE TaskInv'
  OBVIOUS
<1> QED BY StepType, StepChange, StepLock, StepShape DEF TaskInv

LEMMA SpecTaskInv == PmSpec => []TaskInv
<1> QED BY InitTaskInv, NextTaskInv, PTL DEF PmSpec, PmSafeSpec
-----------------------------------------------------------------------------
(* Walks from their beginning to their end *)

LEMMA WalkBegin ==
  ASSUME cur = NoEntry PROVE Seen = {}
<1>1. Done = 0
  BY DEF Done
<1> QED BY <1>1 DEF Seen, Part

LEMMA WalkOver ==
  ASSUME PmTypeOK, WalkShape, Rest = <<>> PROVE Seen = ToSet(cbqueue)
<1>1. Done = Len(cbqueue)
  <2>1. Done \in 0 .. Len(cbqueue) /\ ~(Done < Len(cbqueue)) /\ Len(cbqueue) \in Nat
    BY RestFacts DEF PmTypeOK
  <2> QED BY <2>1
<1> QED BY <1>1, ListSet DEF Seen

\* Those called before an entry refuses are the ones to recover.
LEMMA Refused ==
  ASSUME PmTypeOK, WalkShape, Rest # <<>>,
         last' = Head(Rest), cur' = NoEntry, UNCHANGED cbqueue
  PROVE  Behind' = Seen
<1>1. /\ Done \in 0 .. Len(cbqueue) /\ Done < Len(cbqueue)
      /\ Head(Rest) = cbqueue[Done + 1] /\ Len(cbqueue) \in Nat
  BY RestFacts DEF PmTypeOK
<1>2. Pos(Head(Rest)) = Done + 1
  BY <1>1, PosOf DEF WalkShape
<1>3. Done' = 0 /\ Pos(last)' = Done + 1
  BY <1>2 DEF Done, Pos
<1>4. Behind' = {cbqueue[k] : k \in 0 + 1 .. (Done + 1) - 1}
  BY <1>3 DEF Behind, Part
<1>5. (Done + 1) - 1 = Done /\ 0 + 1 = 1
  BY <1>1
<1> QED BY <1>4, <1>5 DEF Seen, Part

\* The next entry of a recovery; none is left before the one that refused.
LEMMA Recovery ==
  ASSUME PmTypeOK, WalkShape, tpc = "recover"
  PROVE  Rest # <<>> /\ (Head(Rest) = last => Behind = {})
<1>1. /\ Pos(last) \in 1 .. Len(cbqueue) /\ Done < Pos(last)
      /\ Done \in 0 .. Len(cbqueue) /\ Len(cbqueue) \in Nat
  BY PosIn, RestFacts DEF WalkShape, PmTypeOK
<1>2. Done < Len(cbqueue)
  BY <1>1
<1>3. Rest # <<>> /\ Head(Rest) = cbqueue[Done + 1]
  BY <1>2, RestFacts
<1>4. Pos(Head(Rest)) = Done + 1
  BY <1>1, <1>2, <1>3, PosOf DEF WalkShape
<1>5. ASSUME Head(Rest) = last PROVE Behind = {}
  <2>1. Pos(last) - 1 < Done + 1
    BY <1>1, <1>4, <1>5
  <2> QED BY <1>1, <2>1 DEF Behind, Part
<1> QED BY <1>3, <1>5
-----------------------------------------------------------------------------
(* The callbacks that are stopped for a clock change *)

\* No callback of the repository refuses the end of a clock change.
EndAccepted == "CLK_CHG_END" \notin Refusable

LEMMA InitStop == PmInit => StopInv
  BY DEF PmInit, StopInv

LEMMA StepStop ==
  ASSUME EndAccepted, TaskInv, StopInv, [PmNext]_pmVars PROVE StopInv'
<1> USE DEF TaskInv, StopInv
<1>a. ASSUME UNCHANGED <<cbqueue, tpc, id, cur, last, stopped, targets, started>> PROVE StopInv'
  <2>1. Seen' = Seen /\ Behind' = Behind
    BY <1>a DEF Seen, Behind, Part, Done, Pos
  <2> QED BY <1>a, <2>1
<1>1. ASSUME NEW l \in WakeLock, AcquireWakelock(l) \/ ReleaseWakelock(l) PROVE StopInv'
  BY <1>1, <1>a DEF AcquireWakelock, ReleaseWakelock, regVars, taskVars, sysVars, cbVars
<1>2. CASE ClockStart
  <2>1. ~change /\ ~started /\ id \notin Clk
    BY <1>2, QueueFacts DEF ClockStart, ClockQuiet, Clk, ChangeInv
  <2>2. stopped = {} /\ UNCHANGED <<cbqueue, id, stopped, started>>
    BY <1>2, <2>1 DEF ClockStart, regVars, taskVars, cbVars, Clk
  <2> QED BY <2>1, <2>2 DEF Clk
<1>3. CASE ClockEnd \/ HotSleepCheck \/ HotSleepSend
  BY <1>3, <1>a DEF ClockEnd, HotSleepCheck, HotSleepSend, regVars, taskVars, sysVars, cbVars
<1>4. ASSUME NEW c \in Callback, RegCall(c) PROVE StopInv'
  BY <1>4, <1>a DEF RegCall, taskVars, sysVars, cbVars
<1>5. CASE RegTake
  BY <1>5, <1>a DEF RegTake, taskVars, sysVars, cbVars
<1>6. CASE RegDone
  <2>1. rpc = "hold" /\ UNCHANGED <<id, cur, last, started, targets>> /\ PostByReg
    BY <1>6 DEF RegDone, sysVars
  <2>2. rarg \in Callback /\ ~TaskHolds
    BY <2>1 DEF LockInv, RegHolds
  <2>3. stopped' \subseteq stopped /\ stopped' \subseteq targets \cap ToSet(cbqueue')
    <3>1. CASE ~Contains(cbqueue, rarg)
      BY <1>6, <2>2, <3>1, Appended DEF RegDone, WalkShape, cbVars
    <3>2. CASE Contains(cbqueue, rarg)
      BY <1>6, <3>2, Removed DEF RegDone, WalkShape
    <3> QED BY <3>1, <3>2
  <2>4. ASSUME id \in Clk
        PROVE  cur = NoEntry /\ tpc' \in {"take", "blocked", "walk"}
               /\ tpc \in {"take", "blocked"}
    BY <2>1, <2>2, <2>4 DEF TaskHolds, PostByReg, WalkShape, PmTypeOK, Clk
  <2>5. id \in Clk => Seen' = {}
    BY <2>1, <2>4, WalkBegin DEF Seen, Part, Done
  <2> QED BY <2>1, <2>3, <2>4, <2>5 DEF Clk
<1>7. CASE Receive
  <2>1. id = "none" /\ mq # <<>> /\ UNCHANGED <<cbqueue, stopped, targets>>
    BY <1>7 DEF Receive, WalkShape, regVars, cbVars, sysVars
  <2>2. CASE tpc' = "check" /\ id' = "HOT_SLEEP" /\ UNCHANGED started
    BY <2>1, <2>2
  <2>3. CASE Head(mq) = "CLK_CHG_START" /\ tpc' = "take" /\ id' = "CLK_CHG_START" /\ started'
    BY <2>1, <2>3, QueueFacts DEF ChangeInv
  <2>4. CASE tpc' = "take" /\ id' = "CLK_CHG_END" /\ ~started'
    BY <2>1, <2>4
  <2>5. CASE UNCHANGED <<tpc, id, started>>
    BY <1>7, <1>a, <2>1, <2>5 DEF Receive
  <2> QED BY <1>7, <2>2, <2>3, <2>4, <2>5 DEF Receive
<1>8. CASE Take
  <2>1. tpc = "take" /\ cur = NoEntry /\ tpc' \in {"walk", "blocked"}
        /\ UNCHANGED <<cbqueue, id, cur, last, stopped, targets, started>>
    BY <1>8 DEF Take, WalkShape, sysVars, cbVars
  <2>2. Seen' = {}
    BY <2>1 DEF Seen, Part, Done
  <2> QED BY <2>1, <2>2
<1>9. CASE Check \/ Awake \/ Sleep \/ Wake \/ Resume
  <2>1. id \notin Clk /\ id' \notin Clk /\ UNCHANGED <<cbqueue, stopped, targets, started>>
    BY <1>9 DEF Check, Awake, Sleep, Wake, Resume, ToReceive, WalkShape, Clk, regVars, sysVars, cbVars
  <2> QED BY <2>1 DEF Clk
<1>10. CASE Walk
  <2> DEFINE c == Head(Rest)
  <2>1. tpc = "walk" /\ Rest # <<>> /\ UNCHANGED <<cbqueue, id, targets, started>>
    BY <1>10 DEF Walk, regVars, sysVars
  <2>2. CASE ~Needed(c) /\ cur' = c /\ UNCHANGED <<stopped, tpc, last>>
    <3>1. Seen' = Seen \cup {c}
      BY <2>1, <2>2, Advance
    <3> QED BY <2>1, <2>2, <3>1 DEF Needed
  <2>3. CASE Needed(c) /\ Told(c, id) /\ cur' = c /\ UNCHANGED <<tpc, last>>
    <3>1. Seen' = Seen \cup {c} /\ c \in ToSet(cbqueue)
      BY <2>1, <2>3, Advance, ListSet
    <3>2. CASE id = "CLK_CHG_START"
      <4>1. stopped' = stopped \cup {c} /\ c \in targets
        BY <2>3, <3>2 DEF Told, Needed
      <4>2. started
        BY <3>2 DEF ChangeInv, Clk
      <4>3. stopped = Seen \cap targets
        BY <2>1, <3>2
      <4>4. stopped' = Seen' \cap targets /\ stopped' \subseteq targets \cap ToSet(cbqueue)
        BY <3>1, <4>1, <4>3
      <4> QED BY <2>1, <2>3, <3>2, <4>2, <4>4
    <3>3. CASE id = "CLK_CHG_END"
      BY <2>1, <2>3, <3>1, <3>3 DEF Told
    <3>4. CASE id \notin Clk
      BY <2>1, <2>3, <3>4 DEF Told, Clk
    <3> QED BY <3>2, <3>3, <3>4 DEF Clk
  <2>4. CASE /\ id \in Refusable /\ tpc' = "recover" /\ last' = c /\ cur' = NoEntry
             /\ UNCHANGED stopped
    <3>1. Behind' = Seen /\ id # "CLK_CHG_END"
      BY <2>1, <2>4, Refused DEF EndAccepted
    <3> QED BY <2>1, <2>4, <3>1
  <2> QED BY <1>10, <2>2, <2>3, <2>4 DEF Walk, cbVars
<1>11. CASE WalkEnd
  <2>1. tpc = "walk" /\ tpc' = "called" /\ UNCHANGED <<cbqueue, id, last, stopped, targets, started>>
    BY <1>11 DEF WalkEnd, regVars, sysVars, cbVars
  <2>2. Seen = ToSet(cbqueue) /\ last = NoEntry
    BY <1>11, <2>1, WalkOver DEF WalkEnd, WalkShape
  <2> QED BY <2>1, <2>2
<1>12. CASE Recover
  <2> DEFINE c == Head(Rest)
  <2>1. /\ tpc = "recover" /\ c # last /\ cur' = c
        /\ UNCHANGED <<cbqueue, id, last, tpc, targets, started>>
    BY <1>12 DEF Recover, regVars, sysVars
  <2>2. Behind' = Behind \ {c}
    BY <2>1, Recovery, Advance
  <2>3. CASE id = "CLK_CHG_START"
    <3>1. stopped' = IF c \in targets THEN stopped \ {c} ELSE stopped
      BY <1>12, <2>3 DEF Recover, Told, Needed, RecoveryId, cbVars
    <3> QED BY <2>1, <2>2, <2>3, <3>1 DEF ChangeInv
  <2>4. CASE id \notin Clk
    BY <1>12, <2>1, <2>4 DEF Recover, Told, RecoveryId, Clk, cbVars
  <2> QED BY <2>1, <2>3, <2>4 DEF Clk
<1>13. CASE RecoverEnd
  <2>1. /\ tpc = "recover" /\ tpc' = "called"
        /\ UNCHANGED <<cbqueue, id, last, stopped, targets, started>>
    BY <1>13 DEF RecoverEnd, regVars, sysVars, cbVars
  <2>2. Behind = {} /\ last # NoEntry
    BY <1>13, <2>1, Recovery DEF RecoverEnd, WalkShape
  <2> QED BY <2>1, <2>2
<1>14. CASE ClkChangeEnd
  <2>1. /\ tpc = "called" /\ id \in Clk /\ id' = "none"
        /\ UNCHANGED <<cbqueue, stopped, targets, started>>
    BY <1>14 DEF ClkChangeEnd, ToReceive, sysVars, cbVars, Clk
  <2>2. ~started => stopped = {}
    BY <2>1 DEF ChangeInv, Clk
  <2> QED BY <2>1, <2>2
<1>15. CASE UNCHANGED pmVars
  BY <1>15, <1>a DEF pmVars, regVars, taskVars, sysVars, cbVars
<1> QED BY <1>1, <1>2, <1>3, <1>4, <1>5, <1>6, <1>7, <1>8, <1>9, <1>10, <1>11, <1>12, <1>13,
           <1>14, <1>15 DEF PmNext, Task
-----------------------------------------------------------------------------
(* The callbacks that are prepared for hot sleep *)

Hot == {"HOT_SLEEP", "HOT_BOOT"}

LEMMA InitDown == PmInit => DownInv
  BY DEF PmInit, DownInv

LEMMA StepDown ==
  ASSUME TaskInv, DownInv, [PmNext]_pmVars PROVE DownInv'
<1> USE DEF TaskInv, DownInv
<1>a. ASSUME UNCHANGED <<cbqueue, tpc, id, cur, last, down, unbooted>> PROVE DownInv'
  <2>1. Seen' = Seen /\ Behind' = Behind
    BY <1>a DEF Seen, Behind, Part, Done, Pos
  <2> QED BY <1>a, <2>1
<1>b. ASSUME id \notin Hot, id' = id \/ id' \notin Hot, UNCHANGED <<cbqueue, down, unbooted>>
      PROVE  DownInv'
  BY <1>b DEF Hot
<1>1. ASSUME NEW l \in WakeLock, AcquireWakelock(l) \/ ReleaseWakelock(l) PROVE DownInv'
  BY <1>1, <1>a DEF AcquireWakelock, ReleaseWakelock, regVars, taskVars, cbVars
<1>2. CASE ClockStart \/ ClockEnd \/ HotSleepCheck \/ HotSleepSend
  BY <1>2, <1>a DEF ClockStart, ClockEnd, HotSleepCheck, HotSleepSend, regVars, taskVars, cbVars
<1>3. ASSUME NEW c \in Callback, RegCall(c) PROVE DownInv'
  BY <1>3, <1>a DEF RegCall, taskVars, cbVars
<1>4. CASE RegTake
  BY <1>4, <1>a DEF RegTake, taskVars, cbVars
<1>5. CASE RegDone
  <2>1. rpc = "hold" /\ UNCHANGED <<id, cur, last, unbooted>> /\ PostByReg
    BY <1>5 DEF RegDone, cbVars
  <2>2. rarg \in Callback /\ (id \in Hot => UNCHANGED tpc)
    BY <2>1 DEF LockInv, RegHolds, PostByReg, WalkShape, Clk, Hot
  <2>3. CASE UNCHANGED <<cbqueue, cbVars>>
    BY <1>a, <1>b, <2>1, <2>2, <2>3 DEF cbVars
  <2>4. CASE ~Contains(cbqueue, rarg) /\ cbqueue' = Append(cbqueue, rarg) /\ UNCHANGED cbVars
    <3>1. ToSet(cbqueue) \subseteq ToSet(cbqueue') /\ Seen' = Seen
          /\ (tpc = "recover" => Behind' = Behind)
      BY <2>1, <2>2, <2>4, Appended DEF WalkShape
    <3> QED BY <2>1, <2>2, <2>4, <3>1 DEF cbVars, Hot
  <2>5. CASE /\ Contains(cbqueue, rarg) /\ ~HotWalk
             /\ cbqueue' = RemoveAt(cbqueue, Pos(rarg)) /\ down' = down \ {rarg}
    <3>1. ToSet(cbqueue') = ToSet(cbqueue) \ {rarg}
      BY <2>5, Removed DEF WalkShape
    <3> QED BY <2>1, <2>2, <2>5, <3>1 DEF HotWalk, Hot
  <2> QED BY <1>5, <2>3, <2>4, <2>5 DEF RegDone
<1>6. CASE Receive
  <2>1. id = "none" /\ UNCHANGED <<cbqueue, cur, last, down, unbooted>>
    BY <1>6 DEF Receive, WalkShape, regVars, cbVars
  <2>2. CASE tpc' = "check" /\ id' = "HOT_SLEEP"
    BY <2>1, <2>2
  <2>3. CASE id' \notin Hot
    BY <1>b, <2>1, <2>3 DEF Hot
  <2> QED BY <1>6, <2>1, <2>2, <2>3 DEF Receive, Hot
<1>7. CASE Take \/ ClkChangeEnd
  <2>1. id \notin Hot /\ UNCHANGED <<cbqueue, down, unbooted>> /\ (id' = id \/ id' \notin Hot)
    BY <1>7 DEF Take, ClkChangeEnd, ToReceive, WalkShape, Clk, Hot, cbVars
  <2> QED BY <1>b, <2>1
<1>8. CASE Check
  <2>1. tpc = "check" /\ id = "HOT_SLEEP" /\ UNCHANGED <<cbqueue, down, unbooted>>
        /\ \/ tpc' = "receive" /\ id' = "none"
           \/ tpc' = "walk" /\ id' = "HOT_SLEEP"
    BY <1>8 DEF Check, ToReceive, WalkShape, regVars, cbVars
  <2> QED BY <2>1
<1>9. CASE Walk
  <2> DEFINE c == Head(Rest)
  <2>1. tpc = "walk" /\ Rest # <<>> /\ UNCHANGED <<cbqueue, id>>
    BY <1>9 DEF Walk, regVars
  <2>2. CASE id \notin Hot
    <3>1. UNCHANGED down
      BY <1>9, <2>2 DEF Walk, Told, Hot, cbVars
    <3>2. unbooted' = unbooted \/ unbooted' = (unbooted \/ FALSE)
      BY <1>9, <2>2 DEF Walk, Told, Hot, cbVars
    <3>3. unbooted \in BOOLEAN
      BY DEF PmTypeOK
    <3>4. UNCHANGED unbooted
      BY <3>2, <3>3
    <3> QED BY <1>b, <2>1, <2>2, <3>1, <3>4
  <2>3. CASE id \in Hot /\ Told(c, id) /\ cur' = c /\ UNCHANGED <<tpc, last>>
    <3>1. Seen' = Seen \cup {c} /\ c \in ToSet(cbqueue) /\ UNCHANGED unbooted
      BY <2>1, <2>3, Advance, ListSet DEF Told
    <3>2. down' = IF id = "HOT_SLEEP" THEN down \cup {c} ELSE down \ {c}
      BY <2>3 DEF Told, Hot
    <3> QED BY <2>1, <2>3, <3>1, <3>2 DEF Hot
  <2>4. CASE /\ id \in Hot /\ tpc' = "recover" /\ last' = c /\ cur' = NoEntry
             /\ unbooted' = (unbooted \/ id = "HOT_BOOT") /\ UNCHANGED down
    <3>1. Behind' = Seen
      BY <2>1, <2>4, Refused
    <3> QED BY <2>1, <2>4, <3>1 DEF Hot
  <2>5. id \in Hot => Needed(c)
    BY DEF Needed, Hot
  <2> QED BY <1>9, <2>2, <2>3, <2>4, <2>5 DEF Walk
<1>10. CASE WalkEnd
  <2>1. /\ tpc = "walk" /\ tpc' = "called"
        /\ UNCHANGED <<cbqueue, id, last, down, unbooted>>
    BY <1>10 DEF WalkEnd, regVars, cbVars
  <2>2. Seen = ToSet(cbqueue) /\ last = NoEntry
    BY <1>10, <2>1, WalkOver DEF WalkEnd, WalkShape
  <2> QED BY <2>1, <2>2
<1>11. CASE Recover
  <2> DEFINE c == Head(Rest)
  <2>1. /\ tpc = "recover" /\ c # last /\ cur' = c
        /\ UNCHANGED <<cbqueue, id, last, tpc, unbooted>>
    BY <1>11 DEF Recover, Told, regVars, cbVars
  <2>2. CASE id \notin Hot
    <3>1. UNCHANGED down
      BY <1>11, <2>2 DEF Recover, Told, RecoveryId, Hot, cbVars
    <3> QED BY <1>b, <2>1, <2>2, <3>1
  <2>3. CASE id \in Hot
    <3>1. Behind' = Behind \ {c}
      BY <2>1, Recovery, Advance
    <3>2. down' = down \ {c}
      BY <1>11, <2>3 DEF Recover, Told, Needed, RecoveryId, Hot
    <3> QED BY <2>1, <2>3, <3>1, <3>2 DEF Hot
  <2> QED BY <2>2, <2>3
<1>12. CASE RecoverEnd
  <2>1. /\ tpc = "recover" /\ tpc' = "called"
        /\ UNCHANGED <<cbqueue, id, last, down, unbooted>>
    BY <1>12 DEF RecoverEnd, regVars, cbVars
  <2>2. Behind = {}
    BY <1>12, <2>1, Recovery DEF RecoverEnd
  <2> QED BY <2>1, <2>2
<1>13. CASE Awake \/ Resume
  <2>1. /\ tpc = "called" /\ id' = "none" /\ UNCHANGED <<cbqueue, down, unbooted>>
        /\ id = "HOT_BOOT" \/ (id = "HOT_SLEEP" /\ last # NoEntry)
    BY <1>13 DEF Awake, Resume, ToReceive, regVars, cbVars
  <2> QED BY <2>1
<1>14. CASE Sleep
  <2>1. tpc' = "asleep" /\ id = "HOT_SLEEP" /\ UNCHANGED <<cbqueue, id, down, unbooted>>
    BY <1>14 DEF Sleep, regVars, cbVars
  <2> QED BY <2>1
<1>15. CASE Wake
  <2>1. /\ cur = NoEntry /\ tpc' = "walk" /\ id' = "HOT_BOOT"
        /\ UNCHANGED <<cbqueue, cur, down>>
    BY <1>15 DEF Wake, WalkShape, regVars
  <2>2. Seen' = {}
    BY <2>1 DEF Seen, Part, Done
  <2> QED BY <2>1, <2>2
<1>16. CASE UNCHANGED pmVars
  BY <1>16, <1>a DEF pmVars, regVars, taskVars, cbVars
<1> QED BY <1>1, <1>2, <1>3, <1>4, <1>5, <1>6, <1>7, <1>8, <1>9, <1>10, <1>11, <1>12, <1>13,
           <1>14, <1>15, <1>16 DEF PmNext, Task
-----------------------------------------------------------------------------
(* What the task guarantees *)

LEMMA SpecStop == EndAccepted /\ PmSpec => []StopInv
<1>1. EndAccepted /\ TaskInv /\ StopInv /\ [PmNext]_pmVars => StopInv'
  BY StepStop
<1>2. CASE EndAccepted
  <2>1. TaskInv /\ StopInv /\ [PmNext]_pmVars => StopInv'
    BY <1>1, <1>2
  <2> QED BY <2>1, InitStop, SpecTaskInv, PTL DEF PmSpec, PmSafeSpec
<1> QED BY <1>2

LEMMA SpecDown == PmSpec => []DownInv
<1>1. TaskInv /\ DownInv /\ [PmNext]_pmVars => DownInv'
  BY StepDown
<1> QED BY <1>1, InitDown, SpecTaskInv, PTL DEF PmSpec, PmSafeSpec

\* The types of PowerMgr hold; the queue of the task is never full when the
\* system CPU or the idle thread sends (cxd56_pmmsghandler ignores that),
\* and no entry is removed from g_cbqueue under a walk for a clock change.
THEOREM NothingLost == PmSpec => []PmInv
<1>1. TaskInv => PmInv
  BY DEF TaskInv, ChangeInv, WalkShape, Clk, PmInv, MessagesKept, WalkInv
<1> QED BY <1>1, SpecTaskInv, PTL

\* If no callback refuses the end of a clock change, then what
\* cxd56_pm_clkchange tells the system CPU is true.
THEOREM SystemToldTrue == EndAccepted /\ PmSpec => []ReplyTrue
<1>1. TaskInv /\ StopInv => ReplyTrue
  BY DEF StopInv, ReplyTrue
<1> QED BY <1>1, SpecTaskInv, SpecStop, PTL

\* Then also each callback is told of the end of what it prepared for, by the
\* time that cxd56_pm_maintask waits for the next message.
THEOREM CallbacksBalanced == EndAccepted /\ PmSpec => []Balanced
<1>1. TaskInv /\ StopInv /\ DownInv => Balanced
  BY DEF TaskInv, WalkShape, StopInv, DownInv, Balanced
<1> QED BY <1>1, SpecTaskInv, SpecStop, SpecDown, PTL
=============================================================================
