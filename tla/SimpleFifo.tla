----------------------------- MODULE SimpleFifo -----------------------------
(***************************************************************************)
(* sdk/modules/memutils/simple_fifo/src/CMN_SimpleFifo.c: a ring of bytes  *)
(* between one producer and one consumer, without a lock.  Each reads both *)
(* pointers once, copies bytes, and then publishes by writing the pointer  *)
(* that is its own; in between the other one goes on.  One byte of the     *)
(* ring always stays vacant and separates rp from wp.                      *)
(*                                                                         *)
(* A copy of one chunk is one step; Disjoint is what makes that sound, for *)
(* the copier may be a DMA controller.  The barriers of the code keep the  *)
(* copy before the publication.  Offers and polls of no bytes do nothing   *)
(* and are left out.                                                       *)
(***************************************************************************)
EXTENDS Integers, Sequences

CONSTANTS Byte,     \* the bytes
          Size,     \* m_size
          None      \* no peek handle

ASSUME SimpleFifoAssumption ==
  /\ Size \in Nat /\ Size > 1
  /\ Byte # {}
  /\ None \notin [at : Nat, n1 : Nat, n2 : Nat, off : Nat]

Index == 0 .. Size - 1

VARIABLES buf,      \* m_pBuf
          wp,       \* m_wp
          rp,       \* m_rp
          ppc,      \* producer: "idle", "again", "first", "second", "publish"
          data,     \* the bytes it offers
          at,       \* where the first chunk of them goes
          newWp,    \* what it will publish
          whole,    \* it keeps them together, by a continuous offer
          cpc,      \* consumer: "idle", "first", "second", "publish"
          want,     \* number of bytes it polls
          dest,     \* what it has copied
          newRp,    \* what it will publish
          peeked,   \* peek handle: the first chunk, the length of the second
                    \* one, which begins at 0, and the bytes skipped
          out       \* the bytes of the last poll

prodVars == <<ppc, data, at, newWp, whole>>
consVars == <<cpc, want, dest, newRp, peeked>>
fifoVars == <<buf, wp, rp, prodVars, consVars, out>>

\* CMN_SimpleFifoInitialize; the memory of the caller holds anything.
Init == /\ buf \in [Index -> Byte]
        /\ wp = 0 /\ rp = 0
        /\ ppc = "idle" /\ data = <<>> /\ at = 0 /\ newWp = 0 /\ whole = FALSE
        /\ cpc = "idle" /\ want = 0 /\ dest = <<>> /\ newRp = 0
        /\ peeked = None
        /\ out = <<>>

-----------------------------------------------------------------------------
(* Sizes *)

\* getOccupiedSize
Occupied(w, r) == IF w < r THEN w + Size - r ELSE w - r

\* Mutant: no byte stays vacant.
MutantVacantAll(w, r) == IF w < r THEN r - w ELSE Size - (w - r)

\* getVacantSize
Vacant(w, r) == IF w < r THEN r - w - 1 ELSE Size - (w - r) - 1

\* Mutant: the separator is forgotten when rp is at the beginning.
MutantContinuousZero(w, r) == IF w < r THEN r - w - 1 ELSE Size - w

\* getVacantSizeContinuous
VacantContinuous(w, r) ==
  IF w < r THEN r - w - 1 ELSE IF r = 0 THEN Size - w - 1 ELSE Size - w

Wrap(i) == IF i >= Size THEN 0 ELSE i
Least(i, j) == IF i < j THEN i ELSE j

-----------------------------------------------------------------------------
(* The producer *)

Offerable == UNION {[1 .. n -> Byte] : n \in 1 .. Size - 1}

\* The bytes that go to the ring at wp, split if they reach its end.
Plan(d) ==
  LET room == IF wp < rp THEN Len(d) ELSE Least(Len(d), Size - wp)
  IN  /\ at' = wp
      /\ newWp' = IF room < Len(d) THEN Len(d) - room ELSE Wrap(wp + room)

\* CMN_SimpleFifoOffer, with any copier: read the pointers and decide.
Offer(d) ==
  /\ ppc = "idle" /\ Vacant(wp, rp) >= Len(d)
  /\ Plan(d)
  /\ ppc' = "first" /\ data' = d /\ whole' = FALSE
  /\ UNCHANGED <<buf, wp, rp, consVars, out>>

\* CMN_SimpleFifoOfferContinuous: in one piece behind wp ...
OfferInPlace(d) ==
  /\ ppc = "idle" /\ Len(d) <= VacantContinuous(wp, rp)
  /\ at' = wp /\ newWp' = Wrap(wp + Len(d))
  /\ ppc' = "first" /\ data' = d /\ whole' = TRUE
  /\ UNCHANGED <<buf, wp, rp, consVars, out>>

\* ... or at the beginning of the ring, behind a gap ...
OfferWrapped(d) ==
  /\ ppc = "idle" /\ Len(d) > VacantContinuous(wp, rp)
  /\ rp <= wp /\ Len(d) <= Vacant(wp, rp) - VacantContinuous(wp, rp)
  /\ at' = 0 /\ newWp' = Len(d)
  /\ ppc' = "first" /\ data' = d /\ whole' = TRUE
  /\ UNCHANGED <<buf, wp, rp, consVars, out>>

\* ... or by falling back to an offer, which reads the pointers again.
FallBack(d) ==
  /\ ppc = "idle" /\ Len(d) > VacantContinuous(wp, rp)
  /\ rp <= wp => Len(d) > Vacant(wp, rp) - VacantContinuous(wp, rp)
  /\ ppc' = "again" /\ data' = d /\ whole' = FALSE
  /\ UNCHANGED <<buf, wp, rp, at, newWp, consVars, out>>

OfferAgain ==
  /\ ppc = "again"
  /\ IF Vacant(wp, rp) >= Len(data)
     THEN Plan(data) /\ ppc' = "first" /\ UNCHANGED data
     ELSE ppc' = "idle" /\ data' = <<>> /\ UNCHANGED <<at, newWp>>
  /\ UNCHANGED <<buf, wp, rp, whole, consVars, out>>

\* The ring with the bytes of d from position i on.
Put(i, d) == [j \in Index |-> IF i <= j /\ j < i + Len(d) THEN d[j - i + 1] ELSE buf[j]]

\* The first chunk ends with the data or with the ring; the second one
\* begins with the ring.
Room == Least(Len(data), Size - at)

CopyFirst ==
  /\ ppc = "first"
  /\ buf' = Put(at, SubSeq(data, 1, Room))
  /\ ppc' = IF Room < Len(data) THEN "second" ELSE "publish"
  /\ UNCHANGED <<wp, rp, data, at, newWp, whole, consVars, out>>

CopySecond ==
  /\ ppc = "second"
  /\ buf' = Put(0, SubSeq(data, Room + 1, Len(data)))
  /\ ppc' = "publish"
  /\ UNCHANGED <<wp, rp, data, at, newWp, whole, consVars, out>>

Publish ==
  /\ ppc = "publish"
  /\ wp' = newWp
  /\ ppc' = "idle" /\ newWp' = 0 /\ data' = <<>> /\ at' = 0 /\ whole' = FALSE
  /\ UNCHANGED <<buf, rp, consVars, out>>

-----------------------------------------------------------------------------
(* The consumer *)

\* Bytes of n that lie before the end of the ring, and the position behind n.
First(n) == Least(n, Size - rp)
Behind(n) == IF First(n) < n THEN n - First(n) ELSE Wrap(rp + n)

\* Mutant: the second chunk is taken to begin with the bytes to skip.
MutantPeekSecond(n, off) ==
  /\ cpc = "idle" /\ Occupied(wp, rp) >= n + off
  /\ LET all == First(n + off)
     IN  peeked' = IF off < all
                   THEN [at |-> rp + off, n1 |-> all - off, n2 |-> n + off - all, off |-> off]
                   ELSE [at |-> 0, n1 |-> n, n2 |-> 0, off |-> off]
  /\ UNCHANGED <<buf, wp, rp, prodVars, cpc, want, dest, newRp, out>>

\* CMN_SimpleFifoPeekWithOffset: where the n bytes behind the first off are.
Peek(n, off) ==
  /\ cpc = "idle" /\ Occupied(wp, rp) >= n + off
  /\ LET all == First(n + off)
     IN  peeked' = IF off < all
                   THEN [at |-> rp + off, n1 |-> all - off, n2 |-> n + off - all, off |-> off]
                   ELSE [at |-> off - all, n1 |-> n, n2 |-> 0, off |-> off]
  /\ UNCHANGED <<buf, wp, rp, prodVars, cpc, want, dest, newRp, out>>

\* CMN_SimpleFifoPoll, with a destination or without
Poll(n) ==
  /\ cpc = "idle" /\ Occupied(wp, rp) >= n
  /\ want' = n /\ newRp' = Behind(n)
  /\ cpc' \in {"first", "publish"}
  /\ UNCHANGED <<buf, wp, rp, prodVars, dest, peeked, out>>

Get(i, n) == [k \in 1 .. n |-> buf[i + k - 1]]

ReadFirst ==
  /\ cpc = "first"
  /\ dest' = Get(rp, First(want))
  /\ cpc' = IF First(want) < want THEN "second" ELSE "publish"
  /\ UNCHANGED <<buf, wp, rp, prodVars, want, newRp, peeked, out>>

ReadSecond ==
  /\ cpc = "second"
  /\ dest' = dest \o Get(0, want - First(want))
  /\ cpc' = "publish"
  /\ UNCHANGED <<buf, wp, rp, prodVars, want, newRp, peeked, out>>

\* The bytes are given up, and with them what was peeked.
Release ==
  /\ cpc = "publish"
  /\ rp' = newRp /\ out' = dest
  /\ cpc' = "idle" /\ want' = 0 /\ dest' = <<>> /\ newRp' = 0 /\ peeked' = None
  /\ UNCHANGED <<buf, wp, prodVars>>

\* CMN_SimpleFifoClear writes both pointers: nobody may use the ring.
Clear ==
  /\ ppc = "idle" /\ cpc = "idle"
  /\ wp' = 0 /\ rp' = 0 /\ peeked' = None /\ out' = <<>>
  /\ UNCHANGED <<buf, prodVars, cpc, want, dest, newRp>>

-----------------------------------------------------------------------------
Next == \/ \E d \in Offerable : Offer(d) \/ OfferInPlace(d) \/ OfferWrapped(d) \/ FallBack(d)
        \/ OfferAgain \/ CopyFirst \/ CopySecond \/ Publish
        \/ \E n \in 1 .. Size - 1 : Poll(n)
        \/ \E n \in 1 .. Size - 1, off \in 0 .. Size - 2 : Peek(n, off)
        \/ ReadFirst \/ ReadSecond \/ Release
        \/ Clear

Spec == Init /\ [][Next]_fifoVars

-----------------------------------------------------------------------------
TypeOK ==
  /\ buf \in [Index -> Byte]
  /\ wp \in Index /\ rp \in Index
  /\ ppc \in {"idle", "again", "first", "second", "publish"}
  /\ data \in Seq(Byte)
  /\ at \in Index /\ newWp \in Index
  /\ whole \in BOOLEAN
  /\ cpc \in {"idle", "first", "second", "publish"}
  /\ want \in 0 .. Size - 1
  /\ dest \in Seq(Byte)
  /\ newRp \in Index
  /\ peeked \in {None} \cup [at : Index, n1 : 1 .. Size, n2 : 0 .. Size, off : Index]
  /\ out \in Seq(Byte)

\* Positions of the ring from r up to w, and of n bytes from position i on.
Between(r, w) == IF r <= w THEN {j \in Index : r <= j /\ j < w}
                 ELSE {j \in Index : r <= j \/ j < w}
Span(i, n) == {j \in Index : i <= j /\ j < i + n}

\* What the producer is about to write.
Writing ==
  CASE ppc = "first" -> Span(at, Len(data)) \cup Span(0, at + Len(data) - Size)
    [] ppc = "second" -> Span(0, at + Len(data) - Size)
    [] OTHER -> {}

\* What the consumer is about to read.
Reading ==
  CASE cpc = "first" -> Span(rp, First(want)) \cup Span(0, want - First(want))
    [] cpc = "second" -> Span(0, want - First(want))
    [] OTHER -> {}

\* The producer writes no byte that is published and the consumer reads no
\* other, although each goes by an old value of the pointer of the other and
\* an offer or a poll may be split at the end of the ring.
Disjoint == /\ Writing \cap Between(rp, wp) = {}
            /\ Reading \subseteq Between(rp, wp)

Inv == TypeOK /\ Disjoint

\* The queue the ring stands for.
Queue == [k \in 1 .. Occupied(wp, rp) |-> buf[IF rp + k - 1 < Size THEN rp + k - 1 ELSE rp + k - 1 - Size]]

\* A peek handle shows the bytes that were asked for, however the ring is
\* split, for as long as the consumer does not poll.
PeekRight == peeked # None =>
  Get(peeked.at, peeked.n1) \o Get(0, peeked.n2)
    = SubSeq(Queue, peeked.off + 1, peeked.off + peeked.n1 + peeked.n2)

ByteQueue == INSTANCE ByteQueue WITH queue <- Queue, in <- data, Capacity <- Size - 1

\* The ring is a bounded queue of bytes: what is published is what was
\* offered, completely and in order, with nothing between two offers but the
\* gap of a continuous one, and what a poll hands out comes from the front,
\* wherever the ring wraps and the copies are split.
ImplementsQueue == ByteQueue!Spec
=============================================================================
