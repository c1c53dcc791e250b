-------------------------- MODULE SimpleFifoProofs --------------------------
(***************************************************************************)
(* Proofs about SimpleFifo for any size and any bytes.  Producer and       *)
(* consumer act on old values of each other's pointer; what makes this     *)
(* right is that a poll only adds vacant bytes and an offer only adds      *)
(* occupied ones, so that what either has planned stays within bounds.     *)
(***************************************************************************)
EXTENDS SimpleFifo, SequenceTheorems, TLAPS

\* Bytes that the producer will publish, and the consumer will give up.
Offered == Occupied(newWp, wp)
Polled == Occupied(newRp, rp)

\* The plan of the producer fits the vacant bytes: a chunk at wp and, if that
\* reaches the end of the ring, one at its beginning, or that one alone.
ProdInv ==
  /\ ppc = "idle" => data = <<>>
  /\ ppc \in {"idle", "again"} => whole = FALSE
  /\ ppc # "idle" => Len(data) \in 1 .. Size - 1
  /\ ppc \in {"first", "second", "publish"} =>
       /\ Offered <= Vacant(wp, rp)
       /\ \/ at = wp /\ Offered = Len(data)
          \/ at = 0 /\ newWp = Len(data) /\ newWp < wp /\ whole = TRUE
  /\ ppc = "second" => at + Len(data) > Size

\* The plan of the consumer fits the occupied bytes.
ConsInv ==
  cpc # "idle" => /\ want > 0 /\ Polled = want
                  /\ want <= Occupied(wp, rp)

IInv == TypeOK /\ ProdInv /\ ConsInv

\* The plans imply that nobody touches the bytes of the other.
LEMMA PlansDisjoint == IInv => Disjoint
<1> SUFFICES ASSUME IInv PROVE Disjoint
  OBVIOUS
<1> USE SimpleFifoAssumption DEF IInv, Index
<1>1. /\ wp \in Index /\ rp \in Index /\ newWp \in Index /\ newRp \in Index /\ at \in Index
      /\ Len(data) \in Nat /\ want \in 0 .. Size - 1
  BY DEF TypeOK
<1>2. Writing \cap Between(rp, wp) = {}
  <2> SUFFICES ASSUME NEW j \in Writing, j \in Between(rp, wp) PROVE FALSE
    OBVIOUS
  <2>1. CASE ppc \in {"first", "second"} /\ at = wp
    <3>1. Len(data) = Offered /\ Offered <= Vacant(wp, rp)
      BY <1>1, <2>1 DEF ProdInv
    <3>2. Len(data) <= Vacant(wp, rp) /\ Vacant(wp, rp) \in Int
      BY <1>1, <3>1 DEF Vacant
    <3>3. j \in Index /\ ((wp <= j /\ j < wp + Len(data)) \/ j < wp + Len(data) - Size)
      BY <1>1, <2>1 DEF Writing, Span
    <3> QED BY <1>1, <3>2, <3>3 DEF Between, Vacant
  <2>2. CASE ppc \in {"first", "second"} /\ at # wp
    BY <1>1, <2>2, SMTT(30) DEF Writing, Span, Between, ProdInv, Offered, Occupied, Vacant
  <2>3. CASE ppc \notin {"first", "second"}
    BY <2>3 DEF Writing
  <2> QED BY <2>1, <2>2, <2>3
<1>3. Reading \subseteq Between(rp, wp)
  <2> SUFFICES ASSUME NEW j \in Reading PROVE j \in Between(rp, wp)
    OBVIOUS
  <2>1. CASE cpc = "first"
    BY <1>1, <2>1 DEF Reading, Span, Between, ConsInv, Occupied, First, Least
  <2>2. CASE cpc = "second"
    BY <1>1, <2>2 DEF Reading, Span, Between, ConsInv, Occupied, First, Least
  <2>3. CASE cpc \notin {"first", "second"}
    BY <2>3 DEF Reading
  <2> QED BY <2>1, <2>2, <2>3
<1> QED BY <1>2, <1>3 DEF Disjoint

\* CMN_SimpleFifoInitialize
LEMMA InitIInv == Init => IInv
<1> SUFFICES ASSUME Init PROVE IInv
  OBVIOUS
<1> USE SimpleFifoAssumption DEF Init, Index
<1>1. <<>> \in Seq(Byte)
  OBVIOUS
<1>2. TypeOK
  BY <1>1 DEF TypeOK
<1> QED BY <1>2 DEF IInv, ProdInv, ConsInv
-----------------------------------------------------------------------------
(* The producer *)

\* What the types of the numbers are.
LEMMA Numbers ==
  ASSUME TypeOK
  PROVE  /\ wp \in Index /\ rp \in Index /\ newWp \in Index /\ newRp \in Index
         /\ at \in Index /\ want \in 0 .. Size - 1 /\ Len(data) \in Nat
         /\ Size \in Nat /\ Size > 1
  BY SimpleFifoAssumption DEF TypeOK

\* Arithmetic of the ring: n bytes at w, split or not, ...
LEMMA SplitFits ==
  ASSUME NEW w \in Index, NEW r \in Index, NEW n \in 1 .. Size - 1, n <= Vacant(w, r),
         NEW room, room = IF w < r THEN n ELSE Least(n, Size - w),
         NEW v, v = IF room < n THEN n - room ELSE Wrap(w + room)
  PROVE  v \in Index /\ Occupied(v, w) = n
<1> USE SimpleFifoAssumption DEF Index
<1>1. CASE w < r
  <2>1. room = n /\ w + n < Size
    BY <1>1 DEF Vacant
  <2>2. v = w + n
    BY <2>1 DEF Wrap
  <2> QED BY <2>1, <2>2 DEF Occupied
<1>2. CASE r <= w /\ n < Size - w
  <2>1. room = n
    BY <1>2 DEF Least
  <2>2. v = w + n
    BY <1>2, <2>1 DEF Wrap
  <2> QED BY <1>2, <2>2 DEF Occupied
<1>3. CASE r <= w /\ n >= Size - w
  <2>1. room = Size - w
    BY <1>3 DEF Least
  <2>2. v = n - (Size - w)
    BY <1>3, <2>1 DEF Wrap
  <2>3. v < w /\ v >= 0
    BY <1>3, <2>2
  <2> QED BY <1>3, <2>2, <2>3 DEF Occupied
<1> QED BY <1>1, <1>2, <1>3

\* ... in one piece at w, ...
LEMMA PieceFits ==
  ASSUME NEW w \in Index, NEW r \in Index, NEW n \in 1 .. Size - 1,
         n <= VacantContinuous(w, r)
  PROVE  Wrap(w + n) \in Index /\ Occupied(Wrap(w + n), w) = n /\ n <= Vacant(w, r)
<1> USE SimpleFifoAssumption DEF Index
<1>1. w + n <= Size /\ n <= Vacant(w, r)
  BY DEF VacantContinuous, Vacant
<1>2. Wrap(w + n) = IF w + n = Size THEN 0 ELSE w + n
  BY <1>1 DEF Wrap
<1> QED BY <1>1, <1>2 DEF Occupied

\* ... or in one piece at the beginning.
LEMMA WrappedFits ==
  ASSUME NEW w \in Index, NEW r \in Index, NEW n \in 1 .. Size - 1, r <= w,
         n <= Vacant(w, r) - VacantContinuous(w, r)
  PROVE  n < w /\ Occupied(n, w) <= Vacant(w, r)
<1> USE SimpleFifoAssumption DEF Index
<1>1. Vacant(w, r) = Size - (w - r) - 1
  BY DEF Vacant
<1>2. VacantContinuous(w, r) = IF r = 0 THEN Size - w - 1 ELSE Size - w
  BY DEF VacantContinuous
<1>3. r > 0 /\ n < r
  BY <1>1, <1>2
<1> QED BY <1>1, <1>3 DEF Occupied

\* An offer that fits is planned at wp.
LEMMA PlanFits ==
  ASSUME TypeOK, NEW d \in Seq(Byte), Len(d) \in 1 .. Size - 1, Vacant(wp, rp) >= Len(d),
         Plan(d)
  PROVE  at' = wp /\ newWp' \in Index /\ Occupied(newWp', wp) = Len(d)
<1>1. Len(d) <= Vacant(wp, rp)
  BY Numbers DEF Vacant, Index
<1> QED BY <1>1, Numbers, SplitFits DEF Plan

\* The offerable strings.
LEMMA OfferableType ==
  ASSUME NEW d \in Offerable
  PROVE  d \in Seq(Byte) /\ Len(d) \in 1 .. Size - 1
<1>1. PICK n \in 1 .. Size - 1 : d \in [1 .. n -> Byte]
  BY DEF Offerable
<1>2. n \in Nat
  BY <1>1, SimpleFifoAssumption
<1>3. d \in Seq(Byte)
  BY <1>1, <1>2
<1>4. Len(d) = n
  BY <1>1, <1>2, <1>3
<1> QED BY <1>1, <1>3, <1>4

\* An offer starts with a plan that fits.
LEMMA OfferIInv ==
  ASSUME IInv, NEW d \in Offerable,
         Offer(d) \/ OfferInPlace(d) \/ OfferWrapped(d) \/ FallBack(d)
  PROVE  IInv'
<1> USE DEF IInv, Index, consVars
<1>1. d \in Seq(Byte) /\ Len(d) \in 1 .. Size - 1
  BY OfferableType
<1>2. UNCHANGED <<buf, wp, rp, cpc, want, dest, newRp, peeked, out>> /\ data' = d
  BY DEF Offer, OfferInPlace, OfferWrapped, FallBack
<1>3. ConsInv'
  BY <1>2 DEF ConsInv, Polled
<1>4. CASE Offer(d)
  <2>1. at' = wp /\ newWp' \in Index /\ Occupied(newWp', wp) = Len(d) /\ Vacant(wp, rp) >= Len(d)
    BY <1>1, <1>4, PlanFits DEF Offer
  <2>2. TypeOK'
    BY <1>1, <1>2, <1>4, <2>1, Numbers DEF TypeOK, Offer
  <2>3. ProdInv'
    <3>1. Offered' = Len(d) /\ Vacant(wp, rp)' = Vacant(wp, rp)
      BY <2>1, <1>2 DEF Offered, Vacant, Occupied
    <3>2. Vacant(wp, rp) \in Int
      BY Numbers DEF Vacant
    <3> QED BY <1>1, <1>2, <1>4, <2>1, <3>1, <3>2 DEF ProdInv, Offer
  <2> QED BY <1>3, <2>2, <2>3
<1>5. CASE OfferInPlace(d)
  <2>1. /\ at' = wp /\ newWp' = Wrap(wp + Len(d)) /\ Len(d) <= VacantContinuous(wp, rp)
        /\ ppc' = "first" /\ whole' = TRUE
    BY <1>5 DEF OfferInPlace
  <2>2. newWp' \in Index /\ Occupied(newWp', wp) = Len(d) /\ Len(d) <= Vacant(wp, rp)
    BY <1>1, <2>1, Numbers, PieceFits
  <2>3. TypeOK'
    BY <1>1, <1>2, <2>1, <2>2, Numbers DEF TypeOK
  <2>4. ProdInv'
    <3>1. Offered' = Len(d) /\ Vacant(wp, rp)' = Vacant(wp, rp)
      BY <2>2, <1>2 DEF Offered, Vacant, Occupied
    <3> QED BY <1>1, <1>2, <2>1, <2>2, <3>1 DEF ProdInv
  <2> QED BY <1>3, <2>3, <2>4
<1>6. CASE OfferWrapped(d)
  <2>1. /\ at' = 0 /\ newWp' = Len(d) /\ ppc' = "first" /\ whole' = TRUE /\ rp <= wp
        /\ Len(d) <= Vacant(wp, rp) - VacantContinuous(wp, rp)
    BY <1>6 DEF OfferWrapped
  <2>2. newWp' \in Index /\ Len(d) < wp /\ Occupied(Len(d), wp) <= Vacant(wp, rp)
    BY <1>1, <2>1, Numbers, WrappedFits
  <2>3. TypeOK'
    BY <1>1, <1>2, <2>1, <2>2, Numbers DEF TypeOK
  <2>4. ProdInv'
    <3>1. Offered' = Occupied(Len(d), wp) /\ Vacant(wp, rp)' = Vacant(wp, rp)
      BY <2>1, <1>2 DEF Offered, Vacant, Occupied
    <3> QED BY <1>1, <1>2, <2>1, <2>2, <3>1 DEF ProdInv
  <2> QED BY <1>3, <2>3, <2>4
<1>7. CASE FallBack(d)
  BY <1>1, <1>2, <1>3, <1>7 DEF FallBack, TypeOK, ProdInv
<1> QED BY <1>4, <1>5, <1>6, <1>7

\* The offer after a fallback plans again, or gives up; the string it holds
\* is still the one that was offered.
LEMMA AgainIInv == ASSUME IInv, OfferAgain PROVE IInv'
<1> USE DEF IInv, Index, consVars, OfferAgain
<1>1. ConsInv'
  BY DEF ConsInv, Polled
<1>2. CASE Vacant(wp, rp) >= Len(data)
  <2>1. data \in Seq(Byte) /\ Len(data) \in 1 .. Size - 1
    BY DEF TypeOK, ProdInv
  <2>2. at' = wp /\ newWp' \in Index /\ Occupied(newWp', wp) = Len(data)
    BY <1>2, <2>1, PlanFits
  <2>3. TypeOK'
    BY <1>2, <2>1, <2>2, Numbers DEF TypeOK
  <2>4. Offered' = Len(data) /\ Vacant(wp, rp)' = Vacant(wp, rp)
    BY <2>2 DEF Offered, Vacant, Occupied
  <2>5. Vacant(wp, rp) \in Int
    BY Numbers DEF Vacant
  <2> QED BY <1>1, <1>2, <2>1, <2>2, <2>3, <2>4, <2>5 DEF ProdInv
<1>3. CASE ~ (Vacant(wp, rp) >= Len(data))
  <2>1. TypeOK'
    BY <1>3 DEF TypeOK
  <2> QED BY <1>1, <1>3, <2>1 DEF ProdInv
<1> QED BY <1>2, <1>3

\* Bytes that are put into the ring leave it a ring of bytes.
LEMMA PutType ==
  ASSUME TypeOK, NEW i \in Index, NEW d \in Seq(Byte)
  PROVE  Put(i, d) \in [Index -> Byte]
<1> USE SimpleFifoAssumption DEF Index
<1>1. buf \in [Index -> Byte]
  BY DEF TypeOK
<1>2. \A j \in Index : i <= j /\ j < i + Len(d) => j - i + 1 \in 1 .. Len(d)
  OBVIOUS
<1>3. \A k \in 1 .. Len(d) : d[k] \in Byte
  OBVIOUS
<1>4. \A j \in Index : (IF i <= j /\ j < i + Len(d) THEN d[j - i + 1] ELSE buf[j]) \in Byte
  BY <1>1, <1>2, <1>3
<1> QED BY <1>4 DEF Put

\* The chunks: the second one, if there is one, begins with the ring.
LEMMA CopyFirstIInv == ASSUME IInv, CopyFirst PROVE IInv'
<1> USE DEF IInv, consVars
<1>1. /\ UNCHANGED <<wp, rp, data, at, newWp, whole, consVars, out>> /\ ppc = "first"
      /\ buf' = Put(at, SubSeq(data, 1, Room))
      /\ ppc' = IF Room < Len(data) THEN "second" ELSE "publish"
  BY DEF CopyFirst
<1>2. data \in Seq(Byte) /\ Len(data) \in 1 .. Size - 1 /\ Room \in 1 .. Len(data)
  <2>1. data \in Seq(Byte) /\ Len(data) \in 1 .. Size - 1
    BY <1>1 DEF ProdInv, TypeOK
  <2> QED BY <2>1, Numbers DEF Room, Least, Index
<1>3. buf' \in [Index -> Byte]
  <2>1. SubSeq(data, 1, Room) \in Seq(Byte)
    BY <1>2
  <2> QED BY <1>1, <2>1, Numbers, PutType
<1>4. ConsInv'
  BY <1>1 DEF ConsInv, Polled, Occupied
<1>5. Room < Len(data) => at + Len(data) > Size
  BY <1>2, Numbers DEF Room, Least, Index
<1>6. Offered' = Offered /\ Vacant(wp, rp)' = Vacant(wp, rp)
  BY <1>1 DEF Offered, Occupied, Vacant
<1>7. ProdInv'
  BY <1>1, <1>2, <1>5, <1>6 DEF ProdInv
<1>8. TypeOK'
  BY <1>1, <1>3 DEF TypeOK
<1> QED BY <1>4, <1>7, <1>8

LEMMA CopySecondIInv == ASSUME IInv, CopySecond PROVE IInv'
<1> USE DEF IInv, consVars
<1>1. /\ UNCHANGED <<wp, rp, data, at, newWp, whole, consVars, out>> /\ ppc = "second"
      /\ buf' = Put(0, SubSeq(data, Room + 1, Len(data))) /\ ppc' = "publish"
  BY DEF CopySecond
<1>2. data \in Seq(Byte) /\ Room + 1 \in 1 .. Len(data)
  <2>1. data \in Seq(Byte) /\ Len(data) \in 1 .. Size - 1 /\ at + Len(data) > Size
    BY <1>1 DEF ProdInv, TypeOK
  <2> QED BY <2>1, Numbers DEF Room, Least, Index
<1>3. buf' \in [Index -> Byte]
  <2>1. SubSeq(data, Room + 1, Len(data)) \in Seq(Byte) /\ 0 \in Index
    BY <1>2, Numbers DEF Index
  <2> QED BY <1>1, <2>1, PutType
<1>4. ConsInv'
  BY <1>1 DEF ConsInv, Polled, Occupied
<1>5. Offered' = Offered /\ Vacant(wp, rp)' = Vacant(wp, rp)
  BY <1>1 DEF Offered, Occupied, Vacant
<1>6. ProdInv'
  BY <1>1, <1>5 DEF ProdInv
<1>7. TypeOK'
  BY <1>1, <1>3 DEF TypeOK
<1> QED BY <1>4, <1>6, <1>7

\* More bytes are occupied after n were published at w.
LEMMA PublishAdds ==
  ASSUME NEW w \in Index, NEW r \in Index, NEW v \in Index,
         Occupied(v, w) <= Vacant(w, r)
  PROVE  Occupied(w, r) <= Occupied(v, r)
  BY SimpleFifoAssumption DEF Index, Occupied, Vacant

LEMMA PublishIInv == ASSUME IInv, Publish PROVE IInv'
<1> USE SimpleFifoAssumption DEF IInv, consVars, Publish
<1>1. TypeOK'
  <2>1. <<>> \in Seq(Byte) /\ 0 \in Index
    BY DEF Index
  <2> QED BY <2>1 DEF TypeOK
<1>2. Occupied(wp, rp) <= Occupied(newWp, rp)
  BY Numbers, PublishAdds DEF ProdInv, Offered
<1>3. Occupied(wp, rp)' = Occupied(newWp, rp) /\ Polled' = Polled
  BY DEF Occupied, Polled
<1>4. ConsInv'
  BY <1>2, <1>3, Numbers DEF ConsInv, Occupied, Index
<1> QED BY <1>1, <1>4 DEF ProdInv
-----------------------------------------------------------------------------
(* The consumer *)

\* More bytes are vacant after n were given up at r.
LEMMA ReleaseAdds ==
  ASSUME NEW w \in Index, NEW r \in Index, NEW q \in Index,
         Occupied(q, r) <= Occupied(w, r)
  PROVE  Vacant(w, r) <= Vacant(w, q)
  BY SimpleFifoAssumption DEF Index, Occupied, Vacant

LEMMA SizesInt ==
  ASSUME NEW w \in Index, NEW r \in Index
  PROVE  Occupied(w, r) \in Int /\ Vacant(w, r) \in Int
  BY SimpleFifoAssumption DEF Index, Occupied, Vacant

\* Where the bytes behind the first off begin, when a read of n + off bytes
\* is split behind the first "all".
LEMMA PeekFits ==
  ASSUME NEW r \in Index, NEW n \in 1 .. Size - 1, NEW off \in 0 .. Size - 2,
         n + off <= Size - 1, NEW all \in Int, all <= n + off, all <= Size - r, all > 0
  PROVE  /\ off < all => /\ r + off \in Index /\ all - off \in 1 .. Size
                         /\ n + off - all \in 0 .. Size
         /\ ~(off < all) => off - all \in Index /\ n \in 1 .. Size
         /\ off \in Index /\ 0 \in 0 .. Size
  BY SimpleFifoAssumption DEF Index

\* The position behind n occupied bytes.
LEMMA BehindFits ==
  ASSUME TypeOK, NEW n \in 1 .. Size - 1, n <= Occupied(wp, rp)
  PROVE  Behind(n) \in Index /\ Occupied(Behind(n), rp) = n
<1> USE Numbers DEF Index
<1>1. CASE n < Size - rp
  <2>1. Behind(n) = rp + n
    BY <1>1 DEF Behind, First, Least, Wrap
  <2> QED BY <1>1, <2>1 DEF Occupied
<1>2. CASE n = Size - rp
  <2>1. Behind(n) = 0 /\ rp > 0
    BY <1>2 DEF Behind, First, Least, Wrap
  <2> QED BY <1>2, <2>1 DEF Occupied
<1>3. CASE n > Size - rp
  <2>1. Behind(n) = n - (Size - rp)
    BY <1>3 DEF Behind, First, Least
  <2>2. Behind(n) < rp
    BY <1>3, <2>1
  <2>3. Behind(n) \in Index
    BY <1>3, <2>1, <2>2
  <2>4. Occupied(Behind(n), rp) = Behind(n) + Size - rp
    BY <2>2 DEF Occupied
  <2> QED BY <2>1, <2>3, <2>4
<1> QED BY <1>1, <1>2, <1>3

LEMMA PeekIInv ==
  ASSUME IInv, NEW n \in 1 .. Size - 1, NEW off \in 0 .. Size - 2, Peek(n, off)
  PROVE  IInv'
<1> USE DEF IInv, prodVars, Peek
<1> DEFINE all == First(n + off)
<1>1. ProdInv' /\ ConsInv'
  BY DEF ProdInv, Offered, ConsInv, Polled
<1>2. n + off <= Size - 1 /\ n + off > 0
  BY Numbers, SMTT(30) DEF Occupied, Index
<1>3. peeked' \in [at : Index, n1 : 1 .. Size, n2 : 0 .. Size, off : Index]
  <2>1. all \in Int /\ all <= n + off /\ all <= Size - rp /\ all > 0 /\ rp \in Index
    BY <1>2, Numbers, SMTT(30) DEF Index, First, Least
  <2>2. CASE off < all
    BY <1>2, <2>1, <2>2, PeekFits
  <2>3. CASE ~(off < all)
    BY <1>2, <2>1, <2>3, PeekFits
  <2> QED BY <2>2, <2>3
<1>4. TypeOK'
  BY <1>3 DEF TypeOK
<1> QED BY <1>1, <1>4

LEMMA PollIInv ==
  ASSUME IInv, NEW n \in 1 .. Size - 1, Poll(n) PROVE IInv'
<1> USE DEF IInv, prodVars, Poll
<1>1. n <= Occupied(wp, rp)
  BY Numbers DEF Occupied, Index
<1>2. newRp' \in Index /\ Occupied(newRp', rp) = n
  BY <1>1, BehindFits
<1>3. ProdInv'
  BY DEF ProdInv, Offered
<1>4. TypeOK'
  BY <1>2, Numbers DEF TypeOK
<1>5. Polled' = n /\ Occupied(wp, rp)' = Occupied(wp, rp)
  BY <1>2 DEF Polled, Occupied
<1>6. ConsInv'
  BY <1>1, <1>5, Numbers DEF ConsInv
<1> QED BY <1>3, <1>4, <1>6

\* What is read are bytes.
LEMMA GetType ==
  ASSUME TypeOK, NEW i \in Index, NEW n \in 0 .. Size, i + n <= Size
  PROVE  Get(i, n) \in Seq(Byte)
<1> USE SimpleFifoAssumption DEF Index
<1>1. \A k \in 1 .. n : i + k - 1 \in Index
  OBVIOUS
<1>2. \A k \in 1 .. n : buf[i + k - 1] \in Byte
  BY <1>1 DEF TypeOK
<1>3. n \in Nat /\ Get(i, n) \in [1 .. n -> Byte]
  BY <1>2 DEF Get
<1> QED BY <1>3

LEMMA ReadIInv == ASSUME IInv, ReadFirst \/ ReadSecond PROVE IInv'
<1> USE DEF IInv, prodVars
<1>1. ProdInv' /\ UNCHANGED <<wp, rp, newRp, want>>
  BY DEF ProdInv, Offered, ReadFirst, ReadSecond
<1>2. ConsInv'
  BY <1>1 DEF ConsInv, Polled, Occupied, ReadFirst, ReadSecond
<1>3. First(want) \in 0 .. Size /\ rp + First(want) <= Size /\ want - First(want) \in 0 .. Size
  BY Numbers, SMTT(30) DEF First, Least, Index
<1>4. dest' \in Seq(Byte)
  <2>1. CASE ReadFirst
    BY <1>3, <2>1, Numbers, GetType DEF ReadFirst
  <2>2. CASE ReadSecond
    <3>1. 0 \in Index /\ 0 + (want - First(want)) <= Size
      BY <1>3, Numbers DEF Index
    <3>2. Get(0, want - First(want)) \in Seq(Byte) /\ dest \in Seq(Byte)
      BY <1>3, <3>1, GetType DEF TypeOK
    <3> QED BY <2>2, <3>2 DEF ReadSecond
  <2> QED BY <2>1, <2>2
<1>5. TypeOK'
  BY <1>1, <1>4 DEF TypeOK, ReadFirst, ReadSecond
<1> QED BY <1>1, <1>2, <1>5

LEMMA ReleaseIInv == ASSUME IInv, Release PROVE IInv'
<1> USE DEF IInv, prodVars, Release
<1>1. <<>> \in Seq(Byte) /\ 0 \in Index
  BY SimpleFifoAssumption DEF Index
<1>2. TypeOK'
  BY <1>1, Numbers DEF TypeOK
<1>3. Vacant(wp, rp) <= Vacant(wp, newRp)
  BY Numbers, ReleaseAdds DEF ConsInv, Polled
<1>4. Vacant(wp, rp)' = Vacant(wp, newRp) /\ Offered' = Offered
  BY DEF Vacant, Offered, Occupied
<1>5. Offered \in Int /\ Vacant(wp, rp) \in Int /\ Vacant(wp, newRp) \in Int
  BY Numbers, SizesInt DEF Offered
<1>6. ProdInv'
  BY <1>3, <1>4, <1>5 DEF ProdInv
<1> QED BY <1>2, <1>6 DEF ConsInv

LEMMA ClearIInv == ASSUME IInv, Clear PROVE IInv'
<1> USE DEF IInv, prodVars, Clear
<1>1. <<>> \in Seq(Byte) /\ 0 \in Index
  BY SimpleFifoAssumption DEF Index
<1>2. TypeOK'
  BY <1>1 DEF TypeOK
<1> QED BY <1>2 DEF ProdInv, ConsInv
-----------------------------------------------------------------------------
\* Every step keeps the invariant.
LEMMA NextIInv == IInv /\ [Next]_fifoVars => IInv'
<1> SUFFICES ASSUME IInv, [Next]_fifoVars PROVE IInv'
  OBVIOUS
<1>1. CASE \E d \in Offerable : Offer(d) \/ OfferInPlace(d) \/ OfferWrapped(d) \/ FallBack(d)
  BY <1>1, OfferIInv
<1>2. CASE OfferAgain \/ CopyFirst \/ CopySecond \/ Publish
  BY <1>2, AgainIInv, CopyFirstIInv, CopySecondIInv, PublishIInv
<1>3. CASE \E n \in 1 .. Size - 1 : Poll(n)
  BY <1>3, PollIInv
<1>4. CASE \E n \in 1 .. Size - 1, off \in 0 .. Size - 2 : Peek(n, off)
  BY <1>4, PeekIInv
<1>5. CASE ReadFirst \/ ReadSecond \/ Release \/ Clear
  BY <1>5, ReadIInv, ReleaseIInv, ClearIInv
<1>6. CASE UNCHANGED fifoVars
  BY <1>6 DEF fifoVars, prodVars, consVars, IInv, TypeOK, ProdInv, Offered, ConsInv,
              Polled, Occupied, Vacant
<1> QED BY <1>1, <1>2, <1>3, <1>4, <1>5, <1>6 DEF Next

\* Hence it holds in every reachable state.
LEMMA SpecIInv == Spec => []IInv
  BY InitIInv, NextIInv, PTL DEF Spec

\* Well typed, and producer and consumer never touch the same byte: the ring
\* needs no lock, whatever its size.
THEOREM Separate == Spec => []Inv
<1>1. IInv => Inv
  BY PlansDisjoint DEF IInv, Inv
<1> QED BY <1>1, SpecIInv, PTL
-----------------------------------------------------------------------------
(* What the bytes are *)

\* The position of the k-th byte from position i on.
At(i, k) == IF i + k - 1 < Size THEN i + k - 1 ELSE i + k - 1 - Size

\* The bytes copied so far are those offered.
WrittenInv ==
  /\ ppc = "second" => \A k \in 1 .. Size - at : buf[At(at, k)] = data[k]
  /\ ppc = "publish" => \A k \in 1 .. Len(data) : buf[At(at, k)] = data[k]

\* The first n bytes of the queue.
Front(s, n) == Len(s) = n /\ \A k \in 1 .. n : s[k] = buf[At(rp, k)]

\* The bytes read so far are those at the front.
ReadInv ==
  /\ cpc \in {"idle", "first"} => dest = <<>>
  /\ cpc = "second" => First(want) < want /\ Front(dest, First(want))
  /\ cpc = "publish" => dest = <<>> \/ Front(dest, want)

\* Where the chunks of a peek handle are.
PeekInv ==
  peeked # None =>
    /\ peeked.off + peeked.n1 + peeked.n2 <= Occupied(wp, rp)
    /\ \/ /\ peeked.at = rp + peeked.off /\ peeked.at + peeked.n1 <= Size
          /\ peeked.n2 = 0 \/ peeked.at + peeked.n1 = Size
       \/ peeked.at = rp + peeked.off - Size /\ peeked.n2 = 0

BytesInv == WrittenInv /\ ReadInv /\ PeekInv

\* Positions stay in the ring, go on from one string to the next, and the
\* first bytes from rp on are the occupied ones.
LEMMA AtIndex ==
  ASSUME NEW i \in Index, NEW k \in 1 .. Size PROVE At(i, k) \in Index
  BY SimpleFifoAssumption DEF At, Index

LEMMA AtBehind ==
  ASSUME NEW r \in Index, NEW w \in Index, NEW k \in 1 .. Size, Occupied(w, r) + k <= Size
  PROVE  At(r, Occupied(w, r) + k) = At(w, k)
  BY SimpleFifoAssumption DEF At, Index, Occupied

LEMMA AtOccupied ==
  ASSUME NEW r \in Index, NEW w \in Index, NEW k \in 1 .. Occupied(w, r)
  PROVE  At(r, k) \in Between(r, w) /\ k \in 1 .. Size - 1
  BY SimpleFifoAssumption DEF At, Index, Occupied, Between

LEMMA OccupiedType ==
  ASSUME NEW r \in Index, NEW w \in Index PROVE Occupied(w, r) \in 0 .. Size - 1
  BY SimpleFifoAssumption DEF Index, Occupied

\* The bytes of the ring after a copy.
LEMMA PutAt ==
  ASSUME NEW i \in Index, NEW d \in Seq(Byte), NEW j \in Index
  PROVE  Put(i, d)[j] = IF i <= j /\ j < i + Len(d) THEN d[j - i + 1] ELSE buf[j]
  BY DEF Put

\* The queue, byte by byte.
LEMMA QueueFacts ==
  ASSUME TypeOK
  PROVE  /\ Queue \in Seq(Byte) /\ Len(Queue) = Occupied(wp, rp)
         /\ \A k \in 1 .. Occupied(wp, rp) : Queue[k] = buf[At(rp, k)]
<1>1. Occupied(wp, rp) \in Nat /\ Queue = [k \in 1 .. Occupied(wp, rp) |-> buf[At(rp, k)]]
  BY OccupiedType, Numbers DEF Queue, At
<1>2. \A k \in 1 .. Occupied(wp, rp) : buf[At(rp, k)] \in Byte
  BY Numbers, AtOccupied, AtIndex DEF TypeOK
<1> QED BY <1>1, <1>2

\* The producer leaves the occupied bytes as they are.
LEMMA OccupiedKept ==
  ASSUME IInv, CopyFirst \/ CopySecond, NEW k \in 1 .. Occupied(wp, rp)
  PROVE  buf'[At(rp, k)] = buf[At(rp, k)]
<1> DEFINE j == At(rp, k)
<1> USE Numbers DEF IInv
<1>1. j \in Between(rp, wp) /\ j \in Index
  BY AtOccupied, AtIndex
<1>2. j \notin Writing
  BY <1>1, PlansDisjoint DEF Disjoint
<1>3. data \in Seq(Byte) /\ Len(data) \in 1 .. Size - 1
  BY DEF TypeOK, ProdInv, CopyFirst, CopySecond
<1> HIDE DEF j
<1>4. Room \in 1 .. Len(data) /\ Room = Least(Len(data), Size - at)
  BY <1>3 DEF Room, Least, Index
<1>5. CASE CopyFirst
  <2>1. SubSeq(data, 1, Room) \in Seq(Byte) /\ Len(SubSeq(data, 1, Room)) = Room
    BY <1>3, <1>4
  <2>2. ~(at <= j /\ j < at + Room)
    BY <1>1, <1>2, <1>3, <1>4, <1>5, SMTT(30) DEF CopyFirst, Writing, Span, Index
  <2> QED BY <1>1, <1>5, <2>1, <2>2, PutAt DEF CopyFirst, j
<1>6. CASE CopySecond
  <2>1. Room = Size - at /\ at + Len(data) > Size
    BY <1>3, <1>4, <1>6 DEF CopySecond, ProdInv, Least, Index
  <2> DEFINE d == SubSeq(data, Room + 1, Len(data))
  <2>2. d \in Seq(Byte) /\ Len(d) = at + Len(data) - Size
    <3>1. d \in Seq(Byte) /\ Len(d) = Len(data) - Room
      BY <1>3, <1>4
    <3> HIDE DEF d
    <3> QED BY <1>3, <2>1, <3>1 DEF Index
  <2>3. ~(0 <= j /\ j < 0 + Len(d))
    BY <1>1, <1>2, <1>6, <2>2 DEF CopySecond, Writing, Span, Index
  <2>4. 0 \in Index
    BY DEF Index
  <2>5. buf' = Put(0, d)
    BY <1>6 DEF CopySecond
  <2> HIDE DEF d
  <2> QED BY <1>1, <2>2, <2>3, <2>4, <2>5, PutAt DEF j
<1> QED BY <1>5, <1>6

\* A step that leaves the pointers and the occupied bytes leaves the queue.
LEMMA QueueKept ==
  ASSUME TypeOK, TypeOK', UNCHANGED <<wp, rp>>,
         \A k \in 1 .. Occupied(wp, rp) : buf'[At(rp, k)] = buf[At(rp, k)]
  PROVE  Queue' = Queue
<1>1. Queue = [k \in 1 .. Occupied(wp, rp) |-> buf[At(rp, k)]]
  BY DEF Queue, At
<1>2. Queue' = [k \in 1 .. Occupied(wp, rp) |-> buf'[At(rp, k)]]
  BY DEF Queue, At, Occupied
<1> QED BY <1>1, <1>2

LEMMA InitBytes == Init => BytesInv
  BY DEF Init, BytesInv, WrittenInv, ReadInv, PeekInv

\* Before the end of the ring and behind it.
LEMMA AtSplit ==
  ASSUME NEW i \in Index, NEW k \in 1 .. Size
  PROVE  /\ k <= Size - i => At(i, k) = i + k - 1
         /\ ~(k <= Size - i) => At(i, k) = k - (Size - i) - 1
  BY SimpleFifoAssumption DEF At, Index

\* Bytes put at i are found there, the others stay.
LEMMA PutHit ==
  ASSUME NEW i \in Index, NEW d \in Seq(Byte), NEW k \in 1 .. Len(d), i + k - 1 \in Index
  PROVE  Put(i, d)[i + k - 1] = d[k]
<1> USE SimpleFifoAssumption DEF Index
<1> DEFINE j == i + k - 1
<1>1. i <= j /\ j < i + Len(d) /\ j - i + 1 = k
  OBVIOUS
<1> HIDE DEF j
<1>2. j \in Index
  BY DEF j
<1>3. Put(i, d)[j] = d[j - i + 1]
  BY <1>1, <1>2, PutAt
<1> QED BY <1>1, <1>3 DEF j

LEMMA PutMiss ==
  ASSUME NEW i \in Index, NEW d \in Seq(Byte), NEW j \in Index, j < i \/ i + Len(d) <= j
  PROVE  Put(i, d)[j] = buf[j]
<1>1. ~(i <= j /\ j < i + Len(d))
  BY SimpleFifoAssumption DEF Index
<1> QED BY <1>1, PutAt

\* The second chunk, of the bytes behind the first "room", ends before the
\* first one begins.
LEMMA SecondShort ==
  ASSUME NEW n \in 1 .. Size - 1, NEW i \in Index, NEW room, room = Size - i,
         NEW k \in 1 .. n
  PROVE  0 + (n - room) <= i + k - 1
  BY SimpleFifoAssumption DEF Index

LEMMA SecondTail ==
  ASSUME NEW n \in Nat, NEW i \in Index, NEW room \in 1 .. n - 1, room = Size - i,
         NEW k \in 1 .. n, ~(k <= Size - i)
  PROVE  k - room \in 1 .. n - room /\ room + (k - room) = k /\ k - room = k - (Size - i)
  BY SimpleFifoAssumption DEF Index

\* Copies put the bytes where they belong.
LEMMA CopyFirstBytes == ASSUME IInv, CopyFirst PROVE WrittenInv'
<1> USE Numbers DEF IInv
<1>1. /\ UNCHANGED <<data, at>> /\ ppc = "first"
      /\ buf' = Put(at, SubSeq(data, 1, Room))
      /\ ppc' = IF Room < Len(data) THEN "second" ELSE "publish"
  BY DEF CopyFirst
<1>2. data \in Seq(Byte) /\ Len(data) \in 1 .. Size - 1
  BY <1>1 DEF TypeOK, ProdInv
<1>3. /\ Room \in 1 .. Len(data) /\ Room <= Size - at
      /\ Room = IF Len(data) < Size - at THEN Len(data) ELSE Size - at
  BY <1>2 DEF Room, Least, Index
<1>4. ASSUME NEW k \in 1 .. Room PROVE buf'[At(at, k)] = data[k]
  <2> DEFINE d == SubSeq(data, 1, Room)
  <2>1. d \in Seq(Byte) /\ Len(d) = Room /\ d[k] = data[k]
    BY <1>2, <1>3
  <2>2. k \in 1 .. Size /\ k <= Size - at /\ at + k - 1 \in Index
    BY <1>3, SMTT(30) DEF Index
  <2>3. At(at, k) = at + k - 1
    BY <2>2, AtSplit
  <2>4. buf' = Put(at, d)
    BY <1>1
  <2> HIDE DEF d
  <2>5. Put(at, d)[at + k - 1] = d[k]
    BY <2>1, <2>2, PutHit
  <2> QED BY <2>1, <2>3, <2>4, <2>5
<1>5. CASE Room < Len(data)
  <2>1. Room = Size - at /\ ppc' = "second"
    BY <1>1, <1>2, <1>3, <1>5 DEF Index
  <2> QED BY <1>1, <1>4, <2>1 DEF WrittenInv, At
<1>6. CASE ~(Room < Len(data))
  <2>1. Room = Len(data) /\ ppc' = "publish"
    BY <1>1, <1>2, <1>3, <1>6
  <2>2. Len(data)' = Len(data) /\ data' = data
    BY <1>1
  <2> QED BY <1>1, <1>4, <2>1, <2>2 DEF WrittenInv, At
<1> QED BY <1>5, <1>6

LEMMA CopySecondBytes == ASSUME IInv, WrittenInv, CopySecond PROVE WrittenInv'
<1> USE Numbers DEF IInv
<1>1. /\ UNCHANGED <<data, at>> /\ ppc = "second" /\ ppc' = "publish"
      /\ buf' = Put(0, SubSeq(data, Room + 1, Len(data)))
  BY DEF CopySecond
<1>2. data \in Seq(Byte) /\ Len(data) \in 1 .. Size - 1 /\ at + Len(data) > Size
  BY <1>1 DEF TypeOK, ProdInv
<1>3. Room = Size - at /\ Room \in 1 .. Len(data) - 1
  BY <1>2 DEF Room, Least, Index
<1> DEFINE d == SubSeq(data, Room + 1, Len(data))
<1>4. /\ d \in Seq(Byte) /\ Len(d) = Len(data) - Room
      /\ \A k \in 1 .. Len(data) - Room : d[k] = data[Room + k]
  BY <1>2, <1>3
<1>5. buf' = Put(0, d) /\ 0 \in Index
  BY <1>1 DEF Index
<1> HIDE DEF d
<1>6. ASSUME NEW k \in 1 .. Len(data) PROVE buf'[At(at, k)] = data[k]
  <2>1. k \in 1 .. Size
    BY <1>2 DEF Index
  <2>2. CASE k <= Size - at
    <3>1. At(at, k) = at + k - 1 /\ At(at, k) \in Index
      BY <2>1, <2>2, AtSplit, AtIndex
    <3>2. 0 + Len(d) <= at + k - 1
      BY <1>2, <1>3, <1>4, SecondShort DEF Index
    <3>3. Put(0, d)[At(at, k)] = buf[At(at, k)]
      BY <1>4, <1>5, <3>1, <3>2, PutMiss
    <3>4. k \in 1 .. Size - at
      BY <2>2 DEF Index
    <3> QED BY <1>1, <1>5, <3>3, <3>4 DEF WrittenInv
  <2>3. CASE ~(k <= Size - at)
    <3> DEFINE m == k - Room
    <3>1. m \in 1 .. Len(data) - Room /\ Room + m = k /\ m = k - (Size - at)
      BY <1>3, <2>3, SecondTail DEF Index
    <3>2. At(at, k) = m - 1
      BY <2>1, <2>3, <3>1, AtSplit
    <3>3. At(at, k) \in Index
      BY <2>1, AtIndex
    <3> HIDE DEF m
    <3>4. m - 1 = 0 + m - 1 /\ m \in 1 .. Len(d)
      BY <1>4, <3>1
    <3>5. Put(0, d)[0 + m - 1] = d[m]
      BY <1>4, <1>5, <3>2, <3>3, <3>4, PutHit, SMTT(30)
    <3>6. d[m] = data[k]
      BY <1>4, <3>1
    <3> QED BY <1>5, <3>2, <3>4, <3>5, <3>6
  <2> QED BY <2>2, <2>3
<1>7. Len(data)' = Len(data) /\ data' = data /\ at' = at
  BY <1>1
<1> QED BY <1>1, <1>6, <1>7 DEF WrittenInv, At

\* Every other step leaves what the producer has copied, or ends its offer.
LEMMA WrittenNext == ASSUME IInv, WrittenInv, [Next]_fifoVars PROVE WrittenInv'
<1>1. CASE CopyFirst \/ CopySecond
  BY <1>1, CopyFirstBytes, CopySecondBytes
<1>2. CASE \/ \E d \in Offerable : Offer(d) \/ OfferInPlace(d) \/ OfferWrapped(d) \/ FallBack(d)
           \/ OfferAgain \/ Publish
  <2>1. ppc' \in {"idle", "again", "first"}
    BY <1>2 DEF Offer, OfferInPlace, OfferWrapped, FallBack, OfferAgain, Publish
  <2> QED BY <2>1 DEF WrittenInv
<1>3. CASE \/ \E n \in 1 .. Size - 1 : Poll(n)
           \/ \E n \in 1 .. Size - 1, off \in 0 .. Size - 2 : Peek(n, off)
           \/ ReadFirst \/ ReadSecond \/ Release \/ Clear \/ UNCHANGED fifoVars
  <2>1. UNCHANGED <<ppc, data, at, buf>>
    BY <1>3 DEF Poll, Peek, ReadFirst, ReadSecond, Release, Clear, fifoVars, prodVars
  <2> QED BY <2>1 DEF WrittenInv, At
<1> QED BY <1>1, <1>2, <1>3 DEF Next

\* Bytes at the front of the queue stay there.
LEMMA FrontKept ==
  ASSUME IInv, CopyFirst \/ CopySecond, NEW s, NEW n \in 0 .. Occupied(wp, rp), Front(s, n)
  PROVE  Front(s, n)'
<1>1. rp' = rp
  BY DEF CopyFirst, CopySecond
<1>2. ASSUME NEW k \in 1 .. n PROVE s[k] = buf'[At(rp, k)]
  <2>1. Occupied(wp, rp) \in Int
    BY SizesInt, Numbers DEF IInv
  <2>2. k \in 1 .. Occupied(wp, rp)
    BY <2>1
  <2>3. buf'[At(rp, k)] = buf[At(rp, k)]
    BY <2>2, OccupiedKept
  <2> QED BY <2>3 DEF Front
<1> QED BY <1>1, <1>2 DEF Front, At

\* The chunks of a poll.
LEMMA Chunks ==
  ASSUME IInv, cpc # "idle"
  PROVE  /\ First(want) \in 1 .. want /\ First(want) <= Size - rp
         /\ First(want) < want => First(want) = Size - rp
         /\ want <= Occupied(wp, rp) /\ want \in 1 .. Size - 1
<1>1. want \in 1 .. Size - 1 /\ want <= Occupied(wp, rp)
  BY Numbers DEF IInv, ConsInv
<1>2. rp \in Nat /\ rp < Size /\ Size \in Nat
  BY Numbers DEF IInv, Index
<1>3. First(want) = IF want < Size - rp THEN want ELSE Size - rp
  BY DEF First, Least
<1> QED BY <1>1, <1>2, <1>3

\* A copy leaves what the consumer has read, for it stays off those bytes.
LEMMA CopyRead == ASSUME IInv, ReadInv, CopyFirst \/ CopySecond PROVE ReadInv'
<1>1. UNCHANGED <<rp, cpc, want, dest>>
  BY DEF CopyFirst, CopySecond, consVars
<1>2. First(want)' = First(want)
  BY <1>1 DEF First
<1>3. CASE cpc = "second"
  <2>1. First(want) \in 0 .. Occupied(wp, rp)
    <3>1. First(want) \in 1 .. want /\ want <= Occupied(wp, rp) /\ want \in 1 .. Size - 1
      BY <1>3, Chunks
    <3>2. Occupied(wp, rp) \in Int
      BY SizesInt, Numbers DEF IInv
    <3> QED BY <3>1, <3>2
  <2>2. Front(dest, First(want))'
    BY <1>3, <1>1, <1>2, <2>1, FrontKept DEF ReadInv
  <2> QED BY <1>1, <1>2, <1>3, <2>2 DEF ReadInv
<1>4. CASE cpc = "publish" /\ dest # <<>>
  <2>1. want \in 0 .. Occupied(wp, rp)
    BY <1>4, Chunks, SizesInt, Numbers DEF IInv
  <2>2. Front(dest, want)'
    BY <1>1, <1>4, <2>1, FrontKept DEF ReadInv
  <2> QED BY <1>1, <1>4, <2>2 DEF ReadInv
<1>5. CASE cpc \in {"idle", "first"} \/ (cpc = "publish" /\ dest = <<>>)
  BY <1>1, <1>5 DEF ReadInv
<1>6. cpc \in {"idle", "first", "second", "publish"}
  BY DEF IInv, TypeOK
<1> QED BY <1>3, <1>4, <1>5, <1>6

LEMMA ReadFirstRead == ASSUME IInv, ReadInv, ReadFirst PROVE ReadInv'
<1> DEFINE n == First(want)
<1>1. /\ UNCHANGED <<rp, want, buf>> /\ dest' = Get(rp, n)
      /\ cpc' = IF n < want THEN "second" ELSE "publish"
  BY DEF ReadFirst
<1>2. n \in 1 .. want /\ n <= Size - rp /\ want \in 1 .. Size - 1
  BY Chunks DEF ReadFirst
<1>3. n' = n
  BY <1>1 DEF First
<1> HIDE DEF n
<1>4. Len(dest') = n /\ \A k \in 1 .. n : dest'[k] = buf[rp + k - 1]
  BY <1>1, <1>2 DEF Get
<1>5. \A k \in 1 .. n : At(rp, k) = rp + k - 1
  <2> SUFFICES ASSUME NEW k \in 1 .. n PROVE At(rp, k) = rp + k - 1
    OBVIOUS
  <2>1. k \in 1 .. Size /\ k <= Size - rp /\ rp \in Index
    BY <1>2, Numbers DEF IInv, Index
  <2> QED BY <2>1, AtSplit
<1>6. Front(dest, n)'
  BY <1>1, <1>3, <1>4, <1>5 DEF Front, At
<1>7. n = want \/ n < want
  BY <1>2
<1> QED BY <1>1, <1>3, <1>6, <1>7 DEF ReadInv, n, Front

LEMMA ReadSecondRead == ASSUME IInv, ReadInv, ReadSecond PROVE ReadInv'
<1> DEFINE n == First(want)
<1>1. /\ UNCHANGED <<rp, want, buf>> /\ dest' = dest \o Get(0, want - n)
      /\ cpc = "second" /\ cpc' = "publish"
  BY DEF ReadSecond
<1>2. n \in 1 .. want /\ want \in 1 .. Size - 1 /\ n < want /\ n = Size - rp
  BY Chunks, <1>1 DEF ReadInv
<1>3. Front(dest, n)
  BY <1>1 DEF ReadInv
<1> HIDE DEF n
<1> DEFINE g == Get(0, want - n)
<1>4. dest \in Seq(Byte) /\ g \in Seq(Byte)
  <2>1. 0 \in Index /\ want - n \in 0 .. Size /\ 0 + (want - n) <= Size
    BY <1>2, Numbers DEF IInv, Index
  <2> QED BY <2>1, GetType DEF IInv, TypeOK
<1>5. Len(dest) = n /\ \A k \in 1 .. n : dest[k] = buf[At(rp, k)]
  BY <1>3 DEF Front
<1>6. Len(g) = want - n /\ \A k \in 1 .. want - n : g[k] = buf[k - 1]
  <2>1. want - n \in Nat /\ \A k \in 1 .. want - n : 0 + k - 1 = k - 1
    BY <1>2
  <2> QED BY <2>1 DEF Get
<1> HIDE DEF g
<1>7. Len(dest') = want
  <2>1. Len(dest \o g) = n + (want - n)
    <3>1. Len(dest \o g) = Len(dest) + Len(g)
      BY <1>4
    <3> QED BY <1>5, <1>6, <3>1
  <2> QED BY <1>1, <1>2, <2>1 DEF g
<1>8. ASSUME NEW k \in 1 .. want PROVE dest'[k] = buf[At(rp, k)]
  <2>1. k \in 1 .. Size /\ rp \in Index
    BY <1>2, Numbers DEF IInv, Index
  <2>2. CASE k <= n
    <3>1. k \in 1 .. n /\ (dest \o g)[k] = dest[k]
      BY <1>2, <1>4, <1>5, <2>2
    <3> QED BY <1>1, <1>5, <3>1 DEF g
  <2>3. CASE ~(k <= n)
    <3>1. k - n \in 1 .. want - n
      BY <1>2, <2>3
    <3>2. (dest \o g)[k] = g[k - n]
      BY <1>2, <1>4, <1>5, <1>6, <2>3
    <3>3. At(rp, k) = k - n - 1
      BY <1>2, <2>1, <2>3, AtSplit
    <3> QED BY <1>1, <1>6, <3>1, <3>2, <3>3 DEF g
  <2> QED BY <2>2, <2>3
<1>9. Front(dest, want)'
  BY <1>1, <1>7, <1>8 DEF Front, At
<1> QED BY <1>1, <1>9 DEF ReadInv

\* No other step changes what has been read while it is needed.
LEMMA ReadNext == ASSUME IInv, ReadInv, [Next]_fifoVars PROVE ReadInv'
<1>1. CASE CopyFirst \/ CopySecond
  BY <1>1, CopyRead
<1>2. CASE ReadFirst \/ ReadSecond
  BY <1>2, ReadFirstRead, ReadSecondRead
<1>3. CASE \/ \E d \in Offerable : Offer(d) \/ OfferInPlace(d) \/ OfferWrapped(d) \/ FallBack(d)
           \/ OfferAgain \/ Publish \/ UNCHANGED fifoVars
           \/ \E n \in 1 .. Size - 1, off \in 0 .. Size - 2 : Peek(n, off)
  <2>1. UNCHANGED <<buf, rp, cpc, want, dest>>
    BY <1>3 DEF Offer, OfferInPlace, OfferWrapped, FallBack, OfferAgain, Publish, Peek,
                fifoVars, consVars
  <2> QED BY <2>1 DEF ReadInv, Front, At, First
<1>4. CASE \E n \in 1 .. Size - 1 : Poll(n)
  <2>1. dest' = <<>> /\ cpc' \in {"first", "publish"}
    BY <1>4 DEF Poll, ReadInv
  <2> QED BY <2>1 DEF ReadInv
<1>5. CASE Release \/ Clear
  <2>1. dest' = <<>> /\ cpc' = "idle"
    BY <1>5 DEF Release, Clear, ReadInv
  <2> QED BY <2>1 DEF ReadInv
<1> QED BY <1>1, <1>2, <1>3, <1>4, <1>5 DEF Next

\* A peek handle is made for occupied bytes, ...
LEMMA PeekPlaces ==
  ASSUME NEW r \in Index, NEW n \in 1 .. Size - 1, NEW off \in 0 .. Size - 2,
         NEW all, all = Least(n + off, Size - r)
  PROVE  /\ off < all => /\ (r + off) + (all - off) <= Size
                         /\ n + off - all = 0 \/ (r + off) + (all - off) = Size
                         /\ off + (all - off) + (n + off - all) = n + off
         /\ ~(off < all) => off - all = r + off - Size
<1> USE SimpleFifoAssumption DEF Index
<1>1. all = n + off \/ all = Size - r
  BY DEF Least
<1>2. all <= n + off /\ all <= Size - r
  BY DEF Least
<1> QED BY <1>1, <1>2

LEMMA PeekPeek ==
  ASSUME IInv, NEW n \in 1 .. Size - 1, NEW off \in 0 .. Size - 2, Peek(n, off)
  PROVE  PeekInv'
<1> DEFINE all == First(n + off)
<1>1. /\ UNCHANGED <<wp, rp>> /\ Occupied(wp, rp) >= n + off
      /\ peeked' = IF off < all
                   THEN [at |-> rp + off, n1 |-> all - off, n2 |-> n + off - all, off |-> off]
                   ELSE [at |-> off - all, n1 |-> n, n2 |-> 0, off |-> off]
  BY DEF Peek
<1>2. all = Least(n + off, Size - rp) /\ rp \in Index
  BY Numbers DEF First, IInv
<1>3. Occupied(wp, rp)' = Occupied(wp, rp) /\ Occupied(wp, rp) \in Int
  BY <1>1, Numbers, SizesInt DEF Occupied, IInv
<1>4. n + off <= Occupied(wp, rp) /\ off + n + 0 = n + off
  BY <1>1, <1>3, Numbers DEF IInv
<1> HIDE DEF all
<1>5. CASE off < all
  <2>1. /\ (rp + off) + (all - off) <= Size
        /\ n + off - all = 0 \/ (rp + off) + (all - off) = Size
        /\ off + (all - off) + (n + off - all) = n + off
    BY <1>2, <1>5, PeekPlaces
  <2>2. /\ peeked'.at = rp + off /\ peeked'.n1 = all - off
        /\ peeked'.n2 = n + off - all /\ peeked'.off = off
    BY <1>1, <1>5
  <2> QED BY <1>1, <1>3, <1>4, <2>1, <2>2 DEF PeekInv
<1>6. CASE ~(off < all)
  <2>1. off - all = rp + off - Size
    BY <1>2, <1>6, PeekPlaces
  <2>2. /\ peeked'.at = off - all /\ peeked'.n1 = n
        /\ peeked'.n2 = 0 /\ peeked'.off = off
    BY <1>1, <1>6
  <2> QED BY <1>1, <1>3, <1>4, <2>1, <2>2 DEF PeekInv
<1> QED BY <1>5, <1>6

\* ... which an offer only adds to, and is void after a poll.
LEMMA PeekNext == ASSUME IInv, PeekInv, [Next]_fifoVars PROVE PeekInv'
<1>1. CASE \E n \in 1 .. Size - 1, off \in 0 .. Size - 2 : Peek(n, off)
  BY <1>1, PeekPeek
<1>2. CASE Publish
  <2>1. UNCHANGED <<rp, peeked>> /\ wp' = newWp
    BY <1>2 DEF Publish, consVars
  <2>2. Occupied(wp, rp) <= Occupied(newWp, rp)
    BY <1>2, Numbers, PublishAdds DEF IInv, ProdInv, Offered, Publish
  <2>3. Occupied(wp, rp)' = Occupied(newWp, rp)
    BY <2>1 DEF Occupied
  <2>4. Occupied(wp, rp) \in Int /\ Occupied(newWp, rp) \in Int
    BY Numbers, SizesInt DEF IInv
  <2>5. peeked # None => peeked.off + peeked.n1 + peeked.n2 \in Int
    BY Numbers DEF IInv, TypeOK, Index
  <2> QED BY <2>1, <2>2, <2>3, <2>4, <2>5 DEF PeekInv
<1>3. CASE Release \/ Clear
  BY <1>3 DEF Release, Clear, PeekInv
<1>4. CASE \/ \E d \in Offerable : Offer(d) \/ OfferInPlace(d) \/ OfferWrapped(d) \/ FallBack(d)
           \/ OfferAgain \/ CopyFirst \/ CopySecond
           \/ \E n \in 1 .. Size - 1 : Poll(n)
           \/ ReadFirst \/ ReadSecond \/ UNCHANGED fifoVars
  <2>1. UNCHANGED <<wp, rp, peeked>>
    BY <1>4 DEF Offer, OfferInPlace, OfferWrapped, FallBack, OfferAgain, CopyFirst, CopySecond,
                Poll, ReadFirst, ReadSecond, fifoVars, consVars
  <2> QED BY <2>1 DEF PeekInv, Occupied
<1> QED BY <1>1, <1>2, <1>3, <1>4 DEF Next

\* The bytes of every reachable state.
LEMMA SpecBytes == Spec => [](IInv /\ BytesInv)
<1>1. IInv /\ BytesInv /\ [Next]_fifoVars => (IInv /\ BytesInv)'
  BY NextIInv, WrittenNext, ReadNext, PeekNext DEF BytesInv
<1> QED BY InitIInv, InitBytes, <1>1, PTL DEF Spec

\* The bytes of a chunk.
LEMMA GetFacts ==
  ASSUME TypeOK, NEW i \in Index, NEW n \in 0 .. Size, i + n <= Size
  PROVE  /\ Get(i, n) \in Seq(Byte) /\ Len(Get(i, n)) = n
         /\ \A k \in 1 .. n : Get(i, n)[k] = buf[i + k - 1]
<1>1. n \in Nat
  BY SimpleFifoAssumption
<1> QED BY <1>1, GetType DEF Get

\* A byte of a handle is a byte of the queue: the handle begins at a, the
\* off-th byte from r on, and is split into n1 and n2 bytes if it must be.
LEMMA HandleAt ==
  ASSUME NEW r \in Index, NEW a \in Index, NEW n1 \in 1 .. Size, NEW n2 \in 0 .. Size,
         NEW off \in Index, off + n1 + n2 <= Size - 1,
         \/ /\ a = r + off /\ a + n1 <= Size
            /\ n2 = 0 \/ a + n1 = Size
         \/ a = r + off - Size /\ n2 = 0,
         NEW k \in 1 .. n1 + n2
  PROVE  /\ k <= n1 => At(r, off + k) = a + k - 1
         /\ ~(k <= n1) => At(r, off + k) = 0 + (k - n1) - 1
  BY SimpleFifoAssumption DEF Index, At

\* A peek handle shows what was asked for, at any offset and any position of
\* the pointers.
THEOREM Peeked == Spec => []PeekRight
<1>1. ASSUME IInv, PeekInv PROVE PeekRight
  <2> SUFFICES ASSUME peeked # None
               PROVE  Get(peeked.at, peeked.n1) \o Get(0, peeked.n2)
                        = SubSeq(Queue, peeked.off + 1, peeked.off + peeked.n1 + peeked.n2)
    BY DEF PeekRight
  <2> DEFINE a == peeked.at  n1 == peeked.n1  n2 == peeked.n2  off == peeked.off
             g == Get(a, n1)  h == Get(0, n2)
             q == SubSeq(Queue, off + 1, off + n1 + n2)
  <2>1. a \in Index /\ n1 \in 1 .. Size /\ n2 \in 0 .. Size /\ off \in Index /\ rp \in Index
    BY <1>1 DEF IInv, TypeOK
  <2>2. /\ off + n1 + n2 <= Occupied(wp, rp)
        /\ \/ /\ a = rp + off /\ a + n1 <= Size
              /\ n2 = 0 \/ a + n1 = Size
           \/ a = rp + off - Size /\ n2 = 0
    BY <1>1 DEF PeekInv
  <2>3. Occupied(wp, rp) \in 0 .. Size - 1
    BY <1>1, Numbers, OccupiedType DEF IInv
  <2>4. TypeOK
    BY <1>1 DEF IInv
  <2> HIDE DEF a, n1, n2, off
  <2>5. off + n1 + n2 <= Size - 1 /\ a + n1 <= Size /\ 0 \in Index /\ 0 + n2 <= Size
    BY <2>1, <2>2, <2>3, SimpleFifoAssumption DEF Index
  <2>6. /\ g \in Seq(Byte) /\ Len(g) = n1 /\ \A k \in 1 .. n1 : g[k] = buf[a + k - 1]
        /\ h \in Seq(Byte) /\ Len(h) = n2 /\ \A k \in 1 .. n2 : h[k] = buf[0 + k - 1]
    <3>1. n1 \in 0 .. Size
      BY <2>1
    <3> QED BY <2>1, <2>4, <2>5, <3>1, GetFacts
  <2>7. off \in Nat /\ n1 \in Nat /\ n2 \in Nat /\ Occupied(wp, rp) \in Nat
    BY <2>1, <2>3, SimpleFifoAssumption DEF Index
  <2>8. /\ q \in Seq(Byte) /\ Len(q) = n1 + n2
        /\ \A k \in 1 .. n1 + n2 : q[k] = Queue[off + k]
    <3>1. Queue \in Seq(Byte) /\ Len(Queue) = Occupied(wp, rp)
      BY <2>4, QueueFacts
    <3>2. off + 1 \in 1 .. Len(Queue) + 1 /\ off + n1 + n2 \in off .. Len(Queue)
      BY <2>2, <2>7, <3>1
    <3>3. Len(q) = n1 + n2
      BY <2>7, <3>1, <3>2
    <3>4. ASSUME NEW k \in 1 .. n1 + n2 PROVE q[k] = Queue[off + k]
      <4>1. q[k] = Queue[off + 1 + k - 1]
        BY <2>7, <3>1, <3>2
      <4> QED BY <2>7, <4>1
    <3> QED BY <2>7, <3>1, <3>2, <3>3, <3>4
  <2> HIDE DEF g, h, q
  <2>9. g \o h \in Seq(Byte) /\ Len(g \o h) = n1 + n2
    <3>1. g \in Seq(Byte) /\ h \in Seq(Byte)
      BY <2>6
    <3>2. g \o h \in Seq(Byte)
      BY <3>1
    <3>3. Len(g \o h) = Len(g) + Len(h)
      BY <3>1
    <3> QED BY <2>6, <3>2, <3>3
  <2>10. ASSUME NEW k \in 1 .. n1 + n2 PROVE (g \o h)[k] = q[k]
    <3>1. off + k \in 1 .. Occupied(wp, rp)
      BY <2>2, <2>7
    <3>2. q[k] = buf[At(rp, off + k)]
      BY <2>4, <2>8, <3>1, QueueFacts
    <3>3. CASE k <= n1
      <4>1. k \in 1 .. n1 /\ (g \o h)[k] = g[k]
        BY <2>6, <2>7, <3>3
      <4>2. At(rp, off + k) = a + k - 1
        BY <2>1, <2>2, <2>5, <3>3, HandleAt
      <4> QED BY <2>6, <3>2, <4>1, <4>2
    <3>4. CASE ~(k <= n1)
      <4>1. k - n1 \in 1 .. n2
        BY <2>7, <3>4
      <4>2. (g \o h)[k] = h[k - n1]
        BY <2>6, <2>7, <3>4
      <4>3. At(rp, off + k) = 0 + (k - n1) - 1
        BY <2>1, <2>2, <2>5, <3>4, HandleAt
      <4> QED BY <2>6, <3>2, <4>1, <4>2, <4>3
    <3> QED BY <3>3, <3>4
  <2>11. g \o h = q
    BY <2>8, <2>9, <2>10, SeqEqual
  <2> QED BY <2>11 DEF g, h, q, a, n1, n2, off
<1> QED BY <1>1, SpecBytes, PTL DEF BytesInv
-----------------------------------------------------------------------------
(* The queue *)

\* Behind the occupied bytes come those that are published, and behind those
\* that are given up come the ones that stay.
LEMMA OccupiedAdds ==
  ASSUME NEW r \in Index, NEW w \in Index, NEW v \in Index, Occupied(v, w) <= Vacant(w, r)
  PROVE  Occupied(v, r) = Occupied(w, r) + Occupied(v, w) /\ Occupied(v, r) <= Size - 1
  BY SimpleFifoAssumption DEF Index, Occupied, Vacant

LEMMA OccupiedRest ==
  ASSUME NEW r \in Index, NEW w \in Index, NEW q \in Index, Occupied(q, r) <= Occupied(w, r)
  PROVE  Occupied(w, q) = Occupied(w, r) - Occupied(q, r)
  BY SimpleFifoAssumption DEF Index, Occupied

\* An empty ring is an empty queue.
LEMMA InitQueue == Init => ByteQueue!Init
<1> SUFFICES ASSUME Init PROVE ByteQueue!Init
  OBVIOUS
<1>1. Occupied(wp, rp) = 0
  BY DEF Init, Occupied
<1> QED BY <1>1 DEF Queue, Init, ByteQueue!Init

\* The string an offer begins with.
LEMMA OfferableUpTo == ASSUME NEW d \in Offerable PROVE d \in ByteQueue!UpTo(Size - 1)
<1>1. PICK n \in 1 .. Size - 1 : d \in [1 .. n -> Byte]
  BY DEF Offerable
<1>2. n \in 0 .. Size - 1
  BY SimpleFifoAssumption
<1> QED BY <1>1, <1>2 DEF ByteQueue!UpTo

LEMMA OfferQueue ==
  ASSUME IInv, IInv', NEW d \in Offerable,
         Offer(d) \/ OfferInPlace(d) \/ OfferWrapped(d) \/ FallBack(d)
  PROVE  ByteQueue!Next
<1>1. /\ UNCHANGED <<buf, wp, rp, out>> /\ data' = d /\ ppc = "idle"
      /\ whole' \in BOOLEAN
  BY DEF Offer, OfferInPlace, OfferWrapped, FallBack
<1>2. Queue' = Queue
  BY <1>1 DEF Queue, Occupied
<1>3. data = <<>>
  BY <1>1 DEF IInv, ProdInv
<1>4. ByteQueue!Offer(d)
  BY <1>1, <1>2, <1>3 DEF ByteQueue!Offer
<1> QED BY <1>4, OfferableUpTo DEF ByteQueue!Next

LEMMA AgainQueue ==
  ASSUME IInv, OfferAgain PROVE ByteQueue!Next \/ UNCHANGED <<Queue, data, whole, out>>
<1>1. /\ UNCHANGED <<buf, wp, rp, whole, out>> /\ (data' = data \/ data' = <<>>)
      /\ whole = FALSE
  BY DEF OfferAgain, IInv, ProdInv
<1>2. Queue' = Queue
  BY <1>1 DEF Queue, Occupied
<1> QED BY <1>1, <1>2 DEF ByteQueue!Next, ByteQueue!GiveUp

LEMMA CopyQueue ==
  ASSUME IInv, IInv', CopyFirst \/ CopySecond PROVE UNCHANGED <<Queue, data, whole, out>>
<1>1. UNCHANGED <<wp, rp, data, whole, out>>
  BY DEF CopyFirst, CopySecond
<1>2. \A k \in 1 .. Occupied(wp, rp) : buf'[At(rp, k)] = buf[At(rp, k)]
  BY OccupiedKept
<1> QED BY <1>1, <1>2, QueueKept DEF IInv

\* A string of n bytes is a sequence.
LEMMA StringIsSeq ==
  ASSUME NEW n \in Nat, NEW s \in [1 .. n -> Byte]
  PROVE  s \in Seq(Byte) /\ Len(s) = n
  OBVIOUS

\* What lies behind wp when it is published, gap and data, goes to the end.
LEMMA QueueExtended ==
  ASSUME IInv, IInv', UNCHANGED <<buf, rp>>, wp' = newWp, Offered <= Vacant(wp, rp),
         NEW add \in Seq(Byte), Len(add) = Offered,
         \A k \in 1 .. Offered : add[k] = buf[At(wp, k)]
  PROVE  Queue' = Queue \o add
<1> DEFINE m == Occupied(wp, rp)
           n == Offered
<1>1. wp \in Index /\ rp \in Index /\ newWp \in Index
  BY Numbers DEF IInv
<1>2. m \in Nat /\ n \in Nat /\ Size \in Nat
  BY <1>1, OccupiedType, Numbers DEF IInv, Offered
<1>3. Occupied(wp, rp)' = m + n /\ m + n <= Size - 1
  BY <1>1, OccupiedAdds DEF Offered, Occupied
<1>4. Queue \in Seq(Byte) /\ Len(Queue) = m /\ \A k \in 1 .. m : Queue[k] = buf[At(rp, k)]
  BY QueueFacts DEF IInv
<1>5. /\ Queue' \in Seq(Byte) /\ Len(Queue') = m + n
      /\ \A k \in 1 .. m + n : Queue'[k] = buf[At(rp, k)]
  <2>1. Queue' = [k \in 1 .. m + n |-> buf[At(rp, k)]]
    BY <1>3 DEF Queue, At
  <2>2. \A k \in 1 .. m + n : k \in 1 .. Size
    BY <1>2, <1>3
  <2>3. \A k \in 1 .. m + n : buf[At(rp, k)] \in Byte
    BY <1>1, <2>2, AtIndex DEF IInv, TypeOK
  <2>4. m + n \in Nat
    BY <1>2
  <2> HIDE DEF m, n
  <2>5. Queue' \in [1 .. m + n -> Byte] /\ \A k \in 1 .. m + n : Queue'[k] = buf[At(rp, k)]
    BY <2>1, <2>3, Zenon
  <2> QED BY <2>4, <2>5, StringIsSeq
<1>6. Queue \o add \in Seq(Byte) /\ Len(Queue \o add) = m + n
  <2>1. Len(Queue \o add) = Len(Queue) + Len(add) /\ Queue \o add \in Seq(Byte)
    BY <1>4
  <2> QED BY <1>4, <2>1
<1> HIDE DEF m
<1>7. ASSUME NEW k \in 1 .. m + n PROVE Queue'[k] = (Queue \o add)[k]
  <2>1. CASE k <= m
    <3>1. k \in 1 .. m /\ (Queue \o add)[k] = Queue[k]
      BY <1>2, <1>4, <2>1
    <3> QED BY <1>4, <1>5, <3>1
  <2>2. CASE ~(k <= m)
    <3>1. k - m \in 1 .. n /\ m + (k - m) = k /\ k - m \in 1 .. Size /\ m + (k - m) <= Size
      BY <1>2, <1>3, <2>2
    <3>2. (Queue \o add)[k] = add[k - m]
      BY <1>2, <1>4, <2>2
    <3>3. At(rp, m + (k - m)) = At(wp, k - m)
      BY <1>1, <3>1, AtBehind DEF m
    <3> QED BY <1>5, <3>1, <3>2, <3>3
  <2> QED BY <2>1, <2>2
<1> QED BY <1>5, <1>6, <1>7, SeqEqual

\* What a publication makes visible: the data, behind a gap if they begin
\* the ring although wp does not.
LEMMA PublishAt ==
  ASSUME IInv, WrittenInv, Publish, at = wp, Offered = Len(data)
  PROVE  \A k \in 1 .. Offered : data[k] = buf[At(wp, k)]
  BY DEF WrittenInv, Publish

LEMMA PublishGap ==
  ASSUME IInv, WrittenInv, Publish, at = 0, newWp = Len(data), newWp < wp,
         NEW gap, gap = [k \in 1 .. Size - wp |-> buf[wp + k - 1]]
  PROVE  /\ gap \in [1 .. Size - wp -> Byte] /\ Size - wp \in 1 .. Size - 1
         /\ gap \in Seq(Byte) /\ Len(gap) = Size - wp
         /\ gap \o data \in Seq(Byte) /\ Len(gap \o data) = Offered
         /\ Offered = Len(gap) + Len(data)
         /\ \A k \in 1 .. Offered : (gap \o data)[k] = buf[At(wp, k)]
<1> DEFINE g == Size - wp
<1>1. wp \in Index /\ Size \in Nat /\ newWp \in Nat /\ wp \in Nat
  BY Numbers DEF IInv, Index
<1>2. g \in 1 .. Size - 1 /\ g \in Nat /\ wp + g = Size
  BY <1>1 DEF Index
<1>3. data \in Seq(Byte) /\ Len(data) = newWp
  BY DEF IInv, TypeOK
<1>4. gap \in [1 .. g -> Byte]
  <2>1. \A k \in 1 .. g : wp + k - 1 \in Index
    BY <1>1, <1>2 DEF Index
  <2> QED BY <2>1 DEF IInv, TypeOK
<1>5. gap = [k \in 1 .. g |-> buf[wp + k - 1]]
  OBVIOUS
<1>6. Offered = g + newWp
  BY <1>1 DEF Offered, Occupied
<1> HIDE DEF g
<1>7. gap \in Seq(Byte) /\ Len(gap) = g /\ \A k \in 1 .. g : gap[k] = buf[wp + k - 1]
  <2>1. g \in Nat
    BY <1>2
  <2>2. gap \in Seq(Byte) /\ Len(gap) = g
    BY <1>4, <2>1, StringIsSeq
  <2> QED BY <1>5, <2>2
<1>8. gap \o data \in Seq(Byte) /\ Len(gap \o data) = Len(gap) + Len(data)
  BY <1>3, <1>7, ConcatProperties
<1>9. ASSUME NEW k \in 1 .. g + newWp PROVE (gap \o data)[k] = buf[At(wp, k)]
  <2>1. k \in 1 .. Size /\ (k <= g \/ ~(k <= g)) /\ g = Size - wp
    BY <1>1, <1>2 DEF g
  <2>2. CASE k <= g
    <3>1. k \in 1 .. g /\ (gap \o data)[k] = gap[k]
      BY <1>1, <1>2, <1>3, <1>7, <2>2, ConcatProperties
    <3>2. At(wp, k) = wp + k - 1
      BY <1>1, <2>1, <2>2, AtSplit
    <3> QED BY <1>7, <3>1, <3>2
  <2>3. CASE ~(k <= g)
    <3>1. k - g \in 1 .. newWp /\ k - g \in 1 .. Size /\ k - g <= Size - 0 /\ 0 \in Index
      BY <1>1, <1>2, <2>3 DEF Index
    <3>2. (gap \o data)[k] = data[k - g]
      <4>1. k \in 1 .. Len(gap) + Len(data)
        BY <1>3, <1>7
      <4>2. (gap \o data)[k] = IF k <= Len(gap) THEN gap[k] ELSE data[k - Len(gap)]
        BY <1>3, <1>7, <4>1, ConcatProperties
      <4> QED BY <1>7, <2>3, <4>2
    <3>3. data[k - g] = buf[At(0, k - g)]
      BY <1>3, <3>1 DEF WrittenInv, Publish
    <3>4. At(0, k - g) = 0 + (k - g) - 1
      BY <3>1, AtSplit
    <3>5. At(wp, k) = k - g - 1
      BY <1>1, <2>1, <2>3, AtSplit
    <3>6. 0 + (k - g) - 1 = k - g - 1
      BY <1>2
    <3> QED BY <3>2, <3>3, <3>4, <3>5, <3>6
  <2> QED BY <2>1, <2>2, <2>3
<1> QED BY <1>2, <1>3, <1>4, <1>6, <1>7, <1>8, <1>9 DEF g

LEMMA PublishQueue ==
  ASSUME IInv, IInv', WrittenInv, Publish PROVE ByteQueue!Next
<1>1. /\ UNCHANGED <<buf, rp, out>> /\ wp' = newWp /\ ppc = "publish"
      /\ data' = <<>> /\ whole' = FALSE
  BY DEF Publish
<1>2. /\ Len(data) \in 1 .. Size - 1 /\ data \in Seq(Byte) /\ data # <<>>
      /\ Offered <= Vacant(wp, rp)
      /\ \/ at = wp /\ Offered = Len(data)
         \/ at = 0 /\ newWp = Len(data) /\ newWp < wp /\ whole = TRUE
      /\ whole \in BOOLEAN
  BY <1>1 DEF IInv, TypeOK, ProdInv
<1>3. Len(Queue) = Occupied(wp, rp) /\ Occupied(wp, rp) + Offered <= Size - 1 /\ Queue \in Seq(Byte)
  <2>1. Occupied(newWp, rp) = Occupied(wp, rp) + Offered /\ Occupied(newWp, rp) <= Size - 1
    BY <1>2, Numbers, OccupiedAdds DEF IInv, Offered
  <2> QED BY <2>1, QueueFacts DEF IInv
<1>4. Len(Queue) \in Nat /\ Size \in Nat
  BY <1>3, Numbers DEF IInv
<1>5. CASE at = wp /\ Offered = Len(data)
  <2> DEFINE gap == <<>>
  <2>1. Queue' = Queue \o data
    BY <1>1, <1>2, <1>5, PublishAt, QueueExtended
  <2>2. Queue \o gap = Queue
    BY <1>3, ConcatEmptySeq
  <2>3. gap \in IF whole THEN ByteQueue!UpTo(Size - 1) ELSE {<<>>}
    <3>1. 0 \in 0 .. Size - 1 /\ gap \in [1 .. 0 -> Byte]
      BY Numbers DEF IInv
    <3> QED BY <3>1 DEF ByteQueue!UpTo
  <2>4. Len(Queue) + Len(gap) + Len(data) <= Size - 1
    <3>1. Len(gap) = 0
      OBVIOUS
    <3> QED BY <1>2, <1>3, <1>4, <1>5, <3>1
  <2>5. ByteQueue!Put
    BY <1>1, <1>2, <2>1, <2>2, <2>3, <2>4 DEF ByteQueue!Put
  <2> QED BY <2>5 DEF ByteQueue!Next
<1>6. CASE at = 0 /\ newWp = Len(data) /\ newWp < wp /\ whole = TRUE
  <2> DEFINE gap == [k \in 1 .. Size - wp |-> buf[wp + k - 1]]
  <2>1. /\ gap \in [1 .. Size - wp -> Byte] /\ Size - wp \in 1 .. Size - 1
        /\ gap \in Seq(Byte) /\ Len(gap) = Size - wp
        /\ gap \o data \in Seq(Byte) /\ Len(gap \o data) = Offered
        /\ Offered = Len(gap) + Len(data)
        /\ \A k \in 1 .. Offered : (gap \o data)[k] = buf[At(wp, k)]
    BY <1>6, PublishGap
  <2> HIDE DEF gap
  <2>2. Queue' = Queue \o (gap \o data)
    BY <1>1, <1>2, <2>1, QueueExtended
  <2>3. (Queue \o gap) \o data = Queue \o (gap \o data)
    <3>1. Queue \in Seq(Byte) /\ gap \in Seq(Byte) /\ data \in Seq(Byte)
      BY <1>2, <1>3, <2>1
    <3> QED BY <3>1, ConcatAssociative
  <2>4. gap \in ByteQueue!UpTo(Size - 1)
    <3>1. Size - wp \in 0 .. Size - 1
      BY <2>1, <1>4
    <3> QED BY <2>1, <3>1 DEF ByteQueue!UpTo
  <2>5. Len(Queue) + Len(gap) + Len(data) <= Size - 1
    BY <1>2, <1>3, <1>4, <2>1
  <2>6. ByteQueue!Put
    BY <1>1, <1>2, <1>6, <2>2, <2>3, <2>4, <2>5 DEF ByteQueue!Put
  <2> QED BY <2>6 DEF ByteQueue!Next
<1> QED BY <1>2, <1>5, <1>6

\* A poll hands out bytes from the front, or discards them; the queue goes on
\* behind them.
LEMMA ReleaseQueue ==
  ASSUME IInv, IInv', ReadInv, Release PROVE ByteQueue!Next
<1> DEFINE m == Occupied(wp, rp)
           n == want
<1>1. UNCHANGED <<buf, wp, data, whole>> /\ rp' = newRp /\ out' = dest /\ cpc = "publish"
  BY DEF Release, prodVars
<1>2. wp \in Index /\ rp \in Index /\ newRp \in Index /\ Size \in Nat
  BY Numbers DEF IInv
<1>3. Polled = n /\ n \in 1 .. Size - 1 /\ n <= m
  BY <1>1, Chunks DEF IInv, ConsInv
<1>4. m \in 0 .. Size - 1
  BY <1>2, OccupiedType
<1>5. Queue \in Seq(Byte) /\ Len(Queue) = m /\ \A k \in 1 .. m : Queue[k] = buf[At(rp, k)]
  BY QueueFacts DEF IInv
<1>6. Occupied(wp, rp)' = m - n
  BY <1>1, <1>2, <1>3, OccupiedRest DEF Polled, Occupied
<1> HIDE DEF m
<1>7. m - n \in Nat /\ n \in Nat /\ m \in Nat /\ n + 1 \in 1 .. m + 1
  BY <1>2, <1>3, <1>4
<1>8. /\ Queue' \in Seq(Byte) /\ Len(Queue') = m - n
      /\ \A k \in 1 .. m - n : Queue'[k] = buf[At(newRp, k)]
  <2>1. Queue' = [k \in 1 .. m - n |-> buf[At(newRp, k)]]
    BY <1>1, <1>6 DEF Queue, At
  <2>2. \A k \in 1 .. m - n : k \in 1 .. Size
    BY <1>2, <1>3, <1>4
  <2>3. \A k \in 1 .. m - n : buf[At(newRp, k)] \in Byte
    BY <1>2, <2>2, AtIndex DEF IInv, TypeOK
  <2> QED BY <1>7, <2>1, <2>3
<1> DEFINE rest == SubSeq(Queue, n + 1, Len(Queue))
           head == SubSeq(Queue, 1, n)
<1>9. /\ rest \in Seq(Byte) /\ Len(rest) = m - n
      /\ \A k \in 1 .. m - n : rest[k] = Queue[n + k]
  <2>1. n + 1 \in Int /\ Len(Queue) \in Int /\ \A i \in n + 1 .. Len(Queue) : Queue[i] \in Byte
    BY <1>5, <1>7
  <2>2. /\ rest \in Seq(Byte)
        /\ Len(rest) = IF n + 1 <= Len(Queue) THEN Len(Queue) - (n + 1) + 1 ELSE 0
        /\ \A i \in 1 .. Len(Queue) - (n + 1) + 1 : rest[i] = Queue[n + 1 + i - 1]
    BY <2>1, SubSeqProperties
  <2> HIDE DEF rest
  <2>3. Len(rest) = m - n /\ Len(Queue) - (n + 1) + 1 = m - n
    BY <1>5, <1>7, <2>2
  <2>4. \A k \in 1 .. m - n : n + 1 + k - 1 = n + k
    BY <1>7
  <2> QED BY <2>2, <2>3, <2>4
<1>10. head \in Seq(Byte) /\ Len(head) = n /\ \A k \in 1 .. n : head[k] = Queue[k]
  BY <1>3, <1>5, <1>7
<1> HIDE DEF rest, head
<1>11. Queue' = rest
  <2>1. ASSUME NEW k \in 1 .. m - n PROVE Queue'[k] = rest[k]
    <3>1. n + k \in 1 .. m /\ k \in 1 .. Size /\ n + k <= Size
      BY <1>2, <1>4, <1>7
    <3>2. At(rp, n + k) = At(newRp, k)
      BY <1>2, <1>3, <3>1, AtBehind DEF Polled
    <3> QED BY <1>5, <1>8, <1>9, <3>1, <3>2
  <2> QED BY <1>8, <1>9, <2>1, SeqEqual
<1>12. out' \in {<<>>, head}
  <2>1. CASE Front(dest, n)
    <3>1. dest \in Seq(Byte) /\ Len(dest) = n
      BY <2>1 DEF Front, IInv, TypeOK
    <3>2. ASSUME NEW k \in 1 .. n PROVE dest[k] = head[k]
      <4>1. k \in 1 .. m
        BY <1>3, <1>7
      <4> QED BY <1>5, <1>10, <2>1, <4>1 DEF Front
    <3>3. dest = head
      BY <1>10, <3>1, <3>2, SeqEqual
    <3> QED BY <1>1, <3>3
  <2>2. CASE dest = <<>>
    BY <1>1, <2>2
  <2> QED BY <1>1, <2>1, <2>2 DEF ReadInv
<1>13. ByteQueue!Poll(n)
  BY <1>1, <1>3, <1>5, <1>11, <1>12 DEF ByteQueue!Poll, head, rest
<1> QED BY <1>3, <1>13 DEF ByteQueue!Next

LEMMA ClearQueue == ASSUME IInv, Clear PROVE ByteQueue!Next
<1>1. data' = <<>> /\ whole' = FALSE /\ out' = <<>> /\ wp' = 0 /\ rp' = 0
  BY DEF Clear, IInv, ProdInv, prodVars
<1>2. Occupied(wp, rp)' = 0
  BY <1>1 DEF Occupied
<1>3. Queue' = <<>>
  BY <1>2 DEF Queue
<1> QED BY <1>1, <1>3 DEF ByteQueue!Next, ByteQueue!Clear

\* Every step of the ring is a step of the queue or leaves it alone.
LEMMA NextQueue ==
  IInv /\ IInv' /\ BytesInv /\ [Next]_fifoVars => [ByteQueue!Next]_(ByteQueue!queueVars)
<1> SUFFICES ASSUME IInv, IInv', BytesInv, [Next]_fifoVars
             PROVE  ByteQueue!Next \/ UNCHANGED <<Queue, data, whole, out>>
  BY DEF ByteQueue!queueVars
<1> USE DEF BytesInv
<1>1. CASE \E d \in Offerable : Offer(d) \/ OfferInPlace(d) \/ OfferWrapped(d) \/ FallBack(d)
  BY <1>1, OfferQueue
<1>2. CASE OfferAgain \/ CopyFirst \/ CopySecond \/ Publish
  BY <1>2, AgainQueue, CopyQueue, PublishQueue
<1>3. CASE Release \/ Clear
  BY <1>3, ReleaseQueue, ClearQueue
<1>4. CASE \/ \E n \in 1 .. Size - 1 : Poll(n)
           \/ \E n \in 1 .. Size - 1, off \in 0 .. Size - 2 : Peek(n, off)
           \/ ReadFirst \/ ReadSecond \/ UNCHANGED fifoVars
  <2>1. UNCHANGED <<buf, wp, rp, data, whole, out>>
    BY <1>4 DEF Poll, Peek, ReadFirst, ReadSecond, fifoVars, prodVars
  <2> QED BY <2>1 DEF Queue, Occupied
<1> QED BY <1>1, <1>2, <1>3, <1>4 DEF Next

\* The ring implements the queue: every byte that was offered comes out once
\* and in order, whatever the positions of the pointers and however the steps
\* of producer and consumer interleave.
THEOREM Implements == Spec => ImplementsQueue
  BY InitQueue, NextQueue, SpecBytes, PTL DEF Spec, ImplementsQueue, ByteQueue!Spec

=============================================================================
