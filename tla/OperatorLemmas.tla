-------------------------- MODULE OperatorLemmas ---------------------------
(***************************************************************************)
(* What the operators of the model compute and preserve, for every modulus *)
(* and every bound, in the order in which they build on one another:       *)
(* remainders and induction, sequence numbers, the sending window, the     *)
(* sender, and the reassembler.  The proofs about the components cite      *)
(* these lemmas.                                                           *)
(***************************************************************************)
EXTENDS SenderOps, ReceiverOps, SequenceTheorems, WellFoundedInduction, TLAPS

\* A remainder lies below its modulus.
LEMMA ModRange ==
  ASSUME NEW N \in Nat, N > 0, NEW a \in Int
  PROVE  a % N \in 0 .. N - 1
OBVIOUS

\* A number below the modulus is its own remainder.
LEMMA ModSmall ==
  ASSUME NEW N \in Nat, N > 0, NEW a \in 0 .. N - 1
  PROVE  a % N = a
OBVIOUS

\* A number in the second turn loses one modulus.
LEMMA ModTurn ==
  ASSUME NEW N \in Nat, N > 0, NEW a \in N .. 2 * N - 1
  PROVE  a % N = a - N
OBVIOUS

\* A number just below zero gains one modulus.
LEMMA ModBelow ==
  ASSUME NEW N \in Nat, N > 0, NEW a \in (0 - N) .. (0 - 1)
  PROVE  a % N = a + N
OBVIOUS

\* Every nonempty set of naturals has a least element.
LEMMA LeastElement ==
  ASSUME NEW T \in SUBSET Nat, T # {}
  PROVE  \E x \in T : \A y \in T : x <= y
<1> DEFINE R == {ss \in Nat \X Nat : ss[1] < ss[2]}
<1>1. IsWellFoundedOn(R, Nat)
  BY NatLessThanWellFounded, Zenon DEF OpToRel
<1>2. \A x, y \in Nat : y < x => <<y, x>> \in R
  OBVIOUS
<1> HIDE DEF R
<1>3. PICK x \in T : \A y \in T : ~ (<<y, x>> \in R)
  BY <1>1, WFMin, Zenon
<1>4. ASSUME NEW y \in T PROVE x <= y
  <2>1. ~ (<<y, x>> \in R)
    BY <1>3, Zenon
  <2>2. ~ (y < x)
    BY <1>2, <2>1
  <2> QED BY <2>2
<1> QED BY <1>4

\* Induction over the naturals, with the property given as the set S of the
\* numbers that have it.
LEMMA SetInduction ==
  ASSUME NEW S, 0 \in S, \A n \in Nat : n \in S => n + 1 \in S
  PROVE  Nat \subseteq S
<1>1. SUFFICES ASSUME Nat \ S # {} PROVE FALSE
  OBVIOUS
<1>2. PICK x \in Nat \ S : \A y \in Nat \ S : x <= y
  BY <1>1, LeastElement
<1>3. x - 1 \in Nat /\ x - 1 \in S
  BY <1>2
<1> QED BY <1>2, <1>3
-----------------------------------------------------------------------------
\* The modulus is an even number above one, and Half is below it.
LEMMA HalfBelowMod == Mod \in Nat /\ Mod > 1 /\ Half \in Nat /\ Half < Mod
BY ModAssumption DEF Half

\* The quotient of a number below the divisor is zero.
LEMMA DivSmall ==
  ASSUME NEW N \in Nat, N > 0, NEW a \in 0 .. N - 1
  PROVE  a \div N = 0
OBVIOUS

\* unwrap() near a checkpoint in the first half of the first block does nothing
\* but subtract the initial sequence number.
LEMMA UnwrapFirstBlock ==
  ASSUME NEW n \in WrappingInt32, NEW isn \in WrappingInt32, NEW cp \in 0 .. Half
  PROVE  unwrap(n, isn, cp) = (n - isn) % Mod
<1> DEFINE d == (n - isn) % Mod
<1>1. d \in 0 .. Mod - 1
  BY HalfBelowMod, ModRange DEF WrappingInt32
<1>2. cp \div Mod = 0
  BY HalfBelowMod, DivSmall
<1> DEFINE high == cp \div Mod
           out  == d + high * Mod
<1>3. high = 0 /\ out = d
  BY <1>1, <1>2, HalfBelowMod
<1>4. unwrap(n, isn, cp) = IF out < cp /\ cp - out > Half /\ high < Mod - 1 THEN out + Mod
                           ELSE IF out >= cp /\ out - cp > Half /\ high > 1 THEN out - Mod ELSE out
  BY Zenon DEF unwrap
<1> HIDE DEF d, high, out
<1>5. unwrap(n, isn, cp) = d
  BY <1>1, <1>3, <1>4, HalfBelowMod
<1> QED BY <1>5 DEF d

\* What wrap() makes of a number below the modulus leads back to it.
LEMMA WrapBack ==
  ASSUME NEW x \in 0 .. Mod - 1, NEW isn \in WrappingInt32
  PROVE  wrap(x, isn) \in WrappingInt32 /\ (wrap(x, isn) - isn) % Mod = x
<1>1. CASE x + isn < Mod
  <2>1. wrap(x, isn) = x + isn
    BY <1>1, HalfBelowMod, ModSmall DEF wrap, WrappingInt32
  <2>2. x + isn - isn = x /\ x + isn \in 0 .. Mod - 1 /\ x % Mod = x
    BY <1>1, HalfBelowMod, ModSmall DEF WrappingInt32
  <2> QED BY <2>1, <2>2 DEF WrappingInt32
<1>2. CASE x + isn >= Mod
  <2>1. wrap(x, isn) = x + isn - Mod
    BY <1>2, HalfBelowMod, ModTurn DEF wrap, WrappingInt32
  <2>2. x + isn - Mod - isn = x - Mod /\ x + isn - Mod \in 0 .. Mod - 1 /\ x - Mod \in (0 - Mod) .. (0 - 1)
    BY <1>2, HalfBelowMod DEF WrappingInt32
  <2>3. (x - Mod) % Mod = x
    BY <2>2, HalfBelowMod, ModBelow
  <2>4. wrap(x, isn) - isn = x - Mod
    BY <2>1, <2>2, HalfBelowMod DEF WrappingInt32
  <2>5. (wrap(x, isn) - isn) % Mod = x
    BY <2>3, <2>4, Zenon
  <2>6. wrap(x, isn) \in WrappingInt32
    BY <2>1, <2>2 DEF WrappingInt32
  <2> QED BY <2>5, <2>6
<1> QED BY <1>1, <1>2, HalfBelowMod DEF WrappingInt32

\* Wrapping a number and unwrapping it there gives the number.
LEMMA UnwrapWrap ==
  ASSUME NEW x \in 0 .. Half, NEW isn \in WrappingInt32, NEW cp \in 0 .. Half
  PROVE  unwrap(wrap(x, isn), isn, cp) = x
<1>1. x \in 0 .. Mod - 1
  BY HalfBelowMod
<1> QED BY <1>1, WrapBack, UnwrapFirstBlock
-----------------------------------------------------------------------------
\* The segments and buffer entries of a sending window
Segments == [seqno : WrappingInt32, syn : BOOLEAN, fin : BOOLEAN, payload : Seq(Nat)]

Entries == [segment : Segments, remaining_rto : Nat]

BeginOf(e, isn) == (e.segment.seqno - isn) % Mod

EndOf(e, isn) == BeginOf(e, isn) + length_in_sequence_space(e.segment)

\* The segments in buf tile [first, next), except that first may lie inside the
\* oldest.  OutstandingIsInFlight with the order of all pairs spelled out.
Tiled(buf, isn, first, next) ==
  /\ buf \in Seq(Entries)
  /\ Len(buf) = 0 <=> first = next
  /\ Len(buf) > 0 => /\ BeginOf(buf[1], isn) <= first /\ first < EndOf(buf[1], isn)
                     /\ EndOf(buf[Len(buf)], isn) = next
  /\ \A i \in 1 .. Len(buf) : BeginOf(buf[i], isn) < EndOf(buf[i], isn) /\ EndOf(buf[i], isn) <= next
  /\ \A i \in 1 .. Len(buf) - 1 : EndOf(buf[i], isn) = BeginOf(buf[i + 1], isn)
  /\ \A i, j \in 1 .. Len(buf) : i < j => EndOf(buf[i], isn) <= BeginOf(buf[j], isn)

\* No timer exceeds r, and an older segment's timer never exceeds a newer one's.
Timed(buf, r) ==
  /\ \A i \in 1 .. Len(buf) : buf[i].remaining_rto \in 1 .. r
  /\ \A i, j \in 1 .. Len(buf) : i <= j => buf[i].remaining_rto <= buf[j].remaining_rto

Windows(isn) == [buffer : Seq(Entries), isn : {isn}, first_seqno : Nat,
                 window_size : Nat \ {0}, next_seqno : 0 .. Half]

SegmentsOf(buf) == {buf[k].segment : k \in 1 .. Len(buf)}

\* A flag counts for nothing or for one.
LEMMA OneRange ==
  ASSUME NEW b
  PROVE  One(b) \in 0 .. 1
<1>1. One(b) = 1 \/ One(b) = 0
  BY Zenon DEF One
<1> QED BY <1>1

\* The begin of an entry and its length are natural numbers.
LEMMA EntryType ==
  ASSUME NEW isn \in WrappingInt32, NEW e \in Entries
  PROVE  /\ BeginOf(e, isn) \in 0 .. Mod - 1
         /\ length_in_sequence_space(e.segment) \in Nat
         /\ EndOf(e, isn) \in Nat
<1>1. e.segment \in Segments /\ e.segment.seqno \in WrappingInt32 /\ e.segment.payload \in Seq(Nat)
  BY DEF Entries, Segments
<1>2. BeginOf(e, isn) \in 0 .. Mod - 1
  <2>1. e.segment.seqno - isn \in Int
    BY <1>1, HalfBelowMod DEF WrappingInt32
  <2> QED BY <2>1, HalfBelowMod, ModRange DEF BeginOf
<1>3. Len(e.segment.payload) \in Nat
  BY <1>1, LenProperties
<1>4. length_in_sequence_space(e.segment) \in Nat
  <2>1. One(e.segment.syn) \in 0 .. 1 /\ One(e.segment.fin) \in 0 .. 1
    BY OneRange, Zenon
  <2> QED BY <1>3, <2>1 DEF length_in_sequence_space
<1> QED BY <1>2, <1>4, HalfBelowMod DEF EndOf

\* The bounds of the segments of a buffer are natural numbers.
LEMMA BoundsOfBuffer ==
  ASSUME NEW isn \in WrappingInt32, NEW buf \in Seq(Entries), NEW i \in 1 .. Len(buf)
  PROVE  BeginOf(buf[i], isn) \in Nat /\ EndOf(buf[i], isn) \in Nat
<1>1. buf[i] \in Entries
  BY ElementOfSeq
<1>2. BeginOf(buf[i], isn) \in 0 .. Mod - 1 /\ EndOf(buf[i], isn) \in Nat
  BY <1>1, EntryType, Zenon
<1> QED BY <1>2, HalfBelowMod

\* ack_received() recovers the number at which an outstanding segment begins.
LEMMA SeqnoOf ==
  ASSUME NEW isn \in WrappingInt32, NEW w \in Windows(isn), NEW e \in Entries
  PROVE  seqno_of(w, e.segment) = BeginOf(e, isn)
<1>1. e.segment.seqno \in WrappingInt32
  BY DEF Entries, Segments
<1>2. w.isn = isn /\ w.next_seqno \in 0 .. Half
  BY HalfBelowMod DEF Windows
<1> QED BY <1>1, <1>2, UnwrapFirstBlock DEF seqno_of, BeginOf

\* A segment with the number wrap() makes of next_seqno begins there, and
\* add_segment() moves next_seqno to its end.
LEMMA NewEntry ==
  ASSUME NEW isn \in WrappingInt32, NEW w \in Windows(isn), NEW r \in Nat,
         NEW seg \in Segments, seg.seqno = wrap(w.next_seqno, w.isn)
  PROVE  /\ entry(seg, r) \in Entries
         /\ BeginOf(entry(seg, r), isn) = w.next_seqno
         /\ EndOf(entry(seg, r), isn) = w.next_seqno + length_in_sequence_space(seg)
         /\ seqno_of(w, seg) = w.next_seqno
<1>1. w.isn = isn /\ w.next_seqno \in 0 .. Mod - 1 /\ w.next_seqno \in Nat
  BY HalfBelowMod DEF Windows
<1>2. (seg.seqno - isn) % Mod = w.next_seqno
  BY <1>1, WrapBack
<1>3. entry(seg, r).segment = seg /\ entry(seg, r) \in Entries
  BY DEF entry, Entries
<1>4. BeginOf(entry(seg, r), isn) = w.next_seqno
  BY <1>2, <1>3, Zenon DEF BeginOf
<1>5. EndOf(entry(seg, r), isn) = w.next_seqno + length_in_sequence_space(seg)
  BY <1>3, <1>4, Zenon DEF EndOf
<1>6. seqno_of(w, seg) = w.next_seqno
  BY <1>3, <1>4, SeqnoOf, Zenon
<1> QED BY <1>3, <1>4, <1>5, <1>6

-----------------------------------------------------------------------------
\* Adding a segment that begins where the others end extends the tiling.
LEMMA AppendTiled ==
  ASSUME NEW isn \in WrappingInt32, NEW buf, NEW first \in Nat, NEW next \in Nat, first <= next,
         Tiled(buf, isn, first, next),
         NEW e \in Entries, BeginOf(e, isn) = next, NEW last \in Nat, EndOf(e, isn) = last, next < last
  PROVE  Tiled(Append(buf, e), isn, first, last)
<1> DEFINE n == Len(buf)
           new == Append(buf, e)
<1>1. buf \in Seq(Entries) /\ n \in Nat
  BY LenProperties DEF Tiled
<1>2. /\ new \in Seq(Entries)
      /\ Len(new) = n + 1
      /\ \A i \in 1 .. n : new[i] = buf[i]
      /\ new[n + 1] = e
  BY <1>1, AppendProperties
<1>3. \A i \in 1 .. n : BeginOf(buf[i], isn) \in Nat /\ EndOf(buf[i], isn) \in Nat
  BY <1>1, BoundsOfBuffer, Zenon
<1>4. /\ n = 0 <=> first = next
      /\ n > 0 => /\ BeginOf(buf[1], isn) <= first /\ first < EndOf(buf[1], isn)
                  /\ EndOf(buf[n], isn) = next
      /\ \A i \in 1 .. n : BeginOf(buf[i], isn) < EndOf(buf[i], isn) /\ EndOf(buf[i], isn) <= next
      /\ \A i \in 1 .. n - 1 : EndOf(buf[i], isn) = BeginOf(buf[i + 1], isn)
      /\ \A i, j \in 1 .. n : i < j => EndOf(buf[i], isn) <= BeginOf(buf[j], isn)
  BY DEF Tiled
<1> HIDE DEF n, new
<1>5. first # last /\ Len(new) > 0
  BY <1>1, <1>2
<1>6. BeginOf(new[1], isn) <= first /\ first < EndOf(new[1], isn)
  <2>1. CASE n = 0
    BY <2>1, <1>1, <1>2, <1>4
  <2>2. CASE n > 0
    BY <2>2, <1>1, <1>2, <1>4
  <2> QED BY <1>1, <2>1, <2>2
<1>7. \A i \in 1 .. n + 1 : BeginOf(new[i], isn) < EndOf(new[i], isn) /\ EndOf(new[i], isn) <= last
  <2> SUFFICES ASSUME NEW i \in 1 .. n + 1
               PROVE  BeginOf(new[i], isn) < EndOf(new[i], isn) /\ EndOf(new[i], isn) <= last
    OBVIOUS
  <2>1. CASE i = n + 1
    BY <2>1, <1>2
  <2>2. CASE i \in 1 .. n
    BY <2>2, <1>2, <1>3, <1>4
  <2> QED BY <1>1, <2>1, <2>2
<1>8. \A i \in 1 .. n : EndOf(new[i], isn) = BeginOf(new[i + 1], isn)
  <2> SUFFICES ASSUME NEW i \in 1 .. n
               PROVE  EndOf(new[i], isn) = BeginOf(new[i + 1], isn)
    OBVIOUS
  <2>1. CASE i = n
    BY <2>1, <1>1, <1>2, <1>4
  <2>2. CASE i \in 1 .. n - 1
    BY <2>2, <1>1, <1>2, <1>4
  <2> QED BY <1>1, <2>1, <2>2
<1>9. \A i, j \in 1 .. n + 1 : i < j => EndOf(new[i], isn) <= BeginOf(new[j], isn)
  <2> SUFFICES ASSUME NEW i \in 1 .. n + 1, NEW j \in 1 .. n + 1, i < j
               PROVE  EndOf(new[i], isn) <= BeginOf(new[j], isn)
    OBVIOUS
  <2>1. CASE j = n + 1
    BY <2>1, <1>1, <1>2, <1>3, <1>4
  <2>2. CASE j \in 1 .. n
    BY <2>2, <1>1, <1>2, <1>4
  <2> QED BY <1>1, <2>1, <2>2
<1>10. EndOf(new[Len(new)], isn) = last
  BY <1>2
<1>11. Len(new) - 1 = n /\ Len(new) = n + 1 /\ Len(new) # 0
  BY <1>1, <1>2
<1>12. Tiled(new, isn, first, last)
  BY <1>2, <1>5, <1>6, <1>7, <1>8, <1>9, <1>10, <1>11 DEF Tiled
<1> QED BY <1>12 DEF new

\* What remains of a tiling from segment m on tiles [ack, next), when ack lies in
\* segment m or, with nothing left, is next.
LEMMA SuffixTiled ==
  ASSUME NEW isn \in WrappingInt32, NEW buf, NEW first \in Nat, NEW next \in Nat, Tiled(buf, isn, first, next),
         NEW ack \in Nat, NEW m \in 1 .. Len(buf) + 1,
         m <= Len(buf) => BeginOf(buf[m], isn) <= ack /\ ack < EndOf(buf[m], isn),
         m = Len(buf) + 1 => ack = next
  PROVE  Tiled(SubSeq(buf, m, Len(buf)), isn, ack, next)
<1> DEFINE n == Len(buf)
           new == SubSeq(buf, m, n)
<1>1. buf \in Seq(Entries) /\ n \in Nat
  BY LenProperties DEF Tiled
<1>2. /\ new \in Seq(Entries)
      /\ Len(new) = n - m + 1
      /\ \A i \in 1 .. n - m + 1 : new[i] = buf[m + i - 1]
  BY <1>1, SubSeqProperties
<1>3. \A i \in 1 .. n : BeginOf(buf[i], isn) \in Nat /\ EndOf(buf[i], isn) \in Nat
  BY <1>1, BoundsOfBuffer, Zenon
<1>4. /\ n > 0 => EndOf(buf[n], isn) = next
      /\ \A i \in 1 .. n : BeginOf(buf[i], isn) < EndOf(buf[i], isn) /\ EndOf(buf[i], isn) <= next
      /\ \A i \in 1 .. n - 1 : EndOf(buf[i], isn) = BeginOf(buf[i + 1], isn)
      /\ \A i, j \in 1 .. n : i < j => EndOf(buf[i], isn) <= BeginOf(buf[j], isn)
  BY DEF Tiled
<1>5. /\ m \in 1 .. n + 1
      /\ m <= n => BeginOf(buf[m], isn) <= ack /\ ack < EndOf(buf[m], isn)
      /\ m = n + 1 => ack = next
  OBVIOUS
<1> HIDE DEF n, new
<1>6. Len(new) = 0 <=> ack = next
  BY <1>1, <1>2, <1>3, <1>4, <1>5
<1>7. Len(new) > 0 => /\ BeginOf(new[1], isn) <= ack /\ ack < EndOf(new[1], isn)
                      /\ EndOf(new[Len(new)], isn) = next
  <2> SUFFICES ASSUME Len(new) > 0
               PROVE  /\ BeginOf(new[1], isn) <= ack /\ ack < EndOf(new[1], isn)
                      /\ EndOf(new[Len(new)], isn) = next
    OBVIOUS
  <2>1. m <= n /\ Len(new) \in 1 .. n - m + 1 /\ m + Len(new) - 1 = n /\ m + 1 - 1 = m
    BY <1>1, <1>2, <1>5
  <2>2. new[1] = buf[m]
    <3>1. 1 \in 1 .. n - m + 1
      BY <2>1, <1>1
    <3> QED BY <3>1, <2>1, <1>2, Zenon
  <2>3. new[Len(new)] = buf[n]
    BY <2>1, <1>2, Zenon
  <2> QED BY <2>1, <2>2, <2>3, <1>1, <1>4, <1>5
<1>8. \A i \in 1 .. Len(new) : BeginOf(new[i], isn) < EndOf(new[i], isn) /\ EndOf(new[i], isn) <= next
  BY <1>1, <1>2, <1>4, <1>5
<1>9. \A i \in 1 .. Len(new) - 1 : EndOf(new[i], isn) = BeginOf(new[i + 1], isn)
  <2> SUFFICES ASSUME NEW i \in 1 .. Len(new) - 1
               PROVE  EndOf(new[i], isn) = BeginOf(new[i + 1], isn)
    OBVIOUS
  <2>1. m + i - 1 \in 1 .. n - 1 /\ m + (i + 1) - 1 = (m + i - 1) + 1
    BY <1>1, <1>2, <1>5
  <2>2. new[i] = buf[m + i - 1] /\ new[i + 1] = buf[(m + i - 1) + 1]
    BY <2>1, <1>1, <1>2, <1>5
  <2> QED BY <2>1, <2>2, <1>4
<1>10. \A i, j \in 1 .. Len(new) : i < j => EndOf(new[i], isn) <= BeginOf(new[j], isn)
  <2> SUFFICES ASSUME NEW i \in 1 .. Len(new), NEW j \in 1 .. Len(new), i < j
               PROVE  EndOf(new[i], isn) <= BeginOf(new[j], isn)
    OBVIOUS
  <2>1. m + i - 1 \in 1 .. n /\ m + j - 1 \in 1 .. n /\ m + i - 1 < m + j - 1
    BY <1>1, <1>2, <1>5
  <2>2. new[i] = buf[m + i - 1] /\ new[j] = buf[m + j - 1]
    BY <1>1, <1>2, <1>5
  <2> QED BY <2>1, <2>2, <1>4
<1>11. Tiled(new, isn, ack, next)
  BY <1>2, <1>6, <1>7, <1>8, <1>9, <1>10 DEF Tiled
<1> QED BY <1>11 DEF new, n

\* The segments of a suffix are among the segments.
LEMMA SuffixSegments ==
  ASSUME NEW buf \in Seq(Entries), NEW m \in 1 .. Len(buf) + 1
  PROVE  SegmentsOf(SubSeq(buf, m, Len(buf))) \subseteq SegmentsOf(buf)
<1> DEFINE n == Len(buf)
           new == SubSeq(buf, m, n)
<1>1. n \in Nat
  BY LenProperties
<1>2. /\ Len(new) = n - m + 1
      /\ \A i \in 1 .. n - m + 1 : new[i] = buf[m + i - 1]
  BY <1>1, SubSeqProperties
<1>3. m \in 1 .. n + 1
  OBVIOUS
<1> HIDE DEF n, new
<1>4. \A i \in 1 .. Len(new) : m + i - 1 \in 1 .. n /\ new[i] = buf[m + i - 1]
  BY <1>1, <1>2, <1>3
<1>5. SegmentsOf(new) \subseteq SegmentsOf(buf)
  <2> SUFFICES ASSUME NEW i \in 1 .. Len(new) PROVE new[i].segment \in SegmentsOf(buf)
    BY DEF SegmentsOf
  <2>1. m + i - 1 \in 1 .. n /\ new[i].segment = buf[m + i - 1].segment
    BY <1>4
  <2> QED BY <2>1 DEF SegmentsOf, n
<1> QED BY <1>5 DEF new, n

\* Timers stay in order when a segment is added with the current timeout.
LEMMA AppendTimed ==
  ASSUME NEW buf \in Seq(Entries), NEW r \in Nat \ {0}, Timed(buf, r),
         NEW e \in Entries, e.remaining_rto = r
  PROVE  Timed(Append(buf, e), r)
<1> DEFINE n == Len(buf)
           new == Append(buf, e)
<1>1. n \in Nat
  BY LenProperties
<1>2. /\ Len(new) = n + 1
      /\ \A i \in 1 .. n : new[i] = buf[i]
      /\ new[n + 1] = e
  BY AppendProperties
<1>3. /\ \A i \in 1 .. n : buf[i].remaining_rto \in 1 .. r
      /\ \A i, j \in 1 .. n : i <= j => buf[i].remaining_rto <= buf[j].remaining_rto
  BY DEF Timed
<1> HIDE DEF n, new
<1>4. \A i \in 1 .. n + 1 : new[i].remaining_rto \in 1 .. r
  BY <1>1, <1>2, <1>3
<1>5. \A i, j \in 1 .. n + 1 : i <= j => new[i].remaining_rto <= new[j].remaining_rto
  BY <1>1, <1>2, <1>3
<1>6. Timed(new, r)
  BY <1>2, <1>4, <1>5 DEF Timed
<1> QED BY <1>6 DEF new

\* After reset_timer() all timers are equal, and the segments are as before.
LEMMA ResetTiled ==
  ASSUME NEW isn \in WrappingInt32, NEW w \in Windows(isn), NEW r \in Nat \ {0}
  PROVE  /\ reset_timer(w, r) \in Windows(isn)
         /\ reset_timer(w, r).first_seqno = w.first_seqno
         /\ reset_timer(w, r).next_seqno = w.next_seqno
         /\ reset_timer(w, r).window_size = w.window_size
         /\ SegmentsOf(reset_timer(w, r).buffer) \subseteq SegmentsOf(w.buffer)
         /\ Timed(reset_timer(w, r).buffer, r)
         /\ \A first, next : Tiled(w.buffer, isn, first, next)
                               => Tiled(reset_timer(w, r).buffer, isn, first, next)
<1> DEFINE n == Len(w.buffer)
           buf == w.buffer
           new == [k \in 1 .. n |-> [segment |-> buf[k].segment, remaining_rto |-> r]]
<1>1. buf \in Seq(Entries) /\ n \in Nat /\ \A k \in 1 .. n : buf[k] \in Entries
  BY LenProperties DEF Windows
<1>2. new \in Seq(Entries) /\ Len(new) = n
  BY <1>1 DEF Entries
<1>3. \A k \in 1 .. n : new[k].segment = buf[k].segment /\ new[k].remaining_rto = r
  OBVIOUS
<1>4. reset_timer(w, r) = [w EXCEPT !.buffer = new]
  BY Zenon DEF reset_timer
<1> HIDE DEF new
<1>5. /\ reset_timer(w, r) \in Windows(isn)
      /\ reset_timer(w, r).first_seqno = w.first_seqno
      /\ reset_timer(w, r).next_seqno = w.next_seqno
      /\ reset_timer(w, r).window_size = w.window_size
      /\ reset_timer(w, r).buffer = new
  BY <1>2, <1>4 DEF Windows
<1>9. SegmentsOf(new) \subseteq SegmentsOf(buf)
  BY <1>2, <1>3, Zenon DEF SegmentsOf
<1>6. Timed(new, r)
  BY <1>2, <1>3 DEF Timed
<1>7. \A k \in 1 .. n : BeginOf(new[k], isn) = BeginOf(buf[k], isn) /\ EndOf(new[k], isn) = EndOf(buf[k], isn)
  BY <1>3, Zenon DEF BeginOf, EndOf
<1>8. ASSUME NEW first, NEW next, Tiled(buf, isn, first, next)
      PROVE  Tiled(new, isn, first, next)
  BY <1>1, <1>2, <1>7, <1>8 DEF Tiled
<1> QED BY <1>5, <1>6, <1>8, <1>9

\* tick() leaves the segments as they are, and the timers in order when none has
\* run out.
LEMMA ElapsedTiled ==
  ASSUME NEW isn \in WrappingInt32, NEW w \in Windows(isn), NEW ms \in Nat
  PROVE  /\ elapsed(w, ms) \in Windows(isn)
         /\ elapsed(w, ms).first_seqno = w.first_seqno
         /\ elapsed(w, ms).next_seqno = w.next_seqno
         /\ elapsed(w, ms).window_size = w.window_size
         /\ SegmentsOf(elapsed(w, ms).buffer) \subseteq SegmentsOf(w.buffer)
         /\ \A first, next : Tiled(w.buffer, isn, first, next)
                               => Tiled(elapsed(w, ms).buffer, isn, first, next)
         /\ \A r \in Nat : Expired(w, ms) = {} /\ Timed(w.buffer, r)
                             => Timed(elapsed(w, ms).buffer, r)
<1> DEFINE n == Len(w.buffer)
           buf == w.buffer
           after(k) == IF buf[k].remaining_rto > ms
                       THEN [segment |-> buf[k].segment, remaining_rto |-> buf[k].remaining_rto - ms]
                       ELSE buf[k]
           new == [k \in 1 .. n |-> after(k)]
<1>1. buf \in Seq(Entries) /\ n \in Nat /\ \A k \in 1 .. n : buf[k] \in Entries
  BY LenProperties DEF Windows
<1>2. \A k \in 1 .. n : after(k) \in Entries /\ after(k).segment = buf[k].segment
  BY <1>1 DEF Entries
<1>3. \A k \in 1 .. n : buf[k].remaining_rto > ms => after(k).remaining_rto = buf[k].remaining_rto - ms
  BY <1>1 DEF Entries
<1>4. elapsed(w, ms) = [w EXCEPT !.buffer = new]
  BY Zenon DEF elapsed
<1> HIDE DEF after
<1>5. new \in Seq(Entries) /\ Len(new) = n /\ \A k \in 1 .. n : new[k] = after(k)
  BY <1>1, <1>2
<1> HIDE DEF new
<1>6. /\ elapsed(w, ms) \in Windows(isn)
      /\ elapsed(w, ms).first_seqno = w.first_seqno
      /\ elapsed(w, ms).next_seqno = w.next_seqno
      /\ elapsed(w, ms).window_size = w.window_size
      /\ elapsed(w, ms).buffer = new
  BY <1>4, <1>5 DEF Windows
<1>10. SegmentsOf(new) \subseteq SegmentsOf(buf)
  BY <1>2, <1>5, Zenon DEF SegmentsOf
<1>7. \A k \in 1 .. n : BeginOf(new[k], isn) = BeginOf(buf[k], isn) /\ EndOf(new[k], isn) = EndOf(buf[k], isn)
  BY <1>2, <1>5, Zenon DEF BeginOf, EndOf
<1>8. ASSUME NEW first, NEW next, Tiled(buf, isn, first, next)
      PROVE  Tiled(new, isn, first, next)
  BY <1>1, <1>5, <1>7, <1>8 DEF Tiled
<1>9. ASSUME NEW r \in Nat, Expired(w, ms) = {}, Timed(buf, r)
      PROVE  Timed(new, r)
  <2>1. \A k \in 1 .. n : buf[k].remaining_rto \in Nat /\ buf[k].remaining_rto > ms
    <3> SUFFICES ASSUME NEW k \in 1 .. n
                 PROVE  buf[k].remaining_rto \in Nat /\ buf[k].remaining_rto > ms
      OBVIOUS
    <3>1. buf[k] \in Entries
      BY <1>1, ElementOfSeq
    <3>2. buf[k].remaining_rto \in Nat
      BY <3>1 DEF Entries
    <3>3. ~ (buf[k].remaining_rto <= ms)
      BY <1>9, Zenon DEF Expired
    <3> QED BY <3>2, <3>3
  <2>2. \A k \in 1 .. n : new[k].remaining_rto = buf[k].remaining_rto - ms
    BY <1>3, <1>5, <2>1
  <2>3. /\ \A i \in 1 .. n : buf[i].remaining_rto \in 1 .. r
        /\ \A i, j \in 1 .. n : i <= j => buf[i].remaining_rto <= buf[j].remaining_rto
    BY <1>9 DEF Timed
  <2>4. ASSUME NEW i \in 1 .. n PROVE new[i].remaining_rto \in 1 .. r
    <3>1. buf[i].remaining_rto \in 1 .. r /\ buf[i].remaining_rto > ms
      BY <2>1, <2>3
    <3>2. new[i].remaining_rto = buf[i].remaining_rto - ms
      BY <2>2
    <3> QED BY <3>1, <3>2
  <2>5. ASSUME NEW i \in 1 .. n, NEW j \in 1 .. n, i <= j
        PROVE  new[i].remaining_rto <= new[j].remaining_rto
    <3>1. /\ buf[i].remaining_rto <= buf[j].remaining_rto
          /\ buf[i].remaining_rto \in Nat /\ buf[j].remaining_rto \in Nat
      BY <2>1, <2>3, <2>5
    <3>2. /\ new[i].remaining_rto = buf[i].remaining_rto - ms
          /\ new[j].remaining_rto = buf[j].remaining_rto - ms
      BY <2>2
    <3> QED BY <3>1, <3>2
  <2> QED BY <1>5, <2>4, <2>5 DEF Timed
<1> QED BY <1>6, <1>8, <1>9, <1>10

\* The oldest segment is always among those whose timers have run out, and is
\* the one sent again.
LEMMA OldestExpires ==
  ASSUME NEW isn \in WrappingInt32, NEW w \in Windows(isn), NEW ms \in Nat, NEW r \in Nat, Timed(w.buffer, r), Expired(w, ms) # {}
  PROVE  (CHOOSE k \in Expired(w, ms) : \A j \in Expired(w, ms) : k <= j) = 1
<1> DEFINE T == Expired(w, ms)
<1>1. Len(w.buffer) \in Nat /\ \A k \in 1 .. Len(w.buffer) : w.buffer[k].remaining_rto \in Nat
  <2>1. w.buffer \in Seq(Entries)
    BY DEF Windows
  <2>2. Len(w.buffer) \in Nat /\ \A k \in 1 .. Len(w.buffer) : w.buffer[k] \in Entries
    BY <2>1, LenProperties
  <2> QED BY <2>2 DEF Entries
<1>2. T \subseteq 1 .. Len(w.buffer)
  BY DEF Expired
<1>3. PICK k \in T : k \in 1 .. Len(w.buffer) /\ w.buffer[k].remaining_rto <= ms
  BY DEF Expired
<1>4. 1 \in 1 .. Len(w.buffer) /\ w.buffer[1].remaining_rto <= w.buffer[k].remaining_rto
  BY <1>1, <1>3 DEF Timed
<1>5. 1 \in T
  <2>1. w.buffer[1].remaining_rto <= ms
    BY <1>1, <1>3, <1>4
  <2> QED BY <1>4, <2>1 DEF Expired
<1> HIDE DEF T
<1>6. \A j \in T : 1 <= j
  BY <1>1, <1>2
<1>7. \A x \in T : (\A j \in T : x <= j) => x = 1
  BY <1>1, <1>2, <1>5
<1> DEFINE P(x) == \A j \in T : x <= j
<1>8. \E x \in T : P(x)
  BY <1>5, <1>6
<1>9. (CHOOSE x \in T : P(x)) \in T /\ P(CHOOSE x \in T : P(x))
  BY <1>8, Zenon
<1>10. (CHOOSE x \in T : P(x)) = 1
  BY <1>7, <1>9, Zenon
<1> QED BY <1>10, Zenon DEF T

\* For a new acknowledgment the search of ack_received() finds a segment, and what
\* remains of the buffer is a suffix that begins with the segment ack lies in.
LEMMA OutstandingIsSuffix ==
  ASSUME NEW isn \in WrappingInt32, NEW w \in Windows(isn), Tiled(w.buffer, isn, w.first_seqno, w.next_seqno),
         NEW ack \in w.first_seqno + 1 .. w.next_seqno
  PROVE  /\ Begun(w, ack) # {}
         /\ Tiled(outstanding(w, ack), isn, ack, w.next_seqno)
         /\ SegmentsOf(outstanding(w, ack)) \subseteq SegmentsOf(w.buffer)
<1> DEFINE n == Len(w.buffer)
           buf == w.buffer
           T == Begun(w, ack)
<1>1. /\ buf \in Seq(Entries) /\ n \in Nat /\ \A k \in 1 .. n : buf[k] \in Entries
      /\ w.first_seqno \in Nat /\ w.next_seqno \in Nat /\ ack \in Nat
  BY LenProperties DEF Windows
<1>2. \A k \in 1 .. n : /\ BeginOf(buf[k], isn) \in Nat /\ EndOf(buf[k], isn) \in Nat
                        /\ seqno_of(w, buf[k].segment) = BeginOf(buf[k], isn)
  <2> SUFFICES ASSUME NEW k \in 1 .. n
               PROVE  /\ BeginOf(buf[k], isn) \in Nat /\ EndOf(buf[k], isn) \in Nat
                      /\ seqno_of(w, buf[k].segment) = BeginOf(buf[k], isn)
    OBVIOUS
  <2>1. buf[k] \in Entries
    BY <1>1
  <2>2. seqno_of(w, buf[k].segment) = BeginOf(buf[k], isn)
    BY <2>1, SeqnoOf, Zenon
  <2>3. BeginOf(buf[k], isn) \in 0 .. Mod - 1 /\ EndOf(buf[k], isn) \in Nat
    BY <2>1, EntryType, Zenon
  <2> QED BY <2>2, <2>3, HalfBelowMod
<1>3. /\ n = 0 <=> w.first_seqno = w.next_seqno
      /\ n > 0 => BeginOf(buf[1], isn) <= w.first_seqno /\ EndOf(buf[n], isn) = w.next_seqno
      /\ \A i \in 1 .. n : BeginOf(buf[i], isn) < EndOf(buf[i], isn) /\ EndOf(buf[i], isn) <= w.next_seqno
      /\ \A i \in 1 .. n - 1 : EndOf(buf[i], isn) = BeginOf(buf[i + 1], isn)
  BY DEF Tiled
<1>4. T = {k \in 1 .. n : ack > BeginOf(buf[k], isn)}
  BY <1>2 DEF Begun
<1>5. n > 0 /\ 1 \in T
  BY <1>1, <1>2, <1>3, <1>4
<1> DEFINE P(x) == \A j \in T : j <= x
<1> HIDE DEF T
<1>6. \E x \in T : P(x)
  <2> DEFINE D == {n - k : k \in T}
  <2>1. D \in SUBSET Nat /\ D # {}
    <3>1. T \subseteq 1 .. n
      BY <1>4
    <3> QED BY <3>1, <1>1, <1>5
  <2>2. PICK d \in D : \A y \in D : d <= y
    BY <2>1, LeastElement
  <2>3. PICK x \in T : d = n - x
    BY <2>2
  <2>4. \A j \in T : n - x <= n - j
    BY <2>2, <2>3
  <2>5. \A j \in T : j \in Nat /\ x \in Nat
    BY <1>4
  <2>6. P(x)
    BY <2>4, <2>5, <1>1
  <2> QED BY <2>6
<1> DEFINE k == CHOOSE x \in T : P(x)
<1>7. k \in T /\ P(k)
  BY <1>6, Zenon
<1> HIDE DEF k
<1>8. k \in 1 .. n /\ BeginOf(buf[k], isn) < ack /\ \A j \in 1 .. n : ack > BeginOf(buf[j], isn) => j <= k
  BY <1>4, <1>7, <1>2, <1>1
<1> DEFINE done == ack >= seqno_of(w, buf[k].segment) + length_in_sequence_space(buf[k].segment)
           m == k + One(done)
<1>9. outstanding(w, ack) = SubSeq(buf, m, n)
  BY Zenon DEF outstanding, k, T
<1>10. done <=> ack >= EndOf(buf[k], isn)
  BY <1>2, <1>8 DEF EndOf
<1> HIDE DEF done
<1>11. CASE done
  <2>1. One(done) = 1
    BY <1>11, Zenon DEF One
  <2>2. m = k + 1 /\ ack >= EndOf(buf[k], isn)
    BY <2>1, <1>10, <1>11
  <2>3. CASE k = n
    <3>1. ack = w.next_seqno /\ m = n + 1
      BY <2>2, <2>3, <1>1, <1>3, <1>5, <1>8
    <3> HIDE DEF m
    <3>2. Tiled(SubSeq(buf, m, n), isn, ack, w.next_seqno)
      BY <3>1, <1>1, SuffixTiled
    <3>3. SegmentsOf(SubSeq(buf, m, n)) \subseteq SegmentsOf(buf)
      BY <3>1, <1>1, SuffixSegments
    <3> QED BY <3>2, <3>3, <1>5, <1>9 DEF T
  <2>4. CASE k < n
    <3>1. k + 1 \in 1 .. n /\ k \in 1 .. n - 1 /\ ~ (k + 1 <= k)
      BY <2>4, <1>1, <1>8
    <3>2. ~ (ack > BeginOf(buf[k + 1], isn)) /\ EndOf(buf[k], isn) = BeginOf(buf[k + 1], isn)
      BY <3>1, <1>3, <1>8
    <3>3. BeginOf(buf[k + 1], isn) <= ack /\ ack < EndOf(buf[k + 1], isn)
      BY <3>1, <3>2, <2>2, <1>1, <1>2, <1>3
    <3>4. m \in 1 .. n + 1 /\ m # n + 1 /\ BeginOf(buf[m], isn) <= ack /\ ack < EndOf(buf[m], isn)
      <4>1. m = k + 1
        BY <2>2
      <4>2. m \in 1 .. n + 1 /\ m # n + 1
        BY <4>1, <3>1, <1>1
      <4>3. BeginOf(buf[m], isn) <= ack /\ ack < EndOf(buf[m], isn)
        BY <4>1, <3>3, Zenon
      <4> QED BY <4>2, <4>3, Zenon
    <3> HIDE DEF m
    <3>5. Tiled(SubSeq(buf, m, n), isn, ack, w.next_seqno)
      BY <3>4, <1>1, SuffixTiled
    <3>6. SegmentsOf(SubSeq(buf, m, n)) \subseteq SegmentsOf(buf)
      BY <3>4, <1>1, SuffixSegments
    <3> QED BY <3>5, <3>6, <1>5, <1>9 DEF T
  <2> QED BY <2>3, <2>4, <1>1, <1>8
<1>12. CASE ~ done
  <2>1. One(done) = 0
    BY <1>12, Zenon DEF One
  <2>2. m = k /\ ~ (ack >= EndOf(buf[k], isn))
    BY <2>1, <1>8, <1>10, <1>12
  <2>3. m \in 1 .. n + 1 /\ m # n + 1 /\ BeginOf(buf[m], isn) <= ack /\ ack < EndOf(buf[m], isn)
    BY <2>2, <1>1, <1>2, <1>8
  <2> HIDE DEF m
  <2>4. Tiled(SubSeq(buf, m, n), isn, ack, w.next_seqno)
    BY <2>3, <1>1, SuffixTiled
  <2>5. SegmentsOf(SubSeq(buf, m, n)) \subseteq SegmentsOf(buf)
    BY <2>3, <1>1, SuffixSegments
  <2> QED BY <2>4, <2>5, <1>5, <1>9 DEF T
<1> QED BY <1>11, <1>12

\* What an acknowledgment of the number ack makes of the window w: one of what is
\* in flight moves the front of the window there and keeps the outstanding
\* segments, any other one changes nothing.
Moves(w, new, isn, ackno_, ack, size) ==
  /\ ack \in 0 .. Mod - 1
  /\ new \in Windows(isn) /\ new.next_seqno = w.next_seqno
  /\ Tiled(new.buffer, isn, new.first_seqno, w.next_seqno)
  /\ SegmentsOf(new.buffer) \subseteq SegmentsOf(w.buffer)
  /\ acks_new(w, ackno_) <=> ack \in w.first_seqno + 1 .. w.next_seqno
  /\ ack \in w.first_seqno .. w.next_seqno => new.first_seqno = ack /\ new.window_size = size
  /\ ack \notin w.first_seqno .. w.next_seqno => new = w
  /\ ack \notin w.first_seqno + 1 .. w.next_seqno => new.buffer = w.buffer

\* ack_received() of the window
LEMMA AckKeeps ==
  ASSUME NEW isn \in WrappingInt32, NEW w \in Windows(isn), w.first_seqno <= w.next_seqno,
         Tiled(w.buffer, isn, w.first_seqno, w.next_seqno),
         NEW ackno_ \in WrappingInt32, NEW size \in Nat \ {0}
  PROVE  Moves(w, ack_received(w, ackno_, size), isn, ackno_, (ackno_ - isn) % Mod, size)
<1> DEFINE ack == (ackno_ - isn) % Mod
           new == ack_received(w, ackno_, size)
<1>0. ack = (ackno_ - isn) % Mod /\ new = ack_received(w, ackno_, size)
  OBVIOUS
<1> HIDE DEF ack, new
<1> SUFFICES Moves(w, new, isn, ackno_, ack, size)
  BY <1>0, Zenon
<1> USE DEF Moves
<1>1. /\ w.buffer \in Seq(Entries) /\ w.first_seqno \in Nat /\ w.next_seqno \in Nat
      /\ w.isn = isn /\ w.next_seqno \in 0 .. Half
  BY HalfBelowMod DEF Windows
<1>2. unwrap(ackno_, w.isn, w.next_seqno) = ack
  BY <1>0, <1>1, UnwrapFirstBlock
<1>3. ack \in 0 .. Mod - 1
  <2>1. ackno_ - isn \in Int
    BY HalfBelowMod DEF WrappingInt32
  <2> QED BY <1>0, <2>1, HalfBelowMod, ModRange
<1>4. ack \in Nat
  BY <1>3, HalfBelowMod
<1>5. /\ new = IF outside(w, ack) THEN w
               ELSE [buffer |-> IF acks_new(w, ackno_) THEN outstanding(w, ack) ELSE w.buffer,
                     isn |-> w.isn, first_seqno |-> ack, window_size |-> size,
                     next_seqno |-> w.next_seqno]
      /\ acks_new(w, ackno_) <=> ~ outside(w, ack) /\ ack # w.first_seqno
  BY <1>0, <1>2, Zenon DEF ack_received, acks_new
<1>6. /\ outside(w, ack) <=> ack \notin w.first_seqno .. w.next_seqno
      /\ acks_new(w, ackno_) <=> ack \in w.first_seqno + 1 .. w.next_seqno
  BY <1>1, <1>4, <1>5 DEF outside
<1>7. CASE ack \notin w.first_seqno .. w.next_seqno
  <2>1. new = w /\ ack \notin w.first_seqno + 1 .. w.next_seqno
    BY <1>1, <1>4, <1>5, <1>6, <1>7
  <2> QED BY <2>1, <1>3, <1>6, <1>7
<1>8. CASE ack = w.first_seqno
  <2>1. ack \in w.first_seqno .. w.next_seqno /\ ack \notin w.first_seqno + 1 .. w.next_seqno
    BY <1>1, <1>8
  <2>2. new = [buffer |-> w.buffer, isn |-> w.isn, first_seqno |-> ack, window_size |-> size,
               next_seqno |-> w.next_seqno]
    BY <2>1, <1>5, <1>6, Zenon
  <2>3. /\ new \in Windows(isn) /\ new.buffer = w.buffer /\ new.first_seqno = ack
        /\ new.window_size = size /\ new.next_seqno = w.next_seqno
    BY <2>2, <1>1, <1>4 DEF Windows
  <2> QED BY <2>1, <2>3, <1>3, <1>6, <1>8
<1>9. CASE ack \in w.first_seqno + 1 .. w.next_seqno
  <2>1. ack \in w.first_seqno .. w.next_seqno
    BY <1>1, <1>9
  <2>2. new = [buffer |-> outstanding(w, ack), isn |-> w.isn, first_seqno |-> ack,
               window_size |-> size, next_seqno |-> w.next_seqno]
    BY <2>1, <1>5, <1>6, <1>9, Zenon
  <2>3. /\ Tiled(outstanding(w, ack), isn, ack, w.next_seqno)
        /\ SegmentsOf(outstanding(w, ack)) \subseteq SegmentsOf(w.buffer)
    BY <1>9, OutstandingIsSuffix
  <2>4. outstanding(w, ack) \in Seq(Entries)
    BY <2>3 DEF Tiled
  <2>5. /\ new \in Windows(isn) /\ new.buffer = outstanding(w, ack) /\ new.first_seqno = ack
        /\ new.window_size = size /\ new.next_seqno = w.next_seqno
    BY <2>2, <2>4, <1>1, <1>4 DEF Windows
  <2> QED BY <2>1, <2>3, <2>5, <1>3, <1>6, <1>9
<1>10. w.first_seqno .. w.next_seqno \subseteq {w.first_seqno} \cup (w.first_seqno + 1 .. w.next_seqno)
  BY <1>1
<1> QED BY <1>7, <1>8, <1>9, <1>10

\* The front of a sequence
LEMMA FrontOf ==
  ASSUME NEW s \in Seq(Nat), NEW n \in 0 .. Len(s)
  PROVE  LET b == SubSeq(s, 1, n)
         IN  /\ b \in Seq(Nat) /\ Len(b) = n
             /\ \A k \in 1 .. n : b[k] = s[k]
<1> DEFINE b == SubSeq(s, 1, n)
<1>1. Len(s) \in Nat /\ n \in Nat /\ \A i \in 1 .. n : s[i] \in Nat
  BY LenProperties
<1>2. /\ b \in Seq(Nat) /\ Len(b) = IF 1 <= n THEN n - 1 + 1 ELSE 0
      /\ \A k \in 1 .. n - 1 + 1 : b[k] = s[1 + k - 1]
  BY <1>1, SubSeqProperties
<1> HIDE DEF b
<1>3. n - 1 + 1 = n /\ (\A k \in 1 .. n : 1 + k - 1 = k) /\ (1 <= n \/ n = 0)
  BY <1>1
<1>4. b \in Seq(Nat) /\ Len(b) = n /\ \A k \in 1 .. n : b[k] = s[k]
  BY <1>2, <1>3, Zenon
<1> QED BY <1>4 DEF b

\* add_segment() of a segment that begins at next_seqno and is not empty extends
\* the tiling.
LEMMA AddKeeps ==
  ASSUME NEW isn \in WrappingInt32, NEW w \in Windows(isn), w.first_seqno <= w.next_seqno,
         Tiled(w.buffer, isn, w.first_seqno, w.next_seqno),
         NEW seg \in Segments, seg.seqno = wrap(w.next_seqno, w.isn), NEW r \in Nat,
         NEW len \in Nat, len = length_in_sequence_space(seg), len > 0,
         w.next_seqno + len <= Half, NEW new, new = add_segment(w, seg, r)
  PROVE  /\ new \in Windows(isn)
         /\ new.first_seqno = w.first_seqno /\ new.window_size = w.window_size
         /\ new.next_seqno = w.next_seqno + len
         /\ new.buffer = Append(w.buffer, entry(seg, r)) /\ entry(seg, r) \in Entries
         /\ Tiled(new.buffer, isn, new.first_seqno, new.next_seqno)
         /\ SegmentsOf(new.buffer) \subseteq SegmentsOf(w.buffer) \cup {seg}
<1> DEFINE e == entry(seg, r)
           last == w.next_seqno + len
<1>1. /\ w.buffer \in Seq(Entries) /\ w.first_seqno \in Nat /\ w.next_seqno \in Nat
      /\ w.isn = isn /\ w.window_size \in Nat \ {0}
  BY HalfBelowMod DEF Windows
<1>2. /\ e \in Entries /\ e.segment = seg
      /\ BeginOf(e, isn) = w.next_seqno
      /\ EndOf(e, isn) = last
      /\ seqno_of(w, seg) + len = last
  <2>1. e.segment = seg
    BY DEF entry
  <2> QED BY <2>1, NewEntry
<1>3. last \in Nat /\ w.next_seqno < last /\ last \in 0 .. Half
  BY <1>1, HalfBelowMod
<1>4. new = [buffer |-> Append(w.buffer, e), isn |-> isn, first_seqno |-> w.first_seqno,
             window_size |-> w.window_size, next_seqno |-> last]
  BY <1>1, <1>2, Zenon DEF add_segment
<1> HIDE DEF e, last
<1>5. Tiled(Append(w.buffer, e), isn, w.first_seqno, last)
  BY <1>1, <1>2, <1>3, AppendTiled
<1>6. Append(w.buffer, e) \in Seq(Entries)
  BY <1>1, <1>2, AppendProperties
<1>7. /\ new \in Windows(isn) /\ new.buffer = Append(w.buffer, e) /\ new.first_seqno = w.first_seqno
      /\ new.window_size = w.window_size /\ new.next_seqno = last
  BY <1>1, <1>3, <1>4, <1>6 DEF Windows
<1>8. SegmentsOf(Append(w.buffer, e)) \subseteq SegmentsOf(w.buffer) \cup {seg}
  <2>1. /\ Len(w.buffer) \in Nat /\ Len(Append(w.buffer, e)) = Len(w.buffer) + 1
        /\ \A i \in 1 .. Len(w.buffer) : Append(w.buffer, e)[i] = w.buffer[i]
        /\ Append(w.buffer, e)[Len(w.buffer) + 1] = e
    BY <1>1, <1>2, LenProperties, AppendProperties
  <2> SUFFICES ASSUME NEW i \in 1 .. Len(Append(w.buffer, e))
               PROVE  Append(w.buffer, e)[i].segment \in SegmentsOf(w.buffer) \cup {seg}
    BY DEF SegmentsOf
  <2>2. CASE i = Len(w.buffer) + 1
    BY <2>1, <2>2, <1>2
  <2>3. CASE i \in 1 .. Len(w.buffer)
    <3>1. Append(w.buffer, e)[i].segment = w.buffer[i].segment
      BY <2>1, <2>3, Zenon
    <3>2. w.buffer[i].segment \in SegmentsOf(w.buffer)
      BY <2>3 DEF SegmentsOf
    <3> QED BY <3>1, <3>2, Zenon
  <2> QED BY <2>1, <2>2, <2>3
<1> QED BY <1>2, <1>5, <1>7, <1>8 DEF e, last
-----------------------------------------------------------------------------
\* What is left of a sequence without its first n elements
LEMMA DroppedFront ==
  ASSUME NEW s \in Seq(Nat), NEW n \in 0 .. Len(s)
  PROVE  LET b == SubSeq(s, n + 1, Len(s))
         IN  /\ b \in Seq(Nat) /\ Len(b) \in Nat /\ Len(b) = Len(s) - n
             /\ \A k \in 1 .. Len(b) : b[k] = s[n + k]
<1> DEFINE b == SubSeq(s, n + 1, Len(s))
<1>1. Len(s) \in Nat /\ \A i \in n + 1 .. Len(s) : s[i] \in Nat
  OBVIOUS
<1>2. /\ b \in Seq(Nat)
      /\ Len(b) = IF n + 1 <= Len(s) THEN Len(s) - (n + 1) + 1 ELSE 0
      /\ \A k \in 1 .. Len(s) - (n + 1) + 1 : b[k] = s[(n + 1) + k - 1]
  BY <1>1, SubSeqProperties
<1> HIDE DEF b
<1>3. Len(b) = Len(s) - n
  BY <1>1, <1>2
<1>4. ASSUME NEW k \in 1 .. Len(s) - n PROVE b[k] = s[n + k]
  BY <1>1, <1>2, <1>4
<1> QED BY <1>1, <1>2, <1>3, <1>4 DEF b
-----------------------------------------------------------------------------
\* The contents of a queue that holds the bytes of a stream in order, M at most
\* ever written.
Queues == [buffer : Seq(Nat), popped : Nat, ended : BOOLEAN, error : BOOLEAN]

InOrder(q, M) ==
  /\ q \in Queues
  /\ bytes_written(q) <= M
  /\ \A k \in 1 .. Len(q.buffer) : q.buffer[k] = q.popped + k - 1

\* A segment that stands for what its sequence number says of the stream q: SYN
\* at 0, byte i at i + 1, and FIN right behind the last byte of a stream that
\* has ended.
HonestSegment(seg, isn, q) ==
  LET from == (seg.seqno - isn) % Mod
  IN  /\ seg \in Segments
      /\ seg.syn <=> from = 0 /\ length_in_sequence_space(seg) > 0
      /\ seg.syn => seg.payload = << >>
      /\ \A k \in 1 .. Len(seg.payload) : seg.payload[k] = from + k - 2
      /\ Len(seg.payload) > 0 => from + Len(seg.payload) <= bytes_written(q) + 1
      /\ seg.fin => q.ended /\ from + Len(seg.payload) = bytes_written(q) + 1

\* next_seqno counts the SYN, the bytes popped and the FIN.  Until the SYN is
\* acknowledged the window holds one number.
Counted(q, w) ==
  /\ w.next_seqno = 0 => q.popped = 0
  /\ w.next_seqno > 0 => \/ w.next_seqno = q.popped + 1
                         \/ w.next_seqno = q.popped + 2 /\ eof(q)
  /\ w.first_seqno = 0 => w.window_size = 1 /\ w.next_seqno <= 1

Senders(isn) ==
  [stream : Queues, window : Windows(isn), rto : Nat \ {0}, consecutive : Nat,
   window_size_is_zero : BOOLEAN, segments_out : Seq(Segments)]

QueuedSegments(s) == {s.segments_out[i] : i \in 1 .. Len(s.segments_out)}

\* The inductive invariant of a sender
Sending(s, isn, M) ==
  /\ s \in Senders(isn)
  /\ InOrder(s.stream, M)
  /\ s.window.first_seqno <= s.window.next_seqno
  /\ Tiled(s.window.buffer, isn, s.window.first_seqno, s.window.next_seqno)
  /\ Counted(s.stream, s.window)
  /\ \A seg \in SegmentsOf(s.window.buffer) \cup QueuedSegments(s) : HonestSegment(seg, isn, s.stream)

\* A number that fits a 64-bit word
Fits64(x) == Mod * Mod \in Nat /\ x < Mod * Mod

-----------------------------------------------------------------------------
\* A remainder is at most the number.
LEMMA ModAtMost ==
  ASSUME NEW N \in Nat, N > 0, NEW a \in Nat
  PROVE  a % N <= a
<1>1. CASE a < N
  BY <1>1, ModSmall
<1>2. CASE a >= N
  <2>1. a % N \in 0 .. N - 1
    BY ModRange
  <2> QED BY <2>1, <1>2
<1> QED BY <1>1, <1>2

\* 2^64 is a positive number.
LEMMA SquarePositive == Mod * Mod \in Nat /\ Mod * Mod > 0
<1>1. Mod \in Nat /\ Mod > 1
  BY HalfBelowMod
<1>2. \A m \in Nat : m > 1 => m * m \in Nat /\ m * m > 0
  OBVIOUS
<1> QED BY <1>1, <1>2

\* space() is what the window leaves, unless more is in flight than it holds.
LEMMA SpaceIs ==
  ASSUME NEW isn, NEW w \in Windows(isn), w.first_seqno <= w.next_seqno
  PROVE  /\ space(w) \in Nat
         /\ w.next_seqno <= w.first_seqno + w.window_size
              => space(w) <= w.first_seqno + w.window_size - w.next_seqno
         /\ w.next_seqno = w.first_seqno + w.window_size => space(w) = 0
<1> DEFINE d == w.window_size - bytes_in_flight(w)
           N == Mod * Mod
<1>1. /\ w.window_size \in Nat /\ w.first_seqno \in Nat /\ w.next_seqno \in Nat
  BY HalfBelowMod DEF Windows
<1>2. d \in Int /\ d = w.first_seqno + w.window_size - w.next_seqno
  BY <1>1 DEF bytes_in_flight
<1>3. N \in Nat /\ N > 0
  BY SquarePositive
<1>4. space(w) = d % N
  BY Zenon DEF space
<1> HIDE DEF d, N
<1>5. d % N \in 0 .. N - 1
  BY <1>2, <1>3, ModRange
<1>6. d >= 0 => d % N <= d
  BY <1>2, <1>3, ModAtMost
<1>7. space(w) \in Nat
  BY <1>3, <1>4, <1>5
<1> QED BY <1>1, <1>2, <1>4, <1>6, <1>7

\* pop_output() of the first len bytes of a queue in order
LEMMA PopInOrder ==
  ASSUME NEW M \in Nat, NEW q, InOrder(q, M), NEW len \in 0 .. Len(q.buffer)
  PROVE  /\ InOrder(pop_output(q, len), M)
         /\ pop_output(q, len).popped = q.popped + len
         /\ Len(pop_output(q, len).buffer) = Len(q.buffer) - len
         /\ bytes_written(pop_output(q, len)) = bytes_written(q)
         /\ pop_output(q, len).ended = q.ended /\ pop_output(q, len).error = q.error
         /\ peek_output(q, len) \in Seq(Nat) /\ Len(peek_output(q, len)) = len
         /\ \A k \in 1 .. len : peek_output(q, len)[k] = q.popped + k - 1
<1> DEFINE n == Len(q.buffer)
           rest == SubSeq(q.buffer, len + 1, n)
           front == SubSeq(q.buffer, 1, len)
           r == pop_output(q, len)
<1>1. /\ q.buffer \in Seq(Nat) /\ q.popped \in Nat /\ q.ended \in BOOLEAN /\ q.error \in BOOLEAN
      /\ n \in Nat /\ q.popped + n <= M /\ \A k \in 1 .. n : q.buffer[k] = q.popped + k - 1
  BY LenProperties DEF InOrder, Queues, bytes_written
<1>0. len \in 0 .. n
  OBVIOUS
<1>2. min(len, n) = len
  BY <1>1 DEF min
<1>3. /\ rest \in Seq(Nat) /\ Len(rest) = n - len
      /\ \A k \in 1 .. Len(rest) : rest[k] = q.buffer[len + k]
  BY <1>1, DroppedFront
<1>4. /\ front \in Seq(Nat) /\ Len(front) = len
      /\ \A k \in 1 .. len : front[k] = q.buffer[k]
  BY <1>0, <1>1, FrontOf
<1>5. r = [buffer |-> rest, popped |-> q.popped + len, ended |-> q.ended, error |-> q.error]
      /\ peek_output(q, len) = front
  BY <1>2, Zenon DEF pop_output, peek_output
<1> HIDE DEF n, rest, front, r
<1>6. /\ r \in Queues /\ r.buffer = rest /\ r.popped = q.popped + len
      /\ r.ended = q.ended /\ r.error = q.error
  BY <1>1, <1>3, <1>5 DEF Queues
<1>7. bytes_written(r) = q.popped + n /\ bytes_written(q) = q.popped + n
  BY <1>1, <1>3, <1>6 DEF bytes_written, n
<1>8. \A k \in 1 .. Len(r.buffer) : r.buffer[k] = r.popped + k - 1
  <2>1. SUFFICES ASSUME NEW k \in 1 .. Len(rest) PROVE rest[k] = q.popped + len + k - 1
    BY <1>6
  <2>2. len + k \in 1 .. n /\ len \in Nat
    BY <1>0, <1>1, <1>3
  <2>3. rest[k] = q.popped + (len + k) - 1
    BY <2>2, <1>1, <1>3
  <2> QED BY <2>2, <2>3, <1>1
<1>9. InOrder(r, M)
  BY <1>1, <1>6, <1>7, <1>8 DEF InOrder
<1>10. \A k \in 1 .. len : front[k] = q.popped + k - 1
  <2>1. SUFFICES ASSUME NEW k \in 1 .. len PROVE front[k] = q.popped + k - 1
    OBVIOUS
  <2>2. k \in 1 .. n
    BY <1>0, <1>1
  <2>3. front[k] = q.buffer[k] /\ q.buffer[k] = q.popped + k - 1
    BY <2>2, <1>1, <1>4, Zenon
  <2> QED BY <2>3
<1>11. Len(r.buffer) = n - len
  BY <1>3, <1>6
<1> QED BY <1>4, <1>5, <1>6, <1>7, <1>9, <1>10, <1>11 DEF r, n

\* Honest segments stay honest as long as the stream grows only while it is open.
LEMMA StaysHonest ==
  ASSUME NEW seg, NEW isn, NEW q, NEW r, HonestSegment(seg, isn, q), isn \in WrappingInt32,
         bytes_written(q) \in Nat, bytes_written(r) \in Nat, bytes_written(q) <= bytes_written(r),
         q.ended => r.ended /\ bytes_written(r) = bytes_written(q)
  PROVE  HonestSegment(seg, isn, r)
<1> DEFINE from == (seg.seqno - isn) % Mod
<1>1. seg \in Segments /\ seg.seqno \in WrappingInt32
  BY DEF HonestSegment, Segments
<1>2. Len(seg.payload) \in Nat
  BY <1>1, LenProperties DEF Segments
<1>3. from \in Int
  BY <1>1, HalfBelowMod, ModRange DEF WrappingInt32
<1>4. /\ seg.syn <=> from = 0 /\ length_in_sequence_space(seg) > 0
      /\ seg.syn => seg.payload = << >>
      /\ \A k \in 1 .. Len(seg.payload) : seg.payload[k] = from + k - 2
      /\ Len(seg.payload) > 0 => from + Len(seg.payload) <= bytes_written(q) + 1
      /\ seg.fin => q.ended /\ from + Len(seg.payload) = bytes_written(q) + 1
  BY DEF HonestSegment
<1> HIDE DEF from
<1>5. Len(seg.payload) > 0 => from + Len(seg.payload) <= bytes_written(r) + 1
  BY <1>2, <1>3, <1>4
<1>6. seg.fin => r.ended /\ from + Len(seg.payload) = bytes_written(r) + 1
  BY <1>4, Zenon
<1> QED BY <1>1, <1>4, <1>5, <1>6, Zenon DEF HonestSegment, from

\* The types of what the invariant of a sender speaks of
LEMMA SendingType ==
  ASSUME NEW isn \in WrappingInt32, NEW M \in Nat, NEW s, Sending(s, isn, M)
  PROVE  /\ s.window \in Windows(isn) /\ s.window.isn = isn
         /\ s.window.first_seqno \in Nat /\ s.window.next_seqno \in Nat
         /\ s.window.next_seqno <= Half /\ s.window.window_size \in Nat \ {0}
         /\ s.rto \in Nat \ {0} /\ s.segments_out \in Seq(Segments)
         /\ s.stream.popped \in Nat /\ Len(s.stream.buffer) \in Nat
         /\ s.stream.ended \in BOOLEAN /\ s.stream.error \in BOOLEAN
         /\ bytes_written(s.stream) = s.stream.popped + Len(s.stream.buffer)
         /\ bytes_written(s.stream) \in Nat /\ bytes_written(s.stream) <= M
<1>1. s \in Senders(isn) /\ InOrder(s.stream, M)
  BY DEF Sending
<1>2. /\ s.window \in Windows(isn) /\ s.rto \in Nat \ {0} /\ s.segments_out \in Seq(Segments)
      /\ s.stream \in Queues
  BY <1>1 DEF Senders
<1>3. /\ s.window.isn = isn
      /\ s.window.first_seqno \in Nat /\ s.window.next_seqno \in 0 .. Half
      /\ s.window.window_size \in Nat \ {0}
  BY <1>2 DEF Windows
<1>4. /\ s.stream.popped \in Nat /\ s.stream.buffer \in Seq(Nat)
      /\ s.stream.ended \in BOOLEAN /\ s.stream.error \in BOOLEAN
  BY <1>2 DEF Queues
<1>5. Len(s.stream.buffer) \in Nat
  BY <1>4, LenProperties
<1>6. bytes_written(s.stream) <= M
  BY <1>1 DEF InOrder
<1>7. bytes_written(s.stream) = s.stream.popped + Len(s.stream.buffer)
  BY DEF bytes_written
<1>8. bytes_written(s.stream) \in Nat
  BY <1>4, <1>5, <1>7
<1>9. s.window.next_seqno \in Nat /\ s.window.next_seqno <= Half
  BY <1>3, HalfBelowMod
<1> QED BY <1>2, <1>3, <1>4, <1>5, <1>6, <1>7, <1>8, <1>9, Zenon

\* state() in terms of the counters
LEMMA StateIs ==
  ASSUME NEW isn \in WrappingInt32, NEW M \in Nat, NEW s, Sending(s, isn, M), ~ s.stream.error
  PROVE  LET first == s.window.first_seqno
             next  == s.window.next_seqno
         IN  /\ next = 0 => state(s) = "CLOSED"
             /\ next > 0 /\ first = 0 => state(s) = "SYN_SENT"
             /\ first > 0 /\ next = s.stream.popped + 1 => state(s) = "SYN_ACKED"
             /\ first > 0 /\ next = s.stream.popped + 2 =>
                  /\ eof(s.stream) /\ next = bytes_written(s.stream) + 2
                  /\ state(s) = IF first < next THEN "FIN_SENT" ELSE "FIN_ACKED"
<1> DEFINE first == s.window.first_seqno
           next == s.window.next_seqno
           flight == bytes_in_flight(s.window)
           n == Len(s.stream.buffer)
           written == bytes_written(s.stream)
<1>1. /\ first \in Nat /\ next \in Nat /\ s.stream.popped \in Nat /\ n \in Nat
      /\ written = s.stream.popped + n
  BY SendingType
<1>2. first <= next /\ (next > 0 => \/ next = s.stream.popped + 1
                                    \/ next = s.stream.popped + 2 /\ eof(s.stream))
  BY DEF Sending, Counted
<1>3. state(s) = IF next = 0 THEN "CLOSED"
                 ELSE IF next = flight THEN "SYN_SENT"
                 ELSE IF ~ eof(s.stream) \/ next < written + 2 THEN "SYN_ACKED"
                 ELSE IF next = written + 2 /\ flight > 0 THEN "FIN_SENT"
                 ELSE "FIN_ACKED"
  BY Zenon DEF state, next_seqno_absolute
<1>4. flight = next - first
  BY DEF bytes_in_flight
<1>5. eof(s.stream) => n = 0
  BY DEF eof
<1> HIDE DEF first, next, flight, n, written
<1>6. /\ next = 0 => state(s) = "CLOSED"
      /\ next > 0 /\ first = 0 => state(s) = "SYN_SENT"
      /\ first > 0 /\ next = s.stream.popped + 1 => state(s) = "SYN_ACKED"
      /\ first > 0 /\ next = s.stream.popped + 2 =>
           /\ eof(s.stream) /\ next = written + 2
           /\ state(s) = IF first < next THEN "FIN_SENT" ELSE "FIN_ACKED"
  BY <1>1, <1>2, <1>3, <1>4, <1>5
<1> QED BY <1>6 DEF first, next, written

\* The sender s may send seg next and leave q in its stream: seg begins at
\* next_seqno, carries something, and stands for what q lacks.
MaySend(s, q, seg, isn, M) ==
  LET last == s.window.next_seqno + length_in_sequence_space(seg)
  IN  /\ InOrder(q, M)
      /\ bytes_written(q) = bytes_written(s.stream) /\ q.ended = s.stream.ended
      /\ HonestSegment(seg, isn, q)
      /\ seg.seqno = wrap(s.window.next_seqno, s.window.isn)
      /\ length_in_sequence_space(seg) > 0
      /\ last = q.popped + 1 \/ (last = q.popped + 2 /\ eof(q))
      /\ last <= Half
      /\ s.window.first_seqno = 0 => last <= 1

\* add_segment() and _send()
LEMMA SendKeeps ==
  ASSUME NEW isn \in WrappingInt32, NEW M \in Nat, NEW s, Sending(s, isn, M),
         NEW q, NEW seg, MaySend(s, q, seg, isn, M),
         NEW t, t = send_new([s EXCEPT !.stream = q], seg)
  PROVE  /\ Sending(t, isn, M) /\ t.stream = q
         /\ t.window.first_seqno = s.window.first_seqno
         /\ t.window.window_size = s.window.window_size
         /\ t.window.next_seqno = s.window.next_seqno + length_in_sequence_space(seg)
<1> DEFINE len == length_in_sequence_space(seg)
<1>0. /\ InOrder(q, M)
      /\ bytes_written(q) = bytes_written(s.stream) /\ q.ended = s.stream.ended
      /\ HonestSegment(seg, isn, q)
      /\ seg.seqno = wrap(s.window.next_seqno, s.window.isn)
      /\ len > 0
      /\ \/ s.window.next_seqno + len = q.popped + 1
         \/ s.window.next_seqno + len = q.popped + 2 /\ eof(q)
      /\ s.window.next_seqno + len <= Half
      /\ s.window.first_seqno = 0 => s.window.next_seqno + len <= 1
  BY DEF MaySend
<1> DEFINE w == add_segment(s.window, seg, s.rto)
           out == Append(s.segments_out, seg)
<1>1. seg \in Segments /\ len \in Nat
  <2>1. seg \in Segments
    BY <1>0 DEF HonestSegment
  <2>2. entry(seg, 1) \in Entries /\ entry(seg, 1).segment = seg
    BY <2>1 DEF entry, Entries
  <2> QED BY <2>1, <2>2, EntryType
<1>2. /\ s.window \in Windows(isn) /\ s.rto \in Nat /\ s.rto \in Nat \ {0}
      /\ s.segments_out \in Seq(Segments)
      /\ s.window.next_seqno \in Nat /\ s.window.first_seqno \in Nat
      /\ bytes_written(s.stream) \in Nat
  BY SendingType
<1>3. /\ s.window.first_seqno <= s.window.next_seqno
      /\ Tiled(s.window.buffer, isn, s.window.first_seqno, s.window.next_seqno)
      /\ s.consecutive \in Nat /\ s.window_size_is_zero \in BOOLEAN
      /\ s.window.first_seqno = 0 => s.window.window_size = 1
  BY DEF Sending, Senders, Counted
<1>4. /\ w \in Windows(isn)
      /\ w.first_seqno = s.window.first_seqno /\ w.window_size = s.window.window_size
      /\ w.next_seqno = s.window.next_seqno + len
      /\ Tiled(w.buffer, isn, w.first_seqno, w.next_seqno)
      /\ SegmentsOf(w.buffer) \subseteq SegmentsOf(s.window.buffer) \cup {seg}
  <2> DEFINE v == s.window
             r == s.rto
  <2>1. /\ w = add_segment(v, seg, r)
        /\ v \in Windows(isn) /\ r \in Nat
        /\ v.first_seqno <= v.next_seqno
        /\ Tiled(v.buffer, isn, v.first_seqno, v.next_seqno)
        /\ seg.seqno = wrap(v.next_seqno, v.isn)
        /\ v.next_seqno + len <= Half
    BY <1>0, <1>2, <1>3
  <2>2. len = length_in_sequence_space(seg) /\ len > 0
    BY <1>0
  <2> HIDE DEF w, v, r, len
  <2>3. /\ w \in Windows(isn)
        /\ w.first_seqno = v.first_seqno /\ w.window_size = v.window_size
        /\ w.next_seqno = v.next_seqno + len
        /\ Tiled(w.buffer, isn, w.first_seqno, w.next_seqno)
        /\ SegmentsOf(w.buffer) \subseteq SegmentsOf(v.buffer) \cup {seg}
    BY ONLY <2>1, <2>2, <1>1, isn \in WrappingInt32, AddKeeps
  <2> QED BY <2>3 DEF v
<1>5. /\ out \in Seq(Segments)
      /\ {out[i] : i \in 1 .. Len(out)} \subseteq QueuedSegments(s) \cup {seg}
  <2>1. /\ out \in Seq(Segments) /\ Len(s.segments_out) \in Nat
        /\ Len(out) = Len(s.segments_out) + 1
        /\ \A i \in 1 .. Len(s.segments_out) : out[i] = s.segments_out[i]
        /\ out[Len(s.segments_out) + 1] = seg
    BY <1>1, <1>2, LenProperties, AppendProperties
  <2> HIDE DEF out
  <2>2. ASSUME NEW i \in 1 .. Len(out) PROVE out[i] \in QueuedSegments(s) \cup {seg}
    <3>1. CASE i = Len(s.segments_out) + 1
      BY <2>1, <3>1
    <3>2. CASE i \in 1 .. Len(s.segments_out)
      BY <2>1, <3>2, Zenon DEF QueuedSegments
    <3> QED BY <2>1, <3>1, <3>2
  <2> QED BY <2>1, <2>2
<1>6. q \in Queues
  BY <1>0 DEF InOrder
<1> HIDE DEF w, out, len
<1>7. /\ t \in Senders(isn) /\ t.stream = q /\ t.window = w /\ t.segments_out = out
  <2>1. s \in Senders(isn) /\ w = add_segment(s.window, seg, s.rto) /\ out = Append(s.segments_out, seg)
    BY DEF Sending, w, out
  <2> QED BY <2>1, <1>4, <1>5, <1>6 DEF send_new, Senders
<1>8. Counted(q, w)
  BY <1>0, <1>1, <1>2, <1>3, <1>4 DEF Counted
<1>9. ASSUME NEW g \in SegmentsOf(w.buffer) \cup QueuedSegments(t) PROVE HonestSegment(g, isn, q)
  <2>1. CASE g = seg
    BY <2>1, <1>0
  <2>2. CASE g \in SegmentsOf(s.window.buffer) \cup QueuedSegments(s)
    <3>1. HonestSegment(g, isn, s.stream)
      BY <2>2 DEF Sending
    <3>2. /\ bytes_written(q) \in Nat /\ bytes_written(s.stream) <= bytes_written(q)
          /\ s.stream.ended => q.ended /\ bytes_written(q) = bytes_written(s.stream)
      BY <1>0, <1>2
    <3> QED BY <3>1, <3>2, <1>2, StaysHonest
  <2>3. QueuedSegments(t) \subseteq QueuedSegments(s) \cup {seg}
    BY <1>5, <1>7, Zenon DEF QueuedSegments
  <2> QED BY <2>1, <2>2, <2>3, <1>4
<1>10. w.first_seqno <= w.next_seqno
  BY <1>1, <1>2, <1>3, <1>4
<1> QED BY <1>0, <1>4, <1>7, <1>8, <1>9, <1>10 DEF Sending, len

\* A step of the sender from s to t that fills the window: it sends what the stream
\* holds and respects the window if it was respected.
Fills(s, t, isn, M) ==
  /\ Sending(t, isn, M)
  /\ t.stream.error = s.stream.error /\ t.stream.ended = s.stream.ended
  /\ bytes_written(t.stream) = bytes_written(s.stream)
  /\ t.window.first_seqno = s.window.first_seqno
  /\ t.window.window_size = s.window.window_size
  /\ s.window.next_seqno <= t.window.next_seqno
  /\ s.window.next_seqno <= s.window.first_seqno + s.window.window_size
       => t.window.next_seqno <= s.window.first_seqno + s.window.window_size

\* The number of turns the loop of fill_window() has left at most: one for every
\* byte, and one for the FIN.
Left(s) == Len(s.stream.buffer) + One(s.window.next_seqno <= s.stream.popped + 1)

\* The first segment, SYN
LEMMA SynKeeps ==
  ASSUME NEW isn \in WrappingInt32, NEW M \in Nat, M + 2 <= Half,
         NEW s, Sending(s, isn, M), s.window.next_seqno = 0
  PROVE  /\ Fills(s, send_new(s, SynSegment(s)), isn, M)
         /\ send_new(s, SynSegment(s)).window.next_seqno = 1
<1> DEFINE seg == SynSegment(s)
           t == send_new(s, seg)
           q == s.stream
<1>1. /\ s.window \in Windows(isn) /\ s.window.isn = isn /\ s.window.first_seqno \in Nat
      /\ s.window.window_size \in Nat \ {0} /\ q.popped \in Nat
      /\ bytes_written(q) \in Nat
  BY SendingType
<1>2. /\ s \in Senders(isn) /\ InOrder(q, M) /\ s.window.first_seqno <= s.window.next_seqno
      /\ q.popped = 0
      /\ s.window.first_seqno = 0 => s.window.window_size = 1
  BY DEF Sending, Counted
<1>3. s.window.first_seqno = 0 /\ s.window.window_size = 1
  BY <1>1, <1>2
<1>4. seg = [seqno |-> wrap(0, isn), syn |-> TRUE, fin |-> FALSE, payload |-> << >>]
  BY <1>1 DEF SynSegment
<1>5. wrap(0, isn) \in WrappingInt32 /\ (wrap(0, isn) - isn) % Mod = 0
  BY WrapBack, HalfBelowMod
<1>6. One(TRUE) = 1 /\ One(FALSE) = 0
  BY DEF One
<1>7. /\ seg \in Segments /\ seg.seqno = wrap(s.window.next_seqno, s.window.isn)
      /\ length_in_sequence_space(seg) = 1
      /\ seg.payload = << >> /\ seg.syn = TRUE /\ seg.fin = FALSE /\ seg.seqno = wrap(0, isn)
  <2>1. seg.payload = << >> /\ seg.syn = TRUE /\ seg.fin = FALSE /\ seg.seqno = wrap(0, isn)
    BY <1>4
  <2>2. Len(<< >>) = 0 /\ << >> \in Seq(Nat)
    OBVIOUS
  <2>3. seg \in Segments
    BY <1>4, <1>5, <2>2 DEF Segments
  <2>4. length_in_sequence_space(seg) = One(TRUE) + Len(<< >>) + One(FALSE)
    BY <2>1, Zenon DEF length_in_sequence_space
  <2>5. length_in_sequence_space(seg) = 1
    <3>1. length_in_sequence_space(seg) = 1 + 0 + 0
      BY <2>2, <2>4, <1>6, Zenon
    <3> QED BY <3>1
  <2>6. seg.seqno = wrap(s.window.next_seqno, s.window.isn)
    BY <2>1, <1>1, Zenon
  <2> QED BY <2>1, <2>3, <2>5, <2>6, Zenon
<1>8. HonestSegment(seg, isn, q)
  BY <1>5, <1>7 DEF HonestSegment
<1>9. t = send_new([s EXCEPT !.stream = q], seg)
  <2>1. s = [s EXCEPT !.stream = q]
    BY <1>2 DEF Senders
  <2> QED BY <2>1, Zenon
<1> HIDE DEF seg, t
<1>10. 1 <= Half
  BY HalfBelowMod
<1>11. /\ Sending(t, isn, M) /\ t.stream = q
       /\ t.window.first_seqno = s.window.first_seqno
       /\ t.window.window_size = s.window.window_size
       /\ t.window.next_seqno = s.window.next_seqno + 1
  <2>1. MaySend(s, q, seg, isn, M)
    BY <1>1, <1>2, <1>7, <1>8, <1>10 DEF MaySend
  <2>2. t.window.next_seqno = s.window.next_seqno + length_in_sequence_space(seg)
    BY <2>1, <1>9, SendKeeps
  <2> QED BY <2>1, <2>2, <1>7, <1>9, SendKeeps
<1>12. Fills(s, t, isn, M)
  BY <1>1, <1>3, <1>11 DEF Fills
<1> QED BY <1>11, <1>12 DEF t, seg

\* What more_to_send() says of the counters: the SYN has been acknowledged, the FIN
\* has not been sent, and the next segment carries something.
LEMMA MoreToSend ==
  ASSUME NEW isn \in WrappingInt32, NEW M \in Nat, M + 2 <= Half,
         NEW s, Sending(s, isn, M), ~ s.stream.error, s.window.next_seqno > 0,
         NEW mp \in Nat \ {0}, more_to_send(s, mp)
  PROVE  /\ s.window.first_seqno > 0
         /\ s.window.next_seqno = s.stream.popped + 1
<1>1. /\ s.window \in Windows(isn) /\ s.window.first_seqno \in Nat /\ s.window.next_seqno \in Nat
      /\ s.window.window_size \in Nat \ {0} /\ s.stream.popped \in Nat
  BY SendingType
<1>2. /\ s.window.first_seqno <= s.window.next_seqno
      /\ Tiled(s.window.buffer, isn, s.window.first_seqno, s.window.next_seqno)
      /\ s.window.first_seqno = 0 => s.window.window_size = 1 /\ s.window.next_seqno <= 1
      /\ \/ s.window.next_seqno = s.stream.popped + 1
         \/ s.window.next_seqno = s.stream.popped + 2
  BY DEF Sending, Counted
<1>3. ~ full(s.window) /\ state(s) \notin {"FIN_SENT", "FIN_ACKED"}
  BY Zenon DEF more_to_send
<1>4. s.window.first_seqno > 0
  <2>1. SUFFICES ASSUME s.window.first_seqno = 0 PROVE FALSE
    BY <1>1
  <2>2. s.window.next_seqno = s.window.first_seqno + s.window.window_size
    BY <2>1, <1>1, <1>2
  <2>3. space(s.window) = 0
    BY <2>2, <1>1, <1>2, SpaceIs
  <2>4. Len(s.window.buffer) # 0
    BY <2>1, <1>2 DEF Tiled
  <2>5. s.window.buffer # << >>
    BY <2>4
  <2> QED BY <2>3, <2>5, <1>3 DEF full
<1>5. s.window.next_seqno # s.stream.popped + 2
  BY <1>1, <1>3, <1>4, StateIs
<1> QED BY <1>2, <1>4, <1>5

\* A turn of the loop of fill_window() that sends something
LEMMA TurnKeeps ==
  ASSUME NEW isn \in WrappingInt32, NEW M \in Nat, M + 2 <= Half,
         NEW s, Sending(s, isn, M), ~ s.stream.error, s.window.next_seqno > 0,
         NEW mp \in Nat \ {0}, more_to_send(s, mp)
  PROVE  /\ Fills(s, one_turn(s, mp), isn, M)
         /\ Left(one_turn(s, mp)) < Left(s)
<1> DEFINE seg == next_segment(s, mp)
           q == popped(s, mp)
           t == one_turn(s, mp)
           len == payload_len(s, mp)
           room == space(s.window)
           first == s.window.first_seqno
           next == s.window.next_seqno
           size == s.window.window_size
           n == Len(s.stream.buffer)
           fin == fin_fits(q, len, room)
<1>1. /\ s.window \in Windows(isn) /\ s.window.isn = isn /\ first \in Nat /\ next \in Nat
      /\ size \in Nat \ {0} /\ s.stream.popped \in Nat /\ n \in Nat
      /\ s.stream.ended \in BOOLEAN /\ s.stream.error \in BOOLEAN
      /\ bytes_written(s.stream) = s.stream.popped + n
      /\ bytes_written(s.stream) \in Nat /\ bytes_written(s.stream) <= M
  BY SendingType
<1>2. s \in Senders(isn) /\ InOrder(s.stream, M) /\ first <= next
  BY DEF Sending
<1>3. first > 0 /\ next = s.stream.popped + 1
  BY MoreToSend
<1>4. room \in Nat /\ (next <= first + size => room <= first + size - next)
  BY <1>1, <1>2, SpaceIs
<1>5. len \in 0 .. n /\ len <= room
  <2>1. len = min(room, min(mp, n))
    BY DEF payload_len, buffer_size
  <2> HIDE DEF len, room, n
  <2> QED BY <2>1, <1>1, <1>4 DEF min
<1>6. q = pop_output(s.stream, len) /\ t = send_new([s EXCEPT !.stream = q], seg)
  BY Zenon DEF popped, one_turn
<1>7. seg = [seqno |-> wrap(next, isn), syn |-> FALSE, fin |-> fin,
             payload |-> peek_output(s.stream, len)]
  BY <1>1, Zenon DEF next_segment
<1>8. /\ InOrder(q, M) /\ q.popped = s.stream.popped + len /\ Len(q.buffer) = n - len
      /\ bytes_written(q) = bytes_written(s.stream)
      /\ q.ended = s.stream.ended /\ q.error = s.stream.error
  <2> HIDE DEF len
  <2> QED BY <1>2, <1>5, <1>6, PopInOrder
<1>8b. /\ peek_output(s.stream, len) \in Seq(Nat) /\ Len(peek_output(s.stream, len)) = len
       /\ \A k \in 1 .. len : peek_output(s.stream, len)[k] = s.stream.popped + k - 1
  <2> HIDE DEF len
  <2> QED BY <1>2, <1>5, <1>6, PopInOrder
<1>9. fin \in BOOLEAN /\ (fin => eof(q) /\ len < room)
  BY Zenon DEF fin_fits, eof
<1>9b. /\ len \in Nat /\ next \in Nat /\ s.stream.popped \in Nat
       /\ next = s.stream.popped + 1 /\ q.popped = s.stream.popped + len
  <2> HIDE DEF len, next, q
  <2> QED BY <1>1, <1>3, <1>5, <1>8
<1>10. length_in_sequence_space(seg) # 0
  BY Zenon DEF more_to_send
<1> HIDE DEF seg, q, t, len, room, first, next, size, n, fin
<1>11. /\ seg.seqno = wrap(next, isn) /\ seg.syn = FALSE /\ seg.fin = fin
       /\ seg.payload = peek_output(s.stream, len)
  BY <1>7
<1>12. One(fin) \in 0 .. 1 /\ (fin => One(fin) = 1) /\ (~ fin => One(fin) = 0)
  <2>1. (fin => One(fin) = 1) /\ (~ fin => One(fin) = 0)
    BY Zenon DEF One
  <2> QED BY <2>1, OneRange
<1>13. length_in_sequence_space(seg) = len + One(fin)
  <2>1. length_in_sequence_space(seg) = 0 + len + One(fin)
    BY <1>8b, <1>11, Zenon DEF length_in_sequence_space, One
  <2> QED BY <2>1, <1>5, <1>12
<1>14. eof(q) => q.ended /\ n - len = 0
  BY <1>8 DEF eof
<1>15. next \in 0 .. Mod - 1 /\ next + len + One(fin) <= Half
  BY <1>1, <1>3, <1>5, <1>12, HalfBelowMod
<1>16. wrap(next, isn) \in WrappingInt32 /\ (wrap(next, isn) - isn) % Mod = next
  BY <1>15, WrapBack
<1>17. HonestSegment(seg, isn, q)
  <2>1. seg \in Segments
    BY <1>7, <1>8b, <1>9, <1>16 DEF Segments
  <2>2. (seg.seqno - isn) % Mod = next /\ Len(seg.payload) = len
    BY <1>8b, <1>11, <1>16, Zenon
  <2>3. next # 0 /\ (len > 0 => next + len <= bytes_written(q) + 1)
    <3>1. /\ bytes_written(q) = s.stream.popped + n /\ n \in Nat /\ len \in 0 .. n
          /\ s.stream.popped \in Nat /\ next = s.stream.popped + 1
      BY <1>1, <1>3, <1>5, <1>8, Zenon
    <3> QED BY ONLY <3>1
  <2>4. \A k \in 1 .. len : seg.payload[k] = next + k - 2
    <3>1. SUFFICES ASSUME NEW k \in 1 .. len PROVE seg.payload[k] = next + k - 2
      OBVIOUS
    <3>2. seg.payload[k] = s.stream.popped + k - 1
      BY <1>8b, <1>11, Zenon
    <3> QED BY <3>2, <1>1, <1>3, <1>5
  <2>5. seg.fin => q.ended /\ next + len = bytes_written(q) + 1
    <3>1. SUFFICES ASSUME fin PROVE q.ended /\ next + len = bytes_written(q) + 1
      BY <1>11, Zenon
    <3>2. q.ended /\ n - len = 0
      BY <3>1, <1>9, <1>14, Zenon
    <3>3. next + len = bytes_written(q) + 1
      BY <3>2, <1>1, <1>3, <1>5, <1>8
    <3> QED BY <3>2, <3>3, Zenon
  <2> QED BY <2>1, <2>2, <2>3, <2>4, <2>5, <1>11, Zenon DEF HonestSegment
<1>18. MaySend(s, q, seg, isn, M)
  <2>1. length_in_sequence_space(seg) > 0 /\ next + length_in_sequence_space(seg) <= Half
    BY <1>1, <1>5, <1>10, <1>12, <1>13, <1>15
  <2>2. \/ next + length_in_sequence_space(seg) = q.popped + 1
        \/ next + length_in_sequence_space(seg) = q.popped + 2 /\ eof(q)
    <3>1. CASE fin
      <4>1. eof(q) /\ One(fin) = 1
        BY <3>1, <1>9, <1>12, Zenon
      <4>2. length_in_sequence_space(seg) = len + 1
        BY <4>1, <1>13, Zenon
      <4>3. next + (len + 1) = q.popped + 2
        BY <1>9b
      <4> QED BY <4>1, <4>2, <4>3, Zenon
    <3>2. CASE ~ fin
      <4>1. One(fin) = 0
        BY <3>2, <1>12, Zenon
      <4>2. length_in_sequence_space(seg) = len + 0
        BY <4>1, <1>13, Zenon
      <4>3. next + (len + 0) = q.popped + 1
        BY <1>9b
      <4> QED BY <4>2, <4>3, Zenon
    <3> QED BY <3>1, <3>2
  <2>3. seg.seqno = wrap(s.window.next_seqno, s.window.isn)
    BY <1>1, <1>11, Zenon DEF next
  <2>4. s.window.first_seqno # 0
    BY <1>1, <1>3 DEF first
  <2> QED BY <2>1, <2>2, <2>3, <2>4, <1>8, <1>17, Zenon DEF MaySend, next
<1>19. /\ Sending(t, isn, M) /\ t.stream = q
       /\ t.window.first_seqno = first /\ t.window.window_size = size
       /\ t.window.next_seqno = next + len + One(fin)
  <2>1. /\ Sending(t, isn, M) /\ t.stream = q
        /\ t.window.first_seqno = first /\ t.window.window_size = size
        /\ t.window.next_seqno = next + length_in_sequence_space(seg)
    BY <1>6, <1>18, SendKeeps DEF first, size, next
  <2> QED BY <2>1, <1>1, <1>5, <1>12, <1>13
<1>20. next <= first + size => next + len + One(fin) <= first + size
  <2>1. len + One(fin) <= room
    BY <1>4, <1>5, <1>9, <1>12
  <2> QED BY <2>1, <1>1, <1>4, <1>5, <1>12
<1>21. Fills(s, t, isn, M)
  <2>1. next <= next + len + One(fin)
    BY <1>1, <1>5, <1>12
  <2> QED BY <2>1, <1>8, <1>19, <1>20, Zenon DEF Fills, first, next, size
<1>22. Left(t) < Left(s)
  <2>1. Left(s) = n + 1
    <3>1. One(s.window.next_seqno <= s.stream.popped + 1) = 1
      <4>1. s.window.next_seqno <= s.stream.popped + 1
        BY <1>1, <1>3 DEF next
      <4> QED BY <4>1, Zenon DEF One
    <3> QED BY <3>1, <1>1 DEF Left, n
  <2> DEFINE b == t.window.next_seqno <= t.stream.popped + 1
  <2>2. Left(t) = n - len + One(b) /\ One(b) \in 0 .. 1
    BY <1>8, <1>19, OneRange DEF Left
  <2>3. CASE len > 0
    <3> HIDE DEF b
    <3> QED BY <2>1, <2>2, <2>3, <1>1, <1>5
  <2>4. CASE len = 0
    <3>1. fin /\ ~ b
      <4>1. fin /\ One(fin) = 1
        <5>1. One(fin) # 0
          BY <2>4, <1>10, <1>12, <1>13
        <5> QED BY <5>1, <1>12, Zenon
      <4>2. t.window.next_seqno = next + len + One(fin) /\ t.stream.popped = s.stream.popped + len
        BY <1>8, <1>19, Zenon
      <4>3. next \in Nat /\ next = s.stream.popped + 1 /\ s.stream.popped \in Nat
        BY <1>1, <1>3
      <4> QED BY <2>4, <4>1, <4>2, <4>3
    <3>2. One(b) = 0
      BY <3>1, Zenon DEF One
    <3> HIDE DEF b
    <3> QED BY <2>1, <2>2, <2>4, <3>2, <1>1
  <2> QED BY <2>3, <2>4, <1>5
<1> QED BY <1>21, <1>22 DEF t

\* The recursive function of send_all() exists: there is one sequence of turns.
LEMMA LoopUnfolds ==
  ASSUME NEW s, NEW mp
  PROVE  \E f : /\ f[0] = s
                /\ \A n \in Nat : f[n + 1] = one_turn(f[n], mp)
                /\ send_all(s, mp) = f[buffer_size(s.stream) + 1]
<1> DEFINE IsPrefix(g, n) == /\ DOMAIN g = 0 .. n
                             /\ g[0] = s
                             /\ \A k \in 1 .. n : g[k] = one_turn(g[k - 1], mp)
           Def(f) == [n \in Nat |-> IF n = 0 THEN s ELSE one_turn(f[n - 1], mp)]
<1>1. \A n \in Nat : \E g : IsPrefix(g, n)
  <2> DEFINE S == {n \in Nat : \E g : IsPrefix(g, n)}
  <2>1. 0 \in S
    <3> DEFINE g == [k \in 0 .. 0 |-> s]
    <3>1. IsPrefix(g, 0)
      OBVIOUS
    <3> QED BY <3>1
  <2>2. ASSUME NEW n \in Nat, n \in S PROVE n + 1 \in S
    <3>1. PICK g : IsPrefix(g, n)
      BY <2>2
    <3> DEFINE h == [k \in 0 .. n + 1 |-> IF k = n + 1 THEN one_turn(g[n], mp) ELSE g[k]]
    <3>2. DOMAIN h = 0 .. n + 1 /\ h[0] = s
      BY <3>1
    <3>3. \A k \in 1 .. n + 1 : h[k] = one_turn(h[k - 1], mp)
      <4>1. SUFFICES ASSUME NEW k \in 1 .. n + 1 PROVE h[k] = one_turn(h[k - 1], mp)
        OBVIOUS
      <4>2. h[k - 1] = g[k - 1]
        BY <4>1
      <4>3. CASE k = n + 1
        <5>1. h[k] = one_turn(g[n], mp) /\ k - 1 = n
          BY <4>3
        <5> QED BY <5>1, <4>2, Zenon
      <4>4. CASE k \in 1 .. n
        <5>1. h[k] = g[k] /\ g[k] = one_turn(g[k - 1], mp)
          BY <4>4, <3>1
        <5> QED BY <5>1, <4>2, Zenon
      <4> QED BY <4>3, <4>4
    <3>4. IsPrefix(h, n + 1)
      BY <3>2, <3>3, Zenon
    <3>5. n + 1 \in Nat
      OBVIOUS
    <3> HIDE DEF h, IsPrefix
    <3> QED BY <3>4, <3>5
  <2> HIDE DEF S
  <2>3. Nat \subseteq S
    BY <2>1, <2>2, SetInduction
  <2> QED BY <2>3 DEF S
<1>2. ASSUME NEW m \in Nat, NEW n \in Nat, m <= n, NEW g, NEW h, IsPrefix(g, m), IsPrefix(h, n)
      PROVE  \A k \in 0 .. m : g[k] = h[k]
  <2> DEFINE S == {k \in Nat : k <= m => g[k] = h[k]}
  <2>1. 0 \in S
    BY <1>2
  <2>2. ASSUME NEW k \in Nat, k \in S PROVE k + 1 \in S
    <3>1. SUFFICES ASSUME k + 1 <= m PROVE g[k + 1] = h[k + 1]
      OBVIOUS
    <3>2. g[k] = h[k] /\ k + 1 \in 1 .. m /\ k + 1 \in 1 .. n /\ (k + 1) - 1 = k
      BY <3>1, <2>2, <1>2
    <3>3. g[k + 1] = one_turn(g[k], mp) /\ h[k + 1] = one_turn(h[k], mp)
      <4>1. g[k + 1] = one_turn(g[(k + 1) - 1], mp) /\ h[k + 1] = one_turn(h[(k + 1) - 1], mp)
        BY <3>2, <1>2, Zenon
      <4> QED BY <4>1, <3>2, Zenon
    <3> QED BY <3>2, <3>3, Zenon
  <2> HIDE DEF S
  <2>3. Nat \subseteq S
    BY <2>1, <2>2, SetInduction
  <2> QED BY <2>3 DEF S
<1> DEFINE G(n) == CHOOSE g : IsPrefix(g, n)
           F == [n \in Nat |-> G(n)[n]]
<1>3. \A n \in Nat : IsPrefix(G(n), n)
  BY <1>1, Zenon
<1>4. F = Def(F)
  <2> HIDE DEF G
  <2>1. SUFFICES ASSUME NEW n \in Nat PROVE F[n] = IF n = 0 THEN s ELSE one_turn(F[n - 1], mp)
    OBVIOUS
  <2>2. CASE n = 0
    BY <2>2, <1>3
  <2>3. CASE n # 0
    <3>1. n - 1 \in Nat /\ n - 1 <= n /\ n \in 1 .. n /\ n - 1 \in 0 .. n - 1
      BY <2>3
    <3>2. IsPrefix(G(n), n) /\ IsPrefix(G(n - 1), n - 1)
      BY <3>1, <1>3, Zenon
    <3>3. G(n - 1)[n - 1] = G(n)[n - 1]
      <4>1. \A k \in 0 .. n - 1 : G(n - 1)[k] = G(n)[k]
        <5> DEFINE a == G(n - 1)
                   b == G(n)
                   m == n - 1
        <5>1. m \in Nat /\ m <= n /\ IsPrefix(a, m) /\ IsPrefix(b, n)
          BY <3>1, <3>2, Zenon
        <5> HIDE DEF a, b, m, IsPrefix
        <5>2. \A k \in 0 .. m : a[k] = b[k]
          BY <5>1, <1>2
        <5> QED BY <5>2 DEF a, b, m
      <4> QED BY <4>1, <3>1, Zenon
    <3>4. G(n)[n] = one_turn(G(n)[n - 1], mp)
      BY <3>1, <3>2, Zenon
    <3>5. F[n] = G(n)[n] /\ F[n - 1] = G(n - 1)[n - 1]
      BY <3>1
    <3> QED BY <3>3, <3>4, <3>5, <2>3, Zenon
  <2> QED BY <2>2, <2>3
<1> DEFINE after == CHOOSE f : f = Def(f)
<1> HIDE DEF F
<1>5. after = Def(after)
  <2> HIDE DEF Def
  <2> QED BY <1>4, Zenon
<1>6. send_all(s, mp) = after[buffer_size(s.stream) + 1]
  BY Zenon DEF send_all
<1> HIDE DEF after
<1>7. after[0] = s
  BY <1>5
<1>8. \A n \in Nat : after[n + 1] = one_turn(after[n], mp)
  <2>1. SUFFICES ASSUME NEW n \in Nat PROVE after[n + 1] = one_turn(after[n], mp)
    OBVIOUS
  <2>2. n + 1 \in Nat /\ n + 1 # 0 /\ (n + 1) - 1 = n
    OBVIOUS
  <2>3. after[n + 1] = one_turn(after[(n + 1) - 1], mp)
    BY <2>2, <1>5, Zenon
  <2> QED BY <2>2, <2>3, Zenon
<1> QED BY <1>6, <1>7, <1>8

\* Filling the window is reflexive and transitive.
LEMMA FillsSelf ==
  ASSUME NEW isn \in WrappingInt32, NEW M \in Nat, NEW s, Sending(s, isn, M)
  PROVE  Fills(s, s, isn, M)
BY SendingType DEF Fills

\* Two such steps make one.
LEMMA FillsTransitive ==
  ASSUME NEW isn \in WrappingInt32, NEW M \in Nat, NEW s, NEW t, NEW u,
         Sending(s, isn, M), Fills(s, t, isn, M), Fills(t, u, isn, M)
  PROVE  Fills(s, u, isn, M)
<1>1. Sending(t, isn, M) /\ Sending(u, isn, M)
  BY DEF Fills
<1>2. /\ s.window.next_seqno \in Nat /\ t.window.next_seqno \in Nat /\ u.window.next_seqno \in Nat
      /\ s.window.first_seqno \in Nat /\ s.window.window_size \in Nat
  BY <1>1, SendingType
<1> QED BY <1>1, <1>2 DEF Fills

\* The loop has a natural number of turns left.
LEMMA LeftType ==
  ASSUME NEW isn \in WrappingInt32, NEW M \in Nat, NEW s, Sending(s, isn, M)
  PROVE  Left(s) \in Nat /\ Left(s) <= Len(s.stream.buffer) + 1
<1>1. Len(s.stream.buffer) \in Nat
  BY SendingType
<1>2. One(s.window.next_seqno <= s.stream.popped + 1) \in 0 .. 1
  BY OneRange, Zenon
<1> QED BY <1>1, <1>2 DEF Left

\* The loop of fill_window() ends with nothing more to send.
LEMMA SendAllKeeps ==
  ASSUME NEW isn \in WrappingInt32, NEW M \in Nat, M + 2 <= Half,
         NEW s, Sending(s, isn, M), ~ s.stream.error, s.window.next_seqno > 0,
         NEW mp \in Nat \ {0}
  PROVE  /\ Fills(s, send_all(s, mp), isn, M)
         /\ ~ more_to_send(send_all(s, mp), mp)
<1>1. PICK f : /\ f[0] = s
               /\ \A n \in Nat : f[n + 1] = one_turn(f[n], mp)
               /\ send_all(s, mp) = f[buffer_size(s.stream) + 1]
  BY LoopUnfolds, Zenon
<1> DEFINE More(t) == more_to_send(t, mp)
           S == {n \in Nat : /\ Fills(s, f[n], isn, M)
                             /\ More(f[n]) => Left(f[n]) + n <= Left(s)}
<1>2. 0 \in S
  <2>1. Left(s) + 0 <= Left(s)
    BY LeftType
  <2> QED BY <2>1, <1>1, FillsSelf
<1>3. ASSUME NEW n \in Nat, n \in S PROVE n + 1 \in S
  <2> DEFINE t == f[n]
             u == f[n + 1]
  <2>1. u = one_turn(t, mp)
    BY <1>1, Zenon
  <2>2. Fills(s, t, isn, M) /\ (More(t) => Left(t) + n <= Left(s))
    BY <1>3
  <2>3. Sending(t, isn, M) /\ ~ t.stream.error /\ t.window.next_seqno > 0
    <3>1. /\ Sending(t, isn, M) /\ t.stream.error = s.stream.error
          /\ s.window.next_seqno <= t.window.next_seqno
      BY <2>2 DEF Fills
    <3>2. s.window.next_seqno \in Nat /\ t.window.next_seqno \in Nat
      BY <3>1, SendingType
    <3> QED BY <3>1, <3>2
  <2> HIDE DEF t, u, S
  <2>4. CASE More(t)
    <3>1. Fills(t, u, isn, M) /\ Left(u) < Left(t)
      BY <2>1, <2>3, <2>4, TurnKeeps
    <3>2. Sending(u, isn, M)
      BY <3>1 DEF Fills
    <3>3. Left(t) \in Nat /\ Left(u) \in Nat /\ Left(s) \in Nat
      BY <3>2, <2>3, LeftType
    <3>4. Left(u) + (n + 1) <= Left(s)
      BY <3>1, <3>3, <2>2, <2>4
    <3>5. Fills(s, u, isn, M)
      BY <3>1, <2>2, FillsTransitive
    <3>6. n + 1 \in Nat
      OBVIOUS
    <3> QED BY <3>4, <3>5, <3>6 DEF S, u
  <2>5. CASE ~ More(t)
    <3>1. u = t
      BY <2>1, <2>5, Zenon DEF one_turn
    <3>2. n + 1 \in Nat
      OBVIOUS
    <3> HIDE DEF More
    <3> QED BY <3>1, <3>2, <2>2, <2>5 DEF S, u
  <2> QED BY <2>4, <2>5
<1> DEFINE n == buffer_size(s.stream) + 1
           t == send_all(s, mp)
<1> HIDE DEF S
<1>4. Nat \subseteq S
  BY <1>2, <1>3, SetInduction
<1>5. n \in Nat /\ Left(s) <= n
  BY SendingType, LeftType DEF buffer_size
<1> HIDE DEF n
<1>6. t = f[n]
  BY <1>1 DEF n
<1>7. Fills(s, t, isn, M) /\ (More(t) => Left(t) + n <= Left(s))
  BY <1>4, <1>5, <1>6 DEF S
<1> HIDE DEF t
<1>8. Sending(t, isn, M) /\ ~ t.stream.error /\ t.window.next_seqno > 0
  <2>1. /\ Sending(t, isn, M) /\ t.stream.error = s.stream.error
        /\ s.window.next_seqno <= t.window.next_seqno
    BY <1>7 DEF Fills
  <2>2. s.window.next_seqno \in Nat /\ t.window.next_seqno \in Nat
    BY <2>1, SendingType
  <2> QED BY <2>1, <2>2
<1>9. ~ More(t)
  <2>1. SUFFICES ASSUME More(t) PROVE FALSE
    OBVIOUS
  <2>2. Fills(t, one_turn(t, mp), isn, M) /\ Left(one_turn(t, mp)) < Left(t)
    BY <2>1, <1>8, TurnKeeps
  <2>3. Sending(one_turn(t, mp), isn, M)
    BY <2>2 DEF Fills
  <2>4. Left(one_turn(t, mp)) \in Nat /\ Left(t) \in Nat /\ Left(s) \in Nat
    BY <2>3, <1>8, LeftType
  <2> QED BY <2>1, <2>2, <2>4, <1>5, <1>7
<1> QED BY <1>7, <1>9 DEF t

\* fill_window()
LEMMA FillKeeps ==
  ASSUME NEW isn \in WrappingInt32, NEW M \in Nat, M + 2 <= Half,
         NEW s, Sending(s, isn, M), ~ s.stream.error, NEW mp \in Nat \ {0}
  PROVE  /\ Fills(s, fill_window(s, mp), isn, M)
         /\ fill_window(s, mp).window.next_seqno > 0
         /\ ~ more_to_send(fill_window(s, mp), mp)
<1> DEFINE r == IF state(s) = "CLOSED" THEN send_new(s, SynSegment(s)) ELSE s
           t == send_all(r, mp)
<1>1. fill_window(s, mp) = t
  BY Zenon DEF fill_window
<1>2. Fills(s, r, isn, M) /\ r.window.next_seqno > 0
  <2>1. CASE s.window.next_seqno = 0
    <3>1. state(s) = "CLOSED"
      BY <2>1, StateIs
    <3>2. r = send_new(s, SynSegment(s))
      BY <3>1, Zenon
    <3> HIDE DEF r
    <3> QED BY <3>2, <2>1, SynKeeps
  <2>2. CASE s.window.next_seqno # 0
    <3>1. s.window.next_seqno \in Nat /\ s.window.first_seqno \in Nat /\ s.window.next_seqno > 0
      BY <2>2, SendingType
    <3>2. s.window.next_seqno = s.stream.popped + 1 \/ s.window.next_seqno = s.stream.popped + 2
      BY <3>1 DEF Sending, Counted
    <3>3. state(s) # "CLOSED"
      BY <3>1, <3>2, StateIs
    <3>4. r = s
      BY <3>3, Zenon
    <3> QED BY <3>1, <3>4, FillsSelf
  <2> QED BY <2>1, <2>2
<1> HIDE DEF r
<1>3. Sending(r, isn, M) /\ ~ r.stream.error
  BY <1>2 DEF Fills
<1>4. Fills(r, t, isn, M) /\ ~ more_to_send(t, mp)
  BY <1>2, <1>3, SendAllKeeps
<1> HIDE DEF t
<1>5. Fills(s, t, isn, M)
  BY <1>2, <1>4, FillsTransitive
<1>6. t.window.next_seqno > 0
  <2>1. Sending(t, isn, M) /\ r.window.next_seqno <= t.window.next_seqno
    BY <1>4 DEF Fills
  <2>2. r.window.next_seqno \in Nat /\ t.window.next_seqno \in Nat
    BY <2>1, <1>3, SendingType
  <2> QED BY <2>1, <2>2, <1>2
<1> QED BY <1>1, <1>4, <1>5, <1>6

\* The stream r is q with more bytes, or ended, or in error.
Grown(q, r, M) ==
  /\ InOrder(r, M)
  /\ r.popped = q.popped
  /\ bytes_written(q) <= bytes_written(r)
  /\ q.ended => r.ended /\ r.buffer = q.buffer

\* The application writes the next bytes of the stream.
LEMMA WriteGrows ==
  ASSUME NEW M \in Nat, NEW q, InOrder(q, M), NEW C \in Nat, NEW data \in Seq(Nat),
         bytes_written(q) + Len(data) <= M,
         \A k \in 1 .. Len(data) : data[k] = bytes_written(q) + k - 1
  PROVE  /\ Grown(q, write(q, C, data), M)
         /\ write(q, C, data).ended = q.ended /\ write(q, C, data).error = q.error
<1> DEFINE m == min(Len(data), remaining_capacity(q, C))
           n == Len(q.buffer)
           new == SubSeq(data, 1, m)
           r == write(q, C, data)
<1>1. /\ q \in Queues /\ q.buffer \in Seq(Nat) /\ q.popped \in Nat /\ q.ended \in BOOLEAN
      /\ q.error \in BOOLEAN
  BY DEF InOrder, Queues
<1>2. n \in Nat /\ Len(data) \in Nat /\ bytes_written(q) = q.popped + n
  BY <1>1, LenProperties DEF bytes_written
<1>3. CASE q.ended
  <2>1. r = q
    BY <1>3, Zenon DEF write
  <2> QED BY <2>1, <1>1, <1>2 DEF Grown
<1>4. CASE ~ q.ended
  <2>1. r = [q EXCEPT !.buffer = q.buffer \o new]
    BY <1>4, Zenon DEF write
  <2>2. m \in Int /\ m <= Len(data)
    <3> HIDE DEF n
    <3>1. remaining_capacity(q, C) = C - n
      BY DEF remaining_capacity, n
    <3> QED BY <3>1, <1>2 DEF min
  <2>3. /\ new \in Seq(Nat) /\ Len(new) \in 0 .. Len(data)
        /\ \A k \in 1 .. Len(new) : new[k] = data[k]
    <3> HIDE DEF m
    <3>1. CASE m > 0
      <4>1. m \in 1 .. Len(data) /\ m - 1 + 1 = m
        BY <3>1, <2>2, <1>2
      <4>2. \A i \in 1 .. m : data[i] \in Nat
        BY <4>1
      <4>3. new \in Seq(Nat) /\ Len(new) = m /\ \A k \in 1 .. m : new[k] = data[k]
        BY <4>1, <4>2, <1>2, SubSeqProperties
      <4> QED BY <4>1, <4>3
    <3>2. CASE ~ (m > 0)
      <4>1. new = << >>
        BY <3>2, <2>2
      <4> HIDE DEF new
      <4>2. << >> \in Seq(Nat) /\ Len(<< >>) = 0
        BY EmptySeq
      <4>3. new \in Seq(Nat) /\ Len(new) = 0
        BY <4>1, <4>2, Zenon
      <4>4. Len(new) \in 0 .. Len(data) /\ 1 .. Len(new) = {}
        BY <4>3, <1>2
      <4> QED BY <4>3, <4>4, Zenon
    <3> QED BY <3>1, <3>2
  <2> HIDE DEF new, m, n
  <2>4. /\ q.buffer \o new \in Seq(Nat) /\ Len(q.buffer \o new) = n + Len(new)
        /\ \A k \in 1 .. n : (q.buffer \o new)[k] = q.buffer[k]
        /\ \A k \in n + 1 .. n + Len(new) : (q.buffer \o new)[k] = new[k - n]
    <3>1. q.buffer \in Seq(Nat) /\ new \in Seq(Nat)
      BY <2>3, <1>1
    <3> QED BY ONLY <3>1, ConcatProperties DEF n
  <2> DEFINE b == q.buffer \o new
  <2>5. /\ r \in Queues /\ r.buffer = b /\ r.popped = q.popped /\ r.ended = q.ended
        /\ r.error = q.error
    BY <2>1, <2>4, <1>1 DEF Queues
  <2>6. bytes_written(r) = q.popped + (n + Len(new))
    BY <2>4, <2>5 DEF bytes_written
  <2>7. ASSUME NEW k \in 1 .. n + Len(new) PROVE b[k] = q.popped + k - 1
    <3>1. CASE k \in 1 .. n
      <4>1. b[k] = q.buffer[k]
        BY <3>1, <2>4, Zenon
      <4>2. q.buffer[k] = q.popped + k - 1
        BY <3>1, Zenon DEF InOrder, n
      <4> QED BY <4>1, <4>2, Zenon
    <3>2. CASE k \in n + 1 .. n + Len(new)
      <4>1. k - n \in 1 .. Len(new) /\ k - n \in 1 .. Len(data)
        BY <3>2, <2>3, <1>2
      <4>2. b[k] = data[k - n]
        BY <3>2, <4>1, <2>3, <2>4, Zenon
      <4>3. data[k - n] = bytes_written(q) + (k - n) - 1
        BY <4>1, Zenon
      <4> QED BY <4>2, <4>3, <1>1, <1>2, <2>3
    <3>3. n \in Nat /\ Len(new) \in Nat
      BY <1>2, <2>3
    <3> HIDE DEF b
    <3>4. k \in 1 .. n \/ k \in n + 1 .. n + Len(new)
      BY ONLY <3>3, k \in 1 .. n + Len(new)
    <3> QED BY <3>1, <3>2, <3>4, Zenon
  <2> HIDE DEF b, r
  <2>8. InOrder(r, M)
    <3>1. bytes_written(r) <= M
      BY <2>3, <2>6, <1>1, <1>2
    <3>2. \A k \in 1 .. Len(r.buffer) : r.buffer[k] = r.popped + k - 1
      BY <2>4, <2>5, <2>7 DEF b
    <3> QED BY <3>1, <3>2, <2>5 DEF InOrder
  <2>9. bytes_written(q) <= bytes_written(r)
    BY <2>3, <2>6, <1>1, <1>2
  <2> QED BY <2>5, <2>8, <2>9, <1>4 DEF Grown, r
<1> QED BY <1>1, <1>3, <1>4

\* end_input() and set_error()
LEMMA FlagGrows ==
  ASSUME NEW M \in Nat, NEW q, InOrder(q, M)
  PROVE  /\ Grown(q, end_input(q), M) /\ end_input(q).error = q.error
         /\ Grown(q, set_error(q), M)
<1>1. /\ q \in Queues /\ bytes_written(q) <= M /\ bytes_written(q) \in Nat
      /\ \A k \in 1 .. Len(q.buffer) : q.buffer[k] = q.popped + k - 1
  <2>1. q.popped \in Nat /\ q.buffer \in Seq(Nat)
    BY DEF InOrder, Queues
  <2>2. Len(q.buffer) \in Nat
    BY <2>1, LenProperties
  <2> QED BY <2>1, <2>2 DEF InOrder, bytes_written
<1> DEFINE r == end_input(q)
           e == set_error(q)
<1>2. /\ r \in Queues /\ r.buffer = q.buffer /\ r.popped = q.popped /\ r.ended /\ r.error = q.error
  BY <1>1 DEF end_input, Queues
<1>3. /\ e \in Queues /\ e.buffer = q.buffer /\ e.popped = q.popped /\ e.ended = q.ended
  BY <1>1 DEF set_error, Queues
<1> HIDE DEF r, e
<1>4. bytes_written(r) = bytes_written(q) /\ bytes_written(e) = bytes_written(q)
  BY <1>2, <1>3, Zenon DEF bytes_written
<1>5. InOrder(r, M) /\ InOrder(e, M)
  BY <1>1, <1>2, <1>3, <1>4, Zenon DEF InOrder
<1>6. bytes_written(q) <= bytes_written(q)
  BY <1>1
<1> QED BY <1>2, <1>3, <1>4, <1>5, <1>6, Zenon DEF Grown, r, e

\* The sender of the constructor
LEMMA FreshSends ==
  ASSUME NEW isn \in WrappingInt32, NEW M \in Nat, NEW timeout \in Nat \ {0},
         NEW s, s = FreshSender(isn, timeout)
  PROVE  /\ Sending(s, isn, M) /\ s.stream = EmptyQueue /\ ~ s.stream.error
         /\ s.window.first_seqno = 0 /\ s.window.next_seqno = 0 /\ s.window.window_size = 1
<1>1. s = [stream |-> EmptyQueue, window |-> NewWindow(isn, 1), rto |-> timeout,
           consecutive |-> 0, window_size_is_zero |-> FALSE, segments_out |-> << >>]
  BY DEF FreshSender
<1>2. s.stream = EmptyQueue /\ s.window = NewWindow(isn, 1) /\ s.segments_out = << >>
  BY ONLY <1>1
<1>3. << >> \in Seq(Nat) /\ << >> \in Seq(Entries) /\ << >> \in Seq(Segments) /\ Len(<< >>) = 0
  BY EmptySeq
<1>4. /\ EmptyQueue \in Queues /\ EmptyQueue.buffer = << >> /\ EmptyQueue.popped = 0
      /\ EmptyQueue.error = FALSE
  BY ONLY <1>3 DEF EmptyQueue, Queues
<1>5. NewWindow(isn, 1) \in Windows(isn)
  BY <1>3, HalfBelowMod DEF NewWindow, Windows
<1>6. s \in Senders(isn)
  BY ONLY <1>1, <1>3, <1>4, <1>5, timeout \in Nat \ {0} DEF Senders
<1>7. InOrder(EmptyQueue, M)
  <2>1. bytes_written(EmptyQueue) = 0
    BY ONLY <1>3, <1>4 DEF bytes_written
  <2> QED BY ONLY <1>3, <1>4, <2>1, M \in Nat DEF InOrder
<1>8. /\ s.window.buffer = << >> /\ s.window.first_seqno = 0
      /\ s.window.next_seqno = 0 /\ s.window.window_size = 1
  BY ONLY <1>2 DEF NewWindow
<1>9. Tiled(<< >>, isn, 0, 0)
  BY ONLY <1>3 DEF Tiled
<1>10. Counted(EmptyQueue, s.window)
  BY ONLY <1>4, <1>8 DEF Counted
<1>11. SegmentsOf(<< >>) \cup QueuedSegments(s) = {}
  BY ONLY <1>2, <1>3 DEF SegmentsOf, QueuedSegments
<1>12. Sending(s, isn, M)
  BY ONLY <1>2, <1>6, <1>7, <1>8, <1>9, <1>10, <1>11 DEF Sending
<1> QED BY ONLY <1>2, <1>4, <1>8, <1>12

\* The sender's invariant does not mind its stream growing.
LEMMA StreamKeeps ==
  ASSUME NEW isn \in WrappingInt32, NEW M \in Nat, NEW s, Sending(s, isn, M),
         NEW r, Grown(s.stream, r, M)
  PROVE  LET t == [s EXCEPT !.stream = r]
         IN  /\ Sending(t, isn, M) /\ t.stream = r /\ t.window = s.window
             /\ t.segments_out = s.segments_out
<1> DEFINE t == [s EXCEPT !.stream = r]
<1>1. s \in Senders(isn) /\ bytes_written(s.stream) \in Nat
  BY SendingType DEF Sending
<1>2. /\ InOrder(r, M) /\ r.popped = s.stream.popped
      /\ bytes_written(s.stream) <= bytes_written(r)
      /\ s.stream.ended => r.ended /\ r.buffer = s.stream.buffer
  BY DEF Grown
<1>3. r \in Queues
  BY <1>2 DEF InOrder
<1>4. t \in Senders(isn) /\ t.stream = r /\ t.window = s.window /\ t.segments_out = s.segments_out
  BY <1>1, <1>3 DEF Senders
<1> HIDE DEF t
<1>5. s.stream.ended => bytes_written(r) = bytes_written(s.stream)
  BY <1>2, Zenon DEF bytes_written
<1>6. Counted(r, s.window)
  <2>1. eof(s.stream) => eof(r)
    BY <1>2, Zenon DEF eof
  <2> QED BY <2>1, <1>2, Zenon DEF Sending, Counted
<1>7. bytes_written(r) \in Nat
  <2>1. r.popped \in Nat /\ r.buffer \in Seq(Nat)
    BY <1>3 DEF Queues
  <2>2. Len(r.buffer) \in Nat
    BY <2>1, LenProperties
  <2> QED BY <2>1, <2>2 DEF bytes_written
<1>8. ASSUME NEW g \in SegmentsOf(t.window.buffer) \cup QueuedSegments(t)
      PROVE  HonestSegment(g, isn, r)
  <2>1. g \in SegmentsOf(s.window.buffer) \cup QueuedSegments(s)
    BY <1>4, <1>8, Zenon DEF QueuedSegments
  <2>2. HonestSegment(g, isn, s.stream)
    BY <2>1 DEF Sending
  <2> QED BY <2>2, <1>1, <1>2, <1>5, <1>7, StaysHonest
<1>9. /\ s.window.first_seqno <= s.window.next_seqno
      /\ Tiled(s.window.buffer, isn, s.window.first_seqno, s.window.next_seqno)
  BY DEF Sending
<1>10. Sending(t, isn, M)
  BY <1>2, <1>4, <1>6, <1>8, <1>9 DEF Sending
<1> QED BY <1>4, <1>10, Zenon DEF t

\* Segments that are all honest
HonestQueue(out, isn, q) ==
  out \in Seq(Segments) /\ \A i \in 1 .. Len(out) : HonestSegment(out[i], isn, q)

\* Nor what stands in its queue, if it is honest.
LEMMA QueueKeeps ==
  ASSUME NEW isn \in WrappingInt32, NEW M \in Nat, NEW s, Sending(s, isn, M),
         NEW t \in Senders(isn), t.stream = s.stream, t.window = s.window,
         HonestQueue(t.segments_out, isn, s.stream)
  PROVE  Sending(t, isn, M)
<1>1. ASSUME NEW g \in SegmentsOf(t.window.buffer) \cup QueuedSegments(t)
      PROVE  HonestSegment(g, isn, s.stream)
  <2>1. CASE g \in SegmentsOf(s.window.buffer)
    BY <2>1 DEF Sending
  <2>2. CASE g \in QueuedSegments(t)
    BY <2>2 DEF QueuedSegments, HonestQueue
  <2> QED BY <2>1, <2>2, <1>1
<1> QED BY <1>1 DEF Sending

\* The queue is emptied.
LEMMA DrainKeeps ==
  ASSUME NEW isn \in WrappingInt32, NEW M \in Nat, NEW s, Sending(s, isn, M)
  PROVE  LET t == [s EXCEPT !.segments_out = << >>]
         IN  /\ Sending(t, isn, M) /\ t.stream = s.stream /\ t.window = s.window
             /\ t.segments_out = << >>
<1> DEFINE out == << >>
           t == [s EXCEPT !.segments_out = out]
<1>1. s \in Senders(isn)
  BY DEF Sending
<1>2. out \in Seq(Segments) /\ 1 .. Len(out) = {} /\ out = << >>
  BY EmptySeq
<1>3. HonestQueue(out, isn, s.stream)
  BY <1>2, Zenon DEF HonestQueue
<1> HIDE DEF out
<1>4. t \in Senders(isn) /\ t.stream = s.stream /\ t.window = s.window /\ t.segments_out = out
  BY <1>1, <1>2 DEF Senders
<1>5. [s EXCEPT !.segments_out = << >>] = t
  BY <1>2, Zenon
<1> HIDE DEF t
<1>6. HonestQueue(t.segments_out, isn, s.stream)
  BY <1>3, <1>4, Zenon
<1>7. Sending(t, isn, M)
  BY <1>4, <1>6, QueueKeeps
<1> QED BY <1>2, <1>4, <1>5, <1>7, Zenon

\* send_empty_segment() adds an honest segment.
LEMMA EmptyKeeps ==
  ASSUME NEW isn \in WrappingInt32, NEW M \in Nat, NEW s, Sending(s, isn, M)
  PROVE  LET t == send_empty_segment(s)
         IN  /\ Sending(t, isn, M) /\ t.stream = s.stream /\ t.window = s.window
<1> DEFINE seg == [seqno |-> wrap(s.window.next_seqno, s.window.isn), syn |-> FALSE, fin |-> FALSE,
                   payload |-> << >>]
           out == Append(s.segments_out, seg)
           t == [s EXCEPT !.segments_out = out]
<1>1. /\ s \in Senders(isn) /\ s.segments_out \in Seq(Segments)
      /\ s.window.isn = isn /\ s.window.next_seqno \in Nat /\ s.window.next_seqno <= Half
  BY SendingType DEF Sending
<1>2. wrap(s.window.next_seqno, s.window.isn) \in WrappingInt32
  BY <1>1, HalfBelowMod, WrapBack
<1>3. /\ seg \in Segments /\ seg.payload = << >> /\ ~ seg.syn /\ ~ seg.fin
  BY <1>2 DEF Segments
<1>4. t = send_empty_segment(s)
  BY Zenon DEF send_empty_segment
<1> HIDE DEF seg
<1>5. HonestSegment(seg, isn, s.stream)
  <2>1. Len(seg.payload) = 0
    BY <1>3
  <2>2. length_in_sequence_space(seg) = 0
    BY <2>1, <1>3 DEF length_in_sequence_space, One
  <2> QED BY <2>1, <2>2, <1>3 DEF HonestSegment
<1>6. out \in Seq(Segments) /\ \A i \in 1 .. Len(out) : out[i] = seg \/ out[i] \in QueuedSegments(s)
  BY <1>1, <1>3, AppendProperties DEF QueuedSegments
<1>7. HonestQueue(out, isn, s.stream)
  BY <1>5, <1>6 DEF HonestQueue, Sending
<1> HIDE DEF out
<1>8. t \in Senders(isn) /\ t.stream = s.stream /\ t.window = s.window /\ t.segments_out = out
  BY <1>1, <1>6 DEF Senders
<1> HIDE DEF t
<1>9. HonestQueue(t.segments_out, isn, s.stream)
  BY <1>7, <1>8, Zenon
<1>10. Sending(t, isn, M)
  BY <1>8, <1>9, QueueKeeps
<1> QED BY <1>4, <1>8, <1>10, Zenon

\* What ack_received() does to the window before it fills it
Acked(s, v, isn, ack, size) ==
  /\ v \in Windows(isn) /\ v.next_seqno = s.window.next_seqno
  /\ v.first_seqno <= v.next_seqno
  /\ Tiled(v.buffer, isn, v.first_seqno, v.next_seqno)
  /\ SegmentsOf(v.buffer) \subseteq SegmentsOf(s.window.buffer)
  /\ Counted(s.stream, v)
  /\ ack \in s.window.first_seqno .. s.window.next_seqno
       => v.first_seqno = ack /\ v.window_size = size
  /\ ack \notin s.window.first_seqno .. s.window.next_seqno
       => v.first_seqno = s.window.first_seqno /\ v.window_size = s.window.window_size

\* Whatever the acknowledgment, the window keeps its invariant.
LEMMA WindowAcked ==
  ASSUME NEW isn \in WrappingInt32, NEW M \in Nat, NEW s, Sending(s, isn, M),
         NEW timeout \in Nat \ {0}, NEW ackno_ \in WrappingInt32, NEW size \in Nat,
         (ackno_ - isn) % Mod # 0 \/ size <= 1
  PROVE  LET w == ack_received(s.window, ackno_, usable(size))
         IN  Acked(s, IF acks_new(s.window, ackno_) THEN reset_timer(w, timeout) ELSE w, isn,
                   (ackno_ - isn) % Mod, usable(size))
<1> DEFINE o == s.window
           z == usable(size)
           w == ack_received(s.window, ackno_, usable(size))
           v == IF acks_new(s.window, ackno_) THEN reset_timer(w, timeout) ELSE w
           ack == (ackno_ - isn) % Mod
<1>1. /\ o \in Windows(isn) /\ o.first_seqno \in Nat /\ o.next_seqno \in Nat
      /\ o.window_size \in Nat \ {0}
  BY SendingType
<1>2. /\ o.first_seqno <= o.next_seqno /\ Tiled(o.buffer, isn, o.first_seqno, o.next_seqno)
      /\ Counted(s.stream, o)
  BY DEF Sending
<1>3. z \in Nat \ {0} /\ (size <= 1 => z = 1)
  BY DEF usable, max
<1> HIDE DEF z
<1>4. w = ack_received(o, ackno_, z)
  BY Zenon DEF z
<1>4a. ack # 0 \/ size <= 1
  OBVIOUS
<1> HIDE DEF w, ack
<1>5. /\ ack \in 0 .. Mod - 1
      /\ w \in Windows(isn) /\ w.next_seqno = o.next_seqno
      /\ Tiled(w.buffer, isn, w.first_seqno, o.next_seqno)
      /\ SegmentsOf(w.buffer) \subseteq SegmentsOf(o.buffer)
      /\ ack \in o.first_seqno .. o.next_seqno => w.first_seqno = ack /\ w.window_size = z
      /\ ack \notin o.first_seqno .. o.next_seqno => w = o
  <2> HIDE DEF o, w
  <2>1. Moves(o, ack_received(o, ackno_, z), isn, ackno_, (ackno_ - isn) % Mod, z)
    BY <1>1, <1>2, <1>3, AckKeeps
  <2> HIDE DEF ack
  <2>2. Moves(o, w, isn, ackno_, ack, z)
    BY <2>1, <1>4, Zenon DEF ack
  <2> QED BY <2>2, Zenon DEF Moves
<1>6. /\ v \in Windows(isn) /\ v.next_seqno = w.next_seqno /\ v.first_seqno = w.first_seqno
      /\ v.window_size = w.window_size
      /\ SegmentsOf(v.buffer) \subseteq SegmentsOf(w.buffer)
      /\ Tiled(v.buffer, isn, w.first_seqno, o.next_seqno)
  <2>1. CASE ~ acks_new(s.window, ackno_)
    BY <2>1, <1>5, Zenon
  <2>2. CASE acks_new(s.window, ackno_)
    <3>1. v = reset_timer(w, timeout)
      BY <2>2, Zenon
    <3> DEFINE n == reset_timer(w, timeout)
    <3>2. /\ n \in Windows(isn) /\ n.first_seqno = w.first_seqno
          /\ n.next_seqno = w.next_seqno /\ n.window_size = w.window_size
          /\ SegmentsOf(n.buffer) \subseteq SegmentsOf(w.buffer)
          /\ \A first, next : Tiled(w.buffer, isn, first, next) => Tiled(n.buffer, isn, first, next)
      BY <1>5, ResetTiled
    <3> QED BY <3>1, <3>2, <1>5, Zenon
  <2> QED BY <2>1, <2>2
<1> HIDE DEF v
<1>7. /\ v.next_seqno = o.next_seqno
      /\ ack \in o.first_seqno .. o.next_seqno => v.first_seqno = ack /\ v.window_size = z
      /\ ack \notin o.first_seqno .. o.next_seqno
           => v.first_seqno = o.first_seqno /\ v.window_size = o.window_size
  BY <1>5, <1>6, Zenon
<1>8. v.first_seqno <= v.next_seqno
  <2>1. CASE ack \in o.first_seqno .. o.next_seqno
    <3>1. v.first_seqno = ack /\ v.next_seqno = o.next_seqno
      BY <2>1, <1>7, Zenon
    <3> QED BY <2>1, <3>1
  <2>2. CASE ack \notin o.first_seqno .. o.next_seqno
    BY <2>2, <1>2, <1>7, Zenon
  <2> QED BY <2>1, <2>2
<1>9. Counted(s.stream, v)
  <2>1. /\ o.next_seqno = 0 => s.stream.popped = 0
        /\ o.next_seqno > 0 => \/ o.next_seqno = s.stream.popped + 1
                               \/ o.next_seqno = s.stream.popped + 2 /\ eof(s.stream)
        /\ o.first_seqno = 0 => o.window_size = 1 /\ o.next_seqno <= 1
    BY <1>2 DEF Counted
  <2>2. v.first_seqno = 0 => v.window_size = 1 /\ v.next_seqno <= 1
    <3>1. CASE ack \in o.first_seqno .. o.next_seqno
      <4>1. v.first_seqno = ack /\ v.window_size = z /\ v.next_seqno = o.next_seqno
        BY <3>1, <1>7, Zenon
      <4>2. ack = 0 => o.first_seqno = 0 /\ z = 1
        BY <3>1, <1>1, <1>3, <1>4a
      <4> QED BY <2>1, <4>1, <4>2, Zenon
    <3>2. CASE ack \notin o.first_seqno .. o.next_seqno
      BY <3>2, <2>1, <1>7, Zenon
    <3> QED BY <3>1, <3>2
  <2> QED BY <2>1, <2>2, <1>7, Zenon DEF Counted
<1>10. Tiled(v.buffer, isn, v.first_seqno, v.next_seqno)
  BY <1>6, <1>7, Zenon
<1>11. SegmentsOf(v.buffer) \subseteq SegmentsOf(o.buffer)
  BY <1>5, <1>6, Zenon
<1>12. Acked(s, v, isn, ack, z)
  BY <1>6, <1>7, <1>8, <1>9, <1>10, <1>11, Zenon DEF Acked
<1> QED BY <1>12, Zenon DEF v, w, ack, z

\* A sender whose window was replaced by one that holds no other segments
LEMMA WindowKeeps ==
  ASSUME NEW isn \in WrappingInt32, NEW M \in Nat, NEW s, Sending(s, isn, M),
         NEW t \in Senders(isn), t.stream = s.stream,
         \A i \in 1 .. Len(t.segments_out) :
           t.segments_out[i] \in SegmentsOf(s.window.buffer) \cup QueuedSegments(s),
         t.window.first_seqno <= t.window.next_seqno,
         Tiled(t.window.buffer, isn, t.window.first_seqno, t.window.next_seqno),
         SegmentsOf(t.window.buffer) \subseteq SegmentsOf(s.window.buffer),
         Counted(s.stream, t.window)
  PROVE  Sending(t, isn, M)
<1>1. ASSUME NEW g \in SegmentsOf(t.window.buffer) \cup QueuedSegments(t)
      PROVE  HonestSegment(g, isn, s.stream)
  <2>1. g \in SegmentsOf(s.window.buffer) \cup QueuedSegments(s)
    BY <1>1 DEF QueuedSegments
  <2> QED BY <2>1 DEF Sending
<1> QED BY <1>1 DEF Sending

\* ack_received() of the sender: the window moves if the acknowledgment falls
\* into what is outstanding, and is filled.
Acknowledged(s, t, isn, M, ack, size) ==
  /\ Sending(t, isn, M)
  /\ t.stream.error = s.stream.error /\ t.stream.ended = s.stream.ended
  /\ bytes_written(t.stream) = bytes_written(s.stream)
  /\ t.window.next_seqno > 0 /\ s.window.next_seqno <= t.window.next_seqno
  /\ ack \in s.window.first_seqno .. s.window.next_seqno
       => t.window.first_seqno = ack /\ t.window.window_size = size
  /\ ack \notin s.window.first_seqno .. s.window.next_seqno
       => /\ t.window.first_seqno = s.window.first_seqno
          /\ t.window.window_size = s.window.window_size
  /\ s.window.next_seqno <= t.window.first_seqno + t.window.window_size
       => t.window.next_seqno <= t.window.first_seqno + t.window.window_size

\* The sender's invariant survives every acknowledgment that can arrive: until the
\* SYN is acknowledged none opens the window beyond one number.
LEMMA AckReceivedKeeps ==
  ASSUME NEW isn \in WrappingInt32, NEW M \in Nat, M + 2 <= Half,
         NEW s, Sending(s, isn, M), ~ s.stream.error,
         NEW timeout \in Nat \ {0}, NEW mp \in Nat \ {0},
         NEW ackno_ \in WrappingInt32, NEW size \in Nat,
         (ackno_ - isn) % Mod # 0 \/ size <= 1
  PROVE  LET t == sender_ack_received(s, timeout, ackno_, size, mp)
         IN  /\ Acknowledged(s, t, isn, M, (ackno_ - isn) % Mod, usable(size))
             /\ ~ more_to_send(t, mp)
<1> DEFINE w == ack_received(s.window, ackno_, usable(size))
           new == acks_new(s.window, ackno_)
           ack == (ackno_ - isn) % Mod
           v == IF new THEN reset_timer(w, timeout) ELSE w
           u == [s EXCEPT !.window_size_is_zero = size = 0,
                          !.window = IF new THEN reset_timer(w, timeout) ELSE w,
                          !.rto = IF new THEN timeout ELSE @,
                          !.consecutive = IF new THEN 0 ELSE @]
           t == fill_window(u, mp)
<1>1. t = sender_ack_received(s, timeout, ackno_, size, mp)
  BY Zenon DEF sender_ack_received
<1>2. Acked(s, v, isn, ack, usable(size))
  BY WindowAcked, Zenon
<1>3. s \in Senders(isn)
  BY DEF Sending
<1>4. /\ u \in Senders(isn) /\ u.stream = s.stream /\ u.window = v
      /\ u.segments_out = s.segments_out
  <2> DEFINE b == size = 0
             r == IF new THEN timeout ELSE s.rto
             c == IF new THEN 0 ELSE s.consecutive
  <2>1. r \in Nat \ {0} /\ c \in Nat /\ b \in BOOLEAN
    BY <1>3 DEF Senders
  <2>2. v \in Windows(isn)
    BY <1>2, Zenon DEF Acked
  <2>3. u = [s EXCEPT !.window_size_is_zero = b, !.window = v, !.rto = r, !.consecutive = c]
    OBVIOUS
  <2> HIDE DEF b, r, c, v, u
  <2> QED BY <2>1, <2>2, <2>3, <1>3 DEF Senders
<1> HIDE DEF u, v, w, new
<1>5. \A i \in 1 .. Len(u.segments_out) :
        u.segments_out[i] \in SegmentsOf(s.window.buffer) \cup QueuedSegments(s)
  BY <1>4 DEF QueuedSegments
<1>6. Sending(u, isn, M)
  BY <1>2, <1>4, <1>5, WindowKeeps DEF Acked
<1>7. Fills(u, t, isn, M) /\ t.window.next_seqno > 0 /\ ~ more_to_send(t, mp)
  BY <1>4, <1>6, FillKeeps
<1> HIDE DEF t, ack
<1>8. Acknowledged(s, t, isn, M, ack, usable(size))
  BY <1>2, <1>4, <1>7, Zenon DEF Fills, Acked, Acknowledged
<1> QED BY <1>1, <1>7, <1>8, Zenon DEF ack

\* tick() sends the oldest expired segment again and moves nothing.
LEMMA TickKeeps ==
  ASSUME NEW isn \in WrappingInt32, NEW M \in Nat, NEW s, Sending(s, isn, M), NEW ms \in Nat
  PROVE  LET t == sender_tick(s, ms)
         IN  /\ Sending(t, isn, M) /\ t.stream = s.stream
             /\ t.window.first_seqno = s.window.first_seqno
             /\ t.window.next_seqno = s.window.next_seqno
             /\ t.window.window_size = s.window.window_size
<1> DEFINE o == s.window
           late == Expired(s.window, ms)
           oldest == CHOOSE k \in late : \A j \in late : k <= j
           rto == IF s.window_size_is_zero THEN s.rto ELSE 2 * s.rto
           e == elapsed(s.window, ms)
           v == IF late = {} THEN e ELSE reset_timer(e, rto)
           out == IF late = {} THEN s.segments_out
                  ELSE Append(s.segments_out, s.window.buffer[oldest].segment)
           t == sender_tick(s, ms)
<1>1. /\ s \in Senders(isn) /\ o \in Windows(isn) /\ s.rto \in Nat \ {0}
      /\ s.segments_out \in Seq(Segments)
      /\ o.first_seqno \in Nat /\ o.next_seqno \in Nat /\ o.first_seqno <= o.next_seqno
      /\ Tiled(o.buffer, isn, o.first_seqno, o.next_seqno) /\ Counted(s.stream, o)
  BY SendingType DEF Sending
<1>2. rto \in Nat \ {0}
  BY <1>1
<1>3. /\ e \in Windows(isn) /\ e.first_seqno = o.first_seqno /\ e.next_seqno = o.next_seqno
      /\ e.window_size = o.window_size /\ SegmentsOf(e.buffer) \subseteq SegmentsOf(o.buffer)
      /\ \A first, next : Tiled(o.buffer, isn, first, next) => Tiled(e.buffer, isn, first, next)
  BY ONLY <1>1, isn \in WrappingInt32, ms \in Nat, ElapsedTiled, Zenon
<1>4. /\ v \in Windows(isn) /\ v.first_seqno = o.first_seqno /\ v.next_seqno = o.next_seqno
      /\ v.window_size = o.window_size /\ SegmentsOf(v.buffer) \subseteq SegmentsOf(o.buffer)
      /\ Tiled(v.buffer, isn, o.first_seqno, o.next_seqno)
  <2> HIDE DEF e, rto, late
  <2>1. CASE late = {}
    BY <2>1, <1>1, <1>3, Zenon
  <2>2. CASE late # {}
    <3> DEFINE n == reset_timer(e, rto)
    <3>1. /\ n \in Windows(isn) /\ n.first_seqno = e.first_seqno
          /\ n.next_seqno = e.next_seqno /\ n.window_size = e.window_size
          /\ SegmentsOf(n.buffer) \subseteq SegmentsOf(e.buffer)
          /\ \A first, next : Tiled(e.buffer, isn, first, next) => Tiled(n.buffer, isn, first, next)
      BY <1>2, <1>3, ResetTiled
    <3>2. v = n
      BY <2>2, Zenon
    <3> QED BY <3>1, <3>2, <1>1, <1>3, Zenon
  <2> QED BY <2>1, <2>2
<1>5. late # {} => oldest \in 1 .. Len(o.buffer)
  <2>1. late \subseteq 1 .. Len(o.buffer) /\ Len(o.buffer) \in Nat
    BY <1>1, LenProperties DEF Expired, Windows
  <2>2. late \in SUBSET Nat
    BY <2>1
  <2> HIDE DEF late
  <2>3. late # {} => \E k \in late : \A j \in late : k <= j
    BY <2>2, LeastElement
  <2>4. late # {} => oldest \in late
    BY <2>3, Zenon
  <2> QED BY <2>1, <2>4
<1>6. /\ out \in Seq(Segments)
      /\ \A i \in 1 .. Len(out) : out[i] \in SegmentsOf(o.buffer) \cup QueuedSegments(s)
  <2> HIDE DEF late, oldest
  <2>1. CASE late = {}
    <3>1. out = s.segments_out
      BY <2>1, Zenon
    <3> HIDE DEF out
    <3> QED BY <3>1, <1>1 DEF QueuedSegments
  <2>2. CASE late # {}
    <3> DEFINE g == o.buffer[oldest].segment
    <3>1. g \in SegmentsOf(o.buffer)
      BY <2>2, <1>5, Zenon DEF SegmentsOf
    <3>2. g \in Segments
      <4>1. o.buffer[oldest] \in Entries
        BY <2>2, <1>1, <1>5 DEF Windows
      <4> QED BY <4>1 DEF Entries
    <3>3. out = Append(s.segments_out, g)
      BY <2>2, Zenon
    <3> HIDE DEF g, out
    <3> QED BY <3>1, <3>2, <3>3, <1>1, AppendProperties DEF QueuedSegments
  <2> QED BY <2>1, <2>2
<1>7. /\ t \in Senders(isn) /\ t.stream = s.stream /\ t.window = v /\ t.segments_out = out
  <2>1. CASE late = {}
    <3>1. t = [s EXCEPT !.window = v] /\ out = s.segments_out
      BY <2>1, Zenon DEF sender_tick
    <3> HIDE DEF t, v, out
    <3> QED BY <3>1, <1>1, <1>4 DEF Senders
  <2>2. CASE late # {}
    <3> DEFINE c == s.consecutive + 1
    <3>1. t = [s EXCEPT !.window = v, !.rto = rto, !.consecutive = c, !.segments_out = out]
      <4>1. v = reset_timer(e, rto) /\ out = Append(s.segments_out, s.window.buffer[oldest].segment)
        BY <2>2, Zenon
      <4>2. t = [s EXCEPT !.window = reset_timer(elapsed(@, ms), rto),
                          !.rto = rto,
                          !.consecutive = @ + 1,
                          !.segments_out = Append(@, s.window.buffer[oldest].segment)]
        BY <2>2, Zenon DEF sender_tick
      <4> HIDE DEF v, out
      <4> QED BY <4>1, <4>2, Zenon
    <3>2. c \in Nat
      BY <1>1 DEF Senders
    <3> HIDE DEF t, v, out, c, rto
    <3> QED BY <3>1, <3>2, <1>1, <1>2, <1>4, <1>6 DEF Senders
  <2> QED BY <2>1, <2>2
<1> HIDE DEF t, v, out
<1>8. /\ t.window.first_seqno <= t.window.next_seqno
      /\ Tiled(t.window.buffer, isn, t.window.first_seqno, t.window.next_seqno)
      /\ SegmentsOf(t.window.buffer) \subseteq SegmentsOf(s.window.buffer)
      /\ Counted(s.stream, t.window)
      /\ t.window.first_seqno = s.window.first_seqno
      /\ t.window.next_seqno = s.window.next_seqno
      /\ t.window.window_size = s.window.window_size
  BY <1>1, <1>4, <1>7, Zenon DEF Counted
<1>9. \A i \in 1 .. Len(t.segments_out) :
        t.segments_out[i] \in SegmentsOf(s.window.buffer) \cup QueuedSegments(s)
  BY <1>6, <1>7, Zenon
<1>10. Sending(t, isn, M)
  BY <1>7, <1>8, <1>9, WindowKeeps
<1> QED BY <1>7, <1>8, <1>10, Zenon DEF t

\* Where the loop of fill_window() stops: nothing is left to send, or the window
\* is full.
LEMMA Stopped ==
  ASSUME NEW isn \in WrappingInt32, NEW M \in Nat, M + 2 <= Half,
         NEW s, Sending(s, isn, M), ~ s.stream.error, s.window.next_seqno > 0,
         Fits64(s.window.window_size),
         NEW mp \in Nat \ {0}, ~ more_to_send(s, mp)
  PROVE  \/ /\ s.stream.buffer = << >>
            /\ s.stream.ended => state(s) # "SYN_ACKED"
         \/ bytes_in_flight(s.window) >= s.window.window_size
<1> DEFINE w == s.window
           first == w.first_seqno
           next == w.next_seqno
           size == w.window_size
           room == space(w)
           len == payload_len(s, mp)
           seg == next_segment(s, mp)
<1>1. /\ w \in Windows(isn) /\ first \in Nat /\ next \in Nat /\ size \in Nat \ {0}
      /\ s.stream.popped \in Nat /\ Len(s.stream.buffer) \in Nat
      /\ s.stream \in Queues /\ s.stream.ended \in BOOLEAN
      /\ first <= next
  BY SendingType DEF Sending, InOrder
<1>2. SUFFICES ASSUME bytes_in_flight(w) < size
               PROVE  /\ s.stream.buffer = << >>
                      /\ s.stream.ended => state(s) # "SYN_ACKED"
  <2>1. bytes_in_flight(w) = next - first
    BY DEF bytes_in_flight
  <2> HIDE DEF w, first, next, size
  <2>2. bytes_in_flight(w) < size \/ bytes_in_flight(w) >= size
    BY <2>1, <1>1
  <2> QED BY <2>2 DEF w, size
<1>3. room > 0 /\ room \in Nat
  <2> HIDE DEF room
  <2>0. bytes_in_flight(w) = next - first
    BY DEF bytes_in_flight
  <2>1. /\ size - bytes_in_flight(w) \in Nat /\ size - bytes_in_flight(w) > 0
        /\ size - bytes_in_flight(w) <= size
    <3> HIDE DEF w, first, next, size
    <3> QED BY <2>0, <1>1, <1>2
  <2>2. Mod * Mod \in Nat /\ Mod * Mod > 0
    BY SquarePositive
  <2>3. room = (size - bytes_in_flight(w)) % (Mod * Mod)
    BY DEF space, room
  <2> DEFINE N == Mod * Mod
             d == size - bytes_in_flight(w)
  <2>4. d \in Nat /\ d > 0 /\ d < N /\ N \in Nat /\ room = d % N
    <3>1. size < N
      BY DEF Fits64
    <3>2. N \in Nat /\ N > 0 /\ room = d % N
      BY <2>2, <2>3
    <3>3. d \in Nat /\ d > 0 /\ d <= size
      BY <2>1
    <3> HIDE DEF N, d, size
    <3>4. d < N
      BY <3>1, <3>2, <3>3, <1>1
    <3> QED BY <3>2, <3>3, <3>4
  <2> HIDE DEF N, d
  <2> QED BY <2>4, ModSmall
<1>4. /\ first = 0 => size = 1 /\ next <= 1
      /\ next = s.stream.popped + 1 \/ next = s.stream.popped + 2
  BY <1>1 DEF Sending, Counted
<1>5. first > 0
  <2>1. next - first < size
    BY <1>2 DEF bytes_in_flight
  <2>2. next > 0
    OBVIOUS
  <2> HIDE DEF first, next, size
  <2> QED BY <1>1, <1>4, <2>1, <2>2
<1>6. CASE next = s.stream.popped + 2
  <2>1. eof(s.stream) /\ state(s) = IF first < next THEN "FIN_SENT" ELSE "FIN_ACKED"
    BY <1>5, <1>6, StateIs
  <2>2. s.stream.buffer = << >> /\ state(s) # "SYN_ACKED"
    BY <2>1 DEF eof
  <2> QED BY <2>2
<1>7. CASE next = s.stream.popped + 1
  <2>1. state(s) = "SYN_ACKED"
    BY <1>5, <1>7, StateIs
  <2>2. ~ full(w)
    <3> HIDE DEF w, size
    <3> QED BY <1>1, <1>2, <1>3 DEF full, bytes_in_flight, size
  <2>3. ASSUME ~ (s.stream.buffer = << >> /\ ~ s.stream.ended) PROVE FALSE
    <3>1. s.stream.buffer # << >> \/ eof(s.stream)
      BY <2>3, Zenon DEF eof
    <3>2. length_in_sequence_space(seg) = 0
      BY <3>1, <2>1, <2>2 DEF more_to_send
    <3>3. /\ len \in Nat /\ len <= Len(s.stream.buffer)
          /\ len = 0 => Len(s.stream.buffer) = 0
      <4> HIDE DEF room, len
      <4>1. len = min(room, min(mp, Len(s.stream.buffer)))
        BY DEF len, payload_len, room, buffer_size
      <4> QED BY <4>1, <1>1, <1>3 DEF min
    <3>4. seg.payload = SubSeq(s.stream.buffer, 1, len) /\ seg.syn = FALSE
          /\ seg.fin = fin_fits(popped(s, mp), len, room)
      <4>1. min(len, Len(s.stream.buffer)) = len
        BY <3>3, <1>1 DEF min
      <4> HIDE DEF len
      <4> QED BY <4>1, Zenon DEF next_segment, peek_output, len
    <3> HIDE DEF len, room, seg
    <3>5. Len(seg.payload) = len
      <4>1. s.stream.buffer \in Seq(Nat)
        BY <1>1 DEF Queues
      <4> QED BY <4>1, <3>3, <3>4, <1>1
    <3>6. len = 0 /\ ~ seg.fin
      <4>1. One(seg.syn) \in 0 .. 1 /\ One(seg.fin) \in 0 .. 1 /\ (seg.fin => One(seg.fin) = 1)
        BY OneRange, Zenon DEF One
      <4> HIDE DEF seg
      <4> DEFINE a == One(seg.syn)
                 b == One(seg.fin)
      <4>2. a + len + b = 0 \/ len + a + b = 0
        BY <3>2, <3>5 DEF length_in_sequence_space
      <4> HIDE DEF a, b
      <4>3. a \in 0 .. 1 /\ b \in 0 .. 1 /\ (seg.fin => b = 1)
        BY <4>1 DEF a, b
      <4>4. len = 0 /\ b = 0
        BY <4>2, <4>3, <3>3
      <4> QED BY <4>3, <4>4
    <3>7. s.stream.buffer = << >>
      BY <3>3, <3>6, <1>1, EmptySeq DEF Queues
    <3>8. eof(popped(s, mp))
      <4>1. eof(s.stream)
        BY <3>1, <3>7, Zenon
      <4>2. /\ popped(s, mp).buffer = << >> /\ popped(s, mp).ended = s.stream.ended
        <5>1. popped(s, mp) = pop_output(s.stream, 0)
          BY <3>6 DEF popped, len
        <5>2. pop_output(s.stream, 0).ended = s.stream.ended
          BY ONLY TRUE DEF pop_output
        <5>3. min(0, Len(s.stream.buffer)) = 0 /\ Len(s.stream.buffer) = 0
          BY ONLY <3>7 DEF min
        <5>4. SubSeq(s.stream.buffer, 0 + 1, 0) = << >>
          BY ONLY <3>7
        <5>5. pop_output(s.stream, 0).buffer = << >>
          BY ONLY <5>3, <5>4 DEF pop_output
        <5> QED BY ONLY <5>1, <5>2, <5>5, Zenon
      <4> QED BY <4>1, <4>2, Zenon DEF eof
    <3>9. len < room
      BY <3>6, <1>3
    <3> QED BY <3>4, <3>6, <3>8, <3>9, Zenon DEF fin_fits
  <2> QED BY <2>3
<1> QED BY <1>4, <1>6, <1>7
-----------------------------------------------------------------------------
\* The bytes of q are the bytes of the stream from q.popped on, at most C.
IsOutput(q, C) ==
  /\ DOMAIN q = {"buffer", "popped", "ended", "error"}
  /\ q.buffer \in Seq(Nat) /\ q.popped \in Nat /\ q.ended \in BOOLEAN
  /\ Len(q.buffer) <= C
  /\ \A k \in 1 .. Len(q.buffer) : q.buffer[k] = q.popped + k - 1

\* The stored bytes are bytes of the stream, each at its index, below both limits.
IsStored(buf, end, limit) ==
  \A i \in DOMAIN buf : i \in Nat /\ buf[i] = i /\ i < end /\ i < limit

\* The inductive invariant of a reassembler.  What is assembled lies within the
\* window and within what has been seen of the stream, and all of it has been
\* written, unless the output had ended.
Assembling(r, T, C) ==
  /\ IsOutput(r.output, C)
  /\ r.eofed \in BOOLEAN
  /\ r.first_unassembled \in Nat /\ r.first_unacceptable \in Nat
  /\ r.first_unassembled <= r.first_unacceptable /\ r.first_unacceptable <= T
  /\ r.first_unassembled <= bytes_read(r.output) + C
  /\ r.first_unassembled \notin DOMAIN r.buffer
  /\ bytes_written(r.output) <= r.first_unassembled
  /\ ~ r.output.ended => bytes_written(r.output) = r.first_unassembled
  /\ IsStored(r.buffer, r.first_unacceptable, bytes_read(r.output) + C)

\* A peer that does not mislead the reassembler about the end: once the eof has
\* been seen so has the last byte, and the output ends behind it.
EndIsKnown(r, T) ==
  /\ r.eofed => r.first_unacceptable = T
  /\ r.output.ended <=> r.eofed /\ r.first_unassembled = T
  /\ r.output.ended => bytes_written(r.output) = T

\* data is the substring of the stream at index.
IsSubstring(data, index, T) ==
  /\ data \in Seq(Nat) /\ index \in Nat
  /\ Len(data) > 0 => index + Len(data) <= T
  /\ \A k \in 1 .. Len(data) : data[k] = index + k - 1

\* The eof of a peer that probes at most one byte beyond the window comes with the
\* last byte, or after everything else.
OrderlyEof(r, T, C, data, index) ==
  \/ /\ Len(data) > 0 /\ index + Len(data) = T
     /\ index + Len(data) <= bytes_read(r.output) + C + 1
  \/ Len(data) = 0 /\ r.first_unassembled = T

\* The reader pops from the output.
ReadOut(r, len) == [r EXCEPT !.output = pop_output(@, len)]

-----------------------------------------------------------------------------
\* The loop of push_substring() stores no more than there is, and nothing at or
\* behind the end of the vectors.
LEMMA TakenRange ==
  ASSUME NEW size \in Nat, NEW len \in Nat, NEW index \in Nat
  PROVE  /\ taken(size, len, index) \in 0 .. len
         /\ taken(size, len, index) > 0 => index + taken(size, len, index) <= size
         /\ index + len <= size => taken(size, len, index) = len
BY DEF taken, min

\* _first_unacceptable covers what was stored and never leaves the stream; if the
\* substring reaches at most one byte beyond the vectors, it covers all of it.
LEMMA UnacceptableRange ==
  ASSUME NEW T \in Nat, Fits64(T),
         NEW old \in 0 .. T, NEW size \in Nat, NEW len \in Nat, NEW index \in Nat,
         len > 0 => index + len <= T
  PROVE  LET u == unacceptable(old, size, len, index)
         IN  /\ u \in old .. T
             /\ len > 0 => index + taken(size, len, index) <= u
             /\ len > 0 /\ index + len <= size + 1 => index + len <= u
<1>1. CASE len = 0
  BY <1>1 DEF unacceptable
<1>2. CASE len > 0
  <2> DEFINE t == taken(size, len, index)
             e == index + min(len, t + 1)
             M == Mod * Mod
  <2>1. t \in 0 .. len
    BY TakenRange
  <2> HIDE DEF t
  <2>2. e \in Nat /\ e <= index + len /\ index + t <= e
    BY <2>1, <1>2 DEF min
  <2>3. index + len <= size + 1 => e = index + len
    BY <2>1, <1>2 DEF t, taken, min
  <2>4. M \in Nat /\ M > 0 /\ e \in 0 .. M - 1
    <3>1. M \in Nat /\ T < M
      BY DEF Fits64
    <3> HIDE DEF M, e
    <3> QED BY <3>1, <1>2, <2>2
  <2>5. unacceptable(old, size, len, index) = max(old, e % M)
    <3>1. len # 0
      BY <1>2
    <3> QED BY <3>1, Zenon DEF unacceptable, t
  <2> HIDE DEF M, e
  <2>6. e % M = e
    BY <2>4, ModSmall
  <2>7. unacceptable(old, size, len, index) = max(old, e)
    BY <2>5, <2>6
  <2> DEFINE u == unacceptable(old, size, len, index)
  <2>8. u \in old .. T /\ e <= u
    <3>1. e \in Nat /\ e <= T
      BY <1>2, <2>2
    <3> QED BY <2>7, <3>1 DEF max
  <2> HIDE DEF u
  <2>9. index + t <= u /\ (index + len <= size + 1 => index + len <= u)
    BY <2>1, <2>2, <2>3, <2>8
  <2> QED BY <2>8, <2>9 DEF t, u
<1> QED BY <1>1, <1>2

\* Where the loop of _update_output() stops: at the first gap or the vectors' end.
LEMMA AssembledRange ==
  ASSUME NEW buf, NEW first \in Nat, NEW size \in Nat, first <= size
  PROVE  LET n == assembled(buf, first, size)
         IN  /\ n \in first .. size
             /\ n = size \/ n \notin DOMAIN buf
             /\ \A k \in first .. n - 1 : k \in DOMAIN buf
<1> DEFINE S == {n \in first .. size : n = size \/ n \notin DOMAIN buf}
<1>1. S \in SUBSET Nat /\ size \in S
  OBVIOUS
<1>2. PICK n \in S : \A m \in S : n <= m
  BY <1>1, LeastElement
<1>3. \A k \in first .. n - 1 : k \in DOMAIN buf
  BY <1>2
<1>4. \E m \in first .. size : /\ m = size \/ m \notin DOMAIN buf
                               /\ \A k \in first .. m - 1 : k \in DOMAIN buf
  BY <1>2, <1>3
<1> QED BY <1>4 DEF assembled

\* The stored bytes after the loop of push_substring()
LEMMA StoreKeeps ==
  ASSUME NEW buf, NEW T \in Nat, NEW end \in Nat, NEW end2 \in Nat, NEW limit \in Nat,
         NEW data, NEW index, NEW n \in 0 .. Len(data), IsSubstring(data, index, T),
         IsStored(buf, end, limit), end <= end2,
         n > 0 => index + n <= limit /\ index + n <= end2
  PROVE  /\ IsStored(store(buf, data, index, n), end2, limit)
         /\ DOMAIN buf \subseteq DOMAIN store(buf, data, index, n)
         /\ index .. index + n - 1 \subseteq DOMAIN store(buf, data, index, n)
<1> DEFINE s == store(buf, data, index, n)
<1>1. /\ DOMAIN s = DOMAIN buf \cup (index .. index + n - 1)
      /\ \A i \in DOMAIN s : s[i] = IF i \in index .. index + n - 1 THEN data[i - index + 1] ELSE buf[i]
  BY DEF store
<1> HIDE DEF s
<1>2. Len(data) \in Nat /\ index \in Nat
  BY DEF IsSubstring
<1>3. ASSUME NEW i \in index .. index + n - 1
      PROVE  i \in Nat /\ s[i] = i /\ i < end2 /\ i < limit
  <2>1. i - index + 1 \in 1 .. Len(data) /\ i \in Nat /\ n > 0
    BY <1>2, <1>3
  <2>2. s[i] = data[i - index + 1]
    BY <1>1, <1>3
  <2>3. data[i - index + 1] = index + (i - index + 1) - 1
    BY <2>1 DEF IsSubstring
  <2> QED BY <1>2, <1>3, <2>1, <2>2, <2>3
<1>4. ASSUME NEW i \in DOMAIN buf, i \notin index .. index + n - 1
      PROVE  i \in Nat /\ s[i] = i /\ i < end2 /\ i < limit
  BY <1>1, <1>4 DEF IsStored
<1>5. IsStored(s, end2, limit)
  BY <1>1, <1>3, <1>4 DEF IsStored
<1> QED BY <1>1, <1>5 DEF s

\* Writing the bytes that follow, as many as there is room for, writes them all.
LEMMA WriteKeeps ==
  ASSUME NEW C \in Nat, NEW q, IsOutput(q, C), ~ q.ended,
         NEW m \in Nat, m <= C - Len(q.buffer),
         NEW s, s = [k \in 1 .. m |-> bytes_written(q) + k - 1],
         NEW w, w = write(q, C, s)
  PROVE  IsOutput(w, C) /\ w.popped = q.popped /\ ~ w.ended /\ bytes_written(w) = bytes_written(q) + m
<1>1. s \in Seq(Nat) /\ Len(s) = m
  <2>1. \A k \in 1 .. m : bytes_written(q) + k - 1 \in Nat
    BY DEF IsOutput, bytes_written
  <2> QED BY <2>1
<1>2. SubSeq(s, 1, m) = s
  BY <1>1
<1>3. min(Len(s), remaining_capacity(q, C)) = m
  BY <1>1 DEF min, remaining_capacity, IsOutput
<1> DEFINE b == q.buffer \o s
<1>4. w = [q EXCEPT !.buffer = b]
  BY <1>2, <1>3 DEF write
<1>5. b \in Seq(Nat) /\ Len(b) = Len(q.buffer) + m /\ Len(b) \in Nat
  BY <1>1 DEF IsOutput
<1>6. \A k \in 1 .. Len(b) : b[k] = q.popped + k - 1
  <2>1. SUFFICES ASSUME NEW k \in 1 .. Len(b) PROVE b[k] = q.popped + k - 1
    OBVIOUS
  <2>2. CASE k <= Len(q.buffer)
    BY <1>1, <1>5, <2>2 DEF IsOutput
  <2>3. CASE k > Len(q.buffer)
    <3>1. b[k] = s[k - Len(q.buffer)] /\ k - Len(q.buffer) \in 1 .. m
      BY <1>1, <1>5, <2>3 DEF IsOutput
    <3> HIDE DEF b
    <3>2. s[k - Len(q.buffer)] = bytes_written(q) + (k - Len(q.buffer)) - 1
      BY <3>1
    <3> QED BY <1>5, <3>1, <3>2 DEF IsOutput, bytes_written
  <2> QED BY <1>5, <2>2, <2>3 DEF IsOutput
<1> HIDE DEF b
<1>7. /\ w.buffer = b /\ w.popped = q.popped /\ w.ended = q.ended
      /\ DOMAIN w = {"buffer", "popped", "ended", "error"}
  BY <1>4 DEF IsOutput
<1>8. IsOutput(w, C)
  BY ONLY <1>5, <1>6, <1>7, C \in Nat, IsOutput(q, C), m \in Nat, m <= C - Len(q.buffer) DEF IsOutput
<1>9. bytes_written(w) = bytes_written(q) + m
  <2>1. q.popped \in Nat /\ Len(q.buffer) \in Nat
    BY DEF IsOutput
  <2>2. Len(w.buffer) = Len(q.buffer) + m /\ w.popped = q.popped
    BY <1>5, <1>7
  <2> QED BY <2>1, <2>2 DEF bytes_written
<1>10. ~ w.ended
  BY <1>7, Zenon
<1> QED BY <1>7, <1>8, <1>9, <1>10, Zenon

-----------------------------------------------------------------------------
\* The reader keeps the invariant, and what has been written stays written.
LEMMA PopKeeps ==
  ASSUME NEW T \in Nat, NEW C \in Nat, NEW r, NEW len \in Nat,
         NEW p, p = ReadOut(r, len),
         DOMAIN r = DOMAIN EmptyReassembler, Assembling(r, T, C)
  PROVE  /\ DOMAIN p = DOMAIN EmptyReassembler /\ Assembling(p, T, C)
         /\ p.eofed = r.eofed /\ p.output.ended = r.output.ended
         /\ p.first_unassembled = r.first_unassembled
         /\ p.first_unacceptable = r.first_unacceptable
         /\ bytes_written(p.output) = bytes_written(r.output)
         /\ bytes_read(r.output) <= bytes_read(p.output)
<1> DEFINE q == r.output
           n == min(len, Len(q.buffer))
           b == SubSeq(q.buffer, n + 1, Len(q.buffer))
<1>1. /\ DOMAIN p = DOMAIN EmptyReassembler
      /\ p.output = pop_output(q, len)
      /\ p.eofed = r.eofed /\ p.buffer = r.buffer
      /\ p.first_unassembled = r.first_unassembled
      /\ p.first_unacceptable = r.first_unacceptable
  BY DEF EmptyReassembler, ReadOut
<1>2. /\ q.buffer \in Seq(Nat) /\ Len(q.buffer) \in Nat /\ q.popped \in Nat
      /\ q.ended \in BOOLEAN /\ Len(q.buffer) <= C
      /\ \A k \in 1 .. Len(q.buffer) : q.buffer[k] = q.popped + k - 1
  <2>1. IsOutput(q, C)
    BY DEF Assembling
  <2>2. /\ q.buffer \in Seq(Nat) /\ q.popped \in Nat
        /\ q.ended \in BOOLEAN /\ Len(q.buffer) <= C
        /\ \A k \in 1 .. Len(q.buffer) : q.buffer[k] = q.popped + k - 1
    BY <2>1 DEF IsOutput
  <2>3. Len(q.buffer) \in Nat
    BY <2>2, LenProperties
  <2> QED BY <2>2, <2>3
<1>3. n \in 0 .. Len(q.buffer) /\ Len(q.buffer) \in Nat /\ q.popped \in Nat
  BY <1>2 DEF min
<1>4. p.output = [buffer |-> b, popped |-> q.popped + n, ended |-> q.ended, error |-> q.error]
  BY <1>1 DEF pop_output
<1> HIDE DEF n, q
<1>5. /\ b \in Seq(Nat) /\ Len(b) \in Nat /\ Len(b) = Len(q.buffer) - n
      /\ \A k \in 1 .. Len(b) : b[k] = q.buffer[n + k]
  BY <1>2, <1>3, DroppedFront
<1> HIDE DEF b
<1>6. \A k \in 1 .. Len(b) : b[k] = q.popped + n + k - 1
  <2>1. SUFFICES ASSUME NEW k \in 1 .. Len(b) PROVE b[k] = q.popped + n + k - 1
    OBVIOUS
  <2>2. Len(b) = Len(q.buffer) - n /\ b[k] = q.buffer[n + k]
    BY <1>5
  <2>3. n + k \in 1 .. Len(q.buffer)
    BY ONLY <1>3, <2>2, k \in 1 .. Len(b)
  <2>4. q.buffer[n + k] = q.popped + (n + k) - 1
    BY <1>2, <2>3
  <2>5. q.popped + (n + k) - 1 = q.popped + n + k - 1
    BY <1>3, <2>3
  <2> QED BY <2>2, <2>4, <2>5, Zenon
<1>7. /\ DOMAIN p.output = {"buffer", "popped", "ended", "error"}
      /\ p.output.buffer = b /\ p.output.popped = q.popped + n /\ p.output.ended = q.ended
  BY <1>4
<1>8. IsOutput(p.output, C)
  <2>1. Len(b) <= C /\ q.popped + n \in Nat
    BY <1>2, <1>3, <1>5
  <2>2. p.output.buffer \in Seq(Nat) /\ p.output.popped \in Nat /\ p.output.ended \in BOOLEAN
    BY <1>2, <1>5, <1>7, <2>1
  <2>3. Len(p.output.buffer) <= C
    BY <1>7, <2>1
  <2>4. \A k \in 1 .. Len(p.output.buffer) : p.output.buffer[k] = p.output.popped + k - 1
    BY <1>6, <1>7
  <2> QED BY <1>7, <2>2, <2>3, <2>4 DEF IsOutput
<1>9. bytes_written(p.output) = bytes_written(q)
  BY <1>2, <1>3, <1>5, <1>7 DEF bytes_written
<1>10. bytes_read(p.output) = bytes_read(q) + n
  BY <1>7 DEF bytes_read
<1>11. IsStored(p.buffer, p.first_unacceptable, bytes_read(p.output) + C)
  BY <1>1, <1>2, <1>3, <1>10 DEF Assembling, IsStored, bytes_read, q
<1>12. p.first_unassembled <= bytes_read(p.output) + C
  <2>1. /\ r.first_unassembled \in Nat /\ r.first_unassembled <= bytes_read(q) + C
        /\ bytes_read(q) = q.popped
    BY DEF Assembling, bytes_read, q
  <2> QED BY <2>1, <1>1, <1>3, <1>10
<1>13. Assembling(p, T, C)
  BY <1>1, <1>7, <1>8, <1>9, <1>11, <1>12 DEF Assembling, q
<1>14. bytes_read(q) <= bytes_read(p.output)
  BY <1>2, <1>3, <1>10 DEF bytes_read
<1> QED BY <1>1, <1>7, <1>9, <1>13, <1>14 DEF q

\* What push_substring() makes of a reassembler r
PushOutcome(p, r, T, C, data, index, eof_) ==
  /\ DOMAIN p = DOMAIN EmptyReassembler /\ Assembling(p, T, C)
  /\ p.eofed = (r.eofed \/ eof_)
  /\ bytes_read(p.output) = bytes_read(r.output)
  /\ r.first_unassembled <= p.first_unassembled
  /\ r.first_unacceptable <= p.first_unacceptable
  /\ r.output.ended => p.output.ended /\ bytes_written(p.output) = bytes_written(r.output)
  /\ ~ r.output.ended => bytes_written(p.output) = p.first_unassembled
  /\ p.output.ended <=> r.output.ended \/ (p.eofed /\ p.first_unacceptable = p.first_unassembled)
  /\ Len(data) > 0 /\ index + Len(data) <= bytes_read(r.output) + C + 1
       => index + Len(data) <= p.first_unacceptable
  /\ Len(data) > 0 /\ index + Len(data) <= bytes_read(r.output) + C /\ index <= r.first_unassembled
       => index + Len(data) <= p.first_unassembled

\* push_substring() keeps the invariant.  It assembles what it can, and ends the
\* output exactly when the eof is known and nothing is missing before it.
LEMMA PushKeeps ==
  ASSUME NEW T \in Nat, NEW C \in Nat, Fits64(T),
         NEW r, Assembling(r, T, C),
         NEW data, NEW index, IsSubstring(data, index, T), NEW eof_ \in BOOLEAN,
         NEW p, p = push_substring(r, C, data, index, eof_)
  PROVE  PushOutcome(p, r, T, C, data, index, eof_)
<1> DEFINE q     == r.output
           F     == r.first_unassembled
           U     == r.first_unacceptable
           size  == bytes_read(q) + C
           len   == Len(data)
           n     == taken(size, len, index)
           last  == unacceptable(U, size, len, index)
           buf   == store(r.buffer, data, index, n)
           first == assembled(buf, F, size)
           s     == [k \in 1 .. first - F |-> buf[F + k - 1]]
           out   == write(q, C, s)
           over  == ended(r.eofed \/ eof_, last, first)
<1>1. p = [output             |-> IF over THEN end_input(out) ELSE out,
           eofed              |-> r.eofed \/ eof_,
           first_unread       |-> bytes_read(q),
           first_unassembled  |-> first,
           first_unacceptable |-> last,
           buffer             |-> buf]
  BY Zenon DEF push_substring
<1>0. /\ IsOutput(q, C) /\ F \in Nat /\ U \in Nat /\ U <= T /\ F <= U /\ F <= size
      /\ F \notin DOMAIN r.buffer /\ IsStored(r.buffer, U, size)
      /\ bytes_written(q) <= F /\ (~ q.ended => bytes_written(q) = F)
  BY DEF Assembling
<1>0a. q.buffer \in Seq(Nat) /\ q.popped \in Nat /\ q.ended \in BOOLEAN /\ Len(q.buffer) \in Nat
  <2>1. q.buffer \in Seq(Nat) /\ q.popped \in Nat /\ q.ended \in BOOLEAN
    BY <1>0 DEF IsOutput
  <2> QED BY <2>1, LenProperties
<1>2. /\ F \in Nat /\ U \in Nat /\ U <= T /\ F <= U /\ size \in Nat /\ F <= size
      /\ q.popped \in Nat /\ Len(q.buffer) \in Nat
      /\ size = q.popped + C /\ bytes_written(q) = q.popped + Len(q.buffer)
  <2>1. size = q.popped + C /\ bytes_written(q) = q.popped + Len(q.buffer)
    BY DEF bytes_read, bytes_written
  <2> HIDE DEF size
  <2>2. size \in Nat
    BY ONLY <1>0a, <2>1, C \in Nat
  <2> QED BY ONLY <1>0, <1>0a, <2>1, <2>2
<1>3. len \in Nat /\ index \in Nat /\ (len > 0 => index + len <= T)
  BY LenProperties DEF IsSubstring
<1> HIDE DEF q, F, U, size
<1>4. /\ n \in 0 .. len
      /\ n > 0 => index + n <= size
      /\ index + len <= size => n = len
  BY <1>2, <1>3, TakenRange
<1> HIDE DEF n
<1>5. /\ last \in Nat /\ U <= last /\ last <= T
      /\ len > 0 => index + n <= last
      /\ len > 0 /\ index + len <= size + 1 => index + len <= last
  <2>1. U \in 0 .. T
    BY <1>2
  <2>2. /\ last \in U .. T
        /\ len > 0 => index + n <= last
        /\ len > 0 /\ index + len <= size + 1 => index + len <= last
    <3> HIDE DEF len
    <3> QED BY <1>2, <1>3, <2>1, UnacceptableRange DEF n
  <2> HIDE DEF last, len
  <2> QED BY <1>2, <2>2
<1> HIDE DEF last, len
<1>6. /\ IsStored(buf, last, size)
      /\ index .. index + n - 1 \subseteq DOMAIN buf
  <2>1. n \in 0 .. Len(data)
    BY <1>4 DEF len
  <2>2. n > 0 => index + n <= size /\ index + n <= last
    BY <1>3, <1>4, <1>5
  <2> HIDE DEF buf
  <2> QED BY <1>0, <1>2, <1>5, <2>1, <2>2, StoreKeeps DEF buf
<1> HIDE DEF buf
<1>7. /\ first \in Nat /\ F <= first /\ first <= size
      /\ first = size \/ first \notin DOMAIN buf
      /\ \A k \in F .. first - 1 : k \in DOMAIN buf
  <2>1. first \in F .. size
    BY <1>2, AssembledRange
  <2>2. /\ first = size \/ first \notin DOMAIN buf
        /\ \A k \in F .. first - 1 : k \in DOMAIN buf
    BY <1>2, AssembledRange
  <2> HIDE DEF first
  <2> QED BY <1>2, <2>1, <2>2
<1> HIDE DEF first
<1>8. first \notin DOMAIN buf
  <2>1. size \notin DOMAIN buf
    BY <1>2, <1>6 DEF IsStored
  <2> QED BY <1>7, <2>1
<1>9. first <= last
  <2>1. CASE first = F
    BY <1>2, <1>5, <2>1
  <2>2. CASE first > F
    <3>1. first - 1 \in F .. first - 1
      BY <1>2, <1>7, <2>2
    <3>2. first - 1 < last
      BY <1>6, <1>7, <3>1 DEF IsStored
    <3> QED BY <1>2, <1>5, <1>7, <3>2
  <2> QED BY <1>2, <1>7, <2>1, <2>2
<1>10. len > 0 /\ index + len <= size /\ index <= F => index + len <= first
  <2>1. SUFFICES ASSUME len > 0, index + len <= size, index <= F, ~ (index + len <= first)
                 PROVE  FALSE
    OBVIOUS
  <2>2. n = len /\ first \in index .. index + n - 1
    BY <1>2, <1>3, <1>4, <1>7, <2>1
  <2> QED BY <1>6, <1>8, <2>2
<1>11. /\ IsOutput(out, C) /\ out.popped = q.popped /\ out.ended = q.ended
       /\ bytes_written(out) = IF q.ended THEN bytes_written(q) ELSE first
  <2>1. CASE q.ended
    <3>1. out = q
      BY <2>1, Zenon DEF write
    <3> QED BY <1>0, <2>1, <3>1, Zenon
  <2>2. CASE ~ q.ended
    <3> DEFINE m == first - F
    <3>0. bytes_written(q) = F
      BY <1>0, <2>2
    <3>1. m \in Nat /\ m <= C - Len(q.buffer) /\ bytes_written(q) = F
      <4>1. first \in Nat /\ F <= first /\ first <= size
        BY <1>7
      <4> QED BY <1>2, <4>1, <3>0
    <3>2. \A k \in 1 .. m : buf[F + k - 1] = bytes_written(q) + k - 1
      <4>1. SUFFICES ASSUME NEW k \in 1 .. m PROVE buf[F + k - 1] = F + k - 1
        BY <3>1
      <4>2. F + k - 1 \in F .. first - 1
        BY <1>2, <1>7
      <4> QED BY <1>6, <1>7, <4>2 DEF IsStored
    <3>3. s = [k \in 1 .. m |-> bytes_written(q) + k - 1]
      BY <3>2
    <3>a. out = write(q, C, s)
      OBVIOUS
    <3> HIDE DEF m, s, out
    <3>4. /\ IsOutput(out, C) /\ out.popped = q.popped /\ ~ out.ended
          /\ bytes_written(out) = bytes_written(q) + m
      <4>1. IsOutput(q, C) /\ m \in Nat /\ m <= C - Len(q.buffer)
        BY <1>0, <3>1
      <4> QED BY ONLY <2>2, <3>a, <3>3, <4>1, C \in Nat, WriteKeeps
    <3>5. bytes_written(out) = first
      <4>1. first \in Nat /\ bytes_written(out) = F + (first - F)
        BY <1>7, <3>1, <3>4 DEF m
      <4> QED BY <1>2, <4>1
    <3>6. out.ended = q.ended
      <4>1. out.ended \in BOOLEAN
        BY <3>4 DEF IsOutput
      <4> QED BY <1>0a, <2>2, <3>4, <4>1
    <3> QED BY <2>2, <3>4, <3>5, <3>6
  <2> QED BY <2>1, <2>2
<1> HIDE DEF out, s
<1>12. /\ DOMAIN p = DOMAIN EmptyReassembler
       /\ p.output = IF over THEN end_input(out) ELSE out
       /\ p.eofed = (r.eofed \/ eof_) /\ p.buffer = buf
       /\ p.first_unassembled = first /\ p.first_unacceptable = last
  <2> HIDE DEF over
  <2> QED BY ONLY <1>1 DEF EmptyReassembler
<1>13. over <=> p.eofed /\ last = first
  BY <1>12 DEF ended
<1> HIDE DEF over
<1>14. /\ IsOutput(p.output, C) /\ p.output.popped = q.popped
       /\ bytes_written(p.output) = bytes_written(out)
       /\ p.output.ended <=> q.ended \/ over
  <2>1. CASE over
    <3>1. p.output = [out EXCEPT !.ended = TRUE]
      BY <1>12, <2>1 DEF end_input
    <3>2. /\ p.output.buffer = out.buffer /\ p.output.popped = out.popped /\ p.output.ended = TRUE
          /\ DOMAIN p.output = DOMAIN out
      BY <1>11, <3>1 DEF IsOutput
    <3>3. IsOutput(p.output, C)
      BY <1>11, <3>2 DEF IsOutput
    <3> QED BY <1>11, <2>1, <3>2, <3>3 DEF bytes_written
  <2>2. CASE ~ over
    <3>1. p.output = out
      BY <1>12, <2>2
    <3> QED BY <1>11, <2>2, <3>1
  <2> QED BY <2>1, <2>2
<1>15. bytes_written(p.output) = IF q.ended THEN bytes_written(q) ELSE first
  BY <1>11, <1>14
<1>16. bytes_read(p.output) = bytes_read(q)
  BY <1>14 DEF bytes_read
<1>17. bytes_written(p.output) <= first /\ (~ p.output.ended => bytes_written(p.output) = first)
  <2>1. first \in Nat /\ F <= first
    BY <1>7
  <2>2. bytes_written(q) <= first /\ first <= first
    BY <1>0, <1>2, <2>1
  <2> QED BY <1>14, <1>15, <2>2
<1>18. Assembling(p, T, C)
  <2>1. first \in Nat /\ last \in Nat /\ last <= T /\ first <= bytes_read(p.output) + C
    BY <1>5, <1>7, <1>16 DEF size
  <2>2. p.eofed \in BOOLEAN
    BY <1>12 DEF Assembling
  <2>3. IsStored(buf, last, bytes_read(p.output) + C)
    BY <1>6, <1>16 DEF size
  <2> QED BY <1>8, <1>9, <1>12, <1>14, <1>17, <2>1, <2>2, <2>3 DEF Assembling
<1>19. /\ r.first_unassembled <= p.first_unassembled
       /\ r.first_unacceptable <= p.first_unacceptable
       /\ bytes_read(p.output) = bytes_read(r.output)
  BY <1>5, <1>7, <1>12, <1>16 DEF F, U, q
<1>20. r.output.ended => p.output.ended /\ bytes_written(p.output) = bytes_written(r.output)
  BY <1>14, <1>15 DEF q
<1>21. ~ r.output.ended => bytes_written(p.output) = p.first_unassembled
  BY <1>12, <1>15 DEF q
<1>22. p.output.ended <=> r.output.ended \/ (p.eofed /\ p.first_unacceptable = p.first_unassembled)
  BY <1>12, <1>13, <1>14 DEF q
<1>23. Len(data) > 0 /\ index + Len(data) <= bytes_read(r.output) + C + 1
         => index + Len(data) <= p.first_unacceptable
  BY <1>5, <1>12 DEF len, size, q
<1>24. Len(data) > 0 /\ index + Len(data) <= bytes_read(r.output) + C /\ index <= r.first_unassembled
         => index + Len(data) <= p.first_unassembled
  BY <1>10, <1>12 DEF len, size, q, F
<1> QED BY <1>12, <1>18, <1>19, <1>20, <1>21, <1>22, <1>23, <1>24, Zenon DEF PushOutcome

\* A substring within the window is stored whole, and what is assembled was stored.
LEMMA PushStores ==
  ASSUME NEW T \in Nat, NEW C \in Nat, NEW r, Assembling(r, T, C),
         NEW data, NEW index, IsSubstring(data, index, T), NEW eof_ \in BOOLEAN,
         Len(data) > 0 => index + Len(data) <= bytes_read(r.output) + C,
         NEW p, p = push_substring(r, C, data, index, eof_)
  PROVE  /\ DOMAIN p.buffer = DOMAIN r.buffer \cup (index .. index + Len(data) - 1)
         /\ \A k \in r.first_unassembled .. p.first_unassembled - 1 : k \in DOMAIN p.buffer
<1> DEFINE size  == bytes_read(r.output) + C
           n     == taken(size, Len(data), index)
           buf   == store(r.buffer, data, index, n)
           first == assembled(buf, r.first_unassembled, size)
<1>1. p.buffer = buf /\ p.first_unassembled = first
  BY DEF push_substring
<1>2. /\ size \in Nat /\ r.first_unassembled \in Nat /\ r.first_unassembled <= size
      /\ Len(data) \in Nat /\ index \in Nat
  <2>1. /\ r.first_unassembled \in Nat /\ r.first_unassembled <= size
        /\ IsOutput(r.output, C) /\ data \in Seq(Nat) /\ index \in Nat
    BY DEF Assembling, IsSubstring
  <2>2. size \in Nat
    <3>1. r.output.popped \in Nat
      BY ONLY <2>1 DEF IsOutput
    <3> QED BY ONLY <3>1, C \in Nat DEF bytes_read, size
  <2> QED BY <2>1, <2>2, LenProperties
<1> HIDE DEF size
<1>3. n = Len(data)
  <2>1. n \in 0 .. Len(data) /\ (index + Len(data) <= size => n = Len(data))
    BY <1>2, TakenRange
  <2> HIDE DEF n
  <2> QED BY <1>2, <2>1 DEF size
<1>4. DOMAIN buf = DOMAIN r.buffer \cup (index .. index + n - 1)
  BY DEF store
<1> HIDE DEF n, buf
<1>5. \A k \in r.first_unassembled .. first - 1 : k \in DOMAIN buf
  BY <1>2, AssembledRange
<1> HIDE DEF first
<1> QED BY <1>1, <1>3, <1>4, <1>5

\* The end of the stream stays known under orderly pushes.
LEMMA EndStaysKnown ==
  ASSUME NEW T \in Nat, NEW C \in Nat, Fits64(T),
         NEW r, Assembling(r, T, C), EndIsKnown(r, T),
         NEW data, NEW index, IsSubstring(data, index, T), NEW eof_ \in BOOLEAN,
         eof_ => OrderlyEof(r, T, C, data, index),
         NEW p, p = push_substring(r, C, data, index, eof_)
  PROVE  EndIsKnown(p, T)
<1>1. /\ Assembling(p, T, C)
      /\ p.eofed = (r.eofed \/ eof_)
      /\ r.first_unassembled <= p.first_unassembled
      /\ r.first_unacceptable <= p.first_unacceptable
      /\ r.output.ended => p.output.ended /\ bytes_written(p.output) = bytes_written(r.output)
      /\ ~ r.output.ended => bytes_written(p.output) = p.first_unassembled
      /\ p.output.ended <=> r.output.ended \/ (p.eofed /\ p.first_unacceptable = p.first_unassembled)
      /\ Len(data) > 0 /\ index + Len(data) <= bytes_read(r.output) + C + 1
           => index + Len(data) <= p.first_unacceptable
  <2>1. PushOutcome(p, r, T, C, data, index, eof_)
    BY PushKeeps
  <2> QED BY ONLY <2>1, Zenon DEF PushOutcome
<1>2. /\ r.first_unassembled \in Nat /\ r.first_unacceptable \in Nat
      /\ p.first_unassembled \in Nat /\ p.first_unacceptable \in Nat
      /\ r.first_unassembled <= r.first_unacceptable /\ r.first_unacceptable <= T
      /\ p.first_unassembled <= p.first_unacceptable /\ p.first_unacceptable <= T
      /\ r.eofed \in BOOLEAN /\ p.eofed \in BOOLEAN
      /\ r.output.ended \in BOOLEAN /\ p.output.ended \in BOOLEAN
  BY <1>1 DEF Assembling, IsOutput
<1>3. p.eofed => p.first_unacceptable = T
  <2>0. /\ r.first_unassembled <= p.first_unassembled
        /\ r.first_unacceptable <= p.first_unacceptable
    BY <1>1
  <2>1. CASE r.eofed
    <3>1. r.first_unacceptable = T
      BY <2>1 DEF EndIsKnown
    <3> QED BY ONLY <1>2, <2>0, <3>1, T \in Nat
  <2>2. CASE eof_
    <3>1. CASE /\ Len(data) > 0 /\ index + Len(data) = T
               /\ index + Len(data) <= bytes_read(r.output) + C + 1
      <4>1. T <= p.first_unacceptable
        BY <1>1, <3>1, Zenon
      <4> QED BY ONLY <1>2, <4>1, T \in Nat
    <3>2. CASE r.first_unassembled = T
      BY ONLY <1>2, <2>0, <3>2, T \in Nat
    <3> QED BY <2>2, <3>1, <3>2 DEF OrderlyEof
  <2> QED BY <1>1, <2>1, <2>2
<1>4. CASE r.output.ended
  <2>1. r.eofed /\ r.first_unassembled = T /\ bytes_written(r.output) = T
    BY <1>4 DEF EndIsKnown
  <2>2. p.eofed /\ p.output.ended /\ bytes_written(p.output) = T
    BY <1>1, <1>4, <2>1, Zenon
  <2>3. p.first_unassembled = T
    <3>1. r.first_unassembled <= p.first_unassembled
      BY ONLY <1>1
    <3> QED BY ONLY <3>1, <1>2, <2>1, T \in Nat
  <2> QED BY ONLY <1>3, <2>2, <2>3 DEF EndIsKnown
<1>5. CASE ~ r.output.ended
  BY ONLY <1>1, <1>2, <1>3, <1>5 DEF EndIsKnown
<1> QED BY <1>4, <1>5

\* A fresh reassembler assembles any stream.
LEMMA EmptyAssembles ==
  ASSUME NEW T \in Nat, NEW C \in Nat
  PROVE  Assembling(EmptyReassembler, T, C) /\ EndIsKnown(EmptyReassembler, T)
<1> DEFINE r == EmptyReassembler
<1>1. /\ r.output = EmptyQueue /\ r.eofed = FALSE /\ r.first_unassembled = 0
      /\ r.first_unacceptable = 0 /\ r.buffer = << >>
  BY DEF EmptyReassembler
<1>2. /\ DOMAIN EmptyQueue = {"buffer", "popped", "ended", "error"}
      /\ EmptyQueue.buffer = << >> /\ EmptyQueue.popped = 0 /\ EmptyQueue.ended = FALSE
  BY DEF EmptyQueue
<1>3. IsOutput(EmptyQueue, C)
  <2>1. << >> \in Seq(Nat) /\ Len(<< >>) = 0
    OBVIOUS
  <2>2. Len(EmptyQueue.buffer) = 0 /\ EmptyQueue.buffer \in Seq(Nat)
    BY <1>2, <2>1, Zenon
  <2>3. Len(EmptyQueue.buffer) <= C
    BY <2>2
  <2>4. \A k \in 1 .. Len(EmptyQueue.buffer) : EmptyQueue.buffer[k] = EmptyQueue.popped + k - 1
    BY <2>2
  <2>5. EmptyQueue.popped \in Nat /\ EmptyQueue.ended \in BOOLEAN
    BY DEF EmptyQueue
  <2> QED BY <1>2, <2>2, <2>3, <2>4, <2>5, Zenon DEF IsOutput
<1>4. bytes_read(EmptyQueue) = 0 /\ bytes_written(EmptyQueue) = 0
  BY <1>2 DEF bytes_read, bytes_written
<1>5. DOMAIN r.buffer = {}
  BY <1>1
<1> HIDE DEF r
<1>6. Assembling(r, T, C)
  <2>1. IsStored(r.buffer, r.first_unacceptable, bytes_read(r.output) + C)
    BY <1>5 DEF IsStored
  <2>2. bytes_read(r.output) = 0 /\ bytes_written(r.output) = 0 /\ ~ r.output.ended
    BY <1>1, <1>2, <1>4
  <2>3. IsOutput(r.output, C)
    BY <1>1, <1>3
  <2>4. /\ r.first_unassembled \in Nat /\ r.first_unacceptable \in Nat
        /\ r.first_unassembled <= r.first_unacceptable /\ r.first_unacceptable <= T
        /\ r.first_unassembled <= bytes_read(r.output) + C
        /\ bytes_written(r.output) <= r.first_unassembled
        /\ bytes_written(r.output) = r.first_unassembled
    BY <1>1, <2>2
  <2>5. r.eofed \in BOOLEAN /\ r.first_unassembled \notin DOMAIN r.buffer
    BY <1>1, <1>5
  <2> QED BY <2>1, <2>3, <2>4, <2>5, Zenon DEF Assembling
<1>7. EndIsKnown(r, T)
  BY <1>1, <1>2 DEF EndIsKnown
<1> QED BY <1>6, <1>7 DEF r
=============================================================================
