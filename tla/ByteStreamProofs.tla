-------------------------- MODULE ByteStreamProofs --------------------------
(***************************************************************************)
(* The ring buffer of ByteStream implements the bounded FIFO queue of      *)
(* ByteQueueSpec for every capacity, every set of bytes and every bound.   *)
(***************************************************************************)
EXTENDS ByteStream, SequenceTheorems, TLAPS

\* A remainder lies below its modulus.
LEMMA ModRange ==
  ASSUME NEW N \in Nat, N > 0, NEW a \in Int
  PROVE  a % N \in 0 .. N - 1
OBVIOUS

\* A number below the modulus is its own remainder.
LEMMA ModSmall ==
  ASSUME NEW N \in Nat, N > 0, NEW a \in 0 .. N - 1
  PROVE  a % N = a
OBVIOUS

\* A number in the second turn loses one modulus.
LEMMA ModTurn ==
  ASSUME NEW N \in Nat, N > 0, NEW a \in N .. 2 * N - 1
  PROVE  a % N = a - N
OBVIOUS

\* A number just below zero gains one modulus.
LEMMA ModBelow ==
  ASSUME NEW N \in Nat, N > 0, NEW a \in (0 - N) .. (0 - 1)
  PROVE  a % N = a + N
OBVIOUS

\* An index of the ring advanced by at most one full turn.
LEMMA RingStep ==
  ASSUME NEW i \in 0 .. Capacity, NEW s \in 0 .. Capacity
  PROVE  next_index_of(i, s) = IF i + s <= Capacity THEN i + s ELSE i + s - Slots
<1>1. Capacity \in Nat /\ Slots \in Nat /\ Slots > 0 /\ Slots = Capacity + 1
  BY StreamAssumption DEF Slots
<1>2. s % Slots = s
  BY <1>1, ModSmall
<1>3. CASE i + s <= Capacity
  <2>1. (i + s) % Slots = i + s
    BY <1>1, <1>3, ModSmall
  <2> QED BY <1>2, <1>3, <2>1 DEF next_index_of
<1>4. CASE i + s > Capacity
  <2>1. i + s \in Slots .. 2 * Slots - 1
    BY <1>1, <1>4
  <2>2. (i + s) % Slots = i + s - Slots
    BY <1>1, <2>1, ModTurn
  <2> QED BY <1>1, <1>2, <1>4, <2>2 DEF next_index_of
<1> QED BY <1>1, <1>3, <1>4

\* How far index w is ahead of index r on the ring.
Distance(r, w) == IF w >= r THEN w - r ELSE Slots + w - r

\* The expression of buffer_size() computes that distance.
LEMMA RingDistance ==
  ASSUME NEW r \in 0 .. Capacity, NEW w \in 0 .. Capacity
  PROVE  /\ (Slots + w - r) % Slots = Distance(r, w)
         /\ Distance(r, w) \in 0 .. Capacity
<1>1. Capacity \in Nat /\ Slots \in Nat /\ Slots > 0 /\ Slots = Capacity + 1
  BY StreamAssumption DEF Slots
<1>2. CASE w >= r
  <2>1. Slots + w - r \in Slots .. 2 * Slots - 1
    BY <1>1, <1>2
  <2>2. (Slots + w - r) % Slots = w - r
    BY <1>1, <2>1, ModTurn
  <2> QED BY <1>1, <1>2, <2>2 DEF Distance
<1>3. CASE w < r
  <2>1. Slots + w - r \in 0 .. Slots - 1
    BY <1>1, <1>3
  <2>2. (Slots + w - r) % Slots = Slots + w - r
    BY <1>1, <2>1, ModSmall
  <2> QED BY <1>1, <1>3, <2>2 DEF Distance
<1> QED BY <1>1, <1>2, <1>3

\* Seen from the write index, the slot j steps after the read index.
LEMMA RingOffset ==
  ASSUME NEW r \in 0 .. Capacity, NEW w \in 0 .. Capacity, NEW j \in 0 .. Capacity
  PROVE  /\ next_index_of(r, j) \in 0 .. Capacity
         /\ (next_index_of(r, j) - w) % Slots = IF j >= Distance(r, w)
                                                THEN j - Distance(r, w)
                                                ELSE Slots + j - Distance(r, w)
<1>1. Capacity \in Nat /\ Slots \in Nat /\ Slots > 0 /\ Slots = Capacity + 1
  BY StreamAssumption DEF Slots
<1> DEFINE i == next_index_of(r, j)
<1>2. i = IF r + j <= Capacity THEN r + j ELSE r + j - Slots
  BY RingStep
<1> HIDE DEF i
<1>3. i \in 0 .. Capacity
  BY <1>1, <1>2
<1>4. CASE i >= w
  <2>1. i - w \in 0 .. Slots - 1
    BY <1>1, <1>3, <1>4
  <2>2. (i - w) % Slots = i - w
    BY <1>1, <2>1, ModSmall
  <2>3. i - w = IF j >= Distance(r, w) THEN j - Distance(r, w) ELSE Slots + j - Distance(r, w)
    BY <1>1, <1>2, <1>3, <1>4 DEF Distance
  <2> QED BY <1>3, <2>2, <2>3 DEF i
<1>5. CASE i < w
  <2>1. i - w \in (0 - Slots) .. (0 - 1)
    BY <1>1, <1>3, <1>5
  <2>2. (i - w) % Slots = i - w + Slots
    BY <1>1, <2>1, ModBelow
  <2>3. i - w + Slots = IF j >= Distance(r, w) THEN j - Distance(r, w) ELSE Slots + j - Distance(r, w)
    BY <1>1, <1>2, <1>3, <1>5 DEF Distance
  <2> QED BY <1>3, <2>2, <2>3 DEF i
<1> QED BY <1>3, <1>4, <1>5

\* buffer_size() is the distance from the read index to the write index.
LEMMA BufferSize ==
  ASSUME TypeOK
  PROVE  /\ buffer_size = Distance(read_index, write_index)
         /\ buffer_size \in 0 .. Capacity
BY RingDistance DEF TypeOK, buffer_size

Least(a, b) == IF a <= b THEN a ELSE b

\* The loop of write() takes exactly the bytes there is room for.
LEMMA AcceptedIsRoom ==
  ASSUME TypeOK, NEW data, Len(data) \in Nat
  PROVE  Accepted(data) = Least(Len(data), Capacity - buffer_size)
<1> DEFINE L == Len(data)
<1> DEFINE n == Least(L, Capacity - buffer_size)
<1> DEFINE P(m) == /\ m = L \/ FullAt(next_index_of(write_index, m))
                   /\ \A k \in 0 .. m - 1 : ~ FullAt(next_index_of(write_index, k))
<1>6. Accepted(data) = CHOOSE m \in 0 .. L : P(m)
  BY DEF Accepted
<1>7. L \in Nat
  OBVIOUS
<1> HIDE DEF L
<1>0. Capacity \in Nat /\ Slots \in Nat /\ Slots > 0 /\ Slots = Capacity + 1
  BY StreamAssumption DEF Slots
<1>1. /\ read_index \in 0 .. Capacity /\ write_index \in 0 .. Capacity
      /\ buffer_size \in 0 .. Capacity
      /\ buffer_size = IF write_index >= read_index
                       THEN write_index - read_index
                       ELSE Slots + write_index - read_index
  BY BufferSize DEF TypeOK, Distance
<1>2. n \in 0 .. L /\ n <= Capacity - buffer_size
  BY <1>0, <1>1, <1>7 DEF Least
<1>3. ASSUME NEW k \in 0 .. Capacity - buffer_size
      PROVE  FullAt(next_index_of(write_index, k)) <=> k = Capacity - buffer_size
  <2>1. k \in 0 .. Capacity
    BY <1>0, <1>1
  <2> DEFINE w == next_index_of(write_index, k)
  <2>2. w = IF write_index + k <= Capacity THEN write_index + k ELSE write_index + k - Slots
    BY <2>1, <1>1, RingStep
  <2>3. w \in 0 .. Capacity
    BY <2>1, <2>2, <1>0, <1>1
  <2> HIDE DEF w
  <2>4. CASE Capacity = 0
    <3>1. 1 % Slots = 0 /\ (w + 0) % Slots = 0
      BY <2>4, <1>0, <2>3, ModSmall, ModTurn
    <3>2. next_index_of(w, 1) = 0
      BY <3>1 DEF next_index_of
    <3>3. read_index = 0 /\ buffer_size = 0 /\ k = 0
      BY <1>0, <1>1, <2>1, <2>4
    <3> QED BY <3>2, <3>3, <2>4 DEF FullAt, w
  <2>5. CASE Capacity > 0
    <3>1. next_index_of(w, 1) = IF w + 1 <= Capacity THEN w + 1 ELSE w + 1 - Slots
      BY <2>3, <2>5, <1>0, RingStep
    <3> QED BY <3>1, <2>1, <2>2, <1>0, <1>1 DEF FullAt, w
  <2> QED BY <2>4, <2>5, <1>0
<1>4. P(n)
  BY <1>0, <1>1, <1>2, <1>3, <1>7 DEF Least
<1>5. ASSUME NEW m \in 0 .. L, P(m)
      PROVE  m = n
  <2>1. CASE m < n
    <3>1. m \in 0 .. Capacity - buffer_size /\ m # L /\ m # Capacity - buffer_size
      BY <2>1, <1>0, <1>1, <1>2, <1>7 DEF Least
    <3> QED BY <3>1, <1>3, <1>5
  <2>2. CASE m > n
    <3>1. n = Capacity - buffer_size
      BY <2>2, <1>0, <1>1, <1>2, <1>7 DEF Least
    <3>2. n \in 0 .. m - 1 /\ n \in 0 .. Capacity - buffer_size
      BY <2>2, <3>1, <1>0, <1>1
    <3>3. FullAt(next_index_of(write_index, n))
      BY <3>1, <3>2, <1>3
    <3> QED BY <3>2, <3>3, <1>5
  <2> QED BY <2>1, <2>2, <1>2
<1> HIDE DEF n
<1> HIDE DEF P
<1>8. Accepted(data) = n
  BY <1>2, <1>4, <1>5, <1>6
<1> QED BY <1>8 DEF n, L

\* The loop of peek_output() takes exactly the bytes that are there.
LEMMA PeekedIsThere ==
  ASSUME TypeOK, NEW len \in Nat
  PROVE  Peeked(len) = Least(len, buffer_size)
<1> DEFINE n == Least(len, buffer_size)
<1> DEFINE P(m) == /\ m = len \/ next_index_of(read_index, m) = write_index
                   /\ \A k \in 0 .. m - 1 : next_index_of(read_index, k) # write_index
<1>1. Capacity \in Nat /\ Slots \in Nat /\ Slots > 0 /\ Slots = Capacity + 1
  BY StreamAssumption DEF Slots
<1>2. /\ read_index \in 0 .. Capacity /\ write_index \in 0 .. Capacity
      /\ buffer_size \in 0 .. Capacity
      /\ buffer_size = IF write_index >= read_index
                       THEN write_index - read_index
                       ELSE Slots + write_index - read_index
  BY BufferSize DEF TypeOK, Distance
<1>3. n \in 0 .. len /\ n <= buffer_size
  BY <1>1, <1>2 DEF Least
<1>4. ASSUME NEW k \in 0 .. buffer_size
      PROVE  next_index_of(read_index, k) = write_index <=> k = buffer_size
  <2>1. k \in 0 .. Capacity
    BY <1>1, <1>2
  <2>2. next_index_of(read_index, k)
           = IF read_index + k <= Capacity THEN read_index + k ELSE read_index + k - Slots
    BY <2>1, <1>2, RingStep
  <2> QED BY <1>1, <1>2, <2>1, <2>2
<1>5. P(n)
  BY <1>1, <1>2, <1>3, <1>4 DEF Least
<1>6. ASSUME NEW m \in 0 .. len, P(m)
      PROVE  m = n
  <2>1. CASE m < n
    <3>1. m \in 0 .. buffer_size /\ m # len /\ m # buffer_size
      BY <2>1, <1>1, <1>2, <1>3 DEF Least
    <3> QED BY <3>1, <1>4, <1>6
  <2>2. CASE m > n
    <3>1. n = buffer_size
      BY <2>2, <1>1, <1>2, <1>3 DEF Least
    <3>2. n \in 0 .. m - 1 /\ n \in 0 .. buffer_size
      BY <2>2, <3>1, <1>1, <1>2
    <3> QED BY <3>1, <3>2, <1>4, <1>6
  <2> QED BY <2>1, <2>2, <1>3
<1> HIDE DEF n
<1>7. Peeked(len) = CHOOSE m \in 0 .. len : P(m)
  BY DEF Peeked
<1> HIDE DEF P
<1> QED BY <1>3, <1>5, <1>6, <1>7 DEF n

-----------------------------------------------------------------------------
Inv == TypeOK /\ CountersAgree

\* Moving the write index by n slots, when there is room for them, makes the
\* ring n bytes longer.
LEMMA WriteGrows ==
  ASSUME NEW r \in 0 .. Capacity, NEW w \in 0 .. Capacity,
         NEW n \in 0 .. Capacity - Distance(r, w)
  PROVE  /\ next_index_of(w, n) \in 0 .. Capacity
         /\ Distance(r, next_index_of(w, n)) = Distance(r, w) + n
<1>1. Capacity \in Nat /\ Slots = Capacity + 1 /\ Distance(r, w) \in 0 .. Capacity
  BY StreamAssumption, RingDistance DEF Slots
<1>2. n \in 0 .. Capacity
  BY <1>1
<1>3. next_index_of(w, n) = IF w + n <= Capacity THEN w + n ELSE w + n - Slots
  BY <1>2, RingStep
<1>4. next_index_of(w, n) \in 0 .. Capacity
  BY <1>1, <1>2, <1>3
<1> QED BY <1>1, <1>2, <1>3, <1>4 DEF Distance

\* Moving the read index by n slots, when that many bytes are there, makes the
\* ring n bytes shorter.
LEMMA PopShrinks ==
  ASSUME NEW r \in 0 .. Capacity, NEW w \in 0 .. Capacity,
         NEW n \in 0 .. Distance(r, w)
  PROVE  /\ next_index_of(r, n) \in 0 .. Capacity
         /\ Distance(next_index_of(r, n), w) = Distance(r, w) - n
<1>1. Capacity \in Nat /\ Slots = Capacity + 1 /\ Distance(r, w) \in 0 .. Capacity
  BY StreamAssumption, RingDistance DEF Slots
<1>2. n \in 0 .. Capacity
  BY <1>1
<1>3. next_index_of(r, n) = IF r + n <= Capacity THEN r + n ELSE r + n - Slots
  BY <1>2, RingStep
<1>4. next_index_of(r, n) \in 0 .. Capacity
  BY <1>1, <1>2, <1>3
<1> QED BY <1>1, <1>2, <1>3, <1>4 DEF Distance

\* What one write() does to the ring.
LEMMA WriteStep ==
  ASSUME Inv, NEW data \in Data, Write(data)
  PROVE  LET n == IF end_flag THEN 0 ELSE Least(Len(data), Capacity - buffer_size)
         IN  /\ n \in 0 .. Len(data)
             /\ n \in 0 .. Capacity - buffer_size
             /\ write_index' = next_index_of(write_index, n)
             /\ write_index' \in 0 .. Capacity
             /\ bytes_written' = bytes_written + n
             /\ buffer_size' = buffer_size + n
             /\ channel' = [i \in 0 .. Capacity |->
                  LET k == (i - write_index) % Slots
                  IN  IF k < n THEN data[k + 1] ELSE channel[i]]
<1> DEFINE n == IF end_flag THEN 0 ELSE Least(Len(data), Capacity - buffer_size)
<1>1. PICK l \in 0 .. MaxLen : data \in [1 .. l -> Byte]
  BY DEF Data
<1>2. Len(data) = l /\ l \in Nat
  BY <1>1, StreamAssumption
<1>3. /\ read_index \in 0 .. Capacity /\ write_index \in 0 .. Capacity /\ Capacity \in Nat
      /\ buffer_size = Distance(read_index, write_index) /\ buffer_size \in 0 .. Capacity
  BY BufferSize, StreamAssumption DEF TypeOK, Inv
<1>4. n = IF end_flag THEN 0 ELSE Accepted(data)
  BY <1>2, AcceptedIsRoom DEF Inv
<1>5. n \in 0 .. Len(data) /\ n \in 0 .. Capacity - buffer_size
  BY <1>2, <1>3 DEF Least
<1> HIDE DEF n
<1>6. /\ write_index' = next_index_of(write_index, n)
      /\ bytes_written' = bytes_written + n
      /\ channel' = [i \in 0 .. Capacity |->
                  LET k == (i - write_index) % Slots
                  IN  IF k < n THEN data[k + 1] ELSE channel[i]]
      /\ read_index' = read_index
  BY <1>4 DEF Write
<1>7. /\ write_index' \in 0 .. Capacity
      /\ Distance(read_index, write_index') = Distance(read_index, write_index) + n
  BY <1>3, <1>5, <1>6, WriteGrows
<1>8. buffer_size' = Distance(read_index, write_index')
  BY <1>3, <1>6, <1>7, RingDistance DEF buffer_size
<1> QED BY <1>3, <1>5, <1>6, <1>7, <1>8 DEF n

\* What one pop_output() does to the ring.
LEMMA PopStep ==
  ASSUME Inv, NEW len \in Nat,
         read_index' = next_index_of(read_index, pop_len(len)),
         bytes_read' = bytes_read + pop_len(len),
         UNCHANGED write_index
  PROVE  /\ pop_len(len) = Least(len, buffer_size)
         /\ pop_len(len) \in 0 .. buffer_size
         /\ read_index' \in 0 .. Capacity
         /\ buffer_size' = buffer_size - pop_len(len)
<1>1. /\ read_index \in 0 .. Capacity /\ write_index \in 0 .. Capacity /\ Capacity \in Nat
      /\ buffer_size = Distance(read_index, write_index) /\ buffer_size \in 0 .. Capacity
  BY BufferSize, StreamAssumption DEF TypeOK, Inv
<1>2. pop_len(len) = Least(len, buffer_size) /\ pop_len(len) \in 0 .. buffer_size
  BY <1>1 DEF pop_len, Least
<1>3. /\ read_index' \in 0 .. Capacity
      /\ Distance(read_index', write_index) = Distance(read_index, write_index) - pop_len(len)
  BY <1>1, <1>2, PopShrinks
<1>4. buffer_size' = Distance(read_index', write_index)
  BY <1>1, <1>3, RingDistance DEF buffer_size
<1> QED BY <1>1, <1>2, <1>3, <1>4

\* The string peek_output() returns is the front of the abstract queue.
LEMMA PeekIsPrefix ==
  ASSUME Inv, NEW len \in Nat
  PROVE  /\ peek_output(len) \in Seq(Byte)
         /\ peek_output(len) = Abstract!peek_output(Queue, len)
<1>1. /\ read_index \in 0 .. Capacity /\ channel \in [0 .. Capacity -> Byte]
      /\ buffer_size \in 0 .. Capacity /\ Capacity \in Nat
  BY BufferSize, StreamAssumption DEF TypeOK, Inv
<1> DEFINE n == Least(len, buffer_size)
<1> DEFINE q == [k \in 1 .. buffer_size |-> channel[next_index_of(read_index, k - 1)]]
<1>2. peek_output(len) = [k \in 1 .. n |-> channel[next_index_of(read_index, k - 1)]]
  BY PeekedIsThere DEF Inv, peek_output
<1>3. n \in 0 .. buffer_size
  BY <1>1 DEF Least
<1> HIDE DEF n
<1>4. ASSUME NEW k \in 1 .. buffer_size
      PROVE  next_index_of(read_index, k - 1) \in 0 .. Capacity
  <2>1. k - 1 \in 0 .. Capacity
    BY <1>1
  <2> QED BY <1>1, <2>1, RingOffset
<1>5. q \in Seq(Byte) /\ Len(q) = buffer_size
  BY <1>1, <1>4
<1>6. Abstract!peek_output(Queue, len) = SubSeq(q, 1, n)
  BY <1>1, <1>5 DEF Abstract!peek_output, Abstract!min, Queue, n, Least
<1>7. SubSeq(q, 1, n) = [k \in 1 .. n |-> q[k]]
  BY <1>1, <1>3, <1>5
<1>8. [k \in 1 .. n |-> q[k]] = [k \in 1 .. n |-> channel[next_index_of(read_index, k - 1)]]
  BY <1>1, <1>3
<1>9. peek_output(len) \in Seq(Byte)
  BY <1>1, <1>2, <1>3, <1>4
<1> QED BY <1>2, <1>6, <1>7, <1>8, <1>9

\* A write() appends the accepted bytes to the abstract queue and keeps the
\* bytes that were there, wherever the ring wraps.
LEMMA WriteRefines ==
  ASSUME Inv, NEW data \in Data, Write(data)
  PROVE  Abstract!Write(data)
<1> DEFINE n == IF end_flag THEN 0 ELSE Least(Len(data), Capacity - buffer_size)
<1> DEFINE q == [k \in 1 .. buffer_size |-> channel[next_index_of(read_index, k - 1)]]
<1> DEFINE r == [k \in 1 .. buffer_size + n |-> channel'[next_index_of(read_index, k - 1)]]
<1>1. /\ read_index \in 0 .. Capacity /\ write_index \in 0 .. Capacity /\ Capacity \in Nat
      /\ channel \in [0 .. Capacity -> Byte] /\ Slots = Capacity + 1
      /\ buffer_size = Distance(read_index, write_index) /\ buffer_size \in 0 .. Capacity
  BY BufferSize, StreamAssumption DEF TypeOK, Inv, Slots
<1>2. PICK l \in 0 .. MaxLen : data \in [1 .. l -> Byte]
  BY DEF Data
<1>3. Len(data) = l /\ l \in Nat /\ data \in Seq(Byte)
  BY <1>2, StreamAssumption
<1>4. /\ n \in 0 .. Len(data) /\ n \in 0 .. Capacity - buffer_size
      /\ bytes_written' = bytes_written + n
      /\ buffer_size' = buffer_size + n
      /\ channel' = [i \in 0 .. Capacity |->
                  LET k == (i - write_index) % Slots
                  IN  IF k < n THEN data[k + 1] ELSE channel[i]]
  BY WriteStep, Zenon
<1>5. n = IF end_flag THEN 0 ELSE Least(Len(data), Capacity - buffer_size)
  OBVIOUS
<1>6. UNCHANGED <<read_index, bytes_read, end_flag, error, output>>
  BY DEF Write
<1> HIDE DEF n
<1>7. ASSUME NEW k \in 1 .. buffer_size + n
      PROVE  r[k] = IF k <= buffer_size THEN q[k] ELSE data[k - buffer_size]
  <2> DEFINE j == k - 1
             i == next_index_of(read_index, j)
             o == (i - write_index) % Slots
  <2>1. j \in 0 .. Capacity
    BY <1>1, <1>4
  <2>2. r[k] = channel'[i]
    OBVIOUS
  <2>3. k <= buffer_size => q[k] = channel[i]
    BY <1>1
  <2>4. j = k - 1
    OBVIOUS
  <2> HIDE DEF j, q, r
  <2>5. i \in 0 .. Capacity /\ o = IF j >= buffer_size THEN j - buffer_size
                                                       ELSE Slots + j - buffer_size
    <3>1. i \in 0 .. Capacity /\ o = IF j >= Distance(read_index, write_index)
                                     THEN j - Distance(read_index, write_index)
                                     ELSE Slots + j - Distance(read_index, write_index)
      <4>1. read_index \in 0 .. Capacity /\ write_index \in 0 .. Capacity
        BY <1>1, Zenon
      <4> QED BY <2>1, <4>1, RingOffset, Zenon
    <3> QED BY <1>1, <3>1, Zenon
  <2>6. channel'[i] = IF o < n THEN data[o + 1] ELSE channel[i]
    BY <1>4, <2>5
  <2> HIDE DEF i, o
  <2>7. CASE k <= buffer_size
    <3>1. ~ (j >= buffer_size)
      BY <1>1, <2>1, <2>4, <2>7
    <3>2. o = Slots + j - buffer_size
      BY <2>5, <3>1, Zenon
    <3>3. n \in 0 .. Capacity - buffer_size
      BY <1>4, Zenon
    <3>4. ~ (o < n)
      BY <1>1, <2>1, <3>2, <3>3
    <3> QED BY <2>2, <2>3, <2>6, <2>7, <3>4
  <2>8. CASE k > buffer_size
    <3>1. j >= buffer_size
      BY <1>1, <2>1, <2>4, <2>8
    <3>2. o = j - buffer_size
      BY <2>5, <3>1, Zenon
    <3>3. n \in 0 .. Capacity - buffer_size
      BY <1>4, Zenon
    <3>4. o < n /\ o + 1 = k - buffer_size
      BY <1>1, <2>1, <2>4, <3>1, <3>2, <3>3
    <3> QED BY <1>1, <2>2, <2>6, <2>8, <3>4
  <2> QED BY <1>1, <2>7, <2>8
<1>8. q \in Seq(Byte) /\ Len(q) = buffer_size
  <2>1. ASSUME NEW k \in 1 .. buffer_size
        PROVE  channel[next_index_of(read_index, k - 1)] \in Byte
    <3>1. k - 1 \in 0 .. Capacity
      BY <1>1
    <3> QED BY <1>1, <3>1, RingOffset
  <2> QED BY <1>1, <2>1
<1>9. Queue = [buffer |-> q, popped |-> bytes_read, ended |-> end_flag, error |-> error]
  BY DEF Queue
<1>10. Queue' = [buffer |-> r, popped |-> bytes_read, ended |-> end_flag, error |-> error]
  BY <1>4, <1>6 DEF Queue
<1>11. CASE end_flag
  <2>1. n = 0
    BY <1>5, <1>11
  <2>2. r = [k \in 1 .. buffer_size |-> r[k]]
    BY <1>1, <2>1
  <2>3. \A k \in 1 .. buffer_size : r[k] = q[k]
    BY <1>1, <1>7, <2>1
  <2>4. r = q
    BY <2>2, <2>3
  <2> QED BY <1>6, <1>9, <1>10, <1>11, <2>4 DEF Abstract!Write, Abstract!write
<1>12. CASE ~ end_flag
  <2> DEFINE d == SubSeq(data, 1, n)
  <2>1. d \in Seq(Byte) /\ Len(d) = n /\ \A k \in 1 .. n : d[k] = data[k]
    BY <1>3, <1>4
  <2> HIDE DEF d, q
  <2>2. /\ q \o d \in Seq(Byte) /\ Len(q \o d) = buffer_size + n
        /\ \A k \in 1 .. buffer_size + n :
             (q \o d)[k] = IF k <= buffer_size THEN q[k] ELSE d[k - buffer_size]
    <3>1. /\ q \o d \in Seq(Byte) /\ Len(q \o d) = Len(q) + Len(d)
          /\ \A k \in 1 .. Len(q) + Len(d) :
               (q \o d)[k] = IF k <= Len(q) THEN q[k] ELSE d[k - Len(q)]
      BY <1>8, <2>1, ConcatProperties, Zenon
    <3>2. Len(q) = buffer_size /\ Len(d) = n
      BY <1>8, <2>1, Zenon
    <3> QED BY <3>1, <3>2, Zenon
  <2>3. q \o d = [k \in 1 .. buffer_size + n |-> (q \o d)[k]]
    <3> DEFINE c == q \o d
    <3>1. c \in Seq(Byte) /\ Len(c) = buffer_size + n
      BY <2>2, Zenon
    <3> HIDE DEF c
    <3>2. c = [k \in 1 .. Len(c) |-> c[k]]
      BY <3>1
    <3>3. c = [k \in 1 .. buffer_size + n |-> c[k]]
      BY <3>1, <3>2, Zenon
    <3> QED BY <3>3 DEF c
  <2>4. ASSUME NEW k \in 1 .. buffer_size + n
        PROVE  r[k] = (q \o d)[k]
    <3>1. r[k] = IF k <= buffer_size THEN q[k] ELSE data[k - buffer_size]
      BY <1>7, Zenon
    <3>2. (q \o d)[k] = IF k <= buffer_size THEN q[k] ELSE d[k - buffer_size]
      BY <2>2, Zenon
    <3>3. CASE k <= buffer_size
      BY <3>1, <3>2, <3>3, Zenon
    <3>4. CASE ~ (k <= buffer_size)
      <4>1. k - buffer_size \in 1 .. n
        BY <1>1, <1>4, <3>4
      <4>2. d[k - buffer_size] = data[k - buffer_size]
        BY <2>1, <4>1, Zenon
      <4> QED BY <3>1, <3>2, <3>4, <4>2, Zenon
    <3> QED BY <3>3, <3>4
  <2>5. r = q \o d
    BY <2>3, <2>4
  <2>6. Abstract!min(Len(data), Capacity - Len(q)) = n
    BY <1>5, <1>8, <1>12 DEF Abstract!min, Least
  <2> QED BY <1>6, <1>9, <1>10, <1>12, <2>5, <2>6
          DEF Abstract!Write, Abstract!write, Abstract!remaining_capacity, d
<1> QED BY <1>11, <1>12

\* What is left of a sequence without its first n elements.
LEMMA SeqSuffix ==
  ASSUME NEW S, NEW s \in Seq(S), NEW L \in Nat, L = Len(s), NEW n \in 0 .. L
  PROVE  SubSeq(s, n + 1, Len(s)) = [k \in 1 .. L - n |-> s[n + k]]
OBVIOUS

\* A pop_output() drops exactly the popped bytes from the front of the
\* abstract queue.
LEMMA PopRefines ==
  ASSUME Inv, NEW len \in Nat,
         read_index' = next_index_of(read_index, pop_len(len)),
         bytes_read' = bytes_read + pop_len(len),
         UNCHANGED <<channel, write_index, end_flag, error>>
  PROVE  Queue' = Abstract!pop_output(Queue, len)
<1> DEFINE n == pop_len(len)
<1> DEFINE q == [k \in 1 .. buffer_size |-> channel[next_index_of(read_index, k - 1)]]
<1> DEFINE r == [k \in 1 .. buffer_size - n |-> channel[next_index_of(read_index', k - 1)]]
<1>1. /\ read_index \in 0 .. Capacity /\ write_index \in 0 .. Capacity /\ Capacity \in Nat
      /\ channel \in [0 .. Capacity -> Byte] /\ Slots = Capacity + 1
      /\ buffer_size \in 0 .. Capacity
  BY BufferSize, StreamAssumption DEF TypeOK, Inv, Slots
<1>2. /\ n = Least(len, buffer_size) /\ n \in 0 .. buffer_size
      /\ read_index' \in 0 .. Capacity
      /\ buffer_size' = buffer_size - n
  BY PopStep
<1>3. read_index' = next_index_of(read_index, n) /\ bytes_read' = bytes_read + n
  OBVIOUS
<1> HIDE DEF n
<1>4. q \in Seq(Byte) /\ Len(q) = buffer_size
  <2>1. ASSUME NEW k \in 1 .. buffer_size
        PROVE  channel[next_index_of(read_index, k - 1)] \in Byte
    <3>1. k - 1 \in 0 .. Capacity
      BY <1>1
    <3> QED BY <1>1, <3>1, RingOffset
  <2> QED BY <1>1, <2>1
<1>5. Queue = [buffer |-> q, popped |-> bytes_read, ended |-> end_flag, error |-> error]
  BY DEF Queue
<1>6. Queue' = [buffer |-> r, popped |-> bytes_read + n, ended |-> end_flag, error |-> error]
  BY <1>2, <1>3 DEF Queue
<1>7. ASSUME NEW k \in 1 .. buffer_size - n
      PROVE  channel[next_index_of(read_index', k - 1)] = q[n + k]
  <2> DEFINE i == read_index'
             j == k - 1
             m == n + j
  <2>1. /\ n \in 0 .. Capacity /\ j \in 0 .. Capacity /\ m \in 0 .. Capacity
        /\ n + k \in 1 .. buffer_size /\ (n + k) - 1 = m /\ i \in 0 .. Capacity
    BY <1>1, <1>2
  <2>2. m = n + j /\ i = next_index_of(read_index, n)
    BY <1>3
  <2> HIDE DEF i, j, m
  <2>3. i = IF read_index + n <= Capacity THEN read_index + n ELSE read_index + n - Slots
    BY <1>1, <2>1, <2>2, RingStep
  <2>4. next_index_of(i, j) = IF i + j <= Capacity THEN i + j ELSE i + j - Slots
    BY <2>1, RingStep
  <2>5. next_index_of(read_index, m) = IF read_index + m <= Capacity
                                       THEN read_index + m ELSE read_index + m - Slots
    BY <1>1, <2>1, RingStep
  <2>6. next_index_of(i, j) = next_index_of(read_index, m)
    BY <1>1, <2>1, <2>2, <2>3, <2>4, <2>5
  <2>7. q[n + k] = channel[next_index_of(read_index, (n + k) - 1)]
    BY <2>1
  <2> QED BY <2>1, <2>6, <2>7 DEF i, j
<1>8. Abstract!min(len, Len(q)) = n
  BY <1>2, <1>4 DEF Abstract!min, Least
<1> HIDE DEF q
<1>9. SubSeq(q, n + 1, Len(q)) = [k \in 1 .. buffer_size - n |-> q[n + k]]
  <2>1. buffer_size \in Nat /\ buffer_size = Len(q) /\ n \in 0 .. buffer_size
    BY <1>1, <1>2, <1>4
  <2> QED BY <1>4, <2>1, SeqSuffix
<1>10. r = SubSeq(q, n + 1, Len(q))
  BY <1>7, <1>9
<1> HIDE DEF r
<1>11. Abstract!pop_output(Queue, len)
          = [buffer |-> SubSeq(q, n + 1, Len(q)), popped |-> bytes_read + n,
             ended |-> end_flag, error |-> error]
  BY <1>5, <1>8 DEF Abstract!pop_output
<1> QED BY <1>6, <1>10, <1>11

\* The queue a freshly constructed ByteStream stands for is empty.
LEMMA InitRefines ==
  ASSUME Init
  PROVE  Inv /\ Abstract!Init
<1>1. Capacity \in Nat /\ 0 \in Byte
  BY StreamAssumption
<1>2. TypeOK
  <2>1. output \in Seq(Byte)
    BY DEF Init
  <2>2. channel \in [0 .. Capacity -> Byte]
    BY <1>1 DEF Init
  <2>3. read_index \in 0 .. Capacity /\ write_index \in 0 .. Capacity
    BY <1>1 DEF Init
  <2> QED BY <2>1, <2>2, <2>3 DEF Init, TypeOK
<1>3. buffer_size = 0
  BY <1>1, <1>2, BufferSize DEF Distance, Init
<1>4. [k \in 1 .. buffer_size |-> channel[next_index_of(read_index, k - 1)]] = << >>
  BY <1>3
<1>5. Abstract!Init
  BY <1>4 DEF Init, Abstract!Init, Abstract!EmptyQueue, Queue
<1> QED BY <1>2, <1>3, <1>5 DEF Inv, CountersAgree, Init

\* Every operation keeps the types and the agreement of the counters.
LEMMA NextInv ==
  ASSUME Inv, [Next]_vars
  PROVE  Inv'
<1>0. Capacity \in Nat /\ MaxLen \in Nat
  BY StreamAssumption
<1>1. /\ channel \in [0 .. Capacity -> Byte] /\ read_index \in 0 .. Capacity
      /\ write_index \in 0 .. Capacity /\ bytes_read \in Nat /\ bytes_written \in Nat
      /\ end_flag \in BOOLEAN /\ error \in BOOLEAN /\ output \in Seq(Byte)
      /\ bytes_written - bytes_read = buffer_size /\ buffer_size \in 0 .. Capacity
  BY BufferSize DEF Inv, TypeOK, CountersAgree
<1>2. ASSUME UNCHANGED <<read_index, write_index>>
      PROVE  buffer_size' = buffer_size
  BY <1>2 DEF buffer_size
<1>3. ASSUME NEW data \in Data, Write(data)
      PROVE  Inv'
  <2> DEFINE n == IF end_flag THEN 0 ELSE Least(Len(data), Capacity - buffer_size)
  <2>1. /\ n \in 0 .. Len(data) /\ n \in 0 .. Capacity - buffer_size
        /\ write_index' \in 0 .. Capacity /\ bytes_written' = bytes_written + n
        /\ buffer_size' = buffer_size + n
        /\ channel' = [i \in 0 .. Capacity |->
                  LET k == (i - write_index) % Slots
                  IN  IF k < n THEN data[k + 1] ELSE channel[i]]
    BY <1>3, WriteStep, Zenon
  <2> HIDE DEF n
  <2>2. PICK l \in 0 .. MaxLen : data \in [1 .. l -> Byte]
    BY DEF Data
  <2>3. Len(data) = l /\ l \in Nat
    BY <1>0, <2>2
  <2>4. ASSUME NEW i \in 0 .. Capacity
        PROVE  channel'[i] \in Byte
    <3> DEFINE k == (i - write_index) % Slots
    <3>1. k \in Nat
      <4>1. Slots \in Nat /\ Slots > 0 /\ i - write_index \in Int
        BY <1>0, <1>1 DEF Slots
      <4> QED BY <4>1, ModRange
    <3>2. channel'[i] = IF k < n THEN data[k + 1] ELSE channel[i]
      BY <2>1
    <3> HIDE DEF k
    <3>3. CASE k < n
      <4>1. k + 1 \in 1 .. l
        BY <2>1, <2>3, <3>1, <3>3
      <4> QED BY <2>2, <3>2, <3>3, <4>1
    <3> QED BY <1>1, <3>2, <3>3
  <2>5. channel' \in [0 .. Capacity -> Byte]
    BY <2>1, <2>4
  <2>6. bytes_written' \in Nat /\ bytes_written' - bytes_read = buffer_size'
    BY <1>0, <1>1, <2>1
  <2> QED BY <1>1, <1>3, <2>1, <2>5, <2>6 DEF Write, Inv, TypeOK, CountersAgree
<1>4. ASSUME NEW len \in Nat, PopOutput(len) \/ Read(len)
      PROVE  Inv'
  <2>1. /\ read_index' = next_index_of(read_index, pop_len(len))
        /\ bytes_read' = bytes_read + pop_len(len)
        /\ UNCHANGED <<channel, write_index, bytes_written, end_flag, error>>
        /\ output' \in {output, peek_output(len)}
    BY <1>4 DEF PopOutput, Read
  <2>2. /\ pop_len(len) \in 0 .. buffer_size /\ read_index' \in 0 .. Capacity
        /\ buffer_size' = buffer_size - pop_len(len)
    BY <2>1, PopStep
  <2>3. output' \in Seq(Byte)
    BY <1>1, <2>1, PeekIsPrefix
  <2>4. bytes_read' \in Nat /\ bytes_written - bytes_read' = buffer_size'
    BY <1>0, <1>1, <2>1, <2>2
  <2> QED BY <1>1, <2>1, <2>2, <2>3, <2>4 DEF Inv, TypeOK, CountersAgree
<1>5. ASSUME NEW len \in Nat, PeekOutput(len)
      PROVE  Inv'
  BY <1>1, <1>2, <1>5, PeekIsPrefix DEF PeekOutput, Inv, TypeOK, CountersAgree
<1>6. CASE EndInput \/ SetError \/ UNCHANGED vars
  BY <1>1, <1>2, <1>6 DEF EndInput, SetError, vars, Inv, TypeOK, CountersAgree
<1> QED BY <1>0, <1>3, <1>4, <1>5, <1>6 DEF Next

\* Every operation of the ring is the operation of the queue of the same name.
LEMMA NextRefines ==
  ASSUME Inv, [Next]_vars
  PROVE  [Abstract!Next]_<<Queue, output>>
<1>0. MaxLen \in Nat /\ 0 .. MaxLen \subseteq Nat
  BY StreamAssumption
<1>1. ASSUME UNCHANGED <<channel, read_index, write_index, bytes_read>>
      PROVE  Queue' = [buffer |-> Queue.buffer, popped |-> bytes_read,
                       ended |-> end_flag', error |-> error']
  BY <1>1 DEF Queue, buffer_size
<1>9. PICK b : Queue = [buffer |-> b, popped |-> bytes_read, ended |-> end_flag, error |-> error]
  BY DEF Queue
<1>2. ASSUME NEW data \in Data, Write(data)
      PROVE  Abstract!Next
  BY <1>2, WriteRefines DEF Abstract!Next, Abstract!Data, Data
<1>3. ASSUME NEW len \in 0 .. MaxLen, PeekOutput(len)
      PROVE  Abstract!Next
  <2>1. UNCHANGED Queue
    BY <1>1, <1>3 DEF PeekOutput, Queue
  <2>2. Abstract!PeekOutput(len)
    BY <1>0, <1>3, <2>1, PeekIsPrefix DEF PeekOutput, Abstract!PeekOutput
  <2> QED BY <2>2 DEF Abstract!Next
<1>4. ASSUME NEW len \in 0 .. MaxLen, PopOutput(len)
      PROVE  Abstract!Next
  <2>1. Abstract!PopOutput(len)
    BY <1>0, <1>4, PopRefines DEF PopOutput, Abstract!PopOutput
  <2> QED BY <2>1 DEF Abstract!Next
<1>5. ASSUME NEW len \in 0 .. MaxLen, Read(len)
      PROVE  Abstract!Next
  <2>1. Abstract!Read(len)
    BY <1>0, <1>5, PopRefines, PeekIsPrefix DEF Read, Abstract!Read
  <2> QED BY <2>1 DEF Abstract!Next
<1>6. CASE EndInput
  <2>1. Queue' = [buffer |-> b, popped |-> bytes_read, ended |-> TRUE, error |-> error]
    BY <1>1, <1>6, <1>9 DEF EndInput
  <2>2. Abstract!end_input(Queue) = [buffer |-> b, popped |-> bytes_read, ended |-> TRUE, error |-> error]
    <3>1. \A t : [Queue EXCEPT !.ended = t] = [buffer |-> b, popped |-> bytes_read, ended |-> t, error |-> error]
      BY <1>9
    <3> QED BY <3>1, Zenon DEF Abstract!end_input
  <2>3. Abstract!EndInput
    BY <1>6, <2>1, <2>2 DEF EndInput, Abstract!EndInput
  <2> QED BY <2>3 DEF Abstract!Next
<1>7. CASE SetError
  <2>1. Queue' = [buffer |-> b, popped |-> bytes_read, ended |-> end_flag, error |-> TRUE]
    BY <1>1, <1>7, <1>9 DEF SetError
  <2>2. Abstract!set_error(Queue) = [buffer |-> b, popped |-> bytes_read, ended |-> end_flag, error |-> TRUE]
    <3>1. \A t : [Queue EXCEPT !.error = t] = [buffer |-> b, popped |-> bytes_read, ended |-> end_flag, error |-> t]
      BY <1>9
    <3> QED BY <3>1, Zenon DEF Abstract!set_error
  <2>3. Abstract!SetError
    BY <1>7, <2>1, <2>2 DEF SetError, Abstract!SetError
  <2> QED BY <2>3 DEF Abstract!Next
<1>8. CASE UNCHANGED vars
  BY <1>1, <1>8 DEF vars, Queue
<1> QED BY <1>2, <1>3, <1>4, <1>5, <1>6, <1>7, <1>8 DEF Next

\* In every reachable state of the ring buffer its indices lie inside the ring,
\* and the counters of write() and pop_output() agree with buffer_size().
THEOREM Invariance == Spec => [](TypeOK /\ CountersAgree)
<1>1. Init => Inv
  BY InitRefines
<1>2. Inv /\ [Next]_vars => Inv'
  BY NextInv
<1> QED BY <1>1, <1>2, PTL DEF Spec, Inv

\* The ring buffer of byte_stream.cc implements the bounded FIFO queue, for
\* every capacity, set of bytes and length of a write or read.
THEOREM Refinement == Spec => ImplementsQueue
<1>1. Init => Inv /\ Abstract!Init
  BY InitRefines
<1>2. Inv /\ [Next]_vars => Inv'
  BY NextInv
<1>3. Inv /\ [Next]_vars => [Abstract!Next]_<<Queue, output>>
  BY NextRefines
<1> QED BY <1>1, <1>2, <1>3, PTL DEF Spec, ImplementsQueue, Abstract!Spec

\* write() takes exactly the bytes there is room for, at every position of the
\* two indices in the ring.
THEOREM WriteTakesAll == Spec => WriteFillsRoom
<1>1. Init => Inv
  BY InitRefines
<1>2. Inv /\ [Next]_vars => Inv'
  BY NextInv
<1> DEFINE Room(data) == IF end_flag THEN 0
                         ELSE IF Len(data) <= Capacity - buffer_size THEN Len(data)
                                                                     ELSE Capacity - buffer_size
<1>3. Inv /\ [Next]_vars =>
        [\A data \in Data : Write(data) => bytes_written' - bytes_written = Room(data)]_vars
  <2> SUFFICES ASSUME Inv, NEW data \in Data, Write(data)
               PROVE  bytes_written' - bytes_written = Room(data)
    OBVIOUS
  <2>1. /\ bytes_written' = bytes_written + Room(data)
        /\ Room(data) \in 0 .. Len(data) /\ Room(data) \in 0 .. Capacity - buffer_size
    BY WriteStep, Zenon DEF Least
  <2>2. bytes_written \in Nat
    BY DEF Inv, TypeOK
  <2>3. Room(data) \in Int
    BY <2>1
  <2> HIDE DEF Room
  <2> QED BY <2>1, <2>2, <2>3
<1> QED BY <1>1, <1>2, <1>3, PTL DEF Spec, WriteFillsRoom
=============================================================================
