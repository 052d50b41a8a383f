---------------------------- MODULE BufferProofs ----------------------------
(***************************************************************************)
(* Buffer, for every set of strings and all sizes: positions stay in       *)
(* order, no assertion fails, the capacity is bounded by the bytes held,   *)
(* and every call is a call of the abstract ByteQueue.                     *)
(***************************************************************************)
EXTENDS Buffer, SequenceTheorems, TLAPS

Representation == [buffer : Seq(Byte), readerIndex : Nat, writerIndex : Nat]

WellFormed(b) ==
    /\ b \in Representation
    /\ b.readerIndex <= b.writerIndex
    /\ b.writerIndex <= Len(b.buffer)
    /\ KInititalSize <= Len(b.buffer)

Small(b) ==
    Len(b.buffer) <= KInititalSize \/ Len(b.buffer) < KCheapPrepend + 2 * MaxReadable
-----------------------------------------------------------------------------
(* The operations on one buffer.                                           *)

\* The readable bytes are a string of ReadableBytes bytes.
LEMMA ContentsProperties ==
    ASSUME NEW b, WellFormed(b)
    PROVE  /\ ReadableBytes(b) \in Nat
           /\ Contents(b) \in Seq(Byte)
           /\ Len(Contents(b)) = ReadableBytes(b)
           /\ \A i \in 1..ReadableBytes(b) : Contents(b)[i] = b.buffer[b.readerIndex + i]
<1>1. ReadableBytes(b) \in Nat /\ b.readerIndex \in Nat /\ b.buffer \in Seq(Byte)
  BY DEF ReadableBytes, WellFormed, Representation
<1>2. \A i \in 1..ReadableBytes(b) : b.readerIndex + i \in 1..Len(b.buffer)
  BY DEF ReadableBytes, WellFormed, Representation
<1>3. \A i \in 1..ReadableBytes(b) : b.buffer[b.readerIndex + i] \in Byte
  BY <1>1, <1>2
<1> QED BY <1>1, <1>3 DEF Contents

\* A copy keeps the size, and changes only the bytes it is made of.
LEMMA CopiedProperties ==
    ASSUME NEW buffer \in Seq(Byte), NEW p \in Nat, NEW s \in Seq(Byte)
    PROVE  /\ Copied(buffer, p, s) \in Seq(Byte)
           /\ Len(Copied(buffer, p, s)) = Len(buffer)
           /\ \A i \in 1..Len(buffer) : Copied(buffer, p, s)[i] =
                IF i \in (p + 1)..(p + Len(s)) THEN s[i - p] ELSE buffer[i]
<1>1. Len(buffer) \in Nat /\ Len(s) \in Nat
  OBVIOUS
<1>2. \A i \in (p + 1)..(p + Len(s)) : i - p \in 1..Len(s)
  BY <1>1
<1>3. \A i \in 1..Len(buffer) :
        (IF i \in (p + 1)..(p + Len(s)) THEN s[i - p] ELSE buffer[i]) \in Byte
  BY <1>1, <1>2
<1> QED BY <1>1, <1>3 DEF Copied

\* resize to a larger size keeps the bytes.
LEMMA ResizedProperties ==
    ASSUME NEW buffer \in Seq(Byte), NEW size \in Nat, size >= Len(buffer)
    PROVE  /\ Resized(buffer, size) \in Seq(Byte)
           /\ Len(Resized(buffer, size)) = size
           /\ \A i \in 1..Len(buffer) : Resized(buffer, size)[i] = buffer[i]
<1>1. \A i \in 1..size : (IF i <= Len(buffer) THEN buffer[i] ELSE Zero) \in Byte
  BY ConstantsAssumption
<1> QED BY <1>1 DEF Resized

\* Two buffers with the same readable bytes have the same contents.
LEMMA SameContents ==
    ASSUME NEW b, NEW c, WellFormed(b), WellFormed(c), ReadableBytes(b) = ReadableBytes(c),
           \A i \in 1..ReadableBytes(b) : b.buffer[b.readerIndex + i] = c.buffer[c.readerIndex + i]
    PROVE  Contents(b) = Contents(c)
BY DEF Contents

\* A new buffer is well formed and holds nothing.
LEMMA EmptyProperties == WellFormed(Empty) /\ Small(Empty) /\ Contents(Empty) = <<>>
<1>1. [i \in 1..KInititalSize |-> Zero] \in Seq(Byte)
      /\ Len([i \in 1..KInititalSize |-> Zero]) = KInititalSize
  BY ConstantsAssumption
<1>2. WellFormed(Empty) /\ Small(Empty) /\ ReadableBytes(Empty) = 0
  BY <1>1, ConstantsAssumption DEF WellFormed, Small, Empty, Representation, ReadableBytes
<1>3. Contents(Empty) \in Seq(Byte) /\ Len(Contents(Empty)) = 0
  BY <1>2, ContentsProperties
<1> QED BY <1>2, <1>3

\* ensureWritableBytes keeps the readable bytes, makes the room, and its
\* assertions and makeSpace's hold.
LEMMA EnsureProperties ==
    ASSUME NEW b, WellFormed(b), NEW len \in Nat
    PROVE  LET c == EnsureWritableBytes(b, len) IN
           /\ WellFormed(c) /\ Contents(c) = Contents(b)
           /\ ReadableBytes(c) = ReadableBytes(b)
           /\ EnsureAsserts(b, len)
           /\ Len(b.buffer) <= Len(c.buffer)
           /\ Len(c.buffer) # Len(b.buffer) =>
                Len(c.buffer) < KCheapPrepend + ReadableBytes(b) + 2 * len
<1> DEFINE c == EnsureWritableBytes(b, len)
<1>0. /\ b.buffer \in Seq(Byte) /\ b.readerIndex \in Nat /\ b.writerIndex \in Nat
      /\ Len(b.buffer) \in Nat /\ KCheapPrepend \in Nat /\ KInititalSize \in Nat
      /\ KCheapPrepend <= KInititalSize
      /\ b.readerIndex <= b.writerIndex /\ b.writerIndex <= Len(b.buffer)
  BY ConstantsAssumption DEF WellFormed, Representation
<1>1. CASE WritableBytes(b) >= len
  <2>1. c = b
    BY <1>0, <1>1 DEF EnsureWritableBytes, WritableBytes
  <2> QED BY <1>0, <1>1, <2>1 DEF EnsureAsserts, WritableBytes
<1>2. CASE WritableBytes(b) < len /\ MustGrow(b, len)
  <2> DEFINE r == Resized(b.buffer, b.writerIndex + len)
  <2>1. b.writerIndex + len \in Nat /\ b.writerIndex + len > Len(b.buffer)
    BY <1>0, <1>2 DEF WritableBytes
  <2>2. /\ r \in Seq(Byte) /\ Len(r) = b.writerIndex + len
        /\ \A i \in 1..Len(b.buffer) : r[i] = b.buffer[i]
    BY <1>0, <2>1, ResizedProperties
  <2>3. c = [b EXCEPT !.buffer = r]
    BY <1>2 DEF EnsureWritableBytes, MakeSpace
  <2>4. c \in Representation /\ c.buffer = r /\ c.readerIndex = b.readerIndex
        /\ c.writerIndex = b.writerIndex
    BY <2>2, <2>3 DEF WellFormed, Representation
  <2>5. WellFormed(c) /\ ReadableBytes(c) = ReadableBytes(b)
    BY <1>0, <2>1, <2>2, <2>4 DEF WellFormed, ReadableBytes
  <2>6. \A i \in 1..ReadableBytes(b) : b.buffer[b.readerIndex + i] = c.buffer[c.readerIndex + i]
    <3>1. \A i \in 1..ReadableBytes(b) : b.readerIndex + i \in 1..Len(b.buffer)
      BY <1>0 DEF WellFormed, ReadableBytes
    <3> QED BY <3>1, <2>2, <2>4
  <2>7. Contents(c) = Contents(b)
    BY <2>5, <2>6, SameContents
  <2>8. WritableBytes(c) >= len
    BY <1>0, <2>2, <2>4 DEF WritableBytes
  <2>9. EnsureAsserts(b, len)
    BY <1>2, <2>8 DEF EnsureAsserts
  <2>10. Len(c.buffer) < KCheapPrepend + ReadableBytes(b) + 2 * len
    <3>1. b.readerIndex < KCheapPrepend + len
      BY <1>0, <1>2 DEF MustGrow, PrependableBytes, WritableBytes
    <3>2. Len(c.buffer) = b.writerIndex + len
      BY <2>2, <2>4
    <3>3. ReadableBytes(b) = b.writerIndex - b.readerIndex
      BY DEF ReadableBytes
    <3> HIDE DEF c
    <3> QED BY <1>0, <3>1, <3>2, <3>3
  <2> QED BY <1>0, <2>1, <2>2, <2>4, <2>5, <2>7, <2>9, <2>10
<1>3. CASE WritableBytes(b) < len /\ ~MustGrow(b, len)
  <2> DEFINE m == Copied(b.buffer, KCheapPrepend, Contents(b))
  <2>0. ReadableBytes(b) \in Nat /\ Len(Contents(b)) = ReadableBytes(b) /\ Contents(b) \in Seq(Byte)
    BY ContentsProperties
  <2>1. KCheapPrepend < b.readerIndex
        /\ KCheapPrepend + ReadableBytes(b) + len <= Len(b.buffer)
    BY <1>0, <1>3 DEF MustGrow, PrependableBytes, WritableBytes, ReadableBytes
  <2>2. /\ m \in Seq(Byte) /\ Len(m) = Len(b.buffer)
        /\ \A i \in 1..Len(b.buffer) : m[i] =
             IF i \in (KCheapPrepend + 1)..(KCheapPrepend + ReadableBytes(b))
             THEN Contents(b)[i - KCheapPrepend] ELSE b.buffer[i]
    <3>1. /\ m \in Seq(Byte) /\ Len(m) = Len(b.buffer)
          /\ \A i \in 1..Len(b.buffer) : m[i] =
               IF i \in (KCheapPrepend + 1)..(KCheapPrepend + Len(Contents(b)))
               THEN Contents(b)[i - KCheapPrepend] ELSE b.buffer[i]
      BY <1>0, <2>0, CopiedProperties
    <3> HIDE DEF m
    <3> QED BY <3>1, <2>0
  <2>3. c = [buffer |-> m, readerIndex |-> KCheapPrepend,
             writerIndex |-> KCheapPrepend + ReadableBytes(b)]
    BY <1>3 DEF EnsureWritableBytes, MakeSpace, Moved
  <2>4. WellFormed(c) /\ ReadableBytes(c) = ReadableBytes(b)
    BY <1>0, <2>0, <2>1, <2>2, <2>3 DEF WellFormed, Representation, ReadableBytes
  <2>5. \A i \in 1..ReadableBytes(b) : c.buffer[c.readerIndex + i] = Contents(b)[i]
    <3> SUFFICES ASSUME NEW i \in 1..ReadableBytes(b)
                 PROVE  m[KCheapPrepend + i] = Contents(b)[i]
      BY <2>3
    <3>1. /\ KCheapPrepend + i \in 1..Len(b.buffer)
          /\ KCheapPrepend + i \in (KCheapPrepend + 1)..(KCheapPrepend + ReadableBytes(b))
          /\ (KCheapPrepend + i) - KCheapPrepend = i
      BY <1>0, <2>0, <2>1
    <3> QED BY <3>1, <2>2
  <2>6. Contents(c) = Contents(b)
    BY <2>4, <2>5, ContentsProperties, SameContents
  <2>7. WritableBytes(c) >= len
    BY <1>0, <2>0, <2>1, <2>2, <2>3 DEF WritableBytes
  <2>8. EnsureAsserts(b, len)
    BY <2>1, <2>7 DEF EnsureAsserts
  <2> QED BY <1>0, <2>2, <2>3, <2>4, <2>6, <2>8
<1>4. WritableBytes(b) \in Nat
  BY <1>0 DEF WritableBytes, WellFormed
<1> QED BY <1>1, <1>2, <1>3, <1>4

\* Bytes written within the writable space are appended to the readable ones.
LEMMA WrittenProperties ==
    ASSUME NEW b, WellFormed(b), NEW s \in Seq(Byte), Len(s) <= WritableBytes(b)
    PROVE  LET c == Written(b, s) IN
           /\ WellFormed(c) /\ Contents(c) = Contents(b) \o s
           /\ ReadableBytes(c) = ReadableBytes(b) + Len(s)
           /\ Len(c.buffer) = Len(b.buffer)
           /\ c.readerIndex = b.readerIndex /\ c.writerIndex = b.writerIndex + Len(s)
<1> DEFINE c == Written(b, s)
           w == Copied(b.buffer, b.writerIndex, s)
<1>0. /\ b.buffer \in Seq(Byte) /\ b.readerIndex \in Nat /\ b.writerIndex \in Nat
      /\ Len(b.buffer) \in Nat /\ Len(s) \in Nat
      /\ b.readerIndex <= b.writerIndex /\ b.writerIndex + Len(s) <= Len(b.buffer)
  BY DEF WellFormed, Representation, WritableBytes
<1>1. /\ w \in Seq(Byte) /\ Len(w) = Len(b.buffer)
      /\ \A i \in 1..Len(b.buffer) : w[i] =
           IF i \in (b.writerIndex + 1)..(b.writerIndex + Len(s))
           THEN s[i - b.writerIndex] ELSE b.buffer[i]
  <2>1. b.buffer \in Seq(Byte) /\ b.writerIndex \in Nat
    BY <1>0
  <2> QED BY <2>1, CopiedProperties, Zenon
<1>2. /\ c \in Representation /\ c.buffer = w /\ c.readerIndex = b.readerIndex
      /\ c.writerIndex = b.writerIndex + Len(s)
  <2>1. c = [b EXCEPT !.buffer = w, !.writerIndex = b.writerIndex + Len(s)]
    BY DEF Written
  <2>2. b \in Representation /\ w \in Seq(Byte) /\ b.writerIndex + Len(s) \in Nat
    BY <1>0, <1>1 DEF WellFormed
  <2> HIDE DEF c, w
  <2> QED BY <2>1, <2>2 DEF Representation
<1> HIDE DEF c, w
<1>3. WellFormed(c) /\ ReadableBytes(c) = ReadableBytes(b) + Len(s)
  BY <1>0, <1>1, <1>2 DEF WellFormed, ReadableBytes
<1>4. /\ Contents(b) \in Seq(Byte) /\ Len(Contents(b)) = ReadableBytes(b)
      /\ ReadableBytes(b) \in Nat
      /\ \A i \in 1..ReadableBytes(b) : Contents(b)[i] = b.buffer[b.readerIndex + i]
  BY ContentsProperties
<1>5. /\ Contents(c) \in Seq(Byte) /\ Len(Contents(c)) = ReadableBytes(b) + Len(s)
      /\ \A i \in 1..(ReadableBytes(b) + Len(s)) : Contents(c)[i] = w[b.readerIndex + i]
  BY <1>2, <1>3, ContentsProperties
<1>6. /\ Contents(b) \o s \in Seq(Byte)
      /\ Len(Contents(b) \o s) = ReadableBytes(b) + Len(s)
      /\ \A i \in 1..(ReadableBytes(b) + Len(s)) : (Contents(b) \o s)[i] =
           IF i <= ReadableBytes(b) THEN Contents(b)[i] ELSE s[i - ReadableBytes(b)]
  <2> DEFINE d == Contents(b)
  <2>1. d \in Seq(Byte) /\ Len(d) = ReadableBytes(b)
    BY <1>4
  <2> HIDE DEF d
  <2>2. /\ d \o s \in Seq(Byte) /\ Len(d \o s) = Len(d) + Len(s)
        /\ \A i \in 1..(Len(d) + Len(s)) : (d \o s)[i] =
             IF i <= Len(d) THEN d[i] ELSE s[i - Len(d)]
    BY <2>1, ConcatProperties, Zenon
  <2> QED BY <2>1, <2>2, Zenon DEF d
<1>7. ASSUME NEW i \in 1..(ReadableBytes(b) + Len(s))
      PROVE  Contents(c)[i] = (Contents(b) \o s)[i]
  <2>00. b.writerIndex = b.readerIndex + ReadableBytes(b)
    BY <1>0 DEF ReadableBytes
  <2>0. /\ b.writerIndex = b.readerIndex + ReadableBytes(b)
        /\ i \in Nat /\ b.readerIndex + i \in 1..Len(b.buffer)
    BY <1>0, <1>4, <2>00
  <2>1. CASE i <= ReadableBytes(b)
    <3>1. b.readerIndex + i \notin (b.writerIndex + 1)..(b.writerIndex + Len(s))
      BY <1>0, <1>4, <2>0, <2>1
    <3>2. w[b.readerIndex + i] = b.buffer[b.readerIndex + i]
      BY <1>1, <2>0, <3>1
    <3>3. i \in 1..ReadableBytes(b)
      BY <1>4, <2>0, <2>1
    <3> QED BY <1>4, <1>5, <1>6, <2>1, <3>2, <3>3
  <2>2. CASE ~(i <= ReadableBytes(b))
    <3>1. /\ b.readerIndex + i \in (b.writerIndex + 1)..(b.writerIndex + Len(s))
          /\ (b.readerIndex + i) - b.writerIndex = i - ReadableBytes(b)
      BY <1>0, <1>4, <2>0, <2>2
    <3>2. w[b.readerIndex + i] = s[i - ReadableBytes(b)]
      BY <1>1, <2>0, <3>1
    <3> QED BY <1>5, <1>6, <2>2, <3>2
  <2> QED BY <2>1, <2>2
<1>8. Contents(c) = Contents(b) \o s
  BY <1>5, <1>6, <1>7, SeqEqual
<1> QED BY <1>1, <1>2, <1>3, <1>8 DEF c

\* append, which makes room first.
LEMMA AppendedProperties ==
    ASSUME NEW b, WellFormed(b), NEW s \in Seq(Byte)
    PROVE  LET c == Appended(b, s) IN
           /\ WellFormed(c) /\ Contents(c) = Contents(b) \o s
           /\ ReadableBytes(c) = ReadableBytes(b) + Len(s)
           /\ Len(c.buffer) # Len(b.buffer) =>
                Len(c.buffer) < KCheapPrepend + ReadableBytes(b) + 2 * Len(s)
<1> DEFINE e == EnsureWritableBytes(b, Len(s))
<1>1. Len(s) \in Nat
  OBVIOUS
<1>2. /\ WellFormed(e) /\ Contents(e) = Contents(b) /\ ReadableBytes(e) = ReadableBytes(b)
      /\ EnsureAsserts(b, Len(s))
      /\ Len(e.buffer) # Len(b.buffer) =>
           Len(e.buffer) < KCheapPrepend + ReadableBytes(b) + 2 * Len(s)
  BY <1>1, EnsureProperties
<1>3. Len(s) <= WritableBytes(e)
  <2>1. WritableBytes(e) \in Nat
    BY <1>2 DEF WellFormed, Representation, WritableBytes
  <2>2. WritableBytes(e) >= Len(s)
    BY <1>2 DEF EnsureAsserts
  <2> HIDE DEF e
  <2> QED BY <1>1, <2>1, <2>2
<1>4. Appended(b, s) = Written(e, s)
  BY DEF Appended
<1> HIDE DEF e
<1>5. /\ WellFormed(Written(e, s)) /\ Contents(Written(e, s)) = Contents(e) \o s
      /\ ReadableBytes(Written(e, s)) = ReadableBytes(e) + Len(s)
      /\ Len(Written(e, s).buffer) = Len(e.buffer)
  BY <1>2, <1>3, WrittenProperties
<1> QED BY <1>2, <1>4, <1>5

\* retrieve takes the first n readable bytes.
LEMMA RetrievedProperties ==
    ASSUME NEW b, WellFormed(b), NEW n \in 0..ReadableBytes(b)
    PROVE  LET c == Retrieved(b, n) IN
           /\ WellFormed(c) /\ Len(c.buffer) = Len(b.buffer)
           /\ Contents(c) = SubSeq(Contents(b), n + 1, Len(Contents(b)))
<1> DEFINE c == Retrieved(b, n)
           tail == SubSeq(Contents(b), n + 1, Len(Contents(b)))
<1>0. /\ b.buffer \in Seq(Byte) /\ b.readerIndex \in Nat /\ b.writerIndex \in Nat
      /\ Len(b.buffer) \in Nat /\ n \in Nat /\ KCheapPrepend \in Nat
      /\ b.readerIndex <= b.writerIndex /\ b.writerIndex <= Len(b.buffer)
      /\ KCheapPrepend <= Len(b.buffer)
  BY ConstantsAssumption DEF WellFormed, Representation, ReadableBytes
<1>1. /\ ReadableBytes(b) \in Nat /\ Contents(b) \in Seq(Byte)
      /\ Len(Contents(b)) = ReadableBytes(b)
      /\ \A i \in 1..ReadableBytes(b) : Contents(b)[i] = b.buffer[b.readerIndex + i]
  BY ContentsProperties
<1>2. /\ tail \in Seq(Byte) /\ Len(tail) = ReadableBytes(b) - n
      /\ \A i \in 1..(ReadableBytes(b) - n) : tail[i] = Contents(b)[n + i]
  BY <1>0, <1>1
<1>3. CASE n < ReadableBytes(b)
  <2>1. /\ c \in Representation /\ c.buffer = b.buffer
        /\ c.readerIndex = b.readerIndex + n /\ c.writerIndex = b.writerIndex
    BY <1>0, <1>3 DEF Retrieved, WellFormed, Representation
  <2> HIDE DEF c, tail
  <2>2. WellFormed(c) /\ ReadableBytes(c) = ReadableBytes(b) - n
    BY <1>0, <1>3, <2>1 DEF WellFormed, ReadableBytes
  <2>3. /\ Contents(c) \in Seq(Byte) /\ Len(Contents(c)) = ReadableBytes(b) - n
        /\ \A i \in 1..(ReadableBytes(b) - n) :
             Contents(c)[i] = b.buffer[(b.readerIndex + n) + i]
    BY <2>1, <2>2, ContentsProperties
  <2>4. ASSUME NEW i \in 1..(ReadableBytes(b) - n) PROVE Contents(c)[i] = tail[i]
    <3>1. n + i \in 1..ReadableBytes(b) /\ b.readerIndex + (n + i) = (b.readerIndex + n) + i
      BY <1>0, <1>1
    <3> QED BY <1>1, <1>2, <2>3, <3>1
  <2>5. Contents(c) = tail
    BY <1>2, <2>3, <2>4, SeqEqual
  <2> QED BY <2>1, <2>2, <2>5 DEF c, tail
<1>4. CASE ~(n < ReadableBytes(b))
  <2>1. /\ c \in Representation /\ c.buffer = b.buffer
        /\ c.readerIndex = KCheapPrepend /\ c.writerIndex = KCheapPrepend
    BY <1>0, <1>4 DEF Retrieved, WellFormed, Representation
  <2> HIDE DEF c, tail
  <2>2. WellFormed(c) /\ ReadableBytes(c) = 0
    BY <1>0, <2>1 DEF WellFormed, ReadableBytes
  <2>3. Contents(c) \in Seq(Byte) /\ Len(Contents(c)) = 0
    BY <2>2, ContentsProperties
  <2>4. Len(tail) = 0
    BY <1>0, <1>1, <1>2, <1>4
  <2>5. Contents(c) = tail
    BY <1>2, <2>3, <2>4
  <2> QED BY <2>1, <2>2, <2>5 DEF c, tail
<1> QED BY <1>3, <1>4

\* prepend puts bytes before the readable ones.
LEMMA PrependedProperties ==
    ASSUME NEW b, WellFormed(b), NEW s \in Seq(Byte), Len(s) <= PrependableBytes(b)
    PROVE  LET c == Prepended(b, s) IN
           /\ WellFormed(c) /\ Contents(c) = s \o Contents(b)
           /\ Len(c.buffer) = Len(b.buffer)
<1> DEFINE c == Prepended(b, s)
           p == b.readerIndex - Len(s)
           w == Copied(b.buffer, p, s)
<1>0. /\ b.buffer \in Seq(Byte) /\ b.readerIndex \in Nat /\ b.writerIndex \in Nat
      /\ Len(b.buffer) \in Nat /\ Len(s) \in Nat /\ p \in Nat
      /\ b.readerIndex <= b.writerIndex /\ b.writerIndex <= Len(b.buffer)
      /\ b.readerIndex = p + Len(s)
  BY DEF WellFormed, Representation, PrependableBytes
<1>00. c = [b EXCEPT !.readerIndex = p, !.buffer = w]
  BY DEF Prepended
<1> HIDE DEF p
<1>1. /\ w \in Seq(Byte) /\ Len(w) = Len(b.buffer)
      /\ \A i \in 1..Len(b.buffer) : w[i] =
           IF i \in (p + 1)..(p + Len(s)) THEN s[i - p] ELSE b.buffer[i]
  <2>1. b.buffer \in Seq(Byte) /\ p \in Nat
    BY <1>0
  <2> QED BY <2>1, CopiedProperties, Zenon
<1>2. /\ c \in Representation /\ c.buffer = w /\ c.readerIndex = p
      /\ c.writerIndex = b.writerIndex
  <2>1. b \in Representation /\ w \in Seq(Byte) /\ p \in Nat
    BY <1>0, <1>1 DEF WellFormed
  <2> HIDE DEF c, w
  <2> QED BY <2>1, <1>00 DEF Representation
<1> HIDE DEF c, w
<1>3. WellFormed(c) /\ ReadableBytes(c) = Len(s) + ReadableBytes(b)
  BY <1>0, <1>1, <1>2 DEF WellFormed, ReadableBytes
<1>4. /\ Contents(b) \in Seq(Byte) /\ Len(Contents(b)) = ReadableBytes(b)
      /\ ReadableBytes(b) \in Nat
      /\ \A i \in 1..ReadableBytes(b) : Contents(b)[i] = b.buffer[b.readerIndex + i]
  BY ContentsProperties
<1>5. /\ Contents(c) \in Seq(Byte) /\ Len(Contents(c)) = Len(s) + ReadableBytes(b)
      /\ \A i \in 1..(Len(s) + ReadableBytes(b)) : Contents(c)[i] = w[p + i]
  BY <1>2, <1>3, ContentsProperties
<1>6. /\ s \o Contents(b) \in Seq(Byte)
      /\ Len(s \o Contents(b)) = Len(s) + ReadableBytes(b)
      /\ \A i \in 1..(Len(s) + ReadableBytes(b)) : (s \o Contents(b))[i] =
           IF i <= Len(s) THEN s[i] ELSE Contents(b)[i - Len(s)]
  <2> DEFINE d == Contents(b)
  <2>1. d \in Seq(Byte) /\ Len(d) = ReadableBytes(b)
    BY <1>4
  <2> HIDE DEF d
  <2>2. /\ s \o d \in Seq(Byte) /\ Len(s \o d) = Len(s) + Len(d)
        /\ \A i \in 1..(Len(s) + Len(d)) : (s \o d)[i] =
             IF i <= Len(s) THEN s[i] ELSE d[i - Len(s)]
    BY <2>1, ConcatProperties, Zenon
  <2> QED BY <2>1, <2>2, Zenon DEF d
<1>7. ASSUME NEW i \in 1..(Len(s) + ReadableBytes(b))
      PROVE  Contents(c)[i] = (s \o Contents(b))[i]
  <2>00. b.writerIndex = b.readerIndex + ReadableBytes(b)
    BY <1>0 DEF ReadableBytes
  <2>0. i \in Nat /\ p + i \in 1..Len(b.buffer) /\ (p + i) - p = i
    BY <1>0, <1>4, <2>00
  <2>1. CASE i <= Len(s)
    <3>1. p + i \in (p + 1)..(p + Len(s))
      BY <1>0, <2>0, <2>1
    <3>2. w[p + i] = s[i]
      BY <1>1, <2>0, <3>1
    <3> QED BY <1>5, <1>6, <2>1, <3>2
  <2>2. CASE ~(i <= Len(s))
    <3>1. /\ p + i \notin (p + 1)..(p + Len(s))
          /\ i - Len(s) \in 1..ReadableBytes(b)
          /\ b.readerIndex + (i - Len(s)) = p + i
      BY <1>0, <1>4, <2>0, <2>2
    <3>2. w[p + i] = b.buffer[p + i]
      BY <1>1, <2>0, <3>1
    <3>3. Contents(b)[i - Len(s)] = b.buffer[p + i]
      BY <1>4, <3>1
    <3> QED BY <1>5, <1>6, <2>2, <3>2, <3>3
  <2> QED BY <2>1, <2>2
<1>8. Contents(c) = s \o Contents(b)
  BY <1>5, <1>6, <1>7, SeqEqual
<1> QED BY <1>1, <1>2, <1>3, <1>8 DEF c

\* readFd joins what readv put in the vector and what it put in extrabuf.
LEMMA ReceivedProperties ==
    ASSUME NEW b, WellFormed(b), NEW s \in Seq(Byte)
    PROVE  LET c == Received(b, s) IN
           /\ WellFormed(c) /\ Contents(c) = Contents(b) \o s
           /\ Len(c.buffer) # Len(b.buffer) =>
                Len(c.buffer) < KCheapPrepend + 2 * (ReadableBytes(b) + Len(s))
<1> DEFINE room == WritableBytes(b)
           first == SubSeq(s, 1, room)
           rest == SubSeq(s, room + 1, Len(s))
           d == Written(b, first)
           e == Appended(d, rest)
<1>0. room \in Nat /\ Len(s) \in Nat
  BY DEF WellFormed, Representation, WritableBytes
<1>1. CASE Len(s) <= room
  <2>1. Received(b, s) = Written(b, s)
    BY <1>1 DEF Received
  <2> QED BY <1>1, <2>1, WrittenProperties
<1>2. CASE ~(Len(s) <= room)
  <2>1. Received(b, s) = e
    BY <1>2 DEF Received
  <2> HIDE DEF room
  <2>2. /\ first \in Seq(Byte) /\ Len(first) = room
        /\ rest \in Seq(Byte) /\ Len(rest) = Len(s) - room
    BY <1>0, <1>2
  <2>3. first \o rest = s
    <3>1. 1 \in 1..(Len(s) + 1) /\ room \in (1 - 1)..Len(s) /\ Len(s) \in room..Len(s)
      BY <1>0, <1>2
    <3>2. SubSeq(s, 1, room) \o SubSeq(s, room + 1, Len(s)) = SubSeq(s, 1, Len(s))
      BY <3>1, ConcatAdjacentSubSeq, Zenon
    <3>3. SubSeq(s, 1, Len(s)) = s
      BY SubSeqFull, Zenon
    <3> QED BY <3>2, <3>3
  <2> HIDE DEF first, rest
  <2>4. Len(first) <= WritableBytes(b)
    BY <1>0, <2>2 DEF room
  <2>5. /\ WellFormed(d) /\ Contents(d) = Contents(b) \o first
        /\ ReadableBytes(d) = ReadableBytes(b) + Len(first)
        /\ Len(d.buffer) = Len(b.buffer)
    BY <2>2, <2>4, WrittenProperties
  <2> HIDE DEF d
  <2>6. /\ WellFormed(e) /\ Contents(e) = Contents(d) \o rest
        /\ Len(e.buffer) # Len(d.buffer) =>
             Len(e.buffer) < KCheapPrepend + ReadableBytes(d) + 2 * Len(rest)
    BY <2>2, <2>5, AppendedProperties
  <2>7. Contents(e) = Contents(b) \o s
    <3>1. Contents(b) \in Seq(Byte)
      BY ContentsProperties
    <3>2. (Contents(b) \o first) \o rest = Contents(b) \o (first \o rest)
      <4>1. first \in Seq(Byte) /\ rest \in Seq(Byte)
        BY <2>2
      <4>2. \A u, v, z \in Seq(Byte) : (u \o v) \o z = u \o (v \o z)
        BY ConcatAssociative
      <4> QED BY <3>1, <4>1, <4>2, Zenon
    <3> QED BY <2>3, <2>5, <2>6, <3>2
  <2>8. Len(e.buffer) # Len(b.buffer) =>
          Len(e.buffer) < KCheapPrepend + 2 * (ReadableBytes(b) + Len(s))
    <3> DEFINE r == ReadableBytes(b)  l == Len(e.buffer)  t == Len(rest)
    <3>1. r \in Nat /\ l \in Nat /\ t \in Nat /\ KCheapPrepend \in Nat
      <4>1. r \in Nat
        BY ContentsProperties
      <4>2. e.buffer \in Seq(Byte)
        BY <2>6 DEF WellFormed, Representation
      <4> QED BY <4>1, <4>2, <2>2, ConstantsAssumption
    <3>2. l # Len(b.buffer) => l < KCheapPrepend + (r + room) + 2 * t
      BY <2>2, <2>5, <2>6
    <3>3. Len(s) = room + t
      BY <1>0, <2>2, <3>1
    <3> HIDE DEF r, l, t
    <3>4. KCheapPrepend + (r + room) + 2 * t <= KCheapPrepend + 2 * (r + Len(s))
      BY <1>0, <3>1, <3>3
    <3>5. l # Len(b.buffer) => l < KCheapPrepend + 2 * (r + Len(s))
      BY <1>0, <3>1, <3>2, <3>4
    <3> QED BY <3>5 DEF r, l
  <2> QED BY <2>1, <2>6, <2>7, <2>8
<1> QED BY <1>1, <1>2
-----------------------------------------------------------------------------
(* The specification.                                                      *)

Inv == TypeOK /\ BoundedCapacity

\* What the abstract queue sees.
Abs == [x \in Names |-> Contents(buf[x])]

\* What the invariant says of each buffer.
LEMMA InvProperties ==
    ASSUME Inv
    PROVE  /\ DOMAIN buf = Names
           /\ \A x \in Names : WellFormed(buf[x]) /\ Small(buf[x])
BY DEF Inv, TypeOK, BoundedCapacity, WellFormed, Small, Representation

\* The invariant from what is known of each buffer.
LEMMA InvFromProperties ==
    ASSUME buf \in [Names -> Representation],
           \A x \in Names : WellFormed(buf[x]) /\ Small(buf[x])
    PROVE  Inv
BY DEF Inv, TypeOK, BoundedCapacity, WellFormed, Small, Representation

\* A call that changes one buffer.
LEMMA SetProperties ==
    ASSUME Inv, NEW x \in Names, NEW b, WellFormed(b), Small(b), Set(x, b)
    PROVE  Inv' /\ Abs' = [Abs EXCEPT ![x] = Contents(b)]
<1>1. buf \in [Names -> Representation] /\ b \in Representation
  BY DEF Inv, TypeOK, Representation, WellFormed
<1>2. buf' \in [Names -> Representation] /\ buf' = [buf EXCEPT ![x] = b]
  BY <1>1 DEF Set
<1>3. \A y \in Names : buf'[y] = IF y = x THEN b ELSE buf[y]
  BY <1>1, <1>2
<1>4. \A y \in Names : WellFormed(buf'[y]) /\ Small(buf'[y])
  BY <1>3, InvProperties
<1>5. Inv'
  BY <1>2, <1>4 DEF Inv, TypeOK, BoundedCapacity, WellFormed, Small, Representation
<1>6. Abs' = [Abs EXCEPT ![x] = Contents(b)]
  BY <1>3 DEF Abs
<1> QED BY <1>5, <1>6

\* A call that changes two.
LEMMA SetBothProperties ==
    ASSUME Inv, NEW x \in Names, NEW y \in Names,
           NEW b, WellFormed(b), Small(b), NEW c, WellFormed(c), Small(c),
           SetBoth(x, b, y, c)
    PROVE  /\ Inv'
           /\ Abs' = [z \in Names |-> IF z = x THEN Contents(b)
                                      ELSE IF z = y THEN Contents(c) ELSE Abs[z]]
<1>1. buf \in [Names -> Representation] /\ b \in Representation /\ c \in Representation
  BY DEF Inv, TypeOK, Representation, WellFormed
<1>2. buf' \in [Names -> Representation]
  BY <1>1 DEF SetBoth
<1>3. \A z \in Names : buf'[z] = IF z = x THEN b ELSE IF z = y THEN c ELSE buf[z]
  BY DEF SetBoth
<1>4. \A z \in Names : WellFormed(buf'[z]) /\ Small(buf'[z])
  BY <1>3, InvProperties
<1>5. Inv'
  BY <1>2, <1>4 DEF Inv, TypeOK, BoundedCapacity, WellFormed, Small, Representation
<1>6. \A z \in Names : Contents(buf'[z]) =
        IF z = x THEN Contents(b) ELSE IF z = y THEN Contents(c) ELSE Contents(buf[z])
  BY <1>3
<1>7. Abs' = [z \in Names |-> Contents(buf'[z])]
  BY DEF Abs
<1>8. \A z \in Names : Abs[z] = Contents(buf[z])
  BY DEF Abs
<1> QED BY <1>5, <1>6, <1>7, <1>8

\* Within the bound on readable bytes a vector that grows stays small.
LEMMA StaysSmall ==
    ASSUME NEW b, WellFormed(b), Small(b), NEW c, WellFormed(c), NEW len \in Nat,
           ReadableBytes(b) + len <= MaxReadable,
           \/ Len(c.buffer) = Len(b.buffer)
           \/ Len(c.buffer) < KCheapPrepend + 2 * (ReadableBytes(b) + len)
    PROVE  Small(c)
<1>1. ReadableBytes(b) \in Nat /\ KCheapPrepend \in Nat /\ MaxReadable \in Nat
  BY ContentsProperties, ConstantsAssumption
<1>2. c.buffer \in Seq(Byte)
  BY DEF WellFormed, Representation
<1>3. Len(c.buffer) \in Nat
  BY <1>2
<1> QED BY <1>1, <1>3 DEF Small

\* A call that adds the string s at the end of x.
LEMMA WriteStep ==
    ASSUME Inv, NEW x \in Names, NEW s \in Strings, Fits(x, Len(s)),
           NEW c, WellFormed(c), Contents(c) = Contents(buf[x]) \o s,
           \/ Len(c.buffer) = Len(buf[x].buffer)
           \/ Len(c.buffer) < KCheapPrepend + 2 * (ReadableBytes(buf[x]) + Len(s)),
           Set(x, c), result' = <<"write", <<>>>>
    PROVE  Inv' /\ BQ!Next
<1>1. s \in Seq(Byte) /\ Len(s) \in Nat /\ ReadableBytes(buf[x]) + Len(s) <= MaxReadable
  BY ConstantsAssumption DEF Fits
<1>2. WellFormed(buf[x]) /\ Small(buf[x]) /\ Abs[x] = Contents(buf[x])
  BY InvProperties DEF Abs
<1>3. Small(c)
  BY <1>1, <1>2, StaysSmall
<1>4. Inv' /\ Abs' = [Abs EXCEPT ![x] = Abs[x] \o s]
  BY <1>2, <1>3, SetProperties
<1> QED BY <1>4 DEF BQ!Next, BQ!Write, BQ!Returns, Abs

\* A call that takes the first n bytes of x.
LEMMA TakeStep ==
    ASSUME Inv, NEW x \in Names, NEW n \in 0..ReadableBytes(buf[x]),
           Set(x, Retrieved(buf[x], n))
    PROVE  /\ Inv'
           /\ Abs' = [Abs EXCEPT ![x] = SubSeq(Abs[x], n + 1, Len(Abs[x]))]
<1>1. WellFormed(buf[x]) /\ Small(buf[x]) /\ Abs[x] = Contents(buf[x])
  BY InvProperties DEF Abs
<1>2. /\ WellFormed(Retrieved(buf[x], n))
      /\ Len(Retrieved(buf[x], n).buffer) = Len(buf[x].buffer)
      /\ Contents(Retrieved(buf[x], n)) = SubSeq(Abs[x], n + 1, Len(Abs[x]))
  BY <1>1, RetrievedProperties
<1>3. Small(Retrieved(buf[x], n))
  BY <1>1, <1>2 DEF Small
<1> QED BY <1>2, <1>3, SetProperties

\* A call preserves the invariant and is a call of the abstract queue, or
\* changes nothing that the queue sees.
LEMMA Step ==
    ASSUME Inv, Next
    PROVE  Inv' /\ (BQ!Next \/ UNCHANGED <<Abs, result>>)
<1> DEFINE Goal == Inv' /\ (BQ!Next \/ UNCHANGED <<Abs, result>>)
<1> SUFFICES ASSUME NEW x \in Names,
                    \/ \E s \in Strings :
                          \/ Append_(x, s) \/ ReadFd(x, s) \/ HasWritten(x, s)
                          \/ Reserve(x, Len(s)) \/ Prepend(x, s)
                    \/ \E n \in 0..ReadableBytes(buf[x]) : RetrieveAsString(x, n) \/ GetLine(x, n)
                    \/ \E y \in Names : Assign(x, y) \/ Swap(x, y) \/ MoveAssign(x, y)
             PROVE  Goal
  BY DEF Next
<1> DEFINE b == buf[x]
<1>0. /\ WellFormed(b) /\ Small(b) /\ Abs[x] = Contents(b)
      /\ ReadableBytes(b) \in Nat /\ Contents(b) \in Seq(Byte)
      /\ Len(Contents(b)) = ReadableBytes(b)
      /\ b.buffer \in Seq(Byte) /\ Len(b.buffer) \in Nat
      /\ DOMAIN buf = Names /\ DOMAIN Abs = Names
  BY InvProperties, ContentsProperties DEF Abs, WellFormed, Representation
<1>00. \A s \in Strings : s \in Seq(Byte) /\ Len(s) \in Nat
  BY ConstantsAssumption
<1>1. ASSUME NEW s \in Strings, Append_(x, s) PROVE Goal
  <2> DEFINE c == Appended(b, s)
  <2>1. /\ WellFormed(c) /\ Contents(c) = Contents(b) \o s
        /\ Len(c.buffer) # Len(b.buffer) =>
             Len(c.buffer) < KCheapPrepend + ReadableBytes(b) + 2 * Len(s)
    BY <1>0, <1>00, AppendedProperties
  <2>2. Fits(x, Len(s)) /\ Set(x, c) /\ result' = <<"write", <<>>>>
    BY <1>1 DEF Append_, Returns
  <2> HIDE DEF c
  <2>3. Len(c.buffer) \in Nat /\ KCheapPrepend \in Nat
    BY <2>1, ConstantsAssumption DEF WellFormed, Representation
  <2>4. \/ Len(c.buffer) = Len(b.buffer)
        \/ Len(c.buffer) < KCheapPrepend + 2 * (ReadableBytes(b) + Len(s))
    <3> HIDE DEF b
    <3> QED BY <1>0, <1>00, <2>1, <2>3
  <2> QED BY <2>1, <2>2, <2>4, WriteStep
<1>2. ASSUME NEW s \in Strings, ReadFd(x, s) PROVE Goal
  <2> DEFINE c == Received(b, s)
  <2>1. /\ WellFormed(c) /\ Contents(c) = Contents(b) \o s
        /\ Len(c.buffer) # Len(b.buffer) =>
             Len(c.buffer) < KCheapPrepend + 2 * (ReadableBytes(b) + Len(s))
    BY <1>0, <1>00, ReceivedProperties
  <2>2. Fits(x, Len(s)) /\ Set(x, c) /\ result' = <<"write", <<>>>>
    BY <1>2 DEF ReadFd, Returns
  <2> HIDE DEF c
  <2> QED BY <2>1, <2>2, WriteStep
<1>3. ASSUME NEW s \in Strings, HasWritten(x, s) PROVE Goal
  <2> DEFINE c == Written(b, s)
  <2>1. WellFormed(c) /\ Contents(c) = Contents(b) \o s /\ Len(c.buffer) = Len(b.buffer)
    BY <1>0, <1>00, <1>3, WrittenProperties DEF HasWritten
  <2>2. Fits(x, Len(s)) /\ Set(x, c) /\ result' = <<"write", <<>>>>
    BY <1>3 DEF HasWritten, Returns
  <2> HIDE DEF c
  <2> QED BY <2>1, <2>2, WriteStep
<1>4. ASSUME NEW s \in Strings, Reserve(x, Len(s)) PROVE Goal
  <2> DEFINE c == EnsureWritableBytes(b, Len(s))
  <2>1. /\ WellFormed(c) /\ Contents(c) = Contents(b)
        /\ Len(c.buffer) # Len(b.buffer) =>
             Len(c.buffer) < KCheapPrepend + ReadableBytes(b) + 2 * Len(s)
    BY <1>0, <1>00, EnsureProperties
  <2>2. Fits(x, Len(s)) /\ Set(x, c) /\ result' = result
    BY <1>4 DEF Reserve
  <2> HIDE DEF c
  <2>3. Len(c.buffer) \in Nat /\ KCheapPrepend \in Nat
    BY <2>1, ConstantsAssumption DEF WellFormed, Representation
  <2>4. \/ Len(c.buffer) = Len(b.buffer)
        \/ Len(c.buffer) < KCheapPrepend + 2 * (ReadableBytes(b) + Len(s))
    <3> HIDE DEF b
    <3> QED BY <1>0, <1>00, <2>1, <2>3
  <2>5. ReadableBytes(b) + Len(s) <= MaxReadable
    BY <2>2 DEF Fits
  <2>6. Small(c)
    BY <1>0, <1>00, <2>1, <2>4, <2>5, StaysSmall
  <2>7. Inv' /\ Abs' = [Abs EXCEPT ![x] = Contents(b)]
    BY <2>1, <2>2, <2>6, SetProperties
  <2>8. Abs' = Abs
    BY <1>0, <2>7 DEF Abs
  <2> QED BY <2>2, <2>7, <2>8
<1>5. ASSUME NEW s \in Strings, Prepend(x, s) PROVE Goal
  <2> DEFINE c == Prepended(b, s)
  <2>1. WellFormed(c) /\ Contents(c) = s \o Contents(b) /\ Len(c.buffer) = Len(b.buffer)
    BY <1>0, <1>00, <1>5, PrependedProperties DEF Prepend
  <2>2. Set(x, c) /\ result' = <<"prepend", <<>>>>
    BY <1>5 DEF Prepend, Returns
  <2> HIDE DEF c
  <2>3. Small(c)
    BY <1>0, <2>1 DEF Small
  <2>4. Inv' /\ Abs' = [Abs EXCEPT ![x] = s \o Abs[x]]
    BY <1>0, <2>1, <2>2, <2>3, SetProperties
  <2> QED BY <2>2, <2>4 DEF BQ!Next, BQ!Prepend, BQ!Returns, Abs
<1>6. ASSUME NEW n \in 0..ReadableBytes(b), RetrieveAsString(x, n) PROVE Goal
  <2>1. Inv' /\ Abs' = [Abs EXCEPT ![x] = SubSeq(Abs[x], n + 1, Len(Abs[x]))]
    BY <1>6, TakeStep DEF RetrieveAsString
  <2>2. result' = <<"retrieve", SubSeq(Abs[x], 1, n)>> /\ n \in 0..Len(Abs[x])
    BY <1>0, <1>6 DEF RetrieveAsString, Returns
  <2>3. BQ!Read(x)
    BY <2>1, <2>2 DEF BQ!Read, BQ!Take, BQ!Returns, Abs
  <2> QED BY <2>1, <2>3 DEF BQ!Next
<1>7. ASSUME NEW n \in 0..ReadableBytes(b), GetLine(x, n) PROVE Goal
  <2>1. Inv' /\ Abs' = [Abs EXCEPT ![x] = SubSeq(Abs[x], n + 1, Len(Abs[x]))]
    <3>1. CASE n = 0
      <4>1. Set(x, b)
        BY <1>7, <3>1 DEF GetLine
      <4>2. Inv' /\ Abs' = [Abs EXCEPT ![x] = Contents(b)]
        BY <1>0, <4>1, SetProperties
      <4>3. SubSeq(Contents(b), 0 + 1, Len(Contents(b))) = Contents(b)
        BY <1>0, SubSeqFull
      <4> QED BY <1>0, <3>1, <4>2, <4>3
    <3>2. CASE n # 0
      BY <1>7, <3>2, TakeStep DEF GetLine
    <3> QED BY <3>1, <3>2
  <2>2. /\ result' = <<"getLine", SubSeq(Abs[x], 1, n)>> /\ n \in 0..Len(Abs[x])
        /\ \A i \in 1..Len(Abs[x]) : Abs[x][i] = Newline => n \in 1..i
        /\ n > 0 => Abs[x][n] = Newline
    BY <1>0, <1>7 DEF GetLine, FirstLine, Returns
  <2>3. BQ!ReadLine(x)
    BY <2>1, <2>2 DEF BQ!ReadLine, BQ!Take, BQ!Returns, Abs
  <2> QED BY <2>1, <2>3 DEF BQ!Next
<1>8. ASSUME NEW y \in Names, Assign(x, y) PROVE Goal
  <2>1. WellFormed(buf[y]) /\ Small(buf[y]) /\ Abs[y] = Contents(buf[y])
    BY InvProperties DEF Abs
  <2>2. Inv' /\ Abs' = [Abs EXCEPT ![x] = Abs[y]]
    BY <1>8, <2>1, SetProperties DEF Assign
  <2> QED BY <1>8, <2>2 DEF Assign, Returns, BQ!Next, BQ!Copy, BQ!Returns, Abs
<1>9. ASSUME NEW y \in Names, Swap(x, y) PROVE Goal
  <2>1. WellFormed(buf[y]) /\ Small(buf[y]) /\ Abs[y] = Contents(buf[y])
    BY InvProperties DEF Abs
  <2>2. /\ Inv'
        /\ Abs' = [z \in Names |-> IF z = x THEN Abs[y] ELSE IF z = y THEN Abs[x] ELSE Abs[z]]
    BY <1>0, <1>9, <2>1, SetBothProperties DEF Swap
  <2>3. BQ!Swap(x, y)
    BY <1>9, <2>2 DEF Swap, Returns, BQ!Swap, BQ!Returns, Abs
  <2> QED BY <2>2, <2>3 DEF BQ!Next
<1>10. ASSUME NEW y \in Names, MoveAssign(x, y) PROVE Goal
  <2>1. WellFormed(buf[y]) /\ Small(buf[y]) /\ Abs[y] = Contents(buf[y])
    BY InvProperties DEF Abs
  <2>2. /\ Inv'
        /\ Abs' = [z \in Names |-> IF z = x THEN Abs[y] ELSE IF z = y THEN <<>> ELSE Abs[z]]
    BY <1>10, <2>1, EmptyProperties, SetBothProperties DEF MoveAssign
  <2>3. BQ!Move(x, y)
    BY <1>10, <2>2 DEF MoveAssign, Returns, BQ!Move, BQ!Returns, Abs
  <2> QED BY <2>2, <2>3 DEF BQ!Next
<1> QED BY <1>1, <1>2, <1>3, <1>4, <1>5, <1>6, <1>7, <1>8, <1>9, <1>10

\* The constructor establishes the invariant and the abstract initial state.
LEMMA Start ==
    ASSUME Init
    PROVE  Inv /\ BQ!Init
<1>1. buf \in [Names -> Representation]
  BY EmptyProperties DEF Init, WellFormed
<1>2. \A x \in Names : buf[x] = Empty
  BY DEF Init
<1>3. Inv
  BY <1>1, <1>2, EmptyProperties, InvFromProperties
<1>4. Abs = [x \in Names |-> <<>>]
  BY <1>2, EmptyProperties DEF Abs
<1> QED BY <1>3, <1>4 DEF Init, BQ!Init, Abs

\* A step that leaves the buffers alone.
LEMMA Stutter ==
    ASSUME Inv, UNCHANGED vars
    PROVE  Inv' /\ UNCHANGED <<Abs, result>>
BY DEF vars, Inv, TypeOK, BoundedCapacity, Abs, Contents, ReadableBytes

\* The positions stay in order and the capacity within its bound.
THEOREM Invariance == Spec => []Inv
<1>1. Init => Inv
  BY Start
<1>2. Inv /\ [Next]_vars => Inv'
  BY Step, Stutter
<1> QED BY <1>1, <1>2, PTL DEF Spec

\* readerIndex_ <= writerIndex_ <= buffer_.size() after every call.
THEOREM TypeCorrect == Spec => []TypeOK
<1>1. Inv => TypeOK
  BY DEF Inv
<1> QED BY <1>1, Invariance, PTL

\* The vector does not creep: its size depends on the bytes it has to hold at
\* a time, never on how many passed through it.
THEOREM CapacityIsBounded == Spec => []BoundedCapacity
<1>1. Inv => BoundedCapacity
  BY DEF Inv
<1> QED BY <1>1, Invariance, PTL

\* The assertions of append, ensureWritableBytes, makeSpace and hasWritten
\* cannot fail, for every initial size, prepend area and string.
THEOREM AssertsNeverFail == Spec => []AssertsHold
<1>1. Inv => AssertsHold
  BY InvProperties, EnsureProperties, ConstantsAssumption DEF AssertsHold
<1> QED BY <1>1, Invariance, PTL

\* Every Buffer is a queue of bytes: the refinement for all constants.
THEOREM BufferImplementsByteQueue == Spec => ImplementsByteQueue
<1>1. Init => BQ!Init
  BY Start
<1>2. Inv /\ [Next]_vars => [BQ!Next]_<<Abs, result>>
  BY Step, Stutter
<1>3. Inv /\ [Next]_vars => [BQ!Next]_<<[x \in Names |-> Contents(buf[x])], result>>
  BY <1>2 DEF Abs
<1> QED BY <1>1, <1>3, Invariance, PTL DEF Spec, ImplementsByteQueue, BQ!Spec
=============================================================================
