--------------------------- MODULE MemView_proofs ---------------------------
(***************************************************************************)
(* Theorems about MemView, for every SIZE_MAX, buffer limit, set of views  *)
(* and set of values.                                                      *)
(***************************************************************************)
EXTENDS MemView, SequenceTheorems, TLAPS

----------------------------------------------------------------------------
\* The comparison that MemGetByte and BufferGetBytes make (a <= a + b in
\* size_t) holds only if the sum did not wrap around.
LEMMA NoWrap ==
  ASSUME NEW a \in Size, NEW b \in Size, a <= Wrapped(a + b)
  PROVE  Wrapped(a + b) = a + b
<1>1. SizeMod \in Nat /\ SizeMod > 4
  BY MemViewAssumption
<1>2. a \in Nat /\ b \in Nat /\ a < SizeMod /\ b < SizeMod
  BY <1>1 DEF Size
<1>3. CASE a + b < SizeMod
  BY <1>1, <1>2, <1>3 DEF Wrapped
<1>4. CASE a + b >= SizeMod
  <2>1. (a + b) % SizeMod = a + b - SizeMod
    BY <1>1, <1>2, <1>4
  <2> QED  BY <1>1, <1>2, <2>1 DEF Wrapped
<1> QED  BY <1>1, <1>2, <1>3, <1>4
\* BufferGetBytes succeeds only for a slice of the buffer.
LEMMA GetBytesInside ==
  ASSUME TypeOK, NEW offset \in Size, NEW len \in Size, BufferGetBytes(offset, len)
  PROVE  offset + len <= Len(bytes) /\ len > 0 /\ offset <= Len(bytes) - 1
<1>1. offset \in Nat /\ len \in Nat /\ Len(bytes) \in Nat
  BY MemViewAssumption DEF TypeOK, Size
<1>2. Wrapped(offset + len) = offset + len
  BY NoWrap DEF BufferGetBytes
<1> QED  BY <1>1, <1>2 DEF BufferGetBytes

\* A load or store that succeeds reaches base + offset, without wrapping, and
\* all of its bytes are in the buffer (MemGetByte, MemGetHalf, MemGetWord).
LEMMA ReachesInside ==
  ASSUME TypeOK, NEW v \in Views, NEW offset \in Size, NEW n \in {1, 2, 4},
         Reaches(v, offset, n)
  PROVE  views[v].base + offset + n <= Len(bytes)
<1> DEFINE base == views[v].base
<1>1. base \in Size /\ base \in Nat /\ offset \in Nat
  BY MemViewAssumption DEF TypeOK, Size
<1>2. Wrapped(base + offset) = base + offset
  BY <1>1, NoWrap DEF Reaches
<1>3. base + offset \in Size
  <2>1. SizeMod \in Nat /\ SizeMod > 4 /\ base + offset \in Nat
    BY <1>1, MemViewAssumption
  <2>2. (base + offset) % SizeMod < SizeMod
    BY <2>1
  <2> HIDE DEF base
  <2> QED  BY <1>2, <2>1, <2>2 DEF Wrapped, Size
<1>4. n \in Size
  BY MemViewAssumption DEF Size
<1>5. BufferGetBytes(base + offset, n)
  BY <1>2 DEF Reaches
<1>6. base + offset + n <= Len(bytes)
  BY <1>3, <1>4, <1>5, GetBytesInside
<1> QED  BY <1>6

----------------------------------------------------------------------------
\* The buffer after it has grown, and the pointer into it.
LEMMA GrownType ==
  ASSUME TypeOK, NEW n \in Nat, NEW more \in Seq(0 .. 255), Len(more) = n,
         Grown(n, more)
  PROVE  TypeOK'
<1>1. bytes' \in Seq(0 .. 255) /\ Len(bytes') = Len(bytes) + n /\ Len(bytes) \in Nat
  <2>1. bytes \in Seq(0 .. 255) /\ Len(bytes) \in Nat
    BY DEF TypeOK
  <2>2. bytes \o more \in Seq(0 .. 255) /\ Len(bytes \o more) = Len(bytes) + Len(more)
    BY <2>1, ConcatProperties, Zenon
  <2>3. bytes' = bytes \o more
    BY DEF Grown
  <2> QED  BY <2>1, <2>2, <2>3
<1>2. Len(bytes') <= MaxLen
  BY <1>1 DEF Grown
<1>3. held' \in {NoPointer} \cup 0 .. Len(bytes') - 1
  BY <1>1 DEF TypeOK, Grown
<1>4. views' = views
  BY DEF Grown
<1> QED  BY <1>1, <1>2, <1>3, <1>4 DEF TypeOK

\* A function from 1 .. len to bytes is a sequence of len bytes.
LEMMA FillType ==
  ASSUME NEW len \in Nat, NEW more \in [1 .. len -> 0 .. 255]
  PROVE  more \in Seq(0 .. 255) /\ Len(more) = len
<1>1. \E k \in Nat : more \in [1 .. k -> 0 .. 255]
  OBVIOUS
<1> QED  BY <1>1, LenProperties, SeqDef

\* Conversely, a sequence of bytes is such a function.
LEMMA BytesFill ==
  ASSUME NEW s \in Seq(0 .. 255)
  PROVE  s \in [1 .. Len(s) -> 0 .. 255] /\ Len(s) \in Nat
BY LenProperties

Octet == 0 .. 255

\* A slice of a sequence of bytes that ends inside of it.
LEMMA SliceOf ==
  ASSUME NEW s \in Seq(Octet), NEW at \in Nat, NEW len \in Nat,
         at + len <= Len(s), NEW x, x = SubSeq(s, at + 1, at + len)
  PROVE  x \in Seq(Octet) /\ Len(x) = len
<1> DEFINE first == at + 1
           last  == at + len
<1>1. first \in Int /\ last \in Int
  OBVIOUS
<1>2. \A i \in first .. last : s[i] \in Octet
  <2> SUFFICES ASSUME NEW i \in first .. last PROVE s[i] \in Octet
    OBVIOUS
  <2>1. i \in 1 .. Len(s)
    OBVIOUS
  <2> QED  BY <2>1, ElementOfSeq
<1>3. last - first + 1 = len /\ (first <= last \/ len = 0)
  OBVIOUS
<1> HIDE DEF first, last
<1>4. /\ SubSeq(s, first, last) \in Seq(Octet)
      /\ Len(SubSeq(s, first, last)) = IF first <= last THEN last - first + 1 ELSE 0
  BY <1>1, <1>2, SubSeqProperties
<1>5. Len(SubSeq(s, first, last)) = len
  BY <1>1, <1>3, <1>4
<1>6. x = SubSeq(s, first, last)
  BY DEF first, last
<1> QED  BY <1>4, <1>5, <1>6

\* One byte from outside of the buffer is appended (BufferAppend).
LEMMA AppendType == ASSUME TypeOK, NEW b \in Byte, BufferAppend(<<b>>) PROVE TypeOK'
<1>1. <<b>> \in Seq(0 .. 255) /\ Len(<<b>>) = 1
  BY MemViewAssumption
<1> QED  BY <1>1, GrownType DEF BufferAppend

\* A slice of the buffer, or what was left in its old place, is a sequence of
\* len bytes.
LEMMA AppendSliceType ==
  ASSUME TypeOK, NEW len \in 1 .. MaxLen, BufferAppendSlice(len) PROVE TypeOK'
<1>1. PICK moved \in BOOLEAN : \E more \in Copied(held, len, moved) : Grown(len, more)
  BY DEF BufferAppendSlice
<1>2. PICK more \in Copied(held, len, moved) : Grown(len, more)
  BY <1>1
<1>3. held \in Nat /\ len \in Nat /\ len > 0 /\ held + len <= Len(bytes)
      /\ Len(bytes) \in Nat
  BY MemViewAssumption DEF BufferAppendSlice, AppendRefused, TypeOK, NoPointer
<1>4. more \in Seq(0 .. 255) /\ Len(more) = len
  <2>1. CASE more \in [1 .. len -> Byte]
    <3>1. more \in [1 .. len -> 0 .. 255]
      BY <2>1, MemViewAssumption
    <3> QED  BY <3>1, <1>3, FillType
  <2>2. CASE more = SubSeq(bytes, held + 1, held + len)
    <3>1. bytes \in Seq(Octet)
      BY DEF TypeOK, Octet
    <3>2. more \in Seq(Octet) /\ Len(more) = len
      BY <2>2, <3>1, <1>3, SliceOf
    <3> QED  BY <3>2 DEF Octet
  <2> QED  BY <1>2, <2>1, <2>2 DEF Copied
<1> QED  BY <1>2, <1>3, <1>4, GrownType

\* Filler bytes are appended (BufferSkip).
LEMMA SkipType ==
  ASSUME TypeOK, NEW b \in Byte, NEW len \in 1 .. MaxLen, BufferSkip(b, len)
  PROVE  TypeOK'
<1>1. len \in Nat /\ [i \in 1 .. len |-> b] \in [1 .. len -> 0 .. 255]
  BY MemViewAssumption
<1> QED  BY <1>1, FillType, GrownType DEF BufferSkip

\* An empty buffer has no valid pointers into it (BufferClear).
LEMMA ClearType == ASSUME TypeOK, BufferClear PROVE TypeOK'
<1>1. <<>> \in Seq(0 .. 255) /\ Len(<<>>) = 0
  OBVIOUS
<1> QED  BY <1>1, MemViewAssumption DEF TypeOK, BufferClear

\* A pointer that BufferGetBytes returns is into the buffer.
LEMMA TakeBytesType ==
  ASSUME TypeOK, NEW offset \in Size, NEW len \in Size, TakeBytes(offset, len)
  PROVE  TypeOK'
<1>1. offset \in 0 .. Len(bytes) - 1
  BY GetBytesInside, MemViewAssumption DEF TakeBytes, Size, TypeOK
<1> QED  BY <1>1 DEF TypeOK, TakeBytes

----------------------------------------------------------------------------
View == [base : Size, length : Size, readonly : BOOLEAN, big : BOOLEAN]

\* A new view has the fields it was made with (MemInit).
LEMMA InitViewType ==
  ASSUME TypeOK, NEW v \in Views, NEW base \in Bases, NEW length \in Lengths,
         NEW readonly \in BOOLEAN, NEW big \in BOOLEAN,
         MemInit(v, base, length, readonly, big)
  PROVE  TypeOK'
<1>1. [base |-> base, length |-> length, readonly |-> readonly, big |-> big] \in View
  BY MemViewAssumption DEF View
<1>2. views' \in [Views -> View]
  BY <1>1 DEF TypeOK, MemInit, View
<1> QED  BY <1>2 DEF TypeOK, MemInit, View

\* Only the byte order of the view changes (MemSetBigEndian).
LEMMA SetBigEndianType ==
  ASSUME TypeOK, NEW v \in Views, NEW enable \in BOOLEAN, MemSetBigEndian(v, enable)
  PROVE  TypeOK'
<1>1. views' \in [Views -> View]
  BY DEF TypeOK, MemSetBigEndian, View
<1> QED  BY <1>1 DEF TypeOK, MemSetBigEndian, View

\* Each of the four bytes of a value is a byte (MemSetWord).
LEMMA ByteOfType ==
  ASSUME NEW value \in Nat, NEW k \in 0 .. 3 PROVE ByteOf(value, k) \in 0 .. 255
<1>1. Weight[k + 1] \in Nat /\ Weight[k + 1] > 0
  BY DEF Weight
<1>2. value \div Weight[k + 1] \in Int
  BY <1>1
<1> QED  BY <1>2 DEF ByteOf

\* A store replaces bytes by bytes and does not change how many there are.
LEMMA MemSetType ==
  ASSUME TypeOK, NEW v \in Views, NEW offset \in Size, NEW n \in {1, 2, 4},
         NEW value \in Values, MemSet(v, offset, n, value)
  PROVE  TypeOK'
<1> DEFINE at == views[v].base + offset
           stored == InOrder(v, value, n)
<1>1. at \in Nat /\ value \in Nat
  BY MemViewAssumption DEF TypeOK, Size
<1>2. \A i \in 1 .. n : stored[i] \in 0 .. 255
  <2> SUFFICES ASSUME NEW i \in 1 .. n PROVE stored[i] \in 0 .. 255
    OBVIOUS
  <2>1. n - i \in 0 .. 3 /\ i - 1 \in 0 .. 3
    OBVIOUS
  <2>2. stored[i] = ByteOf(value, IF views[v].big THEN n - i ELSE i - 1)
    BY DEF InOrder
  <2> QED  BY <2>1, <2>2, <1>1, ByteOfType
<1>3. bytes' = [i \in DOMAIN bytes |->
                  IF i - at \in 1 .. n THEN stored[i - at] ELSE bytes[i]]
  BY DEF MemSet
<1>4. bytes \in [1 .. Len(bytes) -> 0 .. 255] /\ Len(bytes) \in Nat
  <2> HIDE DEF at, stored
  <2>1. bytes \in Seq(0 .. 255)  BY DEF TypeOK
  <2> QED  BY <2>1, BytesFill
<1>5. bytes' \in [1 .. Len(bytes) -> 0 .. 255]
  <2> HIDE DEF at, stored
  <2> QED  BY <1>1, <1>2, <1>3, <1>4
<1>6. bytes' \in Seq(0 .. 255) /\ Len(bytes') = Len(bytes)
  BY <1>4, <1>5, FillType
<1>7. views' = views /\ held' = held
  BY DEF MemSet
<1> QED  BY <1>6, <1>7 DEF TypeOK

\* The base plus the offset, wrapped, is an offset into the buffer (MemGetBytes).
LEMMA TakeViewBytesType ==
  ASSUME TypeOK, NEW v \in Views, NEW offset \in Size, NEW len \in Size,
         TakeViewBytes(v, offset, len)
  PROVE  TypeOK'
<1>1. views[v].base \in Nat /\ offset \in Nat /\ SizeMod \in Nat /\ SizeMod > 4
  BY MemViewAssumption DEF TypeOK, Size
<1>2. Wrapped(views[v].base + offset) \in Size
  <2> DEFINE s == views[v].base + offset
  <2>1. s \in Nat
    BY <1>1
  <2> HIDE DEF s
  <2>2. s % SizeMod \in 0 .. SizeMod - 1
    BY <1>1, <2>1
  <2> QED  BY <2>2 DEF Wrapped, Size, s
<1> QED  BY <1>2, TakeBytesType DEF TakeViewBytes

----------------------------------------------------------------------------
\* The two facts that TypeCorrect rests on.
LEMMA TypeInit == ASSUME Init PROVE TypeOK
<1>1. bytes \in Seq(0 .. 255) /\ Len(bytes) <= MaxLen
  BY MemViewAssumption DEF Init
<1>2. NoView \in View
  BY MemViewAssumption DEF NoView, View, Size
<1> QED  BY <1>1, <1>2 DEF Init, TypeOK, View

\* One case per operation of the buffer and of the views.
LEMMA TypeStep == ASSUME TypeOK, [Next]_mvars PROVE TypeOK'
<1>1. CASE BufferNext
  BY <1>1, AppendType, AppendSliceType, SkipType, ClearType, TakeBytesType
  DEF BufferNext
<1>2. CASE ViewNext
  BY <1>2, InitViewType, SetBigEndianType, MemSetType, TakeViewBytesType
  DEF ViewNext, Used
<1>3. CASE UNCHANGED mvars
  BY <1>3 DEF mvars, TypeOK
<1> QED  BY <1>1, <1>2, <1>3 DEF Next

\* Whatever is appended, cleared, stored and viewed: the buffer keeps its limit,
\* and a pointer into it that may still be used points into it.
THEOREM TypeCorrect == Spec => []TypeOK
<1>1. Init => TypeOK  BY TypeInit
<1>2. TypeOK /\ [Next]_mvars => TypeOK'  BY TypeStep
<1> QED  BY <1>1, <1>2, PTL DEF Spec

\* No access through a view ever leaves the buffer, for any SIZE_MAX: neither
\* with a base that outlived a BufferClear, nor with an offset that makes the
\* sum of size_t wrap around.
THEOREM AccessesAreInside == Spec => []AccessesInside
<1>1. TypeOK => AccessesInside
  BY ReachesInside DEF AccessesInside, Used
<1> QED  BY <1>1, TypeCorrect, PTL

----------------------------------------------------------------------------
(***************************************************************************)
(* What is stored is read.                                                 *)
(***************************************************************************)

\* The bytes that MemSetByte, MemSetHalf and MemSetWord take from a value are
\* the digits of its low part.
LEMMA Digits ==
  ASSUME NEW value \in Nat, value \div (256 * 256 * 256) < 256
  PROVE  /\ ByteOf(value, 0) = value % 256
         /\ ByteOf(value, 1) * 256 + ByteOf(value, 0) = value % 65536
         /\ ((ByteOf(value, 3) * 256 + ByteOf(value, 2)) * 256 + ByteOf(value, 1)) * 256
              + ByteOf(value, 0) = value
<1>1. /\ ByteOf(value, 0) = (value \div 1) % 256
      /\ ByteOf(value, 1) = (value \div 256) % 256
      /\ ByteOf(value, 2) = (value \div 65536) % 256
      /\ ByteOf(value, 3) = (value \div 16777216) % 256
  <2>1. Weight[1] = 1 /\ Weight[2] = 256 /\ Weight[3] = 65536 /\ Weight[4] = 16777216
    BY DEF Weight
  <2> QED  BY <2>1 DEF ByteOf
<1> DEFINE q1 == value \div 256
           q2 == value \div 65536
           q3 == value \div 16777216
<1>2. q1 \in Nat /\ q2 \in Nat /\ q3 \in Nat /\ q3 < 256
  BY SMT
<1>3. value = q1 * 256 + (value % 256)
  OBVIOUS
<1>4. q1 = q2 * 256 + (q1 % 256)
  BY SMT
<1>5. q2 = q3 * 256 + (q2 % 256)
  BY SMT
<1>6. q3 % 256 = q3 /\ value \div 1 = value
  OBVIOUS
<1>7. value % 65536 = value - q2 * 65536
  BY SMT
<1>8. value % 256 \in Nat /\ q1 % 256 \in Nat /\ q2 % 256 \in Nat
  OBVIOUS
<1> HIDE DEF q1, q2, q3
<1>9. /\ ByteOf(value, 0) = value % 256 /\ ByteOf(value, 1) = q1 % 256
      /\ ByteOf(value, 2) = q2 % 256 /\ ByteOf(value, 3) = q3
  BY <1>1, <1>6 DEF q1, q2, q3
<1> DEFINE r0 == value % 256
           r1 == q1 % 256
           r2 == q2 % 256
<1>10. r0 \in Nat /\ r1 \in Nat /\ r2 \in Nat
       /\ value = q1 * 256 + r0 /\ q1 = q2 * 256 + r1 /\ q2 = q3 * 256 + r2
  BY <1>3, <1>4, <1>5, <1>8
<1>11. /\ ByteOf(value, 0) = r0 /\ ByteOf(value, 1) = r1
       /\ ByteOf(value, 2) = r2 /\ ByteOf(value, 3) = q3
  BY <1>9
<1>12. value % 256 = r0  OBVIOUS
<1> HIDE DEF r0, r1, r2
<1>13. r1 * 256 + r0 = value % 65536
  BY <1>2, <1>7, <1>10, SMT
<1>14. ((q3 * 256 + r2) * 256 + r1) * 256 + r0 = value
  BY <1>2, <1>10, SMT
<1> QED  BY <1>11, <1>12, <1>13, <1>14

\* Joined from the most significant digit, they are the low part again.
LEMMA DigitsJoined ==
  ASSUME NEW value \in Nat, value \div (256 * 256 * 256) < 256, NEW n \in {1, 2, 4}
  PROVE  Joined([k \in 1 .. n |-> ByteOf(value, n - k)], n) = Low(value, n)
<1>1. Weight[2] = 256 /\ Weight[3] = 65536
  BY DEF Weight
<1>2. CASE n = 1
  <2>1. Joined([k \in 1 .. n |-> ByteOf(value, n - k)], n) = ByteOf(value, 0)
    BY <1>2 DEF Joined
  <2> QED  BY <1>1, <1>2, <2>1, Digits DEF Low
<1>3. CASE n = 2
  <2>1. Joined([k \in 1 .. n |-> ByteOf(value, n - k)], n) = ByteOf(value, 1) * 256 + ByteOf(value, 0)
    BY <1>3 DEF Joined
  <2> QED  BY <1>1, <1>3, <2>1, Digits DEF Low
<1>4. CASE n = 4
  <2>1. Joined([k \in 1 .. n |-> ByteOf(value, n - k)], n)
          = ((ByteOf(value, 3) * 256 + ByteOf(value, 2)) * 256 + ByteOf(value, 1)) * 256
              + ByteOf(value, 0)
    BY <1>4 DEF Joined
  <2> QED  BY <1>4, <2>1, Digits DEF Low
<1> QED  BY <1>2, <1>3, <1>4

\* What a store leaves at the place it reached, read back through any view that
\* reaches the same place.
LEMMA ReadBack ==
  ASSUME TypeOK, NEW v \in Views, NEW i \in Size, NEW n \in {1, 2, 4}, NEW value \in Values,
         MemSet(v, i, n, value), NEW w \in Views,
         Reaches(w, (views[v].base + i) - views[w].base, n)
  PROVE  MemGet(w, (views[v].base + i) - views[w].base, n)' =
           IF views[v].big = views[w].big THEN Low(value, n) ELSE Mirrored(value, n)
<1> DEFINE at == views[v].base + i
           j == at - views[w].base
           stored == InOrder(v, value, n)
           digit(k) == IF views[w].big THEN k ELSE n + 1 - k
           b == [k \in 1 .. n |-> bytes'[at + digit(k)]]
<1>1. views[v].base \in Nat /\ views[w].base \in Nat /\ i \in Nat
  BY MemViewAssumption DEF TypeOK, Size
<1>2. at + n <= Len(bytes) /\ Len(bytes) \in Nat /\ at \in Nat /\ views[w].base + j = at
  BY <1>1, ReachesInside DEF MemSet, MemSetSucceeds, TypeOK
<1>3. views' = views
  BY DEF MemSet
<1>4. bytes' = [k \in DOMAIN bytes |-> IF k - at \in 1 .. n THEN stored[k - at] ELSE bytes[k]]
  BY DEF MemSet
<1>5. DOMAIN bytes = 1 .. Len(bytes)
  BY DEF TypeOK
<1>6. ASSUME NEW k \in 1 .. n
      PROVE  b[k] = ByteOf(value, IF views[v].big THEN n - digit(k) ELSE digit(k) - 1)
  <2>1. digit(k) \in 1 .. n
    OBVIOUS
  <2> HIDE DEF at, digit, stored
  <2>2. PICK d \in 1 .. n : d = digit(k)
    BY <2>1
  <2>3. bytes'[at + digit(k)] = stored[digit(k)]
    <3>1. at + d \in DOMAIN bytes /\ at + d - at = d
      BY <1>2, <1>5
    <3>2. bytes'[at + d] = stored[d]
      BY <1>2, <1>4, <3>1
    <3> QED  BY <2>2, <3>2
  <2>4. b[k] = bytes'[at + digit(k)]
    OBVIOUS
  <2> QED  BY <2>1, <2>3, <2>4 DEF stored, InOrder
<1> DEFINE new == views'
           newAt == new[w].base + ((new[v].base + i) - new[w].base)
           newDigit(k) == IF new[w].big THEN k ELSE n + 1 - k
           read == [k \in 1 .. n |-> bytes'[newAt + newDigit(k)]]
<1>10. MemGet(w, (views[v].base + i) - views[w].base, n)' = Joined(read, n)
  BY DEF MemGet
<1>7. read = b
  <2>1. new = views  BY <1>3
  <2>2. newAt = at
    <3> HIDE DEF new
    <3> QED  BY <1>1, <2>1
  <2>3. \A k \in 1 .. n : newDigit(k) = digit(k)
    <3> HIDE DEF new
    <3> QED  BY <2>1
  <2> HIDE DEF newAt, newDigit, at, digit
  <2> QED  BY <2>2, <2>3
<1>8. CASE views[v].big = views[w].big
  <2>1. b = [k \in 1 .. n |-> ByteOf(value, n - k)]
    BY <1>6, <1>8
  <2> HIDE DEF b
  <2>2. value \in Nat /\ value \div (256 * 256 * 256) < 256
    BY MemViewAssumption
  <2>3. Joined(b, n) = Low(value, n)
    BY <2>1, <2>2, DigitsJoined
  <2>4. Joined(read, n) = Low(value, n)
    <3> HIDE DEF read
    <3> QED  BY <1>7, <2>3
  <2> QED  BY <1>10, <1>8, <2>4, Zenon
<1>9. CASE views[v].big # views[w].big
  <2>1. b = [k \in 1 .. n |-> ByteOf(value, k - 1)]
    BY <1>6, <1>9 DEF TypeOK
  <2>2. Joined(read, n) = Mirrored(value, n)
    <3> HIDE DEF b, read
    <3> QED  BY <1>7, <2>1 DEF Mirrored
  <2> QED  BY <1>10, <1>9, <2>2, Zenon
<1> QED  BY <1>8, <1>9


\* A store through a view is read back by every view that reaches the same
\* place, in its own byte order, and changes no byte beside it, for every base,
\* offset and size of size_t (MemSetByte, MemSetHalf, MemSetWord).
THEOREM StoresAreRead == Spec => StoredIsRead
<1>1. ASSUME TypeOK, NEW v \in Used, NEW n \in {1, 2, 4}, NEW value \in Values, NEW i \in Size,
             MemSet(v, i, n, value)
      PROVE  LET at == views[v].base + i
             IN /\ ~ views[v].readonly
                /\ OthersKept(at + 1, at + n)
                /\ \A w \in Used :
                     Reaches(w, at - views[w].base, n) =>
                       MemGet(w, at - views[w].base, n)' =
                         IF views[v].big = views[w].big THEN Low(value, n)
                                                        ELSE Mirrored(value, n)
  <2> DEFINE at == views[v].base + i
  <2>1. v \in Views /\ \A w \in Used : w \in Views  BY DEF Used
  <2>2. ~ views[v].readonly  BY <1>1 DEF MemSet, MemSetSucceeds
  <2>3. OthersKept(at + 1, at + n)
    <3>1. at \in Nat
      BY <1>1, <2>1, MemViewAssumption DEF TypeOK, Size
    <3>2. DOMAIN bytes \subseteq Nat  BY <1>1 DEF TypeOK
    <3>3. \A k \in DOMAIN bytes : k - at \notin 1 .. n => bytes'[k] = bytes[k]
      BY <1>1 DEF MemSet
    <3> HIDE DEF at
    <3>4. ASSUME NEW k \in DOMAIN bytes \ (at + 1 .. at + n)
          PROVE  k - at \notin 1 .. n
      BY <3>1, <3>2
    <3> QED  BY <3>3, <3>4 DEF OthersKept
  <2>4. ASSUME NEW w \in Used, Reaches(w, at - views[w].base, n)
        PROVE  MemGet(w, at - views[w].base, n)' =
                 IF views[v].big = views[w].big THEN Low(value, n) ELSE Mirrored(value, n)
    BY <1>1, <2>1, <2>4, ReadBack
  <2> QED  BY <2>2, <2>3, <2>4
<1>2. ASSUME TypeOK
      PROVE  \A v \in Used, n \in {1, 2, 4}, value \in Values, i \in Size :
               MemSet(v, i, n, value) =>
                 LET at == views[v].base + i
                 IN /\ ~ views[v].readonly
                    /\ OthersKept(at + 1, at + n)
                    /\ \A w \in Used :
                         Reaches(w, at - views[w].base, n) =>
                           MemGet(w, at - views[w].base, n)' =
                             IF views[v].big = views[w].big THEN Low(value, n)
                                                            ELSE Mirrored(value, n)
  BY <1>1, <1>2
<1> QED  BY <1>2, TypeCorrect, PTL DEF Spec, StoredIsRead

\* What is appended from inside of the buffer is what stood there, wherever
\* realloc puts the buffer, except at its very beginning (BufferAppend).
THEOREM InnerSlicesAreAppended == Spec => InnerSliceAppended
<1>1. ASSUME NEW len \in 1 .. MaxLen, held > 0, BufferAppendSlice(len)
      PROVE  bytes' = bytes \o SubSeq(bytes, held + 1, held + len)
  <2>1. PICK moved \in BOOLEAN : \E more \in Copied(held, len, moved) : Grown(len, more)
    BY <1>1 DEF BufferAppendSlice
  <2>2. Copied(held, len, moved) = {SubSeq(bytes, held + 1, held + len)}
    BY <1>1 DEF Copied
  <2> QED  BY <2>1, <2>2 DEF Grown
<1>2. \A len \in 1 .. MaxLen :
        held > 0 /\ BufferAppendSlice(len) =>
          bytes' = bytes \o SubSeq(bytes, held + 1, held + len)
  BY <1>1
<1> QED  BY <1>2, PTL DEF InnerSliceAppended

=============================================================================
