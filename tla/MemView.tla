------------------------------ MODULE MemView ------------------------------
(***************************************************************************)
(* The byte buffer (src/tasks/c2/util/buffer.c) and the memory views on it *)
(* (src/tasks/c2/util/memview.c), which the assembler and the machine keep *)
(* all their bytes in: one buffer, views that may overlap and outlive what *)
(* they were made for, and a pointer of a caller into the buffer.          *)
(***************************************************************************)
EXTENDS Integers, SequencesExt

CONSTANTS Views,     \* the memory views
          Byte,      \* the values of bytes that are written or left in memory
          Values,    \* the values that are stored through views
          SizeMod,   \* SIZE_MAX + 1
          Bases, Lengths,  \* the bases and lengths that views are made with
          MaxLen     \* realloc fails beyond this length

Size == 0 .. SizeMod - 1

ASSUME MemViewAssumption ==
  /\ Byte \subseteq 0 .. 255 /\ Byte # {}
  /\ Values \subseteq Nat
  /\ \A value \in Values : value \div (256 * 256 * 256) < 256   \* uint32_t
  /\ Bases \subseteq Size /\ Lengths \subseteq Size
  /\ MaxLen \in Nat /\ SizeMod \in Nat /\ MaxLen < SizeMod /\ SizeMod > 4

VARIABLES bytes,   \* what the buffer holds; its data is NULL when this is empty
          views,   \* the views, NoView before MemInit succeeded
          held     \* the offset of a pointer that BufferGetBytes returned, while
                   \* it is valid, and NoPointer otherwise

mvars == <<bytes, views, held>>

NoPointer == -1
NoView == [base |-> 0, length |-> 0, readonly |-> TRUE, big |-> FALSE]
Wrapped(n) == n % SizeMod

-----------------------------------------------------------------------------
(* The byte buffer.                                                        *)

\* BufferGetBytes does not return NULL.
BufferGetBytes(offset, len) ==
  /\ len > 0 /\ bytes # <<>>
  /\ offset <= Wrapped(offset + len)
  /\ offset <= Len(bytes) - 1 /\ Len(bytes) - 1 >= Wrapped(offset + len) - 1

\* The source of BufferAppend is outside of the buffer, or inside and ends there.
AppendRefused(offset, len) == offset # NoPointer /\ offset + len > Len(bytes)

\* Wrong: the pointer of the caller is used for every slice.
CopiedFromCaller(offset, len, moved) ==
  IF moved THEN [1 .. len -> Byte] ELSE {SubSeq(bytes, offset + 1, offset + len)}

\* What memcpy copies from the slice at offset, after realloc moved the buffer
\* or not.  Inside the buffer the slice is addressed anew, except that offset 0
\* is taken for "not inside": the old pointer is used, and what it points to is
\* freed when the buffer has moved.
Copied(offset, len, moved) ==
  IF offset = 0 /\ moved THEN [1 .. len -> Byte]
  ELSE {SubSeq(bytes, offset + 1, offset + len)}

\* realloc fails, or it gives the buffer n bytes more, moving it or not; a
\* pointer into it is no longer to be used then.
Grown(n, more) ==
  /\ Len(bytes) + n <= MaxLen
  /\ bytes' = bytes \o more
  /\ held' = IF n = 0 THEN held ELSE NoPointer
  /\ UNCHANGED views

BufferAppend(data) == Grown(Len(data), data)

BufferAppendSlice(len) ==
  /\ held # NoPointer /\ len > 0
  /\ ~ AppendRefused(held, len)
  /\ \E moved \in BOOLEAN : \E more \in Copied(held, len, moved) : Grown(len, more)

BufferSkip(filler, len) == Grown(len, [i \in 1 .. len |-> filler])

\* Wrong: the pointers into the buffer are taken for valid still.
BufferClearOnly == bytes' = <<>> /\ UNCHANGED <<views, held>>

BufferClear == bytes' = <<>> /\ held' = NoPointer /\ UNCHANGED views

TakeBytes(offset, len) ==
  /\ BufferGetBytes(offset, len)
  /\ held' = offset
  /\ UNCHANGED <<bytes, views>>

-----------------------------------------------------------------------------
(* Memory views.                                                           *)

\* MemInit: SIZE_MAX - base < length is the overflow of their sum.
MemInit(v, base, length, readonly, big) ==
  /\ length # 0
  /\ SizeMod - 1 - base >= length /\ Len(bytes) >= Wrapped(base + length)
  /\ views' = [views EXCEPT ![v] = [base |-> base, length |-> length,
                                    readonly |-> readonly, big |-> big]]
  /\ UNCHANGED <<bytes, held>>

MemSetBigEndian(v, enable) ==
  /\ views' = [views EXCEPT ![v].big = enable]
  /\ UNCHANGED <<bytes, held>>

\* Wrong: the sum of base and offset may wrap around.
ReachesWrapped(v, offset, n) ==
  /\ n > 1 => views[v].length >= n
  /\ BufferGetBytes(Wrapped(views[v].base + offset), n)

\* MemGetByte, MemGetHalf and MemGetWord (n = 1, 2, 4) succeed.  Half-words and
\* words are compared with the length of the view, without the offset.
Reaches(v, offset, n) ==
  /\ offset \in Size
  /\ views[v].base <= Wrapped(views[v].base + offset)
  /\ n > 1 => views[v].length >= n
  /\ BufferGetBytes(Wrapped(views[v].base + offset), n)

Weight == <<1, 256, 256 * 256, 256 * 256 * 256>>
ByteOf(value, k) == (value \div Weight[k + 1]) % 256

\* Wrong: always little endian.
InLittleOrder(v, value, n) == [i \in 1 .. n |-> ByteOf(value, i - 1)]

\* The bytes of a value in the order of a view.
InOrder(v, value, n) ==
  [i \in 1 .. n |-> ByteOf(value, IF views[v].big THEN n - i ELSE i - 1)]

\* The number that n bytes make, the first the most significant.
Joined(b, n) ==
  CASE n = 1 -> b[1]
    [] n = 2 -> b[1] * 256 + b[2]
    [] n = 4 -> ((b[1] * 256 + b[2]) * 256 + b[3]) * 256 + b[4]

MemGet(v, offset, n) ==
  LET at == views[v].base + offset
  IN  Joined([i \in 1 .. n |-> bytes[at + (IF views[v].big THEN i ELSE n + 1 - i)]], n)

\* MemSetByte, MemSetHalf and MemSetWord.
MemSetSucceeds(v, offset, n) == ~ views[v].readonly /\ Reaches(v, offset, n)

MemSet(v, offset, n, value) ==
  /\ MemSetSucceeds(v, offset, n)
  /\ LET at == views[v].base + offset
         stored == InOrder(v, value, n)
     IN bytes' = [i \in DOMAIN bytes |->
                    IF i - at \in 1 .. n THEN stored[i - at] ELSE bytes[i]]
  /\ UNCHANGED <<views, held>>

\* MemGetBytes
TakeViewBytes(v, offset, len) ==
  /\ len <= views[v].length
  /\ views[v].base <= Wrapped(views[v].base + offset)
  /\ TakeBytes(Wrapped(views[v].base + offset), len)

-----------------------------------------------------------------------------
Used == {v \in Views : views[v] # NoView}

Init ==
  /\ bytes = <<>> /\ views = [v \in Views |-> NoView] /\ held = NoPointer

BufferNext ==
  \/ \E b \in Byte : BufferAppend(<<b>>)
  \/ \E len \in 1 .. MaxLen : BufferAppendSlice(len)
  \/ \E b \in Byte, len \in 1 .. MaxLen : BufferSkip(b, len)
  \/ BufferClear
  \/ \E offset \in Size, len \in Size : TakeBytes(offset, len)

ViewNext ==
  \/ \E v \in Views, base \in Bases, length \in Lengths, readonly, big \in BOOLEAN :
       MemInit(v, base, length, readonly, big)
  \/ \E v \in Used, enable \in BOOLEAN : MemSetBigEndian(v, enable)
  \/ \E v \in Used, offset \in Size, n \in {1, 2, 4}, value \in Values :
       MemSet(v, offset, n, value)
  \/ \E v \in Used, offset \in Size, len \in Size : TakeViewBytes(v, offset, len)

Next == BufferNext \/ ViewNext

Spec == Init /\ [][Next]_mvars

-----------------------------------------------------------------------------
(* Properties.                                                             *)

\* Types; a pointer that is held points into the buffer.
TypeOK ==
  /\ bytes \in Seq(0 .. 255) /\ Len(bytes) <= MaxLen
  /\ views \in [Views -> [base : Size, length : Size,
                          readonly : BOOLEAN, big : BOOLEAN]]
  /\ held \in {NoPointer} \cup 0 .. Len(bytes) - 1

\* Whatever a view was made for and whatever became of the buffer since, and for
\* offsets up to SIZE_MAX: an access that succeeds is inside of the buffer, at the
\* sum of base and offset and at no sum that wrapped around (MemGetByte and its
\* likes, BufferGetBytes).
AccessesInside ==
  \A v \in Used, offset \in Size, n \in {1, 2, 4} :
    Reaches(v, offset, n) => views[v].base + offset + n <= Len(bytes)

\* What is stored through a view is read back through every view that reaches the
\* same place, by its own byte order; no other byte changes, and nothing changes
\* through a read-only view (MemSetHalf, MemSetWord, MemGetHalf, MemGetWord).
Low(value, n) == IF n = 4 THEN value ELSE value % Weight[n + 1]
Mirrored(value, n) == Joined([k \in 1 .. n |-> ByteOf(value, k - 1)], n)
OthersKept(first, last) ==
  \A k \in DOMAIN bytes \ (first .. last) : bytes'[k] = bytes[k]
StoredIsRead ==
  [][bytes' # bytes =>
       \A v \in Used, n \in {1, 2, 4}, value \in Values, i \in Size :
       MemSet(v, i, n, value) =>
         LET at == views[v].base + i
         IN /\ ~ views[v].readonly
            /\ OthersKept(at + 1, at + n)
            /\ \A w \in Used :
                 Reaches(w, at - views[w].base, n) =>
                   MemGet(w, at - views[w].base, n)' =
                     IF views[v].big = views[w].big THEN Low(value, n)
                                                    ELSE Mirrored(value, n)]_mvars

\* A slice of the buffer that does not start at its first byte is appended as it
\* was, even if realloc moves the buffer under it (BufferAppend).
InnerSliceAppended ==
  [][Len(bytes') > Len(bytes) =>
       \A len \in 1 .. MaxLen :
       held > 0 /\ BufferAppendSlice(len) =>
         bytes' = bytes \o SubSeq(bytes, held + 1, held + len)]_mvars

\* What buffer.h says of BufferAppend: "data and len parameters may refer to a
\* slice of the byte buffer itself", with the whole buffer for an example.
SliceAppended ==
  [][Len(bytes') > Len(bytes) =>
       \A len \in 1 .. MaxLen :
       BufferAppendSlice(len) =>
         bytes' = bytes \o SubSeq(bytes, held + 1, held + len)]_mvars
=============================================================================
