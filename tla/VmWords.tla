------------------------------ MODULE VmWords ------------------------------
(***************************************************************************)
(* Machine words, bytes and byte-wise memory access of TinyVM              *)
(* (src/tasks/c2/util/memview.c).                                          *)
(*                                                                         *)
(* The code works with 8-bit bytes, 16-bit half-words and 32-bit words.    *)
(* Here a byte is a digit in base ByteBase, a half-word has two of them    *)
(* and a word four, so that the proportions of the code (and its signed    *)
(* halves, its two's complement and its byte orders) stay what they are    *)
(* for every ByteBase; the code has ByteBase = 256.                        *)
(***************************************************************************)
EXTENDS Integers, Sequences

CONSTANT ByteBase

ASSUME ByteBaseAssumption == ByteBase \in Nat \ {0, 1}

HalfMod == ByteBase * ByteBase
WordMod == HalfMod * HalfMod

Byte == 0 .. ByteBase - 1
Half == 0 .. HalfMod - 1
Word == 0 .. WordMod - 1

\* The value of a half-word read as a two's complement number: (int16_t) imm.
SignedHalf(h) == IF 2 * h < HalfMod THEN h ELSE h - HalfMod

\* The divisions a / b that are refused: by zero, and INT32_MIN / -1 for SDIV.
DivisionFails(op, a, b) ==
  \/ op \in {"UDIV", "SDIV"} /\ b = 0
  \/ op = "SDIV" /\ b = WordMod - 1 /\ 2 * a = WordMod

----------------------------------------------------------------------------
(***************************************************************************)
(* Access to the bytes of a view that covers a whole buffer, which is the  *)
(* only kind the virtual machine builds.  Offsets count from zero, as in   *)
(* the code.                                                               *)
(***************************************************************************)

\* BufferGetBytes succeeds: the n bytes from offset on are all in the buffer.
InBuffer(data, offset, n) == n > 0 /\ offset + n <= Len(data)

MemByte(data, offset) == data[offset + 1]

\* The weight of the k-th byte (k in 0..3) of a word in the given byte order.
Weight(k, big) ==
  LET ascending == <<1, ByteBase, ByteBase * ByteBase, ByteBase * ByteBase * ByteBase>>
  IN  IF big THEN ascending[4 - k] ELSE ascending[k + 1]

MemWord(data, offset, big) ==
    data[offset + 1] * Weight(0, big)
  + data[offset + 2] * Weight(1, big)
  + data[offset + 3] * Weight(2, big)
  + data[offset + 4] * Weight(3, big)

SetByte(data, offset, value) == [data EXCEPT ![offset + 1] = value % ByteBase]

SetWord(data, offset, value, big) ==
  [i \in 1 .. Len(data) |->
     IF i - offset \in 1 .. 4
       THEN (value \div Weight(i - offset - 1, big)) % ByteBase
       ELSE data[i]]

============================================================================
