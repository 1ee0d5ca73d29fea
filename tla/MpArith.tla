------------------------------ MODULE MpArith ------------------------------
(***************************************************************************)
(* The unsigned multi-precision arithmetic of the big integer library      *)
(* (src/tasks/c1/src/mp_add.c, mp_sub.c, mp_cmp.c, mp_mul.c).              *)
(*                                                                         *)
(* A number is a sequence of words, the least significant first.  A loop   *)
(* over the words is a recursive function of the word's index: element i   *)
(* of Carries is the variable carry of the code before the iteration of    *)
(* word i + 1.                                                             *)
(***************************************************************************)
EXTENDS Integers, Sequences

CONSTANT ByteBase,   \* values of a byte: 256
         WordBytes   \* bytes of a word: 4

ASSUME MpAssumption == /\ ByteBase \in Nat /\ ByteBase > 1
                       /\ WordBytes \in Nat \ {0}

Power(base, k) ==
  LET power[i \in 0 .. k] == IF i = 0 THEN 1 ELSE base * power[i - 1]
  IN  power[k]

WordBase == Power(ByteBase, WordBytes)
MaxWord  == WordBase - 1              \* MP_WORD_MAX

\* The number that digits, the least significant first, denote.
Value(digits, base) ==
  LET sum[i \in 0 .. Len(digits)] ==
        IF i = 0 THEN 0 ELSE sum[i - 1] + digits[i] * Power(base, i - 1)
  IN  sum[Len(digits)]

Magnitude(words) == Value(words, WordBase)

Longer(m, n) == IF m > n THEN m ELSE n      \* MAX
Zeros(n)     == [i \in 1 .. n |-> 0]

\* Word i of an operand; the missing words of the shorter one are zero.
WordAt(words, i) == IF i <= Len(words) THEN words[i] ELSE 0

\* The words without the leading zeros, but never without a word
\* ("truncate leading zeros" in BigIntAdd, BigIntSub and BigIntMul).
\* When every word is zero, BigIntAdd and BigIntSub do not truncate at all.
Truncated(words) ==
  LET significant == {i \in 1 .. Len(words) : words[i] # 0}
  IN  IF significant = {} THEN words
      ELSE SubSeq(words, 1, CHOOSE i \in significant :
                                \A j \in significant : j <= i)

\* The functions of the library are given an array and its length apart: a and
\* len_a.  An array that is NULL (<<>> here) although its length is not 0 is
\* refused, and nothing is written to the words that z has had.
Missing(a, len_a) == len_a # 0 /\ a = <<>>

----------------------------------------------------------------------------
\* The sum of two words and the carry, and what becomes the next carry:
\* w_z < w_a ? true : false.
SumWord(w_a, w_b, carry) == (w_a + w_b + carry) % WordBase
\* Wrong: a sum that equals the operand counts as an overflow.
CarryOfEqual(w_a, w_b, carry) ==
  IF SumWord(w_a, w_b, carry) <= w_a THEN 1 ELSE 0

CarryOf(w_a, w_b, carry) ==
  IF SumWord(w_a, w_b, carry) < w_a THEN 1 ELSE 0

Carries(a, b) ==
  LET carry[i \in 0 .. Longer(Len(a), Len(b))] ==
        IF i = 0 THEN 0
        ELSE CarryOf(WordAt(a, i), WordAt(b, i), carry[i - 1])
  IN  carry

SummedWords(a, b) ==
  LET n     == Longer(Len(a), Len(b))
      carry == Carries(a, b)
  IN  [words |-> [i \in 1 .. n |->
                    SumWord(WordAt(a, i), WordAt(b, i), carry[i - 1])],
       carry |-> carry[n]]

\* The words of z after MpAdd, and the carry it returns.
MpAdd(z, a, len_a, b, len_b) ==
  IF Missing(a, len_a) \/ Missing(b, len_b) THEN [words |-> z, carry |-> 0]
  ELSE SummedWords(a, b)

----------------------------------------------------------------------------
\* The difference of two words and the borrow, and the next borrow:
\* w_z > w_a ? true : false.
DifferenceWord(w_a, w_b, borrow) == (w_a - w_b - borrow) % WordBase
\* Wrong: the borrow is decided on the operands alone.
BorrowOfOperands(w_a, w_b, borrow) == IF w_b > w_a THEN 1 ELSE 0

BorrowOf(w_a, w_b, borrow) ==
  IF DifferenceWord(w_a, w_b, borrow) > w_a THEN 1 ELSE 0

Borrows(a, b) ==
  LET borrow[i \in 0 .. Longer(Len(a), Len(b))] ==
        IF i = 0 THEN 0
        ELSE BorrowOf(WordAt(a, i), WordAt(b, i), borrow[i - 1])
  IN  borrow

SubtractedWords(a, b) ==
  LET n      == Longer(Len(a), Len(b))
      borrow == Borrows(a, b)
  IN  [words  |-> [i \in 1 .. n |->
                     DifferenceWord(WordAt(a, i), WordAt(b, i),
                                    borrow[i - 1])],
       borrow |-> borrow[n]]

\* The words of z after MpSub, and the borrow it returns.
MpSub(z, a, len_a, b, len_b) ==
  IF Missing(a, len_a) \/ Missing(b, len_b) THEN [words |-> z, borrow |-> 0]
  ELSE SubtractedWords(a, b)

----------------------------------------------------------------------------
\* Wrong: only the words that both operands have are compared.
ComparedCommonWords(a, b) ==
  LET differ == {i \in 1 .. Longer(Len(a), Len(b)) :
                    i <= Len(a) /\ i <= Len(b) /\ a[i] # b[i]}
      top    == CHOOSE i \in differ : \A j \in differ : j <= i
  IN  IF differ = {} THEN 0 ELSE IF a[top] > b[top] THEN 1 ELSE -1

\* The most significant word in which a and b differ decides.
ComparedWords(a, b) ==
  LET differ == {i \in 1 .. Longer(Len(a), Len(b)) :
                    WordAt(a, i) # WordAt(b, i)}
      top    == CHOOSE i \in differ : \A j \in differ : j <= i
  IN  IF differ = {} THEN 0
      ELSE IF WordAt(a, top) > WordAt(b, top) THEN 1 ELSE -1

\* The result for a missing operand is none of those that tinybn.h names.
MpCompare(a, len_a, b, len_b) ==
  IF Missing(a, len_a) \/ Missing(b, len_b) THEN -2 ELSE ComparedWords(a, b)

----------------------------------------------------------------------------
\* One round of the outer loop of MpMul: digit * a is added to the words of
\* z from position i + 1 on.  uv[j] is the double word uv of iteration j.
\* Wrong: the word at the end of the row keeps its value (carry lost).
MulRowNoCarry(z, a, digit, i) ==
  LET uv[j \in 0 .. Len(a)] ==
        IF j = 0 THEN 0
        ELSE z[i + j] + a[j] * digit + uv[j - 1] \div WordBase
  IN  [k \in 1 .. Len(z) |->
         IF k \in i + 1 .. i + Len(a) THEN uv[k - i] % WordBase ELSE z[k]]

MulRow(z, a, digit, i) ==
  LET uv[j \in 0 .. Len(a)] ==
        IF j = 0 THEN 0
        ELSE z[i + j] + a[j] * digit + uv[j - 1] \div WordBase
  IN  [k \in 1 .. Len(z) |->
         IF k \in i + 1 .. i + Len(a) THEN uv[k - i] % WordBase
         ELSE IF k = i + Len(a) + 1 THEN uv[Len(a)] \div WordBase
         ELSE z[k]]

MultipliedWords(a, b) ==
  LET z[i \in 0 .. Len(b)] ==
        IF i = 0 THEN Zeros(Len(a) + Len(b))
        ELSE MulRow(z[i - 1], a, b[i], i - 1)
  IN  z[Len(b)]

\* The words of z after MpMul.
MpMul(z, a, len_a, b, len_b) ==
  IF Missing(a, len_a) \/ Missing(b, len_b) THEN z ELSE MultipliedWords(a, b)
============================================================================
