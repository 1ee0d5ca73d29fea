------------------------------- MODULE BigInt -------------------------------
(***************************************************************************)
(* The big integers of src/tasks/c1/src (bigint_*.c): a heap of BigInteger *)
(* structures, which a program names by the variables in Vars, and the     *)
(* calls of the library on them.  z may be the same variable as a or b.    *)
(*                                                                         *)
(* An operator named like a function of the library maps the machine m     *)
(* before the call to [ok, m], what the call returns and the machine       *)
(* after it.  A machine is                                                 *)
(*   big   the contents of the structures,                                 *)
(*   live  the structures that are allocated; a name outside of live is a  *)
(*         NULL pointer,                                                   *)
(*   left  the number of calls of malloc and realloc that still succeed.   *)
(* Temporary structures have names of their own, those in Temps.           *)
(***************************************************************************)
EXTENDS MpArith, FiniteSets

CONSTANTS Vars,       \* the program's variables of type BigInteger *
          Memory,     \* numbers of allocations that may succeed in a call
          Data,       \* byte arrays given to BigIntLoad and BigIntSave
          MaxWords,   \* bound: no number of more words is explored,
          MaxSign     \* bound: and no sign of a larger magnitude

Temps   == {"result", "negated"}
Objects == Vars \cup Temps

ASSUME VarsAssumption == /\ Vars \cap (Temps \cup {"spare"}) = {}
                         /\ Memory \subseteq Nat
                         /\ Data \subseteq Seq(0 .. ByteBase - 1)
                         /\ MaxWords \in Nat \ {0}
                         /\ MaxSign \in Nat \ {0}

VARIABLES big, live

bvars == <<big, live>>

negative == -1
zero     == 0
positive == 1

\* sign, words and wordcount of a BigInteger.  <<>> stands for words = NULL,
\* which a failing realloc leaves together with the old wordcount.  The sign is
\* an int, whatever its enum names (BigIntSub multiplies it).
Number(sign, words) == [sign |-> sign, words |-> words, wordcount |-> Len(words)]
Zero == Number(zero, <<0>>)

Machine(left) == [big |-> big, live |-> live, left |-> left]
Done(m)       == [ok |-> TRUE, m |-> m]
Failed(m)     == [ok |-> FALSE, m |-> m]

\* _BigIntAlloc(Len(words)), its words then set; two calls of malloc.  No
\* structure is allocated for a length of 0.
Allocated(m, t, words) ==
  IF m.left < 2 \/ words = <<>> THEN Failed(m)
  ELSE Done([m EXCEPT !.left = @ - 2, !.live = @ \cup {t},
                      !.big[t] = Number(zero, words)])

BigIntAlloc(m, t) == Allocated(m, t, <<0>>)
BigIntFree(m, t)  == [m EXCEPT !.live = @ \ {t}, !.big[t] = Zero]

\* Wrong: the wordcount is only ever raised.
ResizedUp(m, z, words) ==
  IF m.left = 0 THEN Failed([m EXCEPT !.big[z].words = <<>>])
  ELSE Done([m EXCEPT !.left = @ - 1, !.big[z].words = words,
                      !.big[z].wordcount = Longer(@, Len(words))])

\* _BigIntResize to Len(words) words; its callers set those it adds.
Resized(m, z, words) ==
  IF m.left = 0 THEN Failed([m EXCEPT !.big[z].words = <<>>])
  ELSE Done([m EXCEPT !.left = @ - 1, !.big[z].words = words,
                      !.big[z].wordcount = Len(words)])

\* _BigIntNull: the sign is set after the realloc.
Nulled(m, z) ==
  LET r == Resized(m, z, <<0>>)
  IN  IF r.ok THEN Done([r.m EXCEPT !.big[z].sign = zero]) ELSE r

----------------------------------------------------------------------------
\* Wrong: the sign is copied before the words of a are looked at.
BigIntCopySignFirst(m, z, a) ==
  LET s == [m EXCEPT !.big[z].sign = m.big[a].sign]
  IN  IF ~ {z, a} \subseteq m.live THEN Failed(m)
      ELSE IF z = a THEN Done(m)
      ELSE IF m.big[a].words = <<>> THEN Failed(s)
      ELSE Resized(s, z, m.big[a].words)

\* bigint_misc.c.  The sign is copied before the resize may fail.
BigIntCopy(m, z, a) ==
  IF ~ {z, a} \subseteq m.live THEN Failed(m)
  ELSE IF z = a THEN Done(m)
  ELSE IF m.big[a].words = <<>> THEN Failed(m)
  ELSE Resized([m EXCEPT !.big[z].sign = m.big[a].sign], z, m.big[a].words)

\* Wrong: the sign is set first, and for z = a the copy is then negated back.
BigIntNegTwice(m, z, a) ==
  LET n == [m EXCEPT !.big[z].sign = - m.big[a].sign]
      r == BigIntCopy(n, z, a)
  IN  IF r.ok THEN Done([r.m EXCEPT !.big[z].sign = - r.m.big[a].sign])
      ELSE r

\* Wrong: the operand itself is negated, then copied.
BigIntNegOperand(m, z, a) ==
  BigIntCopy([m EXCEPT !.big[a].sign = - @], z, a)

\* The sign of a is read after the copy.
BigIntNeg(m, z, a) ==
  LET r == BigIntCopy(m, z, a)
  IN  IF r.ok THEN Done([r.m EXCEPT !.big[z].sign = - r.m.big[a].sign])
      ELSE r

BigIntSgn(m, a) == IF a \in m.live THEN m.big[a].sign ELSE 0

BigIntAbs(m, z, a) ==
  IF BigIntSgn(m, a) >= 0 THEN BigIntCopy(m, z, a) ELSE BigIntNeg(m, z, a)

\* bigint_compare.c
BigIntCompare(m, a, b) ==
  LET x == m.big[a]  y == m.big[b]
  IN  IF ~ {a, b} \subseteq m.live THEN 0
      ELSE IF x.sign < y.sign THEN -1
      ELSE IF x.sign > y.sign THEN 1
      ELSE IF x.sign = positive
      THEN MpCompare(x.words, x.wordcount, y.words, y.wordcount)
      ELSE MpCompare(y.words, y.wordcount, x.words, x.wordcount)

\* Wrong: the temporary survives when the copy fails.
DeliverLeaking(m, z, t) ==
  LET r == BigIntCopy(m, z, t)
  IN  IF r.ok THEN [r EXCEPT !.m = BigIntFree(r.m, t)] ELSE r

\* A result computed in a temporary is copied to z and the temporary freed.
Deliver(m, z, t) ==
  LET r == BigIntCopy(m, z, t) IN [r EXCEPT !.m = BigIntFree(r.m, t)]

----------------------------------------------------------------------------
\* bigint_addsub.c.  Operands of one sign: the magnitudes are added; the
\* carry grows the result by a word, with a realloc that may fail.  An operand
\* that has lost its words is not noticed: the result keeps its zeros.
AddMagnitudes(m, z, a, b) ==
  LET x   == m.big[a]
      y   == m.big[b]
      sum == MpAdd(Zeros(Longer(x.wordcount, y.wordcount)),
                   x.words, x.wordcount, y.words, y.wordcount)
      t   == Allocated(m, "result", sum.words)
      g   == IF sum.carry = 0 THEN t
             ELSE Resized(t.m, "result", Append(sum.words, 1))
      res == Number(x.sign, Truncated(g.m.big["result"].words))
  IN  IF ~ t.ok THEN t
      ELSE IF ~ g.ok THEN Failed(BigIntFree(g.m, "result"))
      ELSE Deliver([g.m EXCEPT !.big["result"] = res], z, "result")

\* The words of a - b for magnitudes that differ: a borrow out of the top
\* word says that |a| < |b|, and the difference is subtracted from zero.
DifferenceWords(x, y) ==
  LET d == MpSub(Zeros(Longer(x.wordcount, y.wordcount)),
                 x.words, x.wordcount, y.words, y.wordcount)
  IN  IF d.borrow = 0 THEN d.words
      ELSE MpSub(d.words, <<0>>, 1, d.words, Len(d.words)).words

\* cmp is -2 or 2 for an operand without words, and a factor of the sign.
SubtractMagnitudes(m, z, a, b) ==
  LET x    == m.big[a]
      y    == m.big[b]
      cmp  == IF x.sign = negative THEN - BigIntCompare(m, a, b)
              ELSE BigIntCompare(m, a, b)
      res  == IF cmp = 0 THEN Zero
              ELSE Number(x.sign * cmp,
                          Truncated(DifferenceWords(x, y)))
      t    == Allocated(m, "result", res.words)
  IN  IF ~ t.ok THEN t
      ELSE Deliver([t.m EXCEPT !.big["result"] = res], z, "result")

\* Operands of different signs: one is negated into a temporary, and the
\* other function finishes the work.
WithNegated(m, operand, Finish(_)) ==
  LET t == BigIntAlloc(m, "negated")
      n == BigIntNeg(t.m, "negated", operand)
      r == Finish(n.m)
  IN  IF ~ t.ok THEN t
      ELSE IF ~ n.ok THEN Failed(BigIntFree(n.m, "negated"))
      ELSE [r EXCEPT !.m = BigIntFree(r.m, "negated")]

BigIntAdd(m, z, a, b) ==
  IF ~ {z, a, b} \subseteq m.live THEN Failed(m)
  ELSE IF m.big[a].sign = zero THEN BigIntCopy(m, z, b)
  ELSE IF m.big[b].sign = zero THEN BigIntCopy(m, z, a)
  ELSE IF m.big[a].sign = m.big[b].sign THEN AddMagnitudes(m, z, a, b)
  ELSE IF m.big[a].sign > m.big[b].sign
  THEN WithNegated(m, b, LAMBDA n : SubtractMagnitudes(n, z, a, "negated"))
  ELSE WithNegated(m, a, LAMBDA n : SubtractMagnitudes(n, z, b, "negated"))

\* 0 - b is b (and not -b).
BigIntSub(m, z, a, b) ==
  IF ~ {z, a, b} \subseteq m.live THEN Failed(m)
  ELSE IF m.big[a].sign = zero THEN BigIntCopy(m, z, b)
  ELSE IF m.big[b].sign = zero THEN BigIntCopy(m, z, a)
  ELSE IF m.big[a].sign = m.big[b].sign THEN SubtractMagnitudes(m, z, a, b)
  ELSE IF m.big[a].sign > m.big[b].sign
  THEN WithNegated(m, b, LAMBDA n : AddMagnitudes(n, z, a, "negated"))
  ELSE WithNegated(m, b, LAMBDA n : AddMagnitudes(n, z, "negated", a))

\* bigint_mul.c
BigIntMul(m, z, a, b) ==
  LET x   == m.big[a]
      y   == m.big[b]
      uv  == MpMul(Zeros(x.wordcount + y.wordcount),
                   x.words, x.wordcount, y.words, y.wordcount)
      res == Number(x.sign * y.sign,
                    IF \A i \in 1 .. Len(uv) : uv[i] = 0 THEN <<0>>
                    ELSE Truncated(uv))
      t   == Allocated(m, "result", uv)
  IN  IF ~ {z, a, b} \subseteq m.live THEN Failed(m)
      ELSE IF ~ t.ok THEN t
      ELSE Deliver([t.m EXCEPT !.big["result"] = res], z, "result")

----------------------------------------------------------------------------
\* bigint_io.c
BigIntGetWordCount(n) == IF n.words = <<>> THEN 0 ELSE n.wordcount

\* Words set to zero beyond the top are not stored; the top word set to zero
\* is cut off, and no other with it.  A number without words has lost its
\* wordcount as well, even if the call then stores nothing.
BigIntSetAt(m, z, index, value) ==
  LET x     == m.big[z]
      n     == Len(x.words)
      fixed == [m EXCEPT !.big[z].wordcount = n]
      grown == [i \in 1 .. index + 1 |-> WordAt(x.words, i)]
      g     == Resized(fixed, z, grown)
      sign  == IF x.sign = zero /\ value # 0 THEN positive ELSE x.sign
      Store(k) == [k EXCEPT !.big[z].sign = sign,
                            !.big[z].words[index + 1] = value]
  IN  IF z \notin m.live THEN Failed(m)
      ELSE IF index >= n
      THEN IF value = 0 THEN Done(fixed)
           ELSE IF g.ok THEN Done(Store(g.m)) ELSE g
      ELSE IF index = n - 1 /\ value = 0 /\ n > 1
      THEN Resized(m, z, SubSeq(x.words, 1, n - 1))
      ELSE Done(Store(m))

\* Bytes are big-endian.  The leading zeros are not used, but the last byte
\* always is.
UsedLength(data) ==
  LET significant == {i \in 1 .. Len(data) : data[i] # 0 \/ i = Len(data)}
      first == CHOOSE i \in significant : \A j \in significant : i <= j
  IN  Len(data) - first + 1

\* The bytes that do not fill a word are read from the start of the data,
\* where the leading zeros are, and in little-endian order.
\* Wrong: the words are taken from the start of the data on.
LoadedWordsForward(data) ==
  [i \in 1 .. UsedLength(data) \div WordBytes |->
     Value([k \in 1 .. WordBytes |-> data[i * WordBytes - k + 1]], ByteBase)]

LoadedWords(data) ==
  LET count  == UsedLength(data) \div WordBytes
      remain == UsedLength(data) % WordBytes
      words  == [i \in 1 .. count |->
                   Value([k \in 1 .. WordBytes |->
                            data[Len(data) - (i - 1) * WordBytes - k + 1]],
                         ByteBase)]
  IN  IF remain = 0 THEN words
      ELSE Append(words, Value(SubSeq(data, 1, remain), ByteBase))

\* A single byte is taken to be zero, whatever it is.
BigIntLoad(m, z, data) ==
  LET sign == IF UsedLength(data) = 1 THEN zero ELSE positive
  IN  IF z \notin m.live THEN Failed(m)
      ELSE IF data = <<>> THEN Nulled(m, z)
      ELSE Resized([m EXCEPT !.big[z].sign = sign], z, LoadedWords(data))

\* The byte of weight Power(ByteBase, k) of the magnitude.
ByteAt(words, k) == (WordAt(words, k \div WordBytes + 1) \div
                       Power(ByteBase, k % WordBytes)) % ByteBase

\* The bytes after a call with an array that holds data.  With room for more
\* words than the number has, only Len(data) % WordBytes bytes of the rest
\* are cleared.
BigIntSave(data, words) ==
  LET len     == Len(data)
      count   == len \div WordBytes
      written == IF count >= Len(words)
                 THEN (Len(words) * WordBytes) + (len % WordBytes) ELSE len
  IN  [i \in 1 .. len |-> IF len - i < written THEN ByteAt(words, len - i)
                          ELSE data[i]]

----------------------------------------------------------------------------
Init == /\ big = [o \in Objects |-> Zero]
        /\ live = {}

\* What a call leaves behind, within the bounds.
Perform(r) == /\ \A o \in Objects : /\ Len(r.m.big[o].words) <= MaxWords
                                   /\ r.m.big[o].sign \in -MaxSign .. MaxSign
              /\ big' = r.m.big
              /\ live' = r.m.live

Alloc == \E z \in Vars \ live, left \in Memory :
           Perform(BigIntAlloc(Machine(left), z))
Free  == \E z \in live : Perform(Done(BigIntFree(Machine(0), z)))
Copy  == \E z, a \in Vars, left \in Memory :
           Perform(BigIntCopy(Machine(left), z, a))
Neg   == \E z, a \in Vars, left \in Memory :
           Perform(BigIntNeg(Machine(left), z, a))
Abs   == \E z, a \in Vars, left \in Memory :
           Perform(BigIntAbs(Machine(left), z, a))
Add   == \E z, a, b \in Vars, left \in Memory :
           Perform(BigIntAdd(Machine(left), z, a, b))
Sub   == \E z, a, b \in Vars, left \in Memory :
           Perform(BigIntSub(Machine(left), z, a, b))
Mul   == \E z, a, b \in Vars, left \in Memory :
           Perform(BigIntMul(Machine(left), z, a, b))
SetAt == \E z \in Vars, left \in Memory, index \in 0 .. MaxWords - 1,
            value \in 0 .. MaxWord :
           Perform(BigIntSetAt(Machine(left), z, index, value))
Load  == \E z \in Vars, left \in Memory, data \in Data :
           Perform(BigIntLoad(Machine(left), z, data))

Next == \/ Alloc \/ Free \/ Copy \/ Neg \/ Abs
        \/ Add \/ Sub \/ Mul \/ SetAt \/ Load

Spec == Init /\ [][Next]_bvars

----------------------------------------------------------------------------
\* A number as the documentation of the library has it: the fewest words
\* that hold the magnitude, and the sign zero for zero alone.
WellFormed(n) == /\ n.words # <<>>
                 /\ n.sign \in {negative, zero, positive}
                 /\ n.sign = zero <=> Magnitude(n.words) = 0
                 /\ Len(n.words) = 1 \/ n.words[Len(n.words)] # 0

Denotes(n) == n.sign * Magnitude(n.words)

\* The carry into a word of b with all bits set is not carried on, nor is the
\* borrow from under it.
LosesCarry(a, b) ==
  \E i \in 1 .. Longer(Len(a), Len(b)) :
     WordAt(b, i) = MaxWord /\ Carries(a, b)[i - 1] = 1

LosesBorrow(a, b) ==
  \E i \in 1 .. Longer(Len(a), Len(b)) :
     WordAt(b, i) = MaxWord /\ Borrows(a, b)[i - 1] = 1

DifferenceKept(a, b) ==
  LET d == SubtractedWords(a, b)
  IN  /\ ~ LosesBorrow(a, b)
      /\ d.borrow = 1 => ~ LosesBorrow(<<0>>, d.words)

SumKept(x, y) ==
  IF x.sign * y.sign = 0 THEN TRUE
  ELSE IF x.sign = y.sign THEN ~ LosesCarry(x.words, y.words)
  ELSE IF x.sign = positive THEN DifferenceKept(x.words, y.words)
  ELSE DifferenceKept(y.words, x.words)

\* Neither temporary is needed or can fail with this much memory.
Plenty == Machine(8)

\* The type invariant.  A number without words keeps an old wordcount; its sign
\* may be none of the enum's (see SgnIsSign).
TypeOK ==
  /\ live \subseteq Objects
  /\ \A o \in Objects :
       /\ big[o].sign \in Int
       /\ big[o].wordcount \in Nat
       /\ big[o].words \in Seq(0 .. MaxWord)
       /\ big[o].words = <<>> \/ big[o].wordcount = Len(big[o].words)

\* Whatever allocation of a call failed, its temporaries have been freed when
\* it returns (bigint_addsub.c, bigint_mul.c: every return has its BigIntFree).
NoTemporaryLeft == live \subseteq Vars

\* A call that fails leaves its target as it was or without any words: no
\* target ever holds a half-written number, or one with another's sign; and
\* no call writes to another number than its target.  This holds for operands
\* that have lost their words as well.
Calls(m, z, a, b) ==
  {BigIntAdd(m, z, a, b), BigIntSub(m, z, a, b), BigIntMul(m, z, a, b),
   BigIntCopy(m, z, a), BigIntNeg(m, z, a), BigIntAbs(m, z, a)}

FailureKeepsOrLoses ==
  \A z, a, b \in live, left \in Memory :
     \A r \in Calls(Machine(left), z, a, b) :
        /\ r.ok \/ r.m.big[z] = big[z] \/ r.m.big[z].words = <<>>
        /\ \A o \in live \ {z} : r.m.big[o] = big[o]

\* A call that succeeds on operands that have their words, with signs of the
\* enum, leaves such a number: a lost number is where bad signs come from.
Proper(n) == n.words # <<>> /\ n.sign \in {negative, zero, positive}

ProperStaysProper ==
  \A z, a, b \in live, left \in Memory :
     Proper(big[a]) /\ Proper(big[b]) =>
       \A r \in Calls(Machine(left), z, a, b) : r.ok => Proper(r.m.big[z])

\* A failing allocation, whichever it is, costs the target at most, and does no
\* harm to a number that is not made of the lost one.
FailuresAreClean ==
  NoTemporaryLeft /\ FailureKeepsOrLoses /\ ProperStaysProper

\* No resize that failed has taken the words of o.
Usable(o) == big[o].words # <<>>

WithSpare(m) == [m EXCEPT !.big = [o \in Objects \cup {"spare"} |->
                                     IF o = "spare" THEN Zero ELSE big[o]],
                          !.live = @ \cup {"spare"}]

\* The result is the same whether z is a variable of its own or one of the
\* operands (tinybn.h: "z may refer to the same object as a and/or b"), for
\* operands that have their words.
AliasesHarmless ==
  \A a, b \in live : \A z \in {a, b} :
     LET m == Plenty
         s == WithSpare(m)
         Same(r, q) == r.ok => r.m.big[z] = q.m.big["spare"]
     IN  Usable(a) /\ Usable(b) =>
         /\ Same(BigIntAdd(m, z, a, b), BigIntAdd(s, "spare", a, b))
         /\ Same(BigIntSub(m, z, a, b), BigIntSub(s, "spare", a, b))
         /\ Same(BigIntMul(m, z, a, b), BigIntMul(s, "spare", a, b))
         /\ Same(BigIntNeg(m, a, a), BigIntNeg(s, "spare", a)) \/ z # a
         /\ Same(BigIntAbs(m, a, a), BigIntAbs(s, "spare", a)) \/ z # a

\* a call of Op on well-formed numbers gives the well-formed number Is(x, y)
Gives(Op(_, _, _, _), Kept(_, _), Is(_, _)) ==
  \A z, a, b \in live :
     LET x == big[a]  y == big[b]
         r == Op(Plenty, z, a, b)
     IN  WellFormed(x) /\ WellFormed(y) /\ Kept(x, y) =>
           /\ r.ok
           /\ Denotes(r.m.big[z]) = Is(Denotes(x), Denotes(y))
           /\ WellFormed(r.m.big[z])

\* BigIntAdd gives the sum of numbers of any signs and lengths, and in its
\* shortest form, unless a carry is lost.
SumExact == Gives(BigIntAdd, SumKept, LAMBDA x, y : x + y)

\* BigIntSub gives the difference, unless a carry or borrow is lost or zero
\* is the minuend.
DifferenceExact ==
  Gives(BigIntSub,
        LAMBDA x, y : /\ x.sign = zero => y.sign = zero
                      /\ IF x.sign = y.sign THEN DifferenceKept(x.words, y.words)
                         ELSE IF x.sign = positive
                         THEN ~ LosesCarry(x.words, y.words)
                         ELSE ~ LosesCarry(y.words, x.words),
        LAMBDA x, y : x - y)

\* BigIntMul gives the product, always.
ProductExact == Gives(BigIntMul, LAMBDA x, y : TRUE, LAMBDA x, y : x * y)

\* BigIntCompare orders well-formed numbers as the integers they denote.
OrderExact ==
  \A a, b \in live :
     LET c == BigIntCompare(Plenty, a, b)
         d == Denotes(big[a]) - Denotes(big[b])
     IN  WellFormed(big[a]) /\ WellFormed(big[b]) =>
         c = IF d < 0 THEN -1 ELSE IF d > 0 THEN 1 ELSE 0

\* The four operations are exact on well-formed numbers of any sign and length,
\* aliased or not, wherever no carry or borrow is lost.
ArithmeticExact == SumExact /\ DifferenceExact /\ ProductExact /\ OrderExact

\* BigIntSave writes the low bytes of the magnitude (as long as the array has
\* no room for another whole word), and BigIntLoad reads a number back from
\* whole words.
SavedThenLoaded ==
  \A a \in live, data \in Data :
     LET words == big[a].words
         saved == BigIntSave(data, words)
         back  == BigIntLoad(Plenty, a, saved).m.big[a]
     IN  words # <<>> /\ Len(data) < (Len(words) + 1) * WordBytes =>
           LET low == Magnitude(words) % Power(ByteBase, Len(data))
           IN  /\ Value([i \in 1 .. Len(data) |-> saved[Len(data) - i + 1]],
                        ByteBase) = low
               /\ data # <<>> /\ UsedLength(saved) % WordBytes = 0 =>
                    Magnitude(back.words) = low

----------------------------------------------------------------------------
\* What tinybn.h says of BigIntAdd without exception: "Adds two big integers.
\* (z = a + b)".
AddIsSum == Gives(BigIntAdd, LAMBDA x, y : TRUE, LAMBDA x, y : x + y)

\* What it says of BigIntSub: "Subtracts two big integers. (z = a - b)".
SubIsDifference == Gives(BigIntSub, LAMBDA x, y : TRUE, LAMBDA x, y : x - y)

\* What tinybn.h says of BigIntSgn: the "signum function", whose values are -1,
\* 0 and +1.
SgnIsSign == \A a \in live : BigIntSgn(Plenty, a) \in {-1, 0, 1}

\* What tinybn.h says of BigIntLoad: "sets the magnitude of the big-integer z to
\* the unsigned value represented by the data byte array", in big-endian order
\* with any leading zeros, and the sign "to be positive (or zero if the magnitude
\* is zero)".
LoadedIsData ==
  \A z \in live, data \in Data :
     LET len == Len(data)
     IN  Denotes(BigIntLoad(Plenty, z, data).m.big[z]) =
           Value([i \in 1 .. len |-> data[len - i + 1]], ByteBase)
============================================================================
