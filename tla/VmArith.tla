------------------------------ MODULE VmArith ------------------------------
(***************************************************************************)
(* What the arithmetic, logic and compare instructions compute             *)
(* (src/tasks/c2/vm/vm_arith.c and their entries in the table OPCODES of   *)
(* vm_bytecodes.c).  TinyVM leaves the result of these instructions open;  *)
(* this module fixes it.  A behaviour takes two operands a (below) and b   *)
(* (on top) and executes one instruction on them.                          *)
(***************************************************************************)
EXTENDS VmWords, Bitwise

CONSTANT WordBits      \* 32 in the code

ASSUME WordBitsAssumption == WordBits \in Nat /\ 2 ^ WordBits = WordMod

VARIABLES op, a, b, z

avars == <<op, a, b, z>>

\* The reinterpretation of a word as int32_t, and back.
Signed(w)   == IF 2 * w < WordMod THEN w ELSE w - WordMod
Unsigned(n) == n % WordMod

MostNegative == WordMod \div 2   \* INT32_MIN
MinusOne     == WordMod - 1

Failure == -1   \* the handler returns -1 and pushes nothing

----------------------------------------------------------------------------
\* VmCmp with one of the compare types; the result is 1 or 0.
CmpTypes == {"CMPEQ", "CMPNE", "UCMPLT", "UCMPLE", "UCMPGE", "UCMPGT",
             "SCMPLT", "SCMPLE", "SCMPGE", "SCMPGT"}

Holds(type, x, y) ==
  CASE type = "CMPEQ"  -> x = y
    [] type = "CMPNE"  -> x # y
    [] type = "UCMPLT" -> x < y
    [] type = "UCMPLE" -> x <= y
    [] type = "UCMPGE" -> x >= y
    [] type = "UCMPGT" -> x > y
    [] type = "SCMPLT" -> Signed(x) < Signed(y)
    [] type = "SCMPLE" -> Signed(x) <= Signed(y)
    [] type = "SCMPGE" -> Signed(x) >= Signed(y)
    [] type = "SCMPGT" -> Signed(x) > Signed(y)

VmCmp(type, x, y) == IF Holds(type, x, y) THEN 1 ELSE 0

\* The compare handler an opcode is dispatched to.
\* (Wrong:, here as in TinyVM, marks a plausible slip that no specification
\* uses.)
\* Wrong: a signed and an unsigned compare have each other's handlers.
HandlerSwapped(opcode) ==
  CASE opcode = "SCMPLE" -> "UCMPLE"
    [] opcode = "UCMPLE" -> "SCMPLE"
    [] OTHER -> opcode
Handler(opcode) == IF opcode = "SCMPGT" THEN "UCMPGT" ELSE opcode

----------------------------------------------------------------------------
VmBcAdd(x, y) == (x + y) % WordMod
VmBcSub(x, y) == (x - y) % WordMod
VmBcMul(x, y) == (x * y) % WordMod

VmBcUDiv(x, y) == IF y = 0 THEN Failure ELSE x \div y

Abs(n) == IF n < 0 THEN -n ELSE n

\* The quotient of C, truncated towards zero.
Quotient(m, n) ==
  IF (m < 0) = (n < 0) THEN Abs(m) \div Abs(n) ELSE -(Abs(m) \div Abs(n))

\* Wrong: INT32_MIN / -1 is not refused.
VmBcSDivUnchecked(x, y) == IF y = 0 THEN Failure ELSE Unsigned(Quotient(Signed(x), Signed(y)))
VmBcSDiv(x, y) ==
  IF y = 0 \/ (x = MostNegative /\ y = MinusOne)
    THEN Failure
    ELSE Unsigned(Quotient(Signed(x), Signed(y)))

\* Wrong: the distance is taken modulo the width, as the processor would.
VmBcShlMasked(x, y) == (x * 2 ^ (y % WordBits)) % WordMod
VmBcShrMasked(x, y) == x \div 2 ^ (y % WordBits)

VmBcShl(x, y) == IF y < WordBits THEN (x * 2 ^ y) % WordMod ELSE 0
VmBcShr(x, y) == IF y < WordBits THEN x \div 2 ^ y ELSE 0

\* Wrong: zeros move in.
VmBcAsrLogic(x, y) == VmBcShr(x, y)
\* The shift of a negative number: the sign bit moves in.
VmBcAsr(x, y) ==
  IF y < WordBits THEN Unsigned(Signed(x) \div 2 ^ y)
                  ELSE IF Signed(x) < 0 THEN MinusOne ELSE 0

\* Wrong: the upper part is moved one place too far.
VmBcRorOff(x, y) ==
  LET n == y % WordBits
  IN  IF n = 0 THEN x ELSE (x \div 2 ^ n) | ((x * 2 ^ (WordBits - n - 1)) % WordMod)
VmBcRor(x, y) ==
  LET n == y % WordBits
  IN  IF n = 0 THEN x ELSE (x \div 2 ^ n) | ((x * 2 ^ (WordBits - n)) % WordMod)

VmBcAnd(x, y) == x & y
VmBcOr(x, y)  == x | y
VmBcXor(x, y) == x ^^ y
VmBcNot(x)    == WordMod - 1 - x
VmBcNeg(x)    == (-x) % WordMod

Opcodes == CmpTypes \cup {"ADD", "SUB", "MUL", "UDIV", "SDIV", "SHL", "SHR",
                          "ASR", "ROR", "AND", "OR", "XOR", "NOT", "NEG"}

\* What VmStep leaves of the operands x below y: a result, or Failure.
Result(opcode, x, y) ==
  CASE opcode \in CmpTypes -> VmCmp(Handler(opcode), x, y)
    [] opcode = "ADD"  -> VmBcAdd(x, y)
    [] opcode = "SUB"  -> VmBcSub(x, y)
    [] opcode = "MUL"  -> VmBcMul(x, y)
    [] opcode = "UDIV" -> VmBcUDiv(x, y)
    [] opcode = "SDIV" -> VmBcSDiv(x, y)
    [] opcode = "SHL"  -> VmBcShl(x, y)
    [] opcode = "SHR"  -> VmBcShr(x, y)
    [] opcode = "ASR"  -> VmBcAsr(x, y)
    [] opcode = "ROR"  -> VmBcRor(x, y)
    [] opcode = "AND"  -> VmBcAnd(x, y)
    [] opcode = "OR"   -> VmBcOr(x, y)
    [] opcode = "XOR"  -> VmBcXor(x, y)
    [] opcode = "NOT"  -> VmBcNot(y)
    [] opcode = "NEG"  -> VmBcNeg(y)

----------------------------------------------------------------------------
Pending == -2

Init == op \in Opcodes /\ a \in Word /\ b \in Word /\ z = Pending

Execute == z = Pending /\ z' = Result(op, a, b) /\ UNCHANGED <<op, a, b>>

Spec == Init /\ [][Execute]_avars

\* z is the result of opcode.
Computed(opcode) == op = opcode /\ z # Pending

----------------------------------------------------------------------------
\* The instructions fail on exactly the divisions that the interpreter's
\* specification refuses, and otherwise deliver a word; the results of the
\* compares are 0 and 1 (vm_arith.c; DivisionFails of VmWords).
ResultsAreWords ==
  z # Pending =>
    /\ z = Failure <=> DivisionFails(op, a, b)
    /\ z # Failure => z \in Word
    /\ op \in CmpTypes => z \in {0, 1}

\* SDIV, when it does not fail, gives the quotient of the signed operands
\* rounded towards zero, and no quotient is out of range.
SignedDivision ==
  Computed("SDIV") /\ z # Failure =>
    LET rest == Signed(a) - Signed(b) * Signed(z)
    IN  /\ Abs(rest) < Abs(Signed(b))
        /\ rest # 0 => (rest < 0 <=> Signed(a) < 0)

\* ASR divides by a power of two, rounding downwards, for every shift distance
\* up to the largest word: a negative operand tends to -1, another one to 0.
ArithmeticShift ==
  Computed("ASR") =>
    LET divisor == 2 ^ b
    IN  /\ Signed(z) * divisor <= Signed(a)
        /\ Signed(a) < (Signed(z) + 1) * divisor

Bit(x, i) == (x \div 2 ^ i) % 2

\* Shifts by the width and more leave no bit; ROR moves every bit b places down,
\* around the end of the word; the logic instructions work on each bit by itself.
BitIs(opcode, Of(_)) ==
  Computed(opcode) => \A i \in 0 .. WordBits - 1 : Bit(z, i) = Of(i)

BitsMove ==
  /\ BitIs("SHL", LAMBDA i : IF i >= b THEN Bit(a, i - b) ELSE 0)
  /\ BitIs("SHR", LAMBDA i : IF i + b < WordBits THEN Bit(a, i + b) ELSE 0)
  /\ BitIs("ROR", LAMBDA i : Bit(a, (i + b) % WordBits))
  /\ BitIs("AND", LAMBDA i : Bit(a, i) * Bit(b, i))
  /\ BitIs("OR",  LAMBDA i : IF Bit(a, i) + Bit(b, i) > 0 THEN 1 ELSE 0)
  /\ BitIs("XOR", LAMBDA i : (Bit(a, i) + Bit(b, i)) % 2)
  /\ BitIs("NOT", LAMBDA i : 1 - Bit(b, i))

\* Sums, differences and products differ from those of the integers by words
\* that do not fit, for signed operands as for unsigned ones; UDIV rounds down.
SameResidue(m, n) == \E k \in -WordMod .. WordMod : m - n = k * WordMod

WordArithmetic ==
  /\ Computed("ADD") => SameResidue(Signed(a) + Signed(b), z)
  /\ Computed("SUB") => SameResidue(Signed(a) - Signed(b), z)
  /\ Computed("MUL") => SameResidue(Signed(a) * Signed(b), z)
  /\ Computed("UDIV") /\ z # Failure => b * z <= a /\ a < b * (z + 1)

\* NEG and SUB agree, and a negated word added to itself vanishes: the two's
\* complement of the most negative word is that word again.
Negation ==
  Computed("NEG") =>
    /\ VmBcAdd(z, b) = 0
    /\ Signed(z) = IF b = MostNegative THEN Signed(b) ELSE -Signed(b)

\* The highest bit in which two words differ tells which is below the other;
\* the sign bit tells it the other way round.
Below(x, y, signed) ==
  \E i \in 0 .. WordBits - 1 :
     /\ Bit(x, i) # Bit(y, i)
     /\ \A j \in i + 1 .. WordBits - 1 : Bit(x, j) = Bit(y, j)
     /\ Bit(y, i) = IF signed /\ i = WordBits - 1 THEN 0 ELSE 1

Order(signed) == CASE Below(a, b, signed) -> "less"
                   [] Below(b, a, signed) -> "greater"
                   [] OTHER -> "equal"

Admitted(opcode) ==
  CASE opcode = "CMPEQ" -> {"equal"}
    [] opcode = "CMPNE" -> {"less", "greater"}
    [] opcode \in {"UCMPLT", "SCMPLT"} -> {"less"}
    [] opcode \in {"UCMPLE", "SCMPLE"} -> {"less", "equal"}
    [] opcode \in {"UCMPGE", "SCMPGE"} -> {"greater", "equal"}
    [] opcode \in {"UCMPGT", "SCMPGT"} -> {"greater"}

ComparesAs(opcode) ==
  Computed(opcode) =>
    z = IF Order(opcode \in {"SCMPLT", "SCMPLE", "SCMPGE", "SCMPGT"})
           \in Admitted(opcode) THEN 1 ELSE 0

\* What bytecodes.h says of the instructions of vm_arith.c, in one, for every
\* instruction and every pair of operands: divisions that C leaves undefined
\* fail and nothing else does, and each result is the one word that the
\* integers or the bits of the operands determine, for shifts by the width and
\* more as well, and with each compare on the numbers that its name says (SCMPGT
\* apart, which the table dispatches to the unsigned compare).
InstructionsExact ==
  /\ ResultsAreWords
  /\ WordArithmetic
  /\ SignedDivision
  /\ ArithmeticShift
  /\ BitsMove
  /\ Negation
  /\ \A opcode \in CmpTypes \ {"SCMPGT"} : ComparesAs(opcode)

----------------------------------------------------------------------------
\* What bytecodes.h says of SCMPGT: the "instruction interprets the two top of
\* stack elements a and b as signed integers".
SignedGreater == ComparesAs("SCMPGT")

============================================================================
