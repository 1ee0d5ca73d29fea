--------------------------- MODULE TinyVM_proofs ---------------------------
(***************************************************************************)
(* Theorems about TinyVM, for every set of units, every set of             *)
(* instructions, every stack limit and every byte base.  The second part   *)
(* is about programs that keep to the calling convention; nothing before   *)
(* it uses TinyVMFrames or what that module assumes.                       *)
(***************************************************************************)
EXTENDS TinyVMFrames, SequenceTheorems, WellFoundedInduction, TLAPS

StackOK(s) == s \in Seq(Word) /\ Len(s) <= MaxStack
ObjsOK(o)  == DOMAIN o \subseteq Handle /\ o \in [DOMAIN o -> Object]
Status     == {"created", "running", "terminated", "failed"}

----------------------------------------------------------------------------
(***************************************************************************)
(* Words and bytes.                                                        *)
(***************************************************************************)

\* The sizes of words and half-words are numbers, and a byte fits in a word.
LEMMA WordSizes ==
  /\ HalfMod \in Nat /\ HalfMod >= 2 * ByteBase
  /\ WordMod \in Nat /\ WordMod >= 2 * HalfMod
  /\ ByteBase \in Nat /\ ByteBase >= 2
<1>1. ByteBase \in Nat /\ ByteBase >= 2
  BY ByteBaseAssumption
<1>2. HalfMod \in Nat /\ HalfMod >= 2 * ByteBase
  <2> DEFINE B == ByteBase
  <2>1. B * B >= 2 * B  BY <1>1
  <2> QED  BY <1>1, <2>1 DEF HalfMod
<1>3. WordMod \in Nat /\ WordMod >= 2 * HalfMod
  <2> HIDE DEF HalfMod
  <2>1. HalfMod >= 2  BY <1>1, <1>2
  <2>2. HalfMod * HalfMod >= 2 * HalfMod  BY <1>2, <2>1
  <2> QED  BY <1>2, <2>2 DEF WordMod
<1> QED  BY <1>1, <1>2, <1>3

\* Reduction modulo the word size gives a word, whatever is reduced (the
\* unsigned 32-bit arithmetic of the registers).
LEMMA ModWord == ASSUME NEW n \in Int PROVE n % WordMod \in Word
<1> HIDE DEF WordMod
<1> QED  BY WordSizes DEF Word

LEMMA ModByte == ASSUME NEW n \in Int PROVE n % ByteBase \in Byte
  BY WordSizes DEF Byte

\* Small words.
LEMMA ByteIsWord == /\ Byte \subseteq Word
                    /\ 0 \in Word /\ 1 \in Word /\ 0 \in Byte
                    /\ EndOfInput \in Word
<1> HIDE DEF WordMod, HalfMod
<1> QED  BY WordSizes DEF Byte, Word, EndOfInput

\* The word read from four bytes is a word, in either byte order (MemGetWord).
LEMMA MemWordType ==
  ASSUME NEW data \in Seq(Byte), NEW offset \in Nat, NEW big \in BOOLEAN,
         InBuffer(data, offset, 4)
  PROVE  MemWord(data, offset, big) \in Word
<1> DEFINE B == ByteBase
<1>1. PICK x0, x1, x2, x3 \in Byte :
        MemWord(data, offset, big) = x0 + x1 * B + x2 * (B * B) + x3 * (B * B * B)
  <2> DEFINE d(i) == data[offset + i]
  <2>1. d(1) \in Byte /\ d(2) \in Byte /\ d(3) \in Byte /\ d(4) \in Byte
    BY DEF InBuffer
  <2>2. B \in Nat /\ B * B \in Nat /\ B * B * B \in Nat  BY WordSizes
  <2> DEFINE w(i) == Weight(i, big)
  <2>3. CASE big
    <3>1. w(0) = B * B * B /\ w(1) = B * B /\ w(2) = B /\ w(3) = 1
      BY <2>3 DEF Weight
    <3>2. MemWord(data, offset, big) = d(1) * (B*B*B) + d(2) * (B*B) + d(3) * B + d(4) * 1
      BY <3>1 DEF MemWord
    <3> HIDE DEF d
    <3>3. d(1) \in Nat /\ d(2) \in Nat /\ d(3) \in Nat /\ d(4) \in Nat
      BY <2>1, WordSizes DEF Byte
    <3>4. MemWord(data, offset, big) = d(4) + d(3) * B + d(2) * (B*B) + d(1) * (B*B*B)
      BY <3>2, <3>3, <2>2
    <3> QED  BY <2>1, <3>4
  <2>4. CASE ~ big
    <3>1. w(0) = 1 /\ w(1) = B /\ w(2) = B * B /\ w(3) = B * B * B
      BY <2>4 DEF Weight
    <3>2. MemWord(data, offset, big) = d(1) * 1 + d(2) * B + d(3) * (B*B) + d(4) * (B*B*B)
      BY <3>1 DEF MemWord
    <3> HIDE DEF d
    <3>3. d(1) \in Nat
      BY <2>1, WordSizes DEF Byte
    <3> QED  BY <2>1, <3>2, <3>3
  <2> QED  BY <2>3, <2>4
<1>2. B \in Nat /\ B >= 2 /\ x0 \in Nat /\ x1 \in Nat /\ x2 \in Nat /\ x3 \in Nat
      /\ x0 <= B - 1 /\ x1 <= B - 1 /\ x2 <= B - 1 /\ x3 <= B - 1
  BY WordSizes DEF Byte
<1> DEFINE C == B * B
           D == B * B * B
<1>3. C \in Nat /\ D \in Nat /\ D = B * C /\ WordMod = B * D
  BY <1>2 DEF WordMod, HalfMod
<1>4. x1 * B <= (B - 1) * B /\ x2 * C <= (B - 1) * C /\ x3 * D <= (B - 1) * D
      /\ x1 * B \in Nat /\ x2 * C \in Nat /\ x3 * D \in Nat
  <2> HIDE DEF B, C, D
  <2>1. x1 * B <= (B - 1) * B /\ x1 * B \in Nat  BY <1>2
  <2>2. x2 * C <= (B - 1) * C /\ x2 * C \in Nat  BY <1>2, <1>3
  <2>3. x3 * D <= (B - 1) * D /\ x3 * D \in Nat  BY <1>2, <1>3
  <2> QED  BY <2>1, <2>2, <2>3
<1>5. (B - 1) * B = C - B /\ (B - 1) * C = D - C /\ (B - 1) * D = WordMod - D
  BY <1>2, <1>3
<1> QED
  <2> HIDE DEF B, C, D, WordMod
  <2> DEFINE p == x1 * B
             q == x2 * C
             r == x3 * D
  <2>1. MemWord(data, offset, big) = x0 + p + q + r  BY <1>1 DEF B, C, D
  <2>2. p <= C - B /\ q <= D - C /\ r <= WordMod - D /\ p \in Nat /\ q \in Nat /\ r \in Nat
    BY <1>4, <1>5
  <2> HIDE DEF p, q, r
  <2> QED  BY <1>2, <1>3, <2>1, <2>2, WordSizes DEF Word

\* A store keeps an object an object of the same size (MemSetByte, MemSetWord).
LEMMA SetByteType ==
  ASSUME NEW data \in Seq(Byte), NEW offset \in Nat, NEW value \in Word
  PROVE  /\ SetByte(data, offset, value) \in Seq(Byte)
         /\ Len(SetByte(data, offset, value)) = Len(data)
<1>1. value \in Int
  BY WordSizes DEF Word
<1>2. value % ByteBase \in Byte
  BY <1>1, ModByte
<1>3. CASE offset + 1 \in 1 .. Len(data)
  BY <1>2, <1>3, ExceptSeq DEF SetByte
<1>4. CASE offset + 1 \notin 1 .. Len(data)
  <2>1. SetByte(data, offset, value) = data
    BY <1>4 DEF SetByte
  <2> QED  BY <2>1
<1> QED  BY <1>3, <1>4

LEMMA SetWordType ==
  ASSUME NEW data \in Seq(Byte), NEW offset \in Nat, NEW value \in Word, NEW big \in BOOLEAN
  PROVE  /\ SetWord(data, offset, value, big) \in Seq(Byte)
         /\ Len(SetWord(data, offset, value, big)) = Len(data)
<1> DEFINE digit(k) == (value \div Weight(k, big)) % ByteBase
<1>1. ASSUME NEW k \in 0 .. 3  PROVE digit(k) \in Byte
  <2>1. ByteBase \in Nat /\ ByteBase > 0
        /\ ByteBase * ByteBase \in Nat /\ ByteBase * ByteBase > 0
        /\ ByteBase * ByteBase * ByteBase \in Nat /\ ByteBase * ByteBase * ByteBase > 0
    BY WordSizes
  <2>2. Weight(k, big) \in Nat /\ Weight(k, big) > 0
    BY <2>1 DEF Weight
  <2>3. value \in Nat  BY WordSizes DEF Word
  <2>4. value \div Weight(k, big) \in Int
    BY <2>2, <2>3
  <2> QED  BY <2>4, ModByte
<1>2. \A i \in 1 .. Len(data) :
        (IF i - offset \in 1 .. 4 THEN digit(i - offset - 1) ELSE data[i]) \in Byte
  <2> HIDE DEF digit
  <2> QED  BY <1>1
<1>3. SetWord(data, offset, value, big) =
        [i \in 1 .. Len(data) |->
           IF i - offset \in 1 .. 4 THEN digit(i - offset - 1) ELSE data[i]]
  BY DEF SetWord
<1> QED  BY <1>2, <1>3

----------------------------------------------------------------------------
(***************************************************************************)
(* The operand stack.                                                      *)
(***************************************************************************)

\* Dropping slots from a stack leaves its bottom (VmStackPop).
LEMMA DropStack ==
  ASSUME NEW s, StackOK(s), NEW n \in 0 .. Len(s)
  PROVE  /\ StackOK(Drop(s, n))
         /\ Len(Drop(s, n)) = Len(s) - n
         /\ \A i \in 1 .. Len(s) - n : Drop(s, n)[i] = s[i]
  BY TinyVMAssumption DEF StackOK, Drop

\* A slot of the stack holds a word.
LEMMA SlotIsWord ==
  ASSUME NEW s, StackOK(s), NEW i \in 1 .. Len(s)
  PROVE  s[i] \in Word
  BY DEF StackOK

\* A push keeps the stack within its limit, or fails (VmStackPush).
LEMMA PushType ==
  ASSUME NEW s, StackOK(s), NEW word \in Word, status \in Status, Push(s, word)
  PROVE  StackOK(stack') /\ status' \in Status
<1>1. CASE Room(s, 1)
  <2>1. stack' = Append(s, word) /\ status' = status
    BY <1>1 DEF Push, Return0
  <2> QED  BY <1>1, <2>1 DEF StackOK, Room
<1>2. CASE ~ Room(s, 1)
  BY <1>2 DEF Push, Fail, Status
<1> QED  BY <1>1, <1>2

\* A handler that returns leaves the stack it has made.
LEMMA EndType ==
  ASSUME NEW s, StackOK(s), status \in Status, Return0(s) \/ Fail(s)
  PROVE  StackOK(stack') /\ status' \in Status
  BY DEF Return0, Fail, Status

\* The result copy of RET keeps the stack's length and its words.
LEMMA CopyResultsType ==
  ASSUME NEW s, StackOK(s), NEW resultTop \in Nat, resultTop < Len(s), NEW n \in Nat
  PROVE  /\ StackOK(CopyResults(s, resultTop, n))
         /\ Len(CopyResults(s, resultTop, n)) = Len(s)
<1> DEFINE sp == Len(s)
           slots == sp - resultTop
           slot(i) == IF resultTop - i \in 0 .. n - 1
                        THEN s[sp - ((resultTop - i) % slots)]
                        ELSE s[i]
<1>1. sp \in Nat /\ slots \in Nat /\ slots > 0 /\ slots <= sp
  BY DEF StackOK
<1>2. ASSUME NEW i \in 1 .. sp  PROVE slot(i) \in Word
  <2>1. CASE resultTop - i \in 0 .. n - 1
    <3> DEFINE back == (resultTop - i) % slots
    <3>1. back \in 0 .. slots - 1
      <4> HIDE DEF sp, slots
      <4> QED  BY <1>1
    <3>2. sp - back \in 1 .. sp
      <4> HIDE DEF back, sp, slots
      <4> QED  BY <1>1, <3>1
    <3> HIDE DEF back
    <3>3. s[sp - back] \in Word  BY <3>2, SlotIsWord
    <3> QED  BY <2>1, <3>3 DEF back
  <2>2. CASE ~ (resultTop - i \in 0 .. n - 1)
    BY <2>2, SlotIsWord
  <2> QED  BY <2>1, <2>2
<1>3. CopyResults(s, resultTop, n) = [i \in 1 .. sp |-> slot(i)]
  BY DEF CopyResults
<1> HIDE DEF slot
<1>4. [i \in 1 .. sp |-> slot(i)] \in Seq(Word) /\ Len([i \in 1 .. sp |-> slot(i)]) = sp
  BY <1>1, <1>2
<1> QED  BY <1>3, <1>4 DEF StackOK

----------------------------------------------------------------------------
(***************************************************************************)
(* The registers and the ends of a step.                                   *)
(***************************************************************************)
RegsOK == function \in DOMAIN objs \cup {NullHandle} /\ pc \in Word /\ fp \in Word

\* The parts of the type invariant.
LEMMA TypeParts == TypeOK <=> StackOK(stack) /\ ObjsOK(objs) /\ RegsOK /\ status \in Status
  BY DEF TypeOK, StackOK, ObjsOK, RegsOK, Status

LEMMA LengthType ==
  ASSUME NEW i \in Instruction
  PROVE  Length(i.op) \in 1 .. 5 /\ i.imm \in Word
<1>1. Half \subseteq Word /\ Byte \subseteq Word /\ 0 \in Word
  <2> HIDE DEF WordMod, HalfMod
  <2> QED  BY WordSizes DEF Half, Byte, Word
<1>2. CASE i \in [op : SimpleOps, imm : {0}]
  <2>1. i.op \in SimpleOps /\ i.imm = 0  BY <1>2
  <2>2. i.op \notin ByteOps \cup HalfOps \cup WordOps
    BY <2>1 DEF SimpleOps, ByteOps, HalfOps, WordOps, BinaryOps, UnaryOps, CompareOps, DivideOps
  <2>3. Length(i.op) = 1  BY <2>1, <2>2, Zenon DEF Length
  <2> QED  BY <1>1, <2>1, <2>3
<1>3. CASE i \in [op : ByteOps, imm : Byte]
  <2>1. i.op \in ByteOps /\ i.imm \in Byte  BY <1>3
  <2>2. i.op \notin SimpleOps \cup HalfOps \cup WordOps
    BY <2>1 DEF SimpleOps, ByteOps, HalfOps, WordOps, BinaryOps, UnaryOps, CompareOps, DivideOps
  <2>3. Length(i.op) = 2  BY <2>1, <2>2, Zenon DEF Length
  <2> QED  BY <1>1, <2>1, <2>3
<1>4. CASE i \in [op : HalfOps, imm : Half]
  <2>1. i.op \in HalfOps /\ i.imm \in Half  BY <1>4
  <2>2. i.op \notin SimpleOps \cup ByteOps \cup WordOps
    BY <2>1 DEF SimpleOps, ByteOps, HalfOps, WordOps, BinaryOps, UnaryOps, CompareOps, DivideOps
  <2>3. Length(i.op) = 3  BY <2>1, <2>2, Zenon DEF Length
  <2> QED  BY <1>1, <2>1, <2>3
<1>5. CASE i \in [op : WordOps, imm : Word]
  <2>1. i.op \in WordOps /\ i.imm \in Word  BY <1>5
  <2>2. i.op \notin SimpleOps \cup HalfOps \cup ByteOps
    BY <2>1 DEF SimpleOps, ByteOps, HalfOps, WordOps, BinaryOps, UnaryOps, CompareOps, DivideOps
  <2>3. Length(i.op) = 5  BY <2>1, <2>2, Zenon DEF Length
  <2> QED  BY <2>1, <2>3
<1> QED  BY <1>2, <1>3, <1>4, <1>5 DEF Instruction

\* A fetched instruction has an immediate word and a next pc; it is in a
\* function, which is an object of the machine.
LEMMA FetchType ==
  ASSUME TypeOK, NEW op, NEW imm, Fetch(op, imm)
  PROVE  /\ imm \in Word /\ NextPc(op) \in Word
         /\ function \in DOMAIN objs /\ objs[function] \in Object
<1> DEFINE i == [op |-> op, imm |-> imm]
<1>1. i \in Instruction  BY TinyVMAssumption DEF Fetch
<1>2. Length(op) \in 1 .. 5 /\ imm \in Word
  <2>1. Length(i.op) \in 1 .. 5 /\ i.imm \in Word
    <3> HIDE DEF i
    <3> QED  BY <1>1, LengthType
  <2> QED  BY <2>1
<1>3. pc + Length(op) \in Int
  BY <1>2, WordSizes DEF TypeOK, Word
<1>4. NextPc(op) \in Word
  BY <1>3, ModWord DEF NextPc
<1>5. function \in DOMAIN objs /\ objs[function] \in Object
  BY DEF Fetch, TypeOK
<1> QED  BY <1>2, <1>4, <1>5

\* An instruction that continues behind itself keeps the registers typed.
LEMMA StraightType ==
  ASSUME TypeOK, NEW op, NEW imm, Fetch(op, imm), Straight(op), DOMAIN objs \subseteq DOMAIN objs'
  PROVE  RegsOK'
<1>1. pc' \in Word  BY FetchType DEF Straight
<1> QED  BY <1>1 DEF Straight, RegsOK, TypeOK

----------------------------------------------------------------------------
(***************************************************************************)
(* Each instruction keeps the types.                                       *)
(***************************************************************************)

\* The facts the lemmas below start from, and what they have to show when the
\* instruction neither branches nor touches objects.
LEMMA StraightStep ==
  ASSUME TypeOK, NEW op, NEW imm, Fetch(op, imm), Straight(op), UNCHANGED objs,
         StackOK(stack') /\ status' \in Status
  PROVE  TypeOK'
<1>1. RegsOK'  BY StraightType
<1>2. ObjsOK(objs)'  BY DEF TypeOK, ObjsOK
<1> QED  BY <1>1, <1>2 DEF TypeOK, StackOK, ObjsOK, RegsOK, Status

\* Constants, moves on the stack, arithmetic and local variables.
LEMMA StackInstructions ==
  ASSUME TypeOK, NEW op, NEW imm,
         \/ VmBcImm32(imm) \/ VmBcHandle(imm) \/ VmBcPop(imm) \/ VmBcPeek(imm)
         \/ VmBcSwap \/ VmBcBinary(op) \/ VmBcUnary(op)
         \/ VmBcLdVar(imm) \/ VmBcStVar(imm)
  PROVE  TypeOK'
<1>1. StackOK(stack) /\ status \in Status /\ Len(stack) \in Nat
  BY TypeParts DEF StackOK
<1>2. CASE VmBcImm32(imm)
  <2>1. Fetch("IMM32", imm) /\ Straight("IMM32") /\ UNCHANGED objs /\ Push(stack, imm)
    BY <1>2 DEF VmBcImm32
  <2>2. imm \in Word  BY <2>1, FetchType
  <2>3. StackOK(stack') /\ status' \in Status  BY <1>1, <2>1, <2>2, PushType
  <2> QED  BY <2>1, <2>3, StraightStep
<1>3. CASE VmBcHandle(imm)
  <2>1. Fetch("HANDLE", imm) /\ Straight("HANDLE") /\ UNCHANGED objs
        /\ (Push(stack, imm) \/ Fail(stack))
    BY <1>3 DEF VmBcHandle
  <2>2. imm \in Word  BY <2>1, FetchType
  <2>3. StackOK(stack') /\ status' \in Status  BY <1>1, <2>1, <2>2, PushType, EndType
  <2> QED  BY <2>1, <2>3, StraightStep
<1>4. CASE VmBcPop(imm)
  <2>1. Fetch("POP", imm) /\ Straight("POP") /\ UNCHANGED objs
    BY <1>4 DEF VmBcPop
  <2>2. \/ Fail(stack)
        \/ Return0(Drop(stack, 1)) /\ StackOK(Drop(stack, 1))
    BY <1>1, <1>4, DropStack DEF VmBcPop
  <2>3. StackOK(stack') /\ status' \in Status  BY <1>1, <2>2, EndType
  <2> QED  BY <2>1, <2>3, StraightStep
<1>5. CASE VmBcPeek(imm)
  <2>1. Fetch("PEEK", imm) /\ Straight("PEEK") /\ UNCHANGED objs
    BY <1>5 DEF VmBcPeek
  <2>2. imm \in Nat
    BY <2>1, FetchType, WordSizes DEF Word
  <2>3. \/ Fail(stack)
        \/ Push(stack, stack[Len(stack) - imm]) /\ stack[Len(stack) - imm] \in Word
    BY <1>1, <1>5, <2>2, SlotIsWord DEF VmBcPeek
  <2>4. StackOK(stack') /\ status' \in Status  BY <1>1, <2>3, EndType, PushType
  <2> QED  BY <2>1, <2>4, StraightStep
<1>6. CASE VmBcSwap
  <2>1. Fetch("SWAP", 0) /\ Straight("SWAP") /\ UNCHANGED objs
    BY <1>6 DEF VmBcSwap
  <2> SUFFICES StackOK(stack') /\ status' \in Status
    BY <2>1, StraightStep
  <2> DEFINE swapped == Drop(stack, 2) \o <<Top(stack), stack[Len(stack) - 1]>>
  <2>2. CASE Len(stack) >= 2
    <3>1. StackOK(Drop(stack, 2)) /\ Len(Drop(stack, 2)) = Len(stack) - 2
      BY <1>1, <2>2, DropStack
    <3>2. Top(stack) \in Word /\ stack[Len(stack) - 1] \in Word
      BY <1>1, <2>2, SlotIsWord DEF Top
    <3>3. StackOK(swapped)
      BY <1>1, <3>1, <3>2, TinyVMAssumption DEF StackOK
    <3>4. Return0(swapped)  BY <1>6, <2>2 DEF VmBcSwap
    <3> HIDE DEF swapped
    <3> QED  BY <1>1, <3>3, <3>4, EndType
  <2>3. CASE ~ (Len(stack) >= 2)
    <3>1. Fail(stack)  BY <1>6, <2>3 DEF VmBcSwap
    <3> QED  BY <1>1, <3>1, EndType
  <2> QED  BY <2>2, <2>3
<1>7. ASSUME NEW n \in 1 .. 2, Len(stack) >= n, NEW z \in Word
      PROVE  StackOK(Append(Drop(stack, n), z))
  <2>1. StackOK(Drop(stack, n)) /\ Len(Drop(stack, n)) = Len(stack) - n
    BY <1>1, <1>7, DropStack
  <2> QED  BY <1>1, <1>7, <2>1, TinyVMAssumption DEF StackOK
<1>8. CASE VmBcBinary(op)
  <2>1. Fetch(op, 0) /\ Straight(op) /\ UNCHANGED objs
    BY <1>8 DEF VmBcBinary
  <2>2. \/ Fail(stack)
        \/ Len(stack) >= 2 /\ Fail(Drop(stack, 2))
        \/ Len(stack) >= 2 /\ \E z \in Operands : Return0(Append(Drop(stack, 2), z))
    BY <1>1, <1>8 DEF VmBcBinary
  <2>3. Len(stack) >= 2 => StackOK(Drop(stack, 2))
    BY <1>1, DropStack
  <2>4. Len(stack) >= 2 => \A z \in Operands : StackOK(Append(Drop(stack, 2), z))
    BY <1>7, TinyVMAssumption
  <2>5. StackOK(stack') /\ status' \in Status
    BY <1>1, <2>2, <2>3, <2>4, EndType
  <2> QED  BY <2>1, <2>5, StraightStep
<1>9. CASE VmBcUnary(op)
  <2>1. Fetch(op, 0) /\ Straight(op) /\ UNCHANGED objs
    BY <1>9 DEF VmBcUnary
  <2>2. \/ Fail(stack)
        \/ Len(stack) >= 1 /\ \E z \in Operands : Return0(Append(Drop(stack, 1), z))
    BY <1>1, <1>9 DEF VmBcUnary
  <2>3. Len(stack) >= 1 => \A z \in Operands : StackOK(Append(Drop(stack, 1), z))
    BY <1>7, TinyVMAssumption
  <2>4. StackOK(stack') /\ status' \in Status
    BY <1>1, <2>2, <2>3, EndType
  <2> QED  BY <2>1, <2>4, StraightStep
<1>10. HasLocal(imm) => LocalIndex(objs[function], imm) + 1 \in 1 .. Len(stack)
  BY <1>1 DEF HasLocal, OnStack
<1>11. CASE VmBcLdVar(imm)
  <2>1. Fetch("LDVAR", imm) /\ Straight("LDVAR") /\ UNCHANGED objs
    BY <1>11 DEF VmBcLdVar
  <2> DEFINE slot == LocalIndex(objs[function], imm) + 1
  <2>2. \/ Fail(stack)
        \/ Push(stack, stack[slot]) /\ slot \in 1 .. Len(stack)
    BY <1>10, <1>11 DEF VmBcLdVar, At
  <2> HIDE DEF slot
  <2>3. StackOK(stack') /\ status' \in Status
    BY <1>1, <2>2, SlotIsWord, EndType, PushType
  <2> QED  BY <2>1, <2>3, StraightStep
<1>12. CASE VmBcStVar(imm)
  <2>1. Fetch("STVAR", imm) /\ Straight("STVAR") /\ UNCHANGED objs
    BY <1>12 DEF VmBcStVar
  <2> DEFINE slot == LocalIndex(objs[function], imm) + 1
             written == [stack EXCEPT ![slot] = Top(stack)]
  <2>2. \/ Fail(stack)
        \/ Return0(Drop(written, 1)) /\ slot \in 1 .. Len(stack)
    BY <1>10, <1>12 DEF VmBcStVar
  <2> HIDE DEF slot
  <2>3. ASSUME slot \in 1 .. Len(stack)  PROVE StackOK(Drop(written, 1))
    <3>1. Top(stack) \in Word  BY <1>1, <2>3, SlotIsWord DEF Top
    <3>2. written \in Seq(Word) /\ Len(written) = Len(stack)
      BY <1>1, <2>3, <3>1, ExceptSeq DEF StackOK
    <3>3. StackOK(written) /\ 1 \in 0 .. Len(written)
      BY <1>1, <2>3, <3>2 DEF StackOK
    <3> HIDE DEF written
    <3> QED  BY <3>3, DropStack
  <2>4. StackOK(stack') /\ status' \in Status
    <3> HIDE DEF written
    <3> QED  BY <1>1, <2>2, <2>3, EndType
  <2> QED  BY <2>1, <2>4, StraightStep
<1> QED
  BY <1>2, <1>3, <1>4, <1>5, <1>6, <1>8, <1>9, <1>11, <1>12

\* A branch stays within the address space (VmBcJmp, VmBcBt, VmBcBf): the sum
\* of the pc and the offset is allowed only if it does not wrap around.
LEMMA JumpType ==
  ASSUME TypeOK, NEW op, NEW imm, Fetch(op, imm), imm \in Half,
         NEW s, StackOK(s), Jump(op, imm, s)
  PROVE  StackOK(stack') /\ status' \in Status /\ pc' \in Word
<1>1. status \in Status  BY TypeParts
<1>2. SignedHalf(imm) \in Int
  BY WordSizes DEF Half, SignedHalf
<1>3. CASE JumpAllowed(SignedHalf(imm))
  <2>1. Return0(s) /\ pc' = pc + 1 + SignedHalf(imm)
    BY <1>3 DEF Jump
  <2>2. pc \in 0 .. WordMod - 1  BY DEF TypeOK, Word
  <2>3. pc + 1 + SignedHalf(imm) \in 0 .. WordMod - 1
    <3> DEFINE offset == SignedHalf(imm)
    <3>1. /\ pc <= WordMod - 2
          /\ offset > 0 => offset <= WordMod - 2 - pc
          /\ offset < 0 => -offset <= pc + 1
      BY <1>3 DEF JumpAllowed
    <3> HIDE DEF offset, WordMod
    <3>2. offset \in Int  BY <1>2 DEF offset
    <3>3. pc + 1 + offset \in 0 .. WordMod - 1
      BY <2>2, <3>1, <3>2, WordSizes
    <3> QED  BY <3>3 DEF offset
  <2> QED  BY <1>1, <2>1, <2>3, EndType DEF Word
<1>4. CASE ~ JumpAllowed(SignedHalf(imm))
  <2>1. Fail(s) /\ pc' = NextPc(op)
    BY <1>4 DEF Jump
  <2> QED  BY <1>1, <2>1, FetchType, EndType
<1> QED  BY <1>3, <1>4

\* The immediate of a branch is a half-word.
LEMMA BranchImmediate ==
  ASSUME NEW op \in {"JMP", "BT", "BF"}, NEW imm, Fetch(op, imm)
  PROVE  imm \in Half
<1> DEFINE i == [op |-> op, imm |-> imm]
<1>1. i \in Instruction  BY TinyVMAssumption DEF Fetch
<1>2. op \notin SimpleOps \cup ByteOps \cup WordOps
  BY DEF SimpleOps, ByteOps, WordOps, BinaryOps, UnaryOps, CompareOps, DivideOps
<1>3. i \in [op : HalfOps, imm : Half]
  <2>1. i.op = op  OBVIOUS
  <2> HIDE DEF i
  <2> QED  BY <1>1, <1>2, <2>1 DEF Instruction
<1> QED  BY <1>3

LEMMA BranchInstructions ==
  ASSUME TypeOK, NEW op, NEW imm, VmBcJmp(imm) \/ VmBcBranch(op, imm)
  PROVE  TypeOK'
<1>1. StackOK(stack) /\ status \in Status  BY TypeParts
<1>2. UNCHANGED <<function, fp, objs>>
  BY DEF VmBcJmp, VmBcBranch
<1>3. StackOK(stack') /\ status' \in Status /\ pc' \in Word
  <2>1. CASE VmBcJmp(imm)
    <3>1. Fetch("JMP", imm) /\ Jump("JMP", imm, stack)
      BY <2>1 DEF VmBcJmp
    <3> QED  BY <1>1, <3>1, BranchImmediate, JumpType
  <2>2. CASE VmBcBranch(op, imm)
    <3>1. Fetch(op, imm) /\ op \in {"BT", "BF"}
      BY <2>2 DEF VmBcBranch
    <3>2. imm \in Half /\ NextPc(op) \in Word
      BY <3>1, BranchImmediate, FetchType
    <3>3. \/ Fail(stack) /\ pc' = NextPc(op)
          \/ stack # <<>> /\ Jump(op, imm, Drop(stack, 1))
          \/ stack # <<>> /\ Return0(Drop(stack, 1)) /\ pc' = NextPc(op)
      BY <2>2 DEF VmBcBranch
    <3>4. stack # <<>> => StackOK(Drop(stack, 1))
      BY <1>1, DropStack DEF StackOK
    <3> QED  BY <1>1, <3>1, <3>2, <3>3, <3>4, JumpType, EndType
  <2> QED  BY <2>1, <2>2
<1> QED  BY <1>2, <1>3 DEF TypeOK, StackOK, Status

----------------------------------------------------------------------------
(***************************************************************************)
(* Calls and returns.                                                      *)
(***************************************************************************)

\* The bytes of an object that has a function header.
LEMMA HeaderType ==
  ASSUME NEW obj \in Object, HasHeader(obj)
  PROVE  /\ NumResults(obj) \in Byte /\ NumArgs(obj) \in Byte /\ NumLocals(obj) \in Byte
         /\ FrameSlots(obj) \in Nat /\ FrameSlots(obj) >= SavedSlots
<1>1. obj.data \in Seq(Byte)  BY DEF Object
<1>2. NumResults(obj) \in Byte /\ NumArgs(obj) \in Byte /\ NumLocals(obj) \in Byte
  BY <1>1 DEF HasHeader, InBuffer, NumResults, NumArgs, NumLocals, MemByte
<1> QED  BY <1>2, WordSizes DEF Byte, FrameSlots, SavedSlots

\* A call either leaves the caller's registers, or makes the target, which is
\* an object, the active function (VmSetupCall).
LEMMA SetupCallType ==
  ASSUME NEW o, ObjsOK(o), NEW caller, NEW target \in Word,
         caller.function \in DOMAIN o \cup {NullHandle},
         caller.pc \in Word, caller.fp \in Word, StackOK(stack),
         VmSetupCall(o, stack, caller, target)
  PROVE  /\ StackOK(stack') /\ status' \in Status
         /\ function' \in DOMAIN o \cup {NullHandle}
         /\ pc' \in Word /\ fp' \in Word
<1> DEFINE saved == <<caller.function, caller.pc, caller.fp>>
<1>1. saved \in Seq(Word) /\ Len(saved) = SavedSlots
  <2>1. caller.function \in Word
    BY ByteIsWord DEF ObjsOK, Handle, NullHandle
  <2> QED  BY <2>1 DEF SavedSlots
<1>2. Room(stack, SavedSlots) => StackOK(stack \o saved)
  <2> HIDE DEF saved
  <2> QED  BY <1>1 DEF Room, StackOK
<1>3. ASSUME Stay(caller), Fail(stack) \/ (Fail(stack \o saved) /\ Room(stack, SavedSlots))
      PROVE  /\ StackOK(stack') /\ status' \in Status
             /\ function' \in DOMAIN o \cup {NullHandle}
             /\ pc' \in Word /\ fp' \in Word
  BY <1>2, <1>3 DEF Stay, Fail, Status
<1>4. ASSUME NEW header \in CallHeaders(o, target)
      PROVE  target \in DOMAIN o /\ header.locals \in Nat
  <2>1. CASE target \notin DOMAIN o
    <3>1. CallHeaders(o, target) = {}
      BY <2>1, Zenon DEF CallHeaders
    <3> QED  BY <1>4, <3>1
  <2>2. CASE target \in DOMAIN o /\ ~ Accessible(o[target])
    <3>1. CallHeaders(o, target) = [args : JunkBytes, locals : JunkBytes]
      BY <2>2, Zenon DEF CallHeaders
    <3>2. header.locals \in Byte
      BY <1>4, <3>1, TinyVMAssumption
    <3> QED  BY <2>2, <3>2, WordSizes DEF Byte
  <2>3. CASE target \in DOMAIN o /\ Accessible(o[target])
    <3>1. CallHeaders(o, target) =
            {[args |-> NumArgs(obj), locals |-> NumLocals(obj)] :
               obj \in {x \in {o[target]} : HasHeader(x)}}
      BY <2>3, Zenon DEF CallHeaders
    <3>2. header.locals = NumLocals(o[target]) /\ HasHeader(o[target])
      BY <1>4, <3>1
    <3>3. o[target] \in Object  BY <2>3 DEF ObjsOK
    <3>4. header.locals \in Byte
      BY <3>2, <3>3, HeaderType
    <3> QED  BY <2>3, <3>4, WordSizes DEF Byte
  <2> QED  BY <2>1, <2>2, <2>3
<1>5. ASSUME NEW header \in CallHeaders(o, target),
             Room(stack \o saved, header.locals),
             stack' = stack \o saved \o Zeros(header.locals),
             status' = "running", function' = target, pc' = 0, fp' = Len(stack) % WordMod
      PROVE  /\ StackOK(stack') /\ status' \in Status
             /\ function' \in DOMAIN o \cup {NullHandle}
             /\ pc' \in Word /\ fp' \in Word
  <2>1. header.locals \in Nat  BY <1>4, <1>5
  <2>2. Zeros(header.locals) \in Seq(Word) /\ Len(Zeros(header.locals)) = header.locals
    BY <2>1, ByteIsWord DEF Zeros
  <2>3. StackOK(stack \o saved \o Zeros(header.locals))
    <3> DEFINE t == stack \o saved
               z == Zeros(header.locals)
    <3>1. t \in Seq(Word)  BY <1>1, ConcatProperties DEF StackOK
    <3> HIDE DEF t, z
    <3>2. t \o z \in Seq(Word) /\ Len(t \o z) = Len(t) + Len(z)
      BY <2>2, <3>1, ConcatProperties DEF z
    <3>3. Len(t) + Len(z) <= MaxStack  BY <1>5, <2>2 DEF Room, t, z
    <3> QED  BY <3>2, <3>3 DEF StackOK, t, z
  <2>4. fp' \in Word
    <3>1. Len(stack) \in Int  BY DEF StackOK
    <3> QED  BY <1>5, <3>1, ModWord
  <2> QED  BY <1>4, <1>5, <2>3, <2>4, ByteIsWord DEF Status
<1> QED
  <2>1. CASE HeaderUnreadable(o, target) /\ Fail(stack) /\ Stay(caller)
    BY <1>3, <2>1
  <2>2. CASE \E header \in CallHeaders(o, target) :
           \/ /\ ~ (Len(stack) >= header.args /\ Room(stack, SavedSlots))
              /\ Fail(stack) /\ Stay(caller)
           \/ /\ Len(stack) >= header.args /\ Room(stack, SavedSlots)
              /\ ~ Room(stack \o saved, header.locals)
              /\ Fail(stack \o saved) /\ Stay(caller)
           \/ /\ Len(stack) >= header.args /\ Room(stack \o saved, header.locals)
              /\ stack' = stack \o saved \o Zeros(header.locals)
              /\ status' = "running"
              /\ function' = target
              /\ pc' = 0
              /\ fp' = Len(stack) % WordMod
    <3> HIDE DEF saved
    <3> QED  BY <1>3, <1>5, <2>2
  <2> QED  BY <2>1, <2>2 DEF VmSetupCall

LEMMA CallInstruction ==
  ASSUME TypeOK, NEW imm, VmBcCall(imm)
  PROVE  TypeOK'
<1> DEFINE caller == [function |-> function, pc |-> NextPc("CALL"), fp |-> fp]
<1>1. Fetch("CALL", imm) /\ VmSetupCall(objs, stack, caller, imm) /\ UNCHANGED objs
  BY DEF VmBcCall
<1>2. imm \in Word /\ NextPc("CALL") \in Word  BY <1>1, FetchType
<1>3. StackOK(stack) /\ ObjsOK(objs) /\ RegsOK  BY TypeParts
<1>4. /\ StackOK(stack') /\ status' \in Status
      /\ function' \in DOMAIN objs \cup {NullHandle}
      /\ pc' \in Word /\ fp' \in Word
  <2>1. caller.function = function /\ caller.pc = NextPc("CALL") /\ caller.fp = fp
    OBVIOUS
  <2> HIDE DEF caller
  <2> QED  BY <1>1, <1>2, <1>3, <2>1, SetupCallType DEF RegsOK
<1> QED  BY <1>1, <1>3, <1>4 DEF TypeOK, StackOK, ObjsOK, Status

\* A return restores registers that are words, and a function that is still an
\* object of the machine, even when the frame it finds is no frame (VmBcRet).
LEMMA ReturnInstruction ==
  ASSUME TypeOK, VmBcRet
  PROVE  TypeOK'
<1>1. Fetch("RET", 0) /\ UNCHANGED objs
  BY DEF VmBcRet
<1>2. StackOK(stack) /\ ObjsOK(objs) /\ RegsOK /\ status \in Status /\ Len(stack) \in Nat
  BY TypeParts DEF StackOK
<1>3. CASE Straight("RET") /\ Fail(stack)
  <2>1. StackOK(stack') /\ status' \in Status  BY <1>2, <1>3, EndType
  <2> QED  BY <1>1, <1>3, <2>1, StraightStep
<1>4. CASE CallersRegsReadable /\ HasHeader(objs[function]) /\ ReturnFrom(objs[function])
  <2> DEFINE obj == objs[function]
             sp == Len(stack)
             slots == FrameSlots(obj)
             resultTop == sp - slots
             results == NumResults(obj)
  <2>1. results \in Nat /\ slots \in Nat /\ slots > 0
    BY <1>1, <1>4, FetchType, HeaderType, WordSizes DEF Byte, SavedSlots
  <2>2. \A n \in Nat : resultTop >= 0 =>
          /\ StackOK(CopyResults(stack, resultTop, n))
          /\ Len(CopyResults(stack, resultTop, n)) = sp
    <3> HIDE DEF slots
    <3> QED  BY <1>2, <2>1, CopyResultsType
  <2>3. \/ Fail(stack) /\ Straight("RET")
        \/ /\ resultTop >= 0
           /\ Fail(CopyResults(stack, resultTop, resultTop)) /\ Straight("RET")
        \/ /\ resultTop >= 0
           /\ Return0(Drop(CopyResults(stack, resultTop, results), slots))
           /\ function' = IF Caller(0) \in DOMAIN objs THEN Caller(0) ELSE NullHandle
           /\ pc' = Caller(1) /\ fp' = Caller(2)
    <3>1. resultTop \in Int
      <4> HIDE DEF slots
      <4> QED  BY <1>2, <2>1
    <3> QED  BY <1>4, <3>1 DEF ReturnFrom
  <2> HIDE DEF obj, slots, results
  <2>4. CASE resultTop >= 0 /\ Fail(CopyResults(stack, resultTop, resultTop)) /\ Straight("RET")
    <3>1. resultTop \in Nat  BY <1>2, <2>1, <2>4
    <3>2. StackOK(CopyResults(stack, resultTop, resultTop))  BY <2>2, <2>4, <3>1
    <3>3. StackOK(stack') /\ status' \in Status  BY <1>2, <2>4, <3>2, EndType
    <3> QED  BY <1>1, <2>4, <3>3, StraightStep
  <2>5. CASE /\ resultTop >= 0
             /\ Return0(Drop(CopyResults(stack, resultTop, results), slots))
             /\ function' = IF Caller(0) \in DOMAIN objs THEN Caller(0) ELSE NullHandle
             /\ pc' = Caller(1) /\ fp' = Caller(2)
    <3>1. StackOK(Drop(CopyResults(stack, resultTop, results), slots))
      <4> DEFINE copied == CopyResults(stack, resultTop, results)
      <4>1. StackOK(copied) /\ Len(copied) = sp  BY <2>1, <2>2, <2>5
      <4>2. slots \in 0 .. Len(copied)  BY <1>2, <2>1, <2>5, <4>1
      <4> HIDE DEF copied
      <4>3. StackOK(Drop(copied, slots))  BY <4>1, <4>2, DropStack
      <4> QED  BY <4>3 DEF copied
    <3>2. StackOK(stack') /\ status' \in Status  BY <1>2, <2>5, <3>1, EndType
    <3>3. \A k \in 0 .. 2 : Caller(k) \in Word
      BY <1>2, <1>4, SlotIsWord DEF CallersRegsReadable, OnStack, Caller, At
    <3>4. RegsOK'
      BY <1>1, <2>5, <3>3 DEF RegsOK
    <3> QED  BY <1>1, <1>2, <3>2, <3>4 DEF TypeOK, StackOK, ObjsOK, RegsOK, Status
  <2> QED  BY <1>3, <2>3, <2>4, <2>5
<1> QED  BY <1>3, <1>4 DEF VmBcRet

----------------------------------------------------------------------------
(***************************************************************************)
(* Objects.                                                                *)
(***************************************************************************)

\* What VmDerefObject leaves is a stack, and the operands it read are words.
LEMMA DerefType ==
  ASSUME TypeOK
  PROVE  /\ StackOK(AfterDeref)
         /\ Dereferenced => /\ DerefHandle \in DOMAIN objs
                            /\ objs[DerefHandle] \in Object
                            /\ DerefOffset \in Nat
<1>1. StackOK(stack) /\ ObjsOK(objs)  BY TypeParts
<1>2. Len(stack) \in Nat  BY <1>1 DEF StackOK
<1>3. StackOK(AfterDeref)
  BY <1>1, <1>2, DropStack DEF AfterDeref
<1>4. ASSUME Dereferenced
      PROVE  DerefHandle \in DOMAIN objs /\ objs[DerefHandle] \in Object /\ DerefOffset \in Nat
  <2>1. DerefOffset \in Word
    BY <1>1, <1>2, <1>4, SlotIsWord DEF Dereferenced, DerefOffset
  <2> QED  BY <1>1, <1>4, <2>1, WordSizes DEF Dereferenced, ObjsOK, Word
<1> QED  BY <1>3, <1>4

LEMMA LoadInstruction ==
  ASSUME TypeOK, NEW op, VmLd(op)
  PROVE  TypeOK'
<1>1. Fetch(op, 0) /\ Straight(op) /\ UNCHANGED objs
  BY DEF VmLd
<1>2. status \in Status  BY TypeParts
<1> DEFINE obj == objs[DerefHandle]
           word == IF op = "LDW" THEN MemWord(obj.data, DerefOffset, obj.big)
                                 ELSE MemByte(obj.data, DerefOffset)
<1>3. \/ Fail(AfterDeref)
      \/ /\ Dereferenced /\ InBuffer(obj.data, DerefOffset, Bytes(op))
         /\ Push(AfterDeref, word)
  BY DEF VmLd
<1>4. ASSUME Dereferenced, InBuffer(obj.data, DerefOffset, Bytes(op))
      PROVE  word \in Word
  <2>1. obj.data \in Seq(Byte) /\ obj.big \in BOOLEAN /\ DerefOffset \in Nat
    BY <1>4, DerefType DEF Object
  <2>2. CASE op = "LDW"
    <3>1. InBuffer(obj.data, DerefOffset, 4)  BY <1>4, <2>2 DEF Bytes
    <3> QED  BY <2>1, <2>2, <3>1, MemWordType
  <2>3. CASE op # "LDW"
    <3>1. InBuffer(obj.data, DerefOffset, 1) \/ InBuffer(obj.data, DerefOffset, 4)
      BY <1>4 DEF Bytes
    <3>2. MemByte(obj.data, DerefOffset) \in Byte
      BY <2>1, <3>1 DEF InBuffer, MemByte
    <3> QED  BY <2>3, <3>2, ByteIsWord
  <2> QED  BY <2>2, <2>3
<1> HIDE DEF word
<1>5. StackOK(stack') /\ status' \in Status
  BY <1>2, <1>3, <1>4, DerefType, EndType, PushType
<1> QED  BY <1>1, <1>5, StraightStep

\* A store puts an object back that differs in its bytes only, and in their
\* values, not in their number (VmSt).
LEMMA StoredType ==
  ASSUME NEW op, NEW obj \in Object, NEW offset \in Nat, NEW value \in Word
  PROVE  /\ Stored(op, obj, offset, value) \in Object
         /\ Stored(op, obj, offset, value).qualifiers = obj.qualifiers
         /\ Stored(op, obj, offset, value).big = obj.big
         /\ Len(Stored(op, obj, offset, value).data) = Len(obj.data)
<1> DEFINE data == IF op = "STW" THEN SetWord(obj.data, offset, value, obj.big)
                                 ELSE SetByte(obj.data, offset, value)
<1>1. data \in Seq(Byte) /\ Len(data) = Len(obj.data)
  <2>1. obj.data \in Seq(Byte) /\ obj.big \in BOOLEAN  BY DEF Object
  <2> QED  BY <2>1, SetByteType, SetWordType
<1>2. Stored(op, obj, offset, value) = [obj EXCEPT !.data = data]
  BY DEF Stored
<1> HIDE DEF data
<1> QED  BY <1>1, <1>2 DEF Object

LEMMA StoreInstruction ==
  ASSUME TypeOK, NEW op, VmSt(op)
  PROVE  TypeOK'
<1>1. Fetch(op, 0) /\ Straight(op)
  BY DEF VmSt
<1>2. StackOK(stack) /\ ObjsOK(objs) /\ status \in Status /\ Len(stack) \in Nat
  BY TypeParts DEF StackOK
<1> DEFINE obj == objs[DerefHandle]
           value == stack[Len(stack) - 2]
<1>3. Len(stack) >= 3 => StackOK(Drop(stack, 3)) /\ value \in Word
  BY <1>2, DropStack, SlotIsWord
<1>4. CASE (Fail(AfterDeref) \/ (Len(stack) >= 3 /\ StoreRefused(op))) /\ UNCHANGED objs
  <2>1. StackOK(stack') /\ status' \in Status
    BY <1>2, <1>3, <1>4, DerefType, EndType DEF StoreRefused
  <2> QED  BY <1>1, <1>4, <2>1, StraightStep
<1>5. CASE /\ Dereferenced /\ Len(stack) >= 3 /\ Return0(Drop(stack, 3))
           /\ objs' = [objs EXCEPT ![DerefHandle] = Stored(op, obj, DerefOffset, value)]
  <2>1. StackOK(stack') /\ status' \in Status
    BY <1>2, <1>3, <1>5, EndType
  <2>2. Stored(op, obj, DerefOffset, value) \in Object
    <3> HIDE DEF obj, value
    <3> QED  BY <1>3, <1>5, DerefType, StoredType DEF obj
  <2>3. ObjsOK(objs)' /\ DOMAIN objs' = DOMAIN objs
    <3> HIDE DEF obj, value
    <3> QED  BY <1>2, <1>5, <2>2 DEF ObjsOK
  <2>4. RegsOK'  BY <1>1, <2>3, StraightType
  <2> QED  BY <2>1, <2>3, <2>4 DEF TypeOK, StackOK, ObjsOK, RegsOK, Status
<1> QED  BY <1>4, <1>5 DEF VmSt

\* Adding one object under a fresh or an old handle (VmCreateObject).
LEMMA WithObjectType ==
  ASSUME NEW o, ObjsOK(o), NEW handle \in Handle, NEW obj \in Object
  PROVE  ObjsOK(WithObject(o, handle, obj)) /\ DOMAIN o \subseteq DOMAIN WithObject(o, handle, obj)
  BY DEF ObjsOK, WithObject

\* The scan of VMC_ALLOC finds a handle of the dynamic range that is not used.
LEMMA FirstFreeType ==
  ASSUME NEW o, FreeDynamicHandles(o) # {}
  PROVE  FirstFree(o) \in FreeDynamicHandles(o) /\ FirstFree(o) \in Handle
<1> DEFINE free == FreeDynamicHandles(o)
<1>1. free \subseteq Nat /\ free # {}
  BY DynamicHandlesAssumption DEF FreeDynamicHandles
<1>2. \E h \in free : \A g \in free : h <= g
  <2> HIDE DEF free
  <2> DEFINE less == OpToRel(<, Nat)
  <2>1. IsWellFoundedOn(less, Nat)  BY NatLessThanWellFounded
  <2>2. \A m, n \in Nat : <<m, n>> \notin less => n <= m
    BY DEF OpToRel
  <2> HIDE DEF less
  <2>3. PICK h \in free : \A g \in free : <<g, h>> \notin less
    BY <1>1, <2>1, WFMin
  <2> QED  BY <1>1, <2>2, <2>3
<1>3. FirstFree(o) \in free
  <2> HIDE DEF free
  <2>1. FirstFree(o) = CHOOSE h \in free : \A g \in free : h <= g
    BY DEF FirstFree, free
  <2> QED  BY <1>2, <2>1
<1>4. free \subseteq Handle
  <2> HIDE DEF WordMod
  <2> QED  BY DynamicHandlesAssumption, WordSizes DEF FreeDynamicHandles, Handle, Word, NullHandle
<1> QED  BY <1>3, <1>4

LEMMA VmCalls ==
  ASSUME TypeOK, NEW imm, VmBcVmc(imm)
  PROVE  TypeOK'
<1>1. StackOK(stack) /\ ObjsOK(objs) /\ status \in Status /\ Len(stack) \in Nat
  BY TypeParts DEF StackOK
<1>2. stack # <<>> => StackOK(Drop(stack, 1))
  BY <1>1, DropStack DEF StackOK
<1>3. CASE VmcExit
  <2>1. Fetch("VMC", VMC_EXIT) /\ Straight("VMC") /\ UNCHANGED objs
        /\ StackOK(stack') /\ status' \in Status
    BY <1>1, <1>3 DEF VmcExit, Status
  <2> QED  BY <2>1, StraightStep
<1>4. CASE VmcAssert
  <2>1. Fetch("VMC", VMC_ASSERT) /\ Straight("VMC") /\ UNCHANGED objs
    BY <1>4 DEF VmcAssert
  <2>2. StackOK(stack') /\ status' \in Status
    BY <1>1, <1>2, <1>4, EndType DEF VmcAssert
  <2> QED  BY <2>1, <2>2, StraightStep
<1>5. CASE VmcRead
  <2>1. Fetch("VMC", VMC_READ) /\ Straight("VMC") /\ UNCHANGED objs
    BY <1>5 DEF VmcRead
  <2>2. \/ Fail(stack)
        \/ \E in \in Word : Push(stack, in)
    BY <1>5, ByteIsWord DEF VmcRead
  <2>3. StackOK(stack') /\ status' \in Status
    BY <1>1, <2>2, EndType, PushType
  <2> QED  BY <2>1, <2>3, StraightStep
<1>6. CASE VmcWrite
  <2>1. Fetch("VMC", VMC_WRITE) /\ Straight("VMC") /\ UNCHANGED objs
    BY <1>6 DEF VmcWrite
  <2>2. StackOK(stack') /\ status' \in Status
    BY <1>1, <1>2, <1>6, EndType DEF VmcWrite
  <2> QED  BY <2>1, <2>2, StraightStep
<1>7. CASE VmcAlloc
  <2>1. Fetch("VMC", VMC_ALLOC) /\ Straight("VMC")
    BY <1>7 DEF VmcAlloc
  <2> DEFINE handle == FirstFree(objs)
             new == [qualifiers |-> {"DATA"}, data |-> <<>>, big |-> FALSE]
  <2>2. CASE /\ stack # <<>> /\ FreeDynamicHandles(objs) # {}
             /\ objs' = WithObject(objs, handle, new)
             /\ Push(Drop(stack, 1), handle)
    <3>1. handle \in Handle  BY <2>2, FirstFreeType
    <3>2. new \in Object  BY DEF Object, Qualifier
    <3> HIDE DEF handle, new
    <3>3. ObjsOK(objs)' /\ DOMAIN objs \subseteq DOMAIN objs'
      <4>1. ObjsOK(objs')  BY <1>1, <2>2, <3>1, <3>2, WithObjectType
      <4> QED  BY <1>1, <2>2, <3>1, <3>2, <4>1, WithObjectType DEF ObjsOK
    <3>4. RegsOK'  BY <2>1, <3>3, StraightType
    <3>5. StackOK(stack') /\ status' \in Status
      BY <1>1, <1>2, <2>2, <3>1, PushType DEF Handle
    <3> QED  BY <3>3, <3>4, <3>5 DEF TypeOK, StackOK, ObjsOK, RegsOK, Status
  <2>3. CASE /\ Fail(stack) \/ (stack # <<>> /\ Fail(Drop(stack, 1)))
             /\ UNCHANGED objs
    <3>1. StackOK(stack') /\ status' \in Status
      BY <1>1, <1>2, <2>3, EndType
    <3> QED  BY <2>1, <2>3, <3>1, StraightStep
  <2> QED  BY <1>7, <2>2, <2>3 DEF VmcAlloc, AllocPossible, SizePopped
<1>8. CASE VmcUnknown(imm)
  <2>1. Fetch("VMC", imm) /\ Straight("VMC") /\ UNCHANGED objs /\ Fail(stack)
    BY <1>8 DEF VmcUnknown
  <2>2. StackOK(stack') /\ status' \in Status
    BY <1>1, <2>1, EndType
  <2> QED  BY <2>1, <2>2, StraightStep
<1> QED  BY <1>3, <1>4, <1>5, <1>6, <1>7, <1>8 DEF VmBcVmc

----------------------------------------------------------------------------
(***************************************************************************)
(* Loading.                                                                *)
(***************************************************************************)

\* The objects of a unit join those of the machine (VmLoadByteCode).
LEMMA WithUnitType ==
  ASSUME NEW o, ObjsOK(o), NEW unit \in BinUnit, NEW k \in 0 .. Len(unit.objects),
         Creatable(o, unit, k)
  PROVE  ObjsOK(WithUnit(o, unit, k)) /\ DOMAIN o \subseteq DOMAIN WithUnit(o, unit, k)
<1> DEFINE new == {unit.objects[i].handle : i \in 1 .. k}
           index(h) == CHOOSE i \in 1 .. k : unit.objects[i].handle = h
<1>1. unit.objects \in Seq(BinObject)  BY DEF BinUnit
<1>2. \A i \in 1 .. k : unit.objects[i].handle \in Handle /\ unit.objects[i].object \in Object
  <2> TAKE i \in 1 .. k
  <2>1. unit.objects[i] \in BinObject  BY <1>1
  <2>2. unit.objects[i].handle # NullHandle  BY DEF Creatable, CanCreate
  <2> QED  BY <2>1, <2>2 DEF BinObject, Handle
<1>3. \A h \in new : index(h) \in 1 .. k
  OBVIOUS
<1>4. WithUnit(o, unit, k) =
        [h \in DOMAIN o \cup new |-> IF h \in new THEN unit.objects[index(h)].object ELSE o[h]]
  BY DEF WithUnit
<1>5. new \subseteq Handle  BY <1>2
<1> HIDE DEF new, index
<1> QED  BY <1>2, <1>3, <1>4, <1>5 DEF ObjsOK

LEMMA LoadType ==
  ASSUME TypeOK, NEW unit \in Units, VmLoadByteCode(unit)
  PROVE  TypeOK'
<1>1. StackOK(stack) /\ ObjsOK(objs) /\ RegsOK /\ status \in Status  BY TypeParts
<1>2. unit \in BinUnit  BY TinyVMAssumption
<1>3. CASE Fail(stack) /\ UNCHANGED <<regs, objs>>
  BY <1>1, <1>3 DEF Fail, regs, TypeOK, Status
<1>4. ASSUME NEW k \in 0 .. Len(unit.objects), Creatable(objs, unit, k),
             objs' = WithUnit(objs, unit, k),
             \/ Fail(stack) /\ UNCHANGED regs
             \/ VmSetupCall(WithUnit(objs, unit, k), stack,
                            [function |-> function, pc |-> pc, fp |-> fp], unit.entry)
      PROVE  TypeOK'
  <2>1. ObjsOK(objs') /\ DOMAIN objs \subseteq DOMAIN objs'
    BY <1>1, <1>2, <1>4, WithUnitType
  <2>2. CASE Fail(stack) /\ UNCHANGED regs
    BY <1>1, <2>1, <2>2 DEF Fail, regs, TypeOK, Status, ObjsOK
  <2>3. CASE VmSetupCall(WithUnit(objs, unit, k), stack,
                         [function |-> function, pc |-> pc, fp |-> fp], unit.entry)
    <3> DEFINE caller == [function |-> function, pc |-> pc, fp |-> fp]
               o == WithUnit(objs, unit, k)
    <3>1. unit.entry \in Word  BY <1>2 DEF BinUnit
    <3>2. /\ caller.function \in DOMAIN o \cup {NullHandle}
          /\ caller.pc \in Word /\ caller.fp \in Word
      BY <1>1, <1>4, <2>1 DEF RegsOK
    <3>3. ObjsOK(o)  BY <1>4, <2>1
    <3>4. VmSetupCall(o, stack, caller, unit.entry)  BY <2>3
    <3> HIDE DEF caller, o
    <3>5. /\ StackOK(stack') /\ status' \in Status
          /\ function' \in DOMAIN o \cup {NullHandle}
          /\ pc' \in Word /\ fp' \in Word
      BY <1>1, <3>1, <3>2, <3>3, <3>4, SetupCallType
    <3>6. objs' = o  BY <1>4 DEF o
    <3> QED  BY <2>1, <3>5, <3>6 DEF TypeOK, StackOK, ObjsOK, Status
  <2> QED  BY <1>4, <2>2, <2>3
<1> QED  BY <1>3, <1>4 DEF VmLoadByteCode

----------------------------------------------------------------------------
(***************************************************************************)
(* The machine.                                                            *)
(***************************************************************************)

LEMMA TypeInit == ASSUME Init PROVE TypeOK
<1>1. StackOK(stack)  BY TinyVMAssumption DEF Init, StackOK
<1>2. ObjsOK(objs)  BY DEF Init, ObjsOK
<1> QED  BY <1>1, <1>2, ByteIsWord DEF Init, TypeOK, StackOK, ObjsOK

LEMMA TypeStep == ASSUME TypeOK, [Next]_vars PROVE TypeOK'
<1>1. CASE UNCHANGED vars
  BY <1>1 DEF vars, TypeOK
<1>2. CASE VmStepFails
  BY <1>2 DEF VmStepFails, TypeOK
<1>3. ASSUME NEW i \in Bytecode, Execute(i.op, i.imm)
      PROVE  TypeOK'
  BY <1>3, StackInstructions, BranchInstructions, CallInstruction, ReturnInstruction,
     LoadInstruction, StoreInstruction, VmCalls DEF Execute
<1>4. ASSUME NEW unit \in Units, VmLoadFile(unit)
      PROVE  TypeOK'
  BY <1>4, LoadType DEF VmLoadFile
<1> QED  BY <1>1, <1>2, <1>3, <1>4 DEF Next, VmStep

\* For every program, loaded from every unit: the operand stack never exceeds
\* its limit, every slot, register and object byte keeps its width, and the
\* active function is an object of the machine, also after a return into a
\* frame the program has overwritten (vm_stack.c, vm_call.c).
THEOREM TypeCorrect == Spec => []TypeOK
<1>1. Init => TypeOK  BY TypeInit
<1>2. TypeOK /\ [Next]_vars => TypeOK'  BY TypeStep
<1> QED  BY <1>1, <1>2, PTL DEF Spec

----------------------------------------------------------------------------
(***************************************************************************)
(* What a failing step leaves alone.                                       *)
(***************************************************************************)

\* A call that fails leaves the registers with the caller, although it may
\* already have pushed them (VmSetupCall, VmBcCall).
LEMMA FailedCall ==
  ASSUME NEW imm, VmBcCall(imm), status' = "failed"
  PROVE  function' = function /\ fp' = fp
<1> DEFINE caller == [function |-> function, pc |-> NextPc("CALL"), fp |-> fp]
<1>1. VmSetupCall(objs, stack, caller, imm)  BY DEF VmBcCall
<1>2. caller.function = function /\ caller.fp = fp  OBVIOUS
<1> HIDE DEF caller
<1>3. Stay(caller)  BY <1>1 DEF VmSetupCall
<1> QED  BY <1>2, <1>3 DEF Stay

\* Only calls and returns change the frame; a return that fails has not.
LEMMA FailedExecute ==
  ASSUME NEW i \in Bytecode, Execute(i.op, i.imm), status = "running", status' = "failed"
  PROVE  function' = function /\ fp' = fp
<1>1. CASE VmBcCall(i.imm)
  BY <1>1, FailedCall
<1>2. CASE VmBcRet
  <2>1. \/ Straight("RET")
        \/ UNCHANGED status
    BY <1>2 DEF VmBcRet, ReturnFrom, Return0
  <2> QED  BY <2>1 DEF Straight
<1>3. CASE VmBcJmp(i.imm) \/ VmBcBranch(i.op, i.imm)
  BY <1>3 DEF VmBcJmp, VmBcBranch
<1>4. CASE \/ VmBcImm32(i.imm) \/ VmBcHandle(i.imm) \/ VmBcPop(i.imm) \/ VmBcPeek(i.imm)
           \/ VmBcSwap \/ VmBcBinary(i.op) \/ VmBcUnary(i.op)
           \/ VmBcLdVar(i.imm) \/ VmBcStVar(i.imm) \/ VmLd(i.op) \/ VmSt(i.op)
  <2>1. \E op \in {"IMM32", "HANDLE", "POP", "PEEK", "SWAP", "LDVAR", "STVAR", i.op} : Straight(op)
    BY <1>4 DEF VmBcImm32, VmBcHandle, VmBcPop, VmBcPeek, VmBcSwap, VmBcBinary, VmBcUnary,
                VmBcLdVar, VmBcStVar, VmLd, VmSt
  <2> QED  BY <2>1 DEF Straight
<1>5. CASE VmBcVmc(i.imm)
  <2>1. Straight("VMC")
    BY <1>5 DEF VmBcVmc, VmcExit, VmcAssert, VmcRead, VmcWrite, VmcAlloc, VmcUnknown
  <2> QED  BY <2>1 DEF Straight
<1> QED  BY <1>1, <1>2, <1>3, <1>4, <1>5 DEF Execute

\* Whatever the program, a step that fails stays in the frame it was executing
\* (VmSetupCall assigns the registers last, VmBcRet after its last check).
THEOREM FailuresKeepFrame == Spec => FailedStepKeepsFrame
<1>1. ASSUME [Next]_vars
      PROVE  [status = "running" /\ status' = "failed" => function' = function /\ fp' = fp]_vars
  <2>1. CASE UNCHANGED vars
    BY <2>1
  <2>2. CASE VmStepFails
    BY <2>2 DEF VmStepFails
  <2>3. ASSUME NEW i \in Bytecode, Execute(i.op, i.imm)
        PROVE  status = "running" /\ status' = "failed" => function' = function /\ fp' = fp
    BY <2>3, FailedExecute
  <2>4. ASSUME NEW unit \in Units, VmLoadFile(unit)
        PROVE  status # "running"
    BY <2>4 DEF VmLoadFile
  <2> QED  BY <1>1, <2>1, <2>2, <2>3, <2>4 DEF Next, VmStep
<1> QED  BY <1>1, PTL DEF Spec, FailedStepKeepsFrame

----------------------------------------------------------------------------
(***************************************************************************)
(* Objects are permanent.                                                  *)
(***************************************************************************)

\* What a step may do to the objects.
Kept(o, p) ==
  \A h \in DOMAIN o :
    /\ h \in DOMAIN p
    /\ p[h].qualifiers = o[h].qualifiers
    /\ p[h].big = o[h].big
    /\ Len(p[h].data) = Len(o[h].data)
    /\ "INMUTABLE" \in o[h].qualifiers => p[h] = o[h]

\* A store changes bytes of one object that is not INMUTABLE (VmSt).
LEMMA StoreKeeps ==
  ASSUME TypeOK, NEW op, VmSt(op)
  PROVE  Kept(objs, objs')
<1> DEFINE obj == objs[DerefHandle]
           value == stack[Len(stack) - 2]
<1>1. CASE UNCHANGED objs
  BY <1>1 DEF Kept
<1>2. CASE /\ Dereferenced /\ Storable(obj) /\ Len(stack) >= 3
           /\ objs' = [objs EXCEPT ![DerefHandle] = Stored(op, obj, DerefOffset, value)]
  <2>1. obj \in Object /\ DerefOffset \in Nat  BY <1>2, DerefType
  <2>2. value \in Word
    BY <1>2, SlotIsWord, TypeParts DEF StackOK
  <2> DEFINE new == Stored(op, obj, DerefOffset, value)
  <2>3. /\ new.qualifiers = obj.qualifiers /\ new.big = obj.big
        /\ Len(new.data) = Len(obj.data)
    <3> HIDE DEF obj, value
    <3> QED  BY <2>1, <2>2, StoredType
  <2>4. "INMUTABLE" \notin obj.qualifiers  BY <1>2 DEF Storable
  <2> HIDE DEF new
  <2>5. \A h \in DOMAIN objs : objs'[h] = IF h = DerefHandle THEN new ELSE objs[h]
    BY <1>2 DEF new
  <2>6. DOMAIN objs' = DOMAIN objs  BY <1>2
  <2> QED  BY <2>3, <2>4, <2>5, <2>6 DEF Kept
<1> QED  BY <1>1, <1>2 DEF VmSt

\* The handle of an allocated object was free (VmcAlloc).
LEMMA VmCallsKeep ==
  ASSUME NEW imm, VmBcVmc(imm)
  PROVE  Kept(objs, objs')
<1>1. CASE UNCHANGED objs
  BY <1>1 DEF Kept
<1>2. CASE VmcAlloc /\ ~ UNCHANGED objs
  <2>1. PICK new : /\ objs' = WithObject(objs, FirstFree(objs), new)
                   /\ FreeDynamicHandles(objs) # {}
    BY <1>2 DEF VmcAlloc, AllocPossible
  <2>2. FirstFree(objs) \notin DOMAIN objs
    BY <2>1, FirstFreeType DEF FreeDynamicHandles
  <2>3. \A h \in DOMAIN objs : h \in DOMAIN objs' /\ objs'[h] = objs[h]
    BY <2>1, <2>2 DEF WithObject
  <2> QED  BY <2>3 DEF Kept
<1> QED
  BY <1>1, <1>2 DEF VmBcVmc, VmcExit, VmcAssert, VmcRead, VmcWrite, VmcUnknown

\* The handles of a unit are free until its objects are created.
LEMMA LoadKeeps ==
  ASSUME NEW unit, VmLoadByteCode(unit)
  PROVE  Kept(objs, objs')
<1>1. CASE UNCHANGED objs
  BY <1>1 DEF Kept
<1>2. ASSUME NEW k \in 0 .. Len(unit.objects), Creatable(objs, unit, k),
             objs' = WithUnit(objs, unit, k)
      PROVE  Kept(objs, objs')
  <2> DEFINE new == {unit.objects[i].handle : i \in 1 .. k}
  <2>1. \A h \in new : h \notin DOMAIN objs
    BY <1>2 DEF Creatable, CanCreate
  <2>2. \A h \in DOMAIN objs : h \in DOMAIN objs' /\ objs'[h] = objs[h]
    <3>1. objs' = [h \in DOMAIN objs \cup new |->
                     IF h \in new
                       THEN unit.objects[CHOOSE i \in 1 .. k : unit.objects[i].handle = h].object
                       ELSE objs[h]]
      BY <1>2 DEF WithUnit
    <3> HIDE DEF new
    <3> QED  BY <2>1, <3>1
  <2> QED  BY <2>2 DEF Kept
<1> QED  BY <1>1, <1>2 DEF VmLoadByteCode

LEMMA StepKeeps == ASSUME TypeOK, [Next]_vars PROVE Kept(objs, objs')
<1>1. CASE UNCHANGED objs
  BY <1>1 DEF Kept
<1>2. ASSUME NEW i \in Bytecode, Execute(i.op, i.imm)
      PROVE  Kept(objs, objs')
  <2>1. CASE VmSt(i.op)      BY <2>1, StoreKeeps
  <2>2. CASE VmBcVmc(i.imm)  BY <2>2, VmCallsKeep
  <2>3. CASE ~ VmSt(i.op) /\ ~ VmBcVmc(i.imm)
    <3>1. UNCHANGED objs
      BY <1>2, <2>3 DEF Execute, VmBcImm32, VmBcHandle, VmBcPop, VmBcPeek, VmBcSwap, VmBcBinary,
             VmBcUnary, VmBcJmp, VmBcBranch, VmBcCall, VmBcRet, VmBcLdVar, VmBcStVar, VmLd
    <3> QED  BY <1>1, <3>1
  <2> QED  BY <2>1, <2>2, <2>3
<1>3. ASSUME NEW unit \in Units, VmLoadFile(unit)
      PROVE  Kept(objs, objs')
  BY <1>3, LoadKeeps DEF VmLoadFile
<1> QED  BY <1>1, <1>2, <1>3 DEF Next, VmStep, VmStepFails, vars

\* No program, and no unit that is loaded, can take an object away, resize it,
\* requalify it, or change a byte of an INMUTABLE one (VmSt, VmcAlloc,
\* VmCreateObject).
THEOREM ObjectsArePermanent == Spec => ObjectsPermanent
<1>1. ASSUME TypeOK, [Next]_vars
      PROVE  [\A h \in DOMAIN objs :
                /\ h \in DOMAIN objs'
                /\ objs'[h].qualifiers = objs[h].qualifiers
                /\ objs'[h].big = objs[h].big
                /\ Len(objs'[h].data) = Len(objs[h].data)
                /\ "INMUTABLE" \in objs[h].qualifiers => objs'[h] = objs[h]]_vars
  BY <1>1, StepKeeps DEF Kept
<1> QED  BY <1>1, TypeCorrect, PTL DEF Spec, ObjectsPermanent

----------------------------------------------------------------------------
(***************************************************************************)
(* A failing step leaves the objects alone.                                *)
(***************************************************************************)

\* A store that fails has not stored; one that stored does not fail (VmSt).
LEMMA FailedStore ==
  ASSUME NEW op, VmSt(op), status = "running", status' = "failed"
  PROVE  objs' = objs
<1>1. \/ UNCHANGED objs
      \/ Return0(Drop(stack, 3))
  BY DEF VmSt
<1> QED  BY <1>1 DEF Return0

\* The slot of the size is free for the handle when VmcAlloc pushes it, so a
\* created object is delivered.
LEMMA FailedAlloc ==
  ASSUME TypeOK, VmcAlloc, status = "running", status' = "failed"
  PROVE  objs' = objs
<1>1. StackOK(stack)  BY TypeParts
<1>2. ASSUME stack # <<>>, NEW handle, Push(SizePopped(stack), handle)
      PROVE  FALSE
  <2>1. Len(stack) \in Nat /\ Len(stack) # 0  BY <1>1, <1>2 DEF StackOK
  <2>2. StackOK(SizePopped(stack)) /\ Len(SizePopped(stack)) = Len(stack) - 1
    BY <1>1, <2>1, DropStack DEF SizePopped
  <2>3. Room(SizePopped(stack), 1)
    BY <1>1, <2>1, <2>2 DEF Room, StackOK
  <2> QED  BY <1>2, <2>3 DEF Push, Return0
<1> QED  BY <1>2 DEF VmcAlloc

\* Whatever the program, a step that fails has changed no object: no object is
\* half written, and none is created whose handle the program does not get
\* (VmSt, VmcAlloc).
THEOREM FailuresKeepObjects == Spec => FailedStepKeepsObjects
<1>1. ASSUME TypeOK, [Next]_vars
      PROVE  [status = "running" /\ status' = "failed" => objs' = objs]_vars
  <2>1. CASE UNCHANGED vars
    BY <2>1
  <2>2. CASE VmStepFails
    BY <2>2 DEF VmStepFails
  <2>3. ASSUME NEW i \in Bytecode, Execute(i.op, i.imm), status = "running", status' = "failed"
        PROVE  objs' = objs
    <3>1. CASE VmSt(i.op)
      BY <2>3, <3>1, FailedStore
    <3>2. CASE VmcAlloc
      BY <1>1, <2>3, <3>2, FailedAlloc
    <3>3. CASE ~ VmSt(i.op) /\ ~ VmcAlloc
      BY <2>3, <3>3 DEF Execute, VmBcImm32, VmBcHandle, VmBcPop, VmBcPeek, VmBcSwap, VmBcBinary,
             VmBcUnary, VmBcJmp, VmBcBranch, VmBcCall, VmBcRet, VmBcLdVar, VmBcStVar, VmLd,
             VmBcVmc, VmcExit, VmcAssert, VmcRead, VmcWrite, VmcUnknown
    <3> QED  BY <3>1, <3>2, <3>3
  <2>4. ASSUME NEW unit \in Units, VmLoadFile(unit)
        PROVE  status # "running"
    BY <2>4 DEF VmLoadFile
  <2> QED  BY <1>1, <2>1, <2>2, <2>3, <2>4 DEF Next, VmStep
<1> QED  BY <1>1, TypeCorrect, PTL DEF Spec, FailedStepKeepsObjects

----------------------------------------------------------------------------
(***************************************************************************)
(* What runs is one unit, as it was written.                               *)
(***************************************************************************)

\* A machine that has loaded nothing has no object.
NothingLoaded == status = "created" => DOMAIN objs = {}

\* Only a machine that runs executes an instruction (Fetch).
LEMMA ExecuteRuns ==
  ASSUME NEW i \in Bytecode, Execute(i.op, i.imm)
  PROVE  status = "running"
<1>1. \E op, imm : Fetch(op, imm)
  BY DEF Execute, VmBcImm32, VmBcHandle, VmBcPop, VmBcPeek, VmBcSwap, VmBcBinary,
         VmBcUnary, VmBcJmp, VmBcBranch, VmBcCall, VmBcRet, VmBcLdVar, VmBcStVar, VmLd, VmSt,
         VmBcVmc, VmcExit, VmcAssert, VmcRead, VmcWrite, VmcAlloc, VmcUnknown
<1> QED  BY <1>1 DEF Fetch

\* No instruction takes a machine back to where nothing is loaded.
LEMMA ExecuteStatus ==
  ASSUME NEW i \in Bytecode, Execute(i.op, i.imm)
  PROVE  status' # "created"
<1>1. status = "running"  BY ExecuteRuns
<1>2. \/ UNCHANGED status
      \/ status' \in {"running", "failed", "terminated"}
  <2>1. CASE \/ VmBcImm32(i.imm) \/ VmBcHandle(i.imm) \/ VmBcPop(i.imm) \/ VmBcPeek(i.imm)
             \/ VmBcSwap
    BY <2>1 DEF VmBcImm32, VmBcHandle, VmBcPop, VmBcPeek, VmBcSwap, Push, Return0, Fail
  <2>2. CASE VmBcBinary(i.op) \/ VmBcUnary(i.op)
    BY <2>2 DEF VmBcBinary, VmBcUnary, Return0, Fail
  <2>3. CASE VmBcJmp(i.imm) \/ VmBcBranch(i.op, i.imm)
    BY <2>3 DEF VmBcJmp, VmBcBranch, Jump, Return0, Fail
  <2>4. CASE VmBcCall(i.imm)
    <3>1. PICK caller : VmSetupCall(objs, stack, caller, i.imm)  BY <2>4 DEF VmBcCall
    <3> QED  BY <3>1 DEF VmSetupCall, Fail
  <2>5. CASE VmBcRet
    BY <2>5 DEF VmBcRet, ReturnFrom, Return0, Fail
  <2>6. CASE VmBcLdVar(i.imm) \/ VmBcStVar(i.imm) \/ VmLd(i.op) \/ VmSt(i.op)
    BY <2>6 DEF VmBcLdVar, VmBcStVar, VmLd, VmSt, StoreRefused, Push, Return0, Fail
  <2>7. CASE VmBcVmc(i.imm)
    BY <2>7 DEF VmBcVmc, VmcExit, VmcAssert, VmcRead, VmcWrite, VmcAlloc, VmcUnknown,
                Push, Return0, Fail
  <2> QED  BY <2>1, <2>2, <2>3, <2>4, <2>5, <2>6, <2>7 DEF Execute
<1> QED  BY <1>1, <1>2

\* A load ends the state in which nothing is loaded, well or not.
LEMMA LoadStatus ==
  ASSUME NEW unit, VmLoadByteCode(unit)
  PROVE  status' \in {"running", "failed"}
<1>1. CASE Fail(stack)
  BY <1>1 DEF Fail
<1>2. CASE \E o, caller, target : VmSetupCall(o, stack, caller, target)
  <2>1. PICK o, caller, target : VmSetupCall(o, stack, caller, target)  BY <1>2
  <2> QED  BY <2>1 DEF VmSetupCall, Fail
<1> QED  BY <1>1, <1>2 DEF VmLoadByteCode

LEMMA NothingLoadedInit == ASSUME Init PROVE NothingLoaded
  BY DEF Init, NothingLoaded

LEMMA NothingLoadedStep == ASSUME NothingLoaded, [Next]_vars PROVE NothingLoaded'
<1>1. CASE UNCHANGED vars
  BY <1>1 DEF vars, NothingLoaded
<1>2. CASE VmStepFails
  BY <1>2 DEF VmStepFails, NothingLoaded
<1>3. ASSUME NEW i \in Bytecode, Execute(i.op, i.imm)
      PROVE  NothingLoaded'
  BY <1>3, ExecuteStatus DEF NothingLoaded
<1>4. ASSUME NEW unit \in Units, VmLoadFile(unit)
      PROVE  NothingLoaded'
  BY <1>4, LoadStatus DEF NothingLoaded, VmLoadFile
<1> QED  BY <1>1, <1>2, <1>3, <1>4 DEF Next, VmStep

\* The objects after a load that succeeded from nothing are those of the unit:
\* no two have the same handle, so none has replaced another (VmLoadByteCode,
\* VmCreateObject).
LEMMA WholeUnit ==
  ASSUME NEW o, DOMAIN o = {}, NEW unit \in BinUnit,
         Creatable(o, unit, Len(unit.objects))
  PROVE  LET p == WithUnit(o, unit, Len(unit.objects))
         IN  /\ DOMAIN p = {unit.objects[i].handle : i \in DOMAIN unit.objects}
             /\ \A i \in DOMAIN unit.objects :
                  p[unit.objects[i].handle] = unit.objects[i].object
<1> DEFINE n == Len(unit.objects)
           handle(i) == unit.objects[i].handle
           new == {handle(i) : i \in 1 .. n}
           index(h) == CHOOSE i \in 1 .. n : handle(i) = h
<1>1. n \in Nat /\ DOMAIN unit.objects = 1 .. n  BY DEF BinUnit
<1>2. WithUnit(o, unit, n) =
        [h \in DOMAIN o \cup new |-> IF h \in new THEN unit.objects[index(h)].object ELSE o[h]]
  BY DEF WithUnit
<1>3. \A i \in 1 .. n : \A j \in 1 .. i - 1 : handle(j) # handle(i)
  BY DEF Creatable
<1>4. \A i, j \in 1 .. n : handle(i) = handle(j) => i = j
  <2> HIDE DEF n, handle
  <2> SUFFICES ASSUME NEW i \in 1 .. n, NEW j \in 1 .. n, handle(i) = handle(j)
               PROVE  i = j
    OBVIOUS
  <2>1. ~ (j \in 1 .. i - 1) /\ ~ (i \in 1 .. j - 1)  BY <1>3
  <2> QED  BY <1>1, <2>1
<1>5. ASSUME NEW i \in 1 .. n
      PROVE  handle(i) \in new /\ index(handle(i)) = i
  <2> HIDE DEF n, handle
  <2>1. index(handle(i)) \in 1 .. n /\ handle(index(handle(i))) = handle(i)  OBVIOUS
  <2> QED  BY <1>4, <2>1
<1> HIDE DEF n, index
<1>6. ASSUME NEW i \in 1 .. n
      PROVE  WithUnit(o, unit, n)[handle(i)] = unit.objects[i].object
  BY <1>2, <1>5
<1>7. DOMAIN WithUnit(o, unit, n) = new  BY <1>2
<1> QED  BY <1>1, <1>6, <1>7 DEF n

\* Only a unit that is complete and loads whole reaches its entry function: a
\* machine that starts to run holds exactly the objects of one unit, each with
\* the content the unit gives it (VmLoadByteCode, VmSetupCall).
THEOREM RunsWhatWasWritten == Spec => LoadedAsWritten
<1> DEFINE Whole(unit) ==
             /\ unit.valid /\ unit.complete
             /\ DOMAIN objs' = {unit.objects[i].handle : i \in DOMAIN unit.objects}
             /\ \A i \in DOMAIN unit.objects :
                  objs'[unit.objects[i].handle] = unit.objects[i].object
             /\ function' = unit.entry
<1>1. ASSUME NothingLoaded, [Next]_vars
      PROVE  [status = "created" /\ status' = "running" => \E unit \in Units : Whole(unit)]_vars
  <2>1. CASE UNCHANGED vars
    BY <2>1
  <2>2. CASE VmStep
    <3>1. status = "running"
      BY <2>2, ExecuteRuns DEF VmStep, VmStepFails
    <3> QED  BY <3>1
  <2>3. ASSUME NEW unit \in Units, VmLoadFile(unit), status' = "running"
        PROVE  Whole(unit)
    <3>1. DOMAIN objs = {}  BY <1>1, <2>3 DEF NothingLoaded, VmLoadFile
    <3>2. unit \in BinUnit  BY TinyVMAssumption
    <3> DEFINE n == Len(unit.objects)
    <3>3. /\ unit.valid /\ unit.complete
          /\ Creatable(objs, unit, n)
          /\ objs' = WithUnit(objs, unit, n)
          /\ \E caller : VmSetupCall(WithUnit(objs, unit, n), stack, caller, unit.entry)
      BY <2>3 DEF VmLoadFile, VmLoadByteCode, Fail
    <3>4. function' = unit.entry
      <4> HIDE DEF n
      <4>1. PICK caller : VmSetupCall(WithUnit(objs, unit, n), stack, caller, unit.entry)
        BY <3>3
      <4> QED  BY <2>3, <4>1 DEF VmSetupCall, Fail
    <3>5. /\ DOMAIN objs' = {unit.objects[i].handle : i \in DOMAIN unit.objects}
          /\ \A i \in DOMAIN unit.objects :
               objs'[unit.objects[i].handle] = unit.objects[i].object
      <4> DEFINE p == WithUnit(objs, unit, n)
      <4>1. Creatable(objs, unit, n) /\ objs' = p  BY <3>3
      <4>2. /\ DOMAIN p = {unit.objects[i].handle : i \in DOMAIN unit.objects}
            /\ \A i \in DOMAIN unit.objects :
                 p[unit.objects[i].handle] = unit.objects[i].object
        BY <3>1, <3>2, <4>1, WholeUnit, Zenon
      <4> HIDE DEF p
      <4> QED  BY <4>1, <4>2
    <3>6. unit.valid /\ unit.complete  BY <3>3
    <3> QED  BY <3>4, <3>5, <3>6, Zenon
  <2> QED  BY <1>1, <2>1, <2>2, <2>3 DEF Next
<1>2. Spec => []NothingLoaded
  <2>1. Init => NothingLoaded  BY NothingLoadedInit
  <2>2. NothingLoaded /\ [Next]_vars => NothingLoaded'  BY NothingLoadedStep
  <2> QED  BY <2>1, <2>2, PTL DEF Spec
<1> QED  BY <1>1, <1>2, PTL DEF Spec, LoadedAsWritten

-----------------------------------------------------------------------------
(***************************************************************************)
(* Programs that keep to the calling convention, for every such program    *)
(* and every stack limit that frame pointers reach.                        *)
(***************************************************************************)

FrameRecord == [function : Word, pc : Word, fp : Word, at : Nat, below : Seq(Word)]

\* The function of the i-th pending call, and how many slots it needs up to its
\* operands.
Callee(i) == IF i = Len(frames) THEN function ELSE frames[i + 1].function
Code(i)   == objs[Callee(i)]
Base(i)   == frames[i].at + SavedSlots + NumLocals(Code(i))

\* Nothing has happened to a machine before its load.
Fresh == /\ stack = <<>> /\ frames = <<>> /\ DOMAIN objs = {}
         /\ function = NullHandle /\ pc = 0 /\ fp = 0

\* The frame of the i-th call: the callers' part of the stack, the arguments,
\* and then the registers of the caller, as they were when the call was made.
Seated(i) ==
  /\ IsFunction(objs, Callee(i))
  /\ frames[i].at = Len(frames[i].below) + NumArgs(Code(i))
  /\ Base(i) <= Len(stack)
  /\ stack[frames[i].at + 1] = frames[i].function
  /\ stack[frames[i].at + 2] = frames[i].pc
  /\ stack[frames[i].at + 3] = frames[i].fp
  /\ \A k \in 1 .. Len(frames[i].below) : stack[k] = frames[i].below[k]

\* The frames lie one above the other and are linked; the lowest is that of the
\* entry function, which nobody has called.
Ordered ==
  /\ \A i, j \in 1 .. Len(frames) : i < j => Base(i) <= Len(frames[j].below)
  /\ \A i \in 1 .. Len(frames) : i > 1 => frames[i].fp = frames[i - 1].at
  /\ IF frames = <<>> THEN function = NullHandle
                      ELSE frames[1].function = NullHandle /\ fp = Active.at

FramesOK ==
  /\ frames \in Seq(FrameRecord)
  /\ status = "created" => Fresh
  /\ \A h \in DOMAIN objs : Len(objs[h].data) < WordMod
  /\ \A i \in 1 .. Len(frames) : Seated(i)
  /\ Ordered

FInv == TypeOK /\ FramesOK

----------------------------------------------------------------------------
(***************************************************************************)
(* Steps and functions.                                                    *)
(***************************************************************************)

\* The programs that behave are programs.
LEMMA FNextIsNext == ASSUME FNext PROVE Next
<1>1. ASSUME NEW unit \in Units, FLoad(unit)  PROVE Next
  BY <1>1 DEF FLoad, Next
<1>2. ASSUME NEW i \in Bytecode, FLocal(i.op, i.imm)  PROVE Next
  BY <1>2 DEF FLocal, Next, VmStep
<1>3. ASSUME NEW imm, VmBcCall(imm)  PROVE Next
  <2> DEFINE i == [op |-> "CALL", imm |-> imm]
  <2>1. i \in Bytecode  BY <1>3 DEF VmBcCall, Fetch
  <2>2. Execute(i.op, i.imm)  BY <1>3 DEF Execute
  <2> HIDE DEF i
  <2> QED  BY <2>1, <2>2 DEF Next, VmStep
<1>4. CASE VmBcRet
  <2> DEFINE i == [op |-> "RET", imm |-> 0]
  <2>1. i \in Bytecode  BY <1>4 DEF VmBcRet, Fetch
  <2>2. Execute(i.op, i.imm)  BY <1>4 DEF Execute
  <2> HIDE DEF i
  <2> QED  BY <2>1, <2>2 DEF Next, VmStep
<1> QED  BY <1>1, <1>2, <1>3, <1>4 DEF FNext, FCall, FRet, Next, VmStep

\* The code of a function, and with it the layout of its frame, is permanent.
LEMMA FunctionStays ==
  ASSUME NEW o, NEW p, NEW h, IsFunction(o, h), Kept(o, p)
  PROVE  IsFunction(p, h) /\ p[h] = o[h]
  BY DEF IsFunction, Kept

\* The layout of a function's frame is a matter of numbers.
LEMMA FunctionType ==
  ASSUME NEW o, ObjsOK(o), NEW h, IsFunction(o, h)
  PROVE  /\ o[h] \in Object /\ HasHeader(o[h]) /\ Accessible(o[h])
         /\ NumResults(o[h]) \in Nat /\ NumArgs(o[h]) \in Nat /\ NumLocals(o[h]) \in Nat
<1>1. o[h] \in Object /\ HasHeader(o[h])  BY DEF IsFunction, ObjsOK
<1>2. Accessible(o[h])  BY <1>1 DEF HasHeader, InBuffer, Accessible, Object
<1> QED  BY <1>1, <1>2, HeaderType, WordSizes DEF Byte

\* One stack on top of another.
LEMMA Concat ==
  ASSUME NEW a \in Seq(Word), NEW b \in Seq(Word)
  PROVE  /\ a \o b \in Seq(Word)
         /\ Len(a) \in Nat /\ Len(b) \in Nat /\ Len(a \o b) = Len(a) + Len(b)
         /\ \A k \in 1 .. Len(a) : (a \o b)[k] = a[k]
         /\ \A k \in 1 .. Len(b) : (a \o b)[Len(a) + k] = b[k]
<1>1. Len(a) \in Nat /\ Len(b) \in Nat  OBVIOUS
<1>2. /\ a \o b \in Seq(Word) /\ Len(a \o b) = Len(a) + Len(b)
      /\ \A k \in 1 .. Len(a) + Len(b) :
           (a \o b)[k] = IF k <= Len(a) THEN a[k] ELSE b[k - Len(a)]
  BY ConcatProperties
<1>3. ASSUME NEW k \in 1 .. Len(a)  PROVE (a \o b)[k] = a[k]
  BY <1>1, <1>2
<1>4. ASSUME NEW k \in 1 .. Len(b)  PROVE (a \o b)[Len(a) + k] = b[k]
  <2>1. Len(a) + k \in 1 .. Len(a) + Len(b) /\ ~ (Len(a) + k <= Len(a)) /\ Len(a) + k - Len(a) = k
    BY <1>1
  <2> QED  BY <1>2, <2>1
<1> QED  BY <1>1, <1>2, <1>3, <1>4

----------------------------------------------------------------------------
(***************************************************************************)
(* Instructions that stay in their frame.                                  *)
(***************************************************************************)

\* All but the topmost n slots are as before.
Stable(n) ==
  Len(stack') >= Len(stack) - n /\ \A k \in 1 .. Len(stack) - n : stack'[k] = stack[k]

\* A handler that ends, or pushes, on what is left of the stack.
LEMMA EndStable ==
  ASSUME StackOK(stack), NEW n \in Nat, NEW m \in 0 .. n, m <= Len(stack), NEW word,
         \/ Return0(Drop(stack, m)) \/ Fail(Drop(stack, m)) \/ Push(Drop(stack, m), word)
  PROVE  Stable(n)
<1> DEFINE s == Drop(stack, m)
<1>1. /\ s \in Seq(Word) /\ Len(s) = Len(stack) - m /\ Len(stack) \in Nat
      /\ \A k \in 1 .. Len(stack) - m : s[k] = stack[k]
  <2>1. Len(stack) \in Nat  BY DEF StackOK
  <2>2. m \in 0 .. Len(stack)  BY <2>1
  <2>3. /\ StackOK(s) /\ Len(s) = Len(stack) - m
        /\ \A k \in 1 .. Len(stack) - m : s[k] = stack[k]
    BY <2>2, DropStack
  <2> QED  BY <2>1, <2>3 DEF StackOK
<1>2. stack' = s \/ stack' = Append(s, word)
  BY DEF Return0, Fail, Push
<1> HIDE DEF s
<1>3. CASE stack' = s  BY <1>1, <1>3 DEF Stable
<1>4. CASE stack' = Append(s, word)
  <2>1. s \in Seq(Word)  BY <1>1
  <2>2. Len(stack') = Len(s) + 1 /\ \A k \in 1 .. Len(s) : stack'[k] = s[k]
    BY <1>4, <2>1
  <2> QED  BY <1>1, <2>2 DEF Stable
<1> QED  BY <1>2, <1>3, <1>4

LEMMA AppendStable ==
  ASSUME StackOK(stack), NEW n \in Nat, n <= Len(stack), NEW word,
         Return0(Append(Drop(stack, n), word))
  PROVE  Stable(n)
<1> DEFINE s == Drop(stack, n)
<1>1. n \in 0 .. Len(stack) /\ Len(stack) \in Nat  BY DEF StackOK
<1>2. /\ StackOK(s) /\ Len(s) = Len(stack) - n
      /\ \A k \in 1 .. Len(stack) - n : s[k] = stack[k]
  BY <1>1, DropStack
<1>3. stack' = Append(s, word)  BY DEF Return0
<1> HIDE DEF s
<1>4. Len(stack') = Len(s) + 1 /\ \A k \in 1 .. Len(s) : stack'[k] = s[k]
  BY <1>2, <1>3 DEF StackOK
<1> QED  BY <1>1, <1>2, <1>4 DEF Stable

LEMMA DropNothing == ASSUME StackOK(stack) PROVE Drop(stack, 0) = stack
  BY DEF StackOK, Drop

\* As above for a handler that has not popped anything.
LEMMA KeepStable ==
  ASSUME StackOK(stack), NEW n \in Nat, NEW word,
         Return0(stack) \/ Fail(stack) \/ Push(stack, word)
  PROVE  Stable(n)
<1>1. 0 \in 0 .. n /\ 0 <= Len(stack)  BY DEF StackOK
<1>2. Return0(Drop(stack, 0)) \/ Fail(Drop(stack, 0)) \/ Push(Drop(stack, 0), word)
  BY DropNothing
<1> QED  BY <1>1, <1>2, EndStable

\* The operands that an instruction takes; one that behaves takes them from its
\* own frame.
LEMMA TakenOf ==
  ASSUME NEW op, NEW imm
  PROVE  /\ op \in Operands0 => Taken(op, imm) = 0
         /\ op \in BinaryOps \cup {"SWAP", "LDW", "LDB"} => Taken(op, imm) = 2
         /\ op \in UnaryOps \cup {"POP", "BT", "BF", "STVAR"} => Taken(op, imm) = 1
         /\ op \in {"STW", "STB"} => Taken(op, imm) = 3
         /\ op = "VMC" => Taken(op, imm) =
                            IF imm \in {VMC_ASSERT, VMC_WRITE, VMC_ALLOC} THEN 1 ELSE 0
<1> DEFINE two == BinaryOps \cup {"SWAP", "LDW", "LDB"}
           one == UnaryOps \cup {"POP", "BT", "BF", "STVAR"}
<1>1. CASE op \in Operands0
  <2>1. op \notin two \cup one \cup {"STW", "STB", "VMC", "CALL", "RET"}
    BY <1>1 DEF Operands0, BinaryOps, UnaryOps, CompareOps, DivideOps
  <2>2. Taken(op, imm) = 0  BY <1>1, <2>1, Zenon DEF Taken
  <2> QED  BY <2>1, <2>2
<1>2. CASE op \in two
  <2>1. op \notin Operands0 \cup one \cup {"STW", "STB", "VMC", "CALL", "RET"}
    BY <1>2 DEF Operands0, BinaryOps, UnaryOps, CompareOps, DivideOps
  <2>2. Taken(op, imm) = 2  BY <1>2, <2>1, Zenon DEF Taken
  <2> QED  BY <2>1, <2>2
<1>3. CASE op \in one
  <2>1. op \notin Operands0 \cup two \cup {"STW", "STB", "VMC", "CALL", "RET"}
    BY <1>3 DEF Operands0, BinaryOps, UnaryOps, CompareOps, DivideOps
  <2>2. Taken(op, imm) = 1  BY <1>3, <2>1, Zenon DEF Taken
  <2> QED  BY <2>1, <2>2
<1>4. CASE op \in {"STW", "STB"}
  <2>1. op \notin Operands0 \cup two \cup one \cup {"VMC", "CALL", "RET"}
    BY <1>4 DEF Operands0, BinaryOps, UnaryOps, CompareOps, DivideOps
  <2>2. Taken(op, imm) = 3  BY <1>4, <2>1, Zenon DEF Taken
  <2> QED  BY <2>1, <2>2
<1>5. CASE op = "VMC"
  <2>1. op \notin Operands0 \cup two \cup one \cup {"STW", "STB", "CALL", "RET"}
    BY <1>5 DEF Operands0, BinaryOps, UnaryOps, CompareOps, DivideOps
  <2>2. Taken(op, imm) = IF imm \in {VMC_ASSERT, VMC_WRITE, VMC_ALLOC} THEN 1 ELSE 0
    BY <1>5, <2>1, Zenon DEF Taken
  <2> QED  BY <2>1, <2>2
<1> QED  BY <1>1, <1>2, <1>3, <1>4, <1>5

\* Constants, moves on the stack, arithmetic and reading a local change nothing
\* below the operands they take.
LEMMA StableStack ==
  ASSUME StackOK(stack), NEW op, NEW imm, Taken(op, imm) <= Len(stack),
         \/ op = "IMM32"  /\ VmBcImm32(imm)
         \/ op = "HANDLE" /\ VmBcHandle(imm)
         \/ op = "POP"    /\ VmBcPop(imm)
         \/ op = "PEEK"   /\ VmBcPeek(imm)
         \/ op = "LDVAR"  /\ VmBcLdVar(imm)
         \/ op \in UnaryOps  /\ VmBcUnary(op)
         \/ op \in BinaryOps /\ VmBcBinary(op)
  PROVE  Stable(Taken(op, imm))
<1>1. Len(stack) \in Nat  BY DEF StackOK
<1>2. CASE \/ op = "IMM32"  /\ VmBcImm32(imm)
           \/ op = "HANDLE" /\ VmBcHandle(imm)
           \/ op = "PEEK"   /\ VmBcPeek(imm)
           \/ op = "LDVAR"  /\ VmBcLdVar(imm)
  <2>1. Taken(op, imm) = 0  BY <1>2, TakenOf DEF Operands0
  <2>2. \E word : Fail(stack) \/ Push(stack, word)
    BY <1>2 DEF VmBcImm32, VmBcHandle, VmBcPeek, VmBcLdVar
  <2> QED  BY <2>1, <2>2, KeepStable
<1>3. CASE op = "POP" /\ VmBcPop(imm)
  <2>1. Taken(op, imm) = 1  BY <1>3, TakenOf
  <2>2. Fail(stack) \/ Return0(Drop(stack, 1))  BY <1>3 DEF VmBcPop
  <2> QED  BY <1>1, <2>1, <2>2, KeepStable, EndStable
<1>4. CASE op \in UnaryOps /\ VmBcUnary(op)
  <2>1. Taken(op, imm) = 1  BY <1>4, TakenOf
  <2>2. Fail(stack) \/ \E z : Return0(Append(Drop(stack, 1), z))  BY <1>4 DEF VmBcUnary
  <2> QED  BY <1>1, <2>1, <2>2, KeepStable, AppendStable
<1>5. CASE op \in BinaryOps /\ VmBcBinary(op)
  <2>1. Taken(op, imm) = 2  BY <1>5, TakenOf
  <2>2. \/ Fail(stack) \/ Fail(Drop(stack, 2))
        \/ \E z : Return0(Append(Drop(stack, 2), z))
    BY <1>5 DEF VmBcBinary
  <2> QED  BY <1>1, <2>1, <2>2, KeepStable, EndStable, AppendStable
<1> QED  BY <1>2, <1>3, <1>4, <1>5

\* An exchange of the two topmost slots, and a branch on one of them.
LEMMA SwapAndBranchStack ==
  ASSUME StackOK(stack), NEW op, NEW imm, Taken(op, imm) <= Len(stack),
         \/ op = "SWAP" /\ VmBcSwap
         \/ op = "JMP"  /\ VmBcJmp(imm)
         \/ op \in {"BT", "BF"} /\ VmBcBranch(op, imm)
  PROVE  Stable(Taken(op, imm))
<1>1. Len(stack) \in Nat  BY DEF StackOK
<1>2. CASE op = "SWAP" /\ VmBcSwap
  <2>1. Taken(op, imm) = 2  BY <1>2, TakenOf
  <2> DEFINE s == Drop(stack, 2)
             t == <<Top(stack), stack[Len(stack) - 1]>>
  <2>2. 2 \in 0 .. Len(stack)  BY <1>1, <2>1
  <2>3. /\ s \in Seq(Word) /\ Len(s) = Len(stack) - 2
        /\ \A k \in 1 .. Len(stack) - 2 : s[k] = stack[k]
    BY <2>2, DropStack DEF StackOK
  <2>4. t \in Seq(Word)  BY <1>1, <2>2, SlotIsWord DEF Top
  <2>5. stack' = s \o t
    BY <1>2, <2>1, <2>2 DEF VmBcSwap, Return0
  <2> HIDE DEF s, t
  <2>6. Len(stack') = Len(s) + Len(t) /\ \A k \in 1 .. Len(s) : stack'[k] = s[k]
    BY <2>3, <2>4, <2>5
  <2>7. Len(t) \in Nat  BY <2>4
  <2> QED  BY <1>1, <2>1, <2>2, <2>3, <2>6, <2>7 DEF Stable
<1>3. CASE op = "JMP" /\ VmBcJmp(imm)
  <2>1. Taken(op, imm) = 0  BY <1>3, TakenOf DEF Operands0
  <2>2. Fail(stack) \/ Return0(stack)  BY <1>3 DEF VmBcJmp, Jump
  <2> QED  BY <2>1, <2>2, KeepStable
<1>4. CASE op \in {"BT", "BF"} /\ VmBcBranch(op, imm)
  <2>1. Taken(op, imm) = 1  BY <1>4, TakenOf
  <2>2. \/ Fail(stack) \/ Return0(stack)
        \/ Fail(Drop(stack, 1)) \/ Return0(Drop(stack, 1))
    BY <1>4 DEF VmBcBranch, Jump
  <2> QED  BY <1>1, <2>1, <2>2, KeepStable, EndStable
<1> QED  BY <1>2, <1>3, <1>4

\* Loads and stores pop two or three operands and push at most one word.
LEMMA AccessStack ==
  ASSUME StackOK(stack), NEW op, NEW imm, Taken(op, imm) <= Len(stack),
         \/ op \in {"LDW", "LDB"} /\ VmLd(op)
         \/ op \in {"STW", "STB"} /\ VmSt(op)
  PROVE  Stable(Taken(op, imm))
<1>1. Len(stack) \in Nat  BY DEF StackOK
<1>2. CASE op \in {"LDW", "LDB"} /\ VmLd(op)
  <2>1. Taken(op, imm) = 2  BY <1>2, TakenOf
  <2>2. AfterDeref = Drop(stack, 2)  BY <2>1 DEF AfterDeref
  <2>3. \E word : Fail(Drop(stack, 2)) \/ Push(Drop(stack, 2), word)
    BY <1>2, <2>2 DEF VmLd
  <2> QED  BY <1>1, <2>1, <2>3, EndStable
<1>3. CASE op \in {"STW", "STB"} /\ VmSt(op)
  <2>1. Taken(op, imm) = 3  BY <1>3, TakenOf
  <2>2. AfterDeref = Drop(stack, 2)  BY <1>1, <2>1 DEF AfterDeref
  <2>3. \/ Fail(Drop(stack, 2)) \/ Fail(Drop(stack, 3)) \/ Return0(Drop(stack, 3))
    BY <1>3, <2>2 DEF VmSt, StoreRefused
  <2> QED  BY <1>1, <2>1, <2>3, EndStable
<1> QED  BY <1>2, <1>3

\* Machine calls pop at most one operand and push at most one word.
LEMMA VmCallStack ==
  ASSUME StackOK(stack), NEW imm, Taken("VMC", imm) <= Len(stack), VmBcVmc(imm)
  PROVE  Stable(Taken("VMC", imm))
<1>1. Len(stack) \in Nat  BY DEF StackOK
<1>2. Taken("VMC", imm) = IF imm \in {VMC_ASSERT, VMC_WRITE, VMC_ALLOC} THEN 1 ELSE 0
  BY TakenOf
<1>3. CASE VmcExit \/ VmcRead \/ VmcUnknown(imm)
  <2>1. \E word : \/ UNCHANGED stack
                  \/ Fail(stack) \/ Push(stack, word)
    BY <1>3 DEF VmcExit, VmcRead, VmcUnknown
  <2>2. UNCHANGED stack => Stable(Taken("VMC", imm))
    BY <1>1, <1>2 DEF Stable
  <2>3. Taken("VMC", imm) \in Nat  BY <1>2
  <2> QED  BY <2>1, <2>2, <2>3, KeepStable
<1>4. CASE (imm = VMC_ASSERT /\ VmcAssert) \/ (imm = VMC_WRITE /\ VmcWrite)
  <2>1. Taken("VMC", imm) = 1  BY <1>2, <1>4
  <2>2. Fail(stack) \/ Fail(Drop(stack, 1)) \/ Return0(Drop(stack, 1))
    BY <1>4 DEF VmcAssert, VmcWrite
  <2> QED  BY <1>1, <2>1, <2>2, KeepStable, EndStable
<1>5. CASE imm = VMC_ALLOC /\ VmcAlloc
  <2>1. Taken("VMC", imm) = 1  BY <1>2, <1>5
  <2>2. \E word : Fail(stack) \/ Fail(Drop(stack, 1)) \/ Push(Drop(stack, 1), word)
    BY <1>5 DEF VmcAlloc, SizePopped
  <2> QED  BY <1>1, <2>1, <2>2, KeepStable, EndStable
<1> QED  BY <1>3, <1>4, <1>5 DEF VmBcVmc

\* The slots of the active frame that its function may write: its arguments,
\* its locals and its operands.
Own(k) == k > fp - NumArgs(objs[function]) /\ k \notin fp + 1 .. fp + SavedSlots

\* Where the active frame is, in numbers (FramesOK).
LEMMA ActiveFrame ==
  ASSUME FInv, function # NullHandle
  PROVE  /\ frames # <<>> /\ Len(frames) \in Nat /\ Len(frames) > 0
         /\ IsFunction(objs, function) /\ objs[function] \in Object
         /\ NumArgs(objs[function]) \in Nat /\ NumLocals(objs[function]) \in Nat
         /\ NumResults(objs[function]) \in Nat
         /\ fp \in Nat /\ fp = Active.at /\ Active \in FrameRecord
         /\ fp = Len(Active.below) + NumArgs(objs[function])
         /\ OperandBase = fp + SavedSlots + NumLocals(objs[function])
         /\ OperandBase <= Len(stack)
         /\ Callee(Len(frames)) = function
<1>1. frames # <<>> /\ Len(frames) \in Nat /\ Len(frames) > 0 /\ fp = Active.at
      /\ Active \in FrameRecord
  BY DEF FInv, FramesOK, Ordered, Active
<1>2. Callee(Len(frames)) = function  BY DEF Callee
<1>3. Seated(Len(frames))  BY <1>1 DEF FInv, FramesOK
<1>4. IsFunction(objs, function)  BY <1>2, <1>3 DEF Seated
<1>5. ObjsOK(objs)  BY TypeParts DEF FInv
<1>6. fp = Len(Active.below) + NumArgs(objs[function])
  BY <1>1, <1>2, <1>3 DEF Seated, Active, Code
<1>7. OperandBase <= Len(stack)
  BY <1>1, <1>2, <1>3 DEF Seated, Active, Code, Base, OperandBase
<1> QED  BY <1>1, <1>2, <1>4, <1>5, <1>6, <1>7, FunctionType DEF FrameRecord, OperandBase

\* A local or an argument that is stored is one of the active frame (VmGetLocal).
LEMMA LocalIsOwn ==
  ASSUME FInv, function # NullHandle, NEW imm \in Byte, HasLocal(imm)
  PROVE  LocalIndex(objs[function], imm) + 1 \in 1 .. OperandBase
         /\ Own(LocalIndex(objs[function], imm) + 1)
<1> DEFINE obj == objs[function]
           args == NumArgs(obj)
           locals == NumLocals(obj)
<1>1. /\ args \in Nat /\ locals \in Nat /\ fp \in Nat /\ fp >= args
      /\ OperandBase = fp + SavedSlots + locals /\ OperandBase <= Len(stack)
  BY ActiveFrame DEF FrameRecord
<1>2. Len(stack) \in Nat /\ Len(stack) <= WordMod /\ WordMod \in Nat
  BY FramesAssumption, TinyVMAssumption, WordSizes, TypeParts DEF FInv, StackOK
<1>3. imm \in Nat  BY WordSizes DEF Byte
<1>4. VM_MAX_LOCALS \in Nat  BY WordSizes DEF VM_MAX_LOCALS
<1> HIDE DEF args, locals, obj
<1>5. CASE imm < VM_MAX_LOCALS /\ imm < locals
  <2>0. ~ (imm >= VM_MAX_LOCALS)  BY <1>3, <1>4, <1>5
  <2>1. LocalIndex(obj, imm) = (fp + SavedSlots + imm) % WordMod
    BY <1>5, <2>0, Zenon DEF LocalIndex, locals
  <2>2. fp + SavedSlots + imm \in 0 .. WordMod - 1
    BY <1>1, <1>2, <1>3, <1>5 DEF SavedSlots
  <2>3. LocalIndex(obj, imm) = fp + SavedSlots + imm
    BY <1>2, <2>1, <2>2
  <2> QED  BY <1>1, <1>3, <1>5, <2>3 DEF Own, SavedSlots, obj, args
<1>6. CASE ~ (imm < VM_MAX_LOCALS /\ imm < locals)
           /\ imm >= VM_MAX_LOCALS /\ imm - VM_MAX_LOCALS < args
  <2>1. LocalIndex(obj, imm) = (fp - args + imm - VM_MAX_LOCALS) % WordMod
    BY <1>6, Zenon DEF LocalIndex, locals, args
  <2>2. fp - args + imm - VM_MAX_LOCALS \in 0 .. WordMod - 1
    BY <1>1, <1>2, <1>3, <1>4, <1>6 DEF SavedSlots
  <2>3. LocalIndex(obj, imm) = fp - args + imm - VM_MAX_LOCALS
    BY <1>2, <2>1, <2>2
  <2> QED  BY <1>1, <1>3, <1>4, <1>6, <2>3 DEF Own, SavedSlots, obj, args
<1>7. CASE /\ ~ (imm < VM_MAX_LOCALS /\ imm < locals)
           /\ ~ (imm >= VM_MAX_LOCALS /\ imm - VM_MAX_LOCALS < args)
  <2>1. LocalIndex(obj, imm) = -1
    BY <1>7, Zenon DEF LocalIndex, locals, args
  <2> QED  BY <2>1 DEF HasLocal, OnStack, obj
<1> QED  BY <1>5, <1>6, <1>7 DEF obj

\* A call succeeds or fails (VmSetupCall).
LEMMA SetupCallStatus ==
  ASSUME NEW o, NEW s, NEW caller, NEW target, VmSetupCall(o, s, caller, target)
  PROVE  status' \in {"running", "failed"}
<1>1. \/ Fail(s) \/ status' = "running"
      \/ Fail(s \o <<caller.function, caller.pc, caller.fp>>)
  BY DEF VmSetupCall
<1> QED  BY <1>1 DEF Fail

\* Only a running machine executes, and it never becomes a fresh one again.
LEMMA ExecuteEnds ==
  ASSUME NEW op, NEW imm, Execute(op, imm)
  PROVE  status = "running" /\ status' \in {"running", "failed", "terminated"}
<1>1. status = "running"
  BY DEF Execute, Fetch, VmBcImm32, VmBcHandle, VmBcPop, VmBcPeek, VmBcSwap, VmBcBinary,
         VmBcUnary, VmBcJmp, VmBcBranch, VmBcCall, VmBcRet, VmBcLdVar, VmBcStVar, VmLd, VmSt,
         VmBcVmc, VmcExit, VmcAssert, VmcRead, VmcWrite, VmcAlloc, VmcUnknown
<1>2. CASE \/ VmBcImm32(imm) \/ VmBcHandle(imm) \/ VmBcPop(imm) \/ VmBcPeek(imm)
           \/ VmBcSwap \/ VmBcBinary(op) \/ VmBcUnary(op)
           \/ VmBcLdVar(imm) \/ VmBcStVar(imm)
  BY <1>1, <1>2 DEF VmBcImm32, VmBcHandle, VmBcPop, VmBcPeek, VmBcSwap, VmBcBinary, VmBcUnary,
       VmBcLdVar, VmBcStVar, Push, Return0, Fail
<1>3. CASE VmBcJmp(imm) \/ VmBcBranch(op, imm)
  BY <1>1, <1>3 DEF VmBcJmp, VmBcBranch, Jump, Return0, Fail
<1>4. CASE VmBcCall(imm)
  <2> DEFINE caller == [function |-> function, pc |-> NextPc("CALL"), fp |-> fp]
  <2>1. VmSetupCall(objs, stack, caller, imm)  BY <1>4 DEF VmBcCall
  <2> HIDE DEF caller
  <2> QED  BY <1>1, <2>1, SetupCallStatus
<1>5. CASE VmBcRet
  BY <1>1, <1>5 DEF VmBcRet, ReturnFrom, Return0, Fail
<1>6. CASE VmLd(op) \/ VmSt(op)
  BY <1>1, <1>6 DEF VmLd, VmSt, StoreRefused, Push, Return0, Fail
<1>7. CASE VmBcVmc(imm)
  BY <1>1, <1>7 DEF VmBcVmc, VmcExit, VmcAssert, VmcRead, VmcWrite, VmcAlloc, VmcUnknown,
       Push, Return0, Fail
<1> QED  BY <1>2, <1>3, <1>4, <1>5, <1>6, <1>7 DEF Execute

\* An instruction other than CALL and RET stays in its function and frame.
LEMMA LocalRegs ==
  ASSUME NEW op, NEW imm, op \notin {"CALL", "RET"}, Execute(op, imm)
  PROVE  function' = function /\ fp' = fp
<1>1. CASE VmBcJmp(imm) \/ VmBcBranch(op, imm)
  BY <1>1 DEF VmBcJmp, VmBcBranch
<1>2. CASE \/ VmBcImm32(imm) \/ VmBcHandle(imm) \/ VmBcPop(imm) \/ VmBcPeek(imm)
           \/ VmBcSwap \/ VmBcBinary(op) \/ VmBcUnary(op)
           \/ VmBcLdVar(imm) \/ VmBcStVar(imm) \/ VmLd(op) \/ VmSt(op)
  BY <1>2 DEF VmBcImm32, VmBcHandle, VmBcPop, VmBcPeek, VmBcSwap, VmBcBinary, VmBcUnary,
              VmBcLdVar, VmBcStVar, VmLd, VmSt, Straight
<1>3. CASE VmBcVmc(imm)
  BY <1>3 DEF VmBcVmc, VmcExit, VmcAssert, VmcRead, VmcWrite, VmcAlloc, VmcUnknown, Straight
<1> QED  BY <1>1, <1>2, <1>3 DEF Execute

\* What a step does to the stack when it leaves everything below the operands of
\* the active frame alone, except for the frame's own arguments and locals.
StaysInFrame ==
  /\ Len(stack') >= OperandBase
  /\ \A k \in 1 .. OperandBase : Own(k) \/ stack'[k] = stack[k]

\* STVAR writes a local or an argument of the active frame and pops its operand.
LEMMA StoreLocal ==
  ASSUME FInv, NEW imm, WellBehaved("STVAR", imm), VmBcStVar(imm)
  PROVE  StaysInFrame
<1>1. StackOK(stack) /\ Len(stack) \in Nat  BY TypeParts DEF FInv, StackOK
<1>2. Taken("STVAR", imm) = 1  BY TakenOf
<1>3. function # NullHandle /\ Len(stack) - 1 >= OperandBase
  BY <1>2 DEF WellBehaved
<1>4. OperandBase \in Nat  BY <1>3, ActiveFrame DEF SavedSlots
<1>5. imm \in Byte
  <2> DEFINE i == [op |-> "STVAR", imm |-> imm]
  <2>1. i \in Instruction  BY TinyVMAssumption DEF VmBcStVar, Fetch
  <2>2. i.op \notin SimpleOps \cup HalfOps \cup WordOps /\ i.op \in ByteOps /\ i.imm = imm
    BY DEF SimpleOps, HalfOps, WordOps, ByteOps, BinaryOps, UnaryOps, CompareOps, DivideOps
  <2> HIDE DEF i
  <2> QED  BY <2>1, <2>2 DEF Instruction
<1>6. CASE Fail(stack)
  BY <1>1, <1>3, <1>4, <1>6 DEF Fail, StaysInFrame
<1>7. CASE HasLocal(imm) /\ ~ Fail(stack)
  <2> DEFINE slot == LocalIndex(objs[function], imm) + 1
             s == [stack EXCEPT ![slot] = Top(stack)]
  <2>1. slot \in 1 .. OperandBase /\ Own(slot)  BY <1>3, <1>5, <1>7, LocalIsOwn
  <2>2. stack' = Drop(s, 1)  BY <1>7 DEF VmBcStVar, Return0
  <2>3. Top(stack) \in Word  BY <1>1, <1>3, <1>4, SlotIsWord DEF Top
  <2> HIDE DEF slot
  <2>4. /\ StackOK(s) /\ Len(s) = Len(stack)
        /\ \A k \in 1 .. Len(stack) : k # slot => s[k] = stack[k]
    BY <1>1, <1>3, <1>4, <2>1, <2>3, ExceptSeq DEF StackOK
  <2> HIDE DEF s
  <2>5. /\ Len(stack') = Len(stack) - 1
        /\ \A k \in 1 .. Len(stack) - 1 : stack'[k] = s[k]
    <3>1. 1 \in 0 .. Len(s)  BY <1>1, <1>3, <1>4, <2>4
    <3> QED  BY <2>2, <2>4, <3>1, DropStack
  <2> QED  BY <1>1, <1>3, <1>4, <2>1, <2>4, <2>5 DEF StaysInFrame
<1> QED  BY <1>6, <1>7 DEF VmBcStVar

\* Instructions other than CALL and RET, in a program that behaves.
LEMMA LocalStack ==
  ASSUME FInv, NEW op, NEW imm, op \notin {"CALL", "RET"}, WellBehaved(op, imm),
         Execute(op, imm)
  PROVE  StaysInFrame
<1>1. StackOK(stack) /\ Len(stack) \in Nat  BY TypeParts DEF FInv, StackOK
<1>2. function # NullHandle /\ Len(stack) - Taken(op, imm) >= OperandBase
  BY DEF WellBehaved
<1>3. OperandBase \in Nat  BY <1>2, ActiveFrame DEF SavedSlots
<1>4. CASE op = "STVAR" /\ VmBcStVar(imm)
  BY <1>4, StoreLocal
<1>5. CASE ~ (op = "STVAR" /\ VmBcStVar(imm))
  <2>1. Taken(op, imm) \in Nat
    <3>1. op \in SimpleOps \cup ByteOps \cup HalfOps \cup WordOps
      BY DEF Execute, SimpleOps, ByteOps, HalfOps, WordOps, BinaryOps, UnaryOps,
             CompareOps, DivideOps
    <3>2. \/ op \in Operands0 \/ op \in BinaryOps \cup {"SWAP", "LDW", "LDB"}
          \/ op \in UnaryOps \cup {"POP", "BT", "BF", "STVAR"}
          \/ op \in {"STW", "STB"} \/ op = "VMC"
      BY <3>1 DEF SimpleOps, ByteOps, HalfOps, WordOps, Operands0
    <3> QED  BY <3>2, TakenOf
  <2>2. Taken(op, imm) <= Len(stack)  BY <1>1, <1>2, <1>3, <2>1
  <2>3. Stable(Taken(op, imm))
    BY <1>1, <1>5, <2>2, StableStack, SwapAndBranchStack, AccessStack, VmCallStack DEF Execute
  <2> QED  BY <1>1, <1>2, <1>3, <2>1, <2>3 DEF Stable, StaysInFrame
<1> QED  BY <1>4, <1>5

----------------------------------------------------------------------------
(***************************************************************************)
(* The length of an object is a word.                                      *)
(***************************************************************************)
Short(o) == \A h \in DOMAIN o : Len(o[h].data) < WordMod

\* VMC_ALLOC creates an empty object; no other instruction creates one.
LEMMA ExecuteShort ==
  ASSUME FInv, NEW op, NEW imm, Execute(op, imm), Kept(objs, objs')
  PROVE  Short(objs')
<1>1. Short(objs)  BY DEF FInv, FramesOK, Short
<1>2. CASE DOMAIN objs' \subseteq DOMAIN objs
  BY <1>1, <1>2 DEF Short, Kept
<1>3. CASE VmcAlloc /\ ~ UNCHANGED objs
  <2> DEFINE new == [qualifiers |-> {"DATA"}, data |-> <<>>, big |-> FALSE]
  <2>1. objs' = WithObject(objs, FirstFree(objs), new)  BY <1>3 DEF VmcAlloc
  <2>2. Len(new.data) < WordMod  BY WordSizes
  <2> HIDE DEF new
  <2>3. \A h \in DOMAIN objs' : h \in DOMAIN objs \/ objs'[h] = new
    BY <2>1 DEF WithObject
  <2> QED  BY <1>1, <2>2, <2>3 DEF Short, Kept
<1>4. CASE VmSt(op) /\ ~ UNCHANGED objs
  <2>1. DOMAIN objs' = DOMAIN objs  BY <1>4 DEF VmSt
  <2> QED  BY <1>2, <2>1
<1>5. CASE UNCHANGED objs  BY <1>1, <1>5 DEF Short
<1>6. CASE ~ VmSt(op) /\ ~ VmcAlloc
  <2>1. UNCHANGED objs
    BY <1>6 DEF Execute, VmBcImm32, VmBcHandle, VmBcPop, VmBcPeek, VmBcSwap, VmBcBinary,
           VmBcUnary, VmBcJmp, VmBcBranch, VmBcCall, VmBcRet, VmBcLdVar, VmBcStVar, VmLd,
           VmBcVmc, VmcExit, VmcAssert, VmcRead, VmcWrite, VmcUnknown
  <2> QED  BY <1>5, <2>1
<1> QED  BY <1>3, <1>4, <1>5, <1>6

\* An object of a unit is as long as a word says (FramesAssumption).
LEMMA LoadShort ==
  ASSUME NEW o, DOMAIN o = {}, NEW unit \in Units, NEW k \in 0 .. Len(unit.objects)
  PROVE  /\ Short(WithUnit(o, unit, k))
         /\ \A h \in DOMAIN WithUnit(o, unit, k) : \E i \in 1 .. k :
              /\ unit.objects[i].handle = h
              /\ WithUnit(o, unit, k)[h] = unit.objects[i].object
<1> DEFINE new == {unit.objects[i].handle : i \in 1 .. k}
           index(h) == CHOOSE i \in 1 .. k : unit.objects[i].handle = h
           p == [h \in new |-> unit.objects[index(h)].object]
<1>1. \A h \in new : index(h) \in 1 .. k /\ unit.objects[index(h)].handle = h
  OBVIOUS
<1>2. WithUnit(o, unit, k) = p
  BY DEF WithUnit
<1> HIDE DEF index
<1>3. \A h \in new : p[h] = unit.objects[index(h)].object /\ DOMAIN p = new
  OBVIOUS
<1> HIDE DEF new, p
<1>4. \A h \in DOMAIN p : \E i \in 1 .. k :
         unit.objects[i].handle = h /\ p[h] = unit.objects[i].object
  <2>1. DOMAIN p = new  BY DEF p
  <2> QED  BY <1>1, <1>3, <2>1
<1>5. unit.objects \in Seq(BinObject)  BY TinyVMAssumption DEF BinUnit
<1>6. \A i \in 1 .. k : i \in 1 .. Len(unit.objects)  BY <1>5
<1> QED  BY <1>2, <1>4, <1>6, FramesAssumption DEF Short

----------------------------------------------------------------------------
(***************************************************************************)
(* The frames after each step.                                             *)
(***************************************************************************)

\* The frames of the pending calls are below the active one, one by one.
LEMMA FramesBelow ==
  ASSUME FInv
  PROVE  /\ \A i \in 1 .. Len(frames) :
              /\ frames[i] \in FrameRecord
              /\ Callee(i) \in DOMAIN objs
              /\ NumArgs(Code(i)) \in Nat /\ NumLocals(Code(i)) \in Nat
              /\ frames[i].at \in Nat /\ Base(i) \in Nat /\ Base(i) <= Len(stack)
              /\ frames[i].at + SavedSlots <= Base(i)
              /\ Len(frames[i].below) \in Nat
              /\ Len(frames[i].below) <= frames[i].at
         /\ \A i, j \in 1 .. Len(frames) : i < j => Base(i) <= Len(frames[j].below)
<1>1. ASSUME NEW i \in 1 .. Len(frames)
      PROVE  /\ frames[i] \in FrameRecord
             /\ Callee(i) \in DOMAIN objs
             /\ NumArgs(Code(i)) \in Nat /\ NumLocals(Code(i)) \in Nat
             /\ frames[i].at \in Nat /\ Base(i) \in Nat /\ Base(i) <= Len(stack)
             /\ frames[i].at + SavedSlots <= Base(i)
             /\ Len(frames[i].below) \in Nat
             /\ Len(frames[i].below) <= frames[i].at
  <2>1. frames[i] \in FrameRecord  BY DEF FInv, FramesOK
  <2>2. Seated(i) /\ ObjsOK(objs)  BY TypeParts DEF FInv, FramesOK
  <2>3. IsFunction(objs, Callee(i))  BY <2>2 DEF Seated
  <2>4. NumArgs(Code(i)) \in Nat /\ NumLocals(Code(i)) \in Nat
    BY <2>2, <2>3, FunctionType DEF Code
  <2>5. frames[i].at \in Nat /\ Len(frames[i].below) \in Nat  BY <2>1 DEF FrameRecord
  <2>6. /\ Base(i) = frames[i].at + SavedSlots + NumLocals(Code(i))
        /\ Base(i) <= Len(stack)
        /\ frames[i].at = Len(frames[i].below) + NumArgs(Code(i))
    BY <2>2 DEF Seated, Base
  <2>7. Callee(i) \in DOMAIN objs  BY <2>3 DEF IsFunction
  <2>8. /\ Base(i) \in Nat /\ frames[i].at + SavedSlots <= Base(i)
        /\ Len(frames[i].below) <= frames[i].at
    <3> DEFINE at == frames[i].at
               below == Len(frames[i].below)
               base == Base(i)
               args == NumArgs(Code(i))
               locals == NumLocals(Code(i))
    <3>1. /\ args \in Nat /\ locals \in Nat /\ at \in Nat /\ below \in Nat
          /\ base = at + 3 + locals /\ at = below + args
      BY <2>4, <2>5, <2>6 DEF SavedSlots
    <3> HIDE DEF at, below, base, args, locals
    <3>2. base \in Nat /\ at + 3 <= base /\ below <= at  BY <3>1
    <3> QED  BY <3>2 DEF at, below, base, SavedSlots
  <2> QED  BY <2>1, <2>4, <2>5, <2>6, <2>7, <2>8
<1> QED  BY <1>1 DEF FInv, FramesOK, Ordered

\* The operands of the active frame are above all frames.
LEMMA ActiveOnTop ==
  ASSUME FInv, function # NullHandle, NEW i \in 1 .. Len(frames)
  PROVE  /\ frames[i].at \in Nat /\ Len(frames[i].below) \in Nat /\ Base(i) \in Nat
         /\ Len(frames[i].below) <= frames[i].at /\ frames[i].at + 3 <= Base(i)
         /\ OperandBase \in Nat /\ Base(i) <= OperandBase
         /\ i < Len(frames) => Base(i) <= Len(Active.below)
<1> DEFINE n == Len(frames)
<1>1. /\ n \in Nat /\ n > 0 /\ Callee(n) = function /\ fp = Active.at
      /\ fp = Len(Active.below) + NumArgs(objs[function])
      /\ NumArgs(objs[function]) \in Nat /\ NumLocals(objs[function]) \in Nat /\ fp \in Nat
      /\ OperandBase = fp + SavedSlots + NumLocals(objs[function])
  BY ActiveFrame
<1>2. /\ Base(n) = OperandBase /\ OperandBase \in Nat /\ n \in 1 .. Len(frames)
      /\ Len(Active.below) \in Nat /\ Len(Active.below) <= OperandBase
  <2>1. n \in 1 .. Len(frames)  BY <1>1
  <2>2. Base(n) = OperandBase  BY <1>1 DEF Base, Code, Active
  <2>3. Len(Active.below) \in Nat  BY <2>1, FramesBelow DEF Active
  <2> QED  BY <1>1, <2>1, <2>2, <2>3 DEF SavedSlots
<1>3. /\ frames[i].at \in Nat /\ Len(frames[i].below) \in Nat /\ Base(i) \in Nat
      /\ Len(frames[i].below) <= frames[i].at /\ frames[i].at + 3 <= Base(i)
  BY FramesBelow DEF SavedSlots
<1>4. i < n => Base(i) <= Len(Active.below)  BY <1>2, FramesBelow DEF Active
<1>5. i = n => Base(i) <= OperandBase  BY <1>2
<1>6. i = n \/ i < n  BY <1>1
<1> QED  BY <1>2, <1>3, <1>4, <1>5, <1>6

\* A step within the active frame leaves every frame as it is.
LEMMA FramesStay ==
  ASSUME FInv, TypeOK', Kept(objs, objs'), Short(objs'), function # NullHandle,
         StaysInFrame, UNCHANGED <<function, fp, frames>>, status' # "created"
  PROVE  FramesOK'
<1> DEFINE n == Len(frames)
<1>1. /\ n \in Nat /\ n > 0 /\ frames # <<>> /\ fp = frames[n].at /\ Callee(n) = function
      /\ fp = Len(frames[n].below) + NumArgs(objs[function])
      /\ NumArgs(objs[function]) \in Nat /\ NumLocals(objs[function]) \in Nat /\ fp \in Nat
      /\ OperandBase = fp + SavedSlots + NumLocals(objs[function])
  BY ActiveFrame DEF Active
<1>2. n \in 1 .. Len(frames) /\ OperandBase \in Nat /\ Len(frames[n].below) \in Nat
  <2>1. n \in 1 .. Len(frames)  BY <1>1
  <2>2. OperandBase \in Nat  BY <1>1 DEF SavedSlots
  <2>3. Len(frames[n].below) \in Nat  BY <2>1, FramesBelow
  <2> QED  BY <2>1, <2>2, <2>3
<1>3. \A i \in 1 .. n :
        /\ Callee(i)' = Callee(i) /\ Code(i)' = Code(i) /\ Base(i)' = Base(i)
        /\ IsFunction(objs', Callee(i))
  <2> TAKE i \in 1 .. n
  <2>1. Callee(i)' = Callee(i)  BY DEF Callee
  <2>2. IsFunction(objs, Callee(i))  BY DEF FInv, FramesOK, Seated
  <2>3. IsFunction(objs', Callee(i)) /\ objs'[Callee(i)] = objs[Callee(i)]
    BY <2>2, FunctionStays
  <2> QED  BY <2>1, <2>3 DEF Code, Base
<1>4. \A i \in 1 .. n :
        /\ frames[i].at \in Nat /\ Len(frames[i].below) \in Nat /\ Base(i) \in Nat
        /\ Len(frames[i].below) <= frames[i].at /\ frames[i].at + 3 <= Base(i)
        /\ Base(i) <= OperandBase
        /\ i < n => Base(i) <= Len(frames[n].below)
  BY ActiveOnTop DEF Active
<1>5. ASSUME NEW i \in 1 .. n, NEW k \in 1 .. Base(i),
             k <= Len(frames[i].below) \/ k \in frames[i].at + 1 .. frames[i].at + 3
      PROVE  stack'[k] = stack[k]
  <2>1. k \in 1 .. OperandBase
    <3>1. OperandBase \in Nat  BY <1>1, SMTT(40) DEF SavedSlots
    <3> QED  BY <1>4, <3>1
  <2>2. ~ Own(k)
    <3> DEFINE args == NumArgs(objs[function])
               below == Len(frames[n].below)
    <3>1. args \in Nat /\ below \in Nat /\ fp = below + args /\ fp = frames[n].at /\ k \in Nat
      BY <1>1, <1>2
    <3>2. Own(k) => k > fp - args /\ k \notin fp + 1 .. fp + 3  BY DEF Own, SavedSlots
    <3> HIDE DEF args
    <3>3. CASE i = n
      <4>1. k <= below \/ k \in fp + 1 .. fp + 3  BY <1>5, <3>1, <3>3
      <4> QED  BY <3>1, <3>2, <4>1
    <3>4. CASE i < n
      <4>1. k <= below  BY <1>4, <3>1, <3>4
      <4> QED  BY <3>1, <3>2, <4>1
    <3> QED  BY <1>1, <3>3, <3>4
  <2> QED  BY <2>1, <2>2 DEF StaysInFrame
<1>6. ASSUME NEW i \in 1 .. n  PROVE Seated(i)'
  <2>1. Seated(i)  BY DEF FInv, FramesOK
  <2>2. Base(i) <= Len(stack')
    <3>1. OperandBase \in Nat /\ Len(stack') \in Nat
      BY <1>1 DEF SavedSlots, TypeOK
    <3> QED  BY <1>4, <3>1 DEF StaysInFrame
  <2>3. /\ stack'[frames[i].at + 1] = stack[frames[i].at + 1]
        /\ stack'[frames[i].at + 2] = stack[frames[i].at + 2]
        /\ stack'[frames[i].at + 3] = stack[frames[i].at + 3]
    <3>1. \A k \in frames[i].at + 1 .. frames[i].at + 3 : k \in 1 .. Base(i)
      BY <1>4
    <3>2. \A k \in frames[i].at + 1 .. frames[i].at + 3 : stack'[k] = stack[k]
      BY <1>5, <3>1
    <3>3. \A m \in 1 .. 3 : frames[i].at + m \in frames[i].at + 1 .. frames[i].at + 3
      BY <1>4
    <3> QED  BY <3>2, <3>3
  <2>4. \A k \in 1 .. Len(frames[i].below) : stack'[k] = stack[k]
    BY <1>4, <1>5
  <2> QED  BY <1>3, <2>1, <2>2, <2>3, <2>4 DEF Seated
<1>7. Ordered'
  <2>1. Ordered  BY DEF FInv, FramesOK
  <2> QED  BY <1>3, <2>1 DEF Ordered, Active
<1>8. frames \in Seq(FrameRecord)  BY DEF FInv, FramesOK
<1> QED  BY <1>6, <1>7, <1>8 DEF FramesOK, Short

\* What a call does to the stack and the registers, when its target is a function
\* or no object at all (VmSetupCall).
LEMMA SetupCallFrame ==
  ASSUME StackOK(stack), NEW o, ObjsOK(o), NEW caller, NEW target,
         caller.function \in Word, caller.pc \in Word, caller.fp \in Word,
         target \notin DOMAIN o \/ IsFunction(o, target),
         VmSetupCall(o, stack, caller, target)
  PROVE  \/ /\ status' = "failed"
            /\ function' = caller.function /\ pc' = caller.pc /\ fp' = caller.fp
            /\ stack' = stack \/ stack' = stack \o <<caller.function, caller.pc, caller.fp>>
         \/ /\ status' = "running"
            /\ IsFunction(o, target) /\ NumArgs(o[target]) <= Len(stack)
            /\ function' = target /\ pc' = 0 /\ fp' = Len(stack)
            /\ stack' = stack \o <<caller.function, caller.pc, caller.fp>>
                              \o Zeros(NumLocals(o[target]))
<1> DEFINE saved == <<caller.function, caller.pc, caller.fp>>
<1>1. ASSUME NEW header \in CallHeaders(o, target)
      PROVE  /\ IsFunction(o, target)
             /\ header.args = NumArgs(o[target]) /\ header.locals = NumLocals(o[target])
  <2>1. target \in DOMAIN o
    <3>1. target \notin DOMAIN o => CallHeaders(o, target) = {}
      BY Zenon DEF CallHeaders
    <3> QED  BY <1>1, <3>1
  <2>2. IsFunction(o, target) /\ Accessible(o[target])  BY <2>1, FunctionType
  <2>3. CallHeaders(o, target) =
          {[args |-> NumArgs(obj), locals |-> NumLocals(obj)] :
             obj \in {x \in {o[target]} : HasHeader(x)}}
    BY <2>1, <2>2, Zenon DEF CallHeaders
  <2> QED  BY <1>1, <2>2, <2>3
<1>2. CASE Stay(caller) /\ (Fail(stack) \/ Fail(stack \o saved))
  BY <1>2 DEF Stay, Fail
<1>3. ASSUME NEW header \in CallHeaders(o, target),
             Len(stack) >= header.args, Room(stack \o saved, header.locals),
             stack' = stack \o saved \o Zeros(header.locals),
             status' = "running", function' = target, pc' = 0, fp' = Len(stack) % WordMod
      PROVE  /\ status' = "running"
             /\ IsFunction(o, target) /\ NumArgs(o[target]) <= Len(stack)
             /\ function' = target /\ pc' = 0 /\ fp' = Len(stack)
             /\ stack' = stack \o saved \o Zeros(NumLocals(o[target]))
  <2>1. /\ IsFunction(o, target)
        /\ header.args = NumArgs(o[target]) /\ header.locals = NumLocals(o[target])
        /\ NumLocals(o[target]) \in Nat /\ NumArgs(o[target]) \in Nat
    BY <1>1, FunctionType
  <2>2. Len(stack) < WordMod /\ Len(stack) \in Nat /\ WordMod \in Nat
    <3>1. Len(saved) = 3 /\ saved \in Seq(Word)  OBVIOUS
    <3> HIDE DEF saved
    <3>2. stack \in Seq(Word)  BY DEF StackOK
    <3>3. Len(stack \o saved) = Len(stack) + Len(saved) /\ Len(stack) \in Nat
      BY <3>1, <3>2, Concat
    <3> QED  BY <1>3, <2>1, <3>1, <3>3, FramesAssumption, TinyVMAssumption, WordSizes DEF Room
  <2>3. Len(stack) % WordMod = Len(stack)  BY <2>2
  <2> QED  BY <1>3, <2>1, <2>3
<1> HIDE DEF saved
<1>4. \/ Stay(caller) /\ (Fail(stack) \/ Fail(stack \o saved))
      \/ \E header \in CallHeaders(o, target) :
           /\ Len(stack) >= header.args /\ Room(stack \o saved, header.locals)
           /\ stack' = stack \o saved \o Zeros(header.locals)
           /\ status' = "running" /\ function' = target /\ pc' = 0
           /\ fp' = Len(stack) % WordMod
  BY DEF VmSetupCall, saved
<1> QED  BY <1>2, <1>3, <1>4 DEF saved

\* The stack right after a call or a load: the registers lie on what was there,
\* and the locals on the registers.
LEMMA NewFrame ==
  ASSUME StackOK(stack), NEW r0 \in Word, NEW r1 \in Word, NEW r2 \in Word, NEW locals \in Nat,
         stack' = stack \o <<r0, r1, r2>> \o Zeros(locals)
  PROVE  /\ Len(stack) \in Nat /\ Len(stack') = Len(stack) + SavedSlots + locals
         /\ \A k \in 1 .. Len(stack) : stack'[k] = stack[k]
         /\ stack'[Len(stack) + 1] = r0 /\ stack'[Len(stack) + 2] = r1 /\ stack'[Len(stack) + 3] = r2
         /\ \A k \in 1 .. locals : stack'[Len(stack) + 3 + k] = 0
<1> DEFINE saved == <<r0, r1, r2>>
           z == Zeros(locals)
           t == stack \o saved
<1>1. /\ saved \in Seq(Word) /\ Len(saved) = 3
      /\ saved[1] = r0 /\ saved[2] = r1 /\ saved[3] = r2
  OBVIOUS
<1>2. /\ z \in Seq(Word) /\ Len(z) = locals /\ \A k \in 1 .. locals : z[k] = 0
  BY ByteIsWord DEF Zeros
<1> HIDE DEF saved, z
<1>3. /\ t \in Seq(Word) /\ Len(t) = Len(stack) + 3 /\ Len(stack) \in Nat
      /\ \A k \in 1 .. Len(stack) : t[k] = stack[k]
      /\ \A k \in 1 .. 3 : t[Len(stack) + k] = saved[k]
  <2>1. stack \in Seq(Word)  BY DEF StackOK
  <2>2. /\ stack \o saved \in Seq(Word)
        /\ Len(stack \o saved) = Len(stack) + Len(saved) /\ Len(stack) \in Nat
        /\ \A k \in 1 .. Len(stack) : (stack \o saved)[k] = stack[k]
        /\ \A k \in 1 .. Len(saved) : (stack \o saved)[Len(stack) + k] = saved[k]
    BY <1>1, <2>1, Concat
  <2> QED  BY <1>1, <2>2
<1> HIDE DEF t
<1>4. /\ Len(t \o z) = Len(t) + locals
      /\ \A k \in 1 .. Len(t) : (t \o z)[k] = t[k]
      /\ \A k \in 1 .. locals : (t \o z)[Len(t) + k] = z[k]
  <2>1. /\ Len(t \o z) = Len(t) + Len(z)
        /\ \A k \in 1 .. Len(t) : (t \o z)[k] = t[k]
        /\ \A k \in 1 .. Len(z) : (t \o z)[Len(t) + k] = z[k]
    BY <1>2, <1>3, Concat
  <2> QED  BY <1>2, <2>1
<1>5. stack' = t \o z  BY DEF t, z, saved
<1>6. \A k \in 1 .. Len(stack) : stack'[k] = stack[k]
  BY <1>3, <1>4, <1>5
<1>7. stack'[Len(stack) + 1] = r0 /\ stack'[Len(stack) + 2] = r1 /\ stack'[Len(stack) + 3] = r2
  <2>1. \A k \in 1 .. 3 : stack'[Len(stack) + k] = saved[k]
    BY <1>3, <1>4, <1>5
  <2> QED  BY <1>1, <2>1
<1>8. \A k \in 1 .. locals : stack'[Len(stack) + 3 + k] = 0
  BY <1>2, <1>3, <1>4, <1>5
<1> QED  BY <1>3, <1>4, <1>5, <1>6, <1>7, <1>8 DEF SavedSlots

\* What a call does in a program that behaves: it fails within the caller's frame,
\* or it lays a new frame on the stack (VmBcCall).
Called(imm) ==
  /\ status' = "running" /\ UNCHANGED objs
  /\ IsFunction(objs, imm)
  /\ function' = imm /\ pc' = 0 /\ fp' = Len(stack)
  /\ frames' = Append(frames, Frame([function |-> function, pc |-> NextPc("CALL"), fp |-> fp],
                                    Len(stack), Drop(stack, NumArgs(objs[imm]))))
  /\ Len(stack) - NumArgs(objs[imm]) >= OperandBase
  /\ Len(stack') = Len(stack) + SavedSlots + NumLocals(objs[imm])
  /\ \A k \in 1 .. Len(stack) : stack'[k] = stack[k]
  /\ stack'[Len(stack) + 1] = function
  /\ stack'[Len(stack) + 2] = NextPc("CALL")
  /\ stack'[Len(stack) + 3] = fp
  /\ \A k \in 1 .. NumLocals(objs[imm]) : stack'[Len(stack) + 3 + k] = 0

LEMMA CallStep ==
  ASSUME FInv, NEW imm, FCall(imm)
  PROVE  /\ status = "running" /\ function # NullHandle /\ NextPc("CALL") \in Word
         /\ UNCHANGED objs
         /\ \/ /\ status' = "failed" /\ StaysInFrame
               /\ UNCHANGED <<function, fp, frames>>
            \/ Called(imm)
<1> DEFINE caller == [function |-> function, pc |-> NextPc("CALL"), fp |-> fp]
<1>1. /\ Fetch("CALL", imm) /\ VmSetupCall(objs, stack, caller, imm) /\ UNCHANGED objs
      /\ WellBehaved("CALL", imm)
  BY DEF FCall, VmBcCall
<1>2. StackOK(stack) /\ ObjsOK(objs) /\ RegsOK /\ stack \in Seq(Word) /\ Len(stack) \in Nat
  BY TypeParts DEF FInv, StackOK
<1>3. caller.function = function /\ caller.pc = NextPc("CALL") /\ caller.fp = fp
  OBVIOUS
<1>4. /\ function \in Word /\ NextPc("CALL") \in Word /\ fp \in Word
      /\ status = "running" /\ function # NullHandle
  BY <1>1, <1>2, FetchType, ByteIsWord DEF FInv, RegsOK, ObjsOK, Handle, NullHandle, Fetch
<1>5. imm \notin DOMAIN objs \/ IsFunction(objs, imm)
  BY <1>1 DEF WellBehaved
<1>6. OperandBase \in Nat /\ OperandBase <= Len(stack)
  BY <1>4, ActiveFrame DEF SavedSlots
<1> HIDE DEF caller
<1>7. \/ /\ status' = "failed"
         /\ function' = function /\ fp' = fp
         /\ stack' = stack \/ stack' = stack \o <<function, NextPc("CALL"), fp>>
      \/ /\ status' = "running"
         /\ IsFunction(objs, imm) /\ NumArgs(objs[imm]) <= Len(stack)
         /\ function' = imm /\ pc' = 0 /\ fp' = Len(stack)
         /\ stack' = stack \o <<function, NextPc("CALL"), fp>> \o Zeros(NumLocals(objs[imm]))
  <2>1. \/ /\ status' = "failed"
           /\ function' = caller.function /\ fp' = caller.fp
           /\ stack' = stack \/ stack' = stack \o <<caller.function, caller.pc, caller.fp>>
        \/ /\ status' = "running"
           /\ IsFunction(objs, imm) /\ NumArgs(objs[imm]) <= Len(stack)
           /\ function' = imm /\ pc' = 0 /\ fp' = Len(stack)
           /\ stack' = stack \o <<caller.function, caller.pc, caller.fp>>
                             \o Zeros(NumLocals(objs[imm]))
    <3>1. caller.function \in Word /\ caller.pc \in Word /\ caller.fp \in Word
      BY <1>3, <1>4
    <3> QED  BY <1>1, <1>2, <1>5, <3>1, SetupCallFrame
  <2> QED  BY <1>3, <2>1
<1>8. CASE /\ status' = "failed"
           /\ function' = function /\ fp' = fp
           /\ stack' = stack \/ stack' = stack \o <<function, NextPc("CALL"), fp>>
  <2>1. UNCHANGED frames  BY <1>8 DEF FCall
  <2>2. StaysInFrame
    <3> DEFINE saved == <<function, NextPc("CALL"), fp>>
    <3>1. saved \in Seq(Word)  BY <1>4
    <3>2. stack' = stack \/ stack' = stack \o saved  BY <1>8
    <3> HIDE DEF saved
    <3>3. Len(stack') >= Len(stack) /\ \A k \in 1 .. Len(stack) : stack'[k] = stack[k]
      BY <1>2, <3>1, <3>2, Concat
    <3>4. Len(stack') \in Nat  BY <1>2, <3>1, <3>2, Concat
    <3> QED  BY <1>2, <1>6, <3>3, <3>4 DEF StaysInFrame
  <2> QED  BY <1>1, <1>4, <1>8, <2>1, <2>2
<1>9. CASE /\ status' = "running"
           /\ IsFunction(objs, imm) /\ NumArgs(objs[imm]) <= Len(stack)
           /\ function' = imm /\ pc' = 0 /\ fp' = Len(stack)
           /\ stack' = stack \o <<function, NextPc("CALL"), fp>> \o Zeros(NumLocals(objs[imm]))
  <2>1. NumLocals(objs[imm]) \in Nat  BY <1>2, <1>9, FunctionType
  <2>2. /\ Len(stack') = Len(stack) + SavedSlots + NumLocals(objs[imm])
        /\ \A k \in 1 .. Len(stack) : stack'[k] = stack[k]
        /\ stack'[Len(stack) + 1] = function
        /\ stack'[Len(stack) + 2] = NextPc("CALL")
        /\ stack'[Len(stack) + 3] = fp
        /\ \A k \in 1 .. NumLocals(objs[imm]) : stack'[Len(stack) + 3 + k] = 0
    BY <1>2, <1>4, <1>9, <2>1, NewFrame
  <2>3. Taken("CALL", imm) = NumArgs(objs[imm])
    <3>1. "CALL" \notin Operands0 \cup BinaryOps \cup UnaryOps
            \cup {"SWAP", "LDW", "LDB", "POP", "BT", "BF", "STVAR", "STW", "STB", "VMC", "RET"}
      BY DEF Operands0, BinaryOps, UnaryOps, CompareOps, DivideOps
    <3>2. Taken("CALL", imm) = IF IsFunction(objs, imm) THEN NumArgs(objs[imm]) ELSE 0
      BY <3>1, Zenon DEF Taken
    <3> QED  BY <1>9, <3>2
  <2>4. Len(stack) - NumArgs(objs[imm]) >= OperandBase
    BY <1>1, <2>3 DEF WellBehaved
  <2>5. frames' = Append(frames, Frame([function |-> function, pc |-> NextPc("CALL"), fp |-> fp],
                                       Len(stack), Drop(stack, NumArgs(objs[imm]))))
    BY <1>9 DEF FCall
  <2>6. Called(imm)  BY <1>1, <1>9, <2>2, <2>4, <2>5 DEF Called
  <2> QED  BY <1>1, <1>4, <2>6
<1> QED  BY <1>7, <1>8, <1>9

\* Three slots above one that is not negative.
LEMMA ThreeSlots ==
  ASSUME NEW a \in Nat, NEW n \in Nat, a + 3 <= n
  PROVE  a + 1 \in 1 .. n /\ a + 2 \in 1 .. n /\ a + 3 \in 1 .. n
  OBVIOUS

\* The frames after a call.
LEMMA CalledLayout ==
  ASSUME FInv, NEW n \in Nat, n = Len(frames), NEW imm, Called(imm),
         function # NullHandle, NextPc("CALL") \in Word
  PROVE  /\ frames' \in Seq(FrameRecord) /\ Len(frames') = n + 1
         /\ \A i \in 1 .. n :
              /\ frames'[i] = frames[i]
              /\ Callee(i)' = Callee(i) /\ Code(i)' = Code(i) /\ Base(i)' = Base(i)
         /\ LET f == frames'[n + 1]
            IN  /\ f.function = function /\ f.pc = NextPc("CALL") /\ f.fp = fp
                /\ f.at = Len(stack) /\ f.below \in Seq(Word)
                /\ Len(f.below) = Len(stack) - NumArgs(objs[imm])
                /\ OperandBase <= Len(f.below)
                /\ \A k \in 1 .. Len(f.below) : f.below[k] = stack[k]
         /\ Callee(n + 1)' = imm /\ Code(n + 1)' = objs[imm]
         /\ Base(n + 1)' = Len(stack) + SavedSlots + NumLocals(objs[imm])
<1>0. n \in Nat /\ n = Len(frames)  OBVIOUS
<1> DEFINE args == NumArgs(objs[imm])
           below == Drop(stack, args)
           f == Frame([function |-> function, pc |-> NextPc("CALL"), fp |-> fp], Len(stack), below)
<1>1. StackOK(stack) /\ ObjsOK(objs) /\ RegsOK /\ stack \in Seq(Word) /\ Len(stack) \in Nat
      /\ objs' = objs /\ IsFunction(objs, imm)
  BY TypeParts DEF FInv, StackOK, Called
<1>2. args \in Nat /\ NumLocals(objs[imm]) \in Nat  BY <1>1, FunctionType
<1>3. /\ n \in Nat /\ n > 0 /\ frames \in Seq(FrameRecord) /\ frames # <<>>
      /\ OperandBase \in Nat /\ n \in 1 .. n
  BY <1>0, ActiveFrame DEF FInv, FramesOK, SavedSlots
<1>4. /\ below \in Seq(Word) /\ Len(below) = Len(stack) - args
      /\ OperandBase <= Len(below)
      /\ \A k \in 1 .. Len(below) : below[k] = stack[k]
  <2>1. args \in 0 .. Len(stack)  BY <1>1, <1>2, <1>3 DEF Called
  <2>2. /\ StackOK(below) /\ Len(below) = Len(stack) - args
        /\ \A k \in 1 .. Len(stack) - args : below[k] = stack[k]
    BY <1>1, <2>1, DropStack
  <2> QED  BY <2>2 DEF Called, StackOK
<1>5. /\ f.function = function /\ f.pc = NextPc("CALL") /\ f.fp = fp
      /\ f.at = Len(stack) /\ f.below = below
  BY DEF Frame
<1>6. f \in FrameRecord
  <2>1. function \in Word /\ fp \in Word
    BY <1>1, ByteIsWord DEF RegsOK, ObjsOK, Handle, NullHandle
  <2> HIDE DEF below
  <2> QED  BY <1>1, <1>4, <2>1 DEF Frame, FrameRecord
<1>7. frames' = Append(frames, f)  BY DEF Called
<1> HIDE DEF f, below
<1>8. /\ frames' \in Seq(FrameRecord) /\ Len(frames') = n + 1
      /\ frames'[n + 1] = f /\ \A i \in 1 .. n : frames'[i] = frames[i]
  BY <1>0, <1>3, <1>6, <1>7
<1>9. \A i \in 1 .. n : Callee(i)' = Callee(i) /\ Code(i)' = Code(i) /\ Base(i)' = Base(i)
  <2> TAKE i \in 1 .. n
  <2>1. Callee(i)' = frames'[i + 1].function  BY <1>3, <1>8 DEF Callee
  <2>2. i = n => Callee(i)' = Callee(i)
    <3>1. i = n => Callee(i) = function  BY <1>0 DEF Callee
    <3> QED  BY <1>5, <1>8, <2>1, <3>1
  <2>3. i # n => Callee(i)' = Callee(i)
    <3>1. i # n => i + 1 \in 1 .. n  BY <1>3
    <3>2. i # n => Callee(i) = frames[i + 1].function  BY <1>0 DEF Callee
    <3> QED  BY <1>8, <2>1, <3>1, <3>2
  <2>4. Callee(i)' = Callee(i)  BY <2>2, <2>3
  <2>5. Code(i)' = Code(i)  BY <1>1, <2>4 DEF Code
  <2>6. frames'[i] = frames[i]  BY <1>8
  <2> QED  BY <2>4, <2>5, <2>6 DEF Base
<1>10. /\ Callee(n + 1)' = imm /\ Code(n + 1)' = objs[imm]
       /\ Base(n + 1)' = Len(stack) + SavedSlots + NumLocals(objs[imm])
  <2>1. Callee(n + 1)' = imm  BY <1>8 DEF Callee, Called
  <2>2. Code(n + 1)' = objs[imm]  BY <1>1, <2>1 DEF Code
  <2>3. frames'[n + 1].at = Len(stack)  BY <1>5, <1>8
  <2> QED  BY <2>1, <2>2, <2>3 DEF Base
<1> QED  BY <1>0, <1>4, <1>5, <1>8, <1>9, <1>10

\* A call adds a frame above the others.
LEMMA CalledFrames ==
  ASSUME FInv, NEW imm, Called(imm), function # NullHandle, NextPc("CALL") \in Word
  PROVE  FramesOK'
<1>0. PICK n \in Nat : n = Len(frames)  BY ActiveFrame
<1> DEFINE args == NumArgs(objs[imm])
           f == frames'[n + 1]
           below == f.below
<1>1. StackOK(stack) /\ ObjsOK(objs) /\ RegsOK /\ stack \in Seq(Word) /\ Len(stack) \in Nat
      /\ objs' = objs /\ IsFunction(objs, imm)
  BY TypeParts DEF FInv, StackOK, Called
<1>2. args \in Nat /\ NumLocals(objs[imm]) \in Nat  BY <1>1, FunctionType
<1>3. /\ n \in Nat /\ n > 0 /\ frames \in Seq(FrameRecord) /\ frames # <<>>
      /\ OperandBase \in Nat /\ n \in 1 .. n
  BY <1>0, ActiveFrame DEF FInv, FramesOK, SavedSlots
<1>4. /\ below \in Seq(Word) /\ Len(below) = Len(stack) - args
      /\ OperandBase <= Len(below)
      /\ \A k \in 1 .. Len(below) : below[k] = stack[k]
  BY <1>0, CalledLayout
<1>5. /\ f.function = function /\ f.pc = NextPc("CALL") /\ f.fp = fp
      /\ f.at = Len(stack) /\ f.below = below
  BY <1>0, CalledLayout
<1>8. /\ frames' \in Seq(FrameRecord) /\ Len(frames') = n + 1
      /\ frames'[n + 1] = f /\ \A i \in 1 .. n : frames'[i] = frames[i]
  BY <1>0, CalledLayout
<1>9. \A i \in 1 .. n : Callee(i)' = Callee(i) /\ Code(i)' = Code(i) /\ Base(i)' = Base(i)
  BY <1>0, CalledLayout
<1>10. /\ Callee(n + 1)' = imm /\ Code(n + 1)' = objs[imm]
       /\ Base(n + 1)' = Len(stack) + SavedSlots + NumLocals(objs[imm])
  BY <1>0, CalledLayout
<1> HIDE DEF f, below
<1>11. \A i \in 1 .. n : /\ Base(i) \in Nat /\ Base(i) <= OperandBase /\ Base(i) <= Len(below)
                         /\ frames[i].at \in Nat /\ frames[i].at + 3 <= Base(i)
                         /\ Len(frames[i].below) \in Nat
                         /\ Len(frames[i].below) <= frames[i].at
  <2> TAKE i \in 1 .. n
  <2>1. /\ Base(i) \in Nat /\ Base(i) <= OperandBase
        /\ frames[i].at \in Nat /\ frames[i].at + 3 <= Base(i)
        /\ Len(frames[i].below) \in Nat
        /\ Len(frames[i].below) <= frames[i].at
    BY <1>0, ActiveOnTop
  <2>2. Len(below) \in Nat  BY <1>4
  <2> QED  BY <1>3, <1>4, <2>1, <2>2
<1>12. ASSUME NEW i \in 1 .. n  PROVE Seated(i)'
  <2>1. Seated(i)  BY <1>0 DEF FInv, FramesOK
  <2>2. /\ Base(i) \in Nat /\ Base(i) <= Len(stack)
        /\ frames[i].at \in Nat /\ frames[i].at + 3 <= Base(i)
        /\ Len(frames[i].below) \in Nat /\ Len(frames[i].below) <= frames[i].at
    BY <1>0, <1>1, <1>11, FramesBelow
  <2>3. Len(stack') >= Len(stack) /\ \A k \in 1 .. Len(stack) : stack'[k] = stack[k]
    BY <1>1, <1>2 DEF Called, SavedSlots
  <2>4. /\ stack'[frames[i].at + 1] = stack[frames[i].at + 1]
        /\ stack'[frames[i].at + 2] = stack[frames[i].at + 2]
        /\ stack'[frames[i].at + 3] = stack[frames[i].at + 3]
        /\ \A k \in 1 .. Len(frames[i].below) : stack'[k] = stack[k]
    <3>0. Len(stack) \in Nat /\ frames[i].at \in Nat /\ frames[i].at + 3 <= Len(stack)
      BY <1>1, <2>2
    <3>1. /\ frames[i].at + 1 \in 1 .. Len(stack) /\ frames[i].at + 2 \in 1 .. Len(stack)
          /\ frames[i].at + 3 \in 1 .. Len(stack)
      BY <3>0, ThreeSlots
    <3>2. \A k \in 1 .. Len(frames[i].below) : k \in 1 .. Len(stack)
      BY <1>1, <2>2
    <3> QED  BY <2>3, <3>1, <3>2
  <2>5. Base(i)' <= Len(stack')
    <3>1. Len(stack') \in Nat  BY <1>1, <1>2 DEF Called, SavedSlots
    <3> QED  BY <1>1, <1>9, <2>2, <2>3, <3>1
  <2> QED  BY <1>1, <1>8, <1>9, <2>1, <2>4, <2>5 DEF Seated
<1>13. Seated(n + 1)'
  <2>1. f.at = Len(f.below) + args  BY <1>1, <1>2, <1>4, <1>5
  <2>2. \A k \in 1 .. Len(f.below) : stack'[k] = f.below[k]
    BY <1>1, <1>2, <1>4, <1>5 DEF Called
  <2>3. /\ stack'[f.at + 1] = f.function /\ stack'[f.at + 2] = f.pc /\ stack'[f.at + 3] = f.fp
        /\ Len(stack') = Len(stack) + SavedSlots + NumLocals(objs[imm])
    BY <1>5 DEF Called
  <2>4. Base(n + 1)' <= Len(stack')
    BY <1>1, <1>2, <1>10, <2>3 DEF SavedSlots
  <2> QED  BY <1>1, <1>8, <1>10, <2>1, <2>2, <2>3, <2>4 DEF Seated
<1>14. Ordered'
  <2>1. \A i, j \in 1 .. n + 1 : i < j => Base(i)' <= Len(frames'[j].below)
    <3> TAKE i \in 1 .. n + 1, j \in 1 .. n + 1
    <3> HAVE i < j
    <3>1. i \in 1 .. n /\ Base(i)' = Base(i)  BY <1>3, <1>9
    <3>2. CASE j = n + 1  BY <1>5, <1>8, <1>11, <3>1, <3>2
    <3>3. CASE j # n + 1
      <4>1. j \in 1 .. n /\ frames'[j] = frames[j]  BY <1>3, <1>8, <3>3
      <4> QED  BY <1>0, <3>1, <4>1, FramesBelow
    <3> QED  BY <3>2, <3>3
  <2>2. \A i \in 1 .. n + 1 : i > 1 => frames'[i].fp = frames'[i - 1].at
    <3> TAKE i \in 1 .. n + 1
    <3> HAVE i > 1
    <3>1. i - 1 \in 1 .. n /\ frames'[i - 1] = frames[i - 1]  BY <1>3, <1>8
    <3>2. CASE i = n + 1
      <4>1. fp = frames[n].at  BY <1>0, ActiveFrame DEF Active
      <4>2. i - 1 = n  BY <1>3, <3>2
      <4> QED  BY <1>5, <1>8, <3>1, <3>2, <4>1, <4>2
    <3>3. CASE i # n + 1
      <4>1. i \in 1 .. n /\ frames'[i] = frames[i]  BY <1>3, <1>8, <3>3
      <4> QED  BY <1>0, <3>1, <4>1 DEF FInv, FramesOK, Ordered
    <3> QED  BY <3>2, <3>3
  <2>3. frames' # <<>> /\ frames'[1].function = NullHandle /\ fp' = Active'.at
    <3>1. frames[1].function = NullHandle  BY <1>3 DEF FInv, FramesOK, Ordered
    <3>2. frames'[1] = frames[1] /\ frames' # <<>>  BY <1>3, <1>8
    <3>3. Active' = f  BY <1>8 DEF Active
    <3> QED  BY <1>5, <3>1, <3>2, <3>3 DEF Called
  <2> QED  BY <1>8, <2>1, <2>2, <2>3 DEF Ordered
<1>15. \A i \in 1 .. n + 1 : Seated(i)'
  <2> TAKE i \in 1 .. n + 1
  <2>1. i \in 1 .. n \/ i = n + 1  BY <1>3
  <2> QED  BY <1>12, <1>13, <2>1
<1> QED
  <2>1. status' = "running" /\ Short(objs)  BY DEF Called, FInv, FramesOK, Short
  <2> QED  BY <1>1, <1>8, <1>14, <1>15, <2>1 DEF FramesOK, Short

\* What a load does to a fresh machine: it fails without a frame, or it calls the
\* entry function, which takes no arguments (VmLoadByteCode).
Loaded(unit) ==
  /\ status' = "running"
  /\ IsFunction(objs', unit.entry) /\ NumArgs(objs'[unit.entry]) = 0
  /\ function' = unit.entry /\ pc' = 0 /\ fp' = 0
  /\ frames' = <<Frame([function |-> NullHandle, pc |-> 0, fp |-> 0], 0, <<>>)>>
  /\ Len(stack') = SavedSlots + NumLocals(objs'[unit.entry])
  /\ stack'[1] = NullHandle /\ stack'[2] = 0 /\ stack'[3] = 0
  /\ \A k \in 1 .. NumLocals(objs'[unit.entry]) : stack'[3 + k] = 0

LEMMA LoadStep ==
  ASSUME FInv, TypeOK', NEW unit \in Units, FLoad(unit)
  PROVE  /\ status = "created" /\ frames = <<>> /\ Short(objs')
         /\ \/ status' = "failed" /\ function' = NullHandle /\ frames' = <<>>
            \/ Loaded(unit)
<1>1. /\ status = "created" /\ Fresh /\ VmLoadByteCode(unit)
      /\ StackOK(stack) /\ stack = <<>> /\ Len(stack) = 0
      /\ function = NullHandle /\ pc = 0 /\ fp = 0 /\ DOMAIN objs = {} /\ frames = <<>>
  BY TypeParts DEF FLoad, VmLoadFile, FInv, FramesOK, Fresh
<1>2. CASE Fail(stack) /\ UNCHANGED <<regs, objs>>
  BY <1>1, <1>2 DEF Fail, regs, Short, FLoad
<1>3. ASSUME NEW k \in 0 .. Len(unit.objects), objs' = WithUnit(objs, unit, k),
             Fail(stack) /\ UNCHANGED regs
      PROVE  Short(objs') /\ status' = "failed" /\ function' = NullHandle /\ frames' = <<>>
  BY <1>1, <1>3, LoadShort DEF Fail, regs, FLoad
<1>4. ASSUME NEW k \in 0 .. Len(unit.objects), objs' = WithUnit(objs, unit, k),
             VmSetupCall(WithUnit(objs, unit, k), stack,
                         [function |-> function, pc |-> pc, fp |-> fp], unit.entry)
      PROVE  /\ Short(objs')
             /\ \/ status' = "failed" /\ function' = NullHandle /\ frames' = <<>>
                \/ Loaded(unit)
  <2> DEFINE o == WithUnit(objs, unit, k)
             caller == [function |-> function, pc |-> pc, fp |-> fp]
             entry == unit.entry
  <2>1. Short(o) /\ \A h \in DOMAIN o : \E i \in 1 .. k :
                       unit.objects[i].handle = h /\ o[h] = unit.objects[i].object
    BY <1>1, LoadShort
  <2>2. entry \notin DOMAIN o \/ IsFunction(o, entry)
    <3> SUFFICES ASSUME entry \in DOMAIN o  PROVE IsFunction(o, entry)
      OBVIOUS
    <3>1. PICK i \in 1 .. k : unit.objects[i].handle = entry /\ o[entry] = unit.objects[i].object
      BY <2>1
    <3>2. unit.objects \in Seq(BinObject)  BY TinyVMAssumption DEF BinUnit
    <3>3. i \in 1 .. Len(unit.objects)  BY <3>2
    <3>4. /\ {"CODE", "INMUTABLE"} \subseteq unit.objects[i].object.qualifiers
          /\ HasHeader(unit.objects[i].object)
      BY <3>1, <3>3 DEF FLoad
    <3> QED  BY <3>1, <3>4 DEF IsFunction
  <2>3. ObjsOK(o)  BY <1>4, TypeParts DEF TypeOK, ObjsOK
  <2>4. caller.function = 0 /\ caller.pc = 0 /\ caller.fp = 0 /\ 0 \in Word
    BY <1>1, ByteIsWord DEF NullHandle
  <2>5. VmSetupCall(o, stack, caller, entry)  BY <1>4
  <2> HIDE DEF o, caller
  <2>6. \/ status' = "failed" /\ function' = caller.function
        \/ /\ status' = "running"
           /\ IsFunction(o, entry) /\ NumArgs(o[entry]) <= Len(stack)
           /\ function' = entry /\ pc' = 0 /\ fp' = Len(stack)
           /\ stack' = stack \o <<caller.function, caller.pc, caller.fp>>
                             \o Zeros(NumLocals(o[entry]))
    BY <1>1, <2>2, <2>3, <2>4, <2>5, SetupCallFrame
  <2>7. CASE status' = "failed" /\ function' = caller.function
    BY <1>1, <1>4, <2>1, <2>4, <2>7 DEF FLoad, o, NullHandle
  <2>8. CASE /\ status' = "running"
             /\ IsFunction(o, entry) /\ NumArgs(o[entry]) <= Len(stack)
             /\ function' = entry /\ pc' = 0 /\ fp' = Len(stack)
             /\ stack' = stack \o <<caller.function, caller.pc, caller.fp>>
                               \o Zeros(NumLocals(o[entry]))
    <3>1. NumLocals(o[entry]) \in Nat /\ NumArgs(o[entry]) \in Nat
      BY <2>3, <2>8, FunctionType
    <3>2. NumArgs(o[entry]) = 0  BY <1>1, <2>8, <3>1
    <3>3. stack' = stack \o <<0, 0, 0>> \o Zeros(NumLocals(o[entry]))
      BY <2>4, <2>8
    <3>4. /\ Len(stack') = Len(stack) + SavedSlots + NumLocals(o[entry])
          /\ stack'[Len(stack) + 1] = 0 /\ stack'[Len(stack) + 2] = 0
          /\ stack'[Len(stack) + 3] = 0
          /\ \A j \in 1 .. NumLocals(o[entry]) : stack'[Len(stack) + 3 + j] = 0
      <4> DEFINE locals == NumLocals(o[entry])
      <4>1. locals \in Nat /\ 0 \in Word /\ StackOK(stack)
            /\ stack' = stack \o <<0, 0, 0>> \o Zeros(locals)
        BY <1>1, <2>4, <3>1, <3>3
      <4> HIDE DEF locals
      <4>2. /\ Len(stack') = Len(stack) + SavedSlots + locals
            /\ stack'[Len(stack) + 1] = 0 /\ stack'[Len(stack) + 2] = 0
            /\ stack'[Len(stack) + 3] = 0
            /\ \A j \in 1 .. locals : stack'[Len(stack) + 3 + j] = 0
        BY <4>1, NewFrame
      <4> QED  BY <4>2 DEF locals
    <3>5. /\ Len(stack') = SavedSlots + NumLocals(o[entry])
          /\ stack'[1] = 0 /\ stack'[2] = 0 /\ stack'[3] = 0
          /\ \A j \in 1 .. NumLocals(o[entry]) : stack'[3 + j] = 0
      <4> HIDE DEF entry
      <4> QED  BY <1>1, <3>1, <3>4 DEF SavedSlots
    <3>6. frames' = <<Frame([function |-> NullHandle, pc |-> 0, fp |-> 0], 0, <<>>)>>
      BY <2>8 DEF FLoad
    <3>7. objs' = o /\ Short(objs')  BY <1>4, <2>1 DEF o
    <3>8. fp' = 0  BY <1>1, <2>8
    <3>9. Loaded(unit)
      BY <2>8, <3>2, <3>5, <3>6, <3>7, <3>8 DEF Loaded, NullHandle
    <3> QED  BY <3>7, <3>9
  <2> QED  BY <2>6, <2>7, <2>8
<1> QED
  <2>1. \/ Fail(stack) /\ UNCHANGED <<regs, objs>>
        \/ \E k \in 0 .. Len(unit.objects) :
             /\ objs' = WithUnit(objs, unit, k)
             /\ \/ Fail(stack) /\ UNCHANGED regs
                \/ VmSetupCall(WithUnit(objs, unit, k), stack,
                               [function |-> function, pc |-> pc, fp |-> fp], unit.entry)
    BY <1>1 DEF VmLoadByteCode
  <2> QED  BY <1>1, <1>2, <1>3, <1>4, <2>1

\* The entry function has the lowest frame.
LEMMA LoadFrames ==
  ASSUME FInv, TypeOK', NEW unit \in Units, FLoad(unit)
  PROVE  FramesOK'
<1>1. CASE status' = "failed" /\ function' = NullHandle /\ frames' = <<>>
  <2>1. Short(objs')  BY LoadStep
  <2>2. Len(frames') = 0  BY <1>1
  <2> QED  BY <1>1, <2>1, <2>2 DEF FramesOK, Ordered, Short
<1>2. CASE Loaded(unit)
  <2> DEFINE f == Frame([function |-> NullHandle, pc |-> 0, fp |-> 0], 0, <<>>)
  <2>1. f.function = NullHandle /\ f.pc = 0 /\ f.fp = 0 /\ f.at = 0 /\ f.below = <<>>
    BY DEF Frame
  <2>2. f \in FrameRecord  BY ByteIsWord DEF Frame, FrameRecord, NullHandle
  <2>3. frames' = <<f>>  BY <1>2 DEF Loaded
  <2> HIDE DEF f
  <2>4. frames' \in Seq(FrameRecord) /\ Len(frames') = 1 /\ frames'[1] = f /\ frames' # <<>>
    BY <2>2, <2>3
  <2>5. Callee(1)' = unit.entry /\ Code(1)' = objs'[unit.entry]
    <3>1. Callee(1)' = unit.entry  BY <1>2, <2>4 DEF Callee, Loaded
    <3> QED  BY <3>1 DEF Code
  <2>6. Base(1)' = SavedSlots + NumLocals(objs'[unit.entry])
    BY <2>1, <2>4, <2>5 DEF Base, SavedSlots
  <2>7. Seated(1)'
    <3>1. NumLocals(objs'[unit.entry]) \in Nat
      <4>1. ObjsOK(objs')  BY TypeParts DEF TypeOK, ObjsOK
      <4> QED  BY <1>2, <4>1, FunctionType DEF Loaded
    <3>2. Base(1)' <= Len(stack')  BY <1>2, <2>6, <3>1 DEF Loaded, SavedSlots
    <3> QED  BY <1>2, <2>1, <2>4, <2>5, <3>2 DEF Seated, Loaded
  <2>8. Ordered'  BY <1>2, <2>1, <2>4 DEF Ordered, Active, Loaded
  <2>9. Short(objs') /\ status' = "running"  BY <1>2, LoadStep DEF Loaded
  <2>10. \A i \in 1 .. Len(frames') : Seated(i)'
    <3> TAKE i \in 1 .. Len(frames')
    <3>1. i = 1  BY <2>4
    <3> QED  BY <2>7, <3>1
  <2> QED  BY <2>4, <2>8, <2>9, <2>10 DEF FramesOK, Short
<1> QED  BY <1>1, <1>2, LoadStep

\* What a return does in a program that behaves: it finds what the call has saved
\* and leaves the results, in their order, on the stack of the caller (VmBcRet).
Returned ==
  /\ status' = "running" /\ UNCHANGED objs
  /\ function' = Active.function /\ pc' = Active.pc /\ fp' = Active.fp
  /\ frames' = Drop(frames, 1)
  /\ Len(stack) = OperandBase + NumResults(objs[function])
  /\ Len(stack') = Len(Active.below) + NumResults(objs[function])
  /\ \A k \in 1 .. Len(Active.below) : stack'[k] = stack[k]
  /\ \A k \in 1 .. NumResults(objs[function]) :
       stack'[Len(Active.below) + k] = stack[Len(stack) - NumResults(objs[function]) + k]

\* The copy of the results when they fit into the slots that are disposed of.
LEMMA CopyInOrder ==
  ASSUME StackOK(stack), NEW results \in Nat, NEW slots \in Nat, slots > 0, results <= slots,
         NEW below \in Nat, Len(stack) = below + results + slots
  PROVE  LET s == Drop(CopyResults(stack, Len(stack) - slots, results), slots)
         IN  /\ Len(s) = below + results
             /\ \A k \in 1 .. below : s[k] = stack[k]
             /\ \A k \in 1 .. results : s[below + k] = stack[Len(stack) - results + k]
<1> DEFINE sp == Len(stack)
           top == sp - slots
           copied == CopyResults(stack, top, results)
           s == Drop(copied, slots)
<1>1. sp \in Nat /\ top \in Nat /\ top < sp /\ top = below + results /\ sp - top = slots
  BY DEF StackOK
<1>2. StackOK(copied) /\ Len(copied) = sp
  <2> HIDE DEF copied, top
  <2> QED  BY <1>1, CopyResultsType DEF copied
<1>3. copied = [i \in 1 .. sp |-> IF top - i \in 0 .. results - 1
                                    THEN stack[sp - ((top - i) % (sp - top))]
                                    ELSE stack[i]]
  BY DEF CopyResults
<1> HIDE DEF copied, top, sp
<1>4. /\ Len(s) = top /\ \A i \in 1 .. top : s[i] = copied[i]
  <2>1. slots \in 0 .. Len(copied) /\ Len(copied) - slots = top  BY <1>1, <1>2
  <2>2. Len(s) = Len(copied) - slots /\ \A i \in 1 .. Len(copied) - slots : s[i] = copied[i]
    BY <1>2, <2>1, DropStack
  <2> QED  BY <2>1, <2>2
<1>5. ASSUME NEW k \in 1 .. below  PROVE s[k] = stack[k]
  <2>1. k \in 1 .. top /\ k \in 1 .. sp /\ ~ (top - k \in 0 .. results - 1)  BY <1>1
  <2> QED  BY <1>3, <1>4, <2>1
<1>6. ASSUME NEW k \in 1 .. results  PROVE s[below + k] = stack[sp - results + k]
  <2> DEFINE i == below + k
  <2>1. /\ i \in 1 .. top /\ i \in 1 .. sp /\ top - i \in 0 .. results - 1
        /\ top - i = results - k
    BY <1>1
  <2>2. (top - i) % (sp - top) = results - k
    <3>1. results - k \in 0 .. slots - 1  OBVIOUS
    <3>2. (results - k) % slots = results - k  BY <3>1
    <3> QED  BY <1>1, <2>1, <3>2
  <2>3. sp - ((top - i) % (sp - top)) = sp - results + k  BY <1>1, <2>2
  <2> QED  BY <1>3, <1>4, <2>1, <2>3
<1>7. Len(s) = below + results  BY <1>1, <1>4
<1> QED  BY <1>5, <1>6, <1>7 DEF sp, top, copied

LEMMA RetStep ==
  ASSUME FInv, FRet
  PROVE  /\ status = "running" /\ function # NullHandle
         /\ Active.function \in DOMAIN objs \cup {NullHandle}
         /\ Returned
<1> DEFINE obj == objs[function]
           results == NumResults(obj)
           slots == FrameSlots(obj)
<1>1. /\ Fetch("RET", 0) /\ VmBcRet /\ WellBehaved("RET", 0) /\ UNCHANGED objs
      /\ status = "running" /\ function # NullHandle
  BY DEF FRet, VmBcRet, Fetch
<1>2. StackOK(stack) /\ Len(stack) \in Nat /\ Len(stack) <= WordMod /\ WordMod \in Nat
      /\ stack \in Seq(Word)
  BY FramesAssumption, TinyVMAssumption, WordSizes, TypeParts DEF FInv, StackOK
<1>3. /\ frames # <<>> /\ Len(frames) \in 1 .. Len(frames)
      /\ IsFunction(objs, function) /\ HasHeader(obj)
      /\ NumArgs(obj) \in Nat /\ NumLocals(obj) \in Nat /\ results \in Nat
      /\ fp \in Nat /\ fp = Active.at /\ fp = Len(Active.below) + NumArgs(obj)
      /\ OperandBase = fp + SavedSlots + NumLocals(obj)
      /\ Active \in FrameRecord /\ Len(Active.below) \in Nat
  <2>1. /\ frames # <<>> /\ Len(frames) \in Nat /\ Len(frames) > 0
        /\ IsFunction(objs, function)
        /\ NumArgs(obj) \in Nat /\ NumLocals(obj) \in Nat /\ results \in Nat
        /\ fp \in Nat /\ fp = Active.at /\ fp = Len(Active.below) + NumArgs(obj)
        /\ OperandBase = fp + SavedSlots + NumLocals(obj)
        /\ Active \in FrameRecord
    BY <1>1, ActiveFrame
  <2>2. HasHeader(obj)  BY <2>1 DEF IsFunction
  <2>3. Len(Active.below) \in Nat  BY <2>1 DEF FrameRecord
  <2> QED  BY <2>1, <2>2, <2>3
<1>4. Len(stack) = OperandBase + results /\ results <= slots
  <2>1. "RET" \notin Operands0 \cup BinaryOps \cup UnaryOps
          \cup {"SWAP", "LDW", "LDB", "POP", "BT", "BF", "STVAR", "STW", "STB", "VMC", "CALL"}
    BY DEF Operands0, BinaryOps, UnaryOps, CompareOps, DivideOps
  <2>2. Taken("RET", 0) = results  BY <2>1, Zenon DEF Taken
  <2>3. Len(stack) - results = OperandBase /\ results <= slots
    BY <1>1, <2>2 DEF WellBehaved
  <2>4. OperandBase \in Nat  BY <1>3 DEF SavedSlots
  <2> QED  BY <1>2, <1>3, <2>3, <2>4
<1>5. slots = NumArgs(obj) + NumLocals(obj) + SavedSlots
  BY DEF FrameSlots
<1> HIDE DEF obj, results, slots
<1>6. /\ slots \in Nat /\ slots > 0 /\ Len(stack) = Len(Active.below) + results + slots
      /\ Len(stack) - slots >= results /\ Len(stack) - slots >= 0
  <2> DEFINE below == Len(Active.below)
             args == NumArgs(obj)
             locals == NumLocals(obj)
             sp == Len(stack)
  <2>1. /\ below \in Nat /\ args \in Nat /\ locals \in Nat /\ results \in Nat
        /\ fp = below + args /\ OperandBase = fp + 3 + locals
    BY <1>3 DEF SavedSlots
  <2>2. sp = OperandBase + results  BY <1>4
  <2>3. slots = args + locals + 3  BY <1>5 DEF SavedSlots
  <2> HIDE DEF below, args, locals, sp
  <2>4. /\ slots \in Nat /\ slots > 0 /\ sp = below + results + slots
        /\ sp - slots >= results /\ sp - slots >= 0
    BY <2>1, <2>2, <2>3
  <2> QED  BY <2>4 DEF below, sp
<1>7. Seated(Len(frames)) /\ Ordered
  BY <1>3 DEF FInv, FramesOK
<1>8. /\ fp \in Nat /\ Len(stack) \in Nat /\ fp + 3 <= Len(stack)
      /\ stack[fp + 1] = Active.function /\ stack[fp + 2] = Active.pc /\ stack[fp + 3] = Active.fp
  <2>1. /\ stack[fp + 1] = Active.function /\ stack[fp + 2] = Active.pc
        /\ stack[fp + 3] = Active.fp
    BY <1>3, <1>7 DEF Seated, Active
  <2>2. fp \in Nat /\ OperandBase = fp + 3 + NumLocals(obj) /\ NumLocals(obj) \in Nat
        /\ results \in Nat
    BY <1>3 DEF SavedSlots
  <2>3. fp + 3 <= Len(stack)
    <3> HIDE DEF obj
    <3> QED  BY <1>2, <1>4, <2>2
  <2> QED  BY <1>2, <2>1, <2>2, <2>3
<1>9. SavedIndex(0) = fp /\ SavedIndex(1) = fp + 1 /\ SavedIndex(2) = fp + 2
  <2>1. WordMod \in Nat /\ fp + 3 <= WordMod  BY <1>2, <1>8
  <2>2. ASSUME NEW k \in 0 .. 2  PROVE SavedIndex(k) = fp + k
    <3>1. fp + k \in 0 .. WordMod - 1  BY <1>8, <2>1
    <3>2. (fp + k) % WordMod = fp + k  BY <2>1, <3>1
    <3> QED  BY <3>2 DEF SavedIndex
  <2> QED  BY <1>8, <2>2
<1>10. /\ CallersRegsReadable /\ Len(stack) - fp >= SavedSlots
       /\ Caller(0) = Active.function /\ Caller(1) = Active.pc /\ Caller(2) = Active.fp
  <2>1. OnStack(stack, fp) /\ OnStack(stack, fp + 1) /\ OnStack(stack, fp + 2)
    BY <1>8 DEF OnStack
  <2>2. CallersRegsReadable
    <3>1. \A k \in 0 .. 2 : k = 0 \/ k = 1 \/ k = 2  OBVIOUS
    <3> QED  BY <1>9, <2>1, <3>1 DEF CallersRegsReadable
  <2>3. fp + 1 + 1 = fp + 2 /\ fp + 2 + 1 = fp + 3  BY <1>8
  <2>4. Caller(0) = stack[fp + 1] /\ Caller(1) = stack[fp + 2] /\ Caller(2) = stack[fp + 3]
    BY <1>9, <2>3 DEF Caller, At
  <2>5. Len(stack) - fp >= SavedSlots  BY <1>8 DEF SavedSlots
  <2> QED  BY <1>8, <2>2, <2>4, <2>5
<1>11. Active.function \in DOMAIN objs \cup {NullHandle}
  <2>1. CASE Len(frames) = 1
    BY <1>3, <1>7, <2>1 DEF Ordered, Active
  <2>2. CASE Len(frames) # 1
    <3>1. PICK n \in Nat : n = Len(frames)  BY <1>3
    <3>2. n - 1 \in 1 .. Len(frames)  BY <1>3, <2>2, <3>1
    <3>3. Callee(n - 1) = frames[n].function  BY <1>3, <3>1 DEF Callee
    <3> QED  BY <3>1, <3>2, <3>3, FramesBelow DEF Active
  <2> QED  BY <2>1, <2>2
<1>12. /\ Return0(Drop(CopyResults(stack, Len(stack) - slots, results), slots))
       /\ function' = IF Caller(0) \in DOMAIN objs THEN Caller(0) ELSE NullHandle
       /\ pc' = Caller(1)
       /\ fp' = Caller(2)
  <2>1. ReturnFrom(obj)  BY <1>1, <1>3, <1>10 DEF VmBcRet, obj
  <2>2. ~ (Len(stack) - slots < 0) /\ ~ (results > Len(stack) - slots)
    BY <1>2, <1>3, <1>6
  <2> QED  BY <2>1, <2>2 DEF ReturnFrom, slots, results
<1>13. function' = Active.function /\ pc' = Active.pc /\ fp' = Active.fp
  BY <1>10, <1>11, <1>12
<1>14. status' = "running"  BY <1>1, <1>12 DEF Return0
<1>15. /\ Len(stack') = Len(Active.below) + results
       /\ \A k \in 1 .. Len(Active.below) : stack'[k] = stack[k]
       /\ \A k \in 1 .. results : stack'[Len(Active.below) + k] = stack[Len(stack) - results + k]
  <2>1. stack' = Drop(CopyResults(stack, Len(stack) - slots, results), slots)
    BY <1>12 DEF Return0
  <2> DEFINE below == Len(Active.below)
  <2>2. results \in Nat /\ results <= slots /\ below \in Nat
    BY <1>3, <1>4
  <2>4. slots \in Nat /\ slots > 0 /\ Len(stack) = below + results + slots
    BY <1>6
  <2> HIDE DEF below
  <2>3. LET s == Drop(CopyResults(stack, Len(stack) - slots, results), slots)
        IN  /\ Len(s) = below + results
            /\ \A k \in 1 .. below : s[k] = stack[k]
            /\ \A k \in 1 .. results :
                 s[below + k] = stack[Len(stack) - results + k]
    BY <1>2, <2>2, <2>4, CopyInOrder, ZenonT(60)
  <2> QED  BY <2>1, <2>3 DEF below
<1>16. frames' = Drop(frames, 1)  BY <1>14 DEF FRet
<1> QED
  BY <1>1, <1>4, <1>11, <1>13, <1>14, <1>15, <1>16 DEF Returned, results, obj

\* The frames after a return that has a caller.
LEMMA RetLayout ==
  ASSUME FInv, FRet, NEW n \in Nat, n = Len(frames), n # 1
  PROVE  /\ n > 1 /\ frames' \in Seq(FrameRecord) /\ Len(frames') = n - 1
         /\ \A i \in 1 .. n - 1 :
              /\ frames'[i] = frames[i]
              /\ Callee(i)' = Callee(i) /\ Code(i)' = Code(i) /\ Base(i)' = Base(i)
<1> DEFINE m == n - 1
<1>1. /\ function' = frames[n].function /\ objs' = objs
      /\ frames' = SubSeq(frames, 1, n - 1) /\ frames \in Seq(FrameRecord) /\ n > 0
  BY RetStep, ActiveFrame DEF Returned, Active, Drop, FInv, FramesOK
<1>2. m \in Nat /\ m > 0 /\ m + 1 = n
      /\ \A i \in 1 .. m : i < n /\ (i # m => i + 1 \in 1 .. m)
  BY <1>1
<1>3. frames' \in Seq(FrameRecord) /\ Len(frames') = m /\ \A i \in 1 .. m : frames'[i] = frames[i]
  BY <1>1, <1>2
<1> HIDE DEF m
<1>4. ASSUME NEW i \in 1 .. m
      PROVE  Callee(i)' = Callee(i) /\ Code(i)' = Code(i) /\ Base(i)' = Base(i)
  <2>1. Callee(i) = frames[i + 1].function  BY <1>2 DEF Callee
  <2>2. i = m => Callee(i)' = Callee(i)
    <3>1. i = m => Callee(i)' = function'  BY <1>3 DEF Callee
    <3> QED  BY <1>1, <1>2, <2>1, <3>1
  <2>3. i # m => Callee(i)' = Callee(i)
    <3>1. i # m => Callee(i)' = frames'[i + 1].function  BY <1>3 DEF Callee
    <3> QED  BY <1>2, <1>3, <2>1, <3>1
  <2>4. Callee(i)' = Callee(i)  BY <2>2, <2>3
  <2>5. Code(i)' = Code(i)  BY <1>1, <2>4 DEF Code
  <2>6. frames'[i] = frames[i]  BY <1>3
  <2> QED  BY <2>4, <2>5, <2>6 DEF Base
<1> QED  BY <1>1, <1>2, <1>3, <1>4 DEF m

\* A return takes the topmost frame away.
LEMMA RetFrames ==
  ASSUME FInv, FRet
  PROVE  FramesOK'
<1>0. PICK n \in Nat : n = Len(frames)  BY RetStep, ActiveFrame
<1> DEFINE below == Len(frames[n].below)
           results == NumResults(objs[function])
<1>1. /\ function # NullHandle /\ Returned /\ status' = "running" /\ objs' = objs
      /\ function' = frames[n].function /\ fp' = frames[n].fp
      /\ frames' = SubSeq(frames, 1, n - 1)
      /\ Len(stack') = below + results
      /\ \A k \in 1 .. below : stack'[k] = stack[k]
  BY <1>0, RetStep DEF Returned, Active, Drop
<1>2. n > 0 /\ n \in 1 .. n /\ results \in Nat /\ frames \in Seq(FrameRecord) /\ Short(objs)
  BY <1>0, <1>1, ActiveFrame DEF FInv, FramesOK, Short
<1>3. below \in Nat /\ Len(stack') \in Nat /\ Len(stack') >= below
  <2>1. below \in Nat  BY <1>0, <1>2, FramesBelow
  <2> HIDE DEF below, results
  <2> QED  BY <1>1, <1>2, <2>1
<1> HIDE DEF results
<1>4. /\ frames' \in Seq(FrameRecord) /\ Len(frames') = n - 1
      /\ \A i \in 1 .. n - 1 : frames'[i] = frames[i]
  <2>1. n - 1 \in 0 .. Len(frames)  BY <1>0, <1>2
  <2> QED  BY <1>0, <1>1, <1>2, <2>1
<1>5. CASE n = 1
  <2>1. Len(frames') = 0 /\ frames' = <<>>  BY <1>4, <1>5
  <2>2. function' = NullHandle
    <3>1. Ordered /\ frames # <<>>  BY <1>0, <1>2 DEF FInv, FramesOK
    <3> QED  BY <1>1, <1>5, <3>1 DEF Ordered
  <2> QED  BY <1>1, <1>2, <1>4, <2>1, <2>2 DEF FramesOK, Ordered, Short
<1>6. CASE n # 1
  <2> DEFINE m == n - 1
  <2>1. m \in Nat /\ m > 0 /\ m \in 1 .. m /\ m \in 1 .. n /\ m < n /\ m + 1 = n
        /\ \A i \in 1 .. m : i \in 1 .. n /\ i < n /\ (i # m => i + 1 \in 1 .. m)
    BY <1>2, <1>6
  <2>2. Len(frames') = m /\ \A i \in 1 .. m : frames'[i] = frames[i]  BY <1>4
  <2> HIDE DEF m
  <2>3. \A i \in 1 .. m : Callee(i)' = Callee(i) /\ Code(i)' = Code(i) /\ Base(i)' = Base(i)
    BY <1>0, <1>6, RetLayout DEF m
  <2>4. \A i \in 1 .. m : /\ Base(i) \in Nat /\ Base(i) <= below
                          /\ frames[i].at \in Nat /\ frames[i].at + 3 <= Base(i)
                          /\ Len(frames[i].below) \in Nat
                          /\ Len(frames[i].below) <= frames[i].at
    BY <1>0, <2>1, FramesBelow DEF SavedSlots
  <2>5. ASSUME NEW i \in 1 .. m  PROVE Seated(i)'
    <3>1. Seated(i)  BY <1>0, <2>1 DEF FInv, FramesOK
    <3>2. /\ Base(i) \in Nat /\ Base(i) <= below
          /\ frames[i].at \in Nat /\ frames[i].at + 3 <= Base(i)
          /\ Len(frames[i].below) \in Nat /\ Len(frames[i].below) <= frames[i].at
      BY <2>4
    <3>3. /\ stack'[frames[i].at + 1] = stack[frames[i].at + 1]
          /\ stack'[frames[i].at + 2] = stack[frames[i].at + 2]
          /\ stack'[frames[i].at + 3] = stack[frames[i].at + 3]
          /\ \A k \in 1 .. Len(frames[i].below) : stack'[k] = stack[k]
      <4> DEFINE at == frames[i].at
      <4>0. at \in Nat /\ at + 3 <= below  BY <1>3, <3>2
      <4> HIDE DEF at
      <4>1. at + 1 \in 1 .. below /\ at + 2 \in 1 .. below /\ at + 3 \in 1 .. below
        BY <1>3, <4>0, ThreeSlots
      <4>2. \A k \in 1 .. Len(frames[i].below) : k \in 1 .. below
        BY <1>3, <3>2, SMTT(40)
      <4> QED  BY <1>1, <4>1, <4>2 DEF at
    <3>4. Base(i)' <= Len(stack')
      <4>1. Base(i)' = Base(i)  BY <2>3
      <4> HIDE DEF below
      <4> QED  BY <1>3, <3>2, <4>1
    <3> QED  BY <1>1, <2>2, <2>3, <3>1, <3>3, <3>4 DEF Seated
  <2>6. Ordered'
    <3>1. \A i, j \in 1 .. m : i < j => Base(i)' <= Len(frames'[j].below)
      BY <1>0, <2>1, <2>2, <2>3, FramesBelow
    <3>2. \A i \in 1 .. m : i > 1 => frames'[i].fp = frames'[i - 1].at
      <4> TAKE i \in 1 .. m
      <4> HAVE i > 1
      <4>1. i - 1 \in 1 .. m  BY <2>1
      <4>2. i \in 1 .. Len(frames)  BY <1>0, <2>1
      <4> QED  BY <2>2, <4>1, <4>2 DEF FInv, FramesOK, Ordered
    <3>3. frames' # <<>> /\ frames'[1].function = NullHandle /\ fp' = Active'.at
      <4>1. Ordered /\ frames # <<>> /\ n \in 1 .. Len(frames) /\ n > 1
        BY <1>0, <1>2, <1>6 DEF FInv, FramesOK
      <4>2. frames[1].function = NullHandle /\ frames[n].fp = frames[n - 1].at
        BY <4>1 DEF Ordered
      <4>3. 1 \in 1 .. m /\ n - 1 = m  BY <2>1
      <4>4. frames'[1] = frames[1] /\ frames' # <<>> /\ Active' = frames[m]
        BY <2>1, <2>2, <4>3 DEF Active
      <4> QED  BY <1>1, <4>2, <4>3, <4>4
    <3> QED  BY <2>2, <3>1, <3>2, <3>3 DEF Ordered
  <2>7. \A i \in 1 .. Len(frames') : Seated(i)'  BY <2>2, <2>5
  <2> QED  BY <1>1, <1>2, <1>4, <2>6, <2>7 DEF FramesOK, Short
<1> QED  BY <1>5, <1>6

LEMMA FrameInit == ASSUME FInit PROVE FInv
<1>1. TypeOK  BY TypeInit DEF FInit
<1>2. /\ stack = <<>> /\ frames = <<>> /\ DOMAIN objs = {}
      /\ function = NullHandle /\ pc = 0 /\ fp = 0 /\ status = "created"
  BY DEF FInit, Init
<1>3. Len(frames) = 0  BY <1>2
<1> QED  BY <1>1, <1>2, <1>3 DEF FInv, FramesOK, Ordered, Fresh

\* A local instruction stays in its frame (VmStep on anything but CALL and RET).
LEMMA LocalFrames ==
  ASSUME FInv, TypeOK', Kept(objs, objs'), NEW op, NEW imm, FLocal(op, imm)
  PROVE  FramesOK'
<1>1. /\ op \notin {"CALL", "RET"} /\ WellBehaved(op, imm) /\ Execute(op, imm)
      /\ UNCHANGED frames /\ function # NullHandle
  BY DEF FLocal, WellBehaved
<1>2. function' = function /\ fp' = fp  BY <1>1, LocalRegs
<1>3. StaysInFrame  BY <1>1, LocalStack
<1>4. Short(objs')  BY <1>1, ExecuteShort
<1>5. status' # "created"  BY <1>1, ExecuteEnds
<1> QED  BY <1>1, <1>2, <1>3, <1>4, <1>5, FramesStay

LEMMA CallFrames ==
  ASSUME FInv, TypeOK', Kept(objs, objs'), NEW imm, FCall(imm)
  PROVE  FramesOK'
<1>1. CASE /\ status' = "failed" /\ StaysInFrame
           /\ UNCHANGED <<function, fp, frames>>
  <2>1. Short(objs') /\ function # NullHandle /\ status' # "created"
    BY <1>1, CallStep DEF FInv, FramesOK, Short
  <2> QED  BY <1>1, <2>1, FramesStay
<1>2. CASE Called(imm)  BY <1>2, CallStep, CalledFrames
<1> QED  BY <1>1, <1>2, CallStep

LEMMA FrameStep == ASSUME FInv, [FNext]_fvars PROVE FInv'
<1>1. [Next]_vars  BY FNextIsNext DEF fvars, vars
<1>2. TypeOK' /\ Kept(objs, objs')  BY <1>1, TypeStep, StepKeeps DEF FInv
<1>3. ASSUME NEW unit \in Units, FLoad(unit)  PROVE FramesOK'
  BY <1>2, <1>3, LoadFrames
<1>4. ASSUME NEW i \in Bytecode, FLocal(i.op, i.imm)  PROVE FramesOK'
  BY <1>2, <1>4, LocalFrames
<1>5. ASSUME NEW i \in Bytecode, FCall(i.imm)  PROVE FramesOK'
  BY <1>2, <1>5, CallFrames
<1>6. ASSUME FRet  PROVE FramesOK'  BY <1>6, RetFrames
<1>7. CASE (VmStepFails /\ UNCHANGED frames) \/ UNCHANGED fvars
  <2>1. UNCHANGED <<stack, function, pc, fp, objs, frames>>
    BY <1>7 DEF VmStepFails, fvars, vars
  <2>2. status' = "created" => status = "created"
    BY <1>7 DEF VmStepFails, fvars, vars
  <2>3. /\ \A i : Callee(i)' = Callee(i) /\ Code(i)' = Code(i) /\ Base(i)' = Base(i)
        /\ \A i : Seated(i) => Seated(i)'
        /\ Ordered => Ordered'
    BY <2>1 DEF Callee, Code, Base, Seated, Ordered, Active
  <2>4. /\ frames' \in Seq(FrameRecord) /\ (status' = "created" => Fresh')
        /\ \A h \in DOMAIN objs' : Len(objs'[h].data) < WordMod
        /\ \A i \in 1 .. Len(frames') : Seated(i)'
    BY <2>1, <2>2, <2>3 DEF FInv, FramesOK, Fresh
  <2> QED  BY <1>2, <2>3, <2>4 DEF FInv, FramesOK
<1> QED  BY <1>2, <1>3, <1>4, <1>5, <1>6, <1>7 DEF FNext, FInv

\* The layout of the frames, as the machine sees it and as the history variable
\* has it, holds of every program that keeps the convention (VmSetupCall, VmBcRet).
THEOREM FramesCorrect == FSpec => []FInv
<1>1. FInit => FInv  BY FrameInit
<1>2. FInv /\ [FNext]_fvars => FInv'  BY FrameStep
<1> QED  BY <1>1, <1>2, PTL DEF FSpec

\* RET will find the registers of every pending caller, whatever the program has
\* stored, pushed and popped since the CALL (VmGetCallersRegs).
THEOREM FrameChainHolds == FSpec => []FrameChain
<1>1. ASSUME FInv  PROVE FrameChain
  <2>1. frames # <<>> => fp = Active.at  BY <1>1 DEF FInv, FramesOK, Ordered
  <2>2. ASSUME NEW i \in 1 .. Len(frames)
        PROVE  /\ frames[i].at + SavedSlots <= Len(stack)
               /\ stack[frames[i].at + 1] = frames[i].function
               /\ stack[frames[i].at + 2] = frames[i].pc
               /\ stack[frames[i].at + 3] = frames[i].fp
               /\ i > 1 => frames[i].fp = frames[i - 1].at
    <3>1. Seated(i) /\ Ordered  BY <1>1 DEF FInv, FramesOK
    <3>2. frames[i].at + SavedSlots <= Len(stack)
      <4>1. /\ frames[i].at \in Nat /\ Base(i) \in Nat /\ Base(i) <= Len(stack)
            /\ frames[i].at + SavedSlots <= Base(i)
        BY <1>1, FramesBelow
      <4>2. Len(stack) \in Nat  BY <1>1, TypeParts DEF FInv, StackOK
      <4> QED  BY <4>1, <4>2 DEF SavedSlots
    <3> QED  BY <3>1, <3>2 DEF Seated, Ordered
  <2> QED  BY <2>1, <2>2 DEF FrameChain
<1> QED  BY <1>1, FramesCorrect, PTL

\* No function that keeps the convention can change what belongs to its callers.
THEOREM CallersAreUntouched == FSpec => []CallersUntouched
<1>1. ASSUME FInv  PROVE CallersUntouched
  <2>1. ASSUME NEW i \in 1 .. Len(frames)
        PROVE  /\ Len(frames[i].below) <= frames[i].at
               /\ SubSeq(stack, 1, Len(frames[i].below)) = frames[i].below
    <3> DEFINE below == frames[i].below
               s == SubSeq(stack, 1, Len(below))
    <3>1. /\ Seated(i) /\ below \in Seq(Word) /\ Len(below) <= Len(stack)
          /\ Len(below) \in Nat /\ Len(below) <= frames[i].at
          /\ stack \in Seq(Word) /\ Len(stack) \in Nat
      <4>1. /\ frames[i].at \in Nat /\ Base(i) \in Nat /\ Base(i) <= Len(stack)
            /\ frames[i].at + 3 <= Base(i) /\ frames[i] \in FrameRecord
            /\ Len(below) \in Nat /\ Len(below) <= frames[i].at
        BY <1>1, FramesBelow DEF SavedSlots
      <4>2. stack \in Seq(Word) /\ Len(stack) \in Nat
        BY <1>1, TypeParts DEF FInv, StackOK
      <4>3. Len(below) <= Len(stack)
        <5> HIDE DEF below
        <5> QED  BY <4>1, <4>2
      <4> QED  BY <1>1, <4>1, <4>2, <4>3 DEF FInv, FramesOK, FrameRecord
    <3>2. \A k \in 1 .. Len(below) : stack[k] = below[k]  BY <3>1 DEF Seated
    <3> HIDE DEF below
    <3>3. s \in Seq(Word) /\ Len(s) = Len(below) /\ \A k \in 1 .. Len(below) : s[k] = stack[k]
      BY <3>1
    <3> HIDE DEF s
    <3>4. s = below  BY <3>1, <3>2, <3>3
    <3> QED  BY <3>1, <3>4 DEF s, below
  <2> QED  BY <2>1 DEF CallersUntouched
<1> QED  BY <1>1, FramesCorrect, PTL

\* Two stacks are the same when they have the same slots.
LEMMA SameStack ==
  ASSUME NEW a \in Seq(Word), NEW b \in Seq(Word), Len(a) = Len(b),
         \A k \in 1 .. Len(a) : a[k] = b[k]
  PROVE  a = b
  OBVIOUS

\* The part of a stack between two slots.
LEMMA Slice ==
  ASSUME NEW s \in Seq(Word), NEW from \in Nat, NEW to \in Nat, from <= to, to <= Len(s)
  PROVE  /\ SubSeq(s, from + 1, to) \in Seq(Word)
         /\ Len(SubSeq(s, from + 1, to)) = to - from
         /\ \A k \in 1 .. to - from : SubSeq(s, from + 1, to)[k] = s[from + k]
  OBVIOUS

\* The stack of the caller after a return, as one sequence.
LEMMA ReturnedStack ==
  ASSUME FInv, FRet, TypeOK'
  PROVE  stack' = Active.below \o
                  SubSeq(stack, Len(stack) - NumResults(objs[function]) + 1, Len(stack))
<1> DEFINE below == Active.below
           results == NumResults(objs[function])
           from == Len(stack) - results
           tail == SubSeq(stack, from + 1, Len(stack))
<1>0. PICK n \in Nat : n = Len(frames)  BY RetStep, ActiveFrame
<1>1. /\ function # NullHandle /\ Returned /\ n \in 1 .. Len(frames)
      /\ results \in Nat /\ below \in Seq(Word) /\ Len(below) \in Nat
      /\ OperandBase \in Nat
  <2>1. function # NullHandle /\ Returned  BY RetStep
  <2>2. /\ n > 0 /\ results \in Nat /\ Active \in FrameRecord
        /\ OperandBase = fp + SavedSlots + NumLocals(objs[function])
        /\ fp \in Nat /\ NumLocals(objs[function]) \in Nat
    BY <1>0, <2>1, ActiveFrame
  <2>3. below \in Seq(Word)  BY <2>2 DEF FrameRecord
  <2> HIDE DEF below, results
  <2> QED  BY <1>0, <2>1, <2>2, <2>3 DEF SavedSlots
<1>2. stack \in Seq(Word) /\ Len(stack) \in Nat /\ stack' \in Seq(Word)
  BY TypeParts DEF FInv, StackOK, TypeOK
<1>3. /\ Len(stack) = OperandBase + results /\ Len(stack') = Len(below) + results
      /\ \A k \in 1 .. Len(below) : stack'[k] = stack[k]
      /\ \A k \in 1 .. results : stack'[Len(below) + k] = stack[from + k]
  BY <1>1 DEF Returned
<1>4. from \in Nat /\ from <= Len(stack) /\ Len(stack) - from = results
  <2> HIDE DEF results
  <2> QED  BY <1>1, <1>2, <1>3
<1>5. /\ tail \in Seq(Word) /\ Len(tail) = results
      /\ \A k \in 1 .. results : tail[k] = stack[from + k]
  <2> HIDE DEF results, from
  <2>1. /\ tail \in Seq(Word) /\ Len(tail) = Len(stack) - from
        /\ \A k \in 1 .. Len(stack) - from : tail[k] = stack[from + k]
    BY <1>2, <1>4, Slice
  <2> QED  BY <1>4, <2>1
<1>6. \A k \in 1 .. Len(below) : below[k] = stack[k]
  <2>1. Seated(n)  BY <1>1 DEF FInv, FramesOK
  <2> QED  BY <1>0, <2>1 DEF Seated, Active
<1> HIDE DEF below, results, from, tail
<1>7. /\ below \o tail \in Seq(Word) /\ Len(below \o tail) = Len(below) + results
      /\ \A k \in 1 .. Len(below) : (below \o tail)[k] = below[k]
      /\ \A k \in 1 .. results : (below \o tail)[Len(below) + k] = tail[k]
  <2>1. /\ below \o tail \in Seq(Word) /\ Len(below \o tail) = Len(below) + Len(tail)
        /\ \A k \in 1 .. Len(below) : (below \o tail)[k] = below[k]
        /\ \A k \in 1 .. Len(tail) : (below \o tail)[Len(below) + k] = tail[k]
    BY <1>1, <1>5, Concat
  <2> QED  BY <1>5, <2>1
<1>8. ASSUME NEW k \in 1 .. Len(stack')  PROVE stack'[k] = (below \o tail)[k]
  <2>1. CASE k <= Len(below)
    <3>1. k \in 1 .. Len(below)  BY <1>1, <2>1
    <3> QED  BY <1>3, <1>6, <1>7, <3>1
  <2>2. CASE ~ (k <= Len(below))
    <3>1. PICK j \in 1 .. results : k = Len(below) + j
      <4>1. k - Len(below) \in 1 .. results /\ k = Len(below) + (k - Len(below))
        BY <1>1, <1>3, <2>2
      <4> QED  BY <4>1
    <3> QED  BY <1>3, <1>5, <1>7, <3>1
  <2> QED  BY <2>1, <2>2
<1>9. stack' = below \o tail
  BY <1>2, <1>3, <1>7, <1>8, SameStack
<1> QED  BY <1>9 DEF below, tail, from, results

\* A return hands the caller its own stack, with the results in their order where
\* the arguments were, however many calls lie between (VmBcRet).
THEOREM ReturnsDeliver == FSpec => ReturnDelivers
<1> DEFINE Delivered == Len(frames') < Len(frames) =>
             /\ function' = Active.function /\ pc' = Active.pc /\ fp' = Active.fp
             /\ stack' = Active.below \o
                  SubSeq(stack, Len(stack) - NumResults(objs[function]) + 1, Len(stack))
<1>1. ASSUME FInv, FInv', [FNext]_fvars  PROVE [Delivered]_fvars
  <2>1. Len(frames) \in Nat /\ Len(frames') \in Nat  BY <1>1 DEF FInv, FramesOK
  <2>2. ASSUME UNCHANGED frames  PROVE Delivered  BY <2>1, <2>2
  <2>3. ASSUME NEW unit \in Units, FLoad(unit)  PROVE Delivered
    <3>1. frames = <<>>  BY <1>1, <2>3, LoadStep DEF FInv
    <3> QED  BY <2>1, <3>1
  <2>4. ASSUME NEW imm, FCall(imm)  PROVE Delivered
    <3>1. CASE Called(imm)
      <4> DEFINE f == Frame([function |-> function, pc |-> NextPc("CALL"), fp |-> fp],
                            Len(stack), Drop(stack, NumArgs(objs[imm])))
      <4>1. frames' = Append(frames, f)  BY <3>1 DEF Called
      <4> HIDE DEF f
      <4>2. frames \in Seq(FrameRecord)  BY <1>1 DEF FInv, FramesOK
      <4>3. Len(frames') = Len(frames) + 1  BY <4>1, <4>2
      <4>4. ~ (Len(frames') < Len(frames))
        <5> HIDE DEF Delivered
        <5> QED  BY <2>1, <4>3
      <4> QED  BY <4>4
    <3> QED  BY <1>1, <2>2, <2>4, <3>1, CallStep
  <2>5. ASSUME FRet  PROVE Delivered
    BY <1>1, <2>5, RetStep, ReturnedStack DEF Returned, FInv
  <2>6. ASSUME NEW i \in Bytecode, FLocal(i.op, i.imm)  PROVE UNCHANGED frames
    BY <2>6 DEF FLocal
  <2>7. UNCHANGED fvars \/ (VmStepFails /\ UNCHANGED frames) => UNCHANGED frames
    BY DEF fvars
  <2> QED  BY <1>1, <2>2, <2>3, <2>4, <2>5, <2>6, <2>7 DEF FNext
<1> QED  BY <1>1, FramesCorrect, PTL DEF FSpec, ReturnDelivers

----------------------------------------------------------------------------
(***************************************************************************)
(* One shared stack implements separate activations.                       *)
(***************************************************************************)

ActivationRecord == [function : Word, pc : Word,
                     args : Seq(Word), locals : Seq(Word), operands : Seq(Word)]

\* Where the operands of the i-th pending call end, and where it will continue.
Edge(i)     == IF i = Len(frames) THEN Len(stack) ELSE Len(frames[i + 1].below)
Continue(i) == IF i = Len(frames) THEN pc ELSE frames[i + 1].pc

\* A slice is determined by the slots it is taken from.
LEMMA SameSlice ==
  ASSUME NEW s \in Seq(Word), NEW t \in Seq(Word), NEW from \in Nat, NEW to \in Nat,
         from <= to, to <= Len(s), to <= Len(t),
         \A k \in from + 1 .. to : s[k] = t[k]
  PROVE  SubSeq(s, from + 1, to) = SubSeq(t, from + 1, to)
<1> DEFINE a == SubSeq(s, from + 1, to)
           b == SubSeq(t, from + 1, to)
<1>1. /\ a \in Seq(Word) /\ Len(a) = to - from
      /\ \A k \in 1 .. to - from : a[k] = s[from + k]
  BY Slice
<1>2. /\ b \in Seq(Word) /\ Len(b) = to - from
      /\ \A k \in 1 .. to - from : b[k] = t[from + k]
  BY Slice
<1>3. \A k \in 1 .. to - from : from + k \in from + 1 .. to
  OBVIOUS
<1> HIDE DEF a, b
<1>4. a = b  BY <1>1, <1>2, <1>3, SameStack
<1> QED  BY <1>4 DEF a, b

\* The layout of an activation: arguments, saved registers, locals, operands.
LaidOut(i) ==
  /\ Activation(i) \in ActivationRecord
  /\ Activation(i).function = Callee(i)
  /\ Activation(i).pc       = Continue(i)
  /\ Activation(i).args     = SubSeq(stack, Len(frames[i].below) + 1, frames[i].at)
  /\ Activation(i).locals   = SubSeq(stack, frames[i].at + SavedSlots + 1, Base(i))
  /\ Activation(i).operands = SubSeq(stack, Base(i) + 1, Edge(i))
  /\ Len(frames[i].below) \in Nat /\ frames[i].at \in Nat /\ Base(i) \in Nat
  /\ Edge(i) \in Nat /\ Len(stack) \in Nat
  /\ Len(frames[i].below) <= frames[i].at /\ frames[i].at + 3 <= Base(i)
  /\ Base(i) <= Edge(i) /\ Edge(i) <= Len(stack)
  /\ Callee(i) \in Word /\ Continue(i) \in Word

LEMMA ActivationOf ==
  ASSUME FInv, NEW i \in 1 .. Len(frames)
  PROVE  LaidOut(i)
<1>0. PICK n \in Nat : n = Len(frames)  BY DEF FInv, FramesOK
<1> DEFINE args == NumArgs(Code(i))
           locals == NumLocals(Code(i))
           below == Len(frames[i].below)
           at == frames[i].at
<1>1. /\ below \in Nat /\ at \in Nat /\ Base(i) \in Nat /\ args \in Nat /\ locals \in Nat
      /\ below <= at /\ at + 3 <= Base(i) /\ Base(i) <= Len(stack)
      /\ Callee(i) \in DOMAIN objs
      /\ at = below + args /\ Base(i) = at + SavedSlots + locals
  <2>1. Seated(i)  BY DEF FInv, FramesOK
  <2> QED  BY <2>1, FramesBelow DEF Seated, SavedSlots, Base
<1>2. StackOK(stack) /\ RegsOK /\ ObjsOK(objs) /\ Len(stack) \in Nat
  BY TypeParts DEF FInv, StackOK
<1>3. Callee(i) \in Word  BY <1>1, <1>2, ByteIsWord DEF ObjsOK, Handle
<1> DEFINE Shape ==
      /\ Activation(i) =
           [function |-> Callee(i), pc |-> Continue(i),
            args     |-> SubSeq(stack, below + 1, at),
            locals   |-> SubSeq(stack, at + SavedSlots + 1, Base(i)),
            operands |-> SubSeq(stack, Base(i) + 1, Edge(i))]
      /\ Edge(i) \in Nat /\ Base(i) <= Edge(i) /\ Edge(i) <= Len(stack)
      /\ Continue(i) \in Word
<1>4. ASSUME i = Len(frames)  PROVE Shape
  <2>1. Edge(i) = Len(stack) /\ Continue(i) = pc  BY <1>4 DEF Edge, Continue
  <2>2. Activation(i) =
          [function |-> Callee(i), pc |-> Continue(i),
           args     |-> SubSeq(stack, at - args + 1, at),
           locals   |-> SubSeq(stack, at + SavedSlots + 1, at + SavedSlots + locals),
           operands |-> SubSeq(stack, at + SavedSlots + locals + 1, Edge(i))]
    BY <1>4 DEF Activation, Callee, Code, Edge, Continue
  <2>3. at - args = below  BY <1>1
  <2>4. pc \in Word  BY <1>2 DEF RegsOK
  <2>5. at + SavedSlots + locals = Base(i)  BY <1>1
  <2>6. Activation(i) =
          [function |-> Callee(i), pc |-> Continue(i),
           args     |-> SubSeq(stack, below + 1, at),
           locals   |-> SubSeq(stack, at + SavedSlots + 1, Base(i)),
           operands |-> SubSeq(stack, Base(i) + 1, Edge(i))]
    BY <2>2, <2>3, <2>5
  <2> QED  BY <1>1, <1>2, <2>1, <2>4, <2>6
<1>5. ASSUME i # Len(frames)  PROVE Shape
  <2>1. i + 1 \in 1 .. Len(frames) /\ i < i + 1  BY <1>0, <1>5
  <2>2. Edge(i) = Len(frames[i + 1].below) /\ Continue(i) = frames[i + 1].pc
    BY <1>5 DEF Edge, Continue
  <2>3. Activation(i) =
          [function |-> Callee(i), pc |-> Continue(i),
           args     |-> SubSeq(stack, at - args + 1, at),
           locals   |-> SubSeq(stack, at + SavedSlots + 1, at + SavedSlots + locals),
           operands |-> SubSeq(stack, at + SavedSlots + locals + 1, Edge(i))]
    BY <1>5 DEF Activation, Callee, Code, Edge, Continue
  <2>4. at - args = below  BY <1>1
  <2>5. /\ frames[i + 1] \in FrameRecord
        /\ Edge(i) \in Nat /\ Base(i) <= Edge(i) /\ Edge(i) <= Len(stack)
    <3>1. /\ frames[i + 1] \in FrameRecord
          /\ Len(frames[i + 1].below) \in Nat
          /\ Len(frames[i + 1].below) <= frames[i + 1].at
          /\ frames[i + 1].at \in Nat /\ Base(i + 1) \in Nat
          /\ frames[i + 1].at + 3 <= Base(i + 1) /\ Base(i + 1) <= Len(stack)
          /\ Base(i) <= Len(frames[i + 1].below)
      BY <2>1, FramesBelow DEF SavedSlots
    <3> QED  BY <1>2, <2>2, <3>1
  <2>6. Continue(i) \in Word  BY <2>2, <2>5 DEF FrameRecord
  <2>7. at + SavedSlots + locals = Base(i)  BY <1>1
  <2>8. Activation(i) =
          [function |-> Callee(i), pc |-> Continue(i),
           args     |-> SubSeq(stack, below + 1, at),
           locals   |-> SubSeq(stack, at + SavedSlots + 1, Base(i)),
           operands |-> SubSeq(stack, Base(i) + 1, Edge(i))]
    BY <2>3, <2>4, <2>7
  <2> QED  BY <2>5, <2>6, <2>8
<1>6. Shape  BY <1>4, <1>5
<1>7. /\ SubSeq(stack, below + 1, at) \in Seq(Word)
      /\ SubSeq(stack, at + SavedSlots + 1, Base(i)) \in Seq(Word)
      /\ SubSeq(stack, Base(i) + 1, Edge(i)) \in Seq(Word)
  <2> DEFINE base == Base(i)
             edge == Edge(i)
  <2>1. /\ base <= edge /\ edge <= Len(stack) /\ edge \in Nat /\ base \in Nat
        /\ stack \in Seq(Word)
    BY <1>1, <1>2, <1>6 DEF StackOK
  <2> HIDE DEF below, at, base, edge, Shape
  <2>2. base <= Len(stack) /\ at <= Len(stack) /\ at + 3 \in Nat
    BY <1>1, <1>2, <2>1 DEF base
  <2>3. /\ SubSeq(stack, below + 1, at) \in Seq(Word)
        /\ SubSeq(stack, (at + 3) + 1, base) \in Seq(Word)
        /\ SubSeq(stack, base + 1, edge) \in Seq(Word)
    BY <1>1, <2>1, <2>2, Slice DEF base
  <2> QED  BY <2>3 DEF base, edge, SavedSlots
<1>8. /\ Activation(i) \in ActivationRecord
      /\ Activation(i).function = Callee(i) /\ Activation(i).pc = Continue(i)
      /\ Activation(i).args     = SubSeq(stack, below + 1, at)
      /\ Activation(i).locals   = SubSeq(stack, at + SavedSlots + 1, Base(i))
      /\ Activation(i).operands = SubSeq(stack, Base(i) + 1, Edge(i))
  <2> DEFINE a == SubSeq(stack, below + 1, at)
             l == SubSeq(stack, at + SavedSlots + 1, Base(i))
             o == SubSeq(stack, Base(i) + 1, Edge(i))
             f == Callee(i)
             q == Continue(i)
  <2>1. /\ a \in Seq(Word) /\ l \in Seq(Word) /\ o \in Seq(Word) /\ f \in Word /\ q \in Word
        /\ Activation(i) = [function |-> f, pc |-> q, args |-> a, locals |-> l, operands |-> o]
    BY <1>3, <1>6, <1>7
  <2> HIDE DEF a, l, o, f, q
  <2>2. /\ Activation(i) \in ActivationRecord
        /\ Activation(i).function = f /\ Activation(i).pc = q
        /\ Activation(i).args = a /\ Activation(i).locals = l /\ Activation(i).operands = o
    BY <2>1 DEF ActivationRecord
  <2> QED  BY <2>2 DEF a, l, o, f, q
<1> QED  BY <1>1, <1>2, <1>3, <1>6, <1>8 DEF LaidOut

\* The pending calls as a sequence of activations.
Pending ==
  IF status = "running"
    THEN /\ PendingCalls \in Seq(ActivationRecord)
         /\ Len(PendingCalls) = Len(frames)
         /\ \A i \in 1 .. Len(frames) :
              PendingCalls[i] = Activation(i) /\ LaidOut(i)
    ELSE PendingCalls = <<>>

LEMMA PendingNow == FInv => Pending
<1> SUFFICES ASSUME FInv PROVE Pending  OBVIOUS
<1>1. CASE status # "running"  BY <1>1 DEF Pending, PendingCalls
<1>2. CASE status = "running"
  <2>1. PICK n \in Nat : n = Len(frames)  BY DEF FInv, FramesOK
  <2>2. PendingCalls = [i \in 1 .. n |-> Activation(i)]
    BY <1>2, <2>1 DEF PendingCalls
  <2>3. \A i \in 1 .. n : Activation(i) \in ActivationRecord
    BY <2>1, ActivationOf DEF LaidOut
  <2> HIDE DEF PendingCalls
  <2>4. /\ PendingCalls \in Seq(ActivationRecord) /\ Len(PendingCalls) = n
        /\ \A i \in 1 .. n : PendingCalls[i] = Activation(i)
    BY <2>2, <2>3
  <2> QED  BY <1>2, <2>1, <2>3, <2>4, ActivationOf DEF Pending
<1> QED  BY <1>1, <1>2

LEMMA PendingThen == FInv' => Pending'
  BY PendingNow, PTL

\* Activations are the same when their fields are.
LEMMA SameRecord ==
  ASSUME NEW a \in ActivationRecord, NEW b \in ActivationRecord,
         a.function = b.function, a.pc = b.pc, a.args = b.args, a.locals = b.locals,
         a.operands = b.operands
  PROVE  a = b
  BY DEF ActivationRecord

\* A step that leaves the slots of a frame alone changes at most the operands
\* and the program counter of its activation.
LEMMA SameFrame ==
  ASSUME FInv, NEW i \in 1 .. Len(frames), LaidOut(i)', frames'[i] = frames[i],
         Callee(i)' = Callee(i), Base(i)' = Base(i), stack' \in Seq(Word),
         \A k \in 1 .. Base(i) : stack'[k] = stack[k]
  PROVE  /\ Activation(i)'.function = Activation(i).function
         /\ Activation(i)'.pc = Continue(i)'
         /\ Activation(i)'.args = Activation(i).args
         /\ Activation(i)'.locals = Activation(i).locals
         /\ Activation(i)'.operands = SubSeq(stack', Base(i) + 1, Edge(i)')
<1> DEFINE below == Len(frames[i].below)
           at == frames[i].at
           base == Base(i)
<1>1. /\ below \in Nat /\ at \in Nat /\ base \in Nat /\ Len(stack) \in Nat /\ Len(stack') \in Nat
      /\ below <= at /\ at + 3 <= base /\ base <= Len(stack) /\ base <= Len(stack')
  <2>1. LaidOut(i)  BY ActivationOf
  <2>2. /\ base \in Nat /\ Edge(i) \in Nat /\ Len(stack) \in Nat
        /\ base <= Edge(i) /\ Edge(i) <= Len(stack)
    BY <2>1 DEF LaidOut
  <2>3. base <= Len(stack)
    <3> HIDE DEF base
    <3> QED  BY <2>2
  <2>4. /\ Base(i)' \in Nat /\ Edge(i)' \in Nat /\ Len(stack') \in Nat
        /\ Base(i)' <= Edge(i)' /\ Edge(i)' <= Len(stack')
    BY DEF LaidOut
  <2>5. Base(i)' <= Len(stack')  BY <2>4
  <2> QED  BY <2>1, <2>3, <2>4, <2>5 DEF LaidOut
<1>2. stack \in Seq(Word)  BY TypeParts DEF FInv, StackOK
<1>3. /\ Activation(i).function = Callee(i)
      /\ Activation(i).args = SubSeq(stack, below + 1, at)
      /\ Activation(i).locals = SubSeq(stack, (at + 3) + 1, base)
  BY ActivationOf DEF LaidOut, SavedSlots
<1>4. /\ Activation(i)'.function = Callee(i)
      /\ Activation(i)'.pc = Continue(i)'
      /\ Activation(i)'.args = SubSeq(stack', below + 1, at)
      /\ Activation(i)'.locals = SubSeq(stack', (at + 3) + 1, base)
      /\ Activation(i)'.operands = SubSeq(stack', Base(i) + 1, Edge(i)')
  BY DEF LaidOut, SavedSlots
<1> HIDE DEF below, at, base
<1>5. \A k \in 1 .. base : stack'[k] = stack[k]  BY DEF base
<1>6. SubSeq(stack', below + 1, at) = SubSeq(stack, below + 1, at)
  <2>1. \A k \in below + 1 .. at : k \in 1 .. base  BY <1>1
  <2>2. at <= Len(stack) /\ at <= Len(stack')  BY <1>1
  <2> QED  BY <1>1, <1>2, <1>5, <2>1, <2>2, SameSlice
<1>7. SubSeq(stack', (at + 3) + 1, base) = SubSeq(stack, (at + 3) + 1, base)
  <2>1. \A k \in (at + 3) + 1 .. base : k \in 1 .. base  BY <1>1
  <2>2. at + 3 \in Nat  BY <1>1
  <2> QED  BY <1>1, <1>2, <1>5, <2>1, <2>2, SameSlice, SMTT(40)
<1> QED  BY <1>3, <1>4, <1>6, <1>7

\* The activation of a call that stays pending does not change at all.
LEMMA SameActivation ==
  ASSUME FInv, NEW i \in 1 .. Len(frames), LaidOut(i)', frames'[i] = frames[i],
         Callee(i)' = Callee(i), Base(i)' = Base(i), stack' \in Seq(Word),
         Continue(i)' = Continue(i), Edge(i)' = Edge(i),
         \A k \in 1 .. Edge(i) : stack'[k] = stack[k]
  PROVE  Activation(i)' = Activation(i)
<1>1. LaidOut(i) /\ stack \in Seq(Word)
  BY ActivationOf, TypeParts DEF FInv, StackOK
<1>2. /\ Base(i) \in Nat /\ Edge(i) \in Nat /\ Len(stack) \in Nat /\ Len(stack') \in Nat
      /\ Base(i) <= Edge(i) /\ Edge(i) <= Len(stack) /\ Edge(i)' <= Len(stack')
  BY <1>1 DEF LaidOut
<1>3. \A k \in 1 .. Base(i) : k \in 1 .. Edge(i)  BY <1>2
<1>4. /\ Activation(i)'.function = Activation(i).function
      /\ Activation(i)'.pc = Continue(i)
      /\ Activation(i)'.args = Activation(i).args
      /\ Activation(i)'.locals = Activation(i).locals
      /\ Activation(i)'.operands = SubSeq(stack', Base(i) + 1, Edge(i))
  BY <1>3, SameFrame
<1>5. SubSeq(stack', Base(i) + 1, Edge(i)) = SubSeq(stack, Base(i) + 1, Edge(i))
  <2> DEFINE base == Base(i)
             edge == Edge(i)
  <2>1. /\ base \in Nat /\ edge \in Nat /\ base <= edge
        /\ edge <= Len(stack) /\ edge <= Len(stack')
        /\ \A k \in base + 1 .. edge : k \in 1 .. edge
    BY <1>2
  <2>2. \A k \in 1 .. edge : stack'[k] = stack[k]  OBVIOUS
  <2> HIDE DEF base, edge
  <2>3. SubSeq(stack', base + 1, edge) = SubSeq(stack, base + 1, edge)
    BY <1>1, <2>1, <2>2, SameSlice
  <2> QED  BY <2>3 DEF base, edge
<1>6. Activation(i).pc = Continue(i)
      /\ Activation(i).operands = SubSeq(stack, Base(i) + 1, Edge(i))
  BY <1>1 DEF LaidOut
<1>7. Activation(i) \in ActivationRecord /\ Activation(i)' \in ActivationRecord
  BY <1>1 DEF LaidOut
<1> QED  BY <1>4, <1>5, <1>6, <1>7, SameRecord

\* What two sequences of activations have in common.
LEMMA SamePrefix ==
  ASSUME NEW a \in Seq(ActivationRecord), NEW b \in Seq(ActivationRecord), NEW m \in Nat,
         m <= Len(a), m <= Len(b), \A k \in 1 .. m : a[k] = b[k]
  PROVE  SubSeq(a, 1, m) = SubSeq(b, 1, m)
<1> DEFINE s == SubSeq(a, 1, m)
           t == SubSeq(b, 1, m)
<1>1. s \in Seq(ActivationRecord) /\ Len(s) = m /\ \A k \in 1 .. m : s[k] = a[k]
  OBVIOUS
<1>2. t \in Seq(ActivationRecord) /\ Len(t) = m /\ \A k \in 1 .. m : t[k] = b[k]
  OBVIOUS
<1> HIDE DEF s, t
<1>3. s = t  BY <1>1, <1>2
<1> QED  BY <1>3 DEF s, t

LEMMA StopStep == ASSUME FInv', status' # "running" PROVE Separate!Next
<1>1. PendingCalls' = <<>>  BY PendingThen DEF Pending
<1> QED  BY <1>1 DEF Separate!Next, Separate!Stop

\* The load of a unit starts its entry function.
LEMMA StartStep ==
  ASSUME FInv, FInv', status = "created", NEW unit, Loaded(unit)
  PROVE  Separate!Next
<1> DEFINE f == Frame([function |-> NullHandle, pc |-> 0, fp |-> 0], 0, <<>>)
           entry == unit.entry
           locals == NumLocals(objs'[entry])
<1>1. PendingCalls = <<>>  BY PendingNow DEF Pending
<1>2. /\ frames' = <<f>> /\ function' = entry /\ pc' = 0 /\ status' = "running"
      /\ IsFunction(objs', entry)
      /\ Len(stack') = SavedSlots + locals
      /\ \A k \in 1 .. locals : stack'[3 + k] = 0
  BY DEF Loaded
<1>3. f.at = 0 /\ f.below = <<>>  BY DEF Frame
<1> HIDE DEF f
<1>4. Len(frames') = 1 /\ frames'[1] = f  BY <1>2
<1>5. Callee(1)' = entry /\ Continue(1)' = 0 /\ Edge(1)' = Len(stack')
  BY <1>2, <1>4 DEF Callee, Continue, Edge
<1>6. Base(1)' = 3 + locals
  <2>1. Code(1)' = objs'[entry]  BY <1>5 DEF Code
  <2>2. locals \in Nat
    <3>1. ObjsOK(objs')  BY TypeParts DEF FInv, TypeOK, ObjsOK
    <3> QED  BY <1>2, <3>1, FunctionType
  <2>3. Base(1)' = frames'[1].at + SavedSlots + locals  BY <2>1 DEF Base
  <2> HIDE DEF locals
  <2> QED  BY <1>3, <1>4, <2>2, <2>3 DEF SavedSlots
<1>7. /\ LaidOut(1)' /\ Len(PendingCalls') = 1 /\ PendingCalls'[1] = Activation(1)'
  <2>1. 1 \in 1 .. Len(frames')  BY <1>4
  <2>2. Pending' /\ status' = "running"  BY <1>2, PendingThen
  <2> QED  BY <1>4, <2>1, <2>2 DEF Pending
<1>8. Activation(1)'.pc = 0  BY <1>5, <1>7 DEF LaidOut
<1>9. locals \in Nat /\ Len(stack') = 3 + locals /\ stack' \in Seq(Word)
  <2>1. ObjsOK(objs')  BY DEF FInv, TypeOK, ObjsOK
  <2>2. locals \in Nat  BY <1>2, <2>1, FunctionType
  <2> QED  BY <1>2, <2>2 DEF FInv, TypeOK, SavedSlots
<1> HIDE DEF locals
<1>10. Activation(1)'.args = <<>>
  <2>1. Activation(1)'.args = SubSeq(stack', 0 + 1, 0)
    BY <1>3, <1>4, <1>7 DEF LaidOut
  <2>2. SubSeq(stack', 0 + 1, 0) \in Seq(Word) /\ Len(SubSeq(stack', 0 + 1, 0)) = 0
    BY <1>9, Slice
  <2> QED  BY <2>1, <2>2
<1>11. Activation(1)'.operands = <<>>
  <2>1. Activation(1)'.operands = SubSeq(stack', (3 + locals) + 1, 3 + locals)
    BY <1>5, <1>6, <1>7, <1>9 DEF LaidOut
  <2>2. 3 + locals \in Nat  BY <1>9
  <2> DEFINE o == SubSeq(stack', (3 + locals) + 1, 3 + locals)
  <2>3. o \in Seq(Word) /\ Len(o) = (3 + locals) - (3 + locals)
    BY <1>9, <2>2, Slice
  <2> HIDE DEF o
  <2>4. Len(o) = 0  BY <2>2, <2>3
  <2>5. o = <<>>  BY <2>3, <2>4
  <2> QED  BY <2>1, <2>5 DEF o
<1>12. \A k \in DOMAIN Activation(1)'.locals : Activation(1)'.locals[k] = 0
  <2> DEFINE l == SubSeq(stack', 3 + 1, 3 + locals)
  <2>1. Activation(1)'.locals = SubSeq(stack', 0 + SavedSlots + 1, 3 + locals)
    BY <1>3, <1>4, <1>6, <1>7 DEF LaidOut
  <2>2. Activation(1)'.locals = l  BY <2>1 DEF SavedSlots
  <2>3. 3 + locals \in Nat /\ 3 <= 3 + locals /\ (3 + locals) - 3 = locals  BY <1>9
  <2>4. l \in Seq(Word) /\ Len(l) = locals /\ \A k \in 1 .. locals : l[k] = stack'[3 + k]
    BY <1>9, <2>3, Slice
  <2> HIDE DEF l
  <2>5. DOMAIN l = 1 .. locals  BY <2>4
  <2> QED  BY <1>2, <2>2, <2>4, <2>5 DEF locals
<1>13. Separate!Start
  BY <1>1, <1>7, <1>8, <1>10, <1>11, <1>12 DEF Separate!Start
<1> QED  BY <1>13 DEF Separate!Next

\* The operands of a pending call lie below all that the active function has.
LEMMA EdgeBelow ==
  ASSUME FInv, NEW i \in 1 .. Len(frames), i < Len(frames)
  PROVE  Edge(i) \in Nat /\ Edge(i) <= Len(frames[Len(frames)].below)
<1>0. PICK n \in Nat : n = Len(frames)  BY DEF FInv, FramesOK
<1>1. i + 1 \in 1 .. n /\ n \in 1 .. n  BY <1>0
<1>2. Edge(i) = Len(frames[i + 1].below)  BY DEF Edge
<1>3. Edge(i) \in Nat /\ Edge(i) <= frames[i + 1].at
      /\ frames[i + 1].at \in Nat /\ Base(i + 1) \in Nat /\ frames[i + 1].at + 3 <= Base(i + 1)
  BY <1>0, <1>1, <1>2, FramesBelow DEF SavedSlots
<1>4. CASE i + 1 = n  BY <1>0, <1>2, <1>3, <1>4
<1>5. CASE i + 1 # n
  <2>1. i + 1 < n  BY <1>1, <1>5
  <2>2. Base(i + 1) <= Len(frames[n].below) /\ Len(frames[n].below) \in Nat
    BY <1>0, <1>1, <2>1, FramesBelow
  <2> QED  BY <1>0, <1>3, <2>2
<1> QED  BY <1>4, <1>5

\* A local instruction reaches its own activation only.
LEMMA ComputeStep ==
  ASSUME FInv, FInv', status = "running", status' = "running", Kept(objs, objs'),
         function # NullHandle, StaysInFrame, UNCHANGED <<function, fp, frames>>
  PROVE  Separate!Next
<1>0. PICK n \in Nat : n = Len(frames)  BY DEF FInv, FramesOK
<1>1. /\ n > 0 /\ n \in 1 .. n /\ frames' = frames
      /\ fp = Len(frames[n].below) + NumArgs(objs[function]) /\ fp \in Nat
      /\ NumArgs(objs[function]) \in Nat /\ NumLocals(objs[function]) \in Nat
      /\ OperandBase = fp + SavedSlots + NumLocals(objs[function])
  BY <1>0, ActiveFrame DEF Active
<1>2. /\ PendingCalls \in Seq(ActivationRecord) /\ Len(PendingCalls) = n
      /\ \A i \in 1 .. n : PendingCalls[i] = Activation(i) /\ LaidOut(i)
  BY <1>0, PendingNow DEF Pending
<1>3. /\ PendingCalls' \in Seq(ActivationRecord) /\ Len(PendingCalls') = n
      /\ \A i \in 1 .. n : PendingCalls'[i] = Activation(i)' /\ LaidOut(i)'
  BY <1>0, <1>1, PendingThen DEF Pending
<1>4. stack' \in Seq(Word)  BY DEF FInv, TypeOK
<1>5. ASSUME NEW i \in 1 .. n
      PROVE  Callee(i)' = Callee(i) /\ Base(i)' = Base(i) /\ frames'[i] = frames[i]
  <2>1. Callee(i)' = Callee(i)  BY DEF Callee
  <2>2. IsFunction(objs, Callee(i))  BY <1>0 DEF FInv, FramesOK, Seated
  <2>3. objs'[Callee(i)] = objs[Callee(i)]  BY <2>2, FunctionStays
  <2> QED  BY <1>1, <2>1, <2>3 DEF Code, Base
<1>6. ASSUME NEW k \in 1 .. Len(frames[n].below)  PROVE stack'[k] = stack[k]
  <2> DEFINE below == Len(frames[n].below)
             args == NumArgs(objs[function])
  <2>1. below \in Nat  BY <1>2 DEF LaidOut
  <2>2. fp - args = below  
    <3> HIDE DEF below, args
    <3>1. fp = below + args /\ args \in Nat  BY <1>1 DEF below, args
    <3> QED  BY <2>1, <3>1
  <2>3. ~ Own(k)  BY <2>1, <2>2 DEF Own
  <2>4. OperandBase \in Nat /\ below <= OperandBase
    <3> HIDE DEF below, args
    <3>1. fp = below + args /\ args \in Nat  BY <1>1 DEF below, args
    <3> QED  BY <1>1, <2>1, <3>1 DEF SavedSlots
  <2>5. k \in 1 .. OperandBase  BY <2>1, <2>4
  <2> QED  BY <2>3, <2>5 DEF StaysInFrame
<1>7. ASSUME NEW i \in 1 .. n - 1  PROVE Activation(i)' = Activation(i)
  <2>1. i \in 1 .. n /\ i < n /\ i # n  BY <1>0
  <2>2. Edge(i) \in Nat /\ Edge(i) <= Len(frames[n].below)  BY <1>0, <2>1, EdgeBelow
  <2>3. Continue(i)' = Continue(i) /\ Edge(i)' = Edge(i)
    BY <1>0, <1>1, <2>1 DEF Continue, Edge
  <2>4. Len(frames[n].below) \in Nat  BY <1>1, <1>2 DEF LaidOut
  <2>5. \A k \in 1 .. Edge(i) : stack'[k] = stack[k]  BY <1>6, <2>2, <2>4
  <2> QED  BY <1>0, <1>3, <1>4, <1>5, <2>1, <2>3, <2>5, SameActivation
<1>8. /\ Activation(n)'.function = Activation(n).function
      /\ Len(Activation(n)'.args) = Len(Activation(n).args)
      /\ Len(Activation(n)'.locals) = Len(Activation(n).locals)
  <2> DEFINE below == Len(frames[n].below)
             at == frames[n].at
             base == Base(n)
  <2>1. /\ below \in Nat /\ at \in Nat /\ base \in Nat /\ Len(stack) \in Nat /\ Len(stack') \in Nat
        /\ below <= at /\ at + 3 <= base /\ base <= Len(stack) /\ base <= Len(stack')
    <3>1. LaidOut(n) /\ LaidOut(n)' /\ Base(n)' = base  BY <1>1, <1>2, <1>3, <1>5
    <3>2. /\ base \in Nat /\ Edge(n) \in Nat /\ Len(stack) \in Nat
          /\ base <= Edge(n) /\ Edge(n) <= Len(stack)
          /\ Edge(n)' \in Nat /\ Len(stack') \in Nat
          /\ base <= Edge(n)' /\ Edge(n)' <= Len(stack')
      BY <3>1 DEF LaidOut
    <3>3. base <= Len(stack) /\ base <= Len(stack')
      <4> HIDE DEF base
      <4> QED  BY <3>2
    <3> QED  BY <3>1, <3>2, <3>3 DEF LaidOut
  <2>2. /\ Activation(n).function = Callee(n)
        /\ Activation(n).args = SubSeq(stack, below + 1, at)
        /\ Activation(n).locals = SubSeq(stack, (at + 3) + 1, base)
    BY <1>1, <1>2 DEF LaidOut, SavedSlots
  <2>3. /\ Activation(n)'.function = Callee(n)
        /\ Activation(n)'.args = SubSeq(stack', below + 1, at)
        /\ Activation(n)'.locals = SubSeq(stack', (at + 3) + 1, base)
    BY <1>1, <1>3, <1>5 DEF LaidOut, SavedSlots
  <2>4. stack \in Seq(Word)  BY TypeParts DEF FInv, StackOK
  <2> HIDE DEF below, at, base
  <2>5. at \in Nat /\ at + 3 \in Nat /\ at <= Len(stack) /\ at <= Len(stack')  BY <2>1
  <2>6. Len(Activation(n)'.args) = at - below /\ Len(Activation(n).args) = at - below
    BY <1>4, <2>1, <2>2, <2>3, <2>4, <2>5, Slice
  <2>7. /\ Len(Activation(n)'.locals) = base - (at + 3)
        /\ Len(Activation(n).locals) = base - (at + 3)
    BY <1>4, <2>1, <2>2, <2>3, <2>4, <2>5, Slice
  <2> QED  BY <2>2, <2>3, <2>6, <2>7
<1>9. SubSeq(PendingCalls', 1, n - 1) = SubSeq(PendingCalls, 1, n - 1)
  <2>1. n - 1 \in Nat /\ n - 1 <= n /\ \A k \in 1 .. n - 1 : k \in 1 .. n  BY <1>1
  <2>2. \A k \in 1 .. n - 1 : PendingCalls'[k] = PendingCalls[k]
    BY <1>2, <1>3, <1>7, <2>1
  <2> QED  BY <1>2, <1>3, <2>1, <2>2, SamePrefix
<1>10. PendingCalls # <<>>
  <2> HIDE DEF PendingCalls
  <2> QED  BY <1>1, <1>2
<1>11. /\ PendingCalls[n] = Activation(n) /\ PendingCalls'[n] = Activation(n)'
  BY <1>1, <1>2, <1>3
<1>12. Separate!Compute
  BY <1>2, <1>3, <1>8, <1>9, <1>10, <1>11
     DEF Separate!Compute, Separate!SameBelow, Separate!Active
<1> QED  BY <1>12 DEF Separate!Next

\* A slice of a slice.
LEMMA SliceOfSlice ==
  ASSUME NEW s \in Seq(Word), NEW from \in Nat, NEW to \in Nat, from <= to, to <= Len(s),
         NEW a \in Nat, NEW b \in Nat, a <= b, b <= to - from
  PROVE  SubSeq(SubSeq(s, from + 1, to), a + 1, b) = SubSeq(s, (from + a) + 1, from + b)
<1> DEFINE t == SubSeq(s, from + 1, to)
           x == SubSeq(t, a + 1, b)
           y == SubSeq(s, (from + a) + 1, from + b)
<1>1. /\ t \in Seq(Word) /\ Len(t) = to - from
      /\ \A k \in 1 .. to - from : t[k] = s[from + k]
  BY Slice
<1> HIDE DEF t
<1>2. b <= Len(t) /\ Len(t) \in Nat  BY <1>1
<1>3. x \in Seq(Word) /\ Len(x) = b - a /\ \A k \in 1 .. b - a : x[k] = t[a + k]
  BY <1>1, <1>2, Slice
<1>4. from + a \in Nat /\ from + b \in Nat /\ from + a <= from + b /\ from + b <= Len(s)
      /\ (from + b) - (from + a) = b - a
  <2>1. Len(s) \in Nat  OBVIOUS
  <2> QED  BY <2>1
<1>5. y \in Seq(Word) /\ Len(y) = b - a /\ \A k \in 1 .. b - a : y[k] = s[(from + a) + k]
  <2>1. /\ y \in Seq(Word) /\ Len(y) = (from + b) - (from + a)
        /\ \A k \in 1 .. (from + b) - (from + a) : y[k] = s[(from + a) + k]
    BY <1>4, Slice
  <2> QED  BY <1>4, <2>1
<1> HIDE DEF x, y
<1>6. ASSUME NEW k \in 1 .. b - a  PROVE x[k] = y[k]
  <2>1. a + k \in 1 .. to - from /\ from + (a + k) = (from + a) + k  OBVIOUS
  <2> QED  BY <1>1, <1>3, <1>5, <2>1
<1>7. x = y  BY <1>3, <1>5, <1>6, SameStack
<1> QED  BY <1>7 DEF x, y, t

\* An instruction that was fetched does not wrap the pc: code is shorter than that.
LEMMA NextPcIsNext ==
  ASSUME FInv, NEW imm, Fetch("CALL", imm)
  PROVE  NextPc("CALL") = pc + Length("CALL")
<1>1. pc \in Nat /\ WordMod \in Nat
  BY TypeParts, WordSizes DEF FInv, RegsOK, Word
<1>2. Length("CALL") \in Nat
  <2> DEFINE i == [op |-> "CALL", imm |-> imm]
  <2>1. i \in Instruction /\ i.op = "CALL"  BY TinyVMAssumption DEF Fetch
  <2> HIDE DEF i
  <2> QED  BY <2>1, LengthType
<1>3. 4 + pc + Length("CALL") <= Len(objs[function].data)
  BY DEF Fetch, InBuffer, VM_FUNCTION_BYTECODE_OFFSET
<1>4. objs[function].data \in Seq(Byte) /\ Len(objs[function].data) < WordMod
  <2>1. function # NullHandle  BY DEF Fetch
  <2>2. IsFunction(objs, function) /\ objs[function] \in Object  BY <2>1, ActiveFrame
  <2> QED  BY <2>2 DEF FInv, FramesOK, IsFunction, Object
<1>5. Len(objs[function].data) \in Nat  BY <1>4
<1> DEFINE x == pc + Length("CALL")
<1>6. x \in 0 .. WordMod - 1  BY <1>1, <1>2, <1>3, <1>4, <1>5
<1>7. x % WordMod = x
  <2> HIDE DEF x
  <2> QED  BY <1>1, <1>6
<1> QED  BY <1>7 DEF NextPc

\* A call takes its arguments from the operands of the caller, whose activation is
\* otherwise as it was, and starts with locals that are 0.
LEMMA CallPending ==
  ASSUME FInv, FInv', status = "running", function # NullHandle, NEW imm, Fetch("CALL", imm),
         NextPc("CALL") \in Word, Called(imm)
  PROVE  Separate!Next
<1>0. PICK n \in Nat : n = Len(frames)  BY DEF FInv, FramesOK
<1> DEFINE m == n + 1
           new == Activation(m)'
           args == NumArgs(objs[imm])
           locals == NumLocals(objs[imm])
           sp == Len(stack)
           below == Len(frames'[m].below)
           base == Base(n)
           operands == SubSeq(stack, base + 1, sp)
<1>1. /\ n > 0 /\ n \in 1 .. n /\ m \in 1 .. m /\ n \in 1 .. m /\ m - 1 = n /\ m # n
      /\ \A i \in 1 .. n : i \in 1 .. m
  BY <1>0, ActiveFrame
<1>2. /\ Len(frames') = m /\ \A i \in 1 .. n : frames'[i] = frames[i]
      /\ \A i \in 1 .. n : Callee(i)' = Callee(i) /\ Base(i)' = Base(i)
      /\ frames'[m].at = sp /\ frames'[m].pc = NextPc("CALL")
      /\ below = sp - args
      /\ Callee(m)' = imm /\ Base(m)' = sp + SavedSlots + locals
  BY <1>0, CalledLayout
<1>3. /\ PendingCalls \in Seq(ActivationRecord) /\ Len(PendingCalls) = n
      /\ \A i \in 1 .. n : PendingCalls[i] = Activation(i) /\ LaidOut(i)
  BY <1>0, PendingNow DEF Pending
<1>4. /\ PendingCalls' \in Seq(ActivationRecord) /\ Len(PendingCalls') = m
      /\ \A i \in 1 .. m : PendingCalls'[i] = Activation(i)' /\ LaidOut(i)'
  <2>1. Pending' /\ status' = "running"  BY PendingThen DEF Called
  <2> QED  BY <1>2, <2>1 DEF Pending
<1>5. /\ stack' \in Seq(Word) /\ stack \in Seq(Word) /\ sp \in Nat
      /\ args \in Nat /\ locals \in Nat
      /\ Len(stack') = sp + 3 + locals /\ \A k \in 1 .. sp : stack'[k] = stack[k]
      /\ \A k \in 1 .. locals : stack'[sp + 3 + k] = 0
  <2>1. ObjsOK(objs) /\ StackOK(stack)  BY TypeParts DEF FInv
  <2>2. args \in Nat /\ locals \in Nat  BY <2>1, FunctionType DEF Called
  <2>3. stack' \in Seq(Word)  BY DEF FInv, TypeOK
  <2> QED  BY <2>1, <2>2, <2>3 DEF Called, SavedSlots, StackOK
<1>6. /\ Edge(n) = sp /\ base \in Nat /\ base <= sp
      /\ below \in Nat /\ base <= below /\ below <= sp
  <2>1. Edge(n) = sp  BY <1>0 DEF Edge
  <2>2. LaidOut(n) /\ LaidOut(n)' /\ LaidOut(m)'  BY <1>1, <1>3, <1>4
  <2>3. Edge(n)' = below /\ Base(n)' = base  BY <1>1, <1>2 DEF Edge
  <2>4. base \in Nat /\ base <= Edge(n)  BY <2>2 DEF LaidOut
  <2>5. below \in Nat /\ below <= frames'[m].at  BY <2>2 DEF LaidOut
  <2>6. Base(n)' <= Edge(n)'  BY <2>2 DEF LaidOut
  <2> QED  BY <1>2, <2>1, <2>3, <2>4, <2>5, <2>6
<1>7. Edge(n)' = below /\ Edge(m)' = Len(stack') /\ Continue(n)' = NextPc("CALL")
      /\ Continue(m)' = 0
  BY <1>1, <1>2 DEF Edge, Continue, Called
<1>8. ASSUME NEW i \in 1 .. n - 1  PROVE Activation(i)' = Activation(i)
  <2>1. i \in 1 .. n /\ i < n /\ i # n /\ i # m /\ i \in 1 .. m /\ i + 1 \in 1 .. n  BY <1>0
  <2>2. Edge(i)' = Edge(i) /\ Continue(i)' = Continue(i)
    BY <1>0, <1>2, <2>1 DEF Edge, Continue
  <2>3. \A k \in 1 .. Edge(i) : stack'[k] = stack[k]
    <3>1. Edge(i) \in Nat /\ Edge(i) <= sp  BY <1>3, <2>1 DEF LaidOut
    <3>2. \A k \in 1 .. Edge(i) : k \in 1 .. sp
      <4> HIDE DEF sp
      <4> QED  BY <1>5, <3>1
    <3> QED  BY <1>5, <3>2
  <2> QED  BY <1>0, <1>2, <1>4, <1>5, <2>1, <2>2, <2>3, SameActivation
<1>9. /\ Activation(n)'.function = Activation(n).function
      /\ Activation(n)'.pc = NextPc("CALL")
      /\ Activation(n)'.args = Activation(n).args
      /\ Activation(n)'.locals = Activation(n).locals
      /\ Activation(n)'.operands = SubSeq(stack', base + 1, below)
  <2>1. \A k \in 1 .. Base(n) : stack'[k] = stack[k]
    <3>1. \A k \in 1 .. base : k \in 1 .. sp
      <4> HIDE DEF sp, base
      <4> QED  BY <1>5, <1>6
    <3> QED  BY <1>5, <3>1
  <2>2. LaidOut(n)' /\ frames'[n] = frames[n] /\ Callee(n)' = Callee(n) /\ Base(n)' = Base(n)
    BY <1>1, <1>2, <1>4
  <2>3. n \in 1 .. Len(frames)  BY <1>0, <1>1
  <2> QED  BY <1>5, <1>7, <2>1, <2>2, <2>3, SameFrame
<1>10. /\ Activation(n) \in ActivationRecord /\ Activation(n)' \in ActivationRecord
       /\ Activation(n).pc = pc /\ Activation(n).operands = operands
  <2>1. LaidOut(n) /\ LaidOut(n)'  BY <1>1, <1>3, <1>4
  <2>2. Continue(n) = pc  BY <1>0 DEF Continue
  <2> QED  BY <1>6, <2>1, <2>2 DEF LaidOut
<1>11. /\ new.pc = 0
       /\ new.args = SubSeq(stack', below + 1, sp)
       /\ new.locals = SubSeq(stack', (sp + 3) + 1, Len(stack'))
       /\ new.operands = SubSeq(stack', Len(stack') + 1, Len(stack'))
  <2>1. LaidOut(m)'  BY <1>1, <1>4
  <2>2. Base(m)' = Len(stack')  BY <1>2, <1>5 DEF SavedSlots
  <2> QED  BY <1>2, <1>7, <2>1, <2>2 DEF LaidOut, SavedSlots
<1>12. /\ operands \in Seq(Word) /\ Len(operands) = sp - base
  <2> HIDE DEF base, sp
  <2>1. sp <= Len(stack)  BY <1>5 DEF sp
  <2> QED  BY <1>5, <1>6, <2>1, Slice
<1>13. Len(new.args) = args
  <2> DEFINE top == Len(stack')
  <2>1. top = sp + 3 + locals /\ top \in Nat  BY <1>5
  <2>2. below = sp - args  BY <1>2
  <2>3. new.args = SubSeq(stack', below + 1, sp)  BY <1>11
  <2>4. sp \in Nat /\ args \in Nat /\ locals \in Nat /\ stack' \in Seq(Word)
        /\ below \in Nat /\ below <= sp
    BY <1>5, <1>6
  <2> HIDE DEF sp, below, locals, args, new
  <2>5. sp <= top
    <3> HIDE DEF top
    <3> QED  BY <2>1, <2>4
  <2>6. Len(SubSeq(stack', below + 1, sp)) = sp - below  BY <2>4, <2>5, Slice
  <2>7. sp - below = args  BY <2>2, <2>4
  <2> QED  BY <2>3, <2>6, <2>7
<1> DEFINE left == Len(operands) - args
<1>14. left \in Nat /\ args <= Len(operands) /\ base + left = below
       /\ left <= Len(operands) /\ base + Len(operands) = sp
  <2> DEFINE len == Len(operands)
  <2>1. /\ below = sp - args /\ len = sp - base
        /\ sp \in Nat /\ args \in Nat /\ base \in Nat /\ base <= below
    BY <1>2, <1>5, <1>6, <1>12
  <2> HIDE DEF sp, below, args, base, len
  <2>2. len - args \in Nat /\ args <= len /\ base + (len - args) = below
        /\ len - args <= len /\ base + len = sp
    BY <2>1
  <2> QED  BY <2>2 DEF len
<1>15. SubSeq(stack', below + 1, sp) = SubSeq(operands, left + 1, Len(operands))
  <2>1. SubSeq(stack', below + 1, sp) = SubSeq(stack, below + 1, sp)
    <3>1. sp <= Len(stack') /\ sp <= Len(stack) /\ \A k \in below + 1 .. sp : k \in 1 .. sp
      <4>1. Len(stack') \in Nat  BY <1>5
      <4> HIDE DEF below
      <4> QED  BY <1>5, <1>6, <4>1
    <3>2. \A k \in below + 1 .. sp : stack'[k] = stack[k]  BY <1>5, <3>1
    <3> HIDE DEF sp, below
    <3> QED  BY <1>5, <1>6, <3>1, <3>2, SameSlice
  <2>2. SubSeq(operands, left + 1, Len(operands)) =
          SubSeq(stack, (base + left) + 1, base + Len(operands))
    <3>1. Len(operands) \in Nat /\ Len(operands) <= sp - base /\ sp <= Len(stack)
      BY <1>5, <1>6, <1>12
    <3> DEFINE len == Len(operands)
    <3> HIDE DEF base, left, sp, len
    <3>2. SubSeq(SubSeq(stack, base + 1, sp), left + 1, len) =
            SubSeq(stack, (base + left) + 1, base + len)
      BY <1>5, <1>6, <1>14, <3>1, SliceOfSlice DEF len
    <3> QED  BY <3>2 DEF len
  <2> HIDE DEF base, left, sp, below, operands
  <2> QED  BY <1>14, <2>1, <2>2
<1>16. SubSeq(stack', base + 1, below) = SubSeq(operands, 1, left)
  <2>1. SubSeq(stack', base + 1, below) = SubSeq(stack, base + 1, below)
    <3>1. below <= Len(stack') /\ below <= Len(stack) /\ \A k \in base + 1 .. below : k \in 1 .. sp
      <4>1. Len(stack') \in Nat  BY <1>5
      <4> HIDE DEF below, base
      <4> QED  BY <1>5, <1>6, <4>1
    <3>2. \A k \in base + 1 .. below : stack'[k] = stack[k]  BY <1>5, <3>1
    <3> HIDE DEF base, below
    <3> QED  BY <1>5, <1>6, <3>1, <3>2, SameSlice
  <2>2. SubSeq(operands, 0 + 1, left) = SubSeq(stack, (base + 0) + 1, base + left)
    <3>1. left <= sp - base /\ sp <= Len(stack) /\ 0 <= left
      <4> HIDE DEF operands, base, left
      <4> QED  BY <1>5, <1>6, <1>12, <1>14
    <3> HIDE DEF base, left, sp
    <3> QED  BY <1>5, <1>6, <1>14, <3>1, SliceOfSlice
  <2>3. base + 0 = base /\ 0 + 1 = 1  BY <1>6
  <2> HIDE DEF base, left, sp, below, operands
  <2> QED  BY <1>14, <2>1, <2>2, <2>3
<1>17. \A k \in DOMAIN new.locals : new.locals[k] = 0
  <2> DEFINE l == SubSeq(stack', (sp + 3) + 1, Len(stack'))
             top == Len(stack')
  <2>1. top \in Nat /\ sp + 3 \in Nat /\ sp + 3 <= top /\ top - (sp + 3) = locals
        /\ (sp + 3) + locals = top
    <3> HIDE DEF sp, locals
    <3> QED  BY <1>5
  <2>2. l \in Seq(Word) /\ Len(l) = locals /\ \A k \in 1 .. locals : l[k] = stack'[(sp + 3) + k]
    <3>0. stack' \in Seq(Word) /\ top <= Len(stack') /\ l = SubSeq(stack', (sp + 3) + 1, top)
      BY <1>5
    <3> HIDE DEF l, top, sp, locals
    <3>1. /\ l \in Seq(Word) /\ Len(l) = top - (sp + 3)
          /\ \A k \in 1 .. top - (sp + 3) : l[k] = stack'[(sp + 3) + k]
      BY <2>1, <3>0, Slice
    <3> QED  BY <2>1, <3>1
  <2>3. new.locals = l  BY <1>11
  <2> HIDE DEF l, new, locals
  <2>4. DOMAIN l = 1 .. locals  BY <2>2
  <2> QED  BY <1>5, <2>2, <2>3, <2>4
<1>18. new.operands = <<>>
  <2> DEFINE o == SubSeq(stack', Len(stack') + 1, Len(stack'))
  <2>1. Len(stack') \in Nat  BY <1>5
  <2>2. o \in Seq(Word) /\ Len(o) = Len(stack') - Len(stack')  BY <1>5, <2>1, Slice
  <2> HIDE DEF o
  <2>3. Len(o) = 0  BY <2>1, <2>2
  <2>4. o = <<>>  BY <2>2, <2>3
  <2> QED  BY <1>11, <2>4 DEF o
<1>19. Activation(n)' = [Activation(n) EXCEPT !.pc = @ + Length("CALL"),
                                              !.operands = SubSeq(@, 1, left)]
  <2> DEFINE next == NextPc("CALL")
             o == SubSeq(operands, 1, left)
             act == Activation(n)
             x == [act EXCEPT !.pc = next, !.operands = o]
  <2>1. next = Activation(n).pc + Length("CALL")  BY <1>10, NextPcIsNext
  <2>2. o = SubSeq(Activation(n).operands, 1, left)  BY <1>10
  <2>3. next \in Word /\ o \in Seq(Word)
    <3> HIDE DEF operands, left
    <3>1. left <= Len(operands) /\ left \in Nat /\ operands \in Seq(Word)  BY <1>12, <1>14
    <3> QED  BY <3>1
  <2>4. x = [Activation(n) EXCEPT !.pc = @ + Length("CALL"), !.operands = SubSeq(@, 1, left)]
    BY <2>1, <2>2
  <2>8. act \in ActivationRecord  BY <1>10
  <2> HIDE DEF next, o, act
  <2>5. /\ x \in ActivationRecord
        /\ x.function = act.function /\ x.pc = next /\ x.args = act.args
        /\ x.locals = act.locals /\ x.operands = o
    <3> DEFINE y == [act EXCEPT !.pc = next]
    <3>1. /\ y \in ActivationRecord
          /\ y.function = act.function /\ y.pc = next /\ y.args = act.args
          /\ y.locals = act.locals
      BY <2>3, <2>8 DEF ActivationRecord
    <3>2. x = [y EXCEPT !.operands = o]  BY <2>3, <2>8 DEF ActivationRecord
    <3> HIDE DEF x, y
    <3>3. /\ x \in ActivationRecord
          /\ x.function = y.function /\ x.pc = y.pc /\ x.args = y.args
          /\ x.locals = y.locals /\ x.operands = o
      BY <2>3, <3>1, <3>2 DEF ActivationRecord
    <3> QED  BY <3>1, <3>3
  <2> HIDE DEF x
  <2>6. Activation(n)'.pc = next /\ Activation(n)'.operands = o
    BY <1>9, <1>16 DEF next, o
  <2>7. Activation(n)' = x  BY <1>9, <1>10, <2>5, <2>6, SameRecord DEF act
  <2> QED  BY <2>4, <2>7
<1>20. SubSeq(PendingCalls', 1, n - 1) = SubSeq(PendingCalls, 1, n - 1)
  <2>1. n - 1 \in Nat /\ n - 1 <= n /\ n - 1 <= m /\ \A k \in 1 .. n - 1 : k \in 1 .. n /\ k \in 1 .. m
    BY <1>1
  <2>2. \A k \in 1 .. n - 1 : PendingCalls'[k] = PendingCalls[k]
    BY <1>3, <1>4, <1>8, <2>1
  <2> QED  BY <1>3, <1>4, <2>1, <2>2, SamePrefix
<1>21. PendingCalls # <<>>
  <2> HIDE DEF PendingCalls
  <2> QED  BY <1>1, <1>3
<1>22. /\ PendingCalls[n] = Activation(n) /\ PendingCalls'[n] = Activation(n)'
       /\ PendingCalls'[n + 1] = new
  BY <1>1, <1>3, <1>4
<1>23. new.args = SubSeq(operands, left + 1, Len(operands))  BY <1>11, <1>15
<1>24. Separate!Call
  <2> DEFINE act == Activation(n)
             taken == Len(new.args)
  <2>1. Separate!Active = act  BY <1>3, <1>22 DEF Separate!Active
  <2>2. /\ PendingCalls # <<>> /\ Len(PendingCalls') = Len(PendingCalls) + 1
        /\ Separate!SameBelow(Len(PendingCalls))
    BY <1>3, <1>4, <1>20, <1>21 DEF Separate!SameBelow
  <2>3. /\ PendingCalls'[Len(PendingCalls) + 1] = new
        /\ PendingCalls'[Len(PendingCalls)] = Activation(n)'
    BY <1>3, <1>22
  <2>4. /\ act.operands = operands /\ left = Len(act.operands) - taken
        /\ taken <= Len(act.operands)
    BY <1>10, <1>13, <1>14
  <2>5. new.pc = 0 /\ new.operands = <<>> /\ \A k \in DOMAIN new.locals : new.locals[k] = 0
    BY <1>11, <1>17, <1>18
  <2> HIDE DEF new, operands, act
  <2>6. new.args = SubSeq(act.operands, (Len(act.operands) - taken) + 1, Len(act.operands))
    BY <1>23, <2>4
  <2>7. Activation(n)' = [act EXCEPT !.pc = @ + Length("CALL"),
                                     !.operands = SubSeq(@, 1, Len(act.operands) - taken)]
    BY <1>19, <2>4 DEF act
  <2> QED  BY <2>1, <2>2, <2>3, <2>4, <2>5, <2>6, <2>7, Zenon DEF Separate!Call
<1> QED  BY <1>24 DEF Separate!Next

\* A return appends the operands of the active function to those of its caller,
\* whose activation is otherwise as the call has left it.
LEMMA ReturnPending ==
  ASSUME FInv, FInv', FRet
  PROVE  Separate!Next
<1>0. PICK n \in Nat : n = Len(frames)  BY DEF FInv, FramesOK
<1> DEFINE m == n - 1
           sp == Len(stack)
           below == Len(frames[n].below)
           results == NumResults(objs[function])
           base == Base(m)
<1>1. /\ function # NullHandle /\ Returned /\ n > 0 /\ n \in 1 .. n /\ status = "running"
      /\ status' = "running" /\ results \in Nat /\ Base(n) = OperandBase
  <2>1. function # NullHandle /\ Returned /\ status = "running"  BY RetStep
  <2>2. /\ n > 0 /\ Callee(n) = function /\ fp = frames[n].at /\ results \in Nat
        /\ OperandBase = fp + SavedSlots + NumLocals(objs[function])
    BY <1>0, <2>1, ActiveFrame DEF Active
  <2>3. Base(n) = OperandBase  BY <2>2 DEF Base, Code
  <2>4. status' = "running"  BY <2>1 DEF Returned
  <2>5. n \in 1 .. n  BY <2>2
  <2> QED  BY <2>1, <2>2, <2>3, <2>4, <2>5
<1>2. /\ PendingCalls \in Seq(ActivationRecord) /\ Len(PendingCalls) = n
      /\ \A i \in 1 .. n : PendingCalls[i] = Activation(i) /\ LaidOut(i)
  BY <1>0, <1>1, PendingNow DEF Pending
<1>3. CASE n = 1
  <2>1. frames \in Seq(FrameRecord) /\ frames' = SubSeq(frames, 1, n - 1)
    BY <1>0, <1>1 DEF FInv, FramesOK, Returned, Drop
  <2>2. Len(frames') = 0  BY <1>0, <1>3, <2>1
  <2>3. PendingCalls' \in Seq(ActivationRecord) /\ Len(PendingCalls') = 0
    BY <1>1, <2>2, PendingThen DEF Pending
  <2>4. PendingCalls' = <<>>
    <3> HIDE DEF PendingCalls
    <3> QED  BY <2>3
  <2> QED  BY <2>4 DEF Separate!Next, Separate!Stop
<1>4. CASE n # 1
  <2>1. /\ n > 1 /\ m \in 1 .. m /\ m \in 1 .. n /\ m + 1 = n /\ m < n /\ m # n /\ m \in Nat
        /\ \A i \in 1 .. m : i \in 1 .. n
    BY <1>1, <1>4
  <2>2. /\ Len(frames') = m
        /\ \A i \in 1 .. m : /\ frames'[i] = frames[i]
                             /\ Callee(i)' = Callee(i) /\ Base(i)' = Base(i)
    BY <1>0, <1>4, RetLayout
  <2>3. /\ PendingCalls' \in Seq(ActivationRecord) /\ Len(PendingCalls') = m
        /\ \A i \in 1 .. m : PendingCalls'[i] = Activation(i)' /\ LaidOut(i)'
    BY <1>1, <2>2, PendingThen DEF Pending
  <2>4. /\ stack' \in Seq(Word) /\ stack \in Seq(Word) /\ sp \in Nat
        /\ sp = Base(n) + results /\ Len(stack') = below + results
        /\ \A k \in 1 .. below : stack'[k] = stack[k]
        /\ \A k \in 1 .. results : stack'[below + k] = stack[sp - results + k]
        /\ pc' = frames[n].pc
    <3>1. stack \in Seq(Word)  BY TypeParts DEF FInv, StackOK
    <3>2. stack' \in Seq(Word)  BY DEF FInv, TypeOK
    <3> QED  BY <1>0, <1>1, <3>1, <3>2 DEF Returned, Active
  <2>5. /\ Edge(m) = below /\ Edge(n) = sp /\ Edge(m)' = Len(stack')
        /\ Continue(m) = frames[n].pc /\ Continue(m)' = frames[n].pc
    BY <1>0, <2>1, <2>2, <2>4 DEF Edge, Continue
  <2>6. /\ base \in Nat /\ base <= below /\ below \in Nat
        /\ Base(n) \in Nat /\ Base(n) <= sp /\ below <= Base(n) /\ below <= sp
    <3>1. LaidOut(m) /\ LaidOut(n)  BY <1>1, <1>2, <2>1
    <3>2. base \in Nat /\ base <= below /\ below \in Nat  BY <2>5, <3>1 DEF LaidOut
    <3>3. /\ Base(n) \in Nat /\ Base(n) <= sp /\ frames[n].at \in Nat
          /\ below <= frames[n].at /\ frames[n].at + 3 <= Base(n)
      BY <2>5, <3>1 DEF LaidOut
    <3> HIDE DEF below, sp, base
    <3> QED  BY <2>4, <3>2, <3>3
  <2>7. ASSUME NEW i \in 1 .. m - 1  PROVE Activation(i)' = Activation(i)
    <3>1. i \in 1 .. n /\ i \in 1 .. m /\ i < n /\ i # m /\ i # n /\ i + 1 \in 1 .. m
      BY <2>1
    <3>2. Edge(i)' = Edge(i) /\ Continue(i)' = Continue(i)
      BY <1>0, <2>2, <3>1 DEF Edge, Continue
    <3>3. Edge(i) \in Nat /\ Edge(i) <= below  BY <1>0, <3>1, EdgeBelow
    <3>4. \A k \in 1 .. Edge(i) : stack'[k] = stack[k]
      <4>1. \A k \in 1 .. Edge(i) : k \in 1 .. below
        <5> HIDE DEF below
        <5> QED  BY <2>6, <3>3
      <4> QED  BY <2>4, <4>1
    <3> QED  BY <1>0, <2>2, <2>3, <2>4, <3>1, <3>2, <3>4, SameActivation
  <2>8. /\ Activation(m)'.function = Activation(m).function
        /\ Activation(m)'.pc = Activation(m).pc
        /\ Activation(m)'.args = Activation(m).args
        /\ Activation(m)'.locals = Activation(m).locals
        /\ Activation(m)'.operands = SubSeq(stack', base + 1, Len(stack'))
        /\ Activation(m).operands = SubSeq(stack, base + 1, below)
        /\ Activation(n).operands = SubSeq(stack, Base(n) + 1, sp)
        /\ Activation(m) \in ActivationRecord /\ Activation(m)' \in ActivationRecord
    <3>1. \A k \in 1 .. Base(m) : stack'[k] = stack[k]
      <4>1. \A k \in 1 .. base : k \in 1 .. below
        <5> HIDE DEF below, base
        <5> QED  BY <2>6
      <4> QED  BY <2>4, <4>1
    <3>2. LaidOut(m) /\ LaidOut(m)' /\ LaidOut(n)  BY <1>1, <1>2, <2>1, <2>3
    <3>3. m \in 1 .. Len(frames)  BY <1>0, <2>1
    <3>4. frames'[m] = frames[m] /\ Callee(m)' = Callee(m) /\ Base(m)' = Base(m)
      BY <2>1, <2>2
    <3>5. /\ Activation(m)'.function = Activation(m).function
          /\ Activation(m)'.pc = Continue(m)'
          /\ Activation(m)'.args = Activation(m).args
          /\ Activation(m)'.locals = Activation(m).locals
          /\ Activation(m)'.operands = SubSeq(stack', Base(m) + 1, Edge(m)')
      BY <2>4, <3>1, <3>2, <3>3, <3>4, SameFrame
    <3>6. /\ Activation(m).pc = Continue(m)
          /\ Activation(m).operands = SubSeq(stack, base + 1, below)
          /\ Activation(n).operands = SubSeq(stack, Base(n) + 1, sp)
          /\ Activation(m) \in ActivationRecord /\ Activation(m)' \in ActivationRecord
      BY <2>5, <3>2 DEF LaidOut
    <3> QED  BY <2>5, <3>5, <3>6
  <2> DEFINE a == SubSeq(stack, base + 1, below)
             b == SubSeq(stack, Base(n) + 1, sp)
             c == SubSeq(stack', base + 1, Len(stack'))
  <2>9. c = a \o b
    <3> DEFINE top == Len(stack')
               bn == Base(n)
    <3>0. /\ top = below + results /\ sp = bn + results /\ bn \in Nat /\ bn <= sp
          /\ below <= Len(stack) /\ sp <= Len(stack) /\ top <= Len(stack')
          /\ c = SubSeq(stack', base + 1, top) /\ b = SubSeq(stack, bn + 1, sp)
      BY <2>4, <2>6
    <3>1. \A k \in 1 .. results : stack'[below + k] = stack[bn + k]
      <4>1. sp - results = bn
        <5> HIDE DEF sp, results, bn
        <5> QED  BY <1>1, <3>0
      <4> QED  BY <2>4, <4>1
    <3>2. base \in Nat /\ below \in Nat /\ base <= below /\ results \in Nat /\ sp \in Nat
          /\ \A k \in 1 .. below : stack'[k] = stack[k]
      BY <1>1, <2>4, <2>6
    <3> HIDE DEF top, bn, base, below, sp, results, a, b, c
    <3>3. /\ a \in Seq(Word) /\ Len(a) = below - base
          /\ \A k \in 1 .. below - base : a[k] = stack[base + k]
      BY <2>4, <3>0, <3>2, Slice DEF a
    <3>4. /\ b \in Seq(Word) /\ Len(b) = results
          /\ \A k \in 1 .. results : b[k] = stack[bn + k]
      <4>1. /\ b \in Seq(Word) /\ Len(b) = sp - bn
            /\ \A k \in 1 .. sp - bn : b[k] = stack[bn + k]
        BY <2>4, <3>0, <3>2, Slice
      <4>2. sp - bn = results  BY <3>0, <3>2
      <4> QED  BY <4>1, <4>2
    <3>5. /\ c \in Seq(Word) /\ Len(c) = below - base + results
          /\ \A k \in 1 .. below - base + results : c[k] = stack'[base + k]
      <4>1. base <= top /\ top \in Nat /\ top - base = below - base + results
        BY <3>0, <3>2
      <4>2. /\ c \in Seq(Word) /\ Len(c) = top - base
            /\ \A k \in 1 .. top - base : c[k] = stack'[base + k]
        BY <2>4, <3>0, <3>2, <4>1, Slice
      <4> QED  BY <4>1, <4>2
    <3>6. /\ a \o b \in Seq(Word) /\ Len(a \o b) = below - base + results
          /\ \A k \in 1 .. below - base : (a \o b)[k] = a[k]
          /\ \A k \in 1 .. results : (a \o b)[below - base + k] = b[k]
      <4>1. /\ a \o b \in Seq(Word) /\ Len(a \o b) = Len(a) + Len(b)
            /\ \A k \in 1 .. Len(a) : (a \o b)[k] = a[k]
            /\ \A k \in 1 .. Len(b) : (a \o b)[Len(a) + k] = b[k]
        BY <3>3, <3>4, Concat
      <4> QED  BY <3>3, <3>4, <4>1
    <3>7. ASSUME NEW k \in 1 .. below - base + results  PROVE c[k] = (a \o b)[k]
      <4>1. CASE k <= below - base
        <5>1. k \in 1 .. below - base /\ base + k \in 1 .. below  BY <3>2, <4>1
        <5> QED  BY <3>2, <3>3, <3>5, <3>6, <5>1
      <4>2. CASE ~ (k <= below - base)
        <5>1. PICK j \in 1 .. results : k = below - base + j
          <6>1. k - (below - base) \in 1 .. results
                /\ k = below - base + (k - (below - base))
            BY <3>2, <4>2
          <6> QED  BY <6>1
        <5>2. base + k = below + j  BY <3>2, <5>1
        <5>3. c[k] = stack'[below + j]  BY <3>5, <5>2
        <5>4. stack'[below + j] = b[j]  BY <3>1, <3>4
        <5>5. (a \o b)[k] = b[j]  BY <3>6, <5>1
        <5> QED  BY <5>3, <5>4, <5>5
      <4> QED  BY <4>1, <4>2
    <3> QED  BY <3>5, <3>6, <3>7, SameStack
  <2> HIDE DEF a, b, c
  <2>10. a \in Seq(Word) /\ b \in Seq(Word)
    <3>1. base <= below /\ below <= Len(stack) /\ sp <= Len(stack)  BY <2>6
    <3> HIDE DEF base, below, sp
    <3> QED  BY <2>4, <2>6, <3>1, Slice DEF a, b
  <2>11. Activation(m)' = [Activation(m) EXCEPT !.operands = @ \o Activation(n).operands]
    <3> DEFINE act == Activation(m)
               x == [act EXCEPT !.operands = a \o b]
    <3>1. act.operands = a /\ Activation(n).operands = b /\ act \in ActivationRecord
      BY <2>8 DEF a, b
    <3>2. x = [Activation(m) EXCEPT !.operands = @ \o Activation(n).operands]
      BY <3>1
    <3>3. a \o b \in Seq(Word)  BY <2>10
    <3> HIDE DEF act
    <3>4. /\ x \in ActivationRecord
          /\ x.function = act.function /\ x.pc = act.pc /\ x.args = act.args
          /\ x.locals = act.locals /\ x.operands = a \o b
      BY <3>1, <3>3 DEF ActivationRecord
    <3> HIDE DEF x
    <3>5. Activation(m)'.operands = a \o b  BY <2>8, <2>9 DEF c
    <3>6. Activation(m)' = x  BY <2>8, <3>4, <3>5, SameRecord DEF act
    <3> QED  BY <3>2, <3>6
  <2>12. SubSeq(PendingCalls', 1, m - 1) = SubSeq(PendingCalls, 1, m - 1)
    <3>1. m - 1 \in Nat /\ m - 1 <= n /\ m - 1 <= m
          /\ \A k \in 1 .. m - 1 : k \in 1 .. n /\ k \in 1 .. m
      BY <2>1
    <3>2. \A k \in 1 .. m - 1 : PendingCalls'[k] = PendingCalls[k]
      BY <1>2, <2>3, <2>7, <3>1
    <3> QED  BY <1>2, <2>3, <3>1, <3>2, SamePrefix
  <2>13. Separate!Return
    <3>1. Separate!Active = Activation(n)  BY <1>1, <1>2 DEF Separate!Active
    <3>2. /\ Len(PendingCalls) > 1 /\ Len(PendingCalls') = Len(PendingCalls) - 1
          /\ Separate!SameBelow(Len(PendingCalls) - 1)
      BY <1>2, <2>1, <2>3, <2>12 DEF Separate!SameBelow
    <3>3. /\ PendingCalls[Len(PendingCalls) - 1] = Activation(m)
          /\ PendingCalls'[Len(PendingCalls) - 1] = Activation(m)'
      BY <1>2, <2>1, <2>3
    <3> QED  BY <2>11, <3>1, <3>2, <3>3, Zenon DEF Separate!Return
  <2> QED  BY <2>13 DEF Separate!Next
<1> QED  BY <1>3, <1>4

\* Calls that share one stack, where each frame lies on the operands of the one
\* below, behave as if each had its own: every step of a program that keeps the
\* convention is a step of module Activations, or none (VmSetupCall, VmBcRet,
\* VmGetLocal).
THEOREM OneStackIsEnough == FSpec => CallsAreSeparate
<1>1. FInit => Separate!Init
  BY DEF FInit, Init, Separate!Init, PendingCalls
<1>2. ASSUME FInv, FInv', [FNext]_fvars  PROVE [Separate!Next]_PendingCalls
  <2>1. Kept(objs, objs')
    <3>1. [Next]_vars  BY <1>2, FNextIsNext DEF fvars, vars
    <3> QED  BY <1>2, <3>1, StepKeeps DEF FInv
  <2>2. CASE status' # "running"  BY <1>2, <2>2, StopStep
  <2>3. CASE status' = "running" /\ FNext
    <3>1. ASSUME NEW unit \in Units, FLoad(unit)  PROVE Separate!Next
      <4>1. status = "created" /\ Loaded(unit)
        BY <1>2, <2>3, <3>1, LoadStep DEF FInv
      <4> QED  BY <1>2, <4>1, StartStep
    <3>2. ASSUME NEW i \in Bytecode, FLocal(i.op, i.imm)  PROVE Separate!Next
      <4>1. /\ i.op \notin {"CALL", "RET"} /\ WellBehaved(i.op, i.imm) /\ Execute(i.op, i.imm)
            /\ UNCHANGED frames /\ function # NullHandle
        BY <3>2 DEF FLocal, WellBehaved
      <4>2. function' = function /\ fp' = fp  BY <4>1, LocalRegs
      <4>3. StaysInFrame  BY <1>2, <4>1, LocalStack
      <4>4. status = "running"  BY <4>1, ExecuteEnds
      <4> QED  BY <1>2, <2>1, <2>3, <4>1, <4>2, <4>3, <4>4, ComputeStep
    <3>3. ASSUME NEW imm, FCall(imm)  PROVE Separate!Next
      <4>1. /\ status = "running" /\ function # NullHandle /\ NextPc("CALL") \in Word
            /\ Called(imm)
        BY <1>2, <2>3, <3>3, CallStep
      <4>2. Fetch("CALL", imm)  BY <3>3 DEF FCall, VmBcCall
      <4> QED  BY <1>2, <4>1, <4>2, CallPending
    <3>4. ASSUME FRet  PROVE Separate!Next  BY <1>2, <3>4, ReturnPending
    <3>5. ~ VmStepFails  BY <2>3 DEF VmStepFails
    <3> QED  BY <2>3, <3>1, <3>2, <3>3, <3>4, <3>5 DEF FNext
  <2>4. CASE UNCHANGED fvars
    <3>1. UNCHANGED <<stack, function, pc, fp, objs, status, frames>>
      BY <2>4 DEF fvars, vars
    <3> QED  BY <3>1 DEF PendingCalls, Activation
  <2> QED  BY <1>2, <2>2, <2>3, <2>4
<1> QED  BY <1>1, <1>2, FramesCorrect, PTL DEF FSpec, CallsAreSeparate, Separate!Spec

============================================================================
