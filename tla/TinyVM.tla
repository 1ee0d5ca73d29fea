------------------------------- MODULE TinyVM -------------------------------
(***************************************************************************)
(* The TinyVM interpreter (src/tasks/c2/vm): the main program loads one    *)
(* bytecode unit and then calls VmStep until it does not return 0.         *)
(*                                                                         *)
(* The bytecode itself is not fixed: at each step the active function may  *)
(* hold any instruction of the set Bytecode, or a byte that is no opcode.  *)
(* A behaviour of this specification is therefore a run of some program,   *)
(* well behaved or not, and what holds here holds for every program.  What *)
(* a handler does before it fails stays done, as in the code.              *)
(*                                                                         *)
(* An operator whose comment starts with "Wrong:" is a plausible slip in   *)
(* the definition below it.  No specification uses it: it shows that a     *)
(* property of this module notices the slip.                               *)
(***************************************************************************)
EXTENDS VmObjects

CONSTANTS
  MaxStack,    \* vm->max_stack, the -s option of the main program
  Units,       \* the bytecode units that may be loaded
  Bytecode,    \* the instructions a program may contain: [op, imm]
  Operands,    \* the words that arithmetic and input may produce
  JunkBytes,   \* the values an uninitialized header byte may show
  MemoryMayFail \* whether malloc and realloc may return NULL

VARIABLES
  stack,       \* vm->stack[0 .. stack_size-1]; stack[1] is the bottom
  function,    \* handle of vm->function, or NullHandle
  pc, fp,      \* vm->pc and vm->fp
  objs,        \* vm->objs
  status       \* created: before the load; running: the last VmStep gave 0;
               \* terminated: it gave 1; failed: it gave -1, or the load failed

regs == <<function, pc, fp>>
vars == <<stack, function, pc, fp, objs, status>>

----------------------------------------------------------------------------
(***************************************************************************)
(* Instruction formats (VmByteCodeFormat and the table OPCODES).           *)
(***************************************************************************)
CompareOps == {"CMPEQ", "CMPNE", "UCMPLT", "UCMPLE", "UCMPGE", "UCMPGT",
               "SCMPLT", "SCMPLE", "SCMPGE", "SCMPGT"}
DivideOps  == {"UDIV", "SDIV"}
BinaryOps  == CompareOps \cup DivideOps \cup
              {"ADD", "SUB", "MUL", "SHL", "SHR", "ASR", "ROR", "AND", "OR", "XOR"}
UnaryOps   == {"NOT", "NEG"}

SimpleOps == BinaryOps \cup UnaryOps \cup {"RET", "SWAP", "LDW", "STW", "LDB", "STB"}
ByteOps   == {"POP", "PEEK", "LDVAR", "STVAR", "VMC"}
HalfOps   == {"JMP", "BT", "BF"}
WordOps   == {"IMM32", "HANDLE", "CALL"}

\* The length of an instruction: its opcode byte and its immediate.
Length(op) == CASE op \in SimpleOps -> 1
                [] op \in ByteOps   -> 2
                [] op \in HalfOps   -> 3
                [] op \in WordOps   -> 5

Instruction ==
       [op : SimpleOps, imm : {0}] \cup [op : ByteOps, imm : Byte]
  \cup [op : HalfOps, imm : Half]  \cup [op : WordOps, imm : Word]

VM_FUNCTION_BYTECODE_OFFSET == 4
VM_MAX_LOCALS == ByteBase \div 2

BinObject == [handle : Word, object : Object]
BinUnit   == [valid : BOOLEAN, objects : Seq(BinObject), complete : BOOLEAN, entry : Word]

ASSUME TinyVMAssumption ==
  /\ MaxStack \in Nat \ {0}
  /\ Units \subseteq BinUnit
  /\ Bytecode \subseteq Instruction
  /\ Operands \subseteq Word
  /\ JunkBytes \subseteq Byte
  /\ MemoryMayFail \in BOOLEAN

----------------------------------------------------------------------------
(***************************************************************************)
(* The operand stack (vm_stack.c).                                         *)
(***************************************************************************)
Room(s, n)  == Len(s) + n <= MaxStack          \* VmStackPush succeeds
Top(s)      == s[Len(s)]
Drop(s, n)  == SubSeq(s, 1, Len(s) - n)        \* the stack after VmStackPop
OnStack(s, index) == index \in 0 .. Len(s) - 1 \* VmStackAt is not NULL
At(s, index) == s[index + 1]

Zeros(n) == [i \in 1 .. n |-> 0]

----------------------------------------------------------------------------
(***************************************************************************)
(* How a step ends: the handler returns 0 or -1 with the stack as it then  *)
(* is.  VmStep has advanced the pc before it calls the handler.            *)
(***************************************************************************)
Return0(s) == stack' = s /\ UNCHANGED status
Fail(s)    == stack' = s /\ status' = "failed"

Push(s, word) == IF Room(s, 1) THEN Return0(Append(s, word)) ELSE Fail(s)

NextPc(op) == (pc + Length(op)) % WordMod

\* VmStep fetches and decodes this instruction from the active function.
Fetch(op, imm) ==
  /\ status = "running"
  /\ function # NullHandle
  /\ [op |-> op, imm |-> imm] \in Bytecode
  /\ InBuffer(objs[function].data, VM_FUNCTION_BYTECODE_OFFSET + pc, Length(op))

\* An instruction that leaves the frame alone and continues behind itself.
Straight(op) == pc' = NextPc(op) /\ UNCHANGED <<function, fp>>

\* VmStep fails before any handler: there is no function, it is not
\* accessible, the pc is outside of it, the immediate is cut off, or the byte
\* at the pc is no opcode (which no program excludes).
VmStepFails ==
  /\ status = "running"
  /\ status' = "failed"
  /\ UNCHANGED <<stack, function, pc, fp, objs>>

----------------------------------------------------------------------------
(***************************************************************************)
(* Constants and stack manipulation (vm_stack.c).                          *)
(***************************************************************************)
VmBcImm32(imm) ==
  /\ Fetch("IMM32", imm)
  /\ Push(stack, imm)
  /\ Straight("IMM32") /\ UNCHANGED objs

VmBcHandle(imm) ==
  /\ Fetch("HANDLE", imm)
  /\ IF imm = NullHandle \/ imm \in DOMAIN objs THEN Push(stack, imm) ELSE Fail(stack)
  /\ Straight("HANDLE") /\ UNCHANGED objs

\* One slot is popped, whatever the immediate says.
VmBcPop(imm) ==
  /\ Fetch("POP", imm)
  /\ IF Len(stack) >= 1 THEN Return0(Drop(stack, 1)) ELSE Fail(stack)
  /\ Straight("POP") /\ UNCHANGED objs

VmBcPeek(imm) ==
  /\ Fetch("PEEK", imm)
  /\ IF imm < Len(stack) THEN Push(stack, stack[Len(stack) - imm]) ELSE Fail(stack)
  /\ Straight("PEEK") /\ UNCHANGED objs

VmBcSwap ==
  /\ Fetch("SWAP", 0)
  /\ IF Len(stack) >= 2
       THEN Return0(Drop(stack, 2) \o <<Top(stack), stack[Len(stack) - 1]>>)
       ELSE Fail(stack)
  /\ Straight("SWAP") /\ UNCHANGED objs

----------------------------------------------------------------------------
(***************************************************************************)
(* Arithmetic, logic and compares (vm_arith.c).  Module VmArith says what  *)
(* each operation computes; here a result is any word of Operands.         *)
(***************************************************************************)

VmBcBinary(op) ==
  /\ Fetch(op, 0)
  /\ IF Len(stack) < 2
       THEN Fail(stack)
       ELSE IF DivisionFails(op, stack[Len(stack) - 1], Top(stack))
              THEN Fail(Drop(stack, 2))
              ELSE \E z \in Operands :
                     /\ op \in CompareOps => z \in {0, 1}
                     /\ Return0(Append(Drop(stack, 2), z))
  /\ Straight(op) /\ UNCHANGED objs

VmBcUnary(op) ==
  /\ Fetch(op, 0)
  /\ IF Len(stack) < 1
       THEN Fail(stack)
       ELSE \E z \in Operands : Return0(Append(Drop(stack, 1), z))
  /\ Straight(op) /\ UNCHANGED objs

----------------------------------------------------------------------------
(***************************************************************************)
(* Branches (vm_call.c).  The target is relative to the offset field.      *)
(***************************************************************************)
\* Wrong: backward jumps are relative to the end of the offset field.
JumpAllowedFromEnd(offset) ==
  /\ pc <= WordMod - 2
  /\ offset > 0 => offset <= WordMod - 2 - pc
  /\ offset < 0 => -offset <= pc + 3
JumpAllowed(offset) ==
  /\ pc <= WordMod - 2
  /\ offset > 0 => offset <= WordMod - 2 - pc
  /\ offset < 0 => -offset <= pc + 1

\* The tail of the three handlers: branch, with s left on the stack.
Jump(op, imm, s) ==
  IF JumpAllowed(SignedHalf(imm))
    THEN Return0(s) /\ pc' = pc + 1 + SignedHalf(imm)
    ELSE Fail(s) /\ pc' = NextPc(op)

VmBcJmp(imm) ==
  /\ Fetch("JMP", imm)
  /\ Jump("JMP", imm, stack)
  /\ UNCHANGED <<function, fp, objs>>

\* BT branches on a word that is not zero, BF on a zero.
VmBcBranch(op, imm) ==
  /\ op \in {"BT", "BF"}
  /\ Fetch(op, imm)
  /\ \/ /\ stack = <<>>
        /\ Fail(stack) /\ pc' = NextPc(op)
     \/ /\ stack # <<>> /\ (op = "BT" <=> Top(stack) # 0)
        /\ Jump(op, imm, Drop(stack, 1))
     \/ /\ stack # <<>> /\ (op = "BT" <=> Top(stack) = 0)
        /\ Return0(Drop(stack, 1)) /\ pc' = NextPc(op)
  /\ UNCHANGED <<function, fp, objs>>

----------------------------------------------------------------------------
(***************************************************************************)
(* Subroutine calls (vm_call.c).                                           *)
(*                                                                         *)
(* A frame is laid out as: the arguments, then at fp the function, the pc  *)
(* and the fp of the caller, then the locals, then the operands.           *)
(***************************************************************************)
NumResults(obj) == MemByte(obj.data, 1)
NumArgs(obj)    == MemByte(obj.data, 2)
NumLocals(obj)  == MemByte(obj.data, 3)

\* VmGetFunctionHeader succeeds on an object that has a view.
HasHeader(obj) == InBuffer(obj.data, 3, 1)

SavedSlots == 3

\* The arguments and locals that VmSetupCall may read for this target.  For an
\* object of length 0 VmGetFunctionHeader goes on with a view that was never
\* initialized: any byte may be read, or none.
CallHeaders(o, target) ==
  CASE target \notin DOMAIN o -> {}
    [] target \in DOMAIN o /\ ~ Accessible(o[target]) ->
         [args : JunkBytes, locals : JunkBytes]
    [] target \in DOMAIN o /\ Accessible(o[target]) ->
         {[args |-> NumArgs(obj), locals |-> NumLocals(obj)] :
            obj \in {x \in {o[target]} : HasHeader(x)}}

HeaderUnreadable(o, target) ==
  target \in DOMAIN o => ~ (Accessible(o[target]) /\ HasHeader(o[target]))

\* The registers when VmSetupCall fails: it sets them at its very end.
\* Wrong: the frame pointer is set before the frame is there.
StayAtNewFrame(caller) ==
  function' = caller.function /\ pc' = caller.pc /\ fp' = Len(stack) % WordMod
Stay(caller) ==
  function' = caller.function /\ pc' = caller.pc /\ fp' = caller.fp

\* VmSetupCall, with objects o and the stack s, from the registers caller.
VmSetupCall(o, s, caller, target) ==
  LET saved == <<caller.function, caller.pc, caller.fp>>
  IN  \/ /\ HeaderUnreadable(o, target)
         /\ Fail(s) /\ Stay(caller)
      \/ \E header \in CallHeaders(o, target) :
           \/ /\ ~ (Len(s) >= header.args /\ Room(s, SavedSlots))
              /\ Fail(s) /\ Stay(caller)
           \/ /\ Len(s) >= header.args /\ Room(s, SavedSlots)
              /\ ~ Room(s \o saved, header.locals)
              /\ Fail(s \o saved) /\ Stay(caller)
           \/ /\ Len(s) >= header.args /\ Room(s \o saved, header.locals)
              /\ stack' = s \o saved \o Zeros(header.locals)
              /\ status' = "running"
              /\ function' = target
              /\ pc' = 0
              /\ fp' = Len(s) % WordMod

VmBcCall(imm) ==
  /\ Fetch("CALL", imm)
  /\ VmSetupCall(objs, stack,
                 [function |-> function, pc |-> NextPc("CALL"), fp |-> fp], imm)
  /\ UNCHANGED objs

\* VmGetCallersRegs finds the k-th saved register; fp + k is a 32-bit sum.
SavedIndex(k) == (fp + k) % WordMod
CallersRegsReadable == \A k \in 0 .. 2 : OnStack(stack, SavedIndex(k))
Caller(k) == At(stack, SavedIndex(k))

\* The slots that RET disposes of.
\* Wrong: the arguments stay on the stack.
FrameSlotsNoArgs(obj) == NumLocals(obj) + SavedSlots
FrameSlots(obj) == NumArgs(obj) + NumLocals(obj) + SavedSlots

\* The result copy of RET after n copies, from the slots below the stack
\* pointer to the slots below resultTop.  It runs downwards, so once it has
\* gone as far as resultTop - sp it reads what it has written itself.
\* Wrong: the results arrive in the opposite order.
CopyResultsReversed(s, resultTop, n) ==
  LET sp == Len(s)
  IN  [i \in 1 .. sp |-> IF resultTop - i \in 0 .. n - 1
                           THEN s[sp - (n - 1 - (resultTop - i))]
                           ELSE s[i]]
CopyResults(s, resultTop, n) ==
  LET sp == Len(s)
  IN  [i \in 1 .. sp |->
         IF resultTop - i \in 0 .. n - 1
           THEN s[sp - ((resultTop - i) % (sp - resultTop))]
           ELSE s[i]]

\* VmBcRet once it has found the caller's registers and the frame's header:
\* the copy stops at the bottom of the stack, and what it copied stays.
ReturnFrom(obj) ==
  LET sp        == Len(stack)
      resultTop == sp - FrameSlots(obj)
      results   == NumResults(obj)
  IN  IF resultTop < 0
        THEN Fail(stack) /\ Straight("RET")
        ELSE IF results > resultTop
          THEN Fail(CopyResults(stack, resultTop, resultTop)) /\ Straight("RET")
          ELSE /\ Return0(Drop(CopyResults(stack, resultTop, results), FrameSlots(obj)))
               /\ function' = IF Caller(0) \in DOMAIN objs THEN Caller(0) ELSE NullHandle
               /\ pc' = Caller(1)
               /\ fp' = Caller(2)

VmBcRet ==
  /\ Fetch("RET", 0)
  /\ IF /\ CallersRegsReadable
        /\ Len(stack) - fp >= SavedSlots
        /\ HasHeader(objs[function])
       THEN ReturnFrom(objs[function])
       ELSE Fail(stack) /\ Straight("RET")
  /\ UNCHANGED objs

----------------------------------------------------------------------------
(***************************************************************************)
(* Local variables and arguments (vm_ldst.c).                              *)
(***************************************************************************)

\* The stack index VmGetLocal computes, or -1 for NULL.
\* Wrong: the locals start one slot too low, within the saved registers.
LocalIndexLow(obj, index) ==
  CASE index < VM_MAX_LOCALS /\ index < NumLocals(obj) ->
         (fp + SavedSlots - 1 + index) % WordMod
    [] index >= VM_MAX_LOCALS /\ index - VM_MAX_LOCALS < NumArgs(obj) ->
         (fp - NumArgs(obj) + index - VM_MAX_LOCALS) % WordMod
    [] OTHER -> -1
\* Wrong: one argument more than the header has.
LocalIndexExtraArg(obj, index) ==
  CASE index < VM_MAX_LOCALS /\ index < NumLocals(obj) ->
         (fp + SavedSlots + index) % WordMod
    [] index >= VM_MAX_LOCALS /\ index - VM_MAX_LOCALS <= NumArgs(obj) ->
         (fp - 1 - (index - VM_MAX_LOCALS)) % WordMod
    [] OTHER -> -1
LocalIndex(obj, index) ==
  CASE index < VM_MAX_LOCALS /\ index < NumLocals(obj) ->
         (fp + SavedSlots + index) % WordMod
    [] index >= VM_MAX_LOCALS /\ index - VM_MAX_LOCALS < NumArgs(obj) ->
         (fp - NumArgs(obj) + index - VM_MAX_LOCALS) % WordMod
    [] OTHER -> -1

HasLocal(index) ==
  /\ HasHeader(objs[function])
  /\ OnStack(stack, LocalIndex(objs[function], index))

VmBcLdVar(imm) ==
  /\ Fetch("LDVAR", imm)
  /\ IF HasLocal(imm)
       THEN Push(stack, At(stack, LocalIndex(objs[function], imm)))
       ELSE Fail(stack)
  /\ Straight("LDVAR") /\ UNCHANGED objs

VmBcStVar(imm) ==
  /\ Fetch("STVAR", imm)
  /\ IF HasLocal(imm)
       THEN LET slot == LocalIndex(objs[function], imm) + 1
            IN  Return0(Drop([stack EXCEPT ![slot] = Top(stack)], 1))
       ELSE Fail(stack)
  /\ Straight("STVAR") /\ UNCHANGED objs

----------------------------------------------------------------------------
(***************************************************************************)
(* Loads from and stores to objects (vm_ldst.c).                           *)
(***************************************************************************)

\* The handle is on top of the offset.
DerefHandle == Top(stack)
DerefOffset == stack[Len(stack) - 1]

\* VmDerefObject: the operands are popped even when it fails.
Dereferenced ==
  /\ Len(stack) >= 2
  /\ DerefHandle \in DOMAIN objs
  /\ Accessible(objs[DerefHandle])

AfterDeref == IF Len(stack) >= 2 THEN Drop(stack, 2) ELSE stack

Bytes(op) == IF op \in {"LDW", "STW"} THEN 4 ELSE 1

VmLd(op) ==
  /\ Fetch(op, 0)
  /\ IF /\ Dereferenced
        /\ "PROTECTED" \notin objs[DerefHandle].qualifiers
        /\ InBuffer(objs[DerefHandle].data, DerefOffset, Bytes(op))
       THEN LET obj == objs[DerefHandle]
            IN  Push(AfterDeref, IF op = "LDW"
                                   THEN MemWord(obj.data, DerefOffset, obj.big)
                                   ELSE MemByte(obj.data, DerefOffset))
       ELSE Fail(AfterDeref)
  /\ Straight(op) /\ UNCHANGED objs

\* The object with the word or byte stored.
Stored(op, obj, offset, value) ==
  [obj EXCEPT !.data = IF op = "STW"
                         THEN SetWord(obj.data, offset, value, obj.big)
                         ELSE SetByte(obj.data, offset, value)]

\* Wrong: the qualifiers are compared for equality here too.
StorableUnlessOnly(obj) == obj.qualifiers # {"INMUTABLE"}
Storable(obj) == "INMUTABLE" \notin obj.qualifiers

\* A word that cannot be stored fails the step; a byte that cannot be stored
\* is only logged.
StoreRefused(op) == IF op = "STW" THEN Fail(Drop(stack, 3)) ELSE Return0(Drop(stack, 3))

VmSt(op) ==
  /\ Fetch(op, 0)
  /\ IF Dereferenced /\ Storable(objs[DerefHandle]) /\ Len(stack) >= 3
       THEN LET obj == objs[DerefHandle]
            IN  IF ~ ReadOnly(obj) /\ InBuffer(obj.data, DerefOffset, Bytes(op))
                  THEN /\ Return0(Drop(stack, 3))
                       /\ objs' = [objs EXCEPT ![DerefHandle] =
                                     Stored(op, obj, DerefOffset, stack[Len(stack) - 2])]
                  ELSE StoreRefused(op) /\ UNCHANGED objs
       ELSE Fail(AfterDeref) /\ UNCHANGED objs
  /\ Straight(op)

----------------------------------------------------------------------------
(***************************************************************************)
(* Virtual machine calls (vm_extra.c).                                     *)
(***************************************************************************)
VMC_EXIT   == 0
VMC_ASSERT == 1
VMC_READ   == 2
VMC_WRITE  == 3
VMC_ALLOC  == 4

\* 0xFFFFFFFF: what VMC_READ pushes at the end of the input.
EndOfInput == WordMod - 1

VmcExit ==
  /\ Fetch("VMC", VMC_EXIT)
  /\ status' = "terminated" /\ UNCHANGED stack
  /\ Straight("VMC") /\ UNCHANGED objs

VmcAssert ==
  /\ Fetch("VMC", VMC_ASSERT)
  /\ IF stack = <<>>
       THEN Fail(stack)
       ELSE IF Top(stack) = 0 THEN Fail(Drop(stack, 1)) ELSE Return0(Drop(stack, 1))
  /\ Straight("VMC") /\ UNCHANGED objs

\* The callback may give a byte, the end of the input, or an error.
VmcRead ==
  /\ Fetch("VMC", VMC_READ)
  /\ \/ \E in \in (Operands \cap Byte) \cup {EndOfInput} : Push(stack, in)
     \/ Fail(stack)
  /\ Straight("VMC") /\ UNCHANGED objs

\* The callback may fail; the operand is gone then too.
VmcWrite ==
  /\ Fetch("VMC", VMC_WRITE)
  /\ IF stack = <<>>
       THEN Fail(stack)
       ELSE Return0(Drop(stack, 1)) \/ Fail(Drop(stack, 1))
  /\ Straight("VMC") /\ UNCHANGED objs

\* VmcAlloc pops the size before it creates the object.
\* Wrong: the size stays until the handle has been pushed.
SizeKept(s) == s
SizePopped(s) == Drop(s, 1)

\* The new object has no content, so VmCreateObject accepts only size 0; it
\* may also run out of memory.
AllocPossible(size) == size = 0 /\ FreeDynamicHandles(objs) # {}

VmcAlloc ==
  /\ Fetch("VMC", VMC_ALLOC)
  /\ \/ /\ stack # <<>> /\ AllocPossible(Top(stack))
        /\ LET handle == FirstFree(objs)
           IN  /\ objs' = WithObject(objs, handle,
                            [qualifiers |-> {"DATA"}, data |-> <<>>, big |-> FALSE])
               /\ Push(SizePopped(stack), handle)
     \/ /\ stack # <<>> /\ (AllocPossible(Top(stack)) => MemoryMayFail)
        /\ Fail(Drop(stack, 1)) /\ UNCHANGED objs
     \/ /\ stack = <<>>
        /\ Fail(stack) /\ UNCHANGED objs
  /\ Straight("VMC")

VmcUnknown(imm) ==
  /\ imm \notin {VMC_EXIT, VMC_ASSERT, VMC_READ, VMC_WRITE, VMC_ALLOC}
  /\ Fetch("VMC", imm)
  /\ Fail(stack)
  /\ Straight("VMC") /\ UNCHANGED objs

VmBcVmc(imm) ==
  \/ imm = VMC_EXIT   /\ VmcExit
  \/ imm = VMC_ASSERT /\ VmcAssert
  \/ imm = VMC_READ   /\ VmcRead
  \/ imm = VMC_WRITE  /\ VmcWrite
  \/ imm = VMC_ALLOC  /\ VmcAlloc
  \/ VmcUnknown(imm)

----------------------------------------------------------------------------
(***************************************************************************)
(* Loading a bytecode unit (vm_loader.c).  A unit is valid if its header   *)
(* can be read and has the right tag, and complete if its objects are      *)
(* followed by the end tag (and not by anything else, or cut off).         *)
(***************************************************************************)

\* The first k objects of the unit can be created one after the other.  The
\* content of an object of length 0 cannot be read.
\* Wrong: an object may have the handle of an earlier one of the unit.
CreatableTwice(o, unit, k) ==
  \A i \in 1 .. k :
    /\ Len(unit.objects[i].object.data) > 0
    /\ CanCreate(o, unit.objects[i].handle, unit.objects[i].object.qualifiers)
Creatable(o, unit, k) ==
  \A i \in 1 .. k :
    /\ Len(unit.objects[i].object.data) > 0
    /\ CanCreate(o, unit.objects[i].handle, unit.objects[i].object.qualifiers)
    /\ \A j \in 1 .. i - 1 : unit.objects[j].handle # unit.objects[i].handle

\* The objects once the first k of the unit have been created.
WithUnit(o, unit, k) ==
  LET new    == {unit.objects[i].handle : i \in 1 .. k}
      index(h) == CHOOSE i \in 1 .. k : unit.objects[i].handle = h
  IN  [h \in DOMAIN o \cup new |->
         IF h \in new THEN unit.objects[index(h)].object ELSE o[h]]

\* VmLoadByteCode.  The creation of an object may also run out of memory; the
\* objects created until a failure remain.
VmLoadByteCode(unit) ==
  \/ /\ ~ unit.valid
     /\ Fail(stack) /\ UNCHANGED <<regs, objs>>
  \/ /\ unit.valid
     /\ \E k \in 0 .. Len(unit.objects) :
          /\ Creatable(objs, unit, k)
          /\ objs' = WithUnit(objs, unit, k)
          /\ \/ /\ k < Len(unit.objects)
                /\ Creatable(objs, unit, k + 1) => MemoryMayFail
                /\ Fail(stack) /\ UNCHANGED regs
             \/ /\ k = Len(unit.objects) /\ ~ unit.complete
                /\ Fail(stack) /\ UNCHANGED regs
             \/ /\ k = Len(unit.objects) /\ unit.complete
                /\ VmSetupCall(WithUnit(objs, unit, k), stack,
                               [function |-> function, pc |-> pc, fp |-> fp],
                               unit.entry)

\* VmMainCreate loads the one file of the command line.
VmLoadFile(unit) == status = "created" /\ VmLoadByteCode(unit)

----------------------------------------------------------------------------
\* VmCreate: nothing is loaded and no call is pending.
Init ==
  /\ stack = <<>>
  /\ function = NullHandle /\ pc = 0 /\ fp = 0
  /\ objs = [h \in {} |-> 0]
  /\ status = "created"

\* VmStep with the handler of one instruction.
Execute(op, imm) ==
  \/ op = "IMM32"  /\ VmBcImm32(imm)
  \/ op = "HANDLE" /\ VmBcHandle(imm)
  \/ op = "POP"    /\ VmBcPop(imm)
  \/ op = "PEEK"   /\ VmBcPeek(imm)
  \/ op = "SWAP"   /\ VmBcSwap
  \/ op \in BinaryOps /\ VmBcBinary(op)
  \/ op \in UnaryOps  /\ VmBcUnary(op)
  \/ op = "JMP"    /\ VmBcJmp(imm)
  \/ op \in {"BT", "BF"} /\ VmBcBranch(op, imm)
  \/ op = "CALL"   /\ VmBcCall(imm)
  \/ op = "RET"    /\ VmBcRet
  \/ op = "LDVAR"  /\ VmBcLdVar(imm)
  \/ op = "STVAR"  /\ VmBcStVar(imm)
  \/ op \in {"LDW", "LDB"} /\ VmLd(op)
  \/ op \in {"STW", "STB"} /\ VmSt(op)
  \/ op = "VMC"    /\ VmBcVmc(imm)

VmStep == VmStepFails \/ \E i \in Bytecode : Execute(i.op, i.imm)

Next == VmStep \/ \E unit \in Units : VmLoadFile(unit)

Spec == Init /\ [][Next]_vars

----------------------------------------------------------------------------
(***************************************************************************)
(* Properties of every program.                                            *)
(***************************************************************************)

\* Types: the stack never grows beyond its limit, and the active function,
\* when there is one, is an object of the machine.
TypeOK ==
  /\ stack \in Seq(Word) /\ Len(stack) <= MaxStack
  /\ DOMAIN objs \subseteq Handle
  /\ objs \in [DOMAIN objs -> Object]
  /\ function \in DOMAIN objs \cup {NullHandle}
  /\ pc \in Word /\ fp \in Word
  /\ status \in {"created", "running", "terminated", "failed"}

\* Objects are permanent: once a handle names an object it goes on naming it,
\* with its qualifiers, its length and its byte order; stores change only the
\* bytes, and those only if the object is not INMUTABLE (VmSt, VmcAlloc).
ObjectsPermanent ==
  [][\A h \in DOMAIN objs :
       /\ h \in DOMAIN objs'
       /\ objs'[h].qualifiers = objs[h].qualifiers
       /\ objs'[h].big = objs[h].big
       /\ Len(objs'[h].data) = Len(objs[h].data)
       /\ "INMUTABLE" \in objs[h].qualifiers => objs'[h] = objs[h]]_vars

\* A failing step leaves no trace in the objects: a store writes all its bytes
\* or none, and VMC_ALLOC never creates an object whose handle it then cannot
\* deliver on the stack.
FailedStepKeepsObjects ==
  [][status = "running" /\ status' = "failed" => objs' = objs]_vars

\* A machine that starts to run holds exactly the objects of one unit, each as
\* the unit has it, and runs the entry function of that unit: a unit that is cut
\* off, repeats a handle or has an unusable object never runs (VmLoadByteCode).
LoadedAsWritten ==
  [][status = "created" /\ status' = "running" =>
       \E unit \in Units :
         /\ unit.valid /\ unit.complete
         /\ DOMAIN objs' = {unit.objects[i].handle : i \in DOMAIN unit.objects}
         /\ \A i \in DOMAIN unit.objects :
              objs'[unit.objects[i].handle] = unit.objects[i].object
         /\ function' = unit.entry]_vars

\* A failing step leaves the machine in the frame it was executing: a call that
\* runs out of stack while it builds the new frame, and a return that finds a
\* broken one, change neither the active function nor the frame pointer.
FailedStepKeepsFrame ==
  [][status = "running" /\ status' = "failed" => function' = function /\ fp' = fp]_vars

============================================================================
