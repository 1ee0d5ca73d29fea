---------------------------- MODULE TinyVMFrames ----------------------------
(***************************************************************************)
(* Programs that keep to the calling convention of the TinyVM.             *)
(*                                                                         *)
(* The machine keeps the registers of all pending callers, unprotected, in *)
(* the same stack as the operands (vm_call.c), and checks neither that an  *)
(* instruction stays within the operands of its own frame nor that RET     *)
(* finds exactly the results (bytecodes.h asks for both).  This module     *)
(* runs the interpreter on the programs that behave, and says what calls   *)
(* and returns then promise.  The variable frames is a history variable:   *)
(* a second, separate stack of what each pending call has saved.           *)
(***************************************************************************)
EXTENDS TinyVM

VARIABLE frames

fvars == <<vars, frames>>

\* A frame pointer is a 32-bit word: it reaches every slot unless the -s option
\* asks for a stack of more than 2^32 slots (max_stack is a size_t).  The length
\* of an object in a unit is a word too (VmLoadByteCode).
ASSUME FramesAssumption ==
  /\ MaxStack <= WordMod
  /\ \A unit \in Units : \A i \in 1 .. Len(unit.objects) :
       Len(unit.objects[i].object.data) < WordMod

----------------------------------------------------------------------------
\* Immutable code with a whole header, so that its frame layout is fixed.
IsFunction(o, h) ==
  /\ h \in DOMAIN o
  /\ {"CODE", "INMUTABLE"} \subseteq o[h].qualifiers
  /\ HasHeader(o[h])

\* The number of slots below the operands of the active frame.
OperandBase == fp + SavedSlots + NumLocals(objs[function])

\* The operands an instruction takes from the stack.
Operands0 == {"IMM32", "HANDLE", "PEEK", "JMP", "LDVAR"}
Taken(op, imm) ==
  CASE op \in Operands0 -> 0
    [] op \in BinaryOps \cup {"SWAP", "LDW", "LDB"} -> 2
    [] op \in UnaryOps \cup {"POP", "BT", "BF", "STVAR"} -> 1
    [] op \in {"STW", "STB"} -> 3
    [] op = "VMC" -> IF imm \in {VMC_ASSERT, VMC_WRITE, VMC_ALLOC} THEN 1 ELSE 0
    [] op = "CALL" -> IF IsFunction(objs, imm) THEN NumArgs(objs[imm]) ELSE 0
    [] op = "RET" -> NumResults(objs[function])

\* What the convention asks of the program before it executes an instruction:
\* its operands are in its own frame, it calls functions only, and it returns
\* with exactly the results of its function above the locals, which the frame
\* has room for.
WellBehaved(op, imm) ==
  /\ function # NullHandle
  /\ Len(stack) - Taken(op, imm) >= OperandBase
  /\ op = "CALL" => imm \notin DOMAIN objs \/ IsFunction(objs, imm)
  /\ op = "RET" => /\ Len(stack) - Taken(op, imm) = OperandBase
                   /\ NumResults(objs[function]) <= FrameSlots(objs[function])

\* What the frame of a call holds: the caller's registers, where they are, and
\* the part of the stack that belongs to the callers.
Frame(caller, at, below) ==
  [function |-> caller.function, pc |-> caller.pc, fp |-> caller.fp,
   at |-> at, below |-> below]

FInit == Init /\ frames = <<>>

FLoad(unit) ==
  /\ \A i \in 1 .. Len(unit.objects) :
       unit.objects[i].handle = unit.entry =>
         /\ {"CODE", "INMUTABLE"} \subseteq unit.objects[i].object.qualifiers
         /\ HasHeader(unit.objects[i].object)
  /\ VmLoadFile(unit)
  /\ frames' = IF status' = "running"
                 THEN <<Frame([function |-> NullHandle, pc |-> 0, fp |-> 0], 0, <<>>)>>
                 ELSE frames

FCall(imm) ==
  /\ WellBehaved("CALL", imm)
  /\ VmBcCall(imm)
  /\ frames' = IF status' = "running"
                 THEN Append(frames,
                        Frame([function |-> function, pc |-> NextPc("CALL"), fp |-> fp],
                              Len(stack), Drop(stack, NumArgs(objs[imm]))))
                 ELSE frames

FRet ==
  /\ WellBehaved("RET", 0)
  /\ VmBcRet
  /\ frames' = IF status' = "running" THEN Drop(frames, 1) ELSE frames

\* Every other instruction stays in its frame.
FLocal(op, imm) ==
  /\ op \notin {"CALL", "RET"}
  /\ WellBehaved(op, imm)
  /\ Execute(op, imm)
  /\ UNCHANGED frames

FNext ==
  \/ \E unit \in Units : FLoad(unit)
  \/ \E i \in Bytecode : FLocal(i.op, i.imm) \/ FCall(i.imm)
  \/ FRet
  \/ VmStepFails /\ UNCHANGED frames

FSpec == FInit /\ [][FNext]_fvars

----------------------------------------------------------------------------
(***************************************************************************)
(* Properties of the programs that behave.                                 *)
(***************************************************************************)

Active == frames[Len(frames)]

\* The registers that every pending call saved are where RET will look for
\* them, in an unbroken chain from fp down to the entry function.
FrameChain ==
  /\ frames # <<>> => fp = Active.at
  /\ \A i \in 1 .. Len(frames) :
       /\ frames[i].at + SavedSlots <= Len(stack)
       /\ stack[frames[i].at + 1] = frames[i].function
       /\ stack[frames[i].at + 2] = frames[i].pc
       /\ stack[frames[i].at + 3] = frames[i].fp
       /\ i > 1 => frames[i].fp = frames[i - 1].at

\* No function disturbs the part of the stack that belongs to its callers.
CallersUntouched ==
  \A i \in 1 .. Len(frames) :
    /\ Len(frames[i].below) <= frames[i].at
    /\ SubSeq(stack, 1, Len(frames[i].below)) = frames[i].below

\* A return gives the caller its own stack back, with the arguments replaced
\* by the results in their order, and continues it behind its CALL.
ReturnDelivers ==
  [][Len(frames') < Len(frames) =>
       /\ function' = Active.function /\ pc' = Active.pc /\ fp' = Active.fp
       /\ stack' = Active.below \o
                   SubSeq(stack, Len(stack) - NumResults(objs[function]) + 1, Len(stack))]_fvars

\* The activation of the i-th pending call, read off the stack: its frame is at
\* frames[i].at, and its operands end where the arguments of the next begin.
Activation(i) ==
  LET last    == i = Len(frames)
      handle  == IF last THEN function ELSE frames[i + 1].function
      obj     == objs[handle]
      base    == frames[i].at
      locals0 == base + SavedSlots
      top     == IF last THEN Len(stack) ELSE Len(frames[i + 1].below)
  IN  [function |-> handle,
       pc       |-> IF last THEN pc ELSE frames[i + 1].pc,
       args     |-> SubSeq(stack, base - NumArgs(obj) + 1, base),
       locals   |-> SubSeq(stack, locals0 + 1, locals0 + NumLocals(obj)),
       operands |-> SubSeq(stack, locals0 + NumLocals(obj) + 1, top)]

\* A machine that has stopped has no pending calls left.
PendingCalls ==
  IF status = "running" THEN [i \in 1 .. Len(frames) |-> Activation(i)] ELSE <<>>

Separate == INSTANCE Activations WITH calls <- PendingCalls, CallLength <- Length("CALL")

\* One stack, shared by the operands, the arguments, the locals and the saved
\* registers of all calls, implements activations that are separate
\* (VmSetupCall, VmBcRet, VmGetLocal): in a program that keeps the convention
\* no function can tell the difference.
CallsAreSeparate == Separate!Spec

============================================================================
