--------------------------- MODULE MCTinyVMFrames ---------------------------
(***************************************************************************)
(* An instance of TinyVMFrames for TLC.  A behaviour is one of a program   *)
(* that keeps to the units and the instructions of one theme.              *)
(***************************************************************************)
EXTENDS TinyVMFrames

VARIABLE program   \* the theme, one of Programs

Function(results, args, locals, n) ==
  [qualifiers |-> {"CODE", "INMUTABLE"}, big |-> TRUE,
   data |-> <<0, results, args, locals>> \o [i \in 1 .. n |-> 0]]

Bin(h, obj) == [handle |-> h, object |-> obj]
Unit(objects, entryHandle) ==
  [valid |-> TRUE, objects |-> objects, complete |-> TRUE, entry |-> entryHandle]

ImmOps(op, imms) == {[op |-> op, imm |-> i] : i \in imms}
Plain(ops)       == {[op |-> op, imm |-> 0] : op \in ops}

----------------------------------------------------------------------------
\* A main function; one that takes two arguments, has a local and returns two
\* results and may call itself; one that takes none and returns three.
NestedUnits ==
  {Unit(<<Bin(1, Function(0, 0, 0, 12)), Bin(2, Function(2, 1, 1, 11)),
          Bin(3, Function(3, 0, 0, 11))>>, 1)}

NestedBytecode ==
       ImmOps("IMM32", {4}) \cup ImmOps("CALL", {2, 3})
  \cup ImmOps("LDVAR", {0, VM_MAX_LOCALS}) \cup ImmOps("STVAR", {0, VM_MAX_LOCALS})
  \cup ImmOps("PEEK", {0}) \cup Plain({"RET", "SWAP"})

\* A function that stores to objects and allocates while calls are pending.
Stores ==
  {Unit(<<Bin(1, Function(0, 0, 1, 13)), Bin(2, Function(1, 1, 0, 13)),
          Bin(4, [qualifiers |-> {"DATA"}, data |-> <<1, 2>>, big |-> FALSE])>>, 1)}

StoreBytecode ==
       ImmOps("HANDLE", {1, 4}) \cup ImmOps("CALL", {2, 4}) \cup ImmOps("POP", {1})
  \cup ImmOps("LDVAR", {0, VM_MAX_LOCALS}) \cup ImmOps("STVAR", {0})
  \cup ImmOps("VMC", {VMC_ALLOC}) \cup Plain({"RET", "LDB", "STB"})

----------------------------------------------------------------------------
Programs ==
  {[units |-> NestedUnits, bytecode |-> NestedBytecode],
   [units |-> Stores,      bytecode |-> StoreBytecode]}

AllUnits    == UNION {p.units : p \in Programs}
AllBytecode == UNION {p.bytecode : p \in Programs}

MCInit == FInit /\ program \in Programs

MCNext ==
  /\ \/ \E unit \in program.units : FLoad(unit)
     \/ \E i \in program.bytecode : FLocal(i.op, i.imm) \/ FCall(i.imm)
     \/ FRet
     \/ VmStepFails /\ UNCHANGED frames
  /\ UNCHANGED program

MCSpec == MCInit /\ [][MCNext]_<<fvars, program>>

============================================================================
