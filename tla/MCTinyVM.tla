------------------------------ MODULE MCTinyVM ------------------------------
(***************************************************************************)
(* An instance of TinyVM for TLC.  The states of all programs made of all  *)
(* instructions are too many; a behaviour here is one of a program that    *)
(* keeps to the units and the instructions of one theme.                   *)
(***************************************************************************)
EXTENDS TinyVM

VARIABLE program   \* the theme, one of Programs

\* A function with this header and a body of n bytes.
Fun(results, args, locals, n, quals) ==
  [qualifiers |-> quals, big |-> TRUE,
   data |-> <<0, results, args, locals>> \o [i \in 1 .. n |-> 0]]

Data(bytes, quals, bigEndian) ==
  [qualifiers |-> quals, data |-> bytes, big |-> bigEndian]

Bin(h, obj) == [handle |-> h, object |-> obj]
Unit(objects, entryHandle) ==
  [valid |-> TRUE, objects |-> objects, complete |-> TRUE, entry |-> entryHandle]

ImmOps(op, imms) == {[op |-> op, imm |-> i] : i \in imms}
Plain(ops)       == {[op |-> op, imm |-> 0] : op \in ops}

----------------------------------------------------------------------------
\* Calls: a main function without arguments, and a function with one argument,
\* one local and one result that may call itself and main.
CallMain  == Fun(0, 0, 0, 11, {"CODE"})
CallInner == Fun(1, 1, 1, 8, {"CODE"})

CallUnits ==
  {Unit(<<Bin(1, CallMain), Bin(2, CallInner)>>, 1),
   Unit(<<Bin(1, CallMain), Bin(2, CallInner)>>, 2)}

CallBytecode ==
       ImmOps("IMM32", {3}) \cup ImmOps("CALL", {1, 2, 3})
  \cup ImmOps("LDVAR", {VM_MAX_LOCALS, VM_MAX_LOCALS + 1})
  \cup ImmOps("STVAR", {0, VM_MAX_LOCALS}) \cup Plain({"RET"})

\* Stack manipulation, arithmetic and branches within one function.
StackUnits == {Unit(<<Bin(1, Fun(0, 0, 1, 8, {"CODE", "INMUTABLE"}))>>, 1)}

StackBytecode ==
       ImmOps("IMM32", {0, 2}) \cup ImmOps("POP", {2}) \cup ImmOps("PEEK", {0, 2})
  \cup Plain({"SWAP", "UDIV", "SDIV", "SCMPGT", "ADD", "NEG"})
  \cup ImmOps("JMP", {3}) \cup ImmOps("BT", {HalfMod - 3}) \cup ImmOps("BF", {HalfMod - 5, 1})

\* Loads and stores: one object of each kind of protection, in both byte
\* orders, and an offset that is in none of them.  Handle 3 has the bare CODE
\* qualifier, so it is not INMUTABLE but its view is read-only.
Body == Fun(0, 0, 0, 23, {"CODE", "INMUTABLE"})

ObjectUnits ==
  {Unit(<<Bin(1, Body),
          Bin(2, Data(<<0, 1, 2, 0, 1>>, {"DATA"}, big)),
          Bin(3, Data(<<0, 1, 0, 0>>, {"CODE"}, big)),
          Bin(4, Data(<<2, 0, 0, 1>>, {"DATA", "INMUTABLE"}, big)),
          Bin(5, Data(<<1>>, {"DATA", "PROTECTED"}, big))>>, 1) : big \in BOOLEAN}

ObjectBytecode ==
       ImmOps("IMM32", {0, 1}) \cup ImmOps("HANDLE", {0, 2, 3, 4, 5, 9})
  \cup Plain({"LDW", "LDB", "STW", "STB"})

\* Virtual machine calls, with two dynamic handles only.  The function has
\* neither the CODE nor the INMUTABLE qualifier alone, so it can be written.
VmcUnits == {Unit(<<Bin(1, Fun(1, 0, 0, 13, {"CODE", "PROTECTED"}))>>, 1)}

VmcBytecode ==
       ImmOps("VMC", 0 .. 5) \cup ImmOps("IMM32", {1}) \cup ImmOps("CALL", {20})
  \cup ImmOps("HANDLE", {0, 1, 21}) \cup Plain({"STB", "RET"})

\* Every way a load can end, by units with and without the defect.
Small == Fun(0, 1, 0, 2, {"CODE"})
Stub  == Data(<<1, 1>>, {"DATA"}, FALSE)
Empty == Data(<<>>, {"DATA"}, FALSE)
Odd   == Data(<<1, 1>>, {}, FALSE)
LoadUnits ==
  [valid : BOOLEAN, complete : BOOLEAN, entry : {0, 1, 2},
   objects : {<<>>, <<Bin(1, Body), Bin(2, Small)>>, <<Bin(1, Body), Bin(1, Small)>>,
              <<Bin(2, Stub), Bin(1, Body)>>, <<Bin(0, Body)>>,
              <<Bin(1, Body), Bin(2, Empty)>>, <<Bin(2, Odd), Bin(1, Body)>>}]

LoadBytecode == Plain({"RET"}) \cup ImmOps("IMM32", {0, 1}) \cup ImmOps("CALL", {1, 2})

----------------------------------------------------------------------------
Programs ==
  {[units |-> CallUnits,   bytecode |-> CallBytecode],
   [units |-> StackUnits,  bytecode |-> StackBytecode],
   [units |-> ObjectUnits, bytecode |-> ObjectBytecode],
   [units |-> VmcUnits,    bytecode |-> VmcBytecode],
   [units |-> LoadUnits,   bytecode |-> LoadBytecode]}

AllUnits    == UNION {p.units : p \in Programs}
AllBytecode == UNION {p.bytecode : p \in Programs}

MCInit == Init /\ program \in Programs

MCNext ==
  /\ \/ VmStepFails
     \/ \E i \in program.bytecode : Execute(i.op, i.imm)
     \/ \E unit \in program.units : VmLoadFile(unit)
  /\ UNCHANGED program

MCSpec == MCInit /\ [][MCNext]_<<vars, program>>

============================================================================
