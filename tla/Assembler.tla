----------------------------- MODULE Assembler -----------------------------
(***************************************************************************)
(* The tinyasm assembler (src/tasks/c2/assembler): the semantic actions of *)
(* the grammar, the code buffers with their relocations, the linker and    *)
(* the writer of the program unit.                                         *)
(*                                                                         *)
(* The input is a list of declarations.  Scanning is abstracted: a         *)
(* declaration is a record and its body a sequence of items, which the     *)
(* parser reduces one after the other.  The variable source keeps what has *)
(* been read, only to say what the output should mean.                     *)
(***************************************************************************)
EXTENDS UnitLoader

CONSTANTS Names,          \* the names of functions and objects
          Items,          \* the items that bodies are made of
          Arguments,      \* the argument lists of functions
          Results,        \* the result counts of functions
          Handles,        \* the handles of declarations, 0 when not given
          Main,           \* ASM_MAIN_FUNCTION
          MaxLocals,      \* VM_MAX_LOCALS
          MaxArgs,        \* VM_MAX_ARGS
          MaxResults,     \* VM_MAX_RESULTS
          MinJump,        \* VM_MIN_JUMP
          MaxJump,        \* VM_MAX_JUMP
          CodeFirst, CodeLast,  \* VM_CODE_HANDLE_FIRST, VM_CODE_HANDLE_LAST
          DataFirst, DataLast,  \* VM_DATA_HANDLE_FIRST, VM_DATA_HANDLE_LAST
          MayFail         \* whether memory and output may fail

ASSUME AssemblerAssumption ==
  /\ MaxLocals \in 0 .. 255 /\ MaxArgs \in 0 .. 255 /\ MaxResults \in 0 .. 255
  /\ MaxLocals + MaxArgs <= 256
  /\ CodeFirst \in Nat \ {0} /\ CodeLast \in Nat /\ CodeFirst <= CodeLast
  /\ DataFirst \in Nat \ {0} /\ DataLast \in Nat /\ DataFirst <= DataLast
  /\ CodeLast < DataFirst \/ DataLast < CodeFirst
  /\ MayFail \in BOOLEAN

ItemKinds == {"op", "imm", "jump", "local", "call", "label", "declare",
              "handle", "byte", "word", "skip"}

\* A word: below 2^32, which TLC cannot write down.
IsWord(value) == value \in Nat /\ value \div 65536 < 65536
IsInt16(value) == -32768 <= value /\ value <= 32767

ASSUME JumpAssumption ==
  /\ MinJump \in Int /\ IsInt16(MinJump) /\ MinJump <= 0
  /\ MaxJump \in Int /\ IsInt16(MaxJump) /\ MaxJump >= 0

\* A value has been converted to what its operand holds (u8, any8, i16, u32 and
\* imm32 of the grammar, which refuse others, and the casts to uint8_t and
\* uint32_t), and what is declared has a name (an IDENTIFIER).
ASSUME SourceAssumption ==
  /\ Items \subseteq [kind : ItemKinds, symbol : STRING, value : Int]
  /\ \A item \in Items :
       /\ item.kind \in {"byte", "local"} => item.value \in 0 .. 255
       /\ item.kind = "jump" => IsInt16(item.value)
       /\ item.kind \in {"imm", "word", "call", "handle"} => IsWord(item.value)
       /\ item.kind = "skip" => item.value \in Nat
       /\ item.kind \in {"label", "declare"} => item.symbol # ""
  /\ Names \subseteq STRING /\ Arguments \subseteq Seq(STRING)
  /\ Handles \subseteq Nat /\ Results \subseteq Nat
  /\ \A handle \in Handles \cup {CodeLast, DataLast} : IsWord(handle)

VARIABLES bigEndian,  \* assembler->isBigEndian, an option of the command line
          phase,      \* where main and the parser are
          errors,     \* assembler->errors, as main reports it in the end
          objects,    \* assembler->objects
          code,       \* the code buffer of the declaration being parsed
          file,       \* the output file, as the chunks given to fwrite
          source,     \* ghost: the declarations read, the last one maybe open
          fault       \* ghost: memory or output has failed

avars == <<bigEndian, phase, errors, objects, code, file, source, fault>>

Parsing == {"declarations", "function", "object"}
Failed  == {"parsing failed", "linking failed", "writing failed"}
Phases  == Parsing \cup Failed \cup {"parsed", "linked", "written"}

NullHandle == 0
Byte == 0 .. 255

-----------------------------------------------------------------------------
(* Byte order (ASM_INIT_HALF and ASM_INIT_WORD): the n bytes of a value.   *)

PlaceValue == <<1, 256, 256 * 256, 256 * 256 * 256>>
ByteOf(value, k) == (value \div PlaceValue[k + 1]) % 256

Encoded(value, n) ==
  [i \in 1 .. n |-> ByteOf(value, IF bigEndian THEN n - i ELSE i - 1)]

-----------------------------------------------------------------------------
(* Code buffers (asm_code.c, asm_relocation.c, asm_variables.c).           *)

EmptyCode == [bytes |-> <<>>, relocations |-> <<>>, locals |-> <<>>]

\* AsmRelocationGetSize: the bytes a relocation of a type occupies.
SizeOf == [label |-> 0, local |-> 1, jump |-> 2, handle |-> 4]

AppendBytes(c, bytes) == [c EXCEPT !.bytes = @ \o bytes]

Fill(n, value) == [i \in 1 .. n |-> value]

\* Wrong: the bytes of the operand are not reserved.
AddRelocationUnreserved(c, type, symbol) ==
  [c EXCEPT !.relocations =
     Append(@, [type |-> type, offset |-> Len(c.bytes), symbol |-> symbol])]

AsmCodeAddRelocation(c, type, symbol) ==
  [AppendBytes(c, Fill(SizeOf[type], 0)) EXCEPT !.relocations =
     Append(@, [type |-> type, offset |-> Len(c.bytes), symbol |-> symbol])]

Adjusted(relocations, delta) ==
  [i \in DOMAIN relocations |-> [relocations[i] EXCEPT !.offset = @ + delta]]

\* AsmCodeAddMetadata
\* Wrong: the relocations stay where they were.
AddMetadataOnly(c, data) == [c EXCEPT !.bytes = data \o @]

AsmCodeAddMetadata(c, data) ==
  [c EXCEPT !.bytes = data \o @, !.relocations = Adjusted(@, Len(data))]

\* AsmCodeMerge; the callers' tails share no variable and no label with head.
AsmCodeMerge(head, tail) ==
  [bytes       |-> head.bytes \o tail.bytes,
   relocations |-> head.relocations \o
                     Adjusted(tail.relocations, Len(head.bytes)),
   locals      |-> head.locals \o tail.locals]

\* The first element of a chain that has a name: 0 when there is none.
AsmRelocationsFindLabel(relocations, symbol) ==
  SelectInSeq(relocations, LAMBDA r : r.type = "label" /\ r.symbol = symbol)

Lookup(chain, name) == SelectInSeq(chain, LAMBDA e : e.name = name)

\* AsmCodeApplyRelocation: the operand replaces the reserved bytes.
Applies(c, r) == SizeOf[r.type] > 0 /\ r.offset + SizeOf[r.type] <= Len(c.bytes)

AsmCodeApplyRelocation(c, r, value) ==
  LET operand == Encoded(value, SizeOf[r.type])
  IN [c EXCEPT !.bytes =
        [i \in DOMAIN @ |-> IF i - r.offset \in DOMAIN operand
                            THEN operand[i - r.offset] ELSE @[i]]]

-----------------------------------------------------------------------------
(* Items.  A reference has a symbol or, when symbol is "", a value.        *)

OpCode == [jump |-> 18, local |-> 64, call |-> 16, imm |-> 4, op |-> 80]

\* AsmUtilAppendRelocation.
AsmUtilAppendRelocation(c, type, item) ==
  IF item.symbol # "" THEN AsmCodeAddRelocation(c, type, item.symbol)
                      ELSE AppendBytes(c, Encoded(item.value, SizeOf[type]))

WithOpCode(c, item) == AppendBytes(c, <<OpCode[item.kind]>>)

\* AsmUtilDeclareVariables for one variable: a duplicate is dropped.  A list
\* is as many items; of its duplicates only the first is counted.
Declared(c, name) ==
  IF Lookup(c.locals, name) # 0 THEN c
  ELSE [c EXCEPT !.locals = Append(@, [name |-> name, index |-> 0])]

\* The code buffer after the reduction of an item, by kind.  The lists of
\* .byte and .word are built in a buffer of their own, which is merged.
Reduced(c, item) ==
  CASE item.kind = "op"    -> WithOpCode(c, item)
    [] item.kind = "imm"   -> AppendBytes(WithOpCode(c, item), Encoded(item.value, 4))
    [] item.kind \in {"jump", "local"} ->
         AsmUtilAppendRelocation(WithOpCode(c, item), item.kind, item)
    [] item.kind = "call"  ->
         AsmUtilAppendRelocation(WithOpCode(c, item), "handle", item)
    [] item.kind \in {"label", "handle"} ->
         AsmUtilAppendRelocation(c, item.kind, item)
    [] item.kind = "declare" -> Declared(c, item.symbol)
    [] item.kind = "byte"  ->
         AsmCodeMerge(c, AppendBytes(EmptyCode, <<item.value>>))
    [] item.kind = "word"  ->
         AsmCodeMerge(c, AppendBytes(EmptyCode, Encoded(item.value, 4)))
    [] item.kind = "skip"  -> AppendBytes(c, Fill(item.value, 0))

\* Wrong: duplicate labels are not looked for.
RejectedDeclareOnly(c, item) ==
  item.kind = "declare" /\ Lookup(c.locals, item.symbol) # 0

\* The reduction reports an error.
Rejected(c, item) ==
  \/ item.kind = "label" /\ AsmRelocationsFindLabel(c.relocations, item.symbol) # 0
  \/ item.kind = "declare" /\ Lookup(c.locals, item.symbol) # 0

BodyKinds(p) ==
  IF p = "function"
  THEN {"op", "imm", "jump", "local", "call", "label", "declare"}
  ELSE {"handle", "byte", "word", "skip"}

-----------------------------------------------------------------------------
(* The parser (grammar.y).  It stops after the first token whose reductions*)
(* reported an error (AsmParse); main then reports one of its own.         *)

Open == Last(source)
Undefined == UNCHANGED <<bigEndian, file, fault>>

\* After a reduction that reported n errors.
AfterReduction(n, next) ==
  /\ errors' = IF n = 0 THEN errors ELSE errors + n + 1
  /\ phase' = IF n = 0 THEN next ELSE "parsing failed"

Begin(p, name, handle, args, results) ==
  /\ phase = "declarations"
  /\ source' = Append(source, [kind |-> p, name |-> name, handle |-> handle,
                               args |-> args, results |-> results, text |-> <<>>])
  /\ code' = EmptyCode
  /\ phase' = p
  /\ UNCHANGED <<errors, objects>> /\ Undefined

ParseItem(item) ==
  /\ phase \in {"function", "object"}
  /\ item.kind \in BodyKinds(phase)
  /\ source' = [source EXCEPT ![Len(source)].text = Append(@, item)]
  /\ code' = Reduced(code, item)
  /\ AfterReduction(IF Rejected(code, item) THEN 1 ELSE 0, phase)
  /\ UNCHANGED objects /\ Undefined

\* AsmUtilProcessLocals: the locals get the indices from 0, the arguments
\* those from VM_MAX_LOCALS, and join the chain behind the locals.
IndexedLocals(c) == [i \in DOMAIN c.locals |->
                       [name |-> c.locals[i].name, index |-> i - 1]]
IndexedArgs(args) == [i \in DOMAIN args |->
                       [name |-> args[i], index |-> MaxLocals + i - 1]]
AsmUtilProcessLocals(c, args) ==
  [c EXCEPT !.locals = IndexedLocals(c) \o IndexedArgs(args)]

Header(d, c) == <<0, d.results, Len(d.args), Len(c.locals)>>

\* AsmCanAddObjects; the grammar gives every object one of code and data.
AsmCanAddObjects(d) == Lookup(objects, d.name) = 0

\* AsmUtilDefineObject
AsmUtilDefineObject(d, c) ==
  IF ~ AsmCanAddObjects(d)
  THEN AfterReduction(1, "declarations") /\ UNCHANGED objects
  ELSE /\ objects' = Append(objects, [name |-> d.name, kind |-> d.kind,
                                      handle |-> d.handle, content |-> c])
       /\ AfterReduction(0, "declarations")

\* AsmUtilDefineFunction: its limits are reported, and then nothing is defined.
TooMany(d, c) == \/ d.results > MaxResults
                 \/ Len(c.locals) > MaxLocals
                 \/ Len(d.args) > MaxArgs

EndFunction ==
  /\ phase = "function"
  /\ IF TooMany(Open, code)
     THEN AfterReduction(1, "declarations") /\ UNCHANGED objects
     ELSE AsmUtilDefineObject(Open,
            AsmCodeAddMetadata(AsmUtilProcessLocals(code, Open.args),
                               Header(Open, code)))
  /\ code' = EmptyCode
  /\ UNCHANGED source /\ Undefined

EndObject ==
  /\ phase = "object"
  /\ AsmUtilDefineObject(Open, code)
  /\ code' = EmptyCode
  /\ UNCHANGED source /\ Undefined

EndOfInput ==
  /\ phase = "declarations"
  /\ phase' = "parsed"
  /\ UNCHANGED <<errors, objects, code, source>> /\ Undefined

\* An allocation fails in a reduction: what it was to add may be missing.
OutOfMemory ==
  /\ MayFail /\ phase \in Parsing
  /\ fault' = TRUE
  /\ AfterReduction(1, phase)
  /\ UNCHANGED <<bigEndian, objects, code, file, source>>

-----------------------------------------------------------------------------
(* The linker (asm_linker.c).                                              *)

HandlesOf(objs) == {objs[i].handle : i \in DOMAIN objs}

\* Wrong: handles of the source are not avoided.
FindFreeHandleFirst(objs, start, limit) == start

\* AsmFindFreeHandle
AsmFindFreeHandle(objs, start, limit) ==
  LET free == (start .. limit) \ HandlesOf(objs)
  IN IF free = {} THEN NullHandle ELSE Min(free)

\* The next handle to try after handle was found.
NextHandle(handle, next, limit) ==
  IF handle \in {NullHandle, limit} THEN next ELSE handle + 1

\* One iteration of AsmAssignHandles on pass [objs, code, data, errors].
AssignHandle(pass, i) ==
  LET isCode == pass.objs[i].kind = "function"
      limit  == IF isCode THEN CodeLast ELSE DataLast
      next   == IF isCode THEN pass.code ELSE pass.data
      handle == AsmFindFreeHandle(pass.objs, next, limit)
      after  == NextHandle(handle, next, limit)
  IN IF pass.objs[i].handle # NullHandle THEN pass
     ELSE IF handle = NullHandle THEN [pass EXCEPT !.errors = @ + 1]
     ELSE [objs   |-> [pass.objs EXCEPT ![i].handle = handle],
           code   |-> IF isCode THEN after ELSE pass.code,
           data   |-> IF isCode THEN pass.data ELSE after,
           errors |-> pass.errors]

AsmAssignHandles(objs) ==
  LET pass[n \in 0 .. Len(objs)] ==
        IF n = 0
        THEN [objs |-> objs, code |-> CodeFirst, data |-> DataFirst, errors |-> 0]
        ELSE AssignHandle(pass[n - 1], n)
  IN pass[Len(objs)]

\* The delta of a jump: from its operand to its label.
Delta(c, r) ==
  c.relocations[AsmRelocationsFindLabel(c.relocations, r.symbol)].offset - r.offset

Resolvable(objs, c, r) ==
  CASE r.type = "handle" -> Lookup(objs, r.symbol) # 0
    [] r.type = "local"  -> Lookup(c.locals, r.symbol) # 0
    [] r.type = "jump"   -> /\ AsmRelocationsFindLabel(c.relocations, r.symbol) # 0
                            /\ Delta(c, r) \in MinJump .. MaxJump

Resolved(objs, c, r) ==
  CASE r.type = "handle" -> objs[Lookup(objs, r.symbol)].handle
    [] r.type = "local"  -> c.locals[Lookup(c.locals, r.symbol)].index
    [] r.type = "jump"   -> Delta(c, r) % 65536

\* One iteration of AsmLinkObject on pass [content, errors].
Relocate(objs, pass, r) ==
  IF r.type = "label" THEN pass
  ELSE IF Resolvable(objs, pass.content, r) /\ Applies(pass.content, r)
  THEN [pass EXCEPT !.content =
          AsmCodeApplyRelocation(@, r, Resolved(objs, @, r))]
  ELSE [pass EXCEPT !.errors = @ + 1]

AsmLinkObject(objs, c) ==
  LET pass[n \in 0 .. Len(c.relocations)] ==
        IF n = 0 THEN [content |-> c, errors |-> 0]
        ELSE Relocate(objs, pass[n - 1], c.relocations[n])
  IN pass[Len(c.relocations)]

\* The errors of all passes.
ErrorsOf(passes) ==
  LET sum[n \in 0 .. Len(passes)] ==
        IF n = 0 THEN 0 ELSE sum[n - 1] + passes[n].errors
  IN sum[Len(passes)]

\* AsmLink: pass 2 only if pass 1 succeeded; all objects are linked, errors or not.
AsmLink ==
  /\ phase = "parsed"
  /\ LET pass1 == AsmAssignHandles(objects)
         pass2 == [i \in DOMAIN objects |->
                     AsmLinkObject(pass1.objs, pass1.objs[i].content)]
         failures == IF pass1.errors > 0 THEN pass1.errors
                     ELSE ErrorsOf(pass2)
     IN /\ objects' = IF pass1.errors > 0 THEN pass1.objs
                      ELSE [i \in DOMAIN objects |->
                              [pass1.objs[i] EXCEPT !.content = pass2[i].content]]
        /\ errors' = IF failures = 0 THEN errors ELSE errors + failures + 1
        /\ phase' = IF failures = 0 THEN "linked" ELSE "linking failed"
  /\ UNCHANGED <<code, source>> /\ Undefined

-----------------------------------------------------------------------------
(* The output (asm_output.c and AsmMainWriteOutputFile of tinyasm.c).      *)

(* A chunk is what one call of the write callback gets: bytes.             *)

VmQualifiers == [function |-> 6, object |-> 1]   \* CODE | INMUTABLE, and DATA

ObjectHeader(obj) ==
  Encoded(VM_TAG_OBJECT, 4) \o Encoded(VmQualifiers[obj.kind], 4) \o
  Encoded(obj.handle, 4) \o Encoded(Len(obj.content.bytes), 4)

\* Wrong: empty contents are written like others.
ObjectWriteAlways(obj) == <<ObjectHeader(obj), obj.content.bytes>>

AsmObjectWrite(obj) ==
  <<ObjectHeader(obj)>> \o
  (IF obj.content.bytes = <<>> THEN <<>> ELSE <<obj.content.bytes>>)

\* Wrong: the first object is the entry point.
EntryFirst == IF objects = <<>> THEN NullHandle ELSE objects[1].handle

Entry == IF Lookup(objects, Main) = 0 THEN NullHandle
         ELSE objects[Lookup(objects, Main)].handle

AsmWritePrologue ==
  Encoded(VM_TAG_UNIT, 4) \o Encoded(1, 2) \o Encoded(0, 2) \o Encoded(Entry, 4)
AsmWriteEpilogue == Encoded(VM_TAG_END, 4)

Unit == <<AsmWritePrologue>> \o
        FlattenSeq([i \in DOMAIN objects |-> AsmObjectWrite(objects[i])]) \o
        <<AsmWriteEpilogue>>

\* fwrite of no bytes returns 0, which the callback takes for a failure.
Writable(chunk) == chunk # <<>>

\* fopen fails: the file is not touched.
OpenFails ==
  /\ MayFail
  /\ phase' = "writing failed" /\ fault' = TRUE /\ errors' = errors + 1
  /\ UNCHANGED file

\* The first n chunks are written and the next one is not: it cannot be, or
\* the output fails.
WriteFails(n) ==
  /\ n < Len(Unit) /\ (Writable(Unit[n + 1]) => MayFail)
  /\ phase' = "writing failed" /\ errors' = errors + 2
  /\ fault' = (fault \/ Writable(Unit[n + 1]))
  /\ file' = SubSeq(Unit, 1, n)

\* All chunks are written; fclose succeeds or fails.
AllWritten ==
  /\ file' = Unit
  /\ \/ phase' = "written" /\ UNCHANGED <<errors, fault>>
     \/ /\ MayFail
        /\ phase' = "writing failed" /\ fault' = TRUE /\ errors' = errors + 1

AsmWriteOutput ==
  /\ phase = "linked"
  /\ \/ OpenFails
     \/ \E n \in 0 .. Len(Unit) :
          /\ \A i \in 1 .. n : Writable(Unit[i])
          /\ WriteFails(n) \/ (n = Len(Unit) /\ AllWritten)
  /\ UNCHANGED <<bigEndian, objects, code, source>>

-----------------------------------------------------------------------------
Init ==
  /\ bigEndian \in BOOLEAN
  /\ phase = "declarations" /\ errors = 0
  /\ objects = <<>> /\ code = EmptyCode
  /\ file = <<>> /\ source = <<>> /\ fault = FALSE

BeginFunction ==
  \E name \in Names, handle \in Handles, args \in Arguments, n \in Results :
    Begin("function", name, handle, args, n)

BeginObject ==
  \E name \in Names, handle \in Handles : Begin("object", name, handle, <<>>, 0)

Next ==
  \/ BeginFunction \/ BeginObject
  \/ \E item \in Items : ParseItem(item)
  \/ EndFunction \/ EndObject \/ EndOfInput
  \/ OutOfMemory
  \/ AsmLink \/ AsmWriteOutput

Spec == Init /\ [][Next]_avars

-----------------------------------------------------------------------------
(* What the source means, stated without buffers and relocations.          *)

TextSize(item) ==
  [op |-> 1, imm |-> 5, jump |-> 3, local |-> 2, call |-> 5, label |-> 0,
   declare |-> 0, handle |-> 4, byte |-> 1, word |-> 4, skip |-> item.value][item.kind]

IsFunction(d) == d.kind = "function"

\* The offset of item i in the object of declaration d.
Position(d, i) ==
  LET end[n \in 0 .. Len(d.text)] ==   \* the end of the first n items
        IF n = 0 THEN IF IsFunction(d) THEN 4 ELSE 0
        ELSE end[n - 1] + TextSize(d.text[n])
  IN end[i - 1]

Uses(d, kind)  == {i \in DOMAIN d.text : d.text[i].kind = kind}
Symbols(d, kind) == {d.text[i].symbol : i \in Uses(d, kind)}
LabelPosition(d, label) ==
  Position(d, CHOOSE i \in Uses(d, "label") : d.text[i].symbol = label)

\* The slot of a variable: locals in the order of their declarations from 0,
\* arguments from VM_MAX_LOCALS.
Slot(d, name) ==
  IF name \in Symbols(d, "declare")
  THEN LET i == CHOOSE i \in Uses(d, "declare") : d.text[i].symbol = name
       IN Cardinality({j \in Uses(d, "declare") : j < i})
  ELSE MaxLocals - 1 + CHOOSE i \in DOMAIN d.args :
         d.args[i] = name /\ \A j \in 1 .. i - 1 : d.args[j] # name

\* The machine reads n bytes at an offset (MemGetByte, MemGetHalf, MemGetWord).
ReadAt(bytes, offset, n) ==
  LET value[i \in 0 .. n] ==   \* of the i highest bytes
        IF i = 0 THEN 0
        ELSE value[i - 1] * 256 + bytes[offset + (IF bigEndian THEN i ELSE n + 1 - i)]
  IN value[n]
Signed16(v) == IF v < 32768 THEN v ELSE v - 65536

HandleOf(name) == objects[CHOOSE i \in DOMAIN objects : objects[i].name = name].handle

ItemKept(d, bytes, i) ==
  LET item == d.text[i]
      at   == Position(d, i)
      operand(n) == ReadAt(bytes, at + 1, n)
      known == item.symbol # ""
  IN /\ item.kind \in DOMAIN OpCode => bytes[at + 1] = OpCode[item.kind]
     /\ CASE item.kind = "imm"    -> operand(4) = item.value
          [] item.kind = "jump"   -> IF known
               THEN at + 1 + Signed16(operand(2)) = LabelPosition(d, item.symbol)
               ELSE Signed16(operand(2)) = item.value
          [] item.kind = "local"  ->
               operand(1) = IF known THEN Slot(d, item.symbol) ELSE item.value
          [] item.kind = "call"   ->
               operand(4) = IF known THEN HandleOf(item.symbol) ELSE item.value
          [] item.kind = "handle" -> ReadAt(bytes, at, 4) =
               IF known THEN HandleOf(item.symbol) ELSE item.value
          [] item.kind = "byte"   -> bytes[at + 1] = item.value
          [] item.kind = "word"   -> ReadAt(bytes, at, 4) = item.value
          [] item.kind = "skip"   -> \A j \in 1 .. item.value : bytes[at + j] = 0
          [] OTHER -> TRUE

Once(d, kind) == \A i, j \in Uses(d, kind) :
                   d.text[i].symbol = d.text[j].symbol => i = j

\* What the parser checks of a declaration.  The grammar asks for more: see
\* NamesDistinct and DeclaredBeforeUse.
CheckedDeclaration(d) ==
  /\ Once(d, "label") /\ Once(d, "declare")
  /\ d.results <= MaxResults /\ Len(d.args) <= MaxArgs
  /\ Cardinality(Uses(d, "declare")) <= MaxLocals

CheckedSource ==
  /\ \A i \in DOMAIN source : CheckedDeclaration(source[i])
  /\ \A i, j \in DOMAIN source : source[i].name = source[j].name => i = j

Variables(d) == Symbols(d, "declare") \cup {d.args[i] : i \in DOMAIN d.args}
Global == {source[i].name : i \in DOMAIN source}

LinkableDeclaration(d) ==
  /\ Symbols(d, "local") \subseteq Variables(d) \cup {""}
  /\ Symbols(d, "call") \cup Symbols(d, "handle") \subseteq Global \cup {""}
  /\ \A i \in Uses(d, "jump") :
       d.text[i].symbol # "" =>
         /\ d.text[i].symbol \in Symbols(d, "label")
         /\ LabelPosition(d, d.text[i].symbol) - (Position(d, i) + 1)
              \in MinJump .. MaxJump

Unnamed(kind) == {i \in DOMAIN source : source[i].kind = kind
                                           /\ source[i].handle = NullHandle}
Given == {source[i].handle : i \in DOMAIN source}

LinkableSource ==
  /\ \A i \in DOMAIN source : LinkableDeclaration(source[i])
  /\ Cardinality(Unnamed("function")) <= Cardinality((CodeFirst .. CodeLast) \ Given)
  /\ Cardinality(Unnamed("object")) <= Cardinality((DataFirst .. DataLast) \ Given)

Accepted == phase \in {"linked", "written", "writing failed"}

-----------------------------------------------------------------------------
(* Properties.                                                             *)

\* Types; and a relocation lies within the bytes of its buffer, whatever has
\* been prepended, appended or merged since AsmCodeAddRelocation.
IsCode(c) ==
  /\ c.bytes \in Seq(Byte)
  /\ \A r \in Range(c.relocations) :
       r.type \in DOMAIN SizeOf /\ r.offset \in 0 .. Len(c.bytes) - SizeOf[r.type]
  /\ \A v \in Range(c.locals) : v.index \in Byte
TypeOK ==
  /\ bigEndian \in BOOLEAN /\ phase \in Phases /\ errors \in Nat
  /\ (errors > 0) <=> phase \in Failed
  /\ IsCode(code)
  /\ \A obj \in Range(objects) : IsCode(obj.content) /\ obj.handle \in Nat
  /\ fault => MayFail

\* A program that is accepted is assembled to what it says: every instruction
\* is where the machine finds it, every jump reaches its label, every variable
\* its slot, every reference the handle of the object with that name, behind
\* the header and in either byte order (AsmCodeAddMetadata, AsmLinkObject,
\* AsmCodeApplyRelocation).
OutputMeansSource ==
  Accepted =>
    /\ DOMAIN objects = DOMAIN source
    /\ \A k \in DOMAIN source :
         LET d == source[k]
             bytes == objects[k].content.bytes
         IN /\ objects[k].name = d.name
            /\ Len(bytes) = Position(d, Len(d.text) + 1)
            /\ IsFunction(d) =>
                 SubSeq(bytes, 1, 4) = <<0, d.results, Len(d.args),
                                         Cardinality(Symbols(d, "declare"))>>
            /\ \A i \in DOMAIN d.text : ItemKept(d, bytes, i)

\* What is accepted is legal as far as the assembler checks it: labels, declared
\* variables and objects have a name of their own among their kind, limits are
\* kept, everything resolves.  With AsmParse stopping at the first
\* error and AsmLink going on after one, no error gets lost on the way.
AcceptedIsChecked == Accepted => CheckedSource /\ LinkableSource

\* A program is rejected only for what is wrong with it, in the phase that can
\* tell; what is linked is written unless the output fails, empty objects too
\* (the guard of AsmObjectWrite).
RejectedForReason ==
  /\ phase = "parsing failed" => fault \/ ~ CheckedSource
  /\ phase = "linking failed" => CheckedSource /\ ~ LinkableSource
  /\ phase = "writing failed" => fault

\* Between them, the checks of the parser and the linker accept exactly the
\* programs that have none of the faults they look for.  That these are not all
\* that the grammar speaks of is said by NamesDistinct and DeclaredBeforeUse.
VerdictIsRight == AcceptedIsChecked /\ RejectedForReason

\* A handle that the linker chose is in the range of its kind and belongs to no
\* other object, also not to one that is declared later with this handle
\* (AsmAssignHandles, AsmFindFreeHandle).  Handles of the source are kept.
HandlesAssigned ==
  Accepted =>
    \A i \in DOMAIN objects :
      IF source[i].handle # NullHandle THEN objects[i].handle = source[i].handle
      ELSE /\ objects[i].handle \in IF IsFunction(source[i]) THEN CodeFirst .. CodeLast
                                                           ELSE DataFirst .. DataLast
           /\ \A j \in DOMAIN objects \ {i} : objects[j].handle # objects[i].handle

\* What the machine should hold, and the units that it can hold.
MachineObjects ==
  [k \in DOMAIN source |->
     [qualifiers |-> VmQualifiers[source[k].kind], handle |-> objects[k].handle,
      data |-> objects[k].content.bytes, big |-> bigEndian]]
Loadable == \A k \in DOMAIN source :
  /\ Position(source[k], Len(source[k].text) + 1) > 0
  /\ \A j \in DOMAIN source \ {k} : objects[j].handle # objects[k].handle
MainHandle == IF Main \in Global THEN HandleOf(Main) ELSE NullHandle

\* The output file is touched for accepted programs only.  From what tinyasm
\* reports as written, tinyvm takes the entry and the objects that were assembled,
\* in the byte order of the assembler; it refuses exactly the units with an empty
\* object or a handle given twice, before it comes to the call of the entry (which
\* is in TinyVM).  A file that was cut off at any byte, when the disk was full, is
\* refused (AsmWriteOutput, AsmObjectWrite and main of tinyasm.c; VmLoadByteCode).
UnitIsLoaded ==
  /\ file # <<>> => Accepted
  /\ phase = "written" =>
       UnitObjects(FlattenSeq(file)) =
         IF Loadable THEN Loaded(MainHandle, MachineObjects) ELSE Refused
  /\ phase = "writing failed" /\ file # Unit =>
       LET written == FlattenSeq(file)
           next    == Unit[Len(file) + 1]
       IN \A k \in 0 .. Len(next) - 1 :
            UnitObjects(written \o SubSeq(next, 1, k)) = Refused

-----------------------------------------------------------------------------
(* What the grammar demands and the code does not look for.                *)

\* What grammar.y says of the variables and arguments of a function: "It is an
\* error to declare a local variable or argument which has the same name as
\* another local variable or argument in the same subprogram."
NamesDistinct ==
  Accepted => \A k \in DOMAIN source :
    LET d == source[k]
    IN /\ Once(d, "declare")
       /\ \A i, j \in DOMAIN d.args : d.args[i] = d.args[j] => i = j
       /\ Symbols(d, "declare") \cap Range(d.args) = {}

\* "Variables (and arguments) must be declared exactly once before they can be
\* used."
DeclaredBeforeUse ==
  Accepted => \A k \in DOMAIN source :
    LET d == source[k]
    IN \A i \in Uses(d, "local") :
         LET name == d.text[i].symbol
         IN \/ name = ""
            \/ name \in Range(d.args)
            \/ \E j \in Uses(d, "declare") : j < i /\ d.text[j].symbol = name
=============================================================================
