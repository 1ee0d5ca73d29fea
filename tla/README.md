# Verification of the TinyVM, its assembler, and the programs beside them

This directory holds TLA+ specifications of the programs under `src/tasks`, TLC
configurations that check them on small instances, and TLAPS proofs of what
matters most for every instance. All paths below are relative to the root of the
repository; `vm/`, `util/` and `assembler/` are in `src/tasks/c2`, `c1/` is
`src/tasks/c1/src`, `j/` is `src/tasks/j/src/src/at/iaik/teaching/sase/ku2013` and
`ws/` is `src/tasks/ws/src/sase.submission.system/src/at/tugraz/iaik/teaching/sase2013`.

Contents: 1 the system, 2 the modules, 3 what is checked, 4 what is proved,
5 where code and documentation disagree, 6 what is not modelled, 7 the plan.

## 1. The system

The repository is four programs that share nothing at run time, except that the
output of the assembler is the input of the virtual machine.

### c2: TinyVM and tinyasm

    source text -> lexer -> parser actions -> code buffers + relocations
                -> linker -> unit file -> VM loader -> interpreter

* **Interpreter** (`vm/vm_bytecodes.c`, `vm_context.c`). State: the registers
  `function`, `pc` and `fp`, and what the last `VmStep` returned. One operation,
  `VmStep`: fetch an opcode and its immediate from the active function, advance the
  pc, call the handler from the table `OPCODES`. Correct if a failing instruction
  leaves the machine in the frame it executed, and if what runs is code that was
  loaded.
* **Stack and calls** (`vm_stack.c`, `vm_call.c`). State: one array of words with a
  limit. Operands, arguments, locals and the saved registers of all pending callers
  lie in it side by side, and nothing protects one from the other. `CALL` pushes the
  registers, then the locals; `RET` computes from the *stack pointer* where results
  and saved registers are. Hard: long sequences of legal calls, stores to locals and
  returns; a stack that fills up in the middle of a call. Correct if a program that
  keeps the convention cannot tell the shared stack from separate activations.
* **Objects, loads and stores** (`vm_objects.c`, `vm_ldst.c`). State: a table from
  handles to byte buffers with qualifiers and a byte order. Objects are permanent.
  Correct if protection holds, and a store happens wholly or not at all.
* **Machine calls** (`vm_extra.c`): exit, assert, read, write, allocate. They meet the
  outside world: end of input, failing callbacks, no memory, no free handle.
* **Arithmetic** (`vm_arith.c`): 22 handlers on 32-bit words. Hard: signed operations
  written with unsigned words, shift distances, `INT_MIN / -1`.
* **Loader** (`vm_loader.c`): creates the objects of a unit one by one and sets up the
  call of its entry function. May fail after any object.
* **Byte buffer and memory views** (`util/`). Shared by all of the above and by the
  assembler. A view keeps a base and a length while its buffer grows, moves or is
  cleared; a caller may hold a pointer into the buffer, and may append a slice of the
  buffer to itself. Sums are `size_t` and wrap.
* **tinyasm lexer** (`asm_lexer.c`). State: one character of lookahead, the position and the
  buffer of the current token. Hard: the character behind a token is read before the
  token is known to end, and must be the first of the next scan, once; the file may end anywhere.
* **tinyasm parser actions** (`grammar.y`, `asm_parser_utils.c`,
  `asm_util_function.c`). State: the declaration being parsed, with its code buffer.
  The function header is *prepended* once the body is known, so that everything that
  remembers an offset must move.
* **Code buffers and relocations** (`asm_code.c`, `asm_relocation.c`,
  `asm_variables.c`, `asm_object.c`). Intrusive lists of offsets, names, and objects.
* **Linker** (`asm_linker.c`): assigns handles to the objects that have none, avoiding
  those of the source, and then fills in every operand. Goes on after errors.
* **Output** (`asm_output.c`, `tinyasm.c`): a unit in chunks through a callback that may
  fail at any of them.

### c1: big integers

* **Multi-precision arithmetic** (`mp_*.c`): word loops with a carry or a borrow.
* **Big integers** (`bigint_*.c`). State: heap structures of sign, words and word
  count. `z` may be `a` or `b`; each of up to seven allocations of a call may fail.
  Correct if the results are exact, failures leak nothing and leave no half-written
  number, and aliasing makes no difference.

### j: a certificate store and an upload between a client and a server

* **Certificate store** (`j/crypto/Certificates.java`): a map from fingerprints, and
  `getChains`, a depth-first search through issuers that may be cross-certified, kept
  in a stack of partial chains. Correct if it ends, and finds all chains from a leaf
  to a self-signed root.
* **Upload** (`j/client`, `j/server`, `j/codlet`): one process, one thread; the client
  looks the server's certificate up in a file of known servers (or adds it), signs and
  encrypts a file and calls the server, which reverses that and compares.
* **OCSP mini** (`j/ocspmini`): a synchronous query of a constant list.

### ws: a submission system

* **Users and roles** (`ws/db`, `RootController`, `AdminController`): servlet threads that
  each execute a few SQL statements on a connection of their own. Hard: a name that is
  looked up in one transaction and inserted in another; transactions whose `finally`
  turns auto-commit on again.
* **Upload and compile** (`StudentController`, `Unzip`, `Compiler`, `JsonLogger`): a
  compiler process with two reader threads that log to one report, and a request thread
  that waits for all three.
* **Queries and pages**: read-only.

`PROJECT.json` lists every component with its files and whether it is modelled, and
under `hazards` the lines where each of them could go wrong in a way that a test would
hardly notice.

## 2. The modules

| Module | Models |
| --- | --- |
| `VmWords` | words, bytes and the bytes of a buffer, for any byte base (`vm`, `util/memview.c`) |
| `VmObjects` | the object table and its handles (`vm_objects.c`, part of `vm_extra.c`) |
| `TinyVM` | the interpreter, with one action per instruction, machine call and load |
| `TinyVMFrames` | the programs that keep the calling convention, with a history of their calls |
| `Activations` | abstract: separate activations, what the convention promises |
| `VmArith` | the arithmetic handlers as functions, against their definitions |
| `MemView` | byte buffer and memory views |
| `AsmLexer` | the scanner of tinyasm, character by character, against the language it scans |
| `Assembler` | parser actions, code buffers, linker, output; with `UnitLoader`, what it writes as the machine loads it |
| `UnitLoader` | the bytes of a program unit as `vm_loader.c` reads them |
| `MpArith` | the word loops of the big integers |
| `BigInt` | the big integer calls, with aliasing and failing allocations |
| `SubmissionUsers` | sign-in and deletion of users, statement by statement (ws) |
| `Registry` | abstract: a list of people, what the tables of users promise |
| `CompilerRun` | one upload: request, compiler, pipes, readers and report (ws) |
| `CertificateChains` | the search for certificate chains (j) |
| `TinyVM_proofs` (also of `TinyVMFrames`), `MemView_proofs`, `AsmLexer_proofs`, `Assembler_proofs`, `BigInt_proofs`, `CertificateChains_proofs`, `CompilerRun_proofs`, `SubmissionUsers_proofs` | theorems and their proofs |
| `MCTinyVM`, `MCTinyVMFrames`, `MCAssembler`, `MCAsmLexer`, `MCBigInt`, `MCMemView`, `MCCertificateChains` | instances for TLC |

`TinyVM` extends `VmObjects`, which extends `VmWords`. `TinyVMFrames` extends `TinyVM`
and instantiates `Activations` with a refinement mapping; `SubmissionUsers` does so with
`Registry`. `BigInt` extends `MpArith`, and `Assembler` extends `UnitLoader`, which composes the
assembler with the loader of the machine. The other modules stand alone. In every module an
operator whose comment begins with `Wrong:` is a plausible slip in the definition below it;
no specification uses it. It is there to show that a property notices the slip (`mutants`
in `PROJECT.json`).

**How state corresponds to code.**

* `TinyVM`: `stack` is `vm->stack[0 .. stack_size-1]`; `function` is the handle of
  `vm->function`; `pc`, `fp` and `objs` are the fields of that name; `status` says what
  the last `VmStep` or load returned. A handler of the code is the action of the same
  name (`VmBcCall`, `VmBcRet`, `VmLd`, ...), and what a handler does before it fails
  stays done. The bytecode is not fixed: at each step the active function may hold any
  instruction of `Bytecode` that fits before its end, or a byte that is no opcode
  (`VmStepFails`). A behaviour is thus a run of some program, also of one that modifies
  itself, and an invariant holds for every program. Words are four digits in base
  `ByteBase`, which is 256 in the code and 16 or 2 in the runs; the proofs are for any.
  An object of length 0 makes `VmGetFunctionHeader` read an uninitialized view: its
  result is any choice of `JunkBytes`.
* `TinyVMFrames`: `frames` is a history variable, one record for each pending call.
* `MemView`: `bytes` is `data` and `len` of the one buffer; `views` are the fields of each
  `MemView`; `held` is the offset of a pointer that a caller got from `BufferGetBytes`,
  as long as the standard allows its use. `realloc` may move the block or not. Whatever
  a moved pointer reads is any bytes.
* `AsmLexer`: `lookahead` and `line` are the fields of `AsmLexer`, `text` is the buffer of
  the token, `state` is the scanning function and the loop of it that runs. One step
  fetches one character (`AsmLexerNextChar`) and does what the code does with it. `input` is
  what the read callback has returned so far: the environment chooses the file as it is
  read. A character stands for its class. Scanning stops at the first error, as `AsmParse`
  does.
* `Assembler`: `objects` and `code` are the lists of the `Assembler` structure and the
  buffer of the open declaration; `phase` is where `main` is; `errors` is the count as
  `main` sees it at the end of each phase. `source` and `fault` are ghosts: what has been
  read, and whether memory or output failed. One *item* stands for a line of a body, and
  one kind of item for all instructions with the same operand format. `file` is the sequence
  of the chunks of bytes that the write callback has accepted.
* `UnitLoader`: a function of the bytes of a file, with the offsets of `VmLoadByteCode`. It says
  which objects are created if none fails; `TinyVM` has the other half of the loader, with the
  bytes abstracted to flags: what a load that fails anywhere leaves in the machine, and the
  call of the entry function.
* `BigInt`: an operator with the name of a library function maps the heap to the result
  and the heap after the call; `left` is the number of allocations that still succeed.
  The C code takes branches on allocation results only, so this enumerates every
  failure of every call.
* `SubmissionUsers`: `rows` are the committed rows of the tables `Users`, `UserRoles`,
  `Students` and `Admins`; `written[q]` is what the open transaction of request `q` has
  inserted and deleted; `nextId` is the `AUTO_INCREMENT` of `Users`; `free` counts the
  connections left in the pool; `req[q].at` is the statement that `q` executes next, with
  the local variables beside it. One action is one SQL statement, commit, or exception. A
  request gets its connection with its first statement and returns it in `Commit`,
  `AutoCommit` (the `finally` block) or `ConnectionLost`. The database is external and taken
  as InnoDB: READ COMMITTED, row locks of deleted rows, foreign keys checked by each
  statement, a failed statement undone alone, `setAutoCommit(true)` commits. `known` and
  `faults` are ghosts.
* `CompilerRun`: `request` is where `StudentController.upload` is, and whether it is in the
  wait set of a reader; `dir` is the temporary directory, `compiler` the process, `pipe` the
  lines between it and each `InputStreamLogger` in `reader`, and `log` the array of
  `JsonLogger`. A line is its stream and its number. `broken` and `faults` are ghosts.
* `CertificateChains`: `chainz`, `current`, `skip` and `chains` are the local variables of
  `getChains` (`current_chain`, `skip_fork`); `store` is the adjacency list it builds, an
  arbitrary one. One action is a block of the loop. Signatures are symbolic: a certificate
  carries the key that signed it.

## 3. What is checked

Every property has at least one mutant of the code that violates it (`mutants` in
`PROJECT.json`). `CHECK_DEADLOCK FALSE` stands where the program ends (the machine has
terminated, the unit is written, every request is answered) and not in `bigint` and
`memview`, where there is always another call.

**Fairness.** The programs of c1 and c2 are driven by their callers, and their modules, the
lexer apart, state no fairness: their properties are safety properties. The others:

* `AsmLexer`, `CertificateChains`: weak fairness of the one thread. Nothing in either loop
  waits; for the lexer it includes that the read callback returns.
* `SubmissionUsers`: weak fairness of `Proceed(q)` for each request `q`: a servlet thread of
  its own that the container runs. Neither the arrival of a request nor any fault is fair. A
  wait for a connection or a lock is a disabled `Proceed(q)`, and only weak fairness is
  assumed: that a waiting request is served follows since the others end, and not from a
  queue of the pool or the database.
* `CompilerRun`: weak fairness of the request thread, of the compiler and of each reader, one
  by one, as the operating system and the JVM schedule processes and threads. A reader
  need not die, nobody need be interrupted or wake up for nothing. The compiler may decide
  to exit at any time and must after `MaxLines` lines: that compilers end is an assumption.

### Runs that pass

The numbers of distinct states are those of the committed configurations.

* **vm** (`MCTinyVM`, 114,984 states). Five themes, each a set of units and instructions: calls on
  a stack of seven slots, stack manipulation with branches, loads and stores on objects
  of every protection and both byte orders, machine calls with two dynamic handles, and
  loads with every defect. A behaviour keeps to one theme; the product of all would not
  fit. Seven slots hold two nested frames and overflow at every push of `VmSetupCall`.
  Shows: `TypeOK`; `ObjectsPermanent`; `FailedStepKeepsObjects` (a store is whole or
  nothing, an allocation never leaves an object without its handle);
  `FailedStepKeepsFrame`; `LoadedAsWritten` (what runs is exactly one whole unit).
* **frames** (`MCTinyVMFrames`, 139,967 states). Programs that keep the convention, with nested
  and recursive calls on a stack of 14: three nested frames with arguments, locals and
  several results. Shows: `FrameChain` (the saved registers of all pending calls are
  where `RET` will look), `CallersUntouched`, `ReturnDelivers`, and `CallsAreSeparate`:
  the machine implements `Activations`.
* **arith** (`VmArith`, 12,288 states). Every handler on every pair of 4-bit words: what
  the handlers do with signs and shifts does not depend on the width, and shift
  distances go up to 15, beyond it. `InstructionsExact` compares each handler with its
  definition by integers and bits, also for shifts by the width and more; SCMPGT apart, which the
  code dispatches to the unsigned comparison (section 5).
* **memview** (`MCMemView`, 32,521 states). One buffer of up to four bytes, two views, `size_t`
  modulo 8, so that sums wrap within reach; a word needs four bytes. `AccessesInside`,
  `StoredIsRead` (through every overlapping view, in either order, and nothing else
  changes), `InnerSliceAppended`. The views are symmetric: no definition tells them apart.
* **lexer** (`MCAsmLexer`, 1,072,479 states). Every text of up to five characters over thirteen
  classes, with a read error or one failing allocation anywhere. Five characters suffice for the
  longest thing that matters, a signed hexadecimal number and its delimiter (`-0xa(`), or a
  token, a comment and the line feed behind it. `ScannedAsDefined`: the tokens and their
  texts are those of the longest lexemes of the text, with the lines that the code gives them, and only texts that are
  not made of lexemes are refused, none of them for a character that was lost or taken twice.
  `ScanEnds`: each scan ends, also within a token or comment at the end of the file.
* **assembler** (`MCAssembler`, 472,878 states). All sources of weight up to 4 (declarations,
  their options and items) with up to three items in all, in either byte order, with
  failures of memory and output anywhere. Limits are small (one local, two arguments, one
  result, jumps of -4 to 3, two code handles, one data handle) so that each is exceeded.
  `OutputMeansSource`: the accepted program, read the way the machine reads it, is what
  the source says. `VerdictIsRight`: exactly the programs without any of the faults that the
  parser and the linker look for are accepted, unless memory or output fails. The grammar speaks of two
  more that nothing looks for: `NamesDistinct` and `DeclaredBeforeUse`, section 5. `HandlesAssigned`.
  `UnitIsLoaded`: from what `tinyasm` reports as written
  the loader takes the same entry and objects, in either byte order, unless an
  object is empty or a handle is given twice; and a file that was cut off at any byte is refused. The
  call of the entry at the end of a load is in `TinyVM`, not here.
* **bigint** (`MCBigInt`, 12,470 states). Sequences of calls on two variables in every aliasing,
  numbers of up to two words of two bits (a carry across words, and a word of all ones,
  exist already there), allocations failing after 0, 2, 3, 5, 6 or 8: those after which
  the outcome differs. A number that lost its words to a failed `realloc` is an operand like any
  other, and the -2 that `MpCompare` then returns goes into signs, which are followed up to
  `MaxSign` = 2. `FailuresAreClean` (nothing leaks and no operand changes; the target is kept or
  lost as a whole), `AliasesHarmless`, `ArithmeticExact` (with the preconditions under which the code
  is exact), `SavedThenLoaded`.
* **users** (`SubmissionUsers`, 61,516 states). Three overlapping requests, each a sign-in with
  one of two names or a deletion of any user, at two connections, so that one waits; one
  failing statement, query or connection anywhere. Two requests make every race of this
  code; the third lets a deletion meet what two sign-ins left. `TypeOK` (the pool neither
  loses nor doubles a connection), `DuplicatesOverlapped` (a name twice only if the sign-ins
  overlapped), `OnlyFailuresLeaveHalves`, `DeletedIsGone`; `RegistrySpec`: the tables
  implement `Registry`, one person changing at a time; `RequestsEnd`.
* **upload** (`CompilerRun`, 106,850 states). A zip file of up to two entries, five lines in any
  split over the two streams, pipes of one line (so that the compiler blocks on each), one
  failing read or interrupt. `TypeOK` (no pipe is overfull, and the compiler runs for a request that
  has started it only), `ReportIsComplete` (no line lost, doubled, out of order or behind
  the end; the process and both readers have ended), `UploadEnds` (no wait is for ever, by a
  full pipe or a missed notification, unless a read failed: then nobody empties the pipe, and the
  compiler may wait for room and the request for the compiler).
* **chains** (`MCCertificateChains`, 269,208 states). All stores of up to four certificates of
  three names with two keys each: cycles of two and three, cross certificates, two
  certificates of one name, wrong signatures, roots and self-issued certificates that are none.
  `ChainsSound` (the chain of the leaf alone need not end at a root, section 5), `ChainsComplete`
  (every simple path from the leaf to a root is found),
  `Terminates`.

### Runs that show a disagreement

Each checks one sentence of the documentation that the code does not keep; TLC finds a
counterexample. `findings` in `PROJECT.json` quotes the lines.

* **bigint_AddIsSum**: a carry into a word of all ones is lost.
* **users_CreatedWhole**: a failed second or third insert of a sign-in leaves a user without
  facet or role, since `finally` commits what was inserted before it.

Section 5 has more sentences of the documentation that are stated as properties and do not hold.

## 4. What is proved

The proofs hold for all values of the constants that satisfy the named assumptions of the
modules. TLC checked every invariant below on the instances of section 3 before it was proved.

`TinyVM_proofs`, under `TinyVMAssumption`, `ByteBaseAssumption` and the assumptions on handles, thus
for 32-bit words and the real stack:

* `TypeCorrect`: `Spec => []TypeOK`. `TypeOK` is inductive as it stands, since it bounds the
  stack by `MaxStack`, keeps the active function in the domain of `objs` and every register
  in a word. The proof has a lemma for each group of handlers, and under it one step for
  each way in which the handler can end. The two facts that are not routine are that
  `MemWord` of any four bytes is a word (`MemWordType`), and that the results copied down by
  `RET` are words even where source and destination overlap (`CopyResultsType`), which needs
  an argument about the whole copied sequence and not one element.
* `FailuresKeepFrame`: `FailedStepKeepsFrame`. Only calls and returns change the frame; the
  lemma `FailedCall` says that a failing one does not, and `FailedExecute` goes through the
  others.
* `ObjectsArePermanent`: `ObjectsPermanent`, through the relation `Kept(objs, objs')` that every
  step satisfies; it needs `TypeOK` to know that a store hits an existing object.
* `FailuresKeepObjects`: `FailedStepKeepsObjects`. Of the instructions only stores and allocations
  change `objs`, and each does so after its last check.
* `RunsWhatWasWritten`: `LoadedAsWritten`. The invariant beside `TypeOK` is `NothingLoaded`: a machine
  that has not loaded anything has no object, so that the objects of a machine that starts to run
  are those of the one unit.

In the second part of the same module, with `FramesAssumption`, which nothing above cites:

* `FramesCorrect`: `FSpec => []FInv`, where `FInv` is `TypeOK` with `FramesOK`: every pending call is
  `Seated` (its arguments lie on the operands of its caller, which are those of the call, and the saved
  registers on the arguments), and the frames are `Ordered` (each ends below the operands of the
  next, and the frame pointers link them).
* `FrameChainHolds` (`FrameChain`) and `CallersAreUntouched` (`CallersUntouched`) follow; they are not
  inductive, since they do not say that the frames lie apart.
* `ReturnsDeliver`: `ReturnDelivers`, with the argument about the overlapping copy of `CopyResultsType`
  carried to the whole stack.
* `OneStackIsEnough`: `FSpec => CallsAreSeparate`, the refinement of `Activations`: every step is a call, a
  return or a step of the current activation there, or none.

`FramesAssumption` says that `MaxStack` and the lengths of the objects of a unit fit in a word. It is true
of the code (32-bit stack limits and object lengths); without it the theorems are false, since a
frame pointer is cut to a word.

`MemView_proofs`, for all sets of views, values, limits, and every `SIZE_MAX` above 3:

* `TypeCorrect`: `Spec => []TypeOK`, again inductive as it stands; `held` is the interesting part.
* `AccessesAreInside`: `Spec => []AccessesInside`. It follows from `TypeOK` and the lemma `NoWrap`:
  `a <= (a + b) mod S` with `a, b < S` holds only if the sum did not wrap. This is why the
  bounds checks of `MemGetByte` and `BufferGetBytes` are right although they check neither sum
  directly, and why no relation between a view and its buffer has to be invariant.
* `StoresAreRead`: `StoredIsRead`. The bytes of a value and what `Joined` makes of them are treated for
  one, two and four bytes in either order; it is here that `MemViewAssumption` must say that the
  values are those of a `uint32_t`.
* `InnerSlicesAreAppended`: `InnerSliceAppended`, wherever `realloc` puts the block.

`AsmLexer_proofs`, for any alphabet and keywords, texts of any length, and a stream or an allocation
that fails anywhere:

* `TypeCorrect`: `Spec => []TypeOK`. `TInv` adds that the tokens and the buffer hold characters, and that
  the line is at most one more than the characters read.
* `ScannedExactly`: `Spec => []ScannedAsDefined`. The definition cuts a whole text into longest lexemes; the
  scanner sees one character at a time and never goes back more than one. `IInv` names the place `p` at which
  the settled part of the input ends (`At`), and says of *every* text the input may still become that its
  tokens are those returned so far, followed by those of the text from `p` on (`Sofar`): nothing that follows
  can change a token that was returned. `Scanned` says what has been read behind `p`, for each state of
  the scanning functions. Three facts carry the proof: no lexeme is longer than what was read where the
  scanner sees a token end (`NoLonger`), the token it returns is the one of that lexeme (`Complete`), and
  where it refuses, the longest lexeme is illegal or there is none (`Incomplete`; for `0x` without digits
  the longest lexeme is the zero, which the `x` does not delimit: `ZeroBeforeX`). That a text has a cut at
  all is shown from its end (`CutIs`). `KeywordAssumption`, which the table of keywords satisfies, says
  that a keyword begins with a letter or a dot: otherwise one text could be a number and a keyword.

`Assembler_proofs`, for any names and items of sources of any length, any limits and handle
ranges that the assumptions of the module allow (those of `bytecodes.h` among them), and failures
anywhere:

* `TypeCorrect`: `Spec => []TypeOK`, which is that no relocation ever leaves the bytes of its buffer.
  The inductive invariant `AInv` says it of the buffer being built and of every object (`Sound`, with
  `Within` for the relocations), and that names, kinds, handles and the declarations read are what they
  should be. Each operation on a buffer has a lemma that keeps `Sound`: appending moves no relocation,
  a header moves all of them by its length (`AsmCodeAddMetadata`), a merge those of the second
  buffer by the length of the first, and applying one keeps the length. Indices of variables stay
  bytes since `MaxLocals + MaxArgs <= 256`.
* `LinkerAssignsHandles`: `Spec => []HandlesAssigned`. `AInv` carries `Corresponds`: while the parser
  runs, object `i` has the kind and the handle of declaration `i`; the declaration being parsed has
  no object yet. The first pass of the linker is a loop, whose invariant `Assigned` says of the objects up
  to the cursor that each has kept its handle or got one that no object had; that an object
  reached later cannot take it again is because `AsmFindFreeHandle` looks at all objects as they are by
  then, whatever the cursor of the range is.
* `AssemblerVerdict`: `Spec => []VerdictIsRight`: exactly the programs are accepted that have none of the
  faults the code looks for, unless memory or output fails. `VInv` adds to `AInv` what is known while
  the source is read: the declarations before the open one pass the checks of the parser, their names differ, and their buffers are `Finished`, that is, the relocations
  are those of the references in the text, at the places the text gives them (`Records`, with
  `Position` counting the bytes of the items and `Translates` the state in the middle of a text), and
  the variables have the names of the text. So a reduction reports an error exactly when the item makes the text
  fail them (`RejectedWhenDeclared`), and a relocation resolves exactly when its reference has a
  definition in reach (`AllResolveLinkable`). For the first pass of the linker `Counts` says that the free handles and
  the objects served add up, since no free handle lies behind the cursor of its range (`Ahead`): the pass fails exactly
  when a range has fewer free handles than objects that need one. And the writer meets no empty
  chunk (`UnitWritable`), so that only a failing output stops it. `SourceAssumption` says that
  labels and declared variables have names, as the grammar has it.
* `OutputIsRight`: `Spec => []OutputMeansSource`. `MInv` adds to `VInv` what the bytes are. `Spells`, while a
  text is read, and `Complete`, when its declaration is closed, say that each item has the bytes that its operands encode
  to at its `Position`, and that each variable has the slot that the text gives it; that a merge, a
  header in front and further items leave them alone is `SpellsStep` and `FunctionComplete`. Linking is one more loop: the bytes
  that relocations cover are `Exclusive`, so that each is written once, with the byte of the value
  that its reference stands for (`LinkObjectBytes`), and all others stay (`LinkedDeclaration`). Handles are given
  before, and that they do not change after is why `LinkedAlike` may take them from the objects as
  they end up. Reading a value back gives what was encoded, in either byte order and with its sign
  (`DigitsOfValue`, `ValueRead`, `SignedBack`), provided that it fits: `SourceAssumption` says that of the
  values in the source, which the grammar refuses otherwise or casts, the checks of the linker of jumps, and
  `HandlesAssigned` of handles.
* `UnitsLoad`: `Spec => [](Sized => UnitIsLoaded)`. `FInv` adds to `MInv` that objects keep their kinds and
  that the file is nothing, the unit or the front of it (`Output`). `UnitLayout` says where in the bytes of a unit,
  or of as much of it as there is, the prologue, each header, each content and the epilogue lie. `FromBegin` goes
  through the objects from the last to the first, as the recursion of the loader does: from where an object begins
  it gets that object and all later ones, if the end tag is there and no two have one handle, and nothing
  otherwise. A file that was cut off has the same layout and no end tag (`CutCarries`). `Sized` leaves aside
  contents of 4 gigabytes and more, whose length the header has no room for: `ASM_INIT_WORD` keeps its
  last 32 bits (`asm_object.c:162`), and nothing in the assembler refuses such an object.

`BigInt_proofs`, for any word base and width, any variables, data and failing allocations:

* `TypeCorrect`, `FailuresClean` and `AliasesAreHarmless`: `Spec => []P` for `TypeOK`,
  `FailuresAreClean` and `AliasesHarmless`. The inductive invariant `BInv` is small: each structure is a
  `BigInteger` (whose words are words, as many as its wordcount says, if it has any, and whose sign is
  an integer, of which `SgnIsSign` shows that it need not be a sign), and only variables of the program
  are allocated between calls. Nothing is asked of the operands of a call: they may have lost their
  words. Of those that have not, `ProperStaysProper` says that the result has a sign of the enum. The work is in what a call does. `Outcome` is
  the contract of them all: the temporaries are gone, nothing but the target has changed, and the
  target is a *function of the operands alone* if the call succeeded (`SumOf`, `DifferenceOf`,
  `ProductOf`, `Negated`, `Absolute`), and else what it was or without words. There is a lemma for
  each function, from `AllocatedDoes` and `ResizedDoes` up to `AddDoes`, `SubDoes` and `MulDoes`, with
  how many allocations each needs. Failures and aliases are consequences: the latter compares the
  contract on the machine with the one on a machine with a spare structure.
* That the word loops compute words, of the lengths that the code allocates, is proved from the
  least index at which they would not (`CountingUp`, `LoopExists`, `LoopType`), since the prover cannot
  apply an induction rule. For this the loops of `MpArith` are recursive functions over `0 .. n`, and
  so is `Power`: the prover does not know `^`.
* `ArithmeticIsExact`: `Spec => []ArithmeticExact`. `Mag(x, k)` is what the first `k` words of `x`
  denote, and each loop keeps an equation between it on the operands and on the result: with
  `MpAdd` the sums agree up to the carry times `Weight(k)`, with `MpSub` up to the borrow, with
  `MulRow` up to a carry word, with `MpMul` row by row up to the product's upper half
  (`AddExact`, `SubExact`, `RowExact`, `MulExact`; a double word never overflows). `MpCompare` is right because
  the highest words that differ outweigh all below them, and truncation because it drops zeros.
  From there `SumOf`, `DifferenceOf` and `ProductOf` denote the integers they are named for, on every
  pair of signs, and `PlentyGives` says that the calls compute them when no allocation fails.
* `SavedNumbersLoad`: `Spec => []SavedThenLoaded`. The byte that `ByteAt` takes out of its word is the
  byte of the same weight of the whole magnitude (`ByteOfMagnitude`), so that the saved bytes denote
  its remainder (`DigitsOf`); whole words made of bytes denote what the bytes do (`GroupedDigits`),
  and what `UsedLength` leaves out are zeros.

`CertificateChains_proofs`, for every store over any sets of names and keys, also infinite ones:

* `Soundness`: `Spec => []ChainsSound`, and `TypeCorrect`. Chains begin with the leaf, are linked by
  signatures and repeat no name, and those of more than one certificate end at a root; of the
  leaf alone the theorem does not say so, because it is not true. Neither is inductive: a chain on the stack
  has been checked up to its last certificate but one. `IInv` says of each place of the loop
  which part of the current chain has been checked: `Linked` (all of it) when a fork is
  about to be made, `Extended` (all but the last link, which may be the mark behind a root)
  when a check follows, and for every chain that waits. The loop detection then gives
  `Simple`, and the exchange of the first certificate is why the first link is excepted from `Named`.
* `Completeness`: `Spec => []ChainsComplete`. The invariant `CInv` says that each path to a root has been
  found or is `Pending`: one of the chains that wait, or the current one, is a beginning of it that
  a later block will prolong. A fork hands the path on to the chain that it pushes.

`CompilerRun_proofs`, for pipes of any size and any number of lines, entries and faults:

* `Completeness`: `Spec => []ReportIsComplete`, and `TypeCorrect`. `IInv` adds to `TypeOK`:
  `PipesHoldRest` (each pipe holds, in order, exactly the lines that its reader has not taken),
  `ReportHoldsLogged` (the report holds exactly the lines the readers passed on),
  `RequestFollows` (where the request is tells which parties have ended) and `ClosedIsEnd`. A
  finished reader whose stream is not broken has an empty pipe and an exited compiler, so
  that what it passed on is all that was written.

`SubmissionUsers_proofs`, for any finite set of requests, any names, connections and faults:

* `Duplicates`: `Spec => []DuplicatesOverlapped`; `DeletedStaysGone`: `Spec => []DeletedIsGone`; and
  `TypeCorrect`, which counts the connections of the pool with cardinalities. `IInv` adds: `Stages`
  (what a request holds at each statement), `FreshIds` (ids are given once), `Secret` (a user
  that is not committed is known to its sign-in only, so that no deletion meets half of
  it), `NamesKept` (no user has a name that its sign-in had found), and
  `References`: the foreign keys hold in the database *and in the view of each open
  transaction*. The last is what makes a commit keep them, and with `Deletions` it says that a
  deletion that comes to its commit has removed all rows, and that none can come back: a row of a
  child table needs its user, and an id is never given again.
* `HalvesAreFailures`: `Spec => []OnlyFailuresLeaveHalves`. `HInv` adds to `IInv`, for each sign-in and each
  deletion and each statement of theirs, which rows of its user there are, and that whoever leaves
  some of them without the others has met a failure.
* `UsersAreARegistry`: `Spec => RegistrySpec`. Only a commit changes the committed rows; what it
  changes is one user of the registry, by `Secret` and the views of `HInv`.

Only model-checked: the arithmetic of the machine (`InstructionsExact`, whose shifts and masks are
`Bitwise` operators that the prover cannot use). Out of the prover's reach: the liveness properties
(`ScanEnds`, `RequestsEnd`, `UploadEnds`, `Terminates`).

## 5. Where code and documentation disagree, beyond the runs

All of them are modelled as the code has it. For some, a property states what the documentation
says, and a configuration beside those of the runs lets TLC find a counterexample in a few seconds. They
are not among the runs of `PROJECT.json`.

| Configuration | The documentation | The code |
| --- | --- | --- |
| `VmArith_SignedGreater` | `SCMPGT` interprets its operands as signed (`bytecodes.h:718`) | it is dispatched to the unsigned comparison (`vm_bytecodes.c:42`) |
| `MCBigInt_SubIsDifference` | z = a - b (`tinybn.h:386`) | 0 - b is b (`bigint_addsub.c:93`); a lost borrow violates it as well |
| `MCBigInt_SgnIsSign` | the sign is +1, -1 or 0 (`tinybn.h:475`) | a difference with a number that lost its words succeeds with the sign 2 or -2 (`bigint_addsub.c:132`, `mp_cmp.c:13`) |
| `MCBigInt_LoadedIsData` | the number is positive, or zero if the magnitude is (`tinybn.h:271`) | a single byte is loaded as zero (`bigint_io.c:91`); the bytes of a partial word are taken from the wrong end (`bigint_io.c:112`) |
| `MCMemView_SliceAppended` | a slice of the buffer may be appended to it (`buffer.h:54`) | one from the first byte on is taken for foreign memory, and read where it was before `realloc` (`buffer.c:90`) |
| `MCAssembler_NamesDistinct` | arguments and locals of a function have different names (`grammar.y:244`) | arguments are not compared, neither with locals nor with each other (`asm_code.c:150`) |
| `MCAssembler_DeclaredBeforeUse` | variables are declared before they are used (`grammar.y:243`) | the linker resolves them, wherever the declaration is (`asm_linker.c:181`) |
| `MCAsmLexer_LocalsHaveNames` | `@` and one or more letters (`asm_lexer.c:346`) | `@` alone is a local name (`asm_lexer.c:369`) |
| `MCAsmLexer_TokensOnTheirLine` | the line of a token is its source line (`assembler.h:101`) | the last token of a line has the number of the next one (`asm_lexer.c:334`) |
| `MCCertificateChains_ChainsEndAtRoot` | the chains end at a root (`Certificates.java:236`) | a leaf that shares its name with a root of the store is returned alone (`Certificates.java:420`) |

The others were met while reading. The virtual machine:

* `POP n` pops one slot whatever n is (`vm_stack.c:117`; `bytecodes.h:542`).
* `RET` does not check the number of results (`vm_call.c:227`; `bytecodes.h:513`), and with more
  results than the frame has slots it copies over results it has not moved yet
  (`vm_call.c:265`). `TinyVMFrames!WellBehaved` therefore asks for a frame with enough slots.
* `STB` outside of an object logs an error and goes on (`vm_ldst.c:216`; `bytecodes.h:840`).
* `STW` to an object that is only CODE or only PROTECTED is refused (`vm_objects.c:92`;
  `bytecodes.h:806`).
* `VMC_ALLOC` succeeds for size 0 only (`vm_extra.c:137`; `bytecodes.h:1200`).
* A second load keeps stack and objects of the first (`vm_loader.c:117`; `tinyvm.h:165`). The main
  program loads once, so the model does too.

Buffers and views:

* Offsets are checked against the buffer, not the view (`memview.c:101`; `memview.h:242`). No view in
  the repository is smaller than its buffer.

The assembler:

* An object of length 0 is written by the assembler, but its content cannot be read by the loader;
  and two objects of the source may be given one handle, which the assembler accepts and the
  loader refuses.
* A number directly before a comment (`12//c`) is refused.
* When memory runs out within a token, it is returned with bytes missing (`asm_lexer.c:319`).

Big integers:

* `BigIntGetWordCount` may exceed the minimum after `BigIntSetAt` (`bigint_io.c:59`).

Certificates and the submission system:

* The issuer that the leaf states need not be the subject of the second certificate of a chain
  (`Certificates.java:420` looks at its signature only); `ChainsSound` excepts it.
* When `mktemp` fails and the directory named by the clock exists, `createTemporaryDirectory`
  returns null and `upload` goes on: an archive without entries is then compiled in the working
  directory of the server, and the `finally` block fails the request.
* A temporary directory with files in it is never deleted: `File.delete` wants it empty.

## 6. What is not modelled, and why

* **c2**: messages, usage texts and options; the allocation of list nodes in the assembler (a
  failure is one action, `OutOfMemory`, and what was to be added may be missing); object qualifiers
  in the assembler (copied from source to output); columns of tokens; spaces other than blank and
  line feed. `AsmLexer` and `Assembler` are not composed: the latter begins with tokens, of which
  any sequence is the outcome of a scan. `Assembler` and `TinyVM` meet at the bytes of a unit
  (`UnitIsLoaded`), and not at the execution of an assembled program.
* **c1**: the two programs for KLEE, which no other component uses.
* **j**: the upload protocol is one exchange of four messages between two objects of one thread
  that keep nothing between calls; what could go wrong in it is cryptography, which a
  model checker does not reach. The same holds for `CryptoToolBox` and OCSP mini. The
  revocation exercise is built around black boxes that are not in the repository. Of
  `Certificates`, the checks of one chain (`checkUsage`), fingerprints and reading a directory are left out.
* **ws**: pages, routing and read-only queries; `UpdateAdminConfig` and `GetCompilerCommand`
  (`ExecFails` stands for whatever the command is); the comparison of passwords when logging in.

Assumptions of the models:

* `SubmissionUsers`: the database behaves as its comment says; passwords of different requests
  differ; nobody has two roles (none is ever given a second one); the administrator created by
  `db-init.sql` is user 1. `MaxId` of the run is one more than the number of requests, so that no
  sign-in lacks an id.
* `CompilerRun`: the end of a pipe is seen after all of its lines; files in the directory stand for
  any content; the compiler ends.
* `CertificateChains`: the leaf is a certificate of the store, as in all callers; two chains of the
  same certificates are one in `chains`. In the run a key belongs to one name.
* `AsmLexer`: at most one allocation fails. A keyword begins with a letter or a dot, as all of
  `asm_keywords.gperf` do.

Bounds are CONSTANTS of the modules (`MaxStack`, `MaxLen`, `MaxWords`, `MaxLength`, `MaxLines`,
`MaxFaults`, ...) or of the MC modules (`Budget`, `MaxItems`), and each has its meaning in the
comment beside it. `MaxWords` cuts off numbers that grow by multiplication,
`MaxSign` the signs that grow by factors of 2 when such numbers are subtracted again (that an `int`
overflows after thirty of them is not followed); the others are limits
of the code itself made small, or the size of the input.

## 7. The plan

What is left:

* *Composition*: the execution of assembled programs, `TinyVM` fetching from the bytes of a unit
  instead of any instruction; its properties would be those of `TinyVM` for fewer programs.
