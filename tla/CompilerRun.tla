------------------------------ MODULE CompilerRun ------------------------------
(***************************************************************************)
(* One upload of the submission system (ws/StudentController.upload): the  *)
(* zip file is unpacked into a temporary directory and the compiler is run *)
(* in it.  Four parties act concurrently: the request thread, the compiler *)
(* process that writes lines to two pipes, and one thread per pipe that    *)
(* reads them into the report (ws/Compiler, ws/JsonLogger).                *)
(***************************************************************************)
EXTENDS Naturals, Sequences

CONSTANTS MaxEntries,   \* bound: entries of the zip file
          MaxLines,     \* bound: lines that the compiler writes
          PipeSize,     \* lines that fit into a pipe and its reader's buffer
          MaxFaults     \* bound: failing reads and interrupts

ASSUME CompilerRunAssumption ==
  /\ MaxEntries \in Nat /\ MaxLines \in Nat /\ MaxFaults \in Nat
  /\ PipeSize \in Nat /\ PipeSize > 0

VARIABLES request,   \* where upload is, and whether it is in the wait set of a reader
          dir,       \* the temporary directory
          entries,   \* entries unpacked so far
          compiler,  \* the process: what it does, and the lines it has written
          pipe,      \* lines in each pipe
          reader,    \* the InputStreamLogger threads
          log,       \* the report of JsonLogger
          broken,    \* ghost: streams whose reader died of an exception
          faults     \* ghost: the faults so far

cvars == <<request, dir, entries, compiler, pipe, reader, log, broken, faults>>

-----------------------------------------------------------------------------
Streams == {"out", "err"}

Points == {"createDirectory", "doUnzip", "exec", "waitForProcess", "waitForOut",
           "waitForErr", "close", "answered", "failed"}

(* A message of the report: the n-th line of a stream, a remark on an entry *)
(* of the zip file, or the exit code that ends it.                         *)
Line(s, n) == [from |-> s, n |-> n]
Remark == Line("unzip", 0)
ExitCode == Line("exit", 0)
closed == \E i \in DOMAIN log : log[i] = ExitCode

At(point) == request.at = point
Goto(point) == request' = [at |-> point, asleep |-> FALSE]

(* The `finally` of upload: a directory with files in it is not deleted,   *)
(* and without a directory the call itself throws.                         *)
End(how) == /\ dir' = IF dir = "empty" THEN "deleted" ELSE dir
            /\ Goto(IF dir = "none" THEN "failed" ELSE how)

Fault == faults < MaxFaults /\ faults' = faults + 1

Init == /\ request = [at |-> "createDirectory", asleep |-> FALSE]
        /\ dir = "none"
        /\ entries = 0
        /\ compiler = [at |-> "none", to |-> "out", written |-> [s \in Streams |-> 0]]
        /\ pipe = [s \in Streams |-> <<>>]
        /\ reader = [s \in Streams |-> [at |-> "new", line |-> 0]]
        /\ log = <<>>
        /\ broken = {}
        /\ faults = 0

-----------------------------------------------------------------------------
(* The request thread, up to the start of the compiler                     *)

(* mktemp may fail, and then the directory named by the clock may exist:   *)
(* createTemporaryDirectory returns null and the upload goes on.           *)
CreateDirectory == /\ At("createDirectory")
                   /\ dir' \in {"empty", "none"}
                   /\ Goto("doUnzip")
                   /\ UNCHANGED <<entries, compiler, pipe, reader, log, broken, faults>>

(* One entry: a file or a directory (with one remark or two), or one that  *)
(* lies outside and is left out.                                           *)
UnzipEntry == /\ At("doUnzip") /\ entries < MaxEntries /\ dir # "none"
              /\ entries' = entries + 1
              /\ \/ dir' = "filled" /\ log' \in {Append(log, Remark), log \o <<Remark, Remark>>}
                 \/ dir' = dir /\ log' = Append(log, Remark)
              /\ UNCHANGED <<request, compiler, pipe, reader, broken, faults>>

(* The zip file or the entry cannot be read or written (a file of which a  *)
(* part is left behind, or none), and every entry if there is no directory. *)
UnzipFails == /\ At("doUnzip") /\ entries < MaxEntries
              /\ \/ End("failed")
                 \/ dir # "none" /\ dir' = "filled" /\ Goto("failed")
              /\ UNCHANGED <<entries, compiler, pipe, reader, log, broken, faults>>

Unzipped == /\ At("doUnzip")
            /\ Goto("exec")
            /\ UNCHANGED <<dir, entries, compiler, pipe, reader, log, broken, faults>>

Exec == /\ At("exec")
        /\ compiler' = [compiler EXCEPT !.at = "computing"]
        /\ reader' = [s \in Streams |-> [at |-> "reading", line |-> 0]]
        /\ Goto("waitForProcess")
        /\ UNCHANGED <<dir, entries, pipe, log, broken, faults>>

(* No command in the database, or no such program.                         *)
ExecFails == /\ At("exec")
             /\ End("failed")
             /\ UNCHANGED <<entries, compiler, pipe, reader, log, broken, faults>>

-----------------------------------------------------------------------------
(* The compiler process: once it has decided to write it does nothing else *)
(* until the line is in the pipe.                                          *)

Written == compiler.written["out"] + compiler.written["err"]

ComputesLine == /\ compiler.at = "computing" /\ Written < MaxLines
                /\ \E s \in Streams : compiler' = [compiler EXCEPT !.at = "writing", !.to = s]
                /\ UNCHANGED <<request, dir, entries, pipe, reader, log, broken, faults>>

WritesLine == LET s == compiler.to IN
  /\ compiler.at = "writing" /\ Len(pipe[s]) < PipeSize
  /\ compiler' = [compiler EXCEPT !.at = "computing", !.written[s] = @ + 1]
  /\ pipe' = [pipe EXCEPT ![s] = Append(@, compiler.written[s] + 1)]
  /\ UNCHANGED <<request, dir, entries, reader, log, broken, faults>>

Exits == /\ compiler.at = "computing"
         /\ compiler' = [compiler EXCEPT !.at = "exited"]
         /\ UNCHANGED <<request, dir, entries, pipe, reader, log, broken, faults>>

-----------------------------------------------------------------------------
(* InputStreamLogger.run, one thread per stream                            *)

ReadLine(s) == /\ reader[s].at = "reading" /\ pipe[s] # <<>>
               /\ reader' = [reader EXCEPT ![s] = [at |-> "logging", line |-> Head(pipe[s])]]
               /\ pipe' = [pipe EXCEPT ![s] = Tail(@)]
               /\ UNCHANGED <<request, dir, entries, compiler, log, broken, faults>>

(* JsonLogger.log drops what comes after close.                            *)
LogLine(s) == /\ reader[s].at = "logging"
              /\ log' = IF closed THEN log ELSE Append(log, Line(s, reader[s].line))
              /\ reader' = [reader EXCEPT ![s] = [at |-> "reading", line |-> 0]]
              /\ UNCHANGED <<request, dir, entries, compiler, pipe, broken, faults>>

WaitsFor(s) == At(IF s = "out" THEN "waitForOut" ELSE "waitForErr")

\* Wrong: nobody is notified.
FinishSilently(s) == /\ reader' = [reader EXCEPT ![s] = [at |-> "finished", line |-> 0]]
                     /\ UNCHANGED request

(* synchronized: finished = true; notifyAll().                             *)
Finish(s) == /\ reader' = [reader EXCEPT ![s] = [at |-> "finished", line |-> 0]]
             /\ request' = [request EXCEPT !.asleep = @ /\ ~WaitsFor(s)]

EndOfStream(s) == /\ reader[s].at = "reading" /\ pipe[s] = <<>> /\ compiler.at = "exited"
                  /\ Finish(s)
                  /\ UNCHANGED <<dir, entries, compiler, pipe, log, broken, faults>>

(* An IOException is swallowed, and nobody reads the stream any more.      *)
ReaderDies(s) == /\ reader[s].at = "reading"
                 /\ Fault
                 /\ Finish(s)
                 /\ broken' = broken \cup {s}
                 /\ UNCHANGED <<dir, entries, compiler, pipe, log>>

-----------------------------------------------------------------------------
(* The request thread, waiting for the others (Compiler.compile)           *)

WaitForProcess == /\ At("waitForProcess") /\ compiler.at = "exited"
                  /\ Goto("waitForOut")
                  /\ UNCHANGED <<dir, entries, compiler, pipe, reader, log, broken, faults>>

\* Wrong: the request waits for the reader of the output only.
WaitForOutput(s) ==
  /\ WaitsFor(s) /\ ~request.asleep
  /\ IF reader[s].at = "finished" \/ s = "err"
     THEN Goto(IF s = "out" THEN "waitForErr" ELSE "close")
     ELSE request' = [request EXCEPT !.asleep = TRUE]
  /\ UNCHANGED <<dir, entries, compiler, pipe, reader, log, broken, faults>>

(* InputStreamLogger.waitFor: in the monitor of the reader the thread sees *)
(* `finished`, or enters the wait set until it is notified, or for nothing. *)
WaitForReader(s) ==
  /\ WaitsFor(s) /\ ~request.asleep
  /\ IF reader[s].at = "finished"
     THEN Goto(IF s = "out" THEN "waitForErr" ELSE "close")
     ELSE request' = [request EXCEPT !.asleep = TRUE]
  /\ UNCHANGED <<dir, entries, compiler, pipe, reader, log, broken, faults>>

SpuriousWakeup == /\ request.asleep
                  /\ request' = [request EXCEPT !.asleep = FALSE]
                  /\ UNCHANGED <<dir, entries, compiler, pipe, reader, log, broken, faults>>

\* Wrong: the interrupted thread stays in the wait set.
InterruptAsleep == /\ request.at \in {"waitForProcess", "waitForOut", "waitForErr"}
                   /\ Fault
                   /\ request' = [request EXCEPT !.at = "failed"]
                   /\ UNCHANGED <<dir, entries, compiler, pipe, reader, log, broken>>

(* The container interrupts a request that waits; the process and its      *)
(* readers go on.                                                          *)
Interrupt == /\ request.at \in {"waitForProcess", "waitForOut", "waitForErr"}
             /\ Fault
             /\ End("failed")
             /\ UNCHANGED <<entries, compiler, pipe, reader, log, broken>>

(* exitValue() and the end of the report.                                  *)
Close == /\ At("close")
         /\ log' = Append(log, ExitCode)
         /\ End("answered")
         /\ UNCHANGED <<entries, compiler, pipe, reader, broken, faults>>

-----------------------------------------------------------------------------
RequestStep == \/ CreateDirectory \/ UnzipEntry \/ UnzipFails \/ Unzipped
               \/ Exec \/ ExecFails
               \/ WaitForProcess \/ Close \/ \E s \in Streams : WaitForReader(s)
ReaderStep(s) == ReadLine(s) \/ LogLine(s) \/ EndOfStream(s)
CompilerStep == ComputesLine \/ WritesLine \/ Exits

Next == \/ RequestStep \/ CompilerStep
        \/ \E s \in Streams : ReaderStep(s) \/ ReaderDies(s)
        \/ SpuriousWakeup \/ Interrupt

(* The scheduler runs every thread and every process that can go on.       *)
Fairness == /\ WF_cvars(RequestStep)
            /\ WF_cvars(CompilerStep)
            /\ \A s \in Streams : WF_cvars(ReaderStep(s))

Spec == Init /\ [][Next]_cvars /\ Fairness

-----------------------------------------------------------------------------
(* Properties                                                              *)

Messages == [from : {"unzip", "exit"}, n : {0}] \cup [from : Streams, n : Nat \ {0}]

Before == {"createDirectory", "doUnzip", "exec"}
Behind == {"waitForProcess", "waitForOut", "waitForErr", "close", "answered"}

(* Every variable has its type; no pipe is overfull; the compiler runs only *)
(* for a request that has come to it (and may have failed since), and a    *)
(* request waits, closes the report and answers only behind its start.     *)
TypeOK == /\ request \in [at : Points, asleep : BOOLEAN]
          /\ request.asleep => request.at \in {"waitForOut", "waitForErr"}
          /\ dir \in {"none", "empty", "filled", "deleted"}
          /\ entries \in 0 .. MaxEntries
          /\ compiler \in [at : {"none", "computing", "writing", "exited"}, to : Streams,
                           written : [Streams -> Nat]]
          /\ request.at \in Before => compiler.at = "none"
          /\ request.at \in Behind => compiler.at # "none"
          /\ Written <= MaxLines
          /\ pipe \in [Streams -> Seq(Nat \ {0})]
          /\ \A s \in Streams : Len(pipe[s]) <= PipeSize
          /\ reader \in [Streams -> [at : {"new", "reading", "logging", "finished"}, line : Nat]]
          /\ log \in Seq(Messages)
          /\ broken \subseteq Streams
          /\ faults \in 0 .. MaxFaults

(* Lines of a stream are in the report at most once and in their order.    *)
InOrder(s) == \A i, j \in DOMAIN log : i < j /\ log[i].from = s /\ log[j].from = s
                                         => log[i].n < log[j].n
AllLines(s) == \A n \in 1 .. compiler.written[s] : \E i \in DOMAIN log : log[i] = Line(s, n)

(* The report of an answered upload holds every line that the compiler     *)
(* wrote to a stream whose reader did not die, in order, then the exit     *)
(* code and nothing else; the compiler and both readers have ended.        *)
ReportIsComplete ==
  /\ \A s \in Streams : InOrder(s)
  /\ closed =>
       /\ log[Len(log)] = ExitCode
       /\ \A s \in Streams \ broken : AllLines(s)
       /\ compiler.at = "exited" /\ \A s \in Streams : reader[s].at = "finished"

(* An upload ends, if no reader dies: neither a full pipe nor a missed     *)
(* notification keeps the request, the compiler or a reader for ever.      *)
UploadEnds == At("createDirectory") ~> (request.at \in {"answered", "failed"} \/ broken # {})

=============================================================================
