--------------------------- MODULE CompilerRun_proofs ---------------------------
(***************************************************************************)
(* Proofs about CompilerRun, for any number of entries, lines and faults   *)
(* and for pipes of any size.                                              *)
(***************************************************************************)
EXTENDS CompilerRun, TLAPS

(* The lines that the reader of a stream has taken from its pipe, and those *)
(* of them that it has passed on to the report.                            *)
Taken(s) == compiler.written[s] - Len(pipe[s])
Logged(s) == IF reader[s].at = "logging" THEN Taken(s) - 1 ELSE Taken(s)

(* Each pipe holds the lines that are not taken yet, in order.             *)
PipesHoldRest ==
  \A s \in Streams :
    /\ Taken(s) \in Nat
    /\ \A i \in 1 .. Len(pipe[s]) : pipe[s][i] = Taken(s) + i
    /\ reader[s].at = "logging" => Taken(s) > 0 /\ reader[s].line = Taken(s)
    /\ reader[s].at = "finished" /\ s \notin broken =>
         pipe[s] = <<>> /\ compiler.at = "exited"

(* Where the request is tells how far the compiler and the readers are.    *)
RequestFollows ==
  /\ At("createDirectory") \/ At("doUnzip") \/ At("exec") =>
       \A s \in Streams : reader[s].at = "new"
  /\ At("waitForOut") \/ At("waitForErr") \/ At("close") => compiler.at = "exited"
  /\ At("waitForErr") \/ At("close") => reader["out"].at = "finished"
  /\ At("close") => reader["err"].at = "finished"
  /\ compiler.at = "writing" => Written < MaxLines

(* The report holds exactly the lines that were passed on.                 *)
HoldsLines(s) == \A n \in 1 .. Logged(s) : \E i \in DOMAIN log : log[i] = Line(s, n)
HoldsNoMore(s) == \A i \in DOMAIN log : log[i].from = s => log[i].n <= Logged(s)
ReportHoldsLogged == \A s \in Streams : InOrder(s) /\ HoldsLines(s) /\ HoldsNoMore(s)

ClosedIsEnd ==
  closed => /\ log[Len(log)] = ExitCode
            /\ request.at \in {"answered", "failed"}
            /\ compiler.at = "exited" /\ \A s \in Streams : reader[s].at = "finished"

IInv == TypeOK /\ PipesHoldRest /\ RequestFollows /\ ReportHoldsLogged /\ ClosedIsEnd

USE CompilerRunAssumption  \* what the bounds are

LEMMA InitIInv == Init => IInv

    BY
       DEF Init, IInv, TypeOK, Before, Behind, PipesHoldRest, RequestFollows, ReportHoldsLogged, ClosedIsEnd,
         Taken, Logged, InOrder, HoldsLines, HoldsNoMore, At, Points, Streams, Written, closed,
         Messages, Line, ExitCode

-----------------------------------------------------------------------------
(* Steps that leave a part of the state alone                              *)

\* Pipes and readers that are left alone still hold the rest.
LEMMA PipesUntouched ==
  ASSUME PipesHoldRest, UNCHANGED <<compiler.written, pipe, reader, broken>>,
         compiler.at = "exited" => compiler'.at = "exited"
  PROVE  PipesHoldRest'
  BY DEF PipesHoldRest, Taken

\* A report that is left alone while no line is passed on holds the same lines.
LEMMA ReportUntouched ==
  ASSUME ReportHoldsLogged, log' = log, \A s \in Streams : Logged(s)' = Logged(s)
  PROVE  ReportHoldsLogged'
<1>1. \A s \in Streams : InOrder(s)'  BY DEF ReportHoldsLogged, InOrder
<1>2. \A s \in Streams : HoldsLines(s)'  BY DEF ReportHoldsLogged, HoldsLines
<1>3. \A s \in Streams : HoldsNoMore(s)'  BY DEF ReportHoldsLogged, HoldsNoMore
<1> QED  BY <1>1, <1>2, <1>3 DEF ReportHoldsLogged

\* Nothing is passed on by a step that leaves pipes and readers alone.
LEMMA LoggedUntouched ==
  ASSUME UNCHANGED <<compiler.written, pipe, reader>>
  PROVE  \A s \in Streams : Logged(s)' = Logged(s)
  BY DEF Logged, Taken

\* Messages that are no lines of a stream do not change which lines are held.
LEMMA RemarksAppended ==
  ASSUME ReportHoldsLogged, log \in Seq(Messages), log' \in Seq(Messages), Len(log) <= Len(log'),
         \A i \in 1 .. Len(log) : log'[i] = log[i],
         \A i \in Len(log) + 1 .. Len(log') : log'[i].from \notin Streams,
         \A s \in Streams : Logged(s)' = Logged(s)
  PROVE  ReportHoldsLogged'
<1> SUFFICES ASSUME NEW s \in Streams PROVE (InOrder(s) /\ HoldsLines(s) /\ HoldsNoMore(s))'
  BY DEF ReportHoldsLogged
<1>1. /\ DOMAIN log' = 1 .. Len(log') /\ DOMAIN log = 1 .. Len(log)
      /\ Len(log) \in Nat /\ Len(log') \in Nat
  OBVIOUS
<1>2. InOrder(s) /\ HoldsLines(s) /\ HoldsNoMore(s) /\ Logged(s)' = Logged(s)
  BY DEF ReportHoldsLogged
<1>3. \A i \in DOMAIN log' : log'[i].from = s => i \in DOMAIN log  BY <1>1
<1>4. InOrder(s)'  BY <1>1, <1>2, <1>3 DEF InOrder
<1>5. HoldsLines(s)'  BY <1>1, <1>2 DEF HoldsLines
<1>6. HoldsNoMore(s)'  BY <1>1, <1>2, <1>3 DEF HoldsNoMore
<1> QED  BY <1>4, <1>5, <1>6

-----------------------------------------------------------------------------
(* The request thread                                                      *)

LEMMA RequestKeeps == ASSUME IInv, RequestStep PROVE IInv'
<1>1. CASE CreateDirectory
  <2>1. TypeOK'
    BY <1>1 DEF CreateDirectory, IInv, TypeOK, Before, Behind, At, Goto, Points, Streams, Written
  <2>2. PipesHoldRest'  BY <1>1, PipesUntouched DEF CreateDirectory, IInv
  <2>3. RequestFollows'
    BY <1>1 DEF CreateDirectory, IInv, RequestFollows, At, Goto, Streams, Written
  <2>4. ReportHoldsLogged'
    BY <1>1, LoggedUntouched, ReportUntouched DEF CreateDirectory, IInv
  <2>5. ClosedIsEnd'  BY <1>1 DEF CreateDirectory, IInv, ClosedIsEnd, closed, At, Goto
  <2> QED  BY <2>1, <2>2, <2>3, <2>4, <2>5 DEF IInv
<1>2. CASE UnzipEntry
  <2>1. log \in Seq(Messages) /\ Remark \in Messages /\ Remark.from \notin Streams /\ Remark # ExitCode
    BY DEF IInv, TypeOK, Before, Behind, Remark, ExitCode, Line, Messages, Streams
  <2>2. /\ log' \in Seq(Messages) /\ Len(log) <= Len(log')
        /\ \A i \in 1 .. Len(log) : log'[i] = log[i]
        /\ \A i \in Len(log) + 1 .. Len(log') : log'[i] = Remark
    <3>1. CASE log' = Append(log, Remark)  BY <2>1, <3>1
    <3>2. CASE log' = log \o <<Remark, Remark>>  BY <2>1, <3>2
    <3> QED  BY <1>2, <3>1, <3>2 DEF UnzipEntry
  <2>3. TypeOK'
    <3>1. /\ entries' \in 0 .. MaxEntries
          /\ dir' \in {"none", "empty", "filled", "deleted"}
      BY <1>2, CompilerRunAssumption DEF UnzipEntry, IInv, TypeOK
    <3>2. UNCHANGED <<request, compiler, pipe, reader, broken, faults>>
      BY <1>2 DEF UnzipEntry
    <3> QED  BY <2>2, <3>1, <3>2 DEF IInv, TypeOK, Before, Behind, Written
  <2>4. PipesHoldRest'  BY <1>2, PipesUntouched DEF UnzipEntry, IInv
  <2>5. RequestFollows'
    BY <1>2 DEF UnzipEntry, IInv, RequestFollows, At, Streams, Written
  <2>6. ReportHoldsLogged'
    <3>1. \A s \in Streams : Logged(s)' = Logged(s)
      BY <1>2, LoggedUntouched DEF UnzipEntry
    <3> QED  BY <2>1, <2>2, <3>1, RemarksAppended DEF IInv
  <2>7. ~closed'
    <3>1. ~closed  BY <1>2 DEF UnzipEntry, IInv, ClosedIsEnd, At
    <3> QED  BY <2>1, <2>2, <3>1 DEF closed
  <2> QED  BY <2>3, <2>4, <2>5, <2>6, <2>7 DEF IInv, ClosedIsEnd
<1>3. CASE UnzipFails
  <2>1. /\ request' = [at |-> "failed", asleep |-> FALSE]
        /\ dir' \in {"none", "empty", "filled", "deleted"}
        /\ UNCHANGED <<entries, compiler, pipe, reader, log, broken, faults>>
    <3>1. dir \in {"none", "empty", "filled", "deleted"}  BY DEF IInv, TypeOK
    <3>2. CASE End("failed")  BY <1>3, <3>1, <3>2 DEF UnzipFails, End, Goto
    <3>3. CASE dir' = "filled" /\ Goto("failed")  BY <1>3, <3>3 DEF UnzipFails, Goto
    <3> QED  BY <1>3, <3>2, <3>3 DEF UnzipFails
  <2>2. request'.at = "failed" /\ request'.asleep = FALSE /\ request' \in [at : Points, asleep : BOOLEAN]
    BY <2>1 DEF Points
  <2>3. TypeOK'  BY <2>1, <2>2 DEF IInv, TypeOK, Before, Behind, Written
  <2>4. PipesHoldRest'  BY <2>1, PipesUntouched DEF IInv
  <2>5. RequestFollows'  BY <2>1, <2>2 DEF IInv, RequestFollows, At, Written
  <2>6. ReportHoldsLogged'  BY <2>1, LoggedUntouched, ReportUntouched DEF IInv
  <2>7. ClosedIsEnd'  BY <2>1, <2>2 DEF IInv, ClosedIsEnd, closed
  <2> QED  BY <2>3, <2>4, <2>5, <2>6, <2>7 DEF IInv
<1>4. CASE Unzipped
  <2>1. TypeOK'  BY <1>4 DEF Unzipped, IInv, TypeOK, Before, Behind, At, Goto, Points, Streams, Written
  <2>2. PipesHoldRest'  BY <1>4, PipesUntouched DEF Unzipped, IInv
  <2>3. RequestFollows'
    BY <1>4 DEF Unzipped, IInv, RequestFollows, At, Goto, Streams, Written
  <2>4. ReportHoldsLogged'  BY <1>4, LoggedUntouched, ReportUntouched DEF Unzipped, IInv
  <2>5. ClosedIsEnd'  BY <1>4 DEF Unzipped, IInv, ClosedIsEnd, closed, At, Goto
  <2> QED  BY <2>1, <2>2, <2>3, <2>4, <2>5 DEF IInv
<1>5. CASE Exec
  <2>1. TypeOK'  BY <1>5 DEF Exec, IInv, TypeOK, Before, Behind, At, Goto, Points, Streams, Written
  <2>2. PipesHoldRest'  BY <1>5 DEF Exec, IInv, TypeOK, Before, Behind, PipesHoldRest, Taken
  <2>3. RequestFollows'
    BY <1>5 DEF Exec, IInv, RequestFollows, At, Goto, Streams, Written
  <2>4. \A s \in Streams : Logged(s)' = Logged(s)
    BY <1>5 DEF Exec, IInv, TypeOK, Before, Behind, RequestFollows, Logged, Taken
  <2>5. ReportHoldsLogged'  BY <1>5, <2>4, ReportUntouched DEF Exec, IInv
  <2>6. ClosedIsEnd'  BY <1>5 DEF Exec, IInv, ClosedIsEnd, closed, At
  <2> QED  BY <2>1, <2>2, <2>3, <2>5, <2>6 DEF IInv
<1>6. CASE ExecFails
  <2>1. TypeOK'
    BY <1>6 DEF ExecFails, IInv, TypeOK, Before, Behind, At, Goto, End, Points, Streams, Written
  <2>2. PipesHoldRest'  BY <1>6, PipesUntouched DEF ExecFails, IInv
  <2>3. RequestFollows'
    BY <1>6 DEF ExecFails, IInv, RequestFollows, At, Goto, End, Streams, Written
  <2>4. ReportHoldsLogged'
    BY <1>6, LoggedUntouched, ReportUntouched DEF ExecFails, IInv
  <2>5. ClosedIsEnd'  BY <1>6 DEF ExecFails, IInv, ClosedIsEnd, closed, At, Goto, End
  <2> QED  BY <2>1, <2>2, <2>3, <2>4, <2>5 DEF IInv
<1>7. CASE WaitForProcess
  <2>1. TypeOK'
    BY <1>7 DEF WaitForProcess, IInv, TypeOK, Before, Behind, At, Goto, Points, Streams, Written
  <2>2. PipesHoldRest'  BY <1>7, PipesUntouched DEF WaitForProcess, IInv
  <2>3. RequestFollows'
    BY <1>7 DEF WaitForProcess, IInv, RequestFollows, At, Goto, Streams, Written
  <2>4. ReportHoldsLogged'
    BY <1>7, LoggedUntouched, ReportUntouched DEF WaitForProcess, IInv
  <2>5. ClosedIsEnd'  BY <1>7 DEF WaitForProcess, IInv, ClosedIsEnd, closed, At, Goto
  <2> QED  BY <2>1, <2>2, <2>3, <2>4, <2>5 DEF IInv
<1>8. CASE Close
  <2>1. log \in Seq(Messages) /\ ExitCode \in Messages /\ ExitCode.from \notin Streams
    BY DEF IInv, TypeOK, Before, Behind, ExitCode, Line, Messages, Streams
  <2>2. /\ log' \in Seq(Messages) /\ Len(log') = Len(log) + 1 /\ log'[Len(log')] = ExitCode
        /\ \A i \in 1 .. Len(log) : log'[i] = log[i]
    BY <1>8, <2>1 DEF Close
  <2>3. TypeOK'
    BY <1>8, <2>2 DEF Close, IInv, TypeOK, Before, Behind, At, Goto, End, Points, Streams, Written
  <2>4. PipesHoldRest'  BY <1>8, PipesUntouched DEF Close, IInv
  <2>5. RequestFollows'
    BY <1>8 DEF Close, IInv, RequestFollows, At, Goto, End, Streams, Written
  <2>6. ReportHoldsLogged'
    <3>1. \A s \in Streams : Logged(s)' = Logged(s)  BY <1>8, LoggedUntouched DEF Close
    <3> QED  BY <2>1, <2>2, <3>1, RemarksAppended DEF IInv
  <2>7. ClosedIsEnd'
    BY <1>8, <2>2 DEF Close, IInv, ClosedIsEnd, RequestFollows, At, Goto, End, Streams
  <2> QED  BY <2>3, <2>4, <2>5, <2>6, <2>7 DEF IInv
<1>9. ASSUME NEW s \in Streams, WaitForReader(s) PROVE IInv'
  <2>1. /\ request.at = IF s = "out" THEN "waitForOut" ELSE "waitForErr"
        /\ \/ /\ request'.at = IF s = "out" THEN "waitForErr" ELSE "close"
              /\ request'.asleep = FALSE /\ reader[s].at = "finished"
           \/ request'.at = request.at /\ request'.asleep = TRUE
        /\ request' \in [at : Points, asleep : BOOLEAN]
        /\ UNCHANGED <<dir, entries, compiler, pipe, reader, log, broken, faults>>
    <3>1. request \in [at : Points, asleep : BOOLEAN]  BY DEF IInv, TypeOK
    <3>2. CASE reader[s].at = "finished"
      <4>1. request' = [at |-> IF s = "out" THEN "waitForErr" ELSE "close", asleep |-> FALSE]
        BY <1>9, <3>2 DEF WaitForReader, Goto
      <4> QED  BY <1>9, <3>2, <4>1 DEF WaitForReader, WaitsFor, At, Points
    <3>3. CASE reader[s].at # "finished"
      BY <1>9, <3>1, <3>3 DEF WaitForReader, WaitsFor, At
    <3> QED  BY <3>2, <3>3
  <2>2. s \in {"out", "err"}  BY DEF Streams
  <2>3. TypeOK'  BY <2>1, <2>2 DEF IInv, TypeOK, Before, Behind, Written
  <2>4. PipesHoldRest'  BY <2>1, PipesUntouched DEF IInv
  <2>5. RequestFollows'
    <3>1. CASE s = "out"  BY <2>1, <3>1 DEF IInv, RequestFollows, At, Written
    <3>2. CASE s = "err"  BY <2>1, <3>2 DEF IInv, RequestFollows, At, Written
    <3> QED  BY <2>2, <3>1, <3>2
  <2>6. ReportHoldsLogged'  BY <2>1, LoggedUntouched, ReportUntouched DEF IInv
  <2>7. ClosedIsEnd'  BY <2>1, <2>2 DEF IInv, ClosedIsEnd, closed
  <2> QED  BY <2>3, <2>4, <2>5, <2>6, <2>7 DEF IInv
<1> QED  BY <1>1, <1>2, <1>3, <1>4, <1>5, <1>6, <1>7, <1>8, <1>9 DEF RequestStep

-----------------------------------------------------------------------------
(* The compiler                                                            *)

LEMMA CompilerKeeps == ASSUME IInv, CompilerStep PROVE IInv'
<1>1. CASE ComputesLine
  <2>1. TypeOK'  BY <1>1 DEF ComputesLine, IInv, TypeOK, Before, Behind, At, Points, Streams, Written
  <2>2. PipesHoldRest'  BY <1>1, PipesUntouched DEF ComputesLine, IInv
  <2>3. RequestFollows'
    BY <1>1 DEF ComputesLine, IInv, RequestFollows, At, Streams, Written
  <2>4. ReportHoldsLogged'
    BY <1>1, LoggedUntouched, ReportUntouched DEF ComputesLine, IInv
  <2>5. ClosedIsEnd'  BY <1>1 DEF ComputesLine, IInv, ClosedIsEnd, closed, At
  <2> QED  BY <2>1, <2>2, <2>3, <2>4, <2>5 DEF IInv
<1>2. CASE WritesLine
  <2> DEFINE t == compiler.to
  <2> DEFINE q == pipe[t]
  <2>1. /\ t \in Streams /\ q \in Seq(Nat \ {0}) /\ Len(q) \in Nat /\ Len(q) < PipeSize
        /\ compiler.written \in [Streams -> Nat]
        /\ compiler' = [compiler EXCEPT !.at = "computing", !.written[t] = @ + 1]
        /\ pipe' = [pipe EXCEPT ![t] = Append(q, compiler.written[t] + 1)]
        /\ compiler.at = "writing" /\ Written < MaxLines
    BY <1>2 DEF WritesLine, IInv, TypeOK, Before, Behind, RequestFollows
  <2>2. /\ pipe'[t] \in Seq(Nat \ {0}) /\ Len(pipe'[t]) = Len(q) + 1
        /\ pipe'[t][Len(q) + 1] = compiler.written[t] + 1
        /\ \A i \in 1 .. Len(q) : pipe'[t][i] = q[i]
        /\ compiler'.written \in [Streams -> Nat]
        /\ compiler'.written[t] = compiler.written[t] + 1
        /\ \A s \in Streams : s # t => pipe'[s] = pipe[s] /\ compiler'.written[s] = compiler.written[s]
    BY <2>1 DEF IInv, TypeOK
  <2>3. TypeOK'
    <3>1. Written' = Written + 1
      <4> DEFINE before == compiler.written
                 after  == compiler'.written
      <4>1. t = "out" \/ t = "err"  BY <2>1 DEF Streams
      <4>2. before["out"] \in Nat /\ before["err"] \in Nat  BY <2>1 DEF Streams
      <4>3. CASE t = "out"
        <5>1. after["out"] = before["out"] + 1 /\ after["err"] = before["err"]
          BY <2>2, <4>3 DEF Streams
        <5> QED  BY <4>2, <5>1 DEF Written
      <4>4. CASE t = "err"
        <5>1. after["err"] = before["err"] + 1 /\ after["out"] = before["out"]
          BY <2>2, <4>4 DEF Streams
        <5> QED  BY <4>2, <5>1 DEF Written
      <4> QED  BY <4>1, <4>3, <4>4
    <3>2. Written' <= MaxLines
      BY <2>1, <3>1 DEF Written, Streams
    <3>3. compiler' \in [at : {"none", "computing", "writing", "exited"}, to : Streams,
                         written : [Streams -> Nat]]
      BY <2>1, <2>2 DEF IInv, TypeOK
    <3>4. pipe' \in [Streams -> Seq(Nat \ {0})] /\ \A s \in Streams : Len(pipe'[s]) <= PipeSize
      BY <2>1, <2>2 DEF IInv, TypeOK
    <3> QED  BY <1>2, <3>2, <3>3, <3>4 DEF WritesLine, IInv, TypeOK
  <2>4. \A s \in Streams : Taken(s)' = Taken(s)
    <3> SUFFICES ASSUME NEW s \in Streams PROVE Taken(s)' = Taken(s)  OBVIOUS
    <3> HIDE DEF t, q
    <3>1. compiler.written[t] \in Nat  BY <2>1
    <3>2. CASE s = t
      <4>1. Taken(s) = compiler.written[t] - Len(q)  BY <3>2 DEF Taken, q
      <4>2. Taken(s)' = (compiler.written[t] + 1) - (Len(q) + 1)  BY <2>2, <3>2 DEF Taken
      <4>3. Len(q) \in Nat  BY <2>1
      <4> QED  BY <3>1, <4>1, <4>2, <4>3
    <3>3. CASE s # t  BY <2>2, <3>3 DEF Taken
    <3> QED  BY <3>2, <3>3
  <2>5. PipesHoldRest'
    <3> SUFFICES ASSUME NEW s \in Streams
        PROVE  /\ Taken(s) \in Nat
               /\ \A i \in 1 .. Len(pipe'[s]) : pipe'[s][i] = Taken(s) + i
               /\ reader[s].at = "logging" => Taken(s) > 0 /\ reader[s].line = Taken(s)
               /\ reader[s].at = "finished" => s \in broken
      BY <1>2, <2>4 DEF PipesHoldRest, WritesLine
    <3>1. /\ Taken(s) \in Nat
          /\ \A i \in 1 .. Len(pipe[s]) : pipe[s][i] = Taken(s) + i
          /\ reader[s].at = "logging" => Taken(s) > 0 /\ reader[s].line = Taken(s)
          /\ reader[s].at = "finished" => s \in broken
      BY <2>1 DEF IInv, PipesHoldRest
    <3>2. CASE s = t
      <4>1. compiler.written[t] + 1 = Taken(t) + (Len(q) + 1)  BY <2>1 DEF Taken
      <4>2. ASSUME NEW i \in 1 .. Len(q) + 1 PROVE pipe'[t][i] = Taken(t) + i
        <5>1. Len(q) \in Nat  BY <2>1
        <5>2. CASE i = Len(q) + 1  BY <2>2, <4>1, <5>2
        <5>3. CASE i # Len(q) + 1
          <6>1. i \in 1 .. Len(q)
            <7> HIDE DEF q
            <7> QED  BY <5>1, <5>3
          <6>2. q[i] = Taken(t) + i  BY <3>1, <3>2, <6>1
          <6> QED  BY <2>2, <6>1, <6>2
        <5> QED  BY <5>2, <5>3
      <4> QED  BY <2>2, <3>1, <3>2, <4>2
    <3>3. CASE s # t  BY <2>2, <3>1, <3>3
    <3> QED  BY <3>2, <3>3
  <2>6. RequestFollows'  BY <1>2, <2>1 DEF WritesLine, IInv, RequestFollows, At
  <2>7. ReportHoldsLogged'
    <3>1. \A s \in Streams : Logged(s)' = Logged(s)
      BY <1>2, <2>4 DEF Logged, WritesLine
    <3> QED  BY <1>2, <3>1, ReportUntouched DEF WritesLine, IInv
  <2>8. ClosedIsEnd'  BY <1>2 DEF WritesLine, IInv, ClosedIsEnd, closed
  <2> QED  BY <2>3, <2>5, <2>6, <2>7, <2>8 DEF IInv
<1>3. CASE Exits
  <2>1. TypeOK'  BY <1>3 DEF Exits, IInv, TypeOK, Before, Behind, At, Points, Streams, Written
  <2>2. PipesHoldRest'  BY <1>3, PipesUntouched DEF Exits, IInv
  <2>3. RequestFollows'  BY <1>3 DEF Exits, IInv, RequestFollows, At, Streams, Written
  <2>4. ReportHoldsLogged'  BY <1>3, LoggedUntouched, ReportUntouched DEF Exits, IInv
  <2>5. ClosedIsEnd'  BY <1>3 DEF Exits, IInv, ClosedIsEnd, closed, At
  <2> QED  BY <2>1, <2>2, <2>3, <2>4, <2>5 DEF IInv
<1> QED  BY <1>1, <1>2, <1>3 DEF CompilerStep

-----------------------------------------------------------------------------
(* The readers                                                             *)

LEMMA ReaderKeeps == ASSUME IInv, NEW t \in Streams, ReaderStep(t) \/ ReaderDies(t) PROVE IInv'
<1>1. CASE ReadLine(t)
  <2> DEFINE q == pipe[t]
  <2>1. /\ q \in Seq(Nat \ {0}) /\ q # <<>> /\ Len(q) \in Nat /\ Len(q) > 0
        /\ q[1] = Taken(t) + 1 /\ Taken(t) \in Nat
        /\ pipe' = [pipe EXCEPT ![t] = Tail(q)]
        /\ reader' = [reader EXCEPT ![t] = [at |-> "logging", line |-> q[1]]]
        /\ reader[t].at = "reading"
    BY <1>1 DEF ReadLine, IInv, TypeOK, Before, Behind, PipesHoldRest
  <2>2. /\ pipe'[t] \in Seq(Nat \ {0}) /\ Len(pipe'[t]) = Len(q) - 1
        /\ \A i \in 1 .. Len(q) - 1 : pipe'[t][i] = q[i + 1]
        /\ reader'[t] = [at |-> "logging", line |-> q[1]]
        /\ \A s \in Streams : s # t => pipe'[s] = pipe[s] /\ reader'[s] = reader[s]
    BY <2>1 DEF IInv, TypeOK
  <2>3. TypeOK'
    <3>1. pipe' \in [Streams -> Seq(Nat \ {0})]  BY <2>1, <2>2 DEF IInv, TypeOK
    <3>2. \A s \in Streams : Len(pipe'[s]) <= PipeSize
      BY <2>1, <2>2 DEF IInv, TypeOK
    <3>3. reader' \in [Streams -> [at : {"new", "reading", "logging", "finished"}, line : Nat]]
      BY <2>1 DEF IInv, TypeOK
    <3> QED  BY <1>1, <3>1, <3>2, <3>3 DEF ReadLine, IInv, TypeOK, Before, Behind, Written
  <2>4. /\ Taken(t)' = Taken(t) + 1
        /\ \A s \in Streams : s # t => Taken(s)' = Taken(s)
    BY <1>1, <2>1, <2>2 DEF ReadLine, Taken, IInv, TypeOK
  <2>5. PipesHoldRest'
    <3> SUFFICES ASSUME NEW s \in Streams
        PROVE  /\ Taken(s)' \in Nat
               /\ \A i \in 1 .. Len(pipe'[s]) : pipe'[s][i] = Taken(s)' + i
               /\ reader'[s].at = "logging" => Taken(s)' > 0 /\ reader'[s].line = Taken(s)'
               /\ reader'[s].at = "finished" /\ s \notin broken =>
                    pipe'[s] = <<>> /\ compiler.at = "exited"
      BY <1>1 DEF PipesHoldRest, ReadLine
    <3>1. CASE s = t
      <4>1. \A i \in 1 .. Len(q) : q[i] = Taken(t) + i  BY DEF IInv, PipesHoldRest
      <4>2. ASSUME NEW i \in 1 .. Len(q) - 1 PROVE pipe'[t][i] = Taken(t) + 1 + i
        BY <2>1, <2>2, <4>1
      <4> QED  BY <2>1, <2>2, <2>4, <3>1, <4>2
    <3>2. CASE s # t  BY <2>2, <2>4, <3>2 DEF IInv, PipesHoldRest
    <3> QED  BY <3>1, <3>2
  <2>6. RequestFollows'
    BY <1>1, <2>1, <2>2 DEF ReadLine, IInv, RequestFollows, At, Streams, Written
  <2>7. ReportHoldsLogged'
    <3>1. \A s \in Streams : Logged(s)' = Logged(s)  BY <2>1, <2>2, <2>4 DEF Logged
    <3> QED  BY <1>1, <3>1, ReportUntouched DEF ReadLine, IInv
  <2>8. ClosedIsEnd'  BY <1>1, <2>1 DEF ReadLine, IInv, ClosedIsEnd, closed
  <2> QED  BY <2>3, <2>5, <2>6, <2>7, <2>8 DEF IInv
<1>2. CASE LogLine(t)
  <2> DEFINE m == Line(t, Taken(t))
  <2>1. /\ reader[t].at = "logging" /\ reader[t].line = Taken(t)
        /\ Taken(t) \in Nat \ {0} /\ log \in Seq(Messages) /\ ~closed
        /\ log' = Append(log, m)
        /\ reader' = [reader EXCEPT ![t] = [at |-> "reading", line |-> 0]]
    BY <1>2 DEF LogLine, IInv, TypeOK, Before, Behind, PipesHoldRest, ClosedIsEnd
  <2>2. m \in Messages /\ m.from = t /\ m.n = Taken(t) /\ m # ExitCode
    BY <2>1 DEF Messages, Line, Streams, ExitCode
  <2>3. /\ log' \in Seq(Messages) /\ DOMAIN log' = 1 .. Len(log) + 1 /\ DOMAIN log = 1 .. Len(log)
        /\ Len(log) \in Nat /\ log'[Len(log) + 1] = m
        /\ \A i \in 1 .. Len(log) : log'[i] = log[i]
    BY <2>1, <2>2
  <2>4. TypeOK'
    <3>1. reader' \in [Streams -> [at : {"new", "reading", "logging", "finished"}, line : Nat]]
      BY <2>1 DEF IInv, TypeOK
    <3> QED  BY <1>2, <2>3, <3>1 DEF LogLine, IInv, TypeOK, Before, Behind, Written
  <2>5. \A s \in Streams : Taken(s)' = Taken(s)  BY <1>2 DEF LogLine, Taken
  <2>6. /\ reader'[t].at = "reading"
        /\ \A s \in Streams : s # t => reader'[s] = reader[s]
    BY <2>1 DEF IInv, TypeOK
  <2>7. PipesHoldRest'  BY <1>2, <2>5, <2>6 DEF LogLine, IInv, PipesHoldRest
  <2>8. RequestFollows'
    BY <1>2, <2>1, <2>6 DEF LogLine, IInv, RequestFollows, At, Streams, Written
  <2>9. ReportHoldsLogged'
    <3>1. Logged(t) = Taken(t) - 1 /\ Logged(t)' = Taken(t)
      BY <2>1, <2>5, <2>6 DEF Logged
    <3>2. \A s \in Streams : s # t => Logged(s)' = Logged(s)  BY <2>5, <2>6 DEF Logged
    <3> SUFFICES ASSUME NEW s \in Streams PROVE (InOrder(s) /\ HoldsLines(s) /\ HoldsNoMore(s))'
      BY DEF ReportHoldsLogged
    <3>3. InOrder(s) /\ HoldsLines(s) /\ HoldsNoMore(s)  BY DEF IInv, ReportHoldsLogged
    <3>4. \A i \in DOMAIN log : log[i] \in Messages /\ log[i].n \in Nat
      BY <2>1 DEF Messages
    <3>5. CASE s = t
      <4>1. \A i \in DOMAIN log : log[i].from = t => log[i].n < Taken(t)
        BY <2>1, <3>1, <3>3, <3>4, <3>5 DEF HoldsNoMore
      <4>2. InOrder(s)'  BY <2>1, <2>2, <2>3, <3>3, <3>5, <4>1 DEF InOrder
      <4>3. HoldsLines(s)'
        <5> SUFFICES ASSUME NEW n \in 1 .. Taken(t) PROVE \E i \in DOMAIN log' : log'[i] = Line(t, n)
          BY <3>1, <3>5 DEF HoldsLines
        <5>1. CASE n = Taken(t)  BY <2>3, <5>1
        <5>2. CASE n # Taken(t)
          <6>1. n \in 1 .. Logged(t)  BY <2>1, <3>1, <5>2
          <6>2. PICK i \in DOMAIN log : log[i] = Line(t, n)
            BY <3>3, <3>5, <6>1 DEF HoldsLines
          <6> QED  BY <2>3, <6>2
        <5> QED  BY <5>1, <5>2
      <4>4. HoldsNoMore(s)'  BY <2>1, <2>2, <2>3, <3>1, <3>5, <4>1, <3>4 DEF HoldsNoMore
      <4> QED  BY <4>2, <4>3, <4>4
    <3>6. CASE s # t
      <4>1. \A i \in DOMAIN log' : log'[i].from = s => i \in DOMAIN log
        BY <2>2, <2>3, <3>6
      <4>2. InOrder(s)'  BY <2>3, <3>3, <4>1 DEF InOrder
      <4>3. HoldsLines(s)'  BY <2>3, <3>2, <3>3, <3>6 DEF HoldsLines
      <4>4. HoldsNoMore(s)'  BY <2>3, <3>2, <3>3, <3>6, <4>1 DEF HoldsNoMore
      <4> QED  BY <4>2, <4>3, <4>4
    <3> QED  BY <3>5, <3>6
  <2>10. ClosedIsEnd'
    <3>1. ~closed'  BY <2>1, <2>2, <2>3 DEF closed
    <3> QED  BY <3>1 DEF ClosedIsEnd
  <2> QED  BY <2>4, <2>7, <2>8, <2>9, <2>10 DEF IInv
<1>3. CASE EndOfStream(t) \/ ReaderDies(t)
  <2>1. /\ reader[t].at = "reading"
        /\ reader' = [reader EXCEPT ![t] = [at |-> "finished", line |-> 0]]
        /\ request' = [request EXCEPT !.asleep = @ /\ ~WaitsFor(t)]
        /\ UNCHANGED <<dir, entries, compiler, pipe, log>>
        /\ broken' \in {broken, broken \cup {t}}
        /\ t \in broken' \/ (pipe[t] = <<>> /\ compiler.at = "exited")
        /\ faults' \in 0 .. MaxFaults
    <3>1. faults \in 0 .. MaxFaults  BY DEF IInv, TypeOK
    <3>2. CASE EndOfStream(t)  BY <3>1, <3>2 DEF EndOfStream, Finish
    <3>3. CASE ReaderDies(t)
      <4>1. faults' \in 0 .. MaxFaults
        BY <3>1, <3>3 DEF ReaderDies, Fault
      <4> QED  BY <3>3, <4>1 DEF ReaderDies, Finish
    <3> QED  BY <1>3, <3>2, <3>3
  <2>2. /\ reader'[t] = [at |-> "finished", line |-> 0]
        /\ \A s \in Streams : s # t => reader'[s] = reader[s]
    BY <2>1 DEF IInv, TypeOK
  <2>3. TypeOK'
    <3>1. request' \in [at : Points, asleep : BOOLEAN] /\ request'.at = request.at
          /\ (request'.asleep => request.asleep)
      BY <2>1 DEF IInv, TypeOK
    <3> QED  BY <2>1, <3>1 DEF IInv, TypeOK, Before, Behind, Written
  <2>4. \A s \in Streams : Taken(s)' = Taken(s) /\ Logged(s)' = Logged(s)
    BY <2>1, <2>2 DEF Taken, Logged
  <2>5. PipesHoldRest'
    <3> SUFFICES ASSUME NEW s \in Streams
        PROVE  /\ Taken(s) \in Nat
               /\ \A i \in 1 .. Len(pipe[s]) : pipe[s][i] = Taken(s) + i
               /\ reader'[s].at = "logging" => Taken(s) > 0 /\ reader'[s].line = Taken(s)
               /\ reader'[s].at = "finished" /\ s \notin broken' =>
                    pipe[s] = <<>> /\ compiler.at = "exited"
      BY <2>1, <2>4 DEF PipesHoldRest
    <3>1. CASE s = t  BY <2>1, <2>2, <3>1 DEF IInv, PipesHoldRest
    <3>2. CASE s # t  BY <2>1, <2>2, <3>2 DEF IInv, PipesHoldRest
    <3> QED  BY <3>1, <3>2
  <2>6. RequestFollows'
    <3>1. request'.at = request.at  BY <2>1 DEF IInv, TypeOK
    <3> QED  BY <2>1, <2>2, <3>1 DEF IInv, RequestFollows, At, Written
  <2>7. ReportHoldsLogged'  BY <2>1, <2>4, ReportUntouched DEF IInv
  <2>8. ClosedIsEnd'  BY <2>1 DEF IInv, ClosedIsEnd, closed
  <2> QED  BY <2>3, <2>5, <2>6, <2>7, <2>8 DEF IInv
<1> QED  BY <1>1, <1>2, <1>3 DEF ReaderStep

-----------------------------------------------------------------------------
(* The whole                                                               *)

LEMMA NextIInv == ASSUME IInv, [Next]_cvars PROVE IInv'
<1>1. CASE SpuriousWakeup
  <2>1. TypeOK'  BY <1>1 DEF SpuriousWakeup, IInv, TypeOK, Before, Behind, At, Points, Streams, Written
  <2>2. PipesHoldRest'  BY <1>1, PipesUntouched DEF SpuriousWakeup, IInv
  <2>3. RequestFollows'
    BY <1>1 DEF SpuriousWakeup, IInv, RequestFollows, At, Streams, Written
  <2>4. ReportHoldsLogged'
    BY <1>1, LoggedUntouched, ReportUntouched DEF SpuriousWakeup, IInv
  <2>5. ClosedIsEnd'  BY <1>1 DEF SpuriousWakeup, IInv, ClosedIsEnd, closed, At
  <2> QED  BY <2>1, <2>2, <2>3, <2>4, <2>5 DEF IInv
<1>2. CASE Interrupt
  <2>1. TypeOK'
    BY <1>2 DEF Interrupt, IInv, TypeOK, Before, Behind, At, Goto, End, Fault, Points, Streams, Written
  <2>2. PipesHoldRest'  BY <1>2, PipesUntouched DEF Interrupt, IInv
  <2>3. RequestFollows'
    BY <1>2 DEF Interrupt, IInv, RequestFollows, At, Goto, End, Fault, Streams, Written
  <2>4. ReportHoldsLogged'
    BY <1>2, LoggedUntouched, ReportUntouched DEF Interrupt, IInv
  <2>5. ClosedIsEnd'
    BY <1>2 DEF Interrupt, IInv, ClosedIsEnd, closed, At, Goto, End, Fault
  <2> QED  BY <2>1, <2>2, <2>3, <2>4, <2>5 DEF IInv
<1>3. CASE UNCHANGED cvars
  <2>1. TypeOK'  BY <1>3 DEF cvars, IInv, TypeOK, Before, Behind, Written
  <2>2. PipesHoldRest'  BY <1>3, PipesUntouched DEF cvars, IInv
  <2>3. RequestFollows'  BY <1>3 DEF cvars, IInv, RequestFollows, At, Written
  <2>4. ReportHoldsLogged'  BY <1>3, LoggedUntouched, ReportUntouched DEF cvars, IInv
  <2>5. ClosedIsEnd'  BY <1>3 DEF cvars, IInv, ClosedIsEnd, closed
  <2> QED  BY <2>1, <2>2, <2>3, <2>4, <2>5 DEF IInv
<1> QED  BY <1>1, <1>2, <1>3, RequestKeeps, CompilerKeeps, ReaderKeeps DEF Next

\* A report that is closed is complete.
LEMMA IInvComplete == IInv => ReportIsComplete
<1> SUFFICES ASSUME IInv PROVE ReportIsComplete  OBVIOUS
<1>1. \A s \in Streams : InOrder(s)  BY DEF IInv, ReportHoldsLogged
<1>2. ASSUME closed, NEW s \in Streams \ broken PROVE AllLines(s)
  <2>1. reader[s].at = "finished" /\ pipe[s] = <<>>
    BY <1>2 DEF IInv, ClosedIsEnd, PipesHoldRest
  <2>2. Logged(s) = compiler.written[s]  BY <2>1 DEF Logged, Taken, IInv, TypeOK
  <2>3. HoldsLines(s)  BY DEF IInv, ReportHoldsLogged
  <2> QED  BY <2>2, <2>3 DEF HoldsLines, AllLines
<1> QED  BY <1>1, <1>2 DEF ReportIsComplete, IInv, ClosedIsEnd

LEMMA Invariance == Spec => []IInv
  BY InitIInv, NextIInv, PTL DEF Spec

(* Every variable keeps its type, no pipe is overfull, the compiler runs     *)
(* only for a request that has started it, and the request sleeps only where *)
(* it waits for a reader (Compiler.InputStreamLogger).                       *)
THEOREM TypeCorrect == Spec => []TypeOK
<1>1. IInv => TypeOK  BY DEF IInv
<1> QED  BY <1>1, Invariance, PTL

(* The report of an answered upload holds every line of every stream whose  *)
(* reader did not die, in order, and ends with the exit code, for pipes of  *)
(* any size and any number of lines, faults and interrupts (Compiler.compile). *)
THEOREM Completeness == Spec => []ReportIsComplete
  BY IInvComplete, Invariance, PTL

=============================================================================
