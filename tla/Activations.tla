---------------------------- MODULE Activations ----------------------------
(***************************************************************************)
(* What the calling convention of the TinyVM promises to a program that    *)
(* keeps it (bytecodes.h on CALL, RET, LDVAR and STVAR): every pending     *)
(* call has an activation with its own program counter, arguments, locals  *)
(* and operands, which no other activation can reach.  A call takes its    *)
(* arguments from the operands of the caller and a return gives its        *)
(* operands back as results; the caller's other data is as it was.         *)
(***************************************************************************)
EXTENDS Naturals, Sequences

CONSTANT CallLength   \* the length of a CALL instruction

VARIABLE calls        \* the pending calls, the active one last:
                      \* [function, pc, args, locals, operands]

Active == calls[Len(calls)]

\* Everything below the n-th activation is as before.
SameBelow(n) == SubSeq(calls', 1, n - 1) = SubSeq(calls, 1, n - 1)

Init == calls = <<>>

\* The entry function starts, without arguments.
Start ==
  /\ calls = <<>>
  /\ Len(calls') = 1
  /\ calls'[1].pc = 0 /\ calls'[1].args = <<>> /\ calls'[1].operands = <<>>
  /\ \A i \in DOMAIN calls'[1].locals : calls'[1].locals[i] = 0

\* Any other instruction: it computes with what its own activation holds, and
\* cannot change the number of its arguments and locals.
Compute ==
  /\ calls # <<>>
  /\ Len(calls') = Len(calls)
  /\ SameBelow(Len(calls))
  /\ LET now == calls'[Len(calls)]
     IN  /\ now.function = Active.function
         /\ Len(now.args) = Len(Active.args)
         /\ Len(now.locals) = Len(Active.locals)

\* The last of the caller's operands are the arguments; the new locals are 0.
Call ==
  /\ calls # <<>>
  /\ Len(calls') = Len(calls) + 1
  /\ SameBelow(Len(calls))
  /\ LET new   == calls'[Len(calls) + 1]
         taken == Len(new.args)
         left  == Len(Active.operands) - taken
     IN  /\ taken <= Len(Active.operands)
         /\ new.pc = 0 /\ new.operands = <<>>
         /\ new.args = SubSeq(Active.operands, left + 1, Len(Active.operands))
         /\ \A i \in DOMAIN new.locals : new.locals[i] = 0
         /\ calls'[Len(calls)] = [Active EXCEPT !.pc = @ + CallLength,
                                                !.operands = SubSeq(@, 1, left)]

\* The operands of the active function are its results.
Return ==
  /\ Len(calls) > 1
  /\ Len(calls') = Len(calls) - 1
  /\ SameBelow(Len(calls) - 1)
  /\ calls'[Len(calls) - 1] =
       [calls[Len(calls) - 1] EXCEPT !.operands = @ \o Active.operands]

\* The entry function returns, or the machine stops.
Stop == calls' = <<>>

Next == Start \/ Compute \/ Call \/ Return \/ Stop

Spec == Init /\ [][Next]_calls

============================================================================
