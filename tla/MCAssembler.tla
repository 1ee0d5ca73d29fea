---------------------------- MODULE MCAssembler ----------------------------
(* Instances of Assembler: all sources up to a weight.                     *)
EXTENDS Assembler

CONSTANTS MaxItems,   \* the items of all bodies
          Budget      \* the declarations, their options, and the items

Item(kind, symbol, value) == [kind |-> kind, symbol |-> symbol, value |-> value]
McNames == {"main", "f", "g"}
McItems ==
  {Item("op", "", 0), Item("imm", "", 258),
   Item("jump", "l", 0), Item("jump", "m", 0), Item("jump", "", -3),
   Item("label", "l", 0), Item("label", "m", 0),
   Item("local", "x", 0), Item("local", "y", 0), Item("local", "", 130),
   Item("call", "f", 0),
   Item("declare", "x", 0), Item("declare", "y", 0),
   Item("handle", "f", 0), Item("handle", "", 193), Item("byte", "", 7),
   Item("word", "", 258), Item("skip", "", 2)}
McMinJump == -4
McArguments == {<<>>, <<"x">>, <<"y", "x">>}

Weight(d) == 1 + (IF d.handle = 0 THEN 0 ELSE 1) + (IF d.args = <<>> THEN 0 ELSE 1)
               + (IF d.results = 0 THEN 0 ELSE 1) + Len(d.text)
SourceWeight == FoldLeft(LAMBDA n, d : n + Weight(d), 0, source)
SourceItems  == FoldLeft(LAMBDA n, d : n + Len(d.text), 0, source)

McNext == Next /\ SourceWeight' <= Budget /\ SourceItems' <= MaxItems
McSpec == Init /\ [][McNext]_avars
=============================================================================
