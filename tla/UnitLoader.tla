------------------------------ MODULE UnitLoader ------------------------------
(***************************************************************************)
(* How tinyvm reads a program unit: VmLoadByteCode (c2/vm/vm_loader.c) as  *)
(* a function of the bytes of a file.  What a load that fails leaves in    *)
(* the machine is in TinyVM, with the VmSetupCall of the entry that ends   *)
(* it (VmLoadByteCode there): a unit that can be read may still be refused *)
(* for its entry, or for a stack that is too small.                        *)
(***************************************************************************)
EXTENDS Integers, SequencesExt

VM_TAG_UNIT   == 1953918208   \* 't' 'v' 'm' 0
VM_TAG_OBJECT == 1868720640   \* 'o' 'b' 'j' 0
VM_TAG_END    == 1701733376   \* 'e' 'n' 'd' 0

\* MemInit refuses an empty file, MemGetByte what lies behind the end, and
\* BufferGetBytes also the length 0.
Readable(bytes, at, n) == n > 0 /\ at + n <= Len(bytes)

\* The byte order is known from the first byte: a little-endian unit begins
\* with the 0 of its tag.
BigEndian(bytes) == bytes[1] = 116

\* MemGetWord
Word(b1, b2, b3, b4) == ((b1 * 256 + b2) * 256 + b3) * 256 + b4
WordAt(bytes, at) ==
  IF BigEndian(bytes)
  THEN Word(bytes[at + 1], bytes[at + 2], bytes[at + 3], bytes[at + 4])
  ELSE Word(bytes[at + 4], bytes[at + 3], bytes[at + 2], bytes[at + 1])

HasTag(bytes, at, tag) == Readable(bytes, at, 4) /\ WordAt(bytes, at) = tag

\* Wrong: a file may end without its end tag.
EndsOrStops(bytes, at) == at = Len(bytes) \/ HasTag(bytes, at, VM_TAG_END)

IsEnd(bytes, at) == HasTag(bytes, at, VM_TAG_END)

\* A header and the content that it announces.
LengthAt(bytes, at) == WordAt(bytes, at + 12)
IsObject(bytes, at) ==
  /\ HasTag(bytes, at, VM_TAG_OBJECT)
  /\ Readable(bytes, at, 16)
  /\ Readable(bytes, at + 16, LengthAt(bytes, at))

\* Wrong: every object has the byte order that VmCreateObject gives it.
ObjectLittle(bytes, at) ==
  [qualifiers |-> WordAt(bytes, at + 4), handle |-> WordAt(bytes, at + 8),
   data |-> SubSeq(bytes, at + 17, at + 16 + LengthAt(bytes, at)), big |-> FALSE]

ObjectAt(bytes, at) ==
  [qualifiers |-> WordAt(bytes, at + 4), handle |-> WordAt(bytes, at + 8),
   data |-> SubSeq(bytes, at + 17, at + 16 + LengthAt(bytes, at)), big |-> BigEndian(bytes)]

Refused == [loaded |-> FALSE, entry |-> 0, objects |-> <<>>]
Loaded(entry, objects) == [loaded |-> TRUE, entry |-> entry, objects |-> objects]

\* VmCreateObject refuses the null handle, a handle in use, and an object without
\* qualifiers; rest is what follows the object.
Created(entry, first, rest) ==
  IF /\ rest.loaded
     /\ first.handle # 0 /\ first.qualifiers # 0
     /\ \A obj \in Range(rest.objects) : obj.handle # first.handle
  THEN Loaded(entry, <<first>> \o rest.objects)
  ELSE Refused

\* The objects from an offset to the end tag.
Objects(bytes, entry) ==
  LET from[at \in 0 .. Len(bytes)] ==
        IF IsEnd(bytes, at) THEN Loaded(entry, <<>>)
        ELSE IF IsObject(bytes, at)
        THEN Created(entry, ObjectAt(bytes, at), from[at + 16 + LengthAt(bytes, at)])
        ELSE Refused
  IN from[12]

\* Whether the objects of the unit can be created, and which: the handle of the
\* entry and the objects in their order, as they are handed to VmSetupCall.
\* The version is read and not looked at.
UnitObjects(bytes) ==
  IF HasTag(bytes, 0, VM_TAG_UNIT) /\ Readable(bytes, 0, 12)
  THEN Objects(bytes, WordAt(bytes, 8))
  ELSE Refused

===============================================================================
