----------------------------- MODULE VmObjects -----------------------------
(***************************************************************************)
(* The objects of a virtual machine (src/tasks/c2/vm/vm_objects.c and      *)
(* VmGetObject of vm_context.c).  The array vm->objs is a function from    *)
(* the handles in use to objects: lookup is by handle, an object is never  *)
(* removed while the machine lives, and no operation depends on the order. *)
(***************************************************************************)
EXTENDS VmWords, FiniteSets

CONSTANTS DynamicFirst,  \* VM_DYNAMIC_HANDLE_FIRST
          DynamicLast    \* VM_DYNAMIC_HANDLE_LAST

ASSUME DynamicHandlesAssumption ==
  /\ DynamicFirst \in Nat \ {0}
  /\ DynamicLast \in Nat
  /\ DynamicFirst <= DynamicLast
  /\ DynamicLast < WordMod - 1

NullHandle == 0
Handle     == Word \ {NullHandle}

Qualifier == {"DATA", "CODE", "INMUTABLE", "PROTECTED"}

Object == [qualifiers : SUBSET Qualifier, data : Seq(Byte), big : BOOLEAN]

\* VmCreateObject accepts these arguments.  A NULL content is given with a
\* length; only the length zero is accepted then.
CanCreate(objs, handle, qualifiers) ==
  /\ qualifiers # {}
  /\ handle # NullHandle
  /\ handle \notin DOMAIN objs

\* The objects after VmCreateObject succeeded.
WithObject(objs, handle, obj) ==
  [h \in DOMAIN objs \cup {handle} |-> IF h = handle THEN obj ELSE objs[h]]

\* VmAccessObject: there is a view of the object (MemInit refuses length 0).
Accessible(obj) == Len(obj.data) > 0

\* VmAccessObject: the view is MEM_VIEW_READONLY.  The qualifiers are compared
\* for equality, so only an object with exactly one of these three has it.
ReadOnly(obj) == obj.qualifiers \in {{"CODE"}, {"INMUTABLE"}, {"PROTECTED"}}

FreeDynamicHandles(objs) == (DynamicFirst .. DynamicLast) \ DOMAIN objs

\* The first free handle of the scan in VmcAlloc.
FirstFree(objs) ==
  CHOOSE h \in FreeDynamicHandles(objs) :
    \A g \in FreeDynamicHandles(objs) : h <= g

============================================================================
