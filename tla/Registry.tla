-------------------------------- MODULE Registry --------------------------------
(***************************************************************************)
(* What the user tables promise: a list of people, to which one person is  *)
(* added, from which one is removed, or of whom one loses a part of its    *)
(* record, at a time. A name is for life, and what is lost stays lost.     *)
(***************************************************************************)
CONSTANTS Ids, Names

VARIABLE people     \* id -> names of that id, and whether the record is whole

Person == [names : {{n} : n \in Names}, whole : BOOLEAN]

Without(u) == [v \in DOMAIN people \ {u} |-> people[v]]

RegistryInit == \E u \in Ids, n \in Names : people = [v \in {u} |-> [names |-> {n}, whole |-> TRUE]]

Register(u) == /\ u \notin DOMAIN people
               /\ \E p \in Person :
                    people' = [v \in DOMAIN people \cup {u} |-> IF v = u THEN p ELSE people[v]]

Damage(u) == /\ u \in DOMAIN people /\ people[u].whole
             /\ people' = [people EXCEPT ![u].whole = FALSE]

Remove(u) == /\ u \in DOMAIN people
             /\ people' = Without(u)

RegistryNext == \E u \in Ids : Register(u) \/ Damage(u) \/ Remove(u)

Spec == RegistryInit /\ [][RegistryNext]_people
=================================================================================
