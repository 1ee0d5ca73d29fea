------------------------- MODULE SubmissionUsers_proofs -------------------------
(***************************************************************************)
(* Proofs about SubmissionUsers, for any number of requests, names,        *)
(* connections and faults.                                                 *)
(***************************************************************************)
EXTENDS SubmissionUsers, FiniteSetTheorems, TLAPS

Holding == {q \in Requests : req[q].at \in InTransaction \cup {"autoCommit"}}

Pool == free \in 0 .. Connections /\ free + Cardinality(Holding) = Connections

(* What a request has in its variables and its transaction, by where it is. *)
Stage(q) ==
  LET r == req[q]
  IN /\ r.at \in {"idle", "existsUserName", "getStudentRole", "existsUser"} =>
          written[q] = Nothing
     /\ r.at \in {"idle", "existsUserName", "getStudentRole", "insertUser"} => r.uid = 0
     /\ r.at \in {"idle", "existsUserName"} => known[q] = {}
     /\ r.at \in {"existsUserName", "getStudentRole", "insertUser", "insertStudentFacet",
                  "insertStudentRole", "login"} => IsSignIn(q)
     /\ r.at \in {"idle", "existsUser", "getRoles", "deleteFacets", "deleteRoles",
                  "deleteUser"} => ~IsSignIn(q)
     /\ r.at \in {"insertStudentFacet", "insertStudentRole"} =>
          r.uid # 0 /\ UserRow(r.uid, r.name) \in written[q].ins
     /\ r.at # "answered" => r.answer = "-"
     /\ r.answer = "refused" => r.uid = 0
     /\ IF IsSignIn(q) THEN written[q].del = {} ELSE written[q].ins = {}
     /\ \A row \in written[q].del : row.uid = r.uid
     /\ written[q].ins # {} => UserRow(r.uid, r.name) \in written[q].ins
Stages == \A q \in Requests : Stage(q)

(* Ids are given once.                                                     *)
FreshIds ==
  /\ \A row \in rows : row.uid < nextId
  /\ \A q \in Requests : req[q].uid < nextId /\ \A u \in known[q] : u < nextId
  /\ \A p, q \in Requests :
       IsSignIn(p) /\ IsSignIn(q) /\ req[p].uid = req[q].uid /\ req[p].uid # 0 => p = q

(* A user who is not committed yet is known to nobody but its sign-in.     *)
Secret ==
  \A q \in Requests : \A row \in written[q].ins :
    /\ row.uid = req[q].uid
    /\ row.table = "Users" => row.value = req[q].name
    /\ \A r \in rows : r.uid # row.uid
    /\ \A p \in Requests : row.uid \notin known[p] /\ (~IsSignIn(p) => req[p].uid # row.uid)

(* A user has one name, the one it signed in with, and none that its       *)
(* sign-in found.                                                          *)
NamesKept ==
  /\ \A r, w \in UsersIn(rows) : r.uid = w.uid => r = w
  /\ \A q \in Requests : IsSignIn(q) =>
       \A r \in UsersIn(rows) :
         /\ r.uid = req[q].uid => r.value = req[q].name
         /\ r.uid \in known[q] /\ req[q].answer # "refused" => r.value # req[q].name

(* The foreign keys hold, in the database and as each transaction sees it. *)
Closed(S) == \A c \in S : \E w \in S : w.table = "Users" /\ w.uid = c.uid
References == Closed(rows) /\ \A q \in Requests : Closed(View(q))

(* A deletion that commits, and one that is answered, has left nothing.    *)
Deletions ==
  \A q \in Requests : ~IsSignIn(q) =>
    /\ At(q, "commit") => Of(View(q), Children \cup {"Users"}, req[q].uid) = {}
    /\ At(q, "answered") /\ req[q].answer = "ok" =>
         Of(rows, Children \cup {"Users"}, req[q].uid) = {}

IInv == TypeOK /\ Stages /\ FreshIds /\ Secret /\ NamesKept /\ References /\ Deletions

-----------------------------------------------------------------------------
(* The pool                                                                *)

LEMMA HoldingFinite ==
  IsFiniteSet(Holding) /\ Cardinality(Holding) \in Nat
<1>1. Holding \subseteq Requests  BY DEF Holding
<1>2. IsFiniteSet(Requests)  BY SubmissionUsersAssumption
<1> QED  BY <1>1, <1>2, FS_Subset, FS_CardinalityType

LEMMA PoolIsTyped == TypeOK => Pool
  BY DEF TypeOK, Pool, Holding

\* A step that neither takes nor gives back a connection.
LEMMA PoolUntouched ==
  ASSUME Pool, free' = free, \A p \in Requests : p \in Holding' <=> p \in Holding
  PROVE  Pool'
<1>1. Holding' = Holding  BY DEF Holding
<1> QED  BY <1>1 DEF Pool

\* A request takes a connection.
LEMMA ConnectionTaken ==
  ASSUME Pool, free > 0, free' = free - 1, NEW q \in Requests, q \notin Holding, q \in Holding',
         \A p \in Requests \ {q} : p \in Holding' <=> p \in Holding
  PROVE  Pool'
<1>1. Holding' = Holding \cup {q}  BY DEF Holding
<1>2. Cardinality(Holding') = Cardinality(Holding) + 1
  BY <1>1, HoldingFinite, FS_AddElement
<1> QED  BY <1>2, HoldingFinite, SubmissionUsersAssumption DEF Pool

\* A request gives its connection back.
LEMMA ConnectionReturned ==
  ASSUME Pool, free' = free + 1, NEW q \in Requests, q \in Holding, q \notin Holding',
         \A p \in Requests \ {q} : p \in Holding' <=> p \in Holding
  PROVE  Pool'
<1>1. Holding' = Holding \ {q}  BY DEF Holding
<1>2. Cardinality(Holding') = Cardinality(Holding) - 1 /\ Cardinality(Holding') \in Nat
  <2>1. IsFiniteSet(Holding') /\ Cardinality(Holding') = Cardinality(Holding) - 1
    BY <1>1, HoldingFinite, FS_RemoveElement
  <2> QED  BY <2>1, FS_CardinalityType
<1> QED  BY <1>2, HoldingFinite, SubmissionUsersAssumption DEF Pool

-----------------------------------------------------------------------------
(* The tables                                                              *)

\* The rows that a sign-in inserts are rows.
LEMMA InsertedRows ==
  ASSUME NEW u \in Ids
  PROVE  /\ \A n \in Names :
              /\ UserRow(u, n) \in Row /\ UserRow(u, n).table = "Users"
              /\ UserRow(u, n).uid = u /\ UserRow(u, n).value = n
         /\ \A r \in Roles :
              /\ RoleRow(u, r) \in Row /\ FacetRow(u, r) \in Row
              /\ RoleRow(u, r).uid = u /\ FacetRow(u, r).uid = u
              /\ RoleRow(u, r).table # "Users" /\ FacetRow(u, r).table # "Users"
<1>1. \A n \in Names : UserRow(u, n) \in Row  BY DEF Row, UserRow
<1>2. \A r \in Roles : RoleRow(u, r) \in Row  BY DEF Row, RoleRow
<1>3. \A r \in Roles : FacetTable[r] \in {"Students", "Admins"}  BY DEF FacetTable
<1>4. \A r \in Roles : FacetRow(u, r) \in Row  BY <1>3 DEF Row, FacetRow
<1> QED  BY <1>1, <1>2, <1>3, <1>4 DEF UserRow, RoleRow, FacetRow

LEMMA RowParts ==
  ASSUME NEW row \in Row
  PROVE  /\ row.uid \in Ids /\ row.table \in Children \cup {"Users"}
         /\ row.table = "Users" => row.value \in Names
         /\ row.table = "UserRoles" => row.value \in Roles
  BY DEF Row, Children

\* What an open transaction sees and holds.
LEMMA TransactionTyped ==
  ASSUME TypeOK, NEW q \in Requests
  PROVE  /\ rows \subseteq Row /\ written[q].ins \subseteq Row /\ written[q].del \subseteq Row
         /\ View(q) \subseteq Row
         /\ req[q] \in Request /\ known[q] \subseteq Ids
  BY DEF TypeOK, View

(* A step that leaves ids, names and a refusal of every request as they are. *)
Kept == \A p \in Requests :
          /\ req'[p].uid = req[p].uid /\ req'[p].name = req[p].name
          /\ req[p].answer = "refused" => req'[p].answer = "refused"

\* One that leaves the database alone, too.
LEMMA QuietStep ==
  ASSUME IInv, Kept, UNCHANGED <<rows, written, nextId, known>>
  PROVE  FreshIds' /\ Secret' /\ NamesKept' /\ References'
<1>1. FreshIds'  BY DEF IInv, FreshIds, Kept, IsSignIn
<1>2. Secret'  BY DEF IInv, Secret, Kept, IsSignIn
<1>3. NamesKept'  BY DEF IInv, NamesKept, Kept, IsSignIn, UsersIn
<1>4. References'  BY DEF IInv, References, Closed, View
<1> QED  BY <1>1, <1>2, <1>3, <1>4

\* A commit: what the transaction sees becomes the database.
LEMMA CommitStep ==
  ASSUME IInv, Kept, NEW q \in Requests, CommitOf(q), UNCHANGED <<nextId, known>>
  PROVE  FreshIds' /\ Secret' /\ NamesKept' /\ References'
<1> DEFINE I == written[q].ins
<1> DEFINE D == written[q].del
<1>1. /\ rows' = (rows \cup I) \ D
      /\ written'[q] = Nothing
      /\ \A p \in Requests \ {q} : written'[p] = written[p]
  BY DEF CommitOf, View, IInv, TypeOK
<1>2. \A row \in I : row.uid = req[q].uid /\ row.uid < nextId
  BY DEF IInv, Secret, FreshIds
<1>3. FreshIds'
  BY <1>1, <1>2 DEF IInv, FreshIds, Kept, IsSignIn
<1>4. Secret'
  <2> SUFFICES ASSUME NEW p \in Requests \ {q}, NEW row \in written[p].ins
      PROVE  \A r \in rows' : r.uid # row.uid
    BY <1>1 DEF IInv, Secret, Kept, IsSignIn, Nothing
  <2>1. req[p].uid # req[q].uid \/ I = {}
    <3> SUFFICES ASSUME NEW w \in I PROVE req[p].uid # req[q].uid  OBVIOUS
    <3>1. IsSignIn(p) /\ IsSignIn(q)  BY DEF IInv, Stages, Stage
    <3>2. req[q].uid # 0
      <4>1. w \in Row  BY TransactionTyped DEF IInv
      <4>2. w.uid = req[q].uid  BY <1>2
      <4> QED  BY <4>1, <4>2, RowParts, SubmissionUsersAssumption DEF Ids
    <3> QED  BY <3>1, <3>2 DEF IInv, FreshIds
  <2> QED  BY <1>1, <1>2, <2>1 DEF IInv, Secret
<1>5. NamesKept'
  <2>1. \A r \in UsersIn(rows') : r \in UsersIn(rows) \/ (r \in I /\ r.table = "Users")
    BY <1>1 DEF UsersIn
  <2>2. \A r \in I : r.table = "Users" => r.value = req[q].name  BY DEF IInv, Secret
  <2>3. \A r, w \in UsersIn(rows') : r.uid = w.uid => r = w
    <3> SUFFICES ASSUME NEW r \in UsersIn(rows'), NEW w \in UsersIn(rows'), r.uid = w.uid
        PROVE  r = w
      OBVIOUS
    <3>1. CASE r \in UsersIn(rows) /\ w \in UsersIn(rows)  BY <3>1 DEF IInv, NamesKept
    <3>2. CASE r \in I /\ w \in UsersIn(rows)  BY <3>2 DEF IInv, Secret, UsersIn
    <3>3. CASE r \in UsersIn(rows) /\ w \in I  BY <3>3 DEF IInv, Secret, UsersIn
    <3>4. CASE r \in I /\ w \in I
      <4>1. r.table = "Users" /\ w.table = "Users"  BY DEF UsersIn
      <4>2. r.value = w.value /\ r \in Row /\ w \in Row
        BY <2>2, <3>4, <4>1, TransactionTyped DEF IInv
      <4> QED  BY <4>1, <4>2 DEF Row
    <3> QED  BY <2>1, <3>1, <3>2, <3>3, <3>4
  <2>4. ASSUME NEW p \in Requests, IsSignIn(p), NEW r \in UsersIn(rows')
        PROVE  /\ r.uid = req[p].uid => r.value = req[p].name
               /\ r.uid \in known[p] /\ req[p].answer # "refused" => r.value # req[p].name
    <3>1. CASE r \in UsersIn(rows)  BY <2>4, <3>1 DEF IInv, NamesKept
    <3>2. CASE r \in I /\ r.table = "Users"
      <4>1. r.uid \notin known[p] /\ r.value = req[q].name /\ r.uid = req[q].uid
        BY <3>2 DEF IInv, Secret
      <4>2. IsSignIn(q)  BY <3>2 DEF IInv, Stages, Stage
      <4>3. r.uid # 0
        BY <3>2, TransactionTyped, RowParts, SubmissionUsersAssumption DEF IInv, Ids
      <4>4. r.uid = req[p].uid => p = q  BY <2>4, <4>1, <4>2, <4>3 DEF IInv, FreshIds
      <4> QED  BY <4>1, <4>4
    <3> QED  BY <2>1, <3>1, <3>2
  <2> QED  BY <2>3, <2>4 DEF NamesKept, Kept, IsSignIn
<1>6. References'
  <2>1. Closed(rows')  BY DEF CommitOf, IInv, References
  <2>2. ASSUME NEW p \in Requests PROVE Closed(View(p)')
    <3>1. CASE p = q
      BY <1>1, <2>1, <3>1 DEF View, Nothing
    <3>2. CASE p # q
      <4>1. View(p)' = (rows' \cup written[p].ins) \ written[p].del  BY <1>1, <3>2 DEF View
      <4> SUFFICES ASSUME NEW c \in View(p)'
          PROVE  \E w \in View(p)' : w.table = "Users" /\ w.uid = c.uid
        BY DEF Closed
      <4>2. CASE c \in written[p].ins
        <5>1. UserRow(req[p].uid, req[p].name) \in written[p].ins /\ written[p].del = {}
          BY <4>2 DEF IInv, Stages, Stage
        <5>2. c.uid = req[p].uid  BY <4>2 DEF IInv, Secret
        <5> QED  BY <4>1, <5>1, <5>2 DEF UserRow
      <4>3. CASE c \in I
        <5>1. UserRow(req[q].uid, req[q].name) \in I /\ D = {} /\ c.uid = req[q].uid
          BY <4>3 DEF IInv, Stages, Stage, Secret
        <5>2. written[p].del # {} => req[p].uid # req[q].uid
          BY <4>3, <5>1 DEF IInv, Stages, Stage, Secret
        <5>3. UserRow(req[q].uid, req[q].name) \notin written[p].del
          BY <5>2 DEF IInv, Stages, Stage, UserRow
        <5> QED  BY <1>1, <4>1, <5>1, <5>3 DEF UserRow
      <4>4. CASE c \in rows /\ c \notin D /\ c \notin written[p].del
        <5>1. PICK w \in View(q) : w.table = "Users" /\ w.uid = c.uid
          BY <4>4 DEF IInv, References, Closed, View
        <5>2. PICK v \in View(p) : v.table = "Users" /\ v.uid = c.uid
          BY <4>4 DEF IInv, References, Closed, View
        <5>3. w \in rows /\ v \in rows  BY <4>4, <5>1, <5>2 DEF IInv, Secret, View
        <5>4. w = v  BY <5>1, <5>2, <5>3 DEF IInv, NamesKept, UsersIn
        <5>5. w \notin D /\ w \notin written[p].del  BY <5>1, <5>2, <5>4 DEF View
        <5> QED  BY <1>1, <4>1, <5>1, <5>3, <5>5
      <4> QED  BY <1>1, <4>1, <4>2, <4>3, <4>4
    <3> QED  BY <3>1, <3>2
  <2> QED  BY <2>1, <2>2 DEF References
<1> QED  BY <1>3, <1>4, <1>5, <1>6

\* A rollback.
LEMMA RollbackStep ==
  ASSUME IInv, Kept, NEW q \in Requests, written' = [written EXCEPT ![q] = Nothing],
         UNCHANGED <<rows, nextId, known>>
  PROVE  FreshIds' /\ Secret' /\ NamesKept' /\ References'
<1>1. written'[q] = Nothing /\ \A p \in Requests \ {q} : written'[p] = written[p]
  BY DEF IInv, TypeOK
<1>2. FreshIds'  BY DEF IInv, FreshIds, Kept, IsSignIn
<1>3. Secret'  BY <1>1 DEF IInv, Secret, Kept, IsSignIn, Nothing
<1>4. NamesKept'  BY DEF IInv, NamesKept, Kept, IsSignIn, UsersIn
<1>5. View(q)' = rows /\ \A p \in Requests \ {q} : View(p)' = View(p)
  BY <1>1 DEF View, Nothing
<1>6. References'
  <2>1. Closed(rows') /\ \A p \in Requests : Closed(View(p)')
    BY <1>5 DEF IInv, References, Closed
  <2> QED  BY <2>1 DEF References
<1> QED  BY <1>2, <1>3, <1>4, <1>6

\* A sign-in inserts a facet or a role.
LEMMA InsertStep ==
  ASSUME IInv, Kept, NEW q \in Requests, NEW row \in Row, row.uid = req[q].uid,
         row.table # "Users", Write(q, {row}, {}), UNCHANGED <<rows, nextId, known>>,
         UserRow(req[q].uid, req[q].name) \in written[q].ins
  PROVE  FreshIds' /\ Secret' /\ NamesKept' /\ References'
<1>1. /\ written'[q].ins = written[q].ins \cup {row}
      /\ written'[q].del = written[q].del /\ written[q].del = {}
      /\ \A p \in Requests \ {q} : written'[p] = written[p]
  BY DEF Write, IInv, TypeOK, Stages, Stage
<1>2. FreshIds'  BY DEF IInv, FreshIds, Kept, IsSignIn
<1>3. UserRow(req[q].uid, req[q].name).uid = row.uid  BY DEF UserRow
<1>4. Secret'  BY <1>1, <1>3 DEF IInv, Secret, Kept, IsSignIn
<1>5. NamesKept'  BY DEF IInv, NamesKept, Kept, IsSignIn, UsersIn
<1>6. View(q)' = View(q) \cup {row} /\ \A p \in Requests \ {q} : View(p)' = View(p)
  BY <1>1 DEF View
<1>7. UserRow(req[q].uid, req[q].name) \in View(q)  BY <1>1 DEF View
<1>8. References'
  <2>1. Closed(View(q)')  BY <1>3, <1>6, <1>7 DEF IInv, References, Closed, UserRow
  <2>2. Closed(rows') /\ \A p \in Requests \ {q} : Closed(View(p)')
    BY <1>6 DEF IInv, References, Closed
  <2> QED  BY <2>1, <2>2 DEF References
<1> QED  BY <1>2, <1>4, <1>5, <1>8

\* A deletion deletes rows of its user, and the user last.
LEMMA DeleteStep ==
  ASSUME IInv, Kept, NEW q \in Requests, ~IsSignIn(q), NEW tables,
         Write(q, {}, Of(View(q), tables, req[q].uid)), UNCHANGED <<rows, nextId, known>>,
         "Users" \in tables => Of(View(q), Children, req[q].uid) = {}
  PROVE  /\ FreshIds' /\ Secret' /\ NamesKept' /\ References'
         /\ written'[q].ins = {}
         /\ written'[q].del = written[q].del \cup Of(View(q), tables, req[q].uid)
         /\ \A p \in Requests \ {q} : written'[p] = written[p]
         /\ View(q)' = View(q) \ Of(View(q), tables, req[q].uid)
<1> DEFINE D == Of(View(q), tables, req[q].uid)
<1>1. /\ written'[q].ins = {} /\ written[q].ins = {}
      /\ written'[q].del = written[q].del \cup D
      /\ \A p \in Requests \ {q} : written'[p] = written[p]
  BY DEF Write, IInv, TypeOK, Stages, Stage
<1>2. FreshIds'  BY DEF IInv, FreshIds, Kept, IsSignIn
<1>3. Secret'  BY <1>1 DEF IInv, Secret, Kept, IsSignIn
<1>4. NamesKept'  BY DEF IInv, NamesKept, Kept, IsSignIn, UsersIn
<1>5. View(q)' = View(q) \ D /\ \A p \in Requests \ {q} : View(p)' = View(p)
  BY <1>1 DEF View
<1>6. References'
  <2>1. ASSUME NEW c \in View(q) \ D
        PROVE  \E w \in View(q) \ D : w.table = "Users" /\ w.uid = c.uid
    <3>1. PICK w \in View(q) : w.table = "Users" /\ w.uid = c.uid
      BY DEF IInv, References, Closed
    <3>2. ASSUME w \in D PROVE FALSE
      <4>1. "Users" \in tables /\ c.uid = req[q].uid  BY <3>1, <3>2 DEF Of
      <4>2. c.table \in Children \cup {"Users"}  BY TransactionTyped, RowParts DEF IInv
      <4>3. c.table \notin Children  BY <4>1 DEF Of
      <4> QED  BY <4>1, <4>2, <4>3 DEF Of
    <3> QED  BY <3>1, <3>2
  <2>2. Closed(View(q)')  BY <1>5, <2>1 DEF Closed
  <2>3. Closed(rows') /\ \A p \in Requests \ {q} : Closed(View(p)')
    BY <1>5 DEF IInv, References, Closed
  <2> QED  BY <2>2, <2>3 DEF References
<1> QED  BY <1>1, <1>2, <1>3, <1>4, <1>5, <1>6

-----------------------------------------------------------------------------
(* The requests that do not move                                           *)

(* Request q moves, to where point says, and the others stay.              *)
Moves(q, point) == /\ req' \in [Requests -> Request] /\ req'[q].at = point
                   /\ \A p \in Requests \ {q} : req'[p] = req[p]

\* The request that moves becomes another record.
LEMMA RequestMoves ==
  ASSUME TypeOK, NEW q \in Requests, NEW r \in Request, req' = [req EXCEPT ![q] = r]
  PROVE  Moves(q, r.at) /\ req'[q] = r
  BY DEF TypeOK, Moves

LEMMA GotoMoves ==
  ASSUME TypeOK, NEW q \in Requests, NEW point \in Points, Goto(q, point)
  PROVE  /\ Moves(q, point)
         /\ req'[q].uid = req[q].uid /\ req'[q].name = req[q].name
         /\ req'[q].roles = req[q].roles /\ req'[q].answer = req[q].answer
<1> DEFINE r == [req[q] EXCEPT !.at = point]
<1>1. r \in Request /\ r.at = point  BY TransactionTyped DEF Request
<1>2. req' = [req EXCEPT ![q] = r]  BY DEF Goto
<1>3. /\ r.uid = req[q].uid /\ r.name = req[q].name
      /\ r.roles = req[q].roles /\ r.answer = req[q].answer
  BY TransactionTyped DEF Request
<1> HIDE DEF r
<1> QED  BY <1>1, <1>2, <1>3, RequestMoves

LEMMA AnswerMoves ==
  ASSUME TypeOK, NEW q \in Requests, NEW what \in {"ok", "refused", "failed"}, Answer(q, what)
  PROVE  /\ Moves(q, "answered") /\ req'[q].answer = what
         /\ req'[q].uid = req[q].uid /\ req'[q].name = req[q].name
<1> DEFINE r == [req[q] EXCEPT !.at = "answered", !.answer = what]
<1>1. r \in Request /\ r.at = "answered" /\ r.answer = what
  BY TransactionTyped DEF Request, Points
<1>2. req' = [req EXCEPT ![q] = r]  BY DEF Answer
<1>3. r.uid = req[q].uid /\ r.name = req[q].name
  BY TransactionTyped DEF Request
<1> HIDE DEF r
<1> QED  BY <1>1, <1>2, <1>3, RequestMoves

\* Only the request that moves has to be looked at.
LEMMA OthersStay ==
  ASSUME IInv, NEW q \in Requests, NEW point, Moves(q, point),
         \A p \in Requests \ {q} : written'[p] = written[p] /\ known'[p] = known[p],
         Stage(q)'
  PROVE  Stages'
<1>1. \A p \in Requests \ {q} : Stage(p)'
  BY DEF IInv, Stages, Stage, Moves, IsSignIn
<1> QED  BY <1>1 DEF Stages

\* A deletion that stays has left what it left.
LEMMA OthersDeleted ==
  ASSUME IInv, NEW q \in Requests, NEW point, Moves(q, point), rows' = rows,
         \A p \in Requests \ {q} : written'[p] = written[p],
         ~IsSignIn(q)' =>
           /\ point = "commit" => Of(View(q), Children \cup {"Users"}, req[q].uid)' = {}
           /\ point = "answered" /\ req'[q].answer = "ok" =>
                Of(rows, Children \cup {"Users"}, req[q].uid)' = {}
  PROVE  Deletions'
<1>1. \A p \in Requests \ {q} : View(p)' = View(p)  BY DEF View
<1>2. ASSUME NEW p \in Requests \ {q}, ~IsSignIn(p)'
      PROVE  /\ At(p, "commit")' => Of(View(p), Children \cup {"Users"}, req[p].uid)' = {}
             /\ At(p, "answered")' /\ req'[p].answer = "ok" =>
                  Of(rows, Children \cup {"Users"}, req[p].uid)' = {}
  BY <1>1, <1>2 DEF IInv, Deletions, Moves, IsSignIn, At, Of
<1>3. req'[q].at = point  BY DEF Moves
<1> QED  BY <1>2, <1>3 DEF Deletions, At

\* A commit adds no row of a user that is being deleted.
LEMMA CommitDeleted ==
  ASSUME IInv, NEW q \in Requests, NEW point, Moves(q, point), CommitOf(q), point # "commit",
         ~IsSignIn(q)' /\ point = "answered" /\ req'[q].answer = "ok" =>
           Of(rows, Children \cup {"Users"}, req[q].uid)' = {}
  PROVE  Deletions'
<1>1. ASSUME NEW p \in Requests \ {q}, ~IsSignIn(p)'
      PROVE  /\ At(p, "commit")' => Of(View(p), Children \cup {"Users"}, req[p].uid)' = {}
             /\ At(p, "answered")' /\ req'[p].answer = "ok" =>
                  Of(rows, Children \cup {"Users"}, req[p].uid)' = {}
  <2>1. req'[p] = req[p] /\ ~IsSignIn(p)  BY <1>1 DEF Moves, IsSignIn
  <2>2. \A row \in written[q].ins : row.uid # req[p].uid  BY <2>1 DEF IInv, Secret
  <2>3. rows' \subseteq rows \cup written[q].ins  BY DEF CommitOf, View
  <2>4. written'[p] = written[p]  BY DEF CommitOf, IInv, TypeOK
  <2>5. View(p)' \subseteq View(p) \cup written[q].ins  BY <2>3, <2>4 DEF View
  <2> QED  BY <2>1, <2>2, <2>3, <2>5 DEF IInv, Deletions, At, Of
<1> QED  BY <1>1 DEF Deletions, Moves, At

(* The types of everything but the pool.                                   *)
Typed == /\ rows \subseteq Row
         /\ written \in [Requests -> [ins : SUBSET Row, del : SUBSET Row]]
         /\ nextId \in 1 .. MaxId + 1
         /\ req \in [Requests -> Request]
         /\ known \in [Requests -> SUBSET Ids]
         /\ faults \in 0 .. MaxFaults

LEMMA TypedPool == ASSUME Typed', Pool' PROVE TypeOK'
  BY DEF Typed, Pool, TypeOK, Holding

\* The rows, transactions and ids that a commit leaves behind are typed.
LEMMA CommitTyped ==
  ASSUME TypeOK, NEW q \in Requests, CommitOf(q)
  PROVE  /\ rows' \subseteq Row
         /\ written' \in [Requests -> [ins : SUBSET Row, del : SUBSET Row]]
         /\ written'[q] = Nothing /\ \A p \in Requests \ {q} : written'[p] = written[p]
<1>1. Nothing \in [ins : SUBSET Row, del : SUBSET Row]  BY DEF Nothing
<1> QED  BY <1>1, TransactionTyped DEF CommitOf, TypeOK

\* A write stays among the rows.
LEMMA WriteTyped ==
  ASSUME TypeOK, NEW q \in Requests, NEW ins \in SUBSET Row, NEW del \in SUBSET Row,
         Write(q, ins, del)
  PROVE  written' \in [Requests -> [ins : SUBSET Row, del : SUBSET Row]]
<1> DEFINE w == [ins |-> (written[q].ins \cup ins) \ del, del |-> written[q].del \cup del]
<1>1. w \in [ins : SUBSET Row, del : SUBSET Row]  BY TransactionTyped
<1>2. written' = [written EXCEPT ![q] = w]  BY DEF Write
<1> QED  BY <1>1, <1>2 DEF TypeOK

-----------------------------------------------------------------------------
(* The steps of a sign-in                                                  *)

LEMMA GetStudentRoleKeeps == ASSUME IInv, NEW q \in Requests, GetStudentRole(q) PROVE IInv'
<1>1. At(q, "getStudentRole") /\ Moves(q, "insertUser")
      /\ UNCHANGED <<rows, written, nextId, known, faults>>
  <2>1. "insertUser" \in Points /\ TypeOK  BY DEF Points, InTransaction, IInv
  <2> QED  BY <2>1, GotoMoves DEF GetStudentRole
<1>2. /\ req'[q].uid = req[q].uid /\ req'[q].name = req[q].name
      /\ req'[q].answer = req[q].answer
  <2>1. "insertUser" \in Points /\ TypeOK  BY DEF Points, InTransaction, IInv
  <2> QED  BY <2>1, GotoMoves DEF GetStudentRole
<1>3. Typed'  BY <1>1 DEF IInv, TypeOK, Typed, Moves
<1>4. Pool'
  <2>1. Pool  BY PoolIsTyped DEF IInv
  <2> QED  BY <1>1, <2>1, ConnectionTaken DEF GetStudentRole, Holding, Moves, At, InTransaction
<1>5. Stages'
  <2>1. Stage(q)'  BY <1>1, <1>2 DEF IInv, Stages, Stage, IsSignIn, At, Moves
  <2> QED  BY <1>1, <2>1, OthersStay
<1>6. FreshIds' /\ Secret' /\ NamesKept' /\ References'
  <2>1. Kept  BY <1>1, <1>2 DEF Kept, Moves
  <2> QED  BY <1>1, <2>1, QuietStep
<1>7. Deletions'  BY <1>1, OthersDeleted
<1> QED  BY <1>3, <1>4, <1>5, <1>6, <1>7, TypedPool DEF IInv

LEMMA FacetsDoneKeeps == ASSUME IInv, NEW q \in Requests, FacetsDone(q) PROVE IInv'
<1>1. At(q, "deleteFacets") /\ Moves(q, "deleteRoles")
      /\ UNCHANGED <<rows, written, nextId, known, faults>>
  <2>1. "deleteRoles" \in Points /\ TypeOK  BY DEF Points, InTransaction, IInv
  <2> QED  BY <2>1, GotoMoves DEF FacetsDone
<1>2. /\ req'[q].uid = req[q].uid /\ req'[q].name = req[q].name
      /\ req'[q].answer = req[q].answer
  <2>1. "deleteRoles" \in Points /\ TypeOK  BY DEF Points, InTransaction, IInv
  <2> QED  BY <2>1, GotoMoves DEF FacetsDone
<1>3. Typed'  BY <1>1 DEF IInv, TypeOK, Typed, Moves
<1>4. Pool'
  <2>1. Pool  BY PoolIsTyped DEF IInv
  <2> QED  BY <1>1, <2>1, PoolUntouched DEF FacetsDone, Holding, Moves, At, InTransaction
<1>5. Stages'
  <2>1. Stage(q)'  BY <1>1, <1>2 DEF IInv, Stages, Stage, IsSignIn, At, Moves
  <2> QED  BY <1>1, <2>1, OthersStay
<1>6. FreshIds' /\ Secret' /\ NamesKept' /\ References'
  <2>1. Kept  BY <1>1, <1>2 DEF Kept, Moves
  <2> QED  BY <1>1, <2>1, QuietStep
<1>7. Deletions'  BY <1>1, OthersDeleted
<1> QED  BY <1>3, <1>4, <1>5, <1>6, <1>7, TypedPool DEF IInv

LEMMA SignInKeeps == ASSUME IInv, NEW q \in Requests, SignIn(q) PROVE IInv'
<1>0. PICK n \in Names : req' = [req EXCEPT ![q].at = "existsUserName", ![q].name = n]
  BY DEF SignIn
<1> DEFINE r == [req[q] EXCEPT !.at = "existsUserName", !.name = n]
<1>1. At(q, "idle") /\ Moves(q, "existsUserName")
      /\ UNCHANGED <<rows, written, nextId, free, known, faults>>
  <2>1. r \in Request /\ r.at = "existsUserName" /\ req' = [req EXCEPT ![q] = r]
    BY <1>0, TransactionTyped DEF IInv, Request, Points
  <2> HIDE DEF r
  <2>2. TypeOK  BY DEF IInv
  <2>3. Moves(q, "existsUserName")  BY <2>1, <2>2, RequestMoves
  <2> QED  BY <2>3 DEF SignIn
<1>2. req'[q].uid = req[q].uid /\ req'[q].name = n /\ req'[q].answer = req[q].answer
  BY <1>0, TransactionTyped DEF IInv, TypeOK, Request
<1>3. Typed'  BY <1>1 DEF IInv, TypeOK, Typed, Moves
<1>4. Pool'
  <2>1. Pool  BY PoolIsTyped DEF IInv
  <2> QED  BY <1>1, <2>1, PoolUntouched DEF Holding, Moves, At, InTransaction
<1>5. Stages'
  <2>1. n # "-"  BY SubmissionUsersAssumption
  <2>2. Stage(q)'  BY <1>1, <1>2, <2>1 DEF IInv, Stages, Stage, IsSignIn, At, Moves, Nothing
  <2> QED  BY <1>1, <2>2, OthersStay
<1>6. req[q].uid = 0 /\ known[q] = {} /\ written[q] = Nothing /\ ~IsSignIn(q)
  BY <1>1 DEF IInv, Stages, Stage, At
<1>7. FreshIds'  BY <1>1, <1>2, <1>6 DEF IInv, FreshIds, IsSignIn, Moves
<1>8. Secret'
  BY <1>1, <1>2, <1>6 DEF IInv, Secret, IsSignIn, Moves, Nothing
<1>9. NamesKept'
  <2>1. \A row \in UsersIn(rows) : row.uid # 0
    BY TransactionTyped, RowParts, SubmissionUsersAssumption DEF IInv, UsersIn, Ids
  <2> QED  BY <1>1, <1>2, <1>6, <2>1 DEF IInv, NamesKept, IsSignIn, Moves, UsersIn
<1>10. References'  BY <1>1 DEF IInv, References, Closed, View
<1>11. Deletions'  BY <1>1, OthersDeleted
<1> QED  BY <1>3, <1>4, <1>5, <1>7, <1>8, <1>9, <1>10, <1>11, TypedPool DEF IInv

LEMMA ExistsUserNameKeeps == ASSUME IInv, NEW q \in Requests, ExistsUserName(q) PROVE IInv'
<1> DEFINE ids == {row.uid : row \in UsersIn(rows)}
<1>1. /\ At(q, "existsUserName") /\ known' = [known EXCEPT ![q] = ids]
      /\ UNCHANGED <<rows, written, nextId, free, faults>>
  BY DEF ExistsUserName
<1>2. /\ \/ NameTaken(req[q].name) /\ Moves(q, "answered") /\ req'[q].answer = "refused"
         \/ ~NameTaken(req[q].name) /\ Moves(q, "getStudentRole")
            /\ req'[q].answer = req[q].answer
      /\ req'[q].uid = req[q].uid /\ req'[q].name = req[q].name
  <2>1. TypeOK /\ "getStudentRole" \in Points  BY DEF IInv, Points
  <2>2. CASE NameTaken(req[q].name)
    BY <2>1, <2>2, AnswerMoves DEF ExistsUserName
  <2>3. CASE ~NameTaken(req[q].name)
    BY <2>1, <2>3, GotoMoves DEF ExistsUserName
  <2> QED  BY <2>2, <2>3
<1>3. /\ known'[q] = ids /\ ids \subseteq Ids
      /\ \A p \in Requests \ {q} : known'[p] = known[p]
  <2>1. ids \subseteq Ids  BY TransactionTyped, RowParts DEF IInv, UsersIn
  <2> QED  BY <1>1, <2>1 DEF IInv, TypeOK
<1>4. Typed'  BY <1>1, <1>2, <1>3 DEF IInv, TypeOK, Typed, Moves
<1>5. Pool'
  <2>1. Pool  BY PoolIsTyped DEF IInv
  <2> QED  BY <1>1, <1>2, <2>1, PoolUntouched DEF Holding, Moves, At, InTransaction
<1>6. Stages'
  <2>1. Stage(q)'  BY <1>1, <1>2 DEF IInv, Stages, Stage, IsSignIn, At, Moves
  <2> QED  BY <1>1, <1>2, <1>3, <2>1, OthersStay
<1>7. \A p \in Requests : req'[p].uid = req[p].uid /\ req'[p].name = req[p].name
  BY <1>2 DEF Moves
<1>8. FreshIds'
  BY <1>1, <1>3, <1>7 DEF IInv, FreshIds, IsSignIn, UsersIn
<1>9. Secret'
  <2>1. \A p \in Requests : \A row \in written[p].ins : row.uid \notin ids
    BY DEF IInv, Secret, UsersIn
  <2> QED  BY <1>1, <1>3, <1>7, <2>1 DEF IInv, Secret, IsSignIn
<1>10. NamesKept'
  <2>1. ASSUME req'[q].answer # "refused", NEW w \in UsersIn(rows) PROVE w.value # req[q].name
    BY <1>2, <2>1 DEF NameTaken
  <2>2. \A p \in Requests \ {q} : req'[p] = req[p]  BY <1>2 DEF Moves
  <2> QED  BY <1>1, <1>3, <1>7, <2>1, <2>2 DEF IInv, NamesKept, IsSignIn, UsersIn
<1>11. References'  BY <1>1 DEF IInv, References, Closed, View
<1>12. Deletions'
  <2>1. IsSignIn(q)'  BY <1>1, <1>7 DEF IInv, Stages, Stage, IsSignIn, At
  <2> QED  BY <1>1, <1>2, <2>1, OthersDeleted
<1> QED
  BY <1>4, <1>5, <1>6, <1>8, <1>9, <1>10, <1>11, <1>12, TypedPool DEF IInv

LEMMA InsertUserKeeps == ASSUME IInv, NEW q \in Requests, InsertUser(q) PROVE IInv'
<1> DEFINE row == UserRow(nextId, req[q].name)
<1> DEFINE r == [req[q] EXCEPT !.at = "insertStudentFacet", !.uid = nextId]
<1>1. /\ At(q, "insertUser") /\ nextId \in Ids /\ nextId' = nextId + 1
      /\ Write(q, {row}, {}) /\ UNCHANGED <<rows, free, known, faults>>
  BY DEF InsertUser
<1>2. IsSignIn(q) /\ written[q].ins = {} /\ written[q].del = {} /\ req[q].uid = 0
  <2>1. IsSignIn(q) /\ req[q].uid = 0 /\ written[q].del = {}
    BY <1>1 DEF IInv, Stages, Stage, At
  <2>2. \A w \in written[q].ins : w.uid = 0  BY <2>1 DEF IInv, Secret
  <2>3. \A w \in written[q].ins : w.uid # 0
    BY TransactionTyped, RowParts, SubmissionUsersAssumption DEF IInv, Ids
  <2> QED  BY <2>1, <2>2, <2>3
<1>3. req[q].name \in Names /\ row \in Row /\ row.uid = nextId /\ row.value = req[q].name
  <2>1. req[q].name \in Names  BY <1>2, TransactionTyped DEF IInv, IsSignIn, Request
  <2> QED  BY <1>1, <2>1, InsertedRows
<1>4. /\ Moves(q, "insertStudentFacet")
      /\ req'[q].uid = nextId /\ req'[q].name = req[q].name /\ req'[q].answer = req[q].answer
  <2>1. r \in Request /\ r.at = "insertStudentFacet" /\ req' = [req EXCEPT ![q] = r]
    BY <1>1, TransactionTyped DEF InsertUser, IInv, Request, Points, InTransaction
  <2>2. r.uid = nextId /\ r.name = req[q].name /\ r.answer = req[q].answer
    BY TransactionTyped DEF IInv, Request
  <2> HIDE DEF r
  <2> QED  BY <2>1, <2>2, RequestMoves DEF IInv
<1>5. /\ written'[q].ins = {row} /\ written'[q].del = {}
      /\ \A p \in Requests \ {q} : written'[p] = written[p]
  BY <1>1, <1>2 DEF Write, IInv, TypeOK
<1>6. Typed'
  <2>1. written' \in [Requests -> [ins : SUBSET Row, del : SUBSET Row]]
    <3>1. {row} \in SUBSET Row /\ {} \in SUBSET Row /\ TypeOK  BY <1>3 DEF IInv
    <3> HIDE DEF row
    <3> QED  BY <1>1, <3>1, WriteTyped
  <2>2. nextId' \in 1 .. MaxId + 1  BY <1>1, SubmissionUsersAssumption DEF Ids
  <2> QED  BY <1>1, <1>4, <2>1, <2>2 DEF IInv, TypeOK, Typed, Moves
<1>7. Pool'
  <2>1. Pool  BY PoolIsTyped DEF IInv
  <2> QED  BY <1>1, <1>4, <2>1, PoolUntouched DEF Holding, Moves, At, InTransaction
<1>8. Stages'
  <2>1. Stage(q)'
    BY <1>1, <1>2, <1>4, <1>5 DEF IInv, Stages, Stage, IsSignIn, At, Moves, Ids
  <2> QED  BY <1>1, <1>4, <1>5, <2>1, OthersStay
<1>9. \A p \in Requests : req[p].uid \in Nat /\ req[p].uid < nextId /\ nextId \in Nat
  BY TransactionTyped DEF IInv, FreshIds, TypeOK, Request, Ids
<1>10. FreshIds'
  <2>1. \A w \in rows : w.uid \in Nat  BY TransactionTyped, RowParts DEF IInv, Ids
  <2>2. \A p \in Requests : \A u \in known[p] : u \in Nat  BY TransactionTyped DEF IInv, Ids
  <2>3. \A w \in rows : w.uid < nextId'  BY <1>1, <1>9, <2>1 DEF IInv, FreshIds
  <2>4. \A p \in Requests : req'[p].uid < nextId' /\ \A u \in known[p] : u < nextId'
    BY <1>1, <1>4, <1>9, <2>2 DEF IInv, FreshIds, Moves
  <2>5. \A p \in Requests \ {q} : req'[p].uid # nextId  BY <1>4, <1>9 DEF Moves
  <2> QED  BY <1>1, <1>4, <2>3, <2>4, <2>5 DEF IInv, FreshIds, IsSignIn, Moves
<1>11. Secret'
  <2>1. \A w \in rows : w.uid # nextId
    BY <1>9, TransactionTyped, RowParts DEF IInv, FreshIds, Ids
  <2>2. \A p \in Requests : nextId \notin known[p]
    BY <1>9, TransactionTyped DEF IInv, FreshIds, Ids
  <2>3. \A p \in Requests \ {q} : req'[p] = req[p] /\ req[p].uid # nextId
    BY <1>4, <1>9 DEF Moves
  <2>4. \A p \in Requests \ {q} : \A w \in written[p].ins : w.uid # 0 /\ w.uid # nextId
    BY <1>9, TransactionTyped, RowParts, SubmissionUsersAssumption DEF IInv, Secret, Ids
  <2>5. IsSignIn(q)'  BY <1>2, <1>4 DEF IsSignIn
  <2> QED
    BY <1>1, <1>3, <1>4, <1>5, <2>1, <2>2, <2>3, <2>4, <2>5 DEF IInv, Secret, IsSignIn
<1>12. NamesKept'
  <2>1. \A w \in UsersIn(rows) : w.uid # nextId
    BY <1>9, TransactionTyped, RowParts DEF IInv, FreshIds, Ids, UsersIn
  <2> QED  BY <1>1, <1>4, <2>1 DEF IInv, NamesKept, IsSignIn, Moves, UsersIn
<1>13. References'
  <2>1. View(q)' = rows \cup {row} /\ \A p \in Requests \ {q} : View(p)' = View(p)
    BY <1>1, <1>5 DEF View
  <2>2. Closed(View(q)')  BY <1>3, <2>1 DEF IInv, References, Closed, UserRow
  <2>3. Closed(rows') /\ \A p \in Requests \ {q} : Closed(View(p)')
    BY <1>1, <2>1 DEF IInv, References, Closed
  <2> QED  BY <2>2, <2>3 DEF References
<1>14. Deletions'
  BY <1>1, <1>4, <1>5, OthersDeleted
<1> QED
  BY <1>6, <1>7, <1>8, <1>10, <1>11, <1>12, <1>13, <1>14, TypedPool DEF IInv

LEMMA InsertStudentFacetKeeps == ASSUME IInv, NEW q \in Requests, InsertStudentFacet(q) PROVE IInv'
<1> DEFINE row == FacetRow(req[q].uid, "Student")
<1>1. /\ At(q, "insertStudentFacet") /\ Moves(q, "insertStudentRole")
      /\ Write(q, {row}, {}) /\ UNCHANGED <<rows, nextId, free, known, faults>>
      /\ req'[q].uid = req[q].uid /\ req'[q].name = req[q].name
      /\ req'[q].answer = req[q].answer
  <2>1. "insertStudentRole" \in Points /\ TypeOK  BY DEF Points, InTransaction, IInv
  <2> QED  BY <2>1, GotoMoves DEF InsertStudentFacet
<1>2. /\ IsSignIn(q) /\ req[q].uid \in Ids
      /\ UserRow(req[q].uid, req[q].name) \in written[q].ins /\ written[q].del = {}
  BY <1>1, TransactionTyped DEF IInv, Stages, Stage, At, Request
<1>3. row \in Row /\ row.uid = req[q].uid /\ row.table # "Users"
  BY <1>2, InsertedRows DEF Roles
<1>4. /\ written'[q].ins = written[q].ins \cup {row} /\ written'[q].del = {}
      /\ \A p \in Requests \ {q} : written'[p] = written[p]
  BY <1>1, <1>2 DEF Write, IInv, TypeOK
<1>5. Typed'
  <2>1. written' \in [Requests -> [ins : SUBSET Row, del : SUBSET Row]]
    <3>1. {row} \in SUBSET Row /\ {} \in SUBSET Row /\ TypeOK  BY <1>3 DEF IInv
    <3> HIDE DEF row
    <3> QED  BY <1>1, <3>1, WriteTyped
  <2> QED  BY <1>1, <2>1 DEF IInv, TypeOK, Typed, Moves
<1>6. Pool'
  <2>1. Pool  BY PoolIsTyped DEF IInv
  <2> QED  BY <1>1, <2>1, PoolUntouched DEF Holding, Moves, At, InTransaction
<1>7. Stages'
  <2>1. Stage(q)'
    BY <1>1, <1>2, <1>4 DEF IInv, Stages, Stage, IsSignIn, At, Moves
  <2> QED  BY <1>1, <1>4, <2>1, OthersStay
<1>8. FreshIds' /\ Secret' /\ NamesKept' /\ References'
  <2>1. Kept  BY <1>1 DEF Kept, Moves
  <2> QED  BY <1>1, <1>2, <1>3, <2>1, InsertStep
<1>9. Deletions'
  <2>1. IsSignIn(q)'  BY <1>1, <1>2 DEF IsSignIn
  <2> QED  BY <1>1, <1>4, <2>1, OthersDeleted
<1> QED  BY <1>5, <1>6, <1>7, <1>8, <1>9, TypedPool DEF IInv

LEMMA InsertStudentRoleKeeps == ASSUME IInv, NEW q \in Requests, InsertStudentRole(q) PROVE IInv'
<1> DEFINE row == RoleRow(req[q].uid, "Student")
<1>1. /\ At(q, "insertStudentRole") /\ Moves(q, "commit")
      /\ Write(q, {row}, {}) /\ UNCHANGED <<rows, nextId, free, known, faults>>
      /\ req'[q].uid = req[q].uid /\ req'[q].name = req[q].name
      /\ req'[q].answer = req[q].answer
  <2>1. "commit" \in Points /\ TypeOK  BY DEF Points, InTransaction, IInv
  <2> QED  BY <2>1, GotoMoves DEF InsertStudentRole
<1>2. /\ IsSignIn(q) /\ req[q].uid \in Ids
      /\ UserRow(req[q].uid, req[q].name) \in written[q].ins /\ written[q].del = {}
  BY <1>1, TransactionTyped DEF IInv, Stages, Stage, At, Request
<1>3. row \in Row /\ row.uid = req[q].uid /\ row.table # "Users"
  BY <1>2, InsertedRows DEF Roles
<1>4. /\ written'[q].ins = written[q].ins \cup {row} /\ written'[q].del = {}
      /\ \A p \in Requests \ {q} : written'[p] = written[p]
  BY <1>1, <1>2 DEF Write, IInv, TypeOK
<1>5. Typed'
  <2>1. written' \in [Requests -> [ins : SUBSET Row, del : SUBSET Row]]
    <3>1. {row} \in SUBSET Row /\ {} \in SUBSET Row /\ TypeOK  BY <1>3 DEF IInv
    <3> HIDE DEF row
    <3> QED  BY <1>1, <3>1, WriteTyped
  <2> QED  BY <1>1, <2>1 DEF IInv, TypeOK, Typed, Moves
<1>6. Pool'
  <2>1. Pool  BY PoolIsTyped DEF IInv
  <2> QED  BY <1>1, <2>1, PoolUntouched DEF Holding, Moves, At, InTransaction
<1>7. Stages'
  <2>1. Stage(q)'
    BY <1>1, <1>2, <1>4 DEF IInv, Stages, Stage, IsSignIn, At, Moves
  <2> QED  BY <1>1, <1>4, <2>1, OthersStay
<1>8. FreshIds' /\ Secret' /\ NamesKept' /\ References'
  <2>1. Kept  BY <1>1 DEF Kept, Moves
  <2> QED  BY <1>1, <1>2, <1>3, <2>1, InsertStep
<1>9. Deletions'
  <2>1. IsSignIn(q)'  BY <1>1, <1>2 DEF IsSignIn
  <2> QED  BY <1>1, <1>4, <2>1, OthersDeleted
<1> QED  BY <1>5, <1>6, <1>7, <1>8, <1>9, TypedPool DEF IInv

LEMMA LoginKeeps == ASSUME IInv, NEW q \in Requests, Login(q) PROVE IInv'
<1>1. /\ At(q, "login") /\ Moves(q, "answered") /\ req'[q].answer \in {"ok", "failed"}
      /\ req'[q].uid = req[q].uid /\ req'[q].name = req[q].name
      /\ UNCHANGED <<rows, written, nextId, free, known, faults>>
  <2>1. PICK what \in {"ok", "failed"} : Answer(q, what)  BY DEF Login
  <2>2. TypeOK /\ what \in {"ok", "refused", "failed"}  BY DEF IInv
  <2> QED  BY <2>1, <2>2, AnswerMoves DEF Login
<1>2. IsSignIn(q) /\ req[q].answer = "-"  BY <1>1 DEF IInv, Stages, Stage, At
<1>3. Typed'  BY <1>1 DEF IInv, TypeOK, Typed, Moves
<1>4. Pool'
  <2>1. Pool  BY PoolIsTyped DEF IInv
  <2> QED  BY <1>1, <2>1, PoolUntouched DEF Holding, Moves, At, InTransaction
<1>5. Stages'
  <2>1. Stage(q)'  BY <1>1, <1>2 DEF IInv, Stages, Stage, IsSignIn, At, Moves
  <2> QED  BY <1>1, <2>1, OthersStay
<1>6. FreshIds' /\ Secret' /\ NamesKept' /\ References'
  <2>1. Kept  BY <1>1, <1>2 DEF Kept, Moves
  <2> QED  BY <1>1, <2>1, QuietStep
<1>7. Deletions'
  <2>1. IsSignIn(q)'  BY <1>1, <1>2 DEF IsSignIn
  <2> QED  BY <1>1, <2>1, OthersDeleted
<1> QED  BY <1>3, <1>4, <1>5, <1>6, <1>7, TypedPool DEF IInv

-----------------------------------------------------------------------------
(* The steps of a deletion                                                 *)

LEMMA DeleteKeeps == ASSUME IInv, NEW q \in Requests, Delete(q) PROVE IInv'
<1>0. PICK row \in UsersIn(rows) :
         req' = [req EXCEPT ![q].at = "existsUser", ![q].uid = row.uid]
  BY DEF Delete
<1> DEFINE r == [req[q] EXCEPT !.at = "existsUser", !.uid = row.uid]
<1>1. row \in rows /\ row.uid \in Ids
  BY TransactionTyped, RowParts DEF IInv, UsersIn
<1>2. /\ At(q, "idle") /\ Moves(q, "existsUser")
      /\ req'[q].uid = row.uid /\ req'[q].name = req[q].name /\ req'[q].answer = req[q].answer
      /\ UNCHANGED <<rows, written, nextId, free, known, faults>>
  <2>1. r \in Request /\ r.at = "existsUser" /\ req' = [req EXCEPT ![q] = r]
    BY <1>0, <1>1, TransactionTyped DEF IInv, Request, Points
  <2>2. r.uid = row.uid /\ r.name = req[q].name /\ r.answer = req[q].answer
    BY TransactionTyped DEF IInv, Request
  <2>3. TypeOK  BY DEF IInv
  <2> HIDE DEF r
  <2>4. Moves(q, "existsUser") /\ req'[q] = r  BY <2>1, <2>3, RequestMoves
  <2> QED  BY <2>2, <2>4 DEF Delete
<1>3. req[q].uid = 0 /\ ~IsSignIn(q) /\ written[q] = Nothing /\ req[q].answer = "-"
  BY <1>2 DEF IInv, Stages, Stage, At
<1>4. Typed'  BY <1>2 DEF IInv, TypeOK, Typed, Moves
<1>5. Pool'
  <2>1. Pool  BY PoolIsTyped DEF IInv
  <2> QED  BY <1>2, <2>1, PoolUntouched DEF Holding, Moves, At, InTransaction
<1>6. Stages'
  <2>1. Stage(q)'  BY <1>2, <1>3 DEF Stage, IsSignIn, Moves, Nothing
  <2> QED  BY <1>2, <2>1, OthersStay
<1>7. FreshIds'  BY <1>1, <1>2, <1>3 DEF IInv, FreshIds, IsSignIn, Moves
<1>8. Secret'  BY <1>1, <1>2, <1>3 DEF IInv, Secret, IsSignIn, Moves, Nothing
<1>9. NamesKept'  BY <1>2, <1>3 DEF IInv, NamesKept, IsSignIn, Moves, UsersIn
<1>10. References'  BY <1>2 DEF IInv, References, Closed, View
<1>11. Deletions'  BY <1>2, OthersDeleted
<1> QED  BY <1>4, <1>5, <1>6, <1>7, <1>8, <1>9, <1>10, <1>11, TypedPool DEF IInv

LEMMA ExistsUserKeeps == ASSUME IInv, NEW q \in Requests, ExistsUser(q) PROVE IInv'
<1>1. /\ At(q, "existsUser") /\ UNCHANGED <<rows, written, nextId, known, faults>>
      /\ req'[q].uid = req[q].uid /\ req'[q].name = req[q].name
      /\ \/ /\ Moves(q, "getRoles") /\ req'[q].answer = req[q].answer
            /\ free > 0 /\ free' = free - 1
         \/ /\ Moves(q, "answered") /\ req'[q].answer = "ok"
            /\ ~UserExists(q) /\ free' = free
  <2>1. TypeOK /\ "getRoles" \in Points  BY DEF IInv, Points, InTransaction
  <2>2. CASE UserExists(q)  BY <2>1, <2>2, GotoMoves DEF ExistsUser
  <2>3. CASE ~UserExists(q)  BY <2>1, <2>3, AnswerMoves DEF ExistsUser
  <2> QED  BY <2>2, <2>3
<1>2. ~IsSignIn(q) /\ written[q] = Nothing /\ req[q].answer = "-"
  BY <1>1 DEF IInv, Stages, Stage, At
<1>3. Typed'  BY <1>1 DEF IInv, TypeOK, Typed, Moves
<1>4. Pool'
  <2>1. Pool  BY PoolIsTyped DEF IInv
  <2>2. CASE free' = free - 1
    BY <1>1, <2>1, <2>2, ConnectionTaken DEF Holding, Moves, At, InTransaction, Pool
  <2>3. CASE free' = free
    BY <1>1, <2>1, <2>3, PoolUntouched DEF Holding, Moves, At, InTransaction, Pool
  <2> QED  BY <1>1, <2>2, <2>3
<1>5. Stages'
  <2>1. Stage(q)'  BY <1>1, <1>2 DEF IInv, Stages, Stage, IsSignIn, At, Moves
  <2> QED  BY <1>1, <2>1, OthersStay
<1>6. FreshIds' /\ Secret' /\ NamesKept' /\ References'
  <2>1. Kept  BY <1>1, <1>2 DEF Kept, Moves
  <2> QED  BY <1>1, <2>1, QuietStep
<1>7. Deletions'
  <2>1. ASSUME ~UserExists(q) PROVE Of(rows, Children \cup {"Users"}, req[q].uid) = {}
    <3>1. View(q) = rows  BY <1>2 DEF View, Nothing
    <3>2. \A w \in rows : ~(w.table = "Users" /\ w.uid = req[q].uid)
      BY <2>1, <3>1 DEF UserExists, Of
    <3>3. \A c \in rows : c.uid # req[q].uid  BY <3>2 DEF IInv, References, Closed
    <3> QED  BY <3>3 DEF Of
  <2>2. CASE Moves(q, "getRoles")  BY <1>1, <2>2, OthersDeleted
  <2>3. CASE Moves(q, "answered") /\ ~UserExists(q)
    <3>1. Of(rows, Children \cup {"Users"}, req[q].uid)' = {}  BY <1>1, <2>1, <2>3 DEF Of
    <3> QED  BY <1>1, <2>3, <3>1, OthersDeleted
  <2> QED  BY <1>1, <2>2, <2>3
<1> QED  BY <1>3, <1>4, <1>5, <1>6, <1>7, TypedPool DEF IInv

LEMMA GetRolesKeeps == ASSUME IInv, NEW q \in Requests, GetRoles(q) PROVE IInv'
<1> DEFINE r == [req[q] EXCEPT !.at = "deleteFacets", !.roles = RolesOf(View(q), req[q].uid)]
<1>1. /\ At(q, "getRoles") /\ Moves(q, "deleteFacets")
      /\ req'[q].uid = req[q].uid /\ req'[q].name = req[q].name
      /\ req'[q].answer = req[q].answer
      /\ UNCHANGED <<rows, written, nextId, free, known, faults>>
  <2>0. RolesOf(View(q), req[q].uid) \in SUBSET Roles
    BY TransactionTyped, RowParts DEF IInv, RolesOf, Of
  <2>1. r \in Request /\ r.at = "deleteFacets"
    BY <2>0, TransactionTyped DEF IInv, Request, Points, InTransaction
  <2>2. r.uid = req[q].uid /\ r.name = req[q].name /\ r.answer = req[q].answer
    BY TransactionTyped DEF IInv, Request
  <2>3. TypeOK /\ req' = [req EXCEPT ![q] = r]  BY DEF IInv, GetRoles
  <2> HIDE DEF r
  <2>4. Moves(q, "deleteFacets") /\ req'[q] = r  BY <2>1, <2>3, RequestMoves
  <2> QED  BY <2>2, <2>4 DEF GetRoles
<1>3. Typed'  BY <1>1 DEF IInv, TypeOK, Typed, Moves
<1>4. Pool'
  <2>1. Pool  BY PoolIsTyped DEF IInv
  <2> QED  BY <1>1, <2>1, PoolUntouched DEF Holding, Moves, At, InTransaction
<1>5. Stages'
  <2>1. Stage(q)'  BY <1>1 DEF IInv, Stages, Stage, IsSignIn, At, Moves
  <2> QED  BY <1>1, <2>1, OthersStay
<1>6. FreshIds' /\ Secret' /\ NamesKept' /\ References'
  <2>1. Kept  BY <1>1 DEF Kept, Moves
  <2> QED  BY <1>1, <2>1, QuietStep
<1>7. Deletions'  BY <1>1, OthersDeleted
<1> QED  BY <1>3, <1>4, <1>5, <1>6, <1>7, TypedPool DEF IInv

LEMMA DeleteFacetKeeps == ASSUME IInv, NEW q \in Requests, DeleteFacet(q) PROVE IInv'
<1>0. PICK f \in req[q].roles :
        /\ Write(q, {}, Of(View(q), {FacetTable[f]}, req[q].uid))
        /\ req' = [req EXCEPT ![q].roles = @ \ {f}]
  BY DEF DeleteFacet
<1> DEFINE r == [req[q] EXCEPT !.roles = @ \ {f}]
<1> DEFINE D == Of(View(q), {FacetTable[f]}, req[q].uid)
<1>1. /\ At(q, "deleteFacets") /\ Moves(q, "deleteFacets")
      /\ req'[q].uid = req[q].uid /\ req'[q].name = req[q].name
      /\ req'[q].answer = req[q].answer
      /\ UNCHANGED <<rows, nextId, free, known, faults>>
  <2>1. r \in Request /\ r.at = req[q].at
    BY TransactionTyped DEF IInv, Request
  <2>2. r.uid = req[q].uid /\ r.name = req[q].name /\ r.answer = req[q].answer
    BY TransactionTyped DEF IInv, Request
  <2>3. TypeOK /\ req' = [req EXCEPT ![q] = r]  BY <1>0 DEF IInv
  <2> HIDE DEF r
  <2>4. Moves(q, r.at) /\ req'[q] = r  BY <2>1, <2>3, RequestMoves
  <2> QED  BY <2>1, <2>2, <2>4 DEF DeleteFacet, At
<1>2. Kept /\ ~IsSignIn(q)  BY <1>1 DEF Kept, Moves, IInv, Stages, Stage, At
<1>3. "Users" \notin {FacetTable[f]}
  BY TransactionTyped DEF IInv, Request, FacetTable
<1>4. /\ FreshIds' /\ Secret' /\ NamesKept' /\ References'
      /\ written'[q].ins = {} /\ written'[q].del = written[q].del \cup D
      /\ \A p \in Requests \ {q} : written'[p] = written[p]
  BY <1>0, <1>1, <1>2, <1>3, DeleteStep
<1>5. Typed'
  <2>1. D \in SUBSET Row /\ {} \in SUBSET Row /\ TypeOK  BY TransactionTyped DEF IInv, Of
  <2>2. written' \in [Requests -> [ins : SUBSET Row, del : SUBSET Row]]
    BY <1>0, <2>1, WriteTyped
  <2> QED  BY <1>1, <2>2 DEF IInv, TypeOK, Typed, Moves
<1>6. Pool'
  <2>1. Pool  BY PoolIsTyped DEF IInv
  <2> QED  BY <1>1, <2>1, PoolUntouched DEF Holding, Moves, At, InTransaction
<1>7. Stages'
  <2>1. \A row \in D : row.uid = req[q].uid  BY DEF Of
  <2> HIDE DEF D
  <2>2. Stage(q)'  BY <1>1, <1>4, <2>1 DEF IInv, Stages, Stage, IsSignIn, At, Moves
  <2> QED  BY <1>1, <1>4, <2>2, OthersStay
<1>8. Deletions'  BY <1>1, <1>4, OthersDeleted
<1> QED  BY <1>4, <1>5, <1>6, <1>7, <1>8, TypedPool DEF IInv

LEMMA DeleteRolesKeeps == ASSUME IInv, NEW q \in Requests, DeleteRoles(q) PROVE IInv'
<1> DEFINE D == Of(View(q), {"UserRoles"}, req[q].uid)
<1>1. /\ At(q, "deleteRoles") /\ Moves(q, "deleteUser")
      /\ req'[q].uid = req[q].uid /\ req'[q].name = req[q].name
      /\ req'[q].answer = req[q].answer
      /\ Write(q, {}, D) /\ UNCHANGED <<rows, nextId, free, known, faults>>
  <2>1. "deleteUser" \in Points /\ TypeOK  BY DEF Points, InTransaction, IInv
  <2> QED  BY <2>1, GotoMoves DEF DeleteRoles
<1>2. Kept /\ ~IsSignIn(q)  BY <1>1 DEF Kept, Moves, IInv, Stages, Stage, At
<1>3. /\ FreshIds' /\ Secret' /\ NamesKept' /\ References'
      /\ written'[q].ins = {} /\ written'[q].del = written[q].del \cup D
      /\ \A p \in Requests \ {q} : written'[p] = written[p]
  BY <1>1, <1>2, DeleteStep
<1>4. Typed'
  <2>1. D \in SUBSET Row /\ {} \in SUBSET Row /\ TypeOK  BY TransactionTyped DEF IInv, Of
  <2>2. written' \in [Requests -> [ins : SUBSET Row, del : SUBSET Row]]
    BY <1>1, <2>1, WriteTyped
  <2> QED  BY <1>1, <2>2 DEF IInv, TypeOK, Typed, Moves
<1>5. Pool'
  <2>1. Pool  BY PoolIsTyped DEF IInv
  <2> QED  BY <1>1, <2>1, PoolUntouched DEF Holding, Moves, At, InTransaction
<1>6. Stages'
  <2>1. \A row \in D : row.uid = req[q].uid  BY DEF Of
  <2> HIDE DEF D
  <2>2. Stage(q)'  BY <1>1, <1>3, <2>1 DEF IInv, Stages, Stage, IsSignIn, At, Moves
  <2> QED  BY <1>1, <1>3, <2>2, OthersStay
<1>7. Deletions'  BY <1>1, <1>3, OthersDeleted
<1> QED  BY <1>3, <1>4, <1>5, <1>6, <1>7, TypedPool DEF IInv

LEMMA DeleteUserRowKeeps == ASSUME IInv, NEW q \in Requests, DeleteUserRow(q) PROVE IInv'
<1> DEFINE D == Of(View(q), {"Users"}, req[q].uid)
<1>1. CASE Referenced(q)
  <2>1. /\ At(q, "deleteUser") /\ Moves(q, "autoCommit")
        /\ req'[q].uid = req[q].uid /\ req'[q].name = req[q].name
        /\ req'[q].answer = req[q].answer
        /\ UNCHANGED <<rows, written, nextId, free, known, faults>>
    <3>1. "autoCommit" \in Points /\ TypeOK  BY DEF Points, IInv
    <3> QED  BY <1>1, <3>1, GotoMoves DEF DeleteUserRow
  <2>2. Typed'  BY <2>1 DEF IInv, TypeOK, Typed, Moves
  <2>3. Pool'
    <3>1. Pool  BY PoolIsTyped DEF IInv
    <3> QED  BY <2>1, <3>1, PoolUntouched DEF Holding, Moves, At, InTransaction
  <2>4. Stages'
    <3>1. Stage(q)'  BY <2>1 DEF IInv, Stages, Stage, IsSignIn, At, Moves
    <3> QED  BY <2>1, <3>1, OthersStay
  <2>5. FreshIds' /\ Secret' /\ NamesKept' /\ References'
    <3>1. Kept  BY <2>1 DEF Kept, Moves
    <3> QED  BY <2>1, <3>1, QuietStep
  <2>6. Deletions'  BY <2>1, OthersDeleted
  <2> QED  BY <2>2, <2>3, <2>4, <2>5, <2>6, TypedPool DEF IInv
<1>2. CASE ~Referenced(q)
  <2>1. /\ At(q, "deleteUser") /\ Moves(q, "commit")
        /\ req'[q].uid = req[q].uid /\ req'[q].name = req[q].name
        /\ req'[q].answer = req[q].answer
        /\ Write(q, {}, D) /\ UNCHANGED <<rows, nextId, free, known, faults>>
    <3>1. "commit" \in Points /\ TypeOK  BY DEF Points, InTransaction, IInv
    <3> QED  BY <1>2, <3>1, GotoMoves DEF DeleteUserRow
  <2>2. Kept /\ ~IsSignIn(q)  BY <2>1 DEF Kept, Moves, IInv, Stages, Stage, At
  <2>3. Of(View(q), Children, req[q].uid) = {}  BY <1>2 DEF Referenced
  <2>4. /\ FreshIds' /\ Secret' /\ NamesKept' /\ References'
        /\ written'[q].ins = {} /\ written'[q].del = written[q].del \cup D
        /\ \A p \in Requests \ {q} : written'[p] = written[p]
        /\ View(q)' = View(q) \ D
    BY <2>1, <2>2, <2>3, DeleteStep
  <2>5. Typed'
    <3>1. D \in SUBSET Row /\ {} \in SUBSET Row /\ TypeOK
      BY TransactionTyped DEF IInv, Of
    <3>2. written' \in [Requests -> [ins : SUBSET Row, del : SUBSET Row]]
      BY <2>1, <3>1, WriteTyped
    <3> QED  BY <2>1, <3>2 DEF IInv, TypeOK, Typed, Moves
  <2>6. Pool'
    <3>1. Pool  BY PoolIsTyped DEF IInv
    <3> QED  BY <2>1, <3>1, PoolUntouched DEF Holding, Moves, At, InTransaction
  <2>7. Stages'
    <3>1. \A row \in D : row.uid = req[q].uid  BY DEF Of
    <3> HIDE DEF D
    <3>2. Stage(q)'  BY <2>1, <2>4, <3>1 DEF IInv, Stages, Stage, IsSignIn, At, Moves
    <3> QED  BY <2>1, <2>4, <3>2, OthersStay
  <2>8. Of(View(q), Children \cup {"Users"}, req[q].uid)' = {}
    BY <2>1, <2>3, <2>4 DEF Of
  <2>9. Deletions'  BY <2>1, <2>4, <2>8, OthersDeleted
  <2> QED  BY <2>4, <2>5, <2>6, <2>7, <2>9, TypedPool DEF IInv
<1> QED  BY <1>1, <1>2

-----------------------------------------------------------------------------
(* The ends of a transaction, and failures                                 *)

LEMMA CommitKeeps == ASSUME IInv, NEW q \in Requests, Commit(q) PROVE IInv'
<1>1. /\ At(q, "commit") /\ CommitOf(q) /\ free' = free + 1
      /\ req'[q].uid = req[q].uid /\ req'[q].name = req[q].name
      /\ \/ IsSignIn(q) /\ Moves(q, "login") /\ req'[q].answer = req[q].answer
         \/ ~IsSignIn(q) /\ Moves(q, "answered") /\ req'[q].answer = "ok"
      /\ UNCHANGED <<nextId, known, faults>>
  <2>1. TypeOK /\ "login" \in Points  BY DEF IInv, Points
  <2>2. CASE IsSignIn(q)  BY <2>1, <2>2, GotoMoves DEF Commit
  <2>3. CASE ~IsSignIn(q)  BY <2>1, <2>3, AnswerMoves DEF Commit
  <2> QED  BY <2>2, <2>3
<1>2. req[q].answer = "-"  BY <1>1 DEF IInv, Stages, Stage, At
<1>3. /\ written'[q] = Nothing /\ \A p \in Requests \ {q} : written'[p] = written[p]
      /\ Typed'
  <2>1. TypeOK  BY DEF IInv
  <2> QED  BY <1>1, <2>1, CommitTyped DEF TypeOK, Typed, Moves
<1>4. Pool'
  <2>1. Pool  BY PoolIsTyped DEF IInv
  <2> QED  BY <1>1, <2>1, ConnectionReturned DEF Holding, Moves, At, InTransaction
<1>5. Stages'
  <2>1. Stage(q)'
    BY <1>1, <1>2, <1>3 DEF IInv, Stages, Stage, IsSignIn, At, Moves, Nothing
  <2> QED  BY <1>1, <1>3, <2>1, OthersStay
<1>6. FreshIds' /\ Secret' /\ NamesKept' /\ References'
  <2>1. Kept  BY <1>1, <1>2 DEF Kept, Moves
  <2> QED  BY <1>1, <2>1, CommitStep
<1>7. Deletions'
  <2>1. CASE IsSignIn(q) /\ Moves(q, "login")
    BY <1>1, <2>1, CommitDeleted
  <2>2. CASE ~IsSignIn(q) /\ Moves(q, "answered")
    <3>1. Of(View(q), Children \cup {"Users"}, req[q].uid) = {}
      BY <1>1, <2>2 DEF IInv, Deletions
    <3>2. Of(rows, Children \cup {"Users"}, req[q].uid)' = {}
      BY <1>1, <3>1 DEF CommitOf, Of
    <3> QED  BY <1>1, <2>2, <3>2, CommitDeleted
  <2> QED  BY <1>1, <2>1, <2>2
<1> QED  BY <1>3, <1>4, <1>5, <1>6, <1>7, TypedPool DEF IInv

\* A transaction that ends with its commit and a failure.
LEMMA FailingCommit ==
  ASSUME IInv, NEW q \in Requests, req[q].at \in InTransaction \cup {"autoCommit"},
         CommitOf(q), free' = free + 1, Answer(q, "failed"), faults' \in 0 .. MaxFaults,
         UNCHANGED <<nextId, known>>
  PROVE  IInv'
<1>1. /\ Moves(q, "answered") /\ req'[q].answer = "failed"
      /\ req'[q].uid = req[q].uid /\ req'[q].name = req[q].name
  <2>1. TypeOK /\ "failed" \in {"ok", "refused", "failed"}  BY DEF IInv
  <2> QED  BY <2>1, AnswerMoves
<1>2. req[q].answer = "-"  BY DEF IInv, Stages, Stage, InTransaction
<1>3. /\ written'[q] = Nothing /\ \A p \in Requests \ {q} : written'[p] = written[p]
      /\ Typed'
  <2>1. TypeOK  BY DEF IInv
  <2> QED  BY <1>1, <2>1, CommitTyped DEF TypeOK, Typed, Moves
<1>4. Pool'
  <2>1. Pool  BY PoolIsTyped DEF IInv
  <2> QED  BY <1>1, <2>1, ConnectionReturned DEF Holding, Moves, InTransaction
<1>5. Stages'
  <2>1. Stage(q)'  BY <1>1, <1>3 DEF Stage, IsSignIn, Moves, Nothing
  <2> QED  BY <1>1, <1>3, <2>1, OthersStay
<1>6. FreshIds' /\ Secret' /\ NamesKept' /\ References'
  <2>1. Kept  BY <1>1, <1>2 DEF Kept, Moves
  <2> QED  BY <2>1, CommitStep
<1>7. Deletions'  BY <1>1, CommitDeleted
<1> QED  BY <1>3, <1>4, <1>5, <1>6, <1>7, TypedPool DEF IInv

LEMMA AutoCommitKeeps == ASSUME IInv, NEW q \in Requests, AutoCommit(q) PROVE IInv'
  BY FailingCommit DEF AutoCommit, At, IInv, TypeOK

LEMMA FaultTyped == ASSUME TypeOK, Fault PROVE faults' \in 0 .. MaxFaults
  BY SubmissionUsersAssumption DEF TypeOK, Fault

LEMMA StatementFailsKeeps == ASSUME IInv, NEW q \in Requests, StatementFails(q) PROVE IInv'
<1>1. /\ req[q].at \in InTransaction /\ Moves(q, "autoCommit")
      /\ req'[q].uid = req[q].uid /\ req'[q].name = req[q].name
      /\ req'[q].answer = req[q].answer
      /\ faults' \in 0 .. MaxFaults /\ UNCHANGED <<rows, written, nextId, free, known>>
  <2>1. "autoCommit" \in Points /\ TypeOK  BY DEF Points, IInv
  <2> QED  BY <2>1, GotoMoves, FaultTyped DEF StatementFails
<1>2. Typed'  BY <1>1 DEF IInv, TypeOK, Typed, Moves
<1>3. Pool'
  <2>1. Pool  BY PoolIsTyped DEF IInv
  <2> QED  BY <1>1, <2>1, PoolUntouched DEF Holding, Moves, InTransaction
<1>4. Stages'
  <2>1. Stage(q)'  BY <1>1 DEF IInv, Stages, Stage, IsSignIn, Moves, InTransaction
  <2> QED  BY <1>1, <2>1, OthersStay
<1>5. FreshIds' /\ Secret' /\ NamesKept' /\ References'
  <2>1. Kept  BY <1>1 DEF Kept, Moves
  <2> QED  BY <1>1, <2>1, QuietStep
<1>6. Deletions'  BY <1>1, OthersDeleted
<1> QED  BY <1>2, <1>3, <1>4, <1>5, <1>6, TypedPool DEF IInv

LEMMA ConnectionLostKeeps == ASSUME IInv, NEW q \in Requests, ConnectionLost(q) PROVE IInv'
<1>1. /\ req[q].at \in InTransaction \cup {"autoCommit"} /\ faults' \in 0 .. MaxFaults
      /\ free' = free + 1 /\ Answer(q, "failed") /\ UNCHANGED <<nextId, known>>
  <2>1. TypeOK  BY DEF IInv
  <2> QED  BY <2>1, FaultTyped DEF ConnectionLost
<1>2. CASE CommitOf(q)  BY <1>1, <1>2, FailingCommit
<1>3. CASE rows' = rows /\ written' = [written EXCEPT ![q] = Nothing]
  <2>1. /\ Moves(q, "answered") /\ req'[q].answer = "failed"
        /\ req'[q].uid = req[q].uid /\ req'[q].name = req[q].name
    <3>1. TypeOK /\ "failed" \in {"ok", "refused", "failed"}  BY DEF IInv
    <3> QED  BY <1>1, <3>1, AnswerMoves
  <2>2. req[q].answer = "-"  BY <1>1 DEF IInv, Stages, Stage, InTransaction
  <2>3. /\ written' \in [Requests -> [ins : SUBSET Row, del : SUBSET Row]]
        /\ written'[q] = Nothing /\ \A p \in Requests \ {q} : written'[p] = written[p]
    <3>1. Nothing \in [ins : SUBSET Row, del : SUBSET Row]  BY DEF Nothing
    <3> QED  BY <1>3, <3>1 DEF IInv, TypeOK
  <2>4. Typed'  BY <1>1, <1>3, <2>1, <2>3 DEF IInv, TypeOK, Typed, Moves
  <2>5. Pool'
    <3>1. Pool  BY PoolIsTyped DEF IInv
    <3> QED  BY <1>1, <2>1, <3>1, ConnectionReturned DEF Holding, Moves, InTransaction
  <2>6. Stages'
    <3>1. Stage(q)'  BY <2>1, <2>3 DEF Stage, IsSignIn, Moves, Nothing
    <3> QED  BY <1>1, <2>1, <2>3, <3>1, OthersStay
  <2>7. FreshIds' /\ Secret' /\ NamesKept' /\ References'
    <3>1. Kept  BY <2>1, <2>2 DEF Kept, Moves
    <3> QED  BY <1>1, <1>3, <3>1, RollbackStep
  <2>8. Deletions'  BY <1>3, <2>1, <2>3, OthersDeleted
  <2> QED  BY <2>4, <2>5, <2>6, <2>7, <2>8, TypedPool DEF IInv
<1> QED  BY <1>2, <1>3 DEF ConnectionLost

LEMMA QueryFailsKeeps == ASSUME IInv, NEW q \in Requests, QueryFails(q) PROVE IInv'
<1>1. /\ req[q].at \in {"existsUserName", "getStudentRole", "existsUser", "login"}
      /\ Moves(q, "answered") /\ req'[q].answer = "failed"
      /\ req'[q].uid = req[q].uid /\ req'[q].name = req[q].name
      /\ faults' \in 0 .. MaxFaults /\ UNCHANGED <<rows, written, nextId, free, known>>
  <2>1. "failed" \in {"ok", "refused", "failed"} /\ TypeOK  BY DEF IInv
  <2> QED  BY <2>1, AnswerMoves, FaultTyped DEF QueryFails
<1>2. req[q].answer = "-"  BY <1>1 DEF IInv, Stages, Stage
<1>3. Typed'  BY <1>1 DEF IInv, TypeOK, Typed, Moves
<1>4. Pool'
  <2>1. Pool  BY PoolIsTyped DEF IInv
  <2> QED  BY <1>1, <2>1, PoolUntouched DEF Holding, Moves, InTransaction
<1>5. Stages'
  <2>1. Stage(q)'  BY <1>1, <1>2 DEF IInv, Stages, Stage, IsSignIn, Moves
  <2> QED  BY <1>1, <2>1, OthersStay
<1>6. FreshIds' /\ Secret' /\ NamesKept' /\ References'
  <2>1. Kept  BY <1>1, <1>2 DEF Kept, Moves
  <2> QED  BY <1>1, <2>1, QuietStep
<1>7. Deletions'  BY <1>1, OthersDeleted
<1> QED  BY <1>3, <1>4, <1>5, <1>6, <1>7, TypedPool DEF IInv

-----------------------------------------------------------------------------
(* The whole                                                               *)

LEMMA InitIInv == Init => IInv
<1> SUFFICES ASSUME Init PROVE IInv  OBVIOUS
<1>1. /\ Admin.uid = 1 /\ Admin.name \in Names /\ 1 \in Ids
  BY SubmissionUsersAssumption DEF Admin, Ids
<1>2. /\ rows \subseteq Row
      /\ \A r \in rows : r.uid = 1
      /\ \A r \in UsersIn(rows) : r = UserRow(1, Admin.name)
      /\ UserRow(1, Admin.name) \in rows /\ UserRow(1, Admin.name).table = "Users"
  BY <1>1, InsertedRows DEF Init, UsersIn, Roles
<1>3. Typed
  BY <1>1, <1>2, SubmissionUsersAssumption DEF Init, Typed, Idle, Request, Points, Nothing, Ids
<1>4. TypeOK
  <2>1. {q \in Requests : req[q].at \in InTransaction \cup {"autoCommit"}} = {}
    BY DEF Init, Idle, InTransaction
  <2>2. free \in 0 .. Connections /\ free + Cardinality({}) = Connections
    BY FS_EmptySet, SubmissionUsersAssumption DEF Init
  <2> QED  BY <1>3, <2>1, <2>2 DEF Typed, TypeOK
<1>5. Stages  BY DEF Init, Idle, Stages, Stage, IsSignIn, Nothing
<1>6. FreshIds  BY <1>2 DEF Init, Idle, FreshIds, IsSignIn
<1>7. Secret  BY DEF Init, Secret, Nothing
<1>8. NamesKept  BY <1>2 DEF Init, Idle, NamesKept, IsSignIn
<1>9. References
  <2>1. Closed(rows)  BY <1>2 DEF Closed, UserRow
  <2>2. \A q \in Requests : View(q) = rows  BY DEF Init, View, Nothing
  <2> QED  BY <2>1, <2>2 DEF References
<1>10. Deletions  BY DEF Init, Idle, Deletions, At
<1> QED  BY <1>4, <1>5, <1>6, <1>7, <1>8, <1>9, <1>10 DEF IInv

LEMMA NextIInv == ASSUME IInv, [Next]_uvars PROVE IInv'
<1>1. CASE UNCHANGED uvars
  <2>1. Kept /\ UNCHANGED <<rows, written, nextId, known>>  BY <1>1 DEF uvars, Kept
  <2>2. FreshIds' /\ Secret' /\ NamesKept' /\ References'  BY <2>1, QuietStep
  <2>3. TypeOK'  BY <1>1 DEF IInv, TypeOK, uvars
  <2>4. Stages'  BY <1>1 DEF IInv, Stages, Stage, IsSignIn, uvars
  <2>5. Deletions'  BY <1>1 DEF IInv, Deletions, IsSignIn, At, Of, View, uvars
  <2> QED  BY <2>2, <2>3, <2>4, <2>5 DEF IInv
<1>2. ASSUME NEW q \in Requests, Proceed(q) PROVE IInv'
  BY <1>2, ExistsUserNameKeeps, GetStudentRoleKeeps, InsertUserKeeps, InsertStudentFacetKeeps,
     InsertStudentRoleKeeps, CommitKeeps, LoginKeeps, ExistsUserKeeps, GetRolesKeeps,
     DeleteFacetKeeps, FacetsDoneKeeps, DeleteRolesKeeps, DeleteUserRowKeeps, AutoCommitKeeps
  DEF Proceed
<1> QED
  BY <1>1, <1>2, SignInKeeps, DeleteKeeps, StatementFailsKeeps, ConnectionLostKeeps,
     QueryFailsKeeps
  DEF Next

LEMMA Invariance == Spec => []IInv
  BY InitIInv, NextIInv, PTL DEF Spec

(* Every variable keeps its type, and a connection of the pool is never    *)
(* lost nor handed out twice, whatever fails (DatabaseOperationExecutor).  *)
THEOREM TypeCorrect == Spec => []TypeOK
<1>1. IInv => TypeOK  BY DEF IInv
<1> QED  BY <1>1, Invariance, PTL

(* Two users have one name only if neither was there when the sign-in of   *)
(* the other looked for its name (RootController.signIn).                  *)
THEOREM Duplicates == Spec => []DuplicatesOverlapped
<1>1. IInv => DuplicatesOverlapped
  <2> SUFFICES ASSUME IInv, NEW row \in UsersIn(rows), NEW other \in UsersIn(rows),
                      row # other, row.value = other.value,
                      NEW q \in Requests, IsSignIn(q), req[q].uid = row.uid
      PROVE  other.uid \notin known[q]
    BY DEF DuplicatesOverlapped
  <2>1. row.value = req[q].name  BY DEF IInv, NamesKept
  <2>2. row.uid # 0
    BY TransactionTyped, RowParts, SubmissionUsersAssumption DEF IInv, UsersIn, Ids
  <2>3. req[q].answer # "refused"  BY <2>2 DEF IInv, Stages, Stage
  <2> QED  BY <2>1, <2>3 DEF IInv, NamesKept
<1> QED  BY <1>1, Invariance, PTL

(* Once a deletion has been answered, no table has a row of that user, and *)
(* none will, whatever other requests do meanwhile (DeleteUser.perform).   *)
THEOREM DeletedStaysGone == Spec => []DeletedIsGone
<1>1. IInv => DeletedIsGone  BY DEF IInv, Deletions, DeletedIsGone
<1> QED  BY <1>1, Invariance, PTL

-----------------------------------------------------------------------------
(* Users that are not whole                                                *)

(* The first user is an administrator and all others are students.         *)
KindOf(u) == IF u = 1 THEN "Administrator" ELSE "Student"
OneKind(S) ==
  \A row \in S : \/ row.table = "Users"
                 \/ row \in {RoleRow(row.uid, KindOf(row.uid)), FacetRow(row.uid, KindOf(row.uid))}
OneRole == /\ nextId > 1
           /\ OneKind(rows)
           /\ \A q \in Requests : /\ OneKind(written[q].ins)
                                  /\ IsSignIn(q) => req[q].uid # 1

(* What a sign-in has inserted, step by step.                              *)
Filled ==
  \A q \in Requests :
    LET u == req[q].uid
        n == req[q].name
    IN /\ At(q, "insertUser") => written[q].ins = {}
       /\ At(q, "insertStudentFacet") => written[q].ins = {UserRow(u, n)}
       /\ At(q, "insertStudentRole") =>
            written[q].ins = {UserRow(u, n), FacetRow(u, "Student")}
       /\ At(q, "commit") /\ IsSignIn(q) =>
            written[q].ins = {UserRow(u, n), FacetRow(u, "Student"), RoleRow(u, "Student")}

(* Whoever is not whole was left by a request that has failed.             *)
Halved ==
  \A row \in UsersIn(rows) :
    Whole(row.uid) \/ \E q \in Requests : Failed(q) /\ req[q].uid = row.uid

(* Facets come with their roles, unless a sign-in has failed; a deletion   *)
(* deletes the role of no facet that it leaves.                            *)
Blamed(u) == \E q \in Requests : Failed(q) /\ IsSignIn(q) /\ req[q].uid = u
Matched(S, u) == \A r \in Roles : FacetRow(u, r) \in S => RoleRow(u, r) \in S
Deleting(q) ==
  /\ Matched(View(q), req[q].uid)
  /\ req[q].at \in {"deleteFacets", "deleteRoles"} =>
       \A r \in Roles : FacetRow(req[q].uid, r) \in View(q) =>
         At(q, "deleteFacets") /\ r \in req[q].roles
Paired ==
  /\ \A u \in Ids : Blamed(u) \/ Matched(rows, u)
  /\ \A q \in Requests : IsSignIn(q) \/ Blamed(req[q].uid) \/ Deleting(q)

HInv == IInv /\ OneRole /\ Filled /\ Halved /\ Paired

(* What request q does.                                                    *)
Step(q) == \/ SignIn(q) \/ Delete(q) \/ Proceed(q)
           \/ StatementFails(q) \/ ConnectionLost(q) \/ QueryFails(q)

LEMMA NextIsStep == Next <=> \E q \in Requests : Step(q)
  BY DEF Next, Step

\* One request moves, and it has not been answered yet.
LEMMA OneMoves ==
  ASSUME TypeOK, NEW q \in Requests, Step(q)
  PROVE  /\ req[q].at # "answered"
         /\ \A p \in Requests \ {q} :
              req'[p] = req[p] /\ written'[p] = written[p] /\ known'[p] = known[p]
<1> DEFINE Alone ==
      /\ req[q].at # "answered"
      /\ \A p \in Requests \ {q} :
           req'[p] = req[p] /\ written'[p] = written[p] /\ known'[p] = known[p]
<1>1. CASE SignIn(q) \/ Delete(q)
  BY <1>1 DEF SignIn, Delete, TypeOK, At
<1>2. CASE ExistsUserName(q) \/ GetStudentRole(q) \/ Login(q)
  BY <1>2 DEF ExistsUserName, GetStudentRole, Login, TypeOK, At, Goto, Answer
<1>3. CASE InsertUser(q) \/ InsertStudentFacet(q) \/ InsertStudentRole(q)
  BY <1>3 DEF InsertUser, InsertStudentFacet, InsertStudentRole, TypeOK, At, Goto, Write
<1>4. CASE Commit(q) \/ AutoCommit(q)
  BY <1>4 DEF Commit, AutoCommit, CommitOf, TypeOK, At, Goto, Answer
<1>5. CASE ExistsUser(q) \/ GetRoles(q) \/ FacetsDone(q)
  BY <1>5 DEF ExistsUser, GetRoles, FacetsDone, TypeOK, At, Goto, Answer
<1>6. CASE DeleteFacet(q) \/ DeleteRoles(q) \/ DeleteUserRow(q)
  BY <1>6 DEF DeleteFacet, DeleteRoles, DeleteUserRow, Write, TypeOK, At, Goto
<1>7. CASE StatementFails(q) \/ ConnectionLost(q) \/ QueryFails(q)
  BY <1>7 DEF StatementFails, ConnectionLost, QueryFails, CommitOf, InTransaction, TypeOK, At,
              Goto, Answer
<1> QED  BY <1>1, <1>2, <1>3, <1>4, <1>5, <1>6, <1>7 DEF Step, Proceed

\* Where the request that moves goes; its user and its name change in three steps only.
LEMMA WhereTo ==
  ASSUME TypeOK, NEW q \in Requests, Step(q)
  PROVE  /\ SignIn(q) => req'[q].uid = req[q].uid /\ req'[q].at = "existsUserName"
         /\ Delete(q) => req'[q].name = req[q].name /\ req'[q].at = "existsUser"
         /\ InsertUser(q) => /\ req'[q].uid = nextId /\ req'[q].name = req[q].name
                             /\ req'[q].at = "insertStudentFacet"
         /\ GetRoles(q) => /\ req'[q].at = "deleteFacets"
                           /\ req'[q].roles = RolesOf(View(q), req[q].uid)
         /\ DeleteFacet(q) => req'[q].at = "deleteFacets"
         /\ ~SignIn(q) /\ ~Delete(q) /\ ~InsertUser(q) =>
              req'[q].uid = req[q].uid /\ req'[q].name = req[q].name
<1> DEFINE Same == req'[q].uid = req[q].uid /\ req'[q].name = req[q].name
<1>1. ASSUME SignIn(q) PROVE req'[q].uid = req[q].uid /\ req'[q].at = "existsUserName"
  <2>1. PICK n \in Names : req' = [req EXCEPT ![q].at = "existsUserName", ![q].name = n]
    BY <1>1 DEF SignIn
  <2> DEFINE r == [req[q] EXCEPT !.at = "existsUserName", !.name = n]
  <2>2. r \in Request /\ r.uid = req[q].uid /\ r.at = "existsUserName"
    BY TransactionTyped DEF Request, Points
  <2>3. req' = [req EXCEPT ![q] = r]  BY <2>1
  <2> HIDE DEF r
  <2> QED  BY <2>2, <2>3, RequestMoves
<1>2. ASSUME Delete(q) PROVE req'[q].name = req[q].name /\ req'[q].at = "existsUser"
  <2>1. PICK row \in UsersIn(rows) :
          req' = [req EXCEPT ![q].at = "existsUser", ![q].uid = row.uid]
    BY <1>2 DEF Delete
  <2>2. row.uid \in Ids  BY RowParts DEF TypeOK, UsersIn
  <2> DEFINE r == [req[q] EXCEPT !.at = "existsUser", !.uid = row.uid]
  <2>3. r \in Request /\ r.name = req[q].name /\ r.at = "existsUser"
    BY <2>2, TransactionTyped DEF Request, Points
  <2>4. req' = [req EXCEPT ![q] = r]  BY <2>1
  <2> HIDE DEF r
  <2> QED  BY <2>3, <2>4, RequestMoves
<1>3. ASSUME InsertUser(q)
      PROVE  /\ req'[q].uid = nextId /\ req'[q].name = req[q].name
             /\ req'[q].at = "insertStudentFacet"
  <2> DEFINE r == [req[q] EXCEPT !.at = "insertStudentFacet", !.uid = nextId]
  <2>1. nextId \in Ids  BY <1>3 DEF InsertUser
  <2>2. r \in Request /\ r.uid = nextId /\ r.name = req[q].name /\ r.at = "insertStudentFacet"
    BY <2>1, TransactionTyped DEF Request, Points, InTransaction
  <2>3. req' = [req EXCEPT ![q] = r]  BY <1>3 DEF InsertUser
  <2> HIDE DEF r
  <2> QED  BY <2>2, <2>3, RequestMoves
<1>4. \A point \in Points : Goto(q, point) => Same
  BY GotoMoves
<1>5. \A what \in {"ok", "refused", "failed"} : Answer(q, what) => Same
  BY AnswerMoves
<1>6. ASSUME GetRoles(q)
      PROVE  /\ req'[q].at = "deleteFacets" /\ req'[q].roles = RolesOf(View(q), req[q].uid)
             /\ Same
  <2> DEFINE roles == RolesOf(View(q), req[q].uid)
             r == [req[q] EXCEPT !.at = "deleteFacets", !.roles = roles]
  <2>1. roles \in SUBSET Roles
    BY TransactionTyped, RowParts DEF RolesOf, Of
  <2> HIDE DEF roles
  <2>2. /\ r \in Request /\ r.uid = req[q].uid /\ r.name = req[q].name
        /\ r.at = "deleteFacets" /\ r.roles = roles
    BY <2>1, TransactionTyped DEF Request, Points, InTransaction
  <2>3. req' = [req EXCEPT ![q] = r]  BY <1>6 DEF GetRoles, roles
  <2> HIDE DEF r
  <2>4. req'[q] = r  BY <2>2, <2>3, RequestMoves
  <2> QED  BY <2>2, <2>4 DEF roles
<1>7. ASSUME DeleteFacet(q) PROVE req'[q].at = "deleteFacets" /\ Same
  <2>1. PICK x \in req[q].roles : req' = [req EXCEPT ![q].roles = @ \ {x}]
    BY <1>7 DEF DeleteFacet
  <2> DEFINE r == [req[q] EXCEPT !.roles = @ \ {x}]
  <2>2. /\ r \in Request /\ r.uid = req[q].uid /\ r.name = req[q].name
        /\ r.at = "deleteFacets"
    BY <1>7, TransactionTyped DEF Request, DeleteFacet, At
  <2>3. req' = [req EXCEPT ![q] = r]  BY <2>1
  <2> HIDE DEF r
  <2>4. req'[q] = r  BY <2>2, <2>3, RequestMoves
  <2> QED  BY <2>2, <2>4
<1>8. ASSUME \/ ExistsUserName(q) \/ GetStudentRole(q) \/ InsertStudentFacet(q)
             \/ InsertStudentRole(q) \/ Commit(q) \/ Login(q) \/ ExistsUser(q) \/ FacetsDone(q)
             \/ DeleteRoles(q) \/ DeleteUserRow(q)
      PROVE  Same
  <2> HIDE DEF Same
  <2>1. {"getStudentRole", "insertUser", "insertStudentRole", "commit", "login", "getRoles",
         "deleteRoles", "deleteUser", "autoCommit"} \subseteq Points
    BY DEF Points, InTransaction
  <2> QED  BY <1>4, <1>5, <1>8, <2>1 DEF ExistsUserName, GetStudentRole, InsertStudentFacet,
       InsertStudentRole, Commit, Login, ExistsUser, FacetsDone, DeleteRoles, DeleteUserRow
<1>9. ASSUME AutoCommit(q) \/ StatementFails(q) \/ ConnectionLost(q) \/ QueryFails(q)
      PROVE  Same
  <2> HIDE DEF Same
  <2>1. "autoCommit" \in Points  BY DEF Points
  <2> QED  BY <1>4, <1>5, <1>9, <2>1 DEF AutoCommit, StatementFails, ConnectionLost, QueryFails
<1> HIDE DEF Same
<1>10. ~SignIn(q) /\ ~Delete(q) /\ ~InsertUser(q) => Same
  BY <1>6, <1>7, <1>8, <1>9 DEF Step, Proceed
<1> QED  BY <1>1, <1>2, <1>3, <1>6, <1>7, <1>10 DEF Same

\* A failure that has been answered stays answered.
LEMMA FailuresStay ==
  ASSUME TypeOK, Next
  PROVE  \A p \in Requests :
           Failed(p) => Failed(p)' /\ req'[p] = req[p] /\ (IsSignIn(p) => IsSignIn(p)')
<1>1. PICK q \in Requests : Step(q)  BY NextIsStep
<1>2. req[q].at # "answered" /\ \A p \in Requests \ {q} : req'[p] = req[p]
  BY <1>1, OneMoves
<1> QED  BY <1>2 DEF Failed, At, IsSignIn

LEMMA BlameStays == ASSUME TypeOK, Next, NEW u, Blamed(u) PROVE Blamed(u)'
<1>1. PICK p \in Requests : Failed(p) /\ IsSignIn(p) /\ req[p].uid = u  BY DEF Blamed
<1>2. Failed(p)' /\ IsSignIn(p)' /\ req'[p].uid = u  BY <1>1, FailuresStay
<1> QED  BY <1>2 DEF Blamed

\* The database is as it was, or the transaction commits: at its end, or before a failure.
LEMMA RowsChange ==
  ASSUME NEW q \in Requests, Step(q)
  PROVE  \/ rows' = rows
         \/ /\ CommitOf(q)
            /\ \/ Commit(q)
               \/ req[q].at \in InTransaction \cup {"autoCommit"} /\ Answer(q, "failed")
<1>1. CASE Commit(q)  BY <1>1 DEF Commit
<1>2. CASE AutoCommit(q)  BY <1>2 DEF AutoCommit, At
<1>3. CASE ConnectionLost(q)  BY <1>3 DEF ConnectionLost
<1>4. CASE SignIn(q) \/ Delete(q) \/ StatementFails(q) \/ QueryFails(q)
  BY <1>4 DEF SignIn, Delete, StatementFails, QueryFails
<1>5. CASE Proceed(q) /\ ~Commit(q) /\ ~AutoCommit(q)
  BY <1>5 DEF Proceed, ExistsUserName, GetStudentRole, InsertUser, InsertStudentFacet,
              InsertStudentRole, Login, ExistsUser, GetRoles, DeleteFacet, FacetsDone,
              DeleteRoles, DeleteUserRow
<1> QED  BY <1>1, <1>2, <1>3, <1>4, <1>5 DEF Step

-----------------------------------------------------------------------------
(* What the steps leave of it                                              *)

\* A commit changes the rows of one user only.
LEMMA CommitSplits ==
  ASSUME IInv, NEW q \in Requests, CommitOf(q)
  PROVE  /\ IsSignIn(q) => rows' = rows \cup written[q].ins
         /\ ~IsSignIn(q) => rows' = rows \ written[q].del
         /\ \A row \in written[q].ins \cup written[q].del : row.uid = req[q].uid
         /\ \A tables, u : u # req[q].uid => Of(rows', tables, u) = Of(rows, tables, u)
<1>1. /\ IsSignIn(q) => written[q].del = {}
      /\ ~IsSignIn(q) => written[q].ins = {}
      /\ \A row \in written[q].ins \cup written[q].del : row.uid = req[q].uid
  BY DEF IInv, Stages, Stage, Secret
<1>2. rows' = (rows \cup written[q].ins) \ written[q].del  BY DEF CommitOf, View
<1> QED  BY <1>1, <1>2 DEF Of

\* What a write adds to a transaction, which inserts or deletes.
LEMMA WriteAdds ==
  ASSUME TypeOK, NEW q \in Requests, NEW ins, NEW del, Write(q, ins, del)
  PROVE  /\ written'[q].ins = (written[q].ins \cup ins) \ del
         /\ written'[q].del = written[q].del \cup del
  BY DEF Write, TypeOK

\* What a step adds to a transaction that inserts.
LEMMA Inserts ==
  ASSUME TypeOK, NEW q \in Requests, Step(q)
  PROVE  /\ InsertUser(q) => written'[q].ins = written[q].ins \cup {UserRow(nextId, req[q].name)}
         /\ InsertStudentFacet(q) =>
              written'[q].ins = written[q].ins \cup {FacetRow(req[q].uid, "Student")}
         /\ InsertStudentRole(q) =>
              written'[q].ins = written[q].ins \cup {RoleRow(req[q].uid, "Student")}
         /\ ~InsertUser(q) /\ ~InsertStudentFacet(q) /\ ~InsertStudentRole(q) =>
              written'[q].ins \subseteq written[q].ins
<1>1. /\ InsertUser(q) =>
           written'[q].ins = written[q].ins \cup {UserRow(nextId, req[q].name)}
      /\ InsertStudentFacet(q) =>
           written'[q].ins = written[q].ins \cup {FacetRow(req[q].uid, "Student")}
      /\ InsertStudentRole(q) =>
           written'[q].ins = written[q].ins \cup {RoleRow(req[q].uid, "Student")}
  <2>1. ASSUME NEW row, Write(q, {row}, {})
        PROVE  written'[q].ins = written[q].ins \cup {row}
    BY <2>1, WriteAdds
  <2> QED  BY <2>1 DEF InsertUser, InsertStudentFacet, InsertStudentRole
<1>2. DeleteFacet(q) \/ DeleteRoles(q) \/ DeleteUserRow(q) =>
        written'[q].ins \subseteq written[q].ins
  <2>1. ASSUME NEW del, Write(q, {}, del)
        PROVE  written'[q].ins \subseteq written[q].ins
    BY <2>1, WriteAdds
  <2> QED  BY <2>1 DEF DeleteFacet, DeleteRoles, DeleteUserRow
<1>3. ASSUME Commit(q) \/ AutoCommit(q) \/ ConnectionLost(q)
      PROVE  written'[q].ins \subseteq written[q].ins
  BY <1>3 DEF Commit, AutoCommit, ConnectionLost, CommitOf, Nothing, TypeOK
<1>4. ASSUME \/ SignIn(q) \/ Delete(q) \/ ExistsUserName(q) \/ GetStudentRole(q) \/ Login(q)
             \/ ExistsUser(q) \/ GetRoles(q) \/ FacetsDone(q)
             \/ StatementFails(q) \/ QueryFails(q)
      PROVE  written'[q].ins \subseteq written[q].ins
  BY <1>4 DEF SignIn, Delete, ExistsUserName, GetStudentRole, Login, ExistsUser, GetRoles,
              FacetsDone, StatementFails, QueryFails
<1> QED  BY <1>1, <1>2, <1>3, <1>4 DEF Step, Proceed

LEMMA OneRoleKeeps == ASSUME IInv, OneRole, NEW q \in Requests, Step(q) PROVE OneRole'
<1>1. TypeOK /\ nextId > 1 /\ OneKind(rows) /\ OneKind(written[q].ins)
  BY DEF IInv, OneRole
<1>2. nextId' > 1
  <2>1. CASE InsertUser(q)  BY <1>1, <2>1 DEF InsertUser, TypeOK
  <2>2. CASE ~InsertUser(q)
    <3>1. nextId' = nextId
      BY <2>2 DEF Step, SignIn, Delete, Proceed, ExistsUserName, GetStudentRole,
           InsertStudentFacet, InsertStudentRole, Commit, Login, ExistsUser, GetRoles,
           DeleteFacet, FacetsDone, DeleteRoles, DeleteUserRow, AutoCommit, StatementFails,
           ConnectionLost, QueryFails
    <3> QED  BY <1>1, <3>1
  <2> QED  BY <2>1, <2>2
<1>3. OneKind(rows')
  <2>1. CASE rows' = rows  BY <1>1, <2>1
  <2>2. CASE CommitOf(q)  BY <1>1, <2>2 DEF CommitOf, View, OneKind
  <2> QED  BY <2>1, <2>2, RowsChange
<1>4. IsSignIn(q)' => req'[q].uid # 1
  <2>1. CASE SignIn(q)
    <3>1. req[q].uid = 0  BY <2>1 DEF SignIn, IInv, Stages, Stage, At
    <3> QED  BY <1>1, <2>1, <3>1, WhereTo
  <2>2. CASE Delete(q)
    <3>1. ~IsSignIn(q)  BY <2>2 DEF Delete, IInv, Stages, Stage, At
    <3> QED  BY <1>1, <2>2, <3>1, WhereTo DEF IsSignIn
  <2>3. CASE InsertUser(q)  BY <1>1, <2>3, WhereTo
  <2>4. CASE ~SignIn(q) /\ ~Delete(q) /\ ~InsertUser(q)
    BY <1>1, <2>4, WhereTo DEF OneRole, IsSignIn
  <2> QED  BY <2>1, <2>2, <2>3, <2>4
<1>5. OneKind(written'[q].ins)
  <2>1. CASE InsertUser(q)
    <3>1. UserRow(nextId, req[q].name).table = "Users"  BY DEF UserRow
    <3> QED  BY <1>1, <2>1, <3>1, Inserts DEF OneKind
  <2>2. CASE InsertStudentFacet(q) \/ InsertStudentRole(q)
    <3>1. req[q].uid # 1
      BY <2>2 DEF OneRole, InsertStudentFacet, InsertStudentRole, IInv, Stages, Stage, At
    <3>2. /\ FacetRow(req[q].uid, "Student").uid = req[q].uid
          /\ RoleRow(req[q].uid, "Student").uid = req[q].uid
      BY DEF FacetRow, RoleRow
    <3>3. written'[q].ins \subseteq written[q].ins
            \cup {FacetRow(req[q].uid, "Student"), RoleRow(req[q].uid, "Student")}
      BY <1>1, <2>2, Inserts
    <3> QED  BY <1>1, <3>1, <3>2, <3>3 DEF OneKind, KindOf
  <2>3. CASE ~InsertUser(q) /\ ~InsertStudentFacet(q) /\ ~InsertStudentRole(q)
    BY <1>1, <2>3, Inserts DEF OneKind
  <2> QED  BY <2>1, <2>2, <2>3
<1>6. \A p \in Requests \ {q} : req'[p] = req[p] /\ written'[p] = written[p]
  BY <1>1, OneMoves
<1> QED
  <2>1. ASSUME NEW p \in Requests
        PROVE  OneKind(written'[p].ins) /\ (IsSignIn(p)' => req'[p].uid # 1)
    BY <1>4, <1>5, <1>6 DEF OneRole, IsSignIn
  <2> QED  BY <1>2, <1>3, <2>1 DEF OneRole

LEMMA FilledKeeps == ASSUME IInv, Filled, NEW q \in Requests, Step(q) PROVE Filled'
<1> DEFINE
  Mine(p) ==
    LET u == req[p].uid
        n == req[p].name
    IN /\ At(p, "insertUser") => written[p].ins = {}
       /\ At(p, "insertStudentFacet") => written[p].ins = {UserRow(u, n)}
       /\ At(p, "insertStudentRole") =>
            written[p].ins = {UserRow(u, n), FacetRow(u, "Student")}
       /\ At(p, "commit") /\ IsSignIn(p) =>
            written[p].ins = {UserRow(u, n), FacetRow(u, "Student"), RoleRow(u, "Student")}
<1>1. TypeOK /\ Mine(q)  BY DEF IInv, Filled
<1>2. {"insertUser", "insertStudentRole", "commit", "getStudentRole", "login", "getRoles",
       "deleteRoles", "deleteUser", "autoCommit"} \subseteq Points
  BY DEF Points, InTransaction
<1>3. ASSUME GetStudentRole(q) PROVE Mine(q)'
  <2>1. req'[q].at = "insertUser"  BY <1>1, <1>2, <1>3, GotoMoves DEF GetStudentRole, Moves
  <2>2. written'[q].ins = {}
    BY <1>3 DEF GetStudentRole, IInv, Stages, Stage, At, Nothing
  <2> QED  BY <2>1, <2>2 DEF At
<1>4. ASSUME InsertUser(q) PROVE Mine(q)'
  <2>1. /\ req'[q].at = "insertStudentFacet"
        /\ req'[q].uid = nextId /\ req'[q].name = req[q].name
    BY <1>1, <1>4, WhereTo
  <2>2. written'[q].ins = {UserRow(nextId, req[q].name)}
    BY <1>1, <1>4, Inserts DEF InsertUser
  <2> QED  BY <2>1, <2>2 DEF At
<1>5. ASSUME InsertStudentFacet(q) PROVE Mine(q)'
  <2>1. /\ req'[q].at = "insertStudentRole"
        /\ req'[q].uid = req[q].uid /\ req'[q].name = req[q].name
    BY <1>1, <1>2, <1>5, GotoMoves DEF InsertStudentFacet, Moves
  <2>2. written'[q].ins = {UserRow(req[q].uid, req[q].name), FacetRow(req[q].uid, "Student")}
    BY <1>1, <1>5, Inserts DEF InsertStudentFacet
  <2> QED  BY <2>1, <2>2 DEF At
<1>6. ASSUME InsertStudentRole(q) PROVE Mine(q)'
  <2>1. /\ req'[q].at = "commit"
        /\ req'[q].uid = req[q].uid /\ req'[q].name = req[q].name
    BY <1>1, <1>2, <1>6, GotoMoves DEF InsertStudentRole, Moves
  <2>2. written'[q].ins = {UserRow(req[q].uid, req[q].name), FacetRow(req[q].uid, "Student"),
                           RoleRow(req[q].uid, "Student")}
    BY <1>1, <1>6, Inserts DEF InsertStudentRole
  <2> QED  BY <2>1, <2>2 DEF At
<1>7. ASSUME DeleteUserRow(q) PROVE Mine(q)'
  <2>1. req'[q].at \in {"autoCommit", "commit"} /\ req'[q].name = req[q].name
    <3>1. CASE Referenced(q)  BY <1>1, <1>2, <1>7, <3>1, GotoMoves DEF DeleteUserRow, Moves
    <3>2. CASE ~Referenced(q)  BY <1>1, <1>2, <1>7, <3>2, GotoMoves DEF DeleteUserRow, Moves
    <3> QED  BY <3>1, <3>2
  <2>2. ~IsSignIn(q)'  BY <1>7, <2>1 DEF DeleteUserRow, IInv, Stages, Stage, At, IsSignIn
  <2> QED  BY <2>1, <2>2 DEF At
<1>8. ASSUME \/ SignIn(q) \/ Delete(q) \/ ExistsUserName(q) \/ Commit(q) \/ Login(q)
             \/ ExistsUser(q) \/ GetRoles(q) \/ DeleteFacet(q) \/ FacetsDone(q)
             \/ DeleteRoles(q) \/ AutoCommit(q)
             \/ StatementFails(q) \/ ConnectionLost(q) \/ QueryFails(q)
      PROVE  Mine(q)'
  <2>1. req'[q].at \in {"existsUserName", "existsUser", "getStudentRole", "login", "getRoles",
                        "deleteFacets", "deleteRoles", "deleteUser", "autoCommit", "answered"}
    <3>1. CASE SignIn(q) \/ Delete(q)  BY <1>1, <3>1, WhereTo
    <3>2. CASE GetRoles(q) \/ DeleteFacet(q)
      BY <1>1, <3>2, WhereTo
    <3>3. \A point \in Points : Goto(q, point) => req'[q].at = point
      BY <1>1, GotoMoves DEF Moves
    <3>4. \A what \in {"ok", "refused", "failed"} : Answer(q, what) => req'[q].at = "answered"
      BY <1>1, AnswerMoves DEF Moves
    <3>5. CASE \/ ExistsUserName(q) \/ Commit(q) \/ Login(q) \/ ExistsUser(q) \/ FacetsDone(q)
               \/ DeleteRoles(q)
      BY <1>2, <3>3, <3>4, <3>5
      DEF ExistsUserName, Commit, Login, ExistsUser, FacetsDone, DeleteRoles
    <3>6. CASE AutoCommit(q) \/ StatementFails(q) \/ ConnectionLost(q) \/ QueryFails(q)
      BY <1>2, <3>3, <3>4, <3>6 DEF AutoCommit, StatementFails, ConnectionLost, QueryFails
    <3> QED  BY <1>8, <3>1, <3>2, <3>5, <3>6
  <2> QED  BY <2>1 DEF At
<1>9. Mine(q)'
  <2> HIDE DEF Mine
  <2> QED  BY <1>3, <1>4, <1>5, <1>6, <1>7, <1>8 DEF Step, Proceed
<1>10. \A p \in Requests \ {q} : req'[p] = req[p] /\ written'[p] = written[p]
  BY <1>1, OneMoves
<1>11. ASSUME NEW p \in Requests PROVE Mine(p)'
  BY <1>9, <1>10 DEF Filled, At, IsSignIn
<1> QED  BY <1>11 DEF Filled

LEMMA HalvedKeeps ==
  ASSUME IInv, Filled, Halved, NEW q \in Requests, Step(q)
  PROVE  Halved'
<1> DEFINE Left(u) == \E p \in Requests : Failed(p) /\ req[p].uid = u
           All == Children \cup {"Users"}
           uq == req[q].uid
<1>1. TypeOK /\ Next  BY NextIsStep DEF IInv
<1>2. \A u : Left(u) => Left(u)'  BY <1>1, FailuresStay
<1>3. ASSUME NEW u, Of(rows', All, u) = Of(rows, All, u), Whole(u) PROVE Whole(u)'
  <2>1. Of(rows', {"Users"}, u) = Of(rows, {"Users"}, u)
    BY <1>3 DEF Of
  <2> QED  BY <1>3, <2>1 DEF Whole
<1>4. CASE rows' = rows
  BY <1>2, <1>3, <1>4 DEF Halved, UsersIn
<1>5. CASE CommitOf(q) /\ (Commit(q) \/ Answer(q, "failed"))
  <2> SUFFICES ASSUME NEW row \in UsersIn(rows')
               PROVE  Whole(row.uid)' \/ Left(row.uid)'
    BY DEF Halved
  <2>1. CASE row.uid # uq
    <3>1. row \in UsersIn(rows)
      <4>1. row \in Of(rows', {"Users"}, row.uid)  BY DEF UsersIn, Of
      <4>2. row \in Of(rows, {"Users"}, row.uid)  BY <1>5, <2>1, <4>1, CommitSplits
      <4> QED  BY <4>2 DEF UsersIn, Of
    <3>2. Of(rows', All, row.uid) = Of(rows, All, row.uid)
      BY <1>5, <2>1, CommitSplits
    <3> QED  BY <1>2, <1>3, <3>1, <3>2 DEF Halved
  <2>2. CASE row.uid = uq /\ Answer(q, "failed")
    <3>1. req'[q].at = "answered" /\ req'[q].answer = "failed" /\ req'[q].uid = uq
      BY <1>1, <2>2, AnswerMoves DEF Moves
    <3> QED  BY <2>2, <3>1 DEF Failed, At
  <2>3. CASE row.uid = uq /\ Commit(q) /\ ~IsSignIn(q)
    <3>1. Of(rows', All, uq) = {}
      BY <2>3 DEF Commit, CommitOf, IInv, Deletions
    <3>2. row \in Of(rows', All, uq)  BY <2>3 DEF Of, UsersIn
    <3> QED  BY <3>1, <3>2
  <2>4. CASE row.uid = uq /\ Commit(q) /\ IsSignIn(q)
    <3> DEFINE user == UserRow(uq, req[q].name)
               facet == FacetRow(uq, "Student")
               role == RoleRow(uq, "Student")
    <3>1. written[q].ins = {user, facet, role}
      BY <2>4 DEF Filled, Commit
    <3>2. \A r \in rows : r.uid # uq
      <4>1. user.uid = uq  BY DEF UserRow
      <4> QED  BY <3>1, <4>1 DEF IInv, Secret
    <3>3. rows' = rows \cup {user, facet, role}  BY <1>5, <2>4, <3>1, CommitSplits
    <3>4. /\ user.uid = uq /\ facet.uid = uq /\ role.uid = uq
          /\ user.table = "Users" /\ facet.table = "Students" /\ role.table = "UserRoles"
      BY DEF UserRow, FacetRow, RoleRow, FacetTable, Roles
    <3> HIDE DEF user, facet, role
    <3>5. Of(rows', All, uq) = {user, facet, role}
      BY <3>2, <3>3, <3>4 DEF Of, Children
    <3>6. Of(rows', {"Users"}, uq) = {user}
      BY <3>2, <3>3, <3>4 DEF Of
    <3>7. Of(rows', All, uq) = Of(rows', {"Users"}, uq) \cup {role, facet}
      BY <3>5, <3>6
    <3> QED  BY <2>4, <3>7 DEF Whole, Roles, role, facet
  <2> QED  BY <1>5, <2>1, <2>2, <2>3, <2>4
<1> QED  BY <1>4, <1>5, RowsChange

LEMMA DeletedFromView ==
  ASSUME TypeOK, NEW q \in Requests, NEW del, Write(q, {}, del), rows' = rows
  PROVE  View(q)' = View(q) \ del
  BY WriteAdds DEF View

LEMMA ChildRows ==
  ASSUME NEW u
  PROVE  \A r \in Roles :
           /\ RoleRow(u, r).uid = u /\ RoleRow(u, r).table = "UserRoles" /\ RoleRow(u, r).value = r
           /\ FacetRow(u, r).uid = u /\ FacetRow(u, r).table = FacetTable[r]
           /\ FacetTable[r] # "UserRoles" /\ FacetTable[r] # "Users"
           /\ \A s \in Roles : FacetTable[r] = FacetTable[s] => r = s
  BY DEF RoleRow, FacetRow, FacetTable, Roles

\* The rows of the other users stay as they are in a commit.
LEMMA CommitKeepsOthers ==
  ASSUME IInv, NEW q \in Requests, CommitOf(q), NEW u,
         u # req[q].uid \/ (IsSignIn(q) /\ \A row \in written[q].ins : row.uid # u)
  PROVE  \A row : row.uid = u => (row \in rows' <=> row \in rows)
<1>1. CASE IsSignIn(q)  BY <1>1, CommitSplits
<1>2. CASE ~IsSignIn(q)  BY <1>2, CommitSplits
<1> QED  BY <1>1, <1>2

\* The rows of a user stay matched, in a commit that does not blame a sign-in.
LEMMA CommitMatched ==
  ASSUME IInv, Filled, Paired, NEW q \in Requests, Step(q), CommitOf(q),
         Commit(q) \/ Answer(q, "failed")
  PROVE  \A u \in Ids : Blamed(u)' \/ Matched(rows', u)
<1> SUFFICES ASSUME NEW u \in Ids, ~Blamed(u)'
             PROVE  Matched(rows', u)
  OBVIOUS
<1>1. TypeOK /\ Next  BY NextIsStep DEF IInv
<1>2. ~Blamed(u)  BY <1>1, BlameStays
<1>3. CASE u # req[q].uid
  <2>1. Matched(rows, u)  BY <1>2 DEF Paired
  <2> QED  BY <1>3, <2>1, CommitKeepsOthers, ChildRows DEF Matched
<1>4. CASE u = req[q].uid /\ ~IsSignIn(q)
  <2>1. Matched(View(q), u)  BY <1>2, <1>4 DEF Paired, Deleting
  <2> QED  BY <2>1 DEF CommitOf
<1>5. CASE u = req[q].uid /\ IsSignIn(q) /\ Answer(q, "failed")
  <2>1. req'[q].at = "answered" /\ req'[q].answer = "failed"
        /\ req'[q].uid = u /\ req'[q].name = req[q].name
    BY <1>1, <1>5, AnswerMoves DEF Moves
  <2>2. Blamed(u)'  BY <1>5, <2>1 DEF Blamed, Failed, At, IsSignIn
  <2> QED  BY <2>2
<1>6. CASE u = req[q].uid /\ IsSignIn(q) /\ Commit(q)
  <2>1. written[q].ins = {UserRow(u, req[q].name), FacetRow(u, "Student"), RoleRow(u, "Student")}
    BY <1>6 DEF Filled, Commit
  <2>2. \A r \in rows : r.uid # u
    <3>1. UserRow(u, req[q].name).uid = u  BY DEF UserRow
    <3> QED  BY <2>1, <3>1 DEF IInv, Secret
  <2>3. rows' = rows \cup {UserRow(u, req[q].name), FacetRow(u, "Student"), RoleRow(u, "Student")}
    BY <1>6, <2>1, CommitSplits
  <2>4. ASSUME NEW r \in Roles, FacetRow(u, r) \in rows' PROVE r = "Student"
    <3>1. FacetRow(u, r) \notin rows  BY <2>2, ChildRows
    <3>2. UserRow(u, req[q].name).table = "Users"  BY DEF UserRow
    <3>3. "Student" \in Roles  BY DEF Roles
    <3>4. FacetRow(u, r) = FacetRow(u, "Student")
      BY <2>3, <2>4, <3>1, <3>2, <3>3, ChildRows
    <3> QED  BY <3>3, <3>4, ChildRows
  <2> QED  BY <2>3, <2>4 DEF Matched
<1> QED  BY <1>3, <1>4, <1>5, <1>6

\* A commit leaves the other deletions in order.
LEMMA CommitLeavesDeleting ==
  ASSUME IInv, Paired, NEW q \in Requests, CommitOf(q), NEW p \in Requests \ {q},
         req'[p] = req[p], written'[p] = written[p], ~IsSignIn(p), ~Blamed(req[p].uid)
  PROVE  Deleting(p)'
<1> DEFINE v == req[p].uid
<1>1. Deleting(p)  BY DEF Paired
<1>2. written[p].ins = {}  BY DEF IInv, Stages, Stage
<1>3. View(p) = rows \ written[p].del /\ View(p)' = rows' \ written[p].del
  BY <1>2 DEF View
<1>4. CASE v # req[q].uid \/ IsSignIn(q)
  <2>1. \A row : row.uid = v => (row \in rows' <=> row \in rows)
    <3>1. IsSignIn(q) => \A row \in written[q].ins : row.uid # v
      BY DEF IInv, Secret
    <3> QED  BY <1>4, <3>1, CommitKeepsOthers
  <2>2. \A r \in Roles : /\ FacetRow(v, r) \in View(p)' <=> FacetRow(v, r) \in View(p)
                         /\ RoleRow(v, r) \in View(p)' <=> RoleRow(v, r) \in View(p)
    BY <1>3, <2>1, ChildRows
  <2> QED  BY <1>1, <2>2 DEF Deleting, Matched, At
<1>5. CASE v = req[q].uid /\ ~IsSignIn(q)
  <2>1. Matched(View(q), v)  BY <1>5 DEF Paired, Deleting
  <2>2. written[q].ins = {}  BY <1>5 DEF IInv, Stages, Stage
  <2>3. View(p)' = View(p) \cap View(q)
    BY <1>3, <2>2 DEF CommitOf, View
  <2> QED  BY <1>1, <2>1, <2>3 DEF Deleting, Matched, At
<1> QED  BY <1>4, <1>5

\* So does the deletion that takes a step.
LEMMA DeletingKept ==
  ASSUME IInv, IInv', Paired, NEW q \in Requests, Step(q), ~IsSignIn(q), ~IsSignIn(q)',
         NEW u, u = req'[q].uid, ~Blamed(u)'
  PROVE  Deleting(q)'
<1>1. TypeOK /\ Next  BY NextIsStep DEF IInv
<1>2. ~Blamed(u)  BY <1>1, BlameStays
<1>3. ~SignIn(q)
  <2>1. SignIn(q) => req'[q].at = "existsUserName"  BY <1>1, WhereTo
  <2>2. req'[q].at = "existsUserName" => IsSignIn(q)'  BY DEF IInv, Stages, Stage
  <2> QED  BY <2>1, <2>2
<1>4. CASE Delete(q)
  <2>1. req'[q].at = "existsUser"  BY <1>1, <1>4, WhereTo
  <2>2. View(q)' = rows /\ written'[q] = Nothing
    BY <1>4 DEF Delete, IInv, Stages, Stage, At, View, Nothing
  <2>3. Matched(rows, u)
    <3>1. CASE u \in Ids  BY <1>2, <3>1 DEF Paired
    <3>2. CASE u \notin Ids
      BY <3>2, ChildRows, TransactionTyped, RowParts DEF IInv, Matched
    <3> QED  BY <3>1, <3>2
  <2> QED  BY <2>1, <2>2, <2>3 DEF Deleting
<1>5. ASSUME ~Delete(q), ~InsertUser(q)
      PROVE  req[q].uid = u /\ Deleting(q)
  <2>1. req[q].uid = u  BY <1>1, <1>3, <1>5, WhereTo
  <2> QED  BY <1>2, <2>1 DEF Paired
<1>6. ~ExistsUserName(q) /\ ~GetStudentRole(q) /\ ~InsertUser(q) /\ ~InsertStudentFacet(q)
      /\ ~InsertStudentRole(q) /\ ~Login(q)
  BY DEF IInv, Stages, Stage, At, ExistsUserName, GetStudentRole, InsertUser,
         InsertStudentFacet, InsertStudentRole, Login
<1>7. \A point \in Points : Goto(q, point) => req'[q].at = point /\ req'[q].roles = req[q].roles
  BY <1>1, GotoMoves DEF Moves
<1>8. \A what \in {"ok", "refused", "failed"} : Answer(q, what) => req'[q].at = "answered"
  BY <1>1, AnswerMoves DEF Moves
<1>9. {"getRoles", "deleteRoles", "deleteUser", "autoCommit", "commit"} \subseteq Points
  BY DEF Points, InTransaction
<1>10. CASE ExistsUser(q) \/ StatementFails(q) \/ QueryFails(q)
  <2>1. View(q)' = View(q)  BY <1>10 DEF ExistsUser, StatementFails, QueryFails, View
  <2>2. req'[q].at \in {"getRoles", "answered", "autoCommit"}
    BY <1>7, <1>8, <1>9, <1>10 DEF ExistsUser, StatementFails, QueryFails
  <2>3. req[q].uid = u /\ Deleting(q)
    BY <1>5, <1>6, <1>10 DEF Delete, ExistsUser, StatementFails, QueryFails, At, InTransaction
  <2> QED  BY <2>1, <2>2, <2>3 DEF Deleting
<1>11. CASE GetRoles(q)
  <2>1. View(q)' = View(q)  BY <1>11 DEF GetRoles, View
  <2>2. req'[q].at = "deleteFacets" /\ req'[q].roles = RolesOf(View(q), u)
    BY <1>1, <1>11, WhereTo
  <2>3. req[q].uid = u /\ Deleting(q)
    BY <1>5, <1>6, <1>11 DEF Delete, GetRoles, At
  <2>4. \A r \in Roles : RoleRow(u, r) \in View(q) => r \in RolesOf(View(q), u)
    BY ChildRows DEF RolesOf, Of
  <2> QED  BY <2>1, <2>2, <2>3, <2>4 DEF Deleting, Matched, At
<1>12. CASE DeleteFacet(q)
  <2>1. PICK x \in req[q].roles :
          /\ Write(q, {}, Of(View(q), {FacetTable[x]}, req[q].uid))
          /\ req' = [req EXCEPT ![q].roles = @ \ {x}]
    BY <1>12 DEF DeleteFacet
  <2>2. View(q)' = View(q) \ Of(View(q), {FacetTable[x]}, u)
    BY <1>1, <1>12, <2>1, DeletedFromView DEF DeleteFacet
  <2>3. req'[q].at = "deleteFacets" /\ req'[q].roles = req[q].roles \ {x}
    <3>1. req'[q] = [req[q] EXCEPT !.roles = @ \ {x}]  BY <1>1, <2>1 DEF TypeOK
    <3> QED  BY <1>1, <1>12, <3>1, WhereTo, TransactionTyped DEF Request
  <2>4. req[q].uid = u /\ Deleting(q) /\ At(q, "deleteFacets") /\ x \in Roles
    BY <1>1, <1>5, <1>6, <1>12, TransactionTyped DEF Delete, DeleteFacet, At, Request
  <2>5. \A r \in Roles : /\ RoleRow(u, r) \in View(q)' <=> RoleRow(u, r) \in View(q)
                         /\ FacetRow(u, r) \in View(q)' <=> FacetRow(u, r) \in View(q) /\ r # x
    BY <2>2, <2>4, ChildRows DEF Of
  <2> QED  BY <2>3, <2>4, <2>5 DEF Deleting, Matched, At
<1>13. CASE FacetsDone(q)
  <2>1. View(q)' = View(q) /\ req'[q].at = "deleteRoles" /\ req[q].roles = {}
        /\ At(q, "deleteFacets")
    BY <1>7, <1>9, <1>13 DEF FacetsDone, View
  <2>2. req[q].uid = u /\ Deleting(q)
    BY <1>5, <1>6, <1>13 DEF Delete, FacetsDone, At
  <2> QED  BY <2>1, <2>2 DEF Deleting, At
<1>14. CASE DeleteRoles(q)
  <2>1. View(q)' \subseteq View(q)
    BY <1>1, <1>14, DeletedFromView DEF DeleteRoles
  <2>2. req'[q].at = "deleteUser"  BY <1>7, <1>9, <1>14 DEF DeleteRoles
  <2>3. req[q].uid = u /\ Deleting(q) /\ At(q, "deleteRoles")
    BY <1>5, <1>6, <1>14 DEF Delete, DeleteRoles, At
  <2>4. \A r \in Roles : FacetRow(u, r) \notin View(q)
    BY <2>3 DEF Deleting, At
  <2> QED  BY <2>1, <2>2, <2>3, <2>4 DEF Deleting, Matched
<1>15. CASE DeleteUserRow(q)
  <2>1. req'[q].at \in {"autoCommit", "commit"}  BY <1>7, <1>9, <1>15 DEF DeleteUserRow
  <2>2. req[q].uid = u /\ Deleting(q)
    BY <1>5, <1>6, <1>15 DEF Delete, DeleteUserRow, At
  <2>3. View(q)' = View(q) \/ View(q)' = View(q) \ Of(View(q), {"Users"}, u)
    <3>1. CASE Referenced(q)  BY <1>15, <3>1 DEF DeleteUserRow, View
    <3>2. CASE ~Referenced(q)
      BY <1>1, <1>15, <2>2, <3>2, DeletedFromView DEF DeleteUserRow
    <3> QED  BY <3>1, <3>2
  <2>4. \A r \in Roles : /\ RoleRow(u, r) \in View(q)' <=> RoleRow(u, r) \in View(q)
                         /\ FacetRow(u, r) \in View(q)' <=> FacetRow(u, r) \in View(q)
    BY <2>3, ChildRows DEF Of
  <2> QED  BY <2>1, <2>2, <2>4 DEF Deleting, Matched
<1>16. CASE Commit(q) \/ AutoCommit(q) \/ ConnectionLost(q)
  <2>1. written'[q] = Nothing /\ req'[q].at = "answered"
    BY <1>1, <1>8, <1>16 DEF Commit, AutoCommit, ConnectionLost, CommitOf, TypeOK
  <2>2. View(q)' = rows'  BY <2>1 DEF View, Nothing
  <2>3. req[q].uid = u /\ Deleting(q)
    BY <1>5, <1>6, <1>16 DEF Delete, Commit, AutoCommit, ConnectionLost, At, InTransaction
  <2>4. rows' = View(q) \/ rows' = rows
    BY <1>16 DEF Commit, AutoCommit, ConnectionLost, CommitOf
  <2>5. Matched(rows, u)
    <3>1. CASE u \in Ids  BY <1>2, <2>3, <3>1 DEF Paired
    <3>2. CASE u \notin Ids
      BY <3>2, ChildRows, TransactionTyped, RowParts DEF IInv, Matched
    <3> QED  BY <3>1, <3>2
  <2> QED  BY <2>1, <2>2, <2>3, <2>4, <2>5 DEF Deleting
<1> QED
  BY <1>3, <1>4, <1>6, <1>10, <1>11, <1>12, <1>13, <1>14, <1>15, <1>16 DEF Step, Proceed

LEMMA PairedKeeps ==
  ASSUME IInv, IInv', Filled, Paired, NEW q \in Requests, Step(q)
  PROVE  Paired'
<1>1. TypeOK /\ Next  BY NextIsStep DEF IInv
<1>2. \A u : Blamed(u) => Blamed(u)'  BY <1>1, BlameStays
<1>3. \A p \in Requests \ {q} : req'[p] = req[p] /\ written'[p] = written[p]
  BY <1>1, OneMoves
<1>4. \A u \in Ids : Blamed(u)' \/ Matched(rows', u)
  <2>1. CASE rows' = rows  BY <1>2, <2>1 DEF Paired
  <2> QED  BY <2>1, RowsChange, CommitMatched
<1>5. ASSUME NEW p \in Requests PROVE IsSignIn(p)' \/ Blamed(req[p].uid)' \/ Deleting(p)'
  <2>1. CASE p # q
    <3> SUFFICES ASSUME ~IsSignIn(p), ~Blamed(req[p].uid) PROVE Deleting(p)'
      <4>1. PICK v : v = req[p].uid  OBVIOUS
      <4>2. Blamed(v) => Blamed(v)'  BY <1>2
      <4>3. Blamed(v) <=> Blamed(req[p].uid)  BY <4>1
      <4>4. Blamed(v)' <=> Blamed(req[p].uid)'  BY <1>3, <2>1, <4>1 DEF Blamed
      <4> QED  BY <1>3, <2>1, <4>2, <4>3, <4>4 DEF IsSignIn
    <3>1. CASE rows' = rows
      <4>1. Deleting(p) /\ View(p)' = View(p)  BY <1>3, <2>1, <3>1 DEF Paired, View
      <4> QED  BY <1>3, <2>1, <4>1 DEF Deleting, At
    <3>2. CASE CommitOf(q)  BY <1>3, <2>1, <3>2, CommitLeavesDeleting
    <3> QED  BY <3>1, <3>2, RowsChange
  <2>2. CASE p = q
    <3>1. CASE IsSignIn(q)
      <4>1. ~Delete(q) /\ ~SignIn(q)
        BY <3>1 DEF Delete, SignIn, IInv, Stages, Stage, At
      <4>2. req'[q].name = req[q].name  BY <1>1, <4>1, WhereTo
      <4> QED  BY <2>2, <3>1, <4>2 DEF IsSignIn
    <3>2. CASE ~IsSignIn(q)
      <4>1. PICK u : u = req'[q].uid  OBVIOUS
      <4>2. Blamed(u)' => Blamed(req[q].uid)'  BY <4>1 DEF Blamed
      <4> QED  BY <2>2, <3>2, <4>1, <4>2, DeletingKept
    <3> QED  BY <3>1, <3>2
  <2> QED  BY <2>1, <2>2
<1> QED  BY <1>4, <1>5 DEF Paired

-----------------------------------------------------------------------------
(* The whole, with its halves                                              *)

LEMMA InitHInv == Init => HInv
<1> SUFFICES ASSUME Init PROVE HInv  OBVIOUS
<1> DEFINE user == UserRow(1, Admin.name)
           role == RoleRow(1, "Administrator")
           facet == FacetRow(1, "Administrator")
<1>1. rows = {user, role, facet} /\ nextId = 2
  BY DEF Init, Admin
<1>2. /\ user.uid = 1 /\ role.uid = 1 /\ facet.uid = 1
      /\ user.table = "Users" /\ role.table = "UserRoles" /\ facet.table = "Admins"
      /\ "Administrator" \in Roles
  BY DEF UserRow, RoleRow, FacetRow, FacetTable, Roles
<1>3. \A q \in Requests : /\ ~IsSignIn(q) /\ req[q].at = "idle" /\ written[q] = Nothing
  BY DEF Init, Idle, IsSignIn
<1>4. OneRole  BY <1>1, <1>2, <1>3 DEF OneRole, OneKind, KindOf, Nothing
<1>5. Filled  BY <1>3 DEF Filled, At
<1>6. Halved
  <2> HIDE DEF user, role, facet
  <2>1. Of(rows, Children \cup {"Users"}, 1) = {user, role, facet}
    BY <1>1, <1>2 DEF Of, Children
  <2>2. Of(rows, {"Users"}, 1) = {user}  BY <1>1, <1>2 DEF Of
  <2>3. Whole(1)  BY <1>2, <2>1, <2>2 DEF Whole, role, facet
  <2> QED  BY <1>1, <1>2, <2>3 DEF Halved, UsersIn
<1>7. \A u : Matched(rows, u)
  <2> SUFFICES ASSUME NEW u, NEW r \in Roles, FacetRow(u, r) \in rows
               PROVE  RoleRow(u, r) \in rows
    BY DEF Matched
  <2>1. FacetRow(u, r) = facet
    <3>1. FacetRow(u, r).table \notin {"Users", "UserRoles"}  BY ChildRows
    <3> HIDE DEF user, role, facet
    <3> QED  BY <1>1, <1>2, <3>1
  <2>2. u = 1 /\ r = "Administrator"
    BY <1>2, <2>1, ChildRows
  <2> QED  BY <1>1, <2>2
<1>8. Paired
  <2>1. \A q \in Requests : View(q) = rows  BY <1>3 DEF View, Nothing
  <2> QED  BY <1>3, <1>7, <2>1 DEF Paired, Deleting
<1> QED  BY <1>4, <1>5, <1>6, <1>8, InitIInv DEF HInv

LEMMA NextHInv == ASSUME HInv, [Next]_uvars PROVE HInv'
<1>1. IInv /\ OneRole /\ Filled /\ Halved /\ Paired  BY DEF HInv
<1>2. IInv'  BY <1>1, NextIInv
<1>3. CASE Next
  <2>1. PICK q \in Requests : Step(q)  BY <1>3, NextIsStep
  <2> QED
    BY <1>1, <1>2, <2>1, OneRoleKeeps, FilledKeeps, HalvedKeeps, PairedKeeps DEF HInv
<1>4. CASE UNCHANGED uvars
  <2>1. OneRole' /\ Filled'
    BY <1>1, <1>4 DEF uvars, OneRole, OneKind, Filled, At, IsSignIn
  <2>2. Halved'  BY <1>1, <1>4 DEF uvars, Halved, UsersIn, Whole, Of, Failed, At
  <2>3. Paired'
    BY <1>1, <1>4 DEF uvars, Paired, Blamed, Matched, Deleting, View, Failed, At, IsSignIn
  <2> QED  BY <1>2, <2>1, <2>2, <2>3 DEF HInv
<1> QED  BY <1>3, <1>4

LEMMA HalvesInvariance == Spec => []HInv
  BY InitHInv, NextHInv, PTL DEF Spec

(* A user without its role or facet was left by a sign-in or a deletion    *)
(* whose client has been told of a failure, and one that cannot be deleted *)
(* by a sign-in, however many deletions of it overlap (CreateStudent and   *)
(* DeleteUser.perform, DatabaseOperationExecutor.perform).                 *)
THEOREM HalvesAreFailures == Spec => []OnlyFailuresLeaveHalves
<1>1. HInv => OnlyFailuresLeaveHalves
  <2> SUFFICES ASSUME HInv, NEW row \in UsersIn(rows)
      PROVE  /\ Whole(row.uid) \/ \E q \in Requests : Failed(q) /\ req[q].uid = row.uid
             /\ Undeletable(row.uid) => Blamed(row.uid)
    BY DEF OnlyFailuresLeaveHalves, Blamed
  <2>1. Whole(row.uid) \/ \E q \in Requests : Failed(q) /\ req[q].uid = row.uid
    BY DEF HInv, Halved
  <2>2. ASSUME Undeletable(row.uid) PROVE Blamed(row.uid)
    <3>1. PICK w \in rows, r \in Roles :
            r \notin RolesOf(rows, row.uid) /\ w.table = FacetTable[r] /\ w.uid = row.uid
      BY <2>2 DEF Undeletable, Of
    <3>2. row.uid \in Ids /\ w \in Row
      BY RowParts, TransactionTyped DEF HInv, IInv, TypeOK, UsersIn
    <3>3. w = FacetRow(row.uid, r)
      BY <3>1, <3>2 DEF Row, FacetRow, FacetTable, Roles
    <3>4. RoleRow(row.uid, r) \notin rows
      BY <3>1, ChildRows DEF RolesOf, Of
    <3> QED  BY <3>1, <3>2, <3>3, <3>4 DEF HInv, Paired, Matched
  <2> QED  BY <2>1, <2>2
<1> QED  BY <1>1, HalvesInvariance, PTL

-----------------------------------------------------------------------------
(* The registry                                                            *)

Users == {row.uid : row \in UsersIn(rows)}
NamesOf(u) == {row.value : row \in Of(rows, {"Users"}, u)}
Entry(u) == [names |-> NamesOf(u), whole |-> Whole(u)]

LEMMA RegisteredIs == registered = [u \in Users |-> Entry(u)]
  BY DEF registered, Users, Entry, NamesOf

LEMMA UsersAre == \A u : u \in Users <=> Of(rows, {"Users"}, u) # {}
  BY DEF Users, UsersIn, Of

\* Whoever keeps its rows keeps its entry.
LEMMA SameEntry ==
  ASSUME NEW u, Of(rows', Children \cup {"Users"}, u) = Of(rows, Children \cup {"Users"}, u)
  PROVE  (u \in Users' <=> u \in Users) /\ Entry(u)' = Entry(u)
<1>1. Of(rows', {"Users"}, u) = Of(rows, {"Users"}, u)  BY DEF Of
<1>2. u \in Users' <=> u \in Users
  BY <1>1 DEF Users, UsersIn, Of
<1>3. NamesOf(u)' = NamesOf(u)  BY <1>1 DEF NamesOf
<1>4. Whole(u)' = Whole(u)  BY <1>1 DEF Whole
<1> QED  BY <1>2, <1>3, <1>4 DEF Entry

LEMMA OtherEntries ==
  ASSUME IInv, NEW q \in Requests, CommitOf(q)
  PROVE  \A u : u # req[q].uid => (u \in Users' <=> u \in Users) /\ Entry(u)' = Entry(u)
<1> SUFFICES ASSUME NEW u, u # req[q].uid
             PROVE  (u \in Users' <=> u \in Users) /\ Entry(u)' = Entry(u)
  OBVIOUS
<1>1. Of(rows', Children \cup {"Users"}, u) = Of(rows, Children \cup {"Users"}, u)
  BY CommitSplits
<1> QED  BY <1>1, SameEntry

\* A sign-in that commits registers its user.
LEMMA SignInRegisters ==
  ASSUME HInv, NEW q \in Requests, CommitOf(q), IsSignIn(q), written[q].ins # {}
  PROVE  R!RegistryNext
<1> DEFINE All == Children \cup {"Users"}
           name == req[q].name
<1>0. PICK uq : uq = req[q].uid  OBVIOUS
<1>1. IInv /\ TypeOK  BY DEF HInv, IInv
<1>2. rows' = rows \cup written[q].ins  BY <1>1, CommitSplits
<1>3. /\ UserRow(uq, name) \in written[q].ins
      /\ \A row \in written[q].ins :
           /\ row.uid = uq /\ \A r \in rows : r.uid # uq
           /\ row.table = "Users" => row.value = name
  BY <1>0, <1>1 DEF IInv, Stages, Stage, Secret
<1>4. uq \in Ids /\ name \in Names
  <2>1. uq \in Ids
    BY <1>1, <1>3, TransactionTyped, RowParts
  <2> QED  BY <1>1, <2>1, TransactionTyped DEF IsSignIn, Request
<1>5. UserRow(uq, name).table = "Users" /\ UserRow(uq, name).uid = uq
      /\ UserRow(uq, name).value = name
  BY DEF UserRow
<1>6. NamesOf(uq)' = {name}
  <2>1. \A row \in Of(rows', {"Users"}, uq) : row.value = name
    BY <1>2, <1>3 DEF Of
  <2>2. UserRow(uq, name) \in Of(rows', {"Users"}, uq)
    BY <1>2, <1>3, <1>5 DEF Of
  <2> QED  BY <1>5, <2>1, <2>2 DEF NamesOf
<1>7. uq \notin Users /\ uq \in Users'
  BY <1>2, <1>3, <1>5 DEF Users, UsersIn
<1>8. Entry(uq)' \in R!Person
  <2>1. Whole(uq)' \in BOOLEAN  BY DEF Whole
  <2> QED  BY <1>4, <1>6, <2>1 DEF Entry, R!Person
<1>9. \A u : u # uq => (u \in Users' <=> u \in Users) /\ Entry(u)' = Entry(u)
  BY <1>0, <1>1, OtherEntries
<1>10. registered' = [v \in DOMAIN registered \cup {uq} |->
                        IF v = uq THEN Entry(uq)' ELSE registered[v]]
  <2>1. registered' = [u \in Users' |-> Entry(u)']
    BY DEF registered, Users, Entry, NamesOf
  <2>2. Users' = Users \cup {uq}  BY <1>7, <1>9
  <2>3. \A u \in Users : registered[u] = Entry(u) /\ u # uq
    BY <1>7, RegisteredIs
  <2>4. DOMAIN registered = Users  BY RegisteredIs
  <2> QED  BY <1>9, <2>1, <2>2, <2>3, <2>4
<1>11. R!Register(uq)
  <2>1. uq \notin DOMAIN registered  BY <1>7, RegisteredIs
  <2> QED  BY <1>8, <1>10, <2>1 DEF R!Register
<1> QED  BY <1>4, <1>11 DEF R!RegistryNext

LEMMA DamagedEntry ==
  ASSUME NEW n, NEW e \in [names : {n}, whole : BOOLEAN]
  PROVE  [e EXCEPT !.whole = FALSE] = [names |-> n, whole |-> FALSE]
<1> DEFINE d == [e EXCEPT !.whole = FALSE]
           f == [names |-> n, whole |-> FALSE]
<1>1. d \in [names : {n}, whole : BOOLEAN] /\ d.names = n /\ d.whole = FALSE
  OBVIOUS
<1>2. f \in [names : {n}, whole : BOOLEAN] /\ f.names = n /\ f.whole = FALSE
  OBVIOUS
<1> HIDE DEF d, f
<1>3. d = f  BY <1>1, <1>2
<1> QED  BY <1>3 DEF d, f

\* Nobody becomes whole by a deletion.
LEMMA WholeBefore ==
  ASSUME HInv, NEW u, rows' \subseteq rows, Whole(u)',
         Of(rows', {"Users"}, u) = Of(rows, {"Users"}, u)
  PROVE  Whole(u)
<1> DEFINE All == Children \cup {"Users"}
<1>1. PICK r \in Roles :
        Of(rows', All, u) = Of(rows', {"Users"}, u) \cup {RoleRow(u, r), FacetRow(u, r)}
  BY DEF Whole
<1>2. RoleRow(u, r) \in rows /\ FacetRow(u, r) \in rows  BY <1>1 DEF Of
<1>3. OneKind(rows) /\ KindOf(u) \in Roles  BY DEF HInv, OneRole, KindOf, Roles
<1>4. r = KindOf(u)
  <2>1. RoleRow(u, r).uid = u /\ RoleRow(u, r).table # "Users"  BY ChildRows
  <2>2. RoleRow(u, r) \in {RoleRow(u, KindOf(u)), FacetRow(u, KindOf(u))}
    BY <1>2, <1>3, <2>1 DEF OneKind
  <2> QED  BY <1>3, <2>2, ChildRows
<1>5. \A row \in Of(rows, All, u) : row.table = "Users" \/ row \in {RoleRow(u, r), FacetRow(u, r)}
  BY <1>3, <1>4 DEF OneKind, Of
<1>6. {RoleRow(u, r), FacetRow(u, r)} \subseteq Of(rows, All, u)
  BY <1>1, <1>2 DEF Of
<1>7. Of(rows, All, u) = Of(rows, {"Users"}, u) \cup {RoleRow(u, r), FacetRow(u, r)}
  BY <1>5, <1>6 DEF Of
<1> QED  BY <1>7 DEF Whole

\* A deletion that commits removes or damages its user, or does neither.
LEMMA DeletionRegistered ==
  ASSUME HInv, NEW q \in Requests, CommitOf(q), ~IsSignIn(q)
  PROVE  R!RegistryNext \/ registered' = registered
<1> DEFINE All == Children \cup {"Users"}
<1>0. PICK uq : uq = req[q].uid  OBVIOUS
<1>1. IInv /\ TypeOK  BY DEF HInv, IInv
<1>2. rows' \subseteq rows  BY <1>1, CommitSplits
<1>3. \A u : u # uq => (u \in Users' <=> u \in Users) /\ Entry(u)' = Entry(u)
  BY <1>0, <1>1, OtherEntries
<1>4. registered' = [u \in Users' |-> Entry(u)']
  BY DEF registered, Users, Entry, NamesOf
<1>5. Users' \subseteq Users  BY <1>2 DEF Users, UsersIn
<1>6. DOMAIN registered = Users /\ \A u \in Users : registered[u] = Entry(u)
  BY RegisteredIs
<1>7. \A u \in Users : u \in Ids
  BY <1>1, RowParts DEF Users, UsersIn, TypeOK
<1>8. CASE uq \notin Users
  <2>1. Users' = Users  BY <1>3, <1>5, <1>8
  <2>2. \A u \in Users : Entry(u)' = Entry(u)  BY <1>3, <1>8
  <2> QED  BY <1>4, <2>1, <2>2, RegisteredIs
<1>9. CASE uq \in Users /\ uq \notin Users'
  <2>1. Users' = Users \ {uq}  BY <1>3, <1>9
  <2>2. registered' = [v \in DOMAIN registered \ {uq} |-> registered[v]]
    BY <1>3, <1>4, <1>6, <2>1
  <2>3. R!Remove(uq)  BY <1>6, <1>9, <2>2 DEF R!Remove, R!Without
  <2> QED  BY <1>7, <1>9, <2>3 DEF R!RegistryNext
<1>10. CASE uq \in Users'
  <2>1. Users' = Users /\ uq \in Users  BY <1>3, <1>5, <1>10
  <2>2. Of(rows', {"Users"}, uq) = Of(rows, {"Users"}, uq)
    <3>1. \A r, w \in Of(rows, {"Users"}, uq) : r = w
      BY <1>1 DEF IInv, NamesKept, UsersIn, Of
    <3>2. Of(rows', {"Users"}, uq) # {}
      BY <1>10 DEF Users, UsersIn, Of
    <3>3. Of(rows', {"Users"}, uq) \subseteq Of(rows, {"Users"}, uq)
      BY <1>2 DEF Of
    <3> QED  BY <3>1, <3>2, <3>3
  <2>3. NamesOf(uq)' = NamesOf(uq)  BY <2>2 DEF NamesOf
  <2>4. Whole(uq)' => Whole(uq)  BY <1>2, <2>2, WholeBefore
  <2>5. CASE Whole(uq)' = Whole(uq)
    <3>1. \A u \in Users : Entry(u)' = Entry(u)
      BY <1>3, <2>3, <2>5 DEF Entry
    <3> QED  BY <1>4, <2>1, <3>1, RegisteredIs
  <2>6. CASE Whole(uq) /\ ~Whole(uq)'
    <3>0. Whole(uq) = TRUE /\ Whole(uq)' = FALSE  BY <2>6 DEF Whole
    <3>1. Entry(uq)' = [names |-> NamesOf(uq), whole |-> FALSE]
      BY <2>3, <3>0 DEF Entry
    <3>2. Entry(uq).whole
      <4>1. Entry(uq) = [names |-> NamesOf(uq), whole |-> TRUE]  BY <3>0 DEF Entry
      <4> QED  BY <4>1
    <3>3. [Entry(uq) EXCEPT !.whole = FALSE] = [names |-> NamesOf(uq), whole |-> FALSE]
      <4>1. Entry(uq) \in [names : {NamesOf(uq)}, whole : BOOLEAN]
        BY <3>0 DEF Entry
      <4> QED  BY <4>1, DamagedEntry
    <3>4. registered' = [registered EXCEPT ![uq] = [Entry(uq) EXCEPT !.whole = FALSE]]
      <4> DEFINE e == [Entry(uq) EXCEPT !.whole = FALSE]
      <4>1. e = Entry(uq)'  BY <3>1, <3>3
      <4>2. registered' = [u \in Users |-> Entry(u)']  BY <1>4, <2>1
      <4> HIDE DEF e
      <4>3. registered' = [u \in Users |-> IF u = uq THEN e ELSE Entry(u)]
        BY <1>3, <4>1, <4>2
      <4> QED  BY <4>3, RegisteredIs DEF e
    <3>5. registered' = [registered EXCEPT ![uq].whole = FALSE]
      BY <1>6, <2>1, <3>4
    <3>6. R!Damage(uq)  BY <1>6, <2>1, <3>2, <3>5 DEF R!Damage
    <3> QED  BY <1>7, <2>1, <3>6 DEF R!RegistryNext
  <2>7. Whole(uq)' = Whole(uq) \/ (Whole(uq) /\ ~Whole(uq)')
    BY <2>4 DEF Whole
  <2> QED  BY <2>5, <2>6, <2>7
<1> QED  BY <1>5, <1>8, <1>9, <1>10

LEMMA RegistryStep == ASSUME HInv, [Next]_uvars PROVE [R!RegistryNext]_registered
<1>1. CASE rows' = rows
  <2>1. registered' = registered  BY <1>1 DEF registered, UsersIn, Of, Whole
  <2> QED  BY <2>1
<1>2. ASSUME NEW q \in Requests, CommitOf(q) PROVE [R!RegistryNext]_registered
  <2>1. CASE IsSignIn(q) /\ written[q].ins # {}  BY <1>2, <2>1, SignInRegisters
  <2>2. CASE IsSignIn(q) /\ written[q].ins = {}
    <3>1. rows' = rows  BY <1>2, <2>2, CommitSplits DEF HInv
    <3> QED  BY <1>1, <3>1
  <2>3. CASE ~IsSignIn(q)  BY <1>2, <2>3, DeletionRegistered
  <2> QED  BY <2>1, <2>2, <2>3
<1>3. CASE Next
  <2>1. PICK q \in Requests : Step(q)  BY <1>3, NextIsStep
  <2> QED  BY <1>1, <1>2, <2>1, RowsChange
<1>4. CASE UNCHANGED uvars  BY <1>1, <1>4 DEF uvars
<1> QED  BY <1>3, <1>4

LEMMA RegistryStart == Init => R!RegistryInit
<1> SUFFICES ASSUME Init PROVE R!RegistryInit  OBVIOUS
<1> DEFINE name == Admin.name
<1>1. HInv  BY InitHInv
<1>2. /\ rows = {UserRow(1, name), RoleRow(1, "Administrator"), FacetRow(1, "Administrator")}
      /\ name \in Names /\ 1 \in Ids
  BY SubmissionUsersAssumption DEF Init, Admin, Ids
<1>3. UsersIn(rows) = {UserRow(1, name)}
  <2>1. /\ UserRow(1, name).table = "Users" /\ RoleRow(1, "Administrator").table # "Users"
        /\ FacetRow(1, "Administrator").table # "Users"
    BY DEF UserRow, RoleRow, FacetRow, FacetTable, Roles
  <2> QED  BY <1>2, <2>1 DEF UsersIn
<1>4. UserRow(1, name).uid = 1 /\ UserRow(1, name).value = name
  BY DEF UserRow
<1>5. Users = {1}  BY <1>3, <1>4 DEF Users
<1>6. NamesOf(1) = {name}
  <2>1. Of(rows, {"Users"}, 1) = {UserRow(1, name)}  BY <1>3, <1>4 DEF Of, UsersIn
  <2> QED  BY <1>4, <2>1 DEF NamesOf
<1>7. Whole(1)
  <2>1. ~ \E q \in Requests : Failed(q)  BY DEF Init, Idle, Failed, At
  <2>2. UserRow(1, name) \in UsersIn(rows)  BY <1>3
  <2> QED  BY <1>1, <1>4, <2>1, <2>2 DEF HInv, Halved
<1>8. Entry(1) = [names |-> {name}, whole |-> TRUE]
  <2>1. Whole(1) = TRUE  BY <1>7 DEF Whole
  <2> QED  BY <1>6, <2>1 DEF Entry
<1>9. registered = [v \in {1} |-> [names |-> {name}, whole |-> TRUE]]
  BY <1>5, <1>8, RegisteredIs
<1> QED  BY <1>2, <1>9 DEF R!RegistryInit

(* Seen from its users, the submission system is a registry: each commit   *)
(* adds one user, takes a part of one user's record, or removes one user,  *)
(* and no name ever changes, whatever overlaps and whatever fails.         *)
THEOREM UsersAreARegistry == Spec => RegistrySpec
<1>1. Init => R!RegistryInit  BY RegistryStart
<1>2. HInv /\ [Next]_uvars => [R!RegistryNext]_registered  BY RegistryStep
<1> QED  BY <1>1, <1>2, HalvesInvariance, PTL DEF Spec, RegistrySpec, R!Spec

=============================================================================
