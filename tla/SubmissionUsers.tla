---------------------------- MODULE SubmissionUsers ----------------------------
(***************************************************************************)
(* Sign-in and deletion of users in the submission system: requests in     *)
(* threads of the servlet container, each executing a few SQL statements   *)
(* on a pooled connection (ws/RootController, ws/AdminController, ws/db).  *)
(*                                                                         *)
(* The database is InnoDB behind a JDBC driver: what a transaction writes  *)
(* is visible to the others when it commits, a DELETE waits for rows that  *)
(* another transaction has deleted, a foreign key refuses to delete a      *)
(* parent, a failed statement undoes itself only, setAutoCommit(true) in a *)
(* transaction commits it, and a lost connection rolls it back.            *)
(***************************************************************************)
EXTENDS Naturals, FiniteSets

CONSTANTS Requests,     \* requests, one thread each
          Names,        \* user names
          MaxId,        \* bound: the last value of AUTO_INCREMENT
          Connections,  \* maxActive of the pool
          MaxFaults     \* bound: failing statements and lost connections

ASSUME SubmissionUsersAssumption ==
  /\ IsFiniteSet(Requests)
  /\ Names # {} /\ "-" \notin Names    \* "-" stands for null
  /\ MaxId \in Nat /\ MaxId > 0
  /\ Connections \in Nat /\ Connections > 0
  /\ MaxFaults \in Nat

VARIABLES rows,     \* what is committed
          written,  \* what each open transaction has inserted and deleted
          nextId,   \* AUTO_INCREMENT of Users
          free,     \* connections left in the pool
          req,      \* where each request is, and its local variables
          known,    \* ghost: the users there were when a sign-in looked for its name
          faults    \* ghost: the faults so far

uvars == <<rows, written, nextId, free, req, known, faults>>

-----------------------------------------------------------------------------
(* Tables                                                                  *)

Ids == 1 .. MaxId
Roles == {"Student", "Administrator"}
FacetTable == [r \in Roles |-> IF r = "Student" THEN "Students" ELSE "Admins"]
Children == {"UserRoles", "Students", "Admins"}

Row == [table : {"Users"}, uid : Ids, value : Names]
         \cup [table : {"UserRoles"}, uid : Ids, value : Roles]
         \cup [table : {"Students", "Admins"}, uid : Ids, value : {"facet"}]

Of(S, tables, u) == {row \in S : row.table \in tables /\ row.uid = u}
RolesOf(S, u) == {row.value : row \in Of(S, {"UserRoles"}, u)}
UserRow(u, n) == [table |-> "Users", uid |-> u, value |-> n]
RoleRow(u, r) == [table |-> "UserRoles", uid |-> u, value |-> r]
FacetRow(u, r) == [table |-> FacetTable[r], uid |-> u, value |-> "facet"]
UsersIn(S) == {row \in S : row.table = "Users"}
Admin == [uid |-> 1, name |-> CHOOSE n \in Names : TRUE]

Nothing == [ins |-> {}, del |-> {}]

(* What request q sees of the database under READ COMMITTED.               *)
View(q) == (rows \cup written[q].ins) \ written[q].del

-----------------------------------------------------------------------------
(* Requests                                                                *)

InTransaction == {"insertUser", "insertStudentFacet", "insertStudentRole",
                  "getRoles", "deleteFacets", "deleteRoles", "deleteUser", "commit"}
Points == {"idle", "existsUserName", "getStudentRole", "existsUser", "autoCommit",
           "login", "answered"} \cup InTransaction

Request == [at : Points, uid : Ids \cup {0}, name : Names \cup {"-"},
            roles : SUBSET Roles, answer : {"-", "ok", "refused", "failed"}]

Idle == [at |-> "idle", uid |-> 0, name |-> "-", roles |-> {}, answer |-> "-"]

At(q, point) == req[q].at = point
Goto(q, point) == req' = [req EXCEPT ![q].at = point]
Answer(q, what) == req' = [req EXCEPT ![q].at = "answered", ![q].answer = what]

Write(q, ins, del) ==
  written' = [written EXCEPT ![q] = [ins |-> (@.ins \cup ins) \ del, del |-> @.del \cup del]]
CommitOf(q) == /\ rows' = View(q)
               /\ written' = [written EXCEPT ![q] = Nothing]

Init == /\ rows = {UserRow(Admin.uid, Admin.name), RoleRow(Admin.uid, "Administrator"),
                   FacetRow(Admin.uid, "Administrator")}
        /\ written = [q \in Requests |-> Nothing]
        /\ nextId = 2
        /\ free = Connections
        /\ req = [q \in Requests |-> Idle]
        /\ known = [q \in Requests |-> {}]
        /\ faults = 0

-----------------------------------------------------------------------------
(* RootController.signIn                                                   *)

SignIn(q) == /\ At(q, "idle")
             /\ \E n \in Names : req' = [req EXCEPT ![q].at = "existsUserName", ![q].name = n]
             /\ UNCHANGED <<rows, written, nextId, free, known, faults>>

\* Wrong: the query joins the roles, so that a user without one is not found.
NameTakenWithRole(n) == \E row \in UsersIn(rows) : row.value = n /\ RolesOf(rows, row.uid) # {}

(* A connection of its own, taken and given back around one SELECT.        *)
NameTaken(n) == \E row \in UsersIn(rows) : row.value = n

ExistsUserName(q) ==
  /\ At(q, "existsUserName") /\ free > 0
  /\ known' = [known EXCEPT ![q] = {row.uid : row \in UsersIn(rows)}]
  /\ IF NameTaken(req[q].name) THEN Answer(q, "refused") ELSE Goto(q, "getStudentRole")
  /\ UNCHANGED <<rows, written, nextId, free, faults>>

(* The roles table never changes, so that the query finds the student role. *)
GetStudentRole(q) == /\ At(q, "getStudentRole") /\ free > 0
                     /\ free' = free - 1
                     /\ Goto(q, "insertUser")
                     /\ UNCHANGED <<rows, written, nextId, known, faults>>

\* Wrong: the id is SELECT MAX(id) + 1.
InsertUserNextToLast(q) ==
  LET u == CHOOSE i \in Ids : /\ Of(rows, {"Users"}, i) = {}
                              /\ \A j \in Ids : Of(rows, {"Users"}, j) = {} => i <= j
  IN /\ At(q, "insertUser")
     /\ Write(q, {UserRow(u, req[q].name)}, {})
     /\ req' = [req EXCEPT ![q].at = "insertStudentFacet", ![q].uid = u]
     /\ UNCHANGED <<rows, nextId, free, known, faults>>

\* Wrong: setAutoCommit(false) comes after the first insert.
InsertUserAtOnce(q) ==
  /\ At(q, "insertUser")
  /\ nextId \in Ids
  /\ nextId' = nextId + 1
  /\ rows' = rows \cup {UserRow(nextId, req[q].name)}
  /\ req' = [req EXCEPT ![q].at = "insertStudentFacet", ![q].uid = nextId]
  /\ UNCHANGED <<written, free, known, faults>>

(* AUTO_INCREMENT does not roll back.                                      *)
InsertUser(q) ==
  /\ At(q, "insertUser")
  /\ nextId \in Ids
  /\ nextId' = nextId + 1
  /\ Write(q, {UserRow(nextId, req[q].name)}, {})
  /\ req' = [req EXCEPT ![q].at = "insertStudentFacet", ![q].uid = nextId]
  /\ UNCHANGED <<rows, free, known, faults>>

InsertStudentFacet(q) ==
  /\ At(q, "insertStudentFacet")
  /\ Write(q, {FacetRow(req[q].uid, "Student")}, {})
  /\ Goto(q, "insertStudentRole")
  /\ UNCHANGED <<rows, nextId, free, known, faults>>

InsertStudentRole(q) ==
  /\ At(q, "insertStudentRole")
  /\ Write(q, {RoleRow(req[q].uid, "Student")}, {})
  /\ Goto(q, "commit")
  /\ UNCHANGED <<rows, nextId, free, known, faults>>

IsSignIn(q) == req[q].name # "-"

(* con.commit() of either operation; what `finally` and close() do after a *)
(* successful commit changes nothing but the pool.                         *)
Commit(q) ==
  /\ At(q, "commit")
  /\ CommitOf(q)
  /\ free' = free + 1
  /\ IF IsSignIn(q) THEN Goto(q, "login") ELSE Answer(q, "ok")
  /\ UNCHANGED <<nextId, known, faults>>

(* The realm compares the password with that of the first user of that     *)
(* name. Passwords of different requests are assumed to differ.            *)
FirstNamed(n) == {row \in UsersIn(rows) : /\ row.value = n
                                          /\ \A other \in UsersIn(rows) :
                                               other.value = n => row.uid <= other.uid}

Login(q) ==
  /\ At(q, "login") /\ free > 0
  /\ Answer(q, IF \E row \in FirstNamed(req[q].name) : row.uid = req[q].uid
               THEN "ok" ELSE "failed")
  /\ UNCHANGED <<rows, written, nextId, free, known, faults>>

-----------------------------------------------------------------------------
(* AdminController.userDelete and DeleteUser.perform                       *)

(* The administrator picks a user from the list, as it was some time ago.  *)
Delete(q) ==
  /\ At(q, "idle")
  /\ \E row \in UsersIn(rows) :
       req' = [req EXCEPT ![q].at = "existsUser", ![q].uid = row.uid]
  /\ UNCHANGED <<rows, written, nextId, free, known, faults>>

UserExists(q) == Of(View(q), {"Users"}, req[q].uid) # {}

(* Nothing to delete: `return`, and `finally` ends an empty transaction.   *)
ExistsUser(q) ==
  /\ At(q, "existsUser") /\ free > 0
  /\ IF UserExists(q)
     THEN Goto(q, "getRoles") /\ free' = free - 1
     ELSE Answer(q, "ok") /\ UNCHANGED free
  /\ UNCHANGED <<rows, written, nextId, known, faults>>

GetRoles(q) ==
  /\ At(q, "getRoles")
  /\ req' = [req EXCEPT ![q].at = "deleteFacets", ![q].roles = RolesOf(View(q), req[q].uid)]
  /\ UNCHANGED <<rows, written, nextId, free, known, faults>>

(* A DELETE waits for rows that another open transaction has deleted.      *)
Locked(q, tables, u) ==
  \E p \in Requests \ {q} : Of(written[p].del, tables, u) # {}

DeleteFacet(q) ==
  /\ At(q, "deleteFacets")
  /\ \E r \in req[q].roles :
       /\ ~Locked(q, {FacetTable[r]}, req[q].uid)
       /\ Write(q, {}, Of(View(q), {FacetTable[r]}, req[q].uid))
       /\ req' = [req EXCEPT ![q].roles = @ \ {r}]
  /\ UNCHANGED <<rows, nextId, free, known, faults>>

FacetsDone(q) == /\ At(q, "deleteFacets") /\ req[q].roles = {}
                 /\ Goto(q, "deleteRoles")
                 /\ UNCHANGED <<rows, written, nextId, free, known, faults>>

DeleteRoles(q) ==
  /\ At(q, "deleteRoles")
  /\ ~Locked(q, {"UserRoles"}, req[q].uid)
  /\ Write(q, {}, Of(View(q), {"UserRoles"}, req[q].uid))
  /\ Goto(q, "deleteUser")
  /\ UNCHANGED <<rows, nextId, free, known, faults>>

\* Wrong: the schema has no foreign keys.
ReferencedNever(q) == FALSE

(* The foreign keys of the three tables refer to Users.                    *)
Referenced(q) == Of(View(q), Children, req[q].uid) # {}

DeleteUserRow(q) ==
  /\ At(q, "deleteUser")
  /\ ~Locked(q, Children \cup {"Users"}, req[q].uid)
  /\ IF Referenced(q)
     THEN Goto(q, "autoCommit") /\ UNCHANGED written
     ELSE Write(q, {}, Of(View(q), {"Users"}, req[q].uid)) /\ Goto(q, "commit")
  /\ UNCHANGED <<rows, nextId, free, known, faults>>

-----------------------------------------------------------------------------
(* Failures                                                                *)

\* Wrong: close() does not return the connection after a failure.
AutoCommitKeeping(q) ==
  /\ At(q, "autoCommit")
  /\ CommitOf(q)
  /\ Answer(q, "failed")
  /\ UNCHANGED <<nextId, free, known, faults>>

\* Wrong: the transaction stays open when the connection goes back to the pool.
AutoCommitOpen(q) ==
  /\ At(q, "autoCommit")
  /\ free' = free + 1
  /\ Answer(q, "failed")
  /\ UNCHANGED <<rows, written, nextId, known, faults>>

(* An exception in a transaction: `finally` calls setAutoCommit(true),     *)
(* which commits what has been written; the client gets an error.          *)
AutoCommit(q) ==
  /\ At(q, "autoCommit")
  /\ CommitOf(q)
  /\ free' = free + 1
  /\ Answer(q, "failed")
  /\ UNCHANGED <<nextId, known, faults>>

Fault == faults < MaxFaults /\ faults' = faults + 1

(* A statement fails: refused by the server, or a wait for a lock timed    *)
(* out. (That close() throws after the statement was executed has the      *)
(* effect of a failure of the next one.)                                   *)
StatementFails(q) ==
  /\ req[q].at \in InTransaction
  /\ Fault
  /\ Goto(q, "autoCommit")
  /\ UNCHANGED <<rows, written, nextId, free, known>>

(* The connection is lost: the server rolls back; at commit it may also    *)
(* have committed. The pool replaces the connection.                       *)
ConnectionLost(q) ==
  /\ req[q].at \in InTransaction \cup {"autoCommit"}
  /\ Fault
  /\ \/ UNCHANGED rows /\ written' = [written EXCEPT ![q] = Nothing]
     \/ req[q].at \in {"commit", "autoCommit"} /\ CommitOf(q)
  /\ free' = free + 1
  /\ Answer(q, "failed")
  /\ UNCHANGED <<nextId, known>>

(* A query outside of a transaction fails: nothing has been written.       *)
QueryFails(q) ==
  /\ req[q].at \in {"existsUserName", "getStudentRole", "existsUser", "login"}
  /\ Fault
  /\ Answer(q, "failed")
  /\ UNCHANGED <<rows, written, nextId, free, known>>

-----------------------------------------------------------------------------
Proceed(q) ==
  \/ ExistsUserName(q) \/ GetStudentRole(q)
  \/ InsertUser(q) \/ InsertStudentFacet(q) \/ InsertStudentRole(q)
  \/ Commit(q) \/ Login(q)
  \/ ExistsUser(q) \/ GetRoles(q) \/ DeleteFacet(q) \/ FacetsDone(q)
  \/ DeleteRoles(q) \/ DeleteUserRow(q)
  \/ AutoCommit(q)

Next == \E q \in Requests :
          \/ SignIn(q) \/ Delete(q)
          \/ Proceed(q)
          \/ StatementFails(q) \/ ConnectionLost(q) \/ QueryFails(q)

(* Each request has a thread that the container runs.                      *)
Fairness == \A q \in Requests : WF_uvars(Proceed(q))

Spec == Init /\ [][Next]_uvars /\ Fairness

-----------------------------------------------------------------------------
(* Properties                                                              *)

(* Every variable has its type, and no connection is lost or handed out    *)
(* twice, whichever way an operation ends.                                 *)
TypeOK == /\ rows \subseteq Row
          /\ written \in [Requests -> [ins : SUBSET Row, del : SUBSET Row]]
          /\ nextId \in 1 .. MaxId + 1
          /\ req \in [Requests -> Request]
          /\ known \in [Requests -> SUBSET Ids]
          /\ faults \in 0 .. MaxFaults
          /\ free \in 0 .. Connections
          /\ free + Cardinality({q \in Requests :
                                   req[q].at \in InTransaction \cup {"autoCommit"}}) = Connections

Whole(u) == \E r \in Roles : Of(rows, Children \cup {"Users"}, u) =
              Of(rows, {"Users"}, u) \cup {RoleRow(u, r), FacetRow(u, r)}

(* A facet without its role: DeleteUser reads the roles, deletes no facet, *)
(* and the foreign key refuses the user.                                   *)
Undeletable(u) == Of(rows, {FacetTable[r] : r \in Roles \ RolesOf(rows, u)}, u) # {}

Failed(q) == At(q, "answered") /\ req[q].answer = "failed"

(* Two users have one name only if their sign-ins overlapped: neither was  *)
(* there when the other looked for its name (RootController.signIn).       *)
DuplicatesOverlapped ==
  \A row, other \in UsersIn(rows) :
    row # other /\ row.value = other.value =>
      \A q \in Requests : IsSignIn(q) /\ req[q].uid = row.uid => other.uid \notin known[q]

(* A user without its role or facet was left by a sign-in or a deletion    *)
(* whose client has been told of a failure; one that cannot be deleted any *)
(* more was left by a sign-in. Deletions that overlap leave neither.       *)
OnlyFailuresLeaveHalves ==
  \A row \in UsersIn(rows) :
    LET u == row.uid
    IN /\ Whole(u) \/ \E q \in Requests : Failed(q) /\ req[q].uid = u
       /\ Undeletable(u) => \E q \in Requests : Failed(q) /\ IsSignIn(q) /\ req[q].uid = u

(* Once a deletion has been answered, no table has a row of that user.     *)
DeletedIsGone ==
  \A q \in Requests :
    At(q, "answered") /\ ~IsSignIn(q) /\ req[q].answer = "ok" =>
      Of(rows, Children \cup {"Users"}, req[q].uid) = {}

(* Seen from its list of users, the system registers, damages and removes  *)
(* one user at a time.                                                     *)
registered == [u \in {row.uid : row \in UsersIn(rows)} |->
                 [names |-> {row.value : row \in Of(rows, {"Users"}, u)}, whole |-> Whole(u)]]

R == INSTANCE Registry WITH people <- registered
RegistrySpec == R!Spec

(* Every request is answered: no thread waits forever for a connection or  *)
(* for a lock, whatever fails meanwhile.                                   *)
RequestsEnd == \A q \in Requests : ~At(q, "idle") ~> At(q, "answered")

(* CreateStudent.java:17: the inserts are one transaction "to prevent      *)
(* database inconsistencies": a user nobody deletes is whole.              *)
CreatedWhole ==
  \A row \in UsersIn(rows) :
    (\A q \in Requests : req[q].uid = row.uid => IsSignIn(q)) => Whole(row.uid)
=============================================================================
