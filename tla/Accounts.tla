------------------------------- MODULE Accounts -------------------------------
(***************************************************************************)
(* The users of a project (app/api/users.py, app/repositories/users.py).   *)
(* Every request runs in one READ COMMITTED transaction: ensure_admin      *)
(* inserts the administrator if it finds none, the operation reads its row *)
(* and writes the columns it changes, an audit row follows, and all of it  *)
(* is committed together.  A reset of the project                          *)
(* (SeedService._reset_project) deletes the audit rows and keeps the users.*)
(*                                                                         *)
(* A row is named by the request that inserted it: one that is deleted and *)
(* created again is another row with the same id.                          *)
(***************************************************************************)
EXTENDS Naturals, FiniteSets

CONSTANTS
  UserIds,      \* ids a request may name, the administrator's among them
  AdminId,
  SeededUsers,  \* ids with a row at the start
  UserRequests, \* the requests
  UserOps,      \* what each may ask for: pairs of operation and id
  Seeded,       \* "inserted" the rows of the start
  NoRequest

UserOperations == {"list", "get", "create", "update", "delete", "ban", "unban"}

ASSUME AccountAssumption ==
  /\ AdminId \in UserIds
  /\ SeededUsers \subseteq UserIds
  /\ Seeded \notin UserRequests
  /\ NoRequest \notin UserRequests \cup {Seeded}
  /\ UserOps \in [UserRequests -> SUBSET (UserOperations \X UserIds)]

VARIABLES
  users,   \* committed rows
  pending, \* their uncommitted versions and who owns them
  ask,     \* where each request stands
  log,     \* committed audit rows
  erasing, \* those an open reset has deleted, one reset at a time
  erased   \* history: those that resets have deleted

accountLog == <<log, erasing, erased>>

accountVars == <<users, pending, ask, accountLog>>

-----------------------------------------------------------------------------

\* row: who inserted it, NoRequest where there is none.  profile: who wrote
\* the other columns last.
UserRow ==
  [row     : UserRequests \cup {Seeded, NoRequest},
   banned  : BOOLEAN,
   profile : UserRequests \cup {Seeded, NoRequest}]

NoUser == [row |-> NoRequest, banned |-> FALSE, profile |-> NoRequest]

NewUser(r) == [row |-> r, banned |-> FALSE, profile |-> r]

UserRequest ==
  [pc   : {"idle", "ensuring", "adding", "reading", "writing", "committing",
           "done", "refused", "error"},
   op   : UserOperations,
   id   : UserIds,
   read : UserRow]

\* read: the row the operation has loaded.
UserEntry == [by : UserRequests, op : UserOperations, id : UserIds, row : UserRequests \cup {Seeded}]

Free(u) == pending[u].owner = NoRequest

Mine(r, u) == pending[u].owner = r

\* What a statement of r sees: its own version, or the committed one.
Current(r, u) == IF Mine(r, u) THEN pending[u].user ELSE users[u]

Hold(r, u, user) == pending' = [pending EXCEPT ![u] = [owner |-> r, user |-> user]]

Unheld(r) ==
  [u \in UserIds |->
     IF Mine(r, u) THEN [owner |-> NoRequest, user |-> NoUser] ELSE pending[u]]

OpenUser(r) == ask[r].pc \notin {"idle", "done", "refused", "error"}

Proceed(r, label) == ask' = [ask EXCEPT ![r].pc = label]

\* ROLLBACK, and the request is answered with an error.
Fails(r, label) ==
  /\ pending' = Unheld(r)
  /\ Proceed(r, label)
  /\ UNCHANGED <<users, accountLog>>

-----------------------------------------------------------------------------

ReceiveUser(r, op, u) ==
  /\ ask[r].pc = "idle"
  /\ ask' = [ask EXCEPT ![r] = [pc |-> "ensuring", op |-> op, id |-> u, read |-> NoUser]]
  /\ UNCHANGED <<users, pending, accountLog>>

\* ensure_admin: the SELECT.
LookForAdmin(r) ==
  /\ ask[r].pc = "ensuring"
  /\ Proceed(r, IF users[AdminId].row = NoRequest THEN "adding" ELSE "reading")
  /\ UNCHANGED <<users, pending, accountLog>>

\* ensure_admin: the INSERT, once no other version of the key is uncommitted.
AddAdmin(r) ==
  /\ ask[r].pc = "adding"
  /\ Free(AdminId)
  /\ users[AdminId].row = NoRequest
  /\ Hold(r, AdminId, NewUser(r))
  /\ Proceed(r, "reading")
  /\ UNCHANGED <<users, accountLog>>

\* It is there meanwhile: the IntegrityError is nobody's to catch.
AddAdminConflict(r) ==
  /\ ask[r].pc = "adding"
  /\ Free(AdminId)
  /\ users[AdminId].row # NoRequest
  /\ Fails(r, "error")

\* The operation's own SELECT; create inserts without one, list names no id.
ReadUser(r) ==
  /\ ask[r].pc = "reading"
  /\ ask[r].op \notin {"create", "list"}
  /\ Current(r, ask[r].id).row # NoRequest
  /\ ask' = [ask EXCEPT ![r].pc = IF ask[r].op = "get" THEN "committing" ELSE "writing",
                        ![r].read = Current(r, ask[r].id)]
  /\ UNCHANGED <<users, pending, accountLog>>

\* Not found: what ensure_admin has inserted is rolled back, too.
RefuseMissing(r) ==
  /\ ask[r].pc = "reading"
  /\ ask[r].op \notin {"create", "list"}
  /\ Current(r, ask[r].id).row = NoRequest
  /\ Fails(r, "refused")

ListUsers(r) ==
  /\ ask[r].pc = "reading"
  /\ ask[r].op = "list"
  /\ Proceed(r, "committing")
  /\ UNCHANGED <<users, pending, accountLog>>

Writable(r, u) == Free(u) \/ Mine(r, u)

InsertUser(r) ==
  LET u == ask[r].id
  IN  /\ ask[r].pc = "reading"
      /\ ask[r].op = "create"
      /\ Writable(r, u)
      /\ Current(r, u).row = NoRequest
      /\ Hold(r, u, NewUser(r))
      /\ ask' = [ask EXCEPT ![r].pc = "committing", ![r].read = NewUser(r)]
      /\ UNCHANGED <<users, accountLog>>

\* The id is taken: caught, rolled back, a validation error.
InsertUserConflict(r) ==
  LET u == ask[r].id
  IN  /\ ask[r].pc = "reading"
      /\ ask[r].op = "create"
      /\ Writable(r, u)
      /\ Current(r, u).row # NoRequest
      /\ Fails(r, "refused")

\* Not the code: all the columns that were read are written back.
WrittenWhole(r, user) ==
  CASE ask[r].op = "delete" -> NoUser
    [] ask[r].op = "update" -> [ask[r].read EXCEPT !.profile = r]
    [] ask[r].op = "ban"    -> [ask[r].read EXCEPT !.banned = TRUE]
    [] ask[r].op = "unban"  -> [ask[r].read EXCEPT !.banned = FALSE]

\* What the operation makes of a row: the columns it does not name keep
\* what the row has when it is written.
Written(r, user) ==
  CASE ask[r].op = "delete" -> NoUser
    [] ask[r].op = "update" -> [user EXCEPT !.profile = r]
    [] ask[r].op = "ban"    -> [user EXCEPT !.banned = TRUE]
    [] ask[r].op = "unban"  -> [user EXCEPT !.banned = FALSE]

\* The flag has the value already: the flush has nothing to write, and
\* waits for nobody.
Unchanged(r) ==
  ask[r].op \in {"ban", "unban"} /\ ask[r].read.banned = (ask[r].op = "ban")

SkipWrite(r) ==
  /\ ask[r].pc = "writing"
  /\ Unchanged(r)
  /\ Proceed(r, "committing")
  /\ UNCHANGED <<users, pending, accountLog>>

SameRow(r) == Current(r, ask[r].id).row = ask[r].read.row

\* UPDATE or DELETE of the row that was read.
WriteUser(r) ==
  LET u == ask[r].id
  IN  /\ ask[r].pc = "writing"
      /\ ~Unchanged(r)
      /\ Writable(r, u)
      /\ SameRow(r)
      /\ Hold(r, u, Written(r, Current(r, u)))
      /\ Proceed(r, "committing")
      /\ UNCHANGED <<users, accountLog>>

\* The row has gone while the request waited.  An UPDATE that matches no row
\* raises, a DELETE only warns and counts as done.
WriteMissing(r) ==
  /\ ask[r].pc = "writing"
  /\ ~Unchanged(r)
  /\ Writable(r, ask[r].id)
  /\ ~SameRow(r)
  /\ IF ask[r].op = "delete"
     THEN Proceed(r, "committing") /\ UNCHANGED <<users, pending, accountLog>>
     ELSE Fails(r, "error")

AuditsUser(r) ==
  IF ask[r].op \in {"list", "get"} THEN {}
  ELSE {[by |-> r, op |-> ask[r].op, id |-> ask[r].id, row |-> ask[r].read.row]}

CommitUser(r) ==
  /\ ask[r].pc = "committing"
  /\ users' = [u \in UserIds |-> IF Mine(r, u) THEN pending[u].user ELSE users[u]]
  /\ log' = log \cup AuditsUser(r)
  /\ pending' = Unheld(r)
  /\ Proceed(r, "done")
  /\ UNCHANGED <<erasing, erased>>

\* The handler is cancelled, the connection is lost, or the audit row fails.
AbortUser(r) ==
  /\ OpenUser(r)
  /\ Fails(r, "error")

\* A reset: the DELETE takes the entries that are committed by then,
EraseLog ==
  /\ erasing = {}
  /\ erasing' = log
  /\ UNCHANGED <<users, pending, ask, log, erased>>

\* which go with its commit, or stay if that fails.
EndErasing(committed) ==
  /\ erasing # {}
  /\ erasing' = {}
  /\ log' = IF committed THEN log \ erasing ELSE log
  /\ erased' = IF committed THEN erased \cup erasing ELSE erased
  /\ UNCHANGED <<users, pending, ask>>

-----------------------------------------------------------------------------

AccountInit ==
  /\ users = [u \in UserIds |-> IF u \in SeededUsers THEN NewUser(Seeded) ELSE NoUser]
  /\ pending = [u \in UserIds |-> [owner |-> NoRequest, user |-> NoUser]]
  /\ ask = [r \in UserRequests |->
              [pc |-> "idle", op |-> "list", id |-> AdminId, read |-> NoUser]]
  /\ log = {}
  /\ erasing = {}
  /\ erased = {}

ServeUser(r) ==
  \/ LookForAdmin(r)
  \/ AddAdmin(r)
  \/ AddAdminConflict(r)
  \/ ReadUser(r)
  \/ RefuseMissing(r)
  \/ ListUsers(r)
  \/ InsertUser(r)
  \/ InsertUserConflict(r)
  \/ SkipWrite(r)
  \/ WriteUser(r)
  \/ WriteMissing(r)
  \/ CommitUser(r)

AccountNext ==
  \/ \E r \in UserRequests :
       \/ \E op \in UserOps[r] : ReceiveUser(r, op[1], op[2])
       \/ AbortUser(r)
       \/ ServeUser(r)
  \/ EraseLog
  \/ \E committed \in BOOLEAN : EndErasing(committed)

AccountSpec == AccountInit /\ [][AccountNext]_accountVars

AccountFairness == \A r \in UserRequests : WF_accountVars(ServeUser(r))

-----------------------------------------------------------------------------
(* Properties. *)

\* Types: in particular a row names the request that inserted it.
AccountTypeOK ==
  /\ users \in [UserIds -> UserRow]
  /\ pending \in [UserIds -> [owner : UserRequests \cup {NoRequest}, user : UserRow]]
  /\ ask \in [UserRequests -> UserRequest]
  /\ log \subseteq UserEntry
  /\ erasing \subseteq log
  /\ erased \subseteq UserEntry

\* What was ever logged: it is in the log until a reset deletes it.
Logged == log \cup erased

Entries(op, u) == {entry \in Logged : entry.op = op /\ entry.id = u}

Here(u) == IF users[u].row = NoRequest THEN 0 ELSE 1

AtStart(u) == IF u \in SeededUsers THEN 1 ELSE 0

\* Of a user that is not the administrator: each row that ever was there is
\* there now or its deletion was logged, and was created with an entry.
RowsAccounted ==
  \A u \in UserIds \ {AdminId} :
    /\ AtStart(u) + Cardinality(Entries("create", u)) - Here(u) <= Cardinality(Entries("delete", u))
    /\ Here(u) <= AtStart(u) + Cardinality(Entries("create", u))

\* A row that was banned stays banned until an unban is logged: no update that
\* overlaps with the ban, and no reset, brings the old flag back.
BansStick ==
  \A u \in UserIds :
    /\ users[u].banned => Entries("ban", u) # {}
    /\ \A entry \in Entries("ban", u) :
         users[u].row = entry.row /\ Entries("unban", u) = {} => users[u].banned

\* Nobody keeps a row locked after its request.
NothingHeld ==
  \A u \in UserIds : pending[u].owner # NoRequest =>
    ask[pending[u].owner].pc \in {"reading", "writing", "committing"}

\* What a profile says was written by an update that was logged, or with the
\* row.
ProfilesAccounted ==
  \A u \in UserIds : users[u].profile # users[u].row =>
    \E entry \in Entries("update", u) : entry.by = users[u].profile /\ entry.row = users[u].row

\* The users API logs what it does to rows, whatever overlaps, conflicts or is
\* cancelled: rows come and go with an entry, a ban is undone only by an unban
\* that is logged, no profile changes without an entry, and no lock outlives
\* its request.  (An entry stays in the log until a reset whose DELETE found it
\* there is committed.)
AccountsAudited == RowsAccounted /\ BansStick /\ ProfilesAccounted /\ NothingHeld
=============================================================================
