----------------------------- MODULE SavedQueries -----------------------------
(***************************************************************************)
(* The saved log queries of a project (app/repositories/saved_queries.py,  *)
(* app/api/logs.py): save, rename and delete, each in its own READ         *)
(* COMMITTED transaction, under a unique key on the name.                  *)
(*                                                                         *)
(* An UPDATE of the name locks its row first and then enters the new name  *)
(* into the key, where it waits for every uncommitted row that has, had or *)
(* will have this name.  Two renames that swap two names wait for each     *)
(* other.                                                                  *)
(***************************************************************************)
EXTENDS Naturals, FiniteSets

CONSTANTS
  QueryIds,    \* row ids; the database uses each once
  QueryNames,
  QueryCalls,  \* the requests
  CallOps,     \* what each may do: records of op, id and name
  SavedAtStart,\* id -> name of the rows present at the start
  Unsaved,     \* the row is not there yet
  Deleted,     \* and not any more
  NoCall

QueryCall == [op : {"save", "rename", "delete"}, id : QueryIds, name : QueryNames]

\* The rows of the start obey the unique key.
ASSUME QueryAssumption ==
  /\ QueryIds # {} /\ QueryNames # {}
  /\ CallOps \in [QueryCalls -> SUBSET QueryCall]
  /\ SavedAtStart \in [QueryIds -> QueryNames \cup {Unsaved}]
  /\ \A n, m \in QueryIds :
       n # m /\ SavedAtStart[n] \in QueryNames => SavedAtStart[n] # SavedAtStart[m]
  /\ Unsaved \notin QueryNames
  /\ Deleted \notin QueryNames \cup {Unsaved}
  /\ NoCall \notin QueryCalls

VARIABLES
  queries,  \* committed names
  renamed,  \* uncommitted versions: their owner and name
  call,     \* where each request stands
  answers   \* history: what the requests that succeeded have done

queryVars == <<queries, renamed, call, answers>>

-----------------------------------------------------------------------------

QueryState == QueryNames \cup {Unsaved, Deleted}

NoQueryDraft == [owner |-> NoCall, name |-> Unsaved]

Unowned(n) == renamed[n].owner = NoCall

OfOther(c, n) == renamed[n].owner \notin {NoCall, c}

\* A row that keeps this name, whoever else is at work.
NameTaken(c, name) ==
  \E n \in QueryIds : queries[n] = name /\ ~OfOther(c, n) /\ (Unowned(n) \/ renamed[n].name = name)

\* Somebody's open transaction decides whether the name is free.
NameOpen(c, name) ==
  {renamed[n].owner : n \in {m \in QueryIds :
     OfOther(c, m) /\ name \in {queries[m], renamed[m].name}}}

Released(c) == [n \in QueryIds |-> IF renamed[n].owner = c THEN NoQueryDraft ELSE renamed[n]]

Moves(c, label) == call' = [call EXCEPT ![c].pc = label]

EndsWith(c, label) ==
  /\ renamed' = Released(c)
  /\ Moves(c, label)
  /\ UNCHANGED <<queries, answers>>

-----------------------------------------------------------------------------

ReceiveCall(c, does) ==
  /\ call[c].pc = "idle"
  /\ call' = [call EXCEPT ![c] = [pc |-> IF does.op = "save" THEN "keying" ELSE "reading",
                                  does |-> does]]
  /\ UNCHANGED <<queries, renamed, answers>>

Id(c) == call[c].does.id

\* get: the row, which nobody locks.  A rename to the name it has writes
\* nothing.
ReadQuery(c) ==
  /\ call[c].pc = "reading"
  /\ queries[Id(c)] \in QueryNames
  /\ Moves(c, IF call[c].does.op = "rename" /\ queries[Id(c)] = call[c].does.name
              THEN "committing" ELSE "locking")
  /\ UNCHANGED <<queries, renamed, answers>>

RefuseQuery(c) ==
  /\ call[c].pc = "reading"
  /\ queries[Id(c)] \notin QueryNames
  /\ EndsWith(c, "refused")

\* The row of the UPDATE or DELETE, when nobody else has it.
LockQuery(c) ==
  /\ call[c].pc = "locking"
  /\ Unowned(Id(c))
  /\ queries[Id(c)] \in QueryNames
  /\ renamed' = [renamed EXCEPT ![Id(c)] = [owner |-> c, name |-> Deleted]]
  /\ Moves(c, IF call[c].does.op = "rename" THEN "keying" ELSE "committing")
  /\ UNCHANGED <<queries, answers>>

\* Deleted meanwhile: the UPDATE of no row raises, the DELETE warns.
LockMissing(c) ==
  /\ call[c].pc = "locking"
  /\ Unowned(Id(c))
  /\ queries[Id(c)] \notin QueryNames
  /\ IF call[c].does.op = "rename" THEN EndsWith(c, "error")
     ELSE Moves(c, "committing") /\ UNCHANGED <<queries, renamed, answers>>

\* The id of an INSERT is one that was never used.  (Bound: nothing is saved
\* any more when QueryIds has no such id.)
FreshIds == {n \in QueryIds : queries[n] = Unsaved /\ Unowned(n)}

KeyQuery(c) ==
  LET n == IF call[c].does.op = "save" THEN CHOOSE m \in FreshIds : TRUE ELSE Id(c)
  IN  /\ call[c].pc = "keying"
      /\ call[c].does.op = "save" => FreshIds # {}
      /\ ~NameTaken(c, call[c].does.name)
      /\ NameOpen(c, call[c].does.name) = {}
      /\ renamed' = [renamed EXCEPT ![n] = [owner |-> c, name |-> call[c].does.name]]
      /\ call' = [call EXCEPT ![c] =
           [pc |-> "committing", does |-> [call[c].does EXCEPT !.id = n]]]
      /\ UNCHANGED <<queries, answers>>

\* IntegrityError: rolled back and answered as a validation error.
KeyConflict(c) ==
  /\ call[c].pc = "keying"
  /\ NameTaken(c, call[c].does.name)
  /\ EndsWith(c, "refused")

CommitQuery(c) ==
  /\ call[c].pc = "committing"
  /\ queries' = [n \in QueryIds |-> IF renamed[n].owner = c THEN renamed[n].name ELSE queries[n]]
  /\ answers' = answers \cup {call[c].does}
  /\ renamed' = Released(c)
  /\ Moves(c, "done")

OpenCall(c) == call[c].pc \in {"reading", "locking", "keying", "committing"}

\* Cancelled, or the connection is lost.
AbortQuery(c) ==
  /\ OpenCall(c)
  /\ EndsWith(c, "error")

\* What a request waits for: the row, or those who decide about the name.
AwaitedBy(c) ==
  CASE call[c].pc = "locking" /\ OfOther(c, Id(c)) -> {renamed[Id(c)].owner}
    [] call[c].pc = "keying" /\ ~NameTaken(c, call[c].does.name) -> NameOpen(c, call[c].does.name)
    [] OTHER -> {}

\* Two that wait for each other: the database ends one, with an error that is
\* not an IntegrityError.
BreakSwap(c) ==
  /\ \E d \in AwaitedBy(c) : c \in AwaitedBy(d)
  /\ EndsWith(c, "error")

-----------------------------------------------------------------------------

QueryInit ==
  /\ queries = SavedAtStart
  /\ renamed = [n \in QueryIds |-> NoQueryDraft]
  /\ call = [c \in QueryCalls |->
               [pc |-> "idle", does |-> [op |-> "save", id |-> CHOOSE n \in QueryIds : TRUE,
                                         name |-> CHOOSE name \in QueryNames : TRUE]]]
  /\ answers = {}

ServeCall(c) ==
  \/ ReadQuery(c)
  \/ RefuseQuery(c)
  \/ LockQuery(c)
  \/ LockMissing(c)
  \/ KeyQuery(c)
  \/ KeyConflict(c)
  \/ CommitQuery(c)
  \/ BreakSwap(c)

QueryNext ==
  \E c \in QueryCalls :
    \/ \E does \in CallOps[c] : ReceiveCall(c, does)
    \/ AbortQuery(c)
    \/ ServeCall(c)

QuerySpec == QueryInit /\ [][QueryNext]_queryVars

QueryFairness == \A c \in QueryCalls : WF_queryVars(ServeCall(c))

-----------------------------------------------------------------------------
(* Properties. *)

\* Types: in particular a name stays one of those the requests may give.
QueryTypeOK ==
  /\ queries \in [QueryIds -> QueryState]
  /\ renamed \in [QueryIds -> [owner : QueryCalls \cup {NoCall}, name : QueryState]]
  /\ \A c \in QueryCalls :
       /\ call[c].pc \in {"idle", "reading", "locking", "keying", "committing",
                          "done", "refused", "error"}
       /\ call[c].does \in QueryCall
  /\ answers \subseteq QueryCall

\* No two rows have the same name, whatever swaps, deletes and saves overlap.
NamesUnique ==
  \A n, m \in QueryIds : n # m /\ queries[n] \in QueryNames => queries[n] # queries[m]

\* A row has the name it had at the start or one that a request was told it
\* has given; it is gone only if a delete was answered, and then for good.
NamesAnswered ==
  \A n \in QueryIds :
    /\ queries[n] # SavedAtStart[n] =>
         IF queries[n] = Deleted THEN \E does \in answers : does.op = "delete" /\ does.id = n
         ELSE \E does \in answers : does.id = n /\ does.name = queries[n] /\ does.op # "delete"
    /\ (\E does \in answers : does.op = "delete" /\ does.id = n) => queries[n] = Deleted

\* Uncommitted versions belong to requests that are still open.
QueriesReleased ==
  \A n \in QueryIds : renamed[n].owner # NoCall => call[renamed[n].owner].pc \in {"keying", "committing"}

\* Saves, renames and deletes of saved queries that overlap, wait for each
\* other or fail leave unique names, each of which some answered request has
\* given, and no uncommitted version behind.
QueriesSound == NamesUnique /\ NamesAnswered /\ QueriesReleased
=============================================================================
