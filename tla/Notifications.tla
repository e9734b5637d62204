----------------------------- MODULE Notifications -----------------------------
(***************************************************************************)
(* The notifications of a project (app/notifications, its repository and   *)
(* its API): mark one as read, mark all as read, list the newest with the  *)
(* number of unread ones.  Every request is a READ COMMITTED transaction;  *)
(* the list counts and reads in two statements, which see different states.*)
(*                                                                         *)
(* The rows are made by a seed (DemoData), and a reset deletes them all.   *)
(***************************************************************************)
EXTENDS Naturals, FiniteSets

CONSTANTS
  Notes,       \* ids of the rows, the newer ones higher
  NoteReaders, \* the requests
  NoteOps,     \* what each may ask for: [op, id]
  PageLimit,   \* how many a list shows
  NoReader     \* owner of a row that nobody has locked

NoteOp == [op : {"one", "all", "list", "reset"}, id : Notes]

ASSUME NoteAssumption ==
  /\ Notes \subseteq Nat /\ Notes # {} /\ IsFiniteSet(Notes)
  /\ NoteOps \in [NoteReaders -> SUBSET NoteOp]
  /\ PageLimit \in Nat \ {0}
  /\ NoReader \notin NoteReaders

VARIABLES
  notes,   \* committed rows: "unread", "read" or "gone"
  owner,   \* who has an uncommitted version of a row
  reader,  \* where each request stands
  marks    \* history: who has marked a row, of the requests that committed

noteVars == <<notes, owner, reader, marks>>

-----------------------------------------------------------------------------

\* left: the rows still to be written; found: the unread ones it has read;
\* count and shown: what a list has found.
Reader ==
  [pc    : {"idle", "reading", "updating", "committing", "done", "refused", "error"},
   does  : NoteOp,
   left  : SUBSET Notes,
   found : SUBSET Notes,
   count : 0 .. Cardinality(Notes),
   shown : SUBSET Notes]

Unread == {n \in Notes : notes[n] = "unread"}

Present == {n \in Notes : notes[n] # "gone"}

\* ORDER BY created_at DESC, id DESC LIMIT.
Newest ==
  {n \in Present : Cardinality({m \in Present : m > n}) < PageLimit}

OpenReader(r) == reader[r].pc \in {"reading", "updating", "committing"}

ReleaseNotes(r) == owner' = [n \in Notes |-> IF owner[n] = r THEN NoReader ELSE owner[n]]

ReaderEnds(r, label) ==
  /\ ReleaseNotes(r)
  /\ reader' = [reader EXCEPT ![r].pc = label]
  /\ UNCHANGED <<notes, marks>>

-----------------------------------------------------------------------------

AskNotes(r, does) ==
  /\ reader[r].pc = "idle"
  /\ reader' = [reader EXCEPT ![r].pc = "reading", ![r].does = does]
  /\ UNCHANGED <<notes, owner, marks>>

\* What a request writes of what it reads: mark_read a row that is unread
\* (the UPDATE of one that is read already has nothing to write),
\* mark_all_read the unread rows, a reset all.
ToWrite(does) ==
  CASE does.op = "one"   -> {does.id} \cap Unread
    [] does.op = "all"   -> Unread
    [] does.op = "reset" -> Present

ReadNotes(r) ==
  LET does == reader[r].does
  IN  /\ reader[r].pc = "reading"
      /\ does.op # "list"
      /\ does.op = "one" => does.id \in Present
      /\ reader' = [reader EXCEPT
           ![r].pc = "updating", ![r].left = ToWrite(does), ![r].found = ToWrite(does)]
      /\ UNCHANGED <<notes, owner, marks>>

NoSuchNote(r) ==
  /\ reader[r].pc = "reading"
  /\ reader[r].does.op = "one"
  /\ reader[r].does.id \notin Present
  /\ ReaderEnds(r, "refused")

\* The flush writes the rows by primary key; a DELETE takes them as they lie.
NextRows(r) ==
  IF reader[r].does.op = "reset" THEN reader[r].left
  ELSE {n \in reader[r].left : \A m \in reader[r].left : n <= m}

\* A row that has gone meanwhile is passed over by a DELETE, and by an UPDATE
\* of several rows whose driver does not count them one by one.
MayPassOver(r) == reader[r].does.op = "reset" \/ Cardinality(reader[r].found) > 1

\* The next row, when no other request has it.
WriteNote(r) ==
  /\ reader[r].pc = "updating"
  /\ \E n \in NextRows(r) :
       /\ owner[n] = NoReader
       /\ notes[n] # "gone" \/ MayPassOver(r)
       /\ owner' = [owner EXCEPT ![n] = IF notes[n] = "gone" THEN @ ELSE r]
       /\ reader' = [reader EXCEPT ![r].left = @ \ {n}]
  /\ UNCHANGED <<notes, marks>>

\* An UPDATE that is seen to find its row gone raises StaleDataError.
NoteVanished(r) ==
  /\ reader[r].pc = "updating"
  /\ reader[r].does.op # "reset"
  /\ \E n \in NextRows(r) : owner[n] = NoReader /\ notes[n] = "gone"
  /\ ReaderEnds(r, "error")

CommitNotes(r) ==
  LET mine == {n \in Notes : owner[n] = r}
      reset == reader[r].does.op = "reset"
  IN  /\ reader[r].pc = "updating"
      /\ reader[r].left = {}
      /\ notes' = [n \in Notes |->
                     IF n \notin mine THEN notes[n] ELSE IF reset THEN "gone" ELSE "read"]
      /\ marks' = IF reset THEN marks ELSE marks \cup {[by |-> r, note |-> n] : n \in mine}
      /\ ReleaseNotes(r)
      /\ reader' = [reader EXCEPT ![r].pc = "done"]

\* unread_count, the first statement of a list.
CountUnread(r) ==
  /\ reader[r].pc = "reading"
  /\ reader[r].does.op = "list"
  /\ reader' = [reader EXCEPT ![r].pc = "committing", ![r].count = Cardinality(Unread)]
  /\ UNCHANGED <<notes, owner, marks>>

\* list_recent, the second.
ListRecent(r) ==
  /\ reader[r].pc = "committing"
  /\ reader' = [reader EXCEPT ![r].pc = "done", ![r].shown = Newest,
                              ![r].found = Newest \cap Unread]
  /\ UNCHANGED <<notes, owner, marks>>

\* The handler is cancelled or loses its connection.
AbortReader(r) ==
  /\ OpenReader(r)
  /\ ReaderEnds(r, "error")

WaitsForReader(r) ==
  IF reader[r].pc # "updating" THEN {}
  ELSE {owner[n] : n \in NextRows(r)} \ {NoReader}

\* A DELETE and a mark_all_read that have taken their rows in opposite
\* orders: the database ends one of them.
BreakReaders(r) ==
  /\ WaitsForReader(r) # {}
  /\ \E other \in WaitsForReader(r) : r \in WaitsForReader(other)
  /\ ReaderEnds(r, "error")

-----------------------------------------------------------------------------

NoteInit ==
  /\ notes = [n \in Notes |-> "unread"]
  /\ owner = [n \in Notes |-> NoReader]
  /\ reader = [r \in NoteReaders |->
       [pc |-> "idle", does |-> [op |-> "list", id |-> CHOOSE n \in Notes : TRUE],
        left |-> {}, found |-> {}, count |-> 0, shown |-> {}]]
  /\ marks = {}

ServeReader(r) ==
  \/ ReadNotes(r)
  \/ NoSuchNote(r)
  \/ WriteNote(r)
  \/ NoteVanished(r)
  \/ CommitNotes(r)
  \/ CountUnread(r)
  \/ ListRecent(r)
  \/ BreakReaders(r)

NoteNext ==
  \E r \in NoteReaders :
    \/ \E does \in NoteOps[r] : AskNotes(r, does)
    \/ AbortReader(r)
    \/ ServeReader(r)

NoteSpec == NoteInit /\ [][NoteNext]_noteVars

NoteFairness == \A r \in NoteReaders : WF_noteVars(ServeReader(r))

-----------------------------------------------------------------------------
(* Properties. *)

\* Types: in particular a request writes only rows there are.
NoteTypeOK ==
  /\ notes \in [Notes -> {"unread", "read", "gone"}]
  /\ owner \in [Notes -> NoteReaders \cup {NoReader}]
  /\ reader \in [NoteReaders -> Reader]
  /\ marks \subseteq [by : NoteReaders, note : Notes]

\* A request that was answered has marked all it had found, unless a reset
\* took the row; one that failed has marked nothing.
MarksStick ==
  \A r \in NoteReaders :
    /\ reader[r].pc = "done" /\ reader[r].does.op \in {"one", "all"} =>
         \A n \in reader[r].found : notes[n] \in {"read", "gone"}
    /\ reader[r].pc # "done" => \A mark \in marks : mark.by # r

\* A row is read only because a request that was answered said so.
ReadsExplained ==
  \A n \in Notes : notes[n] = "read" => \E mark \in marks : mark.note = n

\* While no rows are added, a list never shows more unread rows than it
\* counts, although it counts and reads in two statements.
ListsAgree ==
  \A r \in NoteReaders : reader[r].pc = "done" /\ reader[r].does.op = "list" =>
    Cardinality(reader[r].found) <= reader[r].count

\* Only a request that is writing holds rows.
NotesReleased ==
  \A n \in Notes : owner[n] # NoReader => reader[owner[n]].pc = "updating"

\* mark_read, mark_all_read, list and a reset that overlap or fail: what was
\* answered as read is read, nothing else is, a list does not contradict its
\* own count, and no lock outlives its request.
NotificationsSound == MarksStick /\ ReadsExplained /\ ListsAgree /\ NotesReleased
=============================================================================
