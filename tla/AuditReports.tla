----------------------------- MODULE AuditReports -----------------------------
(***************************************************************************)
(* Reading the audit log, page by page or into an export, while others add *)
(* to it (app/repositories/audit.py, app/api/audit.py), and the artefacts  *)
(* that exports of any kind leave in Redis (app/exports).                  *)
(*                                                                         *)
(* Entries are numbered in the order in which they are flushed, which is   *)
(* the order of their time and id; they become visible in the order in     *)
(* which their transactions commit.  A search counts in one statement and  *)
(* reads its page in a second.                                             *)
(***************************************************************************)
EXTENDS Naturals, Sequences, FiniteSets, Functions

CONSTANTS
  EntryCount,    \* bound on the entries that are ever written
  LogProjects,
  ProjectOf,     \* the project of each entry
  Matching,      \* the entries a filter lets through
  Reports,       \* clients that page through the log, or ask for an export
  ReportAsks,    \* what each may ask for
  SearchLimit,   \* size of a page, and the 10000 of an export
  ReportFaults   \* which of "database", "redis" and "reset" happen

LogEntries == 1 .. EntryCount

\* kind "other": an export of logs or of an analysis.
ReportAsk == [kind : {"pages", "export", "other"}, project : LogProjects, filtered : BOOLEAN]

ASSUME ReportAssumption ==
  /\ EntryCount \in Nat \ {0}
  /\ ProjectOf \in [LogEntries -> LogProjects]
  /\ Matching \subseteq LogEntries
  /\ ReportAsks \in [Reports -> SUBSET ReportAsk]
  /\ SearchLimit \in [{"pages", "export"} -> Nat \ {0}]
  /\ ReportFaults \subseteq {"database", "redis", "reset"}

VARIABLES
  entry,    \* what has become of each entry
  doomed,   \* entries an open reset has deleted
  report,   \* where each client stands
  artefact, \* report -> project -> what is under its key in Redis
  expired   \* history: the reports whose artefact was there for its hour

reportVars == <<entry, doomed, report, artefact, expired>>

-----------------------------------------------------------------------------

\* page: the page that is being read; total: the last count; found: what the
\* client was shown, or what is exported.  before: history, the entries
\* committed when the client began.
Report ==
  [pc     : {"idle", "counting", "reading", "saving", "limiting", "answered", "error"},
   ask    : ReportAsk,
   page   : Nat,
   total  : Nat,
   found  : Seq(LogEntries),
   before : SUBSET LogEntries]

NoArtefact == [content |-> <<>>, there |-> FALSE, limited |-> FALSE]

Was(states) == {e \in LogEntries : entry[e] \in states}

\* The rows the statements of a report select.
Selected(r) ==
  {e \in Was({"committed"}) :
     /\ ProjectOf[e] = report[r].ask.project
     /\ report[r].ask.filtered => e \in Matching}

\* The place of an entry among others, the newest first.
Rank(entries, e) == Cardinality({f \in entries : f >= e})

NewestFirst(entries) ==
  [i \in 1 .. Cardinality(entries) |-> CHOOSE e \in entries : Rank(entries, e) = i]

\* OFFSET and LIMIT.
PageRows(entries, page, size) ==
  {e \in entries : Rank(entries, e) > (page - 1) * size /\ Rank(entries, e) <= page * size}

OpenReport(r) == report[r].pc \in {"counting", "reading", "saving", "limiting"}

ReportAt(r, label) == report' = [report EXCEPT ![r].pc = label]

-----------------------------------------------------------------------------
(* Outside: those who add to the log, and seed_demo(reset). *)

\* AuditService.record: the flush of a row.
FlushEntry(e) ==
  /\ entry[e] = "none"
  /\ \A earlier \in 1 .. e - 1 : entry[earlier] # "none"
  /\ entry' = [entry EXCEPT ![e] = "open"]
  /\ UNCHANGED <<doomed, report, artefact, expired>>

\* The transaction around it ends.
EndEntry(e) ==
  /\ entry[e] = "open"
  /\ \E end \in {"committed", "undone"} : entry' = [entry EXCEPT ![e] = end]
  /\ UNCHANGED <<doomed, report, artefact, expired>>

\* The DELETE of a reset takes the rows committed by then,
ResetLog(p) ==
  /\ "reset" \in ReportFaults
  /\ doomed = {}
  /\ doomed' = {e \in Was({"committed"}) : ProjectOf[e] = p}
  /\ UNCHANGED <<entry, report, artefact, expired>>

\* which go with its commit.
CommitLogReset ==
  /\ doomed # {}
  /\ entry' = [e \in LogEntries |-> IF e \in doomed THEN "deleted" ELSE entry[e]]
  /\ doomed' = {}
  /\ UNCHANGED <<report, artefact, expired>>

\* The hour of an artefact is over.
ExpireArtefact(r, p) ==
  /\ artefact[r][p].limited
  /\ artefact' = [artefact EXCEPT ![r][p] = NoArtefact]
  /\ expired' = expired \cup {r}
  /\ UNCHANGED <<entry, doomed, report>>

-----------------------------------------------------------------------------
(* A client. *)

AskReport(r, asked) ==
  /\ report[r].pc = "idle"
  /\ report' = [report EXCEPT
       ![r].pc = IF asked.kind = "other" THEN "saving" ELSE "counting",
       ![r].ask = asked,
       ![r].before = Was({"committed"})]
  /\ UNCHANGED <<entry, doomed, artefact, expired>>

\* search: the count,
CountEntries(r) ==
  /\ report[r].pc = "counting"
  /\ report' = [report EXCEPT ![r].pc = "reading", ![r].total = Cardinality(Selected(r))]
  /\ UNCHANGED <<entry, doomed, artefact, expired>>

\* and the rows.  A client goes on to the next page until one is not full.
ReadPage(r) ==
  LET size == SearchLimit[report[r].ask.kind]
      rows == NewestFirst(PageRows(Selected(r), report[r].page, size))
  IN  /\ report[r].pc = "reading"
      /\ report' = [report EXCEPT
           ![r].pc = IF report[r].ask.kind = "export" THEN "saving"
                     ELSE IF Len(rows) < size THEN "answered" ELSE "counting",
           ![r].page = @ + 1,
           ![r].found = @ \o rows]
      /\ UNCHANGED <<entry, doomed, artefact, expired>>

\* ExportStore.save: HSET under a key of the project and a new random id,
SaveExport(r) ==
  /\ report[r].pc = "saving"
  /\ artefact' = [artefact EXCEPT ![r][report[r].ask.project] =
       [content |-> report[r].found, there |-> TRUE, limited |-> FALSE]]
  /\ ReportAt(r, "limiting")
  /\ UNCHANGED <<entry, doomed, expired>>

\* EXPIRE, a second command, and the answer.
LimitExport(r) ==
  /\ report[r].pc = "limiting"
  /\ artefact' = [artefact EXCEPT ![r][report[r].ask.project].limited = TRUE]
  /\ ReportAt(r, "answered")
  /\ UNCHANGED <<entry, doomed, expired>>

\* A statement or a command fails, or the handler is cancelled before it.
ReportFails(r) ==
  /\ \/ "database" \in ReportFaults /\ report[r].pc \in {"counting", "reading"}
     \/ "redis" \in ReportFaults /\ report[r].pc \in {"saving", "limiting"}
  /\ ReportAt(r, "error")
  /\ UNCHANGED <<entry, doomed, artefact, expired>>

\* Redis carries out a command whose reply is lost.
LimitReplyLost(r) ==
  /\ "redis" \in ReportFaults
  /\ report[r].pc = "limiting"
  /\ artefact' = [artefact EXCEPT ![r][report[r].ask.project].limited = TRUE]
  /\ ReportAt(r, "error")
  /\ UNCHANGED <<entry, doomed, expired>>

\* download_export, for a client that looks at project p: what it gets.
Download(r, p) == IF artefact[r][p].there THEN {artefact[r][p].content} ELSE {}

-----------------------------------------------------------------------------

ReportInit ==
  /\ entry = [e \in LogEntries |-> "none"]
  /\ doomed = {}
  /\ report = [r \in Reports |->
       [pc |-> "idle", page |-> 1, total |-> 0, found |-> <<>>, before |-> {},
        ask |-> [kind |-> "pages", project |-> ProjectOf[1], filtered |-> FALSE]]]
  /\ artefact = [r \in Reports |-> [p \in LogProjects |-> NoArtefact]]
  /\ expired = {}

ServeReport(r) ==
  \/ CountEntries(r)
  \/ ReadPage(r)
  \/ SaveExport(r)
  \/ LimitExport(r)

ReportNext ==
  \/ \E e \in LogEntries : FlushEntry(e) \/ EndEntry(e)
  \/ \E p \in LogProjects : ResetLog(p)
  \/ CommitLogReset
  \/ \E r \in Reports :
       \/ \E asked \in ReportAsks[r] : AskReport(r, asked)
       \/ \E p \in LogProjects : ExpireArtefact(r, p)
       \/ ReportFails(r)
       \/ LimitReplyLost(r)
       \/ ServeReport(r)

ReportSpec == ReportInit /\ [][ReportNext]_reportVars

ReportFairness == \A r \in Reports : WF_reportVars(ServeReport(r))

-----------------------------------------------------------------------------
(* Properties. *)

\* Types: in particular a report shows only entries there were.
ReportTypeOK ==
  /\ entry \in [LogEntries -> {"none", "open", "committed", "undone", "deleted"}]
  /\ doomed \subseteq LogEntries
  /\ report \in [Reports -> Report]
  /\ \A r \in Reports : Range(report[r].found) \subseteq Was({"committed", "deleted"})

\* What was there when a client began, and still is, of what it asked for.
Owed(r) == report[r].before \cap Selected(r)

\* Paging to the end skips no entry that was there at the start, although new
\* entries move the others to later pages, unless a reset has taken one and
\* moved those that survive it to earlier pages.  An export leaves out only
\* entries older than all it holds, once it is full.
NothingSkipped ==
  \A r \in Reports :
    /\ report[r].ask.kind = "pages" /\ report[r].pc = "answered"
         /\ report[r].before \cap Was({"deleted"}) = {}
       => Owed(r) \subseteq Range(report[r].found)
    /\ report[r].ask.kind = "export" /\ report[r].page > 1 =>
         \A e \in Owed(r) \ Range(report[r].found) :
           /\ Len(report[r].found) = SearchLimit["export"]
           /\ \A shown \in Range(report[r].found) : shown > e

\* An entry is shown again only if another was added (and may be deleted) since,
\* one for each; an export, which reads once, repeats none.
RepeatsExplained ==
  \A r \in Reports :
    LET repeats == Len(report[r].found) - Cardinality(Range(report[r].found))
    IN  IF report[r].ask.kind = "pages"
        THEN repeats <= Cardinality(Was({"committed", "deleted"}) \ report[r].before)
        ELSE repeats = 0

\* A count is made before the page: it misses no entry that was there.
CountsWhole ==
  \A r \in Reports : report[r].pc \in {"reading", "answered"} /\ report[r].ask.kind # "other" =>
    Cardinality(Owed(r)) <= report[r].total

\* An answered export can be downloaded as it was found, in its own project
\* and nowhere else, until its hour is over; and an artefact that would stay
\* for ever was never answered.
ExportsKept ==
  \A r \in Reports, p \in LogProjects :
    LET exported == report[r].ask.kind # "pages"
        own == p = report[r].ask.project
    IN  /\ exported /\ own /\ report[r].pc = "answered" /\ r \notin expired =>
             Download(r, p) = {report[r].found}
        /\ artefact[r][p].there => own /\ (artefact[r][p].limited \/ report[r].pc # "answered")

\* Whoever pages through the audit log or exports it while entries are added,
\* rolled back or reset gets every entry that was there, and the artefact he
\* is told of for its hour.
ReportsSound == NothingSkipped /\ RepeatsExplained /\ CountsWhole /\ ExportsKept
=============================================================================
