-------------------------------- MODULE Console --------------------------------
(***************************************************************************)
(* The requests of the console that have nothing to do with one alert: the *)
(* feeds, the changes that are audited, users, saved queries, demo data,   *)
(* notifications, log views and reports.  Their handlers run in one process*)
(* and use one database and one Redis, but no table and no key in common,  *)
(* except for the audit log, into which the others only add rows.          *)
(*                                                                         *)
(* Steps of two parts therefore commute and no property relates two parts: *)
(* a behaviour of the console is taken to be one of one part, the others   *)
(* standing still, which makes the states a sum and not a product.  What a *)
(* reset does to the rows of another part, and what the others add to the  *)
(* audit log, are actions of the part that has the rows.                   *)
(***************************************************************************)
EXTENDS Feeds, AuditedChanges, Accounts, SavedQueries, DemoData, Notifications, LogViews,
        AuditReports

VARIABLE part  \* the part that is looked at, chosen at the start

consoleVars ==
  <<part, feedVars, changeVars, accountVars, queryVars, demoVars, noteVars, logVars,
    reportVars>>

Parts == {"feeds", "changes", "accounts", "queries", "demo", "notes", "logs", "reports"}

ConsoleInit ==
  /\ part \in Parts
  /\ FeedInit
  /\ ChangeInit
  /\ AccountInit
  /\ QueryInit
  /\ DemoInit
  /\ NoteInit
  /\ LogInit
  /\ ReportInit

FeedsStep ==
  /\ part = "feeds"
  /\ FeedNext
  /\ UNCHANGED <<changeVars, accountVars, queryVars, demoVars, noteVars, logVars, reportVars>>

ChangesStep ==
  /\ part = "changes"
  /\ ChangeNext
  /\ UNCHANGED <<feedVars, accountVars, queryVars, demoVars, noteVars, logVars, reportVars>>

AccountsStep ==
  /\ part = "accounts"
  /\ AccountNext
  /\ UNCHANGED <<feedVars, changeVars, queryVars, demoVars, noteVars, logVars, reportVars>>

QueriesStep ==
  /\ part = "queries"
  /\ QueryNext
  /\ UNCHANGED <<feedVars, changeVars, accountVars, demoVars, noteVars, logVars, reportVars>>

DemoStep ==
  /\ part = "demo"
  /\ DemoNext
  /\ UNCHANGED <<feedVars, changeVars, accountVars, queryVars, noteVars, logVars, reportVars>>

NotesStep ==
  /\ part = "notes"
  /\ NoteNext
  /\ UNCHANGED <<feedVars, changeVars, accountVars, queryVars, demoVars, logVars, reportVars>>

LogsStep ==
  /\ part = "logs"
  /\ LogNext
  /\ UNCHANGED <<feedVars, changeVars, accountVars, queryVars, demoVars, noteVars, reportVars>>

ReportsStep ==
  /\ part = "reports"
  /\ ReportNext
  /\ UNCHANGED <<feedVars, changeVars, accountVars, queryVars, demoVars, noteVars, logVars>>

ConsoleNext ==
  /\ \/ FeedsStep
     \/ ChangesStep
     \/ AccountsStep
     \/ QueriesStep
     \/ DemoStep
     \/ NotesStep
     \/ LogsStep
     \/ ReportsStep
  /\ UNCHANGED part

ConsoleSpec ==
  /\ ConsoleInit
  /\ [][ConsoleNext]_consoleVars
  /\ FeedFairness
  /\ ChangeFairness
  /\ AccountFairness
  /\ QueryFairness
  /\ DemoFairness
  /\ NoteFairness
  /\ ReportFairness

-----------------------------------------------------------------------------
(* Properties. *)

\* The variables of every part have their types.
ConsoleTypeOK ==
  /\ part \in Parts
  /\ part = "feeds" => FeedTypeOK
  /\ part = "changes" => ChangeTypeOK
  /\ part = "accounts" => AccountTypeOK
  /\ part = "queries" => QueryTypeOK
  /\ part = "demo" => DemoTypeOK
  /\ part = "notes" => NoteTypeOK
  /\ part = "logs" => LogViewTypeOK
  /\ part = "reports" => ReportTypeOK

\* Saved queries, demo data, notifications and reports are, after whatever
\* commits and failures, what the requests that were answered made of them:
\* unique names, whole batches with their Redis keys after their commit, marks
\* that stick, pages and exports that skip nothing.
RecordsSound ==
  /\ part = "queries" => QueriesSound
  /\ part = "demo" => DemoDataSound
  /\ part = "notes" => NotificationsSound
  /\ part = "reports" => ReportsSound

\* A request is under way, or a client has left and its feed goes on.
SomebodyWaits ==
  \/ \E c \in Clients : conn[c].event = "gone" /\ conn[c].pc # "closed"
  \/ \E r \in Changes : OpenChange(r)
  \/ \E r \in UserRequests : OpenUser(r)
  \/ \E c \in QueryCalls : OpenCall(c)
  \/ \E s \in Seeders : OpenSeed(s)
  \/ \E r \in NoteReaders : OpenReader(r)
  \/ \E r \in Reports : OpenReport(r)

\* Every request that is begun ends, whomever it waits for, and a feed whose
\* client has left gives its subscription back.  (Each is begun only once, so
\* that one which did not end would keep somebody waiting for ever.)
ConsoleRequestsEnd == SomebodyWaits ~> ~SomebodyWaits
=============================================================================
