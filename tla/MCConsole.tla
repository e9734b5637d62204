------------------------------- MODULE MCConsole -------------------------------
(***************************************************************************)
(* A small console: two or three requests for each part, chosen so that    *)
(* they want the same rows, keys and names.                                *)
(***************************************************************************)
EXTENDS Console

CONSTANTS
  c1, c2,                  \* clients
  a1, a2, bad, h1, h2, other,          \* messages
  x, y,                    \* heal actions
  q1, q2, q3,              \* requests about users
  s1, s2,                  \* seeds
  v1,                      \* a log view
  e1                       \* a report

FeedAskOf(token, project, feed, action) ==
  [token |-> token, project |-> project, feed |-> feed, action |-> action]

MCScript ==
  [source \in EnabledProjects \X FeedNames |->
     CASE source[2] = "alerts"  -> <<a1, a2>>
       [] source[2] = "healing" -> <<h1, bad, other, h2>>
       [] OTHER                 -> <<>>]

MCAboutOf == [m \in FeedMessages |-> CASE m \in {h1, h2} -> x [] m = other -> y [] OTHER -> NoAction]

MCFeedAsks ==
  [c \in Clients |->
     IF c = c1
     THEN {FeedAskOf(TRUE, "p1", "alerts", NoAction), FeedAskOf(TRUE, "p1", "healing", x)}
     ELSE {FeedAskOf(TRUE, "p1", "alerts", NoAction), FeedAskOf(FALSE, "p1", "alerts", NoAction),
           FeedAskOf(TRUE, "unknown", "alerts", NoAction)}]

MCConfigAsks ==
  [r \in Changes |->
     IF r = "r1" THEN {<<"k1", "v1">>, <<"unknown", "v1">>} ELSE {<<"k1", "v2">>, <<"k2", "v1">>}]

MCUserOps ==
  [r \in UserRequests |->
     CASE r = q1 -> {<<"delete", "u">>, <<"ban", "u">>, <<"create", "admin">>}
       [] r = q2 -> {<<"update", "u">>, <<"unban", "u">>, <<"create", "u">>, <<"list", "u">>}
       [] OTHER  -> {<<"delete", "u">>, <<"ban", "u">>, <<"get", "u">>, <<"delete", "admin">>}]

CallOf(op, id, name) == [op |-> op, id |-> id, name |-> name]

MCCallOps ==
  [c \in QueryCalls |->
     CASE c = "first"  -> {CallOf("rename", 1, "B"), CallOf("delete", 1, "A"), CallOf("save", 1, "A"),
                           CallOf("save", 1, "C")}
       [] c = "second" -> {CallOf("rename", 2, "A"), CallOf("rename", 1, "C"), CallOf("delete", 1, "A")}
       [] OTHER        -> {CallOf("save", 1, "A"), CallOf("save", 1, "C"), CallOf("delete", 2, "A"),
                           CallOf("rename", 2, "B")}]

MCSavedAtStart == [n \in QueryIds |-> CASE n = 1 -> "A" [] n = 2 -> "B" [] OTHER -> Unsaved]

SeedAskOf(via, reset) == [via |-> via, reset |-> reset]

MCSeedAsks ==
  [s \in Seeders |->
     {SeedAskOf("cli", TRUE)}
       \cup IF s = s1 THEN {SeedAskOf("cli", FALSE), SeedAskOf("api", FALSE)} ELSE {}]

NoteOpOf(op, id) == [op |-> op, id |-> id]

MCNoteOps ==
  [r \in NoteReaders |->
     CASE r = 1 -> {NoteOpOf("all", 1), NoteOpOf("reset", 1)}
       [] r = 2 -> {NoteOpOf("list", 1), NoteOpOf("one", 2), NoteOpOf("all", 1)}
       [] OTHER -> {NoteOpOf("reset", 1), NoteOpOf("list", 1)}]

Line(ts, level, hit) == [ts |-> ts, level |-> level, hit |-> hit]

MCSnapshots ==
  {<<Line(4, "error", TRUE), Line(2, "info", FALSE), Line(1, "info", TRUE),
     Line(0, "other", TRUE), Line(NoTime, "error", TRUE)>>,
   <<Line(4, "error", TRUE), Line(1, "error", FALSE)>>}

ViewAskOf(kind, range, start, end, level, words, buckets) ==
  [kind |-> kind, range |-> range, start |-> start, end |-> end, level |-> level,
   words |-> words, buckets |-> buckets]

MCViewAsks ==
  [v \in Viewers |->
     {ViewAskOf("search", 2, NoTime, NoTime, "any", TRUE, 1),
      ViewAskOf("search", 0, NoTime, NoTime, "info", FALSE, 1),
      ViewAskOf("histogram", 2, NoTime, NoTime, "any", FALSE, 2),
      ViewAskOf("histogram", 2, NoTime, 1, "any", FALSE, 2),
      ViewAskOf("histogram", 0, NoTime, NoTime, "any", FALSE, 3),
      ViewAskOf("histogram", 0, 1, 4, "any", FALSE, 2),
      ViewAskOf("histogram", 0, NoTime, 3, "any", FALSE, 2),
      ViewAskOf("histogram", 0, 1, NoTime, "error", FALSE, 2)}]

MCProjectOf == [e \in 1 .. 3 |-> "p1"]

MCSearchLimit == [kind \in {"pages", "export"} |-> IF kind = "pages" THEN 1 ELSE 2]

ReportAskOf(kind, project, filtered) == [kind |-> kind, project |-> project, filtered |-> filtered]

MCReportAsks ==
  [r \in Reports |->
     {ReportAskOf("pages", "p1", FALSE), ReportAskOf("pages", "p1", TRUE),
      ReportAskOf("export", "p1", FALSE), ReportAskOf("other", "p2", FALSE)}]
=============================================================================
