------------------------------- MODULE LogViews -------------------------------
(***************************************************************************)
(* Search and histogram over the logs a collector or a seed has cached in  *)
(* Redis (app/logs/service.py, app/api/logs.py).  A view reads one key     *)
(* and, if that is empty, another one; filters what it has read by a time  *)
(* range; and, for a histogram, works out the window its buckets divide.   *)
(* The keys are replaced and expire meanwhile, and the clock is read twice.*)
(*                                                                         *)
(* Times are whole seconds; the keyword, service and trace filters are one *)
(* field of a log.                                                         *)
(***************************************************************************)
EXTENDS Integers, Sequences, FiniteSets, Functions, FiniteSetsExt

CONSTANTS
  Viewers,     \* requests
  ViewAsks,    \* what each may ask for
  Snapshots,   \* sequences of logs a key may hold
  LastTime,    \* bound of the clock
  DefaultSpan, \* the hour a window has if its start is not known
  NoTime,      \* a timestamp that is missing or does not parse
  Absent       \* a key that is not there, or expired

Times == 0 .. LastTime

LogLine == [ts : Times \cup {NoTime}, level : {"error", "info", "other"}, hit : BOOLEAN]

\* range: seconds of timeRange, 0 for none; level "any" for none; words:
\* whether keyword, service or trace are given.
ViewAsk ==
  [kind : {"search", "histogram"}, range : Nat, start : Times \cup {NoTime},
   end : Times \cup {NoTime}, level : {"any", "error", "info"}, words : BOOLEAN,
   buckets : Nat \ {0}]

ASSUME LogAssumption ==
  /\ LastTime \in Nat
  /\ DefaultSpan \in Nat
  /\ NoTime \notin Int
  /\ Snapshots \subseteq Seq(LogLine)
  /\ Absent \notin Snapshots
  /\ ViewAsks \in [Viewers -> SUBSET ViewAsk]

VARIABLES
  cache,  \* the two Redis keys
  clock,
  view    \* the requests

logVars == <<cache, clock, view>>

-----------------------------------------------------------------------------

LogKeys == {"recent_logs", "recent_errors"}

NoBounds == [start |-> NoTime, end |-> NoTime]

Bounds == [start : Int \cup {NoTime}, end : Int \cup {NoTime}]

\* source: what was read; kept: the places in it of the logs that match;
\* tallies: the places of those that each counter counts, which is a level of
\* a search or a bucket of a histogram.  (The errors of a bucket are counted
\* with it.)
View ==
  [pc      : {"idle", "reading", "fallback", "filtering", "drawing", "done"},
   asked   : ViewAsk,
   source  : Snapshots \cup {<<>>},
   kept    : SUBSET Nat,
   bounds  : Bounds,
   window  : Bounds,
   tallies : Seq(SUBSET Nat)]

IdleView ==
  [pc |-> "idle", asked |-> [kind |-> "search", range |-> 0, start |-> NoTime, end |-> NoTime,
                             level |-> "any", words |-> FALSE, buckets |-> 1],
   source |-> <<>>, kept |-> {}, bounds |-> NoBounds, window |-> NoBounds, tallies |-> <<>>]

ContentOf(k) == IF cache[k] = Absent THEN <<>> ELSE cache[k]

\* _resolve_time_filters: a range takes the place of the start, and of the
\* end if there is none.
TimeBounds(asked, now) ==
  IF asked.range = 0 THEN [start |-> asked.start, end |-> asked.end]
  ELSE [start |-> now - asked.range, end |-> IF asked.end = NoTime THEN now ELSE asked.end]

\* _matches.
Matches(log, asked, bounds) ==
  /\ asked.words => log.hit
  /\ asked.level # "any" => log.level = asked.level
  /\ log.ts = NoTime => bounds = NoBounds
  /\ log.ts # NoTime /\ bounds.start # NoTime => log.ts >= bounds.start
  /\ log.ts # NoTime /\ bounds.end # NoTime => log.ts <= bounds.end

TimesIn(logs, kept) == {logs[k].ts : k \in kept} \ {NoTime}

\* _histogram_window.
WindowOf(times, asked, now) ==
  LET bounds == TimeBounds(asked, now)
      end == IF bounds.end = NoTime THEN now ELSE bounds.end
  IN  IF bounds # NoBounds
      THEN [start |-> IF bounds.start = NoTime THEN end - DefaultSpan ELSE bounds.start, end |-> end]
      ELSE IF times # {} THEN [start |-> Min(times), end |-> Max(times)]
      ELSE [start |-> now - DefaultSpan, end |-> now]

Larger(a, b) == IF a > b THEN a ELSE b

Smaller(a, b) == IF a < b THEN a ELSE b

\* Not the code: the end of the window is after its last bucket.
BucketUnclamped(ts, window, buckets, low) ==
  LET early == IF ts \in low THEN 1 ELSE 0
  IN  ((ts - window.start) * buckets - early) \div Larger(window.end - window.start, 1) + 1

\* The bucket of a time: int((ts - start) / width), the last one closed.  The
\* quotient of two floats may fall short of the whole number it stands for: a
\* time on a boundary counts, if it is among low, in the bucket before.
BucketOf(ts, window, buckets, low) ==
  LET length == Larger(window.end - window.start, 1)
      early == IF ts \in low THEN 1 ELSE 0
  IN  Smaller(((ts - window.start) * buckets - early) \div length, buckets - 1) + 1

\* The times for which that may happen; the start of the window is exact.
Boundaries(window, buckets) ==
  {ts \in Times : /\ ts > window.start
                  /\ ((ts - window.start) * buckets) % Larger(window.end - window.start, 1) = 0}

\* The loop of histogram: a log outside of the window is skipped.
Histogram(logs, kept, window, buckets, low) ==
  [i \in 1 .. buckets |->
     {k \in kept :
        /\ logs[k].ts # NoTime
        /\ logs[k].ts >= window.start /\ logs[k].ts <= window.end
        /\ BucketOf(logs[k].ts, window, buckets, low) = i}]

\* _level_counts.
LevelCounts(logs, kept) ==
  << {k \in kept : logs[k].level = "error"}, {k \in kept : logs[k].level = "info"} >>

-----------------------------------------------------------------------------
(* Outside: the collector, the expiry of its keys, time. *)

ReplaceLogs(k, snapshot) ==
  /\ cache' = [cache EXCEPT ![k] = snapshot]
  /\ UNCHANGED <<clock, view>>

ExpireLogs(k) ==
  /\ cache[k] # Absent
  /\ cache' = [cache EXCEPT ![k] = Absent]
  /\ UNCHANGED <<clock, view>>

LogTick ==
  /\ clock < LastTime
  /\ clock' = clock + 1
  /\ UNCHANGED <<cache, view>>

-----------------------------------------------------------------------------
(* A view. *)

AskView(v, asked) ==
  /\ view[v].pc = "idle"
  /\ view' = [view EXCEPT ![v].pc = "reading", ![v].asked = asked]
  /\ UNCHANGED <<cache, clock>>

\* What Redis answers; an error counts as an empty key.
ReadRecent(v) ==
  /\ view[v].pc = "reading"
  /\ \E content \in {ContentOf("recent_logs"), <<>>} :
       view' = [view EXCEPT ![v].pc = IF content = <<>> THEN "fallback" ELSE "filtering",
                            ![v].source = content]
  /\ UNCHANGED <<cache, clock>>

ReadErrors(v) ==
  /\ view[v].pc = "fallback"
  /\ \E content \in {ContentOf("recent_errors"), <<>>} :
       view' = [view EXCEPT ![v].pc = "filtering", ![v].source = content]
  /\ UNCHANGED <<cache, clock>>

\* _filtered_logs, at one reading of the clock.  A search is answered with the
\* counts and one page of what is kept, of which nothing is left.
FilterLogs(v) ==
  LET asked == view[v].asked
      source == view[v].source
      bounds == TimeBounds(asked, clock)
      kept == {k \in DOMAIN source : Matches(source[k], asked, bounds)}
  IN  /\ view[v].pc = "filtering"
      /\ view' = [view EXCEPT
           ![v].pc = IF asked.kind = "search" THEN "done" ELSE "drawing",
           ![v].bounds = bounds, ![v].kept = kept,
           ![v].tallies = IF asked.kind = "search" THEN LevelCounts(source, kept) ELSE <<>>]
      /\ UNCHANGED <<cache, clock>>

\* The rest of histogram, at another.
DrawHistogram(v) ==
  LET asked == view[v].asked
      times == TimesIn(view[v].source, view[v].kept)
      window == WindowOf(times, asked, clock)
  IN  /\ view[v].pc = "drawing"
      /\ \E low \in SUBSET (Boundaries(window, asked.buckets) \cap times) :
           view' = [view EXCEPT
             ![v].pc = "done", ![v].window = window,
             ![v].tallies = Histogram(view[v].source, view[v].kept, window, asked.buckets, low)]
      /\ UNCHANGED <<cache, clock>>

-----------------------------------------------------------------------------

LogInit ==
  /\ cache = [k \in LogKeys |-> Absent]
  /\ clock = 0
  /\ view = [v \in Viewers |-> IdleView]

ServeView(v) ==
  \/ ReadRecent(v)
  \/ ReadErrors(v)
  \/ FilterLogs(v)
  \/ DrawHistogram(v)

LogNext ==
  \/ \E k \in LogKeys : ExpireLogs(k) \/ \E snapshot \in Snapshots : ReplaceLogs(k, snapshot)
  \/ LogTick
  \/ \E v \in Viewers : ServeView(v) \/ \E asked \in ViewAsks[v] : AskView(v, asked)

LogSpec == LogInit /\ [][LogNext]_logVars

LogFairness == \A v \in Viewers : WF_logVars(ServeView(v))

-----------------------------------------------------------------------------
(* Properties. *)

\* Types: in particular a view has only logs some key has held.
LogViewTypeOK ==
  /\ cache \in [LogKeys -> Snapshots \cup {Absent}]
  /\ clock \in Times
  /\ view \in [Viewers -> View]
  /\ \A v \in Viewers : view[v].kept \subseteq DOMAIN view[v].source

Drawn(v) == view[v].pc = "done" /\ view[v].asked.kind = "histogram"

TimeAt(v, k) == view[v].source[k].ts

Timed(v) == {k \in view[v].kept : TimeAt(v, k) # NoTime}

\* Each bucket holds the logs of its part of the window and no others,
\* whatever its width divides; only a log on a boundary may be in either, and
\* none is in both.
BucketsFit ==
  \A v \in Viewers : Drawn(v) =>
    LET w == view[v].window
        n == view[v].asked.buckets
        bucket == view[v].tallies
        length == Larger(w.end - w.start, 1)
        place(k) == (TimeAt(v, k) - w.start) * n
    IN  \A i \in 1 .. n :
          /\ \A k \in Timed(v) :
               /\ TimeAt(v, k) >= w.start /\ TimeAt(v, k) <= w.end
               /\ i = 1 \/ place(k) > (i - 1) * length
               /\ i = n \/ place(k) < i * length
               => k \in bucket[i]
          /\ \A k \in bucket[i] :
               /\ k \in Timed(v) /\ TimeAt(v, k) >= w.start /\ TimeAt(v, k) <= w.end
               /\ place(k) >= (i - 1) * length /\ place(k) <= i * length
          /\ \A j \in 1 .. n : i # j => bucket[i] \cap bucket[j] = {}

\* With both bounds or none, a histogram loses no log that matched and has a
\* time; with a range it loses those that grew too old while it was worked
\* out, and no other.
HistogramComplete ==
  \A v \in Viewers : Drawn(v) =>
    LET asked == view[v].asked
        lost == Timed(v) \ UNION Range(view[v].tallies)
    IN  /\ asked.range = 0 /\ (asked.start = NoTime <=> asked.end = NoTime) => lost = {}
        /\ asked.range # 0 => lost = {k \in Timed(v) : TimeAt(v, k) < view[v].window.start}

\* Nothing is shown that is younger than the end asked for or, with a range
\* and no end, older than the range when it was read.
WithinBounds ==
  \A v \in Viewers : \A k \in Timed(v) :
    LET asked == view[v].asked
    IN  /\ asked.end # NoTime => TimeAt(v, k) <= asked.end
        /\ asked.range # 0 /\ asked.end = NoTime =>
             TimeAt(v, k) >= view[v].bounds.end - asked.range /\ TimeAt(v, k) <= clock

\* Search and histogram tell of the logs they have read, although the cache
\* changes and the clock is read twice: each log that matched and is in the
\* window in its bucket, none lost but those that grew too old, and none
\* outside of the bounds asked for.  (A page of a search is a slice of what
\* its own request has read; two pages are two requests.)
ViewsFaithful == BucketsFit /\ HistogramComplete /\ WithinBounds
=============================================================================
