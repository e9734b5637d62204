------------------------------ MODULE ConsoleProofs ------------------------------
(***************************************************************************)
(* Theorems about the requests of the console: each change of a setting or *)
(* pod and each change of a user is accounted for, saved queries keep      *)
(* their unique names, demo data stays whole, notifications keep their     *)
(* marks, and those who read are shown what there is (ReadingProofs).      *)
(* Each part has an inductive invariant of its own, which says of every    *)
(* request how what it has read, locked or drafted fits what is committed, *)
(* and one lemma for each of its actions.  The last section puts the parts *)
(* together: a step of the console is a step of one part, and a stutter of *)
(* the others.                                                             *)
(***************************************************************************)
EXTENDS Console, ReadingProofs, FiniteSetTheorems, TLAPS

-----------------------------------------------------------------------------
(* Audited changes (AuditedChanges).                                       *)

ChangePcs == {"idle", "intent", "acting", "recording", "answered", "refused", "error", "lost"}

\* What a move of one request leaves alone.
LEMMA GotoFacts ==
  ASSUME ChangeTypeOK, NEW r \in Changes, NEW label \in ChangePcs, Goto(r, label)
  PROVE  /\ change' \in [Changes -> Change]
         /\ change'[r].pc = label
         /\ change'[r].kind = change[r].kind
         /\ change'[r].key = change[r].key
         /\ change'[r].value = change[r].value
         /\ change'[r].outcome = change[r].outcome
         /\ \A o \in Changes \ {r} : change'[o] = change[o]
<1>1. change[r] \in Change  BY DEF ChangeTypeOK
<1>2. [change[r] EXCEPT !.pc = label] \in Change  BY <1>1, Zenon DEF Change, ChangePcs
<1>3. change' = [change EXCEPT ![r] = [change[r] EXCEPT !.pc = label]]  BY DEF Goto
<1>4. change'[r] = [change[r] EXCEPT !.pc = label]  BY <1>3 DEF ChangeTypeOK
<1>5. change'[r].pc = label /\ change'[r].kind = change[r].kind
       /\ change'[r].key = change[r].key /\ change'[r].value = change[r].value
       /\ change'[r].outcome = change[r].outcome
  BY <1>1, <1>4 DEF Change
<1> QED  BY <1>2, <1>3, <1>5 DEF ChangeTypeOK

LEMMA BegunFacts ==
  ASSUME ChangeTypeOK, ChangeAssumption, NEW r \in Changes,
         \/ \E asked \in ConfigAsks[r], confirm \in BOOLEAN :
              BeginConfig(r, asked[1], asked[2], confirm)
         \/ \E driver \in Drivers : BeginRestart(r, driver)
  PROVE  /\ change' \in [Changes -> Change]
         /\ change[r].pc = "idle"
         /\ change'[r].pc \in {"intent", "refused"}
         /\ \A o \in Changes \ {r} : change'[o] = change[o]
         /\ UNCHANGED <<overrides, restarts, trail, wipe, effects, wiped, amid>>
<1>0. IdleChange \in Change  BY DEF IdleChange, Change, Results
<1> DEFINE turned == [IdleChange EXCEPT !.pc = "refused"]
<1>r. turned \in Change /\ turned.pc = "refused"
  <2>1. turned \in Change  BY <1>0, Zenon DEF Change
  <2>2. turned.pc = "refused"  BY <1>0 DEF Change
  <2> QED  BY <2>1, <2>2
<1> HIDE DEF turned
<1>1. CASE \E asked \in ConfigAsks[r], confirm \in BOOLEAN :
              BeginConfig(r, asked[1], asked[2], confirm)
  <2> PICK asked \in ConfigAsks[r], confirm \in BOOLEAN :
              BeginConfig(r, asked[1], asked[2], confirm)
    BY <1>1
  <2> DEFINE key == asked[1]
             value == asked[2]
             old == overrides[key]
             allowed == key \in ConfigKeys /\ (key \in HighRiskKeys => confirm)
             new == [IdleChange EXCEPT !.pc = "intent", !.key = key, !.value = value,
                                       !.before = old]
  <2>1. key \in ConfigKeys \cup {UnknownKey} /\ value \in ConfigValues
    <3>1. asked \in (ConfigKeys \cup {UnknownKey}) \X ConfigValues
      BY DEF ChangeAssumption
    <3> QED  BY <3>1
  <2>2. change[r].pc = "idle" /\ change' = [change EXCEPT ![r] = IF ~allowed THEN turned ELSE new]
        /\ UNCHANGED <<overrides, restarts, trail, wipe, effects, wiped, amid>>
    BY DEF BeginConfig, turned
  <2>3. allowed => old \in ConfigValues \cup {Default}  BY DEF ChangeTypeOK
  <2> HIDE DEF key, value, old
  <2>4. allowed => new \in Change /\ new.pc = "intent"
    <3> SUFFICES ASSUME old \in ConfigValues \cup {Default}
                 PROVE  new \in Change /\ new.pc = "intent"
      BY <2>3
    <3>1. new \in Change  BY <1>0, <2>1, Zenon DEF Change
    <3>2. new.pc = "intent"  BY <1>0 DEF Change
    <3> QED  BY <3>1, <3>2
  <2> HIDE DEF new, allowed
  <2> QED  BY <1>r, <2>2, <2>4 DEF ChangeTypeOK
<1>2. CASE \E driver \in Drivers : BeginRestart(r, driver)
  <2> PICK driver \in Drivers : BeginRestart(r, driver)  BY <1>2
  <2> DEFINE new == [IdleChange EXCEPT !.pc = "intent", !.kind = "restart", !.driver = driver]
  <2>1. change[r].pc = "idle"
        /\ change' = [change EXCEPT ![r] = IF driver = "none" THEN turned ELSE new]
        /\ UNCHANGED <<overrides, restarts, trail, wipe, effects, wiped, amid>>
    BY DEF BeginRestart, turned
  <2>2. driver \in {"none", "shipped", "injected"}  BY DEF ChangeAssumption
  <2>3. new \in Change  BY <1>0, <2>2, Zenon DEF Change
  <2>4. new.pc = "intent"  BY <1>0 DEF Change
  <2> HIDE DEF new
  <2> QED  BY <1>r, <2>1, <2>3, <2>4 DEF ChangeTypeOK
<1> QED  BY <1>1, <1>2

LEMMA ReportedFacts ==
  ASSUME ChangeTypeOK, NEW r \in Changes, NEW applied \in BOOLEAN, NEW answered \in BOOLEAN,
         ReportEffect(r, applied, answered)
  PROVE  /\ change' \in [Changes -> Change]
         /\ change'[r].pc = "recording"
         /\ change'[r].kind = change[r].kind
         /\ change'[r].key = change[r].key
         /\ change'[r].value = change[r].value
         /\ change'[r].outcome \in {"success", "failed"}
         /\ change'[r].outcome = "success" => applied
         /\ \A o \in Changes \ {r} : change'[o] = change[o]
         /\ effects' = IF applied THEN effects \cup {r} ELSE effects
<1> DEFINE result == IF answered THEN "success" ELSE "failed"
           new == [change[r] EXCEPT !.pc = "recording", !.outcome = result]
<1>1. change[r] \in Change  BY DEF ChangeTypeOK
<1>2. result \in {"success", "failed"} /\ (result = "success" => applied)
  BY DEF ReportEffect
<1> HIDE DEF result
<1>3. change' = [change EXCEPT ![r] = new]  BY DEF ReportEffect, result
<1>4. new \in Change  BY <1>1, <1>2, Zenon DEF Change, Results
<1>5. new.pc = "recording" /\ new.kind = change[r].kind /\ new.key = change[r].key
       /\ new.value = change[r].value /\ new.outcome = result
  BY <1>1 DEF Change
<1> HIDE DEF new
<1>6. change' \in [Changes -> Change] /\ change'[r] = new
       /\ \A o \in Changes \ {r} : change'[o] = change[o]
  BY <1>3, <1>4 DEF ChangeTypeOK
<1>7. effects' = IF applied THEN effects \cup {r} ELSE effects  BY DEF ReportEffect
<1> QED  BY <1>2, <1>5, <1>6, <1>7

\* No row that ever was in the log is of r.
Unlogged(r) == \A row \in trail \cup wiped : row.change # r

\* What is true of a request at every point of it: nothing is there of it
\* before its intent; its intent has been logged from then on; its result is
\* not logged before it is recorded; the row of a restart agrees with all that
\* was logged of it, and is there as long as the log has anything of it.
ChangeSound(r) ==
  /\ change[r].pc \in {"idle", "intent", "refused"} =>
       r \notin effects /\ restarts[r] = "absent" /\ Unlogged(r)
  /\ r \in effects \/ change[r].pc \in {"acting", "recording", "answered"} =>
       Audited(r, "requested")
  /\ change[r].pc \in {"acting", "recording"} =>
       ~Audited(r, "success") /\ ~Audited(r, "failed")
  /\ change[r].pc = "recording" =>
       /\ change[r].outcome \in {"success", "failed"}
       /\ change[r].outcome = "success" => r \in effects
  /\ change[r].pc = "answered" \/ Audited(r, "success") => r \in effects
  /\ restarts[r] # "absent" =>
       /\ change[r].kind = "restart"
       /\ Audited(r, "requested")
       /\ \A result \in {"success", "failed"} : restarts[r] = result <=> Audited(r, result)
       /\ r \in amid \/ \A row \in wiped : row.change # r
  /\ \A row \in trail \cup wiped : row.change = r => row.after = change[r].value
  /\ change[r].kind = "restart" /\ restarts[r] = "absent" => \A row \in trail : row.change # r

\* What is true of a request while a reset is under way: the rows it deletes
\* are there; of a restart whose row it leaves it sees an entry only if the
\* intent was committed amid its DELETEs; of one whose row it deletes it
\* deletes every entry.
WipeSound(r) ==
  /\ r \in wipe.rows => restarts[r] # "absent"
  /\ change[r].kind = "restart" =>
       /\ wipe.at = "rows" /\ r \notin wipe.rows /\ r \notin amid =>
            \A row \in trail : row.change # r
       /\ wipe.at = "trail" /\ r \notin wipe.rows /\ r \notin amid =>
            \A row \in wipe.entries : row.change # r
       /\ wipe.at = "trail" /\ r \in wipe.rows =>
            \A row \in trail : row.change = r => row \in wipe.entries

\* An override is the value of a request whose effect took place.
ValueAsked(key) ==
  overrides[key] # Default =>
    \E r \in effects : change[r].key = key /\ change[r].value = overrides[key]

ChangeInv ==
  /\ ChangeTypeOK
  /\ \A r \in Changes : ChangeSound(r) /\ WipeSound(r)
  /\ wipe.entries \subseteq trail
  /\ \A key \in ConfigKeys : ValueAsked(key)

LEMMA NoWipeFacts ==
  ASSUME NEW n \in 0 .. MaxWipes
  PROVE  /\ NoWipe(n) \in Wipe
         /\ NoWipe(n).at = "none" /\ NoWipe(n).rows = {} /\ NoWipe(n).entries = {}
BY DEF NoWipe, Wipe

LEMMA ChangeInitial ==
  ASSUME ChangeAssumption, ChangeInit
  PROVE  ChangeInv
<1>1. IdleChange \in Change /\ IdleChange.pc = "idle"  BY DEF IdleChange, Change, Results
<1>2. \A r \in Changes : change[r] \in Change /\ change[r].pc = "idle"
  BY <1>1 DEF ChangeInit
<1>3. wipe \in Wipe /\ wipe.at = "none" /\ wipe.rows = {} /\ wipe.entries = {}
  <2>1. 0 \in 0 .. MaxWipes  BY DEF ChangeAssumption
  <2> QED  BY <2>1, NoWipeFacts DEF ChangeInit
<1>4. ChangeTypeOK  BY <1>1, <1>3 DEF ChangeInit, ChangeTypeOK
<1>5. ASSUME NEW r \in Changes  PROVE ChangeSound(r) /\ WipeSound(r)
  <2>1. change[r].pc = "idle"  BY <1>2
  <2>2. trail = {} /\ wiped = {} /\ effects = {} /\ restarts[r] = "absent"  BY DEF ChangeInit
  <2>3. ChangeSound(r)  BY <2>1, <2>2 DEF ChangeSound, Unlogged, Audited
  <2>4. WipeSound(r)  BY <1>3 DEF WipeSound
  <2> QED  BY <2>3, <2>4
<1>6. \A key \in ConfigKeys : ValueAsked(key)  BY DEF ChangeInit, ValueAsked
<1> QED  BY <1>3, <1>4, <1>5, <1>6 DEF ChangeInv

\* A request is as sound as before, if nothing of it changes.
LEMMA OtherChange ==
  ASSUME NEW r \in Changes, ChangeSound(r), WipeSound(r),
         change'[r] = change[r], restarts'[r] = restarts[r],
         r \in effects' <=> r \in effects, r \in amid' <=> r \in amid,
         UNCHANGED <<wipe, wiped>>,
         \A row : row.change = r => (row \in trail' <=> row \in trail)
  PROVE  ChangeSound(r)' /\ WipeSound(r)'
<1>1. \A result : Audited(r, result)' <=> Audited(r, result)  BY DEF Audited
<1>2. Unlogged(r)' <=> Unlogged(r)  BY DEF Unlogged
<1>3. (\A row \in trail' : row.change # r) <=> (\A row \in trail : row.change # r)  OBVIOUS
<1>4. ChangeSound(r)'  BY <1>1, <1>2, <1>3 DEF ChangeSound
<1>5. WipeSound(r)'  BY <1>3 DEF WipeSound
<1> QED  BY <1>4, <1>5

\* The overrides stay explained while no effect is taken back.
LEMMA OverridesKept ==
  ASSUME \A key \in ConfigKeys : ValueAsked(key),
         UNCHANGED overrides, effects \subseteq effects',
         \A r \in effects : change'[r].key = change[r].key /\ change'[r].value = change[r].value
  PROVE  (\A key \in ConfigKeys : ValueAsked(key))'
BY DEF ValueAsked

\* The steps that only move a request: to the answer, an error or its end.
LEMMA MovedChange ==
  ASSUME ChangeInv, NEW r \in Changes, NEW label \in {"answered", "error", "lost"},
         Goto(r, label), label = "answered" => r \in effects,
         UNCHANGED <<overrides, restarts, trail, wipe, effects, wiped, amid>>
  PROVE  ChangeInv'
<1> USE DEF ChangeInv
<1>1. label \in ChangePcs  BY DEF ChangePcs
<1>2. /\ change' \in [Changes -> Change] /\ change'[r].pc = label
      /\ change'[r].kind = change[r].kind
      /\ change'[r].key = change[r].key /\ change'[r].value = change[r].value
      /\ \A o \in Changes \ {r} : change'[o] = change[o]
  BY <1>1, GotoFacts
<1>3. ChangeTypeOK'  BY <1>2 DEF ChangeTypeOK
<1>4. ChangeSound(r)' /\ WipeSound(r)'
  <2>1. ChangeSound(r) /\ WipeSound(r)  OBVIOUS
  <2>2. \A result : Audited(r, result)' <=> Audited(r, result)  BY DEF Audited
  <2>3. ChangeSound(r)'  BY <1>2, <2>1, <2>2 DEF ChangeSound
  <2>4. WipeSound(r)'  BY <1>2, <2>1 DEF WipeSound
  <2> QED  BY <2>3, <2>4
<1>5. ASSUME NEW o \in Changes \ {r}  PROVE ChangeSound(o)' /\ WipeSound(o)'
  BY <1>2, OtherChange
<1>6. (\A key \in ConfigKeys : ValueAsked(key))'
  BY <1>2, OverridesKept DEF ChangeTypeOK
<1> QED  BY <1>3, <1>4, <1>5, <1>6

LEMMA ChangeBegins ==
  ASSUME ChangeAssumption, ChangeInv, NEW r \in Changes,
         \/ \E asked \in ConfigAsks[r], confirm \in BOOLEAN :
              BeginConfig(r, asked[1], asked[2], confirm)
         \/ \E driver \in Drivers : BeginRestart(r, driver)
  PROVE  ChangeInv'
<1> USE DEF ChangeInv
<1>1. /\ change' \in [Changes -> Change] /\ change[r].pc = "idle"
      /\ change'[r].pc \in {"intent", "refused"}
      /\ \A o \in Changes \ {r} : change'[o] = change[o]
      /\ UNCHANGED <<overrides, restarts, trail, wipe, effects, wiped, amid>>
  BY BegunFacts
<1>2. ChangeTypeOK'  BY <1>1 DEF ChangeTypeOK
<1>3. r \notin effects /\ restarts[r] = "absent" /\ Unlogged(r)
  BY <1>1 DEF ChangeSound
<1>4. ChangeSound(r)'
  <2>1. Unlogged(r)' /\ ~Audited(r, "success")' /\ ~Audited(r, "failed")'
    BY <1>1, <1>3 DEF Unlogged, Audited
  <2> QED  BY <1>1, <1>3, <2>1 DEF ChangeSound, Unlogged
<1>5. WipeSound(r)'
  <2>1. \A row \in trail : row.change # r  BY <1>3 DEF Unlogged
  <2>2. r \notin wipe.rows  BY <1>3 DEF WipeSound
  <2>3. \A row \in wipe.entries : row.change # r  BY <2>1
  <2> QED  BY <1>1, <2>1, <2>2, <2>3 DEF WipeSound
<1>6. ASSUME NEW o \in Changes \ {r}  PROVE ChangeSound(o)' /\ WipeSound(o)'
  BY <1>1, OtherChange
<1>7. (\A key \in ConfigKeys : ValueAsked(key))'
  BY <1>1, <1>3, OverridesKept DEF ChangeTypeOK
<1> QED  BY <1>1, <1>2, <1>4, <1>5, <1>6, <1>7

LEMMA IntentIsRecorded ==
  ASSUME ChangeInv, NEW r \in Changes, RecordIntent(r)
  PROVE  ChangeInv'
<1> USE DEF ChangeInv
<1> DEFINE new == AuditOf(r, "requested")
<1>1. /\ change' \in [Changes -> Change] /\ change'[r].pc = "acting"
      /\ change'[r].kind = change[r].kind
      /\ change'[r].key = change[r].key /\ change'[r].value = change[r].value
      /\ \A o \in Changes \ {r} : change'[o] = change[o]
  BY GotoFacts DEF RecordIntent, ChangePcs
<1>2. /\ change[r].pc = "intent" /\ trail' = trail \cup {new}
      /\ restarts' = IF change[r].kind = "restart"
                     THEN [restarts EXCEPT ![r] = "executing"] ELSE restarts
      /\ amid' = IF change[r].kind = "restart" /\ wipe.at = "rows" THEN amid \cup {r} ELSE amid
      /\ UNCHANGED <<overrides, wipe, effects, wiped>>
  BY DEF RecordIntent
<1>3. /\ new \in ChangeAudit /\ new.change = r /\ new.result = "requested"
      /\ new.after = change[r].value
  BY DEF AuditOf, ChangeAudit, ChangeTypeOK, Change, Results
<1>4. r \notin effects /\ restarts[r] = "absent" /\ Unlogged(r)
  BY <1>2 DEF ChangeSound
<1> HIDE DEF new
<1>5. ChangeTypeOK'  BY <1>1, <1>2, <1>3 DEF ChangeTypeOK
<1>6. ChangeSound(r)'
  <2>1. Audited(r, "requested")' /\ ~Audited(r, "success")' /\ ~Audited(r, "failed")'
    BY <1>2, <1>3, <1>4 DEF Unlogged, Audited
  <2>2. /\ \A row \in (trail \cup wiped)' : row.change = r => row.after = change'[r].value
        /\ \A row \in wiped' : row.change # r
    BY <1>1, <1>2, <1>3, <1>4 DEF Unlogged
  <2>3. IF change'[r].kind = "restart" THEN restarts'[r] = "executing"
                                       ELSE restarts'[r] = "absent"
    BY <1>1, <1>2, <1>4 DEF ChangeTypeOK
  <2> QED  BY <1>1, <1>2, <1>4, <2>1, <2>2, <2>3 DEF ChangeSound
<1>7. WipeSound(r)'
  <2>1. \A row \in wipe.entries : row.change # r  BY <1>4 DEF Unlogged
  <2>2. r \notin wipe.rows  BY <1>4 DEF WipeSound
  <2>3. change[r].kind = "restart" /\ wipe.at = "rows" => r \in amid'  BY <1>2
  <2> QED  BY <1>1, <1>2, <2>1, <2>2, <2>3 DEF WipeSound
<1>8. ASSUME NEW o \in Changes \ {r}  PROVE ChangeSound(o)' /\ WipeSound(o)'
  <2>1. restarts'[o] = restarts[o]  BY <1>2 DEF ChangeTypeOK
  <2>2. \A row : row.change = o => (row \in trail' <=> row \in trail)  BY <1>2, <1>3
  <2>3. o \in amid' <=> o \in amid  BY <1>2
  <2> QED  BY <1>1, <1>2, <2>1, <2>2, <2>3, OtherChange
<1>9. (\A key \in ConfigKeys : ValueAsked(key))'
  BY <1>1, <1>2, OverridesKept DEF ChangeTypeOK
<1> QED  BY <1>2, <1>5, <1>6, <1>7, <1>8, <1>9

LEMMA EffectTakesPlace ==
  ASSUME ChangeAssumption, ChangeInv, NEW r \in Changes, WriteOverride(r) \/ CallProvider(r)
  PROVE  ChangeInv'
<1> USE DEF ChangeInv
<1>0. ChangeTypeOK  OBVIOUS
<1>1. PICK applied \in BOOLEAN, answered \in BOOLEAN :
         /\ ReportEffect(r, applied, answered)
         /\ \/ UNCHANGED overrides
            \/ applied /\ overrides' = [overrides EXCEPT ![change[r].key] = change[r].value]
  BY DEF WriteOverride, CallProvider
<1>2. /\ change' \in [Changes -> Change] /\ change'[r].pc = "recording"
      /\ change'[r].kind = change[r].kind
      /\ change'[r].key = change[r].key /\ change'[r].value = change[r].value
      /\ change'[r].outcome \in {"success", "failed"}
      /\ change'[r].outcome = "success" => applied
      /\ \A o \in Changes \ {r} : change'[o] = change[o]
      /\ effects' = IF applied THEN effects \cup {r} ELSE effects
  BY <1>0, <1>1, ReportedFacts
<1>3. change[r].pc = "acting" /\ UNCHANGED <<restarts, trail, wipe, wiped, amid>>
  BY DEF WriteOverride, CallProvider
<1>4. \/ UNCHANGED overrides
      \/ applied /\ overrides' = [overrides EXCEPT ![change[r].key] = change[r].value]
  BY <1>1
<1>5. ChangeTypeOK'
  <2>1. change[r].value \in ConfigValues \cup {Default}  BY DEF ChangeTypeOK, Change
  <2>2. overrides' \in [ConfigKeys -> ConfigValues \cup {Default}]
    BY <1>4, <2>1 DEF ChangeTypeOK
  <2> QED  BY <1>2, <1>3, <2>2 DEF ChangeTypeOK
<1>6. ChangeSound(r)' /\ WipeSound(r)'
  <2>1. ChangeSound(r) /\ WipeSound(r)  OBVIOUS
  <2>2. \A result : Audited(r, result)' <=> Audited(r, result)  BY <1>3 DEF Audited
  <2>3. ChangeSound(r)'  BY <1>2, <1>3, <2>1, <2>2 DEF ChangeSound
  <2>4. WipeSound(r)'  BY <1>2, <1>3, <2>1 DEF WipeSound
  <2> QED  BY <2>3, <2>4
<1>7. ASSUME NEW o \in Changes \ {r}  PROVE ChangeSound(o)' /\ WipeSound(o)'
  BY <1>2, <1>3, OtherChange
<1>8. ASSUME NEW key \in ConfigKeys  PROVE ValueAsked(key)'
  <2>1. CASE overrides'[key] = overrides[key]
    BY <1>2, <2>1 DEF ValueAsked, ChangeTypeOK
  <2>2. CASE overrides'[key] # overrides[key]
    <3>1. applied /\ key = change[r].key /\ overrides'[key] = change[r].value
      BY <1>4, <2>2 DEF ChangeTypeOK
    <3> QED  BY <1>2, <3>1 DEF ValueAsked
  <2> QED  BY <2>1, <2>2
<1> QED  BY <1>3, <1>5, <1>6, <1>7, <1>8

LEMMA OutcomeIsRecorded ==
  ASSUME ChangeInv, NEW r \in Changes, RecordOutcome(r)
  PROVE  ChangeInv'
<1> USE DEF ChangeInv
<1>1. /\ ChangeSound(r) /\ WipeSound(r) /\ change[r].pc = "recording"
      /\ r \notin wipe.rows
  BY DEF RecordOutcome
<1>2. change[r].outcome \in {"success", "failed"}
      /\ (change[r].outcome = "success" => r \in effects)
      /\ Audited(r, "requested") /\ ~Audited(r, "success") /\ ~Audited(r, "failed")
  BY <1>1 DEF ChangeSound
<1>3. Ended(r) \in {"answered", "error"} /\ (Ended(r) = "answered" => r \in effects)
  BY <1>2 DEF Ended
<1>4. CASE RowGone(r)
  <2>1. Goto(r, Ended(r)) /\ UNCHANGED <<overrides, restarts, trail, wipe, effects, wiped, amid>>
    BY <1>4 DEF RecordOutcome
  <2> QED  BY <1>3, <2>1, MovedChange
<1>5. CASE ~RowGone(r)
  <2> DEFINE result == change[r].outcome
             new == AuditOf(r, result)
  <2>1. /\ change' \in [Changes -> Change] /\ change'[r].pc \in {"answered", "error"}
        /\ change'[r].pc = "answered" => r \in effects
        /\ change'[r].kind = change[r].kind
        /\ change'[r].key = change[r].key /\ change'[r].value = change[r].value
        /\ \A o \in Changes \ {r} : change'[o] = change[o]
    <3>1. Goto(r, Ended(r)) /\ Ended(r) \in ChangePcs  BY <1>3 DEF RecordOutcome, ChangePcs
    <3> QED  BY <1>3, <3>1, GotoFacts
  <2>2. /\ trail' = trail \cup {new}
        /\ restarts' = IF change[r].kind = "restart" THEN [restarts EXCEPT ![r] = result]
                       ELSE restarts
        /\ UNCHANGED <<overrides, wipe, effects, wiped, amid>>
    BY <1>5 DEF RecordOutcome
  <2>3. /\ new \in ChangeAudit /\ new.change = r /\ new.result = result
        /\ new.after = change[r].value
    BY DEF AuditOf, ChangeAudit, ChangeTypeOK, Change, Results
  <2>4. result \in {"success", "failed"} /\ (result = "success" => r \in effects)
    BY <1>2
  <2> HIDE DEF new, result
  <2>5. ChangeTypeOK'  BY <2>1, <2>2, <2>3, <2>4 DEF ChangeTypeOK
  <2>6. ChangeSound(r)'
    <3>1. /\ Audited(r, "requested")' <=> Audited(r, "requested")
          /\ \A end \in {"success", "failed"} : Audited(r, end)' <=> end = result
      BY <1>2, <2>2, <2>3, <2>4 DEF Audited
    <3>2. \A row \in (trail \cup wiped)' : row.change = r => row.after = change'[r].value
      BY <1>1, <2>1, <2>2, <2>3 DEF ChangeSound
    <3>3. restarts'[r] # "absent" =>
            change'[r].kind = "restart" /\ restarts[r] # "absent" /\ restarts'[r] = result
      BY <1>1, <1>5, <2>1, <2>2 DEF ChangeTypeOK, RowGone, ChangeSound
    <3>4. change[r].kind = "restart" => restarts'[r] # "absent"
      BY <2>2, <2>4 DEF ChangeTypeOK
    <3> QED  BY <1>1, <2>1, <2>2, <2>4, <3>1, <3>2, <3>3, <3>4 DEF ChangeSound
  <2>7. WipeSound(r)'
    <3>1. change[r].kind = "restart" /\ wipe.at = "rows" => r \in amid
      <4> SUFFICES ASSUME change[r].kind = "restart", wipe.at = "rows", r \notin amid
                   PROVE  FALSE
        OBVIOUS
      <4>1. \A row \in wiped : row.change # r  BY <1>1, <1>5 DEF ChangeSound, RowGone
      <4>2. \A row \in trail : row.change # r  BY <1>1 DEF WipeSound
      <4> QED  BY <1>2, <4>1, <4>2 DEF Audited
    <3>2. change[r].kind = "restart" /\ wipe.at = "trail" /\ r \notin amid =>
            \A row \in wipe.entries : row.change # r
      BY <1>1 DEF WipeSound
    <3> QED  BY <1>1, <2>1, <2>2, <3>1, <3>2 DEF WipeSound
  <2>8. ASSUME NEW o \in Changes \ {r}  PROVE ChangeSound(o)' /\ WipeSound(o)'
    <3>1. restarts'[o] = restarts[o]  BY <2>2 DEF ChangeTypeOK
    <3>2. \A row : row.change = o => (row \in trail' <=> row \in trail)  BY <2>2, <2>3
    <3> QED  BY <2>1, <2>2, <3>1, <3>2, OtherChange
  <2>9. (\A key \in ConfigKeys : ValueAsked(key))'
    BY <2>1, <2>2, OverridesKept DEF ChangeTypeOK
  <2> QED  BY <2>2, <2>5, <2>6, <2>7, <2>8, <2>9
<1> QED  BY <1>4, <1>5

\* The first DELETE of a reset finds the row of every restart in the log.
LEMMA RestartsAreDeleted ==
  ASSUME ChangeAssumption, ChangeInv, DeleteRestarts
  PROVE  ChangeInv'
<1> USE DEF ChangeInv
<1> DEFINE new == [at |-> "rows", rows |-> {r \in Changes : restarts[r] # "absent"},
                   entries |-> {}, begun |-> wipe.begun + 1]
<1>1. wipe' = new /\ wipe.begun < MaxWipes
      /\ UNCHANGED <<overrides, restarts, trail, change, effects, wiped, amid>>
  BY DEF DeleteRestarts
<1>2. wipe.begun + 1 \in 0 .. MaxWipes
  <2>1. wipe.begun \in 0 .. MaxWipes  BY DEF ChangeTypeOK, Wipe
  <2> QED  BY <1>1, <2>1 DEF ChangeAssumption
<1>3. new \in Wipe  BY <1>2 DEF Wipe
<1>4. /\ new.at = "rows" /\ new.entries = {}
      /\ \A r \in Changes : r \in new.rows <=> restarts[r] # "absent"
  OBVIOUS
<1> HIDE DEF new
<1>5. ChangeTypeOK'  BY <1>1, <1>3 DEF ChangeTypeOK
<1>6. ASSUME NEW r \in Changes  PROVE ChangeSound(r)' /\ WipeSound(r)'
  <2>1. ChangeSound(r)  OBVIOUS
  <2>2. ChangeSound(r)'
    <3>1. \A result : Audited(r, result)' <=> Audited(r, result)  BY <1>1 DEF Audited
    <3>2. Unlogged(r)' <=> Unlogged(r)  BY <1>1 DEF Unlogged
    <3> QED  BY <1>1, <2>1, <3>1, <3>2 DEF ChangeSound
  <2>3. change[r].kind = "restart" /\ r \notin new.rows => \A row \in trail : row.change # r
    BY <1>4, <2>1 DEF ChangeSound
  <2>4. WipeSound(r)'  BY <1>1, <1>4, <2>3 DEF WipeSound
  <2> QED  BY <2>2, <2>4
<1>7. (\A key \in ConfigKeys : ValueAsked(key))'  BY <1>1, OverridesKept
<1> QED  BY <1>1, <1>4, <1>5, <1>6, <1>7

\* The second finds the entries of those, and of restarts begun meanwhile.
LEMMA TrailIsDeleted ==
  ASSUME ChangeInv, DeleteTrail
  PROVE  ChangeInv'
<1> USE DEF ChangeInv
<1> DEFINE new == [wipe EXCEPT !.at = "trail", !.entries = trail]
<1>1. wipe' = new /\ wipe.at = "rows"
      /\ UNCHANGED <<overrides, restarts, trail, change, effects, wiped, amid>>
  BY DEF DeleteTrail
<1>2. wipe \in Wipe  BY DEF ChangeTypeOK
<1>3. new \in Wipe
  <2>1. trail \in SUBSET ChangeAudit  BY DEF ChangeTypeOK
  <2> QED  BY <1>2, <2>1, Zenon DEF Wipe
<1>4. new.at = "trail" /\ new.entries = trail /\ new.rows = wipe.rows  BY <1>2 DEF Wipe
<1> HIDE DEF new
<1>5. ChangeTypeOK'  BY <1>1, <1>3 DEF ChangeTypeOK
<1>6. ASSUME NEW r \in Changes  PROVE ChangeSound(r)' /\ WipeSound(r)'
  <2>1. ChangeSound(r) /\ WipeSound(r)  OBVIOUS
  <2>2. ChangeSound(r)'
    <3>1. \A result : Audited(r, result)' <=> Audited(r, result)  BY <1>1 DEF Audited
    <3>2. Unlogged(r)' <=> Unlogged(r)  BY <1>1 DEF Unlogged
    <3> QED  BY <1>1, <2>1, <3>1, <3>2 DEF ChangeSound
  <2>3. WipeSound(r)'  BY <1>1, <1>4, <2>1 DEF WipeSound
  <2> QED  BY <2>2, <2>3
<1>7. (\A key \in ConfigKeys : ValueAsked(key))'  BY <1>1, OverridesKept
<1> QED  BY <1>1, <1>4, <1>5, <1>6, <1>7

\* The commit moves the entries from the log to its history.
LEMMA WipeIsCommitted ==
  ASSUME ChangeAssumption, ChangeInv, CommitWipe
  PROVE  ChangeInv'
<1> USE DEF ChangeInv
<1>1. /\ wipe.at = "trail"
      /\ restarts' = [r \in Changes |-> IF r \in wipe.rows THEN "absent" ELSE restarts[r]]
      /\ trail' = trail \ wipe.entries /\ wiped' = wiped \cup wipe.entries
      /\ wipe' = NoWipe(wipe.begun)
      /\ UNCHANGED <<overrides, change, effects, amid>>
  BY DEF CommitWipe
<1>2. wipe'.at = "none" /\ wipe'.rows = {} /\ wipe'.entries = {} /\ wipe' \in Wipe
  <2>1. wipe.begun \in 0 .. MaxWipes  BY DEF ChangeTypeOK, Wipe
  <2> QED  BY <1>1, <2>1, NoWipeFacts
<1>3. wipe.entries \subseteq trail /\ (trail \cup wiped)' = trail \cup wiped
  BY <1>1
<1>4. ChangeTypeOK'  BY <1>1, <1>2, <1>3 DEF ChangeTypeOK
<1>5. ASSUME NEW r \in Changes  PROVE ChangeSound(r)' /\ WipeSound(r)'
  <2>1. ChangeSound(r) /\ WipeSound(r)  OBVIOUS
  <2>2. /\ \A result : Audited(r, result)' <=> Audited(r, result)
        /\ Unlogged(r)' <=> Unlogged(r)
    BY <1>3 DEF Audited, Unlogged
  <2>3. restarts'[r] = IF r \in wipe.rows THEN "absent" ELSE restarts[r]  BY <1>1
  <2>4. restarts'[r] # "absent" => r \in amid \/ \A row \in wiped' : row.change # r
    BY <1>1, <2>1, <2>3 DEF ChangeSound, WipeSound
  <2>5. change[r].kind = "restart" /\ restarts'[r] = "absent" => \A row \in trail' : row.change # r
    BY <1>1, <2>1, <2>3 DEF ChangeSound, WipeSound
  <2>6. ChangeSound(r)'  BY <1>1, <1>3, <2>1, <2>2, <2>3, <2>4, <2>5 DEF ChangeSound
  <2>7. WipeSound(r)'  BY <1>2 DEF WipeSound
  <2> QED  BY <2>6, <2>7
<1>6. (\A key \in ConfigKeys : ValueAsked(key))'  BY <1>1, OverridesKept
<1> QED  BY <1>2, <1>4, <1>5, <1>6

LEMMA WipeIsUndone ==
  ASSUME ChangeAssumption, ChangeInv, UndoWipe
  PROVE  ChangeInv'
<1> USE DEF ChangeInv
<1>1. wipe' = NoWipe(wipe.begun)
      /\ UNCHANGED <<overrides, restarts, trail, change, effects, wiped, amid>>
  BY DEF UndoWipe
<1>2. wipe'.at = "none" /\ wipe'.rows = {} /\ wipe'.entries = {} /\ wipe' \in Wipe
  <2>1. wipe.begun \in 0 .. MaxWipes  BY DEF ChangeTypeOK, Wipe
  <2> QED  BY <1>1, <2>1, NoWipeFacts
<1>3. ChangeTypeOK'  BY <1>1, <1>2 DEF ChangeTypeOK
<1>4. ASSUME NEW r \in Changes  PROVE ChangeSound(r)' /\ WipeSound(r)'
  <2>1. ChangeSound(r)  OBVIOUS
  <2>2. /\ \A result : Audited(r, result)' <=> Audited(r, result)
        /\ Unlogged(r)' <=> Unlogged(r)
    BY <1>1 DEF Audited, Unlogged
  <2>3. ChangeSound(r)'  BY <1>1, <2>1, <2>2 DEF ChangeSound
  <2>4. WipeSound(r)'  BY <1>2 DEF WipeSound
  <2> QED  BY <2>3, <2>4
<1>5. (\A key \in ConfigKeys : ValueAsked(key))'  BY <1>1, OverridesKept
<1> QED  BY <1>2, <1>3, <1>4, <1>5

LEMMA ChangeInductive ==
  ASSUME ChangeAssumption, ChangeInv, [ChangeNext]_changeVars
  PROVE  ChangeInv'
<1>1. CASE ChangeNext
  <2>1. CASE DeleteRestarts \/ UndoWipe \/ GoOnWiping
    BY <2>1, RestartsAreDeleted, WipeIsUndone, TrailIsDeleted, WipeIsCommitted DEF GoOnWiping
  <2>2. ASSUME NEW r \in Changes,
           \/ \E asked \in ConfigAsks[r], confirm \in BOOLEAN :
                BeginConfig(r, asked[1], asked[2], confirm)
           \/ \E driver \in Drivers : BeginRestart(r, driver)
        PROVE ChangeInv'
    BY <2>2, ChangeBegins
  <2>3. ASSUME NEW r \in Changes, ReadConfigFails(r) \/ IntentFails(r)  PROVE ChangeInv'
    BY <2>3, MovedChange DEF ReadConfigFails, IntentFails
  <2>4. ASSUME NEW r \in Changes, LoseChange(r)  PROVE ChangeInv'
    BY <2>4, MovedChange DEF LoseChange
  <2>5. ASSUME NEW r \in Changes, OutcomeLost(r)  PROVE ChangeInv'
    <3> DEFINE label == IF change[r].kind = "config" /\ change[r].outcome = "success"
                        THEN "answered" ELSE "error"
    <3>1. /\ change[r].pc = "recording" /\ Goto(r, label)
          /\ UNCHANGED <<overrides, restarts, trail, wipe, effects, wiped, amid>>
      BY <2>5 DEF OutcomeLost
    <3>2. label \in {"answered", "error"}  OBVIOUS
    <3>3. label = "answered" => r \in effects  BY <3>1 DEF ChangeInv, ChangeSound
    <3> HIDE DEF label
    <3> QED  BY <3>1, <3>2, <3>3, MovedChange
  <2>6. ASSUME NEW r \in Changes, ServeChange(r)  PROVE ChangeInv'
    BY <2>6, IntentIsRecorded, EffectTakesPlace, OutcomeIsRecorded DEF ServeChange
  <2> QED  BY <1>1, <2>1, <2>2, <2>3, <2>4, <2>5, <2>6 DEF ChangeNext
<1>2. CASE UNCHANGED changeVars
  <2>1. UNCHANGED <<overrides, restarts, trail, change, wipe, effects, wiped, amid>>
    BY <1>2 DEF changeVars
  <2>2. ChangeTypeOK'  BY <2>1 DEF ChangeInv, ChangeTypeOK
  <2>3. ASSUME NEW r \in Changes  PROVE ChangeSound(r)' /\ WipeSound(r)'
    BY <2>1, OtherChange DEF ChangeInv
  <2>4. (\A key \in ConfigKeys : ValueAsked(key))'  BY <2>1, OverridesKept DEF ChangeInv
  <2> QED  BY <2>1, <2>2, <2>3, <2>4 DEF ChangeInv
<1> QED  BY <1>1, <1>2

LEMMA ChangeInvAccounts ==
  ASSUME ChangeInv
  PROVE  ChangesAccounted
<1> USE DEF ChangeInv
<1>1. effects \subseteq Changes  BY DEF ChangeTypeOK
<1>2. IntentFirst  BY <1>1 DEF ChangeSound, IntentFirst
<1>3. SuccessTookPlace  BY DEF ChangeSound, SuccessTookPlace
<1>4. RowsMatchTrail  BY DEF ChangeSound, RowsMatchTrail
<1>5. ValuesExplained
  <2> SUFFICES ASSUME NEW key \in ConfigKeys, overrides[key] # Default
               PROVE  \E r \in effects, row \in trail \cup wiped :
                        /\ change[r].key = key /\ change[r].value = overrides[key]
                        /\ row.change = r /\ row.result = "requested"
                        /\ row.after = overrides[key]
    BY DEF ValuesExplained
  <2>1. PICK r \in effects : change[r].key = key /\ change[r].value = overrides[key]
    BY DEF ValueAsked
  <2>2. ChangeSound(r)  BY <1>1
  <2>3. Audited(r, "requested")  BY <2>2 DEF ChangeSound
  <2>4. \A row \in trail \cup wiped : row.change = r => row.after = overrides[key]
    BY <2>1, <2>2 DEF ChangeSound
  <2> QED  BY <2>1, <2>3, <2>4 DEF Audited
<1> QED  BY <1>2, <1>3, <1>4, <1>5 DEF ChangesAccounted

-----------------------------------------------------------------------------
(* Users (Accounts).                                                       *)

RowWrites == {"update", "delete", "ban", "unban"}

\* The row is the seed's or that of a request that has committed.
Finished(row) == row = Seeded \/ (row \in UserRequests /\ ask[row].pc = "done")

\* What an operation of r makes of a row.
Rewrites(op, r, old, new) ==
  IF op = "delete" THEN new = NoUser
  ELSE /\ new.row = old.row
       /\ new.banned = (op = "ban" \/ (op = "update" /\ old.banned))
       /\ new.profile = IF op = "update" THEN r ELSE old.profile

\* A row that is held has been inserted by its holder, in place of none, or is
\* the committed one, or that inserted one, as the operation writes it.
HeldSound(r, u) ==
  Mine(r, u) =>
    /\ ask[r].pc \in {"reading", "writing", "committing"}
    /\ \/ /\ users[u].row = NoRequest
          /\ pending[u].user = NewUser(r)
          /\ u = AdminId \/ (ask[r].pc = "committing" /\ ask[r].op = "create" /\ u = ask[r].id)
       \/ /\ ask[r].pc = "committing" /\ ask[r].op \in RowWrites /\ u = ask[r].id
          /\ \E base \in UserRow :
               /\ Rewrites(ask[r].op, r, base, pending[u].user)
               /\ base.row = ask[r].read.row
               /\ \/ base = users[u]
                  \/ base = NewUser(r) /\ users[u].row = NoRequest /\ u = AdminId

\* What a request has read still holds of the row it names, or it was told so
\* by the log; and a ban, when it commits, is there or has been there.
ReadSound(r) ==
  LET u == ask[r].id
      row == ask[r].read
  IN  /\ ask[r].pc = "writing" =>
           ask[r].op \in RowWrites /\ (Mine(r, u) => ~row.banned)
      /\ ask[r].pc \in {"writing", "committing"} /\ ask[r].op \in RowWrites =>
           /\ row.row # NoRequest /\ (row.row = r \/ Finished(row.row))
           /\ row.banned /\ users[u].row = row.row /\ Entries("unban", u) = {} => users[u].banned
      /\ ask[r].pc = "committing" /\ ask[r].op = "create" => row.row = r /\ Mine(r, u)
      /\ ask[r].pc = "committing" /\ ask[r].op = "ban" =>
           IF Mine(r, u) THEN pending[u].user.banned ELSE row.banned

\* Each request adds one row to the log, when it commits.
LogSound ==
  /\ IsFiniteSet(Logged)
  /\ \A row \in Logged : ask[row.by].pc = "done" /\ Finished(row.row)

RowsFinished == \A u \in UserIds : users[u].row # NoRequest => Finished(users[u].row)

AccountInv ==
  /\ AccountTypeOK
  /\ \A r \in UserRequests, u \in UserIds : HeldSound(r, u)
  /\ \A r \in UserRequests : ReadSound(r)
  /\ LogSound
  /\ RowsFinished
  /\ RowsAccounted
  /\ BansStick
  /\ ProfilesAccounted

UserPcs == {"idle", "ensuring", "adding", "reading", "writing", "committing",
            "done", "refused", "error"}

\* What a move of one request leaves alone.
LEMMA ProceedFacts ==
  ASSUME AccountTypeOK, NEW r \in UserRequests, NEW label \in UserPcs, Proceed(r, label)
  PROVE  /\ ask' \in [UserRequests -> UserRequest]
         /\ ask'[r].pc = label
         /\ ask'[r].op = ask[r].op
         /\ ask'[r].id = ask[r].id
         /\ ask'[r].read = ask[r].read
         /\ \A o \in UserRequests \ {r} : ask'[o] = ask[o]
<1>1. ask[r] \in UserRequest  BY DEF AccountTypeOK
<1>2. [ask[r] EXCEPT !.pc = label] \in UserRequest  BY <1>1, Zenon DEF UserRequest, UserPcs
<1>3. ask' = [ask EXCEPT ![r] = [ask[r] EXCEPT !.pc = label]]  BY DEF Proceed
<1>4. ask'[r] = [ask[r] EXCEPT !.pc = label]  BY <1>3 DEF AccountTypeOK
<1>5. ask'[r].pc = label /\ ask'[r].op = ask[r].op /\ ask'[r].id = ask[r].id
      /\ ask'[r].read = ask[r].read
  BY <1>1, <1>4 DEF UserRequest
<1> QED  BY <1>2, <1>3, <1>5 DEF AccountTypeOK

\* The two steps that also load a row.
LEMMA LoadFacts ==
  ASSUME AccountTypeOK, NEW r \in UserRequests, NEW label \in UserPcs, NEW row \in UserRow,
         ask' = [ask EXCEPT ![r].pc = label, ![r].read = row]
  PROVE  /\ ask' \in [UserRequests -> UserRequest]
         /\ ask'[r].pc = label
         /\ ask'[r].op = ask[r].op
         /\ ask'[r].id = ask[r].id
         /\ ask'[r].read = row
         /\ \A o \in UserRequests \ {r} : ask'[o] = ask[o]
<1> DEFINE new == [ask[r] EXCEPT !.pc = label, !.read = row]
<1>1. ask[r] \in UserRequest  BY DEF AccountTypeOK
<1>2. new \in UserRequest  BY <1>1, Zenon DEF UserRequest, UserPcs
<1>3. new.pc = label /\ new.op = ask[r].op /\ new.id = ask[r].id /\ new.read = row
  BY <1>1 DEF UserRequest
<1>4. ask' = [ask EXCEPT ![r] = new]  OBVIOUS
<1> HIDE DEF new
<1> QED  BY <1>2, <1>3, <1>4 DEF AccountTypeOK

LEMMA RowFacts ==
  ASSUME AccountAssumption
  PROVE  /\ NoUser \in UserRow /\ NoUser.row = NoRequest /\ NoUser.profile = NoRequest
         /\ NoUser.banned = FALSE
         /\ \A r \in UserRequests \cup {Seeded} :
              /\ NewUser(r) \in UserRow /\ NewUser(r).row = r /\ NewUser(r).profile = r
              /\ NewUser(r).banned = FALSE
              /\ r # NoRequest
BY DEF AccountAssumption, NoUser, NewUser, UserRow

LEMMA WrittenFacts ==
  ASSUME AccountAssumption, NEW r \in UserRequests, ask[r].op \in RowWrites, NEW user \in UserRow
  PROVE  Written(r, user) \in UserRow /\ Rewrites(ask[r].op, r, user, Written(r, user))
<1>1. CASE ask[r].op = "delete"
  BY <1>1, RowFacts DEF Written, Rewrites
<1>2. CASE ask[r].op = "update"
  <2> DEFINE new == [user EXCEPT !.profile = r]
  <2>1. Written(r, user) = new  BY <1>2 DEF Written
  <2>2. new \in UserRow  BY Zenon DEF UserRow
  <2>3. new.row = user.row /\ new.banned = user.banned /\ new.profile = r  BY DEF UserRow
  <2>4. user.banned \in BOOLEAN  BY DEF UserRow
  <2> HIDE DEF new
  <2> QED  BY <1>2, <2>1, <2>2, <2>3, <2>4 DEF Rewrites
<1>3. CASE ask[r].op = "ban"
  <2> DEFINE new == [user EXCEPT !.banned = TRUE]
  <2>1. Written(r, user) = new  BY <1>3 DEF Written
  <2>2. new \in UserRow  BY Zenon DEF UserRow
  <2>3. new.row = user.row /\ new.banned = TRUE /\ new.profile = user.profile  BY DEF UserRow
  <2> HIDE DEF new
  <2> QED  BY <1>3, <2>1, <2>2, <2>3 DEF Rewrites
<1>4. CASE ask[r].op = "unban"
  <2> DEFINE new == [user EXCEPT !.banned = FALSE]
  <2>1. Written(r, user) = new  BY <1>4 DEF Written
  <2>2. new \in UserRow  BY Zenon DEF UserRow
  <2>3. new.row = user.row /\ new.banned = FALSE /\ new.profile = user.profile  BY DEF UserRow
  <2> HIDE DEF new
  <2> QED  BY <1>4, <2>1, <2>2, <2>3 DEF Rewrites
<1> QED  BY <1>1, <1>2, <1>3, <1>4 DEF RowWrites

\* A step that leaves the log alone.
LEMMA LogKept ==
  ASSUME UNCHANGED accountLog
  PROVE  /\ UNCHANGED <<log, erasing, erased>> /\ Logged' = Logged
         /\ \A op, u : Entries(op, u)' = Entries(op, u)
BY DEF accountLog, Logged, Entries

LEMMA LoggedTypes ==
  ASSUME AccountTypeOK
  PROVE  Logged \subseteq UserEntry /\ \A row \in Logged : row.by \in UserRequests
BY DEF AccountTypeOK, Logged, UserEntry

LEMMA AccountInitial ==
  ASSUME AccountAssumption, AccountInit
  PROVE  AccountInv
<1> DEFINE idle == [pc |-> "idle", op |-> "list", id |-> AdminId, read |-> NoUser]
           free == [owner |-> NoRequest, user |-> NoUser]
<1>1. idle \in UserRequest /\ idle.pc = "idle"
  BY RowFacts DEF AccountAssumption, UserRequest, UserOperations
<1>2. free \in [owner : UserRequests \cup {NoRequest}, user : UserRow] /\ free.owner = NoRequest
  BY RowFacts
<1>3. ask = [r \in UserRequests |-> idle] /\ pending = [u \in UserIds |-> free]
      /\ log = {} /\ erasing = {} /\ erased = {} /\ Logged = {}
  BY DEF AccountInit, Logged
<1> HIDE DEF idle, free
<1>4. users \in [UserIds -> UserRow]
      /\ \A u \in UserIds : users[u] = IF u \in SeededUsers THEN NewUser(Seeded) ELSE NoUser
  BY RowFacts DEF AccountInit
<1>5. AccountTypeOK  BY <1>1, <1>2, <1>3, <1>4 DEF AccountTypeOK
<1>6. \A r \in UserRequests, u \in UserIds : HeldSound(r, u)
  BY <1>2, <1>3 DEF HeldSound, Mine, AccountAssumption
<1>7. \A r \in UserRequests : ReadSound(r)  BY <1>1, <1>3 DEF ReadSound
<1>8. LogSound  BY <1>3, FS_EmptySet DEF LogSound
<1>9. RowsFinished  BY <1>4, RowFacts DEF RowsFinished, Finished
<1>10. \A op, u : Entries(op, u) = {} /\ Cardinality(Entries(op, u)) = 0
  BY <1>3, FS_EmptySet DEF Entries
<1>11. RowsAccounted
  <2>1. ASSUME NEW u \in UserIds  PROVE Here(u) = AtStart(u) /\ AtStart(u) \in {0, 1}
    <3>1. CASE u \in SeededUsers  BY <1>4, <3>1, RowFacts DEF Here, AtStart
    <3>2. CASE u \notin SeededUsers  BY <1>4, <3>2, RowFacts DEF Here, AtStart
    <3> QED  BY <3>1, <3>2
  <2> QED  BY <1>10, <2>1 DEF RowsAccounted
<1>12. BansStick  BY <1>4, <1>10, RowFacts DEF BansStick
<1>13. ProfilesAccounted
  <2>1. ASSUME NEW u \in UserIds  PROVE users[u].profile = users[u].row
    <3>1. CASE u \in SeededUsers
      <4>1. NewUser(Seeded).profile = NewUser(Seeded).row  BY RowFacts
      <4> QED  BY <1>4, <3>1, <4>1
    <3>2. CASE u \notin SeededUsers  BY <1>4, <3>2, RowFacts
    <3> QED  BY <3>1, <3>2
  <2> QED  BY <2>1 DEF ProfilesAccounted
<1> QED  BY <1>5, <1>6, <1>7, <1>8, <1>9, <1>11, <1>12, <1>13 DEF AccountInv

\* A request goes on without a commit: only what it holds and has read is to
\* be looked at.
LEMMA NothingCommitted ==
  ASSUME AccountInv, AccountTypeOK', NEW r \in UserRequests, ask[r].pc # "done",
         UNCHANGED <<users, accountLog>>,
         \A o \in UserRequests \ {r} : ask'[o] = ask[o],
         \A o \in UserRequests \ {r}, u \in UserIds :
           (Mine(o, u)' <=> Mine(o, u)) /\ (Mine(o, u) => pending'[u] = pending[u]),
         \A u \in UserIds : HeldSound(r, u)',
         ReadSound(r)'
  PROVE  AccountInv'
<1> USE DEF AccountInv
<1>1. \A row : Finished(row) => Finished(row)'  BY DEF Finished
<1>2. Logged' = Logged /\ \A op, u : Entries(op, u)' = Entries(op, u)  BY LogKept
<1>3. ASSUME NEW o \in UserRequests \ {r}, NEW u \in UserIds  PROVE HeldSound(o, u)'
  <2>1. HeldSound(o, u) /\ ask'[o] = ask[o] /\ users' = users  OBVIOUS
  <2>2. (Mine(o, u)' <=> Mine(o, u)) /\ (Mine(o, u) => pending'[u] = pending[u])  OBVIOUS
  <2> QED  BY <2>1, <2>2 DEF HeldSound
<1>4. ASSUME NEW o \in UserRequests \ {r}  PROVE ReadSound(o)'
  <2>1. PICK u \in UserIds : u = ask[o].id  BY DEF AccountTypeOK, UserRequest
  <2>2. (Mine(o, u)' <=> Mine(o, u)) /\ (Mine(o, u) => pending'[u] = pending[u])  OBVIOUS
  <2>3. ReadSound(o) /\ ask'[o] = ask[o] /\ users' = users /\ u = ask'[o].id  BY <2>1
  <2> QED  BY <1>1, <1>2, <2>1, <2>2, <2>3 DEF ReadSound
<1>5. LogSound'
  <2>1. \A row \in Logged : row.by \in UserRequests  BY LoggedTypes
  <2> QED  BY <1>1, <1>2, <2>1 DEF LogSound
<1>6. RowsFinished'  BY <1>1 DEF RowsFinished
<1>7. RowsAccounted' /\ BansStick' /\ ProfilesAccounted'
  <2>1. RowsAccounted'  BY <1>2 DEF RowsAccounted, Here
  <2>2. BansStick'  BY <1>2 DEF BansStick
  <2>3. ProfilesAccounted'  BY <1>2 DEF ProfilesAccounted
  <2> QED  BY <2>1, <2>2, <2>3
<1> QED  BY <1>3, <1>4, <1>5, <1>6, <1>7

\* A request that moves without touching a row.
LEMMA MovedUser ==
  ASSUME AccountInv, NEW r \in UserRequests, ask[r].pc # "done",
         UNCHANGED <<users, pending, accountLog>>,
         ask' \in [UserRequests -> UserRequest],
         \A o \in UserRequests \ {r} : ask'[o] = ask[o],
         \A u \in UserIds : HeldSound(r, u)', ReadSound(r)'
  PROVE  AccountInv'
<1> USE DEF AccountInv
<1>1. AccountTypeOK'  BY LogKept DEF AccountTypeOK
<1>2. \A o \in UserRequests \ {r}, u \in UserIds :
        (Mine(o, u)' <=> Mine(o, u)) /\ (Mine(o, u) => pending'[u] = pending[u])
  BY DEF Mine
<1> QED  BY <1>1, <1>2, NothingCommitted

LEMMA UserAsks ==
  ASSUME AccountAssumption, AccountInv, NEW r \in UserRequests,
         \E op \in UserOps[r] : ReceiveUser(r, op[1], op[2])
  PROVE  AccountInv'
<1> PICK op \in UserOps[r] : ReceiveUser(r, op[1], op[2])  OBVIOUS
<1> DEFINE new == [pc |-> "ensuring", op |-> op[1], id |-> op[2], read |-> NoUser]
<1>1. op[1] \in UserOperations /\ op[2] \in UserIds  BY DEF AccountAssumption
<1>2. new \in UserRequest /\ new.pc = "ensuring"  BY <1>1, RowFacts DEF UserRequest
<1>3. ask[r].pc = "idle" /\ ask' = [ask EXCEPT ![r] = new] /\ UNCHANGED <<users, pending, accountLog>>
  BY DEF ReceiveUser
<1> HIDE DEF new
<1>4. /\ ask' \in [UserRequests -> UserRequest] /\ ask'[r].pc = "ensuring"
      /\ \A o \in UserRequests \ {r} : ask'[o] = ask[o]
  BY <1>2, <1>3 DEF AccountInv, AccountTypeOK
<1>5. ASSUME NEW u \in UserIds  PROVE HeldSound(r, u)'
  <2>1. ~Mine(r, u)  BY <1>3 DEF AccountInv, HeldSound
  <2> QED  BY <1>3, <2>1 DEF HeldSound, Mine
<1>6. ReadSound(r)'  BY <1>4 DEF ReadSound
<1> QED  BY <1>3, <1>4, <1>5, <1>6, MovedUser

LEMMA AdminIsLookedFor ==
  ASSUME AccountInv, NEW r \in UserRequests, LookForAdmin(r)
  PROVE  AccountInv'
<1> USE DEF AccountInv
<1> DEFINE label == IF users[AdminId].row = NoRequest THEN "adding" ELSE "reading"
<1>1. label \in {"adding", "reading"}  OBVIOUS
<1>2. ask[r].pc = "ensuring" /\ Proceed(r, label) /\ UNCHANGED <<users, pending, accountLog>>
  BY DEF LookForAdmin
<1> HIDE DEF label
<1>3. /\ ask' \in [UserRequests -> UserRequest] /\ ask'[r].pc = label
      /\ \A o \in UserRequests \ {r} : ask'[o] = ask[o]
  BY <1>1, <1>2, ProceedFacts DEF UserPcs
<1>4. ASSUME NEW u \in UserIds  PROVE HeldSound(r, u)'
  <2>1. ~Mine(r, u)  BY <1>2 DEF HeldSound
  <2> QED  BY <1>2, <2>1 DEF HeldSound, Mine
<1>5. ReadSound(r)'  BY <1>1, <1>3 DEF ReadSound
<1> QED  BY <1>2, <1>3, <1>4, <1>5, MovedUser

LEMMA UserIsRead ==
  ASSUME AccountAssumption, AccountInv, NEW r \in UserRequests, ReadUser(r)
  PROVE  AccountInv'
<1> USE DEF AccountInv
<1>1. PICK u \in UserIds : u = ask[r].id  BY DEF AccountTypeOK, UserRequest
<1> PICK row \in UserRow : row = Current(r, u)  BY DEF Current, AccountTypeOK
<1> DEFINE label == IF ask[r].op = "get" THEN "committing" ELSE "writing"
<1>2. label \in {"committing", "writing"} /\ (label = "committing" => ask[r].op = "get")
      /\ (label = "writing" => ask[r].op # "get")
  OBVIOUS
<1>4. /\ ask[r].pc = "reading" /\ ask[r].op \notin {"create", "list"} /\ row.row # NoRequest
      /\ ask' = [ask EXCEPT ![r].pc = label, ![r].read = row]
      /\ UNCHANGED <<users, pending, accountLog>>
  BY <1>1 DEF ReadUser
<1>5. /\ Mine(r, u) => row = NewUser(r) /\ row.row = r /\ ~row.banned
      /\ ~Mine(r, u) => row = users[u]
  <2>1. HeldSound(r, u)  OBVIOUS
  <2>2. NewUser(r).row = r /\ NewUser(r).banned = FALSE  BY RowFacts
  <2>3. Mine(r, u) => row = NewUser(r)  BY <1>4, <2>1 DEF HeldSound, Current
  <2> QED  BY <2>2, <2>3 DEF Current
<1> HIDE DEF label
<1>6. /\ ask' \in [UserRequests -> UserRequest] /\ ask'[r].pc = label
      /\ ask'[r].op = ask[r].op /\ ask'[r].id = u /\ ask'[r].read = row
      /\ \A o \in UserRequests \ {r} : ask'[o] = ask[o]
  BY <1>1, <1>2, <1>4, LoadFacts DEF UserPcs
<1>7. ASSUME NEW v \in UserIds  PROVE HeldSound(r, v)'
  <2>1. HeldSound(r, v)  OBVIOUS
  <2>2. Mine(r, v)' <=> Mine(r, v)  BY <1>4 DEF Mine
  <2> QED  BY <1>2, <1>4, <1>6, <2>1, <2>2 DEF HeldSound
<1>8. ReadSound(r)'
  <2>1. Mine(r, u)' <=> Mine(r, u)  BY <1>4 DEF Mine
  <2>2. row.row = r \/ Finished(row.row)'
    <3>1. CASE Mine(r, u)  BY <1>5, <3>1
    <3>2. CASE ~Mine(r, u)
      <4>1. Finished(row.row)  BY <1>4, <1>5, <3>2 DEF RowsFinished
      <4>2. row.row # r  BY <1>4, <4>1 DEF Finished, AccountAssumption
      <4> QED  BY <1>6, <4>1, <4>2 DEF Finished
    <3> QED  BY <3>1, <3>2
  <2>3. row.banned => ~Mine(r, u) /\ users[u].banned  BY <1>5
  <2>4. ask[r].op # "get" => ask[r].op \in RowWrites
    BY <1>4 DEF AccountTypeOK, UserRequest, UserOperations, RowWrites
  <2> QED  BY <1>2, <1>4, <1>6, <2>1, <2>2, <2>3, <2>4 DEF ReadSound, RowWrites
<1> QED  BY <1>4, <1>6, <1>7, <1>8, MovedUser

\* The steps that move a request on to its commit with what it has.
LEMMA CommitIsNext ==
  ASSUME AccountAssumption, AccountInv, NEW r \in UserRequests,
         \/ ListUsers(r)
         \/ SkipWrite(r)
         \/ /\ ask[r].pc = "writing" /\ ask[r].op = "delete"
            /\ Proceed(r, "committing") /\ UNCHANGED <<users, pending, accountLog>>
  PROVE  AccountInv'
<1> USE DEF AccountInv
<1>1. /\ Proceed(r, "committing") /\ UNCHANGED <<users, pending, accountLog>>
      /\ \/ ask[r].pc = "reading" /\ ask[r].op = "list"
         \/ ask[r].pc = "writing" /\ Unchanged(r)
         \/ ask[r].pc = "writing" /\ ask[r].op = "delete"
  BY DEF ListUsers, SkipWrite
<1>2. /\ ask' \in [UserRequests -> UserRequest] /\ ask'[r].pc = "committing"
      /\ ask'[r].op = ask[r].op /\ ask'[r].id = ask[r].id /\ ask'[r].read = ask[r].read
      /\ \A o \in UserRequests \ {r} : ask'[o] = ask[o]
  BY <1>1, ProceedFacts DEF UserPcs
<1>3. ASSUME NEW v \in UserIds  PROVE HeldSound(r, v)'
  <2>1. HeldSound(r, v)  OBVIOUS
  <2>2. Mine(r, v)' <=> Mine(r, v)  BY <1>1 DEF Mine
  <2> QED  BY <1>1, <1>2, <2>1, <2>2 DEF HeldSound
<1>4. ReadSound(r)'
  <2>1. PICK u \in UserIds : u = ask[r].id  BY DEF AccountTypeOK, UserRequest
  <2>2. Mine(r, u)' <=> Mine(r, u)  BY <1>1 DEF Mine
  <2>3. ReadSound(r)  OBVIOUS
  <2>4. CASE ask[r].pc = "reading" /\ ask[r].op = "list"
    BY <1>2, <2>4 DEF ReadSound, RowWrites
  <2>5. CASE ask[r].pc = "writing"
    <3>1. ask[r].op \in RowWrites /\ (Mine(r, u) => ~ask[r].read.banned)
      BY <2>1, <2>3, <2>5 DEF ReadSound
    <3>2. ask[r].read.row = r \/ Finished(ask[r].read.row)'
      <4>1. CASE ask[r].read.row = r  BY <4>1
      <4>2. CASE ask[r].read.row # r
        BY <1>2, <2>3, <2>5, <3>1, <4>2 DEF ReadSound, Finished
      <4> QED  BY <4>1, <4>2
    <3>3. Entries("unban", u)' = Entries("unban", u)  BY <1>1, LogKept
    <3>4. ask[r].op = "ban" => ask[r].read.banned  BY <1>1, <2>5 DEF Unchanged
    <3>5. ask'[r].read = ask[r].read /\ ask'[r].id = u  BY <1>2, <2>1
    <3> QED  BY <1>1, <1>2, <2>1, <2>2, <2>3, <2>5, <3>1, <3>2, <3>3, <3>4, <3>5
             DEF ReadSound, RowWrites
  <2> QED  BY <1>1, <2>4, <2>5
<1> QED  BY <1>1, <1>2, <1>3, <1>4, MovedUser

LEMMA UserFails ==
  ASSUME AccountAssumption, AccountInv, NEW r \in UserRequests,
         ask[r].pc # "done", NEW label \in {"refused", "error"}, Fails(r, label)
  PROVE  AccountInv'
<1> USE DEF AccountInv
<1>1. pending' = Unheld(r) /\ Proceed(r, label) /\ UNCHANGED <<users, accountLog>>  BY DEF Fails
<1>2. /\ ask' \in [UserRequests -> UserRequest] /\ ask'[r].pc = label
      /\ \A o \in UserRequests \ {r} : ask'[o] = ask[o]
  BY <1>1, ProceedFacts DEF UserPcs
<1>3. \A u \in UserIds : pending'[u] = IF Mine(r, u) THEN [owner |-> NoRequest, user |-> NoUser]
                                       ELSE pending[u]
  BY <1>1 DEF Unheld
<1>4. AccountTypeOK'
  <2>1. pending' \in [UserIds -> [owner : UserRequests \cup {NoRequest}, user : UserRow]]
    BY <1>1, RowFacts DEF Unheld, AccountTypeOK
  <2> QED  BY <1>1, <1>2, <2>1, LogKept DEF AccountTypeOK
<1>5. \A u \in UserIds : ~Mine(r, u)'  BY <1>3 DEF Mine, AccountAssumption
<1>6. \A o \in UserRequests \ {r}, u \in UserIds :
        (Mine(o, u)' <=> Mine(o, u)) /\ (Mine(o, u) => pending'[u] = pending[u])
  BY <1>3 DEF Mine, AccountAssumption
<1>7. \A u \in UserIds : HeldSound(r, u)'  BY <1>5 DEF HeldSound
<1>8. ReadSound(r)'  BY <1>2 DEF ReadSound
<1> QED  BY <1>1, <1>2, <1>4, <1>6, <1>7, <1>8, NothingCommitted

LEMMA HoldFacts ==
  ASSUME AccountTypeOK, NEW r \in UserRequests, NEW u \in UserIds, NEW user \in UserRow,
         Hold(r, u, user)
  PROVE  /\ pending' \in [UserIds -> [owner : UserRequests \cup {NoRequest}, user : UserRow]]
         /\ pending'[u].owner = r /\ pending'[u].user = user
         /\ \A v \in UserIds \ {u} : pending'[v] = pending[v]
<1> DEFINE new == [owner |-> r, user |-> user]
<1>1. new \in [owner : UserRequests \cup {NoRequest}, user : UserRow]
      /\ new.owner = r /\ new.user = user
  OBVIOUS
<1>2. pending' = [pending EXCEPT ![u] = new]  BY DEF Hold
<1> HIDE DEF new
<1> QED  BY <1>1, <1>2 DEF AccountTypeOK

\* A request takes a row that nobody else has.
LEMMA UserHolds ==
  ASSUME AccountAssumption, AccountInv, NEW r \in UserRequests, NEW u \in UserIds,
         NEW user \in UserRow, ask[r].pc # "done", Hold(r, u, user), Writable(r, u),
         UNCHANGED <<users, accountLog>>,
         ask' \in [UserRequests -> UserRequest],
         \A o \in UserRequests \ {r} : ask'[o] = ask[o],
         \A v \in UserIds : HeldSound(r, v)', ReadSound(r)'
  PROVE  AccountInv'
<1> USE DEF AccountInv
<1>1. /\ pending' \in [UserIds -> [owner : UserRequests \cup {NoRequest}, user : UserRow]]
      /\ pending'[u].owner = r
      /\ \A v \in UserIds \ {u} : pending'[v] = pending[v]
  BY HoldFacts
<1>2. AccountTypeOK'  BY <1>1, LogKept DEF AccountTypeOK
<1>3. ASSUME NEW o \in UserRequests \ {r}, NEW v \in UserIds
      PROVE  (Mine(o, v)' <=> Mine(o, v)) /\ (Mine(o, v) => pending'[v] = pending[v])
  BY <1>1 DEF Mine, Writable, Free, AccountAssumption
<1> QED  BY <1>2, <1>3, NothingCommitted

LEMMA AdminIsAdded ==
  ASSUME AccountAssumption, AccountInv, NEW r \in UserRequests, AddAdmin(r)
  PROVE  AccountInv'
<1> USE DEF AccountInv
<1>1. AdminId \in UserIds /\ NewUser(r) \in UserRow  BY RowFacts DEF AccountAssumption
<1>2. /\ ask[r].pc = "adding" /\ Free(AdminId) /\ users[AdminId].row = NoRequest
      /\ Hold(r, AdminId, NewUser(r)) /\ Proceed(r, "reading") /\ UNCHANGED <<users, accountLog>>
  BY DEF AddAdmin
<1>3. /\ ask' \in [UserRequests -> UserRequest] /\ ask'[r].pc = "reading"
      /\ \A o \in UserRequests \ {r} : ask'[o] = ask[o]
  BY <1>2, ProceedFacts DEF UserPcs
<1>4. /\ pending'[AdminId].user = NewUser(r)
      /\ \A v \in UserIds \ {AdminId} : pending'[v] = pending[v]
  BY <1>1, <1>2, HoldFacts
<1>5. ASSUME NEW v \in UserIds  PROVE HeldSound(r, v)'
  <2>1. CASE v = AdminId
    <3>1. NewUser(r)' = NewUser(r)  BY DEF NewUser
    <3> QED  BY <1>2, <1>3, <1>4, <2>1, <3>1 DEF HeldSound
  <2>2. CASE v # AdminId
    <3>1. ~Mine(r, v)  BY <1>2 DEF HeldSound
    <3> QED  BY <1>4, <2>2, <3>1 DEF HeldSound, Mine
  <2> QED  BY <2>1, <2>2
<1>6. ReadSound(r)'  BY <1>3 DEF ReadSound
<1>7. Writable(r, AdminId)  BY <1>2 DEF Writable
<1> QED  BY <1>1, <1>2, <1>3, <1>5, <1>6, <1>7, UserHolds

LEMMA UserIsInserted ==
  ASSUME AccountAssumption, AccountInv, NEW r \in UserRequests, InsertUser(r)
  PROVE  AccountInv'
<1> USE DEF AccountInv
<1>1. PICK u \in UserIds : u = ask[r].id  BY DEF AccountTypeOK, UserRequest
<1>2. NewUser(r) \in UserRow /\ NewUser(r).row = r /\ r # NoRequest  BY RowFacts
<1>3. /\ ask[r].pc = "reading" /\ ask[r].op = "create" /\ Writable(r, u)
      /\ Current(r, u).row = NoRequest /\ Hold(r, u, NewUser(r))
      /\ ask' = [ask EXCEPT ![r].pc = "committing", ![r].read = NewUser(r)]
      /\ UNCHANGED <<users, accountLog>>
  BY <1>1 DEF InsertUser
<1>4. users[u].row = NoRequest
  <2>1. HeldSound(r, u)  OBVIOUS
  <2>2. ~Mine(r, u)  BY <1>2, <1>3, <2>1 DEF HeldSound, Current
  <2> QED  BY <1>3, <2>2 DEF Current
<1>5. /\ ask' \in [UserRequests -> UserRequest] /\ ask'[r].pc = "committing"
      /\ ask'[r].op = "create" /\ ask'[r].id = u /\ ask'[r].read = NewUser(r)
      /\ \A o \in UserRequests \ {r} : ask'[o] = ask[o]
  BY <1>1, <1>2, <1>3, LoadFacts DEF UserPcs
<1>6. /\ pending'[u].user = NewUser(r) /\ pending'[u].owner = r
      /\ \A v \in UserIds \ {u} : pending'[v] = pending[v]
  BY <1>2, <1>3, HoldFacts
<1>7. ASSUME NEW v \in UserIds  PROVE HeldSound(r, v)'
  <2>0. NewUser(r)' = NewUser(r)  BY DEF NewUser
  <2>1. CASE v = u  BY <1>3, <1>4, <1>5, <1>6, <2>0, <2>1 DEF HeldSound
  <2>2. CASE v # u
    <3>1. HeldSound(r, v) /\ pending'[v] = pending[v]  BY <1>6, <2>2
    <3> QED  BY <1>3, <1>5, <2>0, <3>1 DEF HeldSound, Mine
  <2> QED  BY <2>1, <2>2
<1>8. ReadSound(r)'  BY <1>2, <1>5, <1>6 DEF ReadSound, Mine, RowWrites
<1> QED  BY <1>2, <1>3, <1>5, <1>7, <1>8, UserHolds

LEMMA UserIsWritten ==
  ASSUME AccountAssumption, AccountInv, NEW r \in UserRequests, WriteUser(r)
  PROVE  AccountInv'
<1> USE DEF AccountInv
<1>1. PICK u \in UserIds : u = ask[r].id  BY DEF AccountTypeOK, UserRequest
<1>2. PICK base \in UserRow : base = Current(r, u)  BY DEF Current, AccountTypeOK
<1>3. PICK op \in RowWrites : op = ask[r].op
  BY DEF ReadSound, WriteUser
<1>4. PICK new \in UserRow : new = Written(r, base) /\ Rewrites(op, r, base, new)
  BY <1>3, WrittenFacts
<1>5. /\ ask[r].pc = "writing" /\ Writable(r, u) /\ base.row = ask[r].read.row
      /\ Hold(r, u, new) /\ Proceed(r, "committing") /\ UNCHANGED <<users, accountLog>>
  BY <1>1, <1>2, <1>4 DEF WriteUser, SameRow
<1>6. /\ ask' \in [UserRequests -> UserRequest] /\ ask'[r].pc = "committing"
      /\ ask'[r].op = op /\ ask'[r].id = u /\ ask'[r].read = ask[r].read
      /\ \A o \in UserRequests \ {r} : ask'[o] = ask[o]
  BY <1>1, <1>3, <1>5, ProceedFacts DEF UserPcs
<1>7. /\ pending'[u].user = new /\ pending'[u].owner = r
      /\ \A v \in UserIds \ {u} : pending'[v] = pending[v]
  BY <1>5, HoldFacts
<1>8. base = users[u] \/ (base = NewUser(r) /\ users[u].row = NoRequest /\ u = AdminId)
  <2>1. HeldSound(r, u)  OBVIOUS
  <2> QED  BY <1>2, <1>5, <2>1 DEF HeldSound, Current
<1>9. ASSUME NEW v \in UserIds  PROVE HeldSound(r, v)'
  <2>0. NewUser(r)' = NewUser(r)  BY DEF NewUser
  <2>1. CASE v = u  BY <1>4, <1>5, <1>6, <1>7, <1>8, <2>0, <2>1 DEF HeldSound
  <2>2. CASE v # u
    <3>1. HeldSound(r, v) /\ pending'[v] = pending[v]  BY <1>7, <2>2
    <3> QED  BY <1>5, <1>6, <2>0, <3>1 DEF HeldSound, Mine
  <2> QED  BY <2>1, <2>2
<1>10. ReadSound(r)'
  <2>1. ReadSound(r)  OBVIOUS
  <2>2. ask[r].read.row = r \/ Finished(ask[r].read.row)'
    <3>1. CASE ask[r].read.row = r  BY <3>1
    <3>2. CASE ask[r].read.row # r
      BY <1>3, <1>5, <1>6, <2>1, <3>2 DEF ReadSound, Finished
    <3> QED  BY <3>1, <3>2
  <2>3. Entries("unban", u)' = Entries("unban", u)  BY <1>5, LogKept
  <2>4. op = "ban" => new.banned  BY <1>4 DEF Rewrites
  <2> QED  BY <1>1, <1>3, <1>5, <1>6, <1>7, <2>1, <2>2, <2>3, <2>4 DEF ReadSound, Mine, RowWrites
<1> QED  BY <1>5, <1>6, <1>9, <1>10, UserHolds

-----------------------------------------------------------------------------
(* The commit. *)

\* What a commit of r makes of a row: nothing, one that is new, or what the
\* operation makes of the one that was read.
RowCommitted(r, op, id, u) ==
  \/ users'[u] = users[u]
  \/ /\ users[u].row = NoRequest /\ users'[u] = NewUser(r)
     /\ u = AdminId \/ (op = "create" /\ u = id)
  \/ /\ op \in RowWrites /\ u = id
     /\ \E base \in UserRow :
          /\ Rewrites(op, r, base, users'[u])
          /\ base.row = ask[r].read.row
          /\ base = users[u] \/ (base = NewUser(r) /\ users[u].row = NoRequest /\ u = AdminId)

LEMMA CommitFacts ==
  ASSUME AccountAssumption, AccountInv, NEW r \in UserRequests, CommitUser(r)
  PROVE  /\ AccountTypeOK'
         /\ ask[r].pc = "committing" /\ ask'[r].pc = "done"
         /\ \A o \in UserRequests \ {r} : ask'[o] = ask[o]
         /\ Logged' = Logged \cup AuditsUser(r)
         /\ \A u \in UserIds :
              /\ ~Mine(r, u)'
              /\ users'[u] = IF Mine(r, u) THEN pending[u].user ELSE users[u]
              /\ \A o \in UserRequests \ {r} :
                   (Mine(o, u)' <=> Mine(o, u)) /\ (Mine(o, u) => pending'[u] = pending[u])
<1> USE DEF AccountInv
<1>1. /\ ask[r].pc = "committing" /\ Proceed(r, "done") /\ pending' = Unheld(r)
      /\ users' = [u \in UserIds |-> IF Mine(r, u) THEN pending[u].user ELSE users[u]]
      /\ log' = log \cup AuditsUser(r) /\ UNCHANGED <<erasing, erased>>
  BY DEF CommitUser
<1>2. /\ ask' \in [UserRequests -> UserRequest] /\ ask'[r].pc = "done"
      /\ \A o \in UserRequests \ {r} : ask'[o] = ask[o]
  BY <1>1, ProceedFacts DEF UserPcs
<1>3. \A u \in UserIds : pending'[u] = IF Mine(r, u) THEN [owner |-> NoRequest, user |-> NoUser]
                                       ELSE pending[u]
  BY <1>1 DEF Unheld
<1>4. pending' \in [UserIds -> [owner : UserRequests \cup {NoRequest}, user : UserRow]]
  BY <1>1, RowFacts DEF Unheld, AccountTypeOK
<1>5. users' \in [UserIds -> UserRow]  BY <1>1 DEF AccountTypeOK
<1>6. AuditsUser(r) \subseteq UserEntry
  <2>1. CASE ask[r].op \in {"list", "get"}  BY <2>1 DEF AuditsUser
  <2>2. CASE ask[r].op \notin {"list", "get"}
    <3>1. ReadSound(r)  OBVIOUS
    <3>2. ask[r] \in UserRequest  BY DEF AccountTypeOK
    <3>3. ask[r].op = "create" \/ ask[r].op \in RowWrites
      BY <2>2, <3>2 DEF UserRequest, UserOperations, RowWrites
    <3>4. ask[r].read.row # NoRequest
      BY <1>1, <3>1, <3>3, RowFacts DEF ReadSound
    <3>5. ask[r].read.row \in UserRequests \cup {Seeded}
      BY <3>2, <3>4 DEF UserRequest, UserRow
    <3> QED  BY <2>2, <3>2, <3>5 DEF AuditsUser, UserEntry, UserRequest
  <2> QED  BY <2>1, <2>2
<1>7. AccountTypeOK'  BY <1>1, <1>2, <1>4, <1>5, <1>6 DEF AccountTypeOK
<1>8. \A u \in UserIds : ~Mine(r, u)'
        /\ \A o \in UserRequests \ {r} :
             (Mine(o, u)' <=> Mine(o, u)) /\ (Mine(o, u) => pending'[u] = pending[u])
  BY <1>3 DEF Mine, AccountAssumption
<1>9. Logged' = Logged \cup AuditsUser(r)  BY <1>1 DEF Logged
<1> QED  BY <1>1, <1>2, <1>7, <1>8, <1>9

LEMMA CommitRow ==
  ASSUME AccountAssumption, AccountInv, NEW r \in UserRequests, CommitUser(r), NEW u \in UserIds
  PROVE  RowCommitted(r, ask[r].op, ask[r].id, u)
<1>1. HeldSound(r, u)  BY DEF AccountInv
<1>2. users'[u] = IF Mine(r, u) THEN pending[u].user ELSE users[u]  BY CommitFacts
<1> QED  BY <1>1, <1>2 DEF HeldSound, RowCommitted

\* What the commit adds to the log.
LEMMA CommitLog ==
  ASSUME AccountAssumption, AccountInv, NEW r \in UserRequests, CommitUser(r)
  PROVE  \/ ask[r].op \in {"list", "get"} /\ Logged' = Logged
         \/ /\ ask[r].op \notin {"list", "get"}
            /\ \E new \in UserEntry :
                 /\ Logged' = Logged \cup {new} /\ new \notin Logged
                 /\ new.by = r /\ new.op = ask[r].op /\ new.id = ask[r].id
                 /\ new.row = ask[r].read.row
                 /\ new.row = r \/ Finished(new.row)
<1>1. Logged' = Logged \cup AuditsUser(r)  BY CommitFacts
<1>2. CASE ask[r].op \in {"list", "get"}  BY <1>1, <1>2 DEF AuditsUser
<1>3. CASE ask[r].op \notin {"list", "get"}
  <2> DEFINE new == [by |-> r, op |-> ask[r].op, id |-> ask[r].id, row |-> ask[r].read.row]
  <2>1. Logged' = Logged \cup {new}  BY <1>1, <1>3 DEF AuditsUser
  <2>2. new.by = r /\ new.op = ask[r].op /\ new.id = ask[r].id /\ new.row = ask[r].read.row
    OBVIOUS
  <2> HIDE DEF new
  <2>3. new \in UserEntry  BY <2>1, CommitFacts DEF AccountTypeOK, Logged
  <2>4. ask[r].pc = "committing"  BY CommitFacts
  <2>5. new \notin Logged  BY <2>2, <2>4 DEF AccountInv, LogSound
  <2>6. ask[r].op = "create" \/ ask[r].op \in RowWrites
    BY <1>3 DEF AccountInv, AccountTypeOK, UserRequest, UserOperations, RowWrites
  <2>7. new.row = r \/ Finished(new.row)
    BY <2>2, <2>4, <2>6 DEF AccountInv, ReadSound
  <2> QED  BY <1>3, <2>1, <2>2, <2>3, <2>5, <2>7
<1> QED  BY <1>2, <1>3

LEMMA CommitEntry ==
  ASSUME AccountAssumption, AccountInv, NEW r \in UserRequests, CommitUser(r),
         NEW op, NEW id, op = ask[r].op, id = ask[r].id, op \notin {"list", "get"}
  PROVE  \E new \in Entries(op, id)' : new.by = r /\ new.row = ask[r].read.row
<1>1. PICK new \in UserEntry : /\ Logged' = Logged \cup {new} /\ new.by = r
                              /\ new.op = ask[r].op /\ new.id = ask[r].id
                              /\ new.row = ask[r].read.row
  BY CommitLog
<1>2. new \in Entries(op, id)'  BY <1>1 DEF Entries
<1> QED  BY <1>1, <1>2

LEMMA EntriesGrow ==
  ASSUME AccountAssumption, AccountInv, NEW r \in UserRequests, CommitUser(r), NEW u \in UserIds,
         NEW op \in {"create", "delete"}
  PROVE  /\ Cardinality(Entries(op, u)) \in Nat
         /\ Cardinality(Entries(op, u)') = Cardinality(Entries(op, u))
              + IF ask[r].op = op /\ ask[r].id = u THEN 1 ELSE 0
<1>1. IsFiniteSet(Entries(op, u)) /\ Cardinality(Entries(op, u)) \in Nat
  <2>1. IsFiniteSet(Logged) /\ Entries(op, u) \subseteq Logged  BY DEF AccountInv, LogSound, Entries
  <2>2. IsFiniteSet(Entries(op, u))  BY <2>1, FS_Subset
  <2> QED  BY <2>2, FS_CardinalityType
<1>2. CASE ask[r].op \in {"list", "get"} /\ Logged' = Logged
  <2>1. Entries(op, u)' = Entries(op, u)  BY <1>2 DEF Entries
  <2> QED  BY <1>1, <1>2, <2>1
<1>3. CASE ask[r].op \notin {"list", "get"}
  <2>1. PICK new \in UserEntry : Logged' = Logged \cup {new} /\ new \notin Logged
                                 /\ new.op = ask[r].op /\ new.id = ask[r].id
    BY <1>3, CommitLog
  <2>2. CASE ask[r].op = op /\ ask[r].id = u
    <3>1. Entries(op, u)' = Entries(op, u) \cup {new} /\ new \notin Entries(op, u)
      BY <2>1, <2>2 DEF Entries
    <3>2. Cardinality(Entries(op, u) \cup {new}) = Cardinality(Entries(op, u)) + 1
      BY <1>1, <3>1, FS_AddElement
    <3> QED  BY <1>1, <2>2, <3>1, <3>2
  <2>3. CASE ~(ask[r].op = op /\ ask[r].id = u)
    <3>1. Entries(op, u)' = Entries(op, u)  BY <2>1, <2>3 DEF Entries
    <3> QED  BY <1>1, <2>3, <3>1
  <2> QED  BY <2>2, <2>3
<1> QED  BY <1>2, <1>3, CommitLog

LEMMA CommitKeepsRows ==
  ASSUME AccountAssumption, AccountInv, NEW r \in UserRequests, CommitUser(r)
  PROVE  RowsAccounted'
<1> SUFFICES ASSUME NEW u \in UserIds \ {AdminId}
             PROVE  (/\ AtStart(u) + Cardinality(Entries("create", u)) - Here(u)
                          <= Cardinality(Entries("delete", u))
                     /\ Here(u) <= AtStart(u) + Cardinality(Entries("create", u)))'
  BY DEF RowsAccounted
<1>1. PICK op, id : op = ask[r].op /\ id = ask[r].id  OBVIOUS
<1>2. RowCommitted(r, op, id, u)  BY <1>1, CommitRow
<1>3. /\ Cardinality(Entries("create", u)) \in Nat /\ Cardinality(Entries("delete", u)) \in Nat
      /\ Cardinality(Entries("create", u)') = Cardinality(Entries("create", u))
           + IF op = "create" /\ id = u THEN 1 ELSE 0
      /\ Cardinality(Entries("delete", u)') = Cardinality(Entries("delete", u))
           + IF op = "delete" /\ id = u THEN 1 ELSE 0
  BY <1>1, EntriesGrow
<1>4. /\ AtStart(u) + Cardinality(Entries("create", u)) - Here(u) <= Cardinality(Entries("delete", u))
      /\ Here(u) <= AtStart(u) + Cardinality(Entries("create", u))
  BY DEF AccountInv, RowsAccounted
<1>5. AtStart(u) \in {0, 1} /\ Here(u) \in {0, 1} /\ Here(u)' \in {0, 1}  BY DEF AtStart, Here
<1>6. CASE op = "create" /\ id = u
  <2>1. users[u].row = NoRequest /\ users'[u].row # NoRequest
    <3>0. ReadSound(r) /\ ask[r].pc = "committing"  BY CommitFacts DEF AccountInv
    <3>1. Mine(r, u) /\ HeldSound(r, u)  BY <1>1, <1>6, <3>0 DEF AccountInv, ReadSound
    <3>2. users[u].row = NoRequest /\ pending[u].user = NewUser(r)
      BY <1>1, <1>6, <3>1 DEF HeldSound, RowWrites
    <3>3. users'[u] = pending[u].user  BY <3>1, CommitFacts
    <3>4. NewUser(r).row # NoRequest  BY RowFacts
    <3> QED  BY <3>2, <3>3, <3>4
  <2>2. Here(u) = 0 /\ Here(u)' = 1  BY <2>1 DEF Here
  <2> QED  BY <1>3, <1>4, <1>5, <1>6, <2>2 DEF AtStart
<1>7. CASE op = "delete" /\ id = u
  <2>1. Here(u)' <= Here(u)
    <3>1. users'[u] = users[u] \/ users'[u] = NoUser
      BY <1>2, <1>7 DEF RowCommitted, Rewrites
    <3>2. NoUser.row = NoRequest  BY RowFacts
    <3> QED  BY <3>1, <3>2 DEF Here
  <2> QED  BY <1>3, <1>4, <1>5, <1>7, <2>1 DEF AtStart
<1>8. CASE ~(op = "create" /\ id = u) /\ ~(op = "delete" /\ id = u)
  <2>1. Here(u)' = Here(u)
    BY <1>2, <1>8 DEF RowCommitted, Rewrites, Here
  <2> QED  BY <1>3, <1>4, <1>5, <1>8, <2>1 DEF AtStart
<1> QED  BY <1>6, <1>7, <1>8

LEMMA CommitKeepsBans ==
  ASSUME AccountAssumption, AccountInv, NEW r \in UserRequests, CommitUser(r)
  PROVE  BansStick'
<1> SUFFICES ASSUME NEW u \in UserIds
             PROVE  (/\ users[u].banned => Entries("ban", u) # {}
                     /\ \A row \in Entries("ban", u) :
                          users[u].row = row.row /\ Entries("unban", u) = {} => users[u].banned)'
  BY DEF BansStick
<1>1. PICK op, id : op = ask[r].op /\ id = ask[r].id  OBVIOUS
<1>2. RowCommitted(r, op, id, u)  BY <1>1, CommitRow
<1>3. /\ NewUser(r).row = r /\ NewUser(r).banned = FALSE /\ r # NoRequest /\ r # Seeded
      /\ NoUser.row = NoRequest /\ NoUser.banned = FALSE
  BY RowFacts DEF AccountAssumption
<1>4. /\ users[u].banned => Entries("ban", u) # {}
      /\ \A row \in Entries("ban", u) :
           users[u].row = row.row /\ Entries("unban", u) = {} => users[u].banned
  BY DEF AccountInv, BansStick
<1>5. \A kind : Entries(kind, u) \subseteq Entries(kind, u)'
  <2>1. Logged \subseteq Logged'  BY CommitFacts
  <2> QED  BY <2>1 DEF Entries
<1>6. op \in {"ban", "unban"} /\ id = u =>
        \E new \in Entries(op, u)' : new.row = ask[r].read.row
  <2>1. op \notin {"list", "get"} =>
          \E new \in Entries(op, id)' : new.by = r /\ new.row = ask[r].read.row
    BY <1>1, CommitEntry
  <2> QED  BY <2>1
<1>7. users'[u].banned => Entries("ban", u)' # {}
  <2>1. CASE users'[u] = users[u]  BY <1>4, <1>5, <2>1
  <2>2. CASE users'[u] = NewUser(r)  BY <1>3, <2>2
  <2>3. CASE op \in RowWrites /\ u = id
    <3> SUFFICES ASSUME users'[u].banned, op # "ban", users'[u] # users[u], users'[u] # NewUser(r)
                 PROVE  Entries("ban", u)' # {}
      BY <1>6, <2>1, <2>2, <2>3
    <3>1. PICK base : Rewrites(op, r, base, users'[u]) /\ (base = users[u] \/ base = NewUser(r))
      BY <1>2 DEF RowCommitted
    <3>2. base.banned  BY <1>3, <3>1 DEF Rewrites
    <3> QED  BY <1>3, <1>4, <1>5, <3>1, <3>2
  <2> QED  BY <1>2, <2>1, <2>2, <2>3 DEF RowCommitted
<1>8. ASSUME NEW row \in Entries("ban", u)', users'[u].row = row.row, Entries("unban", u)' = {}
      PROVE  users'[u].banned
  <2>0. row.row # NoRequest
    BY CommitFacts DEF Entries, Logged, AccountTypeOK, UserEntry, AccountAssumption
  <2>1. Entries("unban", u) = {} /\ ~(op = "unban" /\ id = u)  BY <1>5, <1>6, <1>8
  <2>2. CASE row \in Entries("ban", u)
    <3>1. row.row # r
      <4>1. Finished(row.row) /\ ask[r].pc # "done"
        BY <2>2, CommitFacts DEF AccountInv, LogSound, Entries
      <4> QED  BY <1>3, <4>1 DEF Finished
    <3>2. CASE users'[u] = users[u]  BY <1>4, <1>8, <2>1, <2>2, <3>2
    <3>3. CASE users'[u] # users[u]
      <4>1. users'[u] # NewUser(r)  BY <1>3, <1>8, <3>1
      <4>2. PICK base : /\ op \in RowWrites /\ u = id /\ Rewrites(op, r, base, users'[u])
                        /\ base = users[u] \/ base = NewUser(r)
        BY <1>2, <3>3, <4>1 DEF RowCommitted
      <4>3. op # "delete"  BY <1>3, <1>8, <2>0, <4>2 DEF Rewrites
      <4>4. base.row = row.row  BY <1>8, <4>2, <4>3 DEF Rewrites
      <4>5. base = users[u]  BY <1>3, <3>1, <4>2, <4>4
      <4>6. users[u].banned  BY <1>4, <2>1, <2>2, <4>4, <4>5
      <4> QED  BY <2>1, <4>2, <4>3, <4>5, <4>6 DEF Rewrites, RowWrites
    <3> QED  BY <3>2, <3>3
  <2>3. CASE row \notin Entries("ban", u)
    <3>1. op = "ban" /\ id = u /\ row.row = ask[r].read.row
      BY <1>1, <2>3, CommitLog DEF Entries
    <3>2. ReadSound(r) /\ ask[r].pc = "committing"  BY CommitFacts DEF AccountInv
    <3>3. CASE Mine(r, u)
      <4>1. pending[u].user.banned  BY <1>1, <3>1, <3>2, <3>3 DEF ReadSound
      <4> QED  BY <3>3, <4>1, CommitFacts
    <3>4. CASE ~Mine(r, u)
      <4>1. ask[r].read.banned  BY <1>1, <3>1, <3>2, <3>4 DEF ReadSound
      <4>2. users'[u] = users[u]  BY <3>4, CommitFacts
      <4>3. users[u].row = ask[r].read.row  BY <1>8, <3>1, <4>2
      <4>4. users[u].banned
        BY <1>1, <2>1, <3>1, <3>2, <4>1, <4>3 DEF ReadSound, RowWrites
      <4> QED  BY <4>2, <4>4
    <3> QED  BY <3>3, <3>4
  <2> QED  BY <2>2, <2>3
<1> QED  BY <1>7, <1>8

LEMMA CommitKeepsProfiles ==
  ASSUME AccountAssumption, AccountInv, NEW r \in UserRequests, CommitUser(r)
  PROVE  ProfilesAccounted'
<1> SUFFICES ASSUME NEW u \in UserIds, users'[u].profile # users'[u].row
             PROVE  \E row \in Entries("update", u)' :
                      row.by = users'[u].profile /\ row.row = users'[u].row
  BY DEF ProfilesAccounted
<1>1. PICK op, id : op = ask[r].op /\ id = ask[r].id  OBVIOUS
<1>2. RowCommitted(r, op, id, u)  BY <1>1, CommitRow
<1>3. /\ NewUser(r).row = r /\ NewUser(r).profile = r
      /\ NoUser.row = NoRequest /\ NoUser.profile = NoRequest
  BY RowFacts
<1>4. users[u].profile # users[u].row =>
        \E row \in Entries("update", u) : row.by = users[u].profile /\ row.row = users[u].row
  BY DEF AccountInv, ProfilesAccounted
<1>5. Entries("update", u) \subseteq Entries("update", u)'
  <2>1. Logged \subseteq Logged'  BY CommitFacts
  <2> QED  BY <2>1 DEF Entries
<1>6. CASE users'[u] = users[u]  BY <1>4, <1>5, <1>6
<1>7. CASE users'[u] # users[u]
  <2>1. PICK base : /\ op \in RowWrites /\ u = id /\ Rewrites(op, r, base, users'[u])
                    /\ base.row = ask[r].read.row
                    /\ base = users[u] \/ base = NewUser(r)
    BY <1>2, <1>3, <1>7 DEF RowCommitted
  <2>2. op # "delete"  BY <1>3, <2>1 DEF Rewrites
  <2>3. CASE op = "update"
    <3>1. users'[u].profile = r /\ users'[u].row = ask[r].read.row
      BY <2>1, <2>3 DEF Rewrites
    <3>2. \E new \in Entries(op, id)' : new.by = r /\ new.row = ask[r].read.row
      <4>1. op \notin {"list", "get"}  BY <2>3
      <4> QED  BY <1>1, <4>1, CommitEntry
    <3> QED  BY <2>1, <2>3, <3>1, <3>2
  <2>4. CASE op # "update"
    <3>1. users'[u].profile = base.profile /\ users'[u].row = base.row
      BY <2>1, <2>2, <2>4 DEF Rewrites
    <3>2. base = users[u]  BY <1>3, <2>1, <3>1
    <3> QED  BY <1>4, <1>5, <3>1, <3>2
  <2> QED  BY <2>3, <2>4
<1> QED  BY <1>6, <1>7

LEMMA UserCommits ==
  ASSUME AccountAssumption, AccountInv, NEW r \in UserRequests, CommitUser(r)
  PROVE  AccountInv'
<1>0. /\ AccountTypeOK' /\ ask[r].pc = "committing" /\ ask'[r].pc = "done"
      /\ \A o \in UserRequests \ {r} : ask'[o] = ask[o]
      /\ \A u \in UserIds :
           /\ ~Mine(r, u)'
           /\ users'[u] = IF Mine(r, u) THEN pending[u].user ELSE users[u]
           /\ \A o \in UserRequests \ {r} :
                (Mine(o, u)' <=> Mine(o, u)) /\ (Mine(o, u) => pending'[u] = pending[u])
  BY CommitFacts
<1>1. (\A row : Finished(row) => Finished(row)') /\ Finished(r)'
  BY <1>0 DEF Finished
<1>2. ASSUME NEW o \in UserRequests, NEW u \in UserIds  PROVE HeldSound(o, u)'
  <2>1. CASE o = r  BY <1>0, <2>1 DEF HeldSound
  <2>2. CASE o # r
    <3>1. HeldSound(o, u) /\ ask'[o] = ask[o]  BY <1>0, <2>2 DEF AccountInv
    <3>2. (Mine(o, u)' <=> Mine(o, u)) /\ (Mine(o, u) => pending'[u] = pending[u])
      BY <1>0, <2>2
    <3>3. Mine(o, u) => users'[u] = users[u]  BY <1>0, <2>2 DEF Mine
    <3>4. NewUser(o)' = NewUser(o)  BY DEF NewUser
    <3> QED  BY <3>1, <3>2, <3>3, <3>4 DEF HeldSound
  <2> QED  BY <2>1, <2>2
<1>3. ASSUME NEW o \in UserRequests  PROVE ReadSound(o)'
  <2>1. CASE o = r  BY <1>0, <2>1 DEF ReadSound
  <2>2. CASE o # r
    <3>1. PICK u \in UserIds : u = ask[o].id  BY DEF AccountInv, AccountTypeOK, UserRequest
    <3>2. PICK row \in UserRow : row = ask[o].read  BY DEF AccountInv, AccountTypeOK, UserRequest
    <3>3. ReadSound(o) /\ ask'[o] = ask[o] /\ u = ask'[o].id /\ row = ask'[o].read
      BY <1>0, <2>2, <3>1, <3>2 DEF AccountInv
    <3>4. (Mine(o, u)' <=> Mine(o, u)) /\ (Mine(o, u) => pending'[u] = pending[u])
      BY <1>0, <2>2
    <3>5. ASSUME ask[o].pc \in {"writing", "committing"}, ask[o].op \in RowWrites,
                 row.banned, users'[u].row = row.row, Entries("unban", u)' = {}
          PROVE  users'[u].banned
      <4>1. row.row # NoRequest /\ row.row # r
        <5>1. row.row # NoRequest /\ (row.row = o \/ Finished(row.row))
          BY <3>2, <3>3, <3>5 DEF ReadSound
        <5> QED  BY <1>0, <2>2, <5>1 DEF Finished, AccountAssumption
      <4>2. PICK op, id : op = ask[r].op /\ id = ask[r].id  OBVIOUS
      <4>3. RowCommitted(r, op, id, u)  BY <4>2, CommitRow
      <4>4. Entries("unban", u) = {} /\ ~(op = "unban" /\ id = u)
        <5>1. Logged \subseteq Logged'  BY CommitFacts
        <5>2. op = "unban" /\ id = u => Entries("unban", u)' # {}
          BY <4>2, CommitEntry
        <5> QED  BY <3>5, <5>1, <5>2 DEF Entries
      <4>5. users[u].row = row.row => users[u].banned
        BY <3>1, <3>2, <3>3, <3>5, <4>4 DEF ReadSound
      <4>6. CASE users'[u] = users[u]  BY <3>5, <4>5, <4>6
      <4>7. CASE users'[u] # users[u]
        <5>1. NewUser(r).row = r /\ NoUser.row = NoRequest  BY RowFacts
        <5>2. PICK base : /\ op \in RowWrites /\ u = id /\ Rewrites(op, r, base, users'[u])
                          /\ base = users[u] \/ base = NewUser(r)
          BY <3>5, <4>1, <4>3, <4>7, <5>1 DEF RowCommitted
        <5>3. op # "delete"  BY <3>5, <4>1, <5>1, <5>2 DEF Rewrites
        <5>4. base = users[u] /\ base.row = row.row
          BY <3>5, <4>1, <5>1, <5>2, <5>3 DEF Rewrites
        <5> QED  BY <4>4, <4>5, <5>2, <5>3, <5>4 DEF Rewrites, RowWrites
      <4> QED  BY <4>6, <4>7
    <3> QED  BY <1>1, <3>1, <3>2, <3>3, <3>4, <3>5 DEF ReadSound
  <2> QED  BY <2>1, <2>2
<1>4. LogSound'
  <2>1. LogSound /\ \A row \in Logged : row.by \in UserRequests
    BY LoggedTypes DEF AccountInv
  <2>2. CASE Logged' = Logged  BY <1>0, <1>1, <2>1, <2>2 DEF LogSound
  <2>3. CASE Logged' # Logged
    <3>1. PICK new \in UserEntry : Logged' = Logged \cup {new} /\ new.by = r
                                   /\ (new.row = r \/ Finished(new.row))
      BY <2>3, CommitLog
    <3>2. IsFiniteSet(Logged')  BY <2>1, <3>1, FS_AddElement DEF LogSound
    <3> QED  BY <1>0, <1>1, <2>1, <3>1, <3>2 DEF LogSound
  <2> QED  BY <2>2, <2>3
<1>5. RowsFinished'
  <2> SUFFICES ASSUME NEW u \in UserIds, users'[u].row # NoRequest
               PROVE  Finished(users[u].row)'
    BY DEF RowsFinished
  <2>1. PICK op, id : op = ask[r].op /\ id = ask[r].id  OBVIOUS
  <2>2. RowCommitted(r, op, id, u)  BY <2>1, CommitRow
  <2>3. NewUser(r).row = r /\ NoUser.row = NoRequest  BY RowFacts
  <2>4. users'[u].row = users[u].row \/ users'[u].row = r
    BY <2>2, <2>3 DEF RowCommitted, Rewrites
  <2>5. PICK row : row = users'[u].row  OBVIOUS
  <2>6. row = r \/ Finished(row)  BY <2>4, <2>5 DEF AccountInv, RowsFinished
  <2>7. Finished(row)'  BY <1>1, <2>6
  <2> QED  BY <2>5, <2>7
<1> QED  BY <1>0, <1>2, <1>3, <1>4, <1>5, CommitKeepsRows, CommitKeepsBans, CommitKeepsProfiles
         DEF AccountInv

\* What leaves rows, requests and what was ever logged as they are.
LEMMA AccountKept ==
  ASSUME AccountInv, AccountTypeOK', UNCHANGED <<users, pending, ask>>, Logged' = Logged
  PROVE  AccountInv'
<1>1. \A row : Finished(row)' <=> Finished(row)  BY DEF Finished
<1>2. \A kind, u : Entries(kind, u)' = Entries(kind, u)  BY DEF Entries
<1>3. ASSUME NEW r \in UserRequests, NEW u \in UserIds  PROVE HeldSound(r, u)'
  BY DEF AccountInv, HeldSound, Mine, NewUser
<1>4. ASSUME NEW r \in UserRequests  PROVE ReadSound(r)'
  <2>1. ReadSound(r)  BY DEF AccountInv
  <2> QED  BY <1>1, <1>2, <2>1 DEF ReadSound, Mine
<1>5. LogSound' /\ RowsFinished'  BY <1>1 DEF AccountInv, LogSound, RowsFinished
<1>6. RowsAccounted'  BY <1>2 DEF AccountInv, RowsAccounted, Here
<1>7. BansStick' /\ ProfilesAccounted'
  BY <1>2 DEF AccountInv, BansStick, ProfilesAccounted
<1> QED  BY <1>3, <1>4, <1>5, <1>6, <1>7 DEF AccountInv

\* A reset takes entries from the log, and nothing from what was ever logged.
LEMMA LogIsErased ==
  ASSUME AccountInv, EraseLog \/ \E committed \in BOOLEAN : EndErasing(committed)
  PROVE  AccountInv'
<1>1. AccountTypeOK  BY DEF AccountInv
<1>2. CASE EraseLog
  <2>1. erasing' = log /\ UNCHANGED <<users, pending, ask, log, erased>>  BY <1>2 DEF EraseLog
  <2>2. AccountTypeOK' /\ Logged' = Logged  BY <1>1, <2>1 DEF AccountTypeOK, Logged
  <2> QED  BY <2>1, <2>2, AccountKept
<1>3. CASE \E committed \in BOOLEAN : EndErasing(committed)
  <2>1. /\ erasing' = {} /\ UNCHANGED <<users, pending, ask>>
        /\ \/ log' = log \ erasing /\ erased' = erased \cup erasing
           \/ UNCHANGED <<log, erased>>
    BY <1>3 DEF EndErasing
  <2>2. erasing \subseteq log  BY <1>1 DEF AccountTypeOK
  <2>3. Logged' = Logged  BY <2>1, <2>2 DEF Logged
  <2>4. AccountTypeOK'  BY <1>1, <2>1, <2>2 DEF AccountTypeOK
  <2> QED  BY <2>1, <2>3, <2>4, AccountKept
<1> QED  BY <1>2, <1>3

LEMMA AccountInductive ==
  ASSUME AccountAssumption, AccountInv, [AccountNext]_accountVars
  PROVE  AccountInv'
<1>1. ASSUME NEW r \in UserRequests,
             \/ \E op \in UserOps[r] : ReceiveUser(r, op[1], op[2])
             \/ AbortUser(r)
             \/ ServeUser(r)
      PROVE  AccountInv'
  <2>1. CASE \E op \in UserOps[r] : ReceiveUser(r, op[1], op[2])  BY <2>1, UserAsks
  <2>2. CASE AbortUser(r)
    BY <2>2, UserFails DEF AbortUser, OpenUser
  <2>3. CASE LookForAdmin(r)  BY <2>3, AdminIsLookedFor
  <2>4. CASE AddAdmin(r)  BY <2>4, AdminIsAdded
  <2>5. CASE AddAdminConflict(r)  BY <2>5, UserFails DEF AddAdminConflict
  <2>6. CASE ReadUser(r)  BY <2>6, UserIsRead
  <2>7. CASE RefuseMissing(r)  BY <2>7, UserFails DEF RefuseMissing
  <2>8. CASE ListUsers(r) \/ SkipWrite(r)  BY <2>8, CommitIsNext
  <2>9. CASE InsertUser(r)  BY <2>9, UserIsInserted
  <2>10. CASE InsertUserConflict(r)  BY <2>10, UserFails DEF InsertUserConflict
  <2>11. CASE WriteUser(r)  BY <2>11, UserIsWritten
  <2>12. CASE WriteMissing(r)
    <3>1. CASE ask[r].op = "delete"  BY <2>12, <3>1, CommitIsNext DEF WriteMissing
    <3>2. CASE ask[r].op # "delete"  BY <2>12, <3>2, UserFails DEF WriteMissing
    <3> QED  BY <3>1, <3>2
  <2>13. CASE CommitUser(r)  BY <2>13, UserCommits
  <2> QED  BY <1>1, <2>1, <2>2, <2>3, <2>4, <2>5, <2>6, <2>7, <2>8, <2>9, <2>10, <2>11, <2>12,
              <2>13
           DEF ServeUser
<1>2. CASE AccountNext
  BY <1>1, <1>2, LogIsErased DEF AccountNext
<1>3. CASE UNCHANGED accountVars
  <2>1. UNCHANGED <<users, pending, ask, accountLog>>  BY <1>3 DEF accountVars
  <2>2. UNCHANGED <<log, erasing, erased>> /\ Logged' = Logged  BY <2>1, LogKept
  <2>3. AccountTypeOK'  BY <2>1, <2>2 DEF AccountInv, AccountTypeOK
  <2> QED  BY <2>1, <2>2, <2>3, AccountKept
<1> QED  BY <1>2, <1>3

LEMMA AccountInvAudits ==
  ASSUME AccountAssumption, AccountInv
  PROVE  AccountsAudited
<1>1. NothingHeld
  <2> SUFFICES ASSUME NEW u \in UserIds, pending[u].owner # NoRequest
               PROVE  ask[pending[u].owner].pc \in {"reading", "writing", "committing"}
    BY DEF NothingHeld
  <2>1. PICK r \in UserRequests : r = pending[u].owner  BY DEF AccountInv, AccountTypeOK
  <2> QED  BY <2>1 DEF AccountInv, HeldSound, Mine
<1> QED  BY <1>1 DEF AccountInv, AccountsAudited

-----------------------------------------------------------------------------
(* Saved queries (SavedQueries).                                           *)

QueryPcs == {"idle", "reading", "locking", "keying", "committing", "done", "refused", "error"}

QueryRecord == [pc : QueryPcs, does : QueryCall]

\* An uncommitted version is of the row its request is about, and will be what
\* the request does to it.
DraftSound(c, n) ==
  renamed[n].owner = c =>
    /\ n = Id(c)
    /\ queries[n] # Deleted
    /\ \/ call[c].pc = "keying" /\ call[c].does.op = "rename" /\ renamed[n].name = Deleted
       \/ /\ call[c].pc = "committing"
          /\ call[c].does.op = "save" => queries[n] = Unsaved
          /\ renamed[n].name = IF call[c].does.op = "delete" THEN Deleted ELSE call[c].does.name

\* What a request knows of its row stays true: it was there, and a delete that
\* commits has it or finds it deleted.
CallSound(c) ==
  /\ call[c].pc \in {"reading", "locking"} => call[c].does.op # "save"
  /\ call[c].pc = "keying" => call[c].does.op # "delete"
  /\ call[c].pc = "keying" /\ call[c].does.op = "rename" => renamed[Id(c)].owner = c
  /\ call[c].pc \in {"locking", "committing"} /\ call[c].does.op = "delete" =>
       queries[Id(c)] # Unsaved
  /\ call[c].pc = "committing" /\ call[c].does.op = "delete" =>
       renamed[Id(c)].owner = c \/ queries[Id(c)] = Deleted

\* The unique key: a name that is entered is no other row's, committed or not.
KeysHeld ==
  \A n, m \in QueryIds : n # m /\ renamed[n].name \in QueryNames =>
    renamed[n].name \notin {queries[m], renamed[m].name}

QueryInv ==
  /\ QueryTypeOK
  /\ call \in [QueryCalls -> QueryRecord]
  /\ \A n \in QueryIds : Unowned(n) => renamed[n].name = Unsaved
  /\ \A c \in QueryCalls, n \in QueryIds : DraftSound(c, n)
  /\ \A c \in QueryCalls : CallSound(c)
  /\ KeysHeld
  /\ NamesUnique
  /\ NamesAnswered

LEMMA MovesFacts ==
  ASSUME call \in [QueryCalls -> QueryRecord], NEW c \in QueryCalls, NEW label \in QueryPcs,
         Moves(c, label)
  PROVE  /\ call' \in [QueryCalls -> QueryRecord]
         /\ call'[c].pc = label
         /\ call'[c].does = call[c].does
         /\ \A d \in QueryCalls \ {c} : call'[d] = call[d]
<1> DEFINE new == [call[c] EXCEPT !.pc = label]
<1>1. call[c] \in QueryRecord  OBVIOUS
<1>2. new \in QueryRecord  BY <1>1, Zenon DEF QueryRecord
<1>3. new.pc = label /\ new.does = call[c].does  BY <1>1 DEF QueryRecord
<1>4. call' = [call EXCEPT ![c] = new]  BY DEF Moves
<1> HIDE DEF new
<1> QED  BY <1>2, <1>3, <1>4

\* The types of the model follow from those of its records.
LEMMA QueryTypes ==
  ASSUME queries \in [QueryIds -> QueryState],
         renamed \in [QueryIds -> [owner : QueryCalls \cup {NoCall}, name : QueryState]],
         call \in [QueryCalls -> QueryRecord],
         answers \subseteq QueryCall
  PROVE  QueryTypeOK
<1>1. \A c \in QueryCalls : call[c] \in QueryRecord  OBVIOUS
<1>2. \A c \in QueryCalls : call[c].pc \in QueryPcs /\ call[c].does \in QueryCall
  BY <1>1 DEF QueryRecord
<1> QED  BY <1>2 DEF QueryTypeOK, QueryPcs

LEMMA QueryInitial ==
  ASSUME QueryAssumption, QueryInit
  PROVE  QueryInv
<1> DEFINE does == [op |-> "save", id |-> CHOOSE n \in QueryIds : TRUE,
                    name |-> CHOOSE name \in QueryNames : TRUE]
           idle == [pc |-> "idle", does |-> does]
<1>1. (CHOOSE n \in QueryIds : TRUE) \in QueryIds  BY DEF QueryAssumption
<1>2. (CHOOSE name \in QueryNames : TRUE) \in QueryNames  BY DEF QueryAssumption
<1>3. does \in QueryCall  BY <1>1, <1>2 DEF QueryCall
<1> HIDE DEF does
<1>4. idle \in QueryRecord /\ idle.pc = "idle"  BY <1>3 DEF QueryRecord, QueryPcs
<1>5. call = [c \in QueryCalls |-> idle]  BY DEF QueryInit, does
<1> HIDE DEF idle
<1>6. NoQueryDraft \in [owner : QueryCalls \cup {NoCall}, name : QueryState]
      /\ NoQueryDraft.owner = NoCall /\ NoQueryDraft.name = Unsaved
  BY DEF NoQueryDraft, QueryState
<1>7. renamed = [n \in QueryIds |-> NoQueryDraft] /\ queries = SavedAtStart /\ answers = {}
  BY DEF QueryInit
<1>8. queries \in [QueryIds -> QueryState]  BY <1>7 DEF QueryAssumption, QueryState
<1>9. call \in [QueryCalls -> QueryRecord]  BY <1>4, <1>5
<1>10. QueryTypeOK  BY <1>6, <1>7, <1>8, <1>9, QueryTypes
<1>11. \A n \in QueryIds : renamed[n].owner = NoCall /\ renamed[n].name = Unsaved
  BY <1>6, <1>7
<1>12. \A c \in QueryCalls, n \in QueryIds : DraftSound(c, n)
  BY <1>11 DEF DraftSound, QueryAssumption
<1>13. \A c \in QueryCalls : CallSound(c)  BY <1>4, <1>5 DEF CallSound
<1>14. KeysHeld  BY <1>11 DEF KeysHeld, QueryAssumption
<1>15. NamesUnique  BY <1>7 DEF NamesUnique, QueryAssumption
<1>16. NamesAnswered  BY <1>7 DEF NamesAnswered, QueryAssumption
<1> QED  BY <1>9, <1>10, <1>11, <1>12, <1>13, <1>14, <1>15, <1>16 DEF QueryInv

\* A step of c that commits nothing: the versions of others stay.
LEMMA NoQueryCommitted ==
  ASSUME QueryAssumption, QueryInv, NEW c \in QueryCalls,
         UNCHANGED <<queries, answers>>,
         renamed' \in [QueryIds -> [owner : QueryCalls \cup {NoCall}, name : QueryState]],
         call' \in [QueryCalls -> QueryRecord],
         \A d \in QueryCalls \ {c} : call'[d] = call[d],
         \A n \in QueryIds : \/ renamed'[n] = renamed[n]
                             \/ {renamed[n].owner, renamed'[n].owner} \subseteq {c, NoCall},
         \A n \in QueryIds : renamed'[n].owner = NoCall => renamed'[n].name = Unsaved,
         \A n \in QueryIds : DraftSound(c, n)', CallSound(c)', KeysHeld'
  PROVE  QueryInv'
<1> USE DEF QueryInv
<1>1. QueryTypeOK'
  <2>1. \A d \in QueryCalls : call'[d] \in QueryRecord  OBVIOUS
  <2>2. \A d \in QueryCalls : call'[d].pc \in QueryPcs /\ call'[d].does \in QueryCall
    BY <2>1 DEF QueryRecord
  <2> QED  BY <2>2 DEF QueryTypeOK, QueryPcs
<1>2. ASSUME NEW d \in QueryCalls \ {c}, NEW n \in QueryIds  PROVE DraftSound(d, n)'
  <2>1. DraftSound(d, n) /\ call'[d] = call[d] /\ queries' = queries  OBVIOUS
  <2>2. renamed'[n].owner = d => renamed'[n] = renamed[n]  BY DEF QueryAssumption
  <2> QED  BY <2>1, <2>2 DEF DraftSound, Id
<1>3. ASSUME NEW d \in QueryCalls \ {c}  PROVE CallSound(d)'
  <2>1. PICK n \in QueryIds : n = Id(d)
    BY DEF Id, QueryTypeOK, QueryCall
  <2>2. CallSound(d) /\ call'[d] = call[d] /\ queries' = queries /\ n = Id(d)'
    BY <2>1 DEF Id
  <2>3. renamed[n].owner = d => renamed'[n].owner = d  BY DEF QueryAssumption
  <2> QED  BY <2>1, <2>2, <2>3 DEF CallSound
<1>4. NamesUnique' /\ NamesAnswered'  BY DEF NamesUnique, NamesAnswered
<1>5. \A n \in QueryIds : Unowned(n)' => renamed'[n].name = Unsaved  BY DEF Unowned
<1> QED  BY <1>1, <1>2, <1>3, <1>4, <1>5

LEMMA MovedCall ==
  ASSUME QueryAssumption, QueryInv, NEW c \in QueryCalls, UNCHANGED <<queries, renamed, answers>>,
         call' \in [QueryCalls -> QueryRecord],
         \A d \in QueryCalls \ {c} : call'[d] = call[d],
         \A n \in QueryIds : DraftSound(c, n)', CallSound(c)'
  PROVE  QueryInv'
<1> USE DEF QueryInv
<1>1. KeysHeld'  BY DEF KeysHeld
<1>2. renamed' \in [QueryIds -> [owner : QueryCalls \cup {NoCall}, name : QueryState]]
  BY DEF QueryTypeOK
<1>3. \A n \in QueryIds : renamed'[n].owner = NoCall => renamed'[n].name = Unsaved
  BY DEF Unowned
<1> QED  BY <1>1, <1>2, <1>3, NoQueryCommitted

LEMMA CallIsReceived ==
  ASSUME QueryAssumption, QueryInv, NEW c \in QueryCalls,
         \E does \in CallOps[c] : ReceiveCall(c, does)
  PROVE  QueryInv'
<1> USE DEF QueryInv
<1> PICK does \in CallOps[c] : ReceiveCall(c, does)  OBVIOUS
<1> DEFINE label == IF does.op = "save" THEN "keying" ELSE "reading"
           new == [pc |-> label, does |-> does]
<1>1. does \in QueryCall  BY DEF QueryAssumption
<1>2. label \in {"keying", "reading"} /\ (label = "keying" <=> does.op = "save")  OBVIOUS
<1>3. call[c].pc = "idle" /\ call' = [call EXCEPT ![c] = new] /\ UNCHANGED <<queries, renamed, answers>>
  BY DEF ReceiveCall
<1> HIDE DEF label
<1>4. new \in QueryRecord /\ new.pc = label /\ new.does = does
  BY <1>1, <1>2 DEF QueryRecord, QueryPcs
<1> HIDE DEF new
<1>5. /\ call' \in [QueryCalls -> QueryRecord] /\ call'[c].pc = label /\ call'[c].does = does
      /\ \A d \in QueryCalls \ {c} : call'[d] = call[d]
  BY <1>3, <1>4
<1>6. ASSUME NEW n \in QueryIds  PROVE DraftSound(c, n)'
  <2>1. renamed[n].owner # c  BY <1>3 DEF DraftSound
  <2> QED  BY <1>3, <2>1 DEF DraftSound
<1>7. CallSound(c)'  BY <1>2, <1>5 DEF CallSound
<1> QED  BY <1>3, <1>5, <1>6, <1>7, MovedCall

LEMMA QueryIsRead ==
  ASSUME QueryAssumption, QueryInv, NEW c \in QueryCalls, ReadQuery(c)
  PROVE  QueryInv'
<1> USE DEF QueryInv
<1>1. PICK n \in QueryIds : n = Id(c)  BY DEF Id, QueryTypeOK, QueryCall
<1> DEFINE label == IF call[c].does.op = "rename" /\ queries[n] = call[c].does.name
                    THEN "committing" ELSE "locking"
<1>2. label \in {"committing", "locking"} /\ (label = "committing" => call[c].does.op = "rename")
  OBVIOUS
<1>3. /\ call[c].pc = "reading" /\ queries[n] \in QueryNames /\ Moves(c, label)
      /\ UNCHANGED <<queries, renamed, answers>>
  BY <1>1 DEF ReadQuery
<1> HIDE DEF label
<1>4. /\ call' \in [QueryCalls -> QueryRecord] /\ call'[c].pc = label
      /\ call'[c].does = call[c].does /\ \A d \in QueryCalls \ {c} : call'[d] = call[d]
  BY <1>2, <1>3, MovesFacts DEF QueryPcs
<1>5. ASSUME NEW m \in QueryIds  PROVE DraftSound(c, m)'
  <2>1. renamed[m].owner # c  BY <1>3 DEF DraftSound
  <2> QED  BY <1>3, <2>1 DEF DraftSound
<1>6. CallSound(c)'
  <2>1. CallSound(c) /\ n = Id(c)'  BY <1>1, <1>4 DEF Id
  <2> QED  BY <1>2, <1>3, <1>4, <2>1 DEF CallSound, QueryAssumption
<1> QED  BY <1>3, <1>4, <1>5, <1>6, MovedCall

LEMMA DeletedMeanwhile ==
  ASSUME QueryAssumption, QueryInv, NEW c \in QueryCalls, LockMissing(c),
         call[c].does.op # "rename"
  PROVE  QueryInv'
<1> USE DEF QueryInv
<1>1. PICK n \in QueryIds : n = Id(c)  BY DEF Id, QueryTypeOK, QueryCall
<1>2. /\ call[c].pc = "locking" /\ queries[n] \notin QueryNames /\ Moves(c, "committing")
      /\ UNCHANGED <<queries, renamed, answers>>
  BY <1>1 DEF LockMissing
<1>3. /\ call' \in [QueryCalls -> QueryRecord] /\ call'[c].pc = "committing"
      /\ call'[c].does = call[c].does /\ \A d \in QueryCalls \ {c} : call'[d] = call[d]
  BY <1>2, MovesFacts DEF QueryPcs
<1>4. ASSUME NEW m \in QueryIds  PROVE DraftSound(c, m)'
  <2>1. renamed[m].owner # c  BY <1>2 DEF DraftSound
  <2> QED  BY <1>2, <2>1 DEF DraftSound
<1>5. CallSound(c)'
  <2>1. CallSound(c) /\ n = Id(c)'  BY <1>1, <1>3 DEF Id
  <2>2. call[c].does.op = "delete"
    BY <1>2, <2>1 DEF CallSound, QueryTypeOK, QueryCall
  <2>3. queries[n] = Deleted
    BY <1>1, <1>2, <2>1, <2>2 DEF CallSound, QueryTypeOK, QueryState
  <2> QED  BY <1>2, <1>3, <2>1, <2>2, <2>3 DEF CallSound, QueryAssumption
<1> QED  BY <1>2, <1>3, <1>4, <1>5, MovedCall

LEMMA CallEnds ==
  ASSUME QueryAssumption, QueryInv, NEW c \in QueryCalls, NEW label \in {"refused", "error"},
         EndsWith(c, label)
  PROVE  QueryInv'
<1> USE DEF QueryInv
<1>1. renamed' = Released(c) /\ Moves(c, label) /\ UNCHANGED <<queries, answers>>
  BY DEF EndsWith
<1>2. /\ call' \in [QueryCalls -> QueryRecord] /\ call'[c].pc = label
      /\ \A d \in QueryCalls \ {c} : call'[d] = call[d]
  BY <1>1, MovesFacts DEF QueryPcs
<1>3. NoQueryDraft \in [owner : QueryCalls \cup {NoCall}, name : QueryState]
      /\ NoQueryDraft.owner = NoCall /\ NoQueryDraft.name = Unsaved
  BY DEF NoQueryDraft, QueryState
<1>4. renamed' \in [QueryIds -> [owner : QueryCalls \cup {NoCall}, name : QueryState]]
      /\ \A n \in QueryIds :
           renamed'[n] = IF renamed[n].owner = c THEN NoQueryDraft ELSE renamed[n]
  BY <1>1, <1>3 DEF Released, QueryTypeOK
<1>5. \A n \in QueryIds : \/ renamed'[n] = renamed[n]
                          \/ {renamed[n].owner, renamed'[n].owner} \subseteq {c, NoCall}
  BY <1>3, <1>4
<1>6. \A n \in QueryIds : renamed'[n].owner = NoCall => renamed'[n].name = Unsaved
  BY <1>3, <1>4 DEF Unowned
<1>7. \A n \in QueryIds : DraftSound(c, n)'
  BY <1>3, <1>4 DEF DraftSound, QueryAssumption
<1>8. CallSound(c)'  BY <1>2 DEF CallSound
<1>9. KeysHeld'  BY <1>1, <1>3, <1>4 DEF KeysHeld, QueryAssumption
<1> QED  BY <1>1, <1>2, <1>4, <1>5, <1>6, <1>7, <1>8, <1>9, NoQueryCommitted

LEMMA QueryIsLocked ==
  ASSUME QueryAssumption, QueryInv, NEW c \in QueryCalls, LockQuery(c)
  PROVE  QueryInv'
<1> USE DEF QueryInv
<1>1. PICK n \in QueryIds : n = Id(c)  BY DEF Id, QueryTypeOK, QueryCall
<1> DEFINE label == IF call[c].does.op = "rename" THEN "keying" ELSE "committing"
           new == [owner |-> c, name |-> Deleted]
<1>2. label \in {"keying", "committing"} /\ (label = "keying" <=> call[c].does.op = "rename")
  OBVIOUS
<1>3. /\ call[c].pc = "locking" /\ Unowned(n) /\ queries[n] \in QueryNames
      /\ renamed' = [renamed EXCEPT ![n] = new] /\ Moves(c, label) /\ UNCHANGED <<queries, answers>>
  BY <1>1 DEF LockQuery
<1>4. new \in [owner : QueryCalls \cup {NoCall}, name : QueryState]
      /\ new.owner = c /\ new.name = Deleted
  BY DEF QueryState
<1> HIDE DEF label, new
<1>5. /\ call' \in [QueryCalls -> QueryRecord] /\ call'[c].pc = label
      /\ call'[c].does = call[c].does /\ \A d \in QueryCalls \ {c} : call'[d] = call[d]
  BY <1>2, <1>3, MovesFacts DEF QueryPcs
<1>6. /\ renamed' \in [QueryIds -> [owner : QueryCalls \cup {NoCall}, name : QueryState]]
      /\ renamed'[n].owner = c /\ renamed'[n].name = Deleted
      /\ \A m \in QueryIds \ {n} : renamed'[m] = renamed[m]
  BY <1>3, <1>4 DEF QueryTypeOK
<1>7. \A m \in QueryIds : \/ renamed'[m] = renamed[m]
                          \/ {renamed[m].owner, renamed'[m].owner} \subseteq {c, NoCall}
  BY <1>3, <1>6 DEF Unowned
<1>8. \A m \in QueryIds : renamed'[m].owner = NoCall => renamed'[m].name = Unsaved
  BY <1>6 DEF Unowned, QueryAssumption
<1>9. call[c].does.op \in {"rename", "delete"}
  BY <1>3 DEF CallSound, QueryTypeOK, QueryCall
<1>10. ASSUME NEW m \in QueryIds  PROVE DraftSound(c, m)'
  <2>1. CASE m = n
    <3>1. m = Id(c)'  BY <1>1, <1>5, <2>1 DEF Id
    <3> QED  BY <1>2, <1>3, <1>5, <1>6, <1>9, <2>1, <3>1 DEF DraftSound, QueryAssumption
  <2>2. CASE m # n
    <3>1. renamed[m].owner # c  BY <1>3 DEF DraftSound
    <3> QED  BY <1>6, <2>2, <3>1 DEF DraftSound
  <2> QED  BY <2>1, <2>2
<1>11. CallSound(c)'
  <2>1. n = Id(c)'  BY <1>1, <1>5 DEF Id
  <2> QED  BY <1>2, <1>3, <1>5, <1>6, <1>9, <2>1 DEF CallSound, QueryAssumption
<1>12. KeysHeld'  BY <1>3, <1>6 DEF KeysHeld, QueryAssumption
<1> QED  BY <1>3, <1>5, <1>6, <1>7, <1>8, <1>10, <1>11, <1>12, NoQueryCommitted

LEMMA QueryIsKeyed ==
  ASSUME QueryAssumption, QueryInv, NEW c \in QueryCalls, KeyQuery(c)
  PROVE  QueryInv'
<1> USE DEF QueryInv
<1>1. PICK n : n = IF call[c].does.op = "save" THEN CHOOSE m \in FreshIds : TRUE ELSE Id(c)
  OBVIOUS
<1>2. PICK name \in QueryNames : name = call[c].does.name  BY DEF QueryTypeOK, QueryCall
<1> DEFINE version == [owner |-> c, name |-> name]
           does == [call[c].does EXCEPT !.id = n]
           new == [pc |-> "committing", does |-> does]
<1>3. /\ call[c].pc = "keying"
      /\ call[c].does.op = "save" => FreshIds # {}
      /\ ~NameTaken(c, name) /\ NameOpen(c, name) = {}
      /\ renamed' = [renamed EXCEPT ![n] = version]
      /\ call' = [call EXCEPT ![c] = new]
      /\ UNCHANGED <<queries, answers>>
  BY <1>1, <1>2 DEF KeyQuery
<1>4. call[c] \in QueryRecord /\ call[c].does \in QueryCall  BY DEF QueryTypeOK
<1>5. call[c].does.op \in {"save", "rename"}
  BY <1>3, <1>4 DEF CallSound, QueryCall
<1>6. /\ n \in QueryIds
      /\ call[c].does.op = "save" => queries[n] = Unsaved /\ renamed[n].owner = NoCall
      /\ call[c].does.op = "rename" => n = Id(c) /\ renamed[n].owner = c /\ queries[n] # Deleted
  <2>1. CASE call[c].does.op = "save"
    <3>1. n \in FreshIds  BY <1>1, <1>3, <2>1
    <3> QED  BY <2>1, <3>1 DEF FreshIds, Unowned
  <2>2. CASE call[c].does.op = "rename"
    <3>1. n = Id(c) /\ n \in QueryIds  BY <1>1, <1>4, <2>2 DEF Id, QueryCall
    <3>2. renamed[n].owner = c  BY <1>3, <2>2, <3>1 DEF CallSound
    <3> QED  BY <2>2, <3>1, <3>2 DEF DraftSound
  <2> QED  BY <1>5, <2>1, <2>2
<1>7. does \in QueryCall  BY <1>4, <1>6, Zenon DEF QueryCall
<1>8. does.op = call[c].does.op /\ does.id = n /\ does.name = name
  BY <1>2, <1>4 DEF QueryCall
<1> HIDE DEF does
<1>9. new \in QueryRecord  BY <1>7 DEF QueryRecord, QueryPcs
<1>10. new.pc = "committing" /\ new.does = does  OBVIOUS
<1> HIDE DEF new
<1>12. /\ call' \in [QueryCalls -> QueryRecord] /\ call'[c].pc = "committing"
       /\ call'[c].does.op = call[c].does.op /\ call'[c].does.id = n /\ call'[c].does.name = name
       /\ \A d \in QueryCalls \ {c} : call'[d] = call[d]
  BY <1>3, <1>8, <1>9, <1>10
<1>13. version \in [owner : QueryCalls \cup {NoCall}, name : QueryState]
       /\ version.owner = c /\ version.name = name
  BY DEF QueryState
<1> HIDE DEF version
<1>14. /\ renamed' \in [QueryIds -> [owner : QueryCalls \cup {NoCall}, name : QueryState]]
       /\ renamed'[n].owner = c /\ renamed'[n].name = name
       /\ \A m \in QueryIds \ {n} : renamed'[m] = renamed[m]
  BY <1>3, <1>6, <1>13 DEF QueryTypeOK
<1>15. \A m \in QueryIds : \/ renamed'[m] = renamed[m]
                           \/ {renamed[m].owner, renamed'[m].owner} \subseteq {c, NoCall}
  BY <1>5, <1>6, <1>14
<1>16. \A m \in QueryIds : renamed'[m].owner = NoCall => renamed'[m].name = Unsaved
  BY <1>14 DEF Unowned, QueryAssumption
<1>17. ASSUME NEW m \in QueryIds \ {n}  PROVE renamed[m].owner # c
  <2>1. renamed[m].owner = c => m = Id(c) /\ call[c].does.op = "rename"
    BY <1>3 DEF DraftSound
  <2> QED  BY <1>6, <2>1
<1>18. ASSUME NEW m \in QueryIds  PROVE DraftSound(c, m)'
  <2>1. CASE m = n
    <3>1. m = Id(c)'  BY <1>12, <2>1 DEF Id
    <3> QED  BY <1>3, <1>5, <1>6, <1>12, <1>14, <2>1, <3>1 DEF DraftSound, QueryAssumption
  <2>2. CASE m # n  BY <1>14, <1>17, <2>2 DEF DraftSound
  <2> QED  BY <2>1, <2>2
<1>19. CallSound(c)'  BY <1>5, <1>12 DEF CallSound
<1>20. ASSUME NEW m \in QueryIds \ {n}  PROVE name \notin {queries[m], renamed[m].name}
  <2>1. CASE renamed[m].owner = NoCall
    BY <1>3, <2>1 DEF NameTaken, OfOther, Unowned, QueryAssumption
  <2>2. CASE renamed[m].owner # NoCall
    <3>1. OfOther(c, m)  BY <1>17, <2>2 DEF OfOther
    <3>2. SUFFICES ASSUME name \in {queries[m], renamed[m].name}  PROVE FALSE  OBVIOUS
    <3>3. renamed[m].owner \in NameOpen(c, name)  BY <3>1, <3>2 DEF NameOpen
    <3> QED  BY <1>3, <3>3
  <2> QED  BY <2>1, <2>2
<1>21. KeysHeld'
  BY <1>3, <1>14, <1>20 DEF KeysHeld
<1> QED  BY <1>3, <1>12, <1>14, <1>15, <1>16, <1>18, <1>19, <1>21, NoQueryCommitted

LEMMA QueryCommits ==
  ASSUME QueryAssumption, QueryInv, NEW c \in QueryCalls, CommitQuery(c)
  PROVE  QueryInv'
<1> USE DEF QueryInv
<1>1. PICK does \in QueryCall : does = call[c].does  BY DEF QueryTypeOK
<1>2. PICK k \in QueryIds : k = does.id  BY DEF QueryCall
<1>3. /\ call[c].pc = "committing" /\ renamed' = Released(c) /\ Moves(c, "done")
      /\ queries' = [n \in QueryIds |-> IF renamed[n].owner = c THEN renamed[n].name ELSE queries[n]]
      /\ answers' = answers \cup {does}
  BY <1>1 DEF CommitQuery
<1>4. /\ call' \in [QueryCalls -> QueryRecord] /\ call'[c].pc = "done"
      /\ \A d \in QueryCalls \ {c} : call'[d] = call[d]
  BY <1>3, MovesFacts DEF QueryPcs
<1>5. NoQueryDraft \in [owner : QueryCalls \cup {NoCall}, name : QueryState]
      /\ NoQueryDraft.owner = NoCall /\ NoQueryDraft.name = Unsaved
  BY DEF NoQueryDraft, QueryState
<1>6. renamed' \in [QueryIds -> [owner : QueryCalls \cup {NoCall}, name : QueryState]]
      /\ \A n \in QueryIds :
           renamed'[n] = IF renamed[n].owner = c THEN NoQueryDraft ELSE renamed[n]
  BY <1>3, <1>5 DEF Released, QueryTypeOK
<1>7. queries' \in [QueryIds -> QueryState]  BY <1>3 DEF QueryTypeOK
<1>8. QueryTypeOK'
  <2>1. \A d \in QueryCalls : call'[d] \in QueryRecord  BY <1>4
  <2>2. \A d \in QueryCalls : call'[d].pc \in QueryPcs /\ call'[d].does \in QueryCall
    BY <2>1 DEF QueryRecord
  <2>3. answers' \subseteq QueryCall  BY <1>3 DEF QueryTypeOK
  <2> QED  BY <1>6, <1>7, <2>2, <2>3 DEF QueryTypeOK, QueryPcs
<1>9. \A n \in QueryIds : Unowned(n)' => renamed'[n].name = Unsaved
  BY <1>5, <1>6 DEF Unowned
\* Only the row of the request changes, into what the request does to it.
<1>10. ASSUME NEW n \in QueryIds, renamed[n].owner = c
       PROVE  /\ n = k /\ queries[n] # Deleted
              /\ queries'[n] = IF does.op = "delete" THEN Deleted ELSE does.name
  <2>1. DraftSound(c, n)  OBVIOUS
  <2> QED  BY <1>1, <1>2, <1>3, <1>10, <2>1 DEF DraftSound, Id
<1>11. \A n \in QueryIds : renamed[n].owner # c => queries'[n] = queries[n]  BY <1>3
<1>12. does.name \in QueryNames  BY DEF QueryCall
<1>13. \A n \in QueryIds : /\ queries[n] = Deleted => queries'[n] = Deleted
                           /\ queries[n] # Unsaved => queries'[n] # Unsaved
  BY <1>10, <1>11, <1>12 DEF QueryAssumption
<1>14. ASSUME NEW d \in QueryCalls, NEW n \in QueryIds  PROVE DraftSound(d, n)'
  <2>1. CASE d = c  BY <1>5, <1>6, <2>1 DEF DraftSound, QueryAssumption
  <2>2. CASE d # c
    <3> SUFFICES ASSUME renamed'[n].owner = d  PROVE DraftSound(d, n)'
      BY DEF DraftSound
    <3>1. renamed[n].owner = d /\ renamed'[n] = renamed[n]  BY <1>5, <1>6 DEF QueryAssumption
    <3>2. queries'[n] = queries[n]  BY <1>11, <2>2, <3>1
    <3>3. DraftSound(d, n) /\ call'[d] = call[d]  BY <1>4, <2>2
    <3> QED  BY <3>1, <3>2, <3>3 DEF DraftSound, Id
  <2> QED  BY <2>1, <2>2
<1>15. ASSUME NEW d \in QueryCalls  PROVE CallSound(d)'
  <2>1. CASE d = c  BY <1>4, <2>1 DEF CallSound
  <2>2. CASE d # c
    <3>1. PICK n \in QueryIds : n = Id(d)  BY DEF Id, QueryTypeOK, QueryCall
    <3>2. CallSound(d) /\ call'[d] = call[d] /\ n = Id(d)'  BY <1>4, <2>2, <3>1 DEF Id
    <3>3. renamed[n].owner = d => renamed'[n].owner = d  BY <1>6, <2>2
    <3> QED  BY <1>13, <3>1, <3>2, <3>3 DEF CallSound
  <2> QED  BY <2>1, <2>2
<1>16. KeysHeld'
  <2> SUFFICES ASSUME NEW n \in QueryIds, NEW m \in QueryIds, n # m, renamed'[n].name \in QueryNames
               PROVE  renamed'[n].name \notin {queries'[m], renamed'[m].name}
    BY DEF KeysHeld
  <2>1. renamed'[n] = renamed[n] /\ renamed[n].owner # c
    BY <1>5, <1>6 DEF QueryAssumption
  <2>2. renamed[n].name \notin {queries[m], renamed[m].name}  BY <2>1 DEF KeysHeld
  <2>3. CASE renamed[m].owner = c
    <3>1. renamed'[m].name = Unsaved /\ queries'[m] = renamed[m].name  BY <1>3, <1>5, <1>6, <2>3
    <3> QED  BY <2>1, <2>2, <3>1 DEF QueryAssumption
  <2>4. CASE renamed[m].owner # c  BY <1>6, <1>11, <2>1, <2>2, <2>4
  <2> QED  BY <2>3, <2>4
<1>17. NamesUnique'
  <2> SUFFICES ASSUME NEW n \in QueryIds, NEW m \in QueryIds, n # m, queries'[n] \in QueryNames
               PROVE  queries'[n] # queries'[m]
    BY DEF NamesUnique
  <2>1. CASE renamed[n].owner = c
    <3>1. queries'[n] = renamed[n].name /\ renamed[m].owner # c
      BY <1>3, <1>10, <2>1
    <3>2. renamed[n].name # queries[m]  BY <3>1 DEF KeysHeld
    <3> QED  BY <1>11, <3>1, <3>2
  <2>2. CASE renamed[m].owner = c
    <3>1. queries'[m] = renamed[m].name /\ renamed[n].owner # c
      BY <1>3, <1>10, <2>2
    <3>2. renamed[m].name \in QueryNames => renamed[m].name # queries[n]  BY DEF KeysHeld
    <3> QED  BY <1>11, <3>1, <3>2
  <2>3. CASE renamed[n].owner # c /\ renamed[m].owner # c
    BY <1>11, <2>3 DEF NamesUnique
  <2> QED  BY <2>1, <2>2, <2>3
<1>18. NamesAnswered'
  <2> SUFFICES ASSUME NEW n \in QueryIds
               PROVE  /\ queries'[n] # SavedAtStart[n] =>
                           IF queries'[n] = Deleted
                           THEN \E a \in answers' : a.op = "delete" /\ a.id = n
                           ELSE \E a \in answers' : a.id = n /\ a.name = queries'[n] /\ a.op # "delete"
                      /\ (\E a \in answers' : a.op = "delete" /\ a.id = n) => queries'[n] = Deleted
    BY DEF NamesAnswered
  <2>1. /\ queries[n] # SavedAtStart[n] =>
             IF queries[n] = Deleted
             THEN \E a \in answers : a.op = "delete" /\ a.id = n
             ELSE \E a \in answers : a.id = n /\ a.name = queries[n] /\ a.op # "delete"
        /\ (\E a \in answers : a.op = "delete" /\ a.id = n) => queries[n] = Deleted
    BY DEF NamesAnswered
  <2>2. does \in answers' /\ answers \subseteq answers'  BY <1>3
  <2>3. does.op = "delete" /\ does.id = n => queries'[n] = Deleted
    <3> SUFFICES ASSUME does.op = "delete", k = n  PROVE queries'[n] = Deleted
      BY <1>2
    <3>1. renamed[n].owner = c \/ queries[n] = Deleted
      BY <1>1, <1>2, <1>3 DEF CallSound, Id
    <3> QED  BY <1>10, <1>13, <3>1
  <2>4. CASE renamed[n].owner = c
    <3>1. does.id = n /\ queries'[n] = IF does.op = "delete" THEN Deleted ELSE does.name
      BY <1>2, <1>10, <2>4
    <3>2. does.name # Deleted  BY <1>12 DEF QueryAssumption
    <3> QED  BY <1>3, <1>13, <2>1, <2>2, <2>3, <3>1, <3>2
  <2>5. CASE renamed[n].owner # c
    BY <1>3, <1>11, <2>1, <2>2, <2>3, <2>5
  <2> QED  BY <2>4, <2>5
<1> QED  BY <1>4, <1>8, <1>9, <1>14, <1>15, <1>16, <1>17, <1>18

LEMMA QueryInductive ==
  ASSUME QueryAssumption, QueryInv, [QueryNext]_queryVars
  PROVE  QueryInv'
<1>1. CASE QueryNext
  <2> PICK c \in QueryCalls :
        (\E does \in CallOps[c] : ReceiveCall(c, does)) \/ AbortQuery(c) \/ ServeCall(c)
    BY <1>1 DEF QueryNext
  <2>1. CASE \E does \in CallOps[c] : ReceiveCall(c, does)  BY <2>1, CallIsReceived
  <2>2. CASE AbortQuery(c) \/ RefuseQuery(c) \/ KeyConflict(c) \/ BreakSwap(c)
    BY <2>2, CallEnds DEF AbortQuery, RefuseQuery, KeyConflict, BreakSwap
  <2>3. CASE ReadQuery(c)  BY <2>3, QueryIsRead
  <2>4. CASE LockQuery(c)  BY <2>4, QueryIsLocked
  <2>5. CASE LockMissing(c)
    <3>1. CASE call[c].does.op = "rename"  BY <2>5, <3>1, CallEnds DEF LockMissing
    <3>2. CASE call[c].does.op # "rename"  BY <2>5, <3>2, DeletedMeanwhile
    <3> QED  BY <3>1, <3>2
  <2>6. CASE KeyQuery(c)  BY <2>6, QueryIsKeyed
  <2>7. CASE CommitQuery(c)  BY <2>7, QueryCommits
  <2> QED  BY <2>1, <2>2, <2>3, <2>4, <2>5, <2>6, <2>7 DEF ServeCall
<1>2. CASE UNCHANGED queryVars
  <2>1. UNCHANGED <<queries, renamed, call, answers>>  BY <1>2 DEF queryVars
  <2>2. QueryTypeOK' /\ KeysHeld' /\ NamesUnique' /\ NamesAnswered'
    BY <2>1 DEF QueryInv, QueryTypeOK, KeysHeld, NamesUnique, NamesAnswered
  <2>3. \A c \in QueryCalls, n \in QueryIds : DraftSound(c, n)'
    BY <2>1 DEF QueryInv, DraftSound, Id
  <2>4. \A c \in QueryCalls : CallSound(c)'  BY <2>1 DEF QueryInv, CallSound, Id
  <2> QED  BY <2>1, <2>2, <2>3, <2>4 DEF QueryInv, Unowned
<1> QED  BY <1>1, <1>2

LEMMA QueryInvSound ==
  ASSUME QueryAssumption, QueryInv
  PROVE  QueriesSound
<1>1. QueriesReleased
  <2> SUFFICES ASSUME NEW n \in QueryIds, renamed[n].owner # NoCall
               PROVE  call[renamed[n].owner].pc \in {"keying", "committing"}
    BY DEF QueriesReleased
  <2>1. PICK c \in QueryCalls : c = renamed[n].owner  BY DEF QueryInv, QueryTypeOK
  <2> QED  BY <2>1 DEF QueryInv, DraftSound
<1> QED  BY <1>1 DEF QueryInv, QueriesSound

-----------------------------------------------------------------------------
(* Demo data (DemoData).                                                   *)

Landed(b) == b = Original \/ landed[b] # "no"

\* No reset was under way when it was committed.
Steady(b) == b = Original \/ landed[b] = "whole"

StoredWhole(b) == \A t \in Tables : b \in stored[t]

StoredNowhere(b) == \A t \in Tables : b \notin stored[t]

\* How far a seed is, and what it has found and deleted, fit.
SeedSound(s) ==
  /\ seed[s].pc # "resetting" => \A t \in Tables : deleted[s][t] = {}
  /\ seed[s].pc \in {"new", "resetting", "inserting", "linking", "filling", "inserted", "refused"}
       => landed[s] = "no"
  /\ seed[s].pc \in {"caching", "answered"} => landed[s] # "no"
  /\ seed[s].pc = "caching" => seed[s].at < Len(SeedKeys)
  /\ \A b \in seed[s].found : Landed(b)
  /\ \A t \in Tables : \A b \in deleted[s][t] : Landed(b)
  /\ seed[s].pc = "resetting" =>
       \A i \in 1 .. Len(ResetOrder) :
         IF i <= seed[s].at
         THEN seed[s].found \cap stored[ResetOrder[i]] \subseteq deleted[s][ResetOrder[i]]
         ELSE deleted[s][ResetOrder[i]] = {}
  /\ seed[s].pc = "resetting" /\ seed[s].at = Len(ResetOrder) =>
       \A t \in Tables : deleted[s][t] \cap stored["alert_events"] \subseteq deleted[s]["alert_events"]
  /\ Inserted(s) => active = {} /\ \A other \in Seeders \ {s} : ~Inserted(other)

\* A reset has deleted a steady batch from all the tables it has been to and
\* from no other, or there is none of it left.
ResetSound(s, b) ==
  Steady(b) /\ seed[s].pc = "resetting" =>
    \/ /\ \A i \in 1 .. Len(ResetOrder) : b \in deleted[s][ResetOrder[i]] <=> i <= seed[s].at
       /\ StoredWhole(b)
    \/ /\ \A t \in Tables : b \notin deleted[s][t]
       /\ seed[s].at >= 1 => StoredNowhere(b)

\* Only one of two resets gets at a row of the first table.
ResetsApart ==
  \A s, other \in Seeders : s # other =>
    deleted[s][ResetOrder[1]] \cap deleted[other][ResetOrder[1]] \cap stored[ResetOrder[1]] = {}

DemoInv ==
  /\ DemoTypeOK
  /\ \A s \in Seeders : SeedSound(s)
  /\ \A s \in Seeders, b \in Batches : ResetSound(s, b)
  /\ ResetsApart
  /\ DemoDataSound

LEMMA TableFacts ==
  /\ Len(ResetOrder) = 5
  /\ \A i \in 1 .. 5 : ResetOrder[i] \in Tables
  /\ \A t \in Tables : \E i \in 1 .. 5 : t = ResetOrder[i]
  /\ \A i, j \in 1 .. 5 : ResetOrder[i] = ResetOrder[j] => i = j
  /\ ResetOrder[5] = "alert_events" /\ "alert_events" \in Tables
<1>1. Len(ResetOrder) = 5 /\ DOMAIN ResetOrder = 1 .. 5  BY DEF ResetOrder
<1>2. \A i \in 1 .. 5 : ResetOrder[i] \in Tables  BY <1>1 DEF Tables, Range
<1>3. \A t \in Tables : \E i \in 1 .. 5 : t = ResetOrder[i]  BY <1>1 DEF Tables, Range
<1>4. ResetOrder[5] = "alert_events"  BY DEF ResetOrder
<1>5. ASSUME NEW i \in 1 .. 5, NEW j \in 1 .. 5, ResetOrder[i] = ResetOrder[j]  PROVE i = j
  <2>1. /\ ResetOrder[1] = "notifications" /\ ResetOrder[2] = "heal_actions"
        /\ ResetOrder[3] = "audit_logs" /\ ResetOrder[4] = "agent_runs"
    BY DEF ResetOrder
  <2>2. i \in {1, 2, 3, 4, 5} /\ j \in {1, 2, 3, 4, 5}  OBVIOUS
  <2> QED  BY <1>4, <1>5, <2>1, <2>2
<1> QED  BY <1>1, <1>2, <1>3, <1>4, <1>5

LEMMA KeyFacts ==
  /\ Len(SeedKeys) = 4
  /\ \A i \in 1 .. 4 : SeedKeys[i] \in Range(SeedKeys)
  /\ {"recent_logs", "recent_errors"} \subseteq Range(SeedKeys)
<1>1. Len(SeedKeys) = 4 /\ DOMAIN SeedKeys = 1 .. 4  BY DEF SeedKeys
<1>2. SeedKeys[1] = "recent_logs" /\ SeedKeys[2] = "recent_errors"  BY DEF SeedKeys
<1> QED  BY <1>1, <1>2 DEF Range

SeedPcs == {"new", "resetting", "inserting", "linking", "filling", "inserted", "caching",
            "answered", "refused", "error"}

LEMMA SeedAtFacts ==
  ASSUME DemoTypeOK, NEW s \in Seeders, NEW label \in SeedPcs, SeedAt(s, label)
  PROVE  /\ seed' \in [Seeders -> SeedState]
         /\ seed'[s].pc = label /\ seed'[s].at = 0
         /\ seed'[s].reset = seed[s].reset /\ seed'[s].found = seed[s].found
         /\ \A o \in Seeders \ {s} : seed'[o] = seed[o]
<1> DEFINE new == [seed[s] EXCEPT !.pc = label, !.at = 0]
<1>1. seed[s] \in SeedState /\ 0 \in 0 .. Len(ResetOrder)  BY TableFacts DEF DemoTypeOK
<1>2. new \in SeedState  BY <1>1, Zenon DEF SeedState, SeedPcs
<1>3. new.pc = label /\ new.at = 0 /\ new.reset = seed[s].reset /\ new.found = seed[s].found
  BY <1>1 DEF SeedState
<1>4. seed' = [seed EXCEPT ![s] = new]  BY DEF SeedAt
<1> HIDE DEF new
<1> QED  BY <1>2, <1>3, <1>4 DEF DemoTypeOK

LEMMA StepAtFacts ==
  ASSUME DemoTypeOK, NEW s \in Seeders, NEW n \in 0 .. Len(ResetOrder),
         seed' = [seed EXCEPT ![s].at = n]
  PROVE  /\ seed' \in [Seeders -> SeedState]
         /\ seed'[s].pc = seed[s].pc /\ seed'[s].at = n
         /\ seed'[s].reset = seed[s].reset /\ seed'[s].found = seed[s].found
         /\ \A o \in Seeders \ {s} : seed'[o] = seed[o]
<1> DEFINE new == [seed[s] EXCEPT !.at = n]
<1>1. seed[s] \in SeedState  BY DEF DemoTypeOK
<1>2. new \in SeedState  BY <1>1, Zenon DEF SeedState
<1>3. new.pc = seed[s].pc /\ new.at = n /\ new.reset = seed[s].reset /\ new.found = seed[s].found
  BY <1>1 DEF SeedState
<1>4. seed' = [seed EXCEPT ![s] = new]  OBVIOUS
<1> HIDE DEF new
<1> QED  BY <1>2, <1>3, <1>4 DEF DemoTypeOK

LEMMA DemoInitial ==
  ASSUME SeedAssumption, DemoInit
  PROVE  DemoInv
<1> DEFINE fresh == [pc |-> "new", reset |-> FALSE, at |-> 0, found |-> {}]
<1>1. fresh \in SeedState /\ fresh.pc = "new" /\ fresh.found = {}
  BY TableFacts DEF SeedState
<1>2. /\ seed = [s \in Seeders |-> fresh] /\ active = {}
      /\ stored = [t \in Tables |-> {Original}] /\ landed = [s \in Seeders |-> "no"]
      /\ keys = [k \in Range(SeedKeys) |-> Original]
      /\ deleted = [s \in Seeders |-> Nothing]
  BY DEF DemoInit
<1> HIDE DEF fresh
<1>3. \A s \in Seeders : seed[s].pc = "new" /\ seed[s].found = {} /\ landed[s] = "no"
  BY <1>1, <1>2
<1>4. \A s \in Seeders, t \in Tables : deleted[s][t] = {}  BY <1>2 DEF Nothing
<1>5. DemoTypeOK
  <2>1. deleted \in [Seeders -> [Tables -> SUBSET Batches]]  BY <1>2 DEF Nothing
  <2> QED  BY <1>1, <1>2, <2>1 DEF DemoTypeOK, Batches
<1>6. \A s \in Seeders : SeedSound(s)
  BY <1>3, <1>4 DEF SeedSound, Inserted
<1>7. \A s \in Seeders, b \in Batches : ResetSound(s, b)  BY <1>3 DEF ResetSound
<1>8. ResetsApart  BY <1>4, TableFacts DEF ResetsApart
<1>9. CachedAfterCommit
  BY <1>2 DEF CachedAfterCommit, SeedAssumption
<1>10. AlertsKeepTheirRows /\ BatchesWhole
  BY <1>2, TableFacts DEF AlertsKeepTheirRows, BatchesWhole
<1>11. OneActiveDemoAlert /\ ResetsRemove
  BY <1>2, <1>3 DEF OneActiveDemoAlert, ResetsRemove
<1> QED  BY <1>5, <1>6, <1>7, <1>8, <1>9, <1>10, <1>11 DEF DemoInv, DemoDataSound

\* Another seed is as sound as before while the rows it has deleted or found
\* do not come back, and nobody else gets past the unique index.
LEMMA OtherSeed ==
  ASSUME DemoInv, NEW s \in Seeders,
         seed'[s] = seed[s], deleted'[s] = deleted[s], landed'[s] = landed[s],
         \A b \in Batches : Landed(b) => Landed(b)',
         \A t \in Tables : \A b \in stored'[t] : Landed(b) => b \in stored[t],
         Inserted(s) => active' = {} /\ \A other \in Seeders \ {s} : ~Inserted(other)'
  PROVE  SeedSound(s)'
<1> USE DEF DemoInv
<1>1. SeedSound(s)  OBVIOUS
<1>2. seed[s].found \subseteq Batches /\ \A t \in Tables : deleted[s][t] \subseteq Batches
  BY DEF DemoTypeOK, SeedState
<1>3. "alert_events" \in Tables /\ \A i \in 1 .. Len(ResetOrder) : ResetOrder[i] \in Tables
  BY TableFacts
<1>4. \A t \in Tables : seed[s].found \cap stored'[t] \subseteq seed[s].found \cap stored[t]
  BY <1>1, <1>2 DEF SeedSound
<1>5. \A t \in Tables : deleted[s][t] \cap stored'["alert_events"]
                          \subseteq deleted[s][t] \cap stored["alert_events"]
  BY <1>1, <1>2, <1>3 DEF SeedSound
<1>6. Inserted(s)' <=> Inserted(s)  BY DEF Inserted
<1> QED  BY <1>1, <1>2, <1>3, <1>4, <1>5, <1>6 DEF SeedSound

LEMMA OtherReset ==
  ASSUME NEW s \in Seeders, NEW b \in Batches, ResetSound(s, b),
         seed'[s] = seed[s], deleted'[s] = deleted[s], Steady(b)' => Steady(b),
         \A t \in Tables : b \in stored'[t] <=> b \in stored[t]
  PROVE  ResetSound(s, b)'
<1>1. StoredWhole(b)' <=> StoredWhole(b)  BY DEF StoredWhole
<1>2. StoredNowhere(b)' <=> StoredNowhere(b)  BY DEF StoredNowhere
<1> QED  BY <1>1, <1>2 DEF ResetSound

\* A step of one seed that commits no rows.
LEMMA NothingStored ==
  ASSUME SeedAssumption, DemoInv, DemoTypeOK', NEW s \in Seeders,
         UNCHANGED <<stored, landed>>, active' \subseteq active,
         \A o \in Seeders \ {s} : seed'[o] = seed[o] /\ deleted'[o] = deleted[o],
         \A k \in DOMAIN keys' : \/ k \in DOMAIN keys /\ keys'[k] = keys[k]
                                 \/ keys'[k] = Collected
                                 \/ keys'[k] = s /\ landed[s] # "no",
         Inserted(s)' => \A o \in Seeders \ {s} : ~Inserted(o),
         SeedSound(s)', \A b \in Batches : ResetSound(s, b)', ResetsApart',
         seed'[s].reset /\ seed'[s].pc \notin {"new", "resetting", "refused", "error"} =>
           \A t \in Tables : seed'[s].found \cap stored[t] = {}
  PROVE  DemoInv'
<1> USE DEF DemoInv, DemoDataSound
<1>1. \A b : (Landed(b)' <=> Landed(b)) /\ (Steady(b)' <=> Steady(b))  BY DEF Landed, Steady
<1>2. ASSUME NEW o \in Seeders \ {s}  PROVE SeedSound(o)'
  <2>1. \A other \in Seeders \ {s} : Inserted(other)' <=> Inserted(other)  BY DEF Inserted
  <2>2. Inserted(o) => active' = {} /\ \A other \in Seeders \ {o} : ~Inserted(other)'
    <3>1. SeedSound(o)  OBVIOUS
    <3> QED  BY <2>1, <3>1 DEF SeedSound
  <2> QED  BY <1>1, <2>2, OtherSeed
<1>3. ASSUME NEW o \in Seeders \ {s}, NEW b \in Batches  PROVE ResetSound(o, b)'
  BY <1>1, OtherReset
<1>4. CachedAfterCommit'
  BY DEF CachedAfterCommit, SeedAssumption
<1>5. AlertsKeepTheirRows' /\ BatchesWhole'  BY DEF AlertsKeepTheirRows, BatchesWhole
<1>6. OneActiveDemoAlert'  BY DEF OneActiveDemoAlert
<1>7. ResetsRemove'  BY DEF ResetsRemove
<1> QED  BY <1>2, <1>3, <1>4, <1>5, <1>6, <1>7

LEMMA SeedBegins ==
  ASSUME SeedAssumption, DemoInv, NEW s \in Seeders, \E asked \in SeedAsks[s] : BeginSeed(s, asked)
  PROVE  DemoInv'
<1> USE DEF DemoInv, DemoDataSound
<1> PICK asked \in SeedAsks[s] : BeginSeed(s, asked)  OBVIOUS
<1>0. PICK found : found = UNION {stored[t] : t \in Tables}  OBVIOUS
<1> DEFINE label == IF Production /\ asked.via = "api" THEN "refused"
                    ELSE IF asked.reset THEN "resetting" ELSE "inserting"
           new == [pc |-> label, reset |-> asked.reset, at |-> 0, found |-> found]
<1>1. asked \in SeedAsk  BY DEF SeedAssumption
<1>2. label \in {"refused", "resetting", "inserting"} /\ (label = "inserting" => ~asked.reset)
  OBVIOUS
<1>3. seed[s].pc = "new" /\ seed' = [seed EXCEPT ![s] = new]
      /\ UNCHANGED <<stored, active, deleted, keys, landed>>
  BY <1>0 DEF BeginSeed
<1> HIDE DEF label
<1>4. found \subseteq Batches  BY <1>0 DEF DemoTypeOK
<1>5. new \in SeedState /\ new.pc = label /\ new.at = 0 /\ new.found = found
      /\ new.reset = asked.reset
  BY <1>1, <1>2, <1>4, TableFacts DEF SeedState, SeedAsk
<1> HIDE DEF new
<1>6. /\ seed' \in [Seeders -> SeedState] /\ seed'[s].pc = label /\ seed'[s].at = 0
      /\ seed'[s].found = found /\ seed'[s].reset = asked.reset
      /\ \A o \in Seeders \ {s} : seed'[o] = seed[o]
  BY <1>3, <1>5 DEF DemoTypeOK
<1>7. DemoTypeOK'  BY <1>3, <1>6 DEF DemoTypeOK
<1>8. \A b : Landed(b)' <=> Landed(b)  BY <1>3 DEF Landed
<1>9. \A b \in found : Landed(b)  BY <1>0 DEF CachedAfterCommit, Landed, DemoTypeOK, Batches
<1>10. landed[s] = "no" /\ \A t \in Tables : deleted[s][t] = {}  BY <1>3 DEF SeedSound
<1>11. ~Inserted(s)'  BY <1>2, <1>6 DEF Inserted
<1>12. SeedSound(s)'
  BY <1>2, <1>3, <1>6, <1>8, <1>9, <1>10, <1>11, TableFacts DEF SeedSound
<1>13. \A b \in Batches : ResetSound(s, b)'
  BY <1>3, <1>6, <1>10 DEF ResetSound
<1>14. ResetsApart'  BY <1>3 DEF ResetsApart
<1> QED  BY <1>2, <1>3, <1>6, <1>7, <1>11, <1>12, <1>13, <1>14, NothingStored

\* A seed moves on without deleting or storing anything.
LEMMA SeedMoves ==
  ASSUME SeedAssumption, DemoInv, NEW s \in Seeders,
         InsertAlerts(s) \/ InsertRuns(s) \/ InsertRest(s)
  PROVE  DemoInv'
<1> USE DEF DemoInv, DemoDataSound
<1>1. PICK label \in {"linking", "filling", "inserted"} :
        SeedAt(s, label) /\ UNCHANGED <<stored, active, deleted, keys, landed>>
  BY DEF InsertAlerts, InsertRuns, InsertRest
<1>2. seed[s].pc \in {"inserting", "linking", "filling"}
  BY DEF InsertAlerts, InsertRuns, InsertRest
<1>3. active = {} /\ \A o \in Seeders \ {s} : ~Inserted(o)
  <2>1. CASE InsertAlerts(s)
    BY <2>1 DEF InsertAlerts, FingerprintsDecided, DemoTypeOK
  <2>2. CASE ~InsertAlerts(s)
    <3>1. Inserted(s)  BY <2>2 DEF InsertRuns, InsertRest, Inserted
    <3> QED  BY <3>1 DEF SeedSound
  <2> QED  BY <2>1, <2>2
<1>4. /\ seed' \in [Seeders -> SeedState] /\ seed'[s].pc = label /\ seed'[s].at = 0
      /\ seed'[s].reset = seed[s].reset /\ seed'[s].found = seed[s].found
      /\ \A o \in Seeders \ {s} : seed'[o] = seed[o]
  BY <1>1, SeedAtFacts DEF SeedPcs
<1>5. DemoTypeOK'  BY <1>1, <1>4 DEF DemoTypeOK
<1>6. SeedSound(s)'
  <2>1. SeedSound(s)  OBVIOUS
  <2>2. \A b : Landed(b)' <=> Landed(b)  BY <1>1 DEF Landed
  <2>3. \A o \in Seeders \ {s} : ~Inserted(o)'  BY <1>3, <1>4 DEF Inserted
  <2> QED  BY <1>1, <1>2, <1>3, <1>4, <2>1, <2>2, <2>3 DEF SeedSound
<1>7. \A b \in Batches : ResetSound(s, b)'  BY <1>4 DEF ResetSound
<1>8. ResetsApart'  BY <1>1 DEF ResetsApart
<1>9. seed'[s].reset => \A t \in Tables : seed'[s].found \cap stored[t] = {}
  BY <1>2, <1>4 DEF ResetsRemove
<1> QED  BY <1>1, <1>3, <1>4, <1>5, <1>6, <1>7, <1>8, <1>9, NothingStored

LEMMA SeedErrs ==
  ASSUME SeedAssumption, DemoInv, NEW s \in Seeders, InsertConflict(s) \/ SeedFails(s)
  PROVE  DemoInv'
<1> USE DEF DemoInv, DemoDataSound
<1>1. /\ SeedAt(s, "error") /\ UNCHANGED <<stored, active, keys, landed>>
      /\ \/ UNCHANGED deleted /\ seed[s].pc = "inserting"
         \/ deleted' = [deleted EXCEPT ![s] = Nothing]
  BY DEF InsertConflict, SeedFails
<1>2. /\ seed' \in [Seeders -> SeedState] /\ seed'[s].pc = "error" /\ seed'[s].found = seed[s].found
      /\ \A o \in Seeders \ {s} : seed'[o] = seed[o]
  BY <1>1, SeedAtFacts DEF SeedPcs
<1>3. /\ deleted' \in [Seeders -> [Tables -> SUBSET Batches]]
      /\ \A t \in Tables : deleted'[s][t] = {}
      /\ \A o \in Seeders \ {s} : deleted'[o] = deleted[o]
  <2>1. CASE UNCHANGED deleted /\ seed[s].pc = "inserting"
    <3>1. SeedSound(s)  OBVIOUS
    <3> QED  BY <2>1, <3>1 DEF SeedSound, DemoTypeOK
  <2>2. CASE deleted' = [deleted EXCEPT ![s] = Nothing]
    <3>1. Nothing \in [Tables -> SUBSET Batches] /\ \A t \in Tables : Nothing[t] = {}
      BY DEF Nothing
    <3> QED  BY <2>2, <3>1 DEF DemoTypeOK
  <2> QED  BY <1>1, <2>1, <2>2
<1>4. DemoTypeOK'  BY <1>1, <1>2, <1>3 DEF DemoTypeOK
<1>5. ~Inserted(s)'  BY <1>2 DEF Inserted
<1>6. SeedSound(s)'
  <2>1. \A b : Landed(b)' <=> Landed(b)  BY <1>1 DEF Landed
  <2>2. \A b \in seed[s].found : Landed(b)  BY DEF SeedSound
  <2> QED  BY <1>2, <1>3, <1>5, <2>1, <2>2 DEF SeedSound
<1>7. \A b \in Batches : ResetSound(s, b)'  BY <1>2 DEF ResetSound
<1>8. ResetsApart'
  <2>1. \A o \in Seeders : deleted'[o][ResetOrder[1]] \subseteq deleted[o][ResetOrder[1]]
    BY <1>3, TableFacts DEF DemoTypeOK
  <2> QED  BY <1>1, <2>1 DEF ResetsApart
<1> QED  BY <1>1, <1>2, <1>3, <1>4, <1>5, <1>6, <1>7, <1>8, NothingStored

LEMMA KeyIsWritten ==
  ASSUME SeedAssumption, DemoInv, NEW s \in Seeders, WriteKey(s)
  PROVE  DemoInv'
<1> USE DEF DemoInv, DemoDataSound
<1>1. PICK next \in 1 .. 4 : next = seed[s].at + 1
  BY KeyFacts DEF WriteKey, SeedSound, DemoTypeOK, SeedState
<1>2. /\ seed[s].pc = "caching" /\ keys' = [keys EXCEPT ![SeedKeys[next]] = s]
      /\ IF next = 4 THEN SeedAt(s, "answered") ELSE seed' = [seed EXCEPT ![s].at = next]
      /\ UNCHANGED <<stored, active, deleted, landed>>
  BY <1>1, KeyFacts DEF WriteKey
<1>3. /\ seed' \in [Seeders -> SeedState] /\ seed'[s].pc \in {"caching", "answered"}
      /\ seed'[s].pc = "caching" => seed'[s].at < 4
      /\ seed'[s].reset = seed[s].reset /\ seed'[s].found = seed[s].found
      /\ \A o \in Seeders \ {s} : seed'[o] = seed[o]
  <2>1. CASE next = 4  BY <1>2, <2>1, SeedAtFacts DEF SeedPcs
  <2>2. CASE next # 4
    <3>1. next \in 0 .. Len(ResetOrder) /\ seed' = [seed EXCEPT ![s].at = next] /\ next < 4
      BY <1>2, <2>2, TableFacts
    <3> QED  BY <1>2, <3>1, StepAtFacts
  <2> QED  BY <2>1, <2>2
<1>4. keys' \in [Range(SeedKeys) -> Batches \cup {Collected}]
      /\ \A k \in DOMAIN keys' : k \in DOMAIN keys /\ (keys'[k] = keys[k] \/ keys'[k] = s)
  BY <1>2, KeyFacts DEF DemoTypeOK, Batches
<1>5. DemoTypeOK'  BY <1>2, <1>3, <1>4 DEF DemoTypeOK
<1>6. ~Inserted(s)' /\ landed[s] # "no"  BY <1>2, <1>3 DEF Inserted, SeedSound
<1>7. SeedSound(s)'
  <2>1. SeedSound(s)  OBVIOUS
  <2>2. \A b : Landed(b)' <=> Landed(b)  BY <1>2 DEF Landed
  <2> QED  BY <1>2, <1>3, <1>6, <2>1, <2>2, KeyFacts DEF SeedSound
<1>8. \A b \in Batches : ResetSound(s, b)'  BY <1>3 DEF ResetSound
<1>9. ResetsApart'  BY <1>2 DEF ResetsApart
<1>10. seed'[s].reset => \A t \in Tables : seed'[s].found \cap stored[t] = {}
  BY <1>2, <1>3 DEF ResetsRemove
<1> QED  BY <1>2, <1>3, <1>4, <1>5, <1>6, <1>7, <1>8, <1>9, <1>10, NothingStored

LEMMA TableIsDeleted ==
  ASSUME SeedAssumption, DemoInv, NEW s \in Seeders, DeleteTable(s)
  PROVE  DemoInv'
<1> USE DEF DemoInv, DemoDataSound
<1>0. seed[s].at \in 0 .. 5 /\ seed[s].at < 5
  <2>1. seed[s].at < Len(ResetOrder)  BY DEF DeleteTable
  <2> QED  BY <2>1, TableFacts DEF DemoTypeOK, SeedState
<1>1. PICK k \in 1 .. 5 : k = seed[s].at + 1  BY <1>0
<1>2. PICK table \in Tables : table = ResetOrder[k]  BY TableFacts
<1>3. /\ seed[s].pc = "resetting" /\ BeingDeleted(table) \cap stored[table] = {}
      /\ deleted' = [deleted EXCEPT ![s][table] = stored[table]]
      /\ seed' = [seed EXCEPT ![s].at = k] /\ UNCHANGED <<stored, active, keys, landed>>
  BY <1>1, <1>2 DEF DeleteTable
<1>4. /\ seed' \in [Seeders -> SeedState] /\ seed'[s].pc = "resetting" /\ seed'[s].at = k
      /\ seed'[s].found = seed[s].found
      /\ \A o \in Seeders \ {s} : seed'[o] = seed[o]
  <2>1. k \in 0 .. Len(ResetOrder)  BY TableFacts
  <2> QED  BY <1>3, <2>1, StepAtFacts
<1>5. /\ deleted' \in [Seeders -> [Tables -> SUBSET Batches]]
      /\ deleted'[s][table] = stored[table]
      /\ \A t \in Tables \ {table} : deleted'[s][t] = deleted[s][t]
      /\ \A o \in Seeders \ {s} : deleted'[o] = deleted[o]
  BY <1>3 DEF DemoTypeOK
<1>6. DemoTypeOK'  BY <1>3, <1>4, <1>5 DEF DemoTypeOK
<1>7. ~Inserted(s)'  BY <1>4 DEF Inserted
<1>8. \A b : Landed(b)' <=> Landed(b)  BY <1>3 DEF Landed
<1>9. \A b \in stored[table] : Landed(b)
  BY DEF CachedAfterCommit, Landed, DemoTypeOK, Batches
<1>10. SeedSound(s)'
  <2>1. SeedSound(s)  OBVIOUS
  <2>2. \A i \in 1 .. 5 : ResetOrder[i] \in Tables /\ (ResetOrder[i] = table <=> i = k)
    BY <1>2, TableFacts
  <2>3. ASSUME NEW i \in 1 .. 5
        PROVE  IF i <= k THEN seed[s].found \cap stored[ResetOrder[i]] \subseteq deleted'[s][ResetOrder[i]]
               ELSE deleted'[s][ResetOrder[i]] = {}
    <3>1. CASE i = k  BY <1>5, <2>2, <3>1
    <3>2. CASE i # k
      <4>1. deleted'[s][ResetOrder[i]] = deleted[s][ResetOrder[i]]  BY <1>5, <2>2, <3>2
      <4>2. i <= k <=> i <= seed[s].at  BY <1>1, <3>2 DEF DemoTypeOK, SeedState
      <4> QED  BY <1>3, <2>1, <4>1, <4>2, TableFacts DEF SeedSound
    <3> QED  BY <3>1, <3>2
  <2>4. k = 5 => \A t \in Tables :
          deleted'[s][t] \cap stored["alert_events"] \subseteq deleted'[s]["alert_events"]
    BY <1>2, <1>5, TableFacts
  <2>5. \A t \in Tables : \A b \in deleted'[s][t] : Landed(b)
    BY <1>5, <1>9, <2>1 DEF SeedSound
  <2> QED  BY <1>3, <1>4, <1>7, <1>8, <2>1, <2>3, <2>4, <2>5, TableFacts DEF SeedSound
<1>11. ASSUME NEW b \in Batches  PROVE ResetSound(s, b)'
  <2> SUFFICES ASSUME Steady(b)
               PROVE  \/ /\ \A i \in 1 .. 5 : b \in deleted'[s][ResetOrder[i]] <=> i <= k
                         /\ StoredWhole(b)
                      \/ (\A t \in Tables : b \notin deleted'[s][t]) /\ StoredNowhere(b)
    BY <1>3, <1>4, TableFacts DEF ResetSound, Steady, StoredWhole, StoredNowhere
  <2>1. \A i \in 1 .. 5 : ResetOrder[i] \in Tables /\ (ResetOrder[i] = table <=> i = k)
    BY <1>2, TableFacts
  <2>2. ResetSound(s, b)  OBVIOUS
  <2>3. StoredWhole(b) \/ StoredNowhere(b)
    BY DEF BatchesWhole, StoredWhole, StoredNowhere, Steady, SeedAssumption
  <2>4. CASE (\A i \in 1 .. 5 : b \in deleted[s][ResetOrder[i]] <=> i <= k - 1) /\ StoredWhole(b)
    <3>1. ASSUME NEW i \in 1 .. 5  PROVE b \in deleted'[s][ResetOrder[i]] <=> i <= k
      <4>1. CASE i = k  BY <1>5, <2>1, <2>4, <4>1 DEF StoredWhole
      <4>2. CASE i # k  BY <1>5, <2>1, <2>4, <4>2
      <4> QED  BY <4>1, <4>2
    <3> QED  BY <2>4, <3>1
  <2>5. CASE (\A t \in Tables : b \notin deleted[s][t]) /\ StoredNowhere(b)
    BY <1>5, <2>5 DEF StoredNowhere
  <2>6. CASE (\A t \in Tables : b \notin deleted[s][t]) /\ k = 1 /\ StoredWhole(b)
    BY <1>5, <2>1, <2>6, <2>4 DEF StoredWhole
  <2>7. k - 1 = seed[s].at  BY <1>1 DEF DemoTypeOK, SeedState
  <2>8. \/ (\A i \in 1 .. 5 : b \in deleted[s][ResetOrder[i]] <=> i <= k - 1) /\ StoredWhole(b)
        \/ (\A t \in Tables : b \notin deleted[s][t]) /\ (k - 1 >= 1 => StoredNowhere(b))
    BY <1>3, <2>2, <2>7, TableFacts DEF ResetSound
  <2> QED  BY <2>3, <2>4, <2>5, <2>6, <2>8
<1>12. ResetsApart'
  <2> SUFFICES ASSUME NEW p \in Seeders, NEW o \in Seeders, p # o
               PROVE  deleted'[p][ResetOrder[1]] \cap deleted'[o][ResetOrder[1]]
                        \cap stored[ResetOrder[1]] = {}
    BY <1>3 DEF ResetsApart
  <2>1. \A q \in Seeders : deleted[q][table] \cap stored[table] = {}
    BY <1>3 DEF BeingDeleted
  <2>2. deleted[p][ResetOrder[1]] \cap deleted[o][ResetOrder[1]] \cap stored[ResetOrder[1]] = {}
    BY DEF ResetsApart
  <2>3. ResetOrder[1] \in Tables  BY TableFacts
  <2>4. CASE table = ResetOrder[1]
    <3>1. p # s \/ o # s  OBVIOUS
    <3> QED  BY <1>5, <2>1, <2>4, <3>1
  <2>5. CASE table # ResetOrder[1]
    <3>1. deleted'[p][ResetOrder[1]] = deleted[p][ResetOrder[1]]  BY <1>5, <2>3, <2>5
    <3>2. deleted'[o][ResetOrder[1]] = deleted[o][ResetOrder[1]]  BY <1>5, <2>3, <2>5
    <3> QED  BY <2>2, <3>1, <3>2
  <2> QED  BY <2>4, <2>5
<1> QED  BY <1>3, <1>4, <1>5, <1>6, <1>7, <1>10, <1>11, <1>12, NothingStored

\* The rows of which nobody else had deleted a table are gone from all.
LEMMA ResetCommits ==
  ASSUME SeedAssumption, DemoInv, NEW s \in Seeders, CommitReset(s)
  PROVE  DemoInv'
<1> USE DEF DemoInv, DemoDataSound
<1>1. /\ seed[s].pc = "resetting" /\ seed[s].at = 5
      /\ stored' = [t \in Tables |-> stored[t] \ deleted[s][t]]
      /\ active' = {a \in active : a.batch \notin deleted[s]["alert_events"]}
      /\ deleted' = [deleted EXCEPT ![s] = Nothing]
      /\ SeedAt(s, "inserting") /\ UNCHANGED <<keys, landed>>
  BY TableFacts DEF CommitReset
<1>2. /\ seed' \in [Seeders -> SeedState] /\ seed'[s].pc = "inserting"
      /\ seed'[s].reset = seed[s].reset /\ seed'[s].found = seed[s].found
      /\ \A o \in Seeders \ {s} : seed'[o] = seed[o]
  BY <1>1, SeedAtFacts DEF SeedPcs
<1>3. /\ deleted' \in [Seeders -> [Tables -> SUBSET Batches]]
      /\ \A t \in Tables : deleted'[s][t] = {}
      /\ \A o \in Seeders \ {s} : deleted'[o] = deleted[o]
  <2>1. Nothing \in [Tables -> SUBSET Batches] /\ \A t \in Tables : Nothing[t] = {}
    BY DEF Nothing
  <2> QED  BY <1>1, <2>1 DEF DemoTypeOK
<1>4. \A t \in Tables : stored'[t] = stored[t] \ deleted[s][t]  BY <1>1
<1>5. DemoTypeOK'
  BY <1>1, <1>2, <1>3, <1>4 DEF DemoTypeOK
<1>6. \A b : (Landed(b)' <=> Landed(b)) /\ (Steady(b)' <=> Steady(b))  BY <1>1 DEF Landed, Steady
<1>7. SeedSound(s)  OBVIOUS
<1>8. SeedSound(s)'
  <2>1. ~Inserted(s)'  BY <1>2 DEF Inserted
  <2> QED  BY <1>1, <1>2, <1>3, <1>6, <1>7, <2>1 DEF SeedSound
<1>9. ASSUME NEW o \in Seeders \ {s}  PROVE SeedSound(o)'
  <2>1. \A other \in Seeders : Inserted(other)' => Inserted(other)
    BY <1>2 DEF Inserted
  <2>2. Inserted(o) => active' = {} /\ \A other \in Seeders \ {o} : ~Inserted(other)'
    <3>1. SeedSound(o)  OBVIOUS
    <3> QED  BY <1>1, <2>1, <3>1 DEF SeedSound
  <2>3. \A t \in Tables : \A b \in stored'[t] : Landed(b) => b \in stored[t]  BY <1>4
  <2>4. seed'[o] = seed[o] /\ deleted'[o] = deleted[o] /\ landed'[o] = landed[o]
    BY <1>1, <1>2, <1>3
  <2>5. \A b \in Batches : Landed(b) => Landed(b)'  BY <1>6
  <2> QED  BY <2>2, <2>3, <2>4, <2>5, OtherSeed
<1>10. ASSUME NEW b \in Batches, Steady(b)
       PROVE  \/ StoredNowhere(b)' /\ \A t \in Tables : b \in deleted[s][t] /\ b \in stored[t]
              \/ StoredNowhere(b)' /\ StoredNowhere(b)
  <2>1. \/ (\A i \in 1 .. 5 : b \in deleted[s][ResetOrder[i]] <=> i <= 5) /\ StoredWhole(b)
        \/ (5 >= 1 => StoredNowhere(b))
    <3>1. ResetSound(s, b)  OBVIOUS
    <3> QED  BY <1>1, <1>10, <3>1, TableFacts DEF ResetSound
  <2>2. CASE (\A i \in 1 .. 5 : b \in deleted[s][ResetOrder[i]] <=> i <= 5) /\ StoredWhole(b)
    <3>1. \A t \in Tables : b \in deleted[s][t]  BY <2>2, TableFacts
    <3> QED  BY <1>4, <2>2, <3>1 DEF StoredWhole, StoredNowhere
  <2>3. CASE StoredNowhere(b)  BY <1>4, <2>3 DEF StoredNowhere
  <2> QED  BY <2>1, <2>2, <2>3
<1>11. ASSUME NEW o \in Seeders, NEW b \in Batches  PROVE ResetSound(o, b)'
  <2>1. CASE o = s  BY <1>2, <2>1 DEF ResetSound
  <2>2. CASE o # s
    <3> SUFFICES ASSUME Steady(b), seed[o].pc = "resetting"
                 PROVE  (\A t \in Tables : b \notin deleted[o][t])
                          /\ (seed[o].at >= 1 => StoredNowhere(b)')
      BY <1>2, <1>3, <1>6, <2>2 DEF ResetSound
    <3>1. ResetSound(o, b)  OBVIOUS
    <3>2. seed[o].at \in 0 .. 5  BY TableFacts DEF DemoTypeOK, SeedState
    <3>3. StoredNowhere(b)'  BY <1>10
    <3>4. CASE \A t \in Tables : b \in deleted[s][t] /\ b \in stored[t]
      <4>1. b \notin deleted[o][ResetOrder[1]]
        <5>1. ResetOrder[1] \in Tables  BY TableFacts
        <5> QED  BY <2>2, <3>4, <5>1 DEF ResetsApart
      <4>2. CASE \A i \in 1 .. 5 : b \in deleted[o][ResetOrder[i]] <=> i <= seed[o].at
        <5>1. ~(1 <= seed[o].at)  BY <4>1, <4>2
        <5>2. \A i \in 1 .. 5 : b \notin deleted[o][ResetOrder[i]]
          BY <3>2, <4>2, <5>1
        <5> QED  BY <3>3, <5>2, TableFacts
      <4>3. CASE \A t \in Tables : b \notin deleted[o][t]  BY <3>3, <4>3
      <4> QED  BY <3>1, <4>2, <4>3, TableFacts DEF ResetSound
    <3>5. CASE StoredNowhere(b)
      <4>1. ~StoredWhole(b)  BY <3>5, TableFacts DEF StoredWhole, StoredNowhere
      <4> QED  BY <3>1, <3>3, <4>1 DEF ResetSound
    <3> QED  BY <1>10, <3>4, <3>5
  <2> QED  BY <2>1, <2>2
<1>12. ResetsApart'
  <2>1. \A o \in Seeders : deleted'[o][ResetOrder[1]] \subseteq deleted[o][ResetOrder[1]]
    BY <1>3, TableFacts DEF DemoTypeOK
  <2>2. stored'[ResetOrder[1]] \subseteq stored[ResetOrder[1]]  BY <1>4, TableFacts
  <2> QED  BY <2>1, <2>2 DEF ResetsApart
<1>13. CachedAfterCommit'  BY <1>1, <1>4 DEF CachedAfterCommit
<1>14. AlertsKeepTheirRows'
  <2>1. \A t \in Tables : deleted[s][t] \cap stored["alert_events"] \subseteq deleted[s]["alert_events"]
    BY <1>1, <1>7, TableFacts DEF SeedSound
  <2> QED  BY <1>4, <2>1, TableFacts DEF AlertsKeepTheirRows
<1>15. BatchesWhole'
  <2> SUFFICES ASSUME NEW b \in Batches, ~Steady(b)
               PROVE  StoredNowhere(b)' \/ (b # Original /\ landed[b] = "amid_reset")
    BY <1>1, <1>10 DEF BatchesWhole, StoredNowhere
  <2>1. b # Original /\ b \in Seeders /\ landed[b] \in {"no", "amid_reset"}
    BY DEF Steady, Batches, DemoTypeOK
  <2>2. CASE landed[b] = "no"
    BY <1>4, <2>1, <2>2 DEF CachedAfterCommit, StoredNowhere
  <2> QED  BY <2>1, <2>2
<1>16. OneActiveDemoAlert'  BY <1>1, <1>4, TableFacts DEF OneActiveDemoAlert
<1>17. ResetsRemove'
  <2> SUFFICES ASSUME NEW o \in Seeders, seed'[o].reset, NEW t \in Tables,
                      seed'[o].pc \notin {"new", "resetting", "refused", "error"}
               PROVE  seed'[o].found \cap stored'[t] = {}
    BY DEF ResetsRemove
  <2>1. CASE o = s
    <3>1. seed[s].found \cap stored[t] \subseteq deleted[s][t]
      <4>1. PICK i \in 1 .. 5 : t = ResetOrder[i]  BY TableFacts
      <4> QED  BY <1>1, <1>7, <4>1, TableFacts DEF SeedSound
    <3> QED  BY <1>2, <1>4, <2>1, <3>1
  <2>2. CASE o # s  BY <1>2, <1>4, <2>2 DEF ResetsRemove
  <2> QED  BY <2>1, <2>2
<1> QED  BY <1>5, <1>8, <1>9, <1>11, <1>12, <1>13, <1>14, <1>15, <1>16, <1>17

\* No reset has found or deleted the rows that become visible.
LEMMA BatchCommits ==
  ASSUME SeedAssumption, DemoInv, NEW s \in Seeders, CommitBatch(s)
  PROVE  DemoInv'
<1> USE DEF DemoInv, DemoDataSound
<1>0. PICK how \in {"whole", "amid_reset"} :
        how = IF \E other \in Seeders : seed[other].pc = "resetting" THEN "amid_reset" ELSE "whole"
  OBVIOUS
<1>1. /\ seed[s].pc = "inserted" /\ stored' = [t \in Tables |-> stored[t] \cup {s}]
      /\ active' = active \cup ActiveOf(s) /\ landed' = [landed EXCEPT ![s] = how]
      /\ SeedAt(s, "caching") /\ UNCHANGED <<deleted, keys>>
  BY <1>0 DEF CommitBatch
<1>2. /\ seed' \in [Seeders -> SeedState] /\ seed'[s].pc = "caching" /\ seed'[s].at = 0
      /\ seed'[s].reset = seed[s].reset /\ seed'[s].found = seed[s].found
      /\ \A o \in Seeders \ {s} : seed'[o] = seed[o]
  BY <1>1, SeedAtFacts DEF SeedPcs
<1>3. SeedSound(s) /\ s # Original /\ s \in Batches  BY DEF SeedAssumption, Batches
<1>4. landed[s] = "no" /\ active = {} /\ \A o \in Seeders \ {s} : ~Inserted(o)
  BY <1>1, <1>3 DEF SeedSound, Inserted
<1>5. /\ landed' \in [Seeders -> {"no", "whole", "amid_reset"}] /\ landed'[s] = how
      /\ \A o \in Seeders \ {s} : landed'[o] = landed[o]
  BY <1>1 DEF DemoTypeOK
<1>6. \A t \in Tables : stored'[t] = stored[t] \cup {s}  BY <1>1
<1>7. active' = ActiveOf(s) /\ \A a \in active' : a.batch = s /\ a.fingerprint \in Fingerprints
  BY <1>1, <1>4 DEF ActiveOf
<1>8. DemoTypeOK'
  <2>1. active' \subseteq [batch : Seeders, fingerprint : Fingerprints]
    BY <1>7 DEF ActiveOf
  <2>2. stored' \in [Tables -> SUBSET Batches]  BY <1>1, <1>3, <1>6 DEF DemoTypeOK
  <2> QED  BY <1>1, <1>2, <1>5, <2>1, <2>2 DEF DemoTypeOK
<1>9. ~Landed(s) /\ (\A b \in Batches : Landed(b) => Landed(b)')
      /\ (\A b \in Batches \ {s} : Steady(b)' => Steady(b))
  BY <1>3, <1>4, <1>5 DEF Landed, Steady, Batches
<1>10. SeedSound(s)'
  <2>1. ~Inserted(s)' /\ Landed(s)'  BY <1>0, <1>2, <1>5 DEF Inserted, Landed
  <2>2. \A t \in Tables : deleted'[s][t] = {}  BY <1>1, <1>3 DEF SeedSound
  <2>3. \A b \in seed[s].found : Landed(b)'  BY <1>3, <1>9 DEF SeedSound, DemoTypeOK, SeedState
  <2> QED  BY <1>0, <1>2, <1>5, <2>1, <2>2, <2>3, KeyFacts DEF SeedSound
<1>11. ASSUME NEW o \in Seeders \ {s}  PROVE SeedSound(o)'
  <2>1. \A t \in Tables : \A b \in stored'[t] : Landed(b) => b \in stored[t]
    BY <1>6, <1>9
  <2>2. ~Inserted(o)  BY <1>4
  <2>3. seed'[o] = seed[o] /\ deleted'[o] = deleted[o] /\ landed'[o] = landed[o]
    BY <1>1, <1>2, <1>5
  <2> QED  BY <1>9, <2>1, <2>2, <2>3, OtherSeed
<1>12. ASSUME NEW o \in Seeders, NEW b \in Batches  PROVE ResetSound(o, b)'
  <2>1. CASE o = s  BY <1>2, <2>1 DEF ResetSound
  <2>2. CASE o # s /\ b = s
    <3>1. Steady(s)' => seed[o].pc # "resetting"
      BY <1>0, <1>3, <1>5 DEF Steady
    <3> QED  BY <1>2, <2>2, <3>1 DEF ResetSound
  <2>3. CASE o # s /\ b # s
    <3>1. ResetSound(o, b) /\ \A t \in Tables : b \in stored'[t] <=> b \in stored[t]
      BY <1>6, <2>3
    <3>2. seed'[o] = seed[o] /\ deleted'[o] = deleted[o]  BY <1>1, <1>2, <2>3
    <3>3. Steady(b)' => Steady(b)  BY <1>9, <2>3
    <3> QED  BY <3>1, <3>2, <3>3, OtherReset
  <2> QED  BY <2>1, <2>2, <2>3
<1>13. ResetsApart'
  <2>1. \A o \in Seeders : s \notin deleted[o][ResetOrder[1]]
    BY <1>9, TableFacts DEF SeedSound
  <2>2. stored'[ResetOrder[1]] = stored[ResetOrder[1]] \cup {s}  BY <1>6, TableFacts
  <2> QED  BY <1>1, <2>1, <2>2 DEF ResetsApart
<1>14. CachedAfterCommit'
  BY <1>0, <1>1, <1>5, <1>6 DEF CachedAfterCommit
<1>15. AlertsKeepTheirRows'  BY <1>6, TableFacts DEF AlertsKeepTheirRows
<1>16. BatchesWhole'
  <2> SUFFICES ASSUME NEW b \in Batches
               PROVE  \/ \A t \in Tables : b \notin stored'[t]
                      \/ \A t \in Tables : b \in stored'[t]
                      \/ b # Original /\ landed'[b] = "amid_reset"
    BY DEF BatchesWhole
  <2>1. CASE b = s  BY <1>6, <2>1
  <2>2. CASE b # s
    <3>1. \A t \in Tables : b \in stored'[t] <=> b \in stored[t]  BY <1>6, <2>2
    <3>2. b # Original => b \in Seeders \ {s}  BY <2>2 DEF Batches
    <3> QED  BY <1>5, <3>1, <3>2 DEF BatchesWhole
  <2> QED  BY <2>1, <2>2
<1>17. OneActiveDemoAlert'
  BY <1>6, <1>7, TableFacts DEF OneActiveDemoAlert, ActiveOf
<1>18. ResetsRemove'
  <2>1. \A o \in Seeders : s \notin seed[o].found  BY <1>9 DEF SeedSound
  <2>2. \A o \in Seeders : seed'[o].found = seed[o].found /\ seed'[o].reset = seed[o].reset
    BY <1>2
  <2>3. \A o \in Seeders : seed[o].pc # seed'[o].pc => seed[o].pc = "inserted"  BY <1>1, <1>2
  <2> QED  BY <1>6, <2>1, <2>2, <2>3 DEF ResetsRemove
<1> QED  BY <1>8, <1>10, <1>11, <1>12, <1>13, <1>14, <1>15, <1>16, <1>17, <1>18

\* Users and the log collector touch neither rows nor seeds.
LEMMA OthersMeanwhile ==
  ASSUME SeedAssumption, DemoInv, UNCHANGED <<stored, deleted, seed, landed>>,
         active' \subseteq active, keys' \in [Range(SeedKeys) -> Batches \cup {Collected}],
         \A k \in Range(SeedKeys) : keys'[k] = keys[k] \/ keys'[k] = Collected
  PROVE  DemoInv'
<1> USE DEF DemoInv, DemoDataSound
<1>1. DemoTypeOK'  BY DEF DemoTypeOK
<1>2. \A b : Landed(b)' <=> Landed(b)  BY DEF Landed
<1>3. ASSUME NEW s \in Seeders  PROVE SeedSound(s)'
  <2>1. \A o \in Seeders : Inserted(o)' <=> Inserted(o)  BY DEF Inserted
  <2>2. SeedSound(s)  OBVIOUS
  <2>3. Inserted(s) => active' = {} /\ \A other \in Seeders \ {s} : ~Inserted(other)'
    BY <2>1, <2>2 DEF SeedSound
  <2> QED  BY <1>2, <2>3, OtherSeed
<1>4. \A s \in Seeders, b \in Batches : ResetSound(s, b)'
  <2>1. \A b : Steady(b)' <=> Steady(b)  BY DEF Steady
  <2> QED  BY <2>1, OtherReset
<1>5. ResetsApart' /\ AlertsKeepTheirRows' /\ BatchesWhole' /\ ResetsRemove'
  BY DEF ResetsApart, AlertsKeepTheirRows, BatchesWhole, ResetsRemove
<1>6. OneActiveDemoAlert'  BY DEF OneActiveDemoAlert
<1>7. CachedAfterCommit'
  <2>1. \A s \in Seeders : Collected # s  BY DEF SeedAssumption
  <2> QED  BY <2>1 DEF CachedAfterCommit, DemoTypeOK
<1> QED  BY <1>1, <1>3, <1>4, <1>5, <1>6, <1>7

LEMMA DemoInductive ==
  ASSUME SeedAssumption, DemoInv, [DemoNext]_demoVars
  PROVE  DemoInv'
<1>0. keys \in [Range(SeedKeys) -> Batches \cup {Collected}]  BY DEF DemoInv, DemoTypeOK
<1>1. ASSUME NEW s \in Seeders, \E asked \in SeedAsks[s] : BeginSeed(s, asked)  PROVE DemoInv'
  BY <1>1, SeedBegins
<1>2. ASSUME NEW s \in Seeders, SeedFails(s)  PROVE DemoInv'  BY <1>2, SeedErrs
<1>3. ASSUME NEW s \in Seeders, ServeSeed(s)  PROVE DemoInv'
  BY <1>3, TableIsDeleted, ResetCommits, SeedMoves, SeedErrs, BatchCommits, KeyIsWritten
     DEF ServeSeed
<1>4. ASSUME NEW a \in active, CloseDemoAlert(a)  PROVE DemoInv'
  <2>1. active' \subseteq active /\ UNCHANGED <<stored, deleted, keys, seed, landed>>
    BY <1>4 DEF CloseDemoAlert
  <2> QED  BY <1>0, <2>1, OthersMeanwhile
<1>5. ASSUME NEW k \in CollectedKeys, CollectLogs(k)  PROVE DemoInv'
  <2>1. keys' = [keys EXCEPT ![k] = Collected] /\ UNCHANGED <<stored, active, deleted, seed, landed>>
    BY <1>5 DEF CollectLogs
  <2> QED  BY <1>0, <2>1, OthersMeanwhile
<1>6. CASE UNCHANGED demoVars  BY <1>0, <1>6, OthersMeanwhile DEF demoVars
<1> QED  BY <1>1, <1>2, <1>3, <1>4, <1>5, <1>6 DEF DemoNext

-----------------------------------------------------------------------------
(* Notifications (Notifications).                                          *)

\* What a request knows, has locked and has marked fit.
NoteSound(r) ==
  /\ reader[r].pc = "updating" => reader[r].does.op # "list"
  /\ reader[r].pc = "committing" =>
       /\ reader[r].does.op = "list"
       /\ Cardinality(Unread) <= reader[r].count
  /\ reader[r].pc = "updating" =>
       \A n \in reader[r].found \ reader[r].left : owner[n] = r \/ notes[n] = "gone"
  /\ reader[r].pc = "done" /\ reader[r].does.op \in {"one", "all"} =>
       \A n \in reader[r].found : notes[n] \in {"read", "gone"}
  /\ reader[r].pc # "done" => \A mark \in marks : mark.by # r
  /\ reader[r].pc = "done" /\ reader[r].does.op = "list" =>
       Cardinality(reader[r].found) <= reader[r].count

\* Rows that are locked are there, and their requests are writing.
LocksSound ==
  \A n \in Notes : owner[n] # NoReader => notes[n] # "gone" /\ reader[owner[n]].pc = "updating"

NoteInv ==
  /\ NoteTypeOK
  /\ LocksSound
  /\ ReadsExplained
  /\ \A r \in NoteReaders : NoteSound(r)

LEMMA NoteCounts ==
  ASSUME NoteAssumption
  PROVE  /\ IsFiniteSet(Notes) /\ Cardinality(Notes) \in Nat
         /\ \A S, T : S \subseteq Notes /\ T \subseteq S =>
              /\ Cardinality(S) \in 0 .. Cardinality(Notes)
              /\ Cardinality(T) \in Nat
              /\ Cardinality(T) <= Cardinality(S)
<1>1. IsFiniteSet(Notes)  BY DEF NoteAssumption
<1>2. Cardinality(Notes) \in Nat  BY <1>1, FS_CardinalityType
<1>3. ASSUME NEW S, NEW T, S \subseteq Notes, T \subseteq S
      PROVE  /\ Cardinality(S) \in 0 .. Cardinality(Notes)
             /\ Cardinality(T) \in Nat /\ Cardinality(T) <= Cardinality(S)
  <2>1. IsFiniteSet(S) /\ Cardinality(S) <= Cardinality(Notes)  BY <1>1, <1>3, FS_Subset
  <2>2. IsFiniteSet(T) /\ Cardinality(T) <= Cardinality(S)  BY <1>3, <2>1, FS_Subset
  <2>3. Cardinality(S) \in Nat /\ Cardinality(T) \in Nat  BY <2>1, <2>2, FS_CardinalityType
  <2> QED  BY <1>2, <2>1, <2>2, <2>3
<1> QED  BY <1>1, <1>2, <1>3

LEMMA NoteInitial ==
  ASSUME NoteAssumption, NoteInit
  PROVE  NoteInv
<1> DEFINE idle == [pc |-> "idle", does |-> [op |-> "list", id |-> CHOOSE n \in Notes : TRUE],
                    left |-> {}, found |-> {}, count |-> 0, shown |-> {}]
<1>0. (CHOOSE n \in Notes : TRUE) \in Notes  BY DEF NoteAssumption
<1>1. idle.does \in NoteOp  BY <1>0 DEF NoteOp
<1>2. 0 \in 0 .. Cardinality(Notes)  BY NoteCounts
<1>3. idle \in Reader /\ idle.pc = "idle"  BY <1>1, <1>2 DEF Reader
<1>4. /\ reader = [r \in NoteReaders |-> idle] /\ marks = {}
      /\ notes = [n \in Notes |-> "unread"] /\ owner = [n \in Notes |-> NoReader]
  BY DEF NoteInit
<1> HIDE DEF idle
<1> QED  BY <1>3, <1>4 DEF NoteInv, NoteTypeOK, LocksSound, ReadsExplained, NoteSound

LEMMA NoteInvSound ==
  ASSUME NoteInv  PROVE NotificationsSound
BY DEF NoteInv, NoteSound, LocksSound, NotificationsSound, MarksStick, ReadsExplained,
       ListsAgree, NotesReleased

\* Another request is as sound as before while the rows it holds stay as they
\* are, read rows are not unread again, and nobody marks in its name.
LEMMA OtherReader ==
  ASSUME NoteAssumption, NoteTypeOK, NEW o \in NoteReaders, NoteSound(o), reader'[o] = reader[o],
         \A n \in Notes : owner[n] = o => owner'[n] = o,
         \A n \in Notes : notes[n] = "gone" => notes'[n] = "gone",
         \A n \in Notes : notes[n] = "read" => notes'[n] \in {"read", "gone"},
         \A mark \in marks' : mark \in marks \/ mark.by # o
  PROVE  NoteSound(o)'
<1>1. Unread' \subseteq Unread /\ Unread \subseteq Notes  BY DEF Unread, NoteTypeOK
<1>2. Cardinality(Unread') \in Nat /\ Cardinality(Unread) \in 0 .. Cardinality(Notes)
      /\ Cardinality(Unread') <= Cardinality(Unread) /\ Cardinality(Notes) \in Nat
  BY <1>1, NoteCounts
<1>3. reader[o] \in Reader  BY DEF NoteTypeOK
<1>4. /\ reader[o].found \subseteq Notes /\ reader[o].count \in 0 .. Cardinality(Notes)
  BY <1>3 DEF Reader
<1>5. Cardinality(Unread) <= reader[o].count => Cardinality(Unread') <= reader[o].count
  BY <1>2, <1>4
<1> HIDE DEF Unread
<1> QED  BY <1>4, <1>5 DEF NoteSound

\* A step of one request that commits nothing and takes no row of another.
LEMMA NothingMarked ==
  ASSUME NoteAssumption, NoteInv, NEW r \in NoteReaders, UNCHANGED <<notes, marks>>,
         reader' \in [NoteReaders -> Reader],
         \A o \in NoteReaders \ {r} : reader'[o] = reader[o],
         owner' \in [Notes -> NoteReaders \cup {NoReader}],
         \A n \in Notes : owner[n] \notin {r, NoReader} => owner'[n] = owner[n],
         LocksSound', NoteSound(r)'
  PROVE  NoteInv'
<1> USE DEF NoteInv
<1>1. NoteTypeOK'  BY DEF NoteTypeOK
<1>2. ReadsExplained'  BY DEF ReadsExplained
<1>3. ASSUME NEW o \in NoteReaders \ {r}  PROVE NoteSound(o)'
  <2>1. NoteSound(o) /\ NoteTypeOK /\ reader'[o] = reader[o]  OBVIOUS
  <2>2. \A n \in Notes : owner[n] = o => owner'[n] = o  BY DEF NoteAssumption
  <2> QED  BY <2>1, <2>2, OtherReader
<1> QED  BY <1>1, <1>2, <1>3

LEMMA ReaderEnding ==
  ASSUME NoteAssumption, NoteInv, NEW r \in NoteReaders, NEW label \in {"refused", "error"},
         reader[r].pc # "done", ReaderEnds(r, label)
  PROVE  NoteInv'
<1> USE DEF NoteInv
<1> DEFINE new == [reader[r] EXCEPT !.pc = label]
<1>1. reader[r] \in Reader  BY DEF NoteTypeOK
<1>2. new \in Reader  BY <1>1, Zenon DEF Reader
<1>3. new.pc = label  BY <1>1 DEF Reader
<1>4. reader' = [reader EXCEPT ![r] = new] /\ UNCHANGED <<notes, marks>>
      /\ owner' = [n \in Notes |-> IF owner[n] = r THEN NoReader ELSE owner[n]]
  BY DEF ReaderEnds, ReleaseNotes
<1> HIDE DEF new
<1>5. reader' \in [NoteReaders -> Reader] /\ reader'[r].pc = label
      /\ \A o \in NoteReaders \ {r} : reader'[o] = reader[o]
  BY <1>2, <1>3, <1>4 DEF NoteTypeOK
<1>6. owner' \in [Notes -> NoteReaders \cup {NoReader}]
      /\ \A n \in Notes : owner'[n] = IF owner[n] = r THEN NoReader ELSE owner[n]
  BY <1>4 DEF NoteTypeOK
<1>7. LocksSound'  BY <1>4, <1>5, <1>6 DEF LocksSound, NoteTypeOK
<1>8. NoteSound(r)'  BY <1>4, <1>5 DEF NoteSound
<1> QED  BY <1>4, <1>5, <1>6, <1>7, <1>8, NothingMarked

LEMMA NotesAsked ==
  ASSUME NoteAssumption, NoteInv, NEW r \in NoteReaders, NEW does \in NoteOps[r], AskNotes(r, does)
  PROVE  NoteInv'
<1> USE DEF NoteInv
<1> DEFINE new == [reader[r] EXCEPT !.pc = "reading", !.does = does]
<1>1. reader[r] \in Reader /\ does \in NoteOp  BY DEF NoteTypeOK, NoteAssumption
<1>2. new \in Reader  BY <1>1, Zenon DEF Reader
<1>3. new.pc = "reading"  BY <1>1 DEF Reader
<1>4. reader[r].pc = "idle" /\ reader' = [reader EXCEPT ![r] = new]
      /\ UNCHANGED <<notes, owner, marks>>
  BY DEF AskNotes
<1> HIDE DEF new
<1>5. reader' \in [NoteReaders -> Reader] /\ reader'[r].pc = "reading"
      /\ \A o \in NoteReaders \ {r} : reader'[o] = reader[o]
  BY <1>2, <1>3, <1>4 DEF NoteTypeOK
<1>6. \A n \in Notes : owner[n] # r  BY <1>4 DEF LocksSound, NoteAssumption
<1>7. LocksSound'  BY <1>4, <1>5, <1>6 DEF LocksSound, NoteTypeOK
<1>8. NoteSound(r)'  BY <1>4, <1>5 DEF NoteSound
<1> QED  BY <1>4, <1>5, <1>7, <1>8, NothingMarked DEF NoteTypeOK

LEMMA NotesRead ==
  ASSUME NoteAssumption, NoteInv, NEW r \in NoteReaders, ReadNotes(r)
  PROVE  NoteInv'
<1> USE DEF NoteInv
<1>0. PICK rows \in SUBSET Notes : rows = ToWrite(reader[r].does)
  <2>1. reader[r].does \in NoteOp /\ reader[r].does.op # "list"
    BY DEF ReadNotes, NoteTypeOK, Reader
  <2>2. reader[r].does.op \in {"one", "all", "reset"}  BY <2>1 DEF NoteOp
  <2> QED  BY <2>2 DEF ToWrite, Unread, Present
<1> DEFINE new == [reader[r] EXCEPT !.pc = "updating", !.left = rows, !.found = rows]
<1>1. reader[r] \in Reader  BY DEF NoteTypeOK
<1>2. new \in Reader  BY <1>1, Zenon DEF Reader
<1>3. new.pc = "updating" /\ new.left = rows /\ new.found = rows /\ new.does = reader[r].does
  BY <1>1 DEF Reader
<1>4. reader[r].pc = "reading" /\ reader[r].does.op # "list" /\ reader' = [reader EXCEPT ![r] = new]
      /\ UNCHANGED <<notes, owner, marks>>
  BY <1>0 DEF ReadNotes
<1> HIDE DEF new
<1>5. /\ reader' \in [NoteReaders -> Reader] /\ reader'[r].pc = "updating"
      /\ reader'[r].left = rows /\ reader'[r].found = rows /\ reader'[r].does = reader[r].does
      /\ \A o \in NoteReaders \ {r} : reader'[o] = reader[o]
  BY <1>2, <1>3, <1>4 DEF NoteTypeOK
<1>6. \A n \in Notes : owner[n] # r  BY <1>4 DEF LocksSound, NoteAssumption
<1>7. LocksSound'  BY <1>4, <1>5, <1>6 DEF LocksSound, NoteTypeOK
<1>8. NoteSound(r)'  BY <1>4, <1>5 DEF NoteSound
<1> QED  BY <1>4, <1>5, <1>7, <1>8, NothingMarked DEF NoteTypeOK

LEMMA NoteWritten ==
  ASSUME NoteAssumption, NoteInv, NEW r \in NoteReaders, WriteNote(r)
  PROVE  NoteInv'
<1> USE DEF NoteInv
<1>0. PICK n \in NextRows(r) :
        /\ owner[n] = NoReader
        /\ owner' = [owner EXCEPT ![n] = IF notes[n] = "gone" THEN @ ELSE r]
        /\ reader' = [reader EXCEPT ![r].left = @ \ {n}]
  BY DEF WriteNote
<1> DEFINE rest == reader[r].left \ {n}
           new == [reader[r] EXCEPT !.left = rest]
<1>1. reader[r] \in Reader  BY DEF NoteTypeOK
<1>2. reader[r].left \subseteq Notes  BY <1>1 DEF Reader
<1>3. n \in reader[r].left /\ n \in Notes  BY <1>2 DEF NextRows
<1>4. new \in Reader  BY <1>1, <1>2, Zenon DEF Reader
<1>5. new.pc = reader[r].pc /\ new.left = rest /\ new.found = reader[r].found
      /\ new.does = reader[r].does
  BY <1>1 DEF Reader
<1>6. reader[r].pc = "updating" /\ reader' = [reader EXCEPT ![r] = new]
      /\ UNCHANGED <<notes, marks>>
  BY <1>0 DEF WriteNote
<1> HIDE DEF new
<1>7. /\ reader' \in [NoteReaders -> Reader] /\ reader'[r].pc = "updating"
      /\ reader'[r].left = rest /\ reader'[r].found = reader[r].found
      /\ reader'[r].does = reader[r].does
      /\ \A o \in NoteReaders \ {r} : reader'[o] = reader[o]
  BY <1>4, <1>5, <1>6 DEF NoteTypeOK
<1>8. /\ owner' \in [Notes -> NoteReaders \cup {NoReader}]
      /\ owner'[n] = IF notes[n] = "gone" THEN NoReader ELSE r
      /\ \A m \in Notes \ {n} : owner'[m] = owner[m]
  BY <1>0, <1>3 DEF NoteTypeOK
<1>9. LocksSound'
  BY <1>6, <1>7, <1>8 DEF LocksSound, NoteTypeOK
<1>10. NoteSound(r)'
  <2>1. NoteSound(r) /\ reader[r].found \subseteq Notes  BY <1>1 DEF Reader
  <2>2. \A m \in reader[r].found \ rest : owner'[m] = r \/ notes[m] = "gone"
    <3> TAKE m \in reader[r].found \ rest
    <3>1. CASE m = n  BY <1>8, <3>1
    <3>2. CASE m # n  BY <1>6, <1>8, <2>1, <3>2 DEF NoteSound
    <3> QED  BY <3>1, <3>2
  <2> HIDE DEF rest
  <2> QED  BY <1>6, <1>7, <2>1, <2>2 DEF NoteSound
<1>11. \A m \in Notes : owner[m] \notin {r, NoReader} => owner'[m] = owner[m]
  BY <1>0, <1>8
<1> QED  BY <1>6, <1>7, <1>8, <1>9, <1>10, <1>11, NothingMarked

LEMMA NotesCounted ==
  ASSUME NoteAssumption, NoteInv, NEW r \in NoteReaders, CountUnread(r)
  PROVE  NoteInv'
<1> USE DEF NoteInv
<1>0. PICK count \in 0 .. Cardinality(Notes) : count = Cardinality(Unread)
  <2>1. Unread \subseteq Notes  BY DEF Unread
  <2> QED  BY <2>1, NoteCounts
<1> DEFINE new == [reader[r] EXCEPT !.pc = "committing", !.count = count]
<1>1. reader[r] \in Reader  BY DEF NoteTypeOK
<1>2. new \in Reader  BY <1>1, Zenon DEF Reader
<1>3. new.pc = "committing" /\ new.count = count /\ new.does = reader[r].does
  BY <1>1 DEF Reader
<1>4. reader[r].pc = "reading" /\ reader[r].does.op = "list" /\ reader' = [reader EXCEPT ![r] = new]
      /\ UNCHANGED <<notes, owner, marks>>
  BY <1>0 DEF CountUnread
<1> HIDE DEF new
<1>5. /\ reader' \in [NoteReaders -> Reader] /\ reader'[r].pc = "committing"
      /\ reader'[r].count = count /\ reader'[r].does = reader[r].does
      /\ \A o \in NoteReaders \ {r} : reader'[o] = reader[o]
  BY <1>2, <1>3, <1>4 DEF NoteTypeOK
<1>6. \A n \in Notes : owner[n] # r  BY <1>4 DEF LocksSound, NoteAssumption
<1>7. LocksSound'  BY <1>4, <1>5, <1>6 DEF LocksSound, NoteTypeOK
<1>8. Unread' = Unread  BY <1>4 DEF Unread
<1>9. Cardinality(Unread') <= count
  <2>1. Cardinality(Notes) \in Nat  BY NoteCounts
  <2> QED  BY <1>0, <1>8, <2>1
<1>10. NoteSound(r)'  BY <1>4, <1>5, <1>9 DEF NoteSound
<1> QED  BY <1>4, <1>5, <1>7, <1>10, NothingMarked DEF NoteTypeOK

LEMMA NotesListed ==
  ASSUME NoteAssumption, NoteInv, NEW r \in NoteReaders, ListRecent(r)
  PROVE  NoteInv'
<1> USE DEF NoteInv
<1>0. PICK newest \in SUBSET Notes : newest = Newest  BY DEF Newest, Present
<1> DEFINE unread == newest \cap Unread
           new == [reader[r] EXCEPT !.pc = "done", !.shown = newest, !.found = unread]
<1>1. reader[r] \in Reader /\ unread \subseteq Notes  BY DEF NoteTypeOK
<1>2. new \in Reader  BY <1>1, Zenon DEF Reader
<1>3. new.pc = "done" /\ new.found = unread /\ new.does = reader[r].does
      /\ new.count = reader[r].count
  BY <1>1 DEF Reader
<1>4. reader[r].pc = "committing" /\ reader' = [reader EXCEPT ![r] = new]
      /\ UNCHANGED <<notes, owner, marks>>
  BY <1>0 DEF ListRecent
<1>5. NoteSound(r) /\ reader[r].does.op = "list" /\ Cardinality(Unread) <= reader[r].count
  BY <1>4 DEF NoteSound
<1>6. Cardinality(unread) <= reader[r].count
  <2>1. unread \subseteq Unread /\ Unread \subseteq Notes  BY DEF Unread
  <2>2. Cardinality(unread) \in Nat /\ Cardinality(unread) <= Cardinality(Unread)
        /\ Cardinality(Unread) \in Nat
    BY <2>1, NoteCounts
  <2>3. reader[r].count \in Nat
    <3>1. Cardinality(Notes) \in Nat  BY NoteCounts
    <3> QED  BY <1>1, <3>1 DEF Reader
  <2> HIDE DEF unread
  <2> QED  BY <1>5, <2>2, <2>3
<1> HIDE DEF new
<1>7. /\ reader' \in [NoteReaders -> Reader] /\ reader'[r].pc = "done"
      /\ reader'[r].found = unread /\ reader'[r].does = reader[r].does
      /\ reader'[r].count = reader[r].count
      /\ \A o \in NoteReaders \ {r} : reader'[o] = reader[o]
  BY <1>2, <1>3, <1>4 DEF NoteTypeOK
<1> HIDE DEF unread
<1>8. \A n \in Notes : owner[n] # r  BY <1>4 DEF LocksSound, NoteAssumption
<1>9. LocksSound'  BY <1>4, <1>7, <1>8 DEF LocksSound, NoteTypeOK
<1>10. NoteSound(r)'  BY <1>4, <1>5, <1>6, <1>7 DEF NoteSound
<1> QED  BY <1>4, <1>7, <1>9, <1>10, NothingMarked DEF NoteTypeOK

LEMMA NotesCommitted ==
  ASSUME NoteAssumption, NoteInv, NEW r \in NoteReaders, CommitNotes(r)
  PROVE  NoteInv'
<1> USE DEF NoteInv
<1>0. PICK how \in {"gone", "read"} : how = IF reader[r].does.op = "reset" THEN "gone" ELSE "read"
  OBVIOUS
<1> DEFINE new == [reader[r] EXCEPT !.pc = "done"]
<1>1. reader[r] \in Reader  BY DEF NoteTypeOK
<1>2. new \in Reader  BY <1>1, Zenon DEF Reader
<1>3. new.pc = "done" /\ new.found = reader[r].found /\ new.does = reader[r].does
  BY <1>1 DEF Reader
<1>4. /\ reader[r].pc = "updating" /\ reader[r].left = {}
      /\ notes' = [n \in Notes |-> IF owner[n] # r THEN notes[n] ELSE how]
      /\ marks' = IF how = "gone" THEN marks
                  ELSE marks \cup {[by |-> r, note |-> n] : n \in {m \in Notes : owner[m] = r}}
      /\ owner' = [n \in Notes |-> IF owner[n] = r THEN NoReader ELSE owner[n]]
      /\ reader' = [reader EXCEPT ![r] = new]
  BY <1>0 DEF CommitNotes, ReleaseNotes
<1> HIDE DEF new
<1>5. /\ reader' \in [NoteReaders -> Reader] /\ reader'[r].pc = "done"
      /\ reader'[r].found = reader[r].found /\ reader'[r].does = reader[r].does
      /\ \A o \in NoteReaders \ {r} : reader'[o] = reader[o]
  BY <1>2, <1>3, <1>4 DEF NoteTypeOK
<1>6. /\ owner' \in [Notes -> NoteReaders \cup {NoReader}]
      /\ \A n \in Notes : owner'[n] = IF owner[n] = r THEN NoReader ELSE owner[n]
      /\ notes' \in [Notes -> {"unread", "read", "gone"}]
      /\ \A n \in Notes : notes'[n] = IF owner[n] # r THEN notes[n] ELSE how
  BY <1>4 DEF NoteTypeOK
<1>7. marks' \subseteq [by : NoteReaders, note : Notes]
      /\ \A mark \in marks' : mark \in marks \/ mark.by = r
  BY <1>4 DEF NoteTypeOK
<1>8. NoteTypeOK'  BY <1>5, <1>6, <1>7 DEF NoteTypeOK
<1>9. LocksSound'  BY <1>5, <1>6 DEF LocksSound, NoteTypeOK
<1>10. ReadsExplained'
  <2> SUFFICES ASSUME NEW n \in Notes, notes'[n] = "read"
               PROVE  \E mark \in marks' : mark.note = n
    BY DEF ReadsExplained
  <2>1. CASE owner[n] # r
    <3>1. PICK mark \in marks : mark.note = n  BY <1>6, <2>1 DEF ReadsExplained
    <3>2. mark \in marks'  BY <1>4
    <3> QED  BY <3>1, <3>2
  <2>2. CASE owner[n] = r
    <3>1. [by |-> r, note |-> n] \in marks'  BY <1>4, <1>6, <2>2
    <3> QED  BY <3>1
  <2> QED  BY <2>1, <2>2
<1>11. ASSUME NEW o \in NoteReaders \ {r}  PROVE NoteSound(o)'
  <2>1. NoteSound(o) /\ NoteTypeOK /\ reader'[o] = reader[o]  BY <1>5
  <2>2. \A n \in Notes : owner[n] = o => owner'[n] = o  BY <1>6
  <2>3. \A n \in Notes : notes[n] = "gone" => notes'[n] = "gone"
    BY <1>6 DEF LocksSound, NoteAssumption
  <2>4. \A n \in Notes : notes[n] = "read" => notes'[n] \in {"read", "gone"}  BY <1>6
  <2>5. \A mark \in marks' : mark \in marks \/ mark.by # o  BY <1>7
  <2> QED  BY <2>1, <2>2, <2>3, <2>4, <2>5, OtherReader
<1>12. NoteSound(r)'
  <2>1. NoteSound(r) /\ reader[r].found \subseteq Notes  BY <1>1 DEF Reader
  <2>2. \A n \in reader[r].found : owner[n] = r \/ notes[n] = "gone"
    BY <1>4, <2>1 DEF NoteSound
  <2>3. \A n \in reader[r].found : notes'[n] \in {"read", "gone"}
    BY <1>6, <2>1, <2>2
  <2>4. reader[r].does.op # "list"  BY <1>4, <2>1 DEF NoteSound
  <2> QED  BY <1>5, <2>3, <2>4 DEF NoteSound
<1> QED  BY <1>8, <1>9, <1>10, <1>11, <1>12

LEMMA NoteInductive ==
  ASSUME NoteAssumption, NoteInv, [NoteNext]_noteVars
  PROVE  NoteInv'
<1>1. ASSUME NEW r \in NoteReaders, NEW does \in NoteOps[r], AskNotes(r, does)  PROVE NoteInv'
  BY <1>1, NotesAsked
<1>2. ASSUME NEW r \in NoteReaders, AbortReader(r) \/ NoSuchNote(r) \/ NoteVanished(r) \/ BreakReaders(r)
      PROVE  NoteInv'
  <2>1. reader[r].pc # "done" /\ \E label \in {"refused", "error"} : ReaderEnds(r, label)
    BY <1>2 DEF AbortReader, NoSuchNote, NoteVanished, BreakReaders, OpenReader, WaitsForReader
  <2> QED  BY <2>1, ReaderEnding
<1>3. ASSUME NEW r \in NoteReaders, ServeReader(r)  PROVE NoteInv'
  BY <1>2, <1>3, NotesRead, NoteWritten, NotesCommitted, NotesCounted, NotesListed DEF ServeReader
<1>4. CASE UNCHANGED noteVars
  <2> USE DEF NoteInv
  <2>1. NoteTypeOK' /\ LocksSound' /\ ReadsExplained'
    BY <1>4 DEF noteVars, NoteTypeOK, LocksSound, ReadsExplained
  <2>2. ASSUME NEW o \in NoteReaders  PROVE NoteSound(o)'
    <3>1. NoteSound(o) /\ NoteTypeOK /\ UNCHANGED <<notes, owner, reader, marks>>
      BY <1>4 DEF noteVars
    <3> QED  BY <3>1, OtherReader DEF NoteTypeOK
  <2> QED  BY <2>1, <2>2
<1> QED  BY <1>1, <1>2, <1>3, <1>4 DEF NoteNext

-----------------------------------------------------------------------------
(* The console: a step is one of one part.                                 *)

LEMMA StepOfOnePart ==
  ASSUME [ConsoleNext]_consoleVars
  PROVE  /\ [ChangeNext]_changeVars
         /\ [AccountNext]_accountVars
         /\ [QueryNext]_queryVars
         /\ [DemoNext]_demoVars
         /\ [NoteNext]_noteVars
         /\ [FeedNext]_feedVars
         /\ [LogNext]_logVars
         /\ [ReportNext]_reportVars
<1>1. CASE UNCHANGED consoleVars
  BY <1>1 DEF consoleVars
<1>2. CASE FeedsStep
  BY <1>2 DEF FeedsStep
<1>3. CASE LogsStep
  BY <1>3 DEF LogsStep
<1>4. CASE ReportsStep
  BY <1>4 DEF ReportsStep
<1>5. CASE ChangesStep
  BY <1>5 DEF ChangesStep
<1>6. CASE AccountsStep
  BY <1>6 DEF AccountsStep
<1>7. CASE QueriesStep
  BY <1>7 DEF QueriesStep
<1>8. CASE DemoStep
  BY <1>8 DEF DemoStep
<1>9. CASE NotesStep
  BY <1>9 DEF NotesStep
<1>10. QED
  BY <1>1, <1>2, <1>3, <1>4, <1>5, <1>6, <1>7, <1>8, <1>9 DEF ConsoleNext

\* A change of a setting and a restart of a pod are announced before they take
\* effect, and none is recorded or answered as a success that did not take
\* place, whatever fails or dies between intent, effect and outcome; and the
\* row of a restart and its entries tell the same, and come and go together,
\* unless its intent was committed between the two DELETEs of a reset, which
\* can leave the row without its entries.
THEOREM ChangesAreAccounted == ConsoleSpec => []ChangesAccounted
<1>1. ConsoleInit => ChangeInv
  BY ChangeAssumption, ChangeInitial DEF ConsoleInit
<1>2. ChangeInv /\ [ConsoleNext]_consoleVars => ChangeInv'
  BY ChangeAssumption, ChangeInductive, StepOfOnePart
<1>3. ChangeInv => ChangesAccounted
  BY ChangeInvAccounts
<1>4. QED
  BY <1>1, <1>2, <1>3, PTL DEF ConsoleSpec

\* Users come and go with an entry of the audit log, a ban is undone only by an
\* unban that was logged, and no lock outlives its request, whichever requests
\* overlap, conflict or are cancelled; a reset deletes entries, never users.
THEOREM AccountsAreAudited == ConsoleSpec => []AccountsAudited
<1>1. ConsoleInit => AccountInv
  BY AccountAssumption, AccountInitial DEF ConsoleInit
<1>2. AccountInv /\ [ConsoleNext]_consoleVars => AccountInv'
  BY AccountAssumption, AccountInductive, StepOfOnePart
<1>3. AccountInv => AccountsAudited
  BY AccountAssumption, AccountInvAudits
<1>4. QED
  BY <1>1, <1>2, <1>3, PTL DEF ConsoleSpec

\* Saved queries keep unique names, each of which a request that was answered
\* has given, although the check of a name and its write are two steps.
THEOREM QueriesAreSound == ConsoleSpec => []QueriesSound
<1>1. ConsoleInit => QueryInv
  BY QueryAssumption, QueryInitial DEF ConsoleInit
<1>2. QueryInv /\ [ConsoleNext]_consoleVars => QueryInv'
  BY QueryAssumption, QueryInductive, StepOfOnePart
<1>3. QueryInv => QueriesSound
  BY QueryAssumption, QueryInvSound
<1>4. QED
  BY <1>1, <1>2, <1>3, PTL DEF ConsoleSpec

\* However many seeds and resets overlap, and whichever of them fail: no Redis
\* key shows rows that are not committed, an alert keeps its rows, a batch is
\* torn only if it was committed amid a reset, a fingerprint has one active
\* alert, and a reset has removed what it found.
THEOREM DemoDataStaysWhole == ConsoleSpec => []DemoDataSound
<1>1. ConsoleInit => DemoInv
  BY SeedAssumption, DemoInitial DEF ConsoleInit
<1>2. DemoInv /\ [ConsoleNext]_consoleVars => DemoInv'
  BY SeedAssumption, DemoInductive, StepOfOnePart
<1>3. DemoInv => DemoDataSound
  BY DEF DemoInv
<1>4. QED
  BY <1>1, <1>2, <1>3, PTL DEF ConsoleSpec

\* What was answered as read is read and nothing else is, a list shows no more
\* unread rows than it counted, and no lock outlives its request.
THEOREM MarksAreKept == ConsoleSpec => []NotificationsSound
<1>1. ConsoleInit => NoteInv
  BY NoteAssumption, NoteInitial DEF ConsoleInit
<1>2. NoteInv /\ [ConsoleNext]_consoleVars => NoteInv'
  BY NoteAssumption, NoteInductive, StepOfOnePart
<1>3. NoteInv => NotificationsSound
  BY NoteInvSound
<1>4. QED
  BY <1>1, <1>2, <1>3, PTL DEF ConsoleSpec

\* The feeds deliver what they promise, beside everything else that the console
\* does.
THEOREM ConsoleFeedsDeliver == ConsoleSpec => []FeedsDeliver
<1>1. ConsoleInit => FeedInv
  BY FeedAssumption, FeedInitial DEF ConsoleInit
<1>2. FeedInv /\ [ConsoleNext]_consoleVars => FeedInv'
  BY FeedAssumption, FeedInductive, StepOfOnePart
<1>3. FeedInv => FeedsDeliver
  BY FeedAssumption, FeedInvDelivers
<1>4. QED
  BY <1>1, <1>2, <1>3, PTL DEF ConsoleSpec

\* Whoever pages through the audit log or exports it while entries are added,
\* rolled back or reset gets every entry that was there, is shown again no more
\* than was added, and keeps the artefact he was told of for its hour.
THEOREM ReportsAreSound == ConsoleSpec => []ReportsSound
<1>1. ConsoleInit => ReportInv
  BY ReportAssumption, ReportInitial DEF ConsoleInit
<1>2. ReportInv /\ [ConsoleNext]_consoleVars => ReportInv'
  BY ReportAssumption, ReportInductive, StepOfOnePart
<1>3. ReportInv => ReportsSound
  BY ReportAssumption, ReportSuffices
<1>4. QED
  BY <1>1, <1>2, <1>3, PTL DEF ConsoleSpec

\* What the requests that were answered have made of saved queries, demo data,
\* notifications and reports stays, after whatever commits and failures.
THEOREM RecordsAreSound == ConsoleSpec => []RecordsSound
<1>1. QueriesSound /\ DemoDataSound /\ NotificationsSound /\ ReportsSound => RecordsSound
  BY DEF RecordsSound
<1>2. QED
  BY <1>1, QueriesAreSound, DemoDataStaysWhole, MarksAreKept, ReportsAreSound, PTL

\* Search and histogram tell of the logs they have read: each log that matched
\* and is in the window in its bucket and in no other, none lost but those that
\* grew too old meanwhile, and none outside of the bounds asked for.
THEOREM ViewsAreFaithful == ConsoleSpec => []ViewsFaithful
<1>1. ConsoleInit => LogInv
  BY LogAssumption, LogInitial DEF ConsoleInit
<1>2. LogInv /\ [ConsoleNext]_consoleVars => LogInv'
  BY LogAssumption, LogInductive, StepOfOnePart
<1>3. LogInv => ViewsFaithful
  BY LogAssumption, LogSuffices
<1>4. QED
  BY <1>1, <1>2, <1>3, PTL DEF ConsoleSpec

\* The variables of every part of the console have their types.
THEOREM ConsoleTypesHold == ConsoleSpec => []ConsoleTypeOK
<1> DEFINE Inv == /\ part \in Parts /\ FeedInv /\ ChangeInv /\ AccountInv /\ QueryInv
                  /\ DemoInv /\ NoteInv /\ LogInv /\ ReportInv
<1>1. ConsoleInit => Inv
  <2> SUFFICES ASSUME ConsoleInit  PROVE Inv
    OBVIOUS
  <2>1. part \in Parts  BY DEF ConsoleInit
  <2>2. FeedInv  BY FeedAssumption, FeedInitial DEF ConsoleInit
  <2>3. ChangeInv  BY ChangeAssumption, ChangeInitial DEF ConsoleInit
  <2>4. AccountInv  BY AccountAssumption, AccountInitial DEF ConsoleInit
  <2>5. QueryInv  BY QueryAssumption, QueryInitial DEF ConsoleInit
  <2>6. DemoInv  BY SeedAssumption, DemoInitial DEF ConsoleInit
  <2>7. NoteInv  BY NoteAssumption, NoteInitial DEF ConsoleInit
  <2>8. LogInv  BY LogAssumption, LogInitial DEF ConsoleInit
  <2>9. ReportInv  BY ReportAssumption, ReportInitial DEF ConsoleInit
  <2> QED  BY <2>1, <2>2, <2>3, <2>4, <2>5, <2>6, <2>7, <2>8, <2>9
<1>2. Inv /\ [ConsoleNext]_consoleVars => Inv'
  <2> SUFFICES ASSUME Inv, [ConsoleNext]_consoleVars  PROVE Inv'
    OBVIOUS
  <2>1. (part \in Parts)'
    <3>1. UNCHANGED part  BY DEF ConsoleNext, consoleVars
    <3> QED  BY <3>1
  <2>2. FeedInv'  BY FeedAssumption, FeedInductive, StepOfOnePart
  <2>3. ChangeInv'  BY ChangeAssumption, ChangeInductive, StepOfOnePart
  <2>4. AccountInv'  BY AccountAssumption, AccountInductive, StepOfOnePart
  <2>5. QueryInv'  BY QueryAssumption, QueryInductive, StepOfOnePart
  <2>6. DemoInv'  BY SeedAssumption, DemoInductive, StepOfOnePart
  <2>7. NoteInv'  BY NoteAssumption, NoteInductive, StepOfOnePart
  <2>8. LogInv'  BY LogAssumption, LogInductive, StepOfOnePart
  <2>9. ReportInv'  BY ReportAssumption, ReportInductive, StepOfOnePart
  <2> QED  BY <2>1, <2>2, <2>3, <2>4, <2>5, <2>6, <2>7, <2>8, <2>9
<1>3. Inv => ConsoleTypeOK
  <2> SUFFICES ASSUME Inv  PROVE ConsoleTypeOK
    OBVIOUS
  <2>1. FeedTypeOK  BY DEF FeedInv
  <2>2. ChangeTypeOK  BY DEF ChangeInv
  <2>3. AccountTypeOK  BY DEF AccountInv
  <2>4. QueryTypeOK  BY DEF QueryInv
  <2>5. DemoTypeOK  BY DEF DemoInv
  <2>6. NoteTypeOK  BY DEF NoteInv
  <2>7. LogViewTypeOK  BY DEF LogInv
  <2>8. ReportTypeOK  BY DEF ReportInv
  <2> QED  BY <2>1, <2>2, <2>3, <2>4, <2>5, <2>6, <2>7, <2>8 DEF ConsoleTypeOK
<1> HIDE DEF Inv
<1>4. QED
  BY <1>1, <1>2, <1>3, PTL DEF ConsoleSpec

=============================================================================
