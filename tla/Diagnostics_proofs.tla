--------------------------- MODULE Diagnostics_proofs --------------------------
(***************************************************************************)
(* The properties of Diagnostics for every set of task names and every     *)
(* bound.  The inductive invariant follows a fatal error from the marker,  *)
(* through the copy Initialize holds, to the record.                       *)
(***************************************************************************)
EXTENDS Diagnostics, TLAPS

(* Which steps belong to which thread, and what they exclude. *)
Control ==
  /\ pc["main"] \notin {"clear-update", "clear-save"}
  /\ pc["work"] \in {"idle", "bite-save", "halted"}
  /\ pc["shell"] \in {"idle", "bite-save", "clear-update", "clear-save", "halted"}
  /\ wdt => pc["main"] \in {"idle", "halted"}
  /\ \A t \in Feeder : pc[t] = "bite-save" => wdt
  /\ pc["main"] # "init-save" => taken = 0
  /\ pc["main"] \in {"init-load", "init-update", "init-save"} => ~initOk
  /\ Halted => \A t \in Feeder : pc[t] = "halted"

(* The numbers of the fatal errors on their way.  A marker that is valid     *)
(* holds the last captured fatal error, not yet delivered and not erased.    *)
Numbers ==
  /\ sealed <= fatals
  /\ delivered <= sealed
  /\ erased <= fatals
  /\ marker.sum <= fatals
  /\ IsValidFatalMarker(marker) =>
       marker.body = sealed /\ delivered < sealed /\ erased < sealed
  /\ Halted =>
       /\ marker.magic /\ marker.body = fatals
       /\ marker.sum # marker.body => sealed < fatals /\ erased < fatals
  /\ pc["shell"] = "clear-save" => ~marker.magic
  /\ pc["main"] = "init-save" /\ taken > 0 =>
       ~marker.magic /\ taken = sealed /\ delivered < taken

Honest(record) ==
  /\ record.panics > 0 <=> record.fatal > 0
  /\ record.fatal > 0 => record.panics <= record.fatal - erased
  /\ record.fatal > 0 => record.fatal > erased

(* Every copy of the record that can still be saved is as honest as the one  *)
(* in flash, and only the copy of Initialize is ahead of what was delivered. *)
Copies ==
  /\ flash.form # "own" => flash.record = FreshRecord
  /\ Honest(flash.record)
  /\ flash.record.fatal <= delivered
  /\ \A t \in Thread : MidOperation(t) =>
       /\ Honest(buf[t])
       /\ \/ buf[t].fatal <= delivered
          \/ t = "main" /\ pc[t] = "init-save" /\ taken > 0 /\ buf[t].fatal = taken
  /\ pc["main"] = "init-save" /\ taken > 0 => buf["main"].fatal = taken
  /\ pc["shell"] = "clear-save" => buf["shell"].fatal = NoFatal

Complete(record) ==
  record.fatal # UnsetFatal /\ record.bite # "empty" /\ record.cause = cause

(* After Initialize succeeded, whatever is saved by a thread that found the  *)
(* record is complete.                                                       *)
Completeness ==
  /\ initOk /\ ~overwritten => flash.form = "own" /\ Complete(flash.record)
  /\ initOk /\ ~overwritten =>
       \A t \in Thread \ missed : pc[t] = "bite-save" => Complete(buf[t])
  /\ pc["main"] = "init-save" => Complete(buf["main"])
  /\ pc["shell"] = "clear-save" =>
       Complete(buf["shell"]) /\ buf["shell"].bite = "none"

(* The copy of Initialize still has the watchdog report that flash has, if    *)
(* its load found the record.                                                *)
Reports ==
  /\ pc["main"] \in {"init-update", "init-save"} /\ "main" \notin missed
  /\ flash.record.bite \notin {"empty", "none"}
  => buf["main"].bite = flash.record.bite

(* A captured fatal error that nothing excuses. *)
Owed == sealed = fatals /\ sealed > excused /\ sealed > dropped

InMarker == IsValidFatalMarker(marker) /\ marker.body = sealed
InHands == pc["main"] = "init-save" /\ taken = sealed

(* An owed fatal error that is not delivered is in the marker or in           *)
(* Initialize's hands.  One that is delivered is on the record, and so it is   *)
(* in every copy of a thread that found the record and that a report or        *)
(* Initialize is going to save.                                                *)
Kept ==
  /\ Owed /\ delivered < sealed => InMarker \/ InHands
  /\ Owed /\ delivered = sealed =>
       /\ FoundRecord.fatal = sealed
       /\ \A t \in Thread \ missed :
            pc[t] \in {"bite-save", "init-update", "init-save"} => buf[t].fatal = sealed
  /\ pc["shell"] = "clear-save" => excused = fatals

IInv ==
  /\ TypeOK
  /\ Control
  /\ Numbers
  /\ Copies
  /\ Completeness
  /\ Reports
  /\ Kept
--------------------------------------------------------------------------------
(* Type correctness *)

LEMMA FreshRecordType == FreshRecord \in Record
  BY DEF FreshRecord, Record, UnsetFatal

LEMMA LoadableType == TypeOK => FoundRecord \in Loadable /\ Loadable \subseteq Record
  BY FreshRecordType DEF FoundRecord, Loadable, TypeOK

LEMMA InitializedRecordType ==
  ASSUME TypeOK, NEW r \in Record
  PROVE  InitializedRecord(r) \in Record
  BY DEF TypeOK, InitializedRecord, RefreshBootMetadata, Record, Marker, NoFatal,
         UnsetFatal, Cause

LEMMA ClearedRecordType ==
  ASSUME TypeOK, NEW r \in Record
  PROVE  ClearedRecord(r) \in Record
  BY DEF TypeOK, ClearedRecord, RefreshBootMetadata, FreshRecord, Record, NoFatal,
         UnsetFatal, Cause

LEMMA WithBiteType ==
  ASSUME NEW r \in Record, NEW reason \in {HardwareReset} \cup TaskName
  PROVE  WithBite(r, reason) \in Record
  BY DEF WithBite, Record

(* A load gives its thread a record, or changes no copy at all. *)
LEMMA LoadStoredRecordType ==
  ASSUME TypeOK, NEW t \in Thread, NEW loaded \in Loadable, NEW record \in Record,
         NEW onOk \in Step, NEW onError \in Step,
         LoadStoredRecord(t, loaded, record, onOk, onError)
  PROVE  pc' \in [Thread -> Step] /\ buf' \in [Thread -> Record] /\ missed' \subseteq Thread
  BY DEF LoadStoredRecord, TypeOK

LEMMA SaveStoredRecordType ==
  ASSUME TypeOK, NEW t \in Thread, SaveStoredRecord(t)
  PROVE  flash' \in [form : Form, record : Record]
<1>1. buf[t] \in Record
  BY DEF TypeOK
<1> QED BY <1>1 DEF SaveStoredRecord, Form

LEMMA ReturnType ==
  ASSUME TypeOK, NEW t \in Thread, NEW step \in Step, Return(t, step)
  PROVE  pc' \in [Thread -> Step] /\ buf' \in [Thread -> Record] /\ missed' \subseteq Thread
  BY FreshRecordType DEF Return, TypeOK

LEMMA ExcusedBySaveType ==
  ASSUME TypeOK, NEW t PROVE ExcusedBySave(t) \in Nat
  BY DEF TypeOK, ExcusedBySave

LEMMA CutOffType == TypeOK /\ CutOff => taken' \in Nat /\ dropped' \in Nat
  BY DEF TypeOK, CutOff

LEMMA ClearFatalMarkerType == ClearFatalMarker => marker' \in Marker
  BY DEF ClearFatalMarker, ClearedMarker, Marker

LEMMA BootTypes ==
  /\ BootPc \in [Thread -> Step]
  /\ BootBuf \in [Thread -> Record]
  /\ RandomMarkers \subseteq Marker
<1>1. BootPc \in [Thread -> Step]
  BY DEF BootPc, Step
<1>2. BootBuf \in [Thread -> Record]
  BY FreshRecordType DEF BootBuf
<1>3. RandomMarkers \subseteq Marker
  BY DEF RandomMarkers, Marker
<1> QED BY <1>1, <1>2, <1>3

LEMMA TypeInit == Init => TypeOK
<1> SUFFICES ASSUME Init PROVE TypeOK
  OBVIOUS
<1>1. flash \in [form : Form, record : Record]
  BY FreshRecordType DEF Init, Form
<1> QED BY <1>1, BootTypes DEF Init, TypeOK, Cause

LEMMA TypeStep == ASSUME TypeOK, [Next]_vars PROVE TypeOK'
<1>1. CASE InitializeLoad
  <2>1. pc' \in [Thread -> Step] /\ buf' \in [Thread -> Record] /\ missed' \subseteq Thread
    BY <1>1, LoadableType, LoadStoredRecordType DEF InitializeLoad, Thread, Step
  <2> QED BY <1>1, <2>1 DEF InitializeLoad, TypeOK, counts
<1>2. CASE InitializeUpdate
  <2>1. InitializedRecord(buf["main"]) \in Record
    BY InitializedRecordType DEF TypeOK, Thread
  <2>2. pc' \in [Thread -> Step] /\ buf' \in [Thread -> Record]
    BY <1>2, <2>1 DEF InitializeUpdate, TypeOK, Step
  <2>3. marker' \in Marker /\ taken' \in Nat
    BY <1>2, ClearFatalMarkerType DEF InitializeUpdate, TypeOK, Marker
  <2> QED BY <1>2, <2>2, <2>3 DEF InitializeUpdate, TypeOK
<1>3. CASE InitializeSave
  <2>1. flash' \in [form : Form, record : Record]
    BY <1>3, SaveStoredRecordType DEF InitializeSave, TypeOK, Thread
  <2>2. /\ initOk' \in BOOLEAN /\ delivered' \in Nat /\ overwritten' \in BOOLEAN
        /\ taken' \in Nat /\ dropped' \in Nat /\ excused' \in Nat
    <3>1. CASE CutOff /\ UNCHANGED <<initOk, delivered, excused, overwritten>>
      BY <3>1, CutOffType DEF TypeOK
    <3>2. CASE /\ initOk' = TRUE /\ overwritten' = FALSE /\ taken' = 0
               /\ delivered' \in {delivered, taken} /\ UNCHANGED dropped
               /\ excused' = ExcusedBySave("main")
      BY <3>2, ExcusedBySaveType DEF TypeOK
    <3> QED BY <1>3, <3>1, <3>2 DEF InitializeSave
  <2>3. pc' \in [Thread -> Step] /\ buf' \in [Thread -> Record] /\ missed' \subseteq Thread
    BY <1>3, ReturnType DEF InitializeSave, Thread, Step
  <2> QED BY <1>3, <2>1, <2>2, <2>3 DEF InitializeSave, TypeOK
<1>4. CASE WatchdogInitialize
  <2>1. \A loaded \in Loadable : WithBite(loaded, HardwareReset) \in Record
    BY LoadableType, WithBiteType
  <2>2. pc' \in [Thread -> Step] /\ buf' \in [Thread -> Record] /\ missed' \subseteq Thread
    <3>1. ASSUME NEW loaded \in Loadable,
                 LoadStoredRecord("main", loaded, WithBite(loaded, HardwareReset),
                                  "bite-save", "setup")
          PROVE  pc' \in [Thread -> Step] /\ buf' \in [Thread -> Record]
                   /\ missed' \subseteq Thread
      BY <2>1, <3>1, LoadStoredRecordType DEF Thread, Step
    <3>2. CASE /\ UNCHANGED <<buf, missed>>
               /\ \/ pc' = [pc EXCEPT !["main"] = "idle"]
                  \/ pc' = [pc EXCEPT !["main"] = "setup"]
      BY <3>2 DEF TypeOK, Step
    <3> QED BY <1>4, <3>1, <3>2 DEF WatchdogInitialize
  <2>3. UNCHANGED <<flash, marker, cause, initOk, wdt, counts>>
    BY <1>4 DEF WatchdogInitialize
  <2> QED BY <2>2, <2>3 DEF TypeOK, counts
<1>5. CASE WatchdogSetup
  BY <1>5 DEF WatchdogSetup, TypeOK, Step, history
<1>6. ASSUME NEW t \in Feeder, FeedUnhealthy(t) PROVE TypeOK'
  <2>1. PICK name \in TaskName, loaded \in Loadable :
          LoadStoredRecord(t, loaded, WithBite(loaded, name), "bite-save", "idle")
    BY <1>6 DEF FeedUnhealthy
  <2>2. WithBite(loaded, name) \in Record
    BY LoadableType, WithBiteType
  <2>3. pc' \in [Thread -> Step] /\ buf' \in [Thread -> Record] /\ missed' \subseteq Thread
    BY <2>1, <2>2, LoadStoredRecordType DEF Thread, Feeder, Step
  <2> QED BY <1>6, <2>3 DEF FeedUnhealthy, TypeOK, counts
<1>7. ASSUME NEW t \in Thread, RecordWatchdogBiteSave(t) PROVE TypeOK'
  <2>1. flash' \in [form : Form, record : Record]
    BY <1>7, SaveStoredRecordType DEF RecordWatchdogBiteSave, TypeOK
  <2>2. pc' \in [Thread -> Step] /\ buf' \in [Thread -> Record] /\ missed' \subseteq Thread
    BY <1>7, ReturnType DEF RecordWatchdogBiteSave, Step
  <2>3. excused' \in Nat /\ overwritten' \in BOOLEAN
    BY <1>7, ExcusedBySaveType DEF RecordWatchdogBiteSave, TypeOK
  <2> QED BY <1>7, <2>1, <2>2, <2>3 DEF RecordWatchdogBiteSave, TypeOK
<1>8. CASE ClearCrashRecordLoad
  <2>1. pc' \in [Thread -> Step] /\ buf' \in [Thread -> Record] /\ missed' \subseteq Thread
    BY <1>8, LoadableType, LoadStoredRecordType
    DEF ClearCrashRecordLoad, Thread, Step
  <2> QED BY <1>8, <2>1 DEF ClearCrashRecordLoad, TypeOK, counts
<1>9. CASE ClearCrashRecordUpdate
  <2>1. ClearedRecord(buf["shell"]) \in Record
    BY ClearedRecordType DEF TypeOK, Thread
  <2>2. pc' \in [Thread -> Step] /\ buf' \in [Thread -> Record]
    BY <1>9, <2>1 DEF ClearCrashRecordUpdate, TypeOK, Step
  <2> QED BY <1>9, <2>2, ClearFatalMarkerType DEF ClearCrashRecordUpdate, TypeOK
<1>10. CASE ClearCrashRecordSave
  <2>1. flash' \in [form : Form, record : Record]
    BY <1>10, SaveStoredRecordType DEF ClearCrashRecordSave, TypeOK, Thread
  <2>2. /\ pc' \in [Thread -> Step] /\ buf' \in [Thread -> Record]
        /\ missed' \subseteq Thread /\ erased' \in Nat
    BY <1>10, ReturnType DEF ClearCrashRecordSave, TypeOK, Thread, Step
  <2> QED BY <1>10, <2>1, <2>2 DEF ClearCrashRecordSave, TypeOK
<1>11. CASE CaptureFatalFields
  <2>1. marker' \in Marker /\ fatals' \in Nat
    <3>1. marker \in Marker /\ fatals \in Nat
      BY DEF TypeOK
    <3>2. fatals + 1 \in Nat
      BY <3>1
    <3>3. [marker EXCEPT !.magic = TRUE, !.body = fatals + 1] \in Marker
      BY <3>1, <3>2 DEF Marker
    <3> QED BY <1>11, <3>2, <3>3 DEF CaptureFatalFields
  <2>2. /\ pc' \in [Thread -> Step] /\ buf' \in [Thread -> Record]
        /\ taken' \in Nat /\ dropped' \in Nat
    BY <1>11, FreshRecordType, CutOffType DEF CaptureFatalFields, Step
  <2> QED BY <1>11, <2>1, <2>2 DEF CaptureFatalFields, TypeOK
<1>12. CASE CaptureFatalChecksum
  <2>1. marker' \in Marker /\ sealed' \in Nat
    BY <1>12 DEF CaptureFatalChecksum, TypeOK, Marker
  <2> QED BY <1>12, <2>1 DEF CaptureFatalChecksum, TypeOK
<1>13. ASSUME NEW kind \in Cause, Reset(kind) PROVE TypeOK'
  <2>1. /\ marker' \in Marker /\ boots' \in Nat
        /\ excused' \in Nat /\ taken' \in Nat /\ dropped' \in Nat
    BY <1>13, BootTypes, CutOffType DEF Reset, TypeOK
  <2> QED BY <1>13, <2>1, BootTypes DEF Reset, TypeOK
<1>14. CASE SettingsCommand
  BY <1>14, FreshRecordType DEF SettingsCommand, TypeOK, Form
<1>15. CASE UNCHANGED vars
  BY <1>15 DEF vars, code, history, TypeOK
<1> QED
  BY <1>1, <1>2, <1>3, <1>4, <1>5, <1>6, <1>7, <1>8, <1>9, <1>10, <1>11, <1>12,
     <1>13, <1>14, <1>15 DEF Next

(* The state and every copy of the record have the types of TypeOK. *)
THEOREM TypeCorrect == Spec => []TypeOK
<1>1. TypeOK /\ [Next]_vars => TypeOK'
  BY TypeStep
<1> QED BY TypeInit, <1>1, PTL DEF Spec
--------------------------------------------------------------------------------
(* The inductive invariant *)

(* The arithmetic types, for steps that do not need the whole of TypeOK. *)
LEMMA NumberTypes ==
  ASSUME TypeOK
  PROVE  /\ sealed \in Nat /\ fatals \in Nat /\ delivered \in Nat
         /\ erased \in Nat /\ taken \in Nat /\ excused \in Nat /\ dropped \in Nat
         /\ marker.magic \in BOOLEAN /\ marker.body \in Nat /\ marker.sum \in Int
         /\ flash.record.panics \in Nat /\ flash.record.fatal \in Int
         /\ \A t \in Thread : buf[t].panics \in Nat /\ buf[t].fatal \in Int
  BY DEF TypeOK, Marker, Record, UnsetFatal

(* What a load returns is honest, and what it found is as good as what flash *)
(* holds.                                                                    *)
LEMMA LoadedRecord ==
  ASSUME IInv, NEW loaded \in Loadable
  PROVE  /\ Honest(loaded)
         /\ loaded.fatal <= delivered
         /\ loaded = FoundRecord /\ initOk /\ ~overwritten => Complete(loaded)
         /\ loaded = FoundRecord /\ flash.record.bite \notin {"empty", "none"} =>
              loaded.bite = flash.record.bite
<1>1. Honest(FreshRecord) /\ FreshRecord.fatal <= delivered /\ FreshRecord.bite = "empty"
  BY NumberTypes DEF IInv, Honest, FreshRecord, UnsetFatal
<1> QED BY <1>1 DEF IInv, Copies, Completeness, FoundRecord, Loadable

LEMMA WithBiteFields ==
  ASSUME NEW r \in Record, NEW reason
  PROVE  /\ WithBite(r, reason).fatal = r.fatal
         /\ WithBite(r, reason).panics = r.panics
         /\ WithBite(r, reason).cause = r.cause
         /\ WithBite(r, reason).bite = reason
  BY DEF WithBite, Record

LEMMA ClearedRecordFields ==
  ASSUME NEW r
  PROVE  /\ ClearedRecord(r).fatal = NoFatal
         /\ ClearedRecord(r).panics = 0
         /\ Complete(ClearedRecord(r)) /\ ClearedRecord(r).bite = "none"
  BY DEF ClearedRecord, RefreshBootMetadata, FreshRecord, NoFatal, UnsetFatal, Complete

LEMMA InitializedRecordFields ==
  ASSUME NEW r
  PROVE  /\ InitializedRecord(r).panics =
              IF IsValidFatalMarker(marker) THEN r.panics + 1 ELSE r.panics
         /\ InitializedRecord(r).fatal =
              IF IsValidFatalMarker(marker) THEN marker.body
              ELSE IF r.fatal = UnsetFatal THEN NoFatal ELSE r.fatal
         /\ InitializedRecord(r).cause = cause
         /\ InitializedRecord(r).bite = IF r.bite = "empty" THEN "none" ELSE r.bite
  BY DEF InitializedRecord, RefreshBootMetadata

LEMMA InvariantInit == Init => IInv
<1> SUFFICES ASSUME Init PROVE IInv
  OBVIOUS
<1>1. TypeOK
  BY TypeInit
<1>2. /\ pc["main"] = "init-load" /\ pc["work"] = "idle" /\ pc["shell"] = "idle"
      /\ \A t \in Thread : ~MidOperation(t)
  BY DEF Init, BootPc, Thread, MidOperation
<1>3. marker.sum = -1 /\ marker.body = 0
  BY DEF Init, RandomMarkers
<1>4. flash.form # "own" /\ flash.record = FreshRecord
  BY DEF Init, Form
<1>5. Control
  BY <1>2 DEF Init, Control, Halted, Feeder
<1>6. Numbers
  BY <1>2, <1>3 DEF Init, Numbers, Halted, IsValidFatalMarker
<1>7. Copies
  BY <1>2, <1>4 DEF Init, Copies, Honest, FreshRecord, UnsetFatal
<1>8. Completeness
  BY <1>2, <1>4 DEF Init, Completeness, BootPc
<1>9. Reports
  BY <1>2 DEF Reports
<1>10. Kept
  BY <1>2 DEF Init, Kept, Owed
<1> QED BY <1>1, <1>5, <1>6, <1>7, <1>8, <1>9, <1>10 DEF IInv

(* What is captured reaches the record or is accounted for.  A step that     *)
(* starts an operation, or ends one without a save, moves nothing.           *)
LEMMA KeptStep == ASSUME IInv, [Next]_vars PROVE Kept'
<1> USE DEF Thread, Halted
<1>b. TypeOK /\ Control /\ Numbers /\ Copies /\ Kept
  BY DEF IInv
<1>1. CASE InitializeLoad
  BY <1>1, <1>b DEF InitializeLoad, LoadStoredRecord, Kept, Owed, InMarker, InHands,
     FoundRecord, IsValidFatalMarker, counts, TypeOK
<1>2. CASE InitializeUpdate
  <2>1. IsValidFatalMarker(marker) => delivered < sealed /\ taken' = sealed
    BY <1>2, <1>b DEF InitializeUpdate, Numbers
  <2>2. ~IsValidFatalMarker(marker) /\ Owed /\ delivered = sealed /\ "main" \notin missed =>
          buf'["main"].fatal = sealed
    BY <1>2, <1>b, NumberTypes, InitializedRecordFields
    DEF InitializeUpdate, Kept, Owed, UnsetFatal, TypeOK
  <2> QED BY <1>2, <1>b, <2>1, <2>2, NumberTypes DEF InitializeUpdate, Kept, Owed,
     InMarker, InHands, FoundRecord, TypeOK
<1>3. CASE InitializeSave
  <2>1. /\ \A t \in Thread : pc'[t] \notin {"bite-save", "init-update", "init-save"}
        /\ pc'["shell"] = pc["shell"]
    BY <1>3, <1>b DEF InitializeSave, Return, Control, Feeder, TypeOK
  <2>2. taken > 0 => taken = sealed /\ buf["main"].fatal = taken
    BY <1>3, <1>b DEF InitializeSave, Numbers, Copies
  <2>3. CASE CutOff /\ UNCHANGED <<flash, initOk, delivered, excused, overwritten>>
    BY <1>3, <1>b, <2>1, <2>2, <2>3, NumberTypes DEF InitializeSave, CutOff, Kept, Owed,
       InMarker, InHands, FoundRecord, IsValidFatalMarker
  <2>4. CASE /\ SaveStoredRecord("main") /\ excused' = ExcusedBySave("main")
             /\ delivered' = IF taken = 0 THEN delivered ELSE taken
             /\ taken' = 0 /\ dropped' = dropped
    <3>1. UNCHANGED <<sealed, fatals, marker>> /\ FoundRecord'.fatal = buf["main"].fatal
      BY <1>3, <2>4 DEF InitializeSave, SaveStoredRecord, FoundRecord
    <3>2. Owed' => Owed
      BY <1>b, <2>4, <3>1, NumberTypes DEF Owed, ExcusedBySave
    <3>3. ASSUME Owed', delivered' = sealed' PROVE buf["main"].fatal = sealed
      <4>1. CASE taken > 0
        BY <2>2, <4>1
      <4>2. CASE taken = 0
        <5>1. delivered = sealed /\ "main" \notin missed
          BY <1>b, <2>4, <3>1, <3>3, <4>2, NumberTypes DEF Owed, ExcusedBySave
        <5> QED BY <1>3, <1>b, <3>2, <3>3, <5>1 DEF InitializeSave, Kept
      <4> QED BY <1>b, <4>1, <4>2, NumberTypes
    <3>4. ASSUME Owed', delivered' < sealed' PROVE InMarker'
      BY <1>3, <1>b, <2>2, <2>4, <3>1, <3>2, <3>4, NumberTypes
      DEF Kept, InMarker, InHands, IsValidFatalMarker
    <3>5. pc'["shell"] = "clear-save" => excused' = fatals'
      BY <1>b, <2>1, <2>4, <3>1, NumberTypes DEF Kept, ExcusedBySave, Numbers
    <3> QED BY <2>1, <3>1, <3>3, <3>4, <3>5 DEF Kept
  <2> QED BY <1>3, <2>3, <2>4 DEF InitializeSave
<1>4. CASE WatchdogInitialize
  BY <1>4, <1>b, LoadableType, WithBiteFields DEF WatchdogInitialize,
     LoadStoredRecord, Kept, Owed, InMarker, InHands, FoundRecord,
     IsValidFatalMarker, counts, TypeOK
<1>5. CASE WatchdogSetup
  BY <1>5, <1>b DEF WatchdogSetup, Kept, Owed, InMarker, InHands, FoundRecord,
     IsValidFatalMarker, history, TypeOK
<1>6. ASSUME NEW t \in Feeder, FeedUnhealthy(t) PROVE Kept'
  <2>1. PICK name \in TaskName, loaded \in Loadable :
          LoadStoredRecord(t, loaded, WithBite(loaded, name), "bite-save", "idle")
    BY <1>6 DEF FeedUnhealthy
  <2> QED BY <1>6, <2>1, <1>b, LoadableType, WithBiteFields DEF FeedUnhealthy,
     LoadStoredRecord, Kept, Owed, InMarker, InHands, FoundRecord,
     IsValidFatalMarker, Feeder, counts, TypeOK
<1>7. ASSUME NEW t \in Thread, RecordWatchdogBiteSave(t) PROVE Kept'
  <2>1. /\ UNCHANGED <<sealed, fatals, marker, delivered, taken, dropped>>
        /\ excused' \in {excused, ExcusedBySave(t)}
    BY <1>7 DEF RecordWatchdogBiteSave
  <2>2. Owed' => Owed
    BY <2>1, NumberTypes, <1>b DEF Owed, ExcusedBySave
  <2>3. /\ pc'[t] \in {"setup", "idle"} /\ pc[t] = "bite-save"
        /\ \A u \in Thread \ {t} : pc'[u] = pc[u] /\ buf'[u] = buf[u]
        /\ missed' = missed \ {t}
    BY <1>7, <1>b DEF RecordWatchdogBiteSave, Return, TypeOK
  <2>4. Owed' /\ delivered < sealed => (InMarker \/ InHands)'
    BY <1>b, <2>1, <2>2, <2>3 DEF Kept, InMarker, InHands, IsValidFatalMarker
  <2>5. ASSUME Owed', delivered = sealed PROVE FoundRecord'.fatal = sealed
    <3>1. CASE SaveStoredRecord(t) /\ excused' = ExcusedBySave(t)
      <4>1. excused' < delivered
        BY <1>b, <2>1, <2>5, NumberTypes DEF Owed
      <4>2. t \notin missed
        BY <1>b, <3>1, <4>1, NumberTypes DEF ExcusedBySave
      <4> QED BY <1>b, <2>2, <2>3, <2>5, <3>1, <4>2
        DEF Kept, SaveStoredRecord, FoundRecord
    <3>2. CASE UNCHANGED flash
      BY <1>b, <2>2, <2>5, <3>2 DEF Kept, FoundRecord
    <3> QED BY <1>7, <3>1, <3>2 DEF RecordWatchdogBiteSave
  <2>6. pc'["shell"] = "clear-save" => excused' = fatals'
    BY <1>b, <2>1, <2>3, NumberTypes DEF Kept, ExcusedBySave, Numbers
  <2> QED BY <1>b, <2>1, <2>2, <2>3, <2>4, <2>5, <2>6 DEF Kept
<1>8. CASE ClearCrashRecordLoad
  BY <1>8, <1>b DEF ClearCrashRecordLoad, LoadStoredRecord, Kept, Owed, InMarker,
     InHands, FoundRecord, IsValidFatalMarker, counts, TypeOK
<1>9. CASE ClearCrashRecordUpdate
  BY <1>9, <1>b, NumberTypes DEF ClearCrashRecordUpdate, Kept, Owed
<1>10. CASE ClearCrashRecordSave
  BY <1>10, <1>b, NumberTypes DEF ClearCrashRecordSave, Return, Kept, Owed, TypeOK
<1>11. CASE CaptureFatalFields
  BY <1>11, <1>b, NumberTypes DEF CaptureFatalFields, Kept, Owed, Numbers
<1>12. CASE CaptureFatalChecksum
  <2>1. marker'.body = marker.body /\ marker'.sum = marker.body /\ marker'.magic
    BY <1>12, <1>b DEF CaptureFatalChecksum, TypeOK, Marker, Numbers
  <2>2. delivered' < sealed'
    BY <1>12, <1>b, NumberTypes DEF CaptureFatalChecksum, Numbers
  <2> QED BY <1>12, <1>b, <2>1, <2>2, NumberTypes DEF CaptureFatalChecksum, Kept,
     InMarker, IsValidFatalMarker, Control, Feeder
<1>13. ASSUME NEW kind \in Cause, Reset(kind) PROVE Kept'
  <2>1. \A t \in Thread :
          pc'[t] \notin {"bite-save", "clear-save", "init-update", "init-save"}
    BY <1>13 DEF Reset, BootPc
  <2>2. Owed' => marker' = marker /\ Owed /\ ~InHands
    BY <1>13, <1>b, NumberTypes DEF Reset, CutOff, Owed, InHands, Control, Numbers
  <2> QED BY <1>13, <1>b, <2>1, <2>2 DEF Reset, Kept, InMarker, IsValidFatalMarker,
     FoundRecord
<1>14. CASE SettingsCommand
  BY <1>14, <1>b, NumberTypes DEF SettingsCommand, Kept, Owed, InMarker, InHands,
     IsValidFatalMarker
<1>15. CASE UNCHANGED vars
  BY <1>15, <1>b DEF vars, code, history, Kept, Owed, InMarker, InHands, FoundRecord,
     IsValidFatalMarker
<1> QED
  BY <1>1, <1>2, <1>3, <1>4, <1>5, <1>6, <1>7, <1>8, <1>9, <1>10, <1>11, <1>12,
     <1>13, <1>14, <1>15 DEF Next

LEMMA InvariantStep == ASSUME IInv, [Next]_vars PROVE IInv'
<1> USE DEF Thread, Halted, Return, CutOff
<1>a. TypeOK' /\ Kept'
  BY TypeStep, KeptStep DEF IInv
<1>b. TypeOK /\ Control /\ Numbers /\ Copies /\ Completeness /\ Reports
  BY DEF IInv
<1>1. CASE InitializeLoad
  <2>1. Control' /\ Numbers'
    BY <1>1, <1>b DEF InitializeLoad, LoadStoredRecord, Control, Numbers,
       IsValidFatalMarker, counts, Feeder, TypeOK
  <2>2. Copies'
    BY <1>1, <1>b, LoadedRecord DEF InitializeLoad, LoadStoredRecord, Copies, Honest,
       MidOperation, counts, TypeOK
  <2>3. Completeness' /\ Reports'
    BY <1>1, <1>b, LoadedRecord DEF InitializeLoad, LoadStoredRecord, Completeness,
       Complete, Reports, counts, TypeOK
  <2> QED BY <1>a, <2>1, <2>2, <2>3 DEF IInv
<1>2. CASE InitializeUpdate
  <2>1. Control'
    BY <1>2, <1>b DEF InitializeUpdate, Control, Feeder, TypeOK
  <2>2. Numbers'
    BY <1>2, <1>b, NumberTypes DEF InitializeUpdate, Numbers, Control,
       IsValidFatalMarker, ClearFatalMarker, ClearedMarker, TypeOK
  <2>3. Copies'
    <3>1. Honest(InitializedRecord(buf["main"]))
      BY <1>2, <1>b, NumberTypes, InitializedRecordFields
      DEF InitializeUpdate, Copies, Honest, Numbers, MidOperation, UnsetFatal, NoFatal
    <3>2. IF IsValidFatalMarker(marker)
          THEN InitializedRecord(buf["main"]).fatal = marker.body
          ELSE InitializedRecord(buf["main"]).fatal <= delivered
      BY <1>2, <1>b, NumberTypes, InitializedRecordFields
      DEF InitializeUpdate, Copies, MidOperation, UnsetFatal, NoFatal
    <3> QED BY <1>2, <1>b, <3>1, <3>2, NumberTypes
      DEF InitializeUpdate, Copies, Control, Numbers, Honest, MidOperation, TypeOK
  <2>4. Completeness'
    BY <1>2, <1>b, NumberTypes, InitializedRecordFields
    DEF InitializeUpdate, Completeness, Complete, UnsetFatal, NoFatal, TypeOK
  <2>5. Reports'
    BY <1>2, <1>b, InitializedRecordFields DEF InitializeUpdate, Reports, TypeOK
  <2> QED BY <1>a, <2>1, <2>2, <2>3, <2>4, <2>5 DEF IInv
<1>3. CASE InitializeSave
  <2>1. Control'
    BY <1>3, <1>b DEF InitializeSave, Control, Feeder, TypeOK
  <2>2. Numbers'
    BY <1>3, <1>b, NumberTypes DEF InitializeSave, Numbers, IsValidFatalMarker, TypeOK
  <2>3. Copies'
    BY <1>3, <1>b, NumberTypes DEF InitializeSave, SaveStoredRecord, Copies, Numbers,
       Honest, MidOperation, Control, TypeOK
  <2>4. Completeness'
    BY <1>3, <1>b DEF InitializeSave, SaveStoredRecord, Completeness, Complete,
       Control, Feeder, TypeOK
  <2>5. Reports'
    BY <1>3, <1>b DEF InitializeSave, Reports, TypeOK
  <2> QED BY <1>a, <2>1, <2>2, <2>3, <2>4, <2>5 DEF IInv
<1>4. CASE WatchdogInitialize
  <2>1. Control' /\ Numbers'
    BY <1>4, <1>b DEF WatchdogInitialize, LoadStoredRecord, Control, Numbers,
       IsValidFatalMarker, counts, Feeder, TypeOK
  <2>2. Copies'
    BY <1>4, <1>b, LoadedRecord, LoadableType, WithBiteFields
    DEF WatchdogInitialize, LoadStoredRecord, Copies, Honest, MidOperation, counts, TypeOK
  <2>3. Completeness' /\ Reports'
    BY <1>4, <1>b, LoadedRecord, LoadableType, WithBiteFields
    DEF WatchdogInitialize, LoadStoredRecord, Completeness, Complete, Reports,
        HardwareReset, counts, TypeOK
  <2> QED BY <1>a, <2>1, <2>2, <2>3 DEF IInv
<1>5. CASE WatchdogSetup
  <2>1. Control' /\ Numbers'
    BY <1>5, <1>b DEF WatchdogSetup, Control, Numbers, IsValidFatalMarker, history,
       Feeder, TypeOK
  <2>2. Copies' /\ Completeness' /\ Reports'
    BY <1>5, <1>b DEF WatchdogSetup, Copies, Honest, MidOperation, Completeness,
       Complete, Reports, history, TypeOK
  <2> QED BY <1>a, <2>1, <2>2 DEF IInv
<1>6. ASSUME NEW t \in Feeder, FeedUnhealthy(t) PROVE IInv'
  <2>1. PICK name \in TaskName, loaded \in Loadable :
          LoadStoredRecord(t, loaded, WithBite(loaded, name), "bite-save", "idle")
    BY <1>6 DEF FeedUnhealthy
  <2>2. Control' /\ Numbers'
    BY <1>6, <2>1, <1>b DEF FeedUnhealthy, LoadStoredRecord, Control, Numbers,
       IsValidFatalMarker, counts, Feeder, TypeOK
  <2>3. Copies'
    BY <1>6, <2>1, <1>b, LoadedRecord, LoadableType, WithBiteFields
    DEF FeedUnhealthy, LoadStoredRecord, Copies, Honest, MidOperation, Feeder,
        counts, TypeOK
  <2>4. Completeness' /\ Reports'
    BY <1>6, <2>1, <1>b, LoadedRecord, LoadableType, WithBiteFields,
       TaskNameAssumption
    DEF FeedUnhealthy, LoadStoredRecord, Completeness, Complete, Reports, Feeder,
        counts, TypeOK
  <2> QED BY <1>a, <2>2, <2>3, <2>4 DEF IInv
<1>7. ASSUME NEW t \in Thread, RecordWatchdogBiteSave(t) PROVE IInv'
  <2>1. Control' /\ Numbers'
    BY <1>7, <1>b DEF RecordWatchdogBiteSave, Control, Numbers, IsValidFatalMarker,
       Feeder, TypeOK
  <2>2. Copies'
    BY <1>7, <1>b DEF RecordWatchdogBiteSave, SaveStoredRecord, Copies, Honest,
       MidOperation, TypeOK
  <2>3. Completeness' /\ Reports'
    BY <1>7, <1>b DEF RecordWatchdogBiteSave, SaveStoredRecord, Completeness, Complete,
       Reports, Control, Feeder, TypeOK
  <2> QED BY <1>a, <2>1, <2>2, <2>3 DEF IInv
<1>8. CASE ClearCrashRecordLoad
  <2>1. Control' /\ Numbers'
    BY <1>8, <1>b DEF ClearCrashRecordLoad, LoadStoredRecord, Control, Numbers,
       IsValidFatalMarker, counts, Feeder, TypeOK
  <2>2. Copies'
    BY <1>8, <1>b, LoadedRecord DEF ClearCrashRecordLoad, LoadStoredRecord, Copies,
       Honest, MidOperation, counts, TypeOK
  <2>3. Completeness' /\ Reports'
    BY <1>8, <1>b DEF ClearCrashRecordLoad, LoadStoredRecord, Completeness, Complete,
       Reports, counts, TypeOK
  <2> QED BY <1>a, <2>1, <2>2, <2>3 DEF IInv
<1>9. CASE ClearCrashRecordUpdate
  <2>1. Control' /\ Numbers'
    BY <1>9, <1>b DEF ClearCrashRecordUpdate, Control, Numbers, IsValidFatalMarker,
       ClearFatalMarker, ClearedMarker, Feeder, TypeOK
  <2>2. Copies'
    BY <1>9, <1>b, ClearedRecordFields, NumberTypes
    DEF ClearCrashRecordUpdate, Copies, Honest, MidOperation, NoFatal, TypeOK
  <2>3. Completeness' /\ Reports'
    BY <1>9, <1>b, ClearedRecordFields DEF ClearCrashRecordUpdate, Completeness,
       Complete, Reports, TypeOK
  <2> QED BY <1>a, <2>1, <2>2, <2>3 DEF IInv
<1>10. CASE ClearCrashRecordSave
  <2>1. Control' /\ Numbers'
    BY <1>10, <1>b, NumberTypes DEF ClearCrashRecordSave, Control, Numbers,
       IsValidFatalMarker, Feeder, TypeOK
  <2>2. Copies'
    BY <1>10, <1>b, NumberTypes DEF ClearCrashRecordSave, SaveStoredRecord, Copies,
       Honest, MidOperation, NoFatal, TypeOK
  <2>3. Completeness' /\ Reports'
    BY <1>10, <1>b DEF ClearCrashRecordSave, SaveStoredRecord, Completeness, Complete,
       Reports, TypeOK
  <2> QED BY <1>a, <2>1, <2>2, <2>3 DEF IInv
<1>11. CASE CaptureFatalFields
  <2>1. Control' /\ Completeness' /\ Reports'
    BY <1>11, <1>b DEF CaptureFatalFields, Control, Feeder, Completeness, Complete, Reports
  <2>2. Numbers'
    <3>1. marker'.body = fatals + 1 /\ marker'.sum = marker.sum
      BY <1>11, <1>b DEF CaptureFatalFields, TypeOK, Marker
    <3> QED BY <1>11, <1>b, <3>1, NumberTypes DEF CaptureFatalFields, Numbers,
       IsValidFatalMarker
  <2>3. Copies'
    BY <1>11, <1>b DEF CaptureFatalFields, Copies, Honest, MidOperation
  <2> QED BY <1>a, <2>1, <2>2, <2>3 DEF IInv
<1>12. CASE CaptureFatalChecksum
  <2>1. Control' /\ Completeness' /\ Reports'
    BY <1>12, <1>b DEF CaptureFatalChecksum, Control, Completeness, Complete, Reports
  <2>2. Numbers'
    <3>1. marker'.body = marker.body /\ marker'.sum = marker.body
      BY <1>12, <1>b DEF CaptureFatalChecksum, TypeOK, Marker
    <3> QED BY <1>12, <1>b, <3>1, NumberTypes DEF CaptureFatalChecksum, Numbers,
       IsValidFatalMarker
  <2>3. Copies'
    BY <1>12, <1>b DEF CaptureFatalChecksum, Copies, Honest, MidOperation
  <2> QED BY <1>a, <2>1, <2>2, <2>3 DEF IInv
<1>13. ASSUME NEW kind \in Cause, Reset(kind) PROVE IInv'
  <2>1. /\ pc'["main"] = "init-load" /\ pc'["work"] = "idle" /\ pc'["shell"] = "idle"
        /\ \A t \in Thread : ~MidOperation(t)'
    BY <1>13 DEF Reset, BootPc, MidOperation
  <2>2. \/ marker' = marker
        \/ marker'.sum = -1 /\ marker'.body = 0
    BY <1>13 DEF Reset, RandomMarkers
  <2>3. Control'
    BY <1>13, <2>1 DEF Reset, Control, Feeder
  <2>4. Numbers'
    BY <1>13, <1>b, <2>1, <2>2, NumberTypes DEF Reset, Numbers, IsValidFatalMarker
  <2>5. Copies'
    BY <1>13, <1>b, <2>1 DEF Reset, Copies, Honest
  <2>6. Completeness' /\ Reports'
    BY <1>13, <2>1 DEF Reset, Completeness, Reports
  <2> QED BY <1>a, <2>3, <2>4, <2>5, <2>6 DEF IInv
<1>14. CASE SettingsCommand
  <2>1. Control' /\ Numbers'
    BY <1>14, <1>b DEF SettingsCommand, Control, Numbers, IsValidFatalMarker, Feeder
  <2>2. FreshRecord.fatal = -1 /\ FreshRecord.panics = 0 /\ FreshRecord.bite = "empty"
    BY DEF FreshRecord, UnsetFatal
  <2>3. Copies' /\ Completeness' /\ Reports'
    BY <1>14, <1>b, <2>2, NumberTypes DEF SettingsCommand, Copies, Honest, MidOperation,
       Completeness, Complete, Reports
  <2> QED BY <1>a, <2>1, <2>3 DEF IInv
<1>15. CASE UNCHANGED vars
  BY <1>15, <1>a, <1>b DEF vars, code, history, IInv, Control, Numbers, Copies, Honest,
     MidOperation, Completeness, Complete, Reports, IsValidFatalMarker
<1> QED
  BY <1>1, <1>2, <1>3, <1>4, <1>5, <1>6, <1>7, <1>8, <1>9, <1>10, <1>11, <1>12,
     <1>13, <1>14, <1>15 DEF Next

THEOREM Invariance == Spec => []IInv
<1>1. IInv /\ [Next]_vars => IInv'
  BY InvariantStep
<1> QED BY InvariantInit, <1>1, PTL DEF Spec

--------------------------------------------------------------------------------
(* The properties *)

(* Panics are counted once per captured fatal error, and the count agrees    *)
(* with the last fatal error on any record that is shown.                    *)
THEOREM CountsOnce == Spec => []CountsEachFatalOnce
<1>1. IInv => CountsEachFatalOnce
  BY LoadedRecord DEF CountsEachFatalOnce, ReadCrashRecord, Honest
<1> QED BY Invariance, <1>1, PTL

(* A fatal error erased by an undisturbed `diag clear` never comes back.     *)
THEOREM ClearIsFinal == Spec => []ClearSticks
<1>1. IInv => ClearSticks
  BY LoadedRecord DEF ClearSticks, ReadCrashRecord, Honest
<1> QED BY Invariance, <1>1, PTL

(* After a successful Initialize the record is complete for the whole boot,  *)
(* unless an operator overwrites the item or a report whose load missed the  *)
(* record saves a fresh one over it.                                         *)
THEOREM RecordComplete == Spec => []InitializedRecordComplete
<1>1. IInv => InitializedRecordComplete
  BY LoadedRecord, LoadableType DEF IInv, InitializedRecordComplete, Complete
<1> QED BY Invariance, <1>1, PTL

(* A captured fatal error is kept until it is on the record, and stays there, *)
(* unless RAM, the operator or the one save of Initialize gave it up, or an    *)
(* operation whose load missed the record saved a fresh one over it.          *)
THEOREM FatalKept == Spec => []CapturedFatalKept
<1>1. IInv => CapturedFatalKept
  BY NumberTypes DEF IInv, Numbers, Kept, Owed, InMarker, InHands, CapturedFatalKept
<1> QED BY Invariance, <1>1, PTL

(* What `diag crash` shows is a fatal error that was captured completely and  *)
(* that DeliversInOrder speaks of, never one that is still being captured: no  *)
(* thread saves a copy that is ahead of what Initialize delivered.            *)
THEOREM RecordShowsDelivered ==
  Spec => []((\A record \in ReadCrashRecord : record.fatal <= delivered) /\ delivered <= sealed)
<1>1. IInv => (\A record \in ReadCrashRecord : record.fatal <= delivered) /\ delivered <= sealed
  BY LoadedRecord, NumberTypes DEF IInv, Numbers, ReadCrashRecord
<1> QED BY Invariance, <1>1, PTL

(* Initialize's save takes back no watchdog report, if its load found the     *)
(* record.                                                                   *)
THEOREM ReportKept == Spec => ReportSurvivesInitialize
<1>1. IInv /\ [Next]_vars =>
        [InitializeSave /\ "main" \notin missed /\ flash.record.bite \notin {"empty", "none"}
           => flash'.record.bite = flash.record.bite]_vars
  BY DEF IInv, Reports, InitializeSave, SaveStoredRecord
<1> QED BY Invariance, <1>1, PTL DEF Spec, ReportSurvivesInitialize

(* The name of an expired task is replaced on the record by a later report, by *)
(* the operator, by an Initialize whose load missed the record, and by nothing  *)
(* else: no reset, fatal error or other save of Initialize takes it away.  The   *)
(* later report may be main's own, of the reset that the expired task brought   *)
(* about.                                                                      *)
THEOREM TaskNameReplaced ==
  Spec => [][flash.record.bite \in TaskName /\ flash'.record.bite # flash.record.bite
               => \/ \E t \in Thread : RecordWatchdogBiteSave(t)
                  \/ ClearCrashRecordSave
                  \/ SettingsCommand
                  \/ InitializeSave /\ "main" \in missed]_vars
<1>1. ASSUME IInv, [Next]_vars, flash.record.bite \in TaskName,
             flash'.record.bite # flash.record.bite
      PROVE  \/ \E t \in Thread : RecordWatchdogBiteSave(t)
             \/ ClearCrashRecordSave
             \/ SettingsCommand
             \/ InitializeSave /\ "main" \in missed
  <2>1. flash.record.bite \notin {"empty", "none"}
    BY <1>1, TaskNameAssumption
  <2>2. ~(InitializeSave /\ "main" \notin missed)
    BY <1>1, <2>1 DEF IInv, Reports, InitializeSave, SaveStoredRecord
  <2>3. ASSUME UNCHANGED flash PROVE FALSE
    BY <1>1, <2>3
  <2> QED
    BY <1>1, <2>2, <2>3 DEF Next, vars, code, InitializeLoad, InitializeUpdate,
       WatchdogInitialize, WatchdogSetup, FeedUnhealthy, ClearCrashRecordLoad,
       ClearCrashRecordUpdate, CaptureFatalFields, CaptureFatalChecksum, Reset
<1>2. IInv /\ [Next]_vars =>
        [flash.record.bite \in TaskName /\ flash'.record.bite # flash.record.bite
           => \/ \E t \in Thread : RecordWatchdogBiteSave(t)
              \/ ClearCrashRecordSave
              \/ SettingsCommand
              \/ InitializeSave /\ "main" \in missed]_vars
  BY <1>1
<1> QED BY Invariance, <1>2, PTL DEF Spec

(* The service implements CrashDelivery: fatal errors reach the record at    *)
(* most once, in order, and only after a complete capture.                   *)
THEOREM Refinement == Spec => DeliversInOrder
<1>1. Init => Delivery!Init
  BY DEF Init, Delivery!Init
<1>2. IInv /\ [Next]_vars => [Delivery!Next]_<<sealed, delivered>>
  <2> SUFFICES ASSUME IInv, [Next]_vars PROVE [Delivery!Next]_<<sealed, delivered>>
    OBVIOUS
  <2>a. Numbers /\ TypeOK /\ Control
    BY DEF IInv
  <2>1. CASE InitializeSave
    BY <2>1, <2>a, NumberTypes
    DEF InitializeSave, Numbers, Delivery!Next, Delivery!Deliver
  <2>2. CASE CaptureFatalChecksum
    BY <2>2, <2>a, NumberTypes
    DEF CaptureFatalChecksum, Numbers, Delivery!Next, Delivery!Capture
  <2>3. ASSUME ~InitializeSave, ~CaptureFatalChecksum
        PROVE  UNCHANGED <<sealed, delivered>>
    BY <2>3 DEF Next, vars, code, history, counts, InitializeLoad, InitializeUpdate,
       WatchdogInitialize, WatchdogSetup, FeedUnhealthy, RecordWatchdogBiteSave,
       ClearCrashRecordLoad, ClearCrashRecordUpdate, ClearCrashRecordSave,
       SettingsCommand, CaptureFatalFields, Reset
  <2> QED BY <2>1, <2>2, <2>3
<1> QED BY Invariance, <1>1, <1>2, PTL DEF Spec, DeliversInOrder, Delivery!Spec
================================================================================
