------------------------------ MODULE Diagnostics ------------------------------
(***************************************************************************)
(* services/diagnostics: the crash record kept in settings under           *)
(* fw/diagnostics/crash-record, and the fatal marker kept in noinit RAM    *)
(* between a fatal error and the next boot.                                *)
(*                                                                         *)
(* Three threads reach the service.  main runs Initialize once per boot    *)
(* and, inside WatchdogService::Initialize, reports a hardware watchdog    *)
(* reset.  The system work queue and the shell report an expired           *)
(* supervised task out of WatchdogService::Feed.  The shell clears the     *)
(* record, or overwrites the item with a settings command.  Each of the    *)
(* service's own operations loads the record, changes its copy and saves   *)
(* it.  No lock of this service covers that sequence; a settings call is   *)
(* atomic, and the threads interleave between settings calls.  Reports are *)
(* serialised with each other by the watchdog mutex, which                 *)
(* WatchdogService holds around them.                                      *)
(*                                                                         *)
(* A fatal error is named by its number; the reason, text, thread and      *)
(* uptime that CaptureFatal stores are all the data of that number.        *)
(***************************************************************************)
EXTENDS Integers

CONSTANTS
  TaskName,    \* names of supervised tasks, the reasons Feed reports
  MaxFatals,   \* bound: fatal errors in a behaviour
  MaxBoots     \* bound: boots in a behaviour

HardwareReset == "hardware-watchdog-reset"

ASSUME BoundsAssumption == MaxFatals \in Nat /\ MaxBoots \in Nat \ {0}

\* Initialize and ClearCrashRecord tell an unset reason by its empty text; a
\* registered task has a name, so no report is one of these.
ASSUME TaskNameAssumption ==
  \A name \in TaskName : name \notin {"empty", "none", HardwareReset}

VARIABLES
  flash,    \* the value stored under kCrashRecordKey
  marker,   \* g_fatal_marker, in noinit RAM
  cause,    \* platform::ResetInfo::Current() of this boot
  initOk,   \* DiagnosticsService::Initialize returned Ok in this boot
  wdt,      \* WatchdogService is initialized in this boot
  pc,       \* where each thread is in its operation
  buf       \* each thread's `stored`, the record it loaded and changes; fresh when
            \* the thread is in no operation

\* History, read by the properties and never by the code.
VARIABLES
  boots,      \* boots so far
  fatals,     \* fatal errors so far; the last one's number
  sealed,     \* the last fatal error whose marker was completed
  taken,      \* the fatal error Initialize took from the marker and has in its copy, or 0
  delivered,  \* the last fatal error a successful save of Initialize put in flash
  erased,     \* the last fatal error there was when the record was last cleared
              \* with nobody else in the middle of an operation
  excused,    \* the last fatal error that may be gone for good: RAM lost its
              \* content, the operator cleared the record or overwrote it, or
              \* a record whose load had missed it was saved over it
  dropped,    \* the last fatal error Initialize took from the marker and could
              \* not save, because the save failed, or a reset or
              \* a fatal error came first
  overwritten, \* since Initialize's save the item was written by a settings
               \* command, or by a report whose load missed the record
  missed      \* threads in an operation whose load found nothing although flash
              \* held a record

code == <<flash, marker, cause, initOk, wdt, pc, buf>>
history == <<boots, fatals, sealed, taken, delivered, erased, excused, dropped,
             overwritten, missed>>
counts == <<boots, fatals, sealed, taken, delivered, erased, excused, dropped,
            overwritten>>
vars == <<code, history>>

Thread == {"main", "work", "shell"}
Feeder == {"work", "shell"}
Cause == {"power-on", "software", "watchdog"}
Form == {"fresh", "own", "oversize"}
Step == {"idle", "init-load", "init-update", "init-save", "watchdog", "setup",
         "bite-save", "clear-update", "clear-save", "halted"}

--------------------------------------------------------------------------------
(* The record.  Of the boot metadata only the reset cause is kept; the empty *)
(* string is "empty".                                                        *)

NoFatal == 0      \* kNoFatalReason with the text "none"
UnsetFatal == -1  \* the zero reason and empty text of a default CrashRecord

FreshRecord ==
  [boots |-> 0, panics |-> 0, fatal |-> UnsetFatal, cause |-> "empty", bite |-> "empty"]

Record ==
  [boots : Nat, panics : Nat, fatal : {UnsetFatal} \cup Nat,
   cause : {"empty"} \cup Cause, bite : {"empty", "none", HardwareReset} \cup TaskName]

RefreshBootMetadata(record) == [record EXCEPT !.cause = cause]

\* The record in flash.  A value of another size, magic or version (form
\* "fresh"), one longer than the buffer, or none at all, is no record.
FoundRecord == IF flash.form = "own" THEN flash.record ELSE FreshRecord

\* What a load that succeeds may return.  Every NotFound is a success with a
\* fresh record, and so is a value of the wrong size: also when the settings
\* subsystem or the back end answered ENOENT, did not hand the item over, or
\* read less than its length, while flash holds a record.
Loadable == {FreshRecord} \cup IF flash.form = "own" THEN {flash.record} ELSE {}

\* What `diag crash` may show.
ReadCrashRecord == Loadable

\* t loads the record and has `record`, made from what it loaded, in its copy;
\* or the load fails and the operation gives up.
LoadStoredRecord(t, loaded, record, onOk, onError) ==
  \/ /\ loaded \in Loadable
     /\ buf' = [buf EXCEPT ![t] = record]
     /\ pc' = [pc EXCEPT ![t] = onOk]
     /\ missed' = IF loaded = FoundRecord THEN missed ELSE missed \cup {t}
  \/ /\ pc' = [pc EXCEPT ![t] = onError]
     /\ UNCHANGED <<buf, missed>>

\* History: a copy whose load missed the record is saved over it.
ExcusedBySave(t) ==
  IF t \in missed /\ excused < delivered THEN delivered ELSE excused

\* Mutant: a save that a reset can cut in half.
TornSave(t) == flash' = [form |-> "torn", record |-> buf[t]]

\* One settings item is written whole or, on an error, not at all.
SaveStoredRecord(t) == flash' = [form |-> "own", record |-> buf[t]]

Return(t, step) ==
  /\ pc' = [pc EXCEPT ![t] = step]
  /\ buf' = [buf EXCEPT ![t] = FreshRecord]
  /\ missed' = missed \ {t}

--------------------------------------------------------------------------------
(* The marker.  Its checksum is taken to be injective: it is the number of  *)
(* the fatal error it was computed over, and -1 for what it finds in RAM    *)
(* that lost its content.                                                   *)

Marker == [magic : BOOLEAN, body : Nat, sum : {-1} \cup Nat]

ClearedMarker == [magic |-> FALSE, body |-> 0, sum |-> 0]

RandomMarkers == [magic : BOOLEAN, body : {0}, sum : {-1}]

\* Mutant: a marker is trusted on its magic word alone.
MarkerByMagicOnly(m) == m.magic

IsValidFatalMarker(m) == m.magic /\ m.sum = m.body

\* Mutant: a marker that was counted, or cleared by the operator, stays.
KeepFatalMarker == UNCHANGED marker

ClearFatalMarker == marker' = ClearedMarker

--------------------------------------------------------------------------------
(* DiagnosticsService::Initialize, in main *)

\* History: what Initialize took from the marker and did not save is gone.
CutOff == taken' = 0 /\ dropped' = IF taken = 0 THEN dropped ELSE taken

\* Mutant: the marker goes also when the record could not be loaded.
InitializeLoadClears ==
  /\ pc["main"] = "init-load"
  /\ \E loaded \in Loadable :
       LoadStoredRecord("main", loaded, loaded, "init-update", "watchdog")
  /\ IF pc'["main"] = "watchdog" THEN ClearFatalMarker ELSE UNCHANGED marker
  /\ UNCHANGED <<flash, cause, initOk, wdt, counts>>

InitializeLoad ==
  /\ pc["main"] = "init-load"
  /\ \E loaded \in Loadable :
       LoadStoredRecord("main", loaded, loaded, "init-update", "watchdog")
  /\ UNCHANGED <<flash, marker, cause, initOk, wdt, counts>>

\* Mutant: a record without a fatal error or a watchdog report keeps its empty texts.
InitializedWithoutTexts(record) ==
  RefreshBootMetadata([record EXCEPT !.boots = @ + 1])

\* The record Initialize saves: one more boot, the boot's reset cause, the
\* fatal error of a valid marker, and texts where there are none.
InitializedRecord(record) ==
  LET fatal == IsValidFatalMarker(marker)
  IN  RefreshBootMetadata(
        [boots  |-> record.boots + 1,
         panics |-> IF fatal THEN record.panics + 1 ELSE record.panics,
         fatal  |-> IF fatal THEN marker.body
                    ELSE IF record.fatal = UnsetFatal THEN NoFatal ELSE record.fatal,
         cause  |-> record.cause,
         bite   |-> IF record.bite = "empty" THEN "none" ELSE record.bite])

InitializeUpdate ==
  /\ pc["main"] = "init-update"
  /\ buf' = [buf EXCEPT !["main"] = InitializedRecord(@)]
  /\ IF IsValidFatalMarker(marker)
     THEN taken' = marker.body /\ ClearFatalMarker
     ELSE UNCHANGED <<taken, marker>>
  /\ pc' = [pc EXCEPT !["main"] = "init-save"]
  /\ UNCHANGED <<flash, cause, initOk, wdt, boots, fatals, sealed,
                 delivered, erased, excused, dropped, overwritten, missed>>

InitializeSave ==
  /\ pc["main"] = "init-save"
  /\ Return("main", "watchdog")
  /\ \/ /\ SaveStoredRecord("main")
        /\ initOk' = TRUE
        /\ delivered' = IF taken = 0 THEN delivered ELSE taken
        /\ taken' = 0
        /\ overwritten' = FALSE
        /\ excused' = ExcusedBySave("main")
        /\ UNCHANGED dropped
     \/ /\ CutOff
        /\ UNCHANGED <<flash, initOk, delivered, excused, overwritten>>
  /\ UNCHANGED <<marker, cause, wdt, boots, fatals, sealed, erased>>

--------------------------------------------------------------------------------
(* DiagnosticsService::RecordWatchdogBite, called under g_watchdog_lock *)

WatchdogLockFree == \A t \in Thread : pc[t] \notin {"bite-save", "setup"}

WithBite(record, reason) == [record EXCEPT !.bite = reason]

\* main, WatchdogService::Initialize: the device may not be ready; after a
\* watchdog reset the reset is reported before the watchdog is set up.
WatchdogInitialize ==
  /\ pc["main"] = "watchdog"
  /\ WatchdogLockFree
  /\ \/ pc' = [pc EXCEPT !["main"] = "idle"] /\ UNCHANGED <<buf, missed>>
     \/ /\ cause = "watchdog"
        /\ \E loaded \in Loadable :
             LoadStoredRecord("main", loaded, WithBite(loaded, HardwareReset),
                              "bite-save", "setup")
     \/ /\ cause # "watchdog"
        /\ pc' = [pc EXCEPT !["main"] = "setup"]
        /\ UNCHANGED <<buf, missed>>
  /\ UNCHANGED <<flash, marker, cause, initOk, wdt, counts>>

WatchdogSetup ==
  /\ pc["main"] = "setup"
  /\ pc' = [pc EXCEPT !["main"] = "idle"]
  /\ wdt' \in BOOLEAN
  /\ UNCHANGED <<flash, marker, cause, initOk, buf, history>>

\* Mutant: Feed does not ask whether the watchdog is initialized.
FeedUninitialized(t) ==
  /\ pc[t] = "idle"
  /\ WatchdogLockFree
  /\ \E name \in TaskName, loaded \in Loadable :
       LoadStoredRecord(t, loaded, WithBite(loaded, name), "bite-save", "idle")
  /\ UNCHANGED <<flash, marker, cause, initOk, wdt, counts>>

\* WatchdogService::Feed finds a supervised task expired, in the feed work
\* item or in `health watchdog feed`.
FeedUnhealthy(t) ==
  /\ wdt
  /\ pc[t] = "idle"
  /\ WatchdogLockFree
  /\ \E name \in TaskName, loaded \in Loadable :
       LoadStoredRecord(t, loaded, WithBite(loaded, name), "bite-save", "idle")
  /\ UNCHANGED <<flash, marker, cause, initOk, wdt, counts>>

RecordWatchdogBiteSave(t) ==
  /\ pc[t] = "bite-save"
  /\ Return(t, IF t = "main" THEN "setup" ELSE "idle")
  /\ \/ /\ SaveStoredRecord(t)
        /\ excused' = ExcusedBySave(t)
        /\ overwritten' = (overwritten \/ t \in missed)
     \/ UNCHANGED <<flash, excused, overwritten>>
  /\ UNCHANGED <<marker, cause, initOk, wdt, boots, fatals, sealed, taken, delivered,
                 erased, dropped>>

--------------------------------------------------------------------------------
(* DiagnosticsService::ClearCrashRecord, `diag clear` in the shell *)

ClearCrashRecordLoad ==
  /\ pc["shell"] = "idle"
  /\ \E loaded \in Loadable :
       LoadStoredRecord("shell", loaded, loaded, "clear-update", "idle")
  /\ UNCHANGED <<flash, marker, cause, initOk, wdt, counts>>

ClearedRecord(record) ==
  RefreshBootMetadata([FreshRecord EXCEPT !.boots = record.boots,
                                          !.fatal = NoFatal, !.bite = "none"])

ClearCrashRecordUpdate ==
  /\ pc["shell"] = "clear-update"
  /\ buf' = [buf EXCEPT !["shell"] = ClearedRecord(@)]
  /\ ClearFatalMarker
  /\ excused' = fatals
  /\ pc' = [pc EXCEPT !["shell"] = "clear-save"]
  /\ UNCHANGED <<flash, cause, initOk, wdt, boots, fatals, sealed,
                 taken, delivered, erased, dropped, overwritten, missed>>

\* A thread holds a copy of the record that it is going to save.
MidOperation(t) ==
  pc[t] \in {"init-update", "init-save", "bite-save", "clear-update", "clear-save"}

ClearCrashRecordSave ==
  /\ pc["shell"] = "clear-save"
  /\ Return("shell", "idle")
  /\ \/ /\ SaveStoredRecord("shell")
        /\ erased' = IF \E t \in Thread \ {"shell"} : MidOperation(t)
                     THEN erased ELSE fatals
     \/ UNCHANGED <<flash, erased>>
  /\ UNCHANGED <<marker, cause, initOk, wdt, boots, fatals, sealed, taken,
                 delivered, excused, dropped, overwritten>>

--------------------------------------------------------------------------------
(* `settings set` and `settings reset` of this service's key, in the shell.   *)
(* What an operator types has no zero byte and so is never one of our records, *)
(* and the shell's line, of 256 characters, is too short for a value longer    *)
(* than a record.                                                              *)

SettingsCommand ==
  /\ pc["shell"] = "idle"
  /\ flash' = [form |-> "fresh", record |-> FreshRecord]
  /\ overwritten' = TRUE
  /\ excused' = IF excused < delivered THEN delivered ELSE excused
  /\ UNCHANGED <<marker, cause, initOk, wdt, pc, buf, boots, fatals, sealed, taken,
                 delivered, erased, dropped, missed>>

--------------------------------------------------------------------------------
(* k_sys_fatal_error_handler: no thread runs again before the reset.  The    *)
(* fields of the marker are written first and its checksum last; a reset or  *)
(* a nested fatal error may come in between.                                 *)

Halted == pc["main"] = "halted"

CaptureFatalFields ==
  /\ fatals < MaxFatals
  /\ fatals' = fatals + 1
  /\ marker' = [marker EXCEPT !.magic = TRUE, !.body = fatals + 1]
  /\ pc' = [t \in Thread |-> "halted"]
  /\ buf' = [t \in Thread |-> FreshRecord]
  /\ missed' = {}
  /\ CutOff
  /\ UNCHANGED <<flash, cause, initOk, wdt, boots, sealed, delivered, erased, excused,
                 overwritten>>

CaptureFatalChecksum ==
  /\ Halted
  /\ marker.sum # marker.body
  /\ marker' = [marker EXCEPT !.sum = marker.body]
  /\ sealed' = marker.body
  /\ UNCHANGED <<flash, cause, initOk, wdt, pc, buf, boots, fatals, taken,
                 delivered, erased, excused, dropped, overwritten, missed>>

--------------------------------------------------------------------------------
(* Resets.  The reboot that ends the fatal error handler, `system reboot`,   *)
(* the watchdog and a power cycle all end in a boot; they differ in what     *)
(* noinit RAM holds afterwards and in the cause the boot reads.              *)

BootPc == [t \in Thread |-> IF t = "main" THEN "init-load" ELSE "idle"]
BootBuf == [t \in Thread |-> FreshRecord]

Reset(kind) ==
  /\ boots < MaxBoots
  /\ kind = "watchdog" => wdt
  /\ boots' = boots + 1
  /\ cause' = kind
  /\ IF kind = "power-on" THEN marker' \in RandomMarkers /\ excused' = fatals
     ELSE UNCHANGED <<marker, excused>>
  /\ initOk' = FALSE
  /\ wdt' = FALSE
  /\ pc' = BootPc
  /\ buf' = BootBuf
  /\ missed' = {}
  /\ CutOff
  /\ overwritten' = FALSE
  /\ UNCHANGED <<flash, fatals, sealed, delivered, erased>>

Init ==
  /\ flash \in [form : Form \ {"own"}, record : {FreshRecord}]
  /\ marker \in RandomMarkers
  /\ cause = "power-on"
  /\ initOk = FALSE
  /\ wdt = FALSE
  /\ pc = BootPc
  /\ buf = BootBuf
  /\ boots = 1
  /\ fatals = 0
  /\ sealed = 0
  /\ taken = 0
  /\ delivered = 0
  /\ erased = 0
  /\ excused = 0
  /\ dropped = 0
  /\ overwritten = FALSE
  /\ missed = {}

Next ==
  \/ InitializeLoad
  \/ InitializeUpdate
  \/ InitializeSave
  \/ WatchdogInitialize
  \/ WatchdogSetup
  \/ \E t \in Feeder : FeedUnhealthy(t)
  \/ \E t \in Thread : RecordWatchdogBiteSave(t)
  \/ ClearCrashRecordLoad
  \/ ClearCrashRecordUpdate
  \/ ClearCrashRecordSave
  \/ SettingsCommand
  \/ CaptureFatalFields
  \/ CaptureFatalChecksum
  \/ \E kind \in Cause : Reset(kind)

Spec == Init /\ [][Next]_vars

--------------------------------------------------------------------------------
(* Properties *)

TypeOK ==
  /\ flash \in [form : Form, record : Record]
  /\ marker \in Marker
  /\ cause \in Cause
  /\ initOk \in BOOLEAN
  /\ wdt \in BOOLEAN
  /\ pc \in [Thread -> Step]
  /\ buf \in [Thread -> Record]
  /\ boots \in Nat
  /\ fatals \in Nat
  /\ sealed \in Nat
  /\ taken \in Nat
  /\ delivered \in Nat
  /\ erased \in Nat
  /\ excused \in Nat
  /\ dropped \in Nat
  /\ overwritten \in BOOLEAN
  /\ missed \subseteq Thread

\* The panic count and the last fatal error of any record that `diag crash` may
\* show agree: there is a fatal error exactly when panics were counted, and no
\* more panics were counted than there were fatal errors since the last clear.
\* Concurrent saves and loads that miss the record may lose an update but never
\* count a marker twice.
CountsEachFatalOnce ==
  \A record \in ReadCrashRecord :
    /\ record.panics > 0 <=> record.fatal > 0
    /\ record.panics > 0 => record.panics <= record.fatal - erased

\* What `diag clear` erased stays erased: when it was not overlapped by another
\* operation on the record, none of the fatal errors up to then comes back, not
\* from the marker at a later boot nor from the copy of another thread.
ClearSticks ==
  \A record \in ReadCrashRecord : record.fatal > 0 => record.fatal > erased

\* Once Initialize returned Ok, whatever the service saves afterwards in this boot,
\* the record in flash has texts to show and the reset cause of this boot.  Two
\* things undo this until the next boot: an operator overwrites the item, and a
\* report whose load did not find the record that is there, which
\* LoadStoredRecord takes for a first start, saves a fresh one over it.
InitializedRecordComplete ==
  initOk /\ ~overwritten =>
    /\ FoundRecord.fatal # UnsetFatal
    /\ FoundRecord.bite # "empty"
    /\ FoundRecord.cause = cause

\* Initialize saves a copy it loaded earlier; as long as that load found what
\* flash held, the save never takes back a watchdog report made meanwhile,
\* because main initializes the watchdog afterwards.
ReportSurvivesInitialize ==
  [][InitializeSave /\ "main" \notin missed /\ flash.record.bite \notin {"empty", "none"}
       => flash'.record.bite = flash.record.bite]_vars

\* A fatal error is put on the record at most once, in order, and only when its
\* capture was complete: the service implements CrashDelivery.
Delivery == INSTANCE CrashDelivery WITH sealed <- sealed, delivered <- delivered
DeliversInOrder == Delivery!Spec

\* The last fatal error, once captured, is in the marker, in Initialize's hands
\* or on the record in flash, whatever the threads save over each other and
\* however often loading fails with an error.  It is lost in four ways only: RAM
\* lost its content; the operator cleared or overwrote it; Initialize's one save
\* of it failed or was cut off; or Initialize or a report, whose load did not
\* find the record that is there, saved a fresh one over it.
CapturedFatalKept ==
  sealed = fatals /\ sealed > excused /\ sealed > dropped =>
    \/ IsValidFatalMarker(marker) /\ marker.body = sealed
    \/ pc["main"] = "init-save" /\ taken = sealed
    \/ FoundRecord.fatal = sealed

\* docs/diagnostics.md: the next boot persists the marker, "while still making
\* the crash visible after reboot".  The last fatal error, once captured, is in
\* the marker, in Initialize's hands or on the record, unless RAM lost its
\* content or the operator cleared the marker.
CrashVisibleAfterReboot ==
  sealed = fatals /\ sealed > delivered /\ sealed > excused =>
    \/ IsValidFatalMarker(marker) /\ marker.body = sealed
    \/ pc["main"] = "init-save" /\ taken = sealed
================================================================================
