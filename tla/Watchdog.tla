-------------------------------- MODULE Watchdog -------------------------------
(***************************************************************************)
(* services/watchdog: the hardware watchdog, the work item that feeds it   *)
(* every Interval, and the supervision of application tasks: while one of  *)
(* them has not called FeedTask within its timeout, nobody feeds.          *)
(*                                                                         *)
(* Time is counted in ticks of the uptime clock.  Everything happens under *)
(* g_watchdog_lock.  A critical section takes no time, unless it calls the *)
(* diagnostics service, which writes flash: then it takes at most Hold.    *)
(* k_mutex hands the lock to the waiter of the highest priority: the       *)
(* system work queue, then main and the tasks, then the shell.             *)
(*                                                                         *)
(* RegisterTask and FeedTask are called by application tasks, which this   *)
(* repository does not have; a task that is on time calls FeedTask again   *)
(* at most Period after its last feed was recorded.                        *)
(***************************************************************************)
EXTENDS Integers

CONSTANTS
  Task,         \* the application tasks that may register
  TaskTimeout,  \* the timeout_ms each of them registers with
  Period,       \* a task on time calls FeedTask again within this
  SlotCount,    \* kMaxSupervisedTasks
  Timeout,      \* CONFIG_FW_SERVICE_WATCHDOG_TIMEOUT_MS
  Interval,     \* CONFIG_FW_SERVICE_WATCHDOG_FEED_INTERVAL_MS
  Latency,      \* how late a work item that is due, or main, gets to run
  StartTime,    \* main has got to WatchdogService::Initialize by then
  Hold,         \* how long a report to the diagnostics service takes
  MaxTime       \* bound: uptime in a boot

ASSUME NumbersAssumption ==
  /\ SlotCount \in Nat /\ MaxTime \in Nat
  /\ Timeout \in Nat /\ Interval \in Nat \ {0} /\ Latency \in Nat /\ Hold \in Nat
  /\ StartTime \in Nat /\ Period \in Nat /\ TaskTimeout \in [Task -> Nat \ {0}]

\* app/Kconfig: keep the feed interval "comfortably below the watchdog timeout".
ASSUME FeedIntervalAssumption == Interval + 2 * Latency < Timeout

\* A task leaves room for one report by somebody else.
ASSUME PeriodAssumption == \A i \in Task : Period + Hold <= TaskTimeout[i]

VARIABLES
  now,          \* platform::Clock::UptimeMilliseconds()
  lock,         \* the thread that holds g_watchdog_lock across time, or "free"
  held,         \* since when; 0 when it is free
  initialized,  \* g_state.initialized; with it go the device and the channel
  lastReset,    \* g_state.last_reset_watchdog, from the reset cause
  lastError,    \* g_state.last_error
  slots,        \* g_state.supervised_tasks
  id,           \* the task id each task got from RegisterTask, or Unregistered
  waiting,      \* the tasks in FeedTask that do not have the lock yet
  pc,           \* where each thread of the firmware is
  due,          \* when g_feed_work is to run; 0 when it is not scheduled
  reloaded,     \* when the hardware watchdog was last set up or fed
  armed,        \* when it was set up
  late,         \* the tasks that are not on time
  reports       \* the work item's reports since the hardware was set up or fed

code == <<lock, initialized, lastReset, lastError, slots, id, waiting, pc, due>>
vars == <<code, now, held, reloaded, armed, late, reports>>

Thread == {"main", "work", "shell"}
Feeder == {"work", "shell"}
Slot == 0..(SlotCount - 1)
Unregistered == -1

Step == {"start", "record", "setup", "schedule", "idle",
         "off", "scheduled", "feed", "status"}

\* t can have the lock now: it is free and nobody of a higher priority waits.
CanLock(t) ==
  /\ lock = "free"
  /\ t = "work" \/ pc["work"] \notin {"feed", "status"}
  /\ t = "shell" => waiting = {}

--------------------------------------------------------------------------------
(* WatchdogService::Initialize, in main *)

InitializeLock ==
  /\ pc["main"] = "start"
  /\ CanLock("main")
  /\ \/ /\ lastError' = "device"
        /\ pc' = [pc EXCEPT !["main"] = "idle"]
        /\ UNCHANGED <<lock, held>>
     \/ /\ lock' = "main"
        /\ held' = now
        /\ pc' = [pc EXCEPT !["main"] = IF lastReset THEN "record" ELSE "setup"]
        /\ UNCHANGED lastError
  /\ UNCHANGED <<now, initialized, lastReset, slots, id, waiting, due, reloaded,
                 armed, late, reports>>

RecordWatchdogReset ==
  /\ pc["main"] = "record"
  /\ pc' = [pc EXCEPT !["main"] = "setup"]
  /\ UNCHANGED <<now, lock, held, initialized, lastReset, lastError, slots, id,
                 waiting, due, reloaded, armed, late, reports>>

\* wdt_install_timeout and wdt_setup; either may fail.
InitializeSetup ==
  /\ pc["main"] = "setup"
  /\ lock' = "free"
  /\ held' = 0
  /\ \/ /\ lastError' = "device"
        /\ pc' = [pc EXCEPT !["main"] = "idle"]
        /\ UNCHANGED <<initialized, reloaded, armed, reports>>
     \/ /\ initialized' = TRUE
        /\ lastError' = "none"
        /\ reloaded' = now
        /\ armed' = now
        /\ reports' = 0
        /\ pc' = [pc EXCEPT !["main"] = "schedule"]
  /\ UNCHANGED <<now, lastReset, slots, id, waiting, due, late>>

\* Mutant: the work item runs again at once.
ScheduleNow == due' = now

\* Mutant: the work item is scheduled with the other configured duration.
ScheduleTimeout == due' = now + Timeout

ScheduleNextFeed == due' = now + Interval

InitializeSchedule ==
  /\ pc["main"] = "schedule"
  /\ pc' = [pc EXCEPT !["main"] = "idle", !["work"] = "scheduled"]
  /\ ScheduleNextFeed
  /\ UNCHANGED <<now, lock, held, initialized, lastReset, lastError, slots, id,
                 waiting, reloaded, armed, late, reports>>

--------------------------------------------------------------------------------
(* WatchdogService::Feed, in FeedWorkHandler and in `health watchdog feed` *)

\* Mutant: a task that is exactly at its timeout has expired.
HealthyBefore(task, time) == task.active => time - task.last < task.timeout

\* Mutant: whoever is in time for the next feed is healthy.
HealthyUntilNext(task, time) == task.active => time - task.last <= task.timeout + Interval

TaskHealthy(task, time) == task.active => time - task.last <= task.timeout

AllHealthy == \A n \in Slot : TaskHealthy(slots[n], now)

\* What t does when Feed returns: the handler asks Status whether to go on.
AfterFeed(t) == IF t = "work" THEN "status" ELSE "idle"

FeedWorkHandler ==
  /\ pc["work"] = "scheduled"
  /\ now >= due
  /\ pc' = [pc EXCEPT !["work"] = "feed"]
  /\ due' = 0
  /\ UNCHANGED <<now, lock, held, initialized, lastReset, lastError, slots, id,
                 waiting, reloaded, armed, late, reports>>

CmdWatchdogFeed ==
  /\ pc["shell"] = "idle"
  /\ pc' = [pc EXCEPT !["shell"] = "feed"]
  /\ UNCHANGED <<now, lock, held, initialized, lastReset, lastError, slots, id,
                 waiting, due, reloaded, armed, late, reports>>

FeedUninitialized(t) ==
  /\ pc[t] = "feed"
  /\ CanLock(t)
  /\ ~initialized
  /\ pc' = [pc EXCEPT ![t] = AfterFeed(t)]
  /\ UNCHANGED <<now, lock, held, initialized, lastReset, lastError, slots, id,
                 waiting, due, reloaded, armed, late, reports>>

\* Some supervised task expired: report it, under the lock, and do not feed.
FeedUnhealthy(t) ==
  /\ pc[t] = "feed"
  /\ CanLock(t)
  /\ initialized
  /\ ~AllHealthy
  /\ lastError' = "expired"
  /\ lock' = t
  /\ held' = now
  /\ pc' = [pc EXCEPT ![t] = "record"]
  /\ reports' = IF t = "work" THEN reports + 1 ELSE reports
  /\ UNCHANGED <<now, initialized, lastReset, slots, id, waiting, due, reloaded,
                 armed, late>>

RecordSupervisionTimeout(t) ==
  /\ pc[t] = "record"
  /\ lock' = "free"
  /\ held' = 0
  /\ pc' = [pc EXCEPT ![t] = AfterFeed(t)]
  /\ UNCHANGED <<now, initialized, lastReset, lastError, slots, id, waiting,
                 due, reloaded, armed, late, reports>>

\* wdt_feed, which may fail.
FeedHealthy(t) ==
  /\ pc[t] = "feed"
  /\ CanLock(t)
  /\ initialized
  /\ AllHealthy
  /\ \/ lastError' = "none" /\ reloaded' = now /\ reports' = 0
     \/ lastError' = "device" /\ UNCHANGED <<reloaded, reports>>
  /\ pc' = [pc EXCEPT ![t] = AfterFeed(t)]
  /\ UNCHANGED <<now, lock, held, initialized, lastReset, slots, id, waiting, due,
                 armed, late>>

\* Mutant: the handler gives up when Feed failed.
RescheduleWhenFed ==
  /\ pc["work"] = "status"
  /\ CanLock("work")
  /\ IF lastError = "none"
     THEN pc' = [pc EXCEPT !["work"] = "scheduled"] /\ ScheduleNextFeed
     ELSE pc' = [pc EXCEPT !["work"] = "off"] /\ UNCHANGED due
  /\ UNCHANGED <<now, lock, held, initialized, lastReset, lastError, slots, id,
                 waiting, reloaded, armed, late, reports>>

\* The end of FeedWorkHandler: Status().initialized, then ScheduleNextFeed.
Reschedule ==
  /\ pc["work"] = "status"
  /\ CanLock("work")
  /\ IF initialized
     THEN pc' = [pc EXCEPT !["work"] = "scheduled"] /\ ScheduleNextFeed
     ELSE pc' = [pc EXCEPT !["work"] = "off"] /\ UNCHANGED due
  /\ UNCHANGED <<now, lock, held, initialized, lastReset, lastError, slots, id,
                 waiting, reloaded, armed, late, reports>>

--------------------------------------------------------------------------------
(* Supervised tasks *)

\* Mutant: a slot that is in use is handed out again.
FirstSlot(n) == \A m \in Slot : m < n => slots[m].active

FirstFreeSlot(n) ==
  /\ ~slots[n].active
  /\ \A m \in Slot : m < n => slots[m].active

\* With no free slot RegisterTask returns an error and changes nothing.
RegisterTask(i) ==
  /\ id[i] = Unregistered
  /\ CanLock("task")
  /\ \E n \in Slot :
       /\ FirstFreeSlot(n)
       /\ slots' = [slots EXCEPT
                      ![n] = [active |-> TRUE, timeout |-> TaskTimeout[i], last |-> now]]
       /\ id' = [id EXCEPT ![i] = n]
  /\ UNCHANGED <<now, lock, held, initialized, lastReset, lastError, waiting, pc,
                 due, reloaded, armed, late, reports>>

\* Mutant: a task that was not registered feeds, too.
FeedTaskCallUnchecked(i) ==
  /\ i \notin waiting
  /\ waiting' = waiting \cup {i}
  /\ UNCHANGED <<now, lock, held, initialized, lastReset, lastError, slots, id, pc,
                 due, reloaded, armed, late, reports>>

\* The id is in range and its slot active; otherwise FeedTask returns an error.
FeedTaskCall(i) ==
  /\ id[i] # Unregistered
  /\ i \notin waiting
  /\ waiting' = waiting \cup {i}
  /\ UNCHANGED <<now, lock, held, initialized, lastReset, lastError, slots, id, pc,
                 due, reloaded, armed, late, reports>>

\* With the lock, FeedTask reads the clock into the slot; the task is on time again.
FeedTask(i) ==
  /\ i \in waiting
  /\ CanLock("task")
  /\ slots' = [slots EXCEPT ![id[i]].last = now]
  /\ waiting' = waiting \ {i}
  /\ late' = late \ {i}
  /\ UNCHANGED <<now, lock, held, initialized, lastReset, lastError, id, pc, due,
                 reloaded, armed, reports>>

FallsBehind(i) ==
  /\ id[i] # Unregistered
  /\ i \notin waiting \cup late
  /\ late' = late \cup {i}
  /\ UNCHANGED <<now, lock, held, initialized, lastReset, lastError, slots, id,
                 waiting, pc, due, reloaded, armed, reports>>

--------------------------------------------------------------------------------
(* Time and the hardware *)

\* Time passes when nobody has to act first.
Tick ==
  /\ now < MaxTime
  /\ lock # "free" => now < held + Hold
  /\ lock = "free" => waiting = {} /\ \A t \in Thread : pc[t] \notin {"feed", "status"}
  /\ pc["main"] = "start" => now < StartTime
  /\ pc["main"] = "schedule" => now < armed + Latency
  /\ pc["work"] = "scheduled" => now < due + Latency
  /\ initialized => now < reloaded + Timeout
  /\ \A i \in Task \ (late \cup waiting) :
       id[i] # Unregistered => now < slots[id[i]].last + Period
  /\ now' = now + 1
  /\ UNCHANGED <<code, held, reloaded, armed, late, reports>>

InitialSlots == [n \in Slot |-> [active |-> FALSE, timeout |-> 0, last |-> 0]]
BootPc == [t \in Thread |-> CASE t = "main" -> "start"
                              [] t = "work" -> "off"
                              [] t = "shell" -> "idle"]

\* The hardware watchdog resets the board, and the next boot begins.
Bite ==
  /\ initialized
  /\ now >= reloaded + Timeout
  /\ now' = 0
  /\ lock' = "free"
  /\ held' = 0
  /\ initialized' = FALSE
  /\ lastReset' = TRUE
  /\ lastError' = "none"
  /\ slots' = InitialSlots
  /\ id' = [i \in Task |-> Unregistered]
  /\ waiting' = {}
  /\ pc' = BootPc
  /\ due' = 0
  /\ reloaded' = 0
  /\ armed' = 0
  /\ late' = {}
  /\ reports' = 0

Init ==
  /\ now = 0
  /\ lock = "free"
  /\ held = 0
  /\ initialized = FALSE
  /\ lastReset \in BOOLEAN
  /\ lastError = "none"
  /\ slots = InitialSlots
  /\ id = [i \in Task |-> Unregistered]
  /\ waiting = {}
  /\ pc = BootPc
  /\ due = 0
  /\ reloaded = 0
  /\ armed = 0
  /\ late = {}
  /\ reports = 0

Next ==
  \/ InitializeLock
  \/ RecordWatchdogReset
  \/ InitializeSetup
  \/ InitializeSchedule
  \/ FeedWorkHandler
  \/ CmdWatchdogFeed
  \/ \E t \in Feeder : FeedUninitialized(t)
  \/ \E t \in Feeder : FeedUnhealthy(t)
  \/ \E t \in Feeder : RecordSupervisionTimeout(t)
  \/ \E t \in Feeder : FeedHealthy(t)
  \/ Reschedule
  \/ \E i \in Task : RegisterTask(i)
  \/ \E i \in Task : FeedTaskCall(i)
  \/ \E i \in Task : FeedTask(i)
  \/ \E i \in Task : FallsBehind(i)
  \/ Tick
  \/ Bite

Spec == Init /\ [][Next]_vars

--------------------------------------------------------------------------------
(* Properties *)

SlotState == [active : BOOLEAN, timeout : Nat, last : Nat]

TypeOK ==
  /\ now \in Nat
  /\ lock \in {"free"} \cup Thread
  /\ held \in Nat
  /\ initialized \in BOOLEAN
  /\ lastReset \in BOOLEAN
  /\ lastError \in {"none", "device", "expired"}
  /\ slots \in [Slot -> SlotState]
  /\ id \in [Task -> {Unregistered} \cup Slot]
  /\ waiting \subseteq {i \in Task : id[i] # Unregistered}
  /\ pc \in [Thread -> Step]
  /\ due \in Nat
  /\ reloaded \in Nat
  /\ armed \in Nat
  /\ late \subseteq Task
  /\ reports \in Nat

\* Every registered task is supervised in a slot of its own, under the timeout
\* it asked for: no registration takes the slot of another task.
OneOwnerPerSlot ==
  \A i \in Task : id[i] # Unregistered =>
    /\ slots[id[i]].active
    /\ slots[id[i]].timeout = TaskTimeout[i]
    /\ \A j \in Task : id[j] = id[i] => i = j

\* Once the watchdog runs, the work item that feeds it is scheduled, runs, or is
\* about to be scheduled by Initialize: no failed feed ends the chain.
FeedChainUnbroken ==
  initialized => pc["work"] # "off" \/ pc["main"] = "schedule"

\* A supervised task that stops feeding brings the board down: no feed, of the
\* work item or of the shell, keeps the hardware watchdog quiet for more than
\* Timeout after the task expired (or after the watchdog was set up).
StuckTaskResets ==
  initialized => \A n \in Slot : slots[n].active =>
    \/ now <= armed + Timeout
    \/ now <= slots[n].last + slots[n].timeout + Timeout

\* Of a task that stays stuck the work item writes no more reports than one for each
\* Interval of a Timeout, and one: as many times the flash is written before the board
\* is reset, however the shell's feeds and failing devices come in between.
ReportsBounded == reports * Interval <= Timeout + Interval

\* The hardware watchdog never fires while Feed has been successful: when it
\* resets the board, last_error says that a task expired or the device failed.
BiteIsExplained == [][Bite => lastError # "none"]_vars

\* Feed never holds a task that is on time for expired, even when its FeedTask
\* is waiting for the lock behind a report about another task.
PunctualTaskNeverReported ==
  [][\A t \in Feeder : FeedUnhealthy(t) =>
       \A i \in Task : id[i] # Unregistered /\ ~TaskHealthy(slots[id[i]], now)
         => i \in late]_vars
================================================================================
