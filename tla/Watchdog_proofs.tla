----------------------------- MODULE Watchdog_proofs ---------------------------
(***************************************************************************)
(* The properties of Watchdog for every set of tasks, number of slots and  *)
(* durations that satisfy the assumptions.                                 *)
(***************************************************************************)
EXTENDS Watchdog, TLAPS

(* Which thread holds the lock, and what may run once the watchdog does. *)
Control ==
  /\ pc["main"] \in {"start", "record", "setup", "schedule", "idle"}
  /\ pc["work"] \in {"off", "scheduled", "feed", "record", "status"}
  /\ pc["shell"] \in {"idle", "feed", "record"}
  /\ \A t \in Thread : lock = t <=> pc[t] \in {"record", "setup"}
  /\ initialized => pc["main"] \in {"schedule", "idle"}
  /\ ~initialized => pc["work"] = "off" /\ pc["shell"] # "record"
  /\ pc["main"] = "schedule" => initialized /\ pc["work"] = "off"
  /\ initialized => pc["work"] # "off" \/ pc["main"] = "schedule"
  /\ initialized /\ lock # "free" => lastError = "expired"

(* No deadline that bounds time has passed. *)
Deadlines ==
  /\ held <= now
  /\ lock # "free" => now <= held + Hold
  /\ pc["main"] = "schedule" => now <= armed + Latency
  /\ pc["work"] = "scheduled" => now <= due + Latency /\ due <= now + Interval
  /\ initialized => now <= reloaded + Timeout /\ reloaded <= now /\ armed <= reloaded

(* The watchdog was last fed before any of the tasks that now have a slot    *)
(* had expired, or when it was set up.                                       *)
FedWhileHealthy ==
  initialized => \A n \in Slot : slots[n].active =>
    reloaded <= armed \/ reloaded <= slots[n].last + slots[n].timeout

(* After a successful feed the next one is near enough.                      *)
NextFeedInTime ==
  initialized /\ lastError = "none" =>
    /\ pc["work"] = "scheduled" => due <= reloaded + Interval + Latency
    /\ pc["work"] = "feed" => now <= reloaded + Interval + 2 * Latency
    /\ pc["work"] = "status" => now = reloaded

(* An interval lies between two reports of the work item, and the next one is *)
(* an interval away.                                                         *)
ReportsSpaced ==
  /\ pc["work"] = "off" => reports = 0
  /\ reports > 0 =>
       /\ reports * Interval <= now - reloaded + Interval
       /\ pc["work"] = "scheduled" => reports * Interval <= due - reloaded
       /\ pc["work"] = "feed" => reports * Interval <= now - reloaded

LastFeed(i) == slots[id[i]].last

(* A task on time has been waiting at most for one report of the shell, or   *)
(* else the work item has just made its own and will not look again before   *)
(* the task had the lock.                                                    *)
OnTime(i) ==
  /\ i \notin waiting \/ pc["main"] = "start" => now <= LastFeed(i) + Period
  /\ i \in waiting /\ lock = "free" =>
       \/ now <= LastFeed(i) + Period + Hold
       \/ pc["work"] = "status"
       \/ pc["work"] = "scheduled" /\ now < due
  /\ i \in waiting /\ lock \in {"main", "shell"} => held <= LastFeed(i) + Period

Punctuality == \A i \in Task \ late : id[i] # Unregistered => OnTime(i)

IInv ==
  /\ TypeOK
  /\ Control
  /\ OneOwnerPerSlot
  /\ Deadlines
  /\ FedWhileHealthy
  /\ NextFeedInTime
  /\ ReportsSpaced
  /\ Punctuality
--------------------------------------------------------------------------------
(* Type correctness *)

LEMMA BootTypes ==
  /\ BootPc \in [Thread -> Step]
  /\ BootPc["main"] = "start" /\ BootPc["work"] = "off" /\ BootPc["shell"] = "idle"
  /\ InitialSlots \in [Slot -> SlotState]
  /\ \A n \in Slot : ~InitialSlots[n].active
<1>1. BootPc["main"] = "start" /\ BootPc["work"] = "off" /\ BootPc["shell"] = "idle"
  BY DEF BootPc, Thread
<1>2. BootPc \in [Thread -> Step]
  BY DEF BootPc, Thread, Step
<1>3. InitialSlots \in [Slot -> SlotState] /\ \A n \in Slot : ~InitialSlots[n].active
  BY DEF InitialSlots, SlotState
<1> QED BY <1>1, <1>2, <1>3

LEMMA TypeInit == Init => TypeOK
<1> SUFFICES ASSUME Init PROVE TypeOK
  OBVIOUS
<1>1. id \in [Task -> {Unregistered} \cup Slot]
  BY DEF Init
<1>2. initialized \in BOOLEAN /\ lastReset \in BOOLEAN
  BY DEF Init
<1>3. pc \in [Thread -> Step] /\ slots \in [Slot -> SlotState]
  BY BootTypes DEF Init
<1> QED BY <1>1, <1>2, <1>3 DEF Init, TypeOK

LEMMA TypeStep ==
  ASSUME TypeOK, [Next]_vars
  PROVE  TypeOK'
<1>1. CASE InitializeLock
  BY <1>1, NumbersAssumption DEF InitializeLock, TypeOK, Thread, Feeder, Step
<1>2. CASE RecordWatchdogReset
  BY <1>2, NumbersAssumption DEF RecordWatchdogReset, TypeOK, Thread, Feeder, Step
<1>3. CASE InitializeSetup
  <2>1. pc' \in [Thread -> Step]
    BY <1>3 DEF InitializeSetup, TypeOK, Thread, Step
  <2>2. reloaded' \in Nat /\ armed' \in Nat /\ reports' \in Nat
    BY <1>3 DEF InitializeSetup, TypeOK
  <2>3. initialized' = initialized \/ initialized' = TRUE
    BY <1>3, Zenon DEF InitializeSetup
  <2>4. initialized' \in BOOLEAN
    BY <2>3, Zenon DEF TypeOK
  <2> QED BY <1>3, <2>1, <2>2, <2>4 DEF InitializeSetup, TypeOK
<1>4. CASE InitializeSchedule
  BY <1>4, NumbersAssumption
  DEF InitializeSchedule, ScheduleNextFeed, TypeOK, Thread, Feeder, Step
<1>5. CASE FeedWorkHandler
  BY <1>5, NumbersAssumption DEF FeedWorkHandler, TypeOK, Thread, Feeder, Step
<1>6. CASE CmdWatchdogFeed
  BY <1>6, NumbersAssumption DEF CmdWatchdogFeed, TypeOK, Thread, Feeder, Step
<1>7. ASSUME NEW t \in Feeder, FeedUninitialized(t) PROVE TypeOK'
  BY <1>7, NumbersAssumption
  DEF FeedUninitialized, AfterFeed, TypeOK, Thread, Feeder, Step
<1>8. ASSUME NEW t \in Feeder, FeedUnhealthy(t) PROVE TypeOK'
  BY <1>8, NumbersAssumption DEF FeedUnhealthy, AfterFeed, TypeOK, Thread, Feeder, Step
<1>9. ASSUME NEW t \in Feeder, RecordSupervisionTimeout(t) PROVE TypeOK'
  BY <1>9, NumbersAssumption
  DEF RecordSupervisionTimeout, AfterFeed, TypeOK, Thread, Feeder, Step
<1>10. ASSUME NEW t \in Feeder, FeedHealthy(t) PROVE TypeOK'
  BY <1>10, NumbersAssumption DEF FeedHealthy, AfterFeed, TypeOK, Thread, Feeder, Step
<1>11. CASE Reschedule
  BY <1>11, NumbersAssumption
  DEF Reschedule, ScheduleNextFeed, TypeOK, Thread, Feeder, Step
<1>12. ASSUME NEW i \in Task, RegisterTask(i) PROVE TypeOK'
  <2>1. PICK n \in Slot :
          /\ slots' = [slots EXCEPT
                         ![n] = [active |-> TRUE, timeout |-> TaskTimeout[i], last |-> now]]
          /\ id' = [id EXCEPT ![i] = n]
    BY <1>12 DEF RegisterTask
  <2>2. slots' \in [Slot -> SlotState]
    BY <1>12, <2>1, NumbersAssumption DEF TypeOK, SlotState
  <2>3. n # Unregistered
    BY NumbersAssumption DEF Slot, Unregistered
  <2> QED BY <1>12, <2>1, <2>2, <2>3 DEF RegisterTask, TypeOK
<1>13. ASSUME NEW i \in Task, FeedTaskCall(i) PROVE TypeOK'
  BY <1>13, NumbersAssumption DEF FeedTaskCall, TypeOK, Thread, Feeder, Step
<1>14. ASSUME NEW i \in Task, FeedTask(i) PROVE TypeOK'
  <2>1. id[i] \in Slot
    BY <1>14 DEF FeedTask, TypeOK
  <2>2. slots' \in [Slot -> SlotState]
    BY <1>14, <2>1 DEF FeedTask, TypeOK, SlotState
  <2> QED BY <1>14, <2>2 DEF FeedTask, TypeOK
<1>15. ASSUME NEW i \in Task, FallsBehind(i) PROVE TypeOK'
  BY <1>15, NumbersAssumption DEF FallsBehind, TypeOK, Thread, Feeder, Step
<1>16. CASE Tick
  BY <1>16, NumbersAssumption DEF Tick, code, TypeOK, Thread, Feeder, Step
<1>17. CASE Bite
  BY <1>17, NumbersAssumption, BootTypes DEF Bite, TypeOK, Thread, Feeder, Step
<1>18. CASE UNCHANGED vars
  BY <1>18, NumbersAssumption DEF code, vars, TypeOK, Thread, Feeder, Step
<1> QED
  BY <1>1, <1>2, <1>3, <1>4, <1>5, <1>6, <1>7, <1>8, <1>9, <1>10, <1>11, <1>12, <1>13,
     <1>14, <1>15, <1>16, <1>17, <1>18 DEF Next

(* The state has the types of TypeOK, and only registered tasks wait. *)
THEOREM TypeCorrect == Spec => []TypeOK
<1>1. TypeOK /\ [Next]_vars => TypeOK'
  BY TypeStep
<1> QED BY TypeInit, <1>1, PTL DEF Spec
--------------------------------------------------------------------------------
(* The inductive invariant *)

LEMMA ControlStep ==
  ASSUME TypeOK, Control, [Next]_vars
  PROVE  Control'
<1>1. CASE InitializeLock
  BY <1>1 DEF InitializeLock, CanLock, Control, TypeOK, Thread, Feeder
<1>2. CASE RecordWatchdogReset
  BY <1>2 DEF RecordWatchdogReset, Control, TypeOK, Thread, Feeder
<1>3. CASE InitializeSetup
  BY <1>3 DEF InitializeSetup, Control, TypeOK, Thread, Feeder
<1>4. CASE InitializeSchedule
  BY <1>4 DEF InitializeSchedule, ScheduleNextFeed, Control, TypeOK, Thread, Feeder
<1>5. CASE FeedWorkHandler
  BY <1>5 DEF FeedWorkHandler, Control, TypeOK, Thread, Feeder
<1>6. CASE CmdWatchdogFeed
  BY <1>6 DEF CmdWatchdogFeed, Control, TypeOK, Thread, Feeder
<1>7. ASSUME NEW t \in Feeder, FeedUninitialized(t) PROVE Control'
  BY <1>7 DEF FeedUninitialized, AfterFeed, CanLock, Control, TypeOK, Thread, Feeder
<1>8. ASSUME NEW t \in Feeder, FeedUnhealthy(t) PROVE Control'
  BY <1>8 DEF FeedUnhealthy, AfterFeed, CanLock, Control, TypeOK, Thread, Feeder
<1>9. ASSUME NEW t \in Feeder, RecordSupervisionTimeout(t) PROVE Control'
  BY <1>9 DEF RecordSupervisionTimeout, AfterFeed, Control, TypeOK, Thread, Feeder
<1>10. ASSUME NEW t \in Feeder, FeedHealthy(t) PROVE Control'
  BY <1>10 DEF FeedHealthy, AfterFeed, CanLock, Control, TypeOK, Thread, Feeder
<1>11. CASE Reschedule
  BY <1>11 DEF Reschedule, ScheduleNextFeed, CanLock, Control, TypeOK, Thread, Feeder
<1>12. ASSUME NEW i \in Task, RegisterTask(i) PROVE Control'
  BY <1>12 DEF RegisterTask, Control, TypeOK, Thread, Feeder
<1>13. ASSUME NEW i \in Task, FeedTaskCall(i) PROVE Control'
  BY <1>13 DEF FeedTaskCall, Control, TypeOK, Thread, Feeder
<1>14. ASSUME NEW i \in Task, FeedTask(i) PROVE Control'
  BY <1>14 DEF FeedTask, Control, TypeOK, Thread, Feeder
<1>15. ASSUME NEW i \in Task, FallsBehind(i) PROVE Control'
  BY <1>15 DEF FallsBehind, Control, TypeOK, Thread, Feeder
<1>16. CASE Tick
  BY <1>16 DEF Tick, code, Control, TypeOK, Thread, Feeder
<1>17. CASE Bite
  BY <1>17, BootTypes DEF Bite, Control, TypeOK, Thread, Feeder
<1>18. CASE UNCHANGED vars
  BY <1>18 DEF code, vars, Control, TypeOK, Thread, Feeder
<1> QED
  BY <1>1, <1>2, <1>3, <1>4, <1>5, <1>6, <1>7, <1>8, <1>9, <1>10, <1>11, <1>12, <1>13,
     <1>14, <1>15, <1>16, <1>17, <1>18 DEF Next

LEMMA OwnersStep ==
  ASSUME TypeOK, OneOwnerPerSlot, [Next]_vars
  PROVE  OneOwnerPerSlot'
<1>1. CASE InitializeLock
  BY <1>1 DEF InitializeLock, OneOwnerPerSlot, TypeOK
<1>2. CASE RecordWatchdogReset
  BY <1>2 DEF RecordWatchdogReset, OneOwnerPerSlot, TypeOK
<1>3. CASE InitializeSetup
  BY <1>3 DEF InitializeSetup, OneOwnerPerSlot, TypeOK
<1>4. CASE InitializeSchedule
  BY <1>4 DEF InitializeSchedule, ScheduleNextFeed, OneOwnerPerSlot, TypeOK
<1>5. CASE FeedWorkHandler
  BY <1>5 DEF FeedWorkHandler, OneOwnerPerSlot, TypeOK
<1>6. CASE CmdWatchdogFeed
  BY <1>6 DEF CmdWatchdogFeed, OneOwnerPerSlot, TypeOK
<1>7. ASSUME NEW t \in Feeder, FeedUninitialized(t) PROVE OneOwnerPerSlot'
  BY <1>7 DEF FeedUninitialized, AfterFeed, OneOwnerPerSlot, TypeOK
<1>8. ASSUME NEW t \in Feeder, FeedUnhealthy(t) PROVE OneOwnerPerSlot'
  BY <1>8 DEF FeedUnhealthy, AfterFeed, OneOwnerPerSlot, TypeOK
<1>9. ASSUME NEW t \in Feeder, RecordSupervisionTimeout(t) PROVE OneOwnerPerSlot'
  BY <1>9 DEF RecordSupervisionTimeout, AfterFeed, OneOwnerPerSlot, TypeOK
<1>10. ASSUME NEW t \in Feeder, FeedHealthy(t) PROVE OneOwnerPerSlot'
  BY <1>10 DEF FeedHealthy, AfterFeed, OneOwnerPerSlot, TypeOK
<1>11. CASE Reschedule
  BY <1>11 DEF Reschedule, ScheduleNextFeed, OneOwnerPerSlot, TypeOK
<1>12. ASSUME NEW i \in Task, RegisterTask(i) PROVE OneOwnerPerSlot'
  <2>1. PICK n \in Slot :
          /\ FirstFreeSlot(n)
          /\ slots' = [slots EXCEPT
                         ![n] = [active |-> TRUE, timeout |-> TaskTimeout[i], last |-> now]]
          /\ id' = [id EXCEPT ![i] = n]
    BY <1>12 DEF RegisterTask
  <2>2. \A j \in Task : id[j] # n
    BY <2>1 DEF FirstFreeSlot, OneOwnerPerSlot, TypeOK, Slot, Unregistered
  <2> QED BY <2>1, <2>2 DEF OneOwnerPerSlot, TypeOK
<1>13. ASSUME NEW i \in Task, FeedTaskCall(i) PROVE OneOwnerPerSlot'
  BY <1>13 DEF FeedTaskCall, OneOwnerPerSlot, TypeOK
<1>14. ASSUME NEW i \in Task, FeedTask(i) PROVE OneOwnerPerSlot'
  BY <1>14 DEF FeedTask, OneOwnerPerSlot, TypeOK, SlotState
<1>15. ASSUME NEW i \in Task, FallsBehind(i) PROVE OneOwnerPerSlot'
  BY <1>15 DEF FallsBehind, OneOwnerPerSlot, TypeOK
<1>16. CASE Tick
  BY <1>16 DEF Tick, code, OneOwnerPerSlot, TypeOK
<1>17. CASE Bite
  BY <1>17, BootTypes DEF Bite, OneOwnerPerSlot, TypeOK
<1>18. CASE UNCHANGED vars
  BY <1>18 DEF code, vars, OneOwnerPerSlot, TypeOK
<1> QED
  BY <1>1, <1>2, <1>3, <1>4, <1>5, <1>6, <1>7, <1>8, <1>9, <1>10, <1>11, <1>12, <1>13,
     <1>14, <1>15, <1>16, <1>17, <1>18 DEF Next

LEMMA DeadlinesStep ==
  ASSUME TypeOK, Control, Deadlines, [Next]_vars
  PROVE  Deadlines'
<1>1. CASE InitializeLock
  BY <1>1, NumbersAssumption
  DEF InitializeLock, CanLock, Deadlines, Control, TypeOK, Thread, Feeder
<1>2. CASE RecordWatchdogReset
  BY <1>2, NumbersAssumption
  DEF RecordWatchdogReset, Deadlines, Control, TypeOK, Thread, Feeder
<1>3. CASE InitializeSetup
  BY <1>3, NumbersAssumption
  DEF InitializeSetup, Deadlines, Control, TypeOK, Thread, Feeder
<1>4. CASE InitializeSchedule
  BY <1>4, NumbersAssumption
  DEF InitializeSchedule, ScheduleNextFeed, Deadlines, Control, TypeOK, Thread, Feeder
<1>5. CASE FeedWorkHandler
  BY <1>5, NumbersAssumption
  DEF FeedWorkHandler, Deadlines, Control, TypeOK, Thread, Feeder
<1>6. CASE CmdWatchdogFeed
  BY <1>6, NumbersAssumption
  DEF CmdWatchdogFeed, Deadlines, Control, TypeOK, Thread, Feeder
<1>7. ASSUME NEW t \in Feeder, FeedUninitialized(t) PROVE Deadlines'
  BY <1>7, NumbersAssumption
  DEF FeedUninitialized, AfterFeed, CanLock, Deadlines, Control, TypeOK, Thread,
      Feeder
<1>8. ASSUME NEW t \in Feeder, FeedUnhealthy(t) PROVE Deadlines'
  BY <1>8, NumbersAssumption
  DEF FeedUnhealthy, AfterFeed, CanLock, Deadlines, Control, TypeOK, Thread, Feeder
<1>9. ASSUME NEW t \in Feeder, RecordSupervisionTimeout(t) PROVE Deadlines'
  BY <1>9, NumbersAssumption
  DEF RecordSupervisionTimeout, AfterFeed, Deadlines, Control, TypeOK, Thread, Feeder
<1>10. ASSUME NEW t \in Feeder, FeedHealthy(t) PROVE Deadlines'
  BY <1>10, NumbersAssumption
  DEF FeedHealthy, AfterFeed, CanLock, Deadlines, Control, TypeOK, Thread, Feeder
<1>11. CASE Reschedule
  BY <1>11, NumbersAssumption
  DEF Reschedule, ScheduleNextFeed, CanLock, Deadlines, Control, TypeOK, Thread,
      Feeder
<1>12. ASSUME NEW i \in Task, RegisterTask(i) PROVE Deadlines'
  BY <1>12, NumbersAssumption
  DEF RegisterTask, Deadlines, Control, TypeOK, Thread, Feeder
<1>13. ASSUME NEW i \in Task, FeedTaskCall(i) PROVE Deadlines'
  BY <1>13, NumbersAssumption
  DEF FeedTaskCall, Deadlines, Control, TypeOK, Thread, Feeder
<1>14. ASSUME NEW i \in Task, FeedTask(i) PROVE Deadlines'
  BY <1>14, NumbersAssumption DEF FeedTask, Deadlines, Control, TypeOK, Thread, Feeder
<1>15. ASSUME NEW i \in Task, FallsBehind(i) PROVE Deadlines'
  BY <1>15, NumbersAssumption
  DEF FallsBehind, Deadlines, Control, TypeOK, Thread, Feeder
<1>16. CASE Tick
  BY <1>16, NumbersAssumption DEF Tick, code, Deadlines, Control, TypeOK, Thread, Feeder
<1>17. CASE Bite
  BY <1>17, NumbersAssumption, BootTypes
  DEF Bite, Deadlines, Control, TypeOK, Thread, Feeder
<1>18. CASE UNCHANGED vars
  BY <1>18, NumbersAssumption DEF code, vars, Deadlines, Control, TypeOK, Thread, Feeder
<1> QED
  BY <1>1, <1>2, <1>3, <1>4, <1>5, <1>6, <1>7, <1>8, <1>9, <1>10, <1>11, <1>12, <1>13,
     <1>14, <1>15, <1>16, <1>17, <1>18 DEF Next

LEMMA SlotTypes ==
  ASSUME TypeOK, NEW n \in Slot
  PROVE  slots[n].active \in BOOLEAN /\ slots[n].timeout \in Nat /\ slots[n].last \in Nat
  BY DEF TypeOK, SlotState

LEMMA FedWhileHealthyStep ==
  ASSUME TypeOK, Control, Deadlines, FedWhileHealthy, [Next]_vars
  PROVE  FedWhileHealthy'
<1>1. CASE InitializeLock
  BY <1>1 DEF InitializeLock, FedWhileHealthy
<1>2. CASE RecordWatchdogReset
  BY <1>2 DEF RecordWatchdogReset, FedWhileHealthy
<1>3. CASE InitializeSetup
  <2>1. ~initialized
    BY <1>3 DEF InitializeSetup, Control
  <2>2. initialized' => reloaded' = now /\ armed' = now
    BY <1>3, <2>1 DEF InitializeSetup
  <2> QED BY <2>2 DEF FedWhileHealthy, TypeOK
<1>4. CASE InitializeSchedule
  BY <1>4 DEF InitializeSchedule, ScheduleNextFeed, FedWhileHealthy
<1>5. CASE FeedWorkHandler
  BY <1>5 DEF FeedWorkHandler, FedWhileHealthy
<1>6. CASE CmdWatchdogFeed
  BY <1>6 DEF CmdWatchdogFeed, FedWhileHealthy
<1>7. ASSUME NEW t \in Feeder, FeedUninitialized(t) PROVE FedWhileHealthy'
  BY <1>7 DEF FeedUninitialized, AfterFeed, FedWhileHealthy
<1>8. ASSUME NEW t \in Feeder, FeedUnhealthy(t) PROVE FedWhileHealthy'
  BY <1>8 DEF FeedUnhealthy, AfterFeed, FedWhileHealthy
<1>9. ASSUME NEW t \in Feeder, RecordSupervisionTimeout(t) PROVE FedWhileHealthy'
  BY <1>9 DEF RecordSupervisionTimeout, AfterFeed, FedWhileHealthy
<1>10. ASSUME NEW t \in Feeder, FeedHealthy(t) PROVE FedWhileHealthy'
  <2>1. ASSUME NEW n \in Slot, slots[n].active
        PROVE  now <= slots[n].last + slots[n].timeout
    BY <1>10, <2>1, SlotTypes DEF FeedHealthy, AllHealthy, TaskHealthy, TypeOK
  <2> QED BY <1>10, <2>1 DEF FeedHealthy, FedWhileHealthy
<1>11. CASE Reschedule
  BY <1>11 DEF Reschedule, ScheduleNextFeed, FedWhileHealthy
<1>12. ASSUME NEW i \in Task, RegisterTask(i) PROVE FedWhileHealthy'
  <2>1. PICK n \in Slot :
          /\ FirstFreeSlot(n)
          /\ slots' = [slots EXCEPT
                         ![n] = [active |-> TRUE, timeout |-> TaskTimeout[i], last |-> now]]
          /\ id' = [id EXCEPT ![i] = n]
    BY <1>12 DEF RegisterTask
  <2>2. reloaded <= now \/ ~initialized
    BY DEF Deadlines
  <2>3. \A m \in Slot \ {n} : slots'[m] = slots[m]
    BY <2>1 DEF TypeOK
  <2>4. slots'[n].last = now /\ slots'[n].timeout = TaskTimeout[i]
    BY <2>1 DEF TypeOK
  <2>5. initialized => reloaded <= slots'[n].last + slots'[n].timeout
    BY <2>2, <2>4, NumbersAssumption DEF TypeOK
  <2> QED BY <1>12, <2>3, <2>5 DEF RegisterTask, FedWhileHealthy
<1>13. ASSUME NEW i \in Task, FeedTaskCall(i) PROVE FedWhileHealthy'
  BY <1>13 DEF FeedTaskCall, FedWhileHealthy
<1>14. ASSUME NEW i \in Task, FeedTask(i) PROVE FedWhileHealthy'
  <2>1. id[i] \in Slot
    BY <1>14 DEF FeedTask, TypeOK
  <2>2. \A m \in Slot \ {id[i]} : slots'[m] = slots[m]
    BY <1>14 DEF FeedTask, TypeOK
  <2>3. slots'[id[i]].last = now /\ slots'[id[i]].timeout = slots[id[i]].timeout
    BY <1>14, <2>1 DEF FeedTask, TypeOK, SlotState
  <2>4. initialized => reloaded <= slots'[id[i]].last + slots'[id[i]].timeout
    BY <2>1, <2>3, SlotTypes DEF TypeOK, Deadlines
  <2>5. \A m \in Slot : slots'[m].active = slots[m].active
    BY <1>14, <2>1 DEF FeedTask, TypeOK, SlotState
  <2> QED BY <1>14, <2>2, <2>4, <2>5 DEF FeedTask, FedWhileHealthy
<1>15. ASSUME NEW i \in Task, FallsBehind(i) PROVE FedWhileHealthy'
  BY <1>15 DEF FallsBehind, FedWhileHealthy
<1>16. CASE Tick
  BY <1>16 DEF Tick, code, FedWhileHealthy
<1>17. CASE Bite
  BY <1>17, BootTypes DEF Bite, FedWhileHealthy
<1>18. CASE UNCHANGED vars
  BY <1>18 DEF code, vars, FedWhileHealthy
<1> QED
  BY <1>1, <1>2, <1>3, <1>4, <1>5, <1>6, <1>7, <1>8, <1>9, <1>10, <1>11, <1>12, <1>13,
     <1>14, <1>15, <1>16, <1>17, <1>18 DEF Next

LEMMA NextFeedInTimeStep ==
  ASSUME TypeOK, Control, Deadlines, NextFeedInTime, [Next]_vars
  PROVE  NextFeedInTime'
<1>1. CASE InitializeLock
  BY <1>1, NumbersAssumption
  DEF InitializeLock, CanLock, NextFeedInTime, Control, Deadlines, TypeOK, Thread,
      Feeder
<1>2. CASE RecordWatchdogReset
  BY <1>2, NumbersAssumption
  DEF RecordWatchdogReset, NextFeedInTime, Control, Deadlines, TypeOK, Thread, Feeder
<1>3. CASE InitializeSetup
  BY <1>3, NumbersAssumption
  DEF InitializeSetup, NextFeedInTime, Control, Deadlines, TypeOK, Thread, Feeder
<1>4. CASE InitializeSchedule
  BY <1>4, NumbersAssumption
  DEF InitializeSchedule, ScheduleNextFeed, NextFeedInTime, Control, Deadlines,
      TypeOK, Thread, Feeder
<1>5. CASE FeedWorkHandler
  BY <1>5, NumbersAssumption
  DEF FeedWorkHandler, NextFeedInTime, Control, Deadlines, TypeOK, Thread, Feeder
<1>6. CASE CmdWatchdogFeed
  BY <1>6, NumbersAssumption
  DEF CmdWatchdogFeed, NextFeedInTime, Control, Deadlines, TypeOK, Thread, Feeder
<1>7. ASSUME NEW t \in Feeder, FeedUninitialized(t) PROVE NextFeedInTime'
  BY <1>7, NumbersAssumption
  DEF FeedUninitialized, AfterFeed, CanLock, NextFeedInTime, Control, Deadlines,
      TypeOK, Thread, Feeder
<1>8. ASSUME NEW t \in Feeder, FeedUnhealthy(t) PROVE NextFeedInTime'
  BY <1>8, NumbersAssumption
  DEF FeedUnhealthy, AfterFeed, CanLock, NextFeedInTime, Control, Deadlines, TypeOK,
      Thread, Feeder
<1>9. ASSUME NEW t \in Feeder, RecordSupervisionTimeout(t) PROVE NextFeedInTime'
  BY <1>9, NumbersAssumption
  DEF RecordSupervisionTimeout, AfterFeed, NextFeedInTime, Control, Deadlines, TypeOK,
      Thread, Feeder
<1>10. ASSUME NEW t \in Feeder, FeedHealthy(t) PROVE NextFeedInTime'
  BY <1>10, NumbersAssumption
  DEF FeedHealthy, AfterFeed, CanLock, NextFeedInTime, Control, Deadlines, TypeOK,
      Thread, Feeder
<1>11. CASE Reschedule
  BY <1>11, NumbersAssumption
  DEF Reschedule, ScheduleNextFeed, CanLock, NextFeedInTime, Control, Deadlines,
      TypeOK, Thread, Feeder
<1>12. ASSUME NEW i \in Task, RegisterTask(i) PROVE NextFeedInTime'
  BY <1>12, NumbersAssumption
  DEF RegisterTask, CanLock, NextFeedInTime, Control, Deadlines, TypeOK, Thread,
      Feeder
<1>13. ASSUME NEW i \in Task, FeedTaskCall(i) PROVE NextFeedInTime'
  BY <1>13, NumbersAssumption
  DEF FeedTaskCall, NextFeedInTime, Control, Deadlines, TypeOK, Thread, Feeder
<1>14. ASSUME NEW i \in Task, FeedTask(i) PROVE NextFeedInTime'
  BY <1>14, NumbersAssumption
  DEF FeedTask, CanLock, NextFeedInTime, Control, Deadlines, TypeOK, Thread, Feeder
<1>15. ASSUME NEW i \in Task, FallsBehind(i) PROVE NextFeedInTime'
  BY <1>15, NumbersAssumption
  DEF FallsBehind, NextFeedInTime, Control, Deadlines, TypeOK, Thread, Feeder
<1>16. CASE Tick
  BY <1>16, NumbersAssumption
  DEF Tick, code, NextFeedInTime, Control, Deadlines, TypeOK, Thread, Feeder
<1>17. CASE Bite
  BY <1>17, NumbersAssumption, BootTypes
  DEF Bite, NextFeedInTime, Control, Deadlines, TypeOK, Thread, Feeder
<1>18. CASE UNCHANGED vars
  BY <1>18, NumbersAssumption
  DEF code, vars, NextFeedInTime, Control, Deadlines, TypeOK, Thread, Feeder
<1> QED
  BY <1>1, <1>2, <1>3, <1>4, <1>5, <1>6, <1>7, <1>8, <1>9, <1>10, <1>11, <1>12, <1>13,
     <1>14, <1>15, <1>16, <1>17, <1>18 DEF Next

LEMMA OneMore ==
  ASSUME NEW n \in Nat, NEW m \in Nat PROVE (n + 1) * m = n * m + m /\ n * m \in Nat
  OBVIOUS

LEMMA ReportsSpacedStep ==
  ASSUME TypeOK, Control, Deadlines, ReportsSpaced, [Next]_vars
  PROVE  ReportsSpaced'
<1>a. reports * Interval \in Int /\ Interval \in Nat
  BY OneMore, NumbersAssumption DEF TypeOK
<1>1. CASE InitializeLock
  BY <1>1, <1>a
  DEF InitializeLock, CanLock, ReportsSpaced, Control, Deadlines, TypeOK, Thread, Feeder
<1>2. CASE RecordWatchdogReset
  BY <1>2, <1>a
  DEF RecordWatchdogReset, ReportsSpaced, Control, Deadlines, TypeOK, Thread, Feeder
<1>3. CASE InitializeSetup
  BY <1>3, <1>a
  DEF InitializeSetup, ReportsSpaced, Control, Deadlines, TypeOK, Thread, Feeder
<1>4. CASE InitializeSchedule
  BY <1>4, <1>a
  DEF InitializeSchedule, ScheduleNextFeed, ReportsSpaced, Control, Deadlines, TypeOK, Thread, Feeder
<1>5. CASE FeedWorkHandler
  BY <1>5, <1>a
  DEF FeedWorkHandler, ReportsSpaced, Control, Deadlines, TypeOK, Thread, Feeder
<1>6. CASE CmdWatchdogFeed
  BY <1>6, <1>a
  DEF CmdWatchdogFeed, ReportsSpaced, Control, Deadlines, TypeOK, Thread, Feeder
<1>7. ASSUME NEW t \in Feeder, FeedUninitialized(t) PROVE ReportsSpaced'
  BY <1>7, <1>a
  DEF FeedUninitialized, AfterFeed, ReportsSpaced, Control, Deadlines, TypeOK, Thread, Feeder
<1>8. ASSUME NEW t \in Feeder, FeedUnhealthy(t) PROVE ReportsSpaced'
  <2>1. CASE t = "work"
    <3>1. /\ reports' = reports + 1 /\ pc["work"] = "feed" /\ pc'["work"] = "record"
          /\ UNCHANGED <<now, reloaded>>
      BY <1>8, <2>1 DEF FeedUnhealthy, TypeOK, Thread
    <3>2. reports * Interval <= now - reloaded
      <4>1. reports \in Nat /\ (reports = 0 => reports * Interval = 0)
        BY <1>a DEF TypeOK
      <4>2. 0 <= now - reloaded /\ now - reloaded \in Int
        BY <1>8 DEF FeedUnhealthy, Deadlines, TypeOK
      <4> QED BY <3>1, <4>1, <4>2 DEF ReportsSpaced
    <3>3. reports' * Interval = reports * Interval + Interval
      BY <1>a, <3>1, OneMore DEF TypeOK
    <3> QED BY <1>a, <3>1, <3>2, <3>3 DEF ReportsSpaced, TypeOK
  <2>2. CASE t = "shell"
    BY <1>8, <1>a, <2>2 DEF FeedUnhealthy, ReportsSpaced, TypeOK, Thread
  <2> QED BY <2>1, <2>2 DEF Feeder
<1>9. ASSUME NEW t \in Feeder, RecordSupervisionTimeout(t) PROVE ReportsSpaced'
  BY <1>9, <1>a
  DEF RecordSupervisionTimeout, AfterFeed, ReportsSpaced, Control, Deadlines, TypeOK, Thread, Feeder
<1>10. ASSUME NEW t \in Feeder, FeedHealthy(t) PROVE ReportsSpaced'
  BY <1>10, <1>a
  DEF FeedHealthy, AfterFeed, ReportsSpaced, Control, Deadlines, TypeOK, Thread, Feeder
<1>11. CASE Reschedule
  BY <1>11, <1>a
  DEF Reschedule, ScheduleNextFeed, CanLock, ReportsSpaced, Control, Deadlines, TypeOK, Thread, Feeder
<1>12. ASSUME NEW i \in Task, RegisterTask(i) PROVE ReportsSpaced'
  BY <1>12, <1>a
  DEF RegisterTask, ReportsSpaced, Control, Deadlines, TypeOK, Thread, Feeder
<1>13. ASSUME NEW i \in Task, FeedTaskCall(i) PROVE ReportsSpaced'
  BY <1>13, <1>a
  DEF FeedTaskCall, ReportsSpaced, Control, Deadlines, TypeOK, Thread, Feeder
<1>14. ASSUME NEW i \in Task, FeedTask(i) PROVE ReportsSpaced'
  BY <1>14, <1>a
  DEF FeedTask, ReportsSpaced, Control, Deadlines, TypeOK, Thread, Feeder
<1>15. ASSUME NEW i \in Task, FallsBehind(i) PROVE ReportsSpaced'
  BY <1>15, <1>a
  DEF FallsBehind, ReportsSpaced, Control, Deadlines, TypeOK, Thread, Feeder
<1>16. CASE Tick
  BY <1>16, <1>a
  DEF Tick, code, ReportsSpaced, Control, Deadlines, TypeOK, Thread, Feeder
<1>17. CASE Bite
  BY <1>17, BootTypes DEF Bite, ReportsSpaced
<1>18. CASE UNCHANGED vars
  BY <1>18, <1>a
  DEF vars, code, ReportsSpaced, Control, Deadlines, TypeOK, Thread, Feeder
<1> QED
  BY <1>1, <1>2, <1>3, <1>4, <1>5, <1>6, <1>7, <1>8, <1>9, <1>10, <1>11, <1>12, <1>13,
     <1>14, <1>15, <1>16, <1>17, <1>18 DEF Next

LEMMA PunctualityStep ==
  ASSUME TypeOK, Control, OneOwnerPerSlot, Deadlines, Punctuality, [Next]_vars
  PROVE  Punctuality'
<1> SUFFICES ASSUME NEW j \in Task, j \notin late', id'[j] # Unregistered
             PROVE  OnTime(j)'
  BY DEF Punctuality
<1>a. id[j] # Unregistered => LastFeed(j) \in Nat
  BY SlotTypes DEF LastFeed, TypeOK
<1>b. j \notin late /\ id[j] # Unregistered => OnTime(j)
  BY DEF Punctuality
<1>1. CASE InitializeLock
  BY <1>1, <1>a, <1>b, NumbersAssumption
  DEF InitializeLock, OnTime, LastFeed, Control, Deadlines, TypeOK, CanLock, Thread,
      Feeder
<1>2. CASE RecordWatchdogReset
  BY <1>2, <1>a, <1>b, NumbersAssumption
  DEF RecordWatchdogReset, OnTime, LastFeed, Control, Deadlines, TypeOK, CanLock,
      Thread, Feeder
<1>3. CASE InitializeSetup
  BY <1>3, <1>a, <1>b, NumbersAssumption
  DEF InitializeSetup, OnTime, LastFeed, Control, Deadlines, TypeOK, CanLock, Thread,
      Feeder
<1>4. CASE InitializeSchedule
  BY <1>4, <1>a, <1>b, NumbersAssumption
  DEF InitializeSchedule, ScheduleNextFeed, OnTime, LastFeed, Control, Deadlines,
      TypeOK, CanLock, Thread, Feeder
<1>5. CASE FeedWorkHandler
  BY <1>5, <1>a, <1>b, NumbersAssumption
  DEF FeedWorkHandler, OnTime, LastFeed, Control, Deadlines, TypeOK, CanLock, Thread,
      Feeder
<1>6. CASE CmdWatchdogFeed
  BY <1>6, <1>a, <1>b, NumbersAssumption
  DEF CmdWatchdogFeed, OnTime, LastFeed, Control, Deadlines, TypeOK, CanLock, Thread,
      Feeder
<1>7. ASSUME NEW t \in Feeder, FeedUninitialized(t) PROVE OnTime(j)'
  BY <1>7, <1>a, <1>b, NumbersAssumption
  DEF FeedUninitialized, AfterFeed, OnTime, LastFeed, Control, Deadlines, TypeOK,
      CanLock, Thread, Feeder
<1>8. ASSUME NEW t \in Feeder, FeedUnhealthy(t) PROVE OnTime(j)'
  BY <1>8, <1>a, <1>b, NumbersAssumption
  DEF FeedUnhealthy, AfterFeed, OnTime, LastFeed, Control, Deadlines, TypeOK, CanLock,
      Thread, Feeder
<1>9. ASSUME NEW t \in Feeder, RecordSupervisionTimeout(t) PROVE OnTime(j)'
  BY <1>9, <1>a, <1>b, NumbersAssumption
  DEF RecordSupervisionTimeout, AfterFeed, OnTime, LastFeed, Control, Deadlines,
      TypeOK, CanLock, Thread, Feeder
<1>10. ASSUME NEW t \in Feeder, FeedHealthy(t) PROVE OnTime(j)'
  BY <1>10, <1>a, <1>b, NumbersAssumption
  DEF FeedHealthy, AfterFeed, OnTime, LastFeed, Control, Deadlines, TypeOK, CanLock,
      Thread, Feeder
<1>11. CASE Reschedule
  BY <1>11, <1>a, <1>b, NumbersAssumption
  DEF Reschedule, ScheduleNextFeed, OnTime, LastFeed, Control, Deadlines, TypeOK,
      CanLock, Thread, Feeder
<1>12. ASSUME NEW i \in Task, RegisterTask(i) PROVE OnTime(j)'
  <2>1. PICK n \in Slot :
          /\ FirstFreeSlot(n)
          /\ slots' = [slots EXCEPT
                         ![n] = [active |-> TRUE, timeout |-> TaskTimeout[i], last |-> now]]
          /\ id' = [id EXCEPT ![i] = n]
    BY <1>12 DEF RegisterTask
  <2>2. CASE i = j
    <3>1. slots'[id'[j]].last = now
      BY <2>1, <2>2 DEF TypeOK
    <3>2. j \notin waiting'
      BY <1>12, <2>2 DEF RegisterTask, TypeOK
    <3> QED BY <1>12, <3>1, <3>2, NumbersAssumption
      DEF RegisterTask, OnTime, LastFeed, TypeOK
  <2>3. CASE i # j
    <3>1. id'[j] = id[j] /\ slots'[id[j]] = slots[id[j]]
      BY <1>12, <2>1, <2>3 DEF RegisterTask, FirstFreeSlot, OneOwnerPerSlot, TypeOK
    <3> QED BY <1>12, <3>1, <1>b DEF RegisterTask, OnTime, LastFeed
  <2> QED BY <2>2, <2>3
<1>13. ASSUME NEW i \in Task, FeedTaskCall(i) PROVE OnTime(j)'
  BY <1>13, <1>a, <1>b, NumbersAssumption
  DEF FeedTaskCall, OnTime, LastFeed, Control, Deadlines, TypeOK, CanLock, Thread,
      Feeder
<1>14. ASSUME NEW i \in Task, FeedTask(i) PROVE OnTime(j)'
  <2>1. CASE i = j
    <3>1. slots'[id'[j]].last = now
      BY <1>14, <2>1 DEF FeedTask, TypeOK, SlotState
    <3>2. j \notin waiting'
      BY <1>14, <2>1 DEF FeedTask
    <3> QED BY <1>14, <3>1, <3>2, NumbersAssumption DEF FeedTask, OnTime, LastFeed, TypeOK
  <2>2. CASE i # j
    <3>1. id'[j] = id[j] /\ slots'[id[j]] = slots[id[j]]
      BY <1>14, <2>2 DEF FeedTask, OneOwnerPerSlot, TypeOK
    <3> QED BY <1>14, <2>2, <3>1, <1>b DEF FeedTask, OnTime, LastFeed
  <2> QED BY <2>1, <2>2
<1>15. ASSUME NEW i \in Task, FallsBehind(i) PROVE OnTime(j)'
  BY <1>15, <1>a, <1>b, NumbersAssumption
  DEF FallsBehind, OnTime, LastFeed, Control, Deadlines, TypeOK, CanLock, Thread,
      Feeder
<1>16. CASE Tick
  BY <1>16, <1>a, <1>b, NumbersAssumption
  DEF Tick, code, OnTime, LastFeed, Control, Deadlines, TypeOK, CanLock, Thread,
      Feeder
<1>17. CASE Bite
  BY <1>17 DEF Bite
<1>18. CASE UNCHANGED vars
  BY <1>18, <1>a, <1>b, NumbersAssumption
  DEF code, vars, OnTime, LastFeed, Control, Deadlines, TypeOK, CanLock, Thread,
      Feeder
<1> QED
  BY <1>1, <1>2, <1>3, <1>4, <1>5, <1>6, <1>7, <1>8, <1>9, <1>10, <1>11, <1>12, <1>13,
     <1>14, <1>15, <1>16, <1>17, <1>18 DEF Next

LEMMA InvariantInit == Init => IInv
<1> SUFFICES ASSUME Init PROVE IInv
  OBVIOUS
<1>1. TypeOK
  BY TypeInit
<1>2. Control
  BY BootTypes DEF Init, Control, Thread
<1>3. Deadlines
  BY BootTypes DEF Init, Deadlines
<1>4. OneOwnerPerSlot /\ FedWhileHealthy /\ NextFeedInTime /\ ReportsSpaced /\ Punctuality
  BY DEF Init, OneOwnerPerSlot, FedWhileHealthy, NextFeedInTime, ReportsSpaced, Punctuality
<1> QED BY <1>1, <1>2, <1>3, <1>4 DEF IInv

THEOREM Invariance == Spec => []IInv
<1>1. IInv /\ [Next]_vars => IInv'
  BY TypeStep, ControlStep, OwnersStep, DeadlinesStep, FedWhileHealthyStep,
     NextFeedInTimeStep, ReportsSpacedStep, PunctualityStep
  DEF IInv
<1> QED BY InvariantInit, <1>1, PTL DEF Spec
--------------------------------------------------------------------------------
(* The properties *)

(* No registration takes the slot of another task. *)
THEOREM SlotsAreOwned == Spec => []OneOwnerPerSlot
<1>1. IInv => OneOwnerPerSlot
  BY DEF IInv
<1> QED BY Invariance, <1>1, PTL

(* Once the watchdog runs, the feed work item never ends. *)
THEOREM ChainUnbroken == Spec => []FeedChainUnbroken
<1>1. IInv => FeedChainUnbroken
  BY DEF IInv, Control, FeedChainUnbroken
<1> QED BY Invariance, <1>1, PTL

(* A task that stopped feeding keeps the board up no longer than its timeout *)
(* and the watchdog's.                                                       *)
THEOREM StuckTaskResetsBoard == Spec => []StuckTaskResets
<1>1. IInv => StuckTaskResets
  <2> SUFFICES ASSUME IInv, initialized, NEW n \in Slot, slots[n].active
               PROVE  \/ now <= armed + Timeout
                      \/ now <= slots[n].last + slots[n].timeout + Timeout
    BY DEF StuckTaskResets
  <2>1. now <= reloaded + Timeout
    BY DEF IInv, Deadlines
  <2>2. reloaded <= armed \/ reloaded <= slots[n].last + slots[n].timeout
    BY DEF IInv, FedWhileHealthy
  <2> QED BY <2>1, <2>2, SlotTypes, NumbersAssumption DEF IInv, TypeOK
<1> QED BY Invariance, <1>1, PTL

(* A task that stays stuck costs at most one report of the work item for each *)
(* interval that fits in the timeout, and one, for all durations.             *)
THEOREM WearIsBounded == Spec => []ReportsBounded
<1>1. IInv => ReportsBounded
  <2> SUFFICES ASSUME IInv PROVE reports * Interval <= Timeout + Interval
    BY DEF ReportsBounded
  <2>1. reports \in Nat /\ reports * Interval \in Nat /\ Timeout \in Nat /\ Interval \in Nat
    BY OneMore, NumbersAssumption DEF IInv, TypeOK
  <2>2. CASE reports = 0
    BY <2>1, <2>2
  <2>3. CASE reports > 0
    <3>1. initialized
      BY <2>3 DEF IInv, Control, ReportsSpaced
    <3>2. now <= reloaded + Timeout /\ now \in Nat /\ reloaded \in Nat
      BY <3>1 DEF IInv, Deadlines, TypeOK
    <3>3. reports * Interval <= now - reloaded + Interval
      BY <2>3 DEF IInv, ReportsSpaced
    <3> QED BY <2>1, <3>2, <3>3
  <2> QED BY <2>1, <2>2, <2>3
<1> QED BY Invariance, <1>1, PTL

(* With a feed interval comfortably below the timeout, the hardware watchdog *)
(* never resets a board whose last feed was successful.                      *)
THEOREM NoBiteAfterSuccess == Spec => BiteIsExplained
<1>1. IInv /\ [Next]_vars => [Bite => lastError # "none"]_vars
  <2> SUFFICES ASSUME IInv, Bite, lastError = "none" PROVE FALSE
    OBVIOUS
  <2>1. initialized /\ now >= reloaded + Timeout
    BY DEF Bite
  <2>2. \/ pc["main"] = "schedule"
        \/ pc["work"] \in {"scheduled", "feed", "status"}
    BY <2>1 DEF IInv, Control, Thread
  <2>3. CASE pc["main"] = "schedule"
    BY <2>1, <2>3, NumbersAssumption, FeedIntervalAssumption DEF IInv, Deadlines, TypeOK
  <2>4. CASE pc["work"] \in {"scheduled", "feed", "status"}
    BY <2>1, <2>4, NumbersAssumption, FeedIntervalAssumption
    DEF IInv, Deadlines, NextFeedInTime, TypeOK
  <2> QED BY <2>2, <2>3, <2>4
<1> QED BY Invariance, <1>1, PTL DEF Spec, BiteIsExplained

(* A task that is on time, and leaves room for one report by another thread, *)
(* is never reported as expired.                                             *)
THEOREM NoFalseReport == Spec => PunctualTaskNeverReported
<1>1. IInv /\ [Next]_vars =>
        [\A t \in Feeder : FeedUnhealthy(t) =>
           \A i \in Task : id[i] # Unregistered /\ ~TaskHealthy(slots[id[i]], now)
             => i \in late]_vars
  <2> SUFFICES ASSUME IInv, NEW t \in Feeder, FeedUnhealthy(t),
                      NEW i \in Task, id[i] # Unregistered, i \notin late
               PROVE  TaskHealthy(slots[id[i]], now)
    OBVIOUS
  <2>1. OnTime(i)
    BY DEF IInv, Punctuality
  <2>2. LastFeed(i) \in Nat /\ now \in Nat /\ slots[id[i]].timeout = TaskTimeout[i]
    BY SlotTypes DEF IInv, TypeOK, OneOwnerPerSlot, LastFeed
  <2>3. now <= LastFeed(i) + Period + Hold
    BY <2>1, <2>2, NumbersAssumption
    DEF OnTime, FeedUnhealthy, CanLock, Feeder
  <2>4. Period + Hold <= TaskTimeout[i] /\ TaskTimeout[i] \in Nat
    BY NumbersAssumption, PeriodAssumption
  <2> QED BY <2>2, <2>3, <2>4, NumbersAssumption DEF TaskHealthy, LastFeed
<1> QED BY Invariance, <1>1, PTL DEF Spec, PunctualTaskNeverReported
================================================================================
