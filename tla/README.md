# Zephyr-FW: specifications, model checks and proofs

This directory holds TLA+ specifications of the Zephyr-FW firmware, the TLC
configurations that check them on small instances, and theorems about them
that TLAPS proves for every value of the constants.  It documents what the
firmware does when threads interleave, when flash fails, and when the board
resets at the worst moment: the things its unit tests do not reach.

| file | content |
| --- | --- |
| `Diagnostics.tla` | the crash record and the fatal marker |
| `CrashDelivery.tla` | what the crash record promises, abstractly; `Diagnostics` implements it |
| `Watchdog.tla` | the supervised hardware watchdog, with time |
| `Startup.tla` | the startup path and the confirmation of the running image to MCUboot |
| `TrustedImage.tla` | what startup and MCUboot promise together, abstractly; `Startup` implements it |
| `Release.tla` | from the source tree to a board: build, package, flash |
| `Settings.tla` | the settings store and registry, the shell commands that use them, the factory reset |
| `SettingText.tla` | the parsers and the formatter of typed settings |
| `Decimals.tla` | digits and the numbers they stand for, as both parsers must read them |
| `Erasure.tla` | what a factory reset promises, abstractly; `Settings` implements it |
| `I2cScan.tla` | the `i2cdetect` command: arguments, bus lookup, scan, table |
| `PartitionPolicy.tla` | the check of a board's partitions before it is packaged |
| `MC*.tla`, `MC*.cfg` | the instances that TLC checks |
| `*_proofs.tla` | the theorems and their proofs |
| `PROJECT.json` | components, runs, mutants, the map from definitions to source lines, findings, hazards, theorems |

To check a run: `tlc -config MCWatchdog.cfg MCWatchdog`.  To check the proofs
of a module: `tlapm Watchdog_proofs.tla`.

## 1. The system

The firmware is a Zephyr application that boots under MCUboot.  `main` brings
up the services one after the other and then runs the heartbeat; the rest of
the work is done by the system work queue and by commands in the serial shell.

### Who runs

| actor | Zephyr priority | what it runs |
| --- | --- | --- |
| `main` | 0 (preemptible) | `SettingsStore::Load`, `DiagnosticsService::Initialize`, `WatchdogService::Initialize`, `HealthService::ConfirmBootIfHealthy`, then the heartbeat |
| system work queue | -1 (cooperative) | `FeedWorkHandler`, every `kFeedIntervalMs` |
| serial shell | lowest preemptible | the commands: `diag`, `health`, `settings`, `board`, `system`, `factory-reset`, ... |
| fatal error handler | interrupts locked | `CaptureFatal`, then a reboot |
| hardware watchdog | - | resets the board when it is not fed |
| MCUboot | before `main` | swaps the images; external |

They share the settings partition (each call takes the settings lock of
Zephyr, so a call is atomic), the noinit RAM that holds the fatal marker, the
supervisor's slots under `g_watchdog_lock`, and the hardware watchdog.

### Components

For each component: the state it keeps, its operations, what is hard about
it, and what makes it correct.

**Diagnostics service** (`services/diagnostics`).  State: the crash record in
settings (boot and panic counts, the last fatal error, the last watchdog
report, the reset cause); the fatal marker in noinit RAM.  Operations:
`Initialize`, `RecordWatchdogBite`, `ClearCrashRecord`, `ReadCrashRecord`,
`CaptureFatal`.  Hard: each operation loads, changes and saves the record
without a lock of its own; the marker is cleared before the record is saved;
a load that does not find the record, though it is there, is a success with a fresh
one; a fatal error may hit in the middle of anything, its own handler included.
Correct: a fatal error is counted at most once and in order; what the operator
cleared does not come back; after `Initialize` the record is complete; a
report is not lost to `Initialize`'s own copy; and what a missed load costs is all
that is lost.  *Modelled* in `Diagnostics`.

**Watchdog service** (`services/watchdog`).  State: slots of supervised tasks,
the last feed of each, the last error, the delayed work item.  Operations:
`Initialize`, `RegisterTask`, `FeedTask`, `Feed`, `FeedWorkHandler`.  Hard:
timing; two threads feed the same hardware; a report that writes flash is
made under the lock.  Correct: a stuck task brings the board down within a
bound; a healthy board is never reset and a punctual task never blamed.
*Modelled* in `Watchdog`.

**Startup and health** (`app/main`, `services/health`).  State:
`startup_healthy`; the image slots.  Operations: the startup steps of `main`,
`OverallStatus`, `ConfirmBootIfHealthy`.  Hard: any step may fail, a reset may
come between any two.  Correct: a broken image is never confirmed, and as long
as it is not confirmed there is one to go back to.  *Modelled* in `Startup`,
with MCUboot's swap and an updater as its environment.

**Settings store and registry** (`platform/settings`, `commands/settings`).
State: the settings partition; a registry of at most 64 described keys.
Operations: typed load, save and erase; parsing and range checks; listing;
registration; the `settings` commands.  Hard: any call may fail; a read is cut
at the buffer, a write at its own limit; an empty value deletes; the limits of
the integers; a list puts names together again from their parts.  Correct: what
was reported saved is what a read that finds it returns, a number is returned only
if the text denotes it or as the default of an item that is not found, and the registry describes a key once.  *Modelled* in `Settings` and
`SettingText`.

**Factory reset** (`services/factory_reset`).  State: a list of keys, the
first of them a pending flag.  Hard: the keys go one after another, any may
fail, and the board may reset in between.  Correct: it reports completion only
when the keys are gone, and keeps what it must preserve.  *Modelled* in
`Settings`, with `Erasure` as its abstract specification.

**Board identity and manufacturing** (`platform/board_identity`,
`services/manufacturing`, `commands/board`).  State: serial number and hardware
revision in settings.  Hard: `get` and `set` share one argument shape; a failed
read looks like a missing value.  Correct: as for the settings store, and a
factory reset keeps them.  *Modelled* in `Settings`; the rest of the `board`
command prints constants.

**Reset information** (`platform/core`).  State: the reset cause, read from the
hardware at the first call and cached.  The cache has no lock; whichever thread
comes first fills it with the same value, because the firmware never clears the
cause in the hardware.  In `Diagnostics` it is the variable `cause`.

**I2C scanner and `i2cdetect`** (`platform/i2c`, `commands/i2cdetect`).  State:
the parsed options, the scan result, the cells of the table.  Operations: parse
a word, find a bus by number, name or device name, probe an address, print a
row.  Hard: options in any order and combination; numbers too large for the
16-bit accumulator; loops with 8-bit counters up to 128; the bus answers
anyhow.  Correct: nothing is probed without consent or where a driver has
claimed the address, the named bus is the one probed, the table is true, and
the command ends.  *Modelled* in `I2cScan`.

**Host tools** (`scripts`, `tools`).  State: the build directories under
`build/`, the packages under `dist/`, the flash of the board; none of the
commands holds a lock on any of them.  Operations: `build.sh`, `fw.py package`,
`flash.sh`.  Hard: builds fail halfway and leave what they made, a directory is
used again with another key or another Zephyr checkout, its removal is interrupted,
the three commands overlap.  Correct: no images of two checkouts in one directory, no sample key
in a production build, a manifest that says what is in the package, and a
board that starts.  *Modelled* in `Release`.  What `package` asks of the
partitions in `production.yml` and in the devicetree (`board_metadata.py`) is
*modelled* in `PartitionPolicy`.

**Heartbeat, display, board information, core value types, shell console.**
The heartbeat toggles an LED; the display draws a text; board information and
the console format constants; the value types are plain containers.  They keep
no state that another component depends on and are not modelled.

## 2. What is modelled

### `Diagnostics`

| model | code |
| --- | --- |
| `flash` | the value under `kCrashRecordKey`: ours, longer than the buffer, or (`fresh`) absent or of another size or version |
| `marker` | `g_fatal_marker`: the magic word, the fields, the checksum |
| `buf[t]` | the local `stored` of the operation that thread t is in |
| `pc[t]` | where that thread is, between two settings calls |
| `Loadable`, `LoadStoredRecord` | what `LoadStoredRecord` may return: the record in flash or a fresh one; or it fails |
| `cause` | `ResetInfo::Current()` |
| `InitializeLoad`, `InitializeUpdate`, `InitializeSave` | `DiagnosticsService::Initialize` |
| `WatchdogInitialize`, `FeedUnhealthy`, `RecordWatchdogBiteSave` | `RecordWatchdogBite`, from `WatchdogService::Initialize` and `Feed` |
| `ClearCrashRecordLoad/Update/Save` | `ClearCrashRecord` (`diag clear`) |
| `SettingsCommand` | `settings set` and `settings reset` of the record's own key |
| `CaptureFatalFields`, `CaptureFatalChecksum` | `CaptureFatal` in `k_sys_fatal_error_handler` |
| `Reset(kind)` | any reset; a power-on leaves noise in noinit RAM, the others keep it |

An operation is split at the places where the outside can see the difference:
between its settings calls, and, in the fatal error handler, before the
checksum is written.  Every load and save may fail.  A load may also miss the
record: the code takes every NotFound for a first start, and NotFound is what
ENOENT becomes, wherever it comes from (`settings_store.cpp:393-405`), what an
error of the read callback may become (141), and what is left when the back end
does not hand the item over (410).  So each load has three outcomes, whatever is
in flash: what is there, a fresh record, or an error that ends the operation.  A
fatal error stands for all the data stored about it, by its number.  `sealed`,
`taken`, `delivered`, `erased`, `excused`, `dropped`, `overwritten`, `missed`,
`boots` and `fatals` are history: they are never read by an action that models
code, except for the two counters that carry the bounds.

What a missed load costs.  The operation saves what it made of a fresh record, and
the fatal error, the report and the counts that were there are gone.
`CapturedFatalKept`, `InitializedRecordComplete` and `ReportSurvivesInitialize`
fail if this is not excepted, and so they except it and nothing more: a save of an
operation in `missed` is one of the four ways in which a captured fatal error is
lost, and the only way besides an operator's command in which a complete record
becomes incomplete.  `CountsEachFatalOnce` and `ClearSticks` except nothing: they
hold of every record that a read may return.

`CrashDelivery` is the abstract specification: fatal errors are captured in
order, and the latest captured one is delivered to the record, at most once.
`DeliversInOrder` is the refinement, with `sealed` and `delivered` mapped to
themselves.

Choices.  The checksum is injective.  An operator may overwrite or reset the record
with a settings command, also between another thread's load and save.  What is typed
is never taken for a record (it has no zero byte) nor too long for the buffer (the
shell's line has 256 characters, the record 240 bytes), so that the item then reads
as absent.  `CapturedFatalKept` excuses the fatal errors that were on the record, but
none that was still in the marker or in `Initialize`'s hands; `InitializedRecordComplete`
then asks nothing until `Initialize` has saved again.  With
priorities as above an operation of the shell can be overtaken by the others
anywhere, and main by the work queue; the model lets every thread run at any
time, so it covers those schedules and more.  `ClearSticks` speaks of a
`diag clear` that did not overlap another operation: one that did may lose to
the other's save, as every unlocked load-change-save does.

### `Watchdog`

A discrete clock, `now`, restarts at each boot.  `Tick` lets time pass only
when nothing is overdue: an action that must happen by some time stops the
clock there until it did.  The bounds on how long things take are constants.

| constant | meaning |
| --- | --- |
| `Timeout`, `Interval` | the hardware timeout and `kFeedIntervalMs` |
| `Latency` | how late a due work item may run, and how long `main` may be delayed before it schedules it |
| `Hold` | how long the lock may be held across a report that writes flash |
| `StartTime` | how long `main` takes to reach `WatchdogService::Initialize` |
| `TaskTimeout[i]`, `Period` | a task's timeout, and how often a punctual task feeds |
| `SlotCount` | `kSupervisedTaskCount` |
| `MaxTime` | where TLC stops the clock |

| model | code |
| --- | --- |
| `slots`, `id` | `g_supervised_tasks`, and the ids that `RegisterTask` handed out |
| `lock`, `held` | `g_watchdog_lock`: its owner, and since when |
| `initialized`, `lastReset`, `lastError` | the service's members |
| `pc["work"]`, `due` | `g_feed_work` and when it is due |
| `reloaded` | when the hardware watchdog was set up or last fed |
| `InitializeLock`, `RecordWatchdogReset`, `InitializeSetup`, `InitializeSchedule` | `WatchdogService::Initialize` |
| `FeedWorkHandler`, `Reschedule` | the work item |
| `CmdWatchdogFeed` | `health watchdog feed` |
| `FeedUninitialized`, `FeedUnhealthy`, `RecordSupervisionTimeout`, `FeedHealthy` | `WatchdogService::Feed` |
| `RegisterTask`, `FeedTaskCall`, `FeedTask` | their namesakes; the call waits for the lock in between |
| `FallsBehind` | a task stops feeding (environment) |
| `Bite` | the hardware watchdog resets the board |

The repository has no caller of `RegisterTask` and `FeedTask`: the tasks are
environment.  A critical section without a settings call takes no time; one
with a report takes up to `Hold`.  The kernel hands `g_watchdog_lock` to the
waiter of the highest priority, which `CanLock` says.

Assumptions on the constants, each tight (the proofs and the run fail with any
one weakened by one): `NumbersAssumption` (they are numbers),
`FeedIntervalAssumption` (the interval, main's lateness and the work item's fit
in the hardware timeout), `PeriodAssumption` (a punctual task's period and
the wait behind a report fit in its timeout).  Kconfig does not enforce them:
a configuration that breaks them breaks the properties.

`reports` is history: the reports the work item has made since the hardware was
set up or last fed.  Each writes flash, and `ReportsBounded` bounds them by one
for each `Interval` of a `Timeout`, and one.  `health watchdog feed` reports too,
once for each time it is typed; these are not counted.

### `Startup`

`primary`, `secondary`, `pending`, `trial` and `imageOk` are MCUboot's slots
and image trailer; `stage` and `startupHealthy` are `main`.  `Fails` names, for
each image, the checks of startup that fail every time on it; every check may
fail now and then on any image.  `SwapForTest`, `Revert` and `Update` are
external: what MCUboot does at a reset and how an updater brings an image.

`TrustedImage` is what the parts promise together: there is always one image the
board trusts, it is one that starts, and another takes its place only after it
was tried and found sound.  The trusted image is the running one when it is
confirmed and else the one in the other slot (`Trusted`); `KeepsTrustedImage` is
the refinement.

### `Release`

| model | code |
| --- | --- |
| `out[d]` | a directory `build/<board>/<profile>/<boot>`: the checkout in `CMakeCache.txt`, `zephyr.bin`, `zephyr.signed.bin`, MCUboot's `zephyr.bin` |
| `dist[n]` | a package directory: the images, and whether `manifest.json` is there |
| `board` | what is at the offset of the boot loader (MCUboot, or an application that boots directly) and in slot 0 |
| `build`, `pack`, `flash` | the running commands, with how far they are |
| `BuildCommand` | `build.sh` up to west: the key checks, the look at the CMake cache, `--pristine` |
| `RemoveFile`, `RemovalEnds` | `remove_build_dir`: `rm -rf`, one file at a time in any order |
| `Configure`, `MakeImage`, `BuildCompletes`, `BuildFails` | west and CMake; external |
| `PackageCommand`, `CopyApp`, `CopySigned`, `CopyBootloader`, `WriteManifest` | `resolve_package_request` and `create_package`, one step for each image |
| `FlashCommand`, `Erase`, `WriteApplication`, `WriteBootloader`, `WriteSlot0` | `flash.sh` and the writes of esptool |

Each command may stop between any two steps, and the three overlap freely: a
directory may be rebuilt under a packager, a package replaced under `flash.sh`.
Two builds, two packagers or two `flash.sh` at once are left out.  When no key
is given, west signs with any key: its default, or one from the CMake cache.
`complete`, `torn` and `good` are history: which directories are of a build that ran
to its end, which lost their CMake cache but not their images to a removal that was
interrupted, and whether the last `flash.sh` ran to its end with a package whose
images were all copied while their directory was complete.
Of a `torn` directory `build.sh` knows nothing (line 453 looks for the cache): the next
checkout is configured over the images of another, and `OneBasePerDir`, which fails
without this exception, is about the other directories.  A removal or a build that runs
to its end makes it one of them again.
`FlashedBoardBoots` is about the boards in `good`; a package of a directory whose
build failed carries no promise.  Of a start, the model knows that MCUboot
accepts an image signed with its key and that an application for MCUboot does
not start without it.

### `Settings`, `SettingText` and `Erasure`

| model | code |
| --- | --- |
| `flash` | the settings partition: a text for each key; the empty text is no item, because the NVS back end deletes an item when nothing is written to it |
| `registry` | `g_registry` and its count |
| `step` | how far a running `factory-reset` is in `kResetKeys` |
| `reply`, `typed`, `listed` | what the shell printed last, the item it was about, the keys it listed |
| `WriteRaw`, `SetString`, `Reset`, `ReadString`, `GetString`, `List` | the calls of `SettingsStore`, each one call of Zephyr's settings |
| `GetInt32`, `GetUInt32`, `SetNumber`, `ParseInt32`, `ParseUInt32`, `Decimal` | the typed calls and their conversions |
| `Register`, `Find` | `SettingRegistry` |
| `CmdList` ... `CmdLoad` | the `settings` commands, from the whole argument vector on |
| `CmdBoardSerial`, `CmdBoardHardwareRevision` | `board serial` and `board hw-rev`, with `Read`/`WriteIdentityValue` |
| `FactoryResetBegin`, `ResetNextKey`, `FactoryResetSave` | `FactoryResetService::ResetSettings` as the shell runs it |
| `WriteCrashRecord` | the other threads, see `Diagnostics` |
| `BoardReset` | a reset at any time; flash stays |

A key is the sequence of its segments, so that splitting, depth and namespaces
are what the code computes from the slashes.  `Typed` is what an operator may
type: valid keys, keys with a bad character, keys too deep or too long,
operands that are themselves `get` or `set`, words too many.  A handler is
called with its subcommand first or with the whole line; `Argv` and
`CommandArgBase` are both shapes.  A call of Zephyr's settings either fails,
with one of `Errno`, and changes nothing, or does all of its work.  A read may also
say NotFound of an item that is there, as in `Diagnostics`; `GetInt32` and
`GetUInt32` are therefore the sets of the results that a typed read may have, the
default among them.  The empty text is saved by deleting the item:
`SavedReadsBack` says that the shell reports it as saved and that no read finds an
item afterwards.  The calls of
the shell are one after another; only the crash record has another writer.  A
list that fails has printed some keys before: these are left out.
`SetNumber` and `Register` have no caller in the repository: they are offered
whenever the shell is idle, for the keys in `Counted` and `Described`.

`Erasure` says what an erasure promises to its user: while it runs, items only
go; completion means none is left; it may give up any time.
`KeepsErasurePromise` is the refinement, with the keys of `kResetKeys` as the
items; the crash record is none of them, so that the other threads' writes are
stuttering.

### `I2cScan`

| model | code |
| --- | --- |
| `args`, `options`, `spec` | the words left in `argv`, the options parsed, `bus_spec` |
| `ParseArg`, `ParseEnd` | the loop over `argv` in `CmdI2cDetect` and the checks behind it |
| `OpenBus`, `Resolve`, `ParseIndex` | bus lookup by number (a 16-bit accumulator), name or device name |
| `ScanAddress`, `Probe`, `Skips` | the loop of `I2cScanner::Scan`, one address a step |
| `PrintRow`, `Row`, `CellForState` | `PrintScanTable` |
| `asked`, `probed` | history: what the whole line says, and the transfers made |

A word is a record of its option letters and of the bus it names; matching
characters to letters is left out.  A word without letters is no flag word: it is the
bus, or, after the bus, one argument too many, the empty word included.  An empty word
before the bus is taken for a bus that is not yet named, as `ParseArgs` does.  A transfer is external and is answered in
any way the code distinguishes.  Which buses are ready does not change during
a command.  The loop counters have `CounterSize` values, 2^8 in the code.

### `PartitionPolicy`

`policy` is what `production.yml` says of the four partitions: a name, an
offset, a size with a unit, any of them missing or malformed.  `dts` is the
list of the partition nodes of the build's `zephyr.dts`.  Both are arbitrary and
do not change while `create_package` runs.  `validate_production_policy` and
`validate_production_policy_against_dts` are translated check by check: the
ranges are sorted and each compared with the one before it; of two nodes with
one name the later counts, also when it is the label of one and the node label
of the other.  A package may be refused for another field or another file
(`"other"`).  How the lines of `zephyr.dts` are recognised is left out.

## 3. What the runs check

| run | states | shows |
| --- | --- | --- |
| `diagnostics` | 1.9 million | type, `CountsEachFatalOnce`, `ClearSticks`, `InitializedRecordComplete`, `CapturedFatalKept`, `ReportSurvivesInitialize`, and that `Diagnostics` implements `CrashDelivery` |
| `watchdog` | 3.4 million | type, `OneOwnerPerSlot`, `FeedChainUnbroken`, `StuckTaskResets`, `BiteIsExplained`, `PunctualTaskNeverReported`, `ReportsBounded` |
| `startup` | 279 | type, `BrokenNeverConfirmed`, `RollbackImageKept`, `BrokenLeavesAtReset`, `BrokenImageLeaves`, and that `Startup` implements `TrustedImage` |
| `release` | 2.3 million | type, `BootModeIsTrue`, `FlashedBoardBoots` |
| `build_directories` | 0.16 million | `OneBasePerDir`, `ProductionKeysAreOwn` |
| `settings` | 29 920 | type, `SavedReadsBack`, `TypedReadsExact`, `RegistrySound`, `PreservedKept`, and that the factory reset implements `Erasure` |
| `i2c_scan` | 38 106 | type, `ScanNeedsConsent`, `ProbesOnlyFreeAddresses`, `OpensNamedBus`, `TableTellsTruth`, `EveryStepCounts`, `ScanEnds` |
| `partition_policy` | 1.2 million | type, `PackagedIffSound` |
| `listed_builds` | - | finding 2, a counterexample |
| `crash_visible` | - | finding 1, a counterexample |
| `factory_reset_policy` | - | finding 3, a counterexample |
| `listed_keys` | - | finding 4, a counterexample |

**Bounds.**

- `diagnostics`: three fatal errors and three boots are enough for a fatal
  error in each of the boots, one in the handler of another, one cleared
  between two others, and a record written in one boot, changed in the second
  and read in the third; one task name suffices, because names are only copied.
  The bound on boots ends a behaviour, so this run does not look for deadlock:
  at the last boot a halted board has nowhere to go.
- `watchdog`: two tasks compete for two slots, with different timeouts; each
  inequality between the durations holds with equality, so that an off-by-one
  in the code shows; eight time units cover two feed intervals, an expiry,
  three reports of it and the reset that follows.  Two tasks never ask for a third
  slot: that `RegisterTask` refuses when all are in use is covered by the theorem
  `SlotsAreOwned` only, for any number of tasks and slots.
- `startup`: a good update and one image broken at each check; unbounded
  otherwise, the state space is finite by itself.
- `release`: two builds, two packages and two flashes are enough for a
  directory built twice with another key or checkout, a build or a package that
  replaces another in use, and a board that was flashed before with something
  else; one production and two debug directories cover both boot modes and both
  rules for keys, and two keys of one's own can differ where neither is the
  sample key. The bounds end every behaviour, so this run does not look for
  deadlock.
- `build_directories`: the same directories, four builds and no package or flash.
  Three are the fewest for a directory of one checkout, a removal of it that is
  interrupted, and a build of another checkout over what is left; the fourth
  follows on that.
- `settings`: the 32-bit limits are 12, 13 and 31, so that the check at each
  digit is met with one, two and more digits, at the limit and one beyond, with
  leading zeros and with a sign; texts have at most three characters instead of
  256, and one of four is typed; keys have at most three segments instead of 8,
  the registry two entries instead of 64, for
  three keys, so that it is full and refuses one. The operator types one of twenty
  operand lists, about keys that a factory reset erases and others; the
  identity has its own commands.
- `i2c_scan`: eight addresses in rows of four, 16 values of the counter, so
  that it is one bit wider than an address as in the code; a claimed address
  among the usable and among the reserved ones, an enabled bus that is not
  ready; numbers of one to five digits, among them one that is 0 in 16 bits
  (65536) and one above 255; every order of up to two of 12 words and of up to
  three of six, the empty word among them, and each word after `-y`, a bus and an
  empty word.
- `partition_policy`: a flash of six bytes and units of one, two and four;
  every one of 15 entries in each of the four places, so that overlaps of any
  two, containment, equal ranges, unequal slots, equal, missing and malformed
  names, a missing offset and a size of zero occur; eight devicetrees, with
  nodes in another order, of another size, doubled and with a name missing. Its
  one step ends the behaviour, so this run does not look for deadlock.

**Fairness.**  `Startup` assumes that a board is reset again some day
(`WF_vars(Reset)`); nothing of `main` is assumed to make progress.  `I2cScan`
assumes that the shell's thread runs on once a command has begun
(`WF_vars(Step)`): nothing it calls waits without limit, because the drivers
end every transfer, with an error if need be.  No new command is assumed.  The
watchdog's promises are stated as safety with time bounds, which need no
fairness: the clock stops for an action that is due.

### Findings

1. `CrashVisibleAfterReboot`: the documentation promises that a captured fatal
   error is visible after the reboot.  `Initialize` clears the marker in RAM
   before it saves the record; when that save fails, or the board resets in
   between, the fatal error is in neither place.
2. `ListedBuildsAreCompleted`: the documentation promises that `package.sh`
   lists completed build directories.  `discover_build_dirs` lists every
   directory with an application image, also while its build is running and
   after it failed.
3. `CompleteErasesAllButPreserved`: the shell announces that persistent
   settings are reset and what is preserved.  The service erases five named
   keys; any other key under `user`, `network`, `display` or `fw` is left, and
   the shell still says that the reset is complete.
4. `ListedKeysAreKeys`: `settings list` is to list settings keys.  For the item
   whose name is the subtree itself the callback appends a slash to it all the
   same, and the name shown is one that `settings get` refuses.

## 4. What is proved

All theorems hold for every value of the constants that satisfies the
assumptions named in the modules; TLC evaluates these in the runs.

**`Diagnostics_proofs`** proves type correctness, the four invariants, the
action property `ReportSurvivesInitialize` and the refinement of
`CrashDelivery`.  None of the invariants is inductive: what flash holds
depends on the copies that the threads are going to save, and these on the
marker.  The strengthening `IInv` has six parts.  `Control`: which program
counters go together (a report is made only under the lock, all threads halt
together).  `Numbers`: the order of the history, `erased` and `delivered`
before `sealed` before `fatals`, and that a valid marker holds an undelivered
fatal error.  `Copies`: every copy a thread is going to save satisfies what
the record must satisfy.  `Completeness` and `Reports`: once `Initialize` has saved,
every copy that may follow is complete, and until then its copy has the report that
flash has.  `Kept`: a captured fatal
error that nothing excuses is either not delivered, and then it is in the marker or in
`Initialize`'s hands; or it is delivered, and then it is on the record and in every copy
that a report or `Initialize` is going to save.  A `diag clear` that is about to save
has excused whatever there was, and a settings command excuses what was delivered: it
changes neither the marker nor a copy.  `RecordShowsDelivered` ties the history to what
the operator sees: `diag crash` shows no fatal error beyond the last one delivered, so
that the refinement speaks of the record itself.  Of the copy of a thread in `missed`, `Kept`,
`Completeness` and `Reports` ask nothing; its save is what `excused` and `overwritten`
record.  `TaskNameReplaced` says how long the name of an expired task
stays on the record: until a later report (main's, of the reset that follows, is one), a
command of the operator, or an `Initialize` whose load missed the record.

**`Watchdog_proofs`** proves type correctness and all six properties.  The
argument for `BiteIsExplained`: main may be `Latency` late when it schedules the
work item, which runs at most `Latency` after it is due; so a board that was
fed, or set up, without an error is fed again within
`Interval + 2 * Latency`, which `FeedIntervalAssumption` puts before
`reloaded + Timeout`.  Nobody holds the lock across time meanwhile, because only
a report does and a report leaves `last_error` behind (`Control`).
`NextFeedInTime` says so for each place the feed may be in.
`PunctualTaskNeverReported` rests on `OnTime`: a task that is not late has fed
within `Period`, or waits for a lock that was taken within `Hold`.
`StuckTaskResets` rests on `FedWhileHealthy`: the hardware was last fed when all
tasks were healthy.  `ReportsBounded` rests on `ReportsSpaced`: the work item
makes a report only an interval after the one before, because it goes back to
the queue for a whole interval after each, and no report is later than the
hardware timeout after the last feed.

**`Startup_proofs`** proves type correctness, `BrokenNeverConfirmed`,
`RollbackImageKept`, `BrokenLeavesAtReset` and the refinement of `TrustedImage`.  The strengthening: up to the confirmation,
`startupHealthy` implies that no check passed so far is one that the image
fails (`ChecksPassed`); an update waits only beside a confirmed image
(`UpdateBesideConfirmed`).  With these each step of `main`, MCUboot and the
updater tries, adopts or gives up an image of `TrustedImage`, or changes none
(`TrustStep`).  `BrokenRunsOnce` is the half of `BrokenImageLeaves` that is safety: a
broken image is unconfirmed with no update beside it, so that the next reset reverts it;
that there is a next reset is fairness.  `TrustedStarts` says of the implementation what
the abstract specification keeps: the image to go back to is there and starts.

**`Release_proofs`** proves type correctness and all four properties, for any
number of commands.  The strengthening follows the images: in the directory
(`ImagesOfDir`, `ImagesOfBuild`: what the running build made has its key and
checkout, but in a `torn` directory; `CompleteStartable`), in the package (`CopiesOfDir`: as long as no
build interferes, what was copied is what is in the directory;
`PackagesOfBootMode`) and on the board (`BootloaderFits`).

**`Decimals_proofs`** has the lemmas on digits that the parsers need.  A theorem
of the library that takes an operator as a parameter cannot be used here, so the
induction is over sets of numbers: a set of numbers has a least element
(`LeastNumber`, because `<` on them is well-founded), and so a set with 0 and
with each number the next one has all of them (`Upwards`).  A recursive function
is in TLA+ the choice of one that satisfies its equation; `Recursion` shows that
there is one, whatever a step makes of the value so far.  On these rest
`Powers`, `PlaceValueAppend` (a digit more makes the rest count ten times as
much) and `PrefixValue` (reading on by one digit).

**`Settings_proofs`** proves type correctness, `SavedReadsBack`,
`TypedReadsExact`, `RegistrySound`, `PreservedKept` and the refinement of
`Erasure`, for any keys, texts and limits, under `KeyAssumption`,
`TextAssumption` and `CapacityAssumption`.  The strengthening: every item in
flash is as long as a write may be (in `TypeOK`), what the shell said of an item
is what is stored (`ShownIsStored`), and a running factory reset has emptied the
keys before the one it is at (`ErasedSoFar`), which nobody else writes
meanwhile.  `TypedReadsExact` needs no history: `ParseDigitsExact` shows that the
parser, which checks its accumulator at each digit, returns the value of
the numeral if that is within the limit, and an error otherwise, at any length;
`DenotesOne` that a text stands for at most one number; and
`TypedGetResults` that a read adds the default and failures to the parser's result.  `NumbersReadBack`
closes the circle: the text that `SetNumber` writes denotes the number
(`DecimalDenotes`, over the digits of the number), so that a read of the same
type returns it, the least 32-bit number included.  It is about the
conversions alone and no property of a run.

Three theorems say how far the two findings about settings go.
`ListIsComplete`: `settings list` shows every stored item of the subtree and
nothing else, and only the item of the subtree's own name under another name.
`OnlySlashesAreNoKeys`: whatever was listed is a valid key, or a key and a slash.
`CompleteMeansErased`: after a reset that was reported complete the five keys are
gone until the operator uses the settings again.

**`I2cScan_proofs`** proves type correctness, `ScanNeedsConsent`,
`ProbesOnlyFreeAddresses`, `OpensNamedBus`, `TableTellsTruth` and
`EveryStepCounts`, for any number of addresses, buses and words.  The
strengthening: the options are those of the words parsed so far (`Parsed`,
`Consented`); the result has, up to the counter, what the address calls for
(`Scanned`); the table has the rows up to the row counter, and
`TableAssumption` keeps both counters from wrapping (`Printed`).
`ParseIndexExact` shows that the 16-bit accumulator, which is given up above 255
before it can wrap, is above 255 exactly when the number that was typed is, and
else is that number.  `EveryStepCounts` is the
half of `ScanEnds` that is safety: each step of a command leaves less of
`WorkLeft`, a natural number, which is what ends the loops with 8-bit counters;
that the shell's thread takes its steps is fairness.

**`PartitionPolicy_proofs`** proves type correctness and `PackagedIffSound` for
any files.  The heart is `NeighboursEnough`: if each range starts behind the one
before it in the order of the sort, no two of the ranges overlap.  For a range
that follows another there is one right behind it (`NextRange`: the order is
total on at most four ranges), and the argument goes up the line.  `LastNamed`
shows that a node with a name has a last one among them.

**Only model-checked**: `BrokenImageLeaves` and `ScanEnds`, which are liveness
under fairness and out of the provers' reach; and the four counterexamples.
Every other property of a run that passes is a theorem.

## 5. Not modelled

Formatting of `diag`, `health` and `board` output, logging, `feed_count`,
thread names and texts beyond which fatal error they are about; pure I/O and
wrappers around Zephyr drivers; the third-party parts of the repository.
The boot and panic counters are numbers without a limit: to wrap they need 2^32
boots.

**Heartbeat, display, board information, core value types, shell console.**
The heartbeat toggles an LED; the display draws a text; board information and
the console format constants; the value types are plain containers.  They keep
no state that another component depends on.

**Reset information.**  Decoding the bits of the cause is a table; the cache is
filled with one value whoever fills it.

Of the settings: `ForEach` of the registry, the parsing of Booleans (a table of
words), the help texts.  Of the host tools: the other fields and files that
`board_metadata.py` checks one by one, the recognition of lines in
`zephyr.dts`, slot 1, the version in the manifest.

## 6. What is left

1. In `Release`: the version that a manifest names; slot 1, and with it the
   composition with `Startup`.
2. `PartitionPolicy` with files that are edited while they are packaged.
