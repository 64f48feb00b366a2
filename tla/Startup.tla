--------------------------------- MODULE Startup -------------------------------
(***************************************************************************)
(* The startup path of main, which brings up the services in order and     *)
(* confirms the running image to MCUboot, and the two image slots that     *)
(* MCUboot swaps.  A reset may come between any two steps.                 *)
(*                                                                         *)
(* A check of startup fails now and then on any image; Fails names the     *)
(* checks that an image fails every time, because it is broken or because  *)
(* it cannot read what another version left in settings.                   *)
(***************************************************************************)
EXTENDS Integers

CONSTANTS
  Image,         \* the images an update may bring
  FactoryImage,  \* the image the board was flashed with
  NoImage,       \* the content of an empty slot
  Fails          \* the startup checks that each image fails every time

Check == {"settings", "diagnostics", "watchdog", "storage"}

ASSUME ImageAssumption ==
  /\ FactoryImage \in Image /\ NoImage \notin Image
  /\ Fails \in [Image -> SUBSET Check]

\* The image flashed at the factory starts.
ASSUME FactoryAssumption == Fails[FactoryImage] = {}

VARIABLES
  primary,         \* the image in slot 0, which runs
  secondary,       \* the image in slot 1
  pending,         \* slot 1 is marked for a test swap
  trial,           \* slot 0 has the trailer of a test swap
  imageOk,         \* the image_ok flag of that trailer
  stage,           \* where main is
  startupHealthy   \* startup_healthy

slots == <<primary, secondary, pending, trial, imageOk>>
vars == <<slots, stage, startupHealthy>>

Stage == {"settings", "diagnostics", "watchdog", "health", "storage", "confirm", "running"}

Broken(image) == Fails[image] # {}

\* Mutant: an image that was never swapped counts as one under test.
ConfirmedByFlag == imageOk

\* boot_is_img_confirmed(): image_ok is set, or nothing was ever swapped.
Confirmed == trial => imageOk

--------------------------------------------------------------------------------
(* main *)

\* Mutant: the failure of one of the checks is logged and forgotten.
LoggedCheck(check, next) ==
  /\ stage = check
  /\ stage' = next
  /\ startupHealthy' = (startupHealthy /\ (check = "watchdog" \/ check \notin Fails[primary]))
  /\ UNCHANGED slots

\* One service is initialized.  main goes on when it fails, with
\* startup_healthy FALSE.
StartupCheck(check, next) ==
  /\ stage = check
  /\ stage' = next
  /\ \/ check \notin Fails[primary] /\ UNCHANGED startupHealthy
     \/ startupHealthy' = FALSE
  /\ UNCHANGED slots

LoadSettings == StartupCheck("settings", "diagnostics")

InitializeDiagnostics == StartupCheck("diagnostics", "watchdog")

InitializeWatchdog == StartupCheck("watchdog", "health")

SkipConfirmation ==
  /\ stage = "health"
  /\ ~startupHealthy
  /\ stage' = "running"
  /\ UNCHANGED <<slots, startupHealthy>>

\* Mutant: the image is confirmed whatever startup found.
ConfirmAnyway ==
  /\ stage = "health"
  /\ stage' = "storage"
  /\ UNCHANGED <<slots, startupHealthy>>

ConfirmBootIfHealthy ==
  /\ stage = "health"
  /\ startupHealthy
  /\ stage' = "storage"
  /\ UNCHANGED <<slots, startupHealthy>>

\* Mutant: a failed storage check is reported but not returned.
FailedStorageIsLogged ==
  /\ stage = "storage"
  /\ stage' = "confirm"
  /\ UNCHANGED <<slots, startupHealthy>>

\* HealthService::OverallStatus: the settings subsystem and its partition.
OverallStatus ==
  /\ stage = "storage"
  /\ \/ "storage" \notin Fails[primary] /\ stage' = "confirm"
     \/ stage' = "running"
  /\ UNCHANGED <<slots, startupHealthy>>

AlreadyConfirmed ==
  /\ stage = "confirm"
  /\ Confirmed
  /\ stage' = "running"
  /\ UNCHANGED <<slots, startupHealthy>>

\* boot_write_img_confirmed, which may fail.
WriteImageConfirmed ==
  /\ stage = "confirm"
  /\ ~Confirmed
  /\ stage' = "running"
  /\ imageOk' \in {TRUE, imageOk}
  /\ UNCHANGED <<primary, secondary, pending, trial, startupHealthy>>

--------------------------------------------------------------------------------
(* Updates and MCUboot, outside this repository *)

\* An updater puts an image in slot 1 and marks it for a test, when the running
\* image is confirmed.
Update(image) ==
  /\ stage = "running"
  /\ Confirmed
  /\ secondary' = image
  /\ pending' = TRUE
  /\ UNCHANGED <<primary, trial, imageOk, stage, startupHealthy>>

SwapForTest ==
  /\ pending
  /\ primary' = secondary
  /\ secondary' = primary
  /\ pending' = FALSE
  /\ trial' = TRUE
  /\ imageOk' = FALSE

Revert ==
  /\ ~pending
  /\ ~Confirmed
  /\ primary' = secondary
  /\ secondary' = primary
  /\ imageOk' = TRUE
  /\ UNCHANGED <<pending, trial>>

\* Any reset: MCUboot swaps, swaps back or leaves the slots alone, and main starts.
Reset ==
  /\ SwapForTest \/ Revert \/ (~pending /\ Confirmed /\ UNCHANGED slots)
  /\ stage' = "settings"
  /\ startupHealthy' = TRUE

Init ==
  /\ primary = FactoryImage
  /\ secondary = NoImage
  /\ pending = FALSE
  /\ trial = FALSE
  /\ imageOk = FALSE
  /\ stage = "settings"
  /\ startupHealthy = TRUE

Next ==
  \/ LoadSettings
  \/ InitializeDiagnostics
  \/ InitializeWatchdog
  \/ SkipConfirmation
  \/ ConfirmBootIfHealthy
  \/ OverallStatus
  \/ AlreadyConfirmed
  \/ WriteImageConfirmed
  \/ \E image \in Image : Update(image)
  \/ Reset

\* A board is reset again some day; main needs no fairness of its own, because a
\* main that stops halfway leaves the image unconfirmed.
Spec == Init /\ [][Next]_vars /\ WF_vars(Reset)

--------------------------------------------------------------------------------
(* Properties *)

TypeOK ==
  /\ primary \in Image
  /\ secondary \in Image \cup {NoImage}
  /\ pending \in BOOLEAN
  /\ trial \in BOOLEAN
  /\ imageOk \in BOOLEAN
  /\ stage \in Stage
  /\ startupHealthy \in BOOLEAN

\* docs/mcuboot.md: a failed settings, diagnostics or watchdog startup path leaves
\* a test image unconfirmed.  An image that fails a check of startup every time is
\* never confirmed, however often it boots and whatever ran before it.
BrokenNeverConfirmed == Broken(primary) => ~Confirmed

\* "... so MCUboot can roll back": while the running image is not confirmed, slot 1
\* holds one that starts, and nothing replaces it.
RollbackImageKept ==
  ~Confirmed => secondary # NoImage /\ ~Broken(secondary) /\ ~pending

\* The image that MCUboot goes back to, which the board started with or a startup
\* found healthy, is replaced by no update, by no reset and by no other image than one
\* that starts: ConfirmBootIfHealthy and what MCUboot does with its flag implement
\* TrustedImage.
Sound == {image \in Image : ~Broken(image)}
Trusted == IF Confirmed THEN primary ELSE secondary
Trust == INSTANCE TrustedImage WITH running <- primary, trusted <- Trusted
KeepsTrustedImage == Trust!Spec

\* "... so MCUboot can roll back": a broken image runs until the next reset and no
\* longer, whatever an updater did meanwhile and wherever that reset comes.
BrokenLeavesAtReset == [][Reset /\ Broken(primary) => ~Broken(primary')]_vars

\* A broken image does not stay: MCUboot puts back the image it replaced.
BrokenImageLeaves == Broken(primary) ~> ~Broken(primary)
================================================================================
