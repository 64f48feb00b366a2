----------------------------- MODULE Startup_proofs ----------------------------
(***************************************************************************)
(* The safety properties of Startup for every set of images and whatever   *)
(* checks each of them fails.                                              *)
(***************************************************************************)
EXTENDS Startup, TLAPS

(* What a startup that is still healthy has shown about the running image.   *)
Passed(checks) == Fails[primary] \cap checks = {}

ChecksPassed ==
  /\ stage = "diagnostics" /\ startupHealthy => Passed({"settings"})
  /\ stage = "watchdog" /\ startupHealthy => Passed({"settings", "diagnostics"})
  /\ stage = "health" /\ startupHealthy => Passed(Check \ {"storage"})
  /\ stage = "storage" => Passed(Check \ {"storage"})
  /\ stage = "confirm" => Passed(Check)

(* An update waits only beside a confirmed image.                            *)
UpdateBesideConfirmed == pending => Confirmed /\ secondary \in Image

IInv ==
  /\ TypeOK
  /\ ChecksPassed
  /\ UpdateBesideConfirmed
  /\ BrokenNeverConfirmed
  /\ RollbackImageKept

LEMMA TypeInit == Init => TypeOK
  BY ImageAssumption DEF Init, TypeOK, Stage

(* A check leaves the slots alone; main is healthy after it only if it was   *)
(* before and the running image does not always fail the check.              *)
LEMMA StartupCheckResult ==
  ASSUME TypeOK, NEW check \in Check, NEW next \in Stage, StartupCheck(check, next)
  PROVE  /\ stage = check /\ stage' = next
         /\ startupHealthy' \in BOOLEAN
         /\ startupHealthy' => startupHealthy /\ check \notin Fails[primary]
         /\ UNCHANGED slots
<1>1. CASE startupHealthy' = FALSE
  BY <1>1 DEF StartupCheck
<1>2. CASE check \notin Fails[primary] /\ UNCHANGED startupHealthy
  BY <1>2, Zenon DEF StartupCheck, TypeOK
<1> QED BY <1>1, <1>2 DEF StartupCheck

LEMMA InvariantStep == ASSUME IInv, [Next]_vars PROVE IInv'
<1> USE DEF Confirmed
<1>a. Fails[primary] \subseteq Check
  BY ImageAssumption DEF IInv, TypeOK
<1>1. CASE LoadSettings
  <2>1. StartupCheck("settings", "diagnostics")
    BY <1>1 DEF LoadSettings
  <2> QED BY <2>1, StartupCheckResult DEF IInv, TypeOK, Check, Stage, slots,
    ChecksPassed, Passed, UpdateBesideConfirmed, BrokenNeverConfirmed, Broken,
    RollbackImageKept
<1>2. CASE InitializeDiagnostics
  <2>1. StartupCheck("diagnostics", "watchdog")
    BY <1>2 DEF InitializeDiagnostics
  <2> QED BY <2>1, StartupCheckResult DEF IInv, TypeOK, Check, Stage, slots,
    ChecksPassed, Passed, UpdateBesideConfirmed, BrokenNeverConfirmed, Broken,
    RollbackImageKept
<1>3. CASE InitializeWatchdog
  <2>1. StartupCheck("watchdog", "health")
    BY <1>3 DEF InitializeWatchdog
  <2> QED BY <2>1, StartupCheckResult DEF IInv, TypeOK, Check, Stage, slots,
    ChecksPassed, Passed, UpdateBesideConfirmed, BrokenNeverConfirmed, Broken,
    RollbackImageKept
<1>4. CASE SkipConfirmation
  BY <1>4 DEF SkipConfirmation, IInv, TypeOK, Stage, slots, ChecksPassed, Passed,
     UpdateBesideConfirmed, BrokenNeverConfirmed, Broken, RollbackImageKept
<1>5. CASE ConfirmBootIfHealthy
  BY <1>5 DEF ConfirmBootIfHealthy, IInv, TypeOK, Stage, slots, ChecksPassed, Passed,
     UpdateBesideConfirmed, BrokenNeverConfirmed, Broken, RollbackImageKept
<1>6. CASE OverallStatus
  BY <1>6, <1>a DEF OverallStatus, IInv, TypeOK, Stage, slots, ChecksPassed, Passed, Check,
     UpdateBesideConfirmed, BrokenNeverConfirmed, Broken, RollbackImageKept
<1>7. CASE AlreadyConfirmed
  BY <1>7 DEF AlreadyConfirmed, IInv, TypeOK, Stage, slots, ChecksPassed, Passed,
     UpdateBesideConfirmed, BrokenNeverConfirmed, Broken, RollbackImageKept
<1>8. CASE WriteImageConfirmed
  <2>1. ~Broken(primary)
    BY <1>8, <1>a DEF WriteImageConfirmed, IInv, ChecksPassed, Passed, Broken
  <2>2. TypeOK' /\ ChecksPassed'
    BY <1>8 DEF WriteImageConfirmed, IInv, TypeOK, Stage, ChecksPassed
  <2>3. UpdateBesideConfirmed'
    BY <1>8 DEF WriteImageConfirmed, IInv, UpdateBesideConfirmed
  <2>4. BrokenNeverConfirmed' /\ RollbackImageKept'
    BY <1>8, <2>1 DEF WriteImageConfirmed, IInv, BrokenNeverConfirmed, Broken,
       RollbackImageKept
  <2> QED BY <2>2, <2>3, <2>4 DEF IInv
<1>9. ASSUME NEW image \in Image, Update(image) PROVE IInv'
  BY <1>9 DEF Update, IInv, TypeOK, Stage, ChecksPassed, Passed,
     UpdateBesideConfirmed, BrokenNeverConfirmed, Broken, RollbackImageKept
<1>10. CASE Reset
  <2>1. ChecksPassed'
    BY <1>10 DEF Reset, ChecksPassed
  <2>2. CASE SwapForTest
    BY <1>10, <2>1, <2>2, ImageAssumption DEF Reset, SwapForTest, IInv, TypeOK, Stage,
       UpdateBesideConfirmed, BrokenNeverConfirmed, Broken, RollbackImageKept
  <2>3. CASE Revert
    BY <1>10, <2>1, <2>3 DEF Reset, Revert, IInv, TypeOK, Stage,
       UpdateBesideConfirmed, BrokenNeverConfirmed, Broken, RollbackImageKept
  <2>4. CASE ~pending /\ Confirmed /\ UNCHANGED slots
    BY <1>10, <2>1, <2>4 DEF Reset, slots, IInv, TypeOK, Stage,
       UpdateBesideConfirmed, BrokenNeverConfirmed, Broken, RollbackImageKept
  <2> QED BY <1>10, <2>2, <2>3, <2>4 DEF Reset
<1>11. CASE UNCHANGED vars
  BY <1>11 DEF vars, slots, IInv, TypeOK, ChecksPassed, Passed,
     UpdateBesideConfirmed, BrokenNeverConfirmed, Broken, RollbackImageKept
<1> QED
  BY <1>1, <1>2, <1>3, <1>4, <1>5, <1>6, <1>7, <1>8, <1>9, <1>10, <1>11 DEF Next

THEOREM Invariance == Spec => []IInv
<1>1. Init => IInv
  BY TypeInit, FactoryAssumption DEF Init, IInv, ChecksPassed, UpdateBesideConfirmed,
     BrokenNeverConfirmed, Broken, Confirmed, RollbackImageKept
<1>2. IInv /\ [Next]_vars => IInv'
  BY InvariantStep
<1> QED BY <1>1, <1>2, PTL DEF Spec

(* The slots always hold images, and slot 0 is never empty. *)
THEOREM TypeCorrect == Spec => []TypeOK
<1>1. IInv => TypeOK
  BY DEF IInv
<1> QED BY Invariance, <1>1, PTL

(* An image that always fails a check of startup is never confirmed.         *)
THEOREM NoBrokenImageConfirmed == Spec => []BrokenNeverConfirmed
<1>1. IInv => BrokenNeverConfirmed
  BY DEF IInv
<1> QED BY Invariance, <1>1, PTL

(* While the running image is not confirmed there is one to go back to.      *)
THEOREM RollbackPossible == Spec => []RollbackImageKept
<1>1. IInv => RollbackImageKept
  BY DEF IInv
<1> QED BY Invariance, <1>1, PTL

(* A broken image is not confirmed and no update waits beside it, so that the *)
(* reset it meets is one of MCUboot's reverts, and what comes back starts: the *)
(* half of BrokenImageLeaves that is safety.                                  *)
THEOREM BrokenRunsOnce == Spec => BrokenLeavesAtReset
<1>1. ASSUME IInv, Reset, Broken(primary) PROVE ~Broken(primary')
  <2>1. ~Confirmed /\ ~pending /\ ~Broken(secondary)
    BY <1>1 DEF IInv, BrokenNeverConfirmed, RollbackImageKept
  <2>2. Revert
    BY <1>1, <2>1 DEF Reset, SwapForTest
  <2> QED BY <2>1, <2>2 DEF Revert, Broken
<1>2. IInv /\ [Next]_vars => [Reset /\ Broken(primary) => ~Broken(primary')]_vars
  BY <1>1
<1> QED BY Invariance, <1>2, PTL DEF Spec, BrokenLeavesAtReset

--------------------------------------------------------------------------------
(* The promise *)

(* Whatever runs, the image that the board trusts is there and starts.       *)
THEOREM TrustedStarts == Spec => [](Trusted \in Sound)
<1>1. IInv => Trusted \in Sound
  BY DEF IInv, TypeOK, Trusted, Sound, BrokenNeverConfirmed, RollbackImageKept
<1> QED BY Invariance, <1>1, PTL

(* Only a reset and the write of image_ok change what TrustedImage sees.      *)
LEMMA TrustStep ==
  ASSUME IInv, [Next]_vars PROVE [Trust!Next]_<<primary, Trusted>>
<1>1. CASE UNCHANGED slots
  BY <1>1 DEF slots, Trusted, Confirmed
<1>2. CASE WriteImageConfirmed
  <2>1. ~Broken(primary) /\ primary \in Image /\ UNCHANGED primary
    BY <1>2, ImageAssumption DEF WriteImageConfirmed, IInv, ChecksPassed, Passed, Broken,
       TypeOK
  <2>2. CASE imageOk' = TRUE
    <3>1. Trusted' = primary
      BY <1>2, <2>1, <2>2 DEF WriteImageConfirmed, Trusted, Confirmed
    <3> QED BY <2>1, <3>1 DEF Trust!Next, Trust!Adopt, Sound
  <2>3. CASE imageOk' = imageOk
    BY <1>2, <2>3 DEF WriteImageConfirmed, Trusted, Confirmed
  <2> QED BY <1>2, <2>2, <2>3 DEF WriteImageConfirmed
<1>3. ASSUME NEW image \in Image, Update(image) PROVE UNCHANGED <<primary, Trusted>>
  BY <1>3 DEF Update, Trusted, Confirmed
<1>4. CASE Reset
  <2>1. CASE SwapForTest
    <3>1. pending /\ Confirmed /\ secondary \in Image
      BY <2>1 DEF SwapForTest, IInv, UpdateBesideConfirmed
    <3>2. Trusted = primary /\ Trusted' = primary /\ primary' = secondary
      BY <2>1, <3>1 DEF SwapForTest, Trusted, Confirmed
    <3> QED BY <3>1, <3>2 DEF Trust!Next, Trust!Try
  <2>2. CASE Revert
    <3>1. Trusted = secondary /\ Trusted' = secondary /\ primary' = secondary
      BY <2>2 DEF Revert, Trusted, Confirmed
    <3> QED BY <3>1 DEF Trust!Next, Trust!GiveUp
  <2>3. CASE UNCHANGED slots
    BY <1>1, <2>3
  <2> QED BY <1>4, <2>1, <2>2, <2>3 DEF Reset
<1>5. CASE UNCHANGED vars
  BY <1>1, <1>5 DEF vars
<1>6. ASSUME NEW check, NEW next, StartupCheck(check, next) PROVE UNCHANGED slots
  BY <1>6 DEF StartupCheck
<1> QED
  BY <1>1, <1>2, <1>3, <1>4, <1>5, <1>6 DEF Next, LoadSettings, InitializeDiagnostics,
     InitializeWatchdog, SkipConfirmation, ConfirmBootIfHealthy, OverallStatus,
     AlreadyConfirmed

(* There is always an image to go back to that starts, and only an image that *)
(* starts takes its place, for all images and whatever checks they fail: the  *)
(* confirmation and MCUboot implement TrustedImage.                           *)
THEOREM TrustRefinement == Spec => KeepsTrustedImage
<1>1. Init => Trust!Init
  BY ImageAssumption, FactoryAssumption DEF Init, Trust!Init, Trusted, Confirmed, Sound, Broken
<1>2. IInv /\ [Next]_vars => [Trust!Next]_<<primary, Trusted>>
  BY TrustStep
<1> QED BY <1>1, <1>2, Invariance, PTL DEF Spec, KeepsTrustedImage, Trust!Spec
================================================================================
