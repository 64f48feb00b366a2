------------------------------ MODULE TrustedImage -----------------------------
(***************************************************************************)
(* What startup confirmation and MCUboot promise together: there is always *)
(* one image that the board trusts, and it is one that starts.  Another    *)
(* image runs only while it is tried; a trial ends with that image trusted *)
(* in place of the other one, or with the trusted image back.              *)
(***************************************************************************)
CONSTANTS
  Image,   \* the images there are
  Sound    \* those that start

VARIABLES
  running,  \* the image that runs
  trusted   \* the image to go back to

Init == running \in Sound /\ trusted = running

Try ==
  /\ running = trusted
  /\ running' \in Image
  /\ UNCHANGED trusted

Adopt ==
  /\ running \in Sound
  /\ trusted' = running
  /\ UNCHANGED running

GiveUp == running' = trusted /\ UNCHANGED trusted

Next == Try \/ Adopt \/ GiveUp

Spec == Init /\ [][Next]_<<running, trusted>>
================================================================================
