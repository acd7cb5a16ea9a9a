---------------------------- MODULE MCUsbStorage ----------------------------
(***************************************************************************)
(* A small instance of UsbStorage.                                         *)
(***************************************************************************)
EXTENDS UsbStorage

CONSTANTS b1, b2

TwoBlocks == {b1, b2}
Both == BOOLEAN

(* The drive may owe two things to a call's first commands, and one to     *)
(* those a wake-up goes on with.                                           *)
Owed == [t \in 0..MaxTag |-> IF t < 4 THEN 2 ELSE 1]

(* Two calls, or one that begins with a wake-up and may need all its       *)
(* commands; the blocks are alike until the second call.                   *)
OneWakeUpNext ==
  /\ Next
  /\ pc = "idle" /\ pc' # "idle" =>
       /\ tag <= 4
       /\ step' = "startstop" => call'.val = 1 /\ call'.block = b1

OneWakeUpSpec == Init /\ [][OneWakeUpNext]_vars /\ WF_vars(Driver)
=============================================================================
