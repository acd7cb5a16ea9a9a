------------------------------ MODULE Handover ------------------------------
(***************************************************************************)
(* What an installer that takes the System Menu's place may do to a        *)
(* console: it puts a whole copy of the menu aside before it takes the     *)
(* menu out of the place that is booted, it puts a loader or the menu in   *)
(* that place only while the copy is there, and it drops the copy only     *)
(* when the menu itself is back.                                           *)
(***************************************************************************)

VARIABLES
  boots,  \* what the console boots: "menu", "loader" or "nothing"
  saved   \* a whole copy of the System Menu lies beside it

vars == <<boots, saved>>

Init ==
  \/ boots = "menu" /\ saved = FALSE
  \/ boots = "loader" /\ saved = TRUE

Save ==
  /\ boots = "menu"
  /\ saved' = TRUE
  /\ UNCHANGED boots

Vacate ==
  /\ saved
  /\ boots' = "nothing"
  /\ UNCHANGED saved

Fill ==
  /\ boots = "nothing" /\ saved
  /\ boots' \in {"menu", "loader"}
  /\ UNCHANGED saved

Drop ==
  /\ boots = "menu"
  /\ saved' = FALSE
  /\ UNCHANGED boots

(* Nintendo's updater installs another System Menu.                        *)
Renew == boots' = "menu" /\ saved' = FALSE

Next == Save \/ Vacate \/ Fill \/ Drop \/ Renew

Spec == Init /\ [][Next]_vars

=============================================================================
