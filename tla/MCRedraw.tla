------------------------------ MODULE MCRedraw ------------------------------
(***************************************************************************)
(* Small instances of TitleOrder, whose lists MCTitleOrder gives, of       *)
(* Redraw and of BootFiles: each behaviour is one of the three, which      *)
(* share nothing, and boots either channels or disc games, which share the *)
(* modules and the boot's own files.                                       *)
(***************************************************************************)
EXTENDS MCTitleOrder, Redraw, BootFiles

VARIABLE part

Sorting == part = "sorting" /\ Insert /\ UNCHANGED <<part, redrawVars, fileVars>>
Drawing(step) == part = "drawing" /\ step /\ UNCHANGED <<part, vars, fileVars>>

Picked ==
  CASE part = "channels" -> {"channel", "reinstall"}
    [] part = "discs" -> {"disc", "discWithSave"}
    [] OTHER -> {}

Booting == FilesNext /\ game' \in Picked /\ UNCHANGED <<part, vars, redrawVars>>

MCInit ==
  /\ part \in {"sorting", "drawing", "channels", "discs"}
  /\ RedrawInit /\ Init /\ FilesInit
  /\ part # "sorting" => games = <<>>
  /\ game = CHOOSE g \in Games : Picked # {} => g \in Picked
  /\ setting = CHOOSE s \in Settings : TRUE

MCNext ==
  \/ Sorting
  \/ Drawing(Main) \/ Drawing(Boot) \/ Drawing(MainGoesOn) \/ Drawing(BootGoesOn)
  \/ Booting

MCSpec == MCInit /\ [][MCNext]_<<part, vars, redrawVars, fileVars>>
=============================================================================
