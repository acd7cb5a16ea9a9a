----------------------------- MODULE Boot_proofs -----------------------------
(***************************************************************************)
(* Proofs about the thread that boots a game.                              *)
(*                                                                         *)
(* Redraw, for logs of any length: the boot thread goes on when its line   *)
(* is drawn, and it and the main thread wait for each other only if VSync  *)
(* came between its signal and its sleep.                                  *)
(*                                                                         *)
(* BootFiles, for any modules, contents, settings and versions, any number *)
(* of boots, saves and power cuts, and files that cannot be opened or      *)
(* written in any of them: what a boot leaves on the drive.                *)
(***************************************************************************)
EXTENDS Redraw, BootFiles, TLAPS

-----------------------------------------------------------------------------
(* Redraw.                                                                 *)

RedrawTypes ==
  /\ mpc \in {"top", "lock", "handle", "draw", "end", "signal"}
  /\ waits \in {"nothing", "device", "redrawQueue"} /\ controlledRedraw \in BOOLEAN
  /\ bpc \in {"none", "work", "force", "wait"}
  /\ sleeps \in {"nothing", "device", "logQueue"}
  /\ lines \in Nat /\ drawn \in Nat /\ raced \in BOOLEAN

(* Who can be asleep where.                                                *)
RedrawPlaces ==
  /\ controlledRedraw = TRUE <=> bpc # "none"
  /\ bpc = "none" => lines = 0
  /\ waits = "redrawQueue" => mpc = "lock" /\ bpc # "none"
  /\ waits = "device" => mpc \in {"handle", "end", "signal"}
  /\ sleeps # "nothing" => bpc = "work"

(* Unless VSync comes in the wrong moment, the main thread does not get    *)
(* from its wait for VSync to its sleep while the boot thread is between   *)
(* its signal and its sleep.                                               *)
SignalInv ==
  /\ mpc = "top" => sleeps # "logQueue"
  /\ bpc = "wait" /\ (mpc = "top" \/ waits = "redrawQueue" \/ (mpc = "signal" /\ waits = "nothing"))
       => raced
  /\ NoSignalLost

(* A boot thread that works finds the main thread asleep in the            *)
(* redrawQueue, or about to be, once its first line is drawn; so every     *)
(* other line wakes it, and is drawn before the boot thread is woken.      *)
Asleep == mpc = "top" \/ waits = "redrawQueue"

LineInv ==
  /\ bpc = "work" /\ sleeps # "logQueue" /\ lines > 0 => Asleep
  /\ bpc = "force" /\ lines > 1 => waits = "redrawQueue" \/ mpc = "top"
  /\ (bpc = "wait" \/ sleeps = "logQueue") /\ lines > 1
       /\ (mpc \in {"end", "signal", "top"} \/ waits = "redrawQueue") => drawn = lines
  /\ LinesShown

RedrawInv == RedrawTypes /\ RedrawPlaces /\ SignalInv /\ LineInv

LEMMA RedrawStarts == RedrawInit => RedrawInv
<1> SUFFICES ASSUME RedrawInit PROVE RedrawInv
  OBVIOUS
<1>1. RedrawTypes /\ RedrawPlaces
  BY DEF RedrawInit, RedrawTypes, RedrawPlaces
<1>2. SignalInv /\ LineInv
  BY DEF RedrawInit, SignalInv, LineInv, NoSignalLost, LinesShown, Asleep
<1>3. QED
  BY <1>1, <1>2 DEF RedrawInv

LEMMA RedrawKeeps == RedrawInv /\ [RedrawNext]_redrawVars => RedrawInv'
<1> SUFFICES ASSUME RedrawInv, [RedrawNext]_redrawVars PROVE RedrawInv'
  OBVIOUS
<1> USE DEF RedrawInv, RedrawTypes, RedrawPlaces, SignalInv, LineInv, NoSignalLost, LinesShown, Asleep,
            MainRuns, BootRuns, mainVars, bootVars
<1>1. CASE MainTop
  BY <1>1 DEF MainTop
<1>2. CASE MainLock
  BY <1>2 DEF MainLock
<1>3. CASE MainHandle
  BY <1>3 DEF MainHandle
<1>4. CASE BootHiidra
  BY <1>4 DEF BootHiidra
<1>5. CASE MainDraw
  BY <1>5 DEF MainDraw
<1>6. CASE MainEnd
  BY <1>6 DEF MainEnd
<1>7. CASE MainSignal
  BY <1>7 DEF MainSignal
<1>8. CASE BootReads
  BY <1>8 DEF BootReads
<1>9. CASE AddLogLine
  BY <1>9 DEF AddLogLine
<1>10. CASE ForceRedraw
  BY <1>10 DEF ForceRedraw
<1>11. CASE WaitForRedraw
  BY <1>11 DEF WaitForRedraw
<1>12. CASE MainGoesOn
  BY <1>12 DEF MainGoesOn
<1>13. CASE BootGoesOn
  BY <1>13 DEF BootGoesOn
<1>14. CASE UNCHANGED redrawVars
  BY <1>14 DEF redrawVars
<1>15. QED
  BY <1>1, <1>2, <1>3, <1>4, <1>5, <1>6, <1>7, <1>8, <1>9, <1>10, <1>11, <1>12, <1>13, <1>14
  DEF RedrawNext, Main, Boot

LEMMA RedrawInvariant == RedrawSpec => []RedrawInv
BY RedrawStarts, RedrawKeeps, PTL DEF RedrawSpec

(* Every line of the log but the first is on the screen before the boot    *)
(* thread goes on (LinesShown), for logs of any length.                    *)
THEOREM LinesAreShown == RedrawSpec => []LinesShown
<1>1. RedrawInv => LinesShown
  BY DEF RedrawInv, LineInv
<1>2. QED
  BY RedrawInvariant, <1>1, PTL

(* The main thread and the boot thread never wait for each other, unless   *)
(* VSync came between the boot thread's signal and its sleep               *)
(* (NoSignalLost), for logs of any length.                                 *)
THEOREM SignalsArrive == RedrawSpec => []NoSignalLost
<1>1. RedrawInv => NoSignalLost
  BY DEF RedrawInv, SignalInv
<1>2. QED
  BY RedrawInvariant, <1>1, PTL

-----------------------------------------------------------------------------
(* BootFiles.                                                              *)

LEMMA Bounds == MaxWads \in Nat \ {0} /\ MaxSaves \in Nat
BY BootFilesAssumption

(* The names of files come up in every step.                               *)
USE DEF Rewritten, Title, Save, Files, NoFile

(* No two files have the same name.                                        *)
LEMMA Names ==
  /\ Modules # {} /\ Apps # {}
  /\ \A m \in Modules \cup Apps :
       m \notin {"SYSCONF", "modules.txt", "boot.cfg", "ticket", "tmd", "title", "saveTmd",
                "save", "no file"}
  /\ \A m \in Modules : m \notin Apps
BY BootFilesAssumption

Content == {Missing, Part, Junk} \cup {Whole(v) : v \in Settings \cup Nat}

TypeInv ==
  /\ drive \in [Files -> Content] /\ drive["save"].of \in Nat
  /\ at \in Places /\ game \in Games /\ setting \in Settings
  /\ wad \in 1..MaxWads /\ nand \in Nat

(* The file that is open is one whose turn it is, and cut short so far.    *)
PlaceInv ==
  /\ file # NoFile => file \in Turn /\ drive[file] = Part
  /\ at = "modules.txt" /\ file = NoFile => drive["modules.txt"] = Missing
  /\ at = "ticket" => todo = Apps
  /\ at = "apps" => todo \subseteq Apps
  /\ at = "copy" => todo \subseteq Save
  /\ at = "modules" => todo \subseteq Modules

(* What is written at every boot is written in this order.                 *)
RewrittenInv ==
  /\ at \notin {"off", "SYSCONF", "stuck"} /\ "SYSCONF" \notin slip =>
       drive["SYSCONF"] = Whole(setting)
  /\ at \notin {"off", "SYSCONF", "remove", "modules.txt", "stuck"} /\ "modules.txt" \notin slip =>
       drive["modules.txt"] = Whole(setting)
  /\ at \in {"modules", "launch", "runs"} /\ "boot.cfg" \notin slip =>
       drive["boot.cfg"] = Whole(setting)

(* A module that is not damaged is not there, whole, or being written.     *)
ModulesInv ==
  /\ \A m \in Modules \ torn : drive[m] \in {Missing, Whole(0)} \/ file = m
  /\ at = "modules" => \A m \in Modules \ (todo \cup slip) : drive[m] # Missing
  /\ at \in {"launch", "runs"} => \A m \in Modules \ slip : drive[m] # Missing

(* The metadata are there only with a whole title, unless they are those   *)
(* of a title that is being written over.                                  *)
Started == {"boot.cfg", "modules", "launch", "runs"}
Channels == {"channel", "reinstall"}
TitleIs(v) == \A f \in Title : drive[f] = Whole(v)

TitleInv ==
  /\ over => at \in {"ticket", "apps", "tmd", "stuck"}
  /\ at \in {"ticket", "apps"} /\ ~over => drive["tmd"] = Missing
  /\ at = "tmd" /\ ~over /\ file = NoFile => drive["tmd"] = Missing
  /\ at \in {"look", "ticket", "apps", "tmd"} => game \in Channels
  /\ at \in Started /\ game \in Channels => drive["tmd"] # Missing
  /\ "title" \notin torn =>
       /\ ~over /\ drive["tmd"] # Missing /\ file # "tmd" => \E v \in 1..MaxWads : TitleIs(v)
       /\ at \in {"apps", "tmd"} => drive["ticket"] = Whole(wad)
       /\ at = "apps" => \A a \in Apps \ todo : drive[a] = Whole(wad)
       /\ at = "tmd" => \A a \in Apps : drive[a] = Whole(wad)
       /\ at \in Started /\ game = "reinstall" => TitleIs(wad)

(* The save's metadata are there only with the save, unless a copy was cut *)
(* off between them or passed over the save; and a save the game has made  *)
(* is never copied over.                                                   *)
SaveInv ==
  /\ at \in {"lookSave", "copy"} => game = "discWithSave"
  /\ at = "copy" => nand # 0 /\ ~played
  /\ played => drive["saveTmd"] # Missing
  /\ drive["save"].is \notin {"missing", "whole"} => nand # 0
  /\ at \in Started /\ game = "discWithSave" /\ "save" \notin slip \cup torn =>
       drive["save"].is \in {"missing", "whole"}
  /\ "save" \notin torn =>
       /\ at = "copy" /\ "save" \notin todo => drive["save"].is = "whole"
       /\ at # "copy" /\ drive["saveTmd"] # Missing =>
            /\ drive["save"] = Missing \/ drive["save"].is = "whole"
            /\ drive["saveTmd"] = Whole(0) => drive["save"] # Missing

IInv == TypeInv /\ PlaceInv /\ RewrittenInv /\ ModulesInv /\ TitleInv /\ SaveInv

-----------------------------------------------------------------------------
(* The cases of Turn, Follows and Meant.                                   *)

LEMMA Turns ==
  /\ at \in Rewritten \cup {"ticket", "tmd"} => Turn = {at}
  /\ at \in {"apps", "copy", "modules"} => Turn = todo
  /\ at \notin Rewritten \cup {"ticket", "tmd", "apps", "copy", "modules"} => Turn = {}
BY DEF Turn

LEMMA TurnCases ==
  ASSUME PlaceInv, NEW f \in Turn
  PROVE  \/ at \in Rewritten \cup {"ticket", "tmd"} /\ f = at
         \/ at = "apps" /\ f \in Apps /\ f \in todo
         \/ at = "copy" /\ f \in Save /\ f \in todo
         \/ at = "modules" /\ f \in Modules /\ f \in todo
<1>1. at \in Rewritten \cup {"ticket", "tmd"} => f = at
  BY Turns
<1>2. at \in {"apps", "copy", "modules"} => f \in todo
  BY Turns
<1> QED
  BY <1>1, <1>2, Turns DEF PlaceInv

(* Where the boot goes past a file.                                        *)
LEMMA PastCases ==
  ASSUME TypeInv, PlaceInv, NEW f \in Turn, Past(f)
  PROVE  /\ at = "SYSCONF" => f = "SYSCONF" /\ at' = "remove"
         /\ at = "modules.txt" =>
              /\ f = "modules.txt"
              /\ game \in Channels => at' = "look"
              /\ game = "discWithSave" => at' = "lookSave"
              /\ game = "disc" => at' = "boot.cfg"
         /\ at = "ticket" => f = "ticket" /\ at' = "apps" /\ todo' = Apps
         /\ at = "apps" =>
              /\ f \in Apps /\ todo' = todo \ {f}
              /\ IF todo' = {} THEN at' = "tmd" ELSE at' = "apps"
         /\ at = "tmd" => f = "tmd" /\ at' = "boot.cfg"
         /\ at = "copy" =>
              /\ f \in Save /\ todo' = todo \ {f}
              /\ IF todo' = {} THEN at' = "boot.cfg" ELSE at' = "copy"
         /\ at = "boot.cfg" => f = "boot.cfg" /\ at' = "modules" /\ todo' = Modules
         /\ at = "modules" =>
              /\ f \in Modules /\ todo' = todo \ {f}
              /\ IF todo' = {} THEN at' = "launch" ELSE at' = "modules"
         /\ at \in {"SYSCONF", "modules.txt", "ticket", "apps", "tmd", "copy", "boot.cfg", "modules"}
<1>1. at \in {"SYSCONF", "modules.txt", "ticket", "apps", "tmd", "copy", "boot.cfg", "modules"}
  BY Turns, Names DEF PlaceInv
<1>2. CASE at = "SYSCONF"
  BY <1>2, Turns DEF Past, Follows
<1>3. CASE at = "modules.txt"
  BY <1>3, Turns DEF Past, Follows, Prepared, Channels, TypeInv, Games
<1>4. CASE at = "ticket"
  BY <1>4, Turns, Names DEF Past, Follows, PlaceInv
<1>5. CASE at = "apps"
  BY <1>5, Turns DEF Past, Follows, AfterAll, PlaceInv
<1>6. CASE at = "tmd"
  BY <1>6, Turns DEF Past, Follows
<1>7. CASE at = "copy"
  BY <1>7, Turns DEF Past, Follows, AfterAll, PlaceInv
<1>8. CASE at = "boot.cfg"
  BY <1>8, Turns DEF Past, Follows
<1>9. CASE at = "modules"
  BY <1>9, Turns DEF Past, Follows, AfterAll, PlaceInv
<1> QED
  BY <1>1, <1>2, <1>3, <1>4, <1>5, <1>6, <1>7, <1>8, <1>9

LEMMA Means ==
  /\ \A f \in Rewritten : Meant(f) = setting
  /\ \A f \in Title : Meant(f) = wad
  /\ Meant("save") = nand
  /\ \A f \in Modules \cup {"saveTmd"} : Meant(f) = 0
BY Names DEF Meant

LEMMA Contents ==
  /\ \A v : Missing # Part /\ Missing # Whole(v) /\ Part # Whole(v)
  /\ \A v : Whole(v).is = "whole" /\ Whole(v).of = v
  /\ Missing.is = "missing" /\ Part.is = "part"
  /\ Missing.of = 0 /\ Part.of = 0
  /\ \A c \in Content : c.is = "missing" => c = Missing
  /\ Missing \in Content
BY DEF Missing, Part, Junk, Whole, Content

LEMMA MeansContent == ASSUME TypeInv, NEW f \in Files PROVE Whole(Meant(f)) \in Content
<1>1. wad \in Nat
  BY Bounds DEF TypeInv
<1>2. Meant(f) \in Settings \cup Nat
  BY <1>1, Means DEF TypeInv
<1> QED
  BY <1>2 DEF Content

(* The drive after a step: one file has changed, if any.                   *)
LEMMA OpenDrive ==
  ASSUME TypeInv, PlaceInv, NEW f \in Files, Open(f)
  PROVE  /\ f \in Turn /\ file = NoFile /\ file' = f
         /\ drive' \in [Files -> Content] /\ drive'[f] = Part
         /\ \A g \in Files \ {f} : drive'[g] = drive[g]
<1>1. f = "modules.txt" => drive[f] = Missing
  BY Turns, Names DEF Open, PlaceInv
<1> QED
  BY <1>1, Names DEF Open, TypeInv, Content

LEMMA CloseDrive ==
  ASSUME TypeInv, PlaceInv, Close
  PROVE  /\ file \in Files /\ file \in Turn /\ drive[file] = Part
         /\ drive' \in [Files -> Content] /\ drive'[file] = Whole(Meant(file))
         /\ \A g \in Files \ {file} : drive'[g] = drive[g]
<1>1. file \in Turn /\ drive[file] = Part
  BY DEF Close, PlaceInv
<1>2. file \in Files
  BY <1>1, Turns, Names DEF PlaceInv
<1> QED
  BY <1>1, <1>2, MeansContent DEF Close, TypeInv

-----------------------------------------------------------------------------
(* The invariant holds.                                                    *)

LEMMA TypeStep == ASSUME TypeInv, PlaceInv, FilesNext PROVE TypeInv'
<1> USE DEF TypeInv, Places, Games, choice, outside
<1>1. CASE Pick
  BY <1>1 DEF Pick
<1>2. ASSUME NEW f \in Files, Open(f) PROVE TypeInv'
  <2>1. drive'["save"].of \in Nat
    <3>1. CASE f = "save"
      <4>1. drive'["save"] = Part
        BY <1>2, <3>1, OpenDrive
      <4>2. Part.of \in Nat
        BY DEF Part
      <4> QED
        BY <4>1, <4>2
    <3>2. CASE f # "save"
      BY <1>2, <3>2, OpenDrive
    <3> QED
      BY <3>1, <3>2
  <2> QED
    BY <1>2, <2>1, OpenDrive DEF Open
<1>3. ASSUME NEW f \in Files, SkipModule(f) PROVE TypeInv'
  BY <1>3, PastCases, Turns DEF SkipModule
<1>4. ASSUME NEW f \in Files, CannotOpen(f) PROVE TypeInv'
  BY <1>4, PastCases, Names DEF CannotOpen, Channels
<1>5. CASE Remove
  <2>1. Missing \in Content
    BY DEF Content
  <2> QED
    BY <1>5, <2>1 DEF Remove
<1>6. CASE Close
  <2>1. drive'["save"].of \in Nat
    BY <1>6, CloseDrive, Means, Contents
  <2>2. at' \in Places
    BY <1>6, CloseDrive, PastCases DEF Close, Channels
  <2> QED
    BY <1>6, <2>1, <2>2, CloseDrive DEF Close
<1>7. CASE CloseShort
  <2>1. at' \in Places
    BY <1>7, PastCases DEF CloseShort, PlaceInv, Channels
  <2> QED
    BY <1>7, <2>1 DEF CloseShort
<1>8. CASE Look
  BY <1>8 DEF Look
<1>9. CASE LookSave
  BY <1>9 DEF LookSave, CopySave, NoCopy, CannotLook
<1>10. CASE NoModules \/ Launch
  BY <1>10 DEF NoModules, Launch
<1>11. CASE SaveOnDrive
  <2>1. Whole(drive["save"].of + 1) \in Content /\ Whole(1) \in Content
    BY DEF Content
  <2>2. drive' \in [Files -> Content]
    BY <1>11, <2>1, Contents DEF SaveOnDrive
  <2>3. drive'["save"].of \in Nat
    BY <1>11, Contents DEF SaveOnDrive
  <2> QED
    BY <1>11, <2>2, <2>3 DEF SaveOnDrive
<1>12. CASE SaveInNand
  <2>1. nand' \in Nat
    BY <1>12 DEF SaveInNand
  <2> QED
    BY <1>12, <2>1 DEF SaveInNand
<1>13. CASE PowerCut
  BY <1>13 DEF PowerCut
<1>14. CASE NewWad
  <2>1. wad' \in 1..MaxWads
    BY <1>14, Bounds DEF NewWad
  <2> QED
    BY <1>14, <2>1 DEF NewWad
<1>15. ASSUME NEW f \in Files, SkipSave(f) PROVE TypeInv'
  BY <1>15, PastCases, Turns DEF SkipSave
<1> QED
  BY <1>1, <1>2, <1>3, <1>4, <1>5, <1>6, <1>7, <1>8, <1>9, <1>10, <1>11, <1>12, <1>13, <1>14,
     <1>15
  DEF FilesNext, Write

LEMMA PlaceStep == ASSUME TypeInv, PlaceInv, FilesNext PROVE PlaceInv'
<1> USE DEF PlaceInv, choice, outside
<1>1. CASE Pick
  BY <1>1, Turns DEF Pick
<1>2. ASSUME NEW f \in Files, Open(f) PROVE PlaceInv'
  <2>1. Turn' = Turn
    BY <1>2 DEF Open, Turn
  <2> QED
    BY <1>2, <2>1, OpenDrive DEF Open
<1>3. ASSUME NEW f \in Files, SkipModule(f) PROVE PlaceInv'
  BY <1>3, PastCases, Turns DEF SkipModule
<1>4. ASSUME NEW f \in Files, CannotOpen(f) PROVE PlaceInv'
  BY <1>4, PastCases, Names DEF CannotOpen, Channels, TypeInv, Games
<1>5. CASE Remove
  BY <1>5, Turns DEF Remove, TypeInv
<1>6. CASE Close
  BY <1>6, CloseDrive, PastCases DEF Close, Channels, TypeInv, Games
<1>7. CASE CloseShort
  BY <1>7, PastCases DEF CloseShort, Channels, TypeInv, Games
<1>8. CASE Look
  BY <1>8, Turns DEF Look
<1>9. CASE LookSave
  BY <1>9, Turns DEF LookSave, CopySave, NoCopy, CannotLook
<1>10. CASE NoModules \/ Launch
  BY <1>10, Turns DEF NoModules, Launch
<1>11. CASE SaveOnDrive \/ SaveInNand \/ NewWad
  BY <1>11, Turns DEF SaveOnDrive, SaveInNand, NewWad
<1>12. CASE PowerCut
  BY <1>12 DEF PowerCut
<1>13. ASSUME NEW f \in Files, SkipSave(f) PROVE PlaceInv'
  BY <1>13, PastCases, Turns DEF SkipSave
<1> QED
  BY <1>1, <1>2, <1>3, <1>4, <1>5, <1>6, <1>7, <1>8, <1>9, <1>10, <1>11, <1>12, <1>13
  DEF FilesNext, Write

LEMMA RewrittenStep ==
  ASSUME TypeInv, PlaceInv, RewrittenInv, FilesNext
  PROVE  RewrittenInv'
<1> USE DEF RewrittenInv, choice, outside
<1>1. CASE Pick
  BY <1>1 DEF Pick
<1>2. ASSUME NEW f \in Files, Open(f) PROVE RewrittenInv'
  BY <1>2, OpenDrive, Turns, Names DEF Open, PlaceInv
<1>3. ASSUME NEW f \in Files, SkipModule(f) PROVE RewrittenInv'
  BY <1>3, PastCases, Turns DEF SkipModule
<1>4. ASSUME NEW f \in Files, CannotOpen(f) PROVE RewrittenInv'
  BY <1>4, PastCases, Turns, Names DEF CannotOpen, PlaceInv
<1>5. CASE Remove
  BY <1>5 DEF Remove, TypeInv
<1>6. CASE Close
  BY <1>6, CloseDrive, PastCases, Means, Names DEF Close, Channels, TypeInv, Games
<1>7. CASE CloseShort
  BY <1>7, PastCases, Turns, Names DEF CloseShort, PlaceInv, Channels, TypeInv, Games
<1>8. CASE Look \/ LookSave \/ NoModules \/ Launch
  BY <1>8, Names DEF Look, LookSave, CopySave, NoCopy, CannotLook, NoModules, Launch
<1>9. CASE SaveOnDrive
  BY <1>9 DEF SaveOnDrive, TypeInv
<1>10. CASE SaveInNand \/ NewWad \/ PowerCut
  BY <1>10 DEF SaveInNand, NewWad, PowerCut
<1>11. ASSUME NEW f \in Files, SkipSave(f) PROVE RewrittenInv'
  BY <1>11, PastCases, Turns DEF SkipSave
<1> QED
  BY <1>1, <1>2, <1>3, <1>4, <1>5, <1>6, <1>7, <1>8, <1>9, <1>10, <1>11 DEF FilesNext, Write

(* The modules that are still to be seen.                                  *)
LEMMA PastModules ==
  ASSUME TypeInv, PlaceInv, NEW f \in Turn, Past(f)
  PROVE  /\ at = "modules" =>
              /\ f \in Modules /\ todo' = todo \ {f}
              /\ at' \in {"modules", "launch"}
              /\ at' = "launch" => todo' = {}
         /\ at' = "launch" => at = "modules"
         /\ at' = "modules" /\ at # "modules" => todo' = Modules
         /\ at' # "runs"
BY PastCases DEF Channels, TypeInv, Games

LEMMA ModulesStep ==
  ASSUME TypeInv, PlaceInv, ModulesInv, FilesNext
  PROVE  ModulesInv'
<1> USE DEF ModulesInv, choice, outside
<1>1. CASE Pick
  BY <1>1 DEF Pick
<1>2. ASSUME NEW f \in Files, Open(f) PROVE ModulesInv'
  BY <1>2, OpenDrive, Turns, Names, Contents DEF Open, PlaceInv
<1>3. ASSUME NEW f \in Files, SkipModule(f) PROVE ModulesInv'
  <2>1. /\ f \in Modules /\ at = "modules" /\ todo' = todo \ {f}
        /\ IF todo' = {} THEN at' = "launch" ELSE at' = "modules"
    BY <1>3, PastCases, Turns DEF SkipModule, PlaceInv
  <2>2. UNCHANGED <<drive, file, torn, slip>> /\ drive[f] # Missing
    BY <1>3 DEF SkipModule
  <2> QED
    BY <2>1, <2>2
<1>4. ASSUME NEW f \in Files, CannotOpen(f) PROVE ModulesInv'
  <2>1. /\ UNCHANGED <<drive, file, torn>> /\ slip' = slip \cup {f}
        /\ \/ at' = "stuck"
           \/ f \in Turn /\ Past(f)
    BY <1>4 DEF CannotOpen
  <2> QED
    BY <2>1, PastModules
<1>5. CASE Remove
  BY <1>5, Names DEF Remove, TypeInv
<1>6. CASE Close
  <2>1. /\ file \in Files /\ file' = NoFile /\ UNCHANGED <<torn, slip>>
        /\ drive'[file] = Whole(Meant(file))
        /\ \A g \in Files \ {file} : drive'[g] = drive[g]
    BY <1>6, CloseDrive DEF Close
  <2>2. \A m \in Modules : drive'[m] = IF m = file THEN Whole(0) ELSE drive[m]
    BY <2>1, Means
  <2>3. \A m \in Modules \ torn : drive'[m] \in {Missing, Whole(0)}
    BY <2>2
  <2>4. file \in Turn /\ Past(file) /\ Missing # Whole(0)
    BY <1>6, CloseDrive, Contents DEF Close
  <2>5. CASE at = "modules"
    <3>1. ASSUME NEW m \in Modules \ (todo' \cup slip) PROVE drive'[m] # Missing
      <4>1. m # file => m \notin todo
        BY <2>4, <2>5, <3>1, PastModules
      <4> QED
        BY <2>2, <2>4, <2>5, <3>1, <4>1
    <3>2. at' = "launch" => todo' = {}
      BY <2>4, <2>5, PastModules
    <3>3. at' \in {"modules", "launch"}
      BY <2>4, <2>5, PastModules
    <3> QED
      BY <2>1, <2>3, <3>1, <3>2, <3>3
  <2>6. CASE at # "modules"
    BY <2>1, <2>3, <2>4, <2>6, PastModules
  <2> QED
    BY <2>5, <2>6
<1>7. CASE CloseShort
  <2>1. /\ file \in Turn /\ Past(file) /\ drive[file] = Part /\ file' = NoFile
        /\ UNCHANGED drive /\ slip \subseteq slip'
        /\ torn \subseteq torn' /\ (file \in Modules => file \in torn')
    BY <1>7, Names DEF CloseShort, PartOf, PlaceInv
  <2>2. CASE at = "modules"
    <3>1. ASSUME NEW m \in Modules \ (todo' \cup slip) PROVE drive[m] # Missing
      <4>1. m # file => m \notin todo
        BY <2>1, <2>2, <3>1, PastModules
      <4> QED
        BY <2>1, <2>2, <3>1, <4>1, Contents
    <3>2. at' \in {"modules", "launch"} /\ (at' = "launch" => todo' = {})
      BY <2>1, <2>2, PastModules
    <3> QED
      BY <2>1, <3>1, <3>2
  <2>3. CASE at # "modules"
    BY <2>1, <2>3, PastModules
  <2> QED
    BY <2>2, <2>3
<1>8. CASE Look
  BY <1>8, Names DEF Look
<1>9. CASE LookSave \/ NoModules \/ Launch
  BY <1>9, Names DEF LookSave, CopySave, NoCopy, CannotLook, NoModules, Launch
<1>10. CASE SaveOnDrive
  BY <1>10, Names DEF SaveOnDrive, TypeInv
<1>11. CASE PowerCut
  BY <1>11, Names DEF PowerCut, PartOf
<1>12. CASE SaveInNand \/ NewWad
  BY <1>12 DEF SaveInNand, NewWad
<1>13. ASSUME NEW f \in Files, SkipSave(f) PROVE ModulesInv'
  <2>1. /\ UNCHANGED <<drive, file, slip>> /\ torn \subseteq torn'
        /\ f \in Turn /\ Past(f) /\ at = "copy"
    BY <1>13, Turns DEF SkipSave
  <2> QED
    BY <2>1, PastModules
<1> QED
  BY <1>1, <1>2, <1>3, <1>4, <1>5, <1>6, <1>7, <1>8, <1>9, <1>10, <1>11, <1>12, <1>13
  DEF FilesNext, Write

(* A step that leaves the drive alone leaves the title alone.              *)
LEMMA TitleFrame ==
  (\A g \in Title : drive'[g] = drive[g]) => \A v : TitleIs(v)' <=> TitleIs(v)
<1> SUFFICES ASSUME \A g \in Title : drive'[g] = drive[g], NEW v
             PROVE  TitleIs(v)' <=> TitleIs(v)
  OBVIOUS
<1> QED
  BY Zenon DEF TitleIs

LEMMA TitleStep ==
  ASSUME TypeInv, PlaceInv, TitleInv, SaveInv, FilesNext
  PROVE  TitleInv'
<1> USE DEF TitleInv, Started, Channels, choice, outside
<1>1. CASE Pick
  BY <1>1, TitleFrame DEF Pick
<1>2. ASSUME NEW f \in Files, Open(f) PROVE TitleInv'
  <2>1. /\ f \in Turn /\ file = NoFile /\ file' = f
        /\ drive'[f] = Part /\ \A g \in Files \ {f} : drive'[g] = drive[g]
        /\ UNCHANGED <<at, todo, choice, outside, over, torn>>
    BY <1>2, OpenDrive DEF Open
  <2>2. CASE f \in Title
    <3>1. \/ f = "ticket" /\ at = "ticket"
          \/ f \in Apps /\ f \in todo /\ at = "apps"
          \/ f = "tmd" /\ at = "tmd"
      BY <2>1, <2>2, TurnCases, Names
    <3> QED
      BY <2>1, <3>1, Names
  <2>3. CASE f \notin Title
    <3>1. \A g \in Title : drive'[g] = drive[g]
      BY <2>1, <2>3
    <3>2. \A v : TitleIs(v)' <=> TitleIs(v)
      BY <3>1, TitleFrame
    <3>3. at # "ticket" /\ at # "apps" /\ at # "tmd"
      BY <2>1, <2>3, Turns DEF PlaceInv
    <3> QED
      BY <2>1, <3>1, <3>2, <3>3
  <2> QED
    BY <2>2, <2>3
<1>3. ASSUME NEW f \in Files, SkipModule(f) PROVE TitleInv'
  <2>1. at = "modules" /\ at' \in {"modules", "launch"}
    BY <1>3, PastCases, Turns DEF SkipModule, PlaceInv
  <2> QED
    BY <1>3, <2>1, TitleFrame DEF SkipModule
<1>4. ASSUME NEW f \in Files, CannotOpen(f) PROVE TitleInv'
  <2>1. UNCHANGED <<drive, file, choice, outside, over, torn>> /\ file = NoFile
    BY <1>4 DEF CannotOpen
  <2>2. CASE f \in Title
    <3>1. at \in {"ticket", "apps", "tmd"} /\ at' = "stuck"
      BY <1>4, <2>2, Turns, Names DEF CannotOpen, PlaceInv
    <3> QED
      BY <2>1, <3>1, TitleFrame
  <2>3. CASE f \notin Title
    <3>1. Past(f) /\ f \in Turn /\ f \notin Save \cup {"modules.txt"}
      BY <1>4, <2>3 DEF CannotOpen
    <3>2. \/ at = "SYSCONF" /\ at' = "remove"
          \/ at \in {"boot.cfg", "modules"} /\ at' \in {"modules", "launch"}
      BY <2>3, <3>1, PastCases, Turns, Names DEF PlaceInv
    <3> QED
      BY <2>1, <3>2, TitleFrame
  <2> QED
    BY <2>2, <2>3
<1>5. CASE Remove
  <2>1. \A g \in Title : drive'[g] = drive[g]
    BY <1>5, Names DEF Remove, TypeInv
  <2>2. \A v : TitleIs(v)' <=> TitleIs(v)
    BY <2>1, TitleFrame
  <2> QED
    BY <1>5, <2>1, <2>2 DEF Remove
<1>6. CASE Close
  <2>1. /\ file \in Turn /\ file \in Files /\ file' = NoFile /\ drive[file] = Part /\ Past(file)
        /\ drive'[file] = Whole(Meant(file))
        /\ \A g \in Files \ {file} : drive'[g] = drive[g]
        /\ over' = (over /\ file # "tmd") /\ UNCHANGED <<choice, outside, torn>>
    BY <1>6, CloseDrive DEF Close
  <2>2. CASE file \notin Title
    <3>1. \A g \in Title : drive'[g] = drive[g]
      BY <2>1, <2>2
    <3>2. \A v : TitleIs(v)' <=> TitleIs(v)
      BY <3>1, TitleFrame
    <3>3. at # "ticket" /\ at # "apps" /\ at # "tmd" /\ file # "tmd"
      BY <2>1, <2>2, Turns DEF PlaceInv
    <3>4. ~over
      BY <2>1, <3>3, Turns DEF PlaceInv
    <3>5. \/ at' \in {"remove", "lookSave"}
          \/ at' = "look" /\ game \in Channels
          \/ at' = "boot.cfg" /\ game = "disc"
          \/ at = "copy" /\ at' \in {"copy", "boot.cfg"} /\ game = "discWithSave"
          \/ at \in Started /\ at' \in Started
      BY <2>1, <3>3, PastCases DEF Games, TypeInv, SaveInv
    <3> QED
      BY <2>1, <3>1, <3>2, <3>3, <3>4, <3>5
  <2>3. CASE file \in Title
    <3>1. Meant(file) = wad /\ drive'[file] = Whole(wad) /\ Whole(wad) # Missing
      BY <2>1, <2>3, Means, Contents
    <3>2. CASE at = "ticket"
      BY <2>1, <3>1, <3>2, PastCases, Names
    <3>3. CASE at = "apps"
      BY <2>1, <3>1, <3>3, PastCases, Names
    <3>4. CASE at = "tmd"
      <4>1. file = "tmd" /\ at' = "boot.cfg" /\ game \in Channels /\ ~over'
        BY <2>1, <3>4, PastCases
      <4>2. "title" \notin torn => TitleIs(wad)'
        BY <2>1, <3>1, <3>4, <4>1, Names DEF TitleIs
      <4>3. wad' \in 1..MaxWads /\ wad' = wad
        BY <2>1 DEF TypeInv
      <4> QED
        BY <2>1, <3>1, <4>1, <4>2, <4>3
    <3> QED
      BY <2>1, <2>3, <3>2, <3>3, <3>4, Turns, Names DEF PlaceInv
  <2> QED
    BY <2>2, <2>3
<1>7. CASE CloseShort
  <2>1. /\ file \in Turn /\ file' = NoFile /\ drive[file] = Part /\ Past(file)
        /\ torn' = torn \cup ({PartOf(file)} \ Rewritten)
        /\ over' = (over /\ file # "tmd") /\ UNCHANGED <<drive, choice, outside>>
    BY <1>7 DEF CloseShort, PlaceInv
  <2>2. CASE file \in Title
    <3>1. "title" \in torn'
      BY <2>1, <2>2, Names DEF PartOf
    <3>2. \/ at = "ticket" /\ file = "ticket" /\ at' = "apps"
          \/ at = "apps" /\ file \in Apps /\ at' \in {"apps", "tmd"}
          \/ at = "tmd" /\ file = "tmd" /\ at' = "boot.cfg"
      BY <2>1, <2>2, PastCases, Turns, Names DEF PlaceInv
    <3> QED
      BY <2>1, <3>1, <3>2, Names, Contents
  <2>3. CASE file \notin Title
    <3>1. at # "ticket" /\ at # "apps" /\ at # "tmd" /\ file # "tmd"
      BY <2>1, <2>3, Turns DEF PlaceInv
    <3>2. ~over /\ torn \subseteq torn'
      BY <2>1, <3>1, Turns DEF PlaceInv
    <3>3. \/ at' \in {"remove", "lookSave"}
          \/ at' = "look" /\ game \in Channels
          \/ at' = "boot.cfg" /\ game = "disc"
          \/ at = "copy" /\ at' \in {"copy", "boot.cfg"} /\ game = "discWithSave"
          \/ at \in Started /\ at' \in Started
      BY <2>1, <3>1, PastCases DEF Games, TypeInv, SaveInv
    <3> QED
      BY <2>1, <3>1, <3>2, <3>3, TitleFrame
  <2> QED
    BY <2>2, <2>3
<1>8. CASE Look
  <2>1. UNCHANGED <<drive, file, choice, outside>> /\ at = "look" /\ file = NoFile
    BY <1>8, Turns DEF Look, PlaceInv
  <2>2. CASE at' = "stuck" /\ UNCHANGED <<over, torn>>
    BY <2>1, <2>2, TitleFrame
  <2>3. CASE game = "channel" /\ drive["tmd"] # Missing /\ at' = "boot.cfg" /\ UNCHANGED <<over, torn>>
    BY <2>1, <2>3, TitleFrame
  <2>4. CASE at' = "ticket" /\ over' = (drive["tmd"] # Missing)
    BY <2>1, <2>4, TitleFrame
  <2> QED
    BY <1>8, <2>2, <2>3, <2>4 DEF Look
<1>9. CASE LookSave \/ NoModules \/ Launch
  <2>1. /\ UNCHANGED <<drive, file, choice, outside, over>>
        /\ "title" \in torn' <=> "title" \in torn
        /\ \/ at = "lookSave" /\ at' \in {"boot.cfg", "copy"} /\ game = "discWithSave"
           \/ at \in Started /\ at' \in Started \cup {"stuck"}
    BY <1>9 DEF LookSave, CopySave, NoCopy, CannotLook, NoModules, Launch, SaveInv
  <2> QED
    BY <2>1, TitleFrame
<1>10. CASE SaveOnDrive
  <2>1. \A g \in Title : drive'[g] = drive[g]
    BY <1>10, Names DEF SaveOnDrive, TypeInv
  <2>2. \A v : TitleIs(v)' <=> TitleIs(v)
    BY <2>1, TitleFrame
  <2> QED
    BY <1>10, <2>1, <2>2 DEF SaveOnDrive
<1>11. CASE PowerCut
  <2>1. UNCHANGED <<drive, choice, outside>> /\ torn \subseteq torn' /\ at' = "off" /\ ~over'
    BY <1>11 DEF PowerCut
  <2>2. /\ over => "title" \in torn'
        /\ file = "tmd" => "title" \in torn'
    BY <1>11, Names DEF PowerCut, PartOf
  <2> QED
    BY <2>1, <2>2, TitleFrame
<1>12. CASE SaveInNand
  BY <1>12, TitleFrame DEF SaveInNand
<1>13. CASE NewWad
  BY <1>13, TitleFrame DEF NewWad
<1>14. ASSUME NEW f \in Files, SkipSave(f) PROVE TitleInv'
  <2>1. /\ UNCHANGED <<drive, file, choice, outside, over>>
        /\ "title" \in torn' <=> "title" \in torn
        /\ at = "copy" /\ at' \in {"copy", "boot.cfg"} /\ game = "discWithSave"
    BY <1>14, PastCases, Turns DEF SkipSave, SaveInv
  <2> QED
    BY <2>1, TitleFrame
<1> QED
  BY <1>1, <1>2, <1>3, <1>4, <1>5, <1>6, <1>7, <1>8, <1>9, <1>10, <1>11, <1>12, <1>13, <1>14
  DEF FilesNext, Write

LEMMA SaveStep ==
  ASSUME TypeInv, PlaceInv, TitleInv, SaveInv, FilesNext
  PROVE  SaveInv'
<1> USE DEF SaveInv, Started, choice, outside
<1>1. CASE Pick
  BY <1>1 DEF Pick
<1>2. ASSUME NEW f \in Files, Open(f) PROVE SaveInv'
  <2>1. /\ f \in Turn /\ file = NoFile /\ file' = f
        /\ drive'[f] = Part /\ \A g \in Files \ {f} : drive'[g] = drive[g]
        /\ UNCHANGED <<at, todo, choice, outside, over, slip, torn, played>>
    BY <1>2, OpenDrive DEF Open
  <2>2. CASE f \in Save
    <3>1. at = "copy" /\ f \in todo /\ nand # 0 /\ ~played
      BY <2>1, <2>2, TurnCases, Names
    <3> QED
      BY <2>1, <2>2, <3>1, Contents
  <2>3. CASE f \notin Save
    <3>1. drive'["save"] = drive["save"] /\ drive'["saveTmd"] = drive["saveTmd"]
      BY <2>1, <2>3
    <3> QED
      BY <2>1, <3>1
  <2> QED
    BY <2>2, <2>3
<1>3. ASSUME NEW f \in Files, SkipModule(f) PROVE SaveInv'
  BY <1>3, PastCases, Turns DEF SkipModule
<1>4. ASSUME NEW f \in Files, CannotOpen(f) PROVE SaveInv'
  BY <1>4, PastCases, Turns, Names DEF CannotOpen, PlaceInv, Channels, TypeInv, Games
<1>5. CASE Remove
  BY <1>5, Names DEF Remove, TypeInv
<1>6. CASE Close
  <2>1. /\ file \in Turn /\ file \in Files /\ drive[file] = Part /\ Past(file)
        /\ drive'[file] = Whole(Meant(file))
        /\ \A g \in Files \ {file} : drive'[g] = drive[g]
        /\ UNCHANGED <<choice, outside, slip, torn, played>>
    BY <1>6, CloseDrive DEF Close
  <2>2. CASE file \notin Save
    <3>1. drive'["save"] = drive["save"] /\ drive'["saveTmd"] = drive["saveTmd"]
      BY <2>1, <2>2
    <3>2. at # "copy"
      BY <2>1, <2>2, TurnCases
    <3>3. \/ at' = "lookSave" /\ game = "discWithSave"
          \/ at' \in {"remove", "look", "apps", "tmd"}
          \/ at' = "boot.cfg" /\ game # "discWithSave"
          \/ at \in Started /\ at' \in Started
      BY <2>1, <3>2, PastCases DEF Channels, Games, TypeInv, TitleInv
    <3> QED
      BY <2>1, <3>1, <3>2, <3>3
  <2>3. CASE file \in Save
    <3>1. at = "copy" /\ file \in todo /\ todo' = todo \ {file} /\ nand # 0 /\ ~played
      BY <2>1, <2>3, TurnCases, PastCases, Names
    <3>2. drive'[file].is = "whole" /\ drive'[file] # Missing
      BY <2>1, Contents
    <3>3. \/ at' = "copy"
          \/ at' = "boot.cfg" /\ todo' = {}
      BY <2>1, <3>1, PastCases
    <3>4. "save" \notin torn /\ "save" \notin todo' => drive'["save"].is = "whole"
      BY <2>1, <2>3, <3>1, <3>2
    <3> QED
      BY <2>1, <3>1, <3>3, <3>4, Contents
  <2> QED
    BY <2>2, <2>3
<1>7. CASE CloseShort
  <2>1. /\ file \in Turn /\ drive[file] = Part /\ Past(file)
        /\ torn' = torn \cup ({PartOf(file)} \ Rewritten) /\ slip \subseteq slip'
        /\ UNCHANGED <<drive, choice, outside, played>>
    BY <1>7 DEF CloseShort, PlaceInv
  <2>2. CASE file \notin Save
    <3>1. at # "copy" /\ torn \subseteq torn'
      BY <2>1, <2>2, TurnCases
    <3>2. \/ at' = "lookSave" /\ game = "discWithSave"
          \/ at' \in {"remove", "look", "apps", "tmd"}
          \/ at' = "boot.cfg" /\ game # "discWithSave"
          \/ at \in Started /\ at' \in Started
      BY <2>1, <3>1, PastCases DEF Channels, Games, TypeInv, TitleInv
    <3> QED
      BY <2>1, <3>1, <3>2
  <2>3. CASE file \in Save
    <3>1. at = "copy" /\ nand # 0 /\ ~played /\ "save" \in torn'
      BY <2>1, <2>3, TurnCases, Names DEF PartOf
    <3>2. at' \in {"copy", "boot.cfg"}
      BY <2>1, <3>1, PastCases
    <3> QED
      BY <2>1, <3>1, <3>2
  <2> QED
    BY <2>2, <2>3
<1>8. CASE Look
  BY <1>8 DEF Look, TypeInv, Games
<1>9. CASE LookSave
  BY <1>9, Contents DEF LookSave, CopySave, NoCopy, CannotLook
<1>10. CASE NoModules \/ Launch
  <2>1. /\ UNCHANGED <<drive, choice, outside, torn, played>> /\ slip \subseteq slip'
        /\ at \in Started /\ at' \in Started \cup {"stuck"}
    BY <1>10 DEF NoModules, Launch
  <2> QED
    BY <2>1
<1>11. CASE SaveOnDrive
  BY <1>11, Contents DEF SaveOnDrive, TypeInv
<1>12. CASE PowerCut
  BY <1>12 DEF PowerCut
<1>13. CASE SaveInNand
  BY <1>13 DEF SaveInNand, TypeInv
<1>14. CASE NewWad
  BY <1>14 DEF NewWad
<1>15. ASSUME NEW f \in Files, SkipSave(f) PROVE SaveInv'
  <2>1. /\ UNCHANGED <<drive, choice, outside, slip, played>> /\ at = "copy" /\ f \in Turn /\ Past(f)
        /\ torn' = torn \cup ({f} \cap {"save"})
    BY <1>15, Turns DEF SkipSave
  <2>2. /\ f \in Save /\ todo' = todo \ {f}
        /\ at' = "copy" \/ (at' = "boot.cfg" /\ todo' = {})
    BY <2>1, PastCases
  <2> QED
    BY <2>1, <2>2, Contents
<1> QED
  BY <1>1, <1>2, <1>3, <1>4, <1>5, <1>6, <1>7, <1>8, <1>9, <1>10, <1>11, <1>12, <1>13, <1>14,
     <1>15
  DEF FilesNext, Write

LEMMA InitInv == FilesInit => IInv
<1> SUFFICES ASSUME FilesInit PROVE IInv
  OBVIOUS
<1>1. TypeInv
  <2>1. drive \in [Files -> Content] /\ drive["save"].of \in Nat
    <3>1. drive = [f \in Files |-> Missing] /\ "save" \in Files
      BY DEF FilesInit
    <3>2. drive["save"] = Missing
      BY <3>1
    <3> QED
      BY <3>1, <3>2, Contents
  <2>2. wad \in 1..MaxWads /\ nand \in Nat
    <3>1. wad = 1 /\ nand = 0
      BY DEF FilesInit
    <3> QED
      BY <3>1, Bounds
  <2> QED
    BY <2>1, <2>2 DEF FilesInit, TypeInv, Places
<1>2. PlaceInv /\ RewrittenInv /\ ModulesInv
  BY DEF FilesInit, PlaceInv, RewrittenInv, ModulesInv
<1>3. TitleInv /\ SaveInv
  BY Contents DEF FilesInit, TitleInv, SaveInv, Started
<1> QED
  BY <1>1, <1>2, <1>3 DEF IInv

LEMMA NextInv == IInv /\ [FilesNext]_fileVars => IInv'
<1> SUFFICES ASSUME IInv, [FilesNext]_fileVars PROVE IInv'
  OBVIOUS
<1>1. CASE FilesNext
  BY <1>1, TypeStep, PlaceStep, RewrittenStep, ModulesStep, TitleStep, SaveStep DEF IInv
<1>2. CASE UNCHANGED fileVars
  <2> USE <1>2 DEF IInv, fileVars, choice, outside
  <2>1. (TypeInv /\ RewrittenInv /\ ModulesInv)'
    BY DEF TypeInv, RewrittenInv, ModulesInv
  <2>2. PlaceInv'
    BY DEF PlaceInv, Turn
  <2>3. TitleInv'
    BY TitleFrame DEF TitleInv
  <2>4. SaveInv'
    BY DEF SaveInv
  <2> QED
    BY <2>1, <2>2, <2>3, <2>4
<1> QED
  BY <1>1, <1>2

LEMMA Invariant == FilesSpec => []IInv
BY InitInv, NextInv, PTL DEF FilesSpec

-----------------------------------------------------------------------------
(* A game that is started finds the boot's files, the modules, its title   *)
(* and its save whole, for any number of boots that were cut off or failed *)
(* before, but for what this boot could not open or write (slip) and what  *)
(* earlier boots left damaged behind what the code looks at (torn).        *)
THEOREM GamesLaunchWhole == FilesSpec => []LaunchedWhole
<1>1. IInv => LaunchedWhole
  <2> SUFFICES ASSUME IInv, at = "runs" PROVE LaunchedWhole
    BY DEF LaunchedWhole
  <2> USE DEF IInv
  <2>1. file = NoFile
    BY Turns DEF PlaceInv
  <2>2. \A f \in Rewritten \ slip : drive[f] = Whole(setting)
    BY DEF RewrittenInv
  <2>3. \A m \in Modules \ (slip \cup torn) : drive[m] = Whole(0)
    BY <2>1, Names DEF ModulesInv
  <2>4. game \in Channels /\ "title" \notin torn =>
          \E v \in 1..MaxWads : TitleIs(v) /\ (game = "reinstall" => v = wad)
    BY <2>1 DEF TitleInv, Started, Channels, TypeInv
  <2>5. game = "discWithSave" /\ "save" \notin slip \cup torn =>
          /\ drive["save"] = Missing \/ drive["save"].is = "whole"
          /\ drive["saveTmd"] = Whole(0) => drive["save"] # Missing
    <3>1. drive["save"] \in Content /\ Whole(0) # Missing
      BY Contents DEF TypeInv
    <3>2. drive["save"].is = "missing" => drive["save"] = Missing
      BY <3>1, Contents
    <3> QED
      BY <3>1, <3>2 DEF SaveInv, Started
  <2> QED
    BY <2>2, <2>3, <2>4, <2>5 DEF LaunchedWhole, Channels, TitleIs
<1> QED
  BY Invariant, <1>1, PTL

(* A save the game has made on the drive is never copied over, however     *)
(* often it is also played without saving on the drive.                    *)
THEOREM ProgressIsKept == FilesSpec => ProgressKept
<1>1. IInv /\ [FilesNext]_fileVars => (played /\ at # "runs" => drive'["save"] = drive["save"])
  <2> SUFFICES ASSUME IInv, [FilesNext]_fileVars, played, at # "runs"
               PROVE  drive'["save"] = drive["save"]
    OBVIOUS
  <2> USE DEF IInv
  <2>1. ASSUME NEW f \in Files, Open(f) PROVE drive'["save"] = drive["save"]
    BY <2>1, OpenDrive, Turns, Names DEF SaveInv, PlaceInv
  <2>2. CASE Close
    BY <2>2, CloseDrive, Turns, Names DEF SaveInv, PlaceInv
  <2>3. CASE Remove
    BY <2>3 DEF Remove, TypeInv
  <2> QED
    BY <2>1, <2>2, <2>3
    DEF FilesNext, Write, Pick, SkipModule, SkipSave, CannotOpen, CloseShort, Look, LookSave,
        NoModules, Launch, SaveOnDrive, SaveInNand, PowerCut, NewWad, fileVars
<1> QED
  BY Invariant, <1>1, PTL DEF FilesSpec, ProgressKept

=============================================================================
