------------------------------ MODULE BootFiles ------------------------------
(***************************************************************************)
(* The files that starting a Wii game leaves on the drive (system.cpp,     *)
(* hiidra.cpp, systitles.cpp): some are written at every boot; the modules *)
(* of IOS58, an installed channel and the save of a disc game only if they *)
(* are not there, which the code sees by opening a module, or the title's  *)
(* title.tmd.  The power may go between any two steps, and the next boot   *)
(* finds what was written by then.                                         *)
(*                                                                         *)
(* The drive and the NAND are external: a file that is opened for writing  *)
(* is there at once and is cut short until it is closed, a file that       *)
(* cannot be opened is left alone, and a write may fail, which the code    *)
(* never looks at; to see that a file is there the code opens it, which is *)
(* assumed to succeed when it is.  The kernel is external: it runs the     *)
(* game, and keeps a game's save beside the title.tmd it makes for it, as  *)
(* IOS does in the NAND.                                                   *)
(***************************************************************************)
EXTENDS Naturals

CONSTANTS
  Modules,   \* of IOS58
  Apps,      \* the contents of the channel
  Settings,  \* what a game can be started with
  MaxWads,   \* bound: versions of the channel's WAD
  MaxSaves   \* bound: how often the game saves, in the NAND and on the drive

(* SYSCONF stands for what the main thread writes before it creates the    *)
(* boot thread: SYSCONF, setting.txt and the cheats.                       *)
Rewritten == {"SYSCONF", "modules.txt", "boot.cfg"}
Title == {"ticket", "tmd"} \cup Apps
Save == {"saveTmd", "save"}
Files == Rewritten \cup Title \cup Save \cup Modules
NoFile == "no file"

ASSUME BootFilesAssumption ==
  /\ MaxWads \in Nat \ {0} /\ MaxSaves \in Nat
  /\ Modules # {} /\ Apps # {} /\ Modules \cap Apps = {}
  /\ (Modules \cup Apps)
       \cap (Rewritten \cup {"ticket", "tmd", NoFile, "title"} \cup Save) = {}

Missing == [is |-> "missing", of |-> 0]
Part == [is |-> "part", of |-> 0]     \* cut short
Junk == [is |-> "junk", of |-> 0]     \* longer than it should be
Whole(v) == [is |-> "whole", of |-> v]

Games == {"channel", "reinstall", "disc", "discWithSave"}
Places == {"off", "SYSCONF", "remove", "modules.txt", "look", "ticket", "apps", "tmd",
           "lookSave", "copy", "boot.cfg", "modules", "launch", "stuck", "runs"}

VARIABLES
  drive,    \* the files on it
  at,       \* what the boot is at; "off" before it, "runs" when the game does
  file,     \* the one that is open for writing
  todo,     \* files of a title, a save or IOS58 still to be seen
  game,     \* what was picked
  setting,  \* and how
  wad,      \* external: the version of the channel's WAD
  nand,     \* external: how often the game has saved in the NAND, 0 if never
  over,     \* history: the installation writes over another
  slip,     \* history: what this boot could not open or write
  torn,     \* history: of modules, "title" and "save", what later boots find damaged
  played    \* history: the game has saved on the drive

choice == <<game, setting>>
outside == <<wad, nand>>
fileVars == <<drive, at, file, todo, choice, outside, over, slip, torn, played>>

FilesInit ==
  /\ drive = [f \in Files |-> Missing]
  /\ at = "off" /\ file = NoFile /\ todo = {}
  /\ game \in Games /\ setting \in Settings
  /\ wad = 1 /\ nand = 0
  /\ over = FALSE /\ slip = {} /\ torn = {} /\ played = FALSE

-----------------------------------------------------------------------------
(* Where a boot goes from the file it has dealt with, and what is left of  *)
(* the files it is to see there.                                           *)

Prepared ==
  CASE game \in {"channel", "reinstall"} -> "look"
    [] game = "discWithSave" -> "lookSave"
    [] game = "disc" -> "boot.cfg"

AfterAll(p, left) == IF left = {} THEN p ELSE at

(* Mutant: the metadata are written first.                                 *)
FollowsTmdFirst(left) ==
  CASE at = "SYSCONF" -> "remove"
    [] at = "modules.txt" -> Prepared
    [] at = "ticket" -> "tmd"
    [] at = "tmd" -> "apps"
    [] at \in {"apps", "copy"} -> AfterAll("boot.cfg", left)
    [] at = "boot.cfg" -> "modules"
    [] at = "modules" -> AfterAll("launch", left)

Follows(left) ==
  CASE at = "SYSCONF" -> "remove"
    [] at = "modules.txt" -> Prepared
    [] at = "ticket" -> "apps"
    [] at = "apps" -> AfterAll("tmd", left)
    [] at = "tmd" -> "boot.cfg"
    [] at = "copy" -> AfterAll("boot.cfg", left)
    [] at = "boot.cfg" -> "modules"
    [] at = "modules" -> AfterAll("launch", left)

(* The files a boot may write next.                                        *)
Turn ==
  CASE at \in Rewritten \cup {"ticket", "tmd"} -> {at}
    [] at \in {"apps", "copy", "modules"} -> todo
    [] OTHER -> {}

Past(f) ==
  /\ todo' = IF at = "boot.cfg" THEN Modules ELSE todo \ {f}
  /\ at' = Follows(todo \ {f})

-----------------------------------------------------------------------------
(* Writing.                                                                *)

(* A game is picked; bootWiiGame() and bootHiidra().                       *)
Pick ==
  /\ at = "off" /\ at' = "SYSCONF"
  /\ game' \in Games /\ setting' \in Settings
  /\ UNCHANGED <<drive, file, todo, outside, over, slip, torn, played>>

Remove ==
  /\ at = "remove" /\ at' = "modules.txt"
  /\ drive' = [drive EXCEPT !["modules.txt"] = Missing]
  /\ UNCHANGED <<file, todo, choice, outside, over, slip, torn, played>>

(* modules.txt is appended to, a module that is there is not written.      *)
Open(f) ==
  /\ file = NoFile /\ f \in Turn
  /\ f \in Modules => drive[f] = Missing
  /\ file' = f
  /\ drive' = [drive EXCEPT ![f] =
                 IF f = "modules.txt" /\ drive[f] # Missing THEN Junk ELSE Part]
  /\ UNCHANGED <<at, todo, choice, outside, over, slip, torn, played>>

(* "No need to write multiple times".                                      *)
SkipModule(f) ==
  /\ at = "modules" /\ f \in todo /\ file = NoFile
  /\ drive[f] # Missing
  /\ Past(f)
  /\ UNCHANGED <<drive, file, choice, outside, over, slip, torn, played>>

(* An installation ends here for good; another file is left as it is.      *)
(* fopen() of modules.txt and of a save is not checked: undefined.         *)
CannotOpen(f) ==
  /\ file = NoFile /\ f \in Turn \ (Save \cup {"modules.txt"})
  /\ f \in Modules => drive[f] = Missing
  /\ IF f \in Title THEN at' = "stuck" /\ UNCHANGED todo ELSE Past(f)
  /\ slip' = slip \cup {f}
  /\ UNCHANGED <<drive, file, choice, outside, over, torn, played>>

Meant(f) ==
  CASE f \in Rewritten -> setting
    [] f \in Title -> wad
    [] f = "save" -> nand
    [] OTHER -> 0

PartOf(f) == IF f \in Title THEN "title" ELSE IF f \in Save THEN "save" ELSE f

(* The file is closed, and whole.                                          *)
Close ==
  /\ file # NoFile /\ file' = NoFile /\ Past(file)
  /\ drive' = [drive EXCEPT ![file] = IF @ = Part THEN Whole(Meant(file)) ELSE @]
  /\ over' = (over /\ file # "tmd")
  /\ UNCHANGED <<choice, outside, slip, torn, played>>

(* The drive is full, or the NAND cannot be read.                          *)
CloseShort ==
  /\ file # NoFile /\ file' = NoFile /\ Past(file)
  /\ slip' = slip \cup ({file} \cap Rewritten)
  /\ torn' = torn \cup ({PartOf(file)} \ Rewritten)
  /\ over' = (over /\ file # "tmd")
  /\ UNCHANGED <<drive, choice, outside, played>>

(* copyNANDDirToUSB() passes over a file of the NAND that it cannot open,  *)
(* and all files of a directory that it cannot read.                       *)
SkipSave(f) ==
  /\ at = "copy" /\ f \in todo /\ file = NoFile
  /\ Past(f)
  /\ torn' = torn \cup ({f} \cap {"save"})
  /\ UNCHANGED <<drive, file, choice, outside, over, slip, played>>

Write ==
  \/ \E f \in Files : Open(f) \/ SkipModule(f) \/ CannotOpen(f) \/ SkipSave(f)
  \/ Remove \/ Close \/ CloseShort

-----------------------------------------------------------------------------
(* openAndInstallWAD() up to the ticket: the WAD cannot be read, or is     *)
(* already installed, or everything is written anew.                       *)
Look ==
  /\ at = "look"
  /\ \/ at' = "stuck" /\ UNCHANGED <<todo, over, torn>>
     \/ /\ game = "channel" /\ drive["tmd"] # Missing
        /\ at' = "boot.cfg" /\ UNCHANGED <<todo, over, torn>>
     \/ /\ game = "reinstall" \/ drive["tmd"] = Missing
        /\ at' = "ticket" /\ todo' = Apps
        /\ over' = (drive["tmd"] # Missing) /\ torn' = torn \ {"title"}
  /\ UNCHANGED <<drive, file, choice, outside, slip, played>>

(* copyWBFSData(): the game's directory in the NAND, in any order, unless  *)
(* the NAND has no save of the game or the drive has its title.tmd.        *)
CopySave == at' = "copy" /\ todo' = Save /\ torn' = torn \ {"save"}
NoCopy == at' = "boot.cfg" /\ UNCHANGED <<todo, torn>>

(* The NAND, the game or the NAND's title.tmd cannot be opened.            *)
CannotLook == NoCopy /\ slip' = slip \cup {"save"}

(* Mutant: no matter whether the drive has a save.                         *)
LookSaveNot ==
  /\ at = "lookSave"
  /\ \/ (IF nand = 0 THEN NoCopy ELSE CopySave) /\ UNCHANGED slip
     \/ CannotLook
  /\ UNCHANGED <<drive, file, choice, outside, over, played>>

LookSave ==
  /\ at = "lookSave"
  /\ \/ (IF nand = 0 \/ drive["saveTmd"] # Missing THEN NoCopy ELSE CopySave) /\ UNCHANGED slip
     \/ CannotLook
  /\ UNCHANGED <<drive, file, choice, outside, over, played>>

(* Without IOS58 the thread ends; what loadIOSModules() returns is ignored. *)
NoModules ==
  /\ at = "modules" /\ todo = Modules /\ file = NoFile
  /\ \/ at' = "stuck" /\ UNCHANGED slip
     \/ at' = "launch" /\ slip' = slip \cup Modules
  /\ todo' = {}
  /\ UNCHANGED <<drive, file, choice, outside, over, torn, played>>

(* The kernel is loaded and started, or the boot fails.                    *)
Launch ==
  /\ at = "launch" /\ at' \in {"runs", "stuck"}
  /\ UNCHANGED <<drive, file, todo, choice, outside, over, slip, torn, played>>

-----------------------------------------------------------------------------
(* The game saves; a save it cannot read it starts again.                  *)
SaveOnDrive ==
  /\ at = "runs" /\ game = "discWithSave"
  /\ drive["save"].of < MaxSaves
  /\ drive' = [drive EXCEPT !["save"] = Whole(drive["save"].of + 1),
                            !["saveTmd"] = IF @ = Missing THEN Whole(1) ELSE @]
  /\ played' = TRUE
  /\ UNCHANGED <<at, file, todo, choice, outside, over, slip, torn>>

SaveInNand ==
  /\ at = "runs" /\ game = "disc" /\ nand < MaxSaves
  /\ nand' = nand + 1
  /\ UNCHANGED <<drive, at, file, todo, choice, wad, over, slip, torn, played>>

(* The power goes, or the user takes it off.  What is lost for good is the *)
(* module that was open, the title whose metadata are there, and the save  *)
(* whose metadata are.                                                     *)
PowerCut ==
  /\ at # "off" /\ at' = "off"
  /\ file' = NoFile /\ todo' = {}
  /\ torn' = torn
       \cup (IF file \in Modules \cup {"tmd"} THEN {PartOf(file)} ELSE {})
       \cup (IF over /\ at \in {"ticket", "apps", "tmd", "stuck"} THEN {"title"} ELSE {})
       \cup (IF at = "copy" /\ drive["saveTmd"] # Missing THEN {"save"} ELSE {})
  /\ over' = FALSE /\ slip' = {}
  /\ UNCHANGED <<drive, choice, outside, played>>

(* The user puts another version of the WAD on the drive.                  *)
NewWad ==
  /\ at = "off" /\ wad < MaxWads /\ wad' = wad + 1
  /\ UNCHANGED <<drive, at, file, todo, choice, nand, over, slip, torn, played>>

FilesNext ==
  \/ Pick \/ Write \/ Look \/ LookSave \/ NoModules \/ Launch
  \/ SaveOnDrive \/ SaveInNand \/ PowerCut \/ NewWad

FilesSpec == FilesInit /\ [][FilesNext]_fileVars

-----------------------------------------------------------------------------
(* A game that is started finds its files whole: those of this boot as it  *)
(* was set up, every module, a channel of which all files are of one       *)
(* version, the WAD's if it has just been reinstalled, and with a save's   *)
(* metadata the save.  Excepted is what this boot could not open or write  *)
(* (slip), and what was damaged behind metadata that stay (torn).          *)
LaunchedWhole ==
  at = "runs" =>
    /\ \A f \in Rewritten \ slip : drive[f] = Whole(setting)
    /\ \A m \in Modules \ (slip \cup torn) : drive[m] = Whole(0)
    /\ game \in {"channel", "reinstall"} /\ "title" \notin torn =>
         \E v \in 1..MaxWads :
           /\ \A f \in Title : drive[f] = Whole(v)
           /\ game = "reinstall" => v = wad
    /\ game = "discWithSave" /\ "save" \notin slip \cup torn =>
         /\ drive["save"] = Missing \/ drive["save"].is = "whole"
         /\ drive["saveTmd"] = Whole(0) => drive["save"] # Missing

(* What the game has saved on the drive changes only while it runs: the    *)
(* save in the NAND is not copied over it (hiidra.cpp 870-899).            *)
ProgressKept == [][played /\ at # "runs" => drive'["save"] = drive["save"]]_fileVars

=============================================================================
