-------------------------- MODULE Priiloader_proofs --------------------------
(***************************************************************************)
(* Proofs about the installation of Priiloader, for any number of System   *)
(* Menus, of runs and of power cuts, and any set of calls that may fail    *)
(* within Survivable.  The invariant is a conjunction of layers, each      *)
(* preserved by every step with the help of those before it, the place in  *)
(* the run, the menu and the TMD together: TypeInv, PlaceInv, StoreInv     *)
(* (what is in memory and /tmp), MenuInv, TmdInv, BootInv (the order of    *)
(* Priiloader's own files), CleanInv (runs without a failure) and AbortInv *)
(* (runs that abort).                                                      *)
(***************************************************************************)
EXTENDS Priiloader, TLAPS

(* The sets of phases come up in nearly every step.                        *)
USE DEF Files, DataFiles, FileCopies, Restores, Backups, BufferCopies, Copies, Loads, Patches

(* The assumption: only calls whose failure leaves things no worse fail.   *)
Survives == Faults \subseteq Survivable

-----------------------------------------------------------------------------
(* The invariant.                                                          *)

Stored == step \in {"verify", "delete", "rename"}
Before == {"off", "find", "ticket", "menu"}
Buffers == {"off", "patch", "revert", "settings"} \cup DataFiles

TypeInv ==
  /\ nand \in [Files -> Contents] /\ tmp \in Contents
  /\ data \in Contents /\ tmdBuf \in Contents /\ found \in BOOLEAN
  /\ phase \in Phases /\ step \in Steps
  /\ slip \in BOOLEAN /\ result \in {"none", "complete", "aborted", "cut"}
  /\ version \in 1..MaxVersion /\ booted \in BOOLEAN

(* Where a run can be, and what it has in memory and in /tmp there.        *)
PlaceInv ==
  /\ phase \in {"find", "lookup", "compare"} => step = "read"
  /\ phase \in Loads \cup BufferCopies => step \in {"write"} \cup {"verify", "delete", "rename"}
  /\ phase \in {"menu", "revert"} \cup Restores =>
       step \in {"read", "write", "verify", "delete", "rename"}
  /\ step = "rename" => phase \in Copies \cup Loads
  /\ phase \notin {"decideBlind", "decideUnsure", "patchBlind"}
  /\ phase \in Restores \cup {"discard", "revert"} => slip = TRUE

StoreInv ==
  /\ phase # "off" => IsTmd(tmdBuf) /\ tmdBuf.ver = version
  /\ phase \in FileCopies /\ (step = "write" \/ Stored) => data # Nothing
  /\ phase \in Loads /\ Stored => tmp = Loader
  /\ phase \in FileCopies /\ Stored => tmp = data
  /\ phase \in BufferCopies /\ Stored => tmp = tmdBuf

(* Where the System Menu and Priiloader are.                               *)
MenuInv ==
  /\ nand["app"] \in {Nothing, Menu(version), Loader, Old}
  /\ nand["copy"] \in {Nothing, Menu(version)}
  /\ MenuKept
  /\ phase = "ticket" => found = (nand["copy"] # Nothing)
  /\ phase = "menu" => nand["copy"] = Nothing
  /\ phase \notin Before => nand["copy"] = Menu(version)
  /\ phase \in {"menu"} \cup Restores /\ step # "read" => data = Menu(version)
  /\ phase \in Restores /\ step = "rename" => nand["app"] = Nothing
  /\ phase \in Loads /\ step = "rename" => nand["app"] = Nothing \/ slip = TRUE
  /\ phase = "install" /\ step # "rename" => nand["app"] = Menu(version)
  /\ phase = "discard" => nand["app"] = Menu(version)
  /\ phase \notin Before \cup Loads \cup Restores \cup {"discard"} => nand["app"] = Loader

(* What the TMD and its backup are.                                        *)
TmdInv ==
  /\ TmdKept
  /\ IsTmd(nand["tmd"]) /\ nand["tmd"].what # "tmd" => nand["backupTmd"] = Tmd(version)
  /\ phase \notin Buffers => tmdBuf = nand["tmd"]
  /\ phase = "backup" => nand["backupTmd"] = Nothing
  /\ phase = "rebackup" =>
       nand["tmd"] = Tmd(version) /\ (step = "rename" => nand["backupTmd"] = Nothing)
  /\ phase = "compare" => nand["backupTmd"] # Nothing
  /\ phase \in {"decide", "patch", "settings"} \cup DataFiles => nand["backupTmd"] = Tmd(version)
  /\ phase = "patch" =>
       /\ tmdBuf = Patched(version)
       /\ step = "rename" => nand["tmd"] = Nothing \/ slip = TRUE
       /\ step # "rename" => IsTmd(nand["tmd"])
  /\ phase = "revert" =>
       /\ \/ nand["backupTmd"] = Tmd(version)
          \/ step = "read" /\ nand["backupTmd"] = Nothing /\ IsTmd(nand["tmd"])
       /\ step # "read" => data = Tmd(version)
       /\ step = "rename" => nand["tmd"] = Nothing
  /\ phase \in {"settings"} \cup DataFiles => nand["tmd"] = Patched(version)

(* In which order the settings and the file they name are written.         *)
BootInv ==
  /\ AutobootHasTarget
  /\ phase \in {"main.bin", "main.nfo"} => nand["loader.ini"] = Nothing
  /\ phase = "main.nfo" => nand["main.bin"] = Whole
  /\ phase \in {"loader.ini", "vga.bin", "SYSCONF"} =>
       nand["main.bin"] = Whole /\ nand["main.nfo"] = Whole

(* What a run without a failure has done so far.                           *)
CleanInv ==
  /\ slip = FALSE /\ phase \notin {"off", "find", "ticket"} => nand["ticket"] # Nothing
  /\ slip = FALSE /\ phase \in {"vga.bin", "SYSCONF"} => nand["loader.ini"] = Whole
  /\ phase = "off" /\ slip = FALSE /\ result = "complete" => Installed
  /\ phase = "off" /\ slip = FALSE /\ result = "aborted" => ~IsTmd(nand["tmd"])

(* A console that could boot can do so again when a run aborts.            *)
AbortInv ==
  /\ booted /\ phase # "off" /\ phase \notin Restores /\ ~(phase \in Loads /\ step = "rename")
       => nand["app"] # Nothing
  /\ phase = "off" /\ result = "aborted" /\ booted => Boots

-----------------------------------------------------------------------------
(* What contents there are.                                                *)
LEMMA ContentsOfFiles ==
  /\ {Nothing, Part, Whole, Old, Loader} \subseteq Contents
  /\ \A v \in 0..MaxVersion :
       {Menu(v), Tmd(v), Patched(v), File("oldPatch", v)} \subseteq Contents
  /\ \A c \in Contents : c.ver \in 0..MaxVersion
BY PriiloaderAssumption DEF Contents, File, Nothing, Part, Whole, Old, Loader, Menu, Tmd, Patched

LEMMA ContentsOfNand ==
  ASSUME TypeInv
  PROVE  \A f \in Files : nand[f] \in Contents
BY DEF TypeInv

LEMMA Kinds ==
  /\ Loader # Nothing /\ Old # Nothing /\ ~IsTmd(Nothing)
  /\ Whole # Nothing
  /\ \A v : Menu(v) # Nothing /\ Tmd(v) # Nothing /\ Patched(v) # Nothing
  /\ \A v : IsTmd(Tmd(v)) /\ Tmd(v).what = "tmd" /\ Tmd(v).ver = v
  /\ \A v : IsTmd(Patched(v)) /\ Patched(v).ver = v
BY DEF Whole, Loader, Old, Nothing, Menu, Tmd, Patched, File, IsTmd

LEMMA Bootable ==
  /\ \A v : \A c \in {Menu(v), Loader, Old} : c.what \in {"menu", "loader", "old"}
  /\ \A c : c.what \in {"menu", "loader", "old"} => c # Nothing
BY DEF Loader, Old, Nothing, Menu, File

LEMMA TmdByVersion ==
  ASSUME NEW c \in Contents, c.what = "tmd"
  PROVE  c = Tmd(c.ver)
BY DEF Contents, Tmd, File

(* The branches of the cases of nand_copy() and its callers.               *)
LEMMA Sources ==
  /\ Source("ticket") = Whole /\ Source("menu") = nand["app"]
  /\ Source("restore") = nand["copy"] /\ Source("restoreOnly") = nand["copy"]
  /\ Source("revert") = nand["backupTmd"]
BY DEF Source

LEMMA Dests ==
  /\ Dest("ticket") = "ticket" /\ Dest("menu") = "copy"
  /\ \A p \in Restores \cup Loads : Dest(p) = "app"
  /\ \A p \in Backups : Dest(p) = "backupTmd"
  /\ \A p \in {"revert", "patch", "patchBlind"} : Dest(p) = "tmd"
BY DEF Dest

LEMMA CopiedCases ==
  ASSUME Copied
  PROVE  /\ phase = "ticket" => IF found THEN Load ELSE Copy("menu")
         /\ phase = "menu" => Load
         /\ phase = "restore" => Goto("discard", "delete")
         /\ phase \in {"restoreOnly", "revert"} => Aborts
         /\ phase = "backup" => Goto("compare", "read")
         /\ phase = "rebackup" => Goto("decide", "write")
         /\ phase = "patch" => Goto("settings", "delete")
         /\ phase = "patchBlind" => Copy("revert")
BY DEF Copied

LEMMA NotCopiedCases ==
  ASSUME NotCopied
  PROVE  /\ phase \in {"ticket", "menu", "restoreOnly", "revert"} => Aborts
         /\ phase = "restore" => Goto("discard", "delete")
         /\ phase \in BufferCopies => Copy("revert")
BY DEF NotCopied

LEMMA AfterFileCases ==
  ASSUME NEW f \in DataFiles, AfterFile(f)
  PROVE  /\ f = "main.bin" => Goto("main.nfo", "delete")
         /\ f = "main.nfo" => Goto("loader.ini", "delete")
         /\ f = "loader.ini" => Goto("vga.bin", "delete")
         /\ f = "vga.bin" => Goto("SYSCONF", "read")
         /\ f = "SYSCONF" => Ends("complete")
BY DEF AfterFile

LEMMA WhatMayFail ==
  ASSUME Survives, TypeInv, PlaceInv, Fails
  PROVE  /\ slip = FALSE /\ slip' = TRUE
         /\ phase \notin {"find", "lookup", "compare"}
         /\ phase = "menu" => step \notin {"verify", "rename"}
         /\ phase = "update" => step \notin {"write", "verify"}
         /\ phase = "rebackup" => step \notin {"write", "verify", "delete"}
         /\ phase \in {"main.bin", "main.nfo"} => step # "write"
BY DEF Survives, Survivable, TypeInv, PlaceInv, Fails, FailsAt

(* Only the ticket may find no memory: the menu's copy is excepted, and    *)
(* after a failure there is no other.                                      *)
LEMMA NoMemory ==
  ASSUME Survives, TypeInv, PlaceInv, CopyNoMemory
  PROVE  /\ phase = "ticket" /\ slip' = TRUE
         /\ phase' = IF found THEN "update" ELSE "menu"
         /\ step' = IF found THEN "write" ELSE "read"
         /\ UNCHANGED <<nand, tmp, data, tmdBuf, found, result, version, booted>>
<1>1. phase = "ticket" /\ slip' = TRUE
  BY DEF CopyNoMemory, FailsAt, Survives, Survivable, TypeInv, PlaceInv
<1> QED
  BY <1>1, CopiedCases DEF CopyNoMemory, Load, Copy, Goto, memory

-----------------------------------------------------------------------------
(* By any step the variables keep their types.                             *)

LEMMA TypeStep ==
  ASSUME Survives, TypeInv, Next
  PROVE  TypeInv'
<1> USE DEF Works, Goto, Copy, Load, Ends, Aborts, memory, TypeInv, Phases, Steps,
            Fails, FailsAt, Boots, IsTmd
<1>1. CASE CopyRead
  <2>1. nand' \in [Files -> Contents] /\ tmp' \in Contents
    BY <1>1, ContentsOfFiles, ContentsOfNand, PriiloaderAssumption, Sources,
       NotCopiedCases
    DEF CopyRead, Continue
  <2>2. data' \in Contents /\ tmdBuf' \in Contents /\ found' \in BOOLEAN
    BY <1>1, ContentsOfFiles, ContentsOfNand, PriiloaderAssumption, Sources,
       NotCopiedCases
    DEF CopyRead, Continue
  <2>3. phase' \in Phases /\ step' \in Steps
    BY <1>1, ContentsOfFiles, ContentsOfNand, PriiloaderAssumption, Sources,
       NotCopiedCases
    DEF CopyRead, Continue
  <2>4. slip' \in BOOLEAN /\ result' \in {"none", "complete", "aborted", "cut"}
    BY <1>1, ContentsOfFiles, ContentsOfNand, PriiloaderAssumption, Sources,
       NotCopiedCases
    DEF CopyRead, Continue
  <2>5. version' \in 1..MaxVersion /\ booted' \in BOOLEAN
    BY <1>1, ContentsOfFiles, ContentsOfNand, PriiloaderAssumption, Sources,
       NotCopiedCases
    DEF CopyRead, Continue
  <2> QED
    BY <2>1, <2>2, <2>3, <2>4, <2>5
<1>2. CASE CopyWrite
  BY <1>2, ContentsOfFiles, ContentsOfNand, PriiloaderAssumption, NotCopiedCases
  DEF CopyWrite, Continue
<1>3. CASE CopyVerify
  BY <1>3, ContentsOfFiles, ContentsOfNand, PriiloaderAssumption, CopiedCases,
     NotCopiedCases
  DEF CopyVerify, LateError, Continue
<1>4. CASE DeleteOld
  BY <1>4, ContentsOfFiles, ContentsOfNand, PriiloaderAssumption, Dests
  DEF DeleteOld, Delete, Continue
<1>5. CASE CopyRename
  <2>1. nand' \in [Files -> Contents] /\ tmp' \in Contents
    BY <1>5, ContentsOfFiles, ContentsOfNand, PriiloaderAssumption, Dests, CopiedCases,
       NotCopiedCases
    DEF CopyRename, Renamed, NotRenamed, LateError
  <2>2. data' \in Contents /\ tmdBuf' \in Contents /\ found' \in BOOLEAN
    BY <1>5, ContentsOfFiles, ContentsOfNand, PriiloaderAssumption, Dests, CopiedCases,
       NotCopiedCases
    DEF CopyRename, Renamed, NotRenamed, LateError
  <2>3. phase' \in Phases /\ step' \in Steps
    BY <1>5, ContentsOfFiles, ContentsOfNand, PriiloaderAssumption, Dests, CopiedCases,
       NotCopiedCases
    DEF CopyRename, Renamed, NotRenamed, LateError
  <2>4. slip' \in BOOLEAN /\ result' \in {"none", "complete", "aborted", "cut"}
    BY <1>5, ContentsOfFiles, ContentsOfNand, PriiloaderAssumption, Dests, CopiedCases,
       NotCopiedCases
    DEF CopyRename, Renamed, NotRenamed, LateError
  <2>5. version' \in 1..MaxVersion /\ booted' \in BOOLEAN
    BY <1>5, ContentsOfFiles, ContentsOfNand, PriiloaderAssumption, Dests, CopiedCases,
       NotCopiedCases
    DEF CopyRename, Renamed, NotRenamed, LateError
  <2> QED
    BY <2>1, <2>2, <2>3, <2>4, <2>5
<1>6. CASE Start
  BY <1>6, ContentsOfFiles, ContentsOfNand, PriiloaderAssumption DEF Start
<1>7. CASE Find
  BY <1>7, ContentsOfFiles, ContentsOfNand, PriiloaderAssumption DEF Find
<1>8. CASE CopyTicket
  BY <1>8, ContentsOfFiles, ContentsOfNand, PriiloaderAssumption, CopiedCases
  DEF CopyTicket
<1>9. CASE LoaderWrite
  BY <1>9, ContentsOfFiles, ContentsOfNand, PriiloaderAssumption
  DEF LoaderWrite, DropCopy, Delete, Continue
<1>10. CASE LoaderVerify
  BY <1>10, ContentsOfFiles, ContentsOfNand, PriiloaderAssumption
  DEF LoaderVerify, DropCopy, Delete, Continue
<1>11. CASE LoaderRename
  BY <1>11, ContentsOfFiles, ContentsOfNand, PriiloaderAssumption, Dests
  DEF LoaderRename, Renamed, NotRenamed
<1>12. CASE Check
  BY <1>12, ContentsOfFiles, ContentsOfNand, PriiloaderAssumption DEF Check
<1>13. CASE Discard
  BY <1>13, ContentsOfFiles, ContentsOfNand, PriiloaderAssumption
  DEF Discard, DropCopy, Delete
<1>14. CASE LookUpBackup
  BY <1>14, ContentsOfFiles, ContentsOfNand, PriiloaderAssumption DEF LookUpBackup
<1>15. CASE CompareBackup
  BY <1>15, ContentsOfFiles, ContentsOfNand, PriiloaderAssumption, TmdByVersion
  DEF CompareBackup
<1>16. CASE PatchBuffer
  BY <1>16, ContentsOfFiles, ContentsOfNand, PriiloaderAssumption DEF PatchBuffer
<1>17. CASE DeleteSettings
  BY <1>17, ContentsOfFiles, ContentsOfNand, PriiloaderAssumption
  DEF DeleteSettings, Delete
<1>18. CASE FileDelete
  BY <1>18, ContentsOfFiles, ContentsOfNand, PriiloaderAssumption
  DEF FileDelete, Delete, Continue
<1>19. CASE FileCreate
  BY <1>19, ContentsOfFiles, ContentsOfNand, PriiloaderAssumption
  DEF FileCreate, Continue
<1>20. CASE FileWrite
  BY <1>20, ContentsOfFiles, ContentsOfNand, PriiloaderAssumption, AfterFileCases
  DEF FileWrite
<1>21. CASE VgaCreate
  BY <1>21, ContentsOfFiles, ContentsOfNand, PriiloaderAssumption, AfterFileCases
  DEF VgaCreate
<1>22. CASE ConfRead
  BY <1>22, ContentsOfFiles, ContentsOfNand, PriiloaderAssumption, AfterFileCases
  DEF ConfRead, Continue
<1>23. CASE PowerCut
  BY <1>23, ContentsOfFiles, ContentsOfNand, PriiloaderAssumption DEF PowerCut
<1>24. CASE NewMenu
  BY <1>24, ContentsOfFiles, ContentsOfNand, PriiloaderAssumption DEF NewMenu
<1>25. CASE CopyNoMemory
  BY <1>25, CopiedCases DEF CopyNoMemory
<1> QED
  BY <1>1, <1>2, <1>3, <1>4, <1>5, <1>6, <1>7, <1>8, <1>9, <1>10, <1>11, <1>12, <1>13,
     <1>14, <1>15, <1>16, <1>17, <1>18, <1>19, <1>20, <1>21, <1>22, <1>23, <1>24, <1>25
  DEF Next, NandCopy, WritePriiloader, PatchTMD, WriteFiles

-----------------------------------------------------------------------------
(* By any step the phases and steps follow one another as PlaceInv says.   *)

LEMMA PlaceStep ==
  ASSUME Survives, TypeInv, PlaceInv, MenuInv, TmdInv, Next
  PROVE  PlaceInv'
<1> USE DEF Works, Goto, Copy, Load, Ends, Aborts, memory, TypeInv, PlaceInv, MenuInv,
            MenuKept, TmdInv, TmdKept, Before, Buffers
<1>1. CASE CopyRead
  BY <1>1, WhatMayFail, Sources, NotCopiedCases
  DEF CopyRead, Continue, IsTmd, Nothing, Part, Whole, Old, Loader, Menu, Tmd, Patched,
      File
<1>2. CASE CopyWrite
  BY <1>2, WhatMayFail, NotCopiedCases
  DEF CopyWrite, Continue, IsTmd, Nothing, Part, Whole, Old, Loader, Menu, Tmd, Patched,
      File
<1>3. CASE CopyVerify
  BY <1>3, WhatMayFail, CopiedCases, NotCopiedCases
  DEF CopyVerify, LateError, Continue, IsTmd, Nothing, Part, Whole, Old, Loader, Menu,
      Tmd, Patched, File
<1>4. CASE DeleteOld
  BY <1>4, WhatMayFail, Dests
  DEF DeleteOld, Delete, Continue, IsTmd, Nothing, Part, Whole, Old, Loader, Menu, Tmd,
      Patched, File
<1>5. CASE CopyRename
  BY <1>5, WhatMayFail, Dests, CopiedCases, NotCopiedCases
  DEF CopyRename, Renamed, NotRenamed, LateError, IsTmd, Nothing, Part, Whole, Old,
      Loader, Menu, Tmd, Patched, File
<1>6. CASE Start
  BY <1>6, WhatMayFail
  DEF Start, IsTmd, Nothing, Part, Whole, Old, Loader, Menu, Tmd, Patched, File
<1>7. CASE Find
  BY <1>7, WhatMayFail
  DEF Find, IsTmd, Nothing, Part, Whole, Old, Loader, Menu, Tmd, Patched, File
<1>8. CASE CopyTicket
  BY <1>8, WhatMayFail, CopiedCases
  DEF CopyTicket, IsTmd, Nothing, Part, Whole, Old, Loader, Menu, Tmd, Patched, File
<1>9. CASE LoaderWrite
  BY <1>9, WhatMayFail
  DEF LoaderWrite, DropCopy, Delete, Continue, IsTmd, Nothing, Part, Whole, Old, Loader,
      Menu, Tmd, Patched, File
<1>10. CASE LoaderVerify
  BY <1>10, WhatMayFail
  DEF LoaderVerify, DropCopy, Delete, Continue, IsTmd, Nothing, Part, Whole, Old,
      Loader, Menu, Tmd, Patched, File
<1>11. CASE LoaderRename
  BY <1>11, WhatMayFail, Dests
  DEF LoaderRename, Renamed, NotRenamed, IsTmd, Nothing, Part, Whole, Old, Loader, Menu,
      Tmd, Patched, File
<1>12. CASE Check
  BY <1>12, WhatMayFail
  DEF Check, IsTmd, Nothing, Part, Whole, Old, Loader, Menu, Tmd, Patched, File
<1>13. CASE Discard
  BY <1>13, WhatMayFail
  DEF Discard, DropCopy, Delete, IsTmd, Nothing, Part, Whole, Old, Loader, Menu, Tmd,
      Patched, File
<1>14. CASE LookUpBackup
  BY <1>14, WhatMayFail
  DEF LookUpBackup, IsTmd, Nothing, Part, Whole, Old, Loader, Menu, Tmd, Patched, File
<1>15. CASE CompareBackup
  BY <1>15, WhatMayFail, ContentsOfNand, TmdByVersion
  DEF CompareBackup, IsTmd, Nothing, Part, Whole, Old, Loader, Menu, Tmd, Patched, File
<1>16. CASE PatchBuffer
  BY <1>16, WhatMayFail
  DEF PatchBuffer, IsTmd, Nothing, Part, Whole, Old, Loader, Menu, Tmd, Patched, File
<1>17. CASE DeleteSettings
  BY <1>17, WhatMayFail
  DEF DeleteSettings, Delete, IsTmd, Nothing, Part, Whole, Old, Loader, Menu, Tmd,
      Patched, File
<1>18. CASE FileDelete
  BY <1>18, WhatMayFail
  DEF FileDelete, Delete, Continue, IsTmd, Nothing, Part, Whole, Old, Loader, Menu, Tmd,
      Patched, File
<1>19. CASE FileCreate
  BY <1>19, WhatMayFail
  DEF FileCreate, Continue, IsTmd, Nothing, Part, Whole, Old, Loader, Menu, Tmd,
      Patched, File
<1>20. CASE FileWrite
  BY <1>20, WhatMayFail, AfterFileCases
  DEF FileWrite, IsTmd, Nothing, Part, Whole, Old, Loader, Menu, Tmd, Patched, File
<1>21. CASE VgaCreate
  BY <1>21, WhatMayFail, AfterFileCases
  DEF VgaCreate, IsTmd, Nothing, Part, Whole, Old, Loader, Menu, Tmd, Patched, File
<1>22. CASE ConfRead
  BY <1>22, WhatMayFail, AfterFileCases
  DEF ConfRead, Continue, IsTmd, Nothing, Part, Whole, Old, Loader, Menu, Tmd, Patched,
      File
<1>23. CASE PowerCut
  BY <1>23, WhatMayFail
  DEF PowerCut, IsTmd, Nothing, Part, Whole, Old, Loader, Menu, Tmd, Patched, File
<1>24. CASE NewMenu
  BY <1>24, WhatMayFail
  DEF NewMenu, IsTmd, Nothing, Part, Whole, Old, Loader, Menu, Tmd, Patched, File
<1>25. CASE CopyNoMemory
  BY <1>25, NoMemory
<1> QED
  BY <1>1, <1>2, <1>3, <1>4, <1>5, <1>6, <1>7, <1>8, <1>9, <1>10, <1>11, <1>12, <1>13,
     <1>14, <1>15, <1>16, <1>17, <1>18, <1>19, <1>20, <1>21, <1>22, <1>23, <1>24, <1>25
  DEF Next, NandCopy, WritePriiloader, PatchTMD, WriteFiles

-----------------------------------------------------------------------------
(* By any step what is in memory and in /tmp is what will be renamed.      *)

LEMMA StoreStep ==
  ASSUME Survives, TypeInv, PlaceInv, StoreInv, MenuInv, TmdInv, Next
  PROVE  StoreInv'
<1> USE DEF Works, Goto, Copy, Load, Ends, Aborts, memory, TypeInv, StoreInv, PlaceInv,
            Stored, TmdInv, TmdKept, Buffers, Patched, Tmd, IsTmd, File
<1>1. CASE CopyRead
  BY <1>1, WhatMayFail, Sources, NotCopiedCases DEF CopyRead, Continue
<1>2. CASE CopyWrite
  BY <1>2, WhatMayFail, NotCopiedCases DEF CopyWrite, Continue
<1>3. CASE CopyVerify
  BY <1>3, WhatMayFail, CopiedCases, NotCopiedCases DEF CopyVerify, LateError, Continue
<1>4. CASE DeleteOld
  BY <1>4, WhatMayFail, Dests DEF DeleteOld, Delete, Continue
<1>5. CASE CopyRename
  BY <1>5, WhatMayFail, Dests, CopiedCases, NotCopiedCases
  DEF CopyRename, Renamed, NotRenamed, LateError
<1>6. CASE Start
  BY <1>6, WhatMayFail DEF Start
<1>7. CASE Find
  BY <1>7, WhatMayFail DEF Find
<1>8. CASE CopyTicket
  BY <1>8, WhatMayFail, CopiedCases DEF CopyTicket
<1>9. CASE LoaderWrite
  BY <1>9, WhatMayFail DEF LoaderWrite, DropCopy, Delete, Continue
<1>10. CASE LoaderVerify
  BY <1>10, WhatMayFail DEF LoaderVerify, DropCopy, Delete, Continue
<1>11. CASE LoaderRename
  BY <1>11, WhatMayFail, Dests DEF LoaderRename, Renamed, NotRenamed
<1>12. CASE Check
  BY <1>12, WhatMayFail DEF Check
<1>13. CASE Discard
  BY <1>13, WhatMayFail DEF Discard, DropCopy, Delete
<1>14. CASE LookUpBackup
  BY <1>14, WhatMayFail DEF LookUpBackup
<1>15. CASE CompareBackup
  BY <1>15, WhatMayFail, ContentsOfNand, TmdByVersion DEF CompareBackup
<1>16. CASE PatchBuffer
  BY <1>16, WhatMayFail DEF PatchBuffer
<1>17. CASE DeleteSettings
  BY <1>17, WhatMayFail DEF DeleteSettings, Delete
<1>18. CASE FileDelete
  BY <1>18, WhatMayFail DEF FileDelete, Delete, Continue
<1>19. CASE FileCreate
  BY <1>19, WhatMayFail DEF FileCreate, Continue
<1>20. CASE FileWrite
  BY <1>20, WhatMayFail, AfterFileCases DEF FileWrite
<1>21. CASE VgaCreate
  BY <1>21, WhatMayFail, AfterFileCases DEF VgaCreate
<1>22. CASE ConfRead
  BY <1>22, WhatMayFail, AfterFileCases DEF ConfRead, Continue
<1>23. CASE PowerCut
  BY <1>23, WhatMayFail DEF PowerCut
<1>24. CASE NewMenu
  BY <1>24, WhatMayFail DEF NewMenu
<1>25. CASE CopyNoMemory
  BY <1>25, NoMemory
<1> QED
  BY <1>1, <1>2, <1>3, <1>4, <1>5, <1>6, <1>7, <1>8, <1>9, <1>10, <1>11, <1>12, <1>13,
     <1>14, <1>15, <1>16, <1>17, <1>18, <1>19, <1>20, <1>21, <1>22, <1>23, <1>24, <1>25
  DEF Next, NandCopy, WritePriiloader, PatchTMD, WriteFiles

-----------------------------------------------------------------------------
(* By any step the System Menu stays at its path or in the copy.           *)

LEMMA MenuStep ==
  ASSUME Survives, TypeInv, PlaceInv, StoreInv, MenuInv, Next
  PROVE  MenuInv'
<1> USE DEF Works, Goto, Copy, Load, Ends, Aborts, memory, TypeInv, PlaceInv, StoreInv,
            Stored, MenuInv, MenuKept, Before
<1>1. CASE CopyRead
  <2>1. CASE phase = "ticket"
    BY <1>1, <2>1, WhatMayFail, Kinds, Sources, NotCopiedCases DEF CopyRead, Continue
  <2>2. CASE phase = "menu"
    BY <1>1, <2>2, WhatMayFail, Kinds, Sources, NotCopiedCases DEF CopyRead, Continue
  <2>3. CASE phase = "restore"
    <3>1. ~Fails
      BY <1>1, <2>3, WhatMayFail, Kinds, Sources, NotCopiedCases DEF CopyRead, Continue
    <3>2. Source(phase) = Menu(version)
      BY <1>1, <2>3, <3>1, WhatMayFail, Kinds, Sources, NotCopiedCases
      DEF CopyRead, Continue
    <3>3. Continue("write") /\ data' = Menu(version)
      BY <1>1, <2>3, <3>1, <3>2, WhatMayFail, Kinds, Sources, NotCopiedCases
      DEF CopyRead, Continue
    <3> QED
      BY <1>1, <2>3, <3>1, <3>2, <3>3, WhatMayFail, Kinds, Sources, NotCopiedCases
      DEF CopyRead, Continue
  <2>4. CASE phase = "restoreOnly"
    BY <1>1, <2>4, WhatMayFail, Kinds, Sources, NotCopiedCases DEF CopyRead, Continue
  <2>5. CASE phase = "revert"
    BY <1>1, <2>5, WhatMayFail, Kinds, Sources, NotCopiedCases DEF CopyRead, Continue
  <2> QED
    BY <1>1, <2>1, <2>2, <2>3, <2>4, <2>5 DEF CopyRead
<1>2. CASE CopyWrite
  BY <1>2, WhatMayFail, NotCopiedCases
  DEF CopyWrite, Continue, IsTmd, Nothing, Part, Whole, Old, Loader, Menu, Tmd, Patched,
      File
<1>3. CASE CopyVerify
  BY <1>3, WhatMayFail, CopiedCases, NotCopiedCases
  DEF CopyVerify, LateError, Continue, IsTmd, Nothing, Part, Whole, Old, Loader, Menu,
      Tmd, Patched, File
<1>4. CASE DeleteOld
  BY <1>4, WhatMayFail, Kinds, Dests DEF DeleteOld, Delete, Continue
<1>5. CASE CopyRename
  <2>1. CASE phase = "ticket"
    BY <1>5, <2>1, WhatMayFail, Kinds, Dests, CopiedCases, NotCopiedCases
    DEF CopyRename, Renamed, NotRenamed, LateError
  <2>2. CASE phase = "menu"
    BY <1>5, <2>2, WhatMayFail, Kinds, Dests, CopiedCases, NotCopiedCases
    DEF CopyRename, Renamed, NotRenamed, LateError
  <2>3. CASE phase = "restore"
    BY <1>5, <2>3, WhatMayFail, Kinds, Dests, CopiedCases, NotCopiedCases
    DEF CopyRename, Renamed, NotRenamed, LateError
  <2>4. CASE phase = "restoreOnly"
    BY <1>5, <2>4, WhatMayFail, Kinds, Dests, CopiedCases, NotCopiedCases
    DEF CopyRename, Renamed, NotRenamed, LateError
  <2>5. CASE phase = "revert"
    BY <1>5, <2>5, WhatMayFail, Kinds, Dests, CopiedCases, NotCopiedCases
    DEF CopyRename, Renamed, NotRenamed, LateError
  <2>6. CASE phase = "backup"
    BY <1>5, <2>6, WhatMayFail, Kinds, Dests, CopiedCases, NotCopiedCases
    DEF CopyRename, Renamed, NotRenamed, LateError
  <2>7. CASE phase = "rebackup"
    BY <1>5, <2>7, WhatMayFail, Kinds, Dests, CopiedCases, NotCopiedCases
    DEF CopyRename, Renamed, NotRenamed, LateError
  <2>8. CASE phase = "patch"
    BY <1>5, <2>8, WhatMayFail, Kinds, Dests, CopiedCases, NotCopiedCases
    DEF CopyRename, Renamed, NotRenamed, LateError
  <2>9. CASE phase = "patchBlind"
    BY <1>5, <2>9, WhatMayFail, Kinds, Dests, CopiedCases, NotCopiedCases
    DEF CopyRename, Renamed, NotRenamed, LateError
  <2> QED
    BY <1>5, <2>1, <2>2, <2>3, <2>4, <2>5, <2>6, <2>7, <2>8, <2>9 DEF CopyRename
<1>6. CASE Start
  BY <1>6, WhatMayFail
  DEF Start, IsTmd, Nothing, Part, Whole, Old, Loader, Menu, Tmd, Patched, File
<1>7. CASE Find
  BY <1>7, WhatMayFail
  DEF Find, IsTmd, Nothing, Part, Whole, Old, Loader, Menu, Tmd, Patched, File
<1>8. CASE CopyTicket
  BY <1>8, WhatMayFail, CopiedCases
  DEF CopyTicket, IsTmd, Nothing, Part, Whole, Old, Loader, Menu, Tmd, Patched, File
<1>9. CASE LoaderWrite
  BY <1>9, WhatMayFail
  DEF LoaderWrite, DropCopy, Delete, Continue, IsTmd, Nothing, Part, Whole, Old, Loader,
      Menu, Tmd, Patched, File
<1>10. CASE LoaderVerify
  BY <1>10, WhatMayFail
  DEF LoaderVerify, DropCopy, Delete, Continue, IsTmd, Nothing, Part, Whole, Old,
      Loader, Menu, Tmd, Patched, File
<1>11. CASE LoaderRename
  BY <1>11, WhatMayFail, Dests
  DEF LoaderRename, Renamed, NotRenamed, IsTmd, Nothing, Part, Whole, Old, Loader, Menu,
      Tmd, Patched, File
<1>12. CASE Check
  BY <1>12, WhatMayFail
  DEF Check, IsTmd, Nothing, Part, Whole, Old, Loader, Menu, Tmd, Patched, File
<1>13. CASE Discard
  BY <1>13, WhatMayFail
  DEF Discard, DropCopy, Delete, IsTmd, Nothing, Part, Whole, Old, Loader, Menu, Tmd,
      Patched, File
<1>14. CASE LookUpBackup
  BY <1>14, WhatMayFail
  DEF LookUpBackup, IsTmd, Nothing, Part, Whole, Old, Loader, Menu, Tmd, Patched, File
<1>15. CASE CompareBackup
  BY <1>15, WhatMayFail, ContentsOfNand, TmdByVersion
  DEF CompareBackup, IsTmd, Nothing, Part, Whole, Old, Loader, Menu, Tmd, Patched, File
<1>16. CASE PatchBuffer
  BY <1>16, WhatMayFail
  DEF PatchBuffer, IsTmd, Nothing, Part, Whole, Old, Loader, Menu, Tmd, Patched, File
<1>17. CASE DeleteSettings
  BY <1>17, WhatMayFail
  DEF DeleteSettings, Delete, IsTmd, Nothing, Part, Whole, Old, Loader, Menu, Tmd,
      Patched, File
<1>18. CASE FileDelete
  BY <1>18, WhatMayFail
  DEF FileDelete, Delete, Continue, IsTmd, Nothing, Part, Whole, Old, Loader, Menu, Tmd,
      Patched, File
<1>19. CASE FileCreate
  BY <1>19, WhatMayFail
  DEF FileCreate, Continue, IsTmd, Nothing, Part, Whole, Old, Loader, Menu, Tmd,
      Patched, File
<1>20. CASE FileWrite
  BY <1>20, WhatMayFail, AfterFileCases
  DEF FileWrite, IsTmd, Nothing, Part, Whole, Old, Loader, Menu, Tmd, Patched, File
<1>21. CASE VgaCreate
  BY <1>21, WhatMayFail, AfterFileCases
  DEF VgaCreate, IsTmd, Nothing, Part, Whole, Old, Loader, Menu, Tmd, Patched, File
<1>22. CASE ConfRead
  BY <1>22, WhatMayFail, AfterFileCases
  DEF ConfRead, Continue, IsTmd, Nothing, Part, Whole, Old, Loader, Menu, Tmd, Patched,
      File
<1>23. CASE PowerCut
  BY <1>23, WhatMayFail
  DEF PowerCut, IsTmd, Nothing, Part, Whole, Old, Loader, Menu, Tmd, Patched, File
<1>24. CASE NewMenu
  BY <1>24, WhatMayFail
  DEF NewMenu, IsTmd, Nothing, Part, Whole, Old, Loader, Menu, Tmd, Patched, File
<1>25. CASE CopyNoMemory
  BY <1>25, NoMemory
<1> QED
  BY <1>1, <1>2, <1>3, <1>4, <1>5, <1>6, <1>7, <1>8, <1>9, <1>10, <1>11, <1>12, <1>13,
     <1>14, <1>15, <1>16, <1>17, <1>18, <1>19, <1>20, <1>21, <1>22, <1>23, <1>24, <1>25
  DEF Next, NandCopy, WritePriiloader, PatchTMD, WriteFiles

-----------------------------------------------------------------------------
(* By any step the TMD or its backup stays, and is this version's.         *)

LEMMA TmdStep ==
  ASSUME Survives, TypeInv, PlaceInv, StoreInv, MenuInv, TmdInv, Next
  PROVE  TmdInv'
<1> USE DEF Works, Goto, Copy, Load, Ends, Aborts, memory, TypeInv, PlaceInv, StoreInv,
            Stored, TmdInv, TmdKept, Buffers
<1>1. CASE CopyRead
  BY <1>1, WhatMayFail, Kinds, Sources, NotCopiedCases DEF CopyRead, Continue
<1>2. CASE CopyWrite
  BY <1>2, WhatMayFail, NotCopiedCases
  DEF CopyWrite, Continue, IsTmd, Nothing, Part, Whole, Old, Loader, Menu, Tmd, Patched,
      File
<1>3. CASE CopyVerify
  BY <1>3, WhatMayFail, CopiedCases, NotCopiedCases
  DEF CopyVerify, LateError, Continue, IsTmd, Nothing, Part, Whole, Old, Loader, Menu,
      Tmd, Patched, File
<1>4. CASE DeleteOld
  <2>1. CASE phase = "ticket"
    BY <1>4, <2>1, WhatMayFail, Kinds, Dests DEF DeleteOld, Delete, Continue
  <2>2. CASE phase = "menu"
    BY <1>4, <2>2, WhatMayFail, Kinds, Dests DEF DeleteOld, Delete, Continue
  <2>3. CASE phase = "restore"
    BY <1>4, <2>3, WhatMayFail, Kinds, Dests DEF DeleteOld, Delete, Continue
  <2>4. CASE phase = "restoreOnly"
    BY <1>4, <2>4, WhatMayFail, Kinds, Dests DEF DeleteOld, Delete, Continue
  <2>5. CASE phase = "revert"
    <3>1. nand'["backupTmd"] = Tmd(version) /\ data' = Tmd(version)
      BY <1>4, <2>5, WhatMayFail, Kinds, Dests DEF DeleteOld, Delete, Continue
    <3>2. nand'["tmd"] = Nothing
      BY <1>4, <2>5, <3>1, WhatMayFail, Kinds, Dests DEF DeleteOld, Delete, Continue
    <3>3. phase' = "revert" /\ step' = "rename"
      BY <1>4, <2>5, <3>1, <3>2, WhatMayFail, Kinds, Dests
      DEF DeleteOld, Delete, Continue
    <3> QED
      BY <1>4, <2>5, <3>1, <3>2, <3>3, WhatMayFail, Kinds, Dests
      DEF DeleteOld, Delete, Continue
  <2>6. CASE phase = "backup"
    BY <1>4, <2>6, WhatMayFail, Kinds, Dests DEF DeleteOld, Delete, Continue
  <2>7. CASE phase = "rebackup"
    BY <1>4, <2>7, WhatMayFail, Kinds, Dests DEF DeleteOld, Delete, Continue
  <2>8. CASE phase = "patch"
    <3>1. nand'["backupTmd"] = Tmd(version) /\ tmdBuf' = Patched(version)
      BY <1>4, <2>8, WhatMayFail, Kinds, Dests DEF DeleteOld, Delete, Continue
    <3>2. nand'["tmd"] = Nothing \/ (nand'["tmd"] = nand["tmd"] /\ slip' = TRUE)
      BY <1>4, <2>8, <3>1, WhatMayFail, Kinds, Dests DEF DeleteOld, Delete, Continue
    <3>3. phase' = "patch" /\ step' = "rename"
      BY <1>4, <2>8, <3>1, <3>2, WhatMayFail, Kinds, Dests
      DEF DeleteOld, Delete, Continue
    <3> QED
      BY <1>4, <2>8, <3>1, <3>2, <3>3, WhatMayFail, Kinds, Dests
      DEF DeleteOld, Delete, Continue
  <2>9. CASE phase = "patchBlind"
    BY <1>4, <2>9, WhatMayFail, Kinds, Dests DEF DeleteOld, Delete, Continue
  <2>10. CASE phase = "install"
    BY <1>4, <2>10, WhatMayFail, Kinds, Dests DEF DeleteOld, Delete, Continue
  <2>11. CASE phase = "update"
    BY <1>4, <2>11, WhatMayFail, Kinds, Dests DEF DeleteOld, Delete, Continue
  <2> QED
    BY <1>4, <2>1, <2>2, <2>3, <2>4, <2>5, <2>6, <2>7, <2>8, <2>9, <2>10, <2>11
    DEF DeleteOld
<1>5. CASE CopyRename
  BY <1>5, WhatMayFail, Kinds, Dests, CopiedCases, NotCopiedCases
  DEF CopyRename, Renamed, NotRenamed, LateError
<1>6. CASE Start
  BY <1>6, WhatMayFail
  DEF Start, IsTmd, Nothing, Part, Whole, Old, Loader, Menu, Tmd, Patched, File
<1>7. CASE Find
  BY <1>7, WhatMayFail
  DEF Find, IsTmd, Nothing, Part, Whole, Old, Loader, Menu, Tmd, Patched, File
<1>8. CASE CopyTicket
  BY <1>8, WhatMayFail, CopiedCases
  DEF CopyTicket, IsTmd, Nothing, Part, Whole, Old, Loader, Menu, Tmd, Patched, File
<1>9. CASE LoaderWrite
  BY <1>9, WhatMayFail
  DEF LoaderWrite, DropCopy, Delete, Continue, IsTmd, Nothing, Part, Whole, Old, Loader,
      Menu, Tmd, Patched, File
<1>10. CASE LoaderVerify
  BY <1>10, WhatMayFail
  DEF LoaderVerify, DropCopy, Delete, Continue, IsTmd, Nothing, Part, Whole, Old,
      Loader, Menu, Tmd, Patched, File
<1>11. CASE LoaderRename
  BY <1>11, WhatMayFail, Dests
  DEF LoaderRename, Renamed, NotRenamed, IsTmd, Nothing, Part, Whole, Old, Loader, Menu,
      Tmd, Patched, File
<1>12. CASE Check
  BY <1>12, WhatMayFail
  DEF Check, IsTmd, Nothing, Part, Whole, Old, Loader, Menu, Tmd, Patched, File
<1>13. CASE Discard
  BY <1>13, WhatMayFail
  DEF Discard, DropCopy, Delete, IsTmd, Nothing, Part, Whole, Old, Loader, Menu, Tmd,
      Patched, File
<1>14. CASE LookUpBackup
  BY <1>14, WhatMayFail
  DEF LookUpBackup, IsTmd, Nothing, Part, Whole, Old, Loader, Menu, Tmd, Patched, File
<1>15. CASE CompareBackup
  BY <1>15, WhatMayFail, ContentsOfNand, TmdByVersion
  DEF CompareBackup, IsTmd, Nothing, Part, Whole, Old, Loader, Menu, Tmd, Patched, File
<1>16. CASE PatchBuffer
  BY <1>16, WhatMayFail
  DEF PatchBuffer, IsTmd, Nothing, Part, Whole, Old, Loader, Menu, Tmd, Patched, File
<1>17. CASE DeleteSettings
  BY <1>17, WhatMayFail
  DEF DeleteSettings, Delete, IsTmd, Nothing, Part, Whole, Old, Loader, Menu, Tmd,
      Patched, File
<1>18. CASE FileDelete
  BY <1>18, WhatMayFail
  DEF FileDelete, Delete, Continue, IsTmd, Nothing, Part, Whole, Old, Loader, Menu, Tmd,
      Patched, File
<1>19. CASE FileCreate
  BY <1>19, WhatMayFail
  DEF FileCreate, Continue, IsTmd, Nothing, Part, Whole, Old, Loader, Menu, Tmd,
      Patched, File
<1>20. CASE FileWrite
  BY <1>20, WhatMayFail, AfterFileCases
  DEF FileWrite, IsTmd, Nothing, Part, Whole, Old, Loader, Menu, Tmd, Patched, File
<1>21. CASE VgaCreate
  BY <1>21, WhatMayFail, AfterFileCases
  DEF VgaCreate, IsTmd, Nothing, Part, Whole, Old, Loader, Menu, Tmd, Patched, File
<1>22. CASE ConfRead
  BY <1>22, WhatMayFail, AfterFileCases
  DEF ConfRead, Continue, IsTmd, Nothing, Part, Whole, Old, Loader, Menu, Tmd, Patched,
      File
<1>23. CASE PowerCut
  BY <1>23, WhatMayFail
  DEF PowerCut, IsTmd, Nothing, Part, Whole, Old, Loader, Menu, Tmd, Patched, File
<1>24. CASE NewMenu
  BY <1>24, WhatMayFail
  DEF NewMenu, IsTmd, Nothing, Part, Whole, Old, Loader, Menu, Tmd, Patched, File
<1>25. CASE CopyNoMemory
  BY <1>25, NoMemory
<1> QED
  BY <1>1, <1>2, <1>3, <1>4, <1>5, <1>6, <1>7, <1>8, <1>9, <1>10, <1>11, <1>12, <1>13,
     <1>14, <1>15, <1>16, <1>17, <1>18, <1>19, <1>20, <1>21, <1>22, <1>23, <1>24, <1>25
  DEF Next, NandCopy, WritePriiloader, PatchTMD, WriteFiles

-----------------------------------------------------------------------------
(* By any step the settings are written after what they name.              *)

LEMMA BootStep ==
  ASSUME Survives, TypeInv, PlaceInv, BootInv, Next
  PROVE  BootInv'
<1> USE DEF Works, Goto, Copy, Load, Ends, Aborts, memory, TypeInv, PlaceInv, BootInv,
            AutobootHasTarget
<1>1. CASE CopyRead
  BY <1>1, WhatMayFail, Sources, NotCopiedCases
  DEF CopyRead, Continue, IsTmd, Nothing, Part, Whole, Old, Loader, Menu, Tmd, Patched,
      File
<1>2. CASE CopyWrite
  BY <1>2, WhatMayFail, NotCopiedCases
  DEF CopyWrite, Continue, IsTmd, Nothing, Part, Whole, Old, Loader, Menu, Tmd, Patched,
      File
<1>3. CASE CopyVerify
  BY <1>3, WhatMayFail, CopiedCases, NotCopiedCases
  DEF CopyVerify, LateError, Continue, IsTmd, Nothing, Part, Whole, Old, Loader, Menu,
      Tmd, Patched, File
<1>4. CASE DeleteOld
  BY <1>4, WhatMayFail, Dests
  DEF DeleteOld, Delete, Continue, IsTmd, Nothing, Part, Whole, Old, Loader, Menu, Tmd,
      Patched, File
<1>5. CASE CopyRename
  BY <1>5, WhatMayFail, Dests, CopiedCases, NotCopiedCases
  DEF CopyRename, Renamed, NotRenamed, LateError, IsTmd, Nothing, Part, Whole, Old,
      Loader, Menu, Tmd, Patched, File
<1>6. CASE Start
  BY <1>6, WhatMayFail
  DEF Start, IsTmd, Nothing, Part, Whole, Old, Loader, Menu, Tmd, Patched, File
<1>7. CASE Find
  BY <1>7, WhatMayFail
  DEF Find, IsTmd, Nothing, Part, Whole, Old, Loader, Menu, Tmd, Patched, File
<1>8. CASE CopyTicket
  BY <1>8, WhatMayFail, CopiedCases
  DEF CopyTicket, IsTmd, Nothing, Part, Whole, Old, Loader, Menu, Tmd, Patched, File
<1>9. CASE LoaderWrite
  BY <1>9, WhatMayFail
  DEF LoaderWrite, DropCopy, Delete, Continue, IsTmd, Nothing, Part, Whole, Old, Loader,
      Menu, Tmd, Patched, File
<1>10. CASE LoaderVerify
  BY <1>10, WhatMayFail
  DEF LoaderVerify, DropCopy, Delete, Continue, IsTmd, Nothing, Part, Whole, Old,
      Loader, Menu, Tmd, Patched, File
<1>11. CASE LoaderRename
  BY <1>11, WhatMayFail, Dests
  DEF LoaderRename, Renamed, NotRenamed, IsTmd, Nothing, Part, Whole, Old, Loader, Menu,
      Tmd, Patched, File
<1>12. CASE Check
  BY <1>12, WhatMayFail
  DEF Check, IsTmd, Nothing, Part, Whole, Old, Loader, Menu, Tmd, Patched, File
<1>13. CASE Discard
  BY <1>13, WhatMayFail
  DEF Discard, DropCopy, Delete, IsTmd, Nothing, Part, Whole, Old, Loader, Menu, Tmd,
      Patched, File
<1>14. CASE LookUpBackup
  BY <1>14, WhatMayFail
  DEF LookUpBackup, IsTmd, Nothing, Part, Whole, Old, Loader, Menu, Tmd, Patched, File
<1>15. CASE CompareBackup
  BY <1>15, WhatMayFail, ContentsOfNand, TmdByVersion
  DEF CompareBackup, IsTmd, Nothing, Part, Whole, Old, Loader, Menu, Tmd, Patched, File
<1>16. CASE PatchBuffer
  BY <1>16, WhatMayFail
  DEF PatchBuffer, IsTmd, Nothing, Part, Whole, Old, Loader, Menu, Tmd, Patched, File
<1>17. CASE DeleteSettings
  BY <1>17, WhatMayFail
  DEF DeleteSettings, Delete, IsTmd, Nothing, Part, Whole, Old, Loader, Menu, Tmd,
      Patched, File
<1>18. CASE FileDelete
  BY <1>18, WhatMayFail
  DEF FileDelete, Delete, Continue, IsTmd, Nothing, Part, Whole, Old, Loader, Menu, Tmd,
      Patched, File
<1>19. CASE FileCreate
  BY <1>19, WhatMayFail
  DEF FileCreate, Continue, IsTmd, Nothing, Part, Whole, Old, Loader, Menu, Tmd,
      Patched, File
<1>20. CASE FileWrite
  BY <1>20, WhatMayFail, AfterFileCases
  DEF FileWrite, IsTmd, Nothing, Part, Whole, Old, Loader, Menu, Tmd, Patched, File
<1>21. CASE VgaCreate
  BY <1>21, WhatMayFail, AfterFileCases
  DEF VgaCreate, IsTmd, Nothing, Part, Whole, Old, Loader, Menu, Tmd, Patched, File
<1>22. CASE ConfRead
  BY <1>22, WhatMayFail, AfterFileCases
  DEF ConfRead, Continue, IsTmd, Nothing, Part, Whole, Old, Loader, Menu, Tmd, Patched,
      File
<1>23. CASE PowerCut
  BY <1>23, WhatMayFail
  DEF PowerCut, IsTmd, Nothing, Part, Whole, Old, Loader, Menu, Tmd, Patched, File
<1>24. CASE NewMenu
  BY <1>24, WhatMayFail
  DEF NewMenu, IsTmd, Nothing, Part, Whole, Old, Loader, Menu, Tmd, Patched, File
<1>25. CASE CopyNoMemory
  BY <1>25, NoMemory
<1> QED
  BY <1>1, <1>2, <1>3, <1>4, <1>5, <1>6, <1>7, <1>8, <1>9, <1>10, <1>11, <1>12, <1>13,
     <1>14, <1>15, <1>16, <1>17, <1>18, <1>19, <1>20, <1>21, <1>22, <1>23, <1>24, <1>25
  DEF Next, NandCopy, WritePriiloader, PatchTMD, WriteFiles

-----------------------------------------------------------------------------
(* By any step a run without a failure has done what it went past.         *)

(* Without a failure the file to be copied is there and the run goes on.   *)
LEMMA CopyReadKeepsClean ==
  ASSUME Survives, TypeInv, PlaceInv, StoreInv, MenuInv, TmdInv, BootInv, CleanInv, CopyRead
  PROVE  CleanInv'
<1>1. slip' = TRUE \/ (phase' = phase /\ slip' = slip)
  <2>1. CASE phase = "ticket"
    BY <2>1, Kinds, Sources DEF CopyRead, Works, Fails, FailsAt, Continue, Goto
  <2>2. CASE phase = "menu"
    BY <2>2, Kinds, Sources DEF CopyRead, Works, Fails, FailsAt, Continue, Goto, MenuInv, MenuKept
  <2>3. CASE phase \in Restores \cup {"revert"}
    BY <2>3 DEF CopyRead, Works, Fails, FailsAt, PlaceInv
  <2> QED
    BY <2>1, <2>2, <2>3 DEF CopyRead
<1>2. nand' = nand /\ phase # "off" /\ (phase' = "off" => result' = "aborted")
  BY NotCopiedCases DEF CopyRead, Continue, Goto, Ends, Aborts
<1> QED
  BY <1>1, <1>2 DEF CleanInv

(* Without a failure the target has been deleted, so that the rename works *)
(* and the run goes on.                                                    *)
LEMMA CopyRenameKeepsClean ==
  ASSUME Survives, TypeInv, PlaceInv, StoreInv, MenuInv, TmdInv, BootInv, CleanInv, CopyRename
  PROVE  CleanInv'
<1>1. CASE slip' = TRUE
  BY <1>1 DEF CleanInv
<1>2. CASE slip' = FALSE /\ slip = FALSE /\ phase = "ticket"
  <2>1. Copied /\ nand'["ticket"] # Nothing
    BY <1>2, Dests, Kinds
    DEF CopyRename, Renamed, NotRenamed, LateError, Fails, FailsAt, TypeInv, StoreInv, Stored
  <2> QED
    BY <1>2, <2>1, CopiedCases DEF CleanInv, Load, Copy, Goto
<1>3. CASE slip' = FALSE /\ slip = FALSE /\ phase \in {"menu", "backup", "rebackup", "patch"}
  <2>1. nand[Dest(phase)] = Nothing
    BY <1>3, Dests DEF CopyRename, MenuInv, TmdInv
  <2>2. Renamed /\ Copied
    BY <1>3, <2>1 DEF CopyRename, NotRenamed, Fails, FailsAt
  <2>3. nand'["ticket"] = nand["ticket"]
    BY <1>3, <2>2, Dests DEF Renamed, TypeInv
  <2> QED
    BY <1>3, <2>2, <2>3, CopiedCases DEF CleanInv, Load, Copy, Goto
<1> QED
  BY <1>1, <1>2, <1>3 DEF CopyRename, NotRenamed, Works, Fails, FailsAt, PlaceInv, TypeInv

LEMMA CleanStep ==
  ASSUME Survives, TypeInv, PlaceInv, StoreInv, MenuInv, TmdInv, BootInv, CleanInv, Next
  PROVE  CleanInv'
<1> USE DEF Works, Goto, Copy, Load, Ends, Aborts, memory, TypeInv, PlaceInv, StoreInv,
            Stored, MenuInv, TmdInv, BootInv, CleanInv, Before, Buffers, Installed,
            MenuKept
<1>1. CASE CopyRead
  BY <1>1, CopyReadKeepsClean
<1>2. CASE CopyWrite
  BY <1>2, WhatMayFail, Kinds, NotCopiedCases DEF CopyWrite, Continue
<1>3. CASE CopyVerify
  BY <1>3, WhatMayFail, Kinds, CopiedCases, NotCopiedCases
  DEF CopyVerify, LateError, Continue
<1>4. CASE DeleteOld
  BY <1>4, WhatMayFail, Kinds, Dests DEF DeleteOld, Delete, Continue
<1>5. CASE CopyRename
  BY <1>5, CopyRenameKeepsClean
<1>6. CASE Start
  BY <1>6, WhatMayFail, Kinds DEF Start
<1>7. CASE Find
  BY <1>7, WhatMayFail
  DEF Find, IsTmd, Nothing, Part, Whole, Old, Loader, Menu, Tmd, Patched, File
<1>8. CASE CopyTicket
  BY <1>8, WhatMayFail, CopiedCases
  DEF CopyTicket, IsTmd, Nothing, Part, Whole, Old, Loader, Menu, Tmd, Patched, File
<1>9. CASE LoaderWrite
  BY <1>9, WhatMayFail
  DEF LoaderWrite, DropCopy, Delete, Continue, IsTmd, Nothing, Part, Whole, Old, Loader,
      Menu, Tmd, Patched, File
<1>10. CASE LoaderVerify
  BY <1>10, WhatMayFail
  DEF LoaderVerify, DropCopy, Delete, Continue, IsTmd, Nothing, Part, Whole, Old,
      Loader, Menu, Tmd, Patched, File
<1>11. CASE LoaderRename
  BY <1>11, WhatMayFail, Dests
  DEF LoaderRename, Renamed, NotRenamed, IsTmd, Nothing, Part, Whole, Old, Loader, Menu,
      Tmd, Patched, File
<1>12. CASE Check
  BY <1>12, WhatMayFail
  DEF Check, IsTmd, Nothing, Part, Whole, Old, Loader, Menu, Tmd, Patched, File
<1>13. CASE Discard
  BY <1>13, WhatMayFail
  DEF Discard, DropCopy, Delete, IsTmd, Nothing, Part, Whole, Old, Loader, Menu, Tmd,
      Patched, File
<1>14. CASE LookUpBackup
  BY <1>14, WhatMayFail
  DEF LookUpBackup, IsTmd, Nothing, Part, Whole, Old, Loader, Menu, Tmd, Patched, File
<1>15. CASE CompareBackup
  BY <1>15, WhatMayFail, ContentsOfNand, TmdByVersion
  DEF CompareBackup, IsTmd, Nothing, Part, Whole, Old, Loader, Menu, Tmd, Patched, File
<1>16. CASE PatchBuffer
  BY <1>16, WhatMayFail
  DEF PatchBuffer, IsTmd, Nothing, Part, Whole, Old, Loader, Menu, Tmd, Patched, File
<1>17. CASE DeleteSettings
  BY <1>17, WhatMayFail
  DEF DeleteSettings, Delete, IsTmd, Nothing, Part, Whole, Old, Loader, Menu, Tmd,
      Patched, File
<1>18. CASE FileDelete
  BY <1>18, WhatMayFail
  DEF FileDelete, Delete, Continue, IsTmd, Nothing, Part, Whole, Old, Loader, Menu, Tmd,
      Patched, File
<1>19. CASE FileCreate
  BY <1>19, WhatMayFail
  DEF FileCreate, Continue, IsTmd, Nothing, Part, Whole, Old, Loader, Menu, Tmd,
      Patched, File
<1>20. CASE FileWrite
  <2>1. CASE phase = "main.bin"
    BY <1>20, <2>1, WhatMayFail, Kinds, AfterFileCases DEF FileWrite
  <2>2. CASE phase = "main.nfo"
    BY <1>20, <2>2, WhatMayFail, Kinds, AfterFileCases DEF FileWrite
  <2>3. CASE phase = "loader.ini"
    BY <1>20, <2>3, WhatMayFail, Kinds, AfterFileCases DEF FileWrite
  <2>4. CASE phase = "vga.bin"
    BY <1>20, <2>4, WhatMayFail, Kinds, AfterFileCases DEF FileWrite
  <2>5. CASE phase = "SYSCONF"
    BY <1>20, <2>5, WhatMayFail, Kinds, AfterFileCases DEF FileWrite
  <2> QED
    BY <1>20, <2>1, <2>2, <2>3, <2>4, <2>5 DEF FileWrite
<1>21. CASE VgaCreate
  BY <1>21, WhatMayFail, AfterFileCases
  DEF VgaCreate, IsTmd, Nothing, Part, Whole, Old, Loader, Menu, Tmd, Patched, File
<1>22. CASE ConfRead
  BY <1>22, WhatMayFail, AfterFileCases
  DEF ConfRead, Continue, IsTmd, Nothing, Part, Whole, Old, Loader, Menu, Tmd, Patched,
      File
<1>23. CASE PowerCut
  BY <1>23, WhatMayFail
  DEF PowerCut, IsTmd, Nothing, Part, Whole, Old, Loader, Menu, Tmd, Patched, File
<1>24. CASE NewMenu
  BY <1>24, WhatMayFail
  DEF NewMenu, IsTmd, Nothing, Part, Whole, Old, Loader, Menu, Tmd, Patched, File
<1>25. CASE CopyNoMemory
  BY <1>25, NoMemory
<1> QED
  BY <1>1, <1>2, <1>3, <1>4, <1>5, <1>6, <1>7, <1>8, <1>9, <1>10, <1>11, <1>12, <1>13,
     <1>14, <1>15, <1>16, <1>17, <1>18, <1>19, <1>20, <1>21, <1>22, <1>23, <1>24, <1>25
  DEF Next, NandCopy, WritePriiloader, PatchTMD, WriteFiles

-----------------------------------------------------------------------------
(* By any step what could boot can boot when a run aborts.                 *)

(* When the menu is restored its copy is there; the other copies have not  *)
(* touched what is booted.                                                 *)
LEMMA CopyReadKeepsBootable ==
  ASSUME Survives, TypeInv, PlaceInv, StoreInv, MenuInv, TmdInv, AbortInv, CopyRead
  PROVE  AbortInv'
<1>1. CASE phase \in Restores
  <2>1. Source(phase) = Menu(version) /\ ~Fails
    BY <1>1, Sources, WhatMayFail DEF PlaceInv, MenuInv, Before
  <2>2. phase' = phase
    BY <2>1, Kinds DEF CopyRead, Continue, Goto
  <2> QED
    BY <1>1, <2>2 DEF AbortInv, CopyRead
<1>2. CASE phase \in {"ticket", "menu", "revert"}
  <2>1. /\ phase' = phase \/ (phase' = "off" /\ result' = "aborted")
        /\ booted' = booted /\ nand' = nand /\ version' = version
    BY <1>2, NotCopiedCases DEF CopyRead, Continue, Goto, Ends, Aborts
  <2>2. phase' = "off" => IsTmd(nand["tmd"])
    <3>1. CASE phase = "revert"
      BY <3>1, Sources, Kinds, WhatMayFail DEF CopyRead, Continue, Goto, PlaceInv, TmdInv
    <3>2. CASE phase # "revert"
      BY <1>2, <3>2 DEF StoreInv, TmdInv, Buffers
    <3> QED
      BY <3>1, <3>2
  <2> QED
    BY <1>2, <2>1, <2>2, Bootable DEF AbortInv, MenuInv, Boots
<1> QED
  BY <1>1, <1>2 DEF CopyRead

(* A menu or a TMD put back is what the console boots again; no other copy *)
(* that is renamed aborts the run.                                         *)
LEMMA CopyRenameKeepsBootable ==
  ASSUME Survives, TypeInv, PlaceInv, StoreInv, MenuInv, TmdInv, AbortInv, CopyRename
  PROVE  AbortInv'
<1>1. CASE phase \in Restores
  <2>1. ~Fails /\ nand[Dest(phase)] = Nothing
    BY <1>1, WhatMayFail, Dests DEF PlaceInv, MenuInv, CopyRename
  <2>2. Renamed /\ Copied
    BY <2>1 DEF CopyRename, NotRenamed
  <2>3. nand'["app"] = Menu(version) /\ nand'["tmd"] = nand["tmd"] /\ version' = version
    BY <1>1, <2>2, Dests, CopiedCases
    DEF Renamed, TypeInv, StoreInv, Stored, MenuInv, CopyRename, Goto, Ends, Aborts
  <2>4. IsTmd(nand["tmd"]) /\ Boots'
    BY <1>1, <2>3, Bootable DEF StoreInv, TmdInv, Buffers, Boots
  <2> QED
    BY <2>3, <2>4, Kinds DEF AbortInv
<1>2. CASE phase = "revert"
  <2>1. ~Fails /\ nand[Dest(phase)] = Nothing
    BY <1>2, WhatMayFail, Dests DEF PlaceInv, TmdInv, CopyRename
  <2>2. Renamed /\ Copied
    BY <2>1 DEF CopyRename, NotRenamed
  <2>3. /\ nand'["tmd"] = Tmd(version) /\ nand'["app"] = nand["app"]
        /\ phase' = "off" /\ booted' = booted
    BY <1>2, <2>2, Dests, CopiedCases
    DEF Renamed, TypeInv, StoreInv, Stored, TmdInv, CopyRename, Ends, Aborts
  <2>4. booted' => Boots'
    BY <1>2, <2>3, Kinds, Bootable DEF Boots, AbortInv, MenuInv
  <2> QED
    BY <2>3, <2>4 DEF AbortInv

<1>3. CASE phase \in {"ticket", "menu"} \cup BufferCopies
  <2>1. nand'["app"] = nand["app"] /\ booted' = booted
    BY <1>3, Dests, CopiedCases, NotCopiedCases
    DEF CopyRename, Renamed, NotRenamed, LateError, TypeInv, Load, Copy, Goto, PlaceInv
  <2>2. phase' # "off" /\ phase' \notin Restores /\ ~(phase' \in Loads /\ step' = "rename")
    BY <1>3, CopiedCases, NotCopiedCases
    DEF CopyRename, LateError, Load, Copy, Goto, PlaceInv
  <2> QED
    BY <1>3, <2>1, <2>2 DEF AbortInv
<1> QED
  BY <1>1, <1>2, <1>3 DEF CopyRename

(* The run begins with what could be booted then.                          *)
LEMMA StartKeepsBootable ==
  ASSUME Survives, TypeInv, PlaceInv, StoreInv, MenuInv, TmdInv, AbortInv, Start
  PROVE  AbortInv'
<1>1. CASE phase' = "off"
  BY <1>1 DEF Start, AbortInv, Boots
<1>2. CASE phase' = "find"
  <2>1. Boots => nand["app"] # Nothing
    BY Bootable DEF Boots
  <2>2. booted' => nand'["app"] # Nothing
    BY <2>1, Zenon DEF Start
  <2> QED
    BY <1>2, <2>2 DEF AbortInv
<1> QED
  BY <1>1, <1>2 DEF Start

LEMMA NoMemoryKeepsBootable ==
  ASSUME Survives, TypeInv, PlaceInv, AbortInv, CopyNoMemory
  PROVE  AbortInv'
<1>1. phase = "ticket" /\ phase' \in {"menu", "update"} /\ step' # "rename"
  BY NoMemory
<1>2. nand' = nand /\ booted' = booted
  BY NoMemory
<1> QED
  BY <1>1, <1>2 DEF AbortInv

LEMMA AbortStep ==
  ASSUME Survives, TypeInv, PlaceInv, StoreInv, MenuInv, TmdInv, AbortInv, Next
  PROVE  AbortInv'
<1> USE DEF Works, Goto, Copy, Load, Ends, Aborts, memory, TypeInv, PlaceInv, StoreInv,
            Stored, MenuInv, TmdInv, AbortInv, Before, Buffers, Boots, MenuKept
<1>1. CASE CopyRead
  BY <1>1, CopyReadKeepsBootable
<1>2. CASE CopyWrite
  <2>1. CASE phase = "ticket"
    BY <1>2, <2>1, WhatMayFail, Bootable, Kinds, NotCopiedCases DEF CopyWrite, Continue
  <2>2. CASE phase = "menu"
    BY <1>2, <2>2, WhatMayFail, Bootable, Kinds, NotCopiedCases DEF CopyWrite, Continue
  <2>3. CASE phase = "restore"
    BY <1>2, <2>3, WhatMayFail, Bootable, Kinds, NotCopiedCases DEF CopyWrite, Continue
  <2>4. CASE phase = "restoreOnly"
    BY <1>2, <2>4, WhatMayFail, Bootable, Kinds, NotCopiedCases DEF CopyWrite, Continue
  <2>5. CASE phase = "revert"
    BY <1>2, <2>5, WhatMayFail, Bootable, Kinds, NotCopiedCases DEF CopyWrite, Continue
  <2>6. CASE phase = "backup"
    BY <1>2, <2>6, WhatMayFail, Bootable, Kinds, NotCopiedCases DEF CopyWrite, Continue
  <2>7. CASE phase = "rebackup"
    BY <1>2, <2>7, WhatMayFail, Bootable, Kinds, NotCopiedCases DEF CopyWrite, Continue
  <2>8. CASE phase = "patch"
    BY <1>2, <2>8, WhatMayFail, Bootable, Kinds, NotCopiedCases DEF CopyWrite, Continue
  <2>9. CASE phase = "patchBlind"
    BY <1>2, <2>9, WhatMayFail, Bootable, Kinds, NotCopiedCases DEF CopyWrite, Continue
  <2> QED
    BY <1>2, <2>1, <2>2, <2>3, <2>4, <2>5, <2>6, <2>7, <2>8, <2>9 DEF CopyWrite
<1>3. CASE CopyVerify
  <2>1. CASE phase = "ticket"
    BY <1>3, <2>1, WhatMayFail, Bootable, Kinds, CopiedCases, NotCopiedCases
    DEF CopyVerify, LateError, Continue
  <2>2. CASE phase = "menu"
    BY <1>3, <2>2, WhatMayFail, Bootable, Kinds, CopiedCases, NotCopiedCases
    DEF CopyVerify, LateError, Continue
  <2>3. CASE phase = "restore"
    BY <1>3, <2>3, WhatMayFail, Bootable, Kinds, CopiedCases, NotCopiedCases
    DEF CopyVerify, LateError, Continue
  <2>4. CASE phase = "restoreOnly"
    BY <1>3, <2>4, WhatMayFail, Bootable, Kinds, CopiedCases, NotCopiedCases
    DEF CopyVerify, LateError, Continue
  <2>5. CASE phase = "revert"
    BY <1>3, <2>5, WhatMayFail, Bootable, Kinds, CopiedCases, NotCopiedCases
    DEF CopyVerify, LateError, Continue
  <2>6. CASE phase = "backup"
    BY <1>3, <2>6, WhatMayFail, Bootable, Kinds, CopiedCases, NotCopiedCases
    DEF CopyVerify, LateError, Continue
  <2>7. CASE phase = "rebackup"
    BY <1>3, <2>7, WhatMayFail, Bootable, Kinds, CopiedCases, NotCopiedCases
    DEF CopyVerify, LateError, Continue
  <2>8. CASE phase = "patch"
    BY <1>3, <2>8, WhatMayFail, Bootable, Kinds, CopiedCases, NotCopiedCases
    DEF CopyVerify, LateError, Continue
  <2>9. CASE phase = "patchBlind"
    BY <1>3, <2>9, WhatMayFail, Bootable, Kinds, CopiedCases, NotCopiedCases
    DEF CopyVerify, LateError, Continue
  <2> QED
    BY <1>3, <2>1, <2>2, <2>3, <2>4, <2>5, <2>6, <2>7, <2>8, <2>9 DEF CopyVerify
<1>4. CASE DeleteOld
  BY <1>4, WhatMayFail, Bootable, Kinds, Dests DEF DeleteOld, Delete, Continue
<1>5. CASE CopyRename
  BY <1>5, CopyRenameKeepsBootable
<1>6. CASE Start
  BY <1>6, StartKeepsBootable
<1>7. CASE Find
  BY <1>7, WhatMayFail
  DEF Find, IsTmd, Nothing, Part, Whole, Old, Loader, Menu, Tmd, Patched, File
<1>8. CASE CopyTicket
  BY <1>8, WhatMayFail, Bootable, CopiedCases
  DEF CopyTicket, IsTmd, Nothing, Part, Whole, Old, Loader, Menu, Tmd, Patched, File
<1>9. CASE LoaderWrite
  BY <1>9, WhatMayFail
  DEF LoaderWrite, DropCopy, Delete, Continue, IsTmd, Nothing, Part, Whole, Old, Loader,
      Menu, Tmd, Patched, File
<1>10. CASE LoaderVerify
  BY <1>10, WhatMayFail
  DEF LoaderVerify, DropCopy, Delete, Continue, IsTmd, Nothing, Part, Whole, Old,
      Loader, Menu, Tmd, Patched, File
<1>11. CASE LoaderRename
  BY <1>11, WhatMayFail, Bootable, Dests
  DEF LoaderRename, Renamed, NotRenamed, IsTmd, Nothing, Part, Whole, Old, Loader, Menu,
      Tmd, Patched, File
<1>12. CASE Check
  BY <1>12, WhatMayFail
  DEF Check, IsTmd, Nothing, Part, Whole, Old, Loader, Menu, Tmd, Patched, File
<1>13. CASE Discard
  BY <1>13, WhatMayFail
  DEF Discard, DropCopy, Delete, IsTmd, Nothing, Part, Whole, Old, Loader, Menu, Tmd,
      Patched, File
<1>14. CASE LookUpBackup
  BY <1>14, WhatMayFail
  DEF LookUpBackup, IsTmd, Nothing, Part, Whole, Old, Loader, Menu, Tmd, Patched, File
<1>15. CASE CompareBackup
  BY <1>15, WhatMayFail, Bootable, ContentsOfNand, TmdByVersion
  DEF CompareBackup, IsTmd, Nothing, Part, Whole, Old, Loader, Menu, Tmd, Patched, File
<1>16. CASE PatchBuffer
  BY <1>16, WhatMayFail
  DEF PatchBuffer, IsTmd, Nothing, Part, Whole, Old, Loader, Menu, Tmd, Patched, File
<1>17. CASE DeleteSettings
  BY <1>17, WhatMayFail
  DEF DeleteSettings, Delete, IsTmd, Nothing, Part, Whole, Old, Loader, Menu, Tmd,
      Patched, File
<1>18. CASE FileDelete
  BY <1>18, WhatMayFail
  DEF FileDelete, Delete, Continue, IsTmd, Nothing, Part, Whole, Old, Loader, Menu, Tmd,
      Patched, File
<1>19. CASE FileCreate
  BY <1>19, WhatMayFail
  DEF FileCreate, Continue, IsTmd, Nothing, Part, Whole, Old, Loader, Menu, Tmd,
      Patched, File
<1>20. CASE FileWrite
  BY <1>20, WhatMayFail, Bootable, Kinds, AfterFileCases DEF FileWrite
<1>21. CASE VgaCreate
  BY <1>21, WhatMayFail, Bootable, AfterFileCases
  DEF VgaCreate, IsTmd, Nothing, Part, Whole, Old, Loader, Menu, Tmd, Patched, File
<1>22. CASE ConfRead
  BY <1>22, WhatMayFail, Bootable, AfterFileCases
  DEF ConfRead, Continue, IsTmd, Nothing, Part, Whole, Old, Loader, Menu, Tmd, Patched,
      File
<1>23. CASE PowerCut
  BY <1>23, WhatMayFail
  DEF PowerCut, IsTmd, Nothing, Part, Whole, Old, Loader, Menu, Tmd, Patched, File
<1>24. CASE NewMenu
  BY <1>24, WhatMayFail
  DEF NewMenu, IsTmd, Nothing, Part, Whole, Old, Loader, Menu, Tmd, Patched, File
<1>25. CASE CopyNoMemory
  BY <1>25, NoMemoryKeepsBootable
<1> QED
  BY <1>1, <1>2, <1>3, <1>4, <1>5, <1>6, <1>7, <1>8, <1>9, <1>10, <1>11, <1>12, <1>13,
     <1>14, <1>15, <1>16, <1>17, <1>18, <1>19, <1>20, <1>21, <1>22, <1>23, <1>24, <1>25
  DEF Next, NandCopy, WritePriiloader, PatchTMD, WriteFiles

-----------------------------------------------------------------------------
(* The invariant holds.                                                    *)

IInv ==
  /\ TypeInv /\ PlaceInv /\ StoreInv /\ MenuInv /\ TmdInv /\ BootInv
  /\ CleanInv /\ AbortInv

LEMMA InitInv == Init => IInv
<1> SUFFICES ASSUME Init PROVE IInv
  OBVIOUS
<1>1. TypeInv /\ PlaceInv /\ StoreInv
  <2>1. 1 \in 0..MaxVersion /\ 1 \in 1..MaxVersion
    BY PriiloaderAssumption
  <2>2. Sold \in [Files -> Contents]
    BY <2>1, ContentsOfFiles DEF Sold
  <2>3. Priiloaded \in [Files -> Contents]
    BY <2>1, ContentsOfFiles DEF Priiloaded
  <2> QED
    BY <2>1, <2>2, <2>3, ContentsOfFiles
    DEF Init, TypeInv, PlaceInv, StoreInv, Stored, Phases, Steps
<1>2. MenuInv
  BY DEF Init, Sold, Priiloaded, MenuInv, MenuKept, Before, Nothing, Menu, Old, File
<1>3. TmdInv
  BY DEF Init, Sold, Priiloaded, TmdInv, TmdKept, Buffers, IsTmd, Nothing, Tmd, File
<1>4. BootInv
  BY DEF Init, Sold, Priiloaded, BootInv, AutobootHasTarget, Nothing, Old, Whole, File
<1>5. CleanInv /\ AbortInv
  BY DEF Init, CleanInv, AbortInv
<1> QED
  BY <1>1, <1>2, <1>3, <1>4, <1>5 DEF IInv

LEMMA NextInv == ASSUME Survives, IInv, [Next]_vars PROVE IInv'
<1>1. CASE Next
  BY <1>1, TypeStep, PlaceStep, StoreStep, MenuStep, TmdStep, BootStep, CleanStep, AbortStep
  DEF IInv
<1>2. CASE UNCHANGED vars
  BY <1>2
  DEF IInv, vars, memory, TypeInv, PlaceInv, StoreInv, Stored, MenuInv, MenuKept, TmdInv, TmdKept,
      BootInv, AutobootHasTarget, CleanInv, Installed, AbortInv, Boots
<1> QED
  BY <1>1, <1>2

LEMMA Invariant == ASSUME Survives PROVE Spec => []IInv
<1>1. IInv /\ [Next]_vars => IInv'
  BY NextInv
<1> QED
  BY InitInv, <1>1, PTL DEF Spec

-----------------------------------------------------------------------------
(* The variables of the installer have their types, whatever call fails.   *)
THEOREM PriiloaderTypeCorrect == ASSUME Survives PROVE Spec => []TypeOK
<1>1. IInv => TypeOK
  BY DEF IInv, TypeInv, PlaceInv, StoreInv, Stored, TypeOK
<1> QED
  BY Invariant, <1>1, PTL

(* The only copy of the System Menu is never lost, if no call fails that   *)
(* Survivable excludes (priiloader.cpp 929-1130).                          *)
THEOREM MenuNeverLost == ASSUME Survives PROVE Spec => []MenuKept
<1>1. IInv => MenuKept
  BY DEF IInv, MenuInv
<1> QED
  BY Invariant, <1>1, PTL

(* The TMD can always be put back and is never another version's           *)
(* (PatchTMD, 597-830).                                                    *)
THEOREM TmdNeverLost == ASSUME Survives PROVE Spec => []TmdKept
<1>1. IInv => TmdKept
  BY DEF IInv, TmdInv
<1> QED
  BY Invariant, <1>1, PTL

(* Priiloader is never told to boot a file that is not whole.              *)
THEOREM AutobootWhole == ASSUME Survives PROVE Spec => []AutobootHasTarget
<1>1. IInv => AutobootHasTarget
  BY DEF IInv, BootInv
<1> QED
  BY Invariant, <1>1, PTL

(* A run without a failure completes, whatever others left, and one that   *)
(* aborts leaves a console that boots if it did before.                    *)
THEOREM RunsEndWell == ASSUME Survives PROVE Spec => []RunEndsWell
<1>1. IInv => RunEndsWell
  BY DEF IInv, TypeInv, CleanInv, AbortInv, RunEndsWell
<1> QED
  BY Invariant, <1>1, PTL

-----------------------------------------------------------------------------
(* The refinement.                                                         *)

LEMMA Starting ==
  /\ \A v : Starts(Menu(v)) = "menu"
  /\ \A c \in {Loader, Old} : Starts(c) = "loader"
  /\ Starts(Nothing) = "nothing"
BY DEF Starts, Menu, Loader, Old, Nothing, File

LEMMA HandoverInit == Init => Takeover!Init
BY Starting, Kinds DEF Init, Sold, Priiloaded, Takeover!Init

(* Most steps change neither the System Menu nor its copy.                 *)
Elsewhere ==
  nand'["app"] = nand["app"] /\ nand'["copy"] = nand["copy"] /\ version' = version

LEMMA ElsewhereStutters == ASSUME Elsewhere PROVE UNCHANGED Takeover!vars
BY DEF Elsewhere, Takeover!vars

LEMMA HandoverStep ==
  ASSUME Survives, IInv, Next
  PROVE  Takeover!Next \/ UNCHANGED Takeover!vars
<1> USE DEF IInv, Elsewhere
<1>1. CASE CopyRead \/ CopyWrite \/ CopyVerify
  <2>1. Elsewhere
    BY <1>1, NotCopiedCases, CopiedCases
    DEF CopyRead, CopyWrite, CopyVerify, LateError, Continue, Load, Copy, Goto, Ends, Aborts, PlaceInv
  <2> QED
    BY <2>1, ElsewhereStutters
<1>2. CASE DeleteOld
  <2>1. CASE phase \in Restores \cup Loads
    <3>1. nand["copy"] = Menu(version) /\ nand'["copy"] = nand["copy"] /\ version' = version
      BY <1>2, <2>1, Dests DEF DeleteOld, Delete, Continue, Goto, TypeInv, MenuInv, Before
    <3>2. nand'["app"] \in {nand["app"], Nothing}
      BY <1>2, <2>1, Dests DEF DeleteOld, Delete, TypeInv
    <3> QED
      BY <3>1, <3>2, Starting, ElsewhereStutters DEF Takeover!Next, Takeover!Vacate
  <2>2. CASE phase \notin Restores \cup Loads
    <3>1. Elsewhere
      BY <1>2, <2>2, Dests DEF DeleteOld, Delete, Continue, Goto, TypeInv, MenuInv
    <3> QED
      BY <3>1, ElsewhereStutters
  <2> QED
    BY <2>1, <2>2
<1>3. CASE CopyRename
  <2>1. CASE phase = "menu"
    <3>1. nand["app"] = Menu(version) /\ nand'["app"] = nand["app"] /\ version' = version
      BY <1>3, <2>1, Dests, CopiedCases, Kinds
      DEF CopyRename, Renamed, NotRenamed, LateError, Load, Goto, TypeInv, MenuInv, MenuKept
    <3>2. nand'["copy"] \in {nand["copy"], Menu(version)}
      BY <1>3, <2>1, Dests DEF CopyRename, Renamed, NotRenamed, TypeInv, StoreInv, Stored, MenuInv
    <3> QED
      BY <3>1, <3>2, Starting, ElsewhereStutters DEF Takeover!Next, Takeover!Save
  <2>2. CASE phase \in Restores
    <3>1. nand["copy"] = Menu(version) /\ nand'["copy"] = nand["copy"] /\ version' = version
      BY <1>3, <2>2, Dests, CopiedCases
      DEF CopyRename, Renamed, NotRenamed, LateError, Goto, Ends, Aborts, TypeInv, MenuInv, Before
    <3>2. nand["app"] = Nothing /\ nand'["app"] \in {Nothing, Menu(version)}
      BY <1>3, <2>2, Dests DEF CopyRename, Renamed, NotRenamed, TypeInv, StoreInv, Stored, MenuInv
    <3> QED
      BY <3>1, <3>2, Starting, ElsewhereStutters DEF Takeover!Next, Takeover!Fill
  <2>3. CASE phase \notin Restores \cup {"menu"}
    <3>1. Elsewhere
      BY <1>3, <2>3, Dests, CopiedCases, NotCopiedCases
      DEF CopyRename, Renamed, NotRenamed, LateError, Load, Copy, Goto, Ends, Aborts, TypeInv, PlaceInv
    <3> QED
      BY <3>1, ElsewhereStutters
  <2> QED
    BY <2>1, <2>2, <2>3
<1>4. CASE LoaderWrite \/ LoaderVerify
  <2>1. nand'["app"] = nand["app"] /\ version' = version
    BY <1>4 DEF LoaderWrite, LoaderVerify, DropCopy, Delete, Continue, Goto, Ends, Aborts, TypeInv
  <2>2. nand'["copy"] = nand["copy"] \/ nand["app"] = Menu(version)
    BY <1>4, WhatMayFail DEF LoaderWrite, LoaderVerify, MenuInv
  <2>3. nand'["copy"] \in {nand["copy"], Nothing}
    BY <1>4 DEF LoaderWrite, LoaderVerify, DropCopy, Delete, TypeInv
  <2> QED
    BY <2>1, <2>2, <2>3, Starting, Kinds, ElsewhereStutters DEF Takeover!Next, Takeover!Drop
<1>5. CASE LoaderRename
  <2>1. nand["copy"] = Menu(version) /\ nand'["copy"] = nand["copy"] /\ version' = version
    BY <1>5, Dests DEF LoaderRename, Renamed, NotRenamed, Copy, Goto, TypeInv, MenuInv, Before
  <2>2. nand'["app"] = nand["app"] \/ (nand["app"] = Nothing /\ nand'["app"] = Loader)
    BY <1>5, Dests DEF LoaderRename, Renamed, NotRenamed, TypeInv, StoreInv, Stored
  <2> QED
    BY <2>1, <2>2, Starting, ElsewhereStutters DEF Takeover!Next, Takeover!Fill
<1>6. CASE Discard
  <2>1. /\ nand["app"] = Menu(version) /\ nand'["app"] = nand["app"] /\ version' = version
        /\ nand'["copy"] = Nothing
    BY <1>6 DEF Discard, DropCopy, Delete, Ends, Aborts, TypeInv, MenuInv
  <2> QED
    BY <2>1, Starting, Kinds DEF Takeover!Next, Takeover!Drop
<1>7. CASE NewMenu
  <2>1. nand'["app"] = Menu(version') /\ nand'["copy"] = Nothing
    BY <1>7 DEF NewMenu, TypeInv
  <2> QED
    BY <2>1, Starting, Kinds DEF Takeover!Next, Takeover!Renew
<1>8. CASE Start \/ Find \/ CopyTicket \/ Check \/ PatchTMD \/ PowerCut
  <2>1. Elsewhere
    BY <1>8, CopiedCases
    DEF Start, Find, CopyTicket, Check, PatchTMD, LookUpBackup, CompareBackup, PatchBuffer, PowerCut,
        Load, Copy, Goto, Ends, Aborts
  <2> QED
    BY <2>1, ElsewhereStutters
<1>9. CASE WriteFiles
  <2>1. Elsewhere
    BY <1>9, AfterFileCases
    DEF WriteFiles, DeleteSettings, FileDelete, FileCreate, FileWrite, VgaCreate, ConfRead, Delete,
        Continue, Goto, Ends, TypeInv
  <2> QED
    BY <2>1, ElsewhereStutters
<1>10. CASE CopyNoMemory
  <2>1. Elsewhere
    BY <1>10, NoMemory
  <2> QED
    BY <2>1, ElsewhereStutters
<1> QED
  BY <1>1, <1>2, <1>3, <1>4, <1>5, <1>6, <1>7, <1>8, <1>9, <1>10 DEF Next, NandCopy, WritePriiloader

(* The installer implements Handover: the System Menu leaves its place     *)
(* only while a whole copy is aside, which is dropped only when it is back.*)
THEOREM InstallerHandsOver == ASSUME Survives PROVE Spec => HandsOver
<1>1. IInv /\ [Next]_vars => Takeover!Next \/ UNCHANGED Takeover!vars
  <2> SUFFICES ASSUME IInv, [Next]_vars PROVE Takeover!Next \/ UNCHANGED Takeover!vars
    OBVIOUS
  <2>1. CASE Next
    BY <2>1, HandoverStep
  <2>2. CASE UNCHANGED vars
    BY <2>2 DEF vars, Takeover!vars
  <2> QED
    BY <2>1, <2>2
<1> QED
  BY Invariant, HandoverInit, <1>1, PTL DEF Spec, HandsOver, Takeover!Spec
=============================================================================
