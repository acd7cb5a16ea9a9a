----------------------------- MODULE Priiloader -----------------------------
(***************************************************************************)
(* The installation of Priiloader in the place of the System Menu          *)
(* (installer/source/priiloader.cpp): the System Menu's application is     *)
(* copied aside, Priiloader takes its path, the title's TMD is backed up   *)
(* and patched, and Priiloader's own files are written.  Every change of   *)
(* the NAND is a step of its own; the power may go between any two, and    *)
(* the installer can then be run again, or after Nintendo's updater has    *)
(* installed another System Menu.                                          *)
(*                                                                         *)
(* The NAND is external: a file is deleted or renamed as a whole or not at *)
(* all, a rename fails when its target exists, and a file that is being    *)
(* written when the power goes is cut short.  The content of a file is     *)
(* what it is, not its bytes; comparing SHA1 hashes tells whether it is    *)
(* what was written.  /tmp holds one file: what is left there is deleted   *)
(* before it is used again.  At most one call fails in a run.              *)
(***************************************************************************)
EXTENDS Naturals

CONSTANTS
  MaxVersion,  \* bound: System Menus that are installed, one after another
  Faults       \* the phases, and the steps in which a call may fail there

(* What a run does, in order: the copies it makes with nand_copy() of a    *)
(* file or of tmd_buf, Priiloader's application, and its own files.        *)
Restores == {"restore", "restoreOnly"}
FileCopies == {"ticket", "menu", "revert"} \cup Restores
Backups == {"backup", "rebackup"}
BufferCopies == Backups \cup {"patch", "patchBlind"}
Copies == FileCopies \cup BufferCopies
Loads == {"install", "update"}
Patches == {"decide", "decideBlind", "decideUnsure"}
DataFiles == {"main.bin", "main.nfo", "loader.ini", "vga.bin", "SYSCONF"}
Phases == {"off", "find", "check", "discard", "lookup", "compare", "settings"}
            \cup Copies \cup Loads \cup Patches \cup DataFiles
Steps == {"start", "read", "write", "verify", "delete", "rename", "create"}
Failures == Steps \cup {"memory"}  \* no memory for the file to be copied

ASSUME PriiloaderAssumption ==
  /\ MaxVersion \in Nat \ {0}
  /\ Faults \subseteq Phases \X Failures

(* Calls after whose failure a run leaves nothing worse than what it found. *)
(* The others are those whose failure is taken for an answer (no copy, no  *)
(* backup), reported as success by nand_copy(), or answered by deleting    *)
(* the only copy of the System Menu or by reverting to another version's   *)
(* TMD; and the writes nobody looks at.                                    *)
Survivable ==
  (Phases \X Failures) \
    ({<<"find", "read">>, <<"lookup", "read">>, <<"compare", "read">>}
       \cup {"menu"} \X {"memory", "verify", "rename"} \cup {"update"} \X {"write", "verify"}
       \cup {"rebackup"} \X {"write", "verify", "delete"}
       \cup {"main.bin", "main.nfo"} \X {"write"})

Files == {"app", "copy", "tmd", "backupTmd", "ticket"} \cup DataFiles

(* Contents of files.                                                      *)
File(what, v) == [what |-> what, ver |-> v]
Contents == [what : {"none", "part", "whole", "old", "menu", "loader",
                     "tmd", "patched", "oldPatch"},
             ver : 0..MaxVersion]
Nothing == File("none", 0)
Part == File("part", 0)
Whole == File("whole", 0)          \* as this installer writes it
Old == File("old", 0)              \* of an earlier Priiloader, or the user's
Loader == File("loader", 0)        \* priiloader_app
Menu(v) == File("menu", v)
Tmd(v) == File("tmd", v)           \* as Nintendo wrote it
Patched(v) == File("patched", v)   \* with Priiloader's hash and AHBPROT
IsTmd(c) == c.what \in {"tmd", "patched", "oldPatch"}

VARIABLES
  nand,     \* what is at each path
  tmp,      \* the file in /tmp
  data,     \* what was last read of a file
  tmdBuf,   \* tmd_buf
  found,    \* _Prii_Found
  phase,    \* what the installer is at; "off" when it does not run
  step,     \* and how far
  slip,     \* whether a call has failed in this run
  result,   \* how the last run ended
  version,  \* external: which System Menu is installed
  booted    \* history: whether the console could boot when the run began

memory == <<data, tmdBuf, found>>
vars == <<nand, tmp, memory, phase, step, slip, result, version, booted>>

Source(p) ==
  CASE p = "ticket" -> Whole           \* "should be there on every wii"
    [] p = "menu" -> nand["app"]
    [] p \in Restores -> nand["copy"]
    [] p = "revert" -> nand["backupTmd"]

Dest(p) ==
  CASE p = "ticket" -> "ticket"
    [] p = "menu" -> "copy"
    [] p \in Restores \cup Loads -> "app"
    [] p \in Backups -> "backupTmd"
    [] OTHER -> "tmd"

Boots == nand["app"].what \in {"menu", "loader", "old"} /\ IsTmd(nand["tmd"])

(* A console as Nintendo sold it, or with an earlier Priiloader.           *)
Sold ==
  [f \in Files |->
     CASE f = "app" -> Menu(1) [] f = "tmd" -> Tmd(1) [] f = "SYSCONF" -> Old
       [] OTHER -> Nothing]
Priiloaded ==
  [f \in Files |->
     CASE f = "copy" -> Menu(1) [] f = "tmd" -> File("oldPatch", 1)
       [] f = "backupTmd" -> Tmd(1) [] f = "vga.bin" -> Nothing [] OTHER -> Old]

Init ==
  /\ nand \in {Sold, Priiloaded}
  /\ tmp = Nothing /\ data = Nothing /\ tmdBuf = Nothing /\ found = FALSE
  /\ phase = "off" /\ step = "start" /\ slip = FALSE /\ result = "none"
  /\ version = 1 /\ booted = TRUE

-----------------------------------------------------------------------------
(* How a step goes on.                                                     *)

Works == UNCHANGED slip
FailsAt(s) == ~slip /\ <<phase, s>> \in Faults /\ slip' = TRUE
Fails == FailsAt(step)

Goto(p, s) == phase' = p /\ step' = s /\ UNCHANGED <<result, version, booted>>
Continue(s) == Goto(phase, s)

(* abort() and exit().                                                     *)
Ends(how) ==
  /\ phase' = "off" /\ step' = "start" /\ result' = how
  /\ UNCHANGED <<version, booted>>
Aborts == Ends("aborted")

Copy(p) == Goto(p, IF p \in FileCopies THEN "read" ELSE "write")
Load == Goto(IF found THEN "update" ELSE "install", "write")

(* The caller of nand_copy() when it returns no error.                     *)
Copied ==
  CASE phase = "ticket" -> IF found THEN Load ELSE Copy("menu")
    [] phase = "menu" -> Load
    [] phase = "restore" -> Goto("discard", "delete")
    [] phase \in {"restoreOnly", "revert"} -> Aborts
    [] phase = "backup" -> Goto("compare", "read")
    [] phase = "rebackup" -> Goto("decide", "write")
    [] phase = "patch" -> Goto("settings", "delete")
    [] phase = "patchBlind" -> Copy("revert")

(* Mutant: a TMD that could not be written is not reverted.                *)
NotCopiedNoRevert ==
  IF phase = "restore" THEN Goto("discard", "delete") ELSE Aborts

(* And when it returns an error: what it returns when the menu is restored *)
(* or the TMD reverted is ignored.                                         *)
NotCopied ==
  CASE phase \in {"ticket", "menu", "restoreOnly", "revert"} -> Aborts
    [] phase = "restore" -> Goto("discard", "delete")
    [] phase \in BufferCopies -> Copy("revert")

-----------------------------------------------------------------------------
(* nand_copy().  The copy of a file keeps its errors from the verification *)
(* on in a u8, which is never negative, and then returns 1 (line 416).     *)

CopyRead ==
  /\ phase \in FileCopies /\ step = "read"
  /\ \/ /\ Works /\ Source(phase) # Nothing
        /\ data' = Source(phase) /\ Continue("write")
     \/ Fails /\ NotCopied /\ UNCHANGED data
     \/ Works /\ Source(phase) = Nothing /\ NotCopied /\ UNCHANGED data
  /\ UNCHANGED <<nand, tmp, tmdBuf, found>>

(* Without memory for the file it returns 0, which is no error.            *)
CopyNoMemory ==
  /\ phase \in FileCopies /\ step = "read" /\ Source(phase) # Nothing
  /\ FailsAt("memory") /\ Copied
  /\ UNCHANGED <<nand, tmp, memory>>

CopyWrite ==
  /\ phase \in Copies /\ step = "write"
  /\ \/ /\ Works /\ Continue("verify")
        /\ tmp' = IF phase \in FileCopies THEN data ELSE tmdBuf
     \/ Fails /\ NotCopied /\ tmp' = Nothing
  /\ UNCHANGED <<nand, memory>>

LateError == IF phase \in FileCopies THEN Copied ELSE NotCopied

CopyVerify ==
  /\ phase \in Copies /\ step = "verify"
  /\ (Works /\ Continue("delete")) \/ (Fails /\ LateError)
  /\ UNCHANGED <<nand, tmp, memory>>

Delete(f) == nand' = [nand EXCEPT ![f] = Nothing]

DeleteOld ==
  /\ phase \in Copies \cup Loads /\ step = "delete"
  /\ (Works /\ Delete(Dest(phase))) \/ (Fails /\ UNCHANGED nand)
  /\ Continue("rename")
  /\ UNCHANGED <<tmp, memory>>

Renamed == nand' = [nand EXCEPT ![Dest(phase)] = tmp] /\ tmp' = Nothing
NotRenamed ==
  /\ (Fails \/ (Works /\ nand[Dest(phase)] # Nothing))
  /\ UNCHANGED <<nand, tmp>>

CopyRename ==
  /\ phase \in Copies /\ step = "rename"
  /\ \/ Works /\ nand[Dest(phase)] = Nothing /\ Renamed /\ Copied
     \/ NotRenamed /\ LateError
  /\ UNCHANGED memory

-----------------------------------------------------------------------------
(* installPriiloader() up to the ticket.                                   *)

(* Mutant: the TMD's size is not looked at.                                *)
StartUnchecked ==
  /\ phase = "off" /\ step = "start"
  /\ booted' = Boots
  /\ slip' = FALSE /\ tmdBuf' = nand["tmd"]
  /\ phase' = "find" /\ step' = "read" /\ result' = "none"
  /\ UNCHANGED <<nand, tmp, data, found, version>>

(* Nothing can be done without the TMD of the System Menu.                 *)
Start ==
  /\ phase = "off" /\ step = "start"
  /\ booted' = Boots
  /\ IF IsTmd(nand["tmd"])
     THEN /\ slip' = FALSE /\ tmdBuf' = nand["tmd"]
          /\ phase' = "find" /\ step' = "read" /\ result' = "none"
     ELSE /\ slip' = FALSE /\ result' = "aborted"
          /\ UNCHANGED <<tmdBuf, phase, step>>
  /\ UNCHANGED <<nand, tmp, data, found, version>>

(* CheckForPriiloader(): Priiloader is there if the copy of the System     *)
(* Menu is.                                                                *)
Find ==
  /\ phase = "find"
  /\ \/ Works /\ found' = (nand["copy"] # Nothing)
     \/ Fails /\ found' = FALSE
  /\ Goto("ticket", "start")
  /\ UNCHANGED <<nand, tmp, data, tmdBuf>>

CopyTicket ==
  /\ phase = "ticket" /\ step = "start"
  /\ \/ Works /\ nand["ticket"] = Nothing /\ Copy("ticket")
     \/ Works /\ nand["ticket"] # Nothing /\ Copied
     \/ Fails /\ Aborts
  /\ UNCHANGED <<nand, tmp, memory>>

-----------------------------------------------------------------------------
(* WritePriiloader().                                                      *)

DropCopy == Delete("copy")

LoaderWrite ==
  /\ phase \in Loads /\ step = "write"
  /\ \/ Works /\ tmp' = Loader /\ Continue("verify") /\ UNCHANGED nand
     \/ Fails /\ Aborts /\ tmp' = Nothing /\ (DropCopy \/ UNCHANGED nand)
  /\ UNCHANGED memory

LoaderVerify ==
  /\ phase \in Loads /\ step = "verify"
  /\ (Works /\ Continue("delete") /\ UNCHANGED nand) \/ (Fails /\ DropCopy /\ Aborts)
  /\ UNCHANGED <<tmp, memory>>

(* Mutant: the copy is dropped before it has been put back.                *)
LoaderRenameDropsCopy ==
  /\ phase \in Loads /\ step = "rename"
  /\ \/ Works /\ nand["app"] = Nothing /\ Renamed /\ Goto("check", "verify")
     \/ (Fails \/ (Works /\ nand["app"] # Nothing)) /\ DropCopy /\ Copy("restore") /\ tmp' = tmp
  /\ UNCHANGED memory

LoaderRename ==
  /\ phase \in Loads /\ step = "rename"
  /\ \/ Works /\ nand["app"] = Nothing /\ Renamed /\ Goto("check", "verify")
     \/ NotRenamed /\ Copy("restore")
  /\ UNCHANGED memory

(* Priiloader is read back once more from its place.                       *)
Check ==
  /\ phase = "check"
  /\ (Works /\ Goto("lookup", "read")) \/ (Fails /\ \E p \in Restores : Copy(p))
  /\ UNCHANGED <<nand, tmp, memory>>

Discard == phase = "discard" /\ Works /\ DropCopy /\ Aborts /\ UNCHANGED <<tmp, memory>>

-----------------------------------------------------------------------------
(* PatchTMD(0).                                                            *)

LookUpBackup ==
  /\ phase = "lookup"
  /\ \/ Works /\ IF nand["backupTmd"] = Nothing THEN Copy("backup")
                 ELSE Goto("compare", "read")
     \/ Fails /\ Copy("backup")
  /\ UNCHANGED <<nand, tmp, memory>>

(* Mutant: the versions are not compared.                                  *)
CompareBackupAny ==
  /\ phase = "compare"
  /\ Works /\ Goto("decide", "write")
  /\ UNCHANGED <<nand, tmp, memory>>

(* If the backup cannot be opened the TMD is patched all the same and then *)
(* reverted (line 766); if it cannot be read, only when nothing changes.   *)
CompareBackup ==
  /\ phase = "compare"
  /\ \/ Works /\ IF nand["backupTmd"].ver # tmdBuf.ver THEN Copy("rebackup")
                 ELSE Goto("decide", "write")
     \/ Fails /\ \E p \in {"decideBlind", "decideUnsure"} : Goto(p, "write")
  /\ UNCHANGED <<nand, tmp, memory>>

PatchBuffer ==
  /\ phase \in Patches
  /\ Works
  /\ tmdBuf' = Patched(tmdBuf.ver)
  /\ IF tmdBuf' # tmdBuf THEN Copy(IF phase = "decideBlind" THEN "patchBlind" ELSE "patch")
     ELSE IF phase = "decide" THEN Goto("settings", "delete") ELSE Copy("revert")
  /\ UNCHANGED <<nand, tmp, data, found>>

-----------------------------------------------------------------------------
(* Priiloader's own files, and SYSCONF.                                    *)

AfterFile(f) ==
  CASE f = "main.bin" -> Goto("main.nfo", "delete")
    [] f = "main.nfo" -> Goto("loader.ini", "delete")
    [] f = "loader.ini" -> Goto("vga.bin", "delete")
    [] f = "vga.bin" -> Goto("SYSCONF", "read")
    [] f = "SYSCONF" -> Ends("complete")

(* Mutant: the settings of an earlier installation stay.                   *)
DeleteSettingsNot ==
  /\ phase = "settings"
  /\ Works /\ nand' = nand /\ Goto("main.bin", "delete")
  /\ UNCHANGED <<tmp, memory>>

(* Delete_Priiloader_Files(): settings, password and, at the first         *)
(* installation, hacks.                                                    *)
DeleteSettings ==
  /\ phase = "settings"
  /\ Works /\ Delete("loader.ini") /\ Goto("main.bin", "delete")
  /\ UNCHANGED <<tmp, memory>>

FileDelete ==
  /\ phase \in DataFiles /\ step = "delete"
  /\ Works /\ Delete(phase) /\ Continue("create")
  /\ UNCHANGED <<tmp, memory>>

FileCreate ==
  /\ phase \in DataFiles \ {"vga.bin"} /\ step = "create"
  /\ Works /\ nand' = [nand EXCEPT ![phase] = Part] /\ Continue("write")
  /\ UNCHANGED <<tmp, memory>>

(* Nobody looks at what ISFS_Write() returns.                              *)
FileWrite ==
  /\ phase \in DataFiles /\ step = "write"
  /\ \/ Works /\ nand' = [nand EXCEPT ![phase] = IF phase = "SYSCONF" THEN data ELSE Whole]
     \/ Fails /\ UNCHANGED nand
  /\ AfterFile(phase)
  /\ UNCHANGED <<tmp, memory>>

(* An empty file, if VGA was chosen.                                       *)
VgaCreate ==
  /\ phase = "vga.bin" /\ step = "create"
  /\ Works /\ nand' \in {nand, [nand EXCEPT !["vga.bin"] = Whole]} /\ AfterFile(phase)
  /\ UNCHANGED <<tmp, memory>>

(* SYSCONF is read, changed and written again; what ISFS_Read() returns is *)
(* ignored.                                                                *)
ConfRead ==
  /\ phase = "SYSCONF" /\ step = "read"
  /\ \/ /\ nand["SYSCONF"] # Nothing
        /\ \/ Works /\ data' = IF nand["SYSCONF"] = Part THEN Part ELSE Whole
           \/ Fails /\ data' = Part
        /\ Continue("delete")
     \/ /\ (Works /\ nand["SYSCONF"] = Nothing) \/ Fails
        /\ AfterFile("SYSCONF") /\ UNCHANGED data
  /\ UNCHANGED <<nand, tmp, tmdBuf, found>>

-----------------------------------------------------------------------------
(* The power goes.                                                         *)
PowerCut ==
  /\ phase # "off"
  /\ Ends("cut")
  /\ slip' = FALSE
  /\ data' = Nothing /\ tmdBuf' = Nothing /\ found' = FALSE
  /\ UNCHANGED <<nand, tmp>>

(* Nintendo's updater installs the next System Menu, whose application has *)
(* another name and so no copy yet.                                        *)
NewMenu ==
  /\ phase = "off" /\ Boots
  /\ version < MaxVersion
  /\ version' = version + 1
  /\ nand' = [nand EXCEPT !["app"] = Menu(version + 1), !["tmd"] = Tmd(version + 1),
                          !["copy"] = Nothing]
  /\ result' = "none"
  /\ UNCHANGED <<tmp, memory, phase, step, slip, booted>>

NandCopy == CopyRead \/ CopyNoMemory \/ CopyWrite \/ CopyVerify \/ DeleteOld \/ CopyRename
WritePriiloader == LoaderWrite \/ LoaderVerify \/ LoaderRename \/ Check \/ Discard
PatchTMD == LookUpBackup \/ CompareBackup \/ PatchBuffer
WriteFiles == DeleteSettings \/ FileDelete \/ FileCreate \/ FileWrite \/ VgaCreate \/ ConfRead

Next ==
  \/ Start \/ Find \/ CopyTicket \/ NandCopy \/ WritePriiloader \/ PatchTMD \/ WriteFiles
  \/ PowerCut \/ NewMenu

Spec == Init /\ [][Next]_vars

-----------------------------------------------------------------------------
(* The variables have the types of the code's; while the installer runs    *)
(* tmd_buf holds the installed System Menu's TMD, and what is renamed into *)
(* its place has been written and read back whole.                         *)
TypeOK ==
  /\ nand \in [Files -> Contents] /\ tmp \in Contents
  /\ data \in Contents /\ tmdBuf \in Contents /\ found \in BOOLEAN
  /\ phase \in Phases /\ step \in Steps
  /\ slip \in BOOLEAN /\ result \in {"none", "complete", "aborted", "cut"}
  /\ version \in 1..MaxVersion /\ booted \in BOOLEAN
  /\ phase # "off" => IsTmd(tmdBuf) /\ tmdBuf.ver = version
  /\ step = "rename" => tmp = (IF phase \in Loads THEN Loader
                               ELSE IF phase \in FileCopies THEN data ELSE tmdBuf)

(* The System Menu is never lost: its application is at its own path or in *)
(* the copy (priiloader.cpp 929-1130), whatever is cut off or run again.   *)
MenuKept == Menu(version) \in {nand["app"], nand["copy"]}

(* The System Menu's TMD is there or can be put back, it is never that of  *)
(* another version, and the backup is Nintendo's own, never a patched one  *)
(* (PatchTMD, 597-830).                                                    *)
TmdKept ==
  /\ IsTmd(nand["tmd"]) \/ IsTmd(nand["backupTmd"])
  /\ IsTmd(nand["tmd"]) => nand["tmd"].ver = version
  /\ nand["backupTmd"] = Nothing \/ nand["backupTmd"].what = "tmd"

(* The settings that make Priiloader boot main.bin are there only when     *)
(* main.bin and main.nfo are, although the files are written one after     *)
(* another and over those of an earlier installation.                      *)
AutobootHasTarget ==
  nand["loader.ini"] = Whole => nand["main.bin"] = Whole /\ nand["main.nfo"] = Whole

Installed ==
  /\ nand["app"] = Loader /\ nand["copy"] = Menu(version)
  /\ nand["tmd"] = Patched(version) /\ nand["backupTmd"] = Tmd(version)
  /\ nand["ticket"] # Nothing
  /\ \A f \in {"main.bin", "main.nfo", "loader.ini"} : nand[f] = Whole

(* A run in which no call fails completes and leaves everything in place,  *)
(* whatever an earlier one that was cut off or aborted has left behind,    *)
(* unless that took the TMD; and a run that aborts leaves a console that   *)
(* can boot, if it could before.                                           *)
RunEndsWell ==
  phase = "off" =>
    /\ result = "complete" /\ ~slip => Installed
    /\ result = "aborted" /\ ~slip => ~IsTmd(nand["tmd"])
    /\ result = "aborted" /\ booted => Boots

(* What the console starts from the System Menu's path.                    *)
Starts(app) ==
  CASE app.what = "menu" -> "menu"
    [] app.what \in {"loader", "old"} -> "loader"
    [] OTHER -> "nothing"

Takeover == INSTANCE Handover WITH
  boots <- Starts(nand["app"]),
  saved <- nand["copy"] = Menu(version)

(* The installer implements Handover: at no time is the System Menu out of *)
(* its place without a whole copy aside, and the copy is dropped only when *)
(* the System Menu is back.                                                *)
HandsOver == Takeover!Spec

=============================================================================
