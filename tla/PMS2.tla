-------------------------------- MODULE PMS2 --------------------------------
(***************************************************************************)
(* The PMS2 power board (main/source/peripherals/pms2.cpp): the thread     *)
(* that updates its firmware, and what the main thread asks of the board   *)
(* meanwhile, kept away by the flag `updating`.                            *)
(*                                                                         *)
(* A call of i2c.c is one step, as ImplementsRegisters of I2C allows.  It  *)
(* may be refused, with or without having taken effect: i2c_writeRead-     *)
(* Buffer() then leaves the answer as it was.  The time the thread sleeps  *)
(* is enough for the board to start its other program.                     *)
(*                                                                         *)
(* The board is external: its bootloader flashes a block if its checksum   *)
(* and its address are right, and its payload knows the settings.          *)
(***************************************************************************)
EXTENDS Naturals, Sequences

CONSTANTS
  Capacity,    \* blocks of the board's flash
  BlockSize,   \* PGM_BLOCK_SIZE and the checksum of a block
  Word,        \* where a u32 overflows
  Files,       \* update files: for this board or not, whole blocks, bytes left
  Retries,     \* PMS_FLASH_RETRIES
  MaxUpdates,  \* bound: updates
  MaxFaults    \* bound: calls that are refused, blocks damaged on their way

ASSUME PMS2Assumption ==
  /\ {Capacity, BlockSize, Word, Retries} \subseteq Nat \ {0}
  /\ {MaxUpdates, MaxFaults} \subseteq Nat
  /\ Files \subseteq [right : BOOLEAN, blocks : 0..Capacity, rest : 0..BlockSize - 1]
  /\ BlockSize * (Capacity + 1) < Word

VARIABLES
  updating, updateSuccess,
  progress,         \* flashedSize, in blocks
  upc,              \* where the update thread is
  file,             \* what updatePath names, or Absent
  tempSize,
  block,            \* of the file: what tempBuffer holds, or Torn
  address,          \* in blocks
  retries,
  writeFlashError,  \* whether it is ERR_NONE
  main,             \* what the main thread asks of the board, or "nothing"
  mode, flash,      \* external: the board
  updates, faults,
  faulty,           \* history: a call was refused since startUpdate()
  unsure            \* history: one of them flashes a block

flags == <<updating, updateSuccess>>
plan == <<file, tempSize, block, address, retries>>
device == <<mode, flash>>
vars == <<flags, progress, upc, plan, writeFlashError, main, device, updates, faults, faulty,
          unsure>>

Absent == [right |-> FALSE, blocks |-> 0, rest |-> 0]
Torn == 0
Blocks == 1..Capacity

(* A block of the flash holds the block of a file, or what was there.      *)
Init ==
  /\ updating = FALSE /\ updateSuccess = FALSE /\ progress = 0
  /\ upc = "none" /\ file = Absent /\ tempSize = 0 /\ block = Torn /\ address = 1
  /\ retries = 0 /\ writeFlashError \in BOOLEAN
  /\ main = "nothing"
  /\ mode \in {"payload", "bootloader"} /\ flash = [b \in Blocks |-> Torn]
  /\ updates = 0 /\ faults = 0 /\ faulty = FALSE /\ unsure = FALSE

(* A call is answered or refused.                                          *)
Answered == UNCHANGED <<faults, faulty>>
IsRefused == faults < MaxFaults /\ faults' = faults + 1 /\ faulty' = TRUE

-----------------------------------------------------------------------------
(* The main thread.                                                        *)

StartUpdate ==
  /\ main = "nothing" /\ updates < MaxUpdates
  /\ IF updating THEN UNCHANGED <<flags, progress, upc, file, writeFlashError, faulty, unsure>>
     ELSE /\ updating' = TRUE /\ updateSuccess' = FALSE /\ progress' = 0
          /\ file' \in Files \cup {Absent} /\ upc' = "open"
          /\ writeFlashError' \in BOOLEAN    \* a local variable that nobody sets
          /\ faulty' = FALSE /\ unsure' = FALSE
  /\ updates' = updates + 1
  /\ UNCHANGED <<tempSize, block, address, retries, main, device, faults>>

(* Mutant: the flag is not looked at.                                      *)
LooksAtNothing ==
  /\ main = "nothing"
  /\ main' = "setting"
  /\ UNCHANGED <<flags, progress, upc, plan, writeFlashError, device, updates, faults, faulty,
                 unsure>>

(* Getters and setters look at the flag first, and talk to the board when  *)
(* they have released updateMutex; getVer() does not look.                 *)
LooksAtFlag ==
  /\ main = "nothing" /\ ~updating
  /\ main' = "setting"
  /\ UNCHANGED <<flags, progress, upc, plan, writeFlashError, device, updates, faults, faulty,
                 unsure>>

Asks ==
  /\ main = "setting"
  /\ main' = "nothing"
  /\ UNCHANGED <<flags, progress, upc, plan, writeFlashError, device, updates, faults, faulty,
                 unsure>>

-----------------------------------------------------------------------------
(* The update thread.                                                      *)

Goes(from, to) == upc = from /\ upc' = to

SetFlags(success) == updating' = FALSE /\ updateSuccess' = success

(* It opens the file and looks for which board it is.                      *)
OpenFile ==
  /\ IF file.right
     THEN Goes("open", "bootbl") /\ UNCHANGED flags
     ELSE Goes("open", "ended") /\ SetFlags(FALSE)
  /\ UNCHANGED <<progress, plan, writeFlashError, main, device, updates, faults, faulty, unsure>>

BootBootloader ==
  /\ Goes("bootbl", "read")
  /\ \/ Answered /\ mode' = "bootloader"
     \/ IsRefused /\ mode' \in {mode, "bootloader"}
  /\ tempSize' = (BlockSize * file.blocks + file.rest) % Word
  /\ address' = 1
  /\ UNCHANGED <<flags, progress, file, block, retries, writeFlashError, main, flash, updates,
                 unsure>>

(* At the end of the file, fread() leaves the block before in tempBuffer,  *)
(* or the end of it.                                                       *)
ReadBlock ==
  /\ IF tempSize = 0 THEN Goes("read", "bootpayload") ELSE Goes("read", "flash")
  /\ block' = IF address <= file.blocks THEN address
              ELSE IF address = file.blocks + 1 /\ file.rest > 0 THEN Torn ELSE block
  /\ retries' = Retries
  /\ UNCHANGED <<flags, progress, file, tempSize, address, writeFlashError, main, device, updates,
                 faults, faulty, unsure>>

(* What the board does with a block that reaches it undamaged.             *)
Takes == mode = "bootloader" /\ block # Torn /\ address \in Blocks
Flashed == flash' = IF Takes THEN [flash EXCEPT ![address] = block] ELSE flash

WriteFlash ==
  /\ upc = "flash" /\ retries > 0
  /\ retries' = retries - 1
  /\ \/ Flashed /\ writeFlashError' = ~Takes /\ Answered /\ unsure' = unsure
     \/ /\ UNCHANGED <<flash, unsure, faulty>>    \* damaged: ERR_WRONGCRC
        /\ faults < MaxFaults /\ faults' = faults + 1 /\ writeFlashError' = TRUE
     \/ /\ IsRefused /\ unsure' = TRUE /\ (Flashed \/ flash' = flash)
        /\ writeFlashError' = writeFlashError
  /\ upc' = IF ~writeFlashError' THEN "next" ELSE "flash"
  /\ UNCHANGED <<flags, progress, file, tempSize, block, address, main, mode, updates>>

(* Mutant: a block that could not be flashed does not end the update.      *)
GivesUpOnBlock ==
  /\ Goes("flash", "next") /\ retries = 0
  /\ UNCHANGED <<flags, progress, plan, writeFlashError, main, device, updates, faults, faulty,
                 unsure>>

GivesUp ==
  /\ Goes("flash", "abort") /\ retries = 0
  /\ UNCHANGED <<flags, progress, plan, writeFlashError, main, device, updates, faults, faulty,
                 unsure>>

(* Mutant: the checksum of a block is not counted.                         *)
NextBlockShort ==
  /\ Goes("next", "read")
  /\ tempSize' = (tempSize + Word - (BlockSize - 1)) % Word
  /\ address' = address + 1 /\ progress' = progress + 1
  /\ UNCHANGED <<flags, file, block, retries, writeFlashError, main, device, updates, faults,
                 faulty, unsure>>

NextBlock ==
  /\ Goes("next", "read")
  /\ tempSize' = (tempSize + Word - BlockSize) % Word
  /\ address' = address + 1 /\ progress' = progress + 1
  /\ UNCHANGED <<flags, file, block, retries, writeFlashError, main, device, updates, faults,
                 faulty, unsure>>

(* A board whose flash was written in part may fail to start.              *)
BootPayload ==
  /\ \/ Goes("bootpayload", "success") \/ Goes("abort", "failure")
  /\ \/ Answered /\ mode' \in IF upc = "abort" THEN {"payload", "bootloader"} ELSE {"payload"}
     \/ IsRefused /\ mode' \in {mode, "payload"}
  /\ UNCHANGED <<flags, progress, plan, writeFlashError, main, flash, updates, unsure>>

Ends ==
  /\ \/ Goes("success", "ended") /\ SetFlags(TRUE)
     \/ Goes("failure", "ended") /\ SetFlags(FALSE)
  /\ UNCHANGED <<progress, plan, writeFlashError, main, device, updates, faults, faulty, unsure>>

Updater ==
  \/ OpenFile \/ BootBootloader \/ ReadBlock \/ WriteFlash \/ GivesUp \/ NextBlock
  \/ BootPayload \/ Ends

Next == StartUpdate \/ LooksAtFlag \/ Asks \/ Updater

Spec == Init /\ [][Next]_vars /\ WF_vars(Updater)

-----------------------------------------------------------------------------
TypeOK ==
  /\ updating \in BOOLEAN /\ updateSuccess \in BOOLEAN /\ writeFlashError \in BOOLEAN
  /\ progress \in Nat /\ address \in Nat /\ tempSize \in 0..Word - 1
  /\ upc \in {"none", "open", "bootbl", "read", "flash", "next", "abort", "bootpayload",
              "success", "failure", "ended"}
  /\ updating = (upc \notin {"none", "ended"})
  /\ file \in Files \cup {Absent} /\ block \in Nat /\ retries \in 0..Retries
  /\ main \in {"nothing", "setting"}
  /\ mode \in {"payload", "bootloader"} /\ flash \in [Blocks -> Nat]
  /\ updates \in 0..MaxUpdates /\ faults \in 0..MaxFaults
  /\ faulty \in BOOLEAN /\ unsure \in BOOLEAN

(* FlashedWhole: an update that reports success has every block of its     *)
(* file in the flash, and the file had no part of a block left: whatever   *)
(* was damaged on the way, and whatever an earlier update left behind.     *)
(* Excepted are updates of which the board refused a block altogether:     *)
(* updateThread() does not look at i2c_writeReadBuffer()'s error, and      *)
(* takes the answer to the block before for this one's.                    *)
FlashedWhole ==
  updateSuccess /\ ~unsure => file.rest = 0 /\ \A b \in 1..file.blocks : flash[b] = b

(* CleanUpdateSucceeds: an update with a whole file and no call refused    *)
(* succeeds and leaves the payload running, although some of its blocks    *)
(* were damaged on the way and an earlier update left the bootloader.      *)
CleanUpdateSucceeds ==
  upc = "ended" /\ file.right /\ file.rest = 0 /\ ~faulty /\ faults < Retries
    => updateSuccess /\ mode = "payload"

(* BoardUndisturbed: a getter or a setter never reaches a board that is    *)
(* being updated, which its look at `updating` is enough for since updates *)
(* are started by the same thread; and after a clean update it finds the   *)
(* payload.                                                                *)
BoardUndisturbed ==
  [][Asks => ~updating /\ (updateSuccess /\ ~faulty => mode = "payload")]_vars

(* UpdateEnds: every update ends.                                          *)
UpdateEnds == updating ~> ~updating
=============================================================================
