------------------------------- MODULE GCPlus -------------------------------
(***************************************************************************)
(* The GC+ 2.0 controller board (main/source/peripherals/gcplus.cpp): the  *)
(* sessions in which the main thread talks to it, the thread that updates  *)
(* its firmware, and the mutex GCPMutex between them.                      *)
(*                                                                         *)
(* A transfer is one step: whoever makes it holds GCPMutex.  It can fail   *)
(* with or without having reached the board: "timeout" when no callback    *)
(* came, "error" when padCallback() was given an error, which it does not  *)
(* look at; `answer` then holds what is left in the serial interface's     *)
(* buffer, the command, which is no GCP_ERR_NONE.                          *)
(*                                                                         *)
(* The board is external: it is locked until it gets the key, it starts    *)
(* locked, and runs a bootloader, which flashes, or the payload.           *)
(***************************************************************************)
EXTENDS Integers, Sequences

CONSTANTS
  Packets,       \* binarySize / FLASH_PACKET_SIZE
  BlockPackets,  \* FLASH_BLOCK_SIZE / FLASH_PACKET_SIZE
  Payload,       \* the packets of the update file
  NotFlashed,    \* what the flash holds elsewhere
  Config,        \* what writeEEPROM() is to write, in packets
  Unset,         \* any other content of the EEPROM or of a buffer
  Retries,       \* EEPROM_RETRIES
  Keeps,         \* whether the EEPROM keeps what is written: what it can be
  Mappings,      \* button mappings
  Kinds,         \* the sessions the main thread makes
  MaxSessions,   \* bound: sessions of a behaviour
  MaxFaults      \* bound: transfers that fail

Sessions == {"detect", "map", "read", "save", "saveBoth", "version", "resetSticks",
             "rebuildLUT", "update"}
PacketIndices == 0 .. Packets - 1
BufferIndices == 0 .. BlockPackets - 1
Cells == {Config[i] : i \in DOMAIN Config} \cup {Unset}

ASSUME GCPlusAssumption ==
  /\ Packets \in Nat \ {0} /\ BlockPackets \in Nat \ {0} /\ Retries \in Nat \ {0}
  /\ DOMAIN Payload = PacketIndices
  /\ Config \in Seq(Cells) /\ Config # <<>>
  /\ TRUE \in Keeps /\ Keeps \subseteq BOOLEAN /\ Kinds \subseteq Sessions
  /\ MaxSessions \in Nat /\ MaxFaults \in Nat

VARIABLES
  holder,      \* GCPMutex: "none", "main" or "updater"
  todo,        \* main: the calls its session has still to make
  at,          \* main: where it is in the first of them, or "call"
  session,     \* main: kind of its session, or of the last one
  mapping,     \* main: what setMapping() is to set
  written,     \* writeEEPROM(), readEEPROM(): packets done
  tries,       \* writeEEPROM(): i of the retry loop
  test,        \* writeEEPROM(): what was read back
  answer,      \* writeEEPROM(): the answer to the write
  verified,    \* whether the last writeEEPROM() of the session returned true
  upc,         \* update thread: what it does next
  file,        \* whether the update file can be read
  sent,        \* flashPayload(): packets sent
  packetIndex, \* flashPayload(): those of them in this block
  address,     \* flashPayload(): where the block goes, in packets
  goal,        \* update thread: FALSE after `goto fail`
  updating, updateSuccess,
  updateProgress, \* in packets: 100 * n / total is 100 for n = total only
  mode,        \* board: "payload" or "bootloader"
  unlocked,    \* board
  idx, buffer, \* board: the buffer of a block and where it is filled
  flash,       \* board: what it holds from FLASH_BASE_ADDRESS on
  eeprom,      \* board
  map,         \* board: the mapping's two bytes
  sessions,    \* counts the sessions
  faults,      \* counts the transfers that failed
  faulty       \* whether a transfer of this session, or this update, failed

board == <<mode, unlocked, idx, buffer, flash, eeprom, map>>
eepromCall == <<written, tries, test, answer, verified>>
flashCall == <<sent, packetIndex, address>>
main == <<todo, at, session, mapping, sessions, eepromCall>>
updater == <<upc, file, goal, updating, updateSuccess, updateProgress, flashCall>>
vars == <<holder, main, updater, board, faults, faulty>>

FlashAddresses == 0 .. Packets + BlockPackets - 1
Pages == {Payload[i] : i \in PacketIndices} \cup {NotFlashed}
Threads == {"main", "updater"}

Init ==
  /\ holder = "none" /\ todo = <<>> /\ at = "call" /\ session = "detect"
  /\ mapping \in Mappings
  /\ written = 0 /\ tries = 0 /\ test = Unset /\ answer = "none" /\ verified = FALSE
  /\ upc = "none" /\ file = FALSE /\ goal = TRUE
  /\ sent = 0 /\ packetIndex = 0 /\ address = 0
  /\ updating = FALSE /\ updateSuccess = FALSE /\ updateProgress = 0
  /\ mode \in {"payload", "bootloader"} /\ unlocked = FALSE
  /\ idx \in 0 .. BlockPackets
  /\ buffer = [i \in BufferIndices |-> NotFlashed]
  /\ flash = [a \in FlashAddresses |-> NotFlashed]
  /\ eeprom = [i \in DOMAIN Config |-> Unset]
  /\ map = <<mapping, mapping>>
  /\ sessions = 0 /\ faults = 0 /\ faulty = [t \in Threads |-> FALSE]

-----------------------------------------------------------------------------
(* The board: how it obeys a command, or refuses it.                       *)

Starts(m) ==
  /\ mode' = m /\ unlocked' = FALSE /\ idx' \in 0 .. BlockPackets
  /\ UNCHANGED <<buffer, flash, eeprom, map>>

Needs ==
  [unlock |-> {"payload", "bootloader"}, lock |-> {"payload", "bootloader"},
   version |-> {"payload", "bootloader"}, reset |-> {"payload", "bootloader"},
   bootbl |-> {"payload"}, map0 |-> {"payload"}, map1 |-> {"payload"},
   write |-> {"payload"}, read |-> {"payload"},
   resetidx |-> {"bootloader"}, fill |-> {"bootloader"},
   flash |-> {"bootloader"}, bootpayload |-> {"bootloader"}]

Accepts(c) ==
  /\ mode \in Needs[c.cmd]
  /\ c.cmd \in {"unlock", "lock"} \/ unlocked
  /\ c.cmd = "fill" => idx < BlockPackets

Obeys(c) ==
  \/ /\ c.cmd \in {"unlock", "lock"}
     /\ unlocked' = (c.cmd = "unlock")
     /\ UNCHANGED <<mode, idx, buffer, flash, eeprom, map>>
  \/ c.cmd \in {"version", "read"} /\ UNCHANGED board
  \/ c.cmd = "bootbl" /\ Starts("bootloader")
  \/ c.cmd \in {"bootpayload", "reset"} /\ Starts("payload")
  \/ /\ c.cmd = "resetidx"
     /\ idx' = 0
     /\ UNCHANGED <<mode, unlocked, buffer, flash, eeprom, map>>
  \/ /\ c.cmd = "fill"
     /\ buffer' = [buffer EXCEPT ![idx] = c.val]
     /\ idx' = idx + 1
     /\ UNCHANGED <<mode, unlocked, flash, eeprom, map>>
  \/ /\ c.cmd = "flash"
     /\ flash' = [a \in FlashAddresses |->
                    IF a - c.val \in BufferIndices THEN buffer[a - c.val] ELSE flash[a]]
     /\ UNCHANGED <<mode, unlocked, idx, buffer, eeprom, map>>
  \/ /\ c.cmd = "write"
     /\ \E kept \in Keeps :
          eeprom' = [eeprom EXCEPT ![c.cell] = IF kept THEN c.val ELSE @]
     /\ UNCHANGED <<mode, unlocked, idx, buffer, flash, map>>
  \/ /\ c.cmd = "map0"
     /\ map' = <<c.val, map[2]>>
     /\ UNCHANGED <<mode, unlocked, idx, buffer, flash, eeprom>>
  \/ /\ c.cmd = "map1"
     /\ map' = <<map[1], c.val>>
     /\ UNCHANGED <<mode, unlocked, idx, buffer, flash, eeprom>>

(* transferData(), and what `answer` is after it.                          *)
Cmd(name) == [cmd |-> name]
With(name, v) == [cmd |-> name, val |-> v]

Transfer(who, c, result) ==
  \/ /\ IF Accepts(c) THEN result = "none" /\ Obeys(c)
                      ELSE result = "refused" /\ UNCHANGED board
     /\ UNCHANGED <<faults, faulty>>
  \/ /\ faults < MaxFaults
     /\ faults' = faults + 1
     /\ faulty' = [faulty EXCEPT ![who] = TRUE]
     /\ result \in {"error", "timeout"}
     /\ \/ UNCHANGED board
        \/ Accepts(c) /\ Obeys(c)

Results == {"none", "refused", "error", "timeout"}

-----------------------------------------------------------------------------
(* The main thread.  It makes one call after the other; each takes         *)
(* GCPMutex and releases it, so that those of one transfer are one step.   *)
(* "read" is any of the getters, "saveBoth" setSticksDeadzoneRadius(),     *)
(* "save" the other setters and loadDefaultSticksConfig(), "resetSticks"   *)
(* what the safe menu does to the sticks.                                  *)

Calls(kind) ==
  CASE kind = "detect" -> <<"isV2">>
    [] kind = "map" -> <<"isV2", "unlock", "setMapping", "lock">>
    [] kind = "read" -> <<"unlock", "readEEPROM", "lock">>
    [] kind = "save" -> <<"unlock", "writeEEPROM", "lock">>
    [] kind = "saveBoth" -> <<"unlock", "writeEEPROM", "writeEEPROM", "lock">>
    [] kind = "version" -> <<"unlock", "getFWVer", "lock">>
    [] kind = "resetSticks" -> <<"unlock", "writeEEPROM", "reset">>
    [] kind = "rebuildLUT" -> <<"unlock", "reset">>
    [] kind = "update" -> <<"unlock", "getFWVer", "lock", "startUpdate">>

(* The theme's controller settings do nothing else while updating, and the *)
(* safe menu is there before any update; the other views do not ask.  The  *)
(* main thread sleeps for VSync between an update's start and the next     *)
(* session, which is when the update thread takes its mutex.               *)
Begin(kind) ==
  /\ todo = <<>>
  /\ sessions < MaxSessions
  /\ upc # "take"
  /\ kind \notin {"detect", "map"} => ~updating
  /\ sessions' = sessions + 1
  /\ session' = kind /\ todo' = Calls(kind)
  /\ IF kind = "map" THEN mapping' \in Mappings ELSE mapping' = mapping
  /\ verified' = FALSE
  /\ faulty' = [faulty EXCEPT !["main"] = FALSE]
  /\ UNCHANGED <<holder, at, written, tries, test, answer, updater, board, faults>>

Doing(call, place) == todo # <<>> /\ Head(todo) = call /\ at = place
Enters(call) == Doing(call, "call") /\ holder # "updater"
Inside(place) == holder' = "main" /\ at' = place /\ UNCHANGED todo
Leaves(rest) == holder' = "none" /\ at' = "call" /\ todo' = rest
Idle == UNCHANGED <<session, mapping, sessions, updater>>

(* What the caller does next: nothing is done with a result but isV2()'s.  *)
Returns == Leaves(Tail(todo))

(* Mutant: an early return of isV2() forgets LWP_MutexUnlock().            *)
NotV2KeepsMutex == UNCHANGED holder /\ at' = "call" /\ todo' = <<>>

NotV2 == Leaves(<<>>)

Command ==
  [unlock |-> "unlock", lock |-> "lock", getFWVer |-> "version", reset |-> "reset"]

Simple ==
  /\ \E call \in DOMAIN Command :
       /\ Enters(call)
       /\ \E r \in Results : Transfer("main", Cmd(Command[call]), r)
  /\ todo' = Tail(todo)
  /\ UNCHANGED <<holder, at, eepromCall>>
  /\ Idle

V2Unlock ==
  /\ Enters("isV2")
  /\ \E r \in Results :
       /\ Transfer("main", Cmd("unlock"), r)
       /\ IF r = "none" THEN Inside("version") ELSE NotV2
  /\ UNCHANGED eepromCall /\ Idle

(* Mutant: isV2() returns as soon as it knows.                             *)
V2VersionReturns ==
  /\ Doing("isV2", "version")
  /\ \E r \in Results :
       Transfer("main", Cmd("version"), r) /\ IF r = "none" THEN Returns ELSE NotV2
  /\ UNCHANGED eepromCall /\ Idle

(* After an error the version is whatever was in the buffer.               *)
V2Version ==
  /\ Doing("isV2", "version")
  /\ \E r \in Results :
       /\ Transfer("main", Cmd("version"), r)
       /\ \/ r = "none" /\ Inside("lockV2")
          \/ r = "error" /\ (Inside("lockV2") \/ Inside("lockOther") \/ NotV2)
          \/ r \in {"refused", "timeout"} /\ NotV2
  /\ UNCHANGED eepromCall /\ Idle

V2Lock ==
  /\ Doing("isV2", "lockV2") \/ Doing("isV2", "lockOther")
  /\ \E r \in Results :
       /\ Transfer("main", Cmd("lock"), r)
       /\ IF r = "none" /\ at = "lockV2" THEN Returns ELSE NotV2
  /\ UNCHANGED eepromCall /\ Idle

MapByte0 ==
  /\ Enters("setMapping")
  /\ \E r \in Results :
       /\ Transfer("main", With("map0", mapping), r)
       /\ IF r = "none" THEN Inside("byte1") ELSE Returns
  /\ UNCHANGED eepromCall /\ Idle

MapByte1 ==
  /\ Doing("setMapping", "byte1")
  /\ \E r \in Results : Transfer("main", With("map1", mapping), r)
  /\ Returns
  /\ UNCHANGED eepromCall /\ Idle

Packet == written + 1

(* readEEPROM() for a getter: packet after packet until one is not read.   *)
ReadPacket ==
  /\ Enters("readEEPROM") \/ Doing("readEEPROM", "read")
  /\ LET done == IF at = "read" THEN Packet ELSE 1 IN
     \E r \in Results :
       /\ Transfer("main", Cmd("read"), r)
       /\ IF r = "none" /\ done < Len(Config) THEN Inside("read") /\ written' = done
                                              ELSE Returns /\ written' = written
  /\ UNCHANGED <<tries, test, answer, verified>> /\ Idle

(* writeEEPROM().  The buffer for the test is not initialised.             *)
WriteEnter ==
  /\ Enters("writeEEPROM")
  /\ Inside("send")
  /\ test' \in Cells
  /\ written' = 0 /\ tries' = 0 /\ verified' = FALSE
  /\ UNCHANGED <<answer, board, faults, faulty>> /\ Idle

WriteSend ==
  /\ Doing("writeEEPROM", "send")
  /\ \E r \in Results :
       /\ Transfer("main", [cmd |-> "write", cell |-> Packet, val |-> Config[Packet]], r)
       /\ IF r = "timeout" THEN Returns /\ answer' = answer
                           ELSE Inside("readBack") /\ answer' = r
  /\ UNCHANGED <<written, tries, test, verified>> /\ Idle

(* Mutant: what was read back is not compared.                             *)
WrittenAnswered == answer = "none"

(* What readEEPROM() returns is ignored: the test is then as it was.       *)
Written == test' = Config[Packet] /\ answer = "none"

WriteReadBack ==
  /\ Doing("writeEEPROM", "readBack")
  /\ \E r \in Results :
       /\ Transfer("main", Cmd("read"), r)
       /\ test' = IF r = "none" THEN eeprom[Packet] ELSE test
  /\ \/ Written /\ Packet = Len(Config)
        /\ Returns /\ verified' = TRUE /\ UNCHANGED <<written, tries>>
     \/ Written /\ Packet < Len(Config)
        /\ Inside("send") /\ written' = Packet /\ tries' = 0 /\ UNCHANGED verified
     \/ ~Written /\ tries + 1 < Retries
        /\ Inside("send") /\ tries' = tries + 1 /\ UNCHANGED <<written, verified>>
     \/ ~Written /\ tries + 1 = Retries
        /\ Returns /\ UNCHANGED <<written, tries, verified>>
  /\ UNCHANGED answer /\ Idle

(* startUpdate() returns if an update is under way.  The theme waits two   *)
(* seconds after one, in which its thread ends: the next has its stack.    *)
StartUpdate ==
  /\ Doing("startUpdate", "call")
  /\ todo' = Tail(todo)
  /\ IF updating
       THEN UNCHANGED <<updater, faulty>>
       ELSE /\ upc \in {"none", "ended"}
            /\ updating' = TRUE /\ updateSuccess' = FALSE /\ updateProgress' = 0
            /\ file' \in BOOLEAN
            /\ goal' = TRUE
            /\ upc' = "take"
            /\ faulty' = [faulty EXCEPT !["updater"] = FALSE]
            /\ UNCHANGED flashCall
  /\ UNCHANGED <<holder, at, session, mapping, sessions, eepromCall, board, faults>>

Main ==
  \/ Simple \/ V2Unlock \/ V2Version \/ V2Lock \/ MapByte0 \/ MapByte1
  \/ ReadPacket \/ WriteEnter \/ WriteSend \/ WriteReadBack \/ StartUpdate

-----------------------------------------------------------------------------
(* The update thread.                                                      *)

Updates(from) == upc = from /\ UNCHANGED <<holder, main, file, updating, updateSuccess>>
Goes(to) == upc' = to /\ UNCHANGED goal
Fails == upc' = "relock" /\ goal' = FALSE
Sends(c, r) == Transfer("updater", c, r)

(* Mutant: only the calls take the mutex, not the update as a whole.       *)
TakeNothing ==
  /\ upc = "take" /\ holder = "none"
  /\ upc' = "open"
  /\ UNCHANGED <<holder, main, file, goal, updating, updateSuccess, updateProgress,
                 flashCall, board, faults, faulty>>

Take ==
  /\ upc = "take" /\ holder = "none"
  /\ holder' = "updater"
  /\ upc' = "open"
  /\ UNCHANGED <<main, file, goal, updating, updateSuccess, updateProgress, flashCall,
                 board, faults, faulty>>

Open ==
  /\ Updates("open")
  /\ IF file THEN Goes("unlock") ELSE Fails
  /\ UNCHANGED <<updateProgress, flashCall, board, faults, faulty>>

(* bootBootloader() and bootPayload() do not look at the answer.           *)
UnlockBoard ==
  /\ Updates("unlock")
  /\ \E r \in Results :
       Sends(Cmd("unlock"), r) /\ IF r = "none" THEN Goes("bootbl") ELSE Fails
  /\ UNCHANGED <<updateProgress, flashCall>>

BootBootloader ==
  /\ Updates("bootbl")
  /\ \E r \in Results :
       Sends(Cmd("bootbl"), r) /\ IF r = "timeout" THEN Fails ELSE Goes("unlockAgain")
  /\ UNCHANGED <<updateProgress, flashCall>>

UnlockAgain ==
  /\ Updates("unlockAgain")
  /\ \E r \in Results :
       Sends(Cmd("unlock"), r) /\ IF r = "none" THEN Goes("index") ELSE Fails
  /\ UNCHANGED <<updateProgress, flashCall>>

(* Mutant: the index is only reset after each block.                       *)
FlashBeginAnyIndex ==
  /\ Updates("index")
  /\ Goes("fill")
  /\ sent' = 0 /\ packetIndex' = 0 /\ address' = 0
  /\ UNCHANGED <<updateProgress, board, faults, faulty>>

FlashBegin ==
  /\ Updates("index")
  /\ \E r \in Results :
       Sends(Cmd("resetidx"), r) /\ IF r = "none" THEN Goes("fill") ELSE Fails
  /\ sent' = 0 /\ packetIndex' = 0 /\ address' = 0
  /\ UNCHANGED updateProgress

(* Mutant: only full blocks are flashed.                                   *)
EndOfFullBlock(n, total) == n = BlockPackets

EndOfBlock(n, total) == n = BlockPackets \/ total = Packets

FillBuffer ==
  /\ Updates("fill")
  /\ \E r \in Results :
       /\ Sends(With("fill", Payload[sent]), r)
       /\ \/ r = "none" /\ EndOfBlock(packetIndex + 1, sent + 1) /\ Goes("flash")
          \/ r = "none" /\ ~EndOfBlock(packetIndex + 1, sent + 1) /\ Goes("progress")
          \/ r # "none" /\ Fails
  /\ sent' = sent + 1 /\ packetIndex' = packetIndex + 1
  /\ UNCHANGED <<address, updateProgress>>

WriteFlash ==
  /\ Updates("flash")
  /\ packetIndex' = 0
  /\ \E r \in Results :
       Sends(With("flash", address), r) /\ IF r = "none" THEN Goes("nextBlock") ELSE Fails
  /\ UNCHANGED <<sent, address, updateProgress>>

NextBlock ==
  /\ Updates("nextBlock")
  /\ \E r \in Results :
       /\ Sends(Cmd("resetidx"), r)
       /\ IF r = "none" THEN Goes("progress") /\ address' = address + BlockPackets
                        ELSE Fails /\ address' = address
  /\ UNCHANGED <<sent, packetIndex, updateProgress>>

Progress ==
  /\ Updates("progress")
  /\ updateProgress' = sent
  /\ Goes(IF sent = Packets THEN "bootpayload" ELSE "fill")
  /\ UNCHANGED <<flashCall, board, faults, faulty>>

BootPayload ==
  /\ Updates("bootpayload")
  /\ \E r \in Results :
       Sends(Cmd("bootpayload"), r) /\ IF r = "timeout" THEN Fails ELSE Goes("relock")
  /\ UNCHANGED <<updateProgress, flashCall>>

LockBoard ==
  /\ Updates("relock")
  /\ \E r \in Results : Sends(Cmd("lock"), r)
  /\ Goes("flags")
  /\ UNCHANGED <<updateProgress, flashCall>>

SetFlags ==
  /\ upc = "flags"
  /\ updateSuccess' = goal /\ updating' = FALSE
  /\ Goes("release")
  /\ UNCHANGED <<holder, main, file, updateProgress, flashCall, board, faults, faulty>>

Release ==
  /\ upc = "release"
  /\ holder' = "none"
  /\ Goes("ended")
  /\ UNCHANGED <<main, file, updating, updateSuccess, updateProgress, flashCall, board,
                 faults, faulty>>

Updater ==
  \/ Take \/ Open \/ UnlockBoard \/ BootBootloader \/ UnlockAgain \/ FlashBegin
  \/ FillBuffer \/ WriteFlash \/ NextBlock \/ Progress \/ BootPayload \/ LockBoard
  \/ SetFlags \/ Release

-----------------------------------------------------------------------------
Next == Main \/ Updater \/ \E kind \in Kinds : Begin(kind)

(* A released mutex is handed to a thread that waits for it.               *)
Fairness ==
  /\ SF_vars(Main) /\ SF_vars(Updater)

Spec == Init /\ [][Next]_vars /\ Fairness

-----------------------------------------------------------------------------
TypeOK ==
  /\ holder \in {"none", "main", "updater"}
  /\ at \in {"call", "version", "lockV2", "lockOther", "byte1", "read", "send", "readBack"}
  /\ session \in Sessions
  /\ mapping \in Mappings /\ map \in Mappings \X Mappings
  /\ written \in 0 .. Len(Config) - 1 /\ tries \in 0 .. Retries - 1
  /\ test \in Cells /\ answer \in Results \ {"timeout"} /\ verified \in BOOLEAN
  /\ upc \in {"none", "take", "open", "unlock", "bootbl", "unlockAgain", "index", "fill",
              "flash", "nextBlock", "progress", "bootpayload", "relock", "flags",
              "release", "ended"}
  /\ file \in BOOLEAN /\ goal \in BOOLEAN
  /\ sent \in 0 .. Packets /\ packetIndex \in 0 .. BlockPackets
  /\ address \in 0 .. Packets + BlockPackets
  /\ updating \in BOOLEAN /\ updateSuccess \in BOOLEAN /\ updateProgress \in 0 .. Packets
  /\ mode \in {"payload", "bootloader"} /\ unlocked \in BOOLEAN
  /\ idx \in 0 .. BlockPackets
  /\ buffer \in [BufferIndices -> Pages] /\ flash \in [FlashAddresses -> Pages]
  /\ eeprom \in [DOMAIN Config -> Cells]
  /\ sessions \in 0 .. MaxSessions /\ faults \in 0 .. MaxFaults
  /\ faulty \in [Threads -> BOOLEAN]

(* Once the interface is told that an update succeeded, or that it is at   *)
(* 100 %, the whole update file is in the flash, at its place: whatever    *)
(* failed, and whatever an earlier update left behind.                     *)
FlashHolds == \A i \in PacketIndices : flash[i] = Payload[i]
FlashedWhole == updateSuccess \/ updateProgress = Packets => FlashHolds

(* An update of which no transfer fails succeeds and ends with the payload *)
(* running: whatever the other thread asks of the board meanwhile, and     *)
(* even if the last update stopped in the middle.                          *)
CleanUpdateSucceeds ==
  upc = "ended" /\ file /\ ~faulty["updater"] => updateSuccess /\ mode = "payload"

(* At rest the board is locked, unless a transfer failed.                  *)
LockedAtRest ==
  todo = <<>> /\ upc \in {"none", "ended"} /\ (\A t \in Threads : ~faulty[t]) => ~unlocked

(* A mapping is set in both bytes of every button, although unlocking,     *)
(* setting and locking take GCPMutex one after the other.                  *)
MappingSet ==
  session = "map" /\ todo = <<>> /\ ~faulty["main"] /\ mode = "payload" =>
    map = <<mapping, mapping>>

(* If writeEEPROM() returns true, the EEPROM holds the data, also when it  *)
(* did not keep some of the writes; if no transfer fails: a failed         *)
(* readEEPROM() leaves an older packet, or what malloc() found, to compare. *)
WriteVerified == verified /\ ~faulty["main"] => \A i \in DOMAIN Config : eeprom[i] = Config[i]

(* AllEnd: every update comes to an end, and so does every session of the  *)
(* main thread: no return of a function forgets GCPMutex.                  *)
AllEnd == (updating ~> ~updating) /\ ((todo # <<>>) ~> (todo = <<>>))
=============================================================================
