---------------------------- MODULE GCPlus_proofs ----------------------------
(***************************************************************************)
(* Proofs of safety properties of GCPlus, for every size of the payload    *)
(* and of the flash's blocks and any number of sessions and failures.      *)
(***************************************************************************)
EXTENDS GCPlus, TLAPS

(* The parts of TypeOK: calls of the main thread, update, board, failures. *)
CallOK ==
  /\ holder \in {"none", "main", "updater"}
  /\ at \in {"call", "version", "lockV2", "lockOther", "byte1", "read", "send", "readBack"}
  /\ session \in Sessions /\ mapping \in Mappings /\ sessions \in 0 .. MaxSessions

EepromOK ==
  /\ written \in 0 .. Len(Config) - 1 /\ tries \in 0 .. Retries - 1
  /\ test \in Cells /\ answer \in Results \ {"timeout"} /\ verified \in BOOLEAN

UpdateOK ==
  /\ upc \in {"none", "take", "open", "unlock", "bootbl", "unlockAgain", "index", "fill",
              "flash", "nextBlock", "progress", "bootpayload", "relock", "flags",
              "release", "ended"}
  /\ sent \in 0 .. Packets /\ packetIndex \in 0 .. BlockPackets
  /\ address \in 0 .. Packets + BlockPackets
  /\ updateProgress \in 0 .. Packets

FlagsOK ==
  /\ file \in BOOLEAN /\ goal \in BOOLEAN
  /\ updating \in BOOLEAN /\ updateSuccess \in BOOLEAN

BoardOK ==
  /\ mode \in {"payload", "bootloader"} /\ unlocked \in BOOLEAN
  /\ idx \in 0 .. BlockPackets
  /\ buffer \in [BufferIndices -> Pages] /\ flash \in [FlashAddresses -> Pages]
  /\ eeprom \in [DOMAIN Config -> Cells] /\ map \in Mappings \X Mappings

FaultsOK == faults \in 0 .. MaxFaults /\ faulty \in [Threads -> BOOLEAN]

LEMMA TypeParts ==
  /\ TypeOK <=> CallOK /\ EepromOK /\ UpdateOK /\ FlagsOK /\ BoardOK /\ FaultsOK
  /\ TypeOK' <=> CallOK' /\ EepromOK' /\ UpdateOK' /\ FlagsOK' /\ BoardOK' /\ FaultsOK'
BY DEF TypeOK, CallOK, EepromOK, UpdateOK, FlagsOK, BoardOK, FaultsOK

-----------------------------------------------------------------------------
(* The board: what a transfer can change.                                  *)

Typed(c) ==
  /\ c.cmd = "fill" => c.val \in Pages
  /\ c.cmd = "write" => c.cell \in DOMAIN Config /\ c.val \in Cells
  /\ c.cmd \in {"map0", "map1"} => c.val \in Mappings

LEMMA ObeysTyped ==
  ASSUME BoardOK, NEW c, Typed(c), Accepts(c), Obeys(c)
  PROVE  BoardOK'
<1> USE GCPlusAssumption DEF BoardOK
<1>1. CASE c.cmd \in {"unlock", "lock"}
  <2>1. unlocked' = (c.cmd = "unlock") /\ UNCHANGED <<mode, idx, buffer, flash, eeprom, map>>
    BY <1>1 DEF Obeys
  <2>2. unlocked' \in BOOLEAN
    BY <2>1, Zenon
  <2> QED
    BY <2>1, <2>2
<1>2. CASE c.cmd \in {"version", "read", "bootbl", "bootpayload", "reset"}
  <2>1. UNCHANGED board \/ Starts("bootloader") \/ Starts("payload")
    BY <1>2 DEF Obeys
  <2> QED
    BY <2>1 DEF Starts, board
<1>6. CASE c.cmd = "resetidx"
  BY <1>6 DEF Obeys
<1>7. CASE c.cmd = "fill"
  <2>1. /\ buffer' = [buffer EXCEPT ![idx] = c.val]
        /\ idx' = idx + 1
        /\ UNCHANGED <<mode, unlocked, flash, eeprom, map>>
    BY <1>7 DEF Obeys
  <2>2. idx < BlockPackets /\ c.val \in Pages
    BY <1>7 DEF Accepts, Typed
  <2> QED
    BY <2>1, <2>2 DEF BufferIndices
<1>3. CASE c.cmd = "flash"
  <2>1. flash' = [a \in FlashAddresses |->
                    IF a - c.val \in BufferIndices THEN buffer[a - c.val] ELSE flash[a]]
    BY <1>3 DEF Obeys
  <2>2. flash' \in [FlashAddresses -> Pages]
    BY <2>1
  <2> QED
    BY <1>3, <2>2 DEF Obeys
<1>4. CASE c.cmd = "write"
  <2>1. PICK kept \in Keeps :
          eeprom' = [eeprom EXCEPT ![c.cell] = IF kept THEN c.val ELSE @]
    BY <1>4 DEF Obeys
  <2>2. eeprom' \in [DOMAIN Config -> Cells]
    BY <1>4, <2>1 DEF Typed
  <2> QED
    BY <1>4, <2>2 DEF Obeys
<1>5. CASE c.cmd \in {"map0", "map1"}
  BY <1>5 DEF Obeys, Typed
<1> QED
  BY <1>1, <1>2, <1>3, <1>4, <1>5, <1>6, <1>7 DEF Obeys

LEMMA TransferTyped ==
  ASSUME BoardOK, FaultsOK, NEW who \in Threads, NEW c, Typed(c), NEW r, Transfer(who, c, r)
  PROVE  BoardOK' /\ FaultsOK' /\ r \in Results
<1>1. BoardOK'
  <2>1. CASE Accepts(c) /\ Obeys(c)
    BY <2>1, ObeysTyped
  <2>2. CASE UNCHANGED board
    BY <2>2 DEF BoardOK, board
  <2> QED
    BY <2>1, <2>2 DEF Transfer
<1>2. FaultsOK'
  <2>1. CASE UNCHANGED <<faults, faulty>>
    BY <2>1 DEF FaultsOK
  <2>2. CASE faults < MaxFaults /\ faults' = faults + 1 /\ faulty' = [faulty EXCEPT ![who] = TRUE]
    <3>1. faults' \in 0 .. MaxFaults
      BY <2>2, GCPlusAssumption DEF FaultsOK
    <3>2. faulty' \in [Threads -> BOOLEAN]
      BY <2>2 DEF FaultsOK
    <3> QED
      BY <3>1, <3>2 DEF FaultsOK
  <2> QED
    BY <2>1, <2>2 DEF Transfer
<1>3. r \in Results
  BY DEF Transfer, Results
<1> QED
  BY <1>1, <1>2, <1>3

(* What the commands of the main thread leave alone.                       *)
LEMMA TransferKeeps ==
  ASSUME BoardOK, FaultsOK, NEW who \in Threads, NEW c, NEW r, Transfer(who, c, r)
  PROVE  /\ c.cmd # "flash" => flash' = flash
         /\ c.cmd # "fill" => buffer' = buffer
         /\ c.cmd # "write" => eeprom' = eeprom
         /\ c.cmd \notin {"map0", "map1"} => map' = map
         /\ c.cmd # "bootbl" /\ mode = "payload" => mode' = "payload"
         /\ \A t \in Threads : t # who => faulty'[t] = faulty[t]
<1>1. ASSUME Obeys(c)
      PROVE  /\ c.cmd # "flash" => flash' = flash
             /\ c.cmd # "fill" => buffer' = buffer
             /\ c.cmd # "write" => eeprom' = eeprom
             /\ c.cmd \notin {"map0", "map1"} => map' = map
             /\ c.cmd # "bootbl" /\ mode = "payload" => mode' = "payload"
  BY <1>1 DEF Obeys, Starts, board
<1>2. ASSUME UNCHANGED board
      PROVE  UNCHANGED <<flash, buffer, eeprom, map, mode>>
  BY <1>2 DEF board
<1>3. \A t \in Threads : t # who => faulty'[t] = faulty[t]
  BY DEF Transfer, FaultsOK
<1> QED
  BY <1>1, <1>2, <1>3 DEF Transfer

(* A transfer that does not fail.                                          *)
LEMMA TransferClean ==
  ASSUME FaultsOK, NEW who \in Threads, NEW c, NEW r, Transfer(who, c, r),
         r = "none" \/ ~faulty'[who]
  PROVE  /\ r = "none" <=> Accepts(c)
         /\ r \in {"none", "refused"}
         /\ Accepts(c) => Obeys(c)
         /\ ~Accepts(c) => UNCHANGED board
         /\ UNCHANGED faulty
<1>1. CASE faults' = faults + 1 /\ faulty' = [faulty EXCEPT ![who] = TRUE] /\ r \in {"error", "timeout"}
  BY <1>1 DEF FaultsOK
<1>2. CASE /\ IF Accepts(c) THEN r = "none" /\ Obeys(c) ELSE r = "refused" /\ UNCHANGED board
           /\ UNCHANGED <<faults, faulty>>
  BY <1>2
<1> QED
  BY <1>1, <1>2 DEF Transfer

-----------------------------------------------------------------------------
(* Types.  No call of the main thread needs to know what the others do:    *)
(* each leaves the parts of the state it does not name.                    *)

LEMMA CommandsTyped ==
  ASSUME TypeOK
  PROVE  /\ \A name \in DOMAIN Needs \ {"fill", "write", "map0", "map1"} : Typed(Cmd(name))
         /\ \A v : Typed(With("flash", v))
         /\ \A m \in Mappings : Typed(With("map0", m)) /\ Typed(With("map1", m))
         /\ \A v \in Pages : Typed(With("fill", v))
BY DEF Typed, Cmd, With, Needs

LEMMA MainTyped ==
  ASSUME TypeOK, Main
  PROVE  TypeOK'
<1> USE TypeParts
<1>0. FlagsOK'
  <2>1. ~StartUpdate => UNCHANGED updater
    BY DEF Main, Simple, V2Unlock, V2Version, V2Lock, MapByte0, MapByte1, ReadPacket, WriteEnter,
       WriteSend, WriteReadBack, Idle
  <2>2. StartUpdate => \/ UNCHANGED updater
                       \/ /\ updating' = TRUE /\ updateSuccess' = FALSE /\ goal' = TRUE
                          /\ file' \in BOOLEAN
    BY DEF StartUpdate
  <2> QED
    BY <2>1, <2>2 DEF FlagsOK, updater
<1>1. CASE Simple
  <2>1. PICK call \in DOMAIN Command, r \in Results : Transfer("main", Cmd(Command[call]), r)
    BY <1>1 DEF Simple
  <2>2. Typed(Cmd(Command[call]))
    BY <2>1, CommandsTyped DEF Command, Needs
  <2>3. BoardOK' /\ FaultsOK'
    BY <2>1, <2>2, TransferTyped DEF Threads
  <2> QED
    BY <1>0, <1>1, <2>3 DEF Simple, Idle, main, updater, CallOK, EepromOK, UpdateOK, eepromCall, flashCall
<1>2. CASE V2Unlock
  <2>1. PICK r \in Results : Transfer("main", Cmd("unlock"), r)
    BY <1>2 DEF V2Unlock
  <2>2. BoardOK' /\ FaultsOK'
    BY <2>1, CommandsTyped, TransferTyped DEF Threads, Needs
  <2> QED
    BY <1>0, <1>2, <2>2 DEF V2Unlock, Idle, Inside, NotV2, Leaves, updater, CallOK, EepromOK,
       UpdateOK, eepromCall, flashCall
<1>3. CASE V2Version
  <2>1. PICK r \in Results : Transfer("main", Cmd("version"), r)
    BY <1>3 DEF V2Version
  <2>2. BoardOK' /\ FaultsOK'
    BY <2>1, CommandsTyped, TransferTyped DEF Threads, Needs
  <2> QED
    BY <1>0, <1>3, <2>2 DEF V2Version, Idle, Inside, NotV2, Leaves, updater, CallOK, EepromOK,
       UpdateOK, eepromCall, flashCall
<1>4. CASE V2Lock
  <2>1. PICK r \in Results : Transfer("main", Cmd("lock"), r)
    BY <1>4 DEF V2Lock
  <2>2. BoardOK' /\ FaultsOK'
    BY <2>1, CommandsTyped, TransferTyped DEF Threads, Needs
  <2> QED
    BY <1>0, <1>4, <2>2 DEF V2Lock, Idle, Returns, NotV2, Leaves, updater, CallOK, EepromOK,
       UpdateOK, eepromCall, flashCall
<1>5. CASE MapByte0
  <2>1. PICK r \in Results : Transfer("main", With("map0", mapping), r)
    BY <1>5 DEF MapByte0
  <2>2. Typed(With("map0", mapping))
    BY CommandsTyped DEF CallOK
  <2>3. BoardOK' /\ FaultsOK'
    BY <2>1, <2>2, TransferTyped DEF Threads
  <2> QED
    BY <1>0, <1>5, <2>3 DEF MapByte0, Idle, Inside, Returns, Leaves, updater, CallOK, EepromOK,
       UpdateOK, eepromCall, flashCall
<1>6. CASE MapByte1
  <2>1. PICK r \in Results : Transfer("main", With("map1", mapping), r)
    BY <1>6 DEF MapByte1
  <2>2. Typed(With("map1", mapping))
    BY CommandsTyped DEF CallOK
  <2>3. BoardOK' /\ FaultsOK'
    BY <2>1, <2>2, TransferTyped DEF Threads
  <2> QED
    BY <1>0, <1>6, <2>3 DEF MapByte1, Idle, Returns, Leaves, updater, CallOK, EepromOK,
       UpdateOK, eepromCall, flashCall
<1>7. CASE WriteEnter
  <2>1. Len(Config) \in Nat \ {0}
    BY GCPlusAssumption
  <2>2. /\ written' = 0 /\ tries' = 0 /\ test' \in Cells /\ verified' = FALSE
        /\ answer' = answer
    BY <1>7 DEF WriteEnter
  <2>3. EepromOK'
    <3>1. written' \in 0 .. Len(Config) - 1 /\ tries' \in 0 .. Retries - 1
      BY <2>1, <2>2, GCPlusAssumption
    <3>2. test' \in Cells /\ answer' \in Results \ {"timeout"} /\ verified' \in BOOLEAN
      BY <2>2 DEF EepromOK
    <3> QED
      BY <3>1, <3>2 DEF EepromOK
  <2> QED
    BY <1>0, <1>7, <2>3 DEF WriteEnter, Idle, Inside, updater, CallOK, UpdateOK, flashCall,
       BoardOK, board, FaultsOK
<1>8. CASE WriteSend
  <2> DEFINE c == [cmd |-> "write", cell |-> Packet, val |-> Config[Packet]]
  <2>1. PICK r \in Results :
          /\ Transfer("main", c, r)
          /\ IF r = "timeout" THEN Returns /\ answer' = answer
                              ELSE Inside("readBack") /\ answer' = r
    BY <1>8 DEF WriteSend
  <2>2. Packet \in DOMAIN Config /\ Config[Packet] \in Cells
    BY GCPlusAssumption DEF EepromOK, Packet, Cells
  <2>3. Typed(c)
    BY <2>2 DEF Typed
  <2>4. BoardOK' /\ FaultsOK'
    BY <2>1, <2>3, TransferTyped DEF Threads
  <2>5. answer' \in Results \ {"timeout"}
    BY <2>1 DEF EepromOK
  <2> QED
    BY <1>0, <1>8, <2>4, <2>5 DEF WriteSend, Idle, Inside, Returns, Leaves, updater, CallOK, EepromOK,
       UpdateOK, flashCall
<1>9. CASE WriteReadBack
  <2>1. PICK r \in Results : /\ Transfer("main", Cmd("read"), r)
                             /\ test' = IF r = "none" THEN eeprom[Packet] ELSE test
    BY <1>9 DEF WriteReadBack
  <2>2. BoardOK' /\ FaultsOK'
    BY <2>1, CommandsTyped, TransferTyped DEF Threads, Needs
  <2>3. Packet \in DOMAIN Config /\ Packet = written + 1
    BY GCPlusAssumption DEF EepromOK, Packet
  <2>4. test' \in Cells
    BY <2>1, <2>3 DEF EepromOK, BoardOK
  <2>5. /\ written' \in 0 .. Len(Config) - 1 /\ tries' \in 0 .. Retries - 1
        /\ answer' = answer
    BY <1>9, <2>3, GCPlusAssumption DEF WriteReadBack, EepromOK
  <2>6. verified' \in BOOLEAN
    BY <1>9 DEF WriteReadBack, EepromOK
  <2> QED
    BY <1>0, <1>9, <2>2, <2>4, <2>5, <2>6 DEF WriteReadBack, Idle, Inside, Returns, Leaves, updater,
       CallOK, EepromOK, UpdateOK, flashCall
<1>10. CASE StartUpdate
  <2>1. faulty' \in [Threads -> BOOLEAN]
    BY <1>10 DEF StartUpdate, FaultsOK
  <2>2. updateProgress' \in 0 .. Packets
    BY <1>10, GCPlusAssumption DEF StartUpdate, updater, UpdateOK
  <2>3. UpdateOK'
    BY <1>10, <2>2 DEF StartUpdate, UpdateOK, updater, flashCall
  <2> QED
    BY <1>0, <1>10, <2>1, <2>3 DEF StartUpdate, CallOK, EepromOK, eepromCall, BoardOK, board, FaultsOK
<1>11. CASE ReadPacket
  <2>1. PICK r \in Results : Transfer("main", Cmd("read"), r)
    BY <1>11 DEF ReadPacket
  <2>2. BoardOK' /\ FaultsOK'
    BY <2>1, CommandsTyped, TransferTyped DEF Threads, Needs
  <2>3. Len(Config) \in Nat \ {0}
    BY GCPlusAssumption
  <2>4. /\ UNCHANGED <<tries, test, answer, verified>>
        /\ written' \in {written, 1, Packet}
        /\ written' # written => written' < Len(Config)
    BY <1>11 DEF ReadPacket
  <2>5. EepromOK'
    BY <2>3, <2>4 DEF EepromOK, Packet
  <2>6. CallOK'
    BY <1>11 DEF ReadPacket, Idle, Inside, Returns, Leaves, CallOK
  <2> QED
    BY <1>0, <1>11, <2>2, <2>5, <2>6 DEF ReadPacket, Idle, updater, UpdateOK, flashCall
<1> QED
  BY <1>1, <1>2, <1>3, <1>4, <1>5, <1>6, <1>7, <1>8, <1>9, <1>10, <1>11 DEF Main

-----------------------------------------------------------------------------
(* The counters of flashPayload(): the packets of the current block come   *)
(* after those before its address.                                         *)

Filling == sent < Packets /\ packetIndex < BlockPackets /\ sent = address + packetIndex

SentInv ==
  /\ upc = "fill" => Filling
  /\ upc = "flash" => sent = address + packetIndex /\ EndOfBlock(packetIndex, sent)
  /\ upc = "nextBlock" => /\ packetIndex = 0 /\ address <= sent
                          /\ sent = Packets \/ sent = address + BlockPackets
  /\ upc = "progress" => sent = Packets \/ Filling

LEMMA UpdaterTyped ==
  ASSUME TypeOK, SentInv, Updater
  PROVE  TypeOK' /\ SentInv'
<1> USE TypeParts, GCPlusAssumption
<1>0. CallOK' /\ EepromOK' /\ FlagsOK'
  <2>1. holder' \in {"none", "main", "updater"} /\ UNCHANGED main
    BY DEF Updater, Take, Open, UnlockBoard, BootBootloader, UnlockAgain, FlashBegin,
       FillBuffer, WriteFlash, NextBlock, Progress, BootPayload, LockBoard, SetFlags, Release,
       Updates, CallOK
  <2>2. CallOK' /\ EepromOK'
    BY <2>1 DEF main, eepromCall, CallOK, EepromOK
  <2>3. goal' = goal \/ goal' = FALSE
    BY DEF Updater, Take, Open, UnlockBoard, BootBootloader, UnlockAgain, FlashBegin,
       FillBuffer, WriteFlash, NextBlock, Progress, BootPayload, LockBoard, SetFlags, Release,
       Goes, Fails
  <2>4. file' = file /\ ((updating' = updating /\ updateSuccess' = updateSuccess)
                          \/ (updating' = FALSE /\ updateSuccess' = goal))
    BY DEF Updater, Take, Open, UnlockBoard, BootBootloader, UnlockAgain, FlashBegin,
       FillBuffer, WriteFlash, NextBlock, Progress, BootPayload, LockBoard, SetFlags, Release,
       Updates
  <2>5. FlagsOK'
    BY <2>3, <2>4 DEF FlagsOK
  <2> QED
    BY <2>2, <2>5
<1>1. CASE Take \/ Open \/ SetFlags \/ Release
  <2>1. UNCHANGED <<sent, packetIndex, address, board, faults, faulty>>
    BY <1>1 DEF Take, Open, SetFlags, Release, Updates, flashCall
  <2>2. UpdateOK' /\ SentInv'
    BY <1>1, <2>1 DEF Take, Open, SetFlags, Release, Updates, Goes, Fails, UpdateOK, SentInv
  <2> QED
    BY <1>0, <2>1, <2>2 DEF BoardOK, board, FaultsOK
<1>2. CASE UnlockBoard \/ BootBootloader \/ UnlockAgain \/ BootPayload \/ LockBoard
  <2>1. PICK name \in {"unlock", "bootbl", "bootpayload", "lock"}, r \in Results :
          Transfer("updater", Cmd(name), r)
    BY <1>2 DEF UnlockBoard, BootBootloader, UnlockAgain, BootPayload, LockBoard, Sends
  <2>2. BoardOK' /\ FaultsOK'
    BY <2>1, CommandsTyped, TransferTyped DEF Threads, Needs
  <2>3. UNCHANGED <<sent, packetIndex, address>>
    BY <1>2 DEF UnlockBoard, BootBootloader, UnlockAgain, BootPayload, LockBoard, flashCall
  <2>4. UpdateOK' /\ SentInv'
    BY <1>2, <2>3 DEF UnlockBoard, BootBootloader, UnlockAgain, BootPayload, LockBoard, Updates,
       Goes, Fails, UpdateOK, SentInv
  <2> QED
    BY <1>0, <2>2, <2>4
<1>3. CASE FlashBegin
  <2>1. PICK r \in Results : Transfer("updater", Cmd("resetidx"), r)
    BY <1>3 DEF FlashBegin, Sends
  <2>2. BoardOK' /\ FaultsOK'
    BY <2>1, CommandsTyped, TransferTyped DEF Threads, Needs
  <2>3. UpdateOK' /\ SentInv'
    BY <1>3 DEF FlashBegin, Updates, Goes, Fails, UpdateOK, SentInv, Filling
  <2> QED
    BY <1>0, <2>2, <2>3
<1>4. CASE FillBuffer
  <2>1. PICK r \in Results : Transfer("updater", With("fill", Payload[sent]), r)
    BY <1>4 DEF FillBuffer, Sends
  <2>2. Filling
    BY <1>4 DEF FillBuffer, Updates, SentInv
  <2>3. Payload[sent] \in Pages
    BY <2>2 DEF Filling, UpdateOK, Pages, PacketIndices
  <2>4. BoardOK' /\ FaultsOK'
    BY <2>1, <2>3, CommandsTyped, TransferTyped DEF Threads
  <2>5. /\ sent' = sent + 1 /\ packetIndex' = packetIndex + 1 /\ address' = address
        /\ UNCHANGED <<file, updating, updateSuccess, updateProgress>>
        /\ \/ upc' = "flash" /\ EndOfBlock(packetIndex + 1, sent + 1) /\ goal' = goal
           \/ upc' = "progress" /\ ~EndOfBlock(packetIndex + 1, sent + 1) /\ goal' = goal
           \/ upc' = "relock" /\ goal' = FALSE
    BY <1>4 DEF FillBuffer, Updates, Goes, Fails
  <2>6. UpdateOK'
    BY <2>2, <2>5 DEF UpdateOK, Filling
  <2>7. SentInv'
    BY <2>2, <2>5 DEF SentInv, Filling, EndOfBlock, UpdateOK
  <2> QED
    BY <1>0, <2>4, <2>6, <2>7
<1>5. CASE WriteFlash
  <2>1. PICK r \in Results : Transfer("updater", With("flash", address), r)
    BY <1>5 DEF WriteFlash, Sends
  <2>2. BoardOK' /\ FaultsOK'
    BY <2>1, CommandsTyped, TransferTyped DEF Threads
  <2>3. /\ packetIndex' = 0
        /\ UNCHANGED <<sent, address, file, updating, updateSuccess, updateProgress>>
        /\ \/ upc' = "nextBlock" /\ goal' = goal
           \/ upc' = "relock" /\ goal' = FALSE
    BY <1>5 DEF WriteFlash, Updates, Goes, Fails
  <2>4. UpdateOK'
    BY <2>3 DEF UpdateOK
  <2>5. sent = address + packetIndex /\ EndOfBlock(packetIndex, sent)
    BY <1>5 DEF WriteFlash, Updates, SentInv
  <2>6. SentInv'
    BY <2>3, <2>5 DEF SentInv, EndOfBlock, UpdateOK
  <2> QED
    BY <1>0, <2>2, <2>4, <2>6
<1>6. CASE NextBlock
  <2>1. PICK r \in Results : Transfer("updater", Cmd("resetidx"), r)
    BY <1>6 DEF NextBlock, Sends
  <2>2. BoardOK' /\ FaultsOK'
    BY <2>1, CommandsTyped, TransferTyped DEF Threads, Needs
  <2>3. /\ packetIndex = 0 /\ address <= sent
        /\ sent = Packets \/ sent = address + BlockPackets
    BY <1>6 DEF NextBlock, Updates, SentInv
  <2>4. /\ UNCHANGED <<sent, packetIndex, file, updating, updateSuccess, updateProgress>>
        /\ \/ upc' = "progress" /\ goal' = goal /\ address' = address + BlockPackets
           \/ upc' = "relock" /\ goal' = FALSE /\ address' = address
    BY <1>6 DEF NextBlock, Updates, Goes, Fails
  <2>5. UpdateOK'
    BY <2>3, <2>4 DEF UpdateOK
  <2>6. SentInv'
    BY <2>3, <2>4 DEF SentInv, Filling, UpdateOK
  <2> QED
    BY <1>0, <2>2, <2>5, <2>6
<1>7. CASE Progress
  <2>1. UpdateOK' /\ SentInv'
    BY <1>7 DEF Progress, Updates, Goes, flashCall, UpdateOK, SentInv, Filling
  <2> QED
    BY <1>0, <1>7, <2>1 DEF Progress, BoardOK, board, FaultsOK
<1> QED
  BY <1>1, <1>2, <1>3, <1>4, <1>5, <1>6, <1>7 DEF Updater

LEMMA MainSent ==
  ASSUME SentInv, Main
  PROVE  SentInv'
<1>1. ~StartUpdate => UNCHANGED <<upc, sent, packetIndex, address>>
  BY DEF Main, Simple, V2Unlock, V2Version, V2Lock, MapByte0, MapByte1, ReadPacket, WriteEnter, WriteSend,
     WriteReadBack, Idle, updater, flashCall
<1>2. StartUpdate => upc' \in {upc, "take"} /\ UNCHANGED <<sent, packetIndex, address>>
  BY DEF StartUpdate, updater, flashCall
<1> QED
  BY <1>1, <1>2 DEF SentInv, Filling, EndOfBlock

LEMMA BeginTyped ==
  ASSUME TypeOK, SentInv, NEW kind \in Kinds, Begin(kind)
  PROVE  TypeOK' /\ SentInv'
<1> USE TypeParts, GCPlusAssumption
<1>1. CallOK'
  BY DEF Begin, CallOK
<1>5. EepromOK'
  <2>1. verified' = FALSE /\ UNCHANGED <<written, tries, test, answer>>
    BY DEF Begin
  <2> QED
    BY <2>1 DEF EepromOK
<1>2. UpdateOK' /\ FlagsOK' /\ SentInv'
  BY DEF Begin, updater, flashCall, UpdateOK, FlagsOK, SentInv, Filling, EndOfBlock
<1>3. BoardOK'
  BY DEF Begin, BoardOK, board
<1>4. FaultsOK'
  BY DEF Begin, FaultsOK
<1> QED
  BY <1>1, <1>2, <1>3, <1>4, <1>5

LEMMA InitTyped == Init => TypeOK /\ SentInv
<1> SUFFICES ASSUME Init PROVE TypeOK /\ SentInv
  OBVIOUS
<1> USE TypeParts, GCPlusAssumption
<1>1. CallOK /\ SentInv
  BY DEF Init, CallOK, SentInv, Sessions
<1>2. EepromOK
  <2>1. Len(Config) \in Nat \ {0}
    OBVIOUS
  <2>2. written \in 0 .. Len(Config) - 1 /\ tries \in 0 .. Retries - 1
    BY <2>1 DEF Init
  <2>3. verified = FALSE /\ test = Unset /\ answer = "none"
    BY DEF Init
  <2>4. test \in Cells /\ answer \in Results \ {"timeout"}
    BY <2>3 DEF Cells, Results
  <2> QED
    BY <2>2, <2>3, <2>4 DEF EepromOK
<1>3. UpdateOK
  BY DEF Init, UpdateOK
<1>6. FlagsOK
  BY DEF Init, FlagsOK
<1>4. BoardOK
  BY DEF Init, BoardOK, Pages, Cells
<1>5. FaultsOK
  BY DEF Init, FaultsOK
<1> QED
  BY <1>1, <1>2, <1>3, <1>4, <1>5, <1>6

LEMMA StepTyped ==
  ASSUME TypeOK, SentInv, [Next]_vars
  PROVE  TypeOK' /\ SentInv'
<1>1. CASE Main
  BY <1>1, MainTyped, MainSent
<1>2. CASE Updater
  BY <1>2, UpdaterTyped
<1>3. CASE \E kind \in Kinds : Begin(kind)
  BY <1>3, BeginTyped
<1>4. CASE UNCHANGED vars
  BY <1>4 DEF vars, main, updater, board, eepromCall, flashCall, TypeOK, SentInv, Filling,
     EndOfBlock
<1> QED
  BY <1>1, <1>2, <1>3, <1>4 DEF Next

(* The types of the state, for payloads, blocks and bounds of any size: the *)
(* packets that are sent never overrun the payload or the block.            *)
THEOREM GCPlusTypeCorrect == Spec => []TypeOK
<1>1. Init => TypeOK /\ SentInv
  BY InitTyped
<1>2. TypeOK /\ SentInv /\ [Next]_vars => (TypeOK /\ SentInv)'
  BY StepTyped
<1> QED
  BY <1>1, <1>2, PTL DEF Spec

-----------------------------------------------------------------------------
(* GCPMutex: who holds it, and so whom the board listens to.               *)

Working == {"open", "unlock", "bootbl", "unlockAgain", "index", "fill", "flash", "nextBlock",
            "progress", "bootpayload", "relock", "flags", "release"}

HoldInv ==
  /\ upc \in Working => holder = "updater"
  /\ holder = "updater" => upc \in Working
  /\ at # "call" => holder = "main"

LEMMA InitHold == Init => HoldInv
BY DEF Init, HoldInv, Working

(* startUpdate() while an update is under way.                             *)
Again == StartUpdate /\ updating

LEMMA AgainKeeps ==
  ASSUME Again
  PROVE  UNCHANGED <<holder, at, session, mapping, sessions, eepromCall, updater, board, faults,
                     faulty>>
BY DEF Again, StartUpdate

(* The update thread has nothing under way when the main thread transfers. *)
LEMMA MainHold ==
  ASSUME TypeOK, HoldInv, Main
  PROVE  HoldInv' /\ (~Again => upc \in {"none", "take", "ended"})
<1>1. CASE Again
  BY <1>1, AgainKeeps DEF HoldInv, updater
<1>2. CASE ~Again
  <2>1. holder # "updater" \/ StartUpdate \/ at # "call"
    BY DEF Main, Simple, V2Unlock, V2Version, V2Lock, MapByte0, MapByte1, ReadPacket, WriteEnter,
       WriteSend, WriteReadBack, Enters, Doing
  <2>2. upc \notin Working
    BY <1>2, <2>1 DEF HoldInv, StartUpdate, Again, Working
  <2>3. upc \in {"none", "take", "ended"}
    BY <2>2 DEF TypeOK, Working
  <2>4. holder # "updater"
    BY <2>2 DEF HoldInv
  <2>5. upc' \notin Working
    <3>1. upc' = upc \/ upc' = "take"
      BY DEF Main, Simple, V2Unlock, V2Version, V2Lock, MapByte0, MapByte1, ReadPacket, WriteEnter,
         WriteSend, WriteReadBack, StartUpdate, Idle, updater
    <3> QED
      BY <2>2, <3>1 DEF Working
  <2>6. \/ holder' = holder /\ at' = at
        \/ holder' = "none" /\ at' = "call"
        \/ holder' = "main"
    BY DEF Main, Simple, V2Unlock, V2Version, V2Lock, MapByte0, MapByte1, ReadPacket, WriteEnter,
       WriteSend, WriteReadBack, StartUpdate, Inside, Returns, NotV2, Leaves
  <2> QED
    BY <2>3, <2>4, <2>5, <2>6 DEF HoldInv
<1> QED
  BY <1>1, <1>2

LEMMA UpdaterHold ==
  ASSUME HoldInv, Updater
  PROVE  HoldInv'
<1>1. UNCHANGED at
  BY DEF Updater, Take, Open, UnlockBoard, BootBootloader, UnlockAgain, FlashBegin,
     FillBuffer, WriteFlash, NextBlock, Progress, BootPayload, LockBoard, SetFlags, Release,
     Updates, main
<1>2. CASE Take
  BY <1>1, <1>2 DEF Take, HoldInv, Working
<1>3. CASE Release
  BY <1>1, <1>3 DEF Release, Goes, HoldInv, Working
<1>4. CASE ~Take /\ ~Release
  <2>1. upc \in Working /\ upc' \in Working /\ holder' = holder
    BY <1>4 DEF Updater, Open, UnlockBoard, BootBootloader, UnlockAgain, FlashBegin,
       FillBuffer, WriteFlash, NextBlock, Progress, BootPayload, LockBoard, SetFlags,
       Updates, Goes, Fails, Working
  <2> QED
    BY <1>1, <2>1 DEF HoldInv
<1> QED
  BY <1>2, <1>3, <1>4

LEMMA StepHold ==
  ASSUME TypeOK, HoldInv, [Next]_vars
  PROVE  HoldInv'
<1>1. CASE \E kind \in Kinds : Begin(kind)
  BY <1>1 DEF Begin, updater, HoldInv
<1>2. CASE UNCHANGED vars
  BY <1>2 DEF vars, main, updater, HoldInv
<1> QED
  BY <1>1, <1>2, MainHold, UpdaterHold DEF Next

-----------------------------------------------------------------------------
(* What is in the buffer and in the flash.  Before the buffer is written,  *)
(* it holds the packets from `address` on, and the flash those before.     *)

InBlock ==
  /\ idx = packetIndex
  /\ \A i \in 0 .. packetIndex - 1 : buffer[i] = Payload[address + i]
  /\ \A i \in 0 .. address - 1 : flash[i] = Payload[i]

Early == {"take", "open", "unlock", "bootbl", "unlockAgain", "index", "fill", "flash",
          "nextBlock", "progress"}

FlashInv ==
  /\ upc \in {"fill", "flash"} => InBlock
  /\ upc = "nextBlock" => \A i \in 0 .. sent - 1 : flash[i] = Payload[i]
  /\ upc = "progress" => IF sent = Packets THEN FlashHolds ELSE InBlock
  /\ upc = "bootpayload" => FlashHolds
  /\ upc \in {"relock", "flags"} /\ goal => FlashHolds
  /\ upc \in Early => updateProgress < Packets
  /\ upc \in Early \cup {"bootpayload", "relock", "flags"} => ~updateSuccess
  /\ FlashedWhole

LEMMA InitFlash == Init => FlashInv
BY GCPlusAssumption DEF Init, FlashInv, FlashedWhole, Early

LEMMA MainTransfers ==
  ASSUME Main, ~WriteEnter, ~StartUpdate
  PROVE  \E c, r : Transfer("main", c, r) /\ c.cmd \notin {"flash", "bootbl"}
<1>1. CASE Simple
  <2>1. PICK call \in DOMAIN Command, r \in Results : Transfer("main", Cmd(Command[call]), r)
    BY <1>1 DEF Simple
  <2>2. Cmd(Command[call]).cmd \notin {"flash", "bootbl"}
    BY DEF Cmd, Command
  <2> QED
    BY <2>1, <2>2
<1>2. CASE V2Unlock
  BY <1>2 DEF V2Unlock, Cmd
<1>3. CASE V2Version
  BY <1>3 DEF V2Version, Cmd
<1>4. CASE V2Lock
  BY <1>4 DEF V2Lock, Cmd
<1>5. CASE MapByte0
  BY <1>5 DEF MapByte0, With
<1>6. CASE MapByte1
  BY <1>6 DEF MapByte1, With
<1>7. CASE WriteSend
  BY <1>7 DEF WriteSend
<1>8. CASE WriteReadBack
  BY <1>8 DEF WriteReadBack, Cmd
<1>9. CASE ReadPacket
  BY <1>9 DEF ReadPacket, Cmd
<1> QED
  BY <1>1, <1>2, <1>3, <1>4, <1>5, <1>6, <1>7, <1>8, <1>9 DEF Main

LEMMA MainFlash ==
  ASSUME TypeOK, HoldInv, FlashInv, Main
  PROVE  FlashInv'
<1>1. ~Again => upc \in {"none", "take", "ended"}
  BY MainHold
<1>2. UNCHANGED flash
  <2>1. CASE WriteEnter \/ StartUpdate
    BY <2>1 DEF WriteEnter, StartUpdate, board
  <2>2. CASE ~WriteEnter /\ ~StartUpdate
    <3>1. PICK c, r : Transfer("main", c, r) /\ c.cmd \notin {"flash", "bootbl"}
      BY <2>2, MainTransfers
    <3> QED
      BY <3>1, TransferKeeps, TypeParts DEF Threads
  <2> QED
    BY <2>1, <2>2
<1>3. CASE ~StartUpdate
  <2>1. UNCHANGED <<upc, updateProgress, updateSuccess>>
    BY <1>3 DEF Main, Simple, V2Unlock, V2Version, V2Lock, MapByte0, MapByte1, ReadPacket, WriteEnter,
       WriteSend, WriteReadBack, Idle, updater
  <2> QED
    BY <1>1, <1>2, <1>3, <2>1 DEF FlashInv, FlashedWhole, FlashHolds, Early, Again
<1>4. CASE StartUpdate /\ ~Again
  <2>1. upc' = "take" /\ updateSuccess' = FALSE /\ updateProgress' = 0
    BY <1>4 DEF StartUpdate, Again
  <2> QED
    BY <2>1, GCPlusAssumption DEF FlashInv, FlashedWhole, Early
<1>5. CASE Again
  BY <1>5, AgainKeeps DEF updater, flashCall, board, FlashInv, FlashedWhole, FlashHolds, InBlock
<1> QED
  BY <1>3, <1>4, <1>5

LEMMA UpdaterFlash ==
  ASSUME TypeOK, SentInv, FlashInv, Updater
  PROVE  FlashInv'
<1> USE TypeParts, GCPlusAssumption
<1>1. CASE Take \/ Open
  <2>1. /\ upc \in {"take", "open"} /\ upc' \in {"open", "unlock", "relock"}
        /\ upc' = "relock" => goal' = FALSE
        /\ UNCHANGED <<updateProgress, updateSuccess, flash>>
    BY <1>1 DEF Take, Open, Updates, Goes, Fails, board
  <2> QED
    BY <2>1 DEF FlashInv, FlashedWhole, FlashHolds, Early
<1>2. CASE UnlockBoard \/ BootBootloader \/ UnlockAgain
  <2>1. PICK name \in {"unlock", "bootbl"}, r \in Results : Transfer("updater", Cmd(name), r)
    BY <1>2 DEF UnlockBoard, BootBootloader, UnlockAgain, Sends
  <2>2. flash' = flash
    BY <2>1, TransferKeeps DEF Threads, Cmd
  <2>3. /\ upc \in {"unlock", "bootbl", "unlockAgain"}
        /\ upc' \in {"bootbl", "unlockAgain", "index", "relock"}
        /\ upc' = "relock" => goal' = FALSE
        /\ UNCHANGED <<updateProgress, updateSuccess>>
    BY <1>2 DEF UnlockBoard, BootBootloader, UnlockAgain, Updates, Goes, Fails
  <2> QED
    BY <2>2, <2>3 DEF FlashInv, FlashedWhole, FlashHolds, Early
<1>3. CASE FlashBegin
  <2>1. PICK r \in Results :
          Transfer("updater", Cmd("resetidx"), r) /\ IF r = "none" THEN Goes("fill") ELSE Fails
    BY <1>3 DEF FlashBegin, Sends
  <2>2. flash' = flash
    BY <2>1, TransferKeeps DEF Threads, Cmd
  <2>3. r = "none" => idx' = 0
    <3>1. r = "none" => Obeys(Cmd("resetidx"))
      BY <2>1, TransferClean DEF Threads
    <3> QED
      BY <3>1 DEF Obeys, Cmd
  <2>4. /\ upc = "index" /\ packetIndex' = 0 /\ address' = 0
        /\ UNCHANGED <<updateProgress, updateSuccess>>
    BY <1>3 DEF FlashBegin, Updates
  <2>5. upc' = "fill" => InBlock'
    BY <2>1, <2>3, <2>4 DEF Fails, InBlock
  <2>6. upc' = "fill" \/ (upc' = "relock" /\ goal' = FALSE)
    BY <2>1 DEF Goes, Fails
  <2> QED
    BY <2>2, <2>4, <2>5, <2>6 DEF FlashInv, FlashedWhole, FlashHolds, Early
<1>4. CASE FillBuffer
  <2>1. PICK r \in Results :
          /\ Transfer("updater", With("fill", Payload[sent]), r)
          /\ \/ r = "none" /\ upc' \in {"flash", "progress"}
             \/ upc' = "relock" /\ goal' = FALSE
          /\ upc' = "progress" => ~EndOfBlock(packetIndex + 1, sent + 1)
    BY <1>4 DEF FillBuffer, Sends, Goes, Fails
  <2>2. flash' = flash
    BY <2>1, TransferKeeps DEF Threads, With
  <2>3. Filling /\ InBlock
    BY <1>4 DEF FillBuffer, Updates, SentInv, FlashInv
  <2>4. r = "none" => buffer' = [buffer EXCEPT ![idx] = Payload[sent]] /\ idx' = idx + 1
    <3>1. r = "none" => Obeys(With("fill", Payload[sent]))
      BY <2>1, TransferClean DEF Threads
    <3> QED
      BY <3>1 DEF Obeys, With
  <2>5. /\ upc = "fill" /\ sent' = sent + 1 /\ packetIndex' = packetIndex + 1
        /\ address' = address /\ UNCHANGED <<updateProgress, updateSuccess>>
    BY <1>4 DEF FillBuffer, Updates
  <2>6. r = "none" => InBlock'
    <3>1. \A i \in 0 .. address - 1 : flash'[i] = Payload[i]
      BY <2>2, <2>3 DEF InBlock
    <3>2. ASSUME r = "none", NEW i \in 0 .. packetIndex
          PROVE  buffer'[i] = Payload[address + i]
      <4>1. sent = address + packetIndex /\ idx = packetIndex /\ idx \in BufferIndices
        BY <2>3 DEF Filling, InBlock, BufferIndices, UpdateOK
      <4>2. i \in BufferIndices
        BY <2>3 DEF Filling, BufferIndices, UpdateOK
      <4>3. CASE i = packetIndex
        BY <2>4, <3>2, <4>1, <4>3 DEF BoardOK, UpdateOK
      <4>4. CASE i # packetIndex
        <5>1. i \in 0 .. packetIndex - 1
          BY <4>4 DEF UpdateOK
        <5> QED
          BY <2>3, <2>4, <3>2, <4>1, <4>2, <4>4, <5>1 DEF InBlock, BoardOK
      <4> QED
        BY <4>3, <4>4
    <3> QED
      BY <2>3, <2>4, <2>5, <3>1, <3>2 DEF InBlock, UpdateOK
  <2>7. upc' = "progress" => sent' # Packets
    BY <2>1, <2>5 DEF EndOfBlock
  <2> QED
    BY <2>1, <2>2, <2>5, <2>6, <2>7 DEF FlashInv, FlashedWhole, FlashHolds, Early
<1>5. CASE WriteFlash
  <2>1. PICK r \in Results :
          /\ Transfer("updater", With("flash", address), r)
          /\ \/ r = "none" /\ upc' = "nextBlock"
             \/ upc' = "relock" /\ goal' = FALSE
    BY <1>5 DEF WriteFlash, Sends, Goes, Fails
  <2>2. /\ upc = "flash" /\ UNCHANGED <<sent, address, updateProgress, updateSuccess>>
    BY <1>5 DEF WriteFlash, Updates
  <2>3. InBlock /\ sent = address + packetIndex
    BY <2>2 DEF FlashInv, SentInv
  <2>4. ASSUME r = "none", NEW i \in 0 .. sent - 1
        PROVE  flash'[i] = Payload[i]
    <3>1. Obeys(With("flash", address))
      BY <2>1, <2>4, TransferClean DEF Threads
    <3>2. flash' = [a \in FlashAddresses |->
                      IF a - address \in BufferIndices THEN buffer[a - address] ELSE flash[a]]
      BY <3>1 DEF Obeys, With
    <3>3. i \in FlashAddresses
      BY DEF FlashAddresses, UpdateOK
    <3>4. flash'[i] = IF i - address \in BufferIndices THEN buffer[i - address] ELSE flash[i]
      BY <3>2, <3>3
    <3>5. CASE i < address
      <4>1. i - address \notin BufferIndices /\ i \in 0 .. address - 1
        BY <3>5 DEF BufferIndices, UpdateOK
      <4> QED
        BY <2>3, <3>4, <4>1 DEF InBlock
    <3>6. CASE i >= address
      <4>1. i - address \in BufferIndices /\ i - address \in 0 .. packetIndex - 1
        BY <2>3, <3>6 DEF BufferIndices, UpdateOK
      <4>2. buffer[i - address] = Payload[address + (i - address)]
        BY <2>3, <4>1 DEF InBlock
      <4>3. address + (i - address) = i
        BY DEF UpdateOK
      <4> QED
        BY <3>4, <4>1, <4>2, <4>3
    <3> QED
      BY <3>5, <3>6 DEF UpdateOK
  <2> QED
    BY <2>1, <2>2, <2>4 DEF FlashInv, FlashedWhole, FlashHolds, Early
<1>6. CASE NextBlock
  <2>1. PICK r \in Results :
          /\ Transfer("updater", Cmd("resetidx"), r)
          /\ \/ r = "none" /\ upc' = "progress" /\ address' = address + BlockPackets
             \/ upc' = "relock" /\ goal' = FALSE
    BY <1>6 DEF NextBlock, Sends, Goes, Fails
  <2>2. flash' = flash
    BY <2>1, TransferKeeps DEF Threads, Cmd
  <2>3. r = "none" => idx' = 0
    <3>1. r = "none" => Obeys(Cmd("resetidx"))
      BY <2>1, TransferClean DEF Threads
    <3> QED
      BY <3>1 DEF Obeys, Cmd
  <2>4. /\ upc = "nextBlock" /\ UNCHANGED <<sent, packetIndex, updateProgress, updateSuccess>>
    BY <1>6 DEF NextBlock, Updates
  <2>5. /\ (packetIndex = 0 /\ sent = Packets) \/ sent = address + BlockPackets
        /\ packetIndex = 0
        /\ \A i \in 0 .. sent - 1 : flash[i] = Payload[i]
    BY <2>4 DEF SentInv, FlashInv
  <2>6. upc' = "progress" /\ sent = Packets => FlashHolds'
    BY <2>2, <2>5 DEF FlashHolds, PacketIndices
  <2>7. upc' = "progress" /\ sent # Packets => InBlock'
    BY <2>1, <2>2, <2>3, <2>4, <2>5 DEF InBlock
  <2> QED
    BY <2>1, <2>2, <2>4, <2>6, <2>7 DEF FlashInv, FlashedWhole, FlashHolds, Early
<1>7. CASE Progress
  <2>1. /\ upc = "progress" /\ updateProgress' = sent
        /\ upc' = IF sent = Packets THEN "bootpayload" ELSE "fill"
        /\ UNCHANGED <<sent, packetIndex, address, idx, buffer, flash, updateSuccess>>
    BY <1>7 DEF Progress, Updates, Goes, flashCall, board
  <2>2. CASE sent = Packets
    BY <2>1, <2>2 DEF FlashInv, FlashedWhole, FlashHolds, Early
  <2>3. CASE sent # Packets
    BY <2>1, <2>3 DEF FlashInv, FlashedWhole, FlashHolds, InBlock, Early, UpdateOK
  <2> QED
    BY <2>2, <2>3
<1>8. CASE BootPayload \/ LockBoard
  <2>1. PICK name \in {"bootpayload", "lock"}, r \in Results : Transfer("updater", Cmd(name), r)
    BY <1>8 DEF BootPayload, LockBoard, Sends
  <2>2. flash' = flash
    BY <2>1, TransferKeeps DEF Threads, Cmd
  <2>3. /\ UNCHANGED <<updateProgress, updateSuccess>>
        /\ \/ upc = "bootpayload" /\ upc' = "relock"
           \/ upc = "relock" /\ upc' = "flags" /\ goal' = goal
    BY <1>8 DEF BootPayload, LockBoard, Updates, Goes, Fails
  <2> QED
    BY <2>2, <2>3 DEF FlashInv, FlashedWhole, FlashHolds, Early
<1>9. CASE SetFlags
  <2>1. /\ upc = "flags" /\ upc' = "release" /\ updateSuccess' = goal
        /\ UNCHANGED <<updateProgress, flash>>
    BY <1>9 DEF SetFlags, Goes, board
  <2> QED
    BY <2>1 DEF FlashInv, FlashedWhole, FlashHolds, Early
<1>10. CASE Release
  <2>1. upc' = "ended" /\ UNCHANGED <<updateProgress, updateSuccess, flash>>
    BY <1>10 DEF Release, Goes, board
  <2> QED
    BY <2>1 DEF FlashInv, FlashedWhole, FlashHolds, Early
<1> QED
  BY <1>1, <1>2, <1>3, <1>4, <1>5, <1>6, <1>7, <1>8, <1>9, <1>10 DEF Updater

LEMMA StepFlash ==
  ASSUME TypeOK, SentInv, HoldInv, FlashInv, [Next]_vars
  PROVE  FlashInv'
<1>1. CASE (\E kind \in Kinds : Begin(kind)) \/ UNCHANGED vars
  <2>1. UNCHANGED <<updater, board>>
    BY <1>1 DEF Begin, vars
  <2> QED
    BY <2>1 DEF updater, board, flashCall, FlashInv, InBlock, FlashedWhole, FlashHolds, Early
<1> QED
  BY <1>1, MainFlash, UpdaterFlash DEF Next

(* If the interface says that an update succeeded, or shows 100 %, the      *)
(* whole update file is in the flash: whatever transfers failed in this or  *)
(* earlier updates, and whatever the main thread asks of the board.         *)
THEOREM GCPlusFlashedWhole == Spec => []FlashedWhole
<1> DEFINE IInv == TypeOK /\ SentInv /\ HoldInv /\ FlashInv
<1>1. Init => IInv
  BY InitTyped, InitHold, InitFlash
<1>2. IInv /\ [Next]_vars => IInv'
  BY StepTyped, StepHold, StepFlash
<1>3. IInv => FlashedWhole
  BY DEF FlashInv
<1> QED
  BY <1>1, <1>2, <1>3, PTL DEF Spec

-----------------------------------------------------------------------------
(* An update in which no transfer has failed so far.                       *)

Clean == file /\ ~faulty["updater"]

CleanInv ==
  Clean =>
    /\ upc \in Early \cup {"bootpayload", "relock", "flags"} => goal
    /\ upc = "bootbl" => unlocked
    /\ upc = "unlockAgain" => mode = "bootloader"
    /\ upc \in {"index", "fill", "flash", "nextBlock", "progress", "bootpayload"} =>
         unlocked /\ mode = "bootloader"
    /\ upc \in {"relock", "flags", "release", "ended"} => mode = "payload"
    /\ upc \in {"release", "ended"} => updateSuccess

LEMMA InitClean == Init => CleanInv
BY DEF Init, CleanInv, Clean

LEMMA MainClean ==
  ASSUME TypeOK, HoldInv, CleanInv, Main
  PROVE  CleanInv'
<1>1. ~Again => upc \in {"none", "take", "ended"}
  BY MainHold
<1>2. CASE StartUpdate
  <2>1. CASE Again
    BY <2>1, AgainKeeps DEF updater, board, CleanInv, Clean
  <2>2. CASE ~Again
    BY <1>2, <2>2 DEF StartUpdate, Again, CleanInv, Early
  <2> QED
    BY <2>1, <2>2
<1>3. CASE WriteEnter
  BY <1>3 DEF WriteEnter, Idle, updater, board, CleanInv, Clean
<1>4. CASE ~WriteEnter /\ ~StartUpdate
  <2>1. PICK c, r : Transfer("main", c, r) /\ c.cmd \notin {"flash", "bootbl"}
    BY <1>4, MainTransfers
  <2>2. mode = "payload" => mode' = "payload"
    BY <2>1, TransferKeeps, TypeParts DEF Threads
  <2>3. faulty'["updater"] = faulty["updater"]
    BY <2>1, TransferKeeps, TypeParts DEF Threads
  <2>4. UNCHANGED <<upc, file, goal, updateSuccess>>
    BY <1>4 DEF Main, Simple, V2Unlock, V2Version, V2Lock, MapByte0, MapByte1, ReadPacket, WriteSend,
       WriteReadBack, Idle, updater
  <2> QED
    BY <1>1, <1>4, <2>2, <2>3, <2>4 DEF CleanInv, Clean, Early, Again
<1> QED
  BY <1>2, <1>3, <1>4

(* What the board does with each command of a clean update.                *)
LEMMA CleanTransfer ==
  ASSUME TypeOK, NEW c, NEW r, Transfer("updater", c, r), ~faulty'["updater"]
  PROVE  /\ ~faulty["updater"]
         /\ r \in {"none", "refused"}
         /\ r = "none" <=> Accepts(c)
         /\ Accepts(c) => Obeys(c)
         /\ ~Accepts(c) => UNCHANGED board
BY TransferClean, TypeParts DEF Threads

LEMMA UpdaterClean ==
  ASSUME TypeOK, SentInv, FlashInv, CleanInv, Updater
  PROVE  CleanInv'
<1> USE TypeParts
<1>0. SUFFICES ASSUME Clean' PROVE CleanInv'
  BY DEF CleanInv
<1>1. file' = file
  BY DEF Updater, Take, Open, UnlockBoard, BootBootloader, UnlockAgain, FlashBegin,
     FillBuffer, WriteFlash, NextBlock, Progress, BootPayload, LockBoard, SetFlags, Release,
     Updates
<1>2. ASSUME NEW c, NEW r, Transfer("updater", c, r)
      PROVE  /\ Clean
             /\ r \in {"none", "refused"} /\ (r = "none" <=> Accepts(c))
             /\ Accepts(c) => Obeys(c)
             /\ ~Accepts(c) => UNCHANGED board
  BY <1>0, <1>1, <1>2, CleanTransfer DEF Clean
<1>3. CASE Take \/ Open \/ Progress \/ SetFlags \/ Release
  <2>1. Clean
    BY <1>0, <1>1, <1>3 DEF Take, Open, Progress, SetFlags, Release, Clean
  <2>2. UNCHANGED <<mode, unlocked>>
    BY <1>3 DEF Take, Open, Progress, SetFlags, Release, board
  <2>3. CASE Take \/ Open
    BY <2>1, <2>2, <2>3 DEF Take, Open, Updates, Goes, CleanInv, Clean, Early
  <2>4. CASE Progress
    BY <2>1, <2>2, <2>4 DEF Progress, Updates, Goes, CleanInv, Early
  <2>5. CASE SetFlags \/ Release
    BY <2>1, <2>2, <2>5 DEF SetFlags, Release, Goes, CleanInv, Early
  <2> QED
    BY <1>3, <2>3, <2>4, <2>5
<1>4. CASE UnlockBoard \/ UnlockAgain \/ LockBoard
  <2>1. PICK name \in {"unlock", "lock"}, r \in Results :
          /\ Transfer("updater", Cmd(name), r)
          /\ upc = "unlock" => name = "unlock" /\ IF r = "none" THEN Goes("bootbl") ELSE Fails
          /\ upc = "unlockAgain" => name = "unlock" /\ IF r = "none" THEN Goes("index") ELSE Fails
          /\ upc = "relock" => Goes("flags")
          /\ upc \in {"unlock", "unlockAgain", "relock"}
    BY <1>4 DEF UnlockBoard, UnlockAgain, LockBoard, Updates, Sends
  <2>2. Clean /\ r = "none" /\ Obeys(Cmd(name))
    <3>1. Accepts(Cmd(name))
      BY DEF Accepts, Cmd, Needs, BoardOK
    <3> QED
      BY <2>1, <3>1, <1>2
  <2>3. unlocked' = (name = "unlock") /\ mode' = mode
    BY <2>2 DEF Obeys, Cmd
  <2>4. CASE upc = "unlock"
    <3>1. unlocked' /\ upc' = "bootbl" /\ goal' = goal
      BY <2>1, <2>2, <2>3, <2>4 DEF Goes
    <3> QED
      BY <2>2, <2>4, <3>1 DEF CleanInv, Early
  <2>5. CASE upc = "unlockAgain"
    <3>1. unlocked' /\ upc' = "index" /\ goal' = goal /\ mode' = mode
      BY <2>1, <2>2, <2>3, <2>5 DEF Goes
    <3> QED
      BY <2>2, <2>5, <3>1 DEF CleanInv, Early
  <2>6. CASE upc = "relock"
    <3>1. upc' = "flags" /\ goal' = goal /\ mode' = mode
      BY <2>1, <2>3, <2>6 DEF Goes
    <3> QED
      BY <2>2, <2>6, <3>1 DEF CleanInv, Early
  <2> QED
    BY <2>1, <2>4, <2>5, <2>6
<1>5. CASE BootBootloader
  <2>1. PICK r \in Results :
          Transfer("updater", Cmd("bootbl"), r) /\ IF r = "timeout" THEN Fails ELSE Goes("unlockAgain")
    BY <1>5 DEF BootBootloader, Sends
  <2>2. Clean /\ upc = "bootbl" /\ upc' = "unlockAgain" /\ goal' = goal
    BY <1>5, <2>1, <1>2 DEF BootBootloader, Updates, Goes
  <2>3. mode' = "bootloader"
    <3>1. CASE Accepts(Cmd("bootbl"))
      BY <2>1, <3>1, <1>2 DEF Obeys, Cmd, Starts
    <3>2. CASE ~Accepts(Cmd("bootbl"))
      <4>1. mode # "payload"
        BY <2>2, <3>2 DEF CleanInv, Accepts, Cmd, Needs
      <4> QED
        BY <2>1, <3>2, <4>1, <1>2 DEF board, BoardOK
    <3> QED
      BY <3>1, <3>2
  <2> QED
    BY <2>2, <2>3 DEF CleanInv, Early
<1>6. CASE FlashBegin \/ NextBlock
  <2>1. PICK r \in Results :
          /\ Transfer("updater", Cmd("resetidx"), r)
          /\ IF r = "none" THEN upc' \in {"fill", "progress"} /\ goal' = goal ELSE Fails
    BY <1>6 DEF FlashBegin, NextBlock, Sends, Goes
  <2>2. Clean /\ upc \in {"index", "nextBlock"} /\ unlocked /\ mode = "bootloader" /\ goal
    BY <1>6, <2>1, <1>2 DEF FlashBegin, NextBlock, Updates, CleanInv, Early
  <2>3. r = "none" /\ Obeys(Cmd("resetidx"))
    <3>1. Accepts(Cmd("resetidx"))
      BY <2>2 DEF Accepts, Cmd, Needs
    <3> QED
      BY <2>1, <3>1, <1>2
  <2>4. UNCHANGED <<mode, unlocked>>
    BY <2>3 DEF Obeys, Cmd
  <2> QED
    BY <2>1, <2>2, <2>3, <2>4 DEF CleanInv, Early
<1>7. CASE FillBuffer
  <2>1. PICK r \in Results :
          /\ Transfer("updater", With("fill", Payload[sent]), r)
          /\ r = "none" => upc' \in {"flash", "progress"} /\ goal' = goal
    BY <1>7 DEF FillBuffer, Sends, Goes, Fails
  <2>2. Clean /\ upc = "fill" /\ unlocked /\ mode = "bootloader" /\ goal
    BY <1>7, <2>1, <1>2 DEF FillBuffer, Updates, CleanInv, Early
  <2>3. r = "none" /\ Obeys(With("fill", Payload[sent]))
    <3>1. idx < BlockPackets
      BY <2>2 DEF SentInv, Filling, FlashInv, InBlock
    <3>2. Accepts(With("fill", Payload[sent]))
      BY <2>2, <3>1 DEF Accepts, With, Needs
    <3> QED
      BY <2>1, <3>2, <1>2
  <2>4. UNCHANGED <<mode, unlocked>>
    BY <2>3 DEF Obeys, With
  <2> QED
    BY <2>1, <2>2, <2>3, <2>4 DEF CleanInv, Early
<1>8. CASE WriteFlash
  <2>1. PICK r \in Results :
          /\ Transfer("updater", With("flash", address), r)
          /\ r = "none" => upc' = "nextBlock" /\ goal' = goal
    BY <1>8 DEF WriteFlash, Sends, Goes, Fails
  <2>2. Clean /\ upc = "flash" /\ unlocked /\ mode = "bootloader" /\ goal
    BY <1>8, <2>1, <1>2 DEF WriteFlash, Updates, CleanInv, Early
  <2>3. r = "none" /\ Obeys(With("flash", address))
    <3>1. Accepts(With("flash", address))
      BY <2>2 DEF Accepts, With, Needs
    <3> QED
      BY <2>1, <3>1, <1>2
  <2>4. UNCHANGED <<mode, unlocked>>
    BY <2>3 DEF Obeys, With
  <2> QED
    BY <2>1, <2>2, <2>3, <2>4 DEF CleanInv, Early
<1>9. CASE BootPayload
  <2>1. PICK r \in Results :
          Transfer("updater", Cmd("bootpayload"), r) /\ IF r = "timeout" THEN Fails ELSE Goes("relock")
    BY <1>9 DEF BootPayload, Sends
  <2>2. /\ Clean /\ upc = "bootpayload" /\ unlocked /\ mode = "bootloader" /\ goal
        /\ upc' = "relock" /\ goal' = goal
    BY <1>9, <2>1, <1>2 DEF BootPayload, Updates, Goes, CleanInv, Early
  <2>3. mode' = "payload"
    <3>1. Accepts(Cmd("bootpayload"))
      BY <2>2 DEF Accepts, Cmd, Needs
    <3> QED
      BY <2>1, <3>1, <1>2 DEF Obeys, Cmd, Starts
  <2> QED
    BY <2>2, <2>3 DEF CleanInv, Early
<1> QED
  BY <1>3, <1>4, <1>5, <1>6, <1>7, <1>8, <1>9 DEF Updater

LEMMA StepClean ==
  ASSUME TypeOK, SentInv, HoldInv, FlashInv, CleanInv, [Next]_vars
  PROVE  CleanInv'
<1>1. CASE \E kind \in Kinds : Begin(kind)
  <2>1. UNCHANGED <<updater, board>> /\ faulty' = [faulty EXCEPT !["main"] = FALSE]
    BY <1>1 DEF Begin
  <2>2. faulty'["updater"] = faulty["updater"]
    BY <2>1 DEF TypeOK, Threads
  <2> QED
    BY <2>1, <2>2 DEF updater, board, CleanInv, Clean, Early
<1>2. CASE UNCHANGED vars
  BY <1>2 DEF vars, updater, board, CleanInv, Clean, Early
<1> QED
  BY <1>1, <1>2, MainClean, UpdaterClean DEF Next

(* An update in which no transfer fails succeeds and leaves the new payload *)
(* running, whatever the board was left in and whatever the main thread     *)
(* asks of it meanwhile.                                                    *)
THEOREM GCPlusCleanUpdates == Spec => []CleanUpdateSucceeds
<1> DEFINE IInv == TypeOK /\ SentInv /\ HoldInv /\ FlashInv /\ CleanInv
<1>1. Init => IInv
  BY InitTyped, InitHold, InitFlash, InitClean
<1>2. IInv /\ [Next]_vars => IInv'
  BY StepTyped, StepHold, StepFlash, StepClean
<1>3. IInv => CleanUpdateSucceeds
  BY DEF CleanInv, Clean, CleanUpdateSucceeds
<1> QED
  BY <1>1, <1>2, <1>3, PTL DEF Spec

-----------------------------------------------------------------------------
(* Where the main thread is in its session.                                *)

(* What a session has still to do, at any time.                            *)
Rests(kind) ==
  {<<>>, Calls(kind)} \cup
  CASE kind = "map" -> {<<"unlock", "setMapping", "lock">>, <<"setMapping", "lock">>, <<"lock">>}
    [] kind = "read" -> {<<"readEEPROM", "lock">>, <<"lock">>}
    [] kind = "save" -> {<<"writeEEPROM", "lock">>, <<"lock">>}
    [] kind = "saveBoth" -> {<<"writeEEPROM", "writeEEPROM", "lock">>,
                             <<"writeEEPROM", "lock">>, <<"lock">>}
    [] kind = "version" -> {<<"getFWVer", "lock">>, <<"lock">>}
    [] kind = "resetSticks" -> {<<"writeEEPROM", "reset">>, <<"reset">>}
    [] kind = "rebuildLUT" -> {<<"reset">>}
    [] kind = "update" -> {<<"getFWVer", "lock", "startUpdate">>, <<"lock", "startUpdate">>,
                           <<"startUpdate">>}
    [] OTHER -> {}

CallOf ==
  [version |-> "isV2", lockV2 |-> "isV2", lockOther |-> "isV2", byte1 |-> "setMapping",
   read |-> "readEEPROM", send |-> "writeEEPROM", readBack |-> "writeEEPROM"]

(* The update thread does nothing from the first step of a session to its  *)
(* end, or to the start of an update.                                      *)
PlaceInv ==
  /\ todo \in Rests(session)
  /\ at # "call" => todo # <<>> /\ Head(todo) = CallOf[at]
  /\ todo # Calls(session) /\ (todo # <<>> \/ session # "update") => upc \in {"none", "ended"}
  /\ todo # <<>> => upc # "take"

(* What a session does next, and what it has left then.                    *)
Does(kind, call, before, after) ==
  session = kind /\ todo = before /\ Head(todo) = call /\ Tail(todo) = after

LEMMA NextCall ==
  ASSUME CallOK, todo \in Rests(session), todo # <<>>
  PROVE
    \/ Does("detect", "isV2", <<"isV2">>, <<>>)
    \/ Does("map", "isV2", <<"isV2", "unlock", "setMapping", "lock">>,
            <<"unlock", "setMapping", "lock">>)
    \/ Does("map", "unlock", <<"unlock", "setMapping", "lock">>, <<"setMapping", "lock">>)
    \/ Does("map", "setMapping", <<"setMapping", "lock">>, <<"lock">>)
    \/ Does("map", "lock", <<"lock">>, <<>>)
    \/ Does("read", "unlock", <<"unlock", "readEEPROM", "lock">>, <<"readEEPROM", "lock">>)
    \/ Does("read", "readEEPROM", <<"readEEPROM", "lock">>, <<"lock">>)
    \/ Does("read", "lock", <<"lock">>, <<>>)
    \/ Does("save", "unlock", <<"unlock", "writeEEPROM", "lock">>, <<"writeEEPROM", "lock">>)
    \/ Does("save", "writeEEPROM", <<"writeEEPROM", "lock">>, <<"lock">>)
    \/ Does("save", "lock", <<"lock">>, <<>>)
    \/ Does("saveBoth", "unlock", <<"unlock", "writeEEPROM", "writeEEPROM", "lock">>,
            <<"writeEEPROM", "writeEEPROM", "lock">>)
    \/ Does("saveBoth", "writeEEPROM", <<"writeEEPROM", "writeEEPROM", "lock">>,
            <<"writeEEPROM", "lock">>)
    \/ Does("saveBoth", "writeEEPROM", <<"writeEEPROM", "lock">>, <<"lock">>)
    \/ Does("saveBoth", "lock", <<"lock">>, <<>>)
    \/ Does("version", "unlock", <<"unlock", "getFWVer", "lock">>, <<"getFWVer", "lock">>)
    \/ Does("version", "getFWVer", <<"getFWVer", "lock">>, <<"lock">>)
    \/ Does("version", "lock", <<"lock">>, <<>>)
    \/ Does("resetSticks", "unlock", <<"unlock", "writeEEPROM", "reset">>,
            <<"writeEEPROM", "reset">>)
    \/ Does("resetSticks", "writeEEPROM", <<"writeEEPROM", "reset">>, <<"reset">>)
    \/ Does("resetSticks", "reset", <<"reset">>, <<>>)
    \/ Does("rebuildLUT", "unlock", <<"unlock", "reset">>, <<"reset">>)
    \/ Does("rebuildLUT", "reset", <<"reset">>, <<>>)
    \/ Does("update", "unlock", <<"unlock", "getFWVer", "lock", "startUpdate">>,
            <<"getFWVer", "lock", "startUpdate">>)
    \/ Does("update", "getFWVer", <<"getFWVer", "lock", "startUpdate">>,
            <<"lock", "startUpdate">>)
    \/ Does("update", "lock", <<"lock", "startUpdate">>, <<"startUpdate">>)
    \/ Does("update", "startUpdate", <<"startUpdate">>, <<>>)
<1>1. CASE session = "detect"
  <2>0. todo = <<"isV2">>
    BY <1>1 DEF Rests, Calls
  <2>1. CASE todo = <<"isV2">>
    <3>1. Does("detect", "isV2", <<"isV2">>, <<>>)
      BY <1>1, <2>1 DEF Does
    <3> QED
      BY <3>1, Zenon
  <2> QED
    BY <2>0, <2>1, Zenon
<1>2. CASE session = "map"
  <2>0. \/ todo = <<"isV2", "unlock", "setMapping", "lock">>
        \/ todo = <<"unlock", "setMapping", "lock">>
        \/ todo = <<"setMapping", "lock">>
        \/ todo = <<"lock">>
    BY <1>2 DEF Rests, Calls
  <2>1. CASE todo = <<"isV2", "unlock", "setMapping", "lock">>
    <3>1. Does("map", "isV2", <<"isV2", "unlock", "setMapping", "lock">>,
              <<"unlock", "setMapping", "lock">>)
      BY <1>2, <2>1 DEF Does
    <3> QED
      BY <3>1, Zenon
  <2>2. CASE todo = <<"unlock", "setMapping", "lock">>
    <3>1. Does("map", "unlock", <<"unlock", "setMapping", "lock">>, <<"setMapping", "lock">>)
      BY <1>2, <2>2 DEF Does
    <3> QED
      BY <3>1, Zenon
  <2>3. CASE todo = <<"setMapping", "lock">>
    <3>1. Does("map", "setMapping", <<"setMapping", "lock">>, <<"lock">>)
      BY <1>2, <2>3 DEF Does
    <3> QED
      BY <3>1, Zenon
  <2>4. CASE todo = <<"lock">>
    <3>1. Does("map", "lock", <<"lock">>, <<>>)
      BY <1>2, <2>4 DEF Does
    <3> QED
      BY <3>1, Zenon
  <2> QED
    BY <2>0, <2>1, <2>2, <2>3, <2>4, Zenon
<1>3. CASE session = "save"
  <2>0. \/ todo = <<"unlock", "writeEEPROM", "lock">>
        \/ todo = <<"writeEEPROM", "lock">>
        \/ todo = <<"lock">>
    BY <1>3 DEF Rests, Calls
  <2>1. CASE todo = <<"unlock", "writeEEPROM", "lock">>
    <3>1. Does("save", "unlock", <<"unlock", "writeEEPROM", "lock">>, <<"writeEEPROM", "lock">>)
      BY <1>3, <2>1 DEF Does
    <3> QED
      BY <3>1, Zenon
  <2>2. CASE todo = <<"writeEEPROM", "lock">>
    <3>1. Does("save", "writeEEPROM", <<"writeEEPROM", "lock">>, <<"lock">>)
      BY <1>3, <2>2 DEF Does
    <3> QED
      BY <3>1, Zenon
  <2>3. CASE todo = <<"lock">>
    <3>1. Does("save", "lock", <<"lock">>, <<>>)
      BY <1>3, <2>3 DEF Does
    <3> QED
      BY <3>1, Zenon
  <2> QED
    BY <2>0, <2>1, <2>2, <2>3, Zenon
<1>4. CASE session = "version"
  <2>0. \/ todo = <<"unlock", "getFWVer", "lock">>
        \/ todo = <<"getFWVer", "lock">>
        \/ todo = <<"lock">>
    BY <1>4 DEF Rests, Calls
  <2>1. CASE todo = <<"unlock", "getFWVer", "lock">>
    <3>1. Does("version", "unlock", <<"unlock", "getFWVer", "lock">>, <<"getFWVer", "lock">>)
      BY <1>4, <2>1 DEF Does
    <3> QED
      BY <3>1, Zenon
  <2>2. CASE todo = <<"getFWVer", "lock">>
    <3>1. Does("version", "getFWVer", <<"getFWVer", "lock">>, <<"lock">>)
      BY <1>4, <2>2 DEF Does
    <3> QED
      BY <3>1, Zenon
  <2>3. CASE todo = <<"lock">>
    <3>1. Does("version", "lock", <<"lock">>, <<>>)
      BY <1>4, <2>3 DEF Does
    <3> QED
      BY <3>1, Zenon
  <2> QED
    BY <2>0, <2>1, <2>2, <2>3, Zenon
<1>5. CASE session = "resetSticks"
  <2>0. \/ todo = <<"unlock", "writeEEPROM", "reset">>
        \/ todo = <<"writeEEPROM", "reset">>
        \/ todo = <<"reset">>
    BY <1>5 DEF Rests, Calls
  <2>1. CASE todo = <<"unlock", "writeEEPROM", "reset">>
    <3>1. Does("resetSticks", "unlock", <<"unlock", "writeEEPROM", "reset">>,
              <<"writeEEPROM", "reset">>)
      BY <1>5, <2>1 DEF Does
    <3> QED
      BY <3>1, Zenon
  <2>2. CASE todo = <<"writeEEPROM", "reset">>
    <3>1. Does("resetSticks", "writeEEPROM", <<"writeEEPROM", "reset">>, <<"reset">>)
      BY <1>5, <2>2 DEF Does
    <3> QED
      BY <3>1, Zenon
  <2>3. CASE todo = <<"reset">>
    <3>1. Does("resetSticks", "reset", <<"reset">>, <<>>)
      BY <1>5, <2>3 DEF Does
    <3> QED
      BY <3>1, Zenon
  <2> QED
    BY <2>0, <2>1, <2>2, <2>3, Zenon
<1>6. CASE session = "rebuildLUT"
  <2>0. \/ todo = <<"unlock", "reset">>
        \/ todo = <<"reset">>
    BY <1>6 DEF Rests, Calls
  <2>1. CASE todo = <<"unlock", "reset">>
    <3>1. Does("rebuildLUT", "unlock", <<"unlock", "reset">>, <<"reset">>)
      BY <1>6, <2>1 DEF Does
    <3> QED
      BY <3>1, Zenon
  <2>2. CASE todo = <<"reset">>
    <3>1. Does("rebuildLUT", "reset", <<"reset">>, <<>>)
      BY <1>6, <2>2 DEF Does
    <3> QED
      BY <3>1, Zenon
  <2> QED
    BY <2>0, <2>1, <2>2, Zenon
<1>7. CASE session = "update"
  <2>0. \/ todo = <<"unlock", "getFWVer", "lock", "startUpdate">>
        \/ todo = <<"getFWVer", "lock", "startUpdate">>
        \/ todo = <<"lock", "startUpdate">>
        \/ todo = <<"startUpdate">>
    BY <1>7 DEF Rests, Calls
  <2>1. CASE todo = <<"unlock", "getFWVer", "lock", "startUpdate">>
    <3>1. Does("update", "unlock", <<"unlock", "getFWVer", "lock", "startUpdate">>,
              <<"getFWVer", "lock", "startUpdate">>)
      BY <1>7, <2>1 DEF Does
    <3> QED
      BY <3>1, Zenon
  <2>2. CASE todo = <<"getFWVer", "lock", "startUpdate">>
    <3>1. Does("update", "getFWVer", <<"getFWVer", "lock", "startUpdate">>,
              <<"lock", "startUpdate">>)
      BY <1>7, <2>2 DEF Does
    <3> QED
      BY <3>1, Zenon
  <2>3. CASE todo = <<"lock", "startUpdate">>
    <3>1. Does("update", "lock", <<"lock", "startUpdate">>, <<"startUpdate">>)
      BY <1>7, <2>3 DEF Does
    <3> QED
      BY <3>1, Zenon
  <2>4. CASE todo = <<"startUpdate">>
    <3>1. Does("update", "startUpdate", <<"startUpdate">>, <<>>)
      BY <1>7, <2>4 DEF Does
    <3> QED
      BY <3>1, Zenon
  <2> QED
    BY <2>0, <2>1, <2>2, <2>3, <2>4, Zenon
<1>8. CASE session = "read"
  <2>0. \/ todo = <<"unlock", "readEEPROM", "lock">>
        \/ todo = <<"readEEPROM", "lock">>
        \/ todo = <<"lock">>
    BY <1>8 DEF Rests, Calls
  <2>1. CASE todo = <<"unlock", "readEEPROM", "lock">>
    <3>1. Does("read", "unlock", <<"unlock", "readEEPROM", "lock">>, <<"readEEPROM", "lock">>)
      BY <1>8, <2>1 DEF Does
    <3> QED
      BY <3>1, Zenon
  <2>2. CASE todo = <<"readEEPROM", "lock">>
    <3>1. Does("read", "readEEPROM", <<"readEEPROM", "lock">>, <<"lock">>)
      BY <1>8, <2>2 DEF Does
    <3> QED
      BY <3>1, Zenon
  <2>3. CASE todo = <<"lock">>
    <3>1. Does("read", "lock", <<"lock">>, <<>>)
      BY <1>8, <2>3 DEF Does
    <3> QED
      BY <3>1, Zenon
  <2> QED
    BY <2>0, <2>1, <2>2, <2>3, Zenon
<1>9. CASE session = "saveBoth"
  <2>0. \/ todo = <<"unlock", "writeEEPROM", "writeEEPROM", "lock">>
        \/ todo = <<"writeEEPROM", "writeEEPROM", "lock">>
        \/ todo = <<"writeEEPROM", "lock">>
        \/ todo = <<"lock">>
    BY <1>9 DEF Rests, Calls
  <2>1. CASE todo = <<"unlock", "writeEEPROM", "writeEEPROM", "lock">>
    <3>1. Does("saveBoth", "unlock", <<"unlock", "writeEEPROM", "writeEEPROM", "lock">>,
              <<"writeEEPROM", "writeEEPROM", "lock">>)
      BY <1>9, <2>1 DEF Does
    <3> QED
      BY <3>1, Zenon
  <2>2. CASE todo = <<"writeEEPROM", "writeEEPROM", "lock">>
    <3>1. Does("saveBoth", "writeEEPROM", <<"writeEEPROM", "writeEEPROM", "lock">>,
              <<"writeEEPROM", "lock">>)
      BY <1>9, <2>2 DEF Does
    <3> QED
      BY <3>1, Zenon
  <2>3. CASE todo = <<"writeEEPROM", "lock">>
    <3>1. Does("saveBoth", "writeEEPROM", <<"writeEEPROM", "lock">>, <<"lock">>)
      BY <1>9, <2>3 DEF Does
    <3> QED
      BY <3>1, Zenon
  <2>4. CASE todo = <<"lock">>
    <3>1. Does("saveBoth", "lock", <<"lock">>, <<>>)
      BY <1>9, <2>4 DEF Does
    <3> QED
      BY <3>1, Zenon
  <2> QED
    BY <2>0, <2>1, <2>2, <2>3, <2>4, Zenon
<1> QED
  BY <1>1, <1>2, <1>3, <1>4, <1>5, <1>6, <1>7, <1>8, <1>9, Zenon DEF CallOK, Sessions

LEMMA AfterCall ==
  ASSUME CallOK, todo \in Rests(session), todo # <<>>
  PROVE  Tail(todo) \in Rests(session) /\ <<>> \in Rests(session)
<1>1. Tail(todo) \in Rests(session)
  BY NextCall DEF Does, Rests, Calls
<1> QED
  BY <1>1 DEF Rests

LEMMA InitPlace == Init => PlaceInv
BY DEF Init, PlaceInv, Rests

(* What a step of the main thread does to its session.                     *)
LEMMA MainMoves ==
  ASSUME Main
  PROVE  /\ todo # <<>>
         /\ UNCHANGED session
         /\ todo' \in {todo, Tail(todo), <<>>}
         /\ at' # "call" => todo' = todo /\ Head(todo) = CallOf[at']
<1> USE DEF Doing, Enters, Inside, Leaves, Returns, NotV2, Idle
<1>1. CASE Simple
  <2>1. todo # <<>> /\ session' = session /\ todo' = Tail(todo) /\ at' = "call"
    BY <1>1 DEF Simple
  <2> QED
    BY <1>1, <2>1
<1>2. CASE V2Unlock
  <2>1. todo # <<>> /\ Head(todo) = "isV2" /\ session' = session
    BY <1>2 DEF V2Unlock
  <2>2. (at' = "version" /\ todo' = todo) \/ (at' = "call" /\ todo' = <<>>)
    BY <1>2 DEF V2Unlock
  <2> QED
    BY <2>1, <2>2 DEF CallOf
<1>3. CASE V2Version
  <2>1. todo # <<>> /\ Head(todo) = "isV2" /\ session' = session
    BY <1>3 DEF V2Version
  <2>2. (at' \in {"lockV2", "lockOther"} /\ todo' = todo) \/ (at' = "call" /\ todo' = <<>>)
    BY <1>3 DEF V2Version
  <2> QED
    BY <2>1, <2>2 DEF CallOf
<1>4. CASE V2Lock
  BY <1>4 DEF V2Lock
<1>5. CASE MapByte0 \/ MapByte1
  <2>1. todo # <<>> /\ Head(todo) = "setMapping" /\ session' = session
    BY <1>5 DEF MapByte0, MapByte1
  <2>2. (at' = "byte1" /\ todo' = todo) \/ (at' = "call" /\ todo' = Tail(todo))
    BY <1>5 DEF MapByte0, MapByte1
  <2> QED
    BY <2>1, <2>2 DEF CallOf
<1>6. CASE WriteEnter \/ WriteSend \/ WriteReadBack
  <2>1. todo # <<>> /\ Head(todo) = "writeEEPROM" /\ session' = session
    BY <1>6 DEF WriteEnter, WriteSend, WriteReadBack
  <2>2. (at' \in {"send", "readBack"} /\ todo' = todo) \/ (at' = "call" /\ todo' = Tail(todo))
    BY <1>6 DEF WriteEnter, WriteSend, WriteReadBack
  <2> QED
    BY <2>1, <2>2 DEF CallOf
<1>7. CASE StartUpdate
  BY <1>7 DEF StartUpdate
<1>8. CASE ReadPacket
  <2>1. todo # <<>> /\ Head(todo) = "readEEPROM" /\ session' = session
    BY <1>8 DEF ReadPacket
  <2>2. (at' = "read" /\ todo' = todo) \/ (at' = "call" /\ todo' = Tail(todo))
    BY <1>8 DEF ReadPacket
  <2> QED
    BY <2>1, <2>2 DEF CallOf
<1> QED
  BY <1>1, <1>2, <1>3, <1>4, <1>5, <1>6, <1>7, <1>8 DEF Main

(* The update thread is not there while the main thread is in a session.   *)
LEMMA MainAlone ==
  ASSUME TypeOK, HoldInv, PlaceInv, Main
  PROVE  upc \in {"none", "ended"}
<1>1. todo # <<>>
  BY MainMoves
<1>2. CASE ~Again
  BY <1>1, <1>2, MainHold DEF PlaceInv
<1>3. CASE Again
  <2>1. Head(todo) = "startUpdate"
    BY <1>3 DEF Again, StartUpdate, Doing
  <2>2. session = "update" /\ todo = <<"startUpdate">>
    BY <1>1, <2>1, NextCall, TypeParts DEF Does, PlaceInv
  <2>3. todo # Calls(session)
    BY <2>2 DEF Calls
  <2> QED
    BY <1>1, <2>3 DEF PlaceInv
<1> QED
  BY <1>2, <1>3

(* The update thread runs between the sessions, or waits for a first call. *)
LEMMA UpdaterMoves ==
  ASSUME TypeOK, HoldInv, PlaceInv, Updater
  PROVE  /\ UNCHANGED main /\ at = "call"
         /\ upc \notin {"none", "ended"} /\ upc' \notin {"none", "take"}
         /\ (session = "update" /\ todo = <<>>) \/ todo = Calls(session)
<1>1. UNCHANGED main /\ upc \in Working \cup {"take"} /\ upc' \notin {"none", "take"}
  BY DEF Updater, Take, Open, UnlockBoard, BootBootloader, UnlockAgain, FlashBegin,
     FillBuffer, WriteFlash, NextBlock, Progress, BootPayload, LockBoard, SetFlags, Release,
     Updates, Goes, Fails, Working
<1>2. upc = "take" => holder = "none"
  BY DEF Updater, Take, Open, UnlockBoard, BootBootloader, UnlockAgain, FlashBegin,
     FillBuffer, WriteFlash, NextBlock, Progress, BootPayload, LockBoard, SetFlags, Release,
     Updates
<1>3. at = "call"
  BY <1>1, <1>2 DEF HoldInv
<1> QED
  BY <1>1, <1>3 DEF PlaceInv, Working

LEMMA StepPlace ==
  ASSUME TypeOK, HoldInv, PlaceInv, [Next]_vars
  PROVE  PlaceInv'
<1>1. CASE Main
  <2>1. todo' \in Rests(session) /\ session' = session
    BY <1>1, MainMoves, AfterCall, TypeParts DEF PlaceInv
  <2>2. at' # "call" => todo' # <<>> /\ Head(todo') = CallOf[at']
    BY <1>1, MainMoves
  <2>3. upc \in {"none", "ended"}
    BY <1>1, MainAlone
  <2>4. CASE ~StartUpdate
    <3>1. upc' = upc
      BY <1>1, <2>4 DEF Main, Simple, V2Unlock, V2Version, V2Lock, MapByte0, MapByte1, ReadPacket,
         WriteEnter, WriteSend, WriteReadBack, Idle, updater
    <3> QED
      BY <2>1, <2>2, <2>3, <3>1 DEF PlaceInv
  <2>5. CASE StartUpdate
    <3>1. session = "update" /\ todo' = <<>>
      <4>1. todo # <<>> /\ Head(todo) = "startUpdate" /\ todo' = Tail(todo)
        BY <2>5 DEF StartUpdate, Doing
      <4> QED
        BY <4>1, NextCall, TypeParts DEF Does, PlaceInv
    <3> QED
      BY <2>1, <2>2, <3>1 DEF PlaceInv
  <2> QED
    BY <2>4, <2>5
<1>2. CASE Updater
  BY <1>2, UpdaterMoves DEF PlaceInv, main
<1>3. CASE \E kind \in Kinds : Begin(kind)
  <2>1. PICK kind \in Kinds : Begin(kind)
    BY <1>3
  <2>2. session' = kind /\ todo' = Calls(kind) /\ upc # "take" /\ upc' = upc /\ at' = at
    BY <2>1 DEF Begin, updater
  <2>3. at = "call"
    BY <2>1 DEF Begin, PlaceInv
  <2> QED
    BY <2>2, <2>3 DEF PlaceInv, Rests
<1>4. CASE UNCHANGED vars
  BY <1>4 DEF vars, main, updater, PlaceInv
<1> QED
  BY <1>1, <1>2, <1>3, <1>4 DEF Next

(* A transfer of the main thread in a session in which none has failed.    *)
LEMMA MainTransfer ==
  ASSUME TypeOK, NEW c, NEW r, Transfer("main", c, r), ~faulty'["main"]
  PROVE  /\ UNCHANGED faulty /\ ~faulty["main"]
         /\ r \in {"none", "refused"}
         /\ r = "none" <=> Accepts(c)
         /\ Accepts(c) => Obeys(c)
         /\ ~Accepts(c) => UNCHANGED board
BY TransferClean, TypeParts DEF Threads

-----------------------------------------------------------------------------
(* writeEEPROM(): the packets before the current one are what they should  *)
(* be, and the board is still open when it is asked for what it was given. *)

EepromInv ==
  /\ at \in {"send", "readBack"} => ~verified
  /\ ~faulty["main"] =>
       /\ at \in {"send", "readBack"} => \A i \in 1 .. written : eeprom[i] = Config[i]
       /\ at = "readBack" /\ answer = "none" => unlocked /\ mode = "payload"
       /\ verified => \A i \in DOMAIN Config : eeprom[i] = Config[i]

LEMMA InitEeprom == Init => EepromInv
BY DEF Init, EepromInv

LEMMA MainEeprom ==
  ASSUME TypeOK, HoldInv, PlaceInv, EepromInv, Main
  PROVE  EepromInv'
<1> USE TypeParts DEF Doing, Enters, Inside, Leaves, Returns, NotV2
<1>1. CASE Simple \/ V2Unlock \/ V2Version \/ V2Lock \/ MapByte0 \/ MapByte1 \/ ReadPacket
  <2>1. PICK c, r : Transfer("main", c, r) /\ c.cmd # "write"
    <3>1. CASE Simple
      <4>1. PICK call \in DOMAIN Command, r \in Results : Transfer("main", Cmd(Command[call]), r)
        BY <3>1 DEF Simple
      <4>2. Cmd(Command[call]).cmd # "write"
        BY DEF Cmd, Command
      <4> QED
        BY <4>1, <4>2
    <3>2. CASE V2Unlock
      BY <3>2 DEF V2Unlock, Cmd
    <3>3. CASE V2Version
      BY <3>3 DEF V2Version, Cmd
    <3>4. CASE V2Lock
      BY <3>4 DEF V2Lock, Cmd
    <3>5. CASE MapByte0 \/ MapByte1
      BY <3>5 DEF MapByte0, MapByte1, With
    <3>6. CASE ReadPacket
      BY <3>6 DEF ReadPacket, Cmd
    <3> QED
      BY <1>1, <3>1, <3>2, <3>3, <3>4, <3>5, <3>6
  <2>2. eeprom' = eeprom /\ (~faulty'["main"] => ~faulty["main"])
    BY <2>1, TransferKeeps, MainTransfer DEF Threads
  <2>3. verified' = verified /\ at' \notin {"send", "readBack"}
    BY <1>1 DEF Simple, V2Unlock, V2Version, V2Lock, MapByte0, MapByte1, ReadPacket, eepromCall
  <2> QED
    BY <2>2, <2>3 DEF EepromInv
<1>2. CASE WriteEnter
  <2>1. at' = "send" /\ written' = 0 /\ verified' = FALSE /\ UNCHANGED <<eeprom, faulty>>
    BY <1>2 DEF WriteEnter, board
  <2> QED
    BY <2>1 DEF EepromInv
<1>3. CASE WriteSend
  <2> DEFINE c == [cmd |-> "write", cell |-> Packet, val |-> Config[Packet]]
  <2>1. PICK r \in Results :
          /\ Transfer("main", c, r)
          /\ IF r = "timeout" THEN at' = "call" /\ answer' = answer
                              ELSE at' = "readBack" /\ answer' = r
    BY <1>3 DEF WriteSend
  <2>2. at = "send" /\ todo # <<>> /\ Head(todo) = "writeEEPROM" /\ UNCHANGED <<written, verified>>
    BY <1>3 DEF WriteSend
  <2>3. ~verified /\ ~verified'
    BY <2>2 DEF EepromInv
  <2>4. ASSUME ~faulty'["main"]
        PROVE  /\ \A i \in 1 .. written : eeprom'[i] = Config[i]
               /\ r = "none" => unlocked' /\ mode' = "payload"
    <3>1. ~faulty["main"] /\ (r = "none" <=> Accepts(c)) /\ (Accepts(c) => Obeys(c))
          /\ (~Accepts(c) => UNCHANGED board)
      BY <2>1, <2>4, MainTransfer
    <3>2. \A i \in 1 .. written : eeprom[i] = Config[i]
      BY <2>2, <3>1 DEF EepromInv
    <3>3. CASE Accepts(c)
      <4>1. PICK kept \in Keeps :
              eeprom' = [eeprom EXCEPT ![Packet] = IF kept THEN Config[Packet] ELSE @]
        BY <3>1, <3>3 DEF Obeys
      <4>2. UNCHANGED <<mode, unlocked>> /\ mode = "payload" /\ unlocked
        BY <3>1, <3>3 DEF Obeys, Accepts, Needs
      <4>3. \A i \in 1 .. written : i \in DOMAIN Config /\ i # Packet
        BY GCPlusAssumption DEF EepromOK, Packet
      <4> QED
        BY <3>2, <4>1, <4>2, <4>3 DEF BoardOK
    <3>4. CASE ~Accepts(c)
      BY <3>1, <3>2, <3>4 DEF board
    <3> QED
      BY <3>3, <3>4
  <2> QED
    BY <2>1, <2>2, <2>3, <2>4 DEF EepromInv
<1>4. CASE WriteReadBack
  <2>1. PICK r \in Results : /\ Transfer("main", Cmd("read"), r)
                             /\ test' = IF r = "none" THEN eeprom[Packet] ELSE test
    BY <1>4 DEF WriteReadBack
  <2>2. /\ at = "readBack" /\ todo # <<>> /\ Head(todo) = "writeEEPROM" /\ answer' = answer
        /\ \/ /\ Written /\ Packet = Len(Config) /\ at' = "call" /\ todo' = Tail(todo)
              /\ verified' = TRUE /\ UNCHANGED written
           \/ /\ Written /\ Packet < Len(Config) /\ at' = "send"
              /\ written' = Packet /\ UNCHANGED verified
           \/ at' \in {"send", "call"} /\ UNCHANGED <<written, verified>>
    BY <1>4 DEF WriteReadBack
  <2>3. ~verified
    BY <2>2 DEF EepromInv
  <2>5. ASSUME ~faulty'["main"]
        PROVE  /\ \A i \in 1 .. written : eeprom'[i] = Config[i]
               /\ Written => eeprom'[Packet] = Config[Packet]
    <3>1. ~faulty["main"] /\ (r = "none" <=> Accepts(Cmd("read")))
      BY <2>1, <2>5, MainTransfer
    <3>2. eeprom' = eeprom
      BY <2>1, TransferKeeps DEF Threads, Cmd
    <3>3. \A i \in 1 .. written : eeprom[i] = Config[i]
      BY <2>2, <3>1 DEF EepromInv
    <3>4. ASSUME Written PROVE eeprom[Packet] = Config[Packet]
      <4>1. unlocked /\ mode = "payload"
        BY <2>2, <3>1, <3>4 DEF EepromInv, Written
      <4>2. r = "none"
        BY <3>1, <4>1 DEF Accepts, Cmd, Needs
      <4> QED
        BY <2>1, <3>4, <4>2 DEF Written
    <3> QED
      BY <3>2, <3>3, <3>4
  <2>6. /\ Packet = written + 1 /\ written \in Nat
        /\ Packet = Len(Config) => \A i \in DOMAIN Config : i \in 1 .. written \/ i = Packet
        /\ \A i \in 1 .. Packet : i \in 1 .. written \/ i = Packet
    BY GCPlusAssumption DEF EepromOK, Packet
  <2> QED
    BY <2>2, <2>3, <2>5, <2>6 DEF EepromInv
<1>5. CASE StartUpdate
  <2>1. UNCHANGED <<at, verified, written, answer, eeprom, unlocked, mode>>
    BY <1>5 DEF StartUpdate, eepromCall, board
  <2>2. faulty'["main"] = faulty["main"]
    BY <1>5 DEF StartUpdate, FaultsOK, Threads
  <2> QED
    BY <2>1, <2>2 DEF EepromInv
<1> QED
  BY <1>1, <1>2, <1>3, <1>4, <1>5 DEF Main

(* What the update thread asks of the board.                               *)
LEMMA UpdaterAsks ==
  ASSUME TypeOK, Updater
  PROVE  UNCHANGED <<eeprom, map>> /\ faulty'["main"] = faulty["main"]
<1> USE TypeParts
<1>1. CASE Take \/ Open \/ Progress \/ SetFlags \/ Release
  BY <1>1 DEF Take, Open, Progress, SetFlags, Release, board
<1>2. CASE ~(Take \/ Open \/ Progress \/ SetFlags \/ Release)
  <2>1. PICK c, r : Transfer("updater", c, r) /\ c.cmd \notin {"write", "map0", "map1"}
    BY <1>2 DEF Updater, UnlockBoard, BootBootloader, UnlockAgain, FlashBegin, FillBuffer,
       WriteFlash, NextBlock, BootPayload, LockBoard, Sends, Cmd, With
  <2> QED
    BY <2>1, TransferKeeps DEF Threads
<1> QED
  BY <1>1, <1>2

LEMMA StepEeprom ==
  ASSUME TypeOK, HoldInv, PlaceInv, EepromInv, [Next]_vars
  PROVE  EepromInv'
<1>1. CASE Updater
  BY <1>1, UpdaterMoves, UpdaterAsks DEF EepromInv, main, eepromCall
<1>2. CASE \E kind \in Kinds : Begin(kind)
  <2>1. verified' = FALSE /\ at' = at /\ at = "call"
    BY <1>2 DEF Begin, PlaceInv
  <2> QED
    BY <2>1 DEF EepromInv
<1>3. CASE UNCHANGED vars
  BY <1>3 DEF vars, main, eepromCall, board, EepromInv
<1> QED
  BY <1>1, <1>2, <1>3, MainEeprom DEF Next

(* If writeEEPROM() returns true after transfers none of which failed, the  *)
(* EEPROM holds all it was to write, however often the EEPROM did not keep  *)
(* a packet, the board refused one, and whatever the buffer held at first.  *)
THEOREM GCPlusWrites == Spec => []WriteVerified
<1> DEFINE IInv == TypeOK /\ SentInv /\ HoldInv /\ PlaceInv /\ EepromInv
<1>1. Init => IInv
  BY InitTyped, InitHold, InitPlace, InitEeprom
<1>2. IInv /\ [Next]_vars => IInv'
  BY StepTyped, StepHold, StepPlace, StepEeprom
<1>3. IInv => WriteVerified
  BY DEF EepromInv, WriteVerified
<1> QED
  BY <1>1, <1>2, <1>3, PTL DEF Spec

-----------------------------------------------------------------------------
(* The lock of the board, and setMapping(): a session of which no transfer *)
(* fails is obeyed from unlocking to locking, except for what the board's  *)
(* bootloader does not know.                                               *)

LockInv ==
  /\ ~faulty["main"] => /\ at # "lockOther"
                        /\ at = "version" => unlocked
                        /\ todo = <<"startUpdate">> => ~unlocked
  /\ ~faulty["updater"] => (upc \in {"flags", "release"} => ~unlocked)
  /\ ~faulty["main"] /\ ~faulty["updater"] /\ todo = <<>> /\ upc \in {"none", "take", "ended"} =>
       ~unlocked

MapInv ==
  session = "map" /\ ~faulty["main"] =>
    /\ todo = <<"setMapping", "lock">> => unlocked
    /\ at = "byte1" => unlocked /\ mode = "payload" /\ map[1] = mapping
    /\ todo \in {<<>>, <<"lock">>} /\ mode = "payload" => map = <<mapping, mapping>>

LEMMA InitLock == Init => LockInv /\ MapInv
BY DEF Init, LockInv, MapInv

LEMMA MainLock ==
  ASSUME TypeOK, HoldInv, PlaceInv, LockInv, Main
  PROVE  LockInv'
<1> USE TypeParts DEF Doing, Enters, Inside, Leaves, Returns, NotV2
<1>1. upc \in {"none", "ended"} /\ upc' \in {"none", "take", "ended"}
  <2>1. upc \in {"none", "ended"}
    BY MainAlone
  <2>2. upc' = upc \/ upc' = "take"
    BY DEF Main, Simple, V2Unlock, V2Version, V2Lock, MapByte0, MapByte1, ReadPacket, WriteEnter,
       WriteSend, WriteReadBack, StartUpdate, Idle, updater
  <2> QED
    BY <2>1, <2>2
<1>2. SUFFICES ASSUME ~faulty'["main"]
               PROVE  /\ at' # "lockOther"
                      /\ at' = "version" => unlocked'
                      /\ todo' \in {<<>>, <<"startUpdate">>} =>
                           ~unlocked' \/ (todo' = <<>> /\ faulty'["updater"])
  BY <1>1 DEF LockInv
<1>3. CASE Simple
  <2>1. PICK call \in DOMAIN Command, r \in Results : Enters(call) /\ Transfer("main", Cmd(Command[call]), r)
    BY <1>3 DEF Simple
  <2>2. todo # <<>> /\ Head(todo) = call /\ at' = "call" /\ todo' = Tail(todo)
    BY <1>3, <2>1 DEF Simple
  <2>3. call \in {"unlock", "getFWVer"} => todo' \notin {<<>>, <<"startUpdate">>}
    <3>1. ASSUME call \in {"unlock", "getFWVer"}
          PROVE  \/ todo' = <<"setMapping", "lock">> \/ todo' = <<"writeEEPROM", "lock">>
                 \/ todo' = <<"readEEPROM", "lock">>
                 \/ todo' = <<"writeEEPROM", "writeEEPROM", "lock">>
                 \/ todo' = <<"getFWVer", "lock">> \/ todo' = <<"writeEEPROM", "reset">>
                 \/ todo' = <<"reset">> \/ todo' = <<"getFWVer", "lock", "startUpdate">>
                 \/ todo' = <<"lock">> \/ todo' = <<"lock", "startUpdate">>
      BY <2>2, <3>1, NextCall DEF Does, PlaceInv
    <3> QED
      BY <3>1
  <2>4. call = "lock" => ~unlocked'
    <3>1. ASSUME call = "lock" PROVE Accepts(Cmd("lock")) /\ Transfer("main", Cmd("lock"), r)
      BY <2>1, <3>1 DEF Accepts, Cmd, Needs, BoardOK, Command
    <3> QED
      BY <1>2, <3>1, MainTransfer DEF Obeys, Cmd
  <2>5. call = "reset" => ~unlocked'
    <3>1. ASSUME call = "reset" PROVE Transfer("main", Cmd("reset"), r)
      BY <2>1, <3>1 DEF Command
    <3>2. CASE Accepts(Cmd("reset"))
      BY <1>2, <3>1, <3>2, MainTransfer DEF Obeys, Cmd, Starts
    <3>3. CASE ~Accepts(Cmd("reset"))
      <4>1. ~unlocked
        BY <3>3 DEF Accepts, Cmd, Needs, BoardOK
      <4> QED
        BY <1>2, <3>1, <3>3, <4>1, MainTransfer DEF board
    <3> QED
      BY <3>2, <3>3
  <2> QED
    BY <2>1, <2>2, <2>3, <2>4, <2>5 DEF Command
<1>4. CASE V2Unlock
  <2>1. PICK r \in Results :
          /\ Transfer("main", Cmd("unlock"), r)
          /\ IF r = "none" THEN at' = "version" /\ todo' = todo ELSE at' = "call" /\ todo' = <<>>
    BY <1>4 DEF V2Unlock
  <2>2. Accepts(Cmd("unlock"))
    BY DEF Accepts, Cmd, Needs, BoardOK
  <2>3. r = "none" /\ unlocked'
    BY <1>2, <2>1, <2>2, MainTransfer DEF Obeys, Cmd
  <2>4. Head(todo) = "isV2" /\ todo # <<>>
    BY <1>4 DEF V2Unlock
  <2>5. todo # <<"startUpdate">>
    BY <2>4, NextCall DEF Does, PlaceInv
  <2> QED
    BY <2>1, <2>3, <2>4, <2>5
<1>5. CASE V2Version
  <2>1. PICK r \in Results :
          /\ Transfer("main", Cmd("version"), r)
          /\ r = "none" => at' = "lockV2" /\ todo' = todo
    BY <1>5 DEF V2Version
  <2>2. at = "version" /\ Head(todo) = "isV2" /\ todo # <<>>
    BY <1>5 DEF V2Version
  <2>3. ~faulty["main"]
    BY <1>2, <2>1, MainTransfer
  <2>4. Accepts(Cmd("version"))
    BY <2>2, <2>3 DEF LockInv, Accepts, Cmd, Needs, BoardOK
  <2>5. r = "none"
    BY <1>2, <2>1, <2>4, MainTransfer
  <2>6. todo # <<"startUpdate">>
    BY <2>2, NextCall DEF Does, PlaceInv
  <2> QED
    BY <2>1, <2>2, <2>5, <2>6
<1>6. CASE V2Lock
  <2>1. PICK r \in Results : Transfer("main", Cmd("lock"), r)
    BY <1>6 DEF V2Lock
  <2>2. at' = "call"
    BY <1>6 DEF V2Lock
  <2>3. Accepts(Cmd("lock"))
    BY DEF Accepts, Cmd, Needs, BoardOK
  <2>4. ~unlocked'
    BY <1>2, <2>1, <2>3, MainTransfer DEF Obeys, Cmd
  <2> QED
    BY <2>2, <2>4
<1>7. CASE MapByte0 \/ MapByte1 \/ ReadPacket \/ WriteEnter \/ WriteSend \/ WriteReadBack
  <2>1. /\ todo # <<>> /\ Head(todo) \in {"setMapping", "readEEPROM", "writeEEPROM"}
        /\ todo' \in {todo, Tail(todo)} /\ at' \in {"byte1", "read", "send", "readBack", "call"}
    BY <1>7 DEF MapByte0, MapByte1, ReadPacket, WriteEnter, WriteSend, WriteReadBack
  <2>2. todo' \notin {<<>>, <<"startUpdate">>}
    BY <2>1, NextCall DEF Does, PlaceInv
  <2> QED
    BY <2>1, <2>2
<1>8. CASE StartUpdate
  <2>1. /\ todo # <<>> /\ Head(todo) = "startUpdate" /\ todo' = Tail(todo)
        /\ at' = "call" /\ unlocked' = unlocked
    BY <1>8 DEF StartUpdate, board
  <2>2. faulty'["main"] = faulty["main"]
    BY <1>8 DEF StartUpdate, FaultsOK, Threads
  <2>3. todo = <<"startUpdate">>
    BY <2>1, NextCall DEF Does, PlaceInv
  <2> QED
    BY <1>2, <2>1, <2>2, <2>3 DEF LockInv
<1> QED
  BY <1>3, <1>4, <1>5, <1>6, <1>7, <1>8 DEF Main

LEMMA UpdaterLock ==
  ASSUME TypeOK, HoldInv, PlaceInv, LockInv, Updater
  PROVE  LockInv'
<1> USE TypeParts
<1>1. at' = "call" /\ todo' = todo /\ todo # <<"startUpdate">> /\ upc' \notin {"none", "take"}
  <2>1. <<>> # <<"startUpdate">> /\ Calls(session) # <<"startUpdate">>
    BY DEF Calls, CallOK, Sessions
  <2> QED
    BY <2>1, UpdaterMoves DEF main
<1>2. upc' \in {"flags", "release", "ended"} /\ ~faulty'["updater"] => ~unlocked'
  <2>1. CASE LockBoard
    <3>1. PICK r \in Results : Transfer("updater", Cmd("lock"), r)
      BY <2>1 DEF LockBoard, Sends
    <3>2. Accepts(Cmd("lock"))
      BY DEF Accepts, Cmd, Needs, BoardOK
    <3>3. ~faulty'["updater"] => Obeys(Cmd("lock"))
      BY <3>1, <3>2, TransferClean DEF Threads
    <3> QED
      BY <3>3 DEF Obeys, Cmd
  <2>2. CASE SetFlags \/ Release
    <3>1. upc \in {"flags", "release"} /\ UNCHANGED <<unlocked, faulty>>
      BY <2>2 DEF SetFlags, Release, board
    <3> QED
      BY <3>1 DEF LockInv
  <2>3. CASE ~LockBoard /\ ~SetFlags /\ ~Release
    BY <2>3 DEF Updater, Take, Open, UnlockBoard, BootBootloader, UnlockAgain, FlashBegin,
       FillBuffer, WriteFlash, NextBlock, Progress, BootPayload, Goes, Fails
  <2> QED
    BY <2>1, <2>2, <2>3
<1> QED
  BY <1>1, <1>2 DEF LockInv

LEMMA StepLock ==
  ASSUME TypeOK, HoldInv, PlaceInv, LockInv, [Next]_vars
  PROVE  LockInv'
<1>1. CASE \E kind \in Kinds : Begin(kind)
  <2>1. PICK kind \in Kinds : Begin(kind)
    BY <1>1
  <2>2. kind \in Sessions
    BY GCPlusAssumption
  <2>3. /\ todo = <<>> /\ todo' = Calls(kind) /\ at' = at /\ upc' = upc /\ unlocked' = unlocked
        /\ faulty' = [faulty EXCEPT !["main"] = FALSE]
    BY <2>1 DEF Begin, updater, board
  <2>4. todo' \notin {<<>>, <<"startUpdate">>}
    BY <2>2, <2>3 DEF Calls, Sessions
  <2>5. at = "call" /\ faulty'["updater"] = faulty["updater"]
    BY <2>3, TypeParts DEF PlaceInv, FaultsOK, Threads
  <2> QED
    BY <2>3, <2>4, <2>5 DEF LockInv
<1>2. CASE UNCHANGED vars
  BY <1>2 DEF vars, main, updater, board, LockInv
<1> QED
  BY <1>1, <1>2, MainLock, UpdaterLock DEF Next

(* Whenever no session and no update is under way the board is locked, if  *)
(* no transfer of the last ones failed: however they followed one another, *)
(* and whether the board ran its bootloader or its payload.                *)
THEOREM GCPlusLockedAtRest == Spec => []LockedAtRest
<1> DEFINE IInv == TypeOK /\ SentInv /\ HoldInv /\ PlaceInv /\ LockInv
<1>1. Init => IInv
  BY InitTyped, InitHold, InitPlace, InitLock
<1>2. IInv /\ [Next]_vars => IInv'
  BY StepTyped, StepHold, StepPlace, StepLock
<1>3. IInv => LockedAtRest
  BY DEF LockInv, LockedAtRest, Threads
<1> QED
  BY <1>1, <1>2, <1>3, PTL DEF Spec

LEMMA MainMap ==
  ASSUME TypeOK, HoldInv, PlaceInv, LockInv, MapInv, Main
  PROVE  MapInv'
<1> USE TypeParts DEF Doing, Enters, Inside, Leaves, Returns, NotV2
<1>0. session' = session /\ mapping' = mapping
  BY DEF Main, Simple, V2Unlock, V2Version, V2Lock, MapByte0, MapByte1, ReadPacket, WriteEnter,
     WriteSend, WriteReadBack, StartUpdate, Idle
<1>1. SUFFICES ASSUME session = "map", ~faulty'["main"]
               PROVE  /\ todo' = <<"setMapping", "lock">> => unlocked'
                      /\ at' = "byte1" => unlocked' /\ mode' = "payload" /\ map'[1] = mapping
                      /\ todo' \in {<<>>, <<"lock">>} /\ mode' = "payload" => map' = <<mapping, mapping>>
  BY <1>0 DEF MapInv
<1>2. ~ReadPacket /\ ~WriteEnter /\ ~WriteSend /\ ~WriteReadBack /\ ~StartUpdate
  <2>1. ASSUME todo # <<>> PROVE Head(todo) \notin {"readEEPROM", "writeEEPROM", "startUpdate"}
    BY <1>1, <2>1, NextCall DEF Does, PlaceInv
  <2> QED
    BY <2>1 DEF ReadPacket, WriteEnter, WriteSend, WriteReadBack, StartUpdate
<1>3. CASE Simple
  <2>1. PICK call \in DOMAIN Command, r \in Results : Enters(call) /\ Transfer("main", Cmd(Command[call]), r)
    BY <1>3 DEF Simple
  <2>2. todo # <<>> /\ Head(todo) = call /\ at' = "call" /\ todo' = Tail(todo)
    BY <1>3, <2>1 DEF Simple
  <2>3. \/ call = "unlock" /\ todo' = <<"setMapping", "lock">>
        \/ call = "lock" /\ todo = <<"lock">> /\ todo' = <<>>
    BY <1>1, <2>1, <2>2, NextCall DEF Does, PlaceInv, Command
  <2>4. ~faulty["main"] /\ Accepts(Cmd(call)) => Obeys(Cmd(call))
    BY <1>1, <2>1, <2>3, MainTransfer DEF Command
  <2>5. Accepts(Cmd(call)) /\ ~faulty["main"]
    BY <1>1, <2>1, <2>3, MainTransfer DEF Accepts, Cmd, Needs, BoardOK
  <2>6. (call = "unlock" => unlocked') /\ UNCHANGED <<mode, map>>
    BY <2>3, <2>4, <2>5 DEF Obeys, Cmd
  <2>7. CASE call = "unlock"
    <3>1. todo' = <<"setMapping", "lock">> /\ at' = "call" /\ unlocked'
      BY <2>2, <2>3, <2>6, <2>7
    <3>2. todo' # <<>> /\ todo' # <<"lock">>
      BY <3>1
    <3> QED
      BY <3>1, <3>2
  <2>8. CASE call = "lock"
    <3>1. todo = <<"lock">> /\ todo' = <<>>
      BY <2>3, <2>8
    <3> QED
      BY <1>1, <2>2, <2>5, <2>6, <3>1 DEF MapInv
  <2> QED
    BY <2>3, <2>7, <2>8
<1>4. CASE V2Unlock \/ V2Version \/ V2Lock
  <2>1. todo # <<>> /\ Head(todo) = "isV2"
    BY <1>4 DEF V2Unlock, V2Version, V2Lock
  <2>2. /\ todo = <<"isV2", "unlock", "setMapping", "lock">>
        /\ Tail(todo) = <<"unlock", "setMapping", "lock">>
    BY <1>1, <2>1, NextCall DEF Does, PlaceInv
  <2>3. at' # "byte1" /\ todo' \in {todo, Tail(todo)}
    <3>1. CASE V2Unlock
      <4>1. PICK r \in Results :
              /\ Transfer("main", Cmd("unlock"), r)
              /\ IF r = "none" THEN at' = "version" /\ todo' = todo ELSE at' = "call" /\ todo' = <<>>
        BY <3>1 DEF V2Unlock
      <4>2. Accepts(Cmd("unlock"))
        BY DEF Accepts, Cmd, Needs, BoardOK
      <4> QED
        BY <1>1, <4>1, <4>2, MainTransfer
    <3>2. CASE V2Version
      <4>1. PICK r \in Results :
              /\ Transfer("main", Cmd("version"), r)
              /\ r = "none" => at' = "lockV2" /\ todo' = todo
        BY <3>2 DEF V2Version
      <4>2. at = "version" /\ ~faulty["main"]
        BY <1>1, <3>2, <4>1, MainTransfer DEF V2Version
      <4>3. Accepts(Cmd("version"))
        BY <4>2 DEF LockInv, Accepts, Cmd, Needs, BoardOK
      <4> QED
        BY <1>1, <4>1, <4>3, MainTransfer
    <3>3. CASE V2Lock
      <4>1. PICK r \in Results :
              /\ Transfer("main", Cmd("lock"), r)
              /\ r = "none" /\ at = "lockV2" => at' = "call" /\ todo' = Tail(todo)
        BY <3>3 DEF V2Lock
      <4>2. at \in {"lockV2", "lockOther"} /\ ~faulty["main"]
        BY <1>1, <3>3, <4>1, MainTransfer DEF V2Lock
      <4>3. Accepts(Cmd("lock")) /\ at = "lockV2"
        BY <4>2 DEF LockInv, Accepts, Cmd, Needs, BoardOK
      <4> QED
        BY <1>1, <4>1, <4>3, MainTransfer
    <3> QED
      BY <1>4, <3>1, <3>2, <3>3
  <2> QED
    BY <2>2, <2>3
<1>5. CASE MapByte0
  <2>1. PICK r \in Results :
          /\ Transfer("main", With("map0", mapping), r)
          /\ IF r = "none" THEN at' = "byte1" /\ todo' = todo ELSE at' = "call" /\ todo' = Tail(todo)
    BY <1>5 DEF MapByte0
  <2>2. todo # <<>> /\ Head(todo) = "setMapping"
    BY <1>5 DEF MapByte0
  <2>3. todo = <<"setMapping", "lock">> /\ Tail(todo) = <<"lock">>
    BY <2>2, NextCall DEF Does, PlaceInv
  <2>4. unlocked
    BY <1>1, <2>1, <2>3, MainTransfer DEF MapInv
  <2>5. CASE Accepts(With("map0", mapping))
    <3>1. r = "none" /\ map' = <<mapping, map[2]>> /\ UNCHANGED <<mode, unlocked>> /\ mode = "payload"
      BY <1>1, <2>1, <2>5, MainTransfer DEF Obeys, With, Accepts, Needs
    <3> QED
      BY <2>1, <2>3, <2>4, <3>1
  <2>6. CASE ~Accepts(With("map0", mapping))
    <3>1. mode # "payload"
      BY <2>4, <2>6 DEF Accepts, With, Needs
    <3>2. mode' = mode /\ r # "none"
      BY <1>1, <2>1, <2>6, MainTransfer DEF board
    <3> QED
      BY <2>1, <2>3, <3>1, <3>2
  <2> QED
    BY <2>5, <2>6
<1>6. CASE MapByte1
  <2>1. PICK r \in Results : Transfer("main", With("map1", mapping), r)
    BY <1>6 DEF MapByte1
  <2>2. todo # <<>> /\ Head(todo) = "setMapping" /\ at = "byte1" /\ at' = "call" /\ todo' = Tail(todo)
    BY <1>6 DEF MapByte1
  <2>3. Tail(todo) = <<"lock">>
    BY <2>2, NextCall DEF Does, PlaceInv
  <2>4. unlocked /\ mode = "payload" /\ map[1] = mapping
    BY <1>1, <2>1, <2>2, MainTransfer DEF MapInv
  <2>5. Accepts(With("map1", mapping))
    BY <2>4 DEF Accepts, With, Needs
  <2>6. map' = <<map[1], mapping>>
    BY <1>1, <2>1, <2>5, MainTransfer DEF Obeys, With
  <2> QED
    BY <2>2, <2>3, <2>4, <2>6
<1> QED
  BY <1>2, <1>3, <1>4, <1>5, <1>6 DEF Main

LEMMA StepMap ==
  ASSUME TypeOK, HoldInv, PlaceInv, LockInv, MapInv, [Next]_vars
  PROVE  MapInv'
<1>1. CASE Updater
  <2>1. session' = session /\ todo' = todo /\ at' = "call"
    BY <1>1, UpdaterMoves DEF main
  <2>2. session = "map" => todo = <<"isV2", "unlock", "setMapping", "lock">>
    BY <1>1, UpdaterMoves DEF Calls
  <2> QED
    BY <2>1, <2>2 DEF MapInv
<1>2. CASE \E kind \in Kinds : Begin(kind)
  <2>1. PICK kind \in Kinds : Begin(kind)
    BY <1>2
  <2>2. session' = kind /\ todo' = Calls(kind) /\ at' = at /\ at = "call"
    BY <2>1 DEF Begin, PlaceInv
  <2>3. session' = "map" => todo' = <<"isV2", "unlock", "setMapping", "lock">>
    BY <2>2 DEF Calls
  <2> QED
    BY <2>2, <2>3 DEF MapInv
<1>3. CASE UNCHANGED vars
  BY <1>3 DEF vars, main, board, MapInv
<1> QED
  BY <1>1, <1>2, <1>3, MainMap DEF Next

(* After a session that sets a mapping, of which no transfer failed, both   *)
(* bytes of the mapping are set, if the board runs its payload: no update   *)
(* gets in between its calls although each takes the mutex for itself.      *)
THEOREM GCPlusMappings == Spec => []MappingSet
<1> DEFINE IInv == TypeOK /\ SentInv /\ HoldInv /\ PlaceInv /\ LockInv /\ MapInv
<1>1. Init => IInv
  BY InitTyped, InitHold, InitPlace, InitLock
<1>2. IInv /\ [Next]_vars => IInv'
  BY StepTyped, StepHold, StepPlace, StepLock, StepMap
<1>3. IInv => MappingSet
  BY DEF MapInv, MappingSet
<1> QED
  BY <1>1, <1>2, <1>3, PTL DEF Spec
=============================================================================
