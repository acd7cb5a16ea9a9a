----------------------------- MODULE UsbStorage -----------------------------
(***************************************************************************)
(* Reading and writing a USB drive (common/source/usbstorage.c): the       *)
(* bulk-only cycle of a command (CBW, data, CSW) with its retries and      *)
(* resets, and the wake-up sequence that precedes a transfer when the      *)
(* drive was not used for a minute.  libfat makes one call at a time.      *)
(*                                                                         *)
(* The drive is external.  Any message can fail or time out, with or       *)
(* without reaching the drive; a reset can do so too, and its late answer  *)
(* is then taken for a later message's (see UsbTransfer), or takes effect  *)
(* late.  What the drive owes the host stays owed until it is fetched or   *)
(* the drive is reset, in order.  Time and seconds are left out.           *)
(***************************************************************************)
EXTENDS Naturals, Sequences

CONSTANTS
  Blocks,     \* what a call transfers, a range of sectors of the drive
  Chunks,     \* how many messages of up to max_size bytes that takes
  Retries,    \* USBSTORAGE_CYCLE_RETRIES
  MaxCalls,   \* bound: calls of a behaviour
  Rested,     \* whether a minute passed since the last call: what it can be
  MaxTag,     \* bound: CBWs of a behaviour; u32 in the code
  MaxOwed     \* bound: what the drive owes the host when it takes the command after a tag

ASSUME StorageAssumption ==
  /\ Chunks \in Nat \ {0} /\ Retries \in Nat
  /\ Rested \subseteq BOOLEAN
  /\ MaxCalls \in Nat /\ MaxTag \in Nat /\ MaxOwed \in [0..MaxTag -> Nat]

VARIABLES
  pc,       \* "idle", or what the driver does next
  call,     \* the call of Read() or Write() under way or last made
  step,     \* the command of that call: the transfer, or one of the wake-up's
  round,    \* clearerrors() and Inquiry() try twice
  retries,  \* attempts that __cycle() has left
  code,     \* retval
  status,   \* status of the last CSW
  done,     \* messages of data transferred in this attempt
  data,     \* what they brought
  tag,      \* dev->tag
  ret,      \* what the last call returned, and its SCSI status
  store,    \* drive: store[b][i], which call wrote chunk i of block b
  job,      \* drive: the write command that waits for its data, or NoJob
  owed,     \* drive: data and CSWs to be fetched by the host
  late      \* a reset has timed out, its answer or effect may come

driver == <<call, step, round, retries, status, done, data, tag, ret>>
drive == <<store, job, owed, late>>
vars == <<pc, code, driver, drive>>

Pieces == 1..Chunks
Codes == {"ok", "error", "timedout"}
Calls == [op : {"read", "write"}, block : Blocks, val : 0..MaxCalls]

(* What the drive owes: a message of data, or a CSW.                       *)
Data(v) == [what |-> "data", val |-> v]
CSW(t, s) == [what |-> "csw", tag |-> t, status |-> s]
NoJob == [tag |-> 0]
Job(t) == [tag |-> t, block |-> call.block, val |-> call.val, got |-> 0]

(* Direction and number of messages of the data stage of a command.        *)
Outward == step = "rw" /\ call.op = "write"
Messages ==
  CASE step \in {"startstop", "tur"} -> 0
    [] step \in {"sense", "inquiry", "capacity"} -> 1
    [] step = "rw" -> Chunks

Init ==
  /\ pc = "idle" /\ step = "rw" /\ round = 1
  /\ retries = 0 /\ code = "ok" /\ status = 0 /\ done = 0 /\ data = <<>> /\ tag = 0
  /\ \E b \in Blocks : call = [op |-> "read", block |-> b, val |-> 0]
  /\ ret = [code |-> "error", status |-> 0]
  /\ store = [b \in Blocks |-> [i \in Pieces |-> 0]]
  /\ job = NoJob /\ owed = <<>> /\ late = FALSE

-----------------------------------------------------------------------------
(* The calls and the commands they are made of.                            *)

(* Start of a command's cycle.                                             *)
Command(s, r) ==
  /\ step' = s /\ round' = r
  /\ retries' = Retries + 1 /\ code' = "ok" /\ status' = 0
  /\ pc' = "attempt"

Call(op, b) ==
  /\ pc = "idle"
  /\ call.val < MaxCalls
  /\ call' = [op |-> op, block |-> b, val |-> call.val + 1]
  /\ \E rested \in Rested :
       IF rested THEN Command("startstop", 1) ELSE Command("rw", 1)
  /\ UNCHANGED <<done, data, tag, ret, drive>>

EndsWith(s) == pc = "ended" /\ step = s

(* clearerrors() ignores what StartStop() returns.                         *)
AfterStartStop == EndsWith("startstop") /\ Command("tur", round)

AfterReady ==
  /\ EndsWith("tur")
  /\ code = "ok" /\ status # 0
  /\ Command("sense", round)

(* Sense keys NOT READY, MEDIUM ERROR and HARDWARE ERROR are errors.       *)
ErrorsNotCleared ==
  \/ EndsWith("tur") /\ code # "ok"
  \/ EndsWith("sense")

ErrorsCleared ==
  \/ EndsWith("tur") /\ code = "ok" /\ status = 0
  \/ EndsWith("sense") /\ code = "ok"

AgainFromReset ==
  /\ ErrorsNotCleared /\ round = 1
  /\ pc' = "remount"
  /\ UNCHANGED <<code, driver>>

(* MountLUN() goes on whatever the second round says.                      *)
AfterClearErrors ==
  /\ ErrorsCleared \/ (ErrorsNotCleared /\ round = 2)
  /\ Command("inquiry", 1)

AfterInquiry ==
  /\ EndsWith("inquiry")
  /\ IF code # "ok" /\ round = 1 THEN Command("inquiry", 2) ELSE Command("capacity", 1)

(* Read() and Write() ignore what MountLUN() returns.                      *)
AfterCapacity == EndsWith("capacity") /\ Command("rw", 1)

NextCommand ==
  /\ \/ AfterStartStop \/ AfterReady \/ AfterClearErrors \/ AfterInquiry
     \/ AfterCapacity
  /\ UNCHANGED <<call, done, data, tag, ret>>

Return ==
  /\ EndsWith("rw")
  /\ ret' = [code |-> code, status |-> status]
  /\ pc' = "idle"
  /\ UNCHANGED <<code, call, step, round, retries, status, done, data, tag>>

-----------------------------------------------------------------------------
(* The drive.                                                              *)

Unanswered == UNCHANGED <<store, job, owed>>

(* It may refuse a command in the CSW, after its data or instead of them.  *)
(* A CBW in the middle of a write's data ends that write.                  *)
TakesCommand(t) ==
  /\ late' = late
  /\ store' = store
  /\ \E s \in {0, 1} :
       IF job # NoJob THEN
         /\ job' = NoJob
         /\ owed' \in {owed, Append(owed, CSW(job.tag, 1))}
       ELSE IF Outward /\ s = 0 THEN
         /\ job' = Job(t) /\ owed' = owed
       ELSE
         /\ job' = NoJob
         /\ \/ s = 1 /\ owed' = Append(owed, CSW(t, s))
            \/ ~Outward /\ owed' =
                 owed \o [i \in 1..Messages |->
                           Data(IF step = "rw" THEN store[call.block][i] ELSE 0)]
                      \o <<CSW(t, s)>>

(* It stalls the endpoint; the data that follow get no further either.     *)
RefusesCommand == job' = NoJob /\ UNCHANGED <<store, owed, late>>

(* A refused write may have dropped the last of its data.                  *)
TakesData ==
  /\ job # NoJob
  /\ LET i == job.got + 1
         written == [store EXCEPT ![job.block][i] = call.val]
     IN IF i < Chunks THEN
          /\ store' = written /\ owed' = owed
          /\ job' = [job EXCEPT !.got = i]
        ELSE
          /\ job' = NoJob
          /\ \E s \in {0, 1} :
               /\ owed' = Append(owed, CSW(job.tag, s))
               /\ store' \in IF s = 0 THEN {written} ELSE {written, store}

(* What was on its way to the host may be lost with a failed message.      *)
LosesAnswer ==
  /\ owed' \in {owed} \cup (IF owed = <<>> THEN {} ELSE {Tail(owed)})
  /\ UNCHANGED <<store, job, late>>

IsReset == job' = NoJob /\ owed' = <<>> /\ UNCHANGED store

-----------------------------------------------------------------------------
(* One attempt of __cycle(), and StartStop(), which has but one.           *)

Failed(c) ==
  /\ code' = c
  /\ pc' = IF step = "startstop" THEN "ended" ELSE "reset"

Stage(n) == IF n < Messages THEN "data" ELSE "csw"

(* Mutant: what __send_cbw() returns is not tested.                        *)
SendCBWUntested ==
  /\ pc = "attempt"
  /\ tag < MaxTag
  /\ tag' = tag + 1 /\ retries' = retries - 1
  /\ done' = 0 /\ data' = <<>>
  /\ pc' = Stage(0) /\ code' = "ok"
  /\ (TakesCommand(tag + 1) /\ Len(owed) <= MaxOwed[tag]) \/ UNCHANGED drive
  /\ UNCHANGED <<call, step, round, status, ret>>

(* __send_cbw().  The late answer 0 of a reset passes for success, as only *)
(* negative and short counts are errors; the CBW is still on its way then, *)
(* ahead of the data.                                                      *)
SendCBW ==
  /\ pc = "attempt"
  /\ tag < MaxTag
  /\ tag' = tag + 1 /\ retries' = retries - 1
  /\ done' = 0 /\ data' = <<>>
  /\ \/ /\ pc' = Stage(0) /\ code' = "ok"
        /\ (TakesCommand(tag + 1) /\ Len(owed) <= MaxOwed[tag]) \/ (late /\ RefusesCommand)
     \/ /\ \E c \in {"error", "timedout"} : Failed(c)
        /\ (TakesCommand(tag + 1) /\ Len(owed) <= MaxOwed[tag]) \/ UNCHANGED drive
  /\ UNCHANGED <<call, step, round, status, ret>>

SendData ==
  /\ pc = "data" /\ Outward
  /\ \/ TakesData /\ done' = done + 1 /\ pc' = Stage(done + 1) /\ code' = code
     \/ /\ \E c \in {"error", "timedout"} : Failed(c)
        /\ TakesData \/ Unanswered
        /\ done' = done
  /\ UNCHANGED <<call, step, round, retries, status, data, tag, ret, late>>

(* A CSW in place of data is too short.                                    *)
ReceiveData ==
  /\ pc = "data" /\ ~Outward
  /\ \/ /\ owed # <<>>
        /\ IF Head(owed).what = "data"
           THEN /\ data' = Append(data, Head(owed).val)
                /\ done' = done + 1 /\ pc' = Stage(done + 1) /\ code' = code
           ELSE Failed("error") /\ UNCHANGED <<data, done>>
        /\ owed' = Tail(owed) /\ UNCHANGED <<store, job, late>>
     \/ /\ \E c \in {"error", "timedout"} : Failed(c)
        /\ LosesAnswer
        /\ UNCHANGED <<data, done>>
  /\ UNCHANGED <<call, step, round, retries, status, tag, ret>>

(* Mutant: the tag is not compared.                                        *)
MatchesAny(csw) == csw.what = "csw"

(* Signature and tag of a CSW.                                             *)
Matches(csw) == csw.what = "csw" /\ csw.tag = tag

ReadCSW ==
  /\ pc = "csw"
  /\ \/ /\ owed # <<>>
        /\ IF Matches(Head(owed)) THEN code' = "ok" /\ pc' = "ended" ELSE Failed("error")
        /\ status' = IF Head(owed).what = "csw" THEN Head(owed).status ELSE status
        /\ owed' = Tail(owed) /\ UNCHANGED <<store, job, late>>
     \/ /\ \E c \in {"error", "timedout"} : Failed(c)
        /\ LosesAnswer
        /\ status' = status
  /\ UNCHANGED <<call, step, round, retries, done, data, tag, ret>>

(* The loop condition, and the test at the head of the loop.               *)
AfterReset(c) ==
  /\ code' = IF c = "timedout" THEN c ELSE code
  /\ pc' = IF retries > 0 /\ code' # "timedout" THEN "attempt" ELSE "ended"

(* __usbstorage_reset(), with both USB_ClearHalt().                        *)
ResetAnswered(c) ==
  /\ IsReset \/ ((c # "ok" \/ late) /\ Unanswered)
  /\ late' \in {late, c = "timedout"}

Reset ==
  /\ pc = "reset"
  /\ \E c \in Codes : ResetAnswered(c) /\ AfterReset(c)
  /\ UNCHANGED driver

(* Mutant: MountLUN() repeats until clearerrors() succeeds.                *)
RemountAgain ==
  /\ pc = "remount"
  /\ \E c \in Codes : ResetAnswered(c)
  /\ Command("startstop", 1)
  /\ UNCHANGED <<call, done, data, tag, ret>>

(* MountLUN() resets the drive before its second round.                    *)
Remount ==
  /\ pc = "remount"
  /\ \E c \in Codes : ResetAnswered(c)
  /\ Command("startstop", 2)
  /\ UNCHANGED <<call, done, data, tag, ret>>

(* A reset that was given up may still happen.                             *)
LateReset ==
  /\ late
  /\ IsReset
  /\ late' \in BOOLEAN
  /\ UNCHANGED <<pc, code, driver>>

Driver ==
  \/ (NextCommand \/ AgainFromReset \/ Return) /\ UNCHANGED drive
  \/ SendCBW \/ SendData \/ ReceiveData \/ ReadCSW \/ Reset \/ Remount

Next ==
  \/ \E op \in {"read", "write"}, b \in Blocks : Call(op, b)
  \/ Driver
  \/ LateReset

Spec == Init /\ [][Next]_vars

(* Every message has a time-out (UsbTransfer), so the driver goes on.      *)
FairSpec == Spec /\ WF_vars(Driver)

-----------------------------------------------------------------------------
Owes ==
  {Data(v) : v \in 0..MaxCalls} \cup {CSW(t, s) : t \in 0..MaxTag, s \in {0, 1}}

(* The variables have the types of the code's; a cycle never runs out of   *)
(* attempts before it has started one.                                     *)
TypeOK ==
  /\ pc \in {"idle", "attempt", "data", "csw", "reset", "remount", "ended"}
  /\ call \in Calls /\ step \in {"startstop", "tur", "sense", "inquiry", "capacity", "rw"}
  /\ round \in {1, 2} /\ retries \in 0..Retries + 1
  /\ code \in Codes /\ status \in {0, 1} /\ done \in 0..Chunks
  /\ data \in Seq(0..MaxCalls) /\ Len(data) <= Chunks
  /\ tag \in 0..MaxTag
  /\ ret \in [code : Codes, status : {0, 1}]
  /\ store \in [Blocks -> [Pieces -> 0..MaxCalls]]
  /\ job = NoJob \/ job \in [tag : 1..MaxTag, block : Blocks, val : 1..MaxCalls,
                             got : 0..Chunks - 1]
  /\ owed \in Seq(Owes)
  /\ late \in BOOLEAN
  /\ pc = "attempt" => retries > 0

(* The calls implement BlockDevice: a read that succeeds brings the        *)
(* block's data and a write that succeeds has stored all of its own,       *)
(* whatever was lost, refused, late or left over from an earlier command;  *)
(* no call ever changes another call's block.  The tags are what this      *)
(* rests on.                                                               *)
Device == INSTANCE BlockDevice WITH
  busy <- pc # "idle",
  ret <- IF ret.code # "ok" THEN "failed" ELSE IF ret.status # 0 THEN "unnoticed" ELSE "done",
  data <- IF pc = "idle" THEN data ELSE <<>>

ImplementsBlockDevice == Device!Spec

(* A drive that answers nothing holds a call up for no longer than its     *)
(* commands' attempts: every call returns.                                 *)
CallsEnd == pc = "attempt" ~> pc = "idle"

(* A call that succeeds leaves nothing behind: the drive owes no data and  *)
(* no status that a later command would take for its own.                  *)
SettledAfterSuccess ==
  pc = "idle" /\ ret.code = "ok" => owed = <<>> /\ job = NoJob

=============================================================================
