------------------------- MODULE UsbStorage_proofs --------------------------
(***************************************************************************)
(* Proofs about UsbStorage, for any blocks, any size of a transfer, any    *)
(* number of attempts and calls: what a call that succeeds leaves, and     *)
(* that the calls implement BlockDevice.                                   *)
(***************************************************************************)
EXTENDS UsbStorage, TLAPS

-----------------------------------------------------------------------------
(* Sequences.                                                              *)

LEMMA TailIs ==
  ASSUME NEW S, NEW s \in Seq(S), s # <<>>
  PROVE  /\ Tail(s) \in Seq(S) /\ Len(s) \in Nat /\ Len(s) > 0
         /\ Len(Tail(s)) = Len(s) - 1
         /\ Head(s) = s[1] /\ Head(s) \in S
         /\ \A i \in 1..Len(s) - 1 : Tail(s)[i] = s[i + 1]
OBVIOUS

LEMMA AppendIs ==
  ASSUME NEW S, NEW s \in Seq(S), NEW e \in S
  PROVE  /\ Append(s, e) \in Seq(S) /\ Len(s) \in Nat
         /\ Len(Append(s, e)) = Len(s) + 1
         /\ \A i \in 1..Len(s) : Append(s, e)[i] = s[i]
         /\ Append(s, e)[Len(s) + 1] = e
OBVIOUS

LEMMA SameSeq ==
  ASSUME NEW S, NEW n \in Nat, NEW s \in Seq(S), NEW f \in [1..n -> S],
         Len(s) = n, \A i \in 1..n : s[i] = f[i]
  PROVE  s = f
<1>1. s \in [1..n -> S]
  OBVIOUS
<1> QED BY <1>1

-----------------------------------------------------------------------------
(* The invariants.                                                         *)

(* The driver's own state: what its variables hold at each place.          *)
PlaceInv ==
  /\ pc # "idle" => call.val > 0
  /\ pc = "data" => done < Messages
  /\ pc = "reset" => code # "ok"
  /\ Len(data) <= done

(* What the drive owes always ends with a status, and none bears a tag of  *)
(* the future.                                                             *)
OwedInv ==
  /\ owed # <<>> => owed[Len(owed)].what = "csw"
  /\ \A k \in 1..Len(owed) : owed[k].what = "csw" => owed[k].tag <= tag
  /\ job # NoJob => job.tag <= tag

(* A write that waits for its data is the one that is being sent.          *)
Pending ==
  pc = "data" /\ job # NoJob =>
    /\ Outward /\ job.tag = tag /\ job.block = call.block /\ job.val = call.val
    /\ job.got = done
    /\ \A i \in 1..done : store[call.block][i] = call.val

Own(k) == owed[k].what = "csw" /\ owed[k].tag = tag
Stale(k) == owed[k].what = "csw" /\ owed[k].tag < tag

WrittenAll == \A i \in Pieces : store[call.block][i] = call.val
ReadSoFar == /\ Len(data) = done
             /\ \A i \in 1..done : data[i] = store[call.block][i]

(* What stands before the status of the current command, when no older one *)
(* does: nothing of a write, the data that are missing of a read.          *)
Complete(k) ==
  IF Outward THEN pc = "csw" /\ WrittenAll
  ELSE /\ ReadSoFar /\ k = Chunks - done + 1
       /\ \A i \in 1..k - 1 : owed[i] = Data(store[call.block][done + i])

(* The status of the current command comes after that of an older one,     *)
(* whose tag gives it away, or it is in its place.                         *)
InOrder ==
  pc \in {"data", "csw"} =>
    \A k \in 1..Len(owed) : Own(k) /\ (\A j \in 1..k - 1 : ~Stale(j)) =>
      /\ k = Len(owed) /\ job = NoJob
      /\ step = "rw" /\ owed[k].status = 0 => Complete(k)

(* What a command that succeeded leaves.                                   *)
Success ==
  pc = "ended" /\ code = "ok" =>
    /\ owed = <<>> /\ job = NoJob
    /\ step = "rw" /\ status = 0 => IF Outward THEN WrittenAll ELSE data = store[call.block]

IInv == TypeOK /\ PlaceInv /\ OwedInv /\ Pending /\ InOrder /\ Success /\ SettledAfterSuccess

-----------------------------------------------------------------------------
(* The drive's data and the host's commands.                               *)

LEMMA Bounds ==
  /\ Chunks \in Nat /\ Chunks > 0 /\ Retries \in Nat
  /\ MaxCalls \in Nat /\ MaxTag \in Nat
BY StorageAssumption

Steps == {"startstop", "tur", "sense", "inquiry", "capacity", "rw"}

LEMMA MessagesIs ==
  ASSUME step \in Steps
  PROVE  /\ Messages \in Nat /\ Messages <= Chunks /\ Messages \in 0..Chunks
         /\ step = "rw" => Messages = Chunks
BY StorageAssumption DEF Messages, Steps

LEMMA OwesIs ==
  /\ \A v \in 0..MaxCalls : Data(v) \in Owes /\ Data(v).what = "data" /\ Data(v).val = v
  /\ \A t \in 0..MaxTag, s \in {0, 1} :
       /\ CSW(t, s) \in Owes
       /\ CSW(t, s).what = "csw" /\ CSW(t, s).tag = t /\ CSW(t, s).status = s
  /\ \A o \in Owes :
       \/ o.what = "data" /\ o.val \in 0..MaxCalls
       \/ o.what = "csw" /\ o.tag \in 0..MaxTag /\ o.status \in {0, 1}
<1>1. \A v \in 0..MaxCalls : Data(v) \in Owes /\ Data(v).what = "data" /\ Data(v).val = v
  BY DEF Owes, Data
<1>2. \A t \in 0..MaxTag, s \in {0, 1} :
        /\ CSW(t, s) \in Owes
        /\ CSW(t, s).what = "csw" /\ CSW(t, s).tag = t /\ CSW(t, s).status = s
  BY DEF Owes, CSW
<1>3. ASSUME NEW o \in Owes
      PROVE  \/ o.what = "data" /\ o.val \in 0..MaxCalls
             \/ o.what = "csw" /\ o.tag \in 0..MaxTag /\ o.status \in {0, 1}
  <2>1. \/ \E v \in 0..MaxCalls : o = Data(v)
        \/ \E t \in 0..MaxTag, s \in {0, 1} : o = CSW(t, s)
    BY DEF Owes
  <2>2. CASE \E v \in 0..MaxCalls : o = Data(v)
    BY <1>1, <2>2
  <2>3. CASE \E t \in 0..MaxTag, s \in {0, 1} : o = CSW(t, s)
    BY <1>2, <2>3
  <2> QED BY <2>1, <2>2, <2>3
<1> QED BY <1>1, <1>2, <1>3

(* Any job that is not NoJob is a command's.                               *)
LEMMA JobIs ==
  ASSUME TypeOK
  PROVE  job # NoJob =>
           /\ job \in [tag : 1..MaxTag, block : Blocks, val : 1..MaxCalls, got : 0..Chunks - 1]
           /\ job.tag \in 1..MaxTag /\ job.block \in Blocks /\ job.val \in 1..MaxCalls
           /\ job.got \in 0..Chunks - 1
BY DEF TypeOK

LEMMA NewJobIs ==
  ASSUME call \in Calls, call.val > 0, NEW t \in 1..MaxTag
  PROVE  /\ Job(t) \in [tag : 1..MaxTag, block : Blocks, val : 1..MaxCalls, got : 0..Chunks - 1]
         /\ Job(t).tag = t /\ Job(t).block = call.block /\ Job(t).val = call.val /\ Job(t).got = 0
BY StorageAssumption DEF Job, Calls

(* Whatever the drive makes of a command, it answers earlier ones first,   *)
(* and the command in the order data, status.                              *)
AddsNothing == owed' = owed
AddsStatus(t, s) ==
  /\ Len(owed') = Len(owed) + 1
  /\ \A i \in 1..Len(owed) : owed'[i] = owed[i]
  /\ owed'[Len(owed) + 1] = CSW(t, s)
AddsData(t, s) ==
  /\ Len(owed') = Len(owed) + Messages + 1
  /\ \A i \in 1..Len(owed) : owed'[i] = owed[i]
  /\ \A i \in 1..Messages : owed'[Len(owed) + i].what = "data"
  /\ step = "rw" =>
       \A i \in 1..Messages : owed'[Len(owed) + i] = Data(store[call.block][i])
  /\ owed'[Len(owed) + Messages + 1] = CSW(t, s)

LEMMA CommandTaken ==
  ASSUME TypeOK, OwedInv, tag + 1 \in 1..MaxTag, TakesCommand(tag + 1)
  PROVE  /\ store' = store /\ late' = late /\ owed' \in Seq(Owes)
         /\ \/ job # NoJob /\ job' = NoJob /\ AddsNothing
            \/ job # NoJob /\ job' = NoJob /\ job.tag \in 0..tag /\ AddsStatus(job.tag, 1)
            \/ Outward /\ job' = Job(tag + 1) /\ AddsNothing
            \/ job' = NoJob /\ AddsStatus(tag + 1, 1)
            \/ job' = NoJob /\ ~Outward /\ \E s \in {0, 1} : AddsData(tag + 1, s)
<1>1. store' = store /\ late' = late
  BY DEF TakesCommand
<1>2. /\ owed \in Seq(Owes) /\ step \in Steps /\ tag \in 0..MaxTag /\ call.block \in Blocks
      /\ store \in [Blocks -> [Pieces -> 0..MaxCalls]]
  BY DEF TypeOK, Steps, Calls
<1>3. CASE job # NoJob
  <2>1. job.tag \in 0..tag /\ job.tag \in 0..MaxTag
    BY <1>2, <1>3, JobIs DEF OwedInv
  <2>2. CSW(job.tag, 1) \in Owes
    BY <2>1, OwesIs
  <2>3. job' = NoJob /\ (owed' = owed \/ owed' = Append(owed, CSW(job.tag, 1)))
    BY <1>3 DEF TakesCommand
  <2>4. CASE owed' = owed
    BY <1>1, <1>2, <1>3, <2>3, <2>4 DEF AddsNothing
  <2>5. CASE owed' = Append(owed, CSW(job.tag, 1))
    <3>1. owed' \in Seq(Owes) /\ AddsStatus(job.tag, 1)
      BY <1>2, <2>2, <2>5, AppendIs DEF AddsStatus
    <3> QED BY <1>1, <1>3, <2>1, <2>3, <3>1
  <2> QED BY <2>3, <2>4, <2>5
<1>4. CASE job = NoJob
  <2>1. PICK s \in {0, 1} :
          \/ Outward /\ job' = Job(tag + 1) /\ owed' = owed
          \/ job' = NoJob /\ s = 1 /\ owed' = Append(owed, CSW(tag + 1, s))
          \/ job' = NoJob /\ ~Outward /\ owed' =
               owed \o [i \in 1..Messages |->
                         Data(IF step = "rw" THEN store[call.block][i] ELSE 0)]
                    \o <<CSW(tag + 1, s)>>
    BY <1>4 DEF TakesCommand
  <2>2. CSW(tag + 1, s) \in Owes
    BY <1>2, OwesIs
  <2>3. CASE Outward /\ job' = Job(tag + 1) /\ owed' = owed
    BY <1>1, <1>2, <2>3 DEF AddsNothing
  <2>4. CASE job' = NoJob /\ s = 1 /\ owed' = Append(owed, CSW(tag + 1, s))
    <3>1. owed' \in Seq(Owes) /\ AddsStatus(tag + 1, 1)
      BY <1>2, <2>2, <2>4, AppendIs DEF AddsStatus
    <3> QED BY <1>1, <2>4, <3>1
  <2> DEFINE f == [i \in 1..Messages |->
                    Data(IF step = "rw" THEN store[call.block][i] ELSE 0)]
  <2>5. CASE job' = NoJob /\ ~Outward /\ owed' = owed \o f \o <<CSW(tag + 1, s)>>
    <3>1. Messages \in Nat /\ (step = "rw" => Messages = Chunks)
      BY <1>2, MessagesIs
    <3>2. \A i \in 1..Messages :
            (IF step = "rw" THEN store[call.block][i] ELSE 0) \in 0..MaxCalls
      BY <1>2, <3>1, StorageAssumption DEF Pieces
    <3>3. /\ f \in [1..Messages -> Owes]
          /\ \A i \in 1..Messages : f[i].what = "data"
          /\ step = "rw" => \A i \in 1..Messages : f[i] = Data(store[call.block][i])
      BY <3>2, OwesIs
    <3> HIDE DEF f
    <3>4. owed' \in Seq(Owes) /\ AddsData(tag + 1, s)
      <4> DEFINE e == CSW(tag + 1, s)
      <4>1. e \in Owes /\ owed' = owed \o f \o <<e>>
        BY <2>2, <2>5
      <4> HIDE DEF e
      <4>2. /\ owed' \in Seq(Owes) /\ Len(owed) \in Nat
            /\ Len(owed') = Len(owed) + Messages + 1
            /\ \A i \in 1..Len(owed) : owed'[i] = owed[i]
            /\ \A i \in 1..Messages : owed'[Len(owed) + i] = f[i]
            /\ owed'[Len(owed) + Messages + 1] = e
        <5> DEFINE n == Messages  X == Owes
        <5>1. owed \in Seq(X) /\ n \in Nat /\ f \in [1..n -> X] /\ e \in X
          BY <1>2, <3>1, <3>3, <4>1
        <5> HIDE DEF n, X
        <5> DEFINE q == owed \o f  last == <<e>>
        <5>2. f \in Seq(X) /\ Len(f) = n
          BY <5>1
        <5>3. last \in Seq(X) /\ Len(last) = 1 /\ last[1] = e
          BY <5>1
        <5>4. /\ q \in Seq(X) /\ Len(q) = Len(owed) + n /\ Len(owed) \in Nat
              /\ \A i \in 1..Len(owed) : q[i] = owed[i]
              /\ \A i \in 1..n : q[Len(owed) + i] = f[i]
          BY <5>1, <5>2
        <5>5. owed' = q \o last
          BY <4>1
        <5> HIDE DEF q, last
        <5>6. /\ q \o last \in Seq(X) /\ Len(q \o last) = Len(q) + 1
              /\ \A i \in 1..Len(q) : (q \o last)[i] = q[i]
              /\ (q \o last)[Len(q) + 1] = e
          BY <5>3, <5>4 DEF last
        <5>7. /\ owed' \in Seq(X) /\ Len(owed') = Len(q) + 1
              /\ \A i \in 1..Len(q) : owed'[i] = q[i]
              /\ owed'[Len(q) + 1] = e
          BY <5>5, <5>6, Zenon
        <5>8. /\ owed' \in Seq(X) /\ Len(owed) \in Nat
              /\ Len(owed') = Len(owed) + n + 1
              /\ \A i \in 1..Len(owed) : owed'[i] = owed[i]
              /\ \A i \in 1..n : owed'[Len(owed) + i] = f[i]
              /\ owed'[Len(owed) + n + 1] = e
          <6>1. /\ owed' \in Seq(X) /\ Len(owed) \in Nat /\ n \in Nat
                /\ Len(owed') = Len(owed) + n + 1
            BY <5>1, <5>4, <5>7
          <6>2. \A i \in 1..Len(owed) : i \in 1..Len(q)
            BY <5>4, <6>1
          <6>3. \A i \in 1..n : Len(owed) + i \in 1..Len(q)
            BY <5>4, <6>1
          <6>4. \A i \in 1..Len(owed) : owed'[i] = owed[i]
            BY <5>4, <5>7, <6>2, Zenon
          <6>5. \A i \in 1..n : owed'[Len(owed) + i] = f[i]
            BY <5>4, <5>7, <6>3, Zenon
          <6>6. owed'[Len(owed) + n + 1] = e
            BY <5>4, <5>7, Zenon
          <6> QED BY <6>1, <6>4, <6>5, <6>6
        <5> QED BY <5>8 DEF n, X
      <4>3. \A i \in 1..Messages : owed'[Len(owed) + i].what = "data"
        BY <3>3, <4>2
      <4>4. step = "rw" =>
              \A i \in 1..Messages : owed'[Len(owed) + i] = Data(store[call.block][i])
        BY <3>3, <4>2
      <4> QED BY <4>2, <4>3, <4>4 DEF AddsData, e
    <3> QED BY <1>1, <2>5, <3>4
  <2> QED BY <2>1, <2>3, <2>4, <2>5
<1> QED BY <1>3, <1>4

-----------------------------------------------------------------------------
(* The drive's types, and that it owes a status last.                      *)

DriveType ==
  /\ store \in [Blocks -> [Pieces -> 0..MaxCalls]]
  /\ job = NoJob \/ job \in [tag : 1..MaxTag, block : Blocks, val : 1..MaxCalls,
                             got : 0..Chunks - 1]
  /\ owed \in Seq(Owes)
  /\ late \in BOOLEAN

HostType ==
  /\ pc \in {"idle", "attempt", "data", "csw", "reset", "remount", "ended"}
  /\ call \in Calls /\ step \in Steps
  /\ round \in {1, 2} /\ retries \in 0..Retries + 1
  /\ code \in Codes /\ status \in {0, 1} /\ done \in 0..Chunks
  /\ data \in Seq(0..MaxCalls) /\ Len(data) <= Chunks
  /\ tag \in 0..MaxTag
  /\ ret \in [code : Codes, status : {0, 1}]
  /\ pc = "attempt" => retries > 0

LEMMA TypeParts == TypeOK <=> HostType /\ DriveType
BY DEF TypeOK, HostType, DriveType, Steps

LEMMA DriveSame ==
  ASSUME TypeOK, OwedInv, UNCHANGED drive, tag' \in {tag, tag + 1}
  PROVE  DriveType' /\ OwedInv'
<1>1. DriveType'
  BY TypeParts DEF DriveType, drive
<1>2. /\ owed \in Seq(Owes) /\ tag \in Nat /\ tag <= tag'
      /\ job # NoJob => job.tag \in Nat
      /\ \A k \in 1..Len(owed) : owed[k].what = "csw" => owed[k].tag \in Nat
  <2>1. owed \in Seq(Owes) /\ tag \in Nat /\ tag <= tag'
    BY DEF TypeOK
  <2>2. \A k \in 1..Len(owed) : owed[k] \in Owes
    BY <2>1
  <2> QED BY <2>1, <2>2, OwesIs, JobIs
<1> QED BY <1>1, <1>2 DEF OwedInv, drive

LEMMA DriveIsReset ==
  ASSUME TypeOK, IsReset, late' \in BOOLEAN
  PROVE  DriveType' /\ OwedInv'
BY TypeParts DEF DriveType, OwedInv, IsReset

LEMMA DriveRefuses ==
  ASSUME TypeOK, OwedInv, RefusesCommand, tag' = tag + 1
  PROVE  DriveType' /\ OwedInv'
<1>1. DriveType'
  BY TypeParts DEF DriveType, RefusesCommand
<1>2. /\ owed \in Seq(Owes) /\ tag \in Nat
      /\ \A k \in 1..Len(owed) : owed[k].what = "csw" => owed[k].tag \in Nat
  <2>1. owed \in Seq(Owes) /\ tag \in Nat
    BY DEF TypeOK
  <2>2. \A k \in 1..Len(owed) : owed[k] \in Owes
    BY <2>1
  <2> QED BY <2>1, <2>2, OwesIs
<1> QED BY <1>1, <1>2 DEF OwedInv, RefusesCommand

(* A message of the drive's that the host gets, or that is lost.           *)
LEMMA DriveLosesOne ==
  ASSUME TypeOK, OwedInv, owed # <<>>, owed' = Tail(owed), UNCHANGED <<store, job, late, tag>>
  PROVE  DriveType' /\ OwedInv'
<1>1. owed \in Seq(Owes) /\ owed # <<>>
  BY DEF TypeOK
<1>2. /\ owed' \in Seq(Owes) /\ Len(owed) \in Nat /\ Len(owed') = Len(owed) - 1
      /\ \A i \in 1..Len(owed') : owed'[i] = owed[i + 1]
  BY <1>1, TailIs
<1>3. DriveType'
  BY <1>2, TypeParts DEF DriveType
<1>4. owed' # <<>> => owed'[Len(owed')].what = "csw"
  <2>1. owed' # <<>> => Len(owed') > 0
    BY <1>2
  <2>2. owed' # <<>> => owed'[Len(owed')] = owed[Len(owed)]
    BY <1>2, <2>1
  <2> QED BY <2>2 DEF OwedInv
<1>5. \A k \in 1..Len(owed') : owed'[k].what = "csw" => owed'[k].tag <= tag'
  BY <1>2 DEF OwedInv
<1> QED BY <1>3, <1>4, <1>5 DEF OwedInv

LEMMA DriveLoses ==
  ASSUME TypeOK, OwedInv, LosesAnswer, UNCHANGED tag
  PROVE  DriveType' /\ OwedInv'
<1>1. /\ UNCHANGED <<store, job, late>>
      /\ owed' = owed \/ (owed # <<>> /\ owed' = Tail(owed))
  BY DEF LosesAnswer
<1>2. CASE owed' = owed
  BY <1>1, <1>2, DriveSame DEF drive
<1>3. CASE owed # <<>> /\ owed' = Tail(owed)
  BY <1>1, <1>3, DriveLosesOne
<1> QED BY <1>1, <1>2, <1>3

(* A status more.                                                          *)
LEMMA OwesStatus ==
  ASSUME TypeOK, OwedInv, NEW t \in 0..MaxTag, NEW s \in {0, 1}, AddsStatus(t, s),
         tag' \in Nat, tag' >= tag, t <= tag', job' # NoJob => job'.tag <= tag'
  PROVE  OwedInv'
<1>1. owed \in Seq(Owes) /\ Len(owed) \in Nat /\ tag \in Nat
  BY DEF TypeOK
<1>2. \A k \in 1..Len(owed) : owed[k].what = "csw" => owed[k].tag \in Nat /\ owed[k].tag <= tag
  <2>1. \A k \in 1..Len(owed) : owed[k] \in Owes
    BY <1>1
  <2> QED BY <2>1, OwesIs DEF OwedInv
<1>3. /\ Len(owed') = Len(owed) + 1
      /\ \A i \in 1..Len(owed) : owed'[i] = owed[i]
      /\ owed'[Len(owed) + 1].what = "csw" /\ owed'[Len(owed) + 1].tag = t
  BY OwesIs DEF AddsStatus
<1>4. owed'[Len(owed')].what = "csw"
  BY <1>3
<1>5. ASSUME NEW k \in 1..Len(owed'), owed'[k].what = "csw"
      PROVE  owed'[k].tag <= tag'
  <2>1. CASE k \in 1..Len(owed)
    BY <1>1, <1>2, <1>3, <1>5, <2>1
  <2>2. CASE k = Len(owed) + 1
    BY <1>3, <2>2
  <2> QED BY <1>1, <1>3, <2>1, <2>2
<1> QED BY <1>4, <1>5 DEF OwedInv

LEMMA DriveTakesCommand ==
  ASSUME TypeOK, OwedInv, call.val > 0, tag < MaxTag, TakesCommand(tag + 1), tag' = tag + 1
  PROVE  DriveType' /\ OwedInv'
<1>1. /\ tag \in Nat /\ tag + 1 \in 1..MaxTag /\ tag' \in 0..MaxTag
      /\ owed \in Seq(Owes) /\ Len(owed) \in Nat /\ call \in Calls /\ step \in Steps
  BY Bounds DEF TypeOK, Steps
<1>2. /\ store' = store /\ late' = late /\ owed' \in Seq(Owes)
      /\ \/ job # NoJob /\ job' = NoJob /\ AddsNothing
         \/ job # NoJob /\ job' = NoJob /\ job.tag \in 0..tag /\ AddsStatus(job.tag, 1)
         \/ Outward /\ job' = Job(tag + 1) /\ AddsNothing
         \/ job' = NoJob /\ AddsStatus(tag + 1, 1)
         \/ job' = NoJob /\ ~Outward /\ \E s \in {0, 1} : AddsData(tag + 1, s)
  BY <1>1, CommandTaken
<1>3. job' = NoJob \/ (job' = Job(tag + 1) /\ AddsNothing)
  BY <1>2
<1>4. DriveType'
  BY <1>1, <1>2, <1>3, NewJobIs, TypeParts DEF DriveType
<1>5. job' # NoJob => job'.tag <= tag'
  BY <1>1, <1>3, NewJobIs
<1>6. \A k \in 1..Len(owed) :
        owed[k].what = "csw" => owed[k].tag \in Nat /\ owed[k].tag <= tag
  <2>1. \A k \in 1..Len(owed) : owed[k] \in Owes
    BY <1>1
  <2> QED BY <2>1, OwesIs DEF OwedInv
<1>7. CASE AddsNothing
  <2>1. owed' = owed
    BY <1>7 DEF AddsNothing
  <2>2. \A k \in 1..Len(owed') : owed'[k].what = "csw" => owed'[k].tag <= tag'
    BY <1>1, <1>6, <2>1
  <2>3. owed' # <<>> => owed'[Len(owed')].what = "csw"
    BY <2>1 DEF OwedInv
  <2>4. OwedInv'
    BY <1>5, <2>2, <2>3 DEF OwedInv
  <2> QED BY <1>4, <2>4
<1>8. CASE job.tag \in 0..tag /\ AddsStatus(job.tag, 1)
  <2>1. job.tag \in 0..MaxTag /\ job.tag <= tag' /\ tag' \in Nat /\ tag' >= tag
    BY <1>1, <1>8, Bounds
  <2> QED BY <1>4, <1>5, <1>8, <2>1, OwesStatus
<1>9. CASE AddsStatus(tag + 1, 1)
  <2>1. tag + 1 \in 0..MaxTag /\ tag + 1 <= tag' /\ tag' \in Nat /\ tag' >= tag
    BY <1>1, Bounds
  <2> QED BY <1>4, <1>5, <1>9, <2>1, OwesStatus
<1>10. CASE \E s \in {0, 1} : AddsData(tag + 1, s)
  <2>1. PICK s \in {0, 1} : AddsData(tag + 1, s)
    BY <1>10
  <2>2. Messages \in Nat
    BY <1>1, MessagesIs
  <2>3. /\ Len(owed') = Len(owed) + Messages + 1
        /\ \A i \in 1..Len(owed) : owed'[i] = owed[i]
        /\ \A i \in 1..Messages : owed'[Len(owed) + i].what = "data"
        /\ owed'[Len(owed) + Messages + 1].what = "csw"
        /\ owed'[Len(owed) + Messages + 1].tag = tag'
    BY <1>1, <2>1, OwesIs DEF AddsData
  <2>4. owed'[Len(owed')].what = "csw"
    BY <2>3
  <2>5. ASSUME NEW k \in 1..Len(owed'), owed'[k].what = "csw"
        PROVE  owed'[k].tag <= tag'
    <3>1. CASE k \in 1..Len(owed)
      BY <1>1, <1>6, <2>3, <2>5, <3>1
    <3>2. CASE k = Len(owed) + Messages + 1
      BY <1>1, <2>3, <3>2
    <3>3. CASE k - Len(owed) \in 1..Messages
      <4>1. owed'[Len(owed) + (k - Len(owed))].what = "data"
        BY <2>3, <3>3
      <4>2. Len(owed) + (k - Len(owed)) = k
        BY <1>1
      <4> QED BY <2>5, <4>1, <4>2
    <3>4. /\ Len(owed) \in Nat /\ Messages \in Nat
          /\ k \in 1..Len(owed) + Messages + 1
      BY <1>1, <2>2, <2>3
    <3>5. k \in 1..Len(owed) \/ k = Len(owed) + Messages + 1 \/ k - Len(owed) \in 1..Messages
      BY <3>4
    <3> QED BY <3>1, <3>2, <3>3, <3>5, Zenon
  <2>6. OwedInv'
    BY <1>5, <2>4, <2>5 DEF OwedInv
  <2> QED BY <1>4, <2>6
<1> QED BY <1>2, <1>7, <1>8, <1>9, <1>10

(* A message of a write's data: it is stored, and the last one answered.   *)
LEMMA DataTaken ==
  ASSUME TypeOK, OwedInv, TakesData
  PROVE  /\ job # NoJob /\ job.got + 1 \in Pieces
         /\ store' \in [Blocks -> [Pieces -> 0..MaxCalls]] /\ owed' \in Seq(Owes)
         /\ \/ /\ job.got + 1 < Chunks /\ owed' = owed
               /\ job' = [job EXCEPT !.got = job.got + 1]
               /\ store' = [store EXCEPT ![job.block][job.got + 1] = call.val]
            \/ /\ job.got + 1 = Chunks /\ job' = NoJob
               /\ store' \in {store, [store EXCEPT ![job.block][job.got + 1] = call.val]}
               /\ \E s \in {0, 1} :
                    /\ AddsStatus(job.tag, s)
                    /\ s = 0 => store' = [store EXCEPT ![job.block][job.got + 1] = call.val]
<1> DEFINE i == job.got + 1
           written == [store EXCEPT ![job.block][i] = call.val]
<1>1. job # NoJob
  BY DEF TakesData
<1>2. job.tag \in 1..MaxTag /\ job.block \in Blocks /\ job.got \in 0..Chunks - 1
  BY <1>1, JobIs
<1>3. i \in Pieces /\ i <= Chunks
  BY <1>2, StorageAssumption DEF Pieces
<1>4. /\ store \in [Blocks -> [Pieces -> 0..MaxCalls]] /\ owed \in Seq(Owes)
      /\ call.val \in 0..MaxCalls
  BY DEF TypeOK, Calls
<1>5. written \in [Blocks -> [Pieces -> 0..MaxCalls]]
  BY <1>2, <1>3, <1>4
<1>6. CASE i < Chunks
  BY <1>1, <1>3, <1>4, <1>5, <1>6 DEF TakesData
<1>7. CASE ~(i < Chunks)
  <2>1. i = Chunks
    BY <1>3, <1>7, StorageAssumption DEF Pieces
  <2>2. job' = NoJob
    BY <1>7 DEF TakesData
  <2>3. PICK s \in {0, 1} : /\ owed' = Append(owed, CSW(job.tag, s))
                            /\ store' \in IF s = 0 THEN {written} ELSE {written, store}
    BY <1>7 DEF TakesData
  <2>4. CSW(job.tag, s) \in Owes
    BY <1>2, OwesIs
  <2>5. owed' \in Seq(Owes) /\ AddsStatus(job.tag, s)
    BY <1>4, <2>3, <2>4, AppendIs DEF AddsStatus
  <2>6. store' \in {store, written} /\ (s = 0 => store' = written)
    BY <2>3
  <2> QED BY <1>1, <1>3, <1>4, <1>5, <2>1, <2>2, <2>5, <2>6
<1> QED BY <1>6, <1>7

LEMMA DriveTakesData ==
  ASSUME TypeOK, OwedInv, TakesData, UNCHANGED <<late, tag>>
  PROVE  DriveType' /\ OwedInv'
<1>1. /\ job # NoJob /\ job.got + 1 \in Pieces
      /\ store' \in [Blocks -> [Pieces -> 0..MaxCalls]] /\ owed' \in Seq(Owes)
      /\ \/ /\ job.got + 1 < Chunks /\ owed' = owed
            /\ job' = [job EXCEPT !.got = job.got + 1]
         \/ job' = NoJob /\ \E s \in {0, 1} : AddsStatus(job.tag, s)
  BY DataTaken
<1>2. /\ job \in [tag : 1..MaxTag, block : Blocks, val : 1..MaxCalls, got : 0..Chunks - 1]
      /\ job.tag \in 0..MaxTag /\ job.tag <= tag /\ tag \in Nat
  BY <1>1, JobIs DEF OwedInv, TypeOK
<1>3. late' \in BOOLEAN
  BY DEF TypeOK
<1>4. CASE /\ job.got + 1 < Chunks /\ owed' = owed
           /\ job' = [job EXCEPT !.got = job.got + 1]
  <2>1. /\ job' \in [tag : 1..MaxTag, block : Blocks, val : 1..MaxCalls, got : 0..Chunks - 1]
        /\ job'.tag = job.tag
    <3>1. job.got + 1 \in 0..Chunks - 1
      BY <1>1, <1>4, Bounds DEF Pieces
    <3> QED BY <1>2, <1>4, <3>1
  <2> QED BY <1>1, <1>2, <1>3, <1>4, <2>1 DEF DriveType, OwedInv
<1>5. CASE job' = NoJob /\ \E s \in {0, 1} : AddsStatus(job.tag, s)
  <2>1. DriveType'
    BY <1>1, <1>3, <1>5 DEF DriveType
  <2> QED BY <1>2, <1>5, <2>1, OwesStatus
<1> QED BY <1>1, <1>4, <1>5

-----------------------------------------------------------------------------
(* The driver's types and places.                                          *)

Calling == \E op \in {"read", "write"}, b \in Blocks : Call(op, b)
Commands == NextCommand /\ UNCHANGED drive
ResetFirst == AgainFromReset /\ UNCHANGED drive
Returns == Return /\ UNCHANGED drive

LEMMA NextCases ==
  ASSUME Next
  PROVE  \/ Calling \/ Commands \/ ResetFirst \/ Returns
         \/ SendCBW \/ SendData \/ ReceiveData \/ ReadCSW \/ Reset \/ Remount \/ LateReset
BY DEF Next, Driver, Calling, Commands, ResetFirst, Returns

(* A command begins: after another of the call's, or as the call's first.  *)
Begins(from) ==
  /\ pc = from /\ pc' = "attempt"
  /\ step' \in Steps /\ round' \in {1, 2}
  /\ retries' = Retries + 1 /\ code' = "ok" /\ status' = 0
  /\ UNCHANGED <<done, data, tag, ret>>

LEMMA CommandsBegin ==
  ASSUME TypeOK, Commands
  PROVE  Begins("ended") /\ call' = call /\ UNCHANGED drive
<1>1. UNCHANGED <<call, done, data, tag, ret>> /\ UNCHANGED drive /\ round \in {1, 2}
  BY DEF Commands, NextCommand, TypeOK
<1>2. CASE AfterStartStop
  BY <1>1, <1>2 DEF AfterStartStop, EndsWith, Command, Begins, Steps
<1>3. CASE AfterReady
  BY <1>1, <1>3 DEF AfterReady, EndsWith, Command, Begins, Steps
<1>4. CASE AfterClearErrors
  BY <1>1, <1>4 DEF AfterClearErrors, ErrorsCleared, ErrorsNotCleared, EndsWith, Command,
                    Begins, Steps
<1>5. CASE AfterInquiry
  BY <1>1, <1>5 DEF AfterInquiry, EndsWith, Command, Begins, Steps
<1>6. CASE AfterCapacity
  BY <1>1, <1>6 DEF AfterCapacity, EndsWith, Command, Begins, Steps
<1> QED BY <1>2, <1>3, <1>4, <1>5, <1>6 DEF Commands, NextCommand

LEMMA CallingBegins ==
  ASSUME TypeOK, Calling
  PROVE  /\ Begins("idle") /\ UNCHANGED drive
         /\ \E op \in {"read", "write"}, b \in Blocks :
              call' = [op |-> op, block |-> b, val |-> call.val + 1]
         /\ call.val < MaxCalls /\ call' \in Calls /\ call'.val = call.val + 1
<1>1. PICK op \in {"read", "write"}, b \in Blocks : Call(op, b)
  BY DEF Calling
<1>2. Begins("idle") /\ UNCHANGED drive
  BY <1>1 DEF Call, Command, Begins, Steps
<1>3. call' = [op |-> op, block |-> b, val |-> call.val + 1] /\ call.val < MaxCalls
  BY <1>1 DEF Call
<1>4. call.val \in Nat
  BY Bounds DEF TypeOK, Calls
<1> QED BY <1>2, <1>3, <1>4, Bounds DEF Calls

LEMMA RemountBegins ==
  ASSUME TypeOK, Remount
  PROVE  /\ Begins("remount") /\ call' = call
         /\ IsReset \/ UNCHANGED <<store, job, owed>>
         /\ late' \in BOOLEAN
BY DEF Remount, Command, Begins, Steps, ResetAnswered, Unanswered, TypeOK

LEMMA ResetDoes ==
  ASSUME TypeOK, Reset, code # "ok"
  PROVE  /\ pc = "reset" /\ pc' \in {"attempt", "ended"} /\ (pc' = "attempt" => retries > 0)
         /\ code' \in Codes /\ code' # "ok" /\ UNCHANGED driver
         /\ IsReset \/ UNCHANGED <<store, job, owed>>
         /\ late' \in BOOLEAN
<1>1. PICK c \in Codes : ResetAnswered(c) /\ AfterReset(c)
  BY DEF Reset
<1>2. code' \in Codes /\ code' # "ok"
  BY <1>1 DEF AfterReset, TypeOK, Codes
<1>3. pc = "reset" /\ pc' \in {"attempt", "ended"} /\ (pc' = "attempt" => retries > 0)
  BY <1>1 DEF AfterReset, Reset
<1>4. (IsReset \/ UNCHANGED <<store, job, owed>>) /\ late' \in BOOLEAN
  BY <1>1 DEF ResetAnswered, Unanswered, TypeOK
<1> QED BY <1>2, <1>3, <1>4 DEF Reset

(* A message fails, or brings the command on by one.                       *)
Fails == pc' \in {"reset", "ended"} /\ code' \in Codes /\ code' # "ok"

LEMMA FailedIs ==
  ASSUME NEW c \in {"error", "timedout"}, Failed(c)
  PROVE  Fails
BY DEF Failed, Fails, Codes

LEMMA SendCBWDoes ==
  ASSUME SendCBW
  PROVE  /\ pc = "attempt" /\ tag < MaxTag /\ tag' = tag + 1 /\ retries' = retries - 1
         /\ done' = 0 /\ data' = <<>>
         /\ UNCHANGED <<call, step, round, status, ret>>
         /\ \/ /\ pc' = Stage(0) /\ code' = "ok"
               /\ TakesCommand(tag + 1) \/ RefusesCommand
            \/ Fails /\ (TakesCommand(tag + 1) \/ UNCHANGED drive)
BY FailedIs DEF SendCBW

LEMMA SendDataDoes ==
  ASSUME SendData
  PROVE  /\ pc = "data" /\ Outward
         /\ UNCHANGED <<call, step, round, retries, status, data, tag, ret, late>>
         /\ \/ TakesData /\ done' = done + 1 /\ pc' = Stage(done + 1) /\ code' = code
            \/ Fails /\ done' = done /\ (TakesData \/ UNCHANGED drive)
BY FailedIs DEF SendData, Unanswered, drive

LEMMA ReceiveDataDoes ==
  ASSUME ReceiveData
  PROVE  /\ pc = "data" /\ ~Outward
         /\ UNCHANGED <<call, step, round, retries, status, tag, ret, store, job, late>>
         /\ \/ /\ owed # <<>> /\ Head(owed).what = "data" /\ owed' = Tail(owed)
               /\ data' = Append(data, Head(owed).val)
               /\ done' = done + 1 /\ pc' = Stage(done + 1) /\ code' = code
            \/ /\ Fails /\ UNCHANGED <<data, done>>
               /\ LosesAnswer
BY FailedIs DEF ReceiveData, LosesAnswer

LEMMA ReadCSWDoes ==
  ASSUME ReadCSW
  PROVE  /\ pc = "csw"
         /\ UNCHANGED <<call, step, round, retries, done, data, tag, ret, store, job, late>>
         /\ \/ /\ owed # <<>> /\ Matches(Head(owed)) /\ code' = "ok" /\ pc' = "ended"
               /\ status' = Head(owed).status /\ owed' = Tail(owed)
            \/ /\ Fails /\ LosesAnswer
               /\ \/ status' = status
                  \/ owed # <<>> /\ Head(owed).what = "csw" /\ status' = Head(owed).status
BY FailedIs DEF ReadCSW, LosesAnswer, Matches

(* The two places that a stage leads to.                                   *)
LEMMA StageIs ==
  ASSUME NEW n
  PROVE  Stage(n) \in {"data", "csw"} /\ (Stage(n) = "data" => n < Messages)
BY DEF Stage

HostInv == HostType /\ PlaceInv

LEMMA SameMessages ==
  ASSUME step' = step, call' = call
  PROVE  (Messages' = Messages) /\ (Outward' <=> Outward)
BY DEF Messages, Outward

LEMMA HostStep ==
  ASSUME TypeOK, PlaceInv, [Next]_vars
  PROVE  HostInv'
<1> USE DEF HostInv
<1>1. HostType /\ PlaceInv
  BY TypeParts
<1>2. ASSUME NEW f \in {"idle", "ended", "remount"}, Begins(f),
             \/ call' = call /\ pc # "idle"
             \/ call' \in Calls /\ call'.val = call.val + 1
      PROVE  HostInv'
  <2>1. call' \in Calls /\ call'.val > 0
    BY <1>1, <1>2, Bounds DEF HostType, PlaceInv, Calls
  <2>2. PlaceInv'
    BY <1>1, <1>2, <2>1 DEF PlaceInv, Begins
  <2>3. retries' \in 0..Retries + 1 /\ retries' > 0 /\ code' \in Codes
    BY <1>2, Bounds DEF Begins, Codes
  <2>4. HostType'
    BY <1>1, <1>2, <2>1, <2>3 DEF HostType, Begins
  <2> QED BY <2>2, <2>4
<1>3. CASE Calling
  BY <1>2, <1>3, CallingBegins
<1>4. CASE Commands
  <2>1. Begins("ended") /\ call' = call /\ pc # "idle"
    BY <1>4, CommandsBegin DEF Begins
  <2> QED BY <1>2, <2>1
<1>5. CASE Remount
  <2>1. Begins("remount") /\ call' = call /\ pc # "idle"
    BY <1>5, RemountBegins DEF Begins
  <2> QED BY <1>2, <2>1
<1>6. CASE ResetFirst
  BY <1>1, <1>6 DEF ResetFirst, AgainFromReset, ErrorsNotCleared, EndsWith, driver,
                    HostType, PlaceInv
<1>7. CASE Returns
  BY <1>1, <1>7 DEF Returns, Return, EndsWith, HostType, PlaceInv
<1>8. CASE Reset
  <2>1. code # "ok"
    BY <1>1, <1>8 DEF Reset, PlaceInv
  <2>2. /\ pc = "reset" /\ pc' \in {"attempt", "ended"} /\ (pc' = "attempt" => retries > 0)
        /\ code' \in Codes /\ UNCHANGED driver
    BY <1>8, <2>1, ResetDoes
  <2> QED BY <1>1, <2>2 DEF HostType, PlaceInv, driver
<1>9. CASE LateReset
  BY <1>1, <1>9 DEF LateReset, driver, HostType, PlaceInv, Messages
<1>10. ASSUME step' = step, call' = call, round' = round, ret' = ret,
              tag' \in 0..MaxTag, retries' \in 0..Retries + 1, code' \in Codes,
              status' \in {0, 1}, pc # "idle",
              pc' \in {"data", "csw", "reset", "ended"},
              data' \in Seq(0..MaxCalls), Len(data') <= done', done' \in 0..Messages,
              pc' = "data" => done' < Messages, pc' = "reset" => code' # "ok"
       PROVE  HostInv'
  <2>1. Messages' = Messages /\ Messages <= Chunks /\ Messages \in Nat
    BY <1>1, <1>10, MessagesIs, SameMessages DEF HostType
  <2>2. PlaceInv'
    BY <1>1, <1>10, <2>1 DEF PlaceInv
  <2>3. Len(data') \in Nat
    BY <1>10
  <2>4. done' \in 0..Chunks /\ Len(data') <= Chunks
    BY <1>10, <2>1, <2>3, Bounds
  <2>5. HostType'
    BY <1>1, <1>10, <2>4 DEF HostType
  <2> QED BY <2>2, <2>5
<1>11. /\ Messages \in Nat /\ done \in Nat /\ tag \in 0..MaxTag /\ retries \in 0..Retries + 1
       /\ data \in Seq(0..MaxCalls) /\ Len(data) \in Nat /\ Len(data) <= done
  BY <1>1, MessagesIs, Bounds DEF HostType, PlaceInv
<1>12. ASSUME NEW n \in Nat, n <= Messages, done' = n, pc' = Stage(n)
       PROVE  /\ done' \in 0..Messages /\ pc' \in {"data", "csw"}
              /\ pc' = "data" => done' < Messages
  BY <1>11, <1>12, StageIs
<1>13. CASE SendCBW
  <2>1. /\ pc = "attempt" /\ tag < MaxTag /\ tag' = tag + 1 /\ retries' = retries - 1
        /\ done' = 0 /\ data' = <<>>
        /\ UNCHANGED <<call, step, round, status, ret>>
        /\ \/ pc' = Stage(0) /\ code' = "ok"
           \/ Fails
    BY <1>13, SendCBWDoes
  <2>2. tag' \in 0..MaxTag /\ retries' \in 0..Retries + 1
    BY <1>1, <1>11, <2>1, Bounds DEF HostType
  <2>3. data' \in Seq(0..MaxCalls) /\ Len(data') <= done' /\ done' \in 0..Messages
    BY <1>11, <2>1
  <2>4. status' \in {0, 1} /\ code' \in Codes
    BY <1>1, <2>1 DEF HostType, Fails, Codes
  <2>5. /\ pc' \in {"data", "csw", "reset", "ended"}
        /\ pc' = "data" => done' < Messages
        /\ pc' = "reset" => code' # "ok"
    BY <1>11, <2>1, StageIs DEF Fails
  <2> QED BY <1>10, <2>1, <2>2, <2>3, <2>4, <2>5
<1>14. CASE SendData
  <2>1. /\ pc = "data" /\ UNCHANGED <<call, step, round, retries, status, data, tag, ret>>
        /\ \/ done' = done + 1 /\ pc' = Stage(done + 1) /\ code' = code
           \/ Fails /\ done' = done
    BY <1>14, SendDataDoes
  <2>2. done < Messages
    BY <1>1, <2>1 DEF PlaceInv
  <2>3. done' \in 0..Messages /\ Len(data') <= done'
    BY <1>11, <2>1, <2>2
  <2>4. status' \in {0, 1} /\ code' \in Codes
    BY <1>1, <2>1 DEF HostType, Fails
  <2>5. /\ pc' \in {"data", "csw", "reset", "ended"}
        /\ pc' = "data" => done' < Messages
        /\ pc' = "reset" => code' # "ok"
    BY <2>1, StageIs DEF Fails
  <2> QED BY <1>10, <1>11, <2>1, <2>3, <2>4, <2>5
<1>15. CASE ReceiveData
  <2>1. /\ pc = "data" /\ UNCHANGED <<call, step, round, retries, status, tag, ret>>
        /\ \/ /\ owed # <<>> /\ Head(owed).what = "data"
              /\ data' = Append(data, Head(owed).val)
              /\ done' = done + 1 /\ pc' = Stage(done + 1) /\ code' = code
           \/ Fails /\ UNCHANGED <<data, done>>
    BY <1>15, ReceiveDataDoes
  <2>2. done < Messages
    BY <1>1, <2>1 DEF PlaceInv
  <2>3. owed # <<>> /\ Head(owed).what = "data" => Head(owed).val \in 0..MaxCalls
    <3>1. owed \in Seq(Owes)
      BY DEF TypeOK
    <3>2. owed # <<>> => Head(owed) \in Owes
      BY <3>1, TailIs
    <3> QED BY <3>2, OwesIs
  <2>4. data' \in Seq(0..MaxCalls) /\ Len(data') <= done' /\ done' \in 0..Messages
    <3>1. CASE UNCHANGED <<data, done>>
      BY <1>11, <2>2, <3>1
    <3>2. CASE /\ owed # <<>> /\ Head(owed).what = "data"
               /\ data' = Append(data, Head(owed).val) /\ done' = done + 1
      <4>1. data' \in Seq(0..MaxCalls) /\ Len(data') = Len(data) + 1
        BY <1>11, <2>3, <3>2, AppendIs
      <4> QED BY <1>11, <2>2, <3>2, <4>1
    <3> QED BY <2>1, <3>1, <3>2
  <2>5. status' \in {0, 1} /\ code' \in Codes
    BY <1>1, <2>1 DEF HostType, Fails
  <2>6. /\ pc' \in {"data", "csw", "reset", "ended"}
        /\ pc' = "data" => done' < Messages
        /\ pc' = "reset" => code' # "ok"
    BY <2>1, StageIs DEF Fails
  <2> QED BY <1>10, <1>11, <2>1, <2>4, <2>5, <2>6
<1>16. CASE ReadCSW
  <2>1. /\ pc = "csw"
        /\ UNCHANGED <<call, step, round, retries, done, data, tag, ret>>
        /\ \/ owed # <<>> /\ Matches(Head(owed)) /\ code' = "ok" /\ pc' = "ended"
              /\ status' = Head(owed).status
           \/ /\ Fails
              /\ \/ status' = status
                 \/ owed # <<>> /\ Head(owed).what = "csw" /\ status' = Head(owed).status
    BY <1>16, ReadCSWDoes
  <2>2. owed # <<>> /\ Head(owed).what = "csw" => Head(owed).status \in {0, 1}
    <3>1. owed \in Seq(Owes)
      BY DEF TypeOK
    <3>2. owed # <<>> => Head(owed) \in Owes
      BY <3>1, TailIs
    <3> QED BY <3>2, OwesIs
  <2>3. status' \in {0, 1} /\ code' \in Codes
    BY <1>1, <2>1, <2>2 DEF HostType, Fails, Codes, Matches
  <2>4. pc' \in {"reset", "ended"} /\ (pc' = "reset" => code' # "ok")
    BY <2>1 DEF Fails
  <2>5. HostType'
    BY <1>1, <2>1, <2>3, <2>4 DEF HostType
  <2>6. PlaceInv'
    BY <1>1, <2>1, <2>4 DEF PlaceInv
  <2> QED BY <2>5, <2>6
<1>17. CASE UNCHANGED vars
  BY <1>1, <1>17 DEF vars, driver, HostType, PlaceInv, Messages
<1> QED
  BY <1>3, <1>4, <1>5, <1>6, <1>7, <1>8, <1>9, <1>13, <1>14, <1>15, <1>16, <1>17, NextCases

LEMMA DriveStep ==
  ASSUME TypeOK, PlaceInv, OwedInv, [Next]_vars
  PROVE  DriveType' /\ OwedInv'
<1>0. tag \in Nat /\ late \in BOOLEAN
  BY DEF TypeOK
<1>1. CASE Calling \/ Commands
  BY <1>1, CallingBegins, CommandsBegin, DriveSame DEF Begins
<1>2. CASE ResetFirst \/ Returns
  BY <1>2, DriveSame DEF ResetFirst, AgainFromReset, Returns, Return, driver
<1>3. CASE Reset \/ Remount
  <2>1. code # "ok" \/ Remount
    BY <1>3 DEF Reset, PlaceInv
  <2>2. /\ IsReset \/ UNCHANGED <<store, job, owed>>
        /\ late' \in BOOLEAN /\ tag' = tag
    BY <1>3, <2>1, ResetDoes, RemountBegins DEF Begins, driver
  <2>3. CASE IsReset
    BY <2>2, <2>3, DriveIsReset
  <2>4. CASE UNCHANGED <<store, job, owed>>
    BY <2>2, <2>4, TypeParts DEF DriveType, OwedInv
  <2> QED BY <2>2, <2>3, <2>4
<1>4. CASE LateReset
  BY <1>4, DriveIsReset DEF LateReset
<1>5. CASE SendCBW
  <2>1. /\ pc = "attempt" /\ tag < MaxTag /\ tag' = tag + 1
        /\ TakesCommand(tag + 1) \/ RefusesCommand \/ UNCHANGED drive
    BY <1>5, SendCBWDoes
  <2>2. call.val > 0
    BY <2>1 DEF PlaceInv
  <2> QED BY <2>1, <2>2, DriveTakesCommand, DriveRefuses, DriveSame
<1>6. CASE SendData
  <2>1. late' = late /\ tag' = tag /\ (TakesData \/ UNCHANGED drive)
    BY <1>6, SendDataDoes
  <2> QED BY <2>1, DriveTakesData, DriveSame
<1>7. CASE ReceiveData
  <2>1. /\ UNCHANGED <<store, job, late, tag>>
        /\ (owed # <<>> /\ owed' = Tail(owed)) \/ LosesAnswer
    BY <1>7, ReceiveDataDoes
  <2> QED BY <2>1, DriveLosesOne, DriveLoses
<1>8. CASE ReadCSW
  <2>1. /\ UNCHANGED <<store, job, late, tag>>
        /\ (owed # <<>> /\ owed' = Tail(owed)) \/ LosesAnswer
    BY <1>8, ReadCSWDoes
  <2> QED BY <2>1, DriveLosesOne, DriveLoses
<1>9. CASE UNCHANGED vars
  BY <1>9, DriveSame DEF vars, driver
<1> QED BY <1>1, <1>2, <1>3, <1>4, <1>5, <1>6, <1>7, <1>8, <1>9, NextCases

-----------------------------------------------------------------------------
(* What the current command finds of its own.                              *)

(* Only three steps are about a command that goes on.                      *)
LEMMA UnderWay ==
  ASSUME TypeOK, PlaceInv, [Next]_vars, pc' \in {"data", "csw"}
  PROVE  \/ /\ SendCBW /\ pc' = Stage(0) /\ code' = "ok"
            /\ TakesCommand(tag + 1) \/ RefusesCommand
         \/ SendData /\ TakesData /\ done' = done + 1 /\ pc' = Stage(done + 1)
         \/ /\ ReceiveData /\ owed # <<>> /\ Head(owed).what = "data" /\ owed' = Tail(owed)
            /\ data' = Append(data, Head(owed).val)
            /\ done' = done + 1 /\ pc' = Stage(done + 1)
         \/ LateReset
         \/ UNCHANGED vars
<1>1. ~Calling /\ ~Commands /\ ~Remount
  BY CallingBegins, CommandsBegin, RemountBegins DEF Begins
<1>2. ~ResetFirst /\ ~Returns
  BY DEF ResetFirst, AgainFromReset, Returns, Return
<1>3. ~Reset
  BY ResetDoes DEF Reset, PlaceInv
<1>4. ~Fails
  BY DEF Fails
<1>5. ~ReadCSW
  BY <1>4, ReadCSWDoes
<1>6. CASE SendCBW
  BY <1>4, <1>6, SendCBWDoes
<1>7. CASE SendData
  BY <1>4, <1>7, SendDataDoes
<1>8. CASE ReceiveData
  BY <1>4, <1>8, ReceiveDataDoes
<1> QED BY <1>1, <1>2, <1>3, <1>5, <1>6, <1>7, <1>8, NextCases

OrderInv == Pending /\ InOrder

(* Nothing of what the drive owed before a command bears its tag, and the  *)
(* last of it would give itself away.                                      *)
LEMMA OlderOnes ==
  ASSUME TypeOK, OwedInv, tag' = tag + 1,
         Len(owed') >= Len(owed), \A i \in 1..Len(owed) : owed'[i] = owed[i]
  PROVE  /\ \A k \in 1..Len(owed) : ~Own(k)'
         /\ \A k \in Nat : k = Len(owed) /\ k > 0 => Stale(k)'
<1>1. owed \in Seq(Owes) /\ tag \in Nat /\ Len(owed) \in Nat
  BY DEF TypeOK
<1>2. \A k \in 1..Len(owed) : owed[k].what = "csw" => owed[k].tag \in Nat /\ owed[k].tag <= tag
  <2>1. \A k \in 1..Len(owed) : owed[k] \in Owes
    BY <1>1
  <2> QED BY <2>1, OwesIs DEF OwedInv
<1>3. ASSUME NEW k \in 1..Len(owed)
      PROVE  ~Own(k)'
  BY <1>1, <1>2, <1>3 DEF Own
<1>4. ASSUME NEW k \in Nat, k = Len(owed), k > 0
      PROVE  Stale(k)'
  <2>1. owed # <<>> /\ k \in 1..Len(owed)
    BY <1>1, <1>4
  <2>2. owed[k].what = "csw"
    BY <1>4, <2>1 DEF OwedInv
  <2> QED BY <1>1, <1>2, <2>1, <2>2 DEF Stale
<1> QED BY <1>3, <1>4

LEMMA OrderSend ==
  ASSUME TypeOK, PlaceInv, OwedInv, SendCBW, pc' = Stage(0),
         TakesCommand(tag + 1) \/ RefusesCommand
  PROVE  OrderInv'
<1>1. /\ pc = "attempt" /\ tag < MaxTag /\ tag' = tag + 1
      /\ done' = 0 /\ data' = <<>> /\ call' = call /\ step' = step
  BY SendCBWDoes
<1>2. /\ tag \in Nat /\ tag + 1 \in 1..MaxTag /\ owed \in Seq(Owes) /\ Len(owed) \in Nat
      /\ step \in Steps /\ call \in Calls /\ call.val > 0
  BY <1>1, Bounds DEF TypeOK, Steps, PlaceInv
<1>3. Messages' = Messages /\ (Outward' <=> Outward)
  BY <1>1, SameMessages
<1>4. Len(owed) \in Nat /\ tag \in Nat
  BY <1>2
<1>5. CASE RefusesCommand
  <2>1. job' = NoJob /\ owed' = owed
    BY <1>5 DEF RefusesCommand
  <2>2. \A k \in 1..Len(owed') : ~Own(k)'
    BY <1>1, <1>2, <2>1, OlderOnes
  <2> QED BY <2>1, <2>2 DEF OrderInv, Pending, InOrder
<1>6. CASE TakesCommand(tag + 1)
  <2>1. /\ store' = store
        /\ \/ job' = NoJob /\ AddsNothing
           \/ job' = NoJob /\ job.tag \in 0..tag /\ AddsStatus(job.tag, 1)
           \/ Outward /\ job' = Job(tag + 1) /\ AddsNothing
           \/ job' = NoJob /\ AddsStatus(tag + 1, 1)
           \/ job' = NoJob /\ ~Outward /\ \E s \in {0, 1} : AddsData(tag + 1, s)
    BY <1>2, <1>6, CommandTaken
  <2>2. Pending'
    <3>1. job' = NoJob \/ (Outward /\ job' = Job(tag + 1))
      BY <2>1
    <3>2. CASE job' = NoJob
      BY <3>2 DEF Pending
    <3>3. CASE Outward /\ job' = Job(tag + 1)
      <4>1. job'.tag = tag' /\ job'.block = call'.block /\ job'.val = call'.val /\ job'.got = 0
        BY <1>1, <1>2, <3>3, NewJobIs
      <4> QED BY <1>1, <1>3, <3>3, <4>1 DEF Pending
    <3> QED BY <3>1, <3>2, <3>3
  <2>3. CASE AddsNothing
    <3>1. owed' = owed
      BY <2>3 DEF AddsNothing
    <3>2. \A k \in 1..Len(owed') : ~Own(k)'
      BY <1>1, <1>2, <3>1, OlderOnes
    <3> QED BY <2>2, <3>2 DEF OrderInv, InOrder
  <2>4. CASE job.tag \in 0..tag /\ AddsStatus(job.tag, 1)
    <3>1. /\ Len(owed') = Len(owed) + 1
          /\ \A i \in 1..Len(owed) : owed'[i] = owed[i]
          /\ owed'[Len(owed) + 1].tag = job.tag
      BY <2>4 DEF AddsStatus, CSW
    <3>2. \A k \in 1..Len(owed) : ~Own(k)'
      BY <1>1, <1>2, <3>1, OlderOnes
    <3>3. \A k : k = Len(owed) + 1 => ~Own(k)'
      <4>1. job.tag # tag'
        BY <1>1, <1>4, <2>4
      <4> QED BY <3>1, <4>1 DEF Own
    <3>4. \A k \in 1..Len(owed') : ~Own(k)'
      <4>1. \A k \in 1..Len(owed') : k \in 1..Len(owed) \/ k = Len(owed) + 1
        BY <1>4, <3>1
      <4> QED BY <3>2, <3>3, <4>1
    <3> QED BY <2>2, <3>4 DEF OrderInv, InOrder
  <2>5. CASE job' = NoJob /\ AddsStatus(tag + 1, 1)
    <3>1. /\ Len(owed') = Len(owed) + 1
          /\ \A i \in 1..Len(owed) : owed'[i] = owed[i]
          /\ owed'[Len(owed) + 1].status = 1
      BY <2>5 DEF AddsStatus, CSW
    <3>2. \A k \in 1..Len(owed) : ~Own(k)'
      BY <1>1, <1>2, <3>1, OlderOnes
    <3>3. \A k \in 1..Len(owed') : Own(k)' => k = Len(owed') /\ owed'[k].status = 1
      <4>1. \A k \in 1..Len(owed') : k \in 1..Len(owed) \/ k = Len(owed) + 1
        BY <1>4, <3>1
      <4> QED BY <3>1, <3>2, <4>1
    <3> QED BY <2>2, <2>5, <3>3 DEF OrderInv, InOrder
  <2>6. CASE job' = NoJob /\ ~Outward /\ \E s \in {0, 1} : AddsData(tag + 1, s)
    <3>1. PICK s \in {0, 1} : AddsData(tag + 1, s)
      BY <2>6
    <3>2. Messages \in Nat /\ (step = "rw" => Messages = Chunks)
      BY <1>2, MessagesIs
    <3>3. /\ Len(owed') = Len(owed) + Messages + 1
          /\ \A i \in 1..Len(owed) : owed'[i] = owed[i]
          /\ \A i \in 1..Messages : owed'[Len(owed) + i].what = "data"
          /\ step = "rw" =>
               \A i \in 1..Messages : owed'[Len(owed) + i] = Data(store[call.block][i])
      BY <3>1 DEF AddsData
    <3>4. \A k \in 1..Len(owed) : ~Own(k)'
      BY <1>1, <1>2, <3>2, <3>3, OlderOnes
    <3>5. \A k \in Nat : k = Len(owed) /\ k > 0 => Stale(k)'
      BY <1>1, <1>2, <3>2, <3>3, OlderOnes
    <3>6. ASSUME NEW k \in 1..Len(owed'), Own(k)', \A j \in 1..k - 1 : ~Stale(j)'
          PROVE  k = Len(owed') /\ Len(owed) = 0
      <4>1. /\ k \in 1..Len(owed) + Messages + 1 /\ k \notin 1..Len(owed)
            /\ k - Len(owed) \in 1..Messages \/ k = Len(owed) + Messages + 1
        BY <1>2, <3>2, <3>3, <3>4, <3>6
      <4>2. k - Len(owed) \notin 1..Messages
        <5>1. SUFFICES ASSUME k - Len(owed) \in 1..Messages PROVE FALSE
          OBVIOUS
        <5>2. owed'[Len(owed) + (k - Len(owed))].what = "data"
          BY <3>3, <5>1
        <5>3. Len(owed) + (k - Len(owed)) = k
          BY <1>2
        <5> QED BY <3>6, <5>2, <5>3 DEF Own
      <4>3. Len(owed) = 0
        <5>1. SUFFICES ASSUME Len(owed) > 0 PROVE FALSE
          BY <1>2
        <5>2. Len(owed) \in 1..k - 1
          BY <1>4, <4>1, <5>1
        <5> QED BY <1>4, <3>5, <3>6, <5>1, <5>2
      <4> QED BY <3>3, <4>1, <4>2, <4>3
    <3>7. ASSUME NEW k \in 1..Len(owed'), k = Len(owed'), Len(owed) = 0, step = "rw"
          PROVE  Complete(k)'
      <4>1. k = Chunks - done' + 1 /\ k - 1 = Chunks /\ Chunks \in Nat
        BY <1>1, <3>2, <3>3, <3>7, Bounds
      <4>2. \A i \in 1..k - 1 : owed'[i] = Data(store[call.block][i])
        BY <3>2, <3>3, <3>7, <4>1
      <4>3. \A i \in 1..k - 1 : owed'[i] = Data(store'[call'.block][done' + i])
        BY <1>1, <2>1, <4>1, <4>2
      <4>4. ReadSoFar'
        BY <1>1 DEF ReadSoFar
      <4>5. Data(0)' = Data(0)
        BY DEF Data
      <4> QED BY <1>1, <1>3, <2>6, <4>1, <4>3, <4>4 DEF Complete, Data
    <3>8. InOrder'
      BY <1>1, <2>6, <3>6, <3>7 DEF InOrder
    <3> QED BY <2>2, <3>8 DEF OrderInv
  <2> QED BY <2>1, <2>3, <2>4, <2>5, <2>6
<1> QED BY <1>5, <1>6

(* While a write waits for its data, nothing of its own is owed that would *)
(* pass for its status.                                                    *)
LEMMA OrderSendData ==
  ASSUME TypeOK, PlaceInv, OwedInv, OrderInv, SendData, TakesData, done' = done + 1,
         pc' = Stage(done + 1)
  PROVE  OrderInv'
<1>1. /\ pc = "data" /\ Outward /\ call' = call /\ step' = step /\ tag' = tag
  BY SendDataDoes
<1> DEFINE written == [store EXCEPT ![job.block][job.got + 1] = call.val]
<1>2. /\ owed \in Seq(Owes) /\ Len(owed) \in Nat
      /\ store \in [Blocks -> [Pieces -> 0..MaxCalls]]
      /\ call.block \in Blocks /\ done \in Nat /\ step \in Steps
  BY DEF TypeOK, Calls, Steps
<1>3. /\ job # NoJob /\ job.got + 1 \in Pieces
      /\ \/ /\ job.got + 1 < Chunks /\ owed' = owed
            /\ job' = [job EXCEPT !.got = job.got + 1]
            /\ store' = written
         \/ /\ job.got + 1 = Chunks /\ job' = NoJob
            /\ \E s \in {0, 1} : AddsStatus(job.tag, s) /\ (s = 0 => store' = written)
  BY DataTaken, Zenon
<1>4. /\ job.tag = tag /\ job.block = call.block /\ job.val = call.val /\ job.got = done
      /\ \A i \in 1..done : store[call.block][i] = call.val
  BY <1>1, <1>2, <1>3 DEF OrderInv, Pending
<1>5. \A k \in 1..Len(owed) : Own(k) => \E j \in 1..k - 1 : Stale(j)
  BY <1>1, <1>2, <1>3 DEF OrderInv, InOrder
<1>6. Messages = Chunks /\ Messages' = Messages /\ (Outward' <=> Outward)
  BY <1>1, <1>2, <1>3, MessagesIs, SameMessages DEF Outward
<1>7. store' = written => \A i \in 1..done + 1 : store'[call.block][i] = call.val
  <2>1. SUFFICES ASSUME store' = written, NEW i \in 1..done + 1
                 PROVE  store'[call.block][i] = call.val
    OBVIOUS
  <2>2. done + 1 \in Pieces /\ i \in Pieces /\ (i \in 1..done \/ i = done + 1)
    BY <1>2, <1>3, <1>4, Bounds DEF Pieces
  <2>3. store' = [store EXCEPT ![call.block] = [store[call.block] EXCEPT ![done + 1] = call.val]]
    BY <1>4, <2>1
  <2>4. store'[call.block] = [store[call.block] EXCEPT ![done + 1] = call.val]
    BY <1>2, <1>3, <2>3
  <2>5. store[call.block] \in [Pieces -> 0..MaxCalls]
    BY <1>2, <1>3
  <2> QED BY <1>4, <2>2, <2>4, <2>5
<1>8. CASE /\ job.got + 1 < Chunks /\ owed' = owed
           /\ job' = [job EXCEPT !.got = job.got + 1]
           /\ store' = written
  <2>1. /\ job'.tag = tag' /\ job'.block = call'.block /\ job'.val = call'.val
        /\ job'.got = done'
    <3>1. job \in [tag : 1..MaxTag, block : Blocks, val : 1..MaxCalls, got : 0..Chunks - 1]
      BY <1>2, <1>3, JobIs
    <3> QED BY <1>1, <1>4, <1>8, <3>1
  <2>2. \A i \in 1..done' : store'[call'.block][i] = call'.val
    BY <1>1, <1>7, <1>8
  <2>3. Pending'
    BY <1>1, <1>6, <2>1, <2>2 DEF Pending
  <2>4. \A k \in 1..Len(owed') : Own(k)' => \E j \in 1..k - 1 : Stale(j)'
    BY <1>1, <1>5, <1>8 DEF Own, Stale
  <2>5. InOrder'
    BY <2>4 DEF InOrder
  <2> QED BY <2>3, <2>5 DEF OrderInv
<1>9. CASE job.got + 1 = Chunks /\ job' = NoJob
  <2>1. PICK s \in {0, 1} : AddsStatus(job.tag, s) /\ (s = 0 => store' = written)
    BY <1>2, <1>3, <1>9, Bounds
  <2>2. /\ Len(owed') = Len(owed) + 1
        /\ \A i \in 1..Len(owed) : owed'[i] = owed[i]
        /\ owed'[Len(owed) + 1].status = s
    BY <2>1 DEF AddsStatus, CSW
  <2>3. pc' = "csw"
    <3>1. done + 1 = Messages
      BY <1>4, <1>6, <1>9
    <3> QED BY <1>6, <3>1, Bounds DEF Stage
  <2>4. s = 0 => WrittenAll'
    BY <1>1, <1>4, <1>7, <1>9, <2>1 DEF WrittenAll, Pieces
  <2>5. ASSUME NEW k \in 1..Len(owed'), Own(k)', \A j \in 1..k - 1 : ~Stale(j)'
        PROVE  k = Len(owed') /\ owed'[k].status = s
    <3>1. k \in 1..Len(owed) \/ k = Len(owed) + 1
      <4>1. Len(owed) \in Nat
        BY <1>2, <1>3
      <4> QED BY <2>2, <4>1
    <3>2. CASE k \in 1..Len(owed)
      <4>1. \A j \in 1..k : owed'[j] = owed[j]
        BY <1>2, <1>3, <2>2, <3>2
      <4>2. Own(k)
        BY <1>1, <2>5, <3>2, <4>1 DEF Own
      <4>3. PICK j \in 1..k - 1 : Stale(j)
        BY <1>5, <3>2, <4>2
      <4>4. Stale(j)'
        BY <1>1, <3>2, <4>1, <4>3 DEF Stale
      <4> QED BY <2>5, <4>3, <4>4
    <3> QED BY <2>2, <3>1, <3>2
  <2>6. InOrder'
    BY <1>1, <1>6, <1>9, <2>3, <2>4, <2>5 DEF InOrder, Complete
  <2>7. Pending'
    BY <1>9 DEF Pending
  <2> QED BY <2>6, <2>7 DEF OrderInv
<1> QED BY <1>2, <1>3, <1>8, <1>9

(* A message of a read's data: the first of what the drive owes.           *)
Received ==
  /\ owed # <<>> /\ Head(owed).what = "data" /\ owed' = Tail(owed)
  /\ data' = Append(data, Head(owed).val) /\ done' = done + 1

LEMMA OrderReceive ==
  ASSUME TypeOK, PlaceInv, OwedInv, OrderInv, ReceiveData, Received
  PROVE  OrderInv'
<1>1. /\ pc = "data" /\ ~Outward
      /\ call' = call /\ step' = step /\ tag' = tag /\ store' = store /\ job' = job
  BY ReceiveDataDoes
<1>2. owed \in Seq(Owes) /\ data \in Seq(0..MaxCalls) /\ done \in 0..Chunks
  BY DEF TypeOK
<1>3. /\ Len(owed) \in Nat /\ Len(owed') = Len(owed) - 1 /\ Head(owed) = owed[1]
      /\ \A i \in 1..Len(owed) - 1 : owed'[i] = owed[i + 1]
      /\ Head(owed).what = "data" /\ Head(owed) \in Owes /\ done' = done + 1
  BY <1>2, TailIs DEF Received
<1>4. ~Outward'
  BY <1>1, SameMessages
<1>5. job = NoJob
  BY <1>1 DEF OrderInv, Pending
<1>6. Pending'
  BY <1>1, <1>5 DEF Pending
<1>7. ASSUME NEW k \in 1..Len(owed'), Own(k)', \A j \in 1..k - 1 : ~Stale(j)'
      PROVE  /\ k + 1 = Len(owed)
             /\ step = "rw" /\ owed[k + 1].status = 0 => Complete(k + 1)
  <2>1. k \in Nat /\ k + 1 \in 1..Len(owed) /\ owed'[k] = owed[k + 1]
    BY <1>3
  <2>2. Own(k + 1)
    BY <1>1, <1>7, <2>1 DEF Own
  <2>3. ASSUME NEW j \in 1..(k + 1) - 1
        PROVE  ~Stale(j)
    <3>1. CASE j = 1
      BY <1>3, <3>1 DEF Stale
    <3>2. CASE j # 1
      <4>1. j - 1 \in 1..k - 1 /\ j - 1 \in 1..Len(owed) - 1 /\ (j - 1) + 1 = j
        BY <1>3, <2>1, <2>3, <3>2
      <4>2. \A i \in 1..k - 1 : ~(owed'[i].what = "csw" /\ owed'[i].tag < tag)
        BY <1>1, <1>7 DEF Stale
      <4>3. owed'[j - 1] = owed[j]
        BY <1>3, <4>1
      <4> QED BY <4>1, <4>2, <4>3 DEF Stale
    <3> QED BY <3>1, <3>2
  <2> QED BY <1>1, <2>1, <2>2, <2>3 DEF OrderInv, InOrder
<1>8. ASSUME NEW k \in 1..Len(owed'), Complete(k + 1)
      PROVE  Complete(k)'
  <2>1. /\ Len(data) = done /\ (\A i \in 1..done : data[i] = store[call.block][i])
        /\ k + 1 = Chunks - done + 1
        /\ \A i \in 1..(k + 1) - 1 : owed[i] = Data(store[call.block][done + i])
    BY <1>1, <1>8 DEF Complete, ReadSoFar
  <2>2. k \in Nat /\ k >= 1 /\ k < Len(owed) /\ done \in Nat /\ Chunks \in Nat
    BY <1>2, <1>3, Bounds
  <2>3. k = Chunks - done' + 1
    BY <1>3, <2>1, <2>2
  <2>4. \A i \in 1..k - 1 : owed'[i] = Data(store[call.block][done' + i])
    <3>1. SUFFICES ASSUME NEW i \in 1..k - 1
                   PROVE  owed'[i] = Data(store[call.block][done' + i])
      OBVIOUS
    <3>2. i \in 1..Len(owed) - 1 /\ i + 1 \in 1..(k + 1) - 1 /\ done + (i + 1) = done' + i
      BY <1>3, <2>2
    <3>3. owed[i + 1] = Data(store[call.block][done + (i + 1)])
      BY <2>1, <3>2
    <3> QED BY <1>3, <3>2, <3>3
  <2>5. owed[1].val = store[call.block][done + 1]
    <3>1. 1 \in 1..(k + 1) - 1
      BY <2>2
    <3>2. owed[1] = Data(store[call.block][done + 1])
      BY <2>1, <3>1
    <3> QED BY <3>2 DEF Data
  <2>6. Head(owed).val \in 0..MaxCalls
    BY <1>3, OwesIs
  <2>7. /\ Len(data') = done'
        /\ \A i \in 1..done : data'[i] = data[i]
        /\ data'[done + 1] = owed[1].val
    <3>1. data' = Append(data, Head(owed).val)
      BY DEF Received
    <3> QED BY <1>2, <1>3, <2>1, <2>6, <3>1, AppendIs
  <2>8. \A i \in 1..done' : data'[i] = store[call.block][i]
    <3>1. \A i \in 1..done' : i \in 1..done \/ i = done + 1
      BY <1>3, <2>2
    <3> QED BY <2>1, <2>5, <2>7, <3>1
  <2>9. ReadSoFar'
    BY <1>1, <2>7, <2>8 DEF ReadSoFar
  <2> QED BY <1>1, <1>4, <2>3, <2>4, <2>9 DEF Complete, Data
<1>9. InOrder'
  <2>1. SUFFICES ASSUME NEW k \in 1..Len(owed'), Own(k)', \A j \in 1..k - 1 : ~Stale(j)'
                 PROVE  /\ k = Len(owed') /\ job' = NoJob
                        /\ step' = "rw" /\ owed'[k].status = 0 => Complete(k)'
    BY DEF InOrder
  <2>2. k + 1 = Len(owed) /\ (step = "rw" /\ owed[k + 1].status = 0 => Complete(k + 1))
    BY <1>7, <2>1
  <2>3. owed'[k] = owed[k + 1] /\ k = Len(owed')
    <3>1. k \in 1..Len(owed) - 1 /\ k = Len(owed) - 1
      <4>1. Len(owed) \in Nat /\ Len(owed') = Len(owed) - 1 /\ k \in 1..Len(owed')
        BY <1>3, <2>1
      <4>2. k + 1 = Len(owed)
        BY <2>2, Zenon
      <4> QED BY <4>1, <4>2
    <3> QED BY <1>3, <3>1
  <2> QED BY <1>1, <1>5, <1>8, <2>2, <2>3
<1> QED BY <1>6, <1>9 DEF OrderInv

LEMMA OrderStep ==
  ASSUME TypeOK, PlaceInv, OwedInv, OrderInv, [Next]_vars
  PROVE  OrderInv'
<1>1. CASE pc' \notin {"data", "csw"}
  BY <1>1 DEF OrderInv, Pending, InOrder
<1>2. CASE pc' \in {"data", "csw"}
  <2>1. CASE LateReset
    <3>1. job' = NoJob /\ owed' = <<>>
      BY <2>1 DEF LateReset, IsReset
    <3> QED BY <3>1 DEF OrderInv, Pending, InOrder
  <2>2. CASE UNCHANGED vars
    BY <2>2 DEF vars, driver, drive, OrderInv, Pending, InOrder, Own, Stale, Complete,
                ReadSoFar, WrittenAll, Outward, Data
  <2> QED BY <1>2, <2>1, <2>2, UnderWay, OrderSend, OrderSendData, OrderReceive DEF Received
<1> QED BY <1>1, <1>2

-----------------------------------------------------------------------------
(* What a command that succeeds leaves, and what its call does.            *)

(* The status of the current command is taken when it is all that is left. *)
LEMMA Succeeds ==
  ASSUME TypeOK, OrderInv, ReadCSW, pc' = "ended", code' = "ok"
  PROVE  Success'
<1>1. /\ pc = "csw"
      /\ call' = call /\ step' = step /\ done' = done /\ data' = data /\ store' = store
      /\ job' = job
      /\ owed # <<>> /\ Matches(Head(owed))
      /\ status' = Head(owed).status /\ owed' = Tail(owed)
  BY ReadCSWDoes DEF Fails
<1>2. owed \in Seq(Owes) /\ data \in Seq(0..MaxCalls) /\ done \in 0..Chunks
  BY DEF TypeOK
<1>3. /\ Len(owed) \in Nat /\ Len(owed) > 0 /\ Len(owed') = Len(owed) - 1
      /\ Head(owed) = owed[1] /\ owed' \in Seq(Owes)
  BY <1>1, <1>2, TailIs
<1>4. Own(1)
  BY <1>1, <1>3 DEF Matches, Own
<1>5. /\ 1 = Len(owed) /\ job = NoJob
      /\ step = "rw" /\ owed[1].status = 0 => Complete(1)
  <2>1. 1 \in 1..Len(owed) /\ \A j \in 1..1 - 1 : ~Stale(j)
    BY <1>3
  <2> QED BY <1>1, <1>4, <2>1 DEF OrderInv, InOrder
<1>6. owed' = <<>>
  <2>1. 1 = Len(owed)
    BY <1>5
  <2>2. owed' \in Seq(Owes) /\ Len(owed') = Len(owed) - 1
    BY <1>3
  <2> QED BY <2>1, <2>2
<1>7. ASSUME step = "rw", status' = 0
      PROVE  IF Outward THEN WrittenAll ELSE data = store[call.block]
  <2>1. Complete(1)
    BY <1>1, <1>3, <1>5, <1>7
  <2>2. CASE Outward
    BY <2>1, <2>2 DEF Complete
  <2>3. CASE ~Outward
    <3>1. Len(data) = Chunks /\ \A i \in 1..Chunks : data[i] = store[call.block][i]
      BY <1>2, <2>1, <2>3, Bounds DEF Complete, ReadSoFar
    <3>2. store[call.block] \in [1..Chunks -> 0..MaxCalls]
      BY DEF TypeOK, Calls, Pieces
    <3> QED BY <1>2, <2>3, <3>1, <3>2, SameSeq, Bounds
  <2> QED BY <2>2, <2>3
<1> QED BY <1>1, <1>5, <1>6, <1>7 DEF Success, WrittenAll, Outward

EndInv == Success /\ SettledAfterSuccess

LEMMA EndStep ==
  ASSUME TypeOK, PlaceInv, OrderInv, EndInv, [Next]_vars
  PROVE  EndInv'
<1>1. CASE pc' \in {"attempt", "data", "csw", "reset", "remount"}
  BY <1>1 DEF EndInv, Success, SettledAfterSuccess
<1>2. CASE LateReset
  <2>1. job' = NoJob /\ owed' = <<>> /\ store' = store /\ UNCHANGED <<pc, code, driver>>
    BY <1>2 DEF LateReset, IsReset
  <2> QED BY <2>1 DEF EndInv, Success, SettledAfterSuccess, driver, Outward, WrittenAll
<1>3. CASE UNCHANGED vars
  BY <1>3 DEF vars, driver, drive, EndInv, Success, SettledAfterSuccess, Outward, WrittenAll
<1>4. CASE Returns
  BY <1>4 DEF Returns, Return, EndsWith, drive, EndInv, Success, SettledAfterSuccess
<1>5. CASE Reset
  <2>1. code # "ok"
    BY <1>5 DEF Reset, PlaceInv
  <2>2. pc' \in {"attempt", "ended"} /\ code' # "ok"
    BY <1>5, <2>1, ResetDoes
  <2> QED BY <2>2 DEF EndInv, Success, SettledAfterSuccess
<1>6. CASE Fails
  BY <1>6 DEF Fails, EndInv, Success, SettledAfterSuccess
<1>7. CASE ReadCSW /\ ~Fails
  <2>1. pc' = "ended" /\ code' = "ok"
    BY <1>7, ReadCSWDoes
  <2> QED BY <1>7, <2>1, Succeeds DEF EndInv, SettledAfterSuccess
<1>8. CASE Calling \/ Commands \/ Remount
  BY <1>1, <1>8, CallingBegins, CommandsBegin, RemountBegins DEF Begins
<1>9. CASE ResetFirst
  BY <1>1, <1>9 DEF ResetFirst, AgainFromReset
<1>10. CASE (SendCBW \/ SendData \/ ReceiveData) /\ ~Fails
  <2>1. pc' \in {"data", "csw"}
    BY <1>10, SendCBWDoes, SendDataDoes, ReceiveDataDoes, StageIs
  <2> QED BY <1>1, <2>1
<1> QED BY <1>2, <1>3, <1>4, <1>5, <1>6, <1>7, <1>8, <1>9, <1>10, NextCases

LEMMA InitInv == Init => IInv
<1> SUFFICES ASSUME Init PROVE IInv
  OBVIOUS
<1>1. HostType
  BY Bounds DEF Init, HostType, Calls, Codes, Steps
<1>2. DriveType
  <2>1. [b \in Blocks |-> [i \in Pieces |-> 0]] \in [Blocks -> [Pieces -> 0..MaxCalls]]
    BY Bounds
  <2>2. <<>> \in Seq(Owes)
    OBVIOUS
  <2> QED BY <2>1, <2>2 DEF Init, DriveType
<1>3. TypeOK
  BY <1>1, <1>2, TypeParts
<1> QED
  BY <1>3 DEF Init, IInv, PlaceInv, OwedInv, Pending, InOrder, Success, SettledAfterSuccess

LEMMA NextInv == IInv /\ [Next]_vars => IInv'
<1> SUFFICES ASSUME IInv, [Next]_vars PROVE IInv'
  OBVIOUS
<1>1. TypeOK /\ PlaceInv /\ OwedInv /\ OrderInv /\ EndInv
  BY DEF IInv, OrderInv, EndInv
<1>2. HostInv'
  BY <1>1, HostStep
<1>3. DriveType' /\ OwedInv'
  BY <1>1, DriveStep
<1>4. OrderInv'
  BY <1>1, OrderStep
<1>5. EndInv'
  BY <1>1, EndStep
<1>6. TypeOK'
  BY <1>2, <1>3 DEF TypeOK, HostInv, HostType, DriveType, Steps
<1> QED BY <1>2, <1>3, <1>4, <1>5, <1>6 DEF IInv, HostInv, OrderInv, EndInv

LEMMA Invariant == Spec => []IInv
BY InitInv, NextInv, PTL DEF Spec

(* The variables have the types of the code's, whatever the drive does and *)
(* however often.                                                          *)
THEOREM UsbStorageTypes == Spec => []TypeOK
<1>1. IInv => TypeOK
  BY DEF IInv
<1> QED BY <1>1, Invariant, PTL

(* A call that succeeds leaves nothing behind that a later command could   *)
(* take for its own.                                                       *)
THEOREM UsbStorageSettles == Spec => []SettledAfterSuccess
<1>1. IInv => SettledAfterSuccess
  BY DEF IInv
<1> QED BY <1>1, Invariant, PTL

-----------------------------------------------------------------------------
(* The calls implement BlockDevice, step by step.                          *)

DeviceWay == IF ret.code # "ok" THEN "failed" ELSE IF ret.status # 0 THEN "unnoticed" ELSE "done"
DeviceData == IF pc = "idle" THEN data ELSE <<>>

LEMMA DeviceVars ==
  ASSUME UNCHANGED <<store, call, ret>>, (pc' = "idle") <=> (pc = "idle"), DeviceData' = DeviceData
  PROVE  UNCHANGED Device!vars
BY DEF Device!vars, DeviceData

LEMMA DeviceInit == Init => Device!Init
BY DEF Init, Device!Init, Device!Pieces, Pieces

LEMMA DeviceRequests ==
  ASSUME TypeOK, Calling
  PROVE  Device!Next
<1>1. Begins("idle") /\ UNCHANGED drive /\ call.val < MaxCalls
  BY CallingBegins
<1>2. PICK op \in {"read", "write"}, b \in Blocks :
        call' = [op |-> op, block |-> b, val |-> call.val + 1]
  BY CallingBegins
<1>3. pc = "idle" /\ pc' = "attempt" /\ store' = store /\ ret' = ret
  BY <1>1 DEF Begins, drive
<1>4. Device!Request(op, b)
  BY <1>1, <1>2, <1>3 DEF Device!Request
<1> QED BY <1>4 DEF Device!Next

LEMMA DeviceWrites ==
  ASSUME TypeOK, OwedInv, Pending, SendData, TakesData
  PROVE  Device!Next \/ UNCHANGED Device!vars
<1>1. /\ pc = "data" /\ Outward /\ pc' # "idle" /\ UNCHANGED <<call, ret, data>>
  BY SendDataDoes, StageIs DEF Fails
<1> DEFINE written == [store EXCEPT ![job.block][job.got + 1] = call.val]
<1>2. job # NoJob /\ job.got + 1 \in Pieces /\ store' \in {store, written}
  BY DataTaken
<1>3. job.block = call.block
  BY <1>1, <1>2 DEF Pending
<1>4. CASE store' = store
  BY <1>1, <1>4, DeviceVars DEF DeviceData
<1>5. CASE store' = written
  <2>1. Device!WritePiece(job.got + 1)
    BY <1>1, <1>3, <1>5 DEF Device!WritePiece, Outward
  <2> QED BY <1>2, <2>1 DEF Device!Next, Device!Pieces, Pieces
<1> QED BY <1>2, <1>4, <1>5

LEMMA DeviceResponds ==
  ASSUME TypeOK, Success, Returns
  PROVE  Device!Next
<1>1. /\ pc = "ended" /\ step = "rw" /\ pc' = "idle" /\ ret' = [code |-> code, status |-> status]
      /\ UNCHANGED <<call, data, store>>
  BY DEF Returns, Return, EndsWith, drive
<1> DEFINE way == DeviceWay'
<1>2. way \in Device!Ways /\ (way = "done" => code = "ok" /\ status = 0)
  BY <1>1 DEF DeviceWay, Device!Ways
<1>3. /\ data \in Seq(0..MaxCalls) /\ Len(data) \in 0..Chunks
      /\ data \in [1..Len(data) -> 0..MaxCalls]
  BY Bounds DEF TypeOK
<1>4. way = "done" => IF call.op = "read" THEN data = store[call.block] ELSE WrittenAll
  BY <1>1, <1>2 DEF Success, Outward, TypeOK, Calls
<1>5. Device!Response(way, data)
  BY <1>1, <1>4 DEF Device!Response, Device!Written, Device!Pieces, WrittenAll, Pieces, DeviceWay
<1> QED BY <1>2, <1>3, <1>5 DEF Device!Next

LEMMA DeviceStep ==
  ASSUME IInv, [Next]_vars
  PROVE  Device!Next \/ UNCHANGED Device!vars
<1>1. TypeOK /\ PlaceInv /\ OwedInv /\ Pending /\ Success
  BY DEF IInv
<1>2. ASSUME pc # "idle", pc' # "idle", UNCHANGED <<store, call, ret>>
      PROVE  UNCHANGED Device!vars
  BY <1>2, DeviceVars DEF DeviceData
<1>3. CASE Calling
  BY <1>1, <1>3, DeviceRequests
<1>4. CASE Commands
  BY <1>1, <1>2, <1>4, CommandsBegin DEF Begins, drive
<1>5. CASE ResetFirst
  BY <1>2, <1>5 DEF ResetFirst, AgainFromReset, ErrorsNotCleared, EndsWith, driver, drive
<1>6. CASE Returns
  BY <1>1, <1>6, DeviceResponds
<1>7. CASE SendCBW
  <2>1. /\ pc = "attempt" /\ pc' # "idle" /\ UNCHANGED <<call, ret>>
        /\ TakesCommand(tag + 1) \/ RefusesCommand \/ UNCHANGED drive
    BY <1>7, SendCBWDoes, StageIs DEF Fails
  <2>2. store' = store
    BY <2>1 DEF TakesCommand, RefusesCommand, drive
  <2> QED BY <1>2, <2>1, <2>2
<1>8. CASE SendData
  <2>1. /\ pc = "data" /\ pc' # "idle" /\ UNCHANGED <<call, ret>>
        /\ TakesData \/ UNCHANGED drive
    BY <1>8, SendDataDoes, StageIs DEF Fails
  <2>2. CASE TakesData
    BY <1>1, <1>8, <2>2, DeviceWrites
  <2>3. CASE UNCHANGED drive
    BY <1>2, <2>1, <2>3 DEF drive
  <2> QED BY <2>1, <2>2, <2>3
<1>9. CASE ReceiveData
  <2>1. pc = "data" /\ pc' # "idle" /\ UNCHANGED <<call, ret, store>>
    BY <1>9, ReceiveDataDoes, StageIs DEF Fails
  <2> QED BY <1>2, <2>1
<1>10. CASE ReadCSW
  <2>1. pc = "csw" /\ pc' # "idle" /\ UNCHANGED <<call, ret, store>>
    BY <1>10, ReadCSWDoes DEF Fails
  <2> QED BY <1>2, <2>1
<1>11. CASE Reset
  <2>1. code # "ok"
    BY <1>1, <1>11 DEF Reset, PlaceInv
  <2>2. /\ pc = "reset" /\ pc' # "idle" /\ UNCHANGED driver
        /\ IsReset \/ UNCHANGED <<store, job, owed>>
    BY <1>1, <1>11, <2>1, ResetDoes
  <2> QED BY <1>2, <2>2 DEF driver, IsReset
<1>12. CASE Remount
  <2>1. /\ Begins("remount") /\ call' = call
        /\ IsReset \/ UNCHANGED <<store, job, owed>>
    BY <1>1, <1>12, RemountBegins
  <2> QED BY <1>2, <2>1 DEF Begins, IsReset
<1>13. CASE LateReset
  BY <1>13, DeviceVars DEF LateReset, IsReset, driver, DeviceData
<1>14. CASE UNCHANGED vars
  BY <1>14, DeviceVars DEF vars, driver, drive, DeviceData
<1> QED
  BY <1>3, <1>4, <1>5, <1>6, <1>7, <1>8, <1>9, <1>10, <1>11, <1>12, <1>13, <1>14, NextCases

(* Whatever is lost, refused, late or left over from an earlier command: a *)
(* read that succeeds brings its block's data, a write that succeeds has   *)
(* stored all of its own, and no call changes another call's block.        *)
THEOREM UsbStorageImplements == Spec => ImplementsBlockDevice
<1>1. IInv /\ [Next]_vars => [Device!Next]_(Device!vars)
  BY DeviceStep
<1> QED BY <1>1, DeviceInit, Invariant, PTL DEF Spec, ImplementsBlockDevice, Device!Spec

=============================================================================
