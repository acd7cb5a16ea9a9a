----------------------------- MODULE BlockDevice ----------------------------
(***************************************************************************)
(* What the file system may rely on when it reads and writes blocks of a   *)
(* USB drive, one call at a time.  A call that succeeds has done what it   *)
(* was asked; one that fails may have written a part of its own block and  *)
(* of no other; one that "succeeds unnoticed" was refused by the drive in  *)
(* its SCSI status, which the callers never get to see, and promises no    *)
(* more than a failed one.                                                 *)
(***************************************************************************)
EXTENDS Naturals

CONSTANTS Blocks, Chunks, MaxCalls

VARIABLES
  store,  \* store[b][i]: the call that wrote chunk i of block b, 0 for none
  call,   \* the current or last call
  busy,   \* whether it is under way
  ret,    \* how it ended
  data    \* what a read returned

vars == <<store, call, busy, ret, data>>

Ways == {"done", "failed", "unnoticed"}
Pieces == 1..Chunks
Calls == [op : {"read", "write"}, block : Blocks, val : 1..MaxCalls]

Init ==
  /\ store = [b \in Blocks |-> [i \in Pieces |-> 0]]
  /\ \E b \in Blocks : call = [op |-> "read", block |-> b, val |-> 0]
  /\ busy = FALSE /\ ret = "failed" /\ data = <<>>

Request(op, b) ==
  /\ ~busy
  /\ call.val < MaxCalls
  /\ call' = [op |-> op, block |-> b, val |-> call.val + 1]
  /\ busy' = TRUE /\ data' = <<>>
  /\ UNCHANGED <<store, ret>>

WritePiece(i) ==
  /\ busy /\ call.op = "write"
  /\ store' = [store EXCEPT ![call.block][i] = call.val]
  /\ UNCHANGED <<call, busy, ret, data>>

Written == \A i \in Pieces : store[call.block][i] = call.val

Response(way, bytes) ==
  /\ busy
  /\ way = "done" =>
       IF call.op = "read" THEN bytes = store[call.block] ELSE Written
  /\ busy' = FALSE /\ ret' = way /\ data' = bytes
  /\ UNCHANGED <<store, call>>

Next ==
  \/ \E op \in {"read", "write"}, b \in Blocks : Request(op, b)
  \/ \E i \in Pieces : WritePiece(i)
  \/ \E way \in Ways, n \in 0..Chunks :
       \E bytes \in [1..n -> 0..MaxCalls] : Response(way, bytes)

Spec == Init /\ [][Next]_vars

=============================================================================
