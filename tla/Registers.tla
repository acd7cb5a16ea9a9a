----------------------------- MODULE Registers ------------------------------
(***************************************************************************)
(* The registers of a board, as its users want to see them: a call writes  *)
(* some bytes from a register on and then reads some, at once, whoever     *)
(* else makes calls; a call that reports an error has written as many of   *)
(* its bytes as the board took.                                            *)
(***************************************************************************)
EXTENDS Naturals, Sequences

CONSTANTS
  Size,    \* number of registers, after the last of which the first follows
  Values,  \* that they can hold
  Own,     \* address of the board
  Calls    \* that are made: their address, register, bytes to write and how
           \* many to read

VARIABLES
  regs,   \* what they hold
  last    \* the last call, whether it reported an error, and what it read

vars == <<regs, last>>

Init == regs \in [0..Size - 1 -> Values] /\ last = <<>>

(* The register that holds the i-th byte from register r on.               *)
At(r, i) == (r + i - 1) % Size

(* The registers after the first n bytes of call c.                        *)
Written(c, n) ==
  [r \in DOMAIN regs |->
     LET is == {i \in 1..n : At(c.reg, i) = r}
     IN  IF is = {} THEN regs[r] ELSE c.out[CHOOSE i \in is : \A j \in is : j <= i]]

Works(c) ==
  /\ c.addr = Own
  /\ regs' = Written(c, Len(c.out))
  /\ last' = <<c, "ok", [i \in 1..c.in |-> regs'[At(c.reg + Len(c.out), i)]]>>

Fails(c) ==
  /\ \E n \in 0..Len(c.out) : (n > 0 => c.addr = Own) /\ regs' = Written(c, n)
  /\ last' = <<c, "error">>

Next == \E c \in Calls : Works(c) \/ Fails(c)

Spec == Init /\ [][Next]_vars

=============================================================================
