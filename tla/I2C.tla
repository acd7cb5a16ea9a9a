-------------------------------- MODULE I2C ---------------------------------
(***************************************************************************)
(* The bit-banged I2C master (main/source/i2c.c): the two lines it drives, *)
(* the bytes and conditions it makes of them, the calls that read and      *)
(* write a board's registers, and the recursive mutex that keeps the       *)
(* threads' calls apart.  A thread sleeps between any two changes of a     *)
(* line, so others run in between although interrupts are off.             *)
(*                                                                         *)
(* Code is what each function does, step by step, and Follows which of     *)
(* them a call makes next.  A board on the bus is external: it takes a bit *)
(* when SCL rises, moves SDA when SCL falls, answers to its own address,   *)
(* may refuse any byte, and may hold SCL low for a while.                  *)
(***************************************************************************)
EXTENDS Naturals, Sequences

CONSTANTS
  Main,       \* the thread that runs main()
  Threads,    \* and the others that make calls, such as an update's
  Nobody,     \* no thread
  Bits,       \* of a byte, 8 in the code
  Size,       \* of the board: its registers are numbered from 0 on
  Name,       \* the byte that stands for each of them
  Own,        \* the board's address, shifted left by one
  Boot,       \* the calls main() makes before any other thread
  Transfers,  \* calls that may be made afterwards
  Contents,   \* of the board's registers in the beginning
  MaxCalls    \* bound: calls after those of Boot

(* A byte is its bits, the highest first.                                  *)
Bytes == [1..Bits -> BOOLEAN]
Zero == [k \in 1..Bits |-> FALSE]
Addresses == {b \in Bytes : ~b[Bits]}
Numbers == 0..Size - 1
Call == [kind : {"init", "probe", "transfer"}, addr : Addresses, reg : Numbers,
         out : Seq(Bytes), in : Nat]

ASSUME I2CAssumption ==
  /\ Main \in Threads /\ Nobody \notin Threads
  /\ {Bits, Size} \subseteq Nat \ {0} /\ MaxCalls \in Nat
  /\ Name \in [Numbers -> Bytes] /\ \A r, q \in Numbers : Name[r] = Name[q] => r = q
  /\ Own \in Addresses /\ Contents \in [Numbers -> Bytes]
  /\ Boot \in Seq(Call) /\ Boot # <<>> /\ Head(Boot).kind = "init"
  /\ \A i \in DOMAIN Boot : Boot[i].kind # "transfer" /\ Boot[i].in = 0
  /\ Transfers \subseteq Call /\ \A c \in Transfers : c.kind = "transfer"

VARIABLES
  scl, sda,   \* whether the master leaves the lines high
  mutex,      \* _i2cMutex: who holds it, and how often
  openDrain,  \* _i2cMode
  at,         \* where each thread is: function, step, byte and bit
  call,       \* the call of each thread
  error,      \* *error
  got,        \* bytes read
  boot,       \* calls of Boot still to be made
  calls,      \* calls made since
  board,      \* external: the board
  hold,       \* external: the board holds SCL low
  before,     \* history: the board's registers when the mutex was taken
  last        \* history: the transfer that ended last

course == <<openDrain, call, boot, calls>>
host == <<mutex, course, at, error, got>>
busVars == <<scl, sda, host, board, hold, before, last>>

-----------------------------------------------------------------------------
(* What the master promises: see ImplementsRegisters.                      *)
Registers == INSTANCE Registers WITH
  Values <- Bytes,
  Calls <- Transfers,
  regs <- IF mutex.depth > 0 THEN before ELSE board.regs

-----------------------------------------------------------------------------
(* What the functions do.  sendByte() is "send", a "shift" for each bit    *)
(* and "answer", and if the answer is no "refused", where it stops by      *)
(* itself; getByte() is "get", a "sample" for each bit and "got".          *)
Code ==
  [idle    |-> <<"begin">>,
   call    |-> <<"lock">>,
   start   |-> <<"lock", "sda0", "scl0", "unlock">>,
   restart |-> <<"lock", "sda1", "scl1", "wait", "sda0", "scl0", "unlock">>,
   send    |-> <<"lock">>,
   shift   |-> <<"sdaBit", "scl1", "wait", "scl0">>,
   answer  |-> <<"sda1", "scl1", "wait", "ack", "scl0", "unlock">>,
   refused |-> <<"scl0", "lock", "sda0", "scl1", "wait", "sda1", "unlock", "unlock">>,
   get     |-> <<"lock", "sda1">>,
   sample  |-> <<"scl1", "wait", "bit", "scl0">>,
   got     |-> <<"unlock">>,
   reply   |-> <<"lock", "sdaReply", "scl1", "wait", "scl0", "unlock">>,
   stop    |-> <<"lock", "sda0", "scl1", "wait", "sda1", "unlock">>,
   return  |-> <<"unlock">>]

Enters(fn, n) == [fn |-> fn, line |-> 1, n |-> n, bit |-> 1]

(* i2c_init() is a stop; isConnected() of the boards looks for an address; *)
(* the other calls hold the mutex.                                         *)
First(c) ==
  Enters(CASE c.kind = "init" -> "stop" [] c.kind = "probe" -> "start"
           [] c.kind = "transfer" -> "call", 0)

(* The bytes that a call sends: up to Last(c), and one to start reading.   *)
Last(c) == IF c.kind = "transfer" THEN Len(c.out) + 2 ELSE 1
Sent(c, n) == IF n > Last(c) THEN [c.addr EXCEPT ![Bits] = TRUE]
              ELSE (<<c.addr, Name[c.reg]>> \o c.out)[n]

(* i2c_write8(), i2c_write16() and i2c_writeBuffer() send bytes,           *)
(* i2c_read8(), i2c_read16() and i2c_readBuffer() get some, and            *)
(* i2c_writeReadBuffer() does both.                                        *)
Follows(c, p) ==
  CASE p.fn = "call" -> Enters("start", 0)
    [] p.fn = "start" -> Enters("send", 1)
    [] p.fn = "restart" -> Enters("send", Last(c) + 1)
    [] p.fn = "send" -> Enters("shift", p.n)
    [] p.fn \in {"shift", "sample"} /\ p.bit < Bits -> [p EXCEPT !.line = 1, !.bit = @ + 1]
    [] p.fn = "shift" /\ p.bit = Bits -> Enters("answer", p.n)
    [] p.fn = "answer" /\ p.n < Last(c) -> Enters("send", p.n + 1)
    [] p.fn = "answer" /\ p.n = Last(c) -> Enters(IF c.in > 0 THEN "restart" ELSE "stop", 0)
    [] p.fn = "answer" /\ p.n > Last(c) -> Enters("get", 1)
    [] p.fn = "get" -> Enters("sample", p.n)
    [] p.fn = "sample" /\ p.bit = Bits -> Enters("got", p.n)
    [] p.fn = "got" -> Enters("reply", p.n)
    [] p.fn = "reply" -> IF p.n < c.in THEN Enters("get", p.n + 1) ELSE Enters("stop", 0)
    [] p.fn = "refused" -> Enters("stop", 0)
    [] p.fn = "stop" -> Enters(IF c.kind = "transfer" THEN "return" ELSE "idle", 0)
    [] p.fn = "return" -> Enters("idle", 0)

Op(p) == Code[p.fn][p.line]
After(c, p) == IF p.line < Len(Code[p.fn]) THEN [p EXCEPT !.line = @ + 1] ELSE Follows(c, p)

Is(t, op) == Op(at[t]) = op
Moves(t) == at' = [at EXCEPT ![t] = After(call[t], @)]

-----------------------------------------------------------------------------
(* The board.                                                              *)

SCL == scl /\ ~hold
SDA == sda /\ ~board.low

BusInit ==
  /\ scl = FALSE /\ sda = TRUE           \* as VIDEO_Init() leaves them
  /\ mutex = [owner |-> Nobody, depth |-> 0] /\ openDrain = FALSE
  /\ at = [t \in Threads |-> IF t = Main THEN First(Head(Boot)) ELSE Enters("idle", 0)]
  /\ call = [t \in Threads |-> Head(Boot)]
  /\ error = [t \in Threads |-> FALSE] /\ got = [t \in Threads |-> <<>>]
  /\ boot = Tail(Boot) /\ calls = 0
  /\ board = [mode |-> "idle", n |-> 0, shift |-> Zero, more |-> FALSE, low |-> FALSE,
              ptr |-> 0, regs |-> Contents]
  /\ hold = FALSE /\ before = Contents /\ last = <<>>

Receiving == {"address", "register", "data"}

(* SCL rises: the board takes a bit, or sees whether the master wants more.*)
Rise ==
  board' = [board EXCEPT
    !.n = IF board.mode \in Receiving \cup {"sends"} THEN @ + 1 ELSE @,
    !.shift = IF board.mode \in Receiving /\ board.n < Bits
              THEN [@ EXCEPT ![board.n + 1] = SDA] ELSE @,
    !.more = IF board.mode = "sends" /\ board.n = Bits THEN ~sda ELSE @]

(* The board shows the n-th bit of a register, or takes a next byte.       *)
Shows(p, n) == [board EXCEPT !.mode = "sends", !.ptr = p, !.n = n,
                             !.low = ~board.regs[p][n + 1]]
Expects(m) == [board EXCEPT !.mode = m, !.n = 0, !.shift = Zero, !.low = FALSE]
Rests == [board EXCEPT !.mode = "waits", !.n = 0, !.low = FALSE]

NextReg == (board.ptr + 1) % Size
Named(b) == CHOOSE r \in Numbers : Name[r] = b

Accepts ==
  CASE board.mode = "address" -> [board EXCEPT !.low = TRUE]
    [] board.mode = "register" -> [board EXCEPT !.low = TRUE, !.ptr = Named(board.shift)]
    [] board.mode = "data" -> [board EXCEPT !.low = TRUE, !.regs[board.ptr] = board.shift,
                                            !.ptr = NextReg]

AfterByte ==
  CASE board.mode = "address" -> IF board.shift[Bits] THEN Shows(board.ptr, 0)
                                 ELSE Expects("register")
    [] board.mode \in {"register", "data"} -> Expects("data")

(* SCL falls: the board answers a byte, or shows a bit.                    *)
Fall ==
  CASE board.mode \in Receiving /\ board.n = Bits ->
         \/ board' = Rests
         \/ /\ board.mode = "address" => [board.shift EXCEPT ![Bits] = FALSE] = Own
            /\ board' = Accepts
    [] board.mode \in Receiving /\ board.n = Bits + 1 -> board' = AfterByte
    [] board.mode = "sends" /\ board.n < Bits -> board' = Shows(board.ptr, board.n)
    [] board.mode = "sends" /\ board.n = Bits -> board' = [board EXCEPT !.low = FALSE]
    [] board.mode = "sends" /\ board.n = Bits + 1 ->
         board' = IF board.more THEN Shows(NextReg, 0) ELSE Rests
    [] OTHER -> board' = board

(* SDA moves while SCL is high.                                            *)
StartSeen == board' = Expects("address")
StopSeen == board' = Expects("idle")

(* The board lets SCL go.                                                  *)
LetGo ==
  /\ hold /\ hold' = FALSE
  /\ IF scl THEN Rise ELSE board' = board
  /\ UNCHANGED <<scl, sda, host, before, last>>

-----------------------------------------------------------------------------
(* A step of a thread.                                                     *)

(* Mutant: the mutex is not recursive.                                     *)
LocksOnce(t) == mutex.owner = Nobody

MayLock(t) == mutex.owner \in {t, Nobody}

Lock(t) ==
  /\ Is(t, "lock") /\ MayLock(t)
  /\ mutex' = [owner |-> t, depth |-> mutex.depth + 1]
  /\ before' = IF mutex.depth = 0 THEN board.regs ELSE before
  /\ Moves(t)
  /\ UNCHANGED <<scl, sda, course, error, got, board, hold, last>>

Unlock(t) ==
  /\ Is(t, "unlock")
  /\ mutex' = [owner |-> IF mutex.depth = 1 THEN Nobody ELSE t, depth |-> mutex.depth - 1]
  /\ last' = IF mutex.depth = 1 /\ call[t].kind = "transfer"
             THEN IF error[t] THEN <<call[t], "error">> ELSE <<call[t], "ok", got[t]>>
             ELSE last
  /\ Moves(t)
  /\ UNCHANGED <<scl, sda, course, error, got, board, hold, before>>

ClearSCL(t) ==
  /\ Is(t, "scl0") /\ scl' = FALSE
  /\ IF SCL THEN Fall ELSE board' = board
  /\ IF SCL /\ openDrain /\ board.mode # "idle" THEN hold' \in BOOLEAN ELSE hold' = hold
  /\ Moves(t)
  /\ UNCHANGED <<sda, mutex, course, error, got, before, last>>

SetSCL(t) ==
  /\ Is(t, "scl1") /\ scl' = TRUE
  /\ IF ~scl /\ ~hold THEN Rise ELSE board' = board
  /\ Moves(t)
  /\ UNCHANGED <<sda, mutex, course, error, got, hold, before, last>>

(* Mutant: the line is taken for high as soon as it is released.           *)
HighAtOnce == TRUE

(* i2c_setSCL(1) waits until nobody holds the line.                        *)
High == ~hold

Wait(t) ==
  /\ Is(t, "wait") /\ High
  /\ Moves(t)
  /\ UNCHANGED <<scl, sda, mutex, course, error, got, board, hold, before, last>>

(* Mutant: the last byte is acknowledged as well.                          *)
NeverNack(t) == FALSE

(* i2c_nack() answers the last byte that is read, i2c_ack() the others.    *)
Nack(t) == at[t].n = call[t].in

Level(t) ==
  CASE Is(t, "sda0") -> FALSE
    [] Is(t, "sda1") -> TRUE
    [] Is(t, "sdaBit") -> Sent(call[t], at[t].n)[at[t].bit]
    [] Is(t, "sdaReply") -> Nack(t)

SetSDA(t) ==
  /\ Op(at[t]) \in {"sda0", "sda1", "sdaBit", "sdaReply"} /\ sda' = Level(t)
  /\ IF SCL /\ ~board.low /\ sda # sda' THEN IF sda' THEN StopSeen ELSE StartSeen
     ELSE board' = board
  /\ Moves(t)
  /\ UNCHANGED <<scl, mutex, course, error, got, hold, before, last>>

TakeAck(t) ==
  /\ Is(t, "ack")
  /\ IF SDA THEN /\ at' = [at EXCEPT ![t] = Enters("refused", @.n)]
                 /\ error' = [error EXCEPT ![t] = TRUE]
     ELSE Moves(t) /\ UNCHANGED error
  /\ UNCHANGED <<scl, sda, mutex, course, got, board, hold, before, last>>

TakeBit(t) ==
  /\ Is(t, "bit")
  /\ got' = [got EXCEPT ![t][at[t].n][at[t].bit] = SDA]
  /\ Moves(t)
  /\ UNCHANGED <<scl, sda, mutex, course, error, board, hold, before, last>>

Begins(t, c) ==
  /\ Is(t, "begin")
  /\ call' = [call EXCEPT ![t] = c]
  /\ at' = [at EXCEPT ![t] = First(c)]
  /\ error' = [error EXCEPT ![t] = FALSE]
  /\ got' = [got EXCEPT ![t] = [i \in 1..c.in |-> Zero]]
  /\ UNCHANGED <<scl, sda, mutex, board, hold, before, last>>

(* main() first initialises the bus and looks for the boards; a power      *)
(* board has the resistors that open drain needs.                          *)
BootNext ==
  /\ boot # <<>>
  /\ openDrain' = (openDrain \/ (call[Main].kind = "probe" /\ call[Main].addr = Own /\ ~error[Main]))
  /\ boot' = Tail(boot)
  /\ Begins(Main, Head(boot))
  /\ UNCHANGED calls

Idle(t) == at[t].fn = "idle"

CallBegins(t, c) ==
  /\ boot = <<>> /\ (calls > 0 \/ Idle(Main))
  /\ calls < MaxCalls /\ calls' = calls + 1
  /\ Begins(t, c)
  /\ UNCHANGED <<openDrain, boot>>

GoesOn(t) ==
  \/ Lock(t) \/ Unlock(t) \/ ClearSCL(t) \/ SetSCL(t) \/ Wait(t) \/ SetSDA(t)
  \/ TakeAck(t) \/ TakeBit(t)

BusNext ==
  \/ \E t \in Threads : GoesOn(t)
  \/ BootNext
  \/ \E t \in Threads, c \in Transfers : CallBegins(t, c)
  \/ LetGo

BusSpec == BusInit /\ [][BusNext]_busVars

(* Every thread goes on, and a board does not hold the clock forever.      *)
FairBus ==
  /\ BusSpec
  /\ \A t \in Threads : WF_busVars(GoesOn(t))
  /\ WF_busVars(BootNext) /\ WF_busVars(LetGo)

-----------------------------------------------------------------------------
(* What must hold.                                                         *)

(* BusRests: once main() has looked for the boards, whenever no call holds *)
(* the mutex both lines are high and no board is in the middle of a        *)
(* message, whatever byte of the calls before was refused: the paths of an *)
(* error in i2c.c leave the bus as the next i2c_start() needs it.          *)
BusRests ==
  boot = <<>> /\ (Idle(Main) \/ calls > 0) /\ mutex.owner = Nobody
    => SCL /\ SDA /\ board.mode = "idle"

(* ImplementsRegisters: the calls of all threads happen to a board's       *)
(* registers one at a time, each with what it was to write and what was in *)
(* the registers to read, and one that reports an error has written a      *)
(* prefix; i2c_read16() and the like never mix with another thread's.      *)
ImplementsRegisters == Registers!Spec

(* CallsEnd: every call comes to an end, if no board holds the clock for   *)
(* ever; the functions of i2c.c take the mutex again that their callers    *)
(* hold.                                                                   *)
CallsEnd == \A t \in Threads : ~Idle(t) ~> Idle(t)

=============================================================================
