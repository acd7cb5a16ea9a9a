------------------------------- MODULE MCI2C --------------------------------
(***************************************************************************)
(* Small instances of I2C and of PMS2, the driver of the board that is on  *)
(* the bus: each behaviour is one of the bus, with bytes of two bits, four *)
(* registers, a board at address 2 and none at address 0, or one of the    *)
(* driver, whose calls are single steps because ImplementsRegisters holds  *)
(* of the bus.                                                             *)
(***************************************************************************)
EXTENDS PMS2, I2C

VARIABLE part   \* "bus" or "driver"

(* The byte of a number.                                                   *)
Byte(n) == <<n \div 2 = 1, n % 2 = 1>>

Message(kind, addr, reg, out, in) ==
  [kind |-> kind, addr |-> Byte(addr), reg |-> reg, out |-> [i \in DOMAIN out |-> Byte(out[i])],
   in |-> in]

(* As main() does: PMS2_ADDR does not answer and PMS2L_ADDR may.           *)
OneBoard ==
  <<Message("init", 0, 0, <<>>, 0), Message("probe", 0, 0, <<>>, 0),
    Message("probe", 2, 0, <<>>, 0), Message("init", 0, 0, <<>>, 0)>>

AllKinds ==
  {Message("transfer", 2, 1, <<2>>, 0),       \* i2c_write8
   Message("transfer", 2, 3, <<1, 2>>, 0),    \* i2c_write16
   Message("transfer", 2, 3, <<>>, 1),        \* i2c_read8
   Message("transfer", 2, 0, <<>>, 2),        \* i2c_read16
   Message("transfer", 2, 0, <<3>>, 1),       \* i2c_writeReadBuffer
   Message("transfer", 0, 1, <<>>, 1)}        \* to a board that is not there

Two == Byte(2)
Binary == [r \in 0..3 |-> Byte(r)]
Mixed == [r \in 0..3 |-> Byte(3 - r)]

(* A whole file, one that was cut off, and one for the other board.        *)
SomeFiles ==
  {[right |-> TRUE, blocks |-> 2, rest |-> 0], [right |-> TRUE, blocks |-> 1, rest |-> 1],
   [right |-> FALSE, blocks |-> 2, rest |-> 0]}

OnBus(step) == part = "bus" /\ step /\ UNCHANGED <<part, vars>>
InDriver(step) == part = "driver" /\ step /\ UNCHANGED <<part, busVars>>

MCInit ==
  /\ part \in {"bus", "driver"} /\ BusInit /\ Init
  /\ part = "bus" => mode = "payload" /\ ~writeFlashError

MCNext ==
  \/ \E t \in Threads : OnBus(GoesOn(t))
  \/ OnBus(BootNext)
  \/ \E t \in Threads, c \in Transfers : OnBus(CallBegins(t, c))
  \/ OnBus(LetGo)
  \/ InDriver(StartUpdate) \/ InDriver(LooksAtFlag) \/ InDriver(Asks)
  \/ InDriver(Updater)

MCVars == <<vars, part, busVars>>
MCSpec ==
  /\ MCInit /\ [][MCNext]_MCVars
  /\ \A t \in Threads : WF_MCVars(OnBus(GoesOn(t)))
  /\ WF_MCVars(OnBus(BootNext)) /\ WF_MCVars(OnBus(LetGo))
  /\ WF_MCVars(InDriver(Updater))

(* AllEnds: every call of i2c.c comes to an end, if no board holds the     *)
(* clock for ever, and so does every update of the power board, whatever   *)
(* is refused.                                                             *)
AllEnds == (part = "bus" => CallsEnd) /\ UpdateEnds
=============================================================================
