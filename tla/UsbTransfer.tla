---------------------------- MODULE UsbTransfer -----------------------------
(***************************************************************************)
(* One message to a USB drive with a time-out (common/source/usbstorage.c, *)
(* __USB_BlkMsgTimeout() and __USB_CtrlMsgTimeout()).  The calling thread  *)
(* posts an asynchronous message, arms the device's alarm and sleeps until *)
(* the callback of IOS or the alarm has left a result in dev->retval.      *)
(* Callback and alarm run in interrupts, between any two steps of the      *)
(* thread.  One thread at a time sends: the callers hold dev->lock.        *)
(*                                                                         *)
(* IOS is external: it answers a message when it likes, or never.          *)
(***************************************************************************)
EXTENDS Naturals

CONSTANTS
  MaxMsg,   \* bound: how many messages a behaviour sends
  Kinds     \* which of "bulk" and "control" it sends

ASSUME UsbAssumption ==
  /\ MaxMsg \in Nat
  /\ Kinds \subseteq {"bulk", "control"}

VARIABLES
  pc,        \* where the calling thread is
  cur,       \* the message it sends or last sent
  retval,    \* dev->retval, and the message that it is about
  inflight,  \* the messages that IOS has not answered
  alarm,     \* the message for which dev->alarm was set, or NoMsg
  result,    \* what the last call returned
  cancels,   \* whether USB_ClearHalt() ends what is left on the endpoint
  givenUp    \* history: a control message was left behind unanswered

vars == <<pc, cur, retval, inflight, alarm, result, cancels, givenUp>>
device == <<cancels, givenUp>>

Msg == [num : 1..MaxMsg, kind : {"bulk", "control"}]
NoMsg == [num |-> 0, kind |-> "none"]

(* A non-negative count, a negative error code, USBSTORAGE_ETIMEDOUT and   *)
(* USBSTORAGE_PROCESSING.                                                  *)
Value(what, of) == [what |-> what, of |-> of]
Values == [what : {"processing", "count", "error", "timedout"}, of : Msg \cup {NoMsg}]
Results == {v \in Values : v.what # "processing"}
Negative(v) == v.what \in {"error", "timedout"}

Init ==
  /\ pc = "idle" /\ cur = NoMsg
  /\ retval = Value("count", NoMsg) /\ result = Value("count", NoMsg)
  /\ inflight = {} /\ alarm = NoMsg
  /\ cancels \in BOOLEAN /\ givenUp = FALSE

-----------------------------------------------------------------------------
(* The calling thread.                                                     *)

Begin(k) ==
  /\ pc = "idle"
  /\ cur.num < MaxMsg
  /\ cur' = [num |-> cur.num + 1, kind |-> k]
  /\ retval' = Value("processing", cur')
  /\ pc' = "post"
  /\ UNCHANGED <<inflight, alarm, result, device>>

(* USB_Write*MsgAsync(); a negative return value is returned at once.      *)
PostFails ==
  /\ pc = "post"
  /\ result' = Value("error", cur)
  /\ pc' = "idle"
  /\ UNCHANGED <<cur, retval, inflight, alarm, device>>

Post ==
  /\ pc = "post"
  /\ inflight' = inflight \cup {cur}
  /\ pc' = "arm"
  /\ UNCHANGED <<cur, retval, alarm, result, device>>

(* Mutant: control messages get no time-out.                               *)
ArmBulkOnly ==
  /\ pc = "arm"
  /\ alarm' = IF cur.kind = "bulk" THEN cur ELSE alarm
  /\ pc' = "test"
  /\ UNCHANGED <<cur, retval, inflight, result, device>>

(* __usb_settimeout(): the answer may have come already; the alarm then    *)
(* stays set after the call.                                               *)
Arm ==
  /\ pc = "arm"
  /\ alarm' = cur
  /\ pc' = "test"
  /\ UNCHANGED <<cur, retval, inflight, result, device>>

Waits ==
  /\ pc = "test"
  /\ retval.what = "processing"
  /\ pc' = "sleep"
  /\ UNCHANGED <<cur, retval, inflight, alarm, result, device>>

(* LWP_ThreadSleep(): no wake-up sent before this step is seen.            *)
Sleep ==
  /\ pc = "sleep"
  /\ pc' = "asleep"
  /\ UNCHANGED <<cur, retval, inflight, alarm, result, device>>

(* Mutant: a failed bulk message is left on its endpoint.                  *)
GotResultKeepsEndpoint ==
  /\ pc = "test"
  /\ retval.what # "processing"
  /\ result' = retval
  /\ pc' = "idle"
  /\ givenUp' = (givenUp \/ (cur.kind = "control" /\ cur \in inflight))
  /\ UNCHANGED <<cur, retval, inflight, alarm, cancels>>

GotResult ==
  /\ pc = "test"
  /\ retval.what # "processing"
  /\ result' = retval
  /\ pc' = IF Negative(retval) /\ cur.kind = "bulk" THEN "clear" ELSE "idle"
  /\ givenUp' = (givenUp \/ (cur.kind = "control" /\ cur \in inflight))
  /\ UNCHANGED <<cur, retval, inflight, alarm, cancels>>

(* USB_ClearHalt(), synchronous.  If it cancels, IOS answers the           *)
(* endpoint's messages with an error first.                                *)
ClearHalt ==
  LET left == IF cancels THEN {m \in inflight : m.kind = "bulk"} ELSE {}
  IN /\ pc = "clear"
     /\ inflight' = inflight \ left
     /\ IF left = {} THEN UNCHANGED <<retval, alarm>>
        ELSE /\ \E m \in left : retval' = Value("error", m)
             /\ alarm' = NoMsg
     /\ pc' = "idle"
     /\ UNCHANGED <<cur, result, device>>

-----------------------------------------------------------------------------
(* The interrupts.                                                         *)

(* Mutant: nobody is woken.                                                *)
WakeNobody == pc' = pc

(* LWP_ThreadBroadcast(__usbstorage_waitq).                                *)
Wake == pc' = IF pc = "asleep" THEN "test" ELSE pc

(* __usb_blkmsg_cb().                                                      *)
Answer(m) ==
  /\ m \in inflight
  /\ \E what \in {"count", "error"} : retval' = Value(what, m)
  /\ alarm' = NoMsg
  /\ Wake
  /\ inflight' = inflight \ {m}
  /\ UNCHANGED <<cur, result, device>>

(* __usb_timeouthandler().                                                 *)
Timeout ==
  /\ alarm # NoMsg
  /\ retval' = Value("timedout", alarm)
  /\ alarm' = NoMsg
  /\ Wake
  /\ UNCHANGED <<cur, inflight, result, device>>

Caller ==
  \/ PostFails \/ Post \/ Arm \/ Waits \/ Sleep \/ GotResult \/ ClearHalt

Next ==
  \/ \E k \in Kinds : Begin(k)
  \/ Caller
  \/ \E m \in inflight : Answer(m)
  \/ Timeout

Spec == Init /\ [][Next]_vars

(* The thread runs when it can and an alarm that is set goes off; IOS need *)
(* not answer.                                                             *)
FairSpec == Spec /\ WF_vars(Caller) /\ WF_vars(Timeout)

-----------------------------------------------------------------------------
(* The variables have the types of the code's; no call returns             *)
(* USBSTORAGE_PROCESSING.                                                  *)
TypeOK ==
  /\ pc \in {"idle", "post", "arm", "test", "sleep", "asleep", "clear"}
  /\ cur \in Msg \cup {NoMsg} /\ (pc # "idle" => cur \in Msg)
  /\ retval \in Values /\ result \in Results
  /\ inflight \subseteq Msg
  /\ alarm \in Msg \cup {NoMsg}
  /\ cancels \in BOOLEAN /\ givenUp \in BOOLEAN

(* Strengthening of SleepsArmed: a thread that is about to test or to      *)
(* sleep cannot have missed both its alarm and its result.                 *)
Watched ==
  pc \in {"test", "sleep", "asleep"} => alarm # NoMsg \/ retval.what # "processing"

(* Strengthening of CountIsOwn: a call begins with nothing under way, and  *)
(* while it runs nothing but its own message is.                           *)
Alone ==
  cancels /\ ~givenUp =>
    /\ inflight \subseteq {cur}
    /\ pc \in {"idle", "post"} => inflight = {}
    /\ pc = "post" => retval.what # "count"
    /\ pc \in {"arm", "test", "sleep", "asleep"} /\ retval.what = "count" =>
         retval.of = cur /\ inflight = {}
    /\ pc = "clear" => cur.kind = "bulk" /\ Negative(result)
    /\ pc = "idle" /\ result.what = "count" => result.of = cur

(* A call that returns a count returns that of its own message: no answer  *)
(* to an earlier one is taken for it, whatever alarms went off too early   *)
(* or too late, because the next call begins with nothing under way        *)
(* (usbstorage.c 173-174).  This needs that USB_ClearHalt() ends a bulk    *)
(* message that timed out, and that no control message did: nothing ends   *)
(* those.                                                                  *)
CountIsOwn ==
  pc = "idle" /\ result.what = "count" /\ cancels /\ ~givenUp => result.of = cur

(* A thread sleeps with its alarm set, so that it cannot sleep forever,    *)
(* unless its result came between the test of dev->retval and the sleep    *)
(* (usbstorage.c 167-171): every other order of callback, alarm and thread *)
(* is harmless.                                                            *)
SleepsArmed ==
  pc = "asleep" => alarm # NoMsg \/ retval.what # "processing"

(* A thread that sleeps with its alarm set returns.                        *)
ArmedSleepEnds == (pc = "asleep" /\ alarm # NoMsg) ~> pc = "idle"

(* usbstorage.c 120-124: a bulk message with a time-out, and not "a        *)
(* function blocking forever while waiting for the USB data/IOS reply".    *)
TransferEnds == pc = "post" ~> pc = "idle"

=============================================================================
