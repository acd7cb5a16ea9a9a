------------------------- MODULE UsbTransfer_proofs -------------------------
(***************************************************************************)
(* Proofs about UsbTransfer, for any number of messages of either kind.    *)
(***************************************************************************)
EXTENDS UsbTransfer, TLAPS

Begins == \E k \in Kinds : Begin(k)
Answers == \E m \in inflight : Answer(m)

LEMMA UNextCases ==
  ASSUME Next
  PROVE  \/ Begins \/ PostFails \/ Post \/ Arm \/ Waits \/ Sleep \/ GotResult
         \/ ClearHalt \/ Answers \/ Timeout
BY DEF Next, Caller, Begins, Answers

-----------------------------------------------------------------------------
(* The values that the actions write.                                      *)

LEMMA ValueIsOfType ==
  ASSUME NEW w \in {"count", "error", "timedout"}, NEW m \in Msg \cup {NoMsg}
  PROVE  Value(w, m) \in Results /\ Value(w, m) \in Values
         /\ Value(w, m).what = w /\ Value(w, m).of = m
BY DEF Value, Values, Results

LEMMA ProcessingIsValue ==
  ASSUME NEW m \in Msg
  PROVE  Value("processing", m) \in Values /\ Value("processing", m).what = "processing"
BY DEF Value, Values

(* Every step keeps the types, the bound on the messages among them.       *)
LEMMA UTypeStep ==
  ASSUME TypeOK, [Next]_vars
  PROVE  TypeOK'
<1> USE DEF TypeOK
<1>1. CASE Begins
  <2>1. PICK k \in Kinds : Begin(k)
    BY <1>1 DEF Begins
  <2>2. cur.num \in Nat /\ cur.num + 1 \in 1..MaxMsg
    BY <2>1, UsbAssumption DEF Begin, Msg, NoMsg
  <2>3. cur' \in Msg
    BY <2>1, <2>2, UsbAssumption DEF Begin, Msg
  <2>4. retval' \in Values
    BY <2>1, <2>3, ProcessingIsValue DEF Begin
  <2> QED BY <2>1, <2>3, <2>4 DEF Begin, device
<1>2. CASE PostFails
  BY <1>2, ValueIsOfType DEF PostFails, device
<1>3. CASE Post
  <2>1. cur \in Msg
    BY <1>3 DEF Post
  <2> QED BY <1>3, <2>1 DEF Post, device
<1>4. CASE Arm
  BY <1>4 DEF Arm, device
<1>5. CASE Waits
  BY <1>5 DEF Waits, device
<1>6. CASE Sleep
  BY <1>6 DEF Sleep, device
<1>7. CASE GotResult
  <2>1. retval \in Results
    BY <1>7 DEF GotResult, Results
  <2> QED BY <1>7, <2>1 DEF GotResult
<1>8. CASE ClearHalt
  <2> DEFINE left == IF cancels THEN {m \in inflight : m.kind = "bulk"} ELSE {}
  <2>1. left \subseteq Msg /\ left \subseteq inflight
    OBVIOUS
  <2>2. retval' \in Values /\ alarm' \in Msg \cup {NoMsg}
    BY <1>8, <2>1, ValueIsOfType DEF ClearHalt, NoMsg
  <2> QED BY <1>8, <2>1, <2>2 DEF ClearHalt, device
<1>9. CASE Answers
  <2>1. PICK m \in inflight : Answer(m)
    BY <1>9 DEF Answers
  <2>2. retval' \in Values
    BY <2>1, ValueIsOfType DEF Answer
  <2> QED BY <2>1, <2>2 DEF Answer, Wake, device
<1>10. CASE Timeout
  BY <1>10, ValueIsOfType DEF Timeout, Wake, device
<1>11. CASE UNCHANGED vars
  BY <1>11 DEF vars
<1> QED
  BY <1>1, <1>2, <1>3, <1>4, <1>5, <1>6, <1>7, <1>8, <1>9, <1>10, <1>11, UNextCases

(* The variables have their types, and no call returns                     *)
(* USBSTORAGE_PROCESSING.                                                  *)
THEOREM UsbTypeCorrect == Spec => []TypeOK
<1>1. Init => TypeOK
  <2> SUFFICES ASSUME Init PROVE TypeOK
    OBVIOUS
  <2>1. Value("count", NoMsg) \in Values /\ Value("count", NoMsg) \in Results
    BY ValueIsOfType
  <2> QED BY <2>1 DEF Init, TypeOK
<1>2. TypeOK /\ [Next]_vars => TypeOK'
  BY UTypeStep
<1> QED BY <1>1, <1>2, PTL DEF Spec

-----------------------------------------------------------------------------
(* No step leaves the thread waiting without alarm and without result.     *)
LEMMA UWatchedStep ==
  ASSUME TypeOK, Watched, [Next]_vars
  PROVE  Watched'
<1> USE DEF Watched
<1>1. CASE Begins
  BY <1>1 DEF Begins, Begin
<1>2. CASE PostFails
  BY <1>2 DEF PostFails
<1>3. CASE Post
  BY <1>3 DEF Post
<1>4. CASE Arm
  <2>1. alarm' \in Msg
    BY <1>4 DEF Arm, TypeOK
  <2> QED BY <2>1, UsbAssumption DEF Msg, NoMsg
<1>5. CASE Waits
  BY <1>5 DEF Waits
<1>6. CASE Sleep
  BY <1>6 DEF Sleep
<1>7. CASE GotResult
  BY <1>7 DEF GotResult
<1>8. CASE ClearHalt
  BY <1>8 DEF ClearHalt
<1>9. CASE Answers
  <2>1. PICK m \in inflight : Answer(m)
    BY <1>9 DEF Answers
  <2>2. retval'.what # "processing"
    BY <2>1, ValueIsOfType DEF Answer, TypeOK
  <2> QED BY <2>2
<1>10. CASE Timeout
  <2>1. retval'.what # "processing"
    BY <1>10, ValueIsOfType DEF Timeout, TypeOK
  <2> QED BY <2>1
<1>11. CASE UNCHANGED vars
  BY <1>11 DEF vars
<1> QED
  BY <1>1, <1>2, <1>3, <1>4, <1>5, <1>6, <1>7, <1>8, <1>9, <1>10, <1>11, UNextCases

(* Whatever the order of the thread, the callback and the alarm, a thread  *)
(* that sleeps has its alarm set or its result, for any number of messages.*)
THEOREM UsbSleepsArmed == Spec => []SleepsArmed
<1>1. Init => Watched
  BY DEF Init, Watched
<1>2. TypeOK /\ Watched /\ [Next]_vars => Watched'
  BY UWatchedStep
<1>3. Watched => SleepsArmed
  BY DEF Watched, SleepsArmed
<1> QED BY <1>1, <1>2, <1>3, UsbTypeCorrect, PTL DEF Spec

-----------------------------------------------------------------------------
(* No step leaves a message under way that a later call could hear of.     *)
LEMMA UAloneStep ==
  ASSUME TypeOK, Alone, [Next]_vars
  PROVE  Alone'
<1> SUFFICES ASSUME cancels', ~givenUp'
             PROVE  /\ inflight' \subseteq {cur'}
                    /\ pc' \in {"idle", "post"} => inflight' = {}
                    /\ pc' = "post" => retval'.what # "count"
                    /\ pc' \in {"arm", "test", "sleep", "asleep"} /\ retval'.what = "count" =>
                         retval'.of = cur' /\ inflight' = {}
                    /\ pc' = "clear" => cur'.kind = "bulk" /\ Negative(result')
                    /\ pc' = "idle" /\ result'.what = "count" => result'.of = cur'
  BY DEF Alone, Negative
<1> USE DEF Alone
<1>0. cancels /\ ~givenUp
  <2>1. ASSUME UNCHANGED device PROVE cancels /\ ~givenUp
    BY <2>1, Zenon DEF device
  <2>2. CASE GotResult
    BY <2>2, Zenon DEF GotResult
  <2>3. CASE Begins
    BY <2>1, <2>3 DEF Begins, Begin
  <2>4. CASE Answers
    BY <2>1, <2>4 DEF Answers, Answer
  <2>5. CASE PostFails \/ Post \/ Arm \/ Waits \/ Sleep \/ ClearHalt \/ Timeout
    BY <2>1, <2>5 DEF PostFails, Post, Arm, Waits, Sleep, ClearHalt, Timeout
  <2>6. CASE UNCHANGED vars
    BY <2>1, <2>6 DEF vars, device
  <2> QED BY <2>2, <2>3, <2>4, <2>5, <2>6, UNextCases
<1>1. CASE Begins
  <2>1. PICK k \in Kinds : Begin(k)
    BY <1>1 DEF Begins
  <2>2. retval'.what # "count" /\ inflight' = {}
    BY <2>1, <1>0 DEF Begin, Value
  <2> QED BY <2>1, <2>2 DEF Begin
<1>2. CASE PostFails
  <2>1. result'.what # "count"
    BY <1>2 DEF PostFails, Value
  <2> QED BY <1>0, <1>2, <2>1 DEF PostFails
<1>3. CASE Post
  BY <1>0, <1>3 DEF Post
<1>4. CASE Arm
  BY <1>0, <1>4 DEF Arm
<1>5. CASE Waits
  BY <1>0, <1>5 DEF Waits
<1>6. CASE Sleep
  BY <1>0, <1>6 DEF Sleep
<1>7. CASE GotResult
  <2>1. /\ inflight \subseteq {cur} /\ inflight' = inflight /\ cur' = cur /\ retval' = retval
        /\ result' = retval
        /\ retval.what = "count" => retval.of = cur /\ inflight = {}
    BY <1>0, <1>7 DEF GotResult
  <2>2. pc' \in {"idle", "clear"}
    BY <1>7 DEF GotResult
  <2>3. CASE pc' = "clear"
    BY <1>7, <2>1, <2>3 DEF GotResult
  <2>4. CASE pc' = "idle"
    <3>1. cur.kind = "control" => cur \notin inflight
      BY <1>7 DEF GotResult
    <3>2. cur.kind = "bulk" => ~Negative(retval)
      BY <1>7, <2>4 DEF GotResult
    <3>3. ~Negative(retval) => retval.what = "count"
      BY <1>7 DEF GotResult, TypeOK, Values, Negative
    <3>4. cur.kind \in {"bulk", "control"}
      BY <1>7 DEF GotResult, TypeOK, Msg
    <3>5. inflight = {}
      BY <2>1, <3>1, <3>2, <3>3, <3>4
    <3> QED BY <2>1, <2>4, <3>5
  <2> QED BY <2>2, <2>3, <2>4
<1>8. CASE ClearHalt
  <2> DEFINE left == {m \in inflight : m.kind = "bulk"}
  <2>1. inflight \subseteq {cur} /\ cur.kind = "bulk" /\ Negative(result)
    BY <1>0, <1>8 DEF ClearHalt
  <2>2. left = inflight
    BY <2>1
  <2>3. inflight' = {} /\ pc' = "idle" /\ result' = result
    BY <1>0, <1>8, <2>2 DEF ClearHalt
  <2>4. result.what # "count"
    BY <2>1 DEF Negative
  <2> QED BY <2>3, <2>4
<1>9. CASE Answers
  <2>1. PICK m \in inflight : Answer(m)
    BY <1>9 DEF Answers
  <2>2. m = cur /\ inflight' = {} /\ cur' = cur /\ result' = result
    BY <1>0, <2>1 DEF Answer
  <2>3. retval'.of = m
    BY <2>1, ValueIsOfType DEF Answer, TypeOK
  <2>4. pc \notin {"idle", "post"}
    BY <1>0, <2>1
  <2>5. pc' = pc \/ (pc = "asleep" /\ pc' = "test")
    BY <2>1 DEF Answer, Wake
  <2> QED BY <1>0, <2>2, <2>3, <2>4, <2>5
<1>10. CASE Timeout
  <2>1. retval'.what # "count" /\ inflight' = inflight /\ cur' = cur /\ result' = result
    BY <1>10 DEF Timeout, Value
  <2>2. pc' = pc \/ (pc = "asleep" /\ pc' = "test")
    BY <1>10 DEF Timeout, Wake
  <2> QED BY <1>0, <2>1, <2>2
<1>11. CASE UNCHANGED vars
  BY <1>0, <1>11 DEF vars
<1> QED
  BY <1>1, <1>2, <1>3, <1>4, <1>5, <1>6, <1>7, <1>8, <1>9, <1>10, <1>11, UNextCases

(* A call that returns a count returns that of its own message, for any    *)
(* number of messages, early and late alarms included, as long as          *)
(* USB_ClearHalt() ends bulk messages and no control message timed out.    *)
THEOREM UsbCountIsOwn == Spec => []CountIsOwn
<1>1. Init => Alone
  BY DEF Init, Alone, Value
<1>2. TypeOK /\ Alone /\ [Next]_vars => Alone'
  BY UAloneStep
<1>3. Alone => CountIsOwn
  BY DEF Alone, CountIsOwn
<1> QED BY <1>1, <1>2, <1>3, UsbTypeCorrect, PTL DEF Spec

=============================================================================
