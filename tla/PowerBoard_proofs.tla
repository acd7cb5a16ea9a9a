------------------------- MODULE PowerBoard_proofs --------------------------
(***************************************************************************)
(* Proofs about I2C, the bus, and PMS2, the driver of the power board on   *)
(* it.  The bus: for bytes of any number of bits, any number of registers, *)
(* any threads and calls, and a board that refuses bytes and holds the     *)
(* clock as it likes.  The driver: for flashes, blocks, files and retries  *)
(* of any number, and any number of updates, damaged blocks and refused    *)
(* calls.                                                                  *)
(***************************************************************************)
EXTENDS I2C, PMS2, TLAPS, SequenceTheorems

-----------------------------------------------------------------------------
(* The places of a call, and the way it goes through them.                 *)

(* What the places and calls of the threads are.                           *)
Functions == {"idle", "call", "start", "restart", "send", "shift", "answer", "refused", "get",
              "sample", "got", "reply", "stop", "return"}
Place == [fn : Functions, line : Nat, n : Nat, bit : 1..Bits]

Sending == {"send", "shift", "answer", "refused"}
Getting == {"get", "sample", "got", "reply"}

(* The places that a call can be at.                                       *)
Sound(c, p) ==
  /\ p.line \in 1..Len(Code[p.fn])
  /\ c.kind = "init" => p.fn \in {"stop", "idle"}
  /\ p.fn \in {"call", "return", "restart"} \cup Getting => c.kind = "transfer"
  /\ p.fn \in Sending => p.n \in 1..Last(c) + 1 /\ (p.n > Last(c) => c.in > 0)
  /\ p.fn = "restart" => c.in > 0
  /\ p.fn \in Getting => p.n \in 1..c.in
  /\ c.kind # "transfer" => c.in = 0

(* What is assumed of the constants.                                       *)
LEMMA Parameters ==
  /\ Main \in Threads /\ Nobody \notin Threads
  /\ Bits \in Nat /\ Bits > 0 /\ Size \in Nat /\ Size > 0 /\ MaxCalls \in Nat
BY I2CAssumption

(* The fields of a call.                                                   *)
LEMMA CallFields ==
  ASSUME NEW c \in Call
  PROVE  /\ c.kind \in {"init", "probe", "transfer"} /\ c.addr \in Addresses /\ c.reg \in Numbers
         /\ c.out \in Seq(Bytes) /\ Len(c.out) \in Nat /\ c.in \in Nat
         /\ Last(c) \in Nat /\ Last(c) > 0
<1>1. c.kind \in {"init", "probe", "transfer"} /\ c.addr \in Addresses /\ c.reg \in Numbers
      /\ c.out \in Seq(Bytes) /\ c.in \in Nat
  BY DEF Call
<1>2. Len(c.out) \in Nat
  BY <1>1
<1>3. QED
  BY <1>1, <1>2 DEF Last

(* How many steps each function has.                                       *)
LEMMA Lengths ==
  /\ Len(Code["idle"]) = 1 /\ Len(Code["call"]) = 1 /\ Len(Code["start"]) = 4
  /\ Len(Code["restart"]) = 7 /\ Len(Code["send"]) = 1 /\ Len(Code["shift"]) = 4
  /\ Len(Code["answer"]) = 6 /\ Len(Code["refused"]) = 8 /\ Len(Code["get"]) = 2
  /\ Len(Code["sample"]) = 4 /\ Len(Code["got"]) = 1 /\ Len(Code["reply"]) = 6
  /\ Len(Code["stop"]) = 6 /\ Len(Code["return"]) = 1
BY DEF Code

(* And which.                                                              *)
LEMMA Ops ==
  ASSUME NEW p, p.fn \in Functions, p.line \in 1..Len(Code[p.fn])
  PROVE  /\ p.fn = "idle" =>
            (p.line = 1 /\ Op(p) = "begin")
         /\ p.fn = "call" =>
            (p.line = 1 /\ Op(p) = "lock")
         /\ p.fn = "start" =>
            \/ (p.line = 1 /\ Op(p) = "lock")
            \/ (p.line = 2 /\ Op(p) = "sda0")
            \/ (p.line = 3 /\ Op(p) = "scl0")
            \/ (p.line = 4 /\ Op(p) = "unlock")
         /\ p.fn = "restart" =>
            \/ (p.line = 1 /\ Op(p) = "lock")
            \/ (p.line = 2 /\ Op(p) = "sda1")
            \/ (p.line = 3 /\ Op(p) = "scl1")
            \/ (p.line = 4 /\ Op(p) = "wait")
            \/ (p.line = 5 /\ Op(p) = "sda0")
            \/ (p.line = 6 /\ Op(p) = "scl0")
            \/ (p.line = 7 /\ Op(p) = "unlock")
         /\ p.fn = "send" =>
            (p.line = 1 /\ Op(p) = "lock")
         /\ p.fn = "shift" =>
            \/ (p.line = 1 /\ Op(p) = "sdaBit")
            \/ (p.line = 2 /\ Op(p) = "scl1")
            \/ (p.line = 3 /\ Op(p) = "wait")
            \/ (p.line = 4 /\ Op(p) = "scl0")
         /\ p.fn = "answer" =>
            \/ (p.line = 1 /\ Op(p) = "sda1")
            \/ (p.line = 2 /\ Op(p) = "scl1")
            \/ (p.line = 3 /\ Op(p) = "wait")
            \/ (p.line = 4 /\ Op(p) = "ack")
            \/ (p.line = 5 /\ Op(p) = "scl0")
            \/ (p.line = 6 /\ Op(p) = "unlock")
         /\ p.fn = "refused" =>
            \/ (p.line = 1 /\ Op(p) = "scl0")
            \/ (p.line = 2 /\ Op(p) = "lock")
            \/ (p.line = 3 /\ Op(p) = "sda0")
            \/ (p.line = 4 /\ Op(p) = "scl1")
            \/ (p.line = 5 /\ Op(p) = "wait")
            \/ (p.line = 6 /\ Op(p) = "sda1")
            \/ (p.line = 7 /\ Op(p) = "unlock")
            \/ (p.line = 8 /\ Op(p) = "unlock")
         /\ p.fn = "get" =>
            (p.line = 1 /\ Op(p) = "lock") \/ (p.line = 2 /\ Op(p) = "sda1")
         /\ p.fn = "sample" =>
            \/ (p.line = 1 /\ Op(p) = "scl1")
            \/ (p.line = 2 /\ Op(p) = "wait")
            \/ (p.line = 3 /\ Op(p) = "bit")
            \/ (p.line = 4 /\ Op(p) = "scl0")
         /\ p.fn = "got" =>
            (p.line = 1 /\ Op(p) = "unlock")
         /\ p.fn = "reply" =>
            \/ (p.line = 1 /\ Op(p) = "lock")
            \/ (p.line = 2 /\ Op(p) = "sdaReply")
            \/ (p.line = 3 /\ Op(p) = "scl1")
            \/ (p.line = 4 /\ Op(p) = "wait")
            \/ (p.line = 5 /\ Op(p) = "scl0")
            \/ (p.line = 6 /\ Op(p) = "unlock")
         /\ p.fn = "stop" =>
            \/ (p.line = 1 /\ Op(p) = "lock")
            \/ (p.line = 2 /\ Op(p) = "sda0")
            \/ (p.line = 3 /\ Op(p) = "scl1")
            \/ (p.line = 4 /\ Op(p) = "wait")
            \/ (p.line = 5 /\ Op(p) = "sda1")
            \/ (p.line = 6 /\ Op(p) = "unlock")
         /\ p.fn = "return" =>
            (p.line = 1 /\ Op(p) = "unlock")

<1>1. CASE p.fn = "idle"
  <2>1. Code[p.fn] = <<"begin">>
    BY <1>1 DEF Code
  <2>2. p.line \in 1..1
    BY <1>1, Lengths
  <2>3. QED
    BY <1>1, <2>1, <2>2 DEF Op
<1>2. CASE p.fn = "call"
  <2>1. Code[p.fn] = <<"lock">>
    BY <1>2 DEF Code
  <2>2. p.line \in 1..1
    BY <1>2, Lengths
  <2>3. QED
    BY <1>2, <2>1, <2>2 DEF Op
<1>3. CASE p.fn = "start"
  <2>1. Code[p.fn] = <<"lock", "sda0", "scl0", "unlock">>
    BY <1>3 DEF Code
  <2>2. p.line \in 1..4
    BY <1>3, Lengths
  <2>3. QED
    BY <1>3, <2>1, <2>2 DEF Op
<1>4. CASE p.fn = "restart"
  <2>1. Code[p.fn] = <<"lock", "sda1", "scl1", "wait", "sda0", "scl0", "unlock">>
    BY <1>4 DEF Code
  <2>2. p.line \in 1..7
    BY <1>4, Lengths
  <2>3. QED
    BY <1>4, <2>1, <2>2 DEF Op
<1>5. CASE p.fn = "send"
  <2>1. Code[p.fn] = <<"lock">>
    BY <1>5 DEF Code
  <2>2. p.line \in 1..1
    BY <1>5, Lengths
  <2>3. QED
    BY <1>5, <2>1, <2>2 DEF Op
<1>6. CASE p.fn = "shift"
  <2>1. Code[p.fn] = <<"sdaBit", "scl1", "wait", "scl0">>
    BY <1>6 DEF Code
  <2>2. p.line \in 1..4
    BY <1>6, Lengths
  <2>3. QED
    BY <1>6, <2>1, <2>2 DEF Op
<1>7. CASE p.fn = "answer"
  <2>1. Code[p.fn] = <<"sda1", "scl1", "wait", "ack", "scl0", "unlock">>
    BY <1>7 DEF Code
  <2>2. p.line \in 1..6
    BY <1>7, Lengths
  <2>3. QED
    BY <1>7, <2>1, <2>2 DEF Op
<1>8. CASE p.fn = "refused"
  <2>1. Code[p.fn] = <<"scl0", "lock", "sda0", "scl1", "wait", "sda1", "unlock", "unlock">>
    BY <1>8 DEF Code
  <2>2. p.line \in 1..8
    BY <1>8, Lengths
  <2>3. QED
    BY <1>8, <2>1, <2>2 DEF Op
<1>9. CASE p.fn = "get"
  <2>1. Code[p.fn] = <<"lock", "sda1">>
    BY <1>9 DEF Code
  <2>2. p.line \in 1..2
    BY <1>9, Lengths
  <2>3. QED
    BY <1>9, <2>1, <2>2 DEF Op
<1>10. CASE p.fn = "sample"
  <2>1. Code[p.fn] = <<"scl1", "wait", "bit", "scl0">>
    BY <1>10 DEF Code
  <2>2. p.line \in 1..4
    BY <1>10, Lengths
  <2>3. QED
    BY <1>10, <2>1, <2>2 DEF Op
<1>11. CASE p.fn = "got"
  <2>1. Code[p.fn] = <<"unlock">>
    BY <1>11 DEF Code
  <2>2. p.line \in 1..1
    BY <1>11, Lengths
  <2>3. QED
    BY <1>11, <2>1, <2>2 DEF Op
<1>12. CASE p.fn = "reply"
  <2>1. Code[p.fn] = <<"lock", "sdaReply", "scl1", "wait", "scl0", "unlock">>
    BY <1>12 DEF Code
  <2>2. p.line \in 1..6
    BY <1>12, Lengths
  <2>3. QED
    BY <1>12, <2>1, <2>2 DEF Op
<1>13. CASE p.fn = "stop"
  <2>1. Code[p.fn] = <<"lock", "sda0", "scl1", "wait", "sda1", "unlock">>
    BY <1>13 DEF Code
  <2>2. p.line \in 1..6
    BY <1>13, Lengths
  <2>3. QED
    BY <1>13, <2>1, <2>2 DEF Op
<1>14. CASE p.fn = "return"
  <2>1. Code[p.fn] = <<"unlock">>
    BY <1>14 DEF Code
  <2>2. p.line \in 1..1
    BY <1>14, Lengths
  <2>3. QED
    BY <1>14, <2>1, <2>2 DEF Op
<1>15. QED
  BY <1>1, <1>2, <1>3, <1>4, <1>5, <1>6, <1>7, <1>8, <1>9, <1>10, <1>11, <1>12, <1>13, <1>14
     DEF Functions

(* Where a function begins.                                                *)
LEMMA Entered ==
  ASSUME NEW fn, NEW n
  PROVE  Enters(fn, n).fn = fn /\ Enters(fn, n).line = 1 /\ Enters(fn, n).n = n
         /\ Enters(fn, n).bit = 1
BY DEF Enters

LEMMA EntersPlace ==
  ASSUME NEW fn \in Functions, NEW n \in Nat
  PROVE  Enters(fn, n) \in Place
BY Parameters DEF Enters, Place

(* Where a step goes on: to the next line, to another function, to the     *)
(* next bit.                                                               *)
LEMMA NextLine ==
  ASSUME NEW c, NEW p \in Place, p.line < Len(Code[p.fn])
  PROVE  /\ After(c, p) \in Place
         /\ After(c, p).fn = p.fn /\ After(c, p).line = p.line + 1
         /\ After(c, p).n = p.n /\ After(c, p).bit = p.bit
BY DEF After, Place

LEMMA NextFunction ==
  ASSUME NEW c, NEW p \in Place, p.line = Len(Code[p.fn])
  PROVE  After(c, p) = Follows(c, p)
BY DEF After, Place

LEMMA NextBit ==
  ASSUME NEW c, NEW p \in Place, p.fn \in {"shift", "sample"}, p.bit < Bits
  PROVE  /\ Follows(c, p) \in Place
         /\ Follows(c, p).fn = p.fn /\ Follows(c, p).line = 1
         /\ Follows(c, p).n = p.n /\ Follows(c, p).bit = p.bit + 1
<1>1. Follows(c, p) = [p EXCEPT !.line = 1, !.bit = @ + 1]
  BY Parameters DEF Follows, Place
<1>2. p.bit + 1 \in 1..Bits
  BY Parameters DEF Place
<1>3. p \in [fn : Functions, line : Nat, n : Nat, bit : 1..Bits]
  BY DEF Place
<1>4. Follows(c, p) \in [fn : Functions, line : Nat, n : Nat, bit : 1..Bits]
  <2> DEFINE q == [p EXCEPT !.line = 1]
  <2>1. q \in [fn : Functions, line : Nat, n : Nat, bit : 1..Bits] /\ q.bit = p.bit
    BY <1>3
  <2> HIDE DEF q
  <2>2. [q EXCEPT !.bit = p.bit + 1] \in [fn : Functions, line : Nat, n : Nat, bit : 1..Bits]
    BY <1>2, <2>1
  <2>3. Follows(c, p) = [q EXCEPT !.bit = p.bit + 1]
    BY <1>1, <2>1 DEF q
  <2>4. QED
    BY <2>2, <2>3
<1>5. /\ Follows(c, p).fn = p.fn /\ Follows(c, p).line = 1
      /\ Follows(c, p).n = p.n /\ Follows(c, p).bit = p.bit + 1
  BY <1>1, <1>3
<1>6. QED
  BY <1>4, <1>5 DEF Place

(* What comes after a function that does not look at the call's kind.      *)
LEMMA NextCall ==
  ASSUME NEW c, NEW p \in Place
  PROVE  /\ p.fn = "call" => Follows(c, p) = Enters("start", 0)
         /\ p.fn = "start" => Follows(c, p) = Enters("send", 1)
         /\ p.fn = "restart" => Follows(c, p) = Enters("send", Last(c) + 1)
         /\ p.fn = "send" => Follows(c, p) = Enters("shift", p.n)
         /\ p.fn = "shift" /\ p.bit = Bits => Follows(c, p) = Enters("answer", p.n)
         /\ p.fn = "get" => Follows(c, p) = Enters("sample", p.n)
         /\ p.fn = "sample" /\ p.bit = Bits => Follows(c, p) = Enters("got", p.n)
         /\ p.fn = "got" => Follows(c, p) = Enters("reply", p.n)
         /\ p.fn = "reply" /\ p.n < c.in => Follows(c, p) = Enters("get", p.n + 1)
         /\ p.fn = "reply" /\ ~(p.n < c.in) => Follows(c, p) = Enters("stop", 0)
         /\ p.fn = "refused" => Follows(c, p) = Enters("stop", 0)
         /\ p.fn = "stop" /\ c.kind = "transfer" => Follows(c, p) = Enters("return", 0)
         /\ p.fn = "stop" /\ c.kind # "transfer" => Follows(c, p) = Enters("idle", 0)
         /\ p.fn = "return" => Follows(c, p) = Enters("idle", 0)
BY Parameters DEF Follows, Place

(* What comes after a byte that was acknowledged.                          *)
LEMMA NextByte ==
  ASSUME NEW c \in Call, NEW p \in Place, p.fn = "answer"
  PROVE  /\ p.n < Last(c) => Follows(c, p) = Enters("send", p.n + 1)
         /\ p.n = Last(c) /\ c.in > 0 => Follows(c, p) = Enters("restart", 0)
         /\ p.n = Last(c) /\ ~(c.in > 0) => Follows(c, p) = Enters("stop", 0)
         /\ p.n > Last(c) => Follows(c, p) = Enters("get", 1)
BY CallFields DEF Follows, Place

(* No function is without steps.                                           *)
LEMMA Nonempty ==
  ASSUME NEW fn \in Functions
  PROVE  Len(Code[fn]) \in Nat /\ Len(Code[fn]) > 0
<1>1. fn = "idle" \/ fn = "call" \/ fn = "start" \/ fn = "restart" \/ fn = "send" \/ fn = "shift"
      \/ fn = "answer" \/ fn = "refused" \/ fn = "get" \/ fn = "sample" \/ fn = "got"
      \/ fn = "reply" \/ fn = "stop" \/ fn = "return"
  BY DEF Functions
<1>2. Len(Code[fn]) \in {1, 2, 4, 6, 7, 8}
  BY <1>1, Lengths, Zenon
<1>3. \A k \in {1, 2, 4, 6, 7, 8} : k \in Nat /\ k > 0
  OBVIOUS
<1>4. QED
  BY <1>2, <1>3, Zenon

(* A function that begins is at a sound place.                             *)
LEMMA SoundEnters ==
  ASSUME NEW c, NEW fn \in Functions, NEW n,
         c.kind = "init" => fn \in {"stop", "idle"},
         fn \in {"call", "return", "restart"} \cup Getting => c.kind = "transfer",
         fn \in Sending => n \in 1..Last(c) + 1 /\ (n > Last(c) => c.in > 0),
         fn = "restart" => c.in > 0,
         fn \in Getting => n \in 1..c.in,
         c.kind # "transfer" => c.in = 0
  PROVE  Sound(c, Enters(fn, n))
<1>1. Enters(fn, n).fn = fn /\ Enters(fn, n).line = 1 /\ Enters(fn, n).n = n
  BY Entered
<1>2. 1 \in 1..Len(Code[fn])
  BY Nonempty
<1>3. QED
  BY <1>1, <1>2 DEF Sound

(* A call goes from one sound place to the next.                           *)
LEMMA SoundStep ==
  ASSUME NEW c \in Call, NEW p \in Place, Sound(c, p), p.fn # "idle"
  PROVE  After(c, p) \in Place /\ Sound(c, After(c, p))
<1> DEFINE q == After(c, p)
<1>1. CASE p.line < Len(Code[p.fn])
  <2>1. q \in Place /\ q.fn = p.fn /\ q.line = p.line + 1 /\ q.n = p.n
    BY <1>1, NextLine
  <2>2. q.line \in 1..Len(Code[q.fn])
    BY <1>1, <2>1 DEF Sound
  <2>3. QED
    BY <2>1, <2>2 DEF Sound
<1>2. CASE p.line = Len(Code[p.fn]) /\ p.fn \in {"shift", "sample"} /\ p.bit < Bits
  <2>1. q \in Place /\ q.fn = p.fn /\ q.line = 1 /\ q.n = p.n
    BY <1>2, NextFunction, NextBit
  <2>2. QED
    BY <1>2, <2>1, Lengths DEF Sound
<1>3. CASE p.line = Len(Code[p.fn]) /\ ~(p.fn \in {"shift", "sample"} /\ p.bit < Bits)
  <2>1. \E fn \in Functions, n \in Nat : q = Enters(fn, n) /\ Sound(c, Enters(fn, n))
    <3>1. CASE p.fn = "call"
      <4>1. q = Enters("start", 0)
        BY <1>3, <3>1, NextFunction, NextCall
      <4>2. Sound(c, Enters("start", 0)) /\ 0 \in Nat
        BY <3>1, SoundEnters, CallFields DEF Sound, Functions, Sending, Getting, Place
      <4>3. QED
        BY <4>1, <4>2 DEF Functions
    <3>2. CASE p.fn = "start"
      <4>1. q = Enters("send", 1)
        BY <1>3, <3>2, NextFunction, NextCall
      <4>2. Sound(c, Enters("send", 1)) /\ 1 \in Nat
        BY <3>2, SoundEnters, CallFields DEF Sound, Functions, Sending, Getting, Place
      <4>3. QED
        BY <4>1, <4>2 DEF Functions
    <3>3. CASE p.fn = "restart"
      <4>1. q = Enters("send", Last(c) + 1)
        BY <1>3, <3>3, NextFunction, NextCall
      <4>2. Sound(c, Enters("send", Last(c) + 1)) /\ Last(c) + 1 \in Nat
        BY <3>3, SoundEnters, CallFields DEF Sound, Functions, Sending, Getting, Place
      <4>3. QED
        BY <4>1, <4>2 DEF Functions
    <3>4. CASE p.fn = "send"
      <4>1. q = Enters("shift", p.n)
        BY <1>3, <3>4, NextFunction, NextCall
      <4>2. Sound(c, Enters("shift", p.n)) /\ p.n \in Nat
        BY <3>4, SoundEnters, CallFields DEF Sound, Functions, Sending, Getting, Place
      <4>3. QED
        BY <4>1, <4>2 DEF Functions
    <3>5. CASE p.fn = "shift"
      <4>1. q = Enters("answer", p.n)
        BY <1>3, <3>5, NextFunction, NextCall, Parameters DEF Place
      <4>2. Sound(c, Enters("answer", p.n)) /\ p.n \in Nat
        BY <3>5, SoundEnters, CallFields DEF Sound, Functions, Sending, Getting, Place
      <4>3. QED
        BY <4>1, <4>2 DEF Functions
    <3>6. CASE p.fn = "answer"
      <4>1. CASE p.n < Last(c)
        <5>1. q = Enters("send", p.n + 1)
          BY <1>3, <3>6, <4>1, NextFunction, NextByte
        <5>2. p.n \in Nat /\ Last(c) \in Nat /\ p.n \in 1..Last(c) + 1
          BY <3>6, CallFields DEF Sound, Sending, Place
        <5>3. p.n + 1 \in 1..Last(c) + 1 /\ ~(p.n + 1 > Last(c)) /\ p.n + 1 \in Nat
          BY <4>1, <5>2
        <5>4. Sound(c, Enters("send", p.n + 1))
          BY <3>6, <5>3, SoundEnters DEF Sound, Functions, Sending, Getting
        <5>5. QED
          BY <5>1, <5>3, <5>4 DEF Functions
      <4>2. CASE p.n = Last(c) /\ c.in > 0
        <5>1. q = Enters("restart", 0)
          BY <1>3, <3>6, <4>2, NextFunction, NextByte
        <5>2. Sound(c, Enters("restart", 0)) /\ 0 \in Nat
          BY <3>6, <4>2, SoundEnters, CallFields DEF Sound, Functions, Sending, Getting, Place
        <5>3. QED
          BY <5>1, <5>2 DEF Functions
      <4>3. CASE p.n = Last(c) /\ ~(c.in > 0)
        <5>1. q = Enters("stop", 0)
          BY <1>3, <3>6, <4>3, NextFunction, NextByte
        <5>2. Sound(c, Enters("stop", 0)) /\ 0 \in Nat
          BY <3>6, <4>3, SoundEnters, CallFields DEF Sound, Functions, Sending, Getting, Place
        <5>3. QED
          BY <5>1, <5>2 DEF Functions
      <4>4. CASE p.n > Last(c)
        <5>1. q = Enters("get", 1)
          BY <1>3, <3>6, <4>4, NextFunction, NextByte
        <5>2. Sound(c, Enters("get", 1)) /\ 1 \in Nat
          BY <3>6, <4>4, SoundEnters, CallFields DEF Sound, Functions, Sending, Getting, Place
        <5>3. QED
          BY <5>1, <5>2 DEF Functions
      <4>5. QED
        BY <4>1, <4>2, <4>3, <4>4, <3>6, CallFields DEF Place, Sound, Sending
    <3>7. CASE p.fn = "refused"
      <4>1. q = Enters("stop", 0)
        BY <1>3, <3>7, NextFunction, NextCall
      <4>2. Sound(c, Enters("stop", 0)) /\ 0 \in Nat
        BY <3>7, SoundEnters, CallFields DEF Sound, Functions, Sending, Getting, Place
      <4>3. QED
        BY <4>1, <4>2 DEF Functions
    <3>8. CASE p.fn = "get"
      <4>1. q = Enters("sample", p.n)
        BY <1>3, <3>8, NextFunction, NextCall
      <4>2. Sound(c, Enters("sample", p.n)) /\ p.n \in Nat
        BY <3>8, SoundEnters, CallFields DEF Sound, Functions, Sending, Getting, Place
      <4>3. QED
        BY <4>1, <4>2 DEF Functions
    <3>9. CASE p.fn = "sample"
      <4>1. q = Enters("got", p.n)
        BY <1>3, <3>9, NextFunction, NextCall, Parameters DEF Place
      <4>2. Sound(c, Enters("got", p.n)) /\ p.n \in Nat
        BY <3>9, SoundEnters, CallFields DEF Sound, Functions, Sending, Getting, Place
      <4>3. QED
        BY <4>1, <4>2 DEF Functions
    <3>10. CASE p.fn = "got"
      <4>1. q = Enters("reply", p.n)
        BY <1>3, <3>10, NextFunction, NextCall
      <4>2. Sound(c, Enters("reply", p.n)) /\ p.n \in Nat
        BY <3>10, SoundEnters, CallFields DEF Sound, Functions, Sending, Getting, Place
      <4>3. QED
        BY <4>1, <4>2 DEF Functions
    <3>11. CASE p.fn = "reply"
      <4>1. CASE p.n < c.in
        <5>1. q = Enters("get", p.n + 1)
          BY <1>3, <3>11, <4>1, NextFunction, NextCall
        <5>2. Sound(c, Enters("get", p.n + 1)) /\ p.n + 1 \in Nat
          BY <3>11, <4>1, SoundEnters, CallFields DEF Sound, Functions, Sending, Getting, Place
        <5>3. QED
          BY <5>1, <5>2 DEF Functions
      <4>2. CASE ~(p.n < c.in)
        <5>1. q = Enters("stop", 0)
          BY <1>3, <3>11, <4>2, NextFunction, NextCall
        <5>2. Sound(c, Enters("stop", 0)) /\ 0 \in Nat
          BY <3>11, <4>2, SoundEnters, CallFields DEF Sound, Functions, Sending, Getting, Place
        <5>3. QED
          BY <5>1, <5>2 DEF Functions
      <4>3. QED
        BY <4>1, <4>2, <3>11
    <3>12. CASE p.fn = "stop"
      <4>1. CASE c.kind = "transfer"
        <5>1. q = Enters("return", 0)
          BY <1>3, <3>12, <4>1, NextFunction, NextCall
        <5>2. Sound(c, Enters("return", 0)) /\ 0 \in Nat
          BY <3>12, <4>1, SoundEnters, CallFields DEF Sound, Functions, Sending, Getting, Place
        <5>3. QED
          BY <5>1, <5>2 DEF Functions
      <4>2. CASE c.kind # "transfer"
        <5>1. q = Enters("idle", 0)
          BY <1>3, <3>12, <4>2, NextFunction, NextCall
        <5>2. Sound(c, Enters("idle", 0)) /\ 0 \in Nat
          BY <3>12, <4>2, SoundEnters, CallFields DEF Sound, Functions, Sending, Getting, Place
        <5>3. QED
          BY <5>1, <5>2 DEF Functions
      <4>3. QED
        BY <4>1, <4>2, <3>12
    <3>13. CASE p.fn = "return"
      <4>1. q = Enters("idle", 0)
        BY <1>3, <3>13, NextFunction, NextCall
      <4>2. Sound(c, Enters("idle", 0)) /\ 0 \in Nat
        BY <3>13, SoundEnters, CallFields DEF Sound, Functions, Sending, Getting, Place
      <4>3. QED
        BY <4>1, <4>2 DEF Functions
    <3>14. QED
      BY <3>1, <3>2, <3>3, <3>4, <3>5, <3>6, <3>7, <3>8, <3>9, <3>10, <3>11, <3>12, <3>13
         DEF Place, Functions
  <2>2. QED
    BY <2>1, EntersPlace
<1>4. QED
  BY <1>1, <1>2, <1>3 DEF Sound, Place

(* The step after p is this one.                                           *)
Leads(c, p, fn, line, n, bit) ==
  After(c, p).fn = fn /\ After(c, p).line = line /\ After(c, p).n = n /\ After(c, p).bit = bit

(* A step on the way, and the last of a function.                          *)
LEMMA Leading ==
  ASSUME NEW c, NEW p, NEW fn, NEW n, After(c, p) = Enters(fn, n)
  PROVE  Leads(c, p, fn, 1, n, 1)
BY Entered DEF Leads

LEMMA LeadingOn ==
  ASSUME NEW c, NEW p \in Place, p.line < Len(Code[p.fn])
  PROVE  Leads(c, p, p.fn, p.line + 1, p.n, p.bit)
BY NextLine DEF Leads

(* Where the steps of each function lead, one lemma for each of them.      *)
LEMMA CallLeads ==
  ASSUME NEW c \in Call, NEW p \in Place, Sound(c, p), p.fn = "call"
  PROVE  p.line = 1 /\ Op(p) = "lock" /\ Leads(c, p, "start", 1, 0, 1)
<1>1. p.line = 1 /\ Op(p) = "lock"
  <2>1. p.fn \in Functions /\ p.line \in 1..Len(Code[p.fn])
    BY DEF Sound, Functions
  <2>2. QED
    BY <2>1, Ops
<1>2. Len(Code[p.fn]) = 1
  BY Lengths
<1>4. p.line = 1 => Leads(c, p, "start", 1, 0, 1)
  BY <1>2, NextFunction, NextCall, Leading
<1>5. QED
  BY <1>1, <1>4

LEMMA StartLeads ==
  ASSUME NEW c \in Call, NEW p \in Place, Sound(c, p), p.fn = "start"
  PROVE  \/ p.line = 1 /\ Op(p) = "lock" /\ Leads(c, p, "start", 2, p.n, p.bit)
         \/ p.line = 2 /\ Op(p) = "sda0" /\ Leads(c, p, "start", 3, p.n, p.bit)
         \/ p.line = 3 /\ Op(p) = "scl0" /\ Leads(c, p, "start", 4, p.n, p.bit)
         \/ p.line = 4 /\ Op(p) = "unlock" /\ Leads(c, p, "send", 1, 1, 1)
<1>1. \/ p.line = 1 /\ Op(p) = "lock"
      \/ p.line = 2 /\ Op(p) = "sda0"
      \/ p.line = 3 /\ Op(p) = "scl0"
      \/ p.line = 4 /\ Op(p) = "unlock"
  <2>1. p.fn \in Functions /\ p.line \in 1..Len(Code[p.fn])
    BY DEF Sound, Functions
  <2>2. QED
    BY <2>1, Ops
<1>2. Len(Code[p.fn]) = 4
  BY Lengths
<1>3. p.line < 4 => Leads(c, p, "start", p.line + 1, p.n, p.bit)
  BY <1>2, LeadingOn
<1>4. p.line = 4 => Leads(c, p, "send", 1, 1, 1)
  BY <1>2, NextFunction, NextCall, Leading
<1>5. QED
  BY <1>1, <1>3, <1>4

LEMMA RestartLeads ==
  ASSUME NEW c \in Call, NEW p \in Place, Sound(c, p), p.fn = "restart"
  PROVE  \/ p.line = 1 /\ Op(p) = "lock" /\ Leads(c, p, "restart", 2, p.n, p.bit)
         \/ p.line = 2 /\ Op(p) = "sda1" /\ Leads(c, p, "restart", 3, p.n, p.bit)
         \/ p.line = 3 /\ Op(p) = "scl1" /\ Leads(c, p, "restart", 4, p.n, p.bit)
         \/ p.line = 4 /\ Op(p) = "wait" /\ Leads(c, p, "restart", 5, p.n, p.bit)
         \/ p.line = 5 /\ Op(p) = "sda0" /\ Leads(c, p, "restart", 6, p.n, p.bit)
         \/ p.line = 6 /\ Op(p) = "scl0" /\ Leads(c, p, "restart", 7, p.n, p.bit)
         \/ p.line = 7 /\ Op(p) = "unlock" /\ Leads(c, p, "send", 1, Last(c) + 1, 1)
<1>1. \/ p.line = 1 /\ Op(p) = "lock"
      \/ p.line = 2 /\ Op(p) = "sda1"
      \/ p.line = 3 /\ Op(p) = "scl1"
      \/ p.line = 4 /\ Op(p) = "wait"
      \/ p.line = 5 /\ Op(p) = "sda0"
      \/ p.line = 6 /\ Op(p) = "scl0"
      \/ p.line = 7 /\ Op(p) = "unlock"
  <2>1. p.fn \in Functions /\ p.line \in 1..Len(Code[p.fn])
    BY DEF Sound, Functions
  <2>2. QED
    BY <2>1, Ops
<1>2. Len(Code[p.fn]) = 7
  BY Lengths
<1>3. p.line < 7 => Leads(c, p, "restart", p.line + 1, p.n, p.bit)
  BY <1>2, LeadingOn
<1>4. p.line = 7 => Leads(c, p, "send", 1, Last(c) + 1, 1)
  BY <1>2, NextFunction, NextCall, Leading
<1>5. QED
  BY <1>1, <1>3, <1>4

LEMMA SendLeads ==
  ASSUME NEW c \in Call, NEW p \in Place, Sound(c, p), p.fn = "send"
  PROVE  p.line = 1 /\ Op(p) = "lock" /\ Leads(c, p, "shift", 1, p.n, 1)
<1>1. p.line = 1 /\ Op(p) = "lock"
  <2>1. p.fn \in Functions /\ p.line \in 1..Len(Code[p.fn])
    BY DEF Sound, Functions
  <2>2. QED
    BY <2>1, Ops
<1>2. Len(Code[p.fn]) = 1
  BY Lengths
<1>4. p.line = 1 => Leads(c, p, "shift", 1, p.n, 1)
  BY <1>2, NextFunction, NextCall, Leading
<1>5. QED
  BY <1>1, <1>4

LEMMA ShiftLeads ==
  ASSUME NEW c \in Call, NEW p \in Place, Sound(c, p), p.fn = "shift"
  PROVE  \/ p.line = 1 /\ Op(p) = "sdaBit" /\ Leads(c, p, "shift", 2, p.n, p.bit)
         \/ p.line = 2 /\ Op(p) = "scl1" /\ Leads(c, p, "shift", 3, p.n, p.bit)
         \/ p.line = 3 /\ Op(p) = "wait" /\ Leads(c, p, "shift", 4, p.n, p.bit)
         \/ p.line = 4 /\ Op(p) = "scl0" /\ p.bit < Bits /\ Leads(c, p, "shift", 1, p.n, p.bit + 1)
         \/ p.line = 4 /\ Op(p) = "scl0" /\ p.bit = Bits /\ Leads(c, p, "answer", 1, p.n, 1)
<1>1. \/ p.line = 1 /\ Op(p) = "sdaBit"
      \/ p.line = 2 /\ Op(p) = "scl1"
      \/ p.line = 3 /\ Op(p) = "wait"
      \/ p.line = 4 /\ Op(p) = "scl0"
  <2>1. p.fn \in Functions /\ p.line \in 1..Len(Code[p.fn])
    BY DEF Sound, Functions
  <2>2. QED
    BY <2>1, Ops
<1>2. Len(Code[p.fn]) = 4
  BY Lengths
<1>3. p.line < 4 => Leads(c, p, "shift", p.line + 1, p.n, p.bit)
  BY <1>2, LeadingOn
<1>4. p.line = 4 /\ p.bit < Bits => Leads(c, p, "shift", 1, p.n, p.bit + 1)
  <2>1. ASSUME p.line = 4, p.bit < Bits PROVE Leads(c, p, "shift", 1, p.n, p.bit + 1)
    <3>1. After(c, p) = Follows(c, p)
      BY <1>2, <2>1, NextFunction
    <3>2. QED
      BY <2>1, <3>1, NextBit DEF Leads
  <2>2. QED
    BY <2>1
<1>5. p.line = 4 /\ p.bit = Bits => Leads(c, p, "answer", 1, p.n, 1)
  BY <1>2, NextFunction, NextCall, Leading
<1>6. p.bit < Bits \/ p.bit = Bits
  BY Parameters DEF Place
<1>7. QED
  BY <1>1, <1>3, <1>4, <1>5, <1>6

LEMMA AnswerLeads ==
  ASSUME NEW c \in Call, NEW p \in Place, Sound(c, p), p.fn = "answer"
  PROVE  \/ p.line = 1 /\ Op(p) = "sda1" /\ Leads(c, p, "answer", 2, p.n, p.bit)
         \/ p.line = 2 /\ Op(p) = "scl1" /\ Leads(c, p, "answer", 3, p.n, p.bit)
         \/ p.line = 3 /\ Op(p) = "wait" /\ Leads(c, p, "answer", 4, p.n, p.bit)
         \/ p.line = 4 /\ Op(p) = "ack" /\ Leads(c, p, "answer", 5, p.n, p.bit)
         \/ p.line = 5 /\ Op(p) = "scl0" /\ Leads(c, p, "answer", 6, p.n, p.bit)
         \/ p.line = 6 /\ Op(p) = "unlock" /\ p.n < Last(c) /\ Leads(c, p, "send", 1, p.n + 1, 1)
         \/ p.line = 6 /\ Op(p) = "unlock" /\ p.n = Last(c) /\ c.in > 0
             /\ Leads(c, p, "restart", 1, 0, 1)
         \/ p.line = 6 /\ Op(p) = "unlock" /\ p.n = Last(c) /\ ~(c.in > 0)
             /\ Leads(c, p, "stop", 1, 0, 1)
         \/ p.line = 6 /\ Op(p) = "unlock" /\ p.n > Last(c) /\ Leads(c, p, "get", 1, 1, 1)
<1>1. \/ p.line = 1 /\ Op(p) = "sda1"
      \/ p.line = 2 /\ Op(p) = "scl1"
      \/ p.line = 3 /\ Op(p) = "wait"
      \/ p.line = 4 /\ Op(p) = "ack"
      \/ p.line = 5 /\ Op(p) = "scl0"
      \/ p.line = 6 /\ Op(p) = "unlock"
  <2>1. p.fn \in Functions /\ p.line \in 1..Len(Code[p.fn])
    BY DEF Sound, Functions
  <2>2. QED
    BY <2>1, Ops
<1>2. Len(Code[p.fn]) = 6
  BY Lengths
<1>3. p.line < 6 => Leads(c, p, "answer", p.line + 1, p.n, p.bit)
  BY <1>2, LeadingOn
<1>4. p.line = 6 /\ p.n < Last(c) => Leads(c, p, "send", 1, p.n + 1, 1)
  BY <1>2, NextFunction, NextByte, Leading
<1>5. p.line = 6 /\ p.n = Last(c) /\ c.in > 0 => Leads(c, p, "restart", 1, 0, 1)
  BY <1>2, NextFunction, NextByte, Leading
<1>6. p.line = 6 /\ p.n = Last(c) /\ ~(c.in > 0) => Leads(c, p, "stop", 1, 0, 1)
  BY <1>2, NextFunction, NextByte, Leading
<1>7. p.line = 6 /\ p.n > Last(c) => Leads(c, p, "get", 1, 1, 1)
  BY <1>2, NextFunction, NextByte, Leading
<1>8. p.n < Last(c) \/ p.n = Last(c) \/ p.n > Last(c)
  BY CallFields DEF Place
<1>9. QED
  BY <1>1, <1>3, <1>4, <1>5, <1>6, <1>7, <1>8

LEMMA RefusedLeads ==
  ASSUME NEW c \in Call, NEW p \in Place, Sound(c, p), p.fn = "refused"
  PROVE  \/ p.line = 1 /\ Op(p) = "scl0" /\ Leads(c, p, "refused", 2, p.n, p.bit)
         \/ p.line = 2 /\ Op(p) = "lock" /\ Leads(c, p, "refused", 3, p.n, p.bit)
         \/ p.line = 3 /\ Op(p) = "sda0" /\ Leads(c, p, "refused", 4, p.n, p.bit)
         \/ p.line = 4 /\ Op(p) = "scl1" /\ Leads(c, p, "refused", 5, p.n, p.bit)
         \/ p.line = 5 /\ Op(p) = "wait" /\ Leads(c, p, "refused", 6, p.n, p.bit)
         \/ p.line = 6 /\ Op(p) = "sda1" /\ Leads(c, p, "refused", 7, p.n, p.bit)
         \/ p.line = 7 /\ Op(p) = "unlock" /\ Leads(c, p, "refused", 8, p.n, p.bit)
         \/ p.line = 8 /\ Op(p) = "unlock" /\ Leads(c, p, "stop", 1, 0, 1)
<1>1. \/ p.line = 1 /\ Op(p) = "scl0"
      \/ p.line = 2 /\ Op(p) = "lock"
      \/ p.line = 3 /\ Op(p) = "sda0"
      \/ p.line = 4 /\ Op(p) = "scl1"
      \/ p.line = 5 /\ Op(p) = "wait"
      \/ p.line = 6 /\ Op(p) = "sda1"
      \/ p.line = 7 /\ Op(p) = "unlock"
      \/ p.line = 8 /\ Op(p) = "unlock"
  <2>1. p.fn \in Functions /\ p.line \in 1..Len(Code[p.fn])
    BY DEF Sound, Functions
  <2>2. QED
    BY <2>1, Ops
<1>2. Len(Code[p.fn]) = 8
  BY Lengths
<1>3. p.line < 8 => Leads(c, p, "refused", p.line + 1, p.n, p.bit)
  BY <1>2, LeadingOn
<1>4. p.line = 8 => Leads(c, p, "stop", 1, 0, 1)
  BY <1>2, NextFunction, NextCall, Leading
<1>5. QED
  BY <1>1, <1>3, <1>4

LEMMA GetLeads ==
  ASSUME NEW c \in Call, NEW p \in Place, Sound(c, p), p.fn = "get"
  PROVE  \/ p.line = 1 /\ Op(p) = "lock" /\ Leads(c, p, "get", 2, p.n, p.bit)
         \/ p.line = 2 /\ Op(p) = "sda1" /\ Leads(c, p, "sample", 1, p.n, 1)
<1>1. \/ p.line = 1 /\ Op(p) = "lock"
      \/ p.line = 2 /\ Op(p) = "sda1"
  <2>1. p.fn \in Functions /\ p.line \in 1..Len(Code[p.fn])
    BY DEF Sound, Functions
  <2>2. QED
    BY <2>1, Ops
<1>2. Len(Code[p.fn]) = 2
  BY Lengths
<1>3. p.line < 2 => Leads(c, p, "get", p.line + 1, p.n, p.bit)
  BY <1>2, LeadingOn
<1>4. p.line = 2 => Leads(c, p, "sample", 1, p.n, 1)
  BY <1>2, NextFunction, NextCall, Leading
<1>5. QED
  BY <1>1, <1>3, <1>4

LEMMA SampleLeads ==
  ASSUME NEW c \in Call, NEW p \in Place, Sound(c, p), p.fn = "sample"
  PROVE  \/ p.line = 1 /\ Op(p) = "scl1" /\ Leads(c, p, "sample", 2, p.n, p.bit)
         \/ p.line = 2 /\ Op(p) = "wait" /\ Leads(c, p, "sample", 3, p.n, p.bit)
         \/ p.line = 3 /\ Op(p) = "bit" /\ Leads(c, p, "sample", 4, p.n, p.bit)
         \/ p.line = 4 /\ Op(p) = "scl0" /\ p.bit < Bits /\ Leads(c, p, "sample", 1, p.n, p.bit + 1)
         \/ p.line = 4 /\ Op(p) = "scl0" /\ p.bit = Bits /\ Leads(c, p, "got", 1, p.n, 1)
<1>1. \/ p.line = 1 /\ Op(p) = "scl1"
      \/ p.line = 2 /\ Op(p) = "wait"
      \/ p.line = 3 /\ Op(p) = "bit"
      \/ p.line = 4 /\ Op(p) = "scl0"
  <2>1. p.fn \in Functions /\ p.line \in 1..Len(Code[p.fn])
    BY DEF Sound, Functions
  <2>2. QED
    BY <2>1, Ops
<1>2. Len(Code[p.fn]) = 4
  BY Lengths
<1>3. p.line < 4 => Leads(c, p, "sample", p.line + 1, p.n, p.bit)
  BY <1>2, LeadingOn
<1>4. p.line = 4 /\ p.bit < Bits => Leads(c, p, "sample", 1, p.n, p.bit + 1)
  <2>1. ASSUME p.line = 4, p.bit < Bits PROVE Leads(c, p, "sample", 1, p.n, p.bit + 1)
    <3>1. After(c, p) = Follows(c, p)
      BY <1>2, <2>1, NextFunction
    <3>2. QED
      BY <2>1, <3>1, NextBit DEF Leads
  <2>2. QED
    BY <2>1
<1>5. p.line = 4 /\ p.bit = Bits => Leads(c, p, "got", 1, p.n, 1)
  BY <1>2, NextFunction, NextCall, Leading
<1>6. p.bit < Bits \/ p.bit = Bits
  BY Parameters DEF Place
<1>7. QED
  BY <1>1, <1>3, <1>4, <1>5, <1>6

LEMMA GotLeads ==
  ASSUME NEW c \in Call, NEW p \in Place, Sound(c, p), p.fn = "got"
  PROVE  p.line = 1 /\ Op(p) = "unlock" /\ Leads(c, p, "reply", 1, p.n, 1)
<1>1. p.line = 1 /\ Op(p) = "unlock"
  <2>1. p.fn \in Functions /\ p.line \in 1..Len(Code[p.fn])
    BY DEF Sound, Functions
  <2>2. QED
    BY <2>1, Ops
<1>2. Len(Code[p.fn]) = 1
  BY Lengths
<1>4. p.line = 1 => Leads(c, p, "reply", 1, p.n, 1)
  BY <1>2, NextFunction, NextCall, Leading
<1>5. QED
  BY <1>1, <1>4

LEMMA ReplyLeads ==
  ASSUME NEW c \in Call, NEW p \in Place, Sound(c, p), p.fn = "reply"
  PROVE  \/ p.line = 1 /\ Op(p) = "lock" /\ Leads(c, p, "reply", 2, p.n, p.bit)
         \/ p.line = 2 /\ Op(p) = "sdaReply" /\ Leads(c, p, "reply", 3, p.n, p.bit)
         \/ p.line = 3 /\ Op(p) = "scl1" /\ Leads(c, p, "reply", 4, p.n, p.bit)
         \/ p.line = 4 /\ Op(p) = "wait" /\ Leads(c, p, "reply", 5, p.n, p.bit)
         \/ p.line = 5 /\ Op(p) = "scl0" /\ Leads(c, p, "reply", 6, p.n, p.bit)
         \/ p.line = 6 /\ Op(p) = "unlock" /\ p.n < c.in /\ Leads(c, p, "get", 1, p.n + 1, 1)
         \/ p.line = 6 /\ Op(p) = "unlock" /\ ~(p.n < c.in) /\ Leads(c, p, "stop", 1, 0, 1)
<1>1. \/ p.line = 1 /\ Op(p) = "lock"
      \/ p.line = 2 /\ Op(p) = "sdaReply"
      \/ p.line = 3 /\ Op(p) = "scl1"
      \/ p.line = 4 /\ Op(p) = "wait"
      \/ p.line = 5 /\ Op(p) = "scl0"
      \/ p.line = 6 /\ Op(p) = "unlock"
  <2>1. p.fn \in Functions /\ p.line \in 1..Len(Code[p.fn])
    BY DEF Sound, Functions
  <2>2. QED
    BY <2>1, Ops
<1>2. Len(Code[p.fn]) = 6
  BY Lengths
<1>3. p.line < 6 => Leads(c, p, "reply", p.line + 1, p.n, p.bit)
  BY <1>2, LeadingOn
<1>4. p.line = 6 /\ p.n < c.in => Leads(c, p, "get", 1, p.n + 1, 1)
  BY <1>2, NextFunction, NextCall, Leading
<1>5. p.line = 6 /\ ~(p.n < c.in) => Leads(c, p, "stop", 1, 0, 1)
  BY <1>2, NextFunction, NextCall, Leading
<1>6. QED
  BY <1>1, <1>3, <1>4, <1>5

LEMMA StopLeads ==
  ASSUME NEW c \in Call, NEW p \in Place, Sound(c, p), p.fn = "stop"
  PROVE  \/ p.line = 1 /\ Op(p) = "lock" /\ Leads(c, p, "stop", 2, p.n, p.bit)
         \/ p.line = 2 /\ Op(p) = "sda0" /\ Leads(c, p, "stop", 3, p.n, p.bit)
         \/ p.line = 3 /\ Op(p) = "scl1" /\ Leads(c, p, "stop", 4, p.n, p.bit)
         \/ p.line = 4 /\ Op(p) = "wait" /\ Leads(c, p, "stop", 5, p.n, p.bit)
         \/ p.line = 5 /\ Op(p) = "sda1" /\ Leads(c, p, "stop", 6, p.n, p.bit)
         \/ p.line = 6 /\ Op(p) = "unlock" /\ c.kind = "transfer" /\ Leads(c, p, "return", 1, 0, 1)
         \/ p.line = 6 /\ Op(p) = "unlock" /\ c.kind # "transfer" /\ Leads(c, p, "idle", 1, 0, 1)
<1>1. \/ p.line = 1 /\ Op(p) = "lock"
      \/ p.line = 2 /\ Op(p) = "sda0"
      \/ p.line = 3 /\ Op(p) = "scl1"
      \/ p.line = 4 /\ Op(p) = "wait"
      \/ p.line = 5 /\ Op(p) = "sda1"
      \/ p.line = 6 /\ Op(p) = "unlock"
  <2>1. p.fn \in Functions /\ p.line \in 1..Len(Code[p.fn])
    BY DEF Sound, Functions
  <2>2. QED
    BY <2>1, Ops
<1>2. Len(Code[p.fn]) = 6
  BY Lengths
<1>3. p.line < 6 => Leads(c, p, "stop", p.line + 1, p.n, p.bit)
  BY <1>2, LeadingOn
<1>4. p.line = 6 /\ c.kind = "transfer" => Leads(c, p, "return", 1, 0, 1)
  BY <1>2, NextFunction, NextCall, Leading
<1>5. p.line = 6 /\ c.kind # "transfer" => Leads(c, p, "idle", 1, 0, 1)
  BY <1>2, NextFunction, NextCall, Leading
<1>6. QED
  BY <1>1, <1>3, <1>4, <1>5

LEMMA ReturnLeads ==
  ASSUME NEW c \in Call, NEW p \in Place, Sound(c, p), p.fn = "return"
  PROVE  p.line = 1 /\ Op(p) = "unlock" /\ Leads(c, p, "idle", 1, 0, 1)
<1>1. p.line = 1 /\ Op(p) = "unlock"
  <2>1. p.fn \in Functions /\ p.line \in 1..Len(Code[p.fn])
    BY DEF Sound, Functions
  <2>2. QED
    BY <2>1, Ops
<1>2. Len(Code[p.fn]) = 1
  BY Lengths
<1>4. p.line = 1 => Leads(c, p, "idle", 1, 0, 1)
  BY <1>2, NextFunction, NextCall, Leading
<1>5. QED
  BY <1>1, <1>4

(* The locks of i2c.c that the functions around a place hold, and those    *)
(* that the thread of a call holds at a place.                             *)
Inner(p) ==
  CASE p.fn \in {"start", "restart", "get", "reply", "stop"} -> IF p.line = 1 THEN 0 ELSE 1
    [] p.fn \in {"shift", "answer", "sample", "got"} -> 1
    [] p.fn = "refused" -> IF p.line \in 3..7 THEN 2 ELSE 1
    [] OTHER -> 0

Outer(c, p) == IF p.fn \notin {"idle", "call"} /\ c.kind = "transfer" THEN 1 ELSE 0

Depth(c, p) == Inner(p) + Outer(c, p)

(* The locks that are held at each step.                                   *)
LEMMA Inners ==
  ASSUME NEW p
  PROVE  /\ p.fn \in {"start", "restart", "get", "reply", "stop"} =>
              Inner(p) = IF p.line = 1 THEN 0 ELSE 1
         /\ p.fn \in {"shift", "answer", "sample", "got"} => Inner(p) = 1
         /\ p.fn = "refused" => Inner(p) = IF p.line \in 3..7 THEN 2 ELSE 1
         /\ p.fn \in {"idle", "call", "send", "return"} => Inner(p) = 0
BY DEF Inner

LEMMA Depths ==
  ASSUME NEW c, NEW p, p.fn \in Functions
  PROVE  /\ Inner(p) \in Nat /\ Outer(c, p) \in Nat /\ Depth(c, p) \in Nat
         /\ c.kind = "transfer" /\ p.fn \notin {"idle", "call"} => Depth(c, p) > 0
         /\ p.fn \in {"idle", "call"} => Depth(c, p) = 0
<1>1. Inner(p) \in Nat
  BY Inners DEF Functions
<1>2. QED
  BY <1>1, Inners DEF Depth, Outer

(* A lock adds to what the thread holds, an unlock takes from it, and      *)
(* nothing else changes it.                                                *)
LEMMA DepthStep ==
  ASSUME NEW c \in Call, NEW p \in Place, Sound(c, p), p.fn # "idle"
  PROVE  /\ Op(p) = "lock" => Depth(c, After(c, p)) = Depth(c, p) + 1
         /\ Op(p) = "unlock" => Depth(c, After(c, p)) = Depth(c, p) - 1 /\ Depth(c, p) > 0
         /\ Op(p) \notin {"lock", "unlock"} => Depth(c, After(c, p)) = Depth(c, p)
<1> DEFINE q == After(c, p)
<1>1. CASE p.fn = "call"
  BY <1>1, CallLeads, Inners DEF Depth, Outer, Leads, Sound
<1>2. CASE p.fn = "start"
  BY <1>2, StartLeads, Inners DEF Depth, Outer, Leads
<1>3. CASE p.fn = "restart"
  BY <1>3, RestartLeads, Inners DEF Depth, Outer, Leads
<1>4. CASE p.fn = "send"
  BY <1>4, SendLeads, Inners DEF Depth, Outer, Leads
<1>5. CASE p.fn = "shift"
  BY <1>5, ShiftLeads, Inners DEF Depth, Outer, Leads
<1>6. CASE p.fn = "answer"
  BY <1>6, AnswerLeads, Inners DEF Depth, Outer, Leads
<1>7. CASE p.fn = "refused"
  BY <1>7, RefusedLeads, Inners DEF Depth, Outer, Leads
<1>8. CASE p.fn = "get"
  BY <1>8, GetLeads, Inners DEF Depth, Outer, Leads
<1>9. CASE p.fn = "sample"
  BY <1>9, SampleLeads, Inners DEF Depth, Outer, Leads
<1>10. CASE p.fn = "got"
  BY <1>10, GotLeads, Inners DEF Depth, Outer, Leads
<1>11. CASE p.fn = "reply"
  BY <1>11, ReplyLeads, Inners DEF Depth, Outer, Leads
<1>12. CASE p.fn = "stop"
  BY <1>12, StopLeads, Inners DEF Depth, Outer, Leads
<1>13. CASE p.fn = "return"
  BY <1>13, ReturnLeads, Inners DEF Depth, Outer, Leads, Sound
<1>14. QED
  BY <1>1, <1>2, <1>3, <1>4, <1>5, <1>6, <1>7, <1>8, <1>9, <1>10, <1>11, <1>12, <1>13
     DEF Place, Functions

-----------------------------------------------------------------------------
(* Types.                                                                  *)

Modes == {"idle", "waits", "address", "register", "data", "sends"}
Board == [mode : Modes, n : Nat, shift : Bytes, more : BOOLEAN, low : BOOLEAN,
          ptr : Numbers, regs : [Numbers -> Bytes]]

HostTypes ==
  /\ mutex \in [owner : Threads \cup {Nobody}, depth : Nat] /\ openDrain \in BOOLEAN
  /\ at \in [Threads -> Place] /\ call \in [Threads -> Call]
  /\ error \in [Threads -> BOOLEAN]
  /\ boot \in Seq(Call) /\ calls \in Nat

GotTypes ==
  /\ DOMAIN got = Threads
  /\ \A t \in Threads : got[t] \in [1..call[t].in -> Bytes]

LineTypes ==
  /\ scl \in BOOLEAN /\ sda \in BOOLEAN /\ hold \in BOOLEAN
  /\ board \in Board /\ before \in [Numbers -> Bytes]

BusTypes == HostTypes /\ GotTypes /\ LineTypes

(* Bytes.                                                                  *)
LEMMA ZeroByte == Zero \in Bytes
BY Parameters DEF Zero, Bytes

LEMMA BitOfByte ==
  ASSUME NEW b \in Bytes, NEW k \in 1..Bits
  PROVE  b[k] \in BOOLEAN
BY DEF Bytes

LEMMA SameByte ==
  ASSUME NEW b \in Bytes, NEW d \in Bytes, \A k \in 1..Bits : b[k] = d[k]
  PROVE  b = d
<1>1. b = [k \in 1..Bits |-> b[k]] /\ d = [k \in 1..Bits |-> d[k]]
  BY DEF Bytes
<1>2. [k \in 1..Bits |-> b[k]] = [k \in 1..Bits |-> d[k]]
  OBVIOUS
<1>3. QED
  BY <1>1, <1>2, Zenon

LEMMA LastBit == Bits \in 1..Bits
BY Parameters

(* What a call sends: its address, the number of a register, its data, and *)
(* its address again to start reading.  They are bytes.                    *)
LEMMA Sends ==
  ASSUME NEW c \in Call, NEW n \in 1..Last(c)
  PROVE  /\ n = 1 => Sent(c, n) = c.addr
         /\ n = 2 => Sent(c, n) = Name[c.reg]
         /\ n > 2 => n - 2 \in 1..Len(c.out) /\ Sent(c, n) = c.out[n - 2]
<1>1. c.addr \in Bytes /\ Name[c.reg] \in Bytes /\ c.out \in Seq(Bytes) /\ Len(c.out) \in Nat
  BY CallFields, I2CAssumption DEF Addresses
<1> DEFINE s == <<c.addr, Name[c.reg]>>
<1>2. s \in Seq(Bytes) /\ Len(s) = 2 /\ s[1] = c.addr /\ s[2] = Name[c.reg]
  BY <1>1
<1>3. Sent(c, n) = (s \o c.out)[n]
  <2>1. ~(n > Last(c))
    BY CallFields
  <2>2. QED
    BY <2>1 DEF Sent
<1> HIDE DEF s
<1>4. \A i \in 1..Len(s) + Len(c.out) :
        (s \o c.out)[i] = IF i <= Len(s) THEN s[i] ELSE c.out[i - Len(s)]
  BY <1>1, <1>2, ConcatProperties, Zenon
<1>5. n \in 1..Len(s) + Len(c.out) /\ (n > 2 => n - 2 \in 1..Len(c.out))
  BY <1>1, <1>2 DEF Last
<1>6. Sent(c, n) = IF n <= 2 THEN s[n] ELSE c.out[n - 2]
  BY <1>2, <1>3, <1>4, <1>5
<1>7. QED
  BY <1>1, <1>2, <1>5, <1>6

LEMMA SentByte ==
  ASSUME NEW c \in Call, NEW n \in 1..Last(c) + 1
  PROVE  Sent(c, n) \in Bytes
<1>1. c.addr \in Bytes /\ Name[c.reg] \in Bytes /\ c.out \in Seq(Bytes)
  BY CallFields, I2CAssumption DEF Addresses
<1>2. CASE n > Last(c)
  BY <1>1, <1>2 DEF Sent, Bytes
<1>3. CASE ~(n > Last(c))
  <2>1. n \in 1..Last(c)
    BY <1>3, CallFields
  <2>2. \A i \in 1..Len(c.out) : c.out[i] \in Bytes
    BY <1>1
  <2>3. QED
    BY <1>1, <2>1, <2>2, Sends
<1>4. QED
  BY <1>2, <1>3

(* What the board does keeps its type.                                     *)
LEMMA RiseTypes ==
  ASSUME BusTypes, Rise
  PROVE  board' \in Board
<1> DEFINE n == IF board.mode \in Receiving \cup {"sends"} THEN board.n + 1 ELSE board.n
           s == IF board.mode \in Receiving /\ board.n < Bits
                THEN [board.shift EXCEPT ![board.n + 1] = SDA] ELSE board.shift
           m == IF board.mode = "sends" /\ board.n = Bits THEN ~sda ELSE board.more
<1>1. board \in Board /\ board.n \in Nat /\ board.shift \in Bytes /\ board.more \in BOOLEAN
      /\ board.low \in BOOLEAN /\ sda \in BOOLEAN
  BY DEF BusTypes, LineTypes, Board
<1>2. n \in Nat
  <2>1. n = board.n + 1 \/ n = board.n
    OBVIOUS
  <2>2. QED
    BY <1>1, <2>1
<1>. m \in BOOLEAN
  <2>1. m = ~sda \/ m = board.more
    OBVIOUS
  <2>2. QED
    BY <1>1, <2>1
<1>3. s \in Bytes
  BY <1>1 DEF Bytes, SDA
<1>4. board' = [board EXCEPT !.n = n, !.shift = s, !.more = m]
  BY DEF Rise
<1> HIDE DEF n, s, m
<1>5. QED
  BY <1>1, <1>2, <1>3, <1>4 DEF Board

LEMMA ExpectsTypes ==
  ASSUME board \in Board, NEW m \in Modes
  PROVE  Expects(m) \in Board
BY ZeroByte DEF Expects, Board

LEMMA ShowsTypes ==
  ASSUME board \in Board, NEW p \in Numbers, NEW n \in Nat
  PROVE  Shows(p, n) \in Board
BY DEF Shows, Board, Modes

LEMMA RestsTypes ==
  ASSUME board \in Board
  PROVE  Rests \in Board
BY DEF Rests, Board, Modes

(* The registers are numbered modulo their number.                         *)
LEMMA Remains ==
  ASSUME NEW x \in Nat
  PROVE  x % Size \in Numbers
BY Parameters, Z3 DEF Numbers

LEMMA AcceptsTypes ==
  ASSUME board \in Board, board.mode \in Receiving,
         board.mode = "register" => Named(board.shift) \in Numbers
  PROVE  Accepts \in Board
<1>1. board.ptr \in Nat /\ board.shift \in Bytes /\ board.regs \in [Numbers -> Bytes]
  BY Parameters DEF Board, Numbers
<1>2. NextReg \in Numbers
  BY <1>1, Remains DEF NextReg
<1>3. CASE board.mode = "address"
  BY <1>3 DEF Accepts, Board
<1>4. CASE board.mode = "register"
  <2>1. Accepts = [board EXCEPT !.low = TRUE, !.ptr = Named(board.shift)]
    BY <1>4 DEF Accepts
  <2>2. Named(board.shift) \in Numbers
    BY <1>4
  <2>3. QED
    BY <2>1, <2>2 DEF Board
<1>5. CASE board.mode = "data"
  <2> DEFINE r == [board.regs EXCEPT ![board.ptr] = board.shift]
  <2>1. r \in [Numbers -> Bytes]
    BY <1>1
  <2>2. Accepts = [board EXCEPT !.low = TRUE, !.regs = r, !.ptr = NextReg]
    BY <1>5 DEF Accepts
  <2> HIDE DEF r
  <2>3. QED
    BY <1>2, <2>1, <2>2 DEF Board
<1>6. QED
  BY <1>3, <1>4, <1>5 DEF Receiving

LEMMA FallTypes ==
  ASSUME board \in Board, Fall,
         board.mode = "register" /\ board.n = Bits => Named(board.shift) \in Numbers
  PROVE  board' \in Board
<1>1. board.ptr \in Nat /\ board.n \in Nat /\ board.mode \in Modes
  BY Parameters DEF Board, Numbers
<1>2. NextReg \in Numbers /\ board.ptr \in Numbers
  BY <1>1, Remains DEF NextReg, Board
<1>3. CASE board.mode \in Receiving /\ board.n = Bits
  <2>1. board' = Rests \/ board' = Accepts
    BY <1>3, Parameters DEF Fall, Receiving
  <2>2. QED
    BY <1>3, <2>1, RestsTypes, AcceptsTypes
<1>4. CASE board.mode \in Receiving /\ board.n = Bits + 1
  <2>1. board' = AfterByte
    BY <1>4, Parameters DEF Fall, Receiving
  <2>2. AfterByte \in {Shows(board.ptr, 0), Expects("register"), Expects("data")}
    BY <1>4 DEF AfterByte, Receiving
  <2>3. QED
    BY <1>2, <2>1, <2>2, ShowsTypes, ExpectsTypes DEF Modes
<1>5. CASE board.mode = "sends" /\ board.n < Bits
  <2>1. board' = Shows(board.ptr, board.n)
    BY <1>5, Parameters DEF Fall, Receiving
  <2>2. QED
    BY <1>1, <1>2, <2>1, ShowsTypes
<1>6. CASE board.mode = "sends" /\ board.n = Bits
  <2>1. board' = [board EXCEPT !.low = FALSE]
    BY <1>6, Parameters DEF Fall, Receiving
  <2>2. QED
    BY <2>1 DEF Board
<1>7. CASE board.mode = "sends" /\ board.n = Bits + 1
  <2>1. board' = Shows(NextReg, 0) \/ board' = Rests
    BY <1>7, Parameters DEF Fall, Receiving
  <2>2. QED
    BY <1>2, <2>1, ShowsTypes, RestsTypes
<1>8. CASE ~(board.mode \in Receiving /\ board.n \in {Bits, Bits + 1})
           /\ ~(board.mode = "sends" /\ (board.n < Bits \/ board.n \in {Bits, Bits + 1}))
  BY <1>8 DEF Fall
<1>9. QED
  BY <1>3, <1>4, <1>5, <1>6, <1>7, <1>8

-----------------------------------------------------------------------------
(* The lines and the board, wherever a call is.                            *)

Rest == SCL /\ SDA /\ board.mode = "idle"
Fresh(m) == board.mode = m /\ board.n = 0 /\ ~board.low
Mode(c, n) == IF n = 1 \/ n > Last(c) THEN "address" ELSE IF n = 2 THEN "register" ELSE "data"
Prefix(c, n, k) == board.n = k /\ \A i \in 1..k : board.shift[i] = Sent(c, n)[i]
Refuses == board.mode = "waits" /\ ~board.low
Took(c, n, k) == board.mode = Mode(c, n) /\ board.low /\ board.n = k /\ board.shift = Sent(c, n)
Shown(k) == board.mode = "sends" /\ board.n = k /\ board.low = ~board.regs[board.ptr][k + 1]

(* For each function, the lines and the board before each of its steps.    *)
StartLines(p) ==
  /\ p.line \in {1, 2} => Rest
  /\ p.line = 3 => SCL /\ ~sda /\ Fresh("address")
  /\ p.line = 4 => ~scl /\ Fresh("address")

RestartLines(p) ==
  /\ p.line \in {1, 2} => ~scl /\ ~board.low
  /\ p.line = 3 => ~scl /\ sda /\ ~board.low
  /\ p.line = 4 => scl /\ sda /\ ~board.low
  /\ p.line = 5 => SCL /\ sda /\ ~board.low
  /\ p.line = 6 => SCL /\ ~sda /\ Fresh("address")
  /\ p.line = 7 => ~scl /\ Fresh("address")

SendLines(c, p) == ~scl /\ Fresh(Mode(c, p.n))

ShiftLines(c, p) ==
  /\ board.mode = Mode(c, p.n) /\ ~board.low
  /\ Prefix(c, p.n, IF p.line > 2 /\ ~hold THEN p.bit ELSE p.bit - 1)
  /\ p.line \in {1, 2} => ~scl
  /\ p.line \in {2, 3} => sda = Sent(c, p.n)[p.bit]
  /\ p.line \in {3, 4} => scl
  /\ p.line = 4 => ~hold

AnswerLines(c, p) ==
  /\ p.line \in {1, 2} => ~scl /\ (Refuses \/ Took(c, p.n, Bits))
  /\ p.line \in {2, 3, 4} => sda
  /\ p.line = 3 => scl /\ (Refuses \/ Took(c, p.n, IF hold THEN Bits ELSE Bits + 1))
  /\ p.line = 4 => SCL /\ (Refuses \/ Took(c, p.n, Bits + 1))
  /\ p.line = 5 => SCL /\ Took(c, p.n, Bits + 1)
  /\ p.line = 6 => /\ ~scl
                   /\ IF p.n > Last(c) THEN Shown(0)
                      ELSE Fresh(IF p.n = 1 THEN "register" ELSE "data")

RefusedLines(p) ==
  /\ p.line = 1 => SCL /\ Refuses
  /\ p.line \in {2, 3} => ~scl /\ Refuses
  /\ p.line = 4 => ~scl /\ ~sda /\ Refuses
  /\ p.line = 5 => scl /\ ~sda /\ Refuses
  /\ p.line = 6 => SCL /\ ~sda /\ Refuses
  /\ p.line \in {7, 8} => Rest

GetLines(p) == ~scl /\ Shown(0)

SampleLines(p) ==
  /\ sda /\ board.mode = "sends" /\ board.low = ~board.regs[board.ptr][p.bit]
  /\ board.n = IF p.line > 1 /\ ~hold THEN p.bit ELSE p.bit - 1
  /\ p.line = 1 => ~scl
  /\ p.line > 1 => scl
  /\ p.line > 2 => ~hold

GotLines == ~scl /\ board.mode = "sends" /\ board.n = Bits /\ ~board.low

ReplyLines(c, p) ==
  /\ p.line \in {1, 2} => GotLines
  /\ p.line = 3 => GotLines /\ sda = (p.n = c.in)
  /\ p.line \in {4, 5} => /\ scl /\ board.mode = "sends" /\ ~board.low /\ sda = (p.n = c.in)
                          /\ board.n = IF hold THEN Bits ELSE Bits + 1
                          /\ ~hold => board.more = ~sda
  /\ p.line = 5 => ~hold
  /\ p.line = 6 => ~scl /\ IF p.n = c.in THEN Refuses ELSE Shown(0)

StopLines(p) ==
  /\ p.line \in {1, 2} => (~scl /\ ~board.low) \/ Rest
  /\ p.line = 3 => ~sda /\ ~board.low /\ (scl => ~hold)
  /\ p.line = 4 => scl /\ ~sda /\ ~board.low
  /\ p.line = 5 => SCL /\ ~sda /\ ~board.low
  /\ p.line = 6 => Rest

Lines(c, p) ==
  /\ p.fn = "start" => StartLines(p)
  /\ p.fn = "restart" => RestartLines(p)
  /\ p.fn = "send" => SendLines(c, p)
  /\ p.fn = "shift" => ShiftLines(c, p)
  /\ p.fn = "answer" => AnswerLines(c, p)
  /\ p.fn = "refused" => RefusedLines(p)
  /\ p.fn = "get" => GetLines(p)
  /\ p.fn = "sample" => SampleLines(p)
  /\ p.fn = "got" => GotLines
  /\ p.fn = "reply" => ReplyLines(c, p)
  /\ p.fn = "stop" => StopLines(p)
  /\ p.fn = "return" => Rest

(* The last bit of an address tells whether the master is going to read.   *)
LEMMA AddressBit ==
  ASSUME NEW c \in Call, NEW n \in 1..Last(c) + 1, n = 1 \/ n > Last(c)
  PROVE  /\ n > Last(c) => Sent(c, n)[Bits] = TRUE
         /\ ~(n > Last(c)) => Sent(c, n)[Bits] = FALSE
         /\ [Sent(c, n) EXCEPT ![Bits] = FALSE] = c.addr
<1>1. c.addr \in Bytes /\ c.addr[Bits] = FALSE
  BY CallFields, BitOfByte, LastBit DEF Addresses
<1>2. CASE n > Last(c)
  <2>1. Sent(c, n) = [c.addr EXCEPT ![Bits] = TRUE]
    BY <1>2 DEF Sent
  <2>2. QED
    BY <1>1, <1>2, <2>1, LastBit DEF Bytes
<1>3. CASE ~(n > Last(c))
  <2>1. n \in 1..Last(c) /\ Sent(c, n) = c.addr
    BY <1>3, CallFields, Sends
  <2>2. QED
    BY <1>1, <1>3, <2>1, LastBit DEF Bytes
<1>4. QED
  BY <1>2, <1>3

(* The board takes no notice.                                              *)
LEMMA FallNothing ==
  ASSUME Fall, board.n \in Nat,
         \/ board.mode \in Receiving /\ board.n < Bits
         \/ board.mode \in {"idle", "waits"}
  PROVE  board' = board
BY Parameters DEF Fall, Receiving

LEMMA FallTakes ==
  ASSUME Fall, board.mode \in Receiving, board.n = Bits
  PROVE  \/ board' = Rests
         \/ /\ board' = Accepts
            /\ board.mode = "address" => [board.shift EXCEPT ![Bits] = FALSE] = Own
BY Parameters DEF Fall, Receiving

LEMMA FallGoesOn ==
  ASSUME Fall, board.mode \in Receiving, board.n = Bits + 1
  PROVE  board' = AfterByte
BY Parameters DEF Fall, Receiving

LEMMA FallSends ==
  ASSUME Fall, board.mode = "sends", board.n \in Nat
  PROVE  /\ board.n < Bits => board' = Shows(board.ptr, board.n)
         /\ board.n = Bits => board' = [board EXCEPT !.low = FALSE]
         /\ board.n = Bits + 1 => board' = IF board.more THEN Shows(NextReg, 0) ELSE Rests
BY Parameters DEF Fall, Receiving

LEMMA ModeReceives ==
  ASSUME NEW c, NEW n
  PROVE  Mode(c, n) \in Receiving
BY DEF Mode, Receiving

(* A call at p whose next step is this one leaves the lines as they should *)
(* be after it.                                                            *)
LEMMA ClearLines ==
  ASSUME NEW c \in Call, NEW p \in Place, Sound(c, p), Lines(c, p), LineTypes,
         Op(p) = "scl0", scl' = FALSE, sda' = sda, IF SCL THEN Fall ELSE board' = board
  PROVE  Lines(c, After(c, p))'
<1> DEFINE q == After(c, p)
<1>0. board \in Board /\ board.n \in Nat /\ Bits \in Nat /\ Bits > 0
  BY Parameters DEF LineTypes, Board
<1>1. CASE p.fn = "start"
  <2>1. p.line = 3 /\ Leads(c, p, "start", 4, p.n, p.bit)
    BY <1>1, StartLeads
  <2>2. SCL /\ Fresh("address")
    BY <1>1, <2>1 DEF Lines, StartLines
  <2>3. board' = board
    BY <1>0, <2>2, FallNothing DEF Fresh, Receiving
  <2>4. StartLines(q)'
    BY <2>1, <2>2, <2>3 DEF StartLines, Leads, Fresh
  <2>5. QED
    BY <2>1, <2>4 DEF Lines, Leads
<1>2. CASE p.fn = "restart"
  <2>1. p.line = 6 /\ Leads(c, p, "restart", 7, p.n, p.bit)
    BY <1>2, RestartLeads
  <2>2. SCL /\ Fresh("address")
    BY <1>2, <2>1 DEF Lines, RestartLines
  <2>3. board' = board
    BY <1>0, <2>2, FallNothing DEF Fresh, Receiving
  <2>4. RestartLines(q)'
    BY <2>1, <2>2, <2>3 DEF RestartLines, Leads, Fresh
  <2>5. QED
    BY <2>1, <2>4 DEF Lines, Leads
<1>3. CASE p.fn = "shift" /\ p.bit < Bits
  <2>1. p.line = 4 /\ Leads(c, p, "shift", 1, p.n, p.bit + 1)
    BY <1>0, <1>3, ShiftLeads
  <2>2. SCL /\ board.mode = Mode(c, p.n) /\ ~board.low /\ Prefix(c, p.n, p.bit)
    BY <1>3, <2>1 DEF Lines, ShiftLines, SCL
  <2>3. board' = board
    BY <1>0, <1>3, <2>2, FallNothing, ModeReceives DEF Prefix
  <2>4. p.bit \in Nat /\ (p.bit + 1) - 1 = p.bit
    BY DEF Place
  <2>5. Prefix(c, p.n, p.bit)'
    BY <2>2, <2>3 DEF Prefix
  <2>6. ShiftLines(c, q)'
    BY <2>1, <2>2, <2>3, <2>4, <2>5 DEF ShiftLines, Leads
  <2>7. QED
    BY <2>1, <2>6 DEF Lines, Leads
<1>4. CASE p.fn = "shift" /\ ~(p.bit < Bits)
  <2>1. p.line = 4 /\ p.bit = Bits /\ Leads(c, p, "answer", 1, p.n, 1)
    BY <1>4, ShiftLeads
  <2>2. SCL /\ board.mode = Mode(c, p.n) /\ ~board.low /\ Prefix(c, p.n, Bits)
    BY <1>4, <2>1 DEF Lines, ShiftLines, SCL
  <2>3. board.shift = Sent(c, p.n)
    <3>1. board.shift \in Bytes /\ Sent(c, p.n) \in Bytes
      BY <1>4, SentByte DEF LineTypes, Board, Sound, Sending
    <3>2. \A k \in 1..Bits : board.shift[k] = Sent(c, p.n)[k]
      BY <2>2 DEF Prefix
    <3>3. QED
      BY <3>1, <3>2, SameByte
  <2>4. board.mode \in Receiving /\ board.n = Bits
    BY <2>2, ModeReceives DEF Prefix
  <2>5. Refuses' \/ Took(c, p.n, Bits)'
    <3>1. CASE board' = Rests
      BY <1>0, <3>1 DEF Rests, Refuses, Board
    <3>2. CASE board' = Accepts
      <4>1. board'.mode = board.mode /\ board'.low = TRUE /\ board'.n = board.n
            /\ board'.shift = board.shift
        BY <1>0, <2>4, <3>2 DEF Accepts, Board, Receiving
      <4>2. QED
        BY <2>2, <2>3, <2>4, <4>1 DEF Took
    <3>3. QED
      BY <2>2, <2>4, <3>1, <3>2, FallTakes
  <2>6. AnswerLines(c, q)'
    BY <2>1, <2>5 DEF AnswerLines, Leads
  <2>7. QED
    BY <2>1, <2>6 DEF Lines, Leads
<1>5. CASE p.fn = "answer"
  <2>1. p.line = 5 /\ Leads(c, p, "answer", 6, p.n, p.bit)
    BY <1>5, AnswerLeads
  <2>2. SCL /\ Took(c, p.n, Bits + 1)
    BY <1>5, <2>1 DEF Lines, AnswerLines
  <2>3. board' = AfterByte
    BY <2>2, FallGoesOn, ModeReceives DEF Took
  <2>4. p.n \in 1..Last(c) + 1
    BY <1>5 DEF Sound, Sending
  <2>5. CASE p.n > Last(c)
    <3>1. board.mode = "address" /\ board.shift[Bits] = TRUE
      BY <2>2, <2>4, <2>5, AddressBit DEF Took, Mode
    <3>2. board' = Shows(board.ptr, 0)
      BY <2>3, <3>1 DEF AfterByte
    <3>3. Shown(0)'
      BY <1>0, <3>2 DEF Shown, Shows, Board
    <3>4. AnswerLines(c, q)'
      BY <2>1, <2>5, <3>3 DEF AnswerLines, Leads
    <3>5. QED
      BY <2>1, <3>4 DEF Lines, Leads
  <2>6. CASE ~(p.n > Last(c))
    <3> DEFINE m == IF p.n = 1 THEN "register" ELSE "data"
    <3>1. board' = Expects(m)
      <4>1. CASE p.n = 1
        <5>1. board.mode = "address" /\ ~board.shift[Bits]
          BY <2>2, <2>4, <2>6, <4>1, AddressBit DEF Took, Mode
        <5>2. QED
          BY <2>3, <4>1, <5>1 DEF AfterByte
      <4>2. CASE p.n # 1
        <5>1. board.mode \in {"register", "data"}
          BY <2>2, <2>6, <4>2 DEF Took, Mode
        <5>2. QED
          BY <2>3, <4>2, <5>1 DEF AfterByte
      <4>3. QED
        BY <4>1, <4>2
    <3>2. Fresh(m)'
      BY <1>0, <3>1 DEF Fresh, Expects, Board
    <3>3. AnswerLines(c, q)'
      BY <2>1, <2>6, <3>2 DEF AnswerLines, Leads
    <3>4. QED
      BY <2>1, <3>3 DEF Lines, Leads
  <2>7. QED
    BY <2>5, <2>6
<1>6. CASE p.fn = "refused"
  <2>1. p.line = 1 /\ Leads(c, p, "refused", 2, p.n, p.bit)
    BY <1>6, RefusedLeads
  <2>2. SCL /\ Refuses
    BY <1>6, <2>1 DEF Lines, RefusedLines
  <2>3. board' = board
    BY <1>0, <2>2, FallNothing DEF Refuses
  <2>4. RefusedLines(q)'
    BY <2>1, <2>2, <2>3 DEF RefusedLines, Leads, Refuses
  <2>5. QED
    BY <2>1, <2>4 DEF Lines, Leads
<1>7. CASE p.fn = "sample"
  <2>1. p.line = 4 /\ p.bit \in Nat /\ p.bit > 0 /\ p.bit <= Bits
    BY <1>7, SampleLeads DEF Place
  <2>2. SCL /\ sda /\ board.mode = "sends" /\ board.n = p.bit
    BY <1>7, <2>1 DEF Lines, SampleLines, SCL
  <2>3. CASE p.bit < Bits
    <3>1. Leads(c, p, "sample", 1, p.n, p.bit + 1)
      BY <1>7, <2>1, <2>3, SampleLeads
    <3>2. board' = Shows(board.ptr, p.bit)
      BY <1>0, <2>2, <2>3, FallSends
    <3>3. SampleLines(q)'
      BY <1>0, <2>1, <2>2, <3>1, <3>2 DEF SampleLines, Leads, Shows, Board
    <3>4. QED
      BY <3>1, <3>3 DEF Lines, Leads
  <2>4. CASE p.bit = Bits
    <3>1. Leads(c, p, "got", 1, p.n, 1)
      BY <1>7, <2>1, <2>4, SampleLeads
    <3>2. board' = [board EXCEPT !.low = FALSE]
      BY <1>0, <2>2, <2>4, FallSends
    <3>3. GotLines'
      BY <1>0, <2>2, <2>4, <3>2 DEF GotLines, Board
    <3>4. QED
      BY <3>1, <3>3 DEF Lines, Leads
  <2>5. QED
    BY <1>0, <2>1, <2>3, <2>4
<1>8. CASE p.fn = "reply"
  <2>1. p.line = 5 /\ Leads(c, p, "reply", 6, p.n, p.bit)
    BY <1>8, ReplyLeads
  <2>2. /\ SCL /\ board.mode = "sends" /\ board.n = Bits + 1
        /\ board.more = ~sda /\ sda = (p.n = c.in)
    BY <1>8, <2>1 DEF Lines, ReplyLines, SCL
  <2>3. board' = IF board.more THEN Shows(NextReg, 0) ELSE Rests
    BY <1>0, <2>2, FallSends
  <2>4. IF p.n = c.in THEN Refuses' ELSE Shown(0)'
    BY <1>0, <2>2, <2>3 DEF Refuses, Shown, Shows, Rests, Board
  <2>5. ReplyLines(c, q)'
    BY <2>1, <2>4 DEF ReplyLines, Leads
  <2>6. QED
    BY <2>1, <2>5 DEF Lines, Leads
<1>9. CASE p.fn \in {"idle", "call", "send", "get", "got", "stop", "return"}
  BY <1>9, Ops, Lengths DEF Functions, Sound
<1>10. QED
  BY <1>1, <1>2, <1>3, <1>4, <1>5, <1>6, <1>7, <1>8, <1>9 DEF Place, Functions

(* What SCL changes when it rises.                                         *)
LEMMA RiseDoes ==
  ASSUME board \in Board, Rise
  PROVE  /\ board'.mode = board.mode /\ board'.low = board.low
         /\ board'.ptr = board.ptr /\ board'.regs = board.regs
         /\ board.mode \in Receiving \cup {"sends"} => board'.n = board.n + 1
         /\ board.mode \notin Receiving \cup {"sends"} => board'.n = board.n
         /\ board.mode \in Receiving /\ board.n < Bits =>
              board'.shift = [board.shift EXCEPT ![board.n + 1] = SDA]
         /\ ~(board.mode \in Receiving /\ board.n < Bits) => board'.shift = board.shift
         /\ board.mode = "sends" /\ board.n = Bits => board'.more = ~sda
<1> DEFINE n == IF board.mode \in Receiving \cup {"sends"} THEN board.n + 1 ELSE board.n
           s == IF board.mode \in Receiving /\ board.n < Bits
                THEN [board.shift EXCEPT ![board.n + 1] = SDA] ELSE board.shift
           m == IF board.mode = "sends" /\ board.n = Bits THEN ~sda ELSE board.more
<1>1. board' = [board EXCEPT !.n = n, !.shift = s, !.more = m]
  BY DEF Rise
<1>2. /\ board.mode \in Receiving \cup {"sends"} => n = board.n + 1
      /\ board.mode \notin Receiving \cup {"sends"} => n = board.n
  OBVIOUS
<1>3. /\ board.mode \in Receiving /\ board.n < Bits =>
           s = [board.shift EXCEPT ![board.n + 1] = SDA]
      /\ ~(board.mode \in Receiving /\ board.n < Bits) => s = board.shift
  OBVIOUS
<1>4. board.mode = "sends" /\ board.n = Bits => m = ~sda
  OBVIOUS
<1> HIDE DEF n, s, m
<1>5. /\ board'.mode = board.mode /\ board'.low = board.low
      /\ board'.ptr = board.ptr /\ board'.regs = board.regs
      /\ board'.n = n /\ board'.shift = s /\ board'.more = m
  BY <1>1 DEF Board
<1>6. QED
  BY <1>2, <1>3, <1>4, <1>5

(* After a bit, and after the answer's clock, has risen.                   *)
LEMMA ShiftRises ==
  ASSUME board \in Board, Rise, NEW c, NEW n, NEW k \in 1..Bits,
         board.mode = Mode(c, n), ~board.low,
         Prefix(c, n, k - 1), sda = Sent(c, n)[k], sda \in BOOLEAN
  PROVE  board'.mode = Mode(c, n) /\ ~board'.low /\ Prefix(c, n, k)'
<1>1. board.n = k - 1 /\ board.n < Bits /\ board.mode \in Receiving /\ board.n + 1 = k
  BY Parameters, ModeReceives DEF Prefix
<1>2. board'.n = k /\ board'.shift = [board.shift EXCEPT ![k] = SDA]
  BY <1>1, RiseDoes
<1>3. SDA = Sent(c, n)[k]
  BY DEF SDA
<1>4. \A i \in 1..k : board'.shift[i] = Sent(c, n)[i]
  <2>1. board.shift \in [1..Bits -> BOOLEAN]
    BY DEF Board, Bytes
  <2>2. ASSUME NEW i \in 1..k, i # k
        PROVE  board'.shift[i] = Sent(c, n)[i]
    <3>1. i \in 1..k - 1
      BY <2>2
    <3>2. board.shift[i] = Sent(c, n)[i]
      BY <3>1 DEF Prefix
    <3>3. board'.shift[i] = board.shift[i]
      BY <1>2, <2>1, <2>2
    <3>4. QED
      BY <3>2, <3>3
  <2>3. board'.shift[k] = Sent(c, n)[k]
    BY <1>2, <1>3, <2>1
  <2>4. QED
    BY <2>2, <2>3
<1>5. QED
  BY <1>1, <1>2, <1>4, RiseDoes DEF Prefix

LEMMA AnswerRises ==
  ASSUME board \in Board, Rise, NEW c, NEW n, Refuses \/ Took(c, n, Bits)
  PROVE  Refuses' \/ Took(c, n, Bits + 1)'
<1>1. CASE Refuses
  BY <1>1, RiseDoes DEF Refuses
<1>2. CASE Took(c, n, Bits)
  <2>1. board.mode \in Receiving /\ ~(board.n < Bits)
    BY <1>2, Parameters, ModeReceives DEF Took
  <2>2. QED
    BY <1>2, <2>1, RiseDoes DEF Took
<1>3. QED
  BY <1>1, <1>2

(* The same for the steps that let SCL go, wait for it, read SDA, lock or  *)
(* unlock.                                                                 *)
LEMMA SetLines ==
  ASSUME NEW c \in Call, NEW p \in Place, Sound(c, p), Lines(c, p), LineTypes,
         Op(p) = "scl1", scl' = TRUE, sda' = sda, hold' = hold,
         IF ~scl /\ ~hold THEN Rise ELSE board' = board
  PROVE  Lines(c, After(c, p))'
<1> DEFINE q == After(c, p)
<1>0. board \in Board /\ board.n \in Nat /\ sda \in BOOLEAN /\ Bits \in Nat /\ Bits > 0
  BY Parameters DEF LineTypes, Board
<1>1. CASE p.fn = "restart"
  <2>1. p.line = 3 /\ Leads(c, p, "restart", 4, p.n, p.bit)
    BY <1>1, RestartLeads
  <2>2. ~scl /\ sda /\ ~board.low
    BY <1>1, <2>1 DEF Lines, RestartLines
  <2>3. RestartLines(q)'
    BY <1>0, <2>1, <2>2, RiseDoes DEF RestartLines, Leads
  <2>4. QED
    BY <2>1, <2>3 DEF Lines, Leads
<1>2. CASE p.fn = "shift"
  <2>1. p.line = 2 /\ Leads(c, p, "shift", 3, p.n, p.bit) /\ p.bit \in 1..Bits
    BY <1>2, ShiftLeads DEF Place
  <2>2. /\ ~scl /\ board.mode = Mode(c, p.n) /\ ~board.low
        /\ Prefix(c, p.n, p.bit - 1) /\ sda = Sent(c, p.n)[p.bit]
    BY <1>2, <2>1 DEF Lines, ShiftLines
  <2>3. CASE hold
    <3>1. Prefix(c, p.n, p.bit - 1)'
      BY <2>2, <2>3 DEF Prefix
    <3>2. ShiftLines(c, q)'
      BY <2>1, <2>2, <2>3, <3>1 DEF ShiftLines, Leads
    <3>3. QED
      BY <2>1, <3>2 DEF Lines, Leads
  <2>4. CASE ~hold
    <3>1. board'.mode = Mode(c, p.n) /\ ~board'.low /\ Prefix(c, p.n, p.bit)'
      BY <1>0, <2>1, <2>2, <2>4, ShiftRises
    <3>2. ShiftLines(c, q)'
      BY <2>1, <2>2, <2>4, <3>1 DEF ShiftLines, Leads
    <3>3. QED
      BY <2>1, <3>2 DEF Lines, Leads
  <2>5. QED
    BY <2>3, <2>4
<1>3. CASE p.fn = "answer"
  <2>1. p.line = 2 /\ Leads(c, p, "answer", 3, p.n, p.bit)
    BY <1>3, AnswerLeads
  <2>2. ~scl /\ (Refuses \/ Took(c, p.n, Bits)) /\ sda
    BY <1>3, <2>1 DEF Lines, AnswerLines
  <2>3. CASE hold
    <3>1. Refuses' \/ Took(c, p.n, Bits)'
      BY <2>2, <2>3 DEF Refuses, Took
    <3>2. AnswerLines(c, q)'
      BY <2>1, <2>2, <2>3, <3>1 DEF AnswerLines, Leads
    <3>3. QED
      BY <2>1, <3>2 DEF Lines, Leads
  <2>4. CASE ~hold
    <3>1. Refuses' \/ Took(c, p.n, Bits + 1)'
      BY <1>0, <2>2, <2>4, AnswerRises
    <3>2. AnswerLines(c, q)'
      BY <2>1, <2>2, <2>4, <3>1 DEF AnswerLines, Leads
    <3>3. QED
      BY <2>1, <3>2 DEF Lines, Leads
  <2>5. QED
    BY <2>3, <2>4
<1>4. CASE p.fn = "refused"
  <2>1. p.line = 4 /\ Leads(c, p, "refused", 5, p.n, p.bit)
    BY <1>4, RefusedLeads
  <2>2. ~scl /\ ~sda /\ Refuses
    BY <1>4, <2>1 DEF Lines, RefusedLines
  <2>3. Refuses'
    BY <1>0, <2>2, RiseDoes DEF Refuses
  <2>4. RefusedLines(q)'
    BY <2>1, <2>2, <2>3 DEF RefusedLines, Leads
  <2>5. QED
    BY <2>1, <2>4 DEF Lines, Leads
<1>5. CASE p.fn = "sample"
  <2>1. p.line = 1 /\ Leads(c, p, "sample", 2, p.n, p.bit) /\ p.bit \in 1..Bits
    BY <1>5, SampleLeads DEF Place
  <2>2. /\ ~scl /\ sda /\ board.mode = "sends" /\ board.n = p.bit - 1
        /\ board.low = ~board.regs[board.ptr][p.bit]
    BY <1>5, <2>1 DEF Lines, SampleLines
  <2>3. /\ board'.mode = "sends" /\ board'.low = board.low /\ board'.ptr = board.ptr
        /\ board'.regs = board.regs /\ board'.n = IF hold THEN p.bit - 1 ELSE p.bit
    BY <1>0, <2>1, <2>2, RiseDoes
  <2>4. SampleLines(q)'
    BY <2>1, <2>2, <2>3 DEF SampleLines, Leads
  <2>5. QED
    BY <2>1, <2>4 DEF Lines, Leads
<1>6. CASE p.fn = "reply"
  <2>1. p.line = 3 /\ Leads(c, p, "reply", 4, p.n, p.bit)
    BY <1>6, ReplyLeads
  <2>2. ~scl /\ board.mode = "sends" /\ board.n = Bits /\ ~board.low /\ sda = (p.n = c.in)
    BY <1>6, <2>1 DEF Lines, ReplyLines, GotLines
  <2>3. /\ board'.mode = "sends" /\ ~board'.low /\ board'.n = (IF hold THEN Bits ELSE Bits + 1)
        /\ ~hold => board'.more = ~sda
    BY <1>0, <2>2, RiseDoes
  <2>4. ReplyLines(c, q)'
    BY <2>1, <2>2, <2>3 DEF ReplyLines, Leads
  <2>5. QED
    BY <2>1, <2>4 DEF Lines, Leads
<1>7. CASE p.fn = "stop"
  <2>1. p.line = 3 /\ Leads(c, p, "stop", 4, p.n, p.bit)
    BY <1>7, StopLeads
  <2>2. ~sda /\ ~board.low
    BY <1>7, <2>1 DEF Lines, StopLines
  <2>3. StopLines(q)'
    BY <1>0, <2>1, <2>2, RiseDoes DEF StopLines, Leads
  <2>4. QED
    BY <2>1, <2>3 DEF Lines, Leads
<1>8. CASE p.fn \in {"idle", "call", "start", "send", "get", "got", "return"}
  BY <1>8, Ops, Lengths DEF Functions, Sound
<1>9. QED
  BY <1>1, <1>2, <1>3, <1>4, <1>5, <1>6, <1>7, <1>8 DEF Place, Functions

LEMMA WaitLines ==
  ASSUME NEW c \in Call, NEW p \in Place, Sound(c, p), Lines(c, p),
         Op(p) = "wait", ~hold
  PROVE  Lines(c, After(c, p))
<1> DEFINE q == After(c, p)
<1>1. CASE p.fn = "restart"
  <2>1. p.line = 4 /\ Leads(c, p, "restart", 5, p.n, p.bit)
    BY <1>1, RestartLeads
  <2>2. RestartLines(q)
    BY <1>1, <2>1 DEF Lines, RestartLines, Leads, SCL
  <2>3. QED
    BY <2>1, <2>2 DEF Lines, Leads
<1>2. CASE p.fn = "shift"
  <2>1. p.line = 3 /\ Leads(c, p, "shift", 4, p.n, p.bit)
    BY <1>2, ShiftLeads
  <2>2. ShiftLines(c, q)
    BY <1>2, <2>1 DEF Lines, ShiftLines, Leads
  <2>3. QED
    BY <2>1, <2>2 DEF Lines, Leads
<1>3. CASE p.fn = "answer"
  <2>1. p.line = 3 /\ Leads(c, p, "answer", 4, p.n, p.bit)
    BY <1>3, AnswerLeads
  <2>2. AnswerLines(c, q)
    BY <1>3, <2>1 DEF Lines, AnswerLines, Leads, SCL
  <2>3. QED
    BY <2>1, <2>2 DEF Lines, Leads
<1>4. CASE p.fn = "refused"
  <2>1. p.line = 5 /\ Leads(c, p, "refused", 6, p.n, p.bit)
    BY <1>4, RefusedLeads
  <2>2. RefusedLines(q)
    BY <1>4, <2>1 DEF Lines, RefusedLines, Leads, SCL
  <2>3. QED
    BY <2>1, <2>2 DEF Lines, Leads
<1>5. CASE p.fn = "sample"
  <2>1. p.line = 2 /\ Leads(c, p, "sample", 3, p.n, p.bit)
    BY <1>5, SampleLeads
  <2>2. SampleLines(q)
    BY <1>5, <2>1 DEF Lines, SampleLines, Leads
  <2>3. QED
    BY <2>1, <2>2 DEF Lines, Leads
<1>6. CASE p.fn = "reply"
  <2>1. p.line = 4 /\ Leads(c, p, "reply", 5, p.n, p.bit)
    BY <1>6, ReplyLeads
  <2>2. ReplyLines(c, q)
    BY <1>6, <2>1 DEF Lines, ReplyLines, Leads
  <2>3. QED
    BY <2>1, <2>2 DEF Lines, Leads
<1>7. CASE p.fn = "stop"
  <2>1. p.line = 4 /\ Leads(c, p, "stop", 5, p.n, p.bit)
    BY <1>7, StopLeads
  <2>2. StopLines(q)
    BY <1>7, <2>1 DEF Lines, StopLines, Leads, SCL
  <2>3. QED
    BY <2>1, <2>2 DEF Lines, Leads
<1>8. CASE p.fn \in {"idle", "call", "start", "send", "get", "got", "return"}
  BY <1>8, Ops, Lengths DEF Functions, Sound
<1>9. QED
  BY <1>1, <1>2, <1>3, <1>4, <1>5, <1>6, <1>7, <1>8 DEF Place, Functions

LEMMA AckLines ==
  ASSUME NEW c \in Call, NEW p \in Place, Sound(c, p), Lines(c, p), Op(p) = "ack"
  PROVE  /\ p.fn = "answer"
         /\ ~SDA => Lines(c, After(c, p))
         /\ SDA => Lines(c, Enters("refused", p.n))
<1>1. p.fn = "answer"
  BY Ops, Lengths DEF Functions, Sound, Place
<1>2. p.line = 4 /\ Leads(c, p, "answer", 5, p.n, p.bit)
  BY <1>1, AnswerLeads
<1>3. SCL /\ (Refuses \/ Took(c, p.n, Bits + 1)) /\ sda
  BY <1>1, <1>2 DEF Lines, AnswerLines
<1>4. ASSUME ~SDA PROVE Lines(c, After(c, p))
  <2>1. AnswerLines(c, After(c, p))
    BY <1>2, <1>3, <1>4 DEF AnswerLines, Leads, SDA, Refuses
  <2>2. QED
    BY <1>2, <2>1 DEF Lines, Leads
<1>5. ASSUME SDA PROVE Lines(c, Enters("refused", p.n))
  <2> DEFINE q == Enters("refused", p.n)
  <2>1. q.fn = "refused" /\ q.line = 1
    BY Entered
  <2> HIDE DEF q
  <2>2. RefusedLines(q)
    BY <1>3, <1>5, <2>1 DEF RefusedLines, SDA, Took
  <2>3. Lines(c, q)
    BY <2>1, <2>2 DEF Lines
  <2>4. QED
    BY <2>3 DEF q
<1>6. QED
  BY <1>1, <1>4, <1>5

LEMMA BitLines ==
  ASSUME NEW c \in Call, NEW p \in Place, Sound(c, p), Lines(c, p), Op(p) = "bit"
  PROVE  p.fn = "sample" /\ p.line = 3 /\ Lines(c, After(c, p))
<1>1. p.fn = "sample"
  BY Ops, Lengths DEF Functions, Sound, Place
<1>2. p.line = 3 /\ Leads(c, p, "sample", 4, p.n, p.bit)
  BY <1>1, SampleLeads
<1>3. SampleLines(After(c, p))
  BY <1>1, <1>2 DEF Lines, SampleLines, Leads
<1>4. QED
  BY <1>1, <1>2, <1>3 DEF Lines, Leads

LEMMA LockLines ==
  ASSUME NEW c \in Call, NEW p \in Place, Sound(c, p), Lines(c, p), Op(p) = "lock",
         p.fn = "call" => Rest
  PROVE  Lines(c, After(c, p))
<1> DEFINE q == After(c, p)
<1>1. CASE p.fn = "call"
  <2>1. Leads(c, p, "start", 1, 0, 1)
    BY <1>1, CallLeads
  <2>2. StartLines(q)
    BY <1>1, <2>1 DEF StartLines, Leads
  <2>3. QED
    BY <2>1, <2>2 DEF Lines, Leads
<1>2. CASE p.fn = "start"
  <2>1. p.line = 1 /\ Leads(c, p, "start", 2, p.n, p.bit)
    BY <1>2, StartLeads
  <2>2. StartLines(q)
    BY <1>2, <2>1 DEF Lines, StartLines, Leads
  <2>3. QED
    BY <2>1, <2>2 DEF Lines, Leads
<1>3. CASE p.fn = "restart"
  <2>1. p.line = 1 /\ Leads(c, p, "restart", 2, p.n, p.bit)
    BY <1>3, RestartLeads
  <2>2. RestartLines(q)
    BY <1>3, <2>1 DEF Lines, RestartLines, Leads
  <2>3. QED
    BY <2>1, <2>2 DEF Lines, Leads
<1>4. CASE p.fn = "send"
  <2>1. p.line = 1 /\ Leads(c, p, "shift", 1, p.n, 1)
    BY <1>4, SendLeads
  <2>2. ~scl /\ Fresh(Mode(c, p.n))
    BY <1>4 DEF Lines, SendLines
  <2>3. Prefix(c, p.n, 0)
    BY <2>2 DEF Prefix, Fresh
  <2>4. ShiftLines(c, q)
    BY <2>1, <2>2, <2>3 DEF ShiftLines, Leads, Fresh
  <2>5. QED
    BY <2>1, <2>4 DEF Lines, Leads
<1>5. CASE p.fn = "refused"
  <2>1. p.line = 2 /\ Leads(c, p, "refused", 3, p.n, p.bit)
    BY <1>5, RefusedLeads
  <2>2. RefusedLines(q)
    BY <1>5, <2>1 DEF Lines, RefusedLines, Leads
  <2>3. QED
    BY <2>1, <2>2 DEF Lines, Leads
<1>6. CASE p.fn = "get"
  <2>1. p.line = 1 /\ Leads(c, p, "get", 2, p.n, p.bit)
    BY <1>6, GetLeads
  <2>2. QED
    BY <1>6, <2>1 DEF Lines, GetLines, Leads
<1>7. CASE p.fn = "reply"
  <2>1. p.line = 1 /\ Leads(c, p, "reply", 2, p.n, p.bit)
    BY <1>7, ReplyLeads
  <2>2. ReplyLines(c, q)
    BY <1>7, <2>1 DEF Lines, ReplyLines, Leads
  <2>3. QED
    BY <2>1, <2>2 DEF Lines, Leads
<1>8. CASE p.fn = "stop"
  <2>1. p.line = 1 /\ Leads(c, p, "stop", 2, p.n, p.bit)
    BY <1>8, StopLeads
  <2>2. StopLines(q)
    BY <1>8, <2>1 DEF Lines, StopLines, Leads
  <2>3. QED
    BY <2>1, <2>2 DEF Lines, Leads
<1>9. CASE p.fn \in {"idle", "shift", "answer", "sample", "got", "return"}
  BY <1>9, Ops, Lengths DEF Functions, Sound
<1>10. QED
  BY <1>1, <1>2, <1>3, <1>4, <1>5, <1>6, <1>7, <1>8, <1>9 DEF Place, Functions

LEMMA UnlockLines ==
  ASSUME NEW c \in Call, NEW p \in Place, Sound(c, p), Lines(c, p), Op(p) = "unlock"
  PROVE  Lines(c, After(c, p)) /\ (After(c, p).fn = "idle" => Rest)
<1> DEFINE q == After(c, p)
<1>1. CASE p.fn = "start"
  <2>1. p.line = 4 /\ Leads(c, p, "send", 1, 1, 1)
    BY <1>1, StartLeads
  <2>2. SendLines(c, q)
    BY <1>1, <2>1 DEF Lines, StartLines, SendLines, Mode, Leads
  <2>3. QED
    BY <2>1, <2>2 DEF Lines, Leads
<1>2. CASE p.fn = "restart"
  <2>1. p.line = 7 /\ Leads(c, p, "send", 1, Last(c) + 1, 1)
    BY <1>2, RestartLeads
  <2>2. SendLines(c, q)
    BY <1>2, <2>1, CallFields DEF Lines, RestartLines, SendLines, Mode, Leads
  <2>3. QED
    BY <2>1, <2>2 DEF Lines, Leads
<1>3. CASE p.fn = "answer"
  <2>1. p.line = 6 /\ p.n \in Nat /\ p.n > 0 /\ Last(c) \in Nat
    BY <1>3, AnswerLeads, CallFields DEF Sound, Sending, Place
  <2>2. /\ ~scl
        /\ IF p.n > Last(c) THEN Shown(0) ELSE Fresh(IF p.n = 1 THEN "register" ELSE "data")
    BY <1>3, <2>1 DEF Lines, AnswerLines
  <2>3. CASE p.n < Last(c)
    <3>1. Leads(c, p, "send", 1, p.n + 1, 1)
      BY <1>3, <2>1, <2>3, AnswerLeads
    <3>2. Mode(c, p.n + 1) = IF p.n = 1 THEN "register" ELSE "data"
      BY <2>1, <2>3 DEF Mode
    <3>3. SendLines(c, q)
      BY <2>1, <2>2, <2>3, <3>1, <3>2 DEF SendLines, Leads
    <3>4. QED
      BY <3>1, <3>3 DEF Lines, Leads
  <2>4. CASE p.n = Last(c)
    <3>1. ~board.low
      BY <2>1, <2>2, <2>4 DEF Fresh
    <3>2. CASE c.in > 0
      <4>1. Leads(c, p, "restart", 1, 0, 1)
        BY <1>3, <2>1, <2>4, <3>2, AnswerLeads
      <4>2. RestartLines(q)
        BY <2>2, <3>1, <4>1 DEF RestartLines, Leads
      <4>3. QED
        BY <4>1, <4>2 DEF Lines, Leads
    <3>3. CASE ~(c.in > 0)
      <4>1. Leads(c, p, "stop", 1, 0, 1)
        BY <1>3, <2>1, <2>4, <3>3, AnswerLeads
      <4>2. StopLines(q)
        BY <2>2, <3>1, <4>1 DEF StopLines, Leads
      <4>3. QED
        BY <4>1, <4>2 DEF Lines, Leads
    <3>4. QED
      BY <3>2, <3>3
  <2>5. CASE p.n > Last(c)
    <3>1. Leads(c, p, "get", 1, 1, 1)
      BY <1>3, <2>1, <2>5, AnswerLeads
    <3>2. GetLines(q)
      BY <2>2, <2>5 DEF GetLines
    <3>3. QED
      BY <3>1, <3>2 DEF Lines, Leads
  <2>6. QED
    BY <2>1, <2>3, <2>4, <2>5
<1>4. CASE p.fn = "refused"
  <2>1. \/ p.line = 7 /\ Leads(c, p, "refused", 8, p.n, p.bit)
        \/ p.line = 8 /\ Leads(c, p, "stop", 1, 0, 1)
    BY <1>4, RefusedLeads
  <2>2. Rest
    BY <1>4, <2>1 DEF Lines, RefusedLines
  <2>3. q.fn = "refused" => RefusedLines(q)
    BY <2>1, <2>2 DEF RefusedLines, Leads
  <2>4. q.fn = "stop" => StopLines(q)
    BY <2>1, <2>2 DEF StopLines, Leads
  <2>5. QED
    BY <2>1, <2>3, <2>4 DEF Lines, Leads
<1>5. CASE p.fn = "got"
  <2>1. Leads(c, p, "reply", 1, p.n, 1)
    BY <1>5, GotLeads
  <2>2. ReplyLines(c, q)
    BY <1>5, <2>1 DEF Lines, ReplyLines, Leads
  <2>3. QED
    BY <2>1, <2>2 DEF Lines, Leads
<1>6. CASE p.fn = "reply"
  <2>1. p.line = 6 /\ p.n \in 1..c.in /\ c.in \in Nat
    BY <1>6, ReplyLeads, CallFields DEF Sound, Getting
  <2>2. ~scl /\ IF p.n = c.in THEN Refuses ELSE Shown(0)
    BY <1>6, <2>1 DEF Lines, ReplyLines
  <2>3. CASE p.n < c.in
    <3>1. Leads(c, p, "get", 1, p.n + 1, 1)
      BY <1>6, <2>1, <2>3, ReplyLeads
    <3>2. GetLines(q)
      BY <2>1, <2>2, <2>3 DEF GetLines
    <3>3. QED
      BY <3>1, <3>2 DEF Lines, Leads
  <2>4. CASE ~(p.n < c.in)
    <3>1. Leads(c, p, "stop", 1, 0, 1)
      BY <1>6, <2>1, <2>4, ReplyLeads
    <3>2. StopLines(q)
      BY <2>1, <2>2, <2>4, <3>1 DEF StopLines, Refuses, Leads
    <3>3. QED
      BY <3>1, <3>2 DEF Lines, Leads
  <2>5. QED
    BY <2>3, <2>4
<1>7. CASE p.fn = "stop"
  <2>1. p.line = 6 /\ (Leads(c, p, "return", 1, 0, 1) \/ Leads(c, p, "idle", 1, 0, 1))
    BY <1>7, StopLeads
  <2>2. Rest
    BY <1>7, <2>1 DEF Lines, StopLines
  <2>3. QED
    BY <2>1, <2>2 DEF Lines, Leads
<1>8. CASE p.fn = "return"
  <2>1. Leads(c, p, "idle", 1, 0, 1)
    BY <1>8, ReturnLeads
  <2>2. QED
    BY <1>8, <2>1 DEF Lines, Leads
<1>9. CASE p.fn \in {"idle", "call", "send", "shift", "get", "sample"}
  BY <1>9, Ops, Lengths DEF Functions, Sound
<1>10. QED
  BY <1>1, <1>2, <1>3, <1>4, <1>5, <1>6, <1>7, <1>8, <1>9 DEF Place, Functions

LEMMA ExpectsDoes ==
  ASSUME board \in Board, NEW m, board' = Expects(m)
  PROVE  /\ board'.mode = m /\ board'.n = 0 /\ board'.low = FALSE
         /\ board'.ptr = board.ptr /\ board'.regs = board.regs
BY DEF Expects, Board

(* The same for those that move SDA, where a start or a stop is seen.      *)
LEMMA DataLines ==
  ASSUME NEW c \in Call, NEW p \in Place, Sound(c, p), Lines(c, p), LineTypes,
         Op(p) \in {"sda0", "sda1", "sdaBit", "sdaReply"},
         Op(p) = "sda0" => sda' = FALSE, Op(p) = "sda1" => sda' = TRUE,
         Op(p) = "sdaBit" => sda' = Sent(c, p.n)[p.bit], Op(p) = "sdaReply" => sda' = (p.n = c.in),
         scl' = scl, hold' = hold,
         IF SCL /\ ~board.low /\ sda # sda' THEN IF sda' THEN StopSeen ELSE StartSeen
         ELSE board' = board
  PROVE  Lines(c, After(c, p))'
<1> DEFINE q == After(c, p)
<1>0. board \in Board /\ sda \in BOOLEAN /\ scl \in BOOLEAN /\ hold \in BOOLEAN
  BY DEF LineTypes
<1>a. (SCL <=> SCL') /\ (~scl => board' = board)
  BY DEF SCL
<1>1. CASE p.fn = "start"
  <2>1. p.line = 2 /\ Op(p) = "sda0" /\ Leads(c, p, "start", 3, p.n, p.bit)
    BY <1>1, StartLeads
  <2>2. SCL /\ sda /\ ~board.low
    BY <1>1, <2>1 DEF Lines, StartLines, Rest, SDA
  <2>3. board' = Expects("address")
    BY <1>0, <2>1, <2>2 DEF StartSeen
  <2>4. SCL' /\ ~sda' /\ Fresh("address")'
    BY <1>0, <1>a, <2>1, <2>2, <2>3, ExpectsDoes DEF Fresh
  <2>5. StartLines(q)'
    BY <2>1, <2>4 DEF StartLines, Leads
  <2>6. QED
    BY <2>1, <2>5 DEF Lines, Leads
<1>2. CASE p.fn = "restart" /\ p.line # 5
  <2>1. p.line = 2 /\ Op(p) = "sda1" /\ Leads(c, p, "restart", 3, p.n, p.bit)
    BY <1>2, RestartLeads
  <2>2. ~scl /\ ~board.low
    BY <1>2, <2>1 DEF Lines, RestartLines
  <2>3. RestartLines(q)'
    BY <1>a, <2>1, <2>2 DEF RestartLines, Leads
  <2>4. QED
    BY <2>1, <2>3 DEF Lines, Leads
<1>3. CASE p.fn = "restart" /\ p.line = 5
  <2>1. Op(p) = "sda0" /\ Leads(c, p, "restart", 6, p.n, p.bit)
    BY <1>3, RestartLeads
  <2>2. SCL /\ sda /\ ~board.low
    BY <1>3 DEF Lines, RestartLines
  <2>3. board' = Expects("address")
    BY <1>0, <2>1, <2>2 DEF StartSeen
  <2>4. SCL' /\ ~sda' /\ Fresh("address")'
    BY <1>0, <1>a, <2>1, <2>2, <2>3, ExpectsDoes DEF Fresh
  <2>5. RestartLines(q)'
    BY <2>1, <2>4 DEF RestartLines, Leads
  <2>6. QED
    BY <2>1, <2>5 DEF Lines, Leads
<1>4. CASE p.fn = "shift"
  <2>1. p.line = 1 /\ Op(p) = "sdaBit" /\ Leads(c, p, "shift", 2, p.n, p.bit)
    BY <1>4, ShiftLeads
  <2>2. ~scl /\ board.mode = Mode(c, p.n) /\ ~board.low /\ Prefix(c, p.n, p.bit - 1)
    BY <1>4, <2>1 DEF Lines, ShiftLines
  <2>3. board' = board /\ Prefix(c, p.n, p.bit - 1)'
    BY <1>a, <2>2 DEF Prefix
  <2>4. ShiftLines(c, q)'
    BY <2>1, <2>2, <2>3 DEF ShiftLines, Leads
  <2>5. QED
    BY <2>1, <2>4 DEF Lines, Leads
<1>5. CASE p.fn = "answer"
  <2>1. p.line = 1 /\ Op(p) = "sda1" /\ Leads(c, p, "answer", 2, p.n, p.bit)
    BY <1>5, AnswerLeads
  <2>2. ~scl /\ (Refuses \/ Took(c, p.n, Bits))
    BY <1>5, <2>1 DEF Lines, AnswerLines
  <2>3. Refuses' \/ Took(c, p.n, Bits)'
    BY <1>a, <2>2 DEF Refuses, Took
  <2>4. AnswerLines(c, q)'
    BY <2>1, <2>2, <2>3 DEF AnswerLines, Leads
  <2>5. QED
    BY <2>1, <2>4 DEF Lines, Leads
<1>6. CASE p.fn = "refused" /\ p.line # 6
  <2>1. p.line = 3 /\ Op(p) = "sda0" /\ Leads(c, p, "refused", 4, p.n, p.bit)
    BY <1>6, RefusedLeads
  <2>2. ~scl /\ Refuses
    BY <1>6, <2>1 DEF Lines, RefusedLines
  <2>3. Refuses'
    BY <1>a, <2>2 DEF Refuses
  <2>4. RefusedLines(q)'
    BY <2>1, <2>2, <2>3 DEF RefusedLines, Leads
  <2>5. QED
    BY <2>1, <2>4 DEF Lines, Leads
<1>7. CASE p.fn = "refused" /\ p.line = 6
  <2>1. Op(p) = "sda1" /\ Leads(c, p, "refused", 7, p.n, p.bit)
    BY <1>7, RefusedLeads
  <2>2. SCL /\ ~sda /\ ~board.low
    BY <1>7 DEF Lines, RefusedLines, Refuses
  <2>3. board' = Expects("idle")
    BY <1>0, <2>1, <2>2 DEF StopSeen
  <2>4. Rest'
    BY <1>0, <1>a, <2>1, <2>2, <2>3, ExpectsDoes DEF Rest, SDA
  <2>5. RefusedLines(q)'
    BY <2>1, <2>4 DEF RefusedLines, Leads
  <2>6. QED
    BY <2>1, <2>5 DEF Lines, Leads
<1>8. CASE p.fn = "get"
  <2>1. p.line = 2 /\ Op(p) = "sda1" /\ Leads(c, p, "sample", 1, p.n, 1)
    BY <1>8, GetLeads
  <2>2. ~scl /\ Shown(0)
    BY <1>8 DEF Lines, GetLines
  <2>3. SampleLines(q)'
    BY <1>a, <2>1, <2>2 DEF SampleLines, Leads, Shown
  <2>4. QED
    BY <2>1, <2>3 DEF Lines, Leads
<1>9. CASE p.fn = "reply"
  <2>1. p.line = 2 /\ Op(p) = "sdaReply" /\ Leads(c, p, "reply", 3, p.n, p.bit)
    BY <1>9, ReplyLeads
  <2>2. GotLines /\ ~scl
    BY <1>9, <2>1 DEF Lines, ReplyLines, GotLines
  <2>3. GotLines'
    BY <1>a, <2>2 DEF GotLines
  <2>4. ReplyLines(c, q)'
    BY <2>1, <2>3 DEF ReplyLines, Leads
  <2>5. QED
    BY <2>1, <2>4 DEF Lines, Leads
<1>10. CASE p.fn = "stop" /\ p.line # 5
  <2>1. p.line = 2 /\ Op(p) = "sda0" /\ Leads(c, p, "stop", 3, p.n, p.bit)
    BY <1>10, StopLeads
  <2>2. (~scl /\ ~board.low) \/ Rest
    BY <1>10, <2>1 DEF Lines, StopLines
  <2>3. CASE ~scl /\ ~board.low
    <3>1. StopLines(q)'
      BY <1>a, <2>1, <2>3 DEF StopLines, Leads
    <3>2. QED
      BY <2>1, <3>1 DEF Lines, Leads
  <2>4. CASE Rest
    <3>1. SCL /\ sda /\ ~board.low /\ ~hold
      BY <2>4 DEF Rest, SDA, SCL
    <3>2. board' = Expects("address")
      BY <1>0, <2>1, <3>1 DEF StartSeen
    <3>3. ~sda' /\ ~board'.low /\ ~hold'
      BY <1>0, <2>1, <3>1, <3>2, ExpectsDoes
    <3>4. StopLines(q)'
      BY <2>1, <3>3 DEF StopLines, Leads
    <3>5. QED
      BY <2>1, <3>4 DEF Lines, Leads
  <2>5. QED
    BY <2>2, <2>3, <2>4
<1>11. CASE p.fn = "stop" /\ p.line = 5
  <2>1. Op(p) = "sda1" /\ Leads(c, p, "stop", 6, p.n, p.bit)
    BY <1>11, StopLeads
  <2>2. SCL /\ ~sda /\ ~board.low
    BY <1>11 DEF Lines, StopLines
  <2>3. board' = Expects("idle")
    BY <1>0, <2>1, <2>2 DEF StopSeen
  <2>4. Rest'
    BY <1>0, <1>a, <2>1, <2>2, <2>3, ExpectsDoes DEF Rest, SDA
  <2>5. StopLines(q)'
    BY <2>1, <2>4 DEF StopLines, Leads
  <2>6. QED
    BY <2>1, <2>5 DEF Lines, Leads
<1>12. CASE p.fn \in {"idle", "call", "send", "sample", "got", "return"}
  BY <1>12, Ops, Lengths DEF Functions, Sound
<1>13. QED
  BY <1>1, <1>2, <1>3, <1>4, <1>5, <1>6, <1>7, <1>8, <1>9, <1>10, <1>11, <1>12
     DEF Place, Functions

(* The board lets the clock go: whoever waits for it finds what it waits   *)
(* for, and for the others nothing changes.                                *)
LEMMA LetGoLines ==
  ASSUME NEW c \in Call, NEW p \in Place, Sound(c, p), Lines(c, p), LineTypes,
         hold, hold' = FALSE, scl' = scl, sda' = sda, IF scl THEN Rise ELSE board' = board
  PROVE  Lines(c, p)'
<1>0. board \in Board /\ board.n \in Nat /\ sda \in BOOLEAN /\ scl \in BOOLEAN
      /\ Bits \in Nat /\ Bits > 0 /\ p.line \in 1..Len(Code[p.fn]) /\ ~SCL /\ ~Rest
  BY Parameters DEF LineTypes, Board, Sound, SCL, Rest
<1>1. CASE p.fn = "start"
  <2>1. StartLines(p)'
    BY <1>0, <1>1, Lengths DEF Lines, StartLines, Fresh
  <2>2. QED
    BY <1>1, <2>1 DEF Lines
<1>2. CASE p.fn = "restart"
  <2>1. RestartLines(p)'
    BY <1>0, <1>2, Lengths, RiseDoes DEF Lines, RestartLines, Fresh
  <2>2. QED
    BY <1>2, <2>1 DEF Lines
<1>3. CASE p.fn = "send"
  BY <1>0, <1>3 DEF Lines, SendLines, Fresh
<1>4. CASE p.fn = "shift" /\ scl
  <2>1. p.line = 3 /\ p.bit \in 1..Bits
    BY <1>4, ShiftLeads DEF Lines, ShiftLines, Place
  <2>2. /\ board.mode = Mode(c, p.n) /\ ~board.low
        /\ Prefix(c, p.n, p.bit - 1) /\ sda = Sent(c, p.n)[p.bit]
    BY <1>4, <2>1 DEF Lines, ShiftLines
  <2>3. board'.mode = Mode(c, p.n) /\ ~board'.low /\ Prefix(c, p.n, p.bit)'
    BY <1>0, <1>4, <2>1, <2>2, ShiftRises
  <2>4. ShiftLines(c, p)'
    BY <1>4, <2>1, <2>2, <2>3 DEF ShiftLines
  <2>5. QED
    BY <1>4, <2>4 DEF Lines
<1>5. CASE p.fn = "shift" /\ ~scl
  <2>1. p.line \in {1, 2} /\ ShiftLines(c, p)
    BY <1>5, ShiftLeads DEF Lines, ShiftLines
  <2>2. board' = board /\ Prefix(c, p.n, p.bit - 1)'
    BY <1>5, <2>1 DEF ShiftLines, Prefix
  <2>3. ShiftLines(c, p)'
    BY <1>5, <2>1, <2>2 DEF ShiftLines
  <2>4. QED
    BY <1>5, <2>3 DEF Lines
<1>6. CASE p.fn = "answer" /\ scl
  <2>1. p.line = 3 /\ AnswerLines(c, p)
    BY <1>0, <1>6, AnswerLeads DEF Lines, AnswerLines
  <2>2. sda /\ (Refuses \/ Took(c, p.n, Bits))
    BY <2>1 DEF AnswerLines
  <2>3. Refuses' \/ Took(c, p.n, Bits + 1)'
    BY <1>0, <1>6, <2>2, AnswerRises
  <2>4. AnswerLines(c, p)'
    BY <1>6, <2>1, <2>2, <2>3 DEF AnswerLines
  <2>5. QED
    BY <1>6, <2>4 DEF Lines
<1>7. CASE p.fn = "answer" /\ ~scl
  <2>1. p.line \in {1, 2, 6} /\ AnswerLines(c, p)
    BY <1>0, <1>7, AnswerLeads DEF Lines, AnswerLines
  <2>2. AnswerLines(c, p)'
    BY <1>7, <2>1 DEF AnswerLines, Refuses, Took, Shown, Fresh
  <2>3. QED
    BY <1>7, <2>2 DEF Lines
<1>8. CASE p.fn = "refused"
  <2>1. RefusedLines(p)'
    BY <1>0, <1>8, Lengths, RiseDoes DEF Lines, RefusedLines, Refuses
  <2>2. QED
    BY <1>8, <2>1 DEF Lines
<1>9. CASE p.fn = "get"
  BY <1>0, <1>9 DEF Lines, GetLines, Shown
<1>10. CASE p.fn = "sample"
  <2>1. p.line \in {1, 2} /\ SampleLines(p)
    BY <1>10, SampleLeads DEF Lines, SampleLines
  <2>2. p.bit \in 1..Bits
    BY DEF Place
  <2>3. SampleLines(p)'
    BY <1>0, <2>1, <2>2, RiseDoes DEF SampleLines
  <2>4. QED
    BY <1>10, <2>3 DEF Lines
<1>11. CASE p.fn = "got"
  BY <1>0, <1>11 DEF Lines, GotLines
<1>12. CASE p.fn = "reply"
  <2>1. ReplyLines(c, p) /\ p.line \in {1, 2, 3, 4, 5, 6}
    BY <1>12, ReplyLeads DEF Lines
  <2>2. CASE p.line = 4
    <3>1. scl /\ board.mode = "sends" /\ ~board.low /\ sda = (p.n = c.in) /\ board.n = Bits
      BY <2>1, <2>2 DEF ReplyLines
    <3>2. board'.mode = "sends" /\ ~board'.low /\ board'.n = Bits + 1 /\ board'.more = ~sda
      BY <1>0, <3>1, RiseDoes
    <3>3. ReplyLines(c, p)'
      BY <2>2, <3>1, <3>2 DEF ReplyLines
    <3>4. QED
      BY <1>12, <3>3 DEF Lines
  <2>3. CASE p.line # 4
    <3>1. ~scl
      BY <2>1, <2>3 DEF ReplyLines, GotLines
    <3>2. ReplyLines(c, p)'
      BY <1>0, <2>1, <2>3, <3>1 DEF ReplyLines, GotLines, Refuses, Shown
    <3>3. QED
      BY <1>12, <3>2 DEF Lines
  <2>4. QED
    BY <2>2, <2>3
<1>13. CASE p.fn = "stop"
  <2>1. StopLines(p)'
    BY <1>0, <1>13, Lengths, RiseDoes DEF Lines, StopLines
  <2>2. QED
    BY <1>13, <2>1 DEF Lines
<1>14. CASE p.fn \in {"idle", "call", "return"}
  BY <1>0, <1>14 DEF Lines
<1>15. QED
  BY <1>1, <1>2, <1>3, <1>4, <1>5, <1>6, <1>7, <1>8, <1>9, <1>10, <1>11, <1>12, <1>13, <1>14
     DEF Place, Functions

(* A function only ends in the next one or, after an unlock, the call.     *)
LEMMA StaysActing ==
  ASSUME NEW c \in Call, NEW p \in Place, Sound(c, p), p.fn # "idle"
  PROVE  /\ After(c, p).fn # "call"
         /\ After(c, p).fn = "idle" => Op(p) = "unlock"
<1>1. CASE p.fn = "call"
  BY <1>1, CallLeads DEF Leads
<1>2. CASE p.fn = "start"
  BY <1>2, StartLeads DEF Leads
<1>3. CASE p.fn = "restart"
  BY <1>3, RestartLeads DEF Leads
<1>4. CASE p.fn = "send"
  BY <1>4, SendLeads DEF Leads
<1>5. CASE p.fn = "shift"
  BY <1>5, ShiftLeads DEF Leads
<1>6. CASE p.fn = "answer"
  BY <1>6, AnswerLeads DEF Leads
<1>7. CASE p.fn = "refused"
  BY <1>7, RefusedLeads DEF Leads
<1>8. CASE p.fn = "get"
  BY <1>8, GetLeads DEF Leads
<1>9. CASE p.fn = "sample"
  BY <1>9, SampleLeads DEF Leads
<1>10. CASE p.fn = "got"
  BY <1>10, GotLeads DEF Leads
<1>11. CASE p.fn = "reply"
  BY <1>11, ReplyLeads DEF Leads
<1>12. CASE p.fn = "stop"
  BY <1>12, StopLeads DEF Leads
<1>13. CASE p.fn = "return"
  BY <1>13, ReturnLeads DEF Leads
<1>14. QED
  BY <1>1, <1>2, <1>3, <1>4, <1>5, <1>6, <1>7, <1>8, <1>9, <1>10, <1>11, <1>12, <1>13
     DEF Place, Functions

-----------------------------------------------------------------------------
(* Threads, calls and the mutex.                                           *)

Acts(t) == at[t].fn \notin {"idle", "call"}
Held(t) == Depth(call[t], at[t])

(* Every thread is at a sound place of its call.                           *)
PlacesInv == \A t \in Threads : Sound(call[t], at[t])

(* main() makes its first calls alone.                                     *)
PhaseInv ==
  /\ \A i \in DOMAIN boot : boot[i].kind # "transfer" /\ boot[i].in = 0
  /\ calls = 0 => call[Main].kind # "transfer" /\ \A t \in Threads \ {Main} : Idle(t)
  /\ calls > 0 => boot = <<>> /\ \A t \in Threads : ~Idle(t) => call[t].kind = "transfer"

(* The mutex is held as often as the place of the one thread tells.        *)
MutexInv ==
  /\ \A t \in Threads : Held(t) > 0 => mutex.owner = t
  /\ mutex.owner # Nobody => mutex.depth = Held(mutex.owner) /\ mutex.depth > 0
  /\ mutex.owner = Nobody => mutex.depth = 0

(* The lines and the board are as the function under way needs them.       *)
LinesInv ==
  /\ \A t \in Threads : Acts(t) => Lines(call[t], at[t])
  /\ (\A t \in Threads : ~Acts(t)) => Rest

HostInv == HostTypes /\ PlacesInv /\ PhaseInv /\ MutexInv

(* The fields of a thread's state, and the locks that it holds.            *)
LEMMA ThreadFields ==
  ASSUME HostTypes, NEW t \in Threads
  PROVE  at[t] \in Place /\ at[t].fn \in Functions /\ call[t] \in Call /\ error[t] \in BOOLEAN
BY DEF HostTypes, Place

LEMMA HeldFacts ==
  ASSUME HostTypes, NEW t \in Threads
  PROVE  /\ Held(t) \in Nat
         /\ Acts(t) /\ call[t].kind = "transfer" => Held(t) > 0
         /\ ~Acts(t) => Held(t) = 0
BY ThreadFields, Depths DEF Held, Acts

(* Only one thread at a time is in a function of i2c.c.                    *)
LEMMA Alone ==
  ASSUME HostInv, NEW t \in Threads, NEW u \in Threads, Acts(t), Acts(u)
  PROVE  t = u
<1>1. CASE calls = 0
  BY <1>1 DEF HostInv, PhaseInv, Acts, Idle
<1>2. CASE calls # 0
  <2>1. calls > 0
    BY <1>2 DEF HostInv, HostTypes
  <2>2. call[t].kind = "transfer" /\ call[u].kind = "transfer"
    BY <2>1 DEF HostInv, PhaseInv, Acts, Idle
  <2>3. Held(t) > 0 /\ Held(u) > 0
    BY <2>2, HeldFacts DEF HostInv
  <2>4. QED
    BY <2>3 DEF HostInv, MutexInv
<1>3. QED
  BY <1>1, <1>2

(* Nobody is when a call takes the mutex.                                  *)
LEMMA AloneAtCall ==
  ASSUME HostInv, NEW t \in Threads, at[t].fn = "call", mutex.owner \in {t, Nobody},
         NEW u \in Threads
  PROVE  ~Acts(u)
<1> SUFFICES ASSUME Acts(u) PROVE FALSE
  OBVIOUS
<1>1. call[t].kind = "transfer" /\ ~Idle(t)
  BY DEF HostInv, PlacesInv, Sound, Idle
<1>2. calls > 0
  <2>1. calls # 0
    BY <1>1 DEF HostInv, PhaseInv
  <2>2. QED
    BY <2>1 DEF HostInv, HostTypes
<1>3. call[u].kind = "transfer"
  BY <1>2 DEF HostInv, PhaseInv, Acts, Idle
<1>4. mutex.owner = u
  BY <1>3, HeldFacts DEF HostInv, MutexInv
<1>5. u = t
  BY <1>4, Parameters
<1>6. QED
  BY <1>5 DEF Acts

(* What a step does to the thread that takes it.                           *)
LEMMA ThreadStep ==
  ASSUME HostTypes, PlacesInv, NEW t \in Threads, GoesOn(t)
  PROVE  /\ at[t].fn # "idle" /\ call' = call /\ boot' = boot /\ calls' = calls
         /\ openDrain' = openDrain
         /\ \E q \in Place :
              /\ at' = [at EXCEPT ![t] = q] /\ Sound(call[t], q)
              /\ \/ q = After(call[t], at[t]) /\ ~(Op(at[t]) = "ack" /\ SDA)
                 \/ q = Enters("refused", at[t].n) /\ Op(at[t]) = "ack" /\ SDA
                     /\ at[t].fn = "answer"
<1> DEFINE c == call[t]
           p == at[t]
<1>1. c \in Call /\ p \in Place /\ p.fn \in Functions /\ Sound(c, p)
  BY ThreadFields DEF PlacesInv
<1>2. Op(p) # "begin"
  BY DEF GoesOn, Lock, Unlock, ClearSCL, SetSCL, Wait, SetSDA, TakeAck, TakeBit, Is
<1>3. p.fn # "idle"
  <2>1. SUFFICES ASSUME p.fn = "idle" PROVE FALSE
    OBVIOUS
  <2>2. p.line \in 1..Len(Code[p.fn])
    BY <1>1 DEF Sound
  <2>3. QED
    BY <1>1, <1>2, <2>1, <2>2, Ops
<1>4. call' = call /\ boot' = boot /\ calls' = calls /\ openDrain' = openDrain
  BY DEF GoesOn, Lock, Unlock, ClearSCL, SetSCL, Wait, SetSDA, TakeAck, TakeBit, course
<1>5. \/ at' = [at EXCEPT ![t] = After(c, p)] /\ ~(Op(p) = "ack" /\ SDA)
      \/ at' = [at EXCEPT ![t] = Enters("refused", p.n)] /\ Op(p) = "ack" /\ SDA
  BY DEF GoesOn, Lock, Unlock, ClearSCL, SetSCL, Wait, SetSDA, TakeAck, TakeBit, Is, Moves
<1>6. After(c, p) \in Place /\ Sound(c, After(c, p))
  BY <1>1, <1>3, SoundStep
<1>7. Op(p) = "ack" => p.fn = "answer"
  <2>1. p.line \in 1..Len(Code[p.fn])
    BY <1>1 DEF Sound
  <2>2. QED
    BY <1>1, <2>1, Ops DEF Functions
<1>8. p.fn = "answer" => Enters("refused", p.n) \in Place /\ Sound(c, Enters("refused", p.n))
  <2>1. SUFFICES ASSUME p.fn = "answer"
                 PROVE  Enters("refused", p.n) \in Place /\ Sound(c, Enters("refused", p.n))
    OBVIOUS
  <2>2. p.n \in 1..Last(c) + 1 /\ (p.n > Last(c) => c.in > 0) /\ p.n \in Nat
    BY <1>1, <2>1 DEF Sound, Sending, Place
  <2>3. c.kind # "init" /\ (c.kind # "transfer" => c.in = 0)
    BY <1>1, <2>1 DEF Sound
  <2>4. QED
    BY <2>2, <2>3, EntersPlace, SoundEnters DEF Functions, Getting
<1>9. QED
  BY <1>3, <1>4, <1>5, <1>6, <1>7, <1>8

(* A step that takes or releases the mutex.                                *)
LEMMA MutexStep ==
  ASSUME HostInv, NEW t \in Threads, GoesOn(t)
  PROVE  /\ mutex' \in [owner : Threads \cup {Nobody}, depth : Nat]
         /\ error' \in [Threads -> BOOLEAN]
         /\ MutexInv'
<1> DEFINE c == call[t]
           p == at[t]
<1>1. HostTypes /\ PlacesInv /\ MutexInv /\ p \in Place /\ p.fn \in Functions /\ c \in Call
      /\ Sound(c, p)
  BY ThreadFields DEF HostInv, PlacesInv
<1>2. PICK q \in Place :
        /\ at' = [at EXCEPT ![t] = q]
        /\ \/ q = After(c, p) /\ ~(Op(p) = "ack" /\ SDA)
           \/ q = Enters("refused", p.n) /\ Op(p) = "ack" /\ SDA /\ p.fn = "answer"
  BY <1>1, ThreadStep
<1>3. p.fn # "idle" /\ call' = call
  BY <1>1, ThreadStep
<1>4. at'[t] = q /\ \A u \in Threads : u # t => at'[u] = at[u]
  BY <1>1, <1>2 DEF HostTypes
<1>5. /\ \A u \in Threads : u # t => Held(u)' = Held(u)
      /\ Held(t)' = Depth(c, q)
  BY <1>3, <1>4 DEF Held
<1>6. Held(t) = Depth(c, p) /\ Held(t) \in Nat
  BY <1>1, HeldFacts DEF Held
<1>7. /\ mutex = [owner |-> mutex.owner, depth |-> mutex.depth]
      /\ mutex.owner \in Threads \cup {Nobody} /\ mutex.depth \in Nat
  BY <1>1 DEF HostTypes
<1>8. error' \in [Threads -> BOOLEAN]
  <2>1. error' = error \/ error' = [error EXCEPT ![t] = TRUE]
    BY DEF GoesOn, Lock, Unlock, ClearSCL, SetSCL, Wait, SetSDA, TakeAck, TakeBit
  <2>2. QED
    BY <1>1, <2>1 DEF HostTypes
<1>9. CASE Lock(t)
  <2>1. Op(p) = "lock" /\ mutex.owner \in {t, Nobody}
        /\ mutex' = [owner |-> t, depth |-> mutex.depth + 1]
    BY <1>9 DEF Lock, Is, MayLock
  <2>2. Held(t)' = Held(t) + 1
    BY <1>1, <1>2, <1>3, <1>5, <1>6, <2>1, DepthStep
  <2>3. mutex.depth = Held(t)
    BY <1>1, <1>6, <2>1, Parameters DEF MutexInv
  <2>4. \A u \in Threads : u # t => ~(Held(u) > 0)
    BY <1>1, <2>1, Parameters DEF MutexInv
  <2>5. mutex'.owner = t /\ mutex'.depth = mutex.depth + 1
    BY <2>1
  <2>6. MutexInv'
    BY <1>5, <1>6, <2>2, <2>3, <2>4, <2>5, Parameters DEF MutexInv
  <2>7. QED
    BY <1>7, <1>8, <2>1, <2>6
<1>10. CASE Unlock(t)
  <2>1. Op(p) = "unlock"
        /\ mutex' = [owner |-> IF mutex.depth = 1 THEN Nobody ELSE t, depth |-> mutex.depth - 1]
    BY <1>10 DEF Unlock, Is
  <2>2. Held(t)' = Held(t) - 1 /\ Held(t) > 0
    BY <1>1, <1>2, <1>3, <1>5, <1>6, <2>1, DepthStep
  <2>3. mutex.owner = t /\ mutex.depth = Held(t)
    BY <1>1, <2>2, Parameters DEF MutexInv
  <2>4. \A u \in Threads : u # t => ~(Held(u) > 0)
    BY <1>1, <2>3 DEF MutexInv
  <2>5. mutex'.owner = (IF mutex.depth = 1 THEN Nobody ELSE t) /\ mutex'.depth = mutex.depth - 1
    BY <2>1
  <2>6. MutexInv'
    BY <1>5, <1>6, <2>2, <2>3, <2>4, <2>5, Parameters DEF MutexInv
  <2>7. mutex.depth - 1 \in Nat
    BY <1>6, <2>2, <2>3
  <2>8. QED
    BY <1>8, <2>1, <2>6, <2>7
<1>11. CASE ~Lock(t) /\ ~Unlock(t)
  <2>1. mutex' = mutex /\ Op(p) \notin {"lock", "unlock"}
    BY <1>11 DEF GoesOn, ClearSCL, SetSCL, Wait, SetSDA, TakeAck, TakeBit, Is
  <2>2. Held(t)' = Held(t)
    <3>1. CASE q = After(c, p)
      BY <1>1, <1>3, <1>5, <1>6, <2>1, <3>1, DepthStep
    <3>2. CASE q = Enters("refused", p.n) /\ p.fn = "answer"
      <4>1. q.fn = "refused" /\ q.line = 1
        BY <3>2, Entered
      <4>2. Inner(q) = 1 /\ Inner(p) = 1
        BY <3>2, <4>1, Inners
      <4>3. QED
        BY <1>5, <1>6, <3>2, <4>1, <4>2 DEF Depth, Outer
    <3>3. QED
      BY <1>2, <3>1, <3>2
  <2>3. \A u \in Threads : Held(u)' = Held(u)
    BY <1>5, <2>2
  <2>4. MutexInv'
    BY <1>1, <1>7, <2>1, <2>3 DEF MutexInv
  <2>5. QED
    BY <1>7, <1>8, <2>1, <2>4
<1>12. QED
  BY <1>9, <1>10, <1>11

(* A step of a thread keeps what is known of threads, calls and the mutex. *)
LEMMA HostStep ==
  ASSUME HostInv, NEW t \in Threads, GoesOn(t)
  PROVE  HostInv'
<1> DEFINE c == call[t]
           p == at[t]
<1>1. HostTypes /\ PlacesInv /\ PhaseInv
  BY DEF HostInv
<1>2. PICK q \in Place : at' = [at EXCEPT ![t] = q] /\ Sound(c, q)
  BY <1>1, ThreadStep
<1>3. p.fn # "idle" /\ call' = call /\ boot' = boot /\ calls' = calls /\ openDrain' = openDrain
  BY <1>1, ThreadStep
<1>4. at'[t] = q /\ \A u \in Threads : u # t => at'[u] = at[u]
  BY <1>1, <1>2 DEF HostTypes
<1>5. HostTypes'
  BY <1>1, <1>2, <1>3, MutexStep DEF HostTypes
<1>6. PlacesInv'
  BY <1>1, <1>2, <1>3, <1>4 DEF PlacesInv
<1>7. \A u \in Threads : Idle(u) /\ u # t => Idle(u)'
  BY <1>4 DEF Idle
<1>8. ~Idle(t)
  BY <1>3 DEF Idle
<1>9. PhaseInv'
  <2>1. calls = 0 => t = Main
    BY <1>1, <1>8 DEF PhaseInv
  <2>2. \A u \in Threads : ~Idle(u)' => ~Idle(u)
    BY <1>4, <1>8 DEF Idle
  <2>3. QED
    BY <1>1, <1>3, <1>7, <2>1, <2>2 DEF PhaseInv
<1>10. QED
  BY <1>5, <1>6, <1>9, MutexStep DEF HostInv

(* A call begins.                                                          *)
LEMMA FirstPlace ==
  ASSUME NEW c \in Call, c.kind # "transfer" => c.in = 0
  PROVE  /\ First(c) \in Place /\ Sound(c, First(c)) /\ Depth(c, First(c)) = 0
         /\ First(c).line = 1
         /\ c.kind = "init" => First(c).fn = "stop"
         /\ c.kind = "probe" => First(c).fn = "start"
         /\ c.kind = "transfer" => First(c).fn = "call"
<1>1. c.kind \in {"init", "probe", "transfer"}
  BY CallFields
<1>2. PICK fn \in {"stop", "start", "call"} :
        /\ First(c) = Enters(fn, 0)
        /\ c.kind = "init" => fn = "stop"
        /\ c.kind = "probe" => fn = "start"
        /\ c.kind = "transfer" => fn = "call"
  <2>1. CASE c.kind = "init"
    BY <2>1 DEF First
  <2>2. CASE c.kind = "probe"
    BY <2>2 DEF First
  <2>3. CASE c.kind = "transfer"
    BY <2>3 DEF First
  <2>4. QED
    BY <1>1, <2>1, <2>2, <2>3
<1>3. First(c).fn = fn /\ First(c).line = 1
  BY <1>2, Entered
<1>4. First(c) \in Place
  BY <1>2, EntersPlace DEF Functions
<1>5. Sound(c, First(c))
  BY <1>1, <1>2, SoundEnters DEF Functions, Sending, Getting
<1>6. Depth(c, First(c)) = 0
  BY <1>1, <1>2, <1>3, Inners DEF Depth, Outer
<1>7. QED
  BY <1>2, <1>3, <1>4, <1>5, <1>6

(* The thread whose call begins is at its first place.                     *)
LEMMA BeginStep ==
  ASSUME HostInv, NEW t \in Threads, NEW c \in Call, c.kind # "transfer" => c.in = 0, Begins(t, c)
  PROVE  /\ at[t].fn = "idle" /\ at' = [at EXCEPT ![t] = First(c)] /\ call' = [call EXCEPT ![t] = c]
         /\ at' \in [Threads -> Place] /\ call' \in [Threads -> Call]
         /\ error' \in [Threads -> BOOLEAN] /\ mutex' = mutex
         /\ at'[t] = First(c) /\ call'[t] = c
         /\ \A u \in Threads : u # t => at'[u] = at[u] /\ call'[u] = call[u]
         /\ PlacesInv' /\ MutexInv'
<1>1. HostTypes /\ PlacesInv /\ MutexInv
  BY DEF HostInv
<1>2. at[t].fn = "idle"
  <2>1. at[t].fn \in Functions /\ at[t].line \in 1..Len(Code[at[t].fn]) /\ Op(at[t]) = "begin"
    BY <1>1, ThreadFields DEF PlacesInv, Sound, Begins, Is
  <2>2. QED
    BY <2>1, Ops DEF Functions
<1>3. at' = [at EXCEPT ![t] = First(c)] /\ call' = [call EXCEPT ![t] = c] /\ mutex' = mutex
      /\ error' = [error EXCEPT ![t] = FALSE]
  BY DEF Begins
<1>4. First(c) \in Place /\ Sound(c, First(c)) /\ Depth(c, First(c)) = 0
  BY FirstPlace
<1>5. at' \in [Threads -> Place] /\ call' \in [Threads -> Call] /\ error' \in [Threads -> BOOLEAN]
  BY <1>1, <1>3, <1>4 DEF HostTypes
<1>6. /\ at'[t] = First(c) /\ call'[t] = c
      /\ \A u \in Threads : u # t => at'[u] = at[u] /\ call'[u] = call[u]
  BY <1>1, <1>3 DEF HostTypes
<1>7. PlacesInv'
  BY <1>1, <1>4, <1>6 DEF PlacesInv
<1>8. \A u \in Threads : Held(u)' = Held(u)
  <2>1. Held(t) = 0
    BY <1>1, <1>2, HeldFacts DEF Acts
  <2>2. Held(t)' = 0
    BY <1>4, <1>6 DEF Held
  <2>3. QED
    BY <1>6, <2>1, <2>2 DEF Held
<1>9. MutexInv'
  <2>1. mutex.owner \in Threads \cup {Nobody}
    BY <1>1 DEF HostTypes
  <2>2. QED
    BY <1>1, <1>3, <1>8, <2>1 DEF MutexInv
<1>10. QED
  BY <1>2, <1>3, <1>5, <1>6, <1>7, <1>9

(* What main() calls while it starts.                                      *)
LEMMA BootCall ==
  ASSUME HostInv, BootNext
  PROVE  /\ Head(boot) \in Call /\ Head(boot).kind \in {"init", "probe"} /\ Head(boot).in = 0
         /\ calls = 0 /\ boot' = Tail(boot) /\ boot' \in Seq(Call)
         /\ \A i \in DOMAIN boot' : boot'[i].kind # "transfer" /\ boot'[i].in = 0
<1>1. boot \in Seq(Call) /\ boot # <<>> /\ boot' = Tail(boot) /\ calls \in Nat
  BY DEF HostInv, HostTypes, BootNext
<1>2. Head(boot) = boot[1] /\ 1 \in DOMAIN boot /\ Head(boot) \in Call
  BY <1>1
<1>3. /\ boot' \in Seq(Call)
      /\ \A i \in DOMAIN boot' : i + 1 \in DOMAIN boot /\ boot'[i] = boot[i + 1]
  BY <1>1
<1>4. \A i \in DOMAIN boot : boot[i].kind # "transfer" /\ boot[i].in = 0
  BY DEF HostInv, PhaseInv
<1>5. calls = 0
  BY <1>1 DEF HostInv, PhaseInv
<1>6. QED
  BY <1>1, <1>2, <1>3, <1>4, <1>5, CallFields

LEMMA HostBoot ==
  ASSUME HostInv, BootNext
  PROVE  HostInv'
<1>1. Main \in Threads /\ Begins(Main, Head(boot)) /\ calls' = calls
  BY Parameters DEF BootNext
<1>2. openDrain' \in BOOLEAN
  BY DEF BootNext, HostInv, HostTypes
<1>3. Head(boot) \in Call /\ Head(boot).kind # "transfer" /\ Head(boot).in = 0 /\ calls = 0
  BY BootCall
<1>4. /\ at' \in [Threads -> Place] /\ call' \in [Threads -> Call]
      /\ error' \in [Threads -> BOOLEAN] /\ mutex' = mutex /\ call'[Main] = Head(boot)
      /\ \A u \in Threads : u # Main => at'[u] = at[u]
      /\ PlacesInv' /\ MutexInv'
  BY <1>1, <1>3, BeginStep
<1>5. HostTypes'
  BY <1>1, <1>2, <1>4, BootCall DEF HostInv, HostTypes
<1>6. PhaseInv'
  <2>1. \A u \in Threads \ {Main} : Idle(u)'
    BY <1>3, <1>4 DEF HostInv, PhaseInv, Idle
  <2>2. QED
    BY <1>1, <1>3, <1>4, <2>1, BootCall DEF PhaseInv
<1>7. QED
  BY <1>4, <1>5, <1>6 DEF HostInv

LEMMA HostBegins ==
  ASSUME HostInv, NEW t \in Threads, NEW c \in Transfers, CallBegins(t, c)
  PROVE  HostInv'
<1>1. c \in Call /\ c.kind = "transfer"
  BY I2CAssumption
<1>2. /\ Begins(t, c) /\ boot' = boot /\ boot = <<>> /\ openDrain' = openDrain
      /\ calls' = calls + 1 /\ (calls > 0 \/ Idle(Main)) /\ calls \in Nat
  BY DEF CallBegins, HostInv, HostTypes
<1>3. /\ at' \in [Threads -> Place] /\ call' \in [Threads -> Call]
      /\ error' \in [Threads -> BOOLEAN] /\ mutex' = mutex /\ call'[t] = c
      /\ \A u \in Threads : u # t => at'[u] = at[u] /\ call'[u] = call[u]
      /\ PlacesInv' /\ MutexInv'
  BY <1>1, <1>2, BeginStep
<1>4. HostTypes'
  BY <1>2, <1>3 DEF HostInv, HostTypes
<1>5. \A u \in Threads : ~Idle(u)' => call'[u].kind = "transfer"
  <2>1. ASSUME NEW u \in Threads, ~Idle(u)', u # t
        PROVE  call'[u].kind = "transfer"
    <3>1. ~Idle(u) /\ call'[u] = call[u]
      BY <1>3, <2>1 DEF Idle
    <3>2. calls > 0
      <4>1. calls = 0 => \A v \in Threads : Idle(v)
        BY <1>2 DEF HostInv, PhaseInv
      <4>2. QED
        BY <1>2, <3>1, <4>1
    <3>3. QED
      BY <3>1, <3>2 DEF HostInv, PhaseInv
  <2>2. QED
    BY <1>1, <1>3, <2>1
<1>6. PhaseInv'
  BY <1>2, <1>5 DEF HostInv, PhaseInv
<1>7. QED
  BY <1>3, <1>4, <1>6 DEF HostInv

LEMMA NamedTaken ==
  ASSUME NEW c \in Call, NEW p \in Place, Sound(c, p), Lines(c, p), board \in Board,
         Op(p) = "scl0", board.mode = "register", board.n = Bits
  PROVE  /\ Named(board.shift) = c.reg /\ c.reg \in Numbers
         /\ p.fn = "shift" /\ p.n = 2 /\ p.bit = Bits
<1>0. c.reg \in Numbers /\ Bits \in Nat /\ Bits > 0
  BY CallFields, Parameters
<1>1. p.fn = "shift"
  <2>1. CASE p.fn = "start"
    BY <2>1, StartLeads DEF Lines, StartLines, Fresh
  <2>2. CASE p.fn = "restart"
    BY <2>2, RestartLeads DEF Lines, RestartLines, Fresh
  <2>3. CASE p.fn = "answer"
    <3>1. Took(c, p.n, Bits + 1)
      BY <2>3, AnswerLeads DEF Lines, AnswerLines
    <3>2. QED
      BY <1>0, <3>1 DEF Took
  <2>4. CASE p.fn = "refused"
    BY <2>4, RefusedLeads DEF Lines, RefusedLines, Refuses
  <2>5. CASE p.fn = "sample"
    BY <2>5 DEF Lines, SampleLines
  <2>6. CASE p.fn = "reply"
    BY <2>6, ReplyLeads DEF Lines, ReplyLines
  <2>7. CASE p.fn \in {"idle", "call", "send", "get", "got", "stop", "return"}
    BY <2>7, Ops, Lengths DEF Functions, Sound
  <2>8. QED
    BY <2>1, <2>2, <2>3, <2>4, <2>5, <2>6, <2>7 DEF Place, Functions
<1>2. p.line = 4 /\ p.bit \in 1..Bits
  BY <1>1, ShiftLeads DEF Place
<1>3. Mode(c, p.n) = "register" /\ Prefix(c, p.n, p.bit)
  BY <1>1, <1>2 DEF Lines, ShiftLines
<1>4. p.n = 2 /\ ~(2 > Last(c)) /\ p.bit = Bits
  BY <1>3 DEF Mode, Prefix
<1>5. board.shift = Name[c.reg]
  <2>1. Sent(c, 2) = Name[c.reg]
    BY <1>4, Sends, CallFields
  <2>2. board.shift \in Bytes /\ Name[c.reg] \in Bytes
    BY <1>0, I2CAssumption DEF Board
  <2>3. \A k \in 1..Bits : board.shift[k] = Name[c.reg][k]
    BY <1>3, <1>4, <2>1 DEF Prefix
  <2>4. QED
    BY <2>2, <2>3, SameByte
<1>6. \A r \in Numbers : Name[r] = board.shift => r = c.reg
  BY <1>0, <1>5, I2CAssumption
<1>7. Named(board.shift) = c.reg
  BY <1>0, <1>5, <1>6 DEF Named
<1>8. QED
  BY <1>0, <1>1, <1>4, <1>7

(* Types of the lines and of the board.                                    *)
LEMMA RegsTypes ==
  ASSUME board \in Board
  PROVE  board.regs \in [Numbers -> Bytes]
BY DEF Board

(* A step of a thread.                                                     *)
LEMMA LineStep ==
  ASSUME BusTypes, HostInv, NEW t \in Threads, GoesOn(t), Lines(call[t], at[t])
  PROVE  LineTypes'
<1> DEFINE c == call[t]
           p == at[t]
<1>1. c \in Call /\ p \in Place /\ Sound(c, p)
  BY ThreadFields DEF HostInv, PlacesInv
<1>2. scl \in BOOLEAN /\ sda \in BOOLEAN /\ hold \in BOOLEAN /\ board \in Board
      /\ before \in [Numbers -> Bytes] /\ board.regs \in [Numbers -> Bytes]
  BY RegsTypes DEF BusTypes, LineTypes
<1>3. CASE Lock(t)
  <2>1. before' \in {board.regs, before}
    BY <1>3 DEF Lock
  <2>2. QED
    BY <1>2, <1>3, <2>1 DEF Lock, LineTypes
<1>4. CASE Unlock(t) \/ Wait(t) \/ TakeAck(t) \/ TakeBit(t)
  BY <1>2, <1>4 DEF Unlock, Wait, TakeAck, TakeBit, LineTypes
<1>5. CASE ClearSCL(t)
  <2>1. Op(p) = "scl0" /\ scl' = FALSE /\ sda' = sda /\ before' = before
        /\ (Fall \/ board' = board) /\ (hold' \in BOOLEAN \/ hold' = hold)
    BY <1>5 DEF ClearSCL, Is
  <2>2. board.mode = "register" /\ board.n = Bits => Named(board.shift) \in Numbers
    BY <1>1, <1>2, <2>1, NamedTaken
  <2>3. board' \in Board
    BY <1>2, <2>1, <2>2, FallTypes
  <2>4. QED
    BY <1>2, <2>1, <2>3 DEF LineTypes
<1>6. CASE SetSCL(t)
  <2>1. scl' = TRUE /\ sda' = sda /\ before' = before /\ hold' = hold /\ (Rise \/ board' = board)
    BY <1>6 DEF SetSCL
  <2>2. QED
    BY <1>2, <2>1, RiseTypes DEF LineTypes
<1>7. CASE SetSDA(t)
  <2>1. Op(p) \in {"sda0", "sda1", "sdaBit", "sdaReply"} /\ sda' = Level(t)
        /\ scl' = scl /\ hold' = hold /\ before' = before
    BY <1>7 DEF SetSDA
  <2>2. Level(t) \in BOOLEAN
    <3>1. CASE Op(p) = "sdaBit"
      <4>1. p.fn = "shift"
        BY <1>1, <3>1, Ops, Lengths DEF Functions, Sound, Place
      <4>2. Sent(c, p.n) \in Bytes /\ p.bit \in 1..Bits
        BY <1>1, <4>1, SentByte DEF Sound, Sending, Place
      <4>3. Level(t) = Sent(c, p.n)[p.bit]
        BY <3>1 DEF Level, Is
      <4>4. QED
        BY <4>2, <4>3, BitOfByte
    <3>2. CASE Op(p) = "sdaReply"
      BY <3>2 DEF Level, Is, Nack
    <3>3. CASE Op(p) \in {"sda0", "sda1"}
      BY <3>3 DEF Level, Is
    <3>4. QED
      BY <2>1, <3>1, <3>2, <3>3
  <2>3. board' \in {board, Expects("idle"), Expects("address")}
    BY <1>7 DEF SetSDA, StopSeen, StartSeen
  <2>4. board' \in Board
    BY <1>2, <2>3, ExpectsTypes DEF Modes
  <2>5. QED
    BY <1>2, <2>1, <2>2, <2>4 DEF LineTypes
<1>8. QED
  BY <1>3, <1>4, <1>5, <1>6, <1>7 DEF GoesOn

LEMMA GotStep ==
  ASSUME BusTypes, HostInv, NEW t \in Threads, GoesOn(t)
  PROVE  GotTypes'
<1> DEFINE c == call[t]
           p == at[t]
<1>1. c \in Call /\ p \in Place /\ Sound(c, p) /\ GotTypes
  BY ThreadFields DEF HostInv, PlacesInv, BusTypes
<1>2. call' = call
  BY ThreadStep DEF HostInv
<1>3. CASE TakeBit(t)
  <2>1. Op(p) = "bit" /\ got' = [got EXCEPT ![t][p.n][p.bit] = SDA]
    BY <1>3 DEF TakeBit, Is
  <2>2. p.fn = "sample"
    BY <1>1, <2>1, Ops, Lengths DEF Functions, Sound, Place
  <2>3. p.n \in 1..c.in /\ p.bit \in 1..Bits
    BY <1>1, <2>2 DEF Sound, Getting, Place
  <2>4. got[t] \in [1..c.in -> Bytes] /\ got[t][p.n] \in [1..Bits -> BOOLEAN] /\ t \in DOMAIN got
    BY <1>1, <2>3 DEF GotTypes, Bytes
  <2>5. SDA \in BOOLEAN
    BY DEF SDA
  <2> DEFINE b == [got[t][p.n] EXCEPT ![p.bit] = SDA]
  <2>6. b \in Bytes
    BY <2>3, <2>4, <2>5 DEF Bytes
  <2>7. got' = [got EXCEPT ![t] = [got[t] EXCEPT ![p.n] = b]]
    BY <2>1
  <2> HIDE DEF b
  <2>8. [got[t] EXCEPT ![p.n] = b] \in [1..c.in -> Bytes]
    BY <2>4, <2>6
  <2>9. DOMAIN got' = Threads
    BY <1>1, <2>7 DEF GotTypes
  <2>10. \A u \in Threads : got'[u] \in [1..call[u].in -> Bytes]
    BY <1>1, <2>4, <2>7, <2>8 DEF GotTypes
  <2>11. QED
    BY <1>2, <2>9, <2>10 DEF GotTypes
<1>4. CASE ~TakeBit(t)
  <2>1. got' = got
    BY <1>4 DEF GoesOn, Lock, Unlock, ClearSCL, SetSCL, Wait, SetSDA, TakeAck
  <2>2. QED
    BY <1>1, <1>2, <2>1 DEF GotTypes
<1>5. QED
  BY <1>3, <1>4

LEMMA BeginTypes ==
  ASSUME BusTypes, HostInv, NEW t \in Threads, NEW c \in Call, c.kind # "transfer" => c.in = 0,
         Begins(t, c)
  PROVE  GotTypes' /\ LineTypes'
<1>1. call' = [call EXCEPT ![t] = c] /\ call \in [Threads -> Call]
      /\ got' = [got EXCEPT ![t] = [i \in 1..c.in |-> Zero]] /\ GotTypes /\ LineTypes
  BY DEF Begins, BusTypes, HostTypes
<1>2. [i \in 1..c.in |-> Zero] \in [1..c.in -> Bytes]
  BY ZeroByte
<1>3. DOMAIN got' = Threads /\ call'[t] = c
  BY <1>1 DEF GotTypes
<1>4. \A u \in Threads : got'[u] \in [1..call'[u].in -> Bytes]
  BY <1>1, <1>2 DEF GotTypes
<1>5. QED
  BY <1>1, <1>3, <1>4 DEF Begins, GotTypes, LineTypes

(* Nothing happens to the lines.                                           *)
LEMMA SameLines ==
  ASSUME NEW CONSTANT c, NEW CONSTANT p, scl' = scl, sda' = sda, hold' = hold, board' = board
  PROVE  /\ Lines(c, p) => Lines(c, p)'
         /\ Rest => Rest'
<1>1. Rest => Rest'
  BY DEF Rest, SCL, SDA
<1>2. StartLines(p) => StartLines(p)'
  BY <1>1 DEF StartLines, SCL, Fresh
<1>3. RestartLines(p) => RestartLines(p)'
  BY DEF RestartLines, SCL, Fresh
<1>4. SendLines(c, p) => SendLines(c, p)'
  BY DEF SendLines, Fresh
<1>5. ShiftLines(c, p) => ShiftLines(c, p)'
  BY DEF ShiftLines, Prefix
<1>6. AnswerLines(c, p) => AnswerLines(c, p)'
  BY DEF AnswerLines, SCL, Refuses, Took, Shown, Fresh
<1>7. RefusedLines(p) => RefusedLines(p)'
  BY <1>1 DEF RefusedLines, SCL, Refuses
<1>8. GetLines(p) => GetLines(p)'
  BY DEF GetLines, Shown
<1>9. SampleLines(p) => SampleLines(p)'
  BY DEF SampleLines
<1>10. GotLines => GotLines'
  BY DEF GotLines
<1>11. ReplyLines(c, p) => ReplyLines(c, p)'
  BY <1>10 DEF ReplyLines, Refuses, Shown
<1>12. StopLines(p) => StopLines(p)'
  BY <1>1 DEF StopLines, SCL
<1>13. QED
  BY <1>1, <1>2, <1>3, <1>4, <1>5, <1>6, <1>7, <1>8, <1>9, <1>10, <1>11, <1>12 DEF Lines

(* The lines after a step of a thread, for its new place.                  *)
LEMMA NewLines ==
  ASSUME BusTypes, HostInv, NEW t \in Threads, GoesOn(t),
         NEW CONSTANT c, c = call[t], NEW CONSTANT p, p = at[t], Lines(c, p), p.fn = "call" => Rest,
         NEW CONSTANT q, at' = [at EXCEPT ![t] = q],
         \/ q = After(c, p) /\ ~(Op(p) = "ack" /\ SDA)
         \/ q = Enters("refused", p.n) /\ Op(p) = "ack" /\ SDA
  PROVE  Lines(c, q)' /\ (q.fn = "idle" => Rest')
<1>1. c \in Call /\ p \in Place /\ Sound(c, p) /\ p.fn # "idle" /\ LineTypes
  BY ThreadFields, ThreadStep DEF HostInv, PlacesInv, BusTypes
<1>2. CASE Lock(t)
  <2>1. Op(p) = "lock" /\ q = After(c, p)
    BY <1>2 DEF Lock, Is
  <2>2. Lines(c, q)
    BY <1>1, <2>1, LockLines
  <2>3. q.fn # "idle"
    BY <1>1, <2>1, StaysActing
  <2>4. QED
    BY <1>2, <2>2, <2>3, SameLines DEF Lock
<1>3. CASE Unlock(t)
  <2>1. Op(p) = "unlock" /\ q = After(c, p)
    BY <1>3 DEF Unlock, Is
  <2>2. Lines(c, q) /\ (q.fn = "idle" => Rest)
    BY <1>1, <2>1, UnlockLines
  <2>3. QED
    BY <1>3, <2>2, SameLines DEF Unlock
<1>4. CASE ClearSCL(t)
  <2>1. Op(p) = "scl0" /\ q = After(c, p) /\ scl' = FALSE /\ sda' = sda
        /\ IF SCL THEN Fall ELSE board' = board
    BY <1>4 DEF ClearSCL, Is
  <2>2. Lines(c, After(c, p))'
    BY <1>1, <2>1, ClearLines
  <2>3. q.fn # "idle"
    BY <1>1, <2>1, StaysActing
  <2>4. QED
    BY <2>1, <2>2, <2>3
<1>5. CASE SetSCL(t)
  <2>1. Op(p) = "scl1" /\ q = After(c, p) /\ scl' = TRUE /\ sda' = sda /\ hold' = hold
        /\ IF ~scl /\ ~hold THEN Rise ELSE board' = board
    BY <1>5 DEF SetSCL, Is
  <2>2. Lines(c, After(c, p))'
    BY <1>1, <2>1, SetLines
  <2>3. q.fn # "idle"
    BY <1>1, <2>1, StaysActing
  <2>4. QED
    BY <2>1, <2>2, <2>3
<1>6. CASE Wait(t)
  <2>1. Op(p) = "wait" /\ q = After(c, p) /\ ~hold
    BY <1>6 DEF Wait, Is, High
  <2>2. Lines(c, q)
    BY <1>1, <2>1, WaitLines
  <2>3. q.fn # "idle"
    BY <1>1, <2>1, StaysActing
  <2>4. QED
    BY <1>6, <2>2, <2>3, SameLines DEF Wait
<1>7. CASE SetSDA(t)
  <2>1. /\ Op(p) \in {"sda0", "sda1", "sdaBit", "sdaReply"} /\ q = After(c, p)
        /\ Op(p) = "sda0" => sda' = FALSE
        /\ Op(p) = "sda1" => sda' = TRUE
        /\ Op(p) = "sdaBit" => sda' = Sent(c, p.n)[p.bit]
        /\ Op(p) = "sdaReply" => sda' = (p.n = c.in)
        /\ scl' = scl /\ hold' = hold
        /\ IF SCL /\ ~board.low /\ sda # sda' THEN IF sda' THEN StopSeen ELSE StartSeen
           ELSE board' = board
    BY <1>7 DEF SetSDA, Level, Is, Nack
  <2>2. Lines(c, After(c, p))'
    BY <1>1, <2>1, DataLines
  <2>3. q.fn # "idle"
    BY <1>1, <2>1, StaysActing
  <2>4. QED
    BY <2>1, <2>2, <2>3
<1>8. CASE TakeAck(t)
  <2>1. Op(p) = "ack" /\ scl' = scl /\ sda' = sda /\ hold' = hold /\ board' = board
    BY <1>8 DEF TakeAck, Is
  <2>2. CASE ~SDA
    <3>1. q = After(c, p)
      BY <2>1, <2>2
    <3>2. Lines(c, q) /\ q.fn # "idle"
      BY <1>1, <2>1, <2>2, <3>1, AckLines, StaysActing
    <3>3. QED
      BY <2>1, <3>2, SameLines
  <2>3. CASE SDA
    <3>1. q = Enters("refused", p.n)
      BY <2>1, <2>3
    <3>2. Lines(c, q) /\ q.fn # "idle"
      BY <1>1, <2>1, <2>3, <3>1, AckLines, Entered
    <3>3. QED
      BY <2>1, <3>2, SameLines
  <2>4. QED
    BY <2>2, <2>3
<1>9. CASE TakeBit(t)
  <2>1. Op(p) = "bit" /\ q = After(c, p)
    BY <1>9 DEF TakeBit, Is
  <2>2. Lines(c, q) /\ q.fn # "idle"
    BY <1>1, <2>1, BitLines, StaysActing
  <2>3. QED
    BY <1>9, <2>2, SameLines DEF TakeBit
<1>10. QED
  BY <1>2, <1>3, <1>4, <1>5, <1>6, <1>7, <1>8, <1>9 DEF GoesOn

-----------------------------------------------------------------------------
(* The inductive invariant.                                                *)
BusInv == HostInv /\ GotTypes /\ LineTypes /\ LinesInv

(* A step of a thread keeps it.                                            *)
LEMMA LinesStep ==
  ASSUME BusInv, NEW t \in Threads, GoesOn(t)
  PROVE  BusInv'
<1>1. HostInv /\ BusTypes /\ HostTypes /\ PlacesInv
  BY DEF BusInv, HostInv, BusTypes
<1>2. PICK q \in Place :
        /\ at' = [at EXCEPT ![t] = q]
        /\ \/ q = After(call[t], at[t]) /\ ~(Op(at[t]) = "ack" /\ SDA)
           \/ q = Enters("refused", at[t].n) /\ Op(at[t]) = "ack" /\ SDA
  BY <1>1, ThreadStep
<1>3. at[t].fn # "idle" /\ call' = call
  BY <1>1, ThreadStep
<1>4. at'[t] = q /\ \A u \in Threads : u # t => at'[u] = at[u]
  BY <1>1, <1>2 DEF HostTypes
<1>5. call[t] \in Call /\ at[t] \in Place /\ Sound(call[t], at[t])
  BY <1>1, ThreadFields DEF PlacesInv
<1>6. Lines(call[t], at[t])
  <2>1. CASE Acts(t)
    BY <2>1 DEF BusInv, LinesInv
  <2>2. CASE at[t].fn = "call"
    BY <2>2 DEF Lines
  <2>3. QED
    BY <1>3, <2>1, <2>2 DEF Acts
<1>7. /\ \A u \in Threads : u # t => ~Acts(u)
      /\ at[t].fn = "call" => Rest
  <2>1. CASE Acts(t)
    BY <1>1, <2>1, Alone DEF Acts
  <2>2. CASE at[t].fn = "call"
    <3>1. Op(at[t]) = "lock"
      BY <1>5, <2>2, CallLeads
    <3>2. Lock(t)
      BY <3>1 DEF GoesOn, Unlock, ClearSCL, SetSCL, Wait, SetSDA, TakeAck, TakeBit, Is
    <3>3. \A u \in Threads : ~Acts(u)
      BY <1>1, <2>2, <3>2, AloneAtCall DEF Lock, MayLock
    <3>4. QED
      BY <3>3 DEF BusInv, LinesInv
  <2>3. QED
    BY <1>3, <2>1, <2>2 DEF Acts
<1>8. Lines(call[t], q)' /\ (q.fn = "idle" => Rest')
  <2> DEFINE c == call[t]
             p == at[t]
  <2>1. \A cc, pp : cc = call[t] /\ pp = at[t] => Lines(cc, q)' /\ (q.fn = "idle" => Rest')
    <3> SUFFICES ASSUME NEW CONSTANT cc, NEW CONSTANT pp, cc = call[t], pp = at[t]
                 PROVE  Lines(cc, q)' /\ (q.fn = "idle" => Rest')
      OBVIOUS
    <3>1. QED
      BY <1>1, <1>2, <1>6, <1>7, NewLines
  <2>2. QED
    BY <1>3, <2>1
<1>9. q.fn # "call"
  <2>1. After(call[t], at[t]).fn # "call"
    BY <1>3, <1>5, StaysActing
  <2>2. Enters("refused", at[t].n).fn # "call"
    BY Entered
  <2>3. QED
    BY <1>2, <2>1, <2>2
<1>10. LinesInv'
  <2>1. \A u \in Threads : u # t => ~Acts(u)'
    BY <1>4, <1>7 DEF Acts
  <2>2. Acts(t)' <=> q.fn # "idle"
    BY <1>4, <1>9 DEF Acts
  <2>3. Lines(call[t], at[t])'
    BY <1>3, <1>4, <1>8
  <2>4. QED
    BY <1>8, <2>1, <2>2, <2>3 DEF LinesInv
<1>11. QED
  BY <1>1, <1>6, <1>10, HostStep, LineStep, GotStep DEF BusInv

(* A call that begins keeps it: the lines do not change.                   *)
LEMMA BootLines ==
  ASSUME BusInv, BootNext
  PROVE  BusInv'
<1>1. HostInv /\ BusTypes /\ Main \in Threads /\ Begins(Main, Head(boot))
  BY Parameters DEF BusInv, HostInv, BusTypes, BootNext
<1>2. Head(boot) \in Call /\ Head(boot).kind \in {"init", "probe"} /\ Head(boot).in = 0
  BY <1>1, BootCall
<1>3. /\ at[Main].fn = "idle" /\ at'[Main] = First(Head(boot)) /\ call'[Main] = Head(boot)
      /\ \A u \in Threads : u # Main => at'[u] = at[u] /\ call'[u] = call[u]
  BY <1>1, <1>2, BeginStep
<1>4. First(Head(boot)).line = 1 /\ First(Head(boot)).fn \in {"stop", "start"}
  BY <1>2, FirstPlace
<1>5. \A u \in Threads : ~Acts(u)
  <2>1. calls = 0
    BY <1>1, BootCall
  <2>2. QED
    BY <1>1, <1>3, <2>1 DEF HostInv, PhaseInv, Idle, Acts
<1>6. Rest
  BY <1>5 DEF BusInv, LinesInv
<1>7. scl' = scl /\ sda' = sda /\ hold' = hold /\ board' = board
  BY <1>1 DEF Begins
<1>8. LinesInv'
  <2>1. \A c, p : p.line = 1 /\ p.fn \in {"stop", "start"} => Lines(c, p)'
    <3> SUFFICES ASSUME NEW CONSTANT c, NEW CONSTANT p, p.line = 1, p.fn \in {"stop", "start"}
                 PROVE  Lines(c, p)'
      OBVIOUS
    <3>1. Lines(c, p)
      BY <1>6 DEF Lines, StopLines, StartLines
    <3>2. QED
      BY <1>7, <3>1, SameLines
  <2>2. Lines(call[Main], at[Main])'
    BY <1>3, <1>4, <2>1
  <2>3. Acts(Main)' /\ \A u \in Threads : u # Main => ~Acts(u)'
    BY <1>3, <1>4, <1>5 DEF Acts
  <2>4. QED
    BY <1>1, <2>2, <2>3 DEF LinesInv
<1>9. QED
  BY <1>1, <1>2, <1>8, HostBoot, BeginTypes DEF BusInv

LEMMA BeginLines ==
  ASSUME BusInv, NEW t \in Threads, NEW c \in Transfers, CallBegins(t, c)
  PROVE  BusInv'
<1>1. HostInv /\ BusTypes /\ Begins(t, c) /\ c \in Call /\ c.kind = "transfer"
  BY I2CAssumption DEF BusInv, HostInv, BusTypes, CallBegins
<1>2. /\ at[t].fn = "idle" /\ at'[t] = First(c) /\ call'[t] = c
      /\ \A u \in Threads : u # t => at'[u] = at[u] /\ call'[u] = call[u]
  BY <1>1, BeginStep
<1>3. First(c).fn = "call"
  BY <1>1, FirstPlace
<1>4. \A u \in Threads : (Acts(u)' <=> Acts(u)) /\ (Acts(u) => u # t)
  BY <1>2, <1>3 DEF Acts
<1>5. scl' = scl /\ sda' = sda /\ hold' = hold /\ board' = board
  BY <1>1 DEF Begins
<1>6. ASSUME NEW u \in Threads, Acts(u) PROVE Lines(call[u], at[u])'
  <2>1. \A d, p : d = call[u] /\ p = at[u] => Lines(d, p)'
    <3> SUFFICES ASSUME NEW CONSTANT d, NEW CONSTANT p, d = call[u], p = at[u]
                 PROVE  Lines(d, p)'
      OBVIOUS
    <3>1. Lines(d, p)
      BY <1>6 DEF BusInv, LinesInv
    <3>2. QED
      BY <1>5, <3>1, SameLines
  <2>2. call'[u] = call[u] /\ at'[u] = at[u]
    BY <1>2, <1>4, <1>6
  <2>3. QED
    BY <2>1, <2>2
<1>7. Rest => Rest'
  BY <1>5 DEF Rest, SCL, SDA
<1>8. LinesInv'
  BY <1>4, <1>6, <1>7 DEF BusInv, LinesInv
<1>9. QED
  BY <1>1, <1>8, HostBegins, BeginTypes DEF BusInv

(* So does the board when it lets the clock go.                            *)
LEMMA LetGoStep ==
  ASSUME BusInv, LetGo
  PROVE  BusInv'
<1>1. HostInv /\ BusTypes /\ LinesInv /\ GotTypes
  BY DEF BusInv, HostInv, BusTypes
<1>2. hold /\ hold' = FALSE /\ scl' = scl /\ sda' = sda /\ before' = before
      /\ IF scl THEN Rise ELSE board' = board
  BY DEF LetGo
<1>3. at' = at /\ call' = call /\ mutex' = mutex /\ openDrain' = openDrain /\ error' = error
      /\ got' = got /\ boot' = boot /\ calls' = calls
  BY DEF LetGo, host, course
<1>4. HostInv' /\ GotTypes'
  BY <1>1, <1>3 DEF HostInv, HostTypes, PlacesInv, PhaseInv, MutexInv, Held, Idle, GotTypes
<1>5. LineTypes'
  <2>1. board' \in Board
    BY <1>1, <1>2, RiseTypes DEF BusTypes, LineTypes
  <2>2. QED
    BY <1>1, <1>2, <2>1 DEF BusTypes, LineTypes
<1>6. ASSUME NEW u \in Threads, Acts(u) PROVE Lines(call[u], at[u])'
  <2>1. \A d, p : d = call[u] /\ p = at[u] => Lines(d, p)'
    <3> SUFFICES ASSUME NEW CONSTANT d, NEW CONSTANT p, d = call[u], p = at[u]
                 PROVE  Lines(d, p)'
      OBVIOUS
    <3>1. Lines(d, p) /\ d \in Call /\ p \in Place /\ Sound(d, p) /\ LineTypes
      BY <1>1, <1>6, ThreadFields DEF LinesInv, HostInv, PlacesInv, BusTypes
    <3>2. QED
      BY <1>2, <3>1, LetGoLines
  <2>2. QED
    BY <1>3, <2>1
<1>7. PICK u \in Threads : Acts(u)
  BY <1>1, <1>2 DEF LinesInv, Rest, SCL
<1>8. LinesInv'
  <2>1. \A v \in Threads : Acts(v)' <=> Acts(v)
    BY <1>3 DEF Acts
  <2>2. QED
    BY <1>6, <1>7, <2>1 DEF LinesInv
<1>9. QED
  BY <1>4, <1>5, <1>8 DEF BusInv

(* main() first calls i2c_init().                                          *)
LEMMA HeadBoot ==
  /\ Head(Boot) \in Call /\ Head(Boot).kind = "init" /\ Head(Boot).in = 0
  /\ Tail(Boot) \in Seq(Call)
  /\ \A i \in DOMAIN Tail(Boot) : Tail(Boot)[i].kind # "transfer" /\ Tail(Boot)[i].in = 0
<1>1. Boot \in Seq(Call) /\ Boot # <<>> /\ Head(Boot).kind = "init"
      /\ \A i \in DOMAIN Boot : Boot[i].kind # "transfer" /\ Boot[i].in = 0
  BY I2CAssumption
<1>2. Head(Boot) = Boot[1] /\ 1 \in DOMAIN Boot /\ Head(Boot) \in Call
  BY <1>1
<1>3. /\ Tail(Boot) \in Seq(Call)
      /\ \A i \in DOMAIN Tail(Boot) : i + 1 \in DOMAIN Boot /\ Tail(Boot)[i] = Boot[i + 1]
  BY <1>1
<1>4. QED
  BY <1>1, <1>2, <1>3

(* It holds in the beginning.                                              *)
LEMMA BusInvInit == BusInit => BusInv
<1> SUFFICES ASSUME BusInit PROVE BusInv
  OBVIOUS
<1> DEFINE c == Head(Boot)
<1>1. c \in Call /\ c.kind = "init" /\ c.in = 0
  BY HeadBoot
<1>2. /\ mutex = [owner |-> Nobody, depth |-> 0] /\ openDrain = FALSE
      /\ at = [t \in Threads |-> IF t = Main THEN First(c) ELSE Enters("idle", 0)]
      /\ call = [t \in Threads |-> c]
      /\ error = [t \in Threads |-> FALSE] /\ got = [t \in Threads |-> <<>>]
      /\ boot = Tail(Boot) /\ calls = 0
  BY DEF BusInit
<1>3. First(c) \in Place /\ Sound(c, First(c)) /\ Depth(c, First(c)) = 0
      /\ First(c).line = 1 /\ First(c).fn = "stop"
  BY <1>1, FirstPlace
<1>4. /\ Enters("idle", 0) \in Place /\ Sound(c, Enters("idle", 0))
      /\ Enters("idle", 0).fn = "idle" /\ Depth(c, Enters("idle", 0)) = 0
  <2>1. Enters("idle", 0).fn = "idle"
    BY Entered
  <2>2. QED
    BY <1>1, <2>1, EntersPlace, SoundEnters, Depths DEF Functions, Sending, Getting
<1>5. HostTypes
  BY <1>1, <1>2, <1>3, <1>4, HeadBoot DEF HostTypes
<1>6. PlacesInv
  BY <1>2, <1>3, <1>4 DEF PlacesInv
<1>7. PhaseInv
  BY <1>1, <1>2, <1>4, HeadBoot, Parameters DEF PhaseInv, Idle
<1>8. MutexInv
  <2>1. \A t \in Threads : Held(t) = 0
    BY <1>2, <1>3, <1>4 DEF Held
  <2>2. QED
    BY <1>2, <2>1 DEF MutexInv
<1>9. GotTypes
  <2>1. <<>> \in [1..0 -> Bytes]
    BY SMT
  <2>2. \A t \in Threads : got[t] = <<>> /\ call[t].in = 0
    BY <1>1, <1>2
  <2>3. QED
    BY <1>2, <2>1, <2>2 DEF GotTypes
<1>10. LineTypes
  <2>1. 0 \in Numbers /\ Contents \in [Numbers -> Bytes]
    BY Parameters, I2CAssumption DEF Numbers
  <2>2. QED
    BY <2>1, ZeroByte DEF BusInit, LineTypes, Board, Modes
<1>11. LinesInv
  <2>1. ~scl /\ ~board.low
    BY DEF BusInit
  <2>2. Lines(c, First(c))
    BY <1>3, <2>1 DEF Lines, StopLines
  <2>3. Main \in Threads /\ Acts(Main) /\ \A t \in Threads : t # Main => ~Acts(t)
    BY <1>2, <1>3, <1>4, Parameters DEF Acts
  <2>4. Lines(call[Main], at[Main])
    BY <1>2, <2>2, <2>3
  <2>5. QED
    BY <2>3, <2>4 DEF LinesInv
<1>12. QED
  BY <1>5, <1>6, <1>7, <1>8, <1>9, <1>10, <1>11 DEF BusInv, HostInv

(* And stays where nothing changes.                                        *)
LEMMA BusStays ==
  ASSUME BusInv, UNCHANGED busVars
  PROVE  BusInv'
<1>1. scl' = scl /\ sda' = sda /\ hold' = hold /\ board' = board /\ before' = before
      /\ at' = at /\ call' = call /\ mutex' = mutex /\ openDrain' = openDrain /\ error' = error
      /\ got' = got /\ boot' = boot /\ calls' = calls
  BY DEF busVars, host, course
<1>2. HostInv' /\ GotTypes' /\ LineTypes'
  BY <1>1 DEF BusInv, HostInv, HostTypes, PlacesInv, PhaseInv, MutexInv, Held, Idle,
              GotTypes, LineTypes
<1>3. ASSUME NEW u \in Threads, Acts(u) PROVE Lines(call[u], at[u])'
  <2>1. \A d, p : d = call[u] /\ p = at[u] => Lines(d, p)'
    <3> SUFFICES ASSUME NEW CONSTANT d, NEW CONSTANT p, d = call[u], p = at[u]
                 PROVE  Lines(d, p)'
      OBVIOUS
    <3>1. Lines(d, p)
      BY <1>3 DEF BusInv, LinesInv
    <3>2. QED
      BY <1>1, <3>1, SameLines
  <2>2. QED
    BY <1>1, <2>1
<1>4. Rest => Rest'
  BY <1>1 DEF Rest, SCL, SDA
<1>5. LinesInv'
  BY <1>1, <1>3, <1>4 DEF BusInv, LinesInv, Acts
<1>6. QED
  BY <1>2, <1>5 DEF BusInv

(* So it always holds.                                                     *)
LEMMA BusInvariant == BusSpec => []BusInv
<1>1. ASSUME BusInv, [BusNext]_busVars PROVE BusInv'
  <2>1. CASE \E t \in Threads : GoesOn(t)
    BY <1>1, <2>1, LinesStep
  <2>2. CASE BootNext
    BY <1>1, <2>2, BootLines
  <2>3. CASE \E t \in Threads, c \in Transfers : CallBegins(t, c)
    BY <1>1, <2>3, BeginLines
  <2>4. CASE LetGo
    BY <1>1, <2>4, LetGoStep
  <2>5. CASE UNCHANGED busVars
    BY <1>1, <2>5, BusStays
  <2>6. QED
    BY <1>1, <2>1, <2>2, <2>3, <2>4, <2>5 DEF BusNext
<1>2. QED
  BY <1>1, BusInvInit, PTL DEF BusSpec

(* So the types are as expected.                                           *)
LEMMA BusTyped == BusSpec => []BusTypes
<1>1. BusInv => BusTypes
  BY DEF BusInv, HostInv, BusTypes
<1>2. QED
  BY <1>1, BusInvariant, PTL

(* BusRests, the property of I2C that no call of i2c.c leaves a line low   *)
(* or a board in the middle of a message when it releases the mutex,       *)
(* whatever byte was refused, for any bytes, boards, threads and calls:    *)
(* where no thread is in a function of i2c.c, the lines and the board are  *)
(* at rest.                                                                *)
THEOREM BusAtRest == BusSpec => []BusRests
<1>1. BusInv => BusRests
  <2> SUFFICES ASSUME BusInv, boot = <<>>, Idle(Main) \/ calls > 0, mutex.owner = Nobody
               PROVE  Rest
    BY DEF BusRests, Rest
  <2>1. HostInv /\ LinesInv
    BY DEF BusInv
  <2>2. \A t \in Threads : Held(t) = 0
    BY <2>1, Parameters, HeldFacts DEF HostInv, MutexInv
  <2>3. \A t \in Threads : ~Acts(t)
    <3>1. CASE calls = 0
      BY <2>1, <3>1 DEF HostInv, HostTypes, PhaseInv, Idle, Acts
    <3>2. CASE calls # 0
      <4>1. calls > 0
        BY <2>1, <3>2 DEF HostInv, HostTypes
      <4>2. \A t \in Threads : Acts(t) => call[t].kind = "transfer"
        BY <2>1, <4>1 DEF HostInv, PhaseInv, Idle, Acts
      <4>3. QED
        BY <2>1, <2>2, <4>2, HeldFacts DEF HostInv
    <3>3. QED
      BY <3>1, <3>2
  <2>4. QED
    BY <2>1, <2>3 DEF LinesInv
<1>2. QED
  BY <1>1, BusInvariant, PTL

-----------------------------------------------------------------------------
(* The register of the i-th byte, and the registers f after n bytes of c.  *)
NthReg(c, i) == (c.reg + i - 1) % Size

(* Counting on modulo the number of registers.                             *)
LEMMA NextAfter ==
  ASSUME NEW x \in Nat
  PROVE  ((x % Size) + 1) % Size = (x + 1) % Size
<1> DEFINE r == x % Size
           q == x \div Size
<1>1. Size \in Nat /\ Size > 0
  BY Parameters
<1>2. r \in 0..Size - 1
  BY <1>1, Z3
<1>6. x = Size * q + r /\ q \in Nat
  BY <1>1, Z3
<1> HIDE DEF r, q
<1>3. CASE r < Size - 1
  <2>1. r + 1 \in 0..Size-1 /\ x + 1 = Size * q + (r + 1)
    BY <1>1, <1>2, <1>6, <1>3, Z3
  <2>2. (r + 1) % Size = r + 1
    BY <1>1, <2>1, Z3
  <2>3. (x + 1) % Size = r + 1
    BY <1>1, <1>2, <1>6, <1>3, <2>1, Z3
  <2>4. QED
    BY <2>2, <2>3 DEF r
<1>4. CASE r = Size - 1
  <2>1. x + 1 = Size * (q + 1)
    BY <1>1, <1>2, <1>6, <1>4, Z3
  <2>2. (r + 1) % Size = 0
    BY <1>1, <1>4, Z3
  <2>3. (x + 1) % Size = 0
    BY <1>1, <1>6, <2>1, Z3
  <2>4. QED
    BY <2>2, <2>3 DEF r
<1>5. QED
  BY <1>1, <1>2, <1>3, <1>4

(* The registers f after the first n bytes of c.                           *)
WrittenTo(f, c, n) ==
  [r \in Numbers |->
     LET is == {i \in 1..n : NthReg(c, i) = r}
     IN  IF is = {} THEN f[r] ELSE c.out[CHOOSE i \in is : \A j \in is : j <= i]]

LEMMA NextNumber ==
  ASSUME NEW c \in Call, NEW i \in Nat \ {0}
  PROVE  NthReg(c, i) \in Numbers /\ NthReg(c, i + 1) = (NthReg(c, i) + 1) % Size
<1>1. c.reg \in Nat
  BY CallFields DEF Numbers
<1> DEFINE x == c.reg + i - 1
<1>2. x \in Nat /\ c.reg + (i + 1) - 1 = x + 1
  BY <1>1
<1> HIDE DEF x
<1>3. x % Size \in Numbers /\ ((x % Size) + 1) % Size = (x + 1) % Size
  BY <1>2, Remains, NextAfter
<1>4. NthReg(c, i) = x % Size /\ NthReg(c, i + 1) = (x + 1) % Size
  BY <1>2 DEF NthReg, x
<1>5. QED
  BY <1>3, <1>4

LEMMA FirstNumber ==
  ASSUME NEW c \in Call
  PROVE  NthReg(c, 1) = c.reg
<1>1. c.reg \in 0..Size - 1 /\ Size \in Nat /\ Size > 0
  BY CallFields, Parameters DEF Numbers
<1>2. \A x \in 0..Size - 1 : x % Size = x
  BY <1>1, Z3
<1>3. c.reg + 1 - 1 = c.reg
  BY <1>1
<1>4. QED
  BY <1>1, <1>2, <1>3 DEF NthReg

(* No byte writes nothing, and one more byte writes one register.          *)
LEMMA WrittenNone ==
  ASSUME NEW c, NEW f \in [Numbers -> Bytes]
  PROVE  WrittenTo(f, c, 0) = f
<1>1. \A r : {i \in 1..0 : NthReg(c, i) = r} = {}
  OBVIOUS
<1>2. WrittenTo(f, c, 0) = [r \in Numbers |-> f[r]]
  BY <1>1 DEF WrittenTo
<1>3. QED
  BY <1>2

LEMMA WrittenMore ==
  ASSUME NEW c \in Call, NEW f \in [Numbers -> Bytes], NEW n \in Nat, n < Len(c.out)
  PROVE  WrittenTo(f, c, n + 1) = [WrittenTo(f, c, n) EXCEPT ![NthReg(c, n + 1)] = c.out[n + 1]]
<1> DEFINE is(m, r) == {i \in 1..m : NthReg(c, i) = r}
           last1(s) == CHOOSE i \in s : \A j \in s : j <= i
           value(m, r) == IF is(m, r) = {} THEN f[r] ELSE c.out[last1(is(m, r))]
           x == NthReg(c, n + 1)
<1>1. x \in Numbers
  BY NextNumber
<1>2. \A m \in Nat : WrittenTo(f, c, m) = [r \in Numbers |-> value(m, r)]
  BY DEF WrittenTo
<1>3. value(n + 1, x) = c.out[n + 1]
  <2>1. n + 1 \in is(n + 1, x)
    OBVIOUS
  <2>2. \A j \in is(n + 1, x) : j \in Nat /\ j <= n + 1
    OBVIOUS
  <2>3. last1(is(n + 1, x)) = n + 1
    <3>1. \A i \in is(n + 1, x) : (\A j \in is(n + 1, x) : j <= i) => i = n + 1
      BY <2>1, <2>2
    <3>2. \E i \in is(n + 1, x) : \A j \in is(n + 1, x) : j <= i
      BY <2>1, <2>2
    <3> HIDE DEF is, x
    <3>3. QED
      BY <3>1, <3>2
  <2> HIDE DEF is, x, last1
  <2>4. QED
    BY <2>1, <2>3
<1>4. ASSUME NEW r \in Numbers, r # x PROVE value(n + 1, r) = value(n, r)
  <2>1. is(n + 1, r) = is(n, r)
    <3>1. \A i : i \in 1..n + 1 <=> i \in 1..n \/ i = n + 1
      OBVIOUS
    <3>2. \A i : i \in is(n + 1, r) <=> i \in is(n, r)
      BY <1>4, <3>1
    <3> HIDE DEF is
    <3>3. QED
      BY <3>2
  <2> HIDE DEF is, last1
  <2>2. QED
    BY <2>1
<1> HIDE DEF value, x
<1>5. WrittenTo(f, c, n) = [r \in Numbers |-> value(n, r)]
      /\ WrittenTo(f, c, n + 1) = [r \in Numbers |-> value(n + 1, r)]
  BY <1>2
<1>6. [[r \in Numbers |-> value(n, r)] EXCEPT ![x] = c.out[n + 1]]
      = [r \in Numbers |-> value(n + 1, r)]
  BY <1>1, <1>3, <1>4
<1>7. QED
  BY <1>5, <1>6 DEF x

(* The bytes of c that were taken before the n-th that it sends.           *)
Data(c, n) == IF n > Last(c) THEN Len(c.out) ELSE IF n > 3 THEN n - 3 ELSE 0

(* How far a call has come before the n-th byte that it sends.             *)
Progress(c, n) ==
  /\ n > 1 => c.addr = Own
  /\ board.regs = WrittenTo(before, c, Data(c, n))
  /\ n > 2 => board.ptr = NthReg(c, Data(c, n) + 1)

(* The bytes that were taken have been written, or all of them.            *)
Failed(c) ==
  \E k \in 0..Len(c.out) : (k > 0 => c.addr = Own) /\ board.regs = WrittenTo(before, c, k)

Wrote(c) == c.addr = Own /\ board.regs = WrittenTo(before, c, Len(c.out))

(* b holds what is in the first n registers that c reads.                  *)
Value(c, i) == board.regs[NthReg(c, Len(c.out) + i)]
Read(c, b, n) == Wrote(c) /\ \A i \in 1..n : b[i] = Value(c, i)
Points(c, n) == board.ptr = NthReg(c, Len(c.out) + n)

(* For each function, what its call has written and read.                  *)
AnswerData(c, p) == IF board.mode = "waits" THEN Progress(c, p.n) ELSE Progress(c, p.n + 1)

SampleData(c, p, b) ==
  /\ Read(c, b, p.n - 1) /\ Points(c, p.n)
  /\ \A k \in 1..(IF p.line = 4 THEN p.bit ELSE p.bit - 1) : b[p.n][k] = Value(c, p.n)[k]

ReplyData(c, p, b) ==
  /\ Read(c, b, p.n)
  /\ p.line # 6 => Points(c, p.n)
  /\ p.line = 6 /\ p.n < c.in => Points(c, p.n + 1)

EndData(c, e, b) == IF e THEN Failed(c) ELSE Read(c, b, c.in)

Carries(c, p, e, b) ==
  /\ p.fn = "start" => Progress(c, 1)
  /\ p.fn = "restart" => Progress(c, Last(c) + 1)
  /\ p.fn \in {"send", "shift"} => Progress(c, p.n)
  /\ p.fn = "answer" => AnswerData(c, p)
  /\ p.fn = "refused" => e /\ Failed(c)
  /\ p.fn = "get" => Read(c, b, p.n - 1) /\ Points(c, p.n)
  /\ p.fn = "sample" => SampleData(c, p, b)
  /\ p.fn = "got" => Read(c, b, p.n) /\ Points(c, p.n)
  /\ p.fn = "reply" => ReplyData(c, p, b)
  /\ p.fn \in {"stop", "return"} => EndData(c, e, b)
  /\ p.fn \notin {"refused", "stop", "return", "idle"} => ~e

(* How many bytes that are.                                                *)
LEMMA DataRange ==
  ASSUME NEW c \in Call, c.kind = "transfer", NEW n \in 1..Last(c) + 1
  PROVE  /\ Data(c, n) \in 0..Len(c.out) /\ Len(c.out) \in Nat /\ Last(c) = Len(c.out) + 2
         /\ n > Last(c) => Data(c, n) = Len(c.out)
         /\ Data(c, n) > 0 => n > 1
BY CallFields DEF Data, Last

(* The board's registers and where it points do not change.                *)
Kept == board'.regs = board.regs /\ board'.ptr = board.ptr /\ before' = before

LEMMA KeptData ==
  ASSUME Kept, NEW CONSTANT c, NEW CONSTANT n, NEW CONSTANT b
  PROVE  /\ Progress(c, n) => Progress(c, n)'
         /\ Failed(c) => Failed(c)'
         /\ Read(c, b, n) => Read(c, b, n)'
         /\ Points(c, n) => Points(c, n)'
         /\ \A i : Value(c, i)' = Value(c, i)
<1>1. \A m : WrittenTo(before, c, m)' = WrittenTo(before, c, m)
  BY DEF Kept
<1>2. \A i : Value(c, i)' = Value(c, i)
  BY DEF Kept, Value
<1>3. Progress(c, n) => Progress(c, n)'
  BY DEF Kept, Progress
<1>4. Failed(c) => Failed(c)'
  BY DEF Kept, Failed
<1>5. Read(c, b, n) => Read(c, b, n)'
  BY <1>2 DEF Kept, Read, Wrote
<1>6. QED
  BY <1>2, <1>3, <1>4, <1>5 DEF Kept, Points

(* A byte may be refused: what went before has been written.               *)
LEMMA ProgressFails ==
  ASSUME NEW c \in Call, c.kind = "transfer", NEW n \in 1..Last(c) + 1, Progress(c, n)
  PROVE  Failed(c)
BY DataRange DEF Progress, Failed

LEMMA ProgressWrote ==
  ASSUME NEW c \in Call, c.kind = "transfer", Progress(c, Last(c) + 1), NEW b
  PROVE  Read(c, b, 0) /\ Points(c, 1)
<1>1. Last(c) + 1 > 2 /\ Last(c) + 1 > 1 /\ Last(c) + 1 > Last(c)
  BY CallFields DEF Last
<1>2. Data(c, Last(c) + 1) = Len(c.out)
  BY <1>1 DEF Data
<1>3. QED
  BY <1>1, <1>2 DEF Progress, Read, Wrote, Points

(* After the byte that ends what is sent, all was sent.                    *)
LEMMA ProgressOn ==
  ASSUME NEW c \in Call, c.kind = "transfer", Progress(c, Last(c) + 2)
  PROVE  Progress(c, Last(c) + 1)
<1>1. Last(c) + 1 > 2 /\ Last(c) + 1 > 1 /\ Last(c) + 1 > Last(c)
      /\ Last(c) + 2 > 2 /\ Last(c) + 2 > 1 /\ Last(c) + 2 > Last(c)
  BY CallFields DEF Last
<1>2. Data(c, Last(c) + 1) = Len(c.out) /\ Data(c, Last(c) + 2) = Len(c.out)
  BY <1>1 DEF Data
<1>3. QED
  BY <1>1, <1>2 DEF Progress

(* What a call knows of the registers, after a step that does not move     *)
(* them and where nothing is read.                                         *)
LEMMA QuietData ==
  ASSUME NEW CONSTANT c \in Call, NEW CONSTANT p \in Place, NEW CONSTANT e, NEW CONSTANT b,
         c.kind = "transfer", Sound(c, p), Lines(c, p), Carries(c, p, e, b),
         p.fn \notin {"idle", "call"},
         Op(p) \notin {"scl0", "bit"}, Kept, p.fn = "answer" => board'.mode = board.mode
  PROVE  Carries(c, After(c, p), e, b)'
<1> DEFINE q == After(c, p)
<1>0. Last(c) \in Nat /\ Len(c.out) \in Nat /\ c.in \in Nat /\ p.n \in Nat /\ p.bit \in 1..Bits
  BY CallFields DEF Place
<1>k. /\ \A n : Progress(c, n) => Progress(c, n)'
      /\ Failed(c) => Failed(c)'
      /\ \A n : Read(c, b, n) => Read(c, b, n)'
      /\ \A n : Points(c, n) => Points(c, n)'
      /\ \A i : Value(c, i)' = Value(c, i)
  BY KeptData
<1>1. CASE p.fn = "start"
  <2>1. Progress(c, 1) /\ ~e
    BY <1>1 DEF Carries
  <2>2. q.fn = "start" \/ (q.fn = "send" /\ q.n = 1)
    BY <1>1, StartLeads DEF Leads
  <2>3. QED
    BY <1>k, <2>1, <2>2 DEF Carries
<1>2. CASE p.fn = "restart"
  <2>1. Progress(c, Last(c) + 1) /\ ~e
    BY <1>2 DEF Carries
  <2>2. q.fn = "restart" \/ (q.fn = "send" /\ q.n = Last(c) + 1)
    BY <1>2, RestartLeads DEF Leads
  <2>3. QED
    BY <1>k, <2>1, <2>2 DEF Carries
<1>3. CASE p.fn \in {"send", "shift"}
  <2>1. Progress(c, p.n) /\ ~e
    BY <1>3 DEF Carries
  <2>2. q.fn = "shift" /\ q.n = p.n
    BY <1>3, SendLeads, ShiftLeads DEF Leads
  <2>3. QED
    BY <1>k, <2>1, <2>2 DEF Carries
<1>4. CASE p.fn = "answer" /\ p.line < 6
  <2>1. AnswerData(c, p) /\ ~e
    BY <1>4 DEF Carries
  <2>2. q.fn = "answer" /\ q.n = p.n
    BY <1>4, AnswerLeads DEF Leads
  <2>3. AnswerData(c, q)'
    BY <1>4, <1>k, <2>1, <2>2 DEF AnswerData
  <2>4. QED
    BY <2>1, <2>2, <2>3 DEF Carries
<1>5. CASE p.fn = "answer" /\ ~(p.line < 6)
  <2>1. p.line = 6 /\ p.n \in 1..Last(c) + 1
    BY <1>5, AnswerLeads DEF Sound, Sending
  <2>2. Progress(c, p.n + 1) /\ ~e
    <3>1. board.mode # "waits"
      BY <1>5, <2>1 DEF Lines, AnswerLines, Shown, Fresh
    <3>2. QED
      BY <1>5, <3>1 DEF Carries, AnswerData
  <2>3. Progress(c, p.n + 1)'
    BY <1>k, <2>2
  <2>4. CASE p.n < Last(c)
    <3>1. q.fn = "send" /\ q.n = p.n + 1
      BY <1>0, <1>5, <2>4, AnswerLeads DEF Leads
    <3>2. QED
      BY <2>2, <2>3, <3>1 DEF Carries
  <2>5. CASE p.n = Last(c) /\ c.in > 0
    <3>1. q.fn = "restart"
      BY <1>0, <1>5, <2>5, AnswerLeads DEF Leads
    <3>2. QED
      BY <2>2, <2>3, <2>5, <3>1 DEF Carries
  <2>6. CASE p.n = Last(c) /\ ~(c.in > 0)
    <3>1. q.fn = "stop" /\ c.in = 0
      BY <1>0, <1>5, <2>6, AnswerLeads DEF Leads
    <3>2. Read(c, b, 0)'
      BY <1>k, <2>2, <2>6, ProgressWrote
    <3>3. QED
      BY <2>2, <3>1, <3>2 DEF Carries, EndData
  <2>7. CASE p.n > Last(c)
    <3>1. q.fn = "get" /\ q.n = 1 /\ p.n = Last(c) + 1
      BY <1>0, <1>5, <2>1, <2>7, AnswerLeads DEF Leads
    <3>2. Read(c, b, 0) /\ Points(c, 1)
      <4>1. p.n + 1 = Last(c) + 2
        BY <1>0, <3>1
      <4>2. QED
        BY <2>2, <4>1, ProgressOn, ProgressWrote
    <3>3. Read(c, b, 0)' /\ Points(c, 1)'
      BY <1>k, <3>2
    <3>4. q.n - 1 = 0
      BY <3>1
    <3>5. QED
      BY <2>2, <3>1, <3>3, <3>4 DEF Carries
  <2>8. QED
    BY <1>0, <2>4, <2>5, <2>6, <2>7
<1>6. CASE p.fn = "refused"
  <2>1. Failed(c) /\ e
    BY <1>6 DEF Carries
  <2>2. q.fn \in {"refused", "stop"}
    BY <1>6, RefusedLeads DEF Leads
  <2>3. QED
    BY <1>k, <2>1, <2>2 DEF Carries, EndData
<1>7. CASE p.fn = "get"
  <2>1. Read(c, b, p.n - 1) /\ Points(c, p.n) /\ ~e
    BY <1>7 DEF Carries
  <2>2. (q.fn = "get" /\ q.n = p.n) \/ (q.fn = "sample" /\ q.n = p.n /\ q.line = 1 /\ q.bit = 1)
    BY <1>7, GetLeads DEF Leads
  <2>3. q.fn = "sample" => SampleData(c, q, b)'
    BY <1>k, <2>1, <2>2 DEF SampleData
  <2>4. q.fn = "get" => Read(c, b, q.n - 1)' /\ Points(c, q.n)'
    BY <1>k, <2>1, <2>2
  <2>5. QED
    BY <2>1, <2>2, <2>3, <2>4 DEF Carries
<1>8. CASE p.fn = "sample"
  <2>1. SampleData(c, p, b) /\ ~e
    BY <1>8 DEF Carries
  <2>2. q.fn = "sample" /\ q.n = p.n /\ q.bit = p.bit /\ p.line # 4 /\ q.line # 4
    BY <1>8, SampleLeads DEF Leads
  <2>3. SampleData(c, q, b)'
    BY <1>k, <2>1, <2>2 DEF SampleData
  <2>4. QED
    BY <2>1, <2>2, <2>3 DEF Carries
<1>9. CASE p.fn = "got"
  <2>1. Read(c, b, p.n) /\ Points(c, p.n) /\ ~e
    BY <1>9 DEF Carries
  <2>2. q.fn = "reply" /\ q.n = p.n /\ q.line = 1
    BY <1>9, GotLeads DEF Leads
  <2>3. ReplyData(c, q, b)'
    BY <1>k, <2>1, <2>2 DEF ReplyData
  <2>4. QED
    BY <2>1, <2>2, <2>3 DEF Carries
<1>10. CASE p.fn = "reply" /\ p.line < 6
  <2>1. ReplyData(c, p, b) /\ ~e
    BY <1>10 DEF Carries
  <2>2. q.fn = "reply" /\ q.n = p.n /\ q.line # 6
    BY <1>10, ReplyLeads DEF Leads
  <2>3. ReplyData(c, q, b)'
    BY <1>10, <1>k, <2>1, <2>2 DEF ReplyData
  <2>4. QED
    BY <2>1, <2>2, <2>3 DEF Carries
<1>11. CASE p.fn = "reply" /\ ~(p.line < 6)
  <2>1. p.line = 6 /\ ReplyData(c, p, b) /\ ~e /\ p.n \in 1..c.in
    BY <1>11, ReplyLeads DEF Carries, Sound, Getting
  <2>2. CASE p.n < c.in
    <3>1. q.fn = "get" /\ q.n = p.n + 1 /\ q.n - 1 = p.n
      BY <1>0, <1>11, <2>2, ReplyLeads DEF Leads
    <3>2. Read(c, b, p.n)' /\ Points(c, p.n + 1)'
      BY <1>k, <2>1, <2>2 DEF ReplyData
    <3>3. QED
      BY <2>1, <3>1, <3>2 DEF Carries
  <2>3. CASE ~(p.n < c.in)
    <3>1. q.fn = "stop" /\ p.n = c.in
      BY <1>0, <1>11, <2>1, <2>3, ReplyLeads DEF Leads
    <3>2. Read(c, b, c.in)'
      BY <1>k, <2>1, <3>1 DEF ReplyData
    <3>3. QED
      BY <2>1, <3>1, <3>2 DEF Carries, EndData
  <2>4. QED
    BY <2>2, <2>3
<1>12. CASE p.fn = "stop"
  <2>1. EndData(c, e, b)
    BY <1>12 DEF Carries
  <2>2. q.fn \in {"stop", "return"}
    BY <1>12, StopLeads DEF Leads
  <2>3. QED
    BY <1>k, <2>1, <2>2 DEF Carries, EndData
<1>13. CASE p.fn = "return"
  BY <1>13, ReturnLeads DEF Leads, Carries
<1>14. QED
  BY <1>1, <1>2, <1>3, <1>4, <1>5, <1>6, <1>7, <1>8, <1>9, <1>10, <1>11, <1>12, <1>13
     DEF Place, Functions

(* A board that shows a bit, or rests, keeps its registers.                *)
LEMMA BoardShows ==
  ASSUME board \in Board, NEW r \in Numbers, NEW n, board' = Shows(r, n)
  PROVE  board'.regs = board.regs /\ board'.ptr = r /\ board'.mode = "sends"
BY DEF Shows, Board

LEMMA BoardRests ==
  ASSUME board \in Board, board' = Rests
  PROVE  board'.regs = board.regs /\ board'.ptr = board.ptr /\ board'.mode = "waits"
BY DEF Rests, Board

(* The board accepts the n-th byte of a call.                              *)
LEMMA AcceptData ==
  ASSUME NEW CONSTANT c \in Call, c.kind = "transfer", NEW CONSTANT n \in 1..Last(c) + 1,
         Progress(c, n), board \in Board, before \in [Numbers -> Bytes], before' = before,
         board.mode = Mode(c, n), board.shift = Sent(c, n),
         board.mode = "register" => Named(board.shift) = c.reg,
         board' = Accepts,
         board.mode = "address" => [board.shift EXCEPT ![Bits] = FALSE] = Own
  PROVE  Progress(c, n + 1)' /\ board'.mode # "waits"
<1>0. Last(c) = Len(c.out) + 2 /\ Len(c.out) \in Nat /\ n \in Nat /\ n > 0
  BY CallFields DEF Last
<1>1. CASE n = 1 \/ n > Last(c)
  <2>1. board.mode = "address"
    BY <1>1 DEF Mode
  <2>2. board' = [board EXCEPT !.low = TRUE]
    BY <2>1 DEF Accepts
  <2>3. board'.regs = board.regs /\ board'.ptr = board.ptr /\ board'.mode = "address"
    BY <2>1, <2>2 DEF Board
  <2>4. c.addr = Own
    BY <1>1, <2>1, AddressBit
  <2>5. CASE n = 1
    <3>1. Data(c, 1) = 0 /\ Data(c, 1 + 1) = 0
      BY <1>0 DEF Data
    <3>2. QED
      BY <2>3, <2>4, <2>5, <3>1 DEF Progress
  <2>6. CASE n > Last(c)
    <3>1. Data(c, n) = Len(c.out) /\ Data(c, n + 1) = Len(c.out) /\ n > 2
      BY <1>0, <2>6 DEF Data
    <3>2. QED
      BY <2>3, <2>4, <3>1 DEF Progress
  <2>7. QED
    BY <1>1, <2>5, <2>6
<1>2. CASE n = 2 /\ ~(n > Last(c))
  <2>1. board.mode = "register"
    BY <1>2 DEF Mode
  <2>2. board' = [board EXCEPT !.low = TRUE, !.ptr = c.reg]
    BY <2>1 DEF Accepts
  <2>3. board'.regs = board.regs /\ board'.ptr = c.reg /\ board'.mode = "register"
    BY <2>1, <2>2 DEF Board
  <2>4. Data(c, 2) = 0 /\ Data(c, 2 + 1) = 0
    BY <1>0 DEF Data
  <2>5. NthReg(c, 0 + 1) = c.reg
    BY FirstNumber
  <2>6. QED
    BY <1>2, <2>3, <2>4, <2>5 DEF Progress
<1>3. CASE n > 2 /\ ~(n > Last(c))
  <2>1. board.mode = "data"
    BY <1>3 DEF Mode
  <2>2. board' = [board EXCEPT !.low = TRUE, !.regs[board.ptr] = board.shift, !.ptr = NextReg]
    BY <2>1 DEF Accepts
  <2>3. board'.regs = [board.regs EXCEPT ![board.ptr] = board.shift] /\ board'.ptr = NextReg
        /\ board'.mode = "data"
    BY <2>1, <2>2 DEF Board
  <2> DEFINE k == n - 3
  <2>4. k \in Nat /\ k < Len(c.out) /\ k + 1 = n - 2 /\ n \in 3..Last(c)
    BY <1>0, <1>3
  <2>5. Data(c, n) = k /\ Data(c, n + 1) = k + 1
    BY <1>0, <1>3 DEF Data
  <2>6. Sent(c, n) = c.out[k + 1]
    BY <1>1, <2>4, CallFields, Sends
  <2>7. board.ptr = NthReg(c, k + 1) /\ board.regs = WrittenTo(before, c, k) /\ c.addr = Own
    BY <1>0, <1>3, <2>5 DEF Progress
  <2> HIDE DEF k
  <2>8. board'.regs = WrittenTo(before, c, k + 1)
    BY <2>3, <2>4, <2>6, <2>7, WrittenMore
  <2>9. board'.ptr = NthReg(c, (k + 1) + 1)
    BY <2>3, <2>4, <2>7, NextNumber DEF NextReg
  <2>10. QED
    BY <2>3, <2>5, <2>7, <2>8, <2>9 DEF Progress
<1>4. QED
  BY <1>0, <1>1, <1>2, <1>3

(* SCL falls.                                                              *)
LEMMA FallData ==
  ASSUME NEW CONSTANT c \in Call, NEW CONSTANT p \in Place, NEW CONSTANT e,
         NEW CONSTANT b \in [1..c.in -> Bytes],
         c.kind = "transfer", Sound(c, p), Lines(c, p), Carries(c, p, e, b),
         LineTypes, before' = before, Op(p) = "scl0", IF SCL THEN Fall ELSE board' = board
  PROVE  Carries(c, After(c, p), e, b)'
<1> DEFINE q == After(c, p)
<1>0. /\ board \in Board /\ board.n \in Nat /\ Bits \in Nat /\ Bits > 0
      /\ board.ptr \in Numbers /\ before \in [Numbers -> Bytes] /\ board.regs \in [Numbers -> Bytes]
      /\ Len(c.out) \in Nat /\ c.in \in Nat
  BY Parameters, CallFields DEF LineTypes, Board
<1>k. Kept => /\ \A n : Progress(c, n) => Progress(c, n)'
              /\ Failed(c) => Failed(c)'
              /\ \A n : Read(c, b, n) => Read(c, b, n)'
              /\ \A n : Points(c, n) => Points(c, n)'
  BY KeptData
<1>1. CASE p.fn \in {"start", "restart"}
  <2>1. SCL /\ Fresh("address") /\ q.fn = p.fn
    BY <1>1, StartLeads, RestartLeads DEF Lines, StartLines, RestartLines, Leads
  <2>2. board' = board
    BY <1>0, <2>1, FallNothing DEF Fresh, Receiving
  <2>3. Kept
    BY <2>2 DEF Kept
  <2>4. QED
    BY <1>1, <1>k, <2>1, <2>3 DEF Carries
<1>2. CASE p.fn = "shift" /\ p.bit < Bits
  <2>1. p.line = 4 /\ q.fn = "shift" /\ q.n = p.n
    BY <1>0, <1>2, ShiftLeads DEF Leads
  <2>2. SCL /\ board.mode = Mode(c, p.n) /\ board.n = p.bit
    BY <1>2, <2>1 DEF Lines, ShiftLines, SCL, Prefix
  <2>3. board' = board
    BY <1>0, <1>2, <2>2, FallNothing, ModeReceives
  <2>4. Kept
    BY <2>3 DEF Kept
  <2>5. Progress(c, p.n) /\ ~e
    BY <1>2 DEF Carries
  <2>6. QED
    BY <1>k, <2>1, <2>4, <2>5 DEF Carries
<1>3. CASE p.fn = "shift" /\ ~(p.bit < Bits)
  <2>1. p.line = 4 /\ p.bit = Bits /\ q.fn = "answer" /\ q.n = p.n /\ p.n \in 1..Last(c) + 1
    BY <1>3, ShiftLeads DEF Leads, Sound, Sending
  <2>2. SCL /\ board.mode = Mode(c, p.n) /\ Prefix(c, p.n, Bits)
    BY <1>3, <2>1 DEF Lines, ShiftLines, SCL
  <2>3. board.shift = Sent(c, p.n) /\ board.n = Bits
    <3>1. board.shift \in Bytes /\ Sent(c, p.n) \in Bytes
      BY <1>0, <2>1, SentByte DEF Board
    <3>2. \A k \in 1..Bits : board.shift[k] = Sent(c, p.n)[k]
      BY <2>2 DEF Prefix
    <3>3. QED
      BY <2>2, <3>1, <3>2, SameByte DEF Prefix
  <2>4. Progress(c, p.n) /\ ~e
    BY <1>3 DEF Carries
  <2>5. board.mode = "register" => Named(board.shift) = c.reg
    BY <1>0, <2>3, NamedTaken
  <2>6. CASE board' = Rests
    <3>1. Kept /\ board'.mode = "waits"
      BY <1>0, <2>6, BoardRests DEF Kept
    <3>2. Progress(c, p.n)'
      BY <1>k, <2>4, <3>1
    <3>3. AnswerData(c, q)'
      BY <2>1, <3>1, <3>2 DEF AnswerData
    <3>4. QED
      BY <2>1, <2>4, <3>3 DEF Carries
  <2>7. CASE /\ board' = Accepts
             /\ (board.mode = "address" => [board.shift EXCEPT ![Bits] = FALSE] = Own)
    <3>1. Progress(c, p.n + 1)' /\ board'.mode # "waits"
      BY <1>0, <2>1, <2>2, <2>3, <2>4, <2>5, <2>7, AcceptData
    <3>2. AnswerData(c, q)'
      BY <2>1, <3>1 DEF AnswerData
    <3>3. QED
      BY <2>1, <2>4, <3>2 DEF Carries
  <2>8. QED
    BY <2>2, <2>3, <2>6, <2>7, FallTakes, ModeReceives
<1>4. CASE p.fn = "answer"
  <2>1. p.line = 5 /\ q.fn = "answer" /\ q.n = p.n
    BY <1>4, AnswerLeads DEF Leads
  <2>2. SCL /\ Took(c, p.n, Bits + 1)
    BY <1>4, <2>1 DEF Lines, AnswerLines
  <2>3. board' = AfterByte /\ board.mode \in Receiving
    BY <2>2, FallGoesOn, ModeReceives DEF Took
  <2>4. board' = Shows(board.ptr, 0) \/ \E m \in {"register", "data"} : board' = Expects(m)
    BY <2>3 DEF AfterByte, Receiving
  <2>5. board'.regs = board.regs /\ board'.ptr = board.ptr /\ board'.mode # "waits"
    BY <1>0, <2>4, BoardShows, ExpectsDoes
  <2>6. Kept
    BY <2>5 DEF Kept
  <2>7. Progress(c, p.n + 1) /\ ~e
    BY <1>4, <2>3 DEF Carries, AnswerData, Receiving
  <2>8. AnswerData(c, q)'
    BY <1>k, <2>1, <2>5, <2>6, <2>7 DEF AnswerData
  <2>9. QED
    BY <2>1, <2>7, <2>8 DEF Carries
<1>5. CASE p.fn = "refused"
  <2>1. SCL /\ Refuses /\ q.fn = "refused"
    BY <1>5, RefusedLeads DEF Lines, RefusedLines, Leads
  <2>2. board' = board
    BY <1>0, <2>1, FallNothing DEF Refuses
  <2>3. Kept
    BY <2>2 DEF Kept
  <2>4. QED
    BY <1>5, <1>k, <2>1, <2>3 DEF Carries
<1>6. CASE p.fn = "sample"
  <2>1. p.line = 4 /\ SampleData(c, p, b) /\ ~e /\ p.bit \in 1..Bits /\ p.n \in 1..c.in
    BY <1>6, SampleLeads DEF Carries, Place, Sound, Getting
  <2>2. SCL /\ board.mode = "sends" /\ board.n = p.bit
    BY <1>6, <2>1 DEF Lines, SampleLines, SCL
  <2>3. board' = Shows(board.ptr, board.n) \/ board' = [board EXCEPT !.low = FALSE]
    BY <1>0, <2>1, <2>2, FallSends
  <2>4. Kept
    BY <1>0, <2>3, BoardShows DEF Kept, Board
  <2>5. /\ Read(c, b, p.n - 1) /\ Points(c, p.n)
        /\ \A k \in 1..p.bit : b[p.n][k] = Value(c, p.n)[k]
    BY <2>1 DEF SampleData
  <2>6. CASE p.bit < Bits
    <3>1. q.fn = "sample" /\ q.line = 1 /\ q.n = p.n /\ q.bit = p.bit + 1 /\ q.bit - 1 = p.bit
      BY <1>6, <2>1, <2>6, SampleLeads DEF Leads
    <3>2. Value(c, p.n)' = Value(c, p.n)
      BY <2>4, KeptData
    <3>3. SampleData(c, q, b)'
      BY <1>k, <2>4, <2>5, <3>1, <3>2 DEF SampleData
    <3>4. QED
      BY <2>1, <3>1, <3>3 DEF Carries
  <2>7. CASE ~(p.bit < Bits)
    <3>1. q.fn = "got" /\ q.n = p.n /\ p.bit = Bits
      BY <1>6, <2>7, SampleLeads DEF Leads
    <3>2. b[p.n] = Value(c, p.n)
      <4>1. b[p.n] \in Bytes
        BY <2>1
      <4>2. Value(c, p.n) \in Bytes
        <5>1. Len(c.out) + p.n \in Nat \ {0}
          BY <1>0, <2>1
        <5>2. NthReg(c, Len(c.out) + p.n) \in Numbers
          BY <5>1, NextNumber
        <5>3. QED
          BY <1>0, <5>2 DEF Value
      <4>3. QED
        BY <2>5, <3>1, <4>1, <4>2, SameByte
    <3>3. Read(c, b, p.n)
      <4>1. \A i \in 1..p.n : i \in 1..p.n - 1 \/ i = p.n
        BY <2>1
      <4>2. QED
        BY <2>5, <3>2, <4>1 DEF Read
    <3>4. QED
      BY <1>k, <2>1, <2>4, <2>5, <3>1, <3>3 DEF Carries
  <2>8. QED
    BY <2>6, <2>7
<1>7. CASE p.fn = "reply"
  <2>1. p.line = 5 /\ ReplyData(c, p, b) /\ ~e /\ p.n \in 1..c.in
        /\ q.fn = "reply" /\ q.n = p.n /\ q.line = 6
    BY <1>7, ReplyLeads DEF Carries, Sound, Getting, Leads
  <2>2. SCL /\ board.mode = "sends" /\ board.n = Bits + 1 /\ sda = (p.n = c.in) /\ board.more = ~sda
    BY <1>7, <2>1 DEF Lines, ReplyLines, SCL
  <2>3. board' = IF board.more THEN Shows(NextReg, 0) ELSE Rests
    BY <1>0, <2>2, FallSends
  <2>4. Read(c, b, p.n) /\ Points(c, p.n)
    BY <2>1 DEF ReplyData
  <2>5. CASE p.n < c.in
    <3>a. board.more = TRUE
      <4>1. p.n # c.in
        BY <1>0, <2>1, <2>5
      <4>2. sda = FALSE
        BY <2>2, <4>1
      <4>3. QED
        BY <2>2, <4>2
    <3>1. board' = Shows(NextReg, 0)
      BY <2>3, <3>a
    <3> DEFINE i == Len(c.out) + p.n
    <3>2. i \in Nat \ {0} /\ Len(c.out) + (p.n + 1) = i + 1
      BY <1>0, <2>1
    <3>3. board.ptr = NthReg(c, i)
      BY <2>4 DEF Points
    <3> HIDE DEF i
    <3>4. NextReg = NthReg(c, i + 1)
      BY <3>2, <3>3, NextNumber DEF NextReg
    <3>5. NextReg \in Numbers
      BY <3>2, <3>4, NextNumber
    <3>6. board'.regs = board.regs /\ board'.ptr = NthReg(c, i + 1)
      BY <1>0, <3>1, <3>4, <3>5, BoardShows
    <3>7. Read(c, b, p.n)'
      BY <2>4, <3>6 DEF Read, Wrote, Value
    <3>8. Points(c, p.n + 1)'
      BY <3>2, <3>6 DEF Points
    <3>9. ReplyData(c, q, b)'
      BY <2>1, <3>7, <3>8 DEF ReplyData
    <3>10. QED
      BY <2>1, <3>9 DEF Carries
  <2>6. CASE ~(p.n < c.in)
    <3>a. board.more = FALSE
      <4>1. p.n = c.in
        BY <1>0, <2>1, <2>6
      <4>2. sda = TRUE
        BY <2>2, <4>1
      <4>3. QED
        BY <2>2, <4>2
    <3>1. board' = Rests
      BY <2>3, <3>a
    <3>2. Kept
      BY <1>0, <3>1, BoardRests DEF Kept
    <3>3. ReplyData(c, q, b)'
      BY <1>k, <2>1, <2>4, <2>6, <3>2 DEF ReplyData
    <3>4. QED
      BY <2>1, <3>3 DEF Carries
  <2>7. QED
    BY <2>5, <2>6
<1>8. CASE p.fn \in {"idle", "call", "send", "get", "got", "stop", "return"}
  BY <1>8, Ops, Lengths DEF Functions, Sound
<1>9. QED
  BY <1>1, <1>2, <1>3, <1>4, <1>5, <1>6, <1>7, <1>8 DEF Place, Functions

(* A bit is read from the line.                                            *)
LEMMA BitData ==
  ASSUME NEW CONSTANT c \in Call, NEW CONSTANT p \in Place, NEW CONSTANT e,
         NEW CONSTANT b \in [1..c.in -> Bytes], NEW CONSTANT d, LineTypes,
         c.kind = "transfer", Sound(c, p), Lines(c, p), Carries(c, p, e, b), Op(p) = "bit",
         Kept, d = [b EXCEPT ![p.n] = [b[p.n] EXCEPT ![p.bit] = SDA]]
  PROVE  Carries(c, After(c, p), e, d)'
<1> DEFINE q == After(c, p)
<1>1. p.fn = "sample"
  BY Ops, Lengths DEF Functions, Sound, Place
<1>2. p.line = 3 /\ q.fn = "sample" /\ q.line = 4 /\ q.n = p.n /\ q.bit = p.bit
  BY <1>1, SampleLeads DEF Leads
<1>3. p.n \in 1..c.in /\ p.bit \in 1..Bits /\ c.in \in Nat
  BY <1>1, CallFields DEF Sound, Getting, Place
<1>4. /\ Read(c, b, p.n - 1) /\ Points(c, p.n)
      /\ \A k \in 1..p.bit - 1 : b[p.n][k] = Value(c, p.n)[k]
      /\ ~e
  BY <1>1, <1>2 DEF Carries, SampleData
<1>5. b[p.n] \in [1..Bits -> BOOLEAN]
  BY <1>3 DEF Bytes
<1>6. d[p.n] = [b[p.n] EXCEPT ![p.bit] = SDA] /\ \A i \in 1..c.in : i # p.n => d[i] = b[i]
  BY <1>3
<1>7. SDA = Value(c, p.n)[p.bit]
  <2>1. sda /\ board.low = ~board.regs[board.ptr][p.bit] /\ board.ptr = NthReg(c, Len(c.out) + p.n)
    BY <1>1, <1>4 DEF Lines, SampleLines, Points
  <2>2. board.ptr \in Numbers /\ board.regs \in [Numbers -> Bytes]
    BY DEF LineTypes, Board
  <2>3. board.regs[board.ptr][p.bit] \in BOOLEAN
    BY <1>3, <2>2, BitOfByte
  <2>4. QED
    BY <2>1, <2>3 DEF SDA, Value
<1>8. ASSUME NEW k \in 1..p.bit PROVE d[p.n][k] = Value(c, p.n)[k]
  <2>1. k \in 1..Bits
    BY <1>3, Parameters
  <2>2. d[p.n][k] = IF k = p.bit THEN SDA ELSE b[p.n][k]
    <3>1. \A f \in [1..Bits -> BOOLEAN] :
            [f EXCEPT ![p.bit] = SDA][k] = IF k = p.bit THEN SDA ELSE f[k]
      BY <2>1
    <3>2. [b[p.n] EXCEPT ![p.bit] = SDA][k] = IF k = p.bit THEN SDA ELSE b[p.n][k]
      BY <1>5, <3>1
    <3>3. QED
      BY <1>6, <3>2, Zenon
  <2>3. k = p.bit \/ k \in 1..p.bit - 1
    BY <1>3
  <2>4. QED
    BY <1>4, <1>7, <2>2, <2>3
<1>9. Read(c, d, p.n - 1)
  BY <1>3, <1>4, <1>6 DEF Read
<1>10. /\ Read(c, d, p.n - 1)' /\ Points(c, p.n)' /\ Value(c, p.n)' = Value(c, p.n)
  BY <1>4, <1>9, KeptData
<1>11. SampleData(c, q, d)'
  BY <1>2, <1>8, <1>10 DEF SampleData
<1>12. QED
  BY <1>2, <1>4, <1>11 DEF Carries

(* A byte is refused.                                                      *)
LEMMA AckData ==
  ASSUME NEW CONSTANT c \in Call, NEW CONSTANT p \in Place, NEW CONSTANT e, NEW CONSTANT b,
         c.kind = "transfer", Sound(c, p), Lines(c, p), Carries(c, p, e, b), Op(p) = "ack", SDA,
         Kept
  PROVE  Carries(c, Enters("refused", p.n), TRUE, b)'
<1>1. p.fn = "answer" /\ p.line = 4 /\ p.n \in 1..Last(c) + 1
  <2>1. p.fn = "answer"
    BY AckLines
  <2>2. QED
    BY <2>1, AnswerLeads DEF Sound, Sending
<1>2. board.mode = "waits"
  BY <1>1 DEF Lines, AnswerLines, Refuses, Took, SDA
<1>3. Failed(c)
  BY <1>1, <1>2, ProgressFails DEF Carries, AnswerData
<1>4. Failed(c)'
  BY <1>3, KeptData
<1>5. Enters("refused", p.n).fn = "refused"
  BY Entered
<1>6. QED
  BY <1>4, <1>5 DEF Carries

(* What every call knows of the registers; those that look for a board do  *)
(* not change them.                                                        *)
DataInv ==
  /\ \A t \in Threads : call[t].kind = "transfer" =>
       call[t] \in Transfers /\ (~Idle(t) => Carries(call[t], at[t], error[t], got[t]))
  /\ \A t \in Threads : call[t].kind # "transfer" /\ Held(t) > 0 => board.regs = before

(* Where SCL is pulled down, and where the last lock is released.          *)
LEMMA ClearWhere ==
  ASSUME NEW c \in Call, NEW p \in Place, Sound(c, p), Op(p) = "scl0"
  PROVE  /\ Depth(c, p) > 0
         /\ p.fn \in {"start", "restart", "shift", "answer", "refused", "sample", "reply"}
<1>1. p.fn \in Functions /\ p.line \in 1..Len(Code[p.fn])
  BY DEF Sound, Place
<1>2. p.fn \in {"start", "restart", "shift", "answer", "refused", "sample", "reply"}
  BY <1>1, Ops DEF Functions
<1>3. Inner(p) > 0
  BY <1>1, <1>2, Ops, Inners
<1>4. Inner(p) \in Nat /\ Outer(c, p) \in Nat
  BY <1>1, Depths
<1>5. QED
  BY <1>2, <1>3, <1>4 DEF Depth

LEMMA LastUnlock ==
  ASSUME NEW c \in Call, NEW p \in Place, Sound(c, p), Op(p) = "unlock", Depth(c, p) = 1,
         c.kind = "transfer"
  PROVE  p.fn = "return"
<1>1. p.fn \in Functions /\ p.line \in 1..Len(Code[p.fn])
  BY DEF Sound, Place
<1>2. p.fn \in {"start", "restart", "answer", "refused", "got", "reply", "stop", "return"}
  BY <1>1, Ops DEF Functions
<1>3. p.fn # "return" => Inner(p) > 0
  BY <1>1, <1>2, Ops, Inners
<1>4. Inner(p) \in Nat /\ Outer(c, p) = 1
  BY <1>1, <1>2, Depths DEF Outer
<1>5. QED
  BY <1>3, <1>4 DEF Depth

(* A register is only written where a byte of data was received.           *)
LEMMA FallKeepsRegs ==
  ASSUME board \in Board, Fall, board.mode # "data"
  PROVE  board'.regs = board.regs
<1>0. board.n \in Nat /\ board.ptr \in Numbers /\ Bits \in Nat /\ Bits > 0 /\ NextReg \in Numbers
  <2>1. board.n \in Nat /\ board.ptr \in Numbers /\ board.ptr \in Nat
    BY DEF Board, Numbers
  <2>2. QED
    BY <2>1, Parameters, Remains DEF NextReg
<1>1. CASE board.mode \in Receiving /\ board.n = Bits
  <2>1. board' = Rests \/ board' = Accepts
    BY <1>1, FallTakes
  <2>2. board' = Accepts => board'.regs = board.regs
    BY <1>1 DEF Accepts, Receiving, Board
  <2>3. QED
    BY <2>1, <2>2, BoardRests
<1>2. CASE board.mode \in Receiving /\ board.n = Bits + 1
  <2>1. board' = AfterByte
    BY <1>2, FallGoesOn
  <2>2. board' = Shows(board.ptr, 0) \/ \E m \in {"register", "data"} : board' = Expects(m)
    BY <1>2, <2>1 DEF AfterByte, Receiving
  <2>3. QED
    BY <1>0, <2>2, BoardShows, ExpectsDoes
<1>3. CASE board.mode = "sends" /\ board.n \in 0..Bits + 1
  <2>1. \/ board' = Shows(board.ptr, board.n) \/ board' = [board EXCEPT !.low = FALSE]
        \/ board' = Shows(NextReg, 0) \/ board' = Rests
    BY <1>0, <1>3, FallSends
  <2>2. board' = [board EXCEPT !.low = FALSE] => board'.regs = board.regs
    BY DEF Board
  <2>3. QED
    BY <1>0, <2>1, <2>2, BoardShows, BoardRests
<1>4. CASE ~(board.mode \in Receiving /\ board.n \in {Bits, Bits + 1})
           /\ ~(board.mode = "sends" /\ board.n \in 0..Bits + 1)
  <2>1. board' = board
    BY <1>0, <1>4 DEF Fall
  <2>2. QED
    BY <2>1
<1>5. QED
  BY <1>1, <1>2, <1>3, <1>4

(* A call that looks for a board sends no data.                            *)
LEMMA NoData ==
  ASSUME NEW c \in Call, NEW p \in Place, Sound(c, p), Lines(c, p), Op(p) = "scl0",
         c.kind # "transfer"
  PROVE  board.mode # "data"
<1>1. p.fn \in {"start", "shift", "answer", "refused"}
  BY ClearWhere DEF Sound, Getting
<1>2. p.fn \in {"shift", "answer"} => p.n = 1
  BY DEF Sound, Sending, Last
<1>3. CASE p.fn = "start"
  BY <1>3, StartLeads DEF Lines, StartLines, Fresh
<1>4. CASE p.fn = "shift"
  BY <1>2, <1>4 DEF Lines, ShiftLines, Mode
<1>5. CASE p.fn = "answer"
  <2>1. Took(c, p.n, Bits + 1)
    BY <1>5, AnswerLeads DEF Lines, AnswerLines
  <2>2. QED
    BY <1>2, <1>5, <2>1 DEF Took, Mode
<1>6. CASE p.fn = "refused"
  BY <1>6, RefusedLeads DEF Lines, RefusedLines, Refuses
<1>7. QED
  BY <1>1, <1>3, <1>4, <1>5, <1>6

(* Only where SCL falls can the registers change.                          *)
LEMMA BoardStep ==
  ASSUME BusInv, NEW t \in Threads, GoesOn(t), Lines(call[t], at[t]), Op(at[t]) # "scl0"
  PROVE  /\ board'.regs = board.regs /\ board'.ptr = board.ptr
         /\ at[t].fn = "answer" => board'.mode = board.mode
<1>1. board \in Board /\ call[t] \in Call /\ at[t] \in Place /\ Sound(call[t], at[t])
  BY ThreadFields DEF BusInv, HostInv, PlacesInv, LineTypes
<1>2. CASE SetSCL(t)
  <2>1. Rise \/ board' = board
    BY <1>2 DEF SetSCL
  <2>2. QED
    BY <1>1, <2>1, RiseDoes
<1>3. CASE SetSDA(t)
  <2>1. \/ board' = board
        \/ SCL /\ board' = Expects("idle")
        \/ SCL /\ board' = Expects("address")
    BY <1>3 DEF SetSDA, StopSeen, StartSeen
  <2>2. board'.regs = board.regs /\ board'.ptr = board.ptr
    BY <1>1, <2>1, ExpectsDoes
  <2>3. at[t].fn = "answer" => ~SCL
    <3>1. at[t].fn = "answer" => at[t].line = 1
      BY <1>1, <1>3, AnswerLeads DEF SetSDA
    <3>2. QED
      BY <3>1 DEF Lines, AnswerLines, SCL
  <2>4. QED
    BY <2>1, <2>2, <2>3
<1>4. CASE Lock(t) \/ Unlock(t) \/ Wait(t) \/ TakeAck(t) \/ TakeBit(t)
  BY <1>4 DEF Lock, Unlock, Wait, TakeAck, TakeBit
<1>5. ~ClearSCL(t)
  BY DEF ClearSCL, Is
<1>6. QED
  BY <1>2, <1>3, <1>4, <1>5 DEF GoesOn

(* The registers are looked at when the mutex is taken.                    *)
LEMMA BeforeStep ==
  ASSUME BusInv, NEW t \in Threads, GoesOn(t)
  PROVE  /\ Held(t) > 0 => before' = before
         /\ Lock(t) /\ ~(Held(t) > 0) => before' = board.regs
         /\ ~Lock(t) => before' = before
<1>1. HostInv /\ HostTypes /\ MutexInv
  BY DEF BusInv, HostInv
<1>2. ~Lock(t) => before' = before
  BY DEF GoesOn, Unlock, ClearSCL, SetSCL, Wait, SetSDA, TakeAck, TakeBit
<1>3. Lock(t) => before' = IF mutex.depth = 0 THEN board.regs ELSE before
  BY DEF Lock
<1>4. Held(t) > 0 => mutex.depth # 0
  BY <1>1, Parameters DEF MutexInv
<1>5. Lock(t) /\ ~(Held(t) > 0) => mutex.depth = 0
  <2>1. Lock(t) => mutex.owner \in {t, Nobody}
    BY DEF Lock, MayLock
  <2>2. Held(t) \in Nat
    BY <1>1, HeldFacts
  <2>3. QED
    BY <1>1, <2>1, <2>2, Parameters DEF MutexInv
<1>6. QED
  BY <1>2, <1>3, <1>4, <1>5

(* A step of the thread t, for its own call.                               *)
LEMMA OwnData ==
  ASSUME BusInv, DataInv, NEW t \in Threads, GoesOn(t), Lines(call[t], at[t]),
         call[t].kind = "transfer",
         NEW CONSTANT c, c = call[t], NEW CONSTANT p, p = at[t], NEW CONSTANT e, e = error[t],
         NEW CONSTANT b, b = got[t]
  PROVE  Carries(call[t], at[t], error[t], got[t])'
<1>1. /\ HostInv /\ HostTypes /\ PlacesInv /\ GotTypes /\ LineTypes /\ c \in Call /\ p \in Place
      /\ Sound(c, p) /\ b \in [1..c.in -> Bytes] /\ board \in Board
  BY ThreadFields DEF BusInv, HostInv, PlacesInv, GotTypes, LineTypes
<1>2. p.fn # "idle" /\ call'[t] = c
  BY <1>1, ThreadStep
<1>3. Carries(c, p, e, b)
  BY <1>2 DEF DataInv, Idle
<1>4. CASE p.fn = "call"
  <2>1. Op(p) = "lock" /\ After(c, p).fn = "start" /\ ~(Held(t) > 0)
    BY <1>1, <1>4, CallLeads, HeldFacts DEF Leads, Acts
  <2>2. Lock(t)
    BY <2>1 DEF GoesOn, Unlock, ClearSCL, SetSCL, Wait, SetSDA, TakeAck, TakeBit, Is
  <2>3. before' = board.regs /\ board' = board /\ error' = error /\ got' = got
        /\ at' = [at EXCEPT ![t] = After(c, p)]
    BY <2>1, <2>2, BeforeStep DEF Lock, Moves
  <2>4. at'[t].fn = "start" /\ error'[t] = e /\ ~e
    BY <1>1, <1>3, <1>4, <2>1, <2>3 DEF HostTypes, Carries
  <2>5. Progress(c, 1)'
    <3>1. before' \in [Numbers -> Bytes] /\ board'.regs = before'
      BY <1>1, <2>3, RegsTypes
    <3>2. Data(c, 1) = 0
      BY <1>1, CallFields DEF Data, Last
    <3>3. \A f \in [Numbers -> Bytes] : WrittenTo(f, c, 0) = f
      BY WrittenNone
    <3>4. QED
      BY <3>1, <3>2, <3>3 DEF Progress
  <2>6. QED
    BY <1>2, <2>4, <2>5 DEF Carries
<1>5. CASE p.fn # "call"
  <2>1. Held(t) > 0
    BY <1>1, <1>2, <1>5, HeldFacts DEF Acts
  <2>2. before' = before
    BY <2>1, BeforeStep
  <2>3. CASE Op(p) = "scl0"
    <3>1. ClearSCL(t)
      BY <2>3 DEF GoesOn, Lock, Unlock, SetSCL, Wait, SetSDA, TakeAck, TakeBit, Is
    <3>2. at'[t] = After(c, p) /\ error'[t] = e /\ got'[t] = b
      BY <1>1, <3>1 DEF ClearSCL, Moves, HostTypes
    <3>3. IF SCL THEN Fall ELSE board' = board
      BY <3>1 DEF ClearSCL
    <3>4. Carries(c, After(c, p), e, b)'
      BY <1>1, <1>3, <2>2, <2>3, <3>3, FallData
    <3>5. QED
      BY <1>2, <3>2, <3>4
  <2>4. CASE Op(p) = "bit"
    <3>1. TakeBit(t)
      BY <2>4 DEF GoesOn, Lock, Unlock, ClearSCL, SetSCL, Wait, SetSDA, TakeAck, Is
    <3>2. Kept
      BY <2>2, <2>4, BoardStep DEF Kept
    <3>3. \A d : d = [b EXCEPT ![p.n] = [b[p.n] EXCEPT ![p.bit] = SDA]] =>
                   Carries(c, After(c, p), e, d)'
      <4> SUFFICES ASSUME NEW CONSTANT d, d = [b EXCEPT ![p.n] = [b[p.n] EXCEPT ![p.bit] = SDA]]
                   PROVE  Carries(c, After(c, p), e, d)'
        OBVIOUS
      <4>1. QED
        BY <1>1, <1>3, <2>4, <3>2, BitData
    <3>4. at'[t] = After(c, p) /\ error'[t] = e
          /\ got'[t] = [b EXCEPT ![p.n] = [b[p.n] EXCEPT ![p.bit] = SDA]]
      BY <1>1, <3>1 DEF TakeBit, Moves, HostTypes, GotTypes
    <3>5. QED
      BY <1>2, <3>3, <3>4
  <2>5. CASE Op(p) = "ack" /\ SDA
    <3>1. TakeAck(t)
      BY <2>5 DEF GoesOn, Lock, Unlock, ClearSCL, SetSCL, Wait, SetSDA, TakeBit, Is
    <3>2. Kept
      BY <2>2, <2>5, BoardStep DEF Kept
    <3>3. at'[t] = Enters("refused", p.n) /\ error'[t] = TRUE /\ got'[t] = b
      BY <1>1, <2>5, <3>1 DEF TakeAck, HostTypes
    <3>4. Carries(c, Enters("refused", p.n), TRUE, b)'
      BY <1>1, <1>3, <2>5, <3>2, AckData
    <3>5. QED
      BY <1>2, <3>3, <3>4
  <2>6. CASE Op(p) \notin {"scl0", "bit"} /\ ~(Op(p) = "ack" /\ SDA)
    <3>1. Kept /\ (p.fn = "answer" => board'.mode = board.mode)
      BY <2>2, <2>6, BoardStep DEF Kept
    <3>2. at'[t] = After(c, p) /\ error'[t] = e /\ got'[t] = b
      <4>1. at' = [at EXCEPT ![t] = After(c, p)]
        BY <2>6, ThreadStep, <1>1
      <4>2. error' = error /\ got' = got
        BY <2>6 DEF GoesOn, Lock, Unlock, ClearSCL, SetSCL, Wait, SetSDA, TakeAck, TakeBit, Is
      <4>3. QED
        BY <1>1, <4>1, <4>2 DEF HostTypes
    <3>3. Carries(c, After(c, p), e, b)'
      BY <1>1, <1>2, <1>3, <1>5, <2>6, <3>1, QuietData
    <3>4. QED
      BY <1>2, <3>2, <3>3
  <2>7. QED
    BY <2>3, <2>4, <2>5, <2>6
<1>6. QED
  BY <1>4, <1>5

(* Nothing happens to the data.                                            *)
LEMMA SameData ==
  ASSUME NEW CONSTANT c, NEW CONSTANT p, NEW CONSTANT e, NEW CONSTANT b,
         Carries(c, p, e, b), p.fn = "call" \/ (Kept /\ board'.mode = board.mode)
  PROVE  Carries(c, p, e, b)'
<1>1. CASE p.fn = "call"
  BY <1>1 DEF Carries
<1>2. CASE Kept /\ board'.mode = board.mode
  <2>1. /\ \A n : Progress(c, n) => Progress(c, n)'
        /\ Failed(c) => Failed(c)'
        /\ \A n : Read(c, b, n) => Read(c, b, n)'
        /\ \A n : Points(c, n) => Points(c, n)'
        /\ \A i : Value(c, i)' = Value(c, i)
    BY <1>2, KeptData
  <2>2. AnswerData(c, p) => AnswerData(c, p)'
    BY <1>2, <2>1 DEF AnswerData
  <2>3. SampleData(c, p, b) => SampleData(c, p, b)'
    BY <2>1 DEF SampleData
  <2>4. ReplyData(c, p, b) => ReplyData(c, p, b)'
    BY <2>1 DEF ReplyData
  <2>5. EndData(c, e, b) => EndData(c, e, b)'
    BY <2>1 DEF EndData
  <2>6. QED
    BY <2>1, <2>2, <2>3, <2>4, <2>5 DEF Carries
<1>3. QED
  BY <1>1, <1>2

(* Where a thread is when it takes a step, the lines are as they should be,*)
(* and no other thread is in a function.                                   *)
LEMMA StepLines ==
  ASSUME BusInv, NEW t \in Threads, GoesOn(t)
  PROVE  /\ Lines(call[t], at[t])
         /\ \A u \in Threads : u # t => ~Acts(u)
<1>1. HostInv /\ HostTypes /\ PlacesInv
  BY DEF BusInv, HostInv
<1>2. at[t].fn # "idle"
  BY <1>1, ThreadStep
<1>3. CASE Acts(t)
  BY <1>1, <1>3, Alone DEF BusInv, LinesInv
<1>4. CASE at[t].fn = "call"
  <2>1. Op(at[t]) = "lock"
    BY <1>1, <1>4, ThreadFields, CallLeads DEF PlacesInv
  <2>2. Lock(t)
    BY <2>1 DEF GoesOn, Unlock, ClearSCL, SetSCL, Wait, SetSDA, TakeAck, TakeBit, Is
  <2>3. \A u \in Threads : ~Acts(u)
    BY <1>1, <1>4, <2>2, AloneAtCall DEF Lock, MayLock
  <2>4. QED
    BY <1>4, <2>3 DEF Lines
<1>5. QED
  BY <1>2, <1>3, <1>4 DEF Acts

(* What others know does not change.                                       *)
LEMMA OtherThreads ==
  ASSUME HostTypes, GotTypes, NEW t \in Threads, GoesOn(t)
  PROVE  \A u \in Threads : u # t => /\ at'[u] = at[u] /\ error'[u] = error[u]
                                     /\ got'[u] = got[u] /\ call'[u] = call[u]
<1>1. call' = call
  BY DEF GoesOn, Lock, Unlock, ClearSCL, SetSCL, Wait, SetSDA, TakeAck, TakeBit, course
<1>2. \A u \in Threads : u # t => at'[u] = at[u]
  BY DEF HostTypes, GoesOn, Lock, Unlock, ClearSCL, SetSCL, Wait, SetSDA, TakeAck, TakeBit, Moves
<1>3. \A u \in Threads : u # t => error'[u] = error[u]
  BY DEF HostTypes, GoesOn, Lock, Unlock, ClearSCL, SetSCL, Wait, SetSDA, TakeAck, TakeBit
<1>4. \A u \in Threads : u # t => got'[u] = got[u]
  <2>1. got' = got \/ got' = [got EXCEPT ![t][at[t].n][at[t].bit] = SDA]
    BY DEF GoesOn, Lock, Unlock, ClearSCL, SetSCL, Wait, SetSDA, TakeAck, TakeBit
  <2>2. DOMAIN got = Threads
    BY DEF GotTypes
  <2>3. QED
    BY <2>1, <2>2
<1>5. QED
  BY <1>1, <1>2, <1>3, <1>4

(* A step of a thread keeps the data as every call needs it.               *)
LEMMA DataStep ==
  ASSUME BusInv, DataInv, NEW t \in Threads, GoesOn(t)
  PROVE  DataInv'
<1>1. HostInv /\ HostTypes /\ PlacesInv /\ LineTypes /\ GotTypes
  BY DEF BusInv, HostInv
<1>2. Lines(call[t], at[t]) /\ \A u \in Threads : u # t => ~Acts(u)
  BY StepLines
<1>3. call' = call /\ call[t] \in Call /\ at[t] \in Place /\ Sound(call[t], at[t])
      /\ at[t].fn # "idle"
  BY <1>1, ThreadStep, ThreadFields DEF PlacesInv
<1>4. \A u \in Threads : u # t => /\ at'[u] = at[u] /\ error'[u] = error[u]
                                  /\ got'[u] = got[u] /\ call'[u] = call[u]
  BY <1>1, OtherThreads
<1>5. ASSUME call[t].kind = "transfer" PROVE Carries(call[t], at[t], error[t], got[t])'
  <2>1. \A c, p, e, b : c = call[t] /\ p = at[t] /\ e = error[t] /\ b = got[t] =>
          Carries(call[t], at[t], error[t], got[t])'
    <3> SUFFICES ASSUME NEW CONSTANT c, NEW CONSTANT p, NEW CONSTANT e, NEW CONSTANT b,
                        c = call[t], p = at[t], e = error[t], b = got[t]
                 PROVE  Carries(call[t], at[t], error[t], got[t])'
      OBVIOUS
    <3>1. QED
      BY <1>2, <1>5, OwnData
  <2>2. QED
    BY <2>1
<1>6. ASSUME NEW u \in Threads, u # t, call[u].kind = "transfer", ~Idle(u)'
      PROVE  Carries(call[u], at[u], error[u], got[u])'
  <2>1. at[u].fn = "call" /\ Carries(call[u], at[u], error[u], got[u])
    BY <1>2, <1>4, <1>6 DEF DataInv, Idle, Acts
  <2>2. \A c, p, e, b : c = call[u] /\ p = at[u] /\ e = error[u] /\ b = got[u] =>
          Carries(c, p, e, b)'
    <3> SUFFICES ASSUME NEW CONSTANT c, NEW CONSTANT p, NEW CONSTANT e, NEW CONSTANT b,
                        c = call[u], p = at[u], e = error[u], b = got[u]
                 PROVE  Carries(c, p, e, b)'
      OBVIOUS
    <3>1. QED
      BY <2>1, SameData
  <2>3. QED
    BY <1>4, <1>6, <2>2
<1>7. ASSUME call[t].kind # "transfer", Held(t)' > 0
      PROVE  board'.regs = before'
  <2>1. CASE Held(t) > 0
    <3>1. board.regs = before /\ before' = before
      BY <1>7, <2>1, BeforeStep DEF DataInv
    <3>2. CASE Op(at[t]) = "scl0"
      <4>1. Fall \/ board' = board
        BY <3>2 DEF GoesOn, Lock, Unlock, ClearSCL, SetSCL, Wait, SetSDA, TakeAck, TakeBit, Is
      <4>2. board.mode # "data" /\ board \in Board
        BY <1>1, <1>2, <1>3, <1>7, <3>2, NoData DEF LineTypes
      <4>3. QED
        BY <3>1, <4>1, <4>2, FallKeepsRegs
    <3>3. CASE Op(at[t]) # "scl0"
      BY <1>2, <3>1, <3>3, BoardStep
    <3>4. QED
      BY <3>2, <3>3
  <2>2. CASE ~(Held(t) > 0)
    <3>1. Lock(t)
      <4>1. SUFFICES ASSUME ~Lock(t) PROVE FALSE
        OBVIOUS
      <4>2. mutex.owner # t
        BY <1>1, <2>2, Parameters DEF HostInv, MutexInv
      <4>3. mutex' = mutex
        <5>1. ~Unlock(t)
          <6>1. SUFFICES ASSUME Unlock(t) PROVE FALSE
            OBVIOUS
          <6>2. Depth(call[t], at[t]) > 0
            BY <1>3, <6>1, DepthStep DEF Unlock, Is
          <6>3. QED
            BY <2>2, <6>2 DEF Held
        <5>2. QED
          BY <4>1, <5>1 DEF GoesOn, ClearSCL, SetSCL, Wait, SetSDA, TakeAck, TakeBit
      <4>4. MutexInv'
        BY <1>1, MutexStep
      <4>5. QED
        BY <1>7, <4>2, <4>3, <4>4 DEF MutexInv
    <3>2. before' = board.regs /\ board' = board
      BY <2>2, <3>1, BeforeStep DEF Lock
    <3>3. QED
      BY <3>2
  <2>3. QED
    BY <2>1, <2>2
<1>8. ASSUME NEW u \in Threads, u # t PROVE ~(Held(u)' > 0)
  <2>1. Held(u) = 0
    BY <1>1, <1>2, <1>8, HeldFacts
  <2>2. Held(u)' = Held(u)
    BY <1>4, <1>8 DEF Held
  <2>3. QED
    BY <2>1, <2>2
<1>9. \A u \in Threads : call'[u].kind = "transfer" => call'[u] \in Transfers
  BY <1>3 DEF DataInv
<1>10. QED
  BY <1>3, <1>5, <1>6, <1>7, <1>8, <1>9 DEF DataInv

(* And so does a call that begins.                                         *)
LEMMA DataBegins ==
  ASSUME BusInv, DataInv, NEW t \in Threads, NEW c \in Call, c.kind # "transfer" => c.in = 0,
         c.kind = "transfer" => c \in Transfers, Begins(t, c)
  PROVE  DataInv'
<1>1. HostInv /\ HostTypes
  BY DEF BusInv, HostInv
<1>2. /\ at'[t] = First(c) /\ call'[t] = c
      /\ \A u \in Threads : u # t => at'[u] = at[u] /\ call'[u] = call[u]
  BY <1>1, BeginStep
<1>3. board' = board /\ before' = before
      /\ error' = [error EXCEPT ![t] = FALSE] /\ got' = [got EXCEPT ![t] = [i \in 1..c.in |-> Zero]]
  BY DEF Begins
<1>4. error'[t] = FALSE /\ \A u \in Threads : u # t => error'[u] = error[u] /\ got'[u] = got[u]
  BY <1>1, <1>3 DEF HostTypes
<1>5. Depth(c, First(c)) = 0 /\ (c.kind = "transfer" => First(c).fn = "call")
  BY FirstPlace
<1>6. ASSUME c.kind = "transfer" PROVE Carries(call[t], at[t], error[t], got[t])'
  BY <1>2, <1>4, <1>5, <1>6 DEF Carries
<1>7. ASSUME NEW u \in Threads, u # t, call[u].kind = "transfer", ~Idle(u)
      PROVE  Carries(call[u], at[u], error[u], got[u])'
  <2>1. Carries(call[u], at[u], error[u], got[u])
    BY <1>7 DEF DataInv
  <2>2. \A d, p, e, b : d = call[u] /\ p = at[u] /\ e = error[u] /\ b = got[u] =>
          Carries(d, p, e, b)'
    <3> SUFFICES ASSUME NEW CONSTANT d, NEW CONSTANT p, NEW CONSTANT e, NEW CONSTANT b,
                        d = call[u], p = at[u], e = error[u], b = got[u]
                 PROVE  Carries(d, p, e, b)'
      OBVIOUS
    <3>1. QED
      BY <1>3, <2>1, SameData DEF Kept
  <2>3. QED
    BY <1>2, <1>4, <1>7, <2>2
<1>8. Held(t)' = 0 /\ \A u \in Threads : u # t => Held(u)' = Held(u)
  BY <1>2, <1>5 DEF Held
<1>9. \A u \in Threads : call'[u].kind # "transfer" /\ Held(u)' > 0 => board'.regs = before'
  BY <1>2, <1>3, <1>8 DEF DataInv
<1>10. \A u \in Threads : call'[u].kind = "transfer" => call'[u] \in Transfers
  BY <1>2 DEF DataInv
<1>11. \A u \in Threads : u # t => (Idle(u)' <=> Idle(u))
  BY <1>2 DEF Idle
<1>12. QED
  BY <1>2, <1>6, <1>7, <1>9, <1>10, <1>11 DEF DataInv

(* Steps of nobody.                                                        *)
LEMMA DataStays ==
  ASSUME BusInv, DataInv, UNCHANGED host, Kept, board'.mode = board.mode
  PROVE  DataInv'
<1>1. at' = at /\ call' = call /\ error' = error /\ got' = got
  BY DEF host, course
<1>2. ASSUME NEW u \in Threads, call[u].kind = "transfer", ~Idle(u)
      PROVE  Carries(call[u], at[u], error[u], got[u])'
  <2>1. Carries(call[u], at[u], error[u], got[u])
    BY <1>2 DEF DataInv
  <2>2. \A d, p, e, b : d = call[u] /\ p = at[u] /\ e = error[u] /\ b = got[u] =>
          Carries(d, p, e, b)'
    <3> SUFFICES ASSUME NEW CONSTANT d, NEW CONSTANT p, NEW CONSTANT e, NEW CONSTANT b,
                        d = call[u], p = at[u], e = error[u], b = got[u]
                 PROVE  Carries(d, p, e, b)'
      OBVIOUS
    <3>1. QED
      BY <2>1, SameData
  <2>3. QED
    BY <1>1, <2>2
<1>3. QED
  BY <1>1, <1>2 DEF DataInv, Held, Idle, Kept

LEMMA LetGoKeeps ==
  ASSUME BusInv, LetGo
  PROVE  UNCHANGED host /\ Kept /\ board'.mode = board.mode /\ last' = last
<1>1. board \in Board
  BY DEF BusInv, LineTypes
<1>2. (Rise \/ board' = board) /\ UNCHANGED <<host, before, last>>
  BY DEF LetGo
<1>3. QED
  BY <1>1, <1>2, RiseDoes DEF Kept

(* The invariant about the data, with the one about the lines it needs.    *)
LEMMA DataInit == BusInit => DataInv
<1> SUFFICES ASSUME BusInit PROVE DataInv
  OBVIOUS
<1>1. call = [t \in Threads |-> Head(Boot)] /\ Head(Boot).kind = "init"
  BY HeadBoot DEF BusInit
<1>2. board.regs = before
  BY DEF BusInit
<1>3. QED
  BY <1>1, <1>2 DEF DataInv

LEMMA DataInvariant == BusSpec => [](BusInv /\ DataInv)
<1>1. ASSUME BusInv, DataInv, [BusNext]_busVars PROVE DataInv'
  <2>1. CASE \E t \in Threads : GoesOn(t)
    BY <1>1, <2>1, DataStep
  <2>2. CASE BootNext
    <3>1. Main \in Threads /\ Begins(Main, Head(boot)) /\ HostInv
      BY <1>1, <2>2, Parameters DEF BootNext, BusInv
    <3>2. Head(boot) \in Call /\ Head(boot).kind # "transfer" /\ Head(boot).in = 0
      BY <2>2, <3>1, BootCall
    <3>3. QED
      BY <1>1, <3>1, <3>2, DataBegins
  <2>3. CASE \E t \in Threads, c \in Transfers : CallBegins(t, c)
    <3>1. PICK t \in Threads, c \in Transfers : CallBegins(t, c)
      BY <2>3
    <3>2. c \in Call /\ c.kind = "transfer" /\ Begins(t, c)
      BY <3>1, I2CAssumption DEF CallBegins
    <3>3. QED
      BY <1>1, <3>2, DataBegins
  <2>4. CASE LetGo
    BY <1>1, <2>4, LetGoKeeps, DataStays
  <2>5. CASE UNCHANGED busVars
    BY <1>1, <2>5, DataStays DEF busVars, Kept
  <2>6. QED
    BY <1>1, <2>1, <2>2, <2>3, <2>4, <2>5 DEF BusNext
<1>2. QED
  BY <1>1, BusInvariant, DataInit, PTL DEF BusSpec

-----------------------------------------------------------------------------
(* The registers as their users see them.                                  *)

(* The mutex's owner hides what it writes until it is done.                *)
Seen == IF mutex.depth > 0 THEN before ELSE board.regs

LEMMA SeenTypes ==
  ASSUME BusInv
  PROVE  Seen \in [Numbers -> Bytes]
BY RegsTypes DEF Seen, BusInv, LineTypes

(* Both specifications write alike.                                        *)
LEMMA WrittenSeen ==
  ASSUME BusInv, NEW c, NEW n
  PROVE  Registers!Written(c, n) = WrittenTo(Seen, c, n)
<1>1. DOMAIN Seen = Numbers
  BY SeenTypes
<1>2. QED
  BY <1>1 DEF Registers!Written, Registers!At, WrittenTo, NthReg, Seen

(* A transfer that ends.                                                   *)
LEMMA TransferEnds ==
  ASSUME BusInv, DataInv, NEW t \in Threads, Unlock(t), mutex.depth = 1,
         call[t].kind = "transfer"
  PROVE  Registers!Next
<1> DEFINE c == call[t]
           p == at[t]
           b == got[t]
<1>1. /\ HostInv /\ HostTypes /\ MutexInv /\ c \in Call /\ p \in Place /\ Sound(c, p)
      /\ c \in Transfers /\ b \in [1..c.in -> Bytes] /\ Op(p) = "unlock" /\ error[t] \in BOOLEAN
  BY ThreadFields DEF BusInv, DataInv, HostInv, PlacesInv, GotTypes, Unlock, Is
<1>2. p.fn # "idle"
  BY <1>1, Ops DEF Sound, Functions
<1>3. Held(t) > 0
  BY <1>1, <1>2, DepthStep DEF Held
<1>4. Depth(c, p) = 1
  BY <1>1, <1>3, Parameters DEF MutexInv, Held
<1>5. p.fn = "return"
  BY <1>1, <1>4, LastUnlock
<1>6. EndData(c, error[t], b)
  BY <1>5 DEF DataInv, Idle, Carries
<1>7. /\ mutex'.depth = 0 /\ board' = board
      /\ last' = IF error[t] THEN <<c, "error">> ELSE <<c, "ok", b>>
  BY DEF Unlock
<1>8. Seen = before /\ Seen' = board.regs
  BY <1>7 DEF Seen
<1>9. \A n : Registers!Written(c, n) = WrittenTo(before, c, n)
  BY <1>8, WrittenSeen
<1>10. CASE error[t]
  <2>1. PICK k \in 0..Len(c.out) : (k > 0 => c.addr = Own) /\ board.regs = WrittenTo(before, c, k)
    BY <1>6, <1>10 DEF EndData, Failed
  <2>2. Seen' = Registers!Written(c, k) /\ last' = <<c, "error">>
    BY <1>7, <1>8, <1>9, <1>10, <2>1
  <2>3. Registers!Fails(c)
    BY <2>1, <2>2 DEF Registers!Fails, Seen
  <2>4. QED
    BY <1>1, <2>3 DEF Registers!Next
<1>11. CASE ~error[t]
  <2>1. c.addr = Own /\ board.regs = WrittenTo(before, c, Len(c.out))
        /\ \A i \in 1..c.in : b[i] = Value(c, i)
    BY <1>6, <1>11 DEF EndData, Read, Wrote
  <2>2. Seen' = Registers!Written(c, Len(c.out)) /\ last' = <<c, "ok", b>>
    BY <1>7, <1>8, <1>9, <1>11, <2>1
  <2>3. b = [i \in 1..c.in |-> Seen'[Registers!At(c.reg + Len(c.out), i)]]
    <3>1. b = [i \in 1..c.in |-> b[i]]
      BY <1>1
    <3>2. ASSUME NEW i \in 1..c.in PROVE b[i] = Seen'[Registers!At(c.reg + Len(c.out), i)]
      <4>1. c.reg \in Nat /\ Len(c.out) \in Nat /\ i \in Nat
        BY <1>1, CallFields DEF Numbers
      <4>2. c.reg + Len(c.out) + i - 1 = c.reg + (Len(c.out) + i) - 1
        BY <4>1
      <4>3. Registers!At(c.reg + Len(c.out), i) = NthReg(c, Len(c.out) + i)
        BY <4>2 DEF Registers!At, NthReg
      <4>4. QED
        BY <1>8, <2>1, <4>3 DEF Value
    <3> HIDE DEF b
    <3>3. QED
      BY <3>1, <3>2
  <2>4. Registers!Works(c)
    <3>1. last' = <<c, "ok", [i \in 1..c.in |-> Seen'[Registers!At(c.reg + Len(c.out), i)]]>>
      BY <2>2, <2>3
    <3>2. QED
      BY <2>1, <2>2, <3>1 DEF Registers!Works, Seen
  <2>5. QED
    BY <1>1, <2>4 DEF Registers!Next
<1>12. QED
  BY <1>1, <1>10, <1>11

(* A step of a thread is a call of the abstract registers, or none.        *)
LEMMA SeenStep ==
  ASSUME BusInv, DataInv, NEW t \in Threads, GoesOn(t)
  PROVE  Registers!Next \/ (Seen' = Seen /\ last' = last)
<1>1. /\ HostInv /\ HostTypes /\ MutexInv /\ call[t] \in Call /\ at[t] \in Place
      /\ Sound(call[t], at[t]) /\ mutex.depth \in Nat /\ at[t].fn # "idle"
  BY ThreadFields, ThreadStep DEF BusInv, HostInv, PlacesInv, HostTypes
<1>2. CASE Lock(t)
  <2>1. mutex'.depth > 0 /\ last' = last
        /\ before' = IF mutex.depth = 0 THEN board.regs ELSE before
    BY <1>1, <1>2 DEF Lock
  <2>2. QED
    BY <1>1, <2>1 DEF Seen
<1>3. CASE Unlock(t)
  <2>1. Held(t) > 0 /\ mutex.owner = t /\ mutex.depth = Held(t)
    <3>1. Held(t) > 0
      BY <1>1, <1>3, DepthStep DEF Unlock, Is, Held
    <3>2. QED
      BY <1>1, <3>1, Parameters DEF MutexInv
  <2>2. mutex'.depth = mutex.depth - 1 /\ before' = before /\ board' = board
    BY <1>3 DEF Unlock
  <2>3. CASE mutex.depth # 1
    <3>1. last' = last
      BY <1>3, <2>3 DEF Unlock
    <3>2. QED
      BY <1>1, <2>1, <2>2, <2>3, <3>1 DEF Seen
  <2>4. CASE mutex.depth = 1 /\ call[t].kind = "transfer"
    BY <1>3, <2>4, TransferEnds
  <2>5. CASE mutex.depth = 1 /\ call[t].kind # "transfer"
    <3>1. last' = last
      BY <1>3, <2>5 DEF Unlock
    <3>2. board.regs = before
      BY <2>1, <2>5 DEF DataInv
    <3>3. QED
      BY <2>2, <2>5, <3>1, <3>2 DEF Seen
  <2>6. QED
    BY <2>3, <2>4, <2>5
<1>4. CASE ~Lock(t) /\ ~Unlock(t)
  <2>1. mutex' = mutex /\ last' = last /\ before' = before
    BY <1>4 DEF GoesOn, ClearSCL, SetSCL, Wait, SetSDA, TakeAck, TakeBit
  <2>2. CASE mutex.depth > 0
    BY <2>1, <2>2 DEF Seen
  <2>3. CASE ~(mutex.depth > 0)
    <3>1. Op(at[t]) # "scl0"
      <4>1. SUFFICES ASSUME Op(at[t]) = "scl0" PROVE FALSE
        OBVIOUS
      <4>2. Held(t) > 0
        BY <1>1, <4>1, ClearWhere DEF Held
      <4>3. QED
        BY <1>1, <2>3, <4>2, Parameters DEF MutexInv
    <3>2. board'.regs = board.regs
      BY <3>1, StepLines, BoardStep
    <3>3. QED
      BY <2>1, <3>2 DEF Seen
  <2>4. QED
    BY <2>2, <2>3
<1>5. QED
  BY <1>2, <1>3, <1>4

(* ImplementsRegisters: the calls of i2c.c that are made by any threads,   *)
(* line by line, implement the atomic calls of Registers.  A call takes    *)
(* effect when its mutex is released for good, and until then the          *)
(* registers are those of the time when it was taken.                      *)
THEOREM BusImplements == BusSpec => ImplementsRegisters
<1>1. BusInit => Registers!Init
  <2> SUFFICES ASSUME BusInit PROVE Registers!Init
    OBVIOUS
  <2>1. BusInv
    BY BusInvInit
  <2>2. Seen \in [Numbers -> Bytes] /\ last = <<>>
    BY <2>1, SeenTypes DEF BusInit
  <2>3. QED
    BY <2>2 DEF Registers!Init, Seen, Numbers
<1>2. ASSUME BusInv, DataInv, [BusNext]_busVars
      PROVE  [Registers!Next]_(Registers!vars)
  <2>1. SUFFICES Registers!Next \/ (Seen' = Seen /\ last' = last)
    BY DEF Registers!vars, Seen
  <2>2. CASE \E t \in Threads : GoesOn(t)
    BY <1>2, <2>2, SeenStep
  <2>3. CASE BootNext
    BY <2>3 DEF BootNext, Begins, Seen
  <2>4. CASE \E t \in Threads, c \in Transfers : CallBegins(t, c)
    BY <2>4 DEF CallBegins, Begins, Seen
  <2>5. CASE LetGo
    BY <1>2, <2>5, LetGoKeeps DEF Seen, Kept, host
  <2>6. CASE UNCHANGED busVars
    BY <2>6 DEF busVars, host, Seen
  <2>7. QED
    BY <1>2, <2>2, <2>3, <2>4, <2>5, <2>6 DEF BusNext
<1>3. QED
  BY <1>1, <1>2, DataInvariant, PTL DEF BusSpec, ImplementsRegisters, Registers!Spec

-----------------------------------------------------------------------------
(* The sizes of files.                                                     *)

LEMMA Sizes ==
  /\ Capacity \in Nat /\ Capacity > 0 /\ BlockSize \in Nat /\ BlockSize > 0
  /\ Word \in Nat /\ Word > 0 /\ Retries \in Nat /\ Retries > 0
  /\ MaxUpdates \in Nat /\ MaxFaults \in Nat
  /\ BlockSize * (Capacity + 1) < Word
BY PMS2Assumption

LEMMA FileFields ==
  ASSUME NEW f \in Files \cup {Absent}
  PROVE  f.right \in BOOLEAN /\ f.blocks \in 0..Capacity /\ f.rest \in 0..BlockSize - 1
<1>1. CASE f = Absent
  BY <1>1, Sizes DEF Absent
<1>2. CASE f \in Files
  <2>1. f \in [right : BOOLEAN, blocks : 0..Capacity, rest : 0..BlockSize - 1]
    BY <1>2, PMS2Assumption
  <2>2. QED
    BY <2>1
<1>3. QED
  BY <1>1, <1>2

(* n blocks and a part of one fit into a u32.                              *)
LEMMA Fits ==
  ASSUME NEW n \in 0..Capacity, NEW r \in 0..BlockSize - 1
  PROVE  BlockSize * n + r \in 0..Word - 1
<1>1. BlockSize * n \in Nat /\ BlockSize * n + BlockSize = BlockSize * (n + 1)
  BY Sizes
<1>2. BlockSize * (n + 1) <= BlockSize * (Capacity + 1)
  <2>1. PICK d \in Nat : Capacity + 1 = (n + 1) + d
    <3>1. Capacity - n \in Nat /\ Capacity + 1 = (n + 1) + (Capacity - n)
      BY Sizes
    <3>2. QED
      BY <3>1
  <2>2. BlockSize * ((n + 1) + d) = BlockSize * (n + 1) + BlockSize * d /\ BlockSize * d \in Nat
    BY Sizes
  <2>3. BlockSize * (n + 1) \in Nat
    BY Sizes
  <2>4. QED
    BY <2>1, <2>2, <2>3
<1>3. QED
  BY <1>1, <1>2, Sizes

LEMMA Wraps ==
  ASSUME NEW x \in 0..Word - 1
  PROVE  x % Word = x /\ (x + Word) % Word = x
BY Sizes, Z3

LEMMA WordRemains ==
  ASSUME NEW x \in Nat
  PROVE  x % Word \in 0..Word - 1
BY Sizes, Z3

(* One block less.                                                         *)
LEMMA Shrinks ==
  ASSUME NEW n \in 1..Capacity, NEW r \in 0..BlockSize - 1
  PROVE  (BlockSize * n + r + Word - BlockSize) % Word = BlockSize * (n - 1) + r
<1>1. n - 1 \in 0..Capacity
  BY Sizes
<1>2. BlockSize * n = BlockSize * (n - 1) + BlockSize
  BY Sizes
<1>3. BlockSize * (n - 1) \in Nat
  BY Sizes, <1>1
<1>4. BlockSize * n + r + Word - BlockSize = (BlockSize * (n - 1) + r) + Word
  BY <1>2, <1>3, Sizes
<1>5. QED
  BY <1>1, <1>4, Fits, Wraps

(* Nothing is left only of a file without blocks.                          *)
LEMMA NothingLeft ==
  ASSUME NEW n \in 0..Capacity, NEW r \in 0..BlockSize - 1, BlockSize * n + r = 0
  PROVE  n = 0 /\ r = 0
<1>1. CASE n = 0
  BY <1>1, Sizes
<1>2. CASE n > 0
  <2>1. n - 1 \in Nat /\ BlockSize * n = BlockSize * (n - 1) + BlockSize
    BY <1>2, Sizes
  <2>2. BlockSize * (n - 1) \in Nat
    BY <2>1, Sizes
  <2>3. QED
    BY <2>1, <2>2, Sizes
<1>3. QED
  BY <1>1, <1>2, Sizes

-----------------------------------------------------------------------------
-----------------------------------------------------------------------------
(* The inductive invariant.                                                *)

(* At each place of the loop, what is left of the file, and that the       *)
(* blocks read so far are in the flash.                                    *)
LeftInv ==
  ~unsure /\ upc \in {"read", "flash", "next"} =>
    /\ address \in 1..file.blocks + 1
    /\ tempSize = BlockSize * (file.blocks + 1 - address) + file.rest
    /\ \A b \in 1..address - 1 : flash[b] = b

BlockInv ==
  /\ ~unsure /\ upc = "flash" =>
       /\ address <= file.blocks \/ file.rest > 0
       /\ block = IF address <= file.blocks THEN address ELSE Torn
  /\ ~unsure /\ upc = "next" => address <= file.blocks /\ flash[address] = address

DoneInv ==
  /\ updateSuccess => upc = "ended"
  /\ ~unsure /\ (upc \in {"bootpayload", "success"} \/ updateSuccess) =>
       file.rest = 0 /\ \A b \in 1..file.blocks : flash[b] = b

FlashInv == LeftInv /\ BlockInv /\ DoneInv

(* What an update of which nothing is refused finds.                       *)
Clean == file.right /\ file.rest = 0 /\ ~faulty /\ faults < Retries

CleanInv ==
  /\ unsure => faulty
  /\ Clean =>
       /\ upc \in {"read", "flash", "next"} => mode = "bootloader"
       /\ upc = "flash" => retries + faults >= Retries
       /\ upc \notin {"abort", "failure"}
       /\ upc = "ended" => updateSuccess
  /\ ~faulty /\ (upc = "success" \/ updateSuccess) => mode = "payload"

(* The main thread talks to the board between two updates only.            *)
AskInv == main = "setting" => ~updating

IInv == TypeOK /\ FlashInv /\ CleanInv /\ AskInv

-----------------------------------------------------------------------------
(* Types.                                                                  *)

LEMMA TypeInit == Init => TypeOK
<1> SUFFICES ASSUME Init PROVE TypeOK
  OBVIOUS
<1>1. file \in Files \cup {Absent} /\ tempSize \in 0..Word - 1 /\ retries \in 0..Retries
  BY Sizes DEF Init
<1>2. flash \in [Blocks -> Nat] /\ block \in Nat
  BY DEF Init, Torn
<1>3. updates \in 0..MaxUpdates /\ faults \in 0..MaxFaults
  BY Sizes DEF Init
<1>4. QED
  BY <1>1, <1>2, <1>3 DEF Init, TypeOK

LEMMA FaultTypes ==
  ASSUME TypeOK, Answered \/ IsRefused
  PROVE  faults' \in 0..MaxFaults /\ faulty' \in BOOLEAN
<1>1. CASE Answered
  BY <1>1 DEF Answered, TypeOK
<1>2. CASE IsRefused
  <2>1. faults' \in 0..MaxFaults
    BY <1>2, Sizes DEF IsRefused, TypeOK
  <2>2. faulty' \in BOOLEAN
    BY <1>2 DEF IsRefused
  <2>3. QED
    BY <2>1, <2>2
<1>3. QED
  BY <1>1, <1>2

LEMMA TypeStep ==
  ASSUME TypeOK, [Next]_vars
  PROVE  TypeOK'
<1> USE DEF TypeOK, flags, plan, device
<1>1. CASE StartUpdate
  <2>1. updates' \in 0..MaxUpdates
    BY <1>1, Sizes DEF StartUpdate
  <2>2. CASE updating
    BY <1>1, <2>1, <2>2 DEF StartUpdate
  <2>3. CASE ~updating
    <3>1. file' \in Files \cup {Absent} /\ upc' = "open" /\ progress' = 0
      BY <1>1, <2>3 DEF StartUpdate
    <3>2. /\ updating' = TRUE /\ updateSuccess' = FALSE /\ writeFlashError' \in BOOLEAN
          /\ faulty' = FALSE /\ unsure' = FALSE
      BY <1>1, <2>3 DEF StartUpdate
    <3>3. UNCHANGED <<tempSize, block, address, retries, main, device, faults>>
      BY <1>1 DEF StartUpdate
    <3>4. QED
      BY <2>1, <3>1, <3>2, <3>3
  <2>4. QED
    BY <2>2, <2>3
<1>2. CASE LooksAtFlag
  BY <1>2 DEF LooksAtFlag
<1>3. CASE Asks
  BY <1>3 DEF Asks
<1>4. CASE OpenFile
  BY <1>4 DEF OpenFile, Goes, SetFlags
<1>5. CASE BootBootloader
  <2>1. BlockSize * file.blocks + file.rest \in 0..Word - 1
    BY FileFields, Fits
  <2>2. tempSize' \in 0..Word - 1
    BY <1>5, <2>1, Wraps DEF BootBootloader
  <2>3. faults' \in 0..MaxFaults /\ faulty' \in BOOLEAN
    BY <1>5, FaultTypes DEF BootBootloader
  <2>4. mode' \in {"payload", "bootloader"}
    BY <1>5 DEF BootBootloader
  <2>5. QED
    BY <1>5, <2>2, <2>3, <2>4 DEF BootBootloader, Goes
<1>6. CASE ReadBlock
  <2>1. block' \in Nat /\ retries' \in 0..Retries
    BY <1>6, Sizes DEF ReadBlock, Torn
  <2>2. QED
    BY <1>6, <2>1 DEF ReadBlock, Goes
<1>7. CASE WriteFlash
  <2>1. retries' \in 0..Retries
    BY <1>7, Sizes DEF WriteFlash
  <2>2. faults' \in 0..MaxFaults /\ faulty' \in BOOLEAN
    <3>1. CASE Answered \/ IsRefused
      BY <3>1, FaultTypes
    <3>2. CASE faults < MaxFaults /\ faults' = faults + 1 /\ UNCHANGED faulty
      <4>1. faults' \in 0..MaxFaults
        BY <3>2, Sizes
      <4>2. faulty' \in BOOLEAN
        BY <3>2
      <4>3. QED
        BY <4>1, <4>2
    <3>3. QED
      BY <1>7, <3>1, <3>2 DEF WriteFlash
  <2>3. flash' \in [Blocks -> Nat]
    BY <1>7 DEF WriteFlash, Flashed
  <2>4. writeFlashError' \in BOOLEAN /\ unsure' \in BOOLEAN
    BY <1>7 DEF WriteFlash, Takes
  <2>5. QED
    BY <1>7, <2>1, <2>2, <2>3, <2>4 DEF WriteFlash
<1>8. CASE GivesUp
  BY <1>8 DEF GivesUp, Goes
<1>9. CASE NextBlock
  <2>1. tempSize + Word - BlockSize \in Nat
    <3>1. BlockSize * Capacity \in Nat
          /\ BlockSize * (Capacity + 1) = BlockSize * Capacity + BlockSize
      BY Sizes
    <3>2. QED
      BY <3>1, Sizes
  <2>2. tempSize' \in 0..Word - 1
    BY <1>9, <2>1, WordRemains DEF NextBlock
  <2>3. QED
    BY <1>9, <2>2 DEF NextBlock, Goes
<1>10. CASE BootPayload
  <2>1. faults' \in 0..MaxFaults /\ faulty' \in BOOLEAN
    BY <1>10, FaultTypes DEF BootPayload
  <2>2. mode' \in {"payload", "bootloader"}
    BY <1>10 DEF BootPayload
  <2>3. QED
    BY <1>10, <2>1, <2>2 DEF BootPayload, Goes
<1>11. CASE Ends
  BY <1>11 DEF Ends, Goes, SetFlags
<1>12. CASE UNCHANGED vars
  BY <1>12 DEF vars
<1>13. QED
  BY <1>1, <1>2, <1>3, <1>4, <1>5, <1>6, <1>7, <1>8, <1>9, <1>10, <1>11, <1>12
  DEF Next, Updater

-----------------------------------------------------------------------------
(* The flash holds the file.                                               *)

LEMMA FlashStep ==
  ASSUME TypeOK, FlashInv, [Next]_vars
  PROVE  FlashInv'
<1> USE DEF FlashInv, flags, plan, device
<1>t. file.blocks \in 0..Capacity /\ file.rest \in 0..BlockSize - 1
  BY FileFields DEF TypeOK
<1>1. CASE StartUpdate
  <2>1. CASE updating
    BY <1>1, <2>1 DEF StartUpdate, LeftInv, BlockInv, DoneInv
  <2>2. CASE ~updating
    <3>1. upc' = "open" /\ updateSuccess' = FALSE
      BY <1>1, <2>2 DEF StartUpdate
    <3>2. QED
      BY <3>1 DEF LeftInv, BlockInv, DoneInv
  <2>3. QED
    BY <2>1, <2>2
<1>2. CASE LooksAtFlag
  BY <1>2 DEF LooksAtFlag, LeftInv, BlockInv, DoneInv
<1>3. CASE Asks
  BY <1>3 DEF Asks, LeftInv, BlockInv, DoneInv
<1>4. CASE OpenFile
  BY <1>4 DEF OpenFile, Goes, SetFlags, LeftInv, BlockInv, DoneInv
<1>5. CASE BootBootloader
  <2>1. upc' = "read" /\ address' = 1 /\ ~updateSuccess /\ UNCHANGED <<file, updateSuccess, unsure>>
    BY <1>5 DEF BootBootloader, Goes, DoneInv
  <2>2. tempSize' = BlockSize * file.blocks + file.rest
    BY <1>5, <1>t, Fits, Wraps DEF BootBootloader
  <2>3. LeftInv'
    <3>1. file.blocks + 1 - 1 = file.blocks
      BY <1>t, Sizes
    <3>2. QED
      BY <2>1, <2>2, <3>1, <1>t, Sizes DEF LeftInv
  <2>4. QED
    BY <2>1, <2>3 DEF BlockInv, DoneInv
<1>6. CASE ReadBlock
  <2>1. upc = "read" /\ ~updateSuccess /\ upc' = (IF tempSize = 0 THEN "bootpayload" ELSE "flash")
    BY <1>6 DEF ReadBlock, Goes, DoneInv
  <2>2. UNCHANGED <<updateSuccess, file, tempSize, address, flash, unsure>>
    BY <1>6 DEF ReadBlock
  <2>3. LeftInv'
    BY <2>1, <2>2 DEF LeftInv
  <2>4. ASSUME ~unsure
        PROVE  /\ tempSize = 0 => address = file.blocks + 1 /\ file.rest = 0
               /\ tempSize # 0 => address <= file.blocks \/ file.rest > 0
    <3>1. address \in 1..file.blocks + 1
          /\ tempSize = BlockSize * (file.blocks + 1 - address) + file.rest
      BY <2>1, <2>4 DEF LeftInv
    <3>0. address \in 1..file.blocks + 1
      BY <3>1
    <3>2. file.blocks + 1 - address \in 0..Capacity
      BY <3>0, <1>t, Sizes
    <3>3. ASSUME tempSize = 0 PROVE address = file.blocks + 1 /\ file.rest = 0
      <4>1. file.blocks + 1 - address = 0 /\ file.rest = 0
        BY <3>1, <3>2, <3>3, <1>t, NothingLeft
      <4>2. QED
        BY <4>1, <3>0, <1>t, Sizes
    <3>4. ASSUME tempSize # 0 PROVE address <= file.blocks \/ file.rest > 0
      <4>1. CASE address = file.blocks + 1 /\ file.rest = 0
        <5>1. file.blocks + 1 - address = 0
          BY <4>1, <1>t, Sizes
        <5>2. BlockSize * 0 = 0
          BY Sizes
        <5>3. QED
          BY <3>1, <3>4, <4>1, <5>1, <5>2
      <4>2. QED
        BY <4>1, <3>0, <1>t, Sizes
    <3>5. QED
      BY <3>3, <3>4
  <2>5. BlockInv'
    <3>1. ~unsure => address \in 1..file.blocks + 1
      BY <2>1 DEF LeftInv
    <3>2. block' = IF address <= file.blocks THEN address
                   ELSE IF address = file.blocks + 1 /\ file.rest > 0 THEN Torn ELSE block
      BY <1>6 DEF ReadBlock
    <3>3. ASSUME ~unsure, tempSize # 0
          PROVE  block' = IF address <= file.blocks THEN address ELSE Torn
      BY <2>4, <3>1, <3>2, <3>3, <1>t, Sizes
    <3>4. QED
      BY <2>1, <2>2, <2>4, <3>3 DEF BlockInv
  <2>6. DoneInv'
    <3>1. ASSUME ~unsure, tempSize = 0
          PROVE  file.rest = 0 /\ \A b \in 1..file.blocks : flash[b] = b
      <4>1. address - 1 = file.blocks /\ file.rest = 0
        BY <2>4, <3>1, <1>t, Sizes
      <4>2. QED
        BY <2>1, <3>1, <4>1 DEF LeftInv
    <3>2. QED
      BY <2>1, <2>2, <3>1 DEF DoneInv
  <2>7. QED
    BY <2>3, <2>5, <2>6
<1>7. CASE WriteFlash
  <2>1. upc = "flash" /\ upc' \in {"flash", "next"} /\ ~updateSuccess
    BY <1>7 DEF WriteFlash, DoneInv
  <2>2. UNCHANGED <<updateSuccess, file, tempSize, address, block>>
    BY <1>7 DEF WriteFlash
  <2>3. DoneInv'
    BY <2>1, <2>2 DEF DoneInv
  <2>4. CASE ~unsure'
    <3>1. ~unsure
      BY <1>7, <2>4 DEF WriteFlash
    <3>2. address \in 1..file.blocks + 1
          /\ tempSize = BlockSize * (file.blocks + 1 - address) + file.rest
          /\ \A b \in 1..address - 1 : flash[b] = b
      BY <2>1, <3>1 DEF LeftInv
    <3>3. \/ Flashed /\ writeFlashError' = ~Takes
          \/ flash' = flash /\ writeFlashError' = TRUE
      BY <1>7, <2>4 DEF WriteFlash
    <3>4. \A b \in 1..address - 1 : flash'[b] = flash[b]
      <4>1. TAKE b \in 1..address - 1
      <4>2. b # address
        BY <3>2, <1>t, Sizes
      <4>3. b \in Blocks
        BY <3>2, <1>t, Sizes DEF Blocks
      <4>4. QED
        BY <3>3, <4>2, <4>3 DEF Flashed, TypeOK
    <3>5. LeftInv'
      BY <2>1, <2>2, <3>2, <3>4 DEF LeftInv
    <3>6. ASSUME upc' = "next"
          PROVE  address <= file.blocks /\ flash'[address] = address
      <4>1. Flashed /\ Takes
        BY <1>7, <3>3, <3>6, <2>1 DEF WriteFlash
      <4>2. block # Torn /\ address \in Blocks /\ flash' = [flash EXCEPT ![address] = block]
        BY <4>1 DEF Flashed, Takes
      <4>3. address <= file.blocks /\ block = address
        BY <2>1, <3>1, <4>2 DEF BlockInv
      <4>4. QED
        BY <4>2, <4>3 DEF TypeOK
    <3>7. BlockInv'
      BY <2>1, <2>2, <3>1, <3>6 DEF BlockInv
    <3>8. QED
      BY <2>3, <3>5, <3>7
  <2>5. CASE unsure'
    BY <2>3, <2>5 DEF LeftInv, BlockInv
  <2>6. QED
    BY <2>4, <2>5
<1>8. CASE GivesUp
  BY <1>8 DEF GivesUp, Goes, LeftInv, BlockInv, DoneInv
<1>9. CASE NextBlock
  <2>1. upc = "next" /\ upc' = "read" /\ ~updateSuccess
    BY <1>9 DEF NextBlock, Goes, DoneInv
  <2>2. /\ UNCHANGED <<updateSuccess, file, flash, unsure>> /\ address' = address + 1
        /\ tempSize' = (tempSize + Word - BlockSize) % Word
    BY <1>9 DEF NextBlock
  <2>3. ASSUME ~unsure
        PROVE  /\ address' \in 1..file.blocks + 1
               /\ tempSize' = BlockSize * (file.blocks + 1 - address') + file.rest
               /\ \A b \in 1..address' - 1 : flash[b] = b
    <3>1. /\ address \in 1..file.blocks /\ flash[address] = address
          /\ tempSize = BlockSize * (file.blocks + 1 - address) + file.rest
          /\ \A b \in 1..address - 1 : flash[b] = b
      BY <2>1, <2>3, <1>t, Sizes DEF LeftInv, BlockInv
    <3>2. file.blocks + 1 - address \in 1..Capacity
          /\ (file.blocks + 1 - address) - 1 = file.blocks + 1 - address'
      BY <2>2, <3>1, <1>t, Sizes
    <3>3. tempSize' = BlockSize * (file.blocks + 1 - address') + file.rest
      BY <2>2, <3>1, <3>2, <1>t, Shrinks
    <3>4. \A b \in 1..address' - 1 : b = address \/ b \in 1..address - 1
      BY <2>2, <3>1, <1>t, Sizes
    <3>5. address' \in 1..file.blocks + 1
      BY <2>2, <3>1, <1>t, Sizes
    <3>6. QED
      BY <3>1, <3>3, <3>4, <3>5
  <2>4. LeftInv'
    BY <2>2, <2>3 DEF LeftInv
  <2>5. QED
    BY <2>1, <2>2, <2>4 DEF BlockInv, DoneInv
<1>10. CASE BootPayload
  <2>1. /\ upc \in {"bootpayload", "abort"} /\ upc' \in {"success", "failure"}
        /\ upc' = "success" => upc = "bootpayload"
        /\ UNCHANGED <<updateSuccess, file, flash, unsure>>
    BY <1>10 DEF BootPayload, Goes
  <2>2. QED
    BY <2>1 DEF LeftInv, BlockInv, DoneInv
<1>11. CASE Ends
  <2>1. /\ upc \in {"success", "failure"} /\ upc' = "ended"
        /\ updateSuccess' => upc = "success"
        /\ UNCHANGED <<file, flash, unsure>>
    BY <1>11 DEF Ends, Goes, SetFlags
  <2>2. QED
    BY <2>1 DEF LeftInv, BlockInv, DoneInv
<1>12. CASE UNCHANGED vars
  BY <1>12 DEF vars, LeftInv, BlockInv, DoneInv
<1>13. QED
  BY <1>1, <1>2, <1>3, <1>4, <1>5, <1>6, <1>7, <1>8, <1>9, <1>10, <1>11, <1>12
  DEF Next, Updater

LEMMA FlashInit == Init => FlashInv
BY DEF Init, FlashInv, LeftInv, BlockInv, DoneInv

-----------------------------------------------------------------------------
(* A clean update succeeds, and is not disturbed.                          *)

LEMMA CleanInit == Init => CleanInv /\ AskInv
BY DEF Init, CleanInv, AskInv, Clean, Absent

LEMMA CleanStep ==
  ASSUME TypeOK, FlashInv, CleanInv, [Next]_vars
  PROVE  CleanInv'
<1> USE DEF CleanInv, Clean, flags, plan, device
<1>1. CASE StartUpdate
  <2>1. CASE updating
    BY <1>1, <2>1 DEF StartUpdate
  <2>2. CASE ~updating
    BY <1>1, <2>2 DEF StartUpdate
  <2>3. QED
    BY <2>1, <2>2
<1>2. CASE LooksAtFlag
  BY <1>2 DEF LooksAtFlag
<1>3. CASE Asks
  BY <1>3 DEF Asks
<1>4. CASE OpenFile
  BY <1>4 DEF OpenFile, Goes, SetFlags
<1>5. CASE BootBootloader
  <2>1. upc' = "read" /\ ~updateSuccess' /\ (unsure' => faulty')
    BY <1>5 DEF BootBootloader, Goes, FlashInv, DoneInv, Answered, IsRefused
  <2>2. ~faulty' => mode' = "bootloader"
    BY <1>5 DEF BootBootloader, IsRefused
  <2>3. QED
    BY <2>1, <2>2
<1>6. CASE ReadBlock
  <2>1. retries' = Retries /\ upc = "read" /\ upc' \in {"bootpayload", "flash"} /\ ~updateSuccess'
    BY <1>6 DEF ReadBlock, Goes, FlashInv, DoneInv
  <2>2. UNCHANGED <<file, mode, faults, faulty, unsure>>
    BY <1>6 DEF ReadBlock
  <2>3. Retries + faults >= Retries
    BY Sizes DEF TypeOK
  <2>4. QED
    BY <2>1, <2>2, <2>3
<1>7. CASE WriteFlash
  <2>1. /\ upc = "flash" /\ upc' \in {"flash", "next"} /\ ~updateSuccess'
        /\ retries' = retries - 1 /\ UNCHANGED <<file, mode>>
    BY <1>7 DEF WriteFlash, FlashInv, DoneInv
  <2>2. CASE Answered /\ unsure' = unsure /\ writeFlashError' = ~Takes
    <3>1. UNCHANGED <<faults, faulty, unsure>>
      BY <2>2 DEF Answered
    <3>2. ASSUME Clean PROVE upc' = "next"
      <4>1. ~unsure /\ mode = "bootloader"
        BY <2>1, <3>2
      <4>2. address \in 1..file.blocks /\ block = address
        <5>1. address \in 1..file.blocks + 1
          BY <4>1, <2>1 DEF FlashInv, LeftInv
        <5>2. address <= file.blocks \/ file.rest > 0
          BY <4>1, <2>1 DEF FlashInv, BlockInv
        <5>3. address <= file.blocks
          BY <3>2, <5>2
        <5>4. block = address
          BY <4>1, <2>1, <5>3 DEF FlashInv, BlockInv
        <5>5. file.blocks \in 0..Capacity
          BY FileFields DEF TypeOK
        <5>6. QED
          BY <5>1, <5>3, <5>4, <5>5, Sizes
      <4>3. address \in Blocks /\ block # Torn
        <5>1. file.blocks \in 0..Capacity
          BY FileFields DEF TypeOK
        <5>2. QED
          BY <4>2, <5>1, Sizes DEF Blocks, Torn
      <4>4. Takes
        BY <4>1, <4>3 DEF Takes
      <4>5. QED
        BY <1>7, <2>2, <4>4 DEF WriteFlash
    <3>3. Clean' => Clean
      BY <2>1, <3>1
    <3>4. QED
      BY <2>1, <3>1, <3>2, <3>3
  <2>3. CASE UNCHANGED <<unsure, faulty>> /\ faults' = faults + 1
    <3>1. ASSUME Clean' PROVE retries' + faults' >= Retries /\ mode' = "bootloader"
      <4>1. Clean
        BY <2>1, <2>3, <3>1, Sizes DEF TypeOK
      <4>2. retries + faults >= Retries /\ mode = "bootloader"
        BY <2>1, <4>1
      <4>3. retries' + faults' = retries + faults
        BY <2>1, <2>3, Sizes DEF TypeOK
      <4>4. QED
        BY <2>1, <4>2, <4>3
    <3>2. QED
      BY <2>1, <2>3, <3>1
  <2>4. CASE IsRefused
    BY <2>1, <2>4 DEF IsRefused
  <2>5. QED
    BY <1>7, <2>2, <2>3, <2>4 DEF WriteFlash
<1>8. CASE GivesUp
  <2>1. /\ upc = "flash" /\ upc' = "abort" /\ retries = 0 /\ ~updateSuccess
        /\ UNCHANGED <<file, mode, faults, faulty, unsure, updateSuccess>>
    BY <1>8 DEF GivesUp, Goes, FlashInv, DoneInv
  <2>2. ~Clean
    BY <2>1, Sizes DEF TypeOK
  <2>3. QED
    BY <2>1, <2>2
<1>9. CASE NextBlock
  BY <1>9 DEF NextBlock, Goes
<1>10. CASE BootPayload
  <2>1. /\ upc \in {"bootpayload", "abort"} /\ upc' \in {"success", "failure"}
        /\ upc' = "failure" => upc = "abort"
        /\ UNCHANGED <<updateSuccess, file, unsure>> /\ ~updateSuccess
    BY <1>10 DEF BootPayload, Goes, FlashInv, DoneInv
  <2>2. CASE Answered /\ (upc # "abort" => mode' = "payload")
    BY <1>10, <2>1, <2>2 DEF Answered, BootPayload, Goes
  <2>3. CASE IsRefused
    BY <2>1, <2>3 DEF IsRefused
  <2>4. QED
    BY <1>10, <2>2, <2>3 DEF BootPayload
<1>11. CASE Ends
  BY <1>11 DEF Ends, Goes, SetFlags
<1>12. CASE UNCHANGED vars
  BY <1>12 DEF vars
<1>13. QED
  BY <1>1, <1>2, <1>3, <1>4, <1>5, <1>6, <1>7, <1>8, <1>9, <1>10, <1>11, <1>12
  DEF Next, Updater

LEMMA AskStep ==
  ASSUME TypeOK, AskInv, [Next]_vars
  PROVE  AskInv'
<1> USE DEF AskInv, flags, plan, device
<1>1. CASE StartUpdate \/ LooksAtFlag \/ Asks
  BY <1>1 DEF StartUpdate, LooksAtFlag, Asks
<1>2. CASE OpenFile \/ Ends
  BY <1>2 DEF OpenFile, Ends, SetFlags, Goes
<1>3. CASE BootBootloader \/ ReadBlock \/ WriteFlash \/ GivesUp \/ NextBlock \/ BootPayload
  BY <1>3 DEF BootBootloader, ReadBlock, WriteFlash, GivesUp, NextBlock, BootPayload
<1>4. CASE UNCHANGED vars
  BY <1>4 DEF vars
<1>5. QED
  BY <1>1, <1>2, <1>3, <1>4 DEF Next, Updater

-----------------------------------------------------------------------------
(* The theorems.                                                           *)

LEMMA Invariant == Spec => []IInv
<1>1. Init => IInv
  BY TypeInit, FlashInit, CleanInit DEF IInv
<1>2. IInv /\ [Next]_vars => IInv'
  BY TypeStep, FlashStep, CleanStep, AskStep DEF IInv
<1>3. QED
  BY <1>1, <1>2, PTL DEF Spec

(* An update that reports success has its whole file in the flash          *)
(* (FlashedWhole), for files and flashes of any size, however often blocks *)
(* are damaged and whatever earlier updates left.                          *)
THEOREM PMS2FlashedWhole == Spec => []FlashedWhole
<1>1. IInv => FlashedWhole
  BY DEF IInv, FlashInv, DoneInv, FlashedWhole
<1>2. QED
  BY Invariant, <1>1, PTL

(* An update of a whole file of which no call is refused, and of which     *)
(* fewer blocks are damaged than there are retries, succeeds and leaves    *)
(* the payload running (CleanUpdateSucceeds).                              *)
THEOREM PMS2CleanUpdates == Spec => []CleanUpdateSucceeds
<1>1. IInv => CleanUpdateSucceeds
  BY DEF IInv, CleanInv, Clean, CleanUpdateSucceeds
<1>2. QED
  BY Invariant, <1>1, PTL

(* A getter or a setter never reaches a board that is being updated, and   *)
(* finds the payload after a clean update (BoardUndisturbed).              *)
THEOREM PMS2Undisturbed == Spec => BoardUndisturbed
<1>1. IInv /\ [Next]_vars
        => [Asks => ~updating /\ (updateSuccess /\ ~faulty => mode = "payload")]_vars
  BY DEF IInv, CleanInv, AskInv, Asks
<1>2. QED
  BY Invariant, <1>1, PTL DEF Spec, BoardUndisturbed

=============================================================================
