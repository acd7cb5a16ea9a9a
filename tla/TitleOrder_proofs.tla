-------------------------- MODULE TitleOrder_proofs -------------------------
(***************************************************************************)
(* Proofs about compare() and the list that is sorted with it.             *)
(***************************************************************************)
EXTENDS TitleOrder, TLAPS

Text == Seq(Nat)

LEMMA LowerIsNat == \A c \in Nat : Lower(c) \in Nat
BY DEF Lower

(* Two letters that Less() compares are letters.                           *)
LEMMA LettersAreNat ==
  ASSUME NEW a \in Text, NEW i \in 1..Len(a)
  PROVE  Lower(a[i]) \in Nat
<1>1. a[i] \in Nat
  BY DEF Text
<1> QED BY <1>1, LowerIsNat

(* compare() is a strict partial order for any names: no name is less than *)
(* itself.                                                                 *)
LEMMA LessIrreflexive ==
  ASSUME NEW a \in Text
  PROVE  ~Less(a, a)
<1> SUFFICES ASSUME Less(a, a) PROVE FALSE
  OBVIOUS
<1>1. PICK i \in Both(a, a) : Lower(a[i]) < Lower(a[i])
  BY DEF Less
<1>2. Lower(a[i]) \in Nat
  BY LettersAreNat DEF Both
<1> QED BY <1>1, <1>2

(* ... and it is transitive.                                               *)
LEMMA LessTransitive ==
  ASSUME NEW a \in Text, NEW b \in Text, NEW c \in Text, Less(a, b), Less(b, c)
  PROVE  Less(a, c)
<1>1. PICK i \in Both(a, b) : SameBefore(a, b, i) /\ Lower(a[i]) < Lower(b[i])
  BY DEF Less
<1>2. PICK j \in Both(b, c) : SameBefore(b, c, j) /\ Lower(b[j]) < Lower(c[j])
  BY DEF Less
<1>3. /\ i \in Nat /\ 1 <= i /\ i <= Len(a) /\ i <= Len(b)
      /\ j \in Nat /\ 1 <= j /\ j <= Len(b) /\ j <= Len(c)
      /\ Len(a) \in Nat /\ Len(b) \in Nat /\ Len(c) \in Nat
  BY DEF Both, Text
<1>4. CASE i < j
  <2>1. i \in Both(a, c)
    BY <1>3, <1>4 DEF Both
  <2>2. SameBefore(a, c, i)
    BY <1>1, <1>2, <1>3, <1>4 DEF SameBefore
  <2>3. Lower(b[i]) = Lower(c[i])
    BY <1>2, <1>3, <1>4 DEF SameBefore
  <2> QED BY <1>1, <2>1, <2>2, <2>3 DEF Less
<1>5. CASE j < i
  <2>1. j \in Both(a, c)
    BY <1>3, <1>5 DEF Both
  <2>2. SameBefore(a, c, j)
    BY <1>1, <1>2, <1>3, <1>5 DEF SameBefore
  <2>3. Lower(a[j]) = Lower(b[j])
    BY <1>1, <1>3, <1>5 DEF SameBefore
  <2> QED BY <1>2, <2>1, <2>2, <2>3 DEF Less
<1>6. CASE i = j
  <2>1. i \in Both(a, c)
    BY <1>3, <1>6 DEF Both
  <2>2. SameBefore(a, c, i)
    BY <1>1, <1>2, <1>3, <1>6 DEF SameBefore
  <2>3. Lower(a[i]) \in Nat /\ Lower(b[i]) \in Nat /\ Lower(c[i]) \in Nat
    BY <1>3, <1>6, LettersAreNat
  <2>4. Lower(a[i]) < Lower(c[i])
    BY <1>1, <1>2, <1>6, <2>3
  <2> QED BY <2>1, <2>2, <2>4 DEF Less
<1> QED BY <1>3, <1>4, <1>5, <1>6

(* Names that differ in case only are interchangeable.                     *)
LEMMA SameIsAsLess ==
  ASSUME NEW a \in Text, NEW b \in Text, NEW c \in Text, Same(a, b), Less(c, a)
  PROVE  Less(c, b)
<1>1. PICK i \in Both(c, a) : SameBefore(c, a, i) /\ Lower(c[i]) < Lower(a[i])
  BY DEF Less
<1>2. /\ i \in Nat /\ 1 <= i /\ i <= Len(a) /\ i <= Len(c) /\ Len(a) = Len(b)
      /\ Len(a) \in Nat /\ Len(c) \in Nat
      /\ \A k \in 1..Len(a) : Lower(a[k]) = Lower(b[k])
  BY DEF Both, Text, Same
<1>3. i \in Both(c, b) /\ SameBefore(c, b, i)
  BY <1>1, <1>2 DEF Both, SameBefore
<1>4. Lower(c[i]) < Lower(b[i])
  BY <1>1, <1>2
<1> QED BY <1>3, <1>4 DEF Less

LEMMA NamesAreText == Names \subseteq Text
BY NamesAssumption DEF Text

(* If all names are comparable, not being less is transitive too, which    *)
(* is what std::sort() needs and prefixes take away.                       *)
LEMMA NotLessTransitive ==
  ASSUME Comparable, NEW a \in Names, NEW b \in Names, NEW c \in Names,
         ~Less(b, a), ~Less(c, b)
  PROVE  ~Less(c, a)
<1> SUFFICES ASSUME Less(c, a) PROVE FALSE
  OBVIOUS
<1>1. a \in Text /\ b \in Text /\ c \in Text
  BY NamesAreText
<1>2. CASE Less(a, b)
  BY <1>1, <1>2, LessTransitive
<1>3. CASE Same(a, b)
  BY <1>1, <1>3, SameIsAsLess
<1> QED BY <1>2, <1>3 DEF Comparable

(* Among comparable names the alphabetical order is compare()'s.           *)
LEMMA BeforeIsLess ==
  ASSUME Comparable, NEW a \in Names, NEW b \in Names, Before(a, b)
  PROVE  Less(a, b)
<1>1. a \in Text /\ b \in Text
  BY NamesAreText
<1>2. PICK n \in 0..Len(a) :
        /\ n < Len(b)
        /\ \A i \in 1..n : Lower(a[i]) = Lower(b[i])
        /\ n = Len(a) \/ Lower(a[n + 1]) < Lower(b[n + 1])
  BY DEF Before
<1>3. n \in Nat /\ Len(a) \in Nat /\ Len(b) \in Nat /\ n <= Len(a)
  BY <1>1, <1>2 DEF Text
<1>4. CASE n < Len(a)
  <2>1. n + 1 \in Both(a, b) /\ SameBefore(a, b, n + 1)
    BY <1>2, <1>3, <1>4 DEF Both, SameBefore
  <2> QED BY <1>2, <1>3, <1>4, <2>1 DEF Less
<1>5. CASE n = Len(a)
  <2>1. ~Same(a, b)
    BY <1>2, <1>3, <1>5 DEF Same
  <2>2. \A i \in 1..Len(a) : Lower(a[i]) = Lower(b[i]) /\ Lower(a[i]) \in Nat
    BY <1>1, <1>2, <1>5, LettersAreNat
  <2>3. ~Less(b, a)
    BY <1>3, <2>2 DEF Less, Both
  <2> QED BY <2>1, <2>3 DEF Comparable
<1> QED BY <1>3, <1>4, <1>5

-----------------------------------------------------------------------------
(* The sorted part is in order, by compare() itself.                       *)
InOrder ==
  \A i, j \in 1..inserted : i < j => ~Less(games[j], games[i])

LEMMA InsertKeepsType ==
  ASSUME TypeOK, [Next]_vars
  PROVE  TypeOK'
<1>1. CASE Insert
  <2>1. PICK p \in 1..(inserted + 1) :
          games' = [i \in 1..Len(games) |->
                      IF i < p \/ i > inserted + 1 THEN games[i]
                      ELSE IF i = p THEN games[inserted + 1] ELSE games[i - 1]]
    BY <1>1 DEF Insert
  <2>2. /\ inserted \in Nat /\ Len(games) \in Nat /\ inserted + 1 <= Len(games)
        /\ inserted' = inserted + 1
        /\ \A i \in 1..Len(games) : games[i] \in Names
    BY <1>1 DEF Insert, TypeOK
  <2>3. \A i \in 1..Len(games) : games'[i] \in Names
    BY <2>1, <2>2
  <2>4. games' \in Seq(Names) /\ Len(games') = Len(games)
    BY <2>1, <2>2, <2>3
  <2> QED BY <2>2, <2>4 DEF TypeOK
<1>2. CASE UNCHANGED vars
  BY <1>2 DEF TypeOK, vars
<1> QED BY <1>1, <1>2 DEF Next

LEMMA InsertKeepsOrder ==
  ASSUME TypeOK, Comparable, InOrder, [Next]_vars
  PROVE  InOrder'
<1>1. CASE Insert
  <2> DEFINE n == inserted
             x == games[inserted + 1]
  <2>1. PICK p \in 1..(n + 1) :
          /\ GoesTo(x, p)
          /\ games' = [i \in 1..Len(games) |->
                         IF i < p \/ i > n + 1 THEN games[i]
                         ELSE IF i = p THEN x ELSE games[i - 1]]
    BY <1>1 DEF Insert
  <2>2. /\ n \in Nat /\ n + 1 <= Len(games) /\ Len(games) \in Nat /\ inserted' = n + 1
        /\ \A i \in 1..Len(games) : games[i] \in Names
        /\ x \in Names
    BY <1>1 DEF Insert, TypeOK
  <2>3. ASSUME NEW i \in 1..n, NEW j \in 1..n, i < j
        PROVE  ~Less(games[j], games[i])
    BY <2>3 DEF InOrder
  <2>4. ASSUME NEW i \in 1..n, i < p
        PROVE  ~Less(x, games[i])
    <3>1. p # 1 /\ ~Less(x, games[p - 1]) /\ p - 1 \in 1..n
      BY <2>1, <2>2, <2>4 DEF GoesTo
    <3>2. CASE i = p - 1
      BY <3>1, <3>2
    <3>3. CASE i < p - 1
      <4>1. ~Less(games[p - 1], games[i])
        BY <3>1, <3>3, <2>3
      <4>2. games[i] \in Names /\ games[p - 1] \in Names
        BY <2>2, <3>1
      <4> QED BY <3>1, <4>1, <4>2, <2>2, NotLessTransitive
    <3> QED BY <2>1, <2>2, <2>4, <3>2, <3>3
  <2>5. ASSUME NEW k \in p..n
        PROVE  ~Less(games[k], x)
    <3>1. k \in 1..n /\ games[k] \in Text /\ x \in Text
      BY <2>1, <2>2, NamesAreText
    <3>2. Less(x, games[k]) => ~Less(games[k], x)
      BY <3>1, LessTransitive, LessIrreflexive
    <3>3. CASE Less(x, games[1])
      <4>1. games[1] \in Text
        BY <2>2, NamesAreText
      <4>2. Less(games[k], x) => Less(games[k], games[1])
        BY <3>1, <3>3, <4>1, LessTransitive
      <4>3. k # 1 => ~Less(games[k], games[1])
        <5> SUFFICES ASSUME k # 1 PROVE ~Less(games[k], games[1])
          OBVIOUS
        <5>1. 1 \in 1..n /\ k \in 1..n /\ 1 < k
          BY <2>2, <3>1
        <5> QED BY <5>1, <2>3
      <4> QED BY <3>2, <3>3, <4>2, <4>3
    <3>4. CASE ~Less(x, games[1])
      BY <2>1, <3>2, <3>4 DEF GoesTo
    <3> QED BY <3>3, <3>4
  <2>6. ASSUME NEW i \in 1..(n + 1), NEW j \in 1..(n + 1), i < j
        PROVE  ~Less(games'[j], games'[i])
    <3>1. /\ games'[i] = IF i < p THEN games[i] ELSE IF i = p THEN x ELSE games[i - 1]
          /\ games'[j] = IF j < p THEN games[j] ELSE IF j = p THEN x ELSE games[j - 1]
      BY <2>1, <2>2
    <3>2. CASE j < p
      BY <2>1, <2>2, <2>3, <2>6, <3>1, <3>2
    <3>3. CASE j = p
      BY <2>1, <2>2, <2>4, <2>6, <3>1, <3>3
    <3>4. CASE i < p /\ j > p
      <4>1. j - 1 \in 1..n /\ i \in 1..n /\ i < j - 1
        BY <2>1, <2>2, <2>6, <3>4
      <4> QED BY <2>1, <3>1, <3>4, <4>1, <2>3
    <3>5. CASE i = p
      <4>1. j - 1 \in p..n
        BY <2>1, <2>2, <2>6, <3>5
      <4> QED BY <2>1, <2>6, <3>1, <3>5, <4>1, <2>5
    <3>6. CASE i > p
      <4>1. j - 1 \in 1..n /\ i - 1 \in 1..n /\ i - 1 < j - 1
        BY <2>1, <2>2, <2>6, <3>6
      <4> QED BY <2>1, <2>6, <3>1, <3>6, <4>1, <2>3
    <3> QED BY <2>1, <2>2, <2>6, <3>2, <3>3, <3>4, <3>5, <3>6
  <2> QED BY <2>2, <2>6 DEF InOrder
<1>2. CASE UNCHANGED vars
  BY <1>2 DEF InOrder, vars
<1> QED BY <1>1, <1>2 DEF Next

(* The list comes out sorted, case aside, whenever compare() can tell the  *)
(* names apart: for any number of titles and any such names.               *)
THEOREM ListSorted == Comparable => (Spec => []Sorted)
<1>1. Init => TypeOK /\ InOrder
  <2> SUFFICES ASSUME Init PROVE TypeOK /\ InOrder
    OBVIOUS
  <2>1. PICK n \in 0..MaxTitles : games \in [1..n -> Names]
    BY DEF Init
  <2>2. games \in Seq(Names) /\ Len(games) = n /\ n \in Nat
    BY <2>1, NamesAssumption
  <2>3. inserted = IF n = 0 THEN 0 ELSE 1
    BY <2>1, <2>2 DEF Init
  <2> QED BY <2>2, <2>3 DEF TypeOK, InOrder
<1>2. Comparable /\ TypeOK /\ InOrder /\ [Next]_vars => (TypeOK /\ InOrder)'
  BY InsertKeepsType, InsertKeepsOrder
<1>3. Comparable /\ TypeOK /\ InOrder => Sorted
  <2> SUFFICES ASSUME Comparable, TypeOK, InOrder,
                      NEW i \in 1..inserted, NEW j \in 1..inserted, i < j
               PROVE  ~Before(games[j], games[i])
    BY DEF Sorted
  <2>1. games[i] \in Names /\ games[j] \in Names
    BY DEF TypeOK
  <2> QED BY <2>1, BeforeIsLess DEF InOrder
<1>4. Comparable => Comparable'
  BY DEF Comparable
<1> QED BY <1>1, <1>2, <1>3, <1>4, PTL DEF Spec

=============================================================================
