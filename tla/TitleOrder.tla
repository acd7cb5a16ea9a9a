----------------------------- MODULE TitleOrder -----------------------------
(***************************************************************************)
(* The order of the games list: GameContainer::compare() (titles.h) and    *)
(* the std::sort() that scanGames() ends with (titles.cpp 194).  A name is *)
(* the sequence of its code points.                                        *)
(*                                                                         *)
(* std::sort() is external: for lists of up to 16 elements libstdc++ sorts *)
(* by insertion.  It asks for a strict weak ordering.                      *)
(***************************************************************************)
EXTENDS Naturals, Sequences

CONSTANTS
  Names,      \* the names of the titles on a drive
  MaxTitles   \* bound: how many a list has

ASSUME NamesAssumption ==
  /\ Names \subseteq Seq(Nat)
  /\ MaxTitles \in 0..16

VARIABLES
  games,      \* the list
  inserted    \* how much of it std::sort() has sorted

vars == <<games, inserted>>

(* tolower() in the C locale.                                              *)
Lower(c) == IF c \in 65..90 THEN c + 32 ELSE c

Both(a, b) == {i \in 1..Len(a) : i <= Len(b)}
SameBefore(a, b, i) == \A j \in 1..(i - 1) : Lower(a[j]) = Lower(b[j])

(* Mutant: case matters where the names differ.                            *)
LessByCase(a, b) ==
  \E i \in Both(a, b) : SameBefore(a, b, i) /\ a[i] < b[i]

(* compare().  The loop ends before a difference only if a string ended;   *)
(* the pointers tested then are never NULL, and the answer is FALSE.       *)
Less(a, b) ==
  \E i \in Both(a, b) : SameBefore(a, b, i) /\ Lower(a[i]) < Lower(b[i])

(* Any order of the titles that stayed and the new ones behind them.       *)
Init ==
  /\ games \in UNION {[1..n -> Names] : n \in 0..MaxTitles}
  /\ inserted = IF games = <<>> THEN 0 ELSE 1

(* Where x goes that comes after the sorted part: to the front if it is    *)
(* less than the first, else before the last run of elements above it.     *)
GoesTo(x, p) ==
  IF Less(x, games[1]) THEN p = 1
  ELSE /\ p # 1
       /\ ~Less(x, games[p - 1])
       /\ \A i \in p..inserted : Less(x, games[i])

Insert ==
  /\ inserted < Len(games)
  /\ \E p \in 1..(inserted + 1) :
       /\ GoesTo(games[inserted + 1], p)
       /\ games' = [i \in 1..Len(games) |->
                      IF i < p \/ i > inserted + 1 THEN games[i]
                      ELSE IF i = p THEN games[inserted + 1] ELSE games[i - 1]]
  /\ inserted' = inserted + 1

Next == Insert

Spec == Init /\ [][Next]_vars

-----------------------------------------------------------------------------
(* Alphabetical order.  As the comment says (titles.h 55), "the first       *)
(* string comes first if it reached the end before": n letters are the     *)
(* same, and then a ends or differs.                                       *)
Before(a, b) ==
  \E n \in 0..Len(a) :
    /\ n < Len(b)
    /\ \A i \in 1..n : Lower(a[i]) = Lower(b[i])
    /\ n = Len(a) \/ Lower(a[n + 1]) < Lower(b[n + 1])

(* Of any two names one is less or they differ in case only: none begins   *)
(* with another.                                                           *)
Same(a, b) == Len(a) = Len(b) /\ \A i \in 1..Len(a) : Lower(a[i]) = Lower(b[i])
Comparable == \A a, b \in Names : Less(a, b) \/ Less(b, a) \/ Same(a, b)

TypeOK ==
  /\ games \in Seq(Names)
  /\ inserted \in 0..Len(games)
  /\ games # <<>> => inserted > 0

(* The sorted part of the list is in order; in the end, all of it is.      *)
Sorted ==
  \A i, j \in 1..inserted : i < j => ~Before(games[j], games[i])

=============================================================================
