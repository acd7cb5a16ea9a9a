----------------------------- MODULE MCTitlesDB -----------------------------
(***************************************************************************)
(* Small instances of TitlesDB: which databases, how many titles each may  *)
(* have and which covers the drive holds.                                  *)
(***************************************************************************)
EXTENDS TitlesDB, TLC

CONSTANTS p1, p2

OneGamesDB == <<"gc", "hb">>

(* Two titles in either list, or one in the games database only.           *)
TwoTitles == [d \in DBs |-> {p1, p2}]
OneGame == [d \in DBs |-> IF d = "gc" THEN {p1} ELSE {}]

(* p1 has its own cover, p2 only that of another region.                   *)
SomeCovers ==
  [d \in DBs |-> [p \in Path |-> IF d = HB THEN (IF p = p1 THEN {"exact"} ELSE {})
                                 ELSE IF p = p1 THEN {"exact"} ELSE {"region"}]]

(* The homebrews have a dummy icon, which old cache files name; the games  *)
(* have none.                                                              *)
Icons == {HB}
OldCovers == [d \in DBs |-> IF d = HB THEN {"dummy"} ELSE {"exact"}]
NoOldCovers == [d \in DBs |-> {}]

(* One of the two lists is empty, its folder and its cache: the threads of *)
(* the two meet in the mutexes and in the stop, not in the titles.         *)
OneListUsed ==
  \E d \in DBs : \A e \in DBs \ {d} :
    e \in drive.dirs /\ drive.files[e] = {} /\ \A p \in Path : cache[e][p] = Absent

OneListInit == Init /\ OneListUsed
OneListSpec == OneListInit /\ [][Next]_vars
=============================================================================
