--------------------------- MODULE TitlesDB_proofs ---------------------------
(***************************************************************************)
(* Theorems about TitlesDB, for any number of databases and titles, any    *)
(* drive content and any set of ways out of the main loop.                 *)
(*                                                                         *)
(* Each safety property follows from an inductive invariant: ListInv       *)
(* (types, and how far a covers thread may be while a scan runs), LockInv  *)
(* (who holds a mutex where), ImageInv (which images are allocated),       *)
(* BootInv (where the main thread is while the boot thread runs), JoinInv  *)
(* (what the joins have established), ScanInv (what a scan has found and   *)
(* what its pointers point to), ViewInv (what the scripts have counted)    *)
(* and ResultInv (what a scan has made of its list).  Each is proved from  *)
(* those before it that it needs.                                          *)
(***************************************************************************)
EXTENDS TitlesDB, TLAPS

(* A covers thread exists only after the scan of its database; the entries *)
(* its coverMap points to are in the list.                                 *)
CoversInv ==
  \A d \in DBs :
    /\ cpc[d] # "none" => spc[d] \in {"signal", "done"}
    /\ cpc[d] \in {"resolve", "assign"} => coverMap[d] \subseteq Listed(d)

ListInv == TypeOK /\ CoversInv

(* The main thread holds the first nlocked mutexes, and all of them from   *)
(* lockTitlesDBs() to unlockTitlesDBs(); a thread that changes a list      *)
(* holds its mutex.                                                        *)
LockInv ==
  /\ \A i \in 1..NDB : i <= nlocked => mutex[LockOrder[i]] = "main"
  /\ mpc \in {"theme", "handle", "draw", "unlock", "animation"} => nlocked = NDB
  /\ owner = "main" => nlocked = NDB
  /\ \A d \in DBs :
       /\ spc[d] \in {"update", "save"} => mutex[d] = "scan"
       /\ cpc[d] = "assign" => mutex[d] = "covers"

(* The GPU reads images only between a draw and Gfx::waitDrawDone().       *)
ImageInv ==
  /\ Shared \in live
  /\ gpu # {} => mpc = "draw"
  /\ ImagesAllocated

(* While the boot thread works the main thread sleeps or plays the         *)
(* animation; when the main thread is at the top of the loop or shuts down *)
(* the boot thread waits for a frame.                                      *)
BootInv ==
  /\ bpc \in {"work", "stop", "join", "unmount", "launched", "spins"} => mpc \in {"asleep", "animation"}
  /\ mpc \in {"top", "stop", "join", "unmount", "off"} => bpc \in {"none", "log", "wait"}

(* Threads that were joined have ended, and whoever unmounts comes after   *)
(* all the joins.                                                          *)
JoinInv ==
  /\ mpc # "start" => \A d \in DBs : spc[d] # "none"
  /\ mpc = "start" => bpc = "none"
  /\ \A i \in 1..NDB : i <= jdb => spc[LockOrder[i]] = "done" /\ CoversEnded(LockOrder[i])
  /\ jscan /\ jdb < NDB => spc[LockOrder[jdb + 1]] = "done"
  /\ stopping /\ bpc # "join" /\ mpc # "join" => jdb = NDB
  /\ mpc = "unmount" \/ bpc = "unmount" \/ ~mounted => stopping /\ jdb = NDB
  /\ mpc = "join" \/ bpc = "join" => stopping

-----------------------------------------------------------------------------
(* What the helpers return.                                                *)

(* getHBCoverPath(), createGameContainer() and loadCoversThread() name one *)
(* of the four kinds of cover.                                             *)
LEMMA CoverTypes ==
  ASSUME NEW d \in DBs, NEW p \in Path
  PROVE  NewCover(d, p) \in Covers /\ ResolveCover(d, p) \in Covers /\ DummyCover(d) \in Covers
BY DEF NewCover, ResolveCover, DummyCover, Covers

(* A title that was just read from the drive is an entry.                  *)
LEMMA NewEntryType ==
  ASSUME NEW d \in DBs, NEW p \in Path
  PROVE  NewEntry(d, p) \in Entry /\ NewEntry(d, p) # Absent
BY CoverTypes, AbsentAssumption DEF NewEntry, Entry, Versions, Images

(* The list that readCache() makes of a cache file.                        *)
LEMMA ReadCacheType ==
  ASSUME TypeOK, NEW d \in DBs
  PROVE  ReadCache(d) \in [Path -> Entry \cup {Absent}]
<1> SUFFICES ASSUME NEW p \in Path, cache[d][p] # Absent
             PROVE  ReadCache(d)[p] \in Entry
  BY DEF ReadCache
<1>1. cache[d][p] \in Line
  BY DEF TypeOK
<1> QED
  BY <1>1, CoverTypes DEF ReadCache, Line, Entry, Images

(* The cache file that writeCache() makes of a list.                       *)
LEMMA CacheLinesType ==
  ASSUME TypeOK, NEW d \in DBs
  PROVE  CacheLines(d) \in [Path -> Line \cup {Absent}]
<1> SUFFICES ASSUME NEW p \in Path, games[d][p] # Absent
             PROVE  CacheLines(d)[p] \in Line
  BY DEF CacheLines
<1>1. games[d][p] \in Entry
  BY DEF TypeOK
<1> QED
  BY <1>1 DEF CacheLines, Line, Entry

(* writeCache() leaves the lines of the list in the file, or notes that it *)
(* did not.                                                                *)
LEMMA WriteCacheLeaves ==
  ASSUME TypeOK, NEW d \in DBs, WriteCache(d)
  PROVE  /\ cache' \in [DBs -> [Path -> Line \cup {Absent}]]
         /\ unsaved' \subseteq Unwritable
         /\ d \notin unsaved' => cache'[d] = CacheLines(d)
BY CacheLinesType DEF WriteCache, TypeOK

(* It leaves the other databases' files alone.                             *)
LEMMA WriteCacheOthers ==
  ASSUME TypeOK, NEW d \in DBs, WriteCache(d), NEW e \in DBs, e # d
  PROVE  cache'[e] = cache[e] /\ (e \in unsaved' <=> e \in unsaved)
BY DEF WriteCache, TypeOK

(* The object of an image that is not null is one of Objs.                 *)
LEMMA ObjType ==
  ASSUME NEW d \in DBs, NEW p \in Path, NEW i \in Images \ {"null"}
  PROVE  Obj(d, p, i) \in Objs
BY DEF Obj, Objs, Images

(* Two entries never share an image of their own.                          *)
LEMMA ObjDistinct ==
  ASSUME NEW d \in DBs, NEW p \in Path, NEW i \in Images \ {"shared"},
         NEW e \in DBs, NEW q \in Path, NEW j \in Images,
         Obj(d, p, i) = Obj(e, q, j)
  PROVE  d = e /\ p = q /\ i = j
BY SharedAssumption DEF Obj

-----------------------------------------------------------------------------
(* What the steps that change a list or a set of images leave has their    *)
(* types.                                                                  *)
LEMMA GamesType ==
  ASSUME ListInv, NEW d \in DBs,
         ScanUpdateGames(d) \/ CoversAssign(d) \/ MainStartDB(d)
  PROVE  games' \in [DBs -> [Path -> Entry \cup {Absent}]]
<1>1. games \in [DBs -> [Path -> Entry \cup {Absent}]]
  BY DEF ListInv, TypeOK
<1>2. CASE ScanUpdateGames(d)
  BY <1>1, <1>2, NewEntryType DEF ScanUpdateGames
<1>3. CASE CoversAssign(d)
  <2>1. PICK p \in coverMap[d] :
          games' = [games EXCEPT ![d][p] = [ver |-> games[d][p].ver,
                                            cover |-> ResolveCover(d, p),
                                            image |-> "null"]]
    BY <1>3 DEF CoversAssign
  <2>2. p \in Path /\ games[d][p] \in Entry
    BY <1>3 DEF CoversAssign, ListInv, TypeOK, CoversInv, Listed
  <2>3. [ver |-> games[d][p].ver, cover |-> ResolveCover(d, p), image |-> "null"] \in Entry
    BY <2>2, CoverTypes DEF Entry, Images
  <2> QED
    BY <1>1, <2>1, <2>2, <2>3
<1>4. CASE MainStartDB(d)
  BY <1>1, <1>4, ReadCacheType DEF MainStartDB, ListInv
<1> QED
  BY <1>2, <1>3, <1>4

(* The homebrew list after a scan, and the icons that are left.            *)
LEMMA HomebrewsType ==
  ASSUME ListInv, ScanUpdateHomebrews
  PROVE  /\ games' \in [DBs -> [Path -> Entry \cup {Absent}]]
         /\ live' \subseteq live
<1>1. games \in [DBs -> [Path -> Entry \cup {Absent}]] /\ HB \in DBs
  BY DEF ListInv, TypeOK, DBs
<1>2. ASSUME NEW p \in Path, KeptIcon(p)
      PROVE  [NewEntry(HB, p) EXCEPT !.image = games[HB][p].image] \in Entry
  <2>1. games[HB][p] \in Entry
    BY <1>1, <1>2 DEF KeptIcon
  <2> QED
    BY <1>1, <2>1, NewEntryType DEF Entry
<1> QED
  BY <1>1, <1>2, NewEntryType DEF ScanUpdateHomebrews

(* A draw keeps the types and the titles of every list.                    *)
LEMMA DrawType ==
  ASSUME ListInv, NEW p \in Path, NEW onScreen \in BOOLEAN, DrawCover(p, onScreen)
  PROVE  /\ games' \in [DBs -> [Path -> Entry \cup {Absent}]]
         /\ \A d \in DBs : Listed(d)' = Listed(d)
         /\ live' \subseteq Objs
         /\ gpu' \subseteq Objs
<1> DEFINE old == games[active][p].image
           new == IF ~onScreen THEN "null"
                  ELSE IF old # "null" THEN old
                  ELSE IF games[active][p].cover = "none" THEN "shared"
                  ELSE games[active][p].cover
<1>1. games \in [DBs -> [Path -> Entry \cup {Absent}]] /\ active \in DBs
  BY DEF DrawCover, ListInv, TypeOK
<1>2. games[active][p] \in Entry
  BY <1>1 DEF DrawCover, Listed
<1>3. new \in Images
  BY <1>2 DEF Entry, Images, OwnImages, Covers
<1>4. games' = [games EXCEPT ![active][p].image = new]
  BY DEF DrawCover
<1>5. [games[active][p] EXCEPT !.image = new] \in Entry
  BY <1>2, <1>3 DEF Entry
<1>6. games' = [games EXCEPT ![active] =
                  [games[active] EXCEPT ![p] = [games[active][p] EXCEPT !.image = new]]]
  BY <1>4
<1>7. games' \in [DBs -> [Path -> Entry \cup {Absent}]]
  BY <1>1, <1>5, <1>6
<1>8. \A d \in DBs : Listed(d)' = Listed(d)
  BY <1>1, <1>2, <1>5, <1>6, AbsentAssumption DEF Listed
<1>9. live' \subseteq Objs /\ gpu' \subseteq Objs
  <2>1. live \subseteq Objs /\ gpu \subseteq Objs
    BY DEF ListInv, TypeOK
  <2>2. new # "null" => Obj(active, p, new) \in Objs
    BY <1>1, <1>3, ObjType
  <2>3. live' = IF new # "null" THEN live \cup {Obj(active, p, new)}
                ELSE IF old = "shared" THEN live ELSE live \ {Obj(active, p, old)}
    BY DEF DrawCover
  <2>4. gpu' = IF new # "null" THEN gpu \cup {Obj(active, p, new)} ELSE gpu
    BY DEF DrawCover
  <2> QED
    BY <2>1, <2>2, <2>3, <2>4
<1> QED
  BY <1>7, <1>8, <1>9

(* A join moves on by one thread.                                          *)
LEMMA JoinStepType ==
  ASSUME jdb \in 0..NDB, JoinStep
  PROVE  jdb' \in 0..NDB /\ jscan' \in BOOLEAN
<1>1. CASE ~jscan
  BY <1>1 DEF JoinStep
<1>2. CASE jscan
  <2>1. jdb < NDB /\ jdb' = jdb + 1 /\ jscan' = FALSE
    BY <1>2 DEF JoinStep
  <2>2. NDB \in Nat
    BY LockOrderAssumption
  <2>3. jdb' \in 0..NDB
    BY <2>1, <2>2
  <2> QED
    BY <2>1, <2>3
<1> QED
  BY <1>1, <1>2

(* Every step keeps the types.                                             *)
LEMMA TypeStep ==
  ASSUME ListInv, [Next]_vars
  PROVE  TypeOK'
<1> USE DEF ListInv, vars, dataVars, lockVars, scanVars, coverVars, mainVars, bootVars, stopVars
<1>1. ASSUME NEW d \in DBs, ScanNoDirectory(d) PROVE TypeOK'
  BY <1>1 DEF ScanNoDirectory, TypeOK, ScanStates, ScanReturns, AfterScan
<1>2. ASSUME NEW d \in DBs, ScanLookup(d) PROVE TypeOK'
  BY <1>2 DEF ScanLookup, TypeOK, ScanStates, Drives, Listed
<1>3. ASSUME NEW d \in DBs, ScanEntry(d) PROVE TypeOK'
  <2>1. PICK p \in todo[d] :
          /\ todo' = [todo EXCEPT ![d] = @ \ {p}]
          /\ \/ verified' = [verified EXCEPT ![d] = @ \cup {p}] /\ UNCHANGED fresh
             \/ fresh' = [fresh EXCEPT ![d] = @ \cup {p}] /\ UNCHANGED verified
    BY <1>3 DEF ScanEntry
  <2>2. p \in Path
    BY DEF TypeOK
  <2>3. verified' \in [DBs -> SUBSET Path] /\ fresh' \in [DBs -> SUBSET Path]
        /\ todo' \in [DBs -> SUBSET Path]
    <3>1. /\ todo[d] \ {p} \in SUBSET Path
          /\ verified[d] \cup {p} \in SUBSET Path
          /\ fresh[d] \cup {p} \in SUBSET Path
      BY <2>2 DEF TypeOK
    <3>2. todo' \in [DBs -> SUBSET Path]
      BY <2>1, <3>1 DEF TypeOK
    <3>3. verified' \in [DBs -> SUBSET Path]
      BY <2>1, <3>1 DEF TypeOK
    <3>4. fresh' \in [DBs -> SUBSET Path]
      BY <2>1, <3>1 DEF TypeOK
    <3> QED
      BY <3>2, <3>3, <3>4
  <2> QED
    BY <1>3, <2>3 DEF ScanEntry, TypeOK
<1>4. ASSUME NEW d \in DBs, ScanInterrupted(d) PROVE TypeOK'
  BY <1>4 DEF ScanInterrupted, TypeOK, ScanStates, ScanReturns, AfterScan
<1>5. ASSUME NEW d \in DBs, ScanRead(d) PROVE TypeOK'
  BY <1>5 DEF ScanRead, TypeOK, ScanStates
<1>6. ASSUME NEW d \in DBs, ScanLock(d) PROVE TypeOK'
  BY <1>6 DEF ScanLock, TypeOK, ScanStates
<1>7. ASSUME NEW d \in DBs, ScanUpdateGames(d) PROVE TypeOK'
  BY <1>7, GamesType DEF ScanUpdateGames, TypeOK, ScanStates
<1>8. ASSUME NEW d \in DBs, ScanSave(d) PROVE TypeOK'
  <2>1. cache' \in [DBs -> [Path -> Line \cup {Absent}]] /\ unsaved' \subseteq Unwritable
    BY <1>8, WriteCacheLeaves DEF ScanSave
  <2> QED
    BY <1>8, <2>1 DEF ScanSave, TypeOK, ScanStates, ScanReturns, AfterScan
<1>9. ASSUME NEW d \in DBs, ScanSpawnCovers(d) PROVE TypeOK'
  BY <1>9 DEF ScanSpawnCovers, TypeOK, ScanStates, CoversStates
<1>10. ASSUME NEW d \in DBs, ScanSignal(d) PROVE TypeOK'
  BY <1>10 DEF ScanSignal, TypeOK, ScanStates
<1>11. ASSUME NEW d \in DBs, CoversInterrupted(d) PROVE TypeOK'
  BY <1>11 DEF CoversInterrupted, TypeOK, CoversStates
<1>12. ASSUME NEW d \in DBs, CoversListed(d) PROVE TypeOK'
  BY <1>12 DEF CoversListed, TypeOK, CoversStates
<1>13. ASSUME NEW d \in DBs, CoversCopy(d) PROVE TypeOK'
  BY <1>13 DEF CoversCopy, TypeOK, CoversStates, Listed
<1>14. ASSUME NEW d \in DBs, CoversLock(d) PROVE TypeOK'
  BY <1>14 DEF CoversLock, TypeOK, CoversStates
<1>15. ASSUME NEW d \in DBs, CoversAssign(d) PROVE TypeOK'
  <2>1. games' \in [DBs -> [Path -> Entry \cup {Absent}]]
    BY <1>15, GamesType
  <2>2. live' \subseteq Objs /\ coverMap' \in [DBs -> SUBSET Path]
    BY <1>15 DEF CoversAssign, TypeOK
  <2> QED
    BY <1>15, <2>1, <2>2 DEF CoversAssign, TypeOK
<1>16. ASSUME NEW d \in DBs, CoversSave(d) PROVE TypeOK'
  <2>1. cache' \in [DBs -> [Path -> Line \cup {Absent}]] /\ unsaved' \subseteq Unwritable
    BY <1>16, WriteCacheLeaves DEF CoversSave
  <2> QED
    BY <1>16, <2>1 DEF CoversSave, TypeOK, CoversStates
<1>17. ASSUME NEW d \in DBs, MainStartDB(d) PROVE TypeOK'
  <2>1. games' \in [DBs -> [Path -> Entry \cup {Absent}]]
    BY <1>17, GamesType
  <2>2. spc' \in [DBs -> ScanStates]
    BY <1>17 DEF MainStartDB, TypeOK, ScanStates
  <2> QED
    BY <1>17, <2>1, <2>2 DEF MainStartDB, TypeOK
<1>18. CASE ScanUpdateHomebrews
  BY <1>18, HomebrewsType DEF ScanUpdateHomebrews, TypeOK, ScanStates, DBs
<1>19. CASE MainStarted
  BY <1>19 DEF MainStarted, TypeOK, MainStates
<1>20. CASE MainLock
  BY <1>20, LockOrderAssumption DEF MainLock, TypeOK, MainStates
<1>21. CASE MainLocked
  BY <1>21 DEF MainLocked, TypeOK, MainStates
<1>22. CASE MainTheme
  BY <1>22 DEF MainTheme, TypeOK, MainStates, Listed
<1>23. CASE MainHandle
  <2>1. trigger' \in [DBs -> BOOLEAN]
    BY <1>23 DEF MainHandle, TypeOK
  <2>2. view' \in [DBs -> SUBSET Path]
    <3>1. view' = view \/ (active \in DBs /\ view' = [view EXCEPT ![active] = Listed(active)])
      BY <1>23 DEF MainHandle
    <3>2. active \in DBs => Listed(active) \in SUBSET Path
      BY DEF Listed
    <3> QED
      BY <3>1, <3>2 DEF TypeOK
  <2>3. active' \in DBs \cup {"none", "boot"}
    BY <1>23 DEF MainHandle, TypeOK
  <2> QED
    BY <1>23, <2>1, <2>2, <2>3 DEF MainHandle, TypeOK, MainStates
<1>24. CASE MainDrawDone
  BY <1>24 DEF MainDrawDone, TypeOK, MainStates
<1>25. CASE MainUnlock
  <2>1. mutex' \in [DBs -> {"free", "main", "scan", "covers"}]
        /\ owner' \in {"none", "main"} /\ nlocked' \in 0..NDB
    BY <1>25, LockOrderAssumption DEF MainUnlock, Unlocked
  <2> QED
    BY <1>25, <2>1 DEF MainUnlock, TypeOK, MainStates
<1>26. CASE MainPresent
  BY <1>26 DEF MainPresent, TypeOK, MainStates, BootStates
<1>27. CASE MainNextFrame
  BY <1>27 DEF MainNextFrame, TypeOK, MainStates
<1>28. CASE MainPowerOff
  BY <1>28 DEF MainPowerOff, TypeOK, MainStates
<1>29. CASE MainLeave
  BY <1>29 DEF MainLeave, TypeOK, MainStates
<1>30. CASE MainBootVerbose
  BY <1>30 DEF MainBootVerbose, TypeOK, MainStates, BootStates
<1>31. CASE MainBootAnimated
  BY <1>31 DEF MainBootAnimated, TypeOK, MainStates, BootStates
<1>32. CASE BootLog
  BY <1>32 DEF BootLog, TypeOK, BootStates, MainStates
<1>33. CASE BootSleep
  BY <1>33 DEF BootSleep, TypeOK, BootStates
<1>34. CASE BootQuiet
  BY <1>34 DEF BootQuiet, TypeOK, BootStates
<1>35. CASE BootUnmountFAT
  BY <1>35 DEF BootUnmountFAT, TypeOK, BootStates
<1>36. CASE BootLaunch
  BY <1>36 DEF BootLaunch, TypeOK, BootStates
<1>37. CASE BootFail \/ BootSpins
  BY <1>37 DEF BootFail, BootSpins, TypeOK, BootStates
<1>38. CASE MainStop
  <2>1. mutex' \in [DBs -> {"free", "main", "scan", "covers"}]
        /\ owner' \in {"none", "main"} /\ nlocked' \in 0..NDB
    BY <1>38, LockOrderAssumption DEF MainStop, StopBegin, Unlocked, TypeOK, lockVars
  <2>2. mpc' \in MainStates /\ stopping' \in BOOLEAN
    BY <1>38 DEF MainStop, TypeOK, MainStates
  <2> QED
    BY <1>38, <2>1, <2>2 DEF MainStop, TypeOK
<1>39. CASE MainJoin
  <2>1. jdb' \in 0..NDB /\ jscan' \in BOOLEAN
    BY <1>39, JoinStepType DEF MainJoin, TypeOK
  <2>2. mpc' \in MainStates
    BY <1>39 DEF MainJoin, TypeOK, MainStates
  <2> QED
    BY <1>39, <2>1, <2>2 DEF MainJoin, TypeOK
<1>40. CASE MainUnmount
  BY <1>40 DEF MainUnmount, TypeOK, MainStates
<1>41. CASE BootStop
  <2>1. mutex' \in [DBs -> {"free", "main", "scan", "covers"}]
        /\ owner' \in {"none", "main"} /\ nlocked' \in 0..NDB
    BY <1>41, LockOrderAssumption DEF BootStop, StopBegin, Unlocked, TypeOK, lockVars
  <2>2. bpc' \in BootStates /\ stopping' \in BOOLEAN
    BY <1>41 DEF BootStop, TypeOK, BootStates
  <2> QED
    BY <1>41, <2>1, <2>2 DEF BootStop, TypeOK
<1>42. CASE BootJoin
  <2>1. jdb' \in 0..NDB /\ jscan' \in BOOLEAN
    BY <1>42, JoinStepType DEF BootJoin, TypeOK
  <2>2. bpc' \in BootStates
    BY <1>42 DEF BootJoin, TypeOK, BootStates
  <2> QED
    BY <1>42, <2>1, <2>2 DEF BootJoin, TypeOK
<1>43. CASE BootUnmount
  BY <1>43 DEF BootUnmount, TypeOK, BootStates
<1>44. ASSUME NEW p \in Path, NEW onScreen \in BOOLEAN, DrawCover(p, onScreen) PROVE TypeOK'
  BY <1>44, DrawType DEF DrawCover, TypeOK
<1>45. CASE UNCHANGED vars
  BY <1>45 DEF TypeOK
<1> QED
  BY <1>1, <1>2, <1>3, <1>4, <1>5, <1>6, <1>7, <1>8, <1>9, <1>10, <1>11,
     <1>12, <1>13, <1>14, <1>15, <1>16, <1>17, <1>18, <1>19, <1>20,
     <1>21, <1>22, <1>23, <1>24, <1>25, <1>26, <1>27, <1>28, <1>29,
     <1>30, <1>31, <1>32, <1>33, <1>34, <1>35, <1>36, <1>37, <1>38,
     <1>39, <1>40, <1>41, <1>42, <1>43, <1>44, <1>45
  DEF Next, Scan, LoadCovers, MainFrame, MainExit, MainShutdown, Draw,
      BootWork, BootProceed, BootShutdown

(* The steps of the main and boot threads that change no list, no image    *)
(* and nothing of the other threads.                                       *)
Control ==
  \/ MainStarted \/ MainLock \/ MainLocked \/ MainTheme \/ MainHandle \/ MainDrawDone
  \/ MainUnlock \/ MainPresent \/ MainNextFrame
  \/ MainExit \/ MainShutdown
  \/ BootWork \/ BootProceed \/ BootFail \/ BootSpins \/ BootShutdown

threadVars ==
  <<drive, cache, unsaved, games, live, spc, cpc, todo, verified, fresh, lookup, coverMap>>

(* A step is one of a scan or covers thread, a draw, or a step of control. *)
LEMMA NextSplit ==
  ASSUME [Next]_vars
  PROVE  \/ \E d \in DBs : Scan(d) \/ LoadCovers(d) \/ MainStartDB(d)
         \/ Draw
         \/ Control
         \/ UNCHANGED vars
BY DEF Next, MainFrame, Control

(* A step of control changes none of threadVars.                           *)
LEMMA ControlFrame ==
  ASSUME Control
  PROVE  UNCHANGED threadVars
<1> USE DEF threadVars, dataVars, scanVars, coverVars
<1>1. CASE MainStarted \/ MainLock \/ MainLocked \/ MainTheme \/ MainHandle
  BY <1>1 DEF MainStarted, MainLock, MainLocked, MainTheme, MainHandle
<1>2. CASE MainDrawDone \/ MainUnlock \/ MainPresent \/ MainNextFrame
  BY <1>2 DEF MainDrawDone, MainUnlock, MainPresent, MainNextFrame
<1>3. CASE MainExit
  BY <1>3 DEF MainExit, MainPowerOff, MainLeave, MainBootVerbose, MainBootAnimated
<1>4. CASE MainShutdown
  BY <1>4 DEF MainShutdown, MainStop, MainJoin, MainUnmount
<1>5. CASE BootWork \/ BootProceed \/ BootFail \/ BootSpins
  BY <1>5 DEF BootWork, BootLog, BootSleep, BootQuiet, BootProceed, BootUnmountFAT,
              BootLaunch, BootFail, BootSpins
<1>6. CASE BootShutdown
  BY <1>6 DEF BootShutdown, BootStop, BootJoin, BootUnmount
<1> QED
  BY <1>1, <1>2, <1>3, <1>4, <1>5, <1>6 DEF Control

(* Every step keeps CoversInv.                                             *)
LEMMA CoversStep ==
  ASSUME ListInv, [Next]_vars
  PROVE  CoversInv'
<1> USE DEF CoversInv, dataVars, scanVars, coverVars
<1>1. CASE UNCHANGED <<games, spc, cpc, coverMap>>
  BY <1>1 DEF ListInv, Listed
<1>2. ASSUME NEW d \in DBs, Scan(d), UNCHANGED <<games, cpc, coverMap>>
      PROVE  CoversInv'
  <2>1. cpc[d] = "none" \/ spc'[d] \in {"signal", "done"}
    BY <1>2, LockOrderAssumption
       DEF ListInv, Scan, ScanNoDirectory, ScanLookup, ScanEntry, ScanInterrupted, ScanRead,
           ScanLock, ScanUpdateGames, ScanUpdateHomebrews, ScanSave, ScanSpawnCovers,
           ScanSignal, ScanReturns, AfterScan, TypeOK
  <2>2. \A e \in DBs : e # d => spc'[e] = spc[e]
    BY <1>2
       DEF ListInv, Scan, ScanNoDirectory, ScanLookup, ScanEntry, ScanInterrupted, ScanRead,
           ScanLock, ScanUpdateGames, ScanUpdateHomebrews, ScanSave, ScanSpawnCovers,
           ScanSignal, ScanReturns, AfterScan, TypeOK
  <2> QED
    BY <1>2, <2>1, <2>2 DEF ListInv, Listed
<1>3. ASSUME NEW d \in DBs, ScanUpdateGames(d) PROVE CoversInv'
  BY <1>3 DEF ListInv, TypeOK, ScanUpdateGames, Listed
<1>4. ASSUME ScanUpdateHomebrews PROVE CoversInv'
  BY <1>4 DEF ListInv, TypeOK, ScanUpdateHomebrews, Listed, DBs
<1>5. ASSUME NEW d \in DBs, ScanSpawnCovers(d) PROVE CoversInv'
  BY <1>5 DEF ListInv, TypeOK, ScanSpawnCovers, Listed
<1>6. ASSUME NEW d \in DBs, MainStartDB(d) PROVE CoversInv'
  BY <1>6 DEF ListInv, TypeOK, MainStartDB, Listed
<1>7. ASSUME NEW d \in DBs,
             CoversInterrupted(d) \/ CoversListed(d) \/ CoversLock(d) \/ CoversSave(d)
      PROVE  CoversInv'
  BY <1>7 DEF ListInv, TypeOK, CoversInterrupted, CoversListed, CoversLock, CoversSave, Listed
<1>8. ASSUME NEW d \in DBs, CoversCopy(d) PROVE CoversInv'
  BY <1>8 DEF ListInv, TypeOK, CoversCopy, Listed
<1>9. ASSUME NEW d \in DBs, CoversAssign(d) PROVE CoversInv'
  <2>1. PICK p \in coverMap[d] :
          /\ coverMap' = [coverMap EXCEPT ![d] = @ \ {p}]
          /\ games' = [games EXCEPT ![d][p] = [ver |-> games[d][p].ver,
                                               cover |-> ResolveCover(d, p),
                                               image |-> "null"]]
    BY <1>9 DEF CoversAssign
  <2>2. \A e \in DBs : Listed(e) \subseteq Listed(e)'
    <3>1. p \in Path /\ games[d][p] \in Entry
      BY <1>9 DEF CoversAssign, ListInv, TypeOK, Listed
    <3>2. [ver |-> games[d][p].ver, cover |-> ResolveCover(d, p), image |-> "null"] \in Entry
      BY <3>1, CoverTypes DEF Entry, Images
    <3> QED
      BY <2>1, <3>1, <3>2, AbsentAssumption DEF ListInv, TypeOK, Listed
  <2>3. UNCHANGED <<spc, cpc>>
    BY <1>9 DEF CoversAssign
  <2> QED
    BY <2>1, <2>2, <2>3 DEF ListInv, TypeOK
<1>10. ASSUME Draw PROVE CoversInv'
  <2>1. \A d \in DBs : Listed(d)' = Listed(d)
    BY <1>10, DrawType DEF Draw
  <2>2. UNCHANGED <<spc, cpc, coverMap>>
    BY <1>10 DEF Draw, DrawCover
  <2> QED
    BY <2>1, <2>2 DEF ListInv
<1>11. ASSUME Control PROVE CoversInv'
  BY <1>1, <1>11, ControlFrame DEF threadVars
<1>12. ASSUME NEW d \in DBs, Scan(d) PROVE CoversInv'
  <2>1. \/ UNCHANGED <<games, cpc, coverMap>>
        \/ ScanUpdateGames(d) \/ ScanUpdateHomebrews \/ ScanSpawnCovers(d)
    BY <1>12
       DEF Scan, ScanNoDirectory, ScanLookup, ScanEntry, ScanInterrupted, ScanRead,
           ScanLock, ScanSave, ScanSignal
  <2> QED
    BY <1>2, <1>3, <1>4, <1>5, <1>12, <2>1
<1>13. ASSUME UNCHANGED vars PROVE CoversInv'
  BY <1>1, <1>13 DEF vars
<1> QED
  BY <1>6, <1>7, <1>8, <1>9, <1>10, <1>11, <1>12, <1>13, NextSplit DEF LoadCovers

(* The types and the order of a database's two threads, in every reachable *)
(* state (titles.cpp 208-216, 242-248).                                    *)
THEOREM ListInvariant == Spec => []ListInv
<1>1. Init => ListInv
  <2> SUFFICES ASSUME Init PROVE ListInv
    OBVIOUS
  <2>1. TypeOK
    <3>1. nlocked \in 0..NDB /\ jdb \in 0..NDB
      BY LockOrderAssumption DEF Init
    <3>2. cache \in [DBs -> [Path -> Line \cup {Absent}]]
      BY DEF Init
    <3>3. games \in [DBs -> [Path -> Entry \cup {Absent}]]
      BY DEF Init
    <3>4. trigger \in [DBs -> BOOLEAN] /\ stopping \in BOOLEAN /\ mounted \in BOOLEAN
          /\ jscan \in BOOLEAN
      BY DEF Init
    <3>5. drive \in Drives /\ live \subseteq Objs /\ gpu \subseteq Objs
      BY DEF Init, Objs
    <3> QED
      BY <3>1, <3>2, <3>3, <3>4, <3>5
         DEF Init, TypeOK, MainStates, BootStates, ScanStates, CoversStates
  <2> QED
    BY <2>1 DEF Init, ListInv, CoversInv
<1>2. ListInv /\ [Next]_vars => ListInv'
  BY TypeStep, CoversStep DEF ListInv
<1> QED
  BY <1>1, <1>2, PTL DEF Spec

(* Every variable keeps its type.                                          *)
THEOREM TypeCorrect == Spec => []TypeOK
<1>1. ListInv => TypeOK
  BY DEF ListInv
<1> QED
  BY <1>1, ListInvariant, PTL

-----------------------------------------------------------------------------
(* The mutexes.                                                            *)

(* The last two parts of LockInv for each database.                        *)
LEMMA AllLocked ==
  ASSUME LockInv, nlocked = NDB, NEW d \in DBs
  PROVE  mutex[d] = "main" /\ spc[d] \notin {"update", "save"} /\ cpc[d] # "assign"
<1>1. PICK i \in 1..NDB : LockOrder[i] = d
  BY LockOrderAssumption
<1>2. i <= nlocked
  BY <1>1, LockOrderAssumption
<1> QED
  BY <1>1, <1>2 DEF LockInv

(* Every step keeps LockInv.                                               *)
LEMMA LockStep ==
  ASSUME ListInv, LockInv, [Next]_vars
  PROVE  LockInv'
<1> USE DEF dataVars, lockVars, scanVars, coverVars, mainVars
<1>1. /\ mutex \in [DBs -> {"free", "main", "scan", "covers"}]
      /\ spc \in [DBs -> ScanStates] /\ cpc \in [DBs -> CoversStates]
      /\ owner \in {"none", "main"} /\ nlocked \in 0..NDB
      /\ NDB \in Nat /\ LockOrder \in [1..NDB -> DBs]
  BY LockOrderAssumption DEF ListInv, TypeOK
<1>2. CASE UNCHANGED <<mutex, nlocked, owner, mpc, spc, cpc>>
  BY <1>2 DEF LockInv
<1>3. ASSUME NEW d \in DBs, Scan(d) PROVE LockInv'
  <2>1. CASE ScanLock(d)
    BY <1>1, <2>1 DEF ScanLock, LockInv
  <2>2. CASE ScanSave(d)
    BY <1>1, <2>2 DEF ScanSave, LockInv, ScanReturns, AfterScan
  <2>3. CASE ScanUpdateGames(d) \/ (d = HB /\ ScanUpdateHomebrews)
    BY <1>1, <2>3 DEF ScanUpdateGames, ScanUpdateHomebrews, LockInv
  <2>4. CASE ScanSpawnCovers(d)
    BY <1>1, <2>4 DEF ScanSpawnCovers, LockInv
  <2>5. CASE ScanNoDirectory(d) \/ ScanLookup(d) \/ ScanEntry(d) \/ ScanInterrupted(d)
             \/ ScanRead(d) \/ ScanSignal(d)
    <3>1. /\ UNCHANGED <<mutex, nlocked, owner, mpc, cpc>>
          /\ \A e \in DBs : spc'[e] \in {"update", "save"} => spc'[e] = spc[e]
      BY <1>1, <2>5 DEF ScanNoDirectory, ScanLookup, ScanEntry, ScanInterrupted, ScanRead,
                        ScanSignal, ScanReturns, AfterScan
    <3> QED
      BY <3>1 DEF LockInv
  <2> QED
    BY <1>3, <2>1, <2>2, <2>3, <2>4, <2>5 DEF Scan
<1>4. ASSUME NEW d \in DBs, LoadCovers(d) PROVE LockInv'
  <2>1. CASE CoversLock(d)
    BY <1>1, <2>1 DEF CoversLock, LockInv
  <2>2. CASE CoversSave(d)
    BY <1>1, <2>2 DEF CoversSave, LockInv
  <2>3. CASE CoversInterrupted(d) \/ CoversListed(d) \/ CoversCopy(d)
    BY <1>1, <2>3 DEF CoversInterrupted, CoversListed, CoversCopy, LockInv
  <2>4. CASE CoversAssign(d)
    BY <1>2, <2>4 DEF CoversAssign
  <2> QED
    BY <1>4, <2>1, <2>2, <2>3, <2>4 DEF LoadCovers
<1>5. ASSUME NEW d \in DBs, MainStartDB(d) PROVE LockInv'
  BY <1>1, <1>5 DEF MainStartDB, LockInv
<1>6. ASSUME Draw PROVE LockInv'
  BY <1>2, <1>6 DEF Draw, DrawCover
<1>7. ASSUME Control PROVE LockInv'
  <2>1. UNCHANGED <<spc, cpc>>
    BY <1>7, ControlFrame DEF threadVars
  <2>2. CASE MainLock
    <3>1. nlocked < NDB /\ nlocked' = nlocked + 1 /\ mpc = "lock"
      BY <2>2 DEF MainLock
    <3>2. nlocked + 1 \in 1..NDB
      BY <1>1, <3>1
    <3> DEFINE d == LockOrder[nlocked + 1]
    <3>3. d \in DBs /\ mutex[d] = "free" /\ mutex' = [mutex EXCEPT ![d] = "main"]
      BY <1>1, <2>2, <3>2 DEF MainLock
    <3> HIDE DEF d
    <3>4. UNCHANGED <<owner, mpc>>
      BY <2>2 DEF MainLock
    <3>5. \A i \in 1..NDB : i <= nlocked' => mutex'[LockOrder[i]] = "main"
      BY <1>1, <3>1, <3>3 DEF LockInv, d
    <3>6. \A e \in DBs : mutex'[e] = mutex[e] \/ (e = d /\ mutex[e] = "free")
      BY <1>1, <3>3
    <3>7. owner # "main"
      BY <1>1, <3>1 DEF LockInv
    <3> QED
      BY <2>1, <3>1, <3>4, <3>5, <3>6, <3>7 DEF LockInv
  <2>3. CASE MainUnlock \/ (MainStop /\ owner = "main")
    <3>1. nlocked = NDB
      BY <2>3 DEF MainUnlock, LockInv
    <3>2. UNCHANGED lockVars \/ Unlocked
      BY <2>3 DEF MainUnlock, MainStop, StopBegin
    <3>3. mpc' \notin {"theme", "handle", "draw", "unlock", "animation"}
      BY <2>3 DEF MainUnlock, MainStop
    <3>4. CASE UNCHANGED lockVars
      BY <2>1, <3>3, <3>4 DEF LockInv
    <3>5. CASE Unlocked
      <4>1. owner' = "none" /\ nlocked' = 0
        BY <3>5 DEF Unlocked
      <4>2. \A d \in DBs : spc[d] \notin {"update", "save"} /\ cpc[d] # "assign"
        BY <3>1, AllLocked
      <4>3. \A i \in 1..NDB : ~(i <= nlocked')
        BY <4>1
      <4> QED
        BY <2>1, <3>3, <4>1, <4>2, <4>3 DEF LockInv
    <3> QED
      BY <3>2, <3>4, <3>5
  <2>4. CASE MainLocked
    BY <2>1, <2>4 DEF MainLocked, LockInv
  <2>5. ASSUME UNCHANGED lockVars,
               mpc' \in {"theme", "handle", "draw", "unlock", "animation"}
                 => mpc \in {"theme", "handle", "draw", "unlock", "animation"}
        PROVE  LockInv'
    BY <2>1, <2>5 DEF LockInv
  <2>6. CASE MainStarted \/ MainTheme \/ MainHandle \/ MainDrawDone \/ MainPresent
             \/ MainNextFrame \/ MainExit
    BY <2>5, <2>6
       DEF MainStarted, MainTheme, MainHandle, MainDrawDone, MainPresent, MainNextFrame,
           MainExit, MainPowerOff, MainLeave, MainBootVerbose, MainBootAnimated
  <2>7. CASE (MainStop /\ owner # "main") \/ MainJoin \/ MainUnmount
    BY <2>5, <2>7 DEF MainStop, MainJoin, MainUnmount, StopBegin
  <2>8. CASE BootWork \/ BootProceed \/ BootFail \/ BootSpins
    BY <2>5, <2>8
       DEF BootWork, BootLog, BootSleep, BootQuiet, BootProceed, BootUnmountFAT, BootLaunch,
           BootFail, BootSpins
  <2>9. CASE BootShutdown
    <3>1. "boot" # owner
      BY <1>1
    <3> QED
      BY <2>5, <2>9, <3>1 DEF BootShutdown, BootStop, BootJoin, BootUnmount, StopBegin
  <2> QED
    BY <1>7, <2>2, <2>3, <2>4, <2>6, <2>7, <2>8, <2>9 DEF Control, MainShutdown
<1>8. ASSUME UNCHANGED vars PROVE LockInv'
  BY <1>2, <1>8 DEF vars
<1> QED
  BY <1>3, <1>4, <1>5, <1>6, <1>7, <1>8, NextSplit

(* Who holds the mutexes, in every reachable state (titles.cpp 312-328).   *)
THEOREM LockInvariant == Spec => []LockInv
<1>1. Init => LockInv
  BY LockOrderAssumption DEF Init, LockInv
<1>2. ListInv /\ LockInv /\ [Next]_vars => LockInv'
  BY LockStep
<1> QED
  BY <1>1, <1>2, ListInvariant, PTL DEF Spec

-----------------------------------------------------------------------------
(* The images.                                                             *)

(* No image is read by the GPU while a thread other than the main thread   *)
(* changes a list.                                                         *)
LEMMA GPUIdle ==
  ASSUME LockInv, ImageInv, NEW d \in DBs, spc[d] = "update" \/ cpc[d] = "assign"
  PROVE  gpu = {} /\ mpc # "draw"
BY AllLocked DEF ImageInv, LockInv

(* The GPU starts no read in a step of control.                            *)
LEMMA ControlGPU ==
  ASSUME Control
  PROVE  gpu' = {} \/ (gpu' = gpu /\ (mpc = "draw" => mpc' = "draw"))
<1> USE DEF dataVars, mainVars
<1>1. CASE MainStarted \/ MainLock \/ MainLocked \/ MainTheme \/ MainHandle \/ MainDrawDone
           \/ MainUnlock \/ MainPresent \/ MainNextFrame
  BY <1>1 DEF MainStarted, MainLock, MainLocked, MainTheme, MainHandle, MainDrawDone,
              MainUnlock, MainPresent, MainNextFrame
<1>2. CASE MainExit
  BY <1>2 DEF MainExit, MainPowerOff, MainLeave, MainBootVerbose, MainBootAnimated
<1>3. CASE MainShutdown
  BY <1>3 DEF MainShutdown, MainStop, MainJoin, MainUnmount
<1>4. CASE BootWork \/ BootProceed \/ BootFail \/ BootSpins
  BY <1>4 DEF BootWork, BootLog, BootSleep, BootQuiet, BootProceed, BootUnmountFAT,
              BootLaunch, BootFail, BootSpins
<1>5. CASE BootShutdown
  BY <1>5 DEF BootShutdown, BootStop, BootJoin, BootUnmount
<1> QED
  BY <1>1, <1>2, <1>3, <1>4, <1>5 DEF Control

(* Every step keeps ImageInv.                                              *)
LEMMA ImageStep ==
  ASSUME ListInv, LockInv, ImageInv, [Next]_vars
  PROVE  ImageInv'
<1> USE DEF dataVars, mainVars
<1>1. games \in [DBs -> [Path -> Entry \cup {Absent}]] /\ live \subseteq Objs /\ gpu \subseteq Objs
  BY DEF ListInv, TypeOK
<1>2. CASE UNCHANGED <<games, live, gpu, mpc>>
  BY <1>2 DEF ImageInv, ImagesAllocated, Listed
<1>3. ASSUME NEW d \in DBs, ScanUpdateGames(d) PROVE ImageInv'
  <2>1. UNCHANGED <<live, gpu, mpc>>
    BY <1>3 DEF ScanUpdateGames
  <2>2. ASSUME NEW e \in DBs, NEW p \in Path, games'[e][p] # games[e][p]
        PROVE  games'[e][p] = Absent \/ games'[e][p].image = "null"
    BY <1>1, <1>3, <2>2 DEF ScanUpdateGames, NewEntry
  <2> QED
    BY <2>1, <2>2 DEF ImageInv, ImagesAllocated, Listed
<1>4. ASSUME ScanUpdateHomebrews PROVE ImageInv'
  <2>1. HB \in DBs /\ spc[HB] = "update" /\ UNCHANGED <<gpu, mpc>>
    BY <1>4 DEF DBs, ScanUpdateHomebrews
  <2>2. gpu = {}
    BY <2>1, GPUIdle
  <2> DEFINE Deleted == {Obj(HB, p, games[HB][p].image) : p \in {q \in Path : IconToDelete(q)}}
  <2>3. live' = live \ Deleted
    BY <1>4 DEF ScanUpdateHomebrews
  <2>4. ASSUME NEW o \in Deleted
        PROVE  \E q \in Path : IconToDelete(q) /\ o = Obj(HB, q, games[HB][q].image)
                               /\ games[HB][q].image \in OwnImages
    BY DEF IconToDelete
  <2> HIDE DEF Deleted
  <2>5. Shared \notin Deleted
    BY <2>1, <2>4, SharedAssumption DEF Obj, OwnImages, Images
  <2>6. ASSUME NEW e \in DBs, NEW p \in Path, games[e][p] # Absent,
               games[e][p].image # "null", e # HB \/ KeptIcon(p)
        PROVE  Obj(e, p, games[e][p].image) \in live'
    <3>1. games[e][p].image \in Images
      BY <1>1, <2>6 DEF Entry
    <3>2. Obj(e, p, games[e][p].image) \notin Deleted
      <4> SUFFICES ASSUME Obj(e, p, games[e][p].image) \in Deleted PROVE FALSE
        OBVIOUS
      <4>1. PICK q \in Path : /\ IconToDelete(q)
                              /\ Obj(e, p, games[e][p].image) = Obj(HB, q, games[HB][q].image)
                              /\ games[HB][q].image \in OwnImages
        BY <2>4
      <4>2. HB = e /\ q = p
        BY <2>1, <3>1, <4>1, ObjDistinct DEF OwnImages, Images
      <4> QED
        BY <2>6, <4>1, <4>2 DEF IconToDelete
    <3> QED
      BY <2>3, <2>6, <3>2 DEF ImageInv, ImagesAllocated, Listed
  <2>7. ASSUME NEW e \in DBs, NEW p \in Path, games'[e][p] # Absent,
               games'[e][p].image # "null"
        PROVE  /\ games[e][p] # Absent /\ games'[e][p].image = games[e][p].image
               /\ e # HB \/ KeptIcon(p)
    <3>1. CASE e # HB
      BY <1>1, <1>4, <2>1, <2>7, <3>1 DEF ScanUpdateHomebrews
    <3>2. CASE e = HB
      <4>1. games'[HB][p] = IF p \notin fresh[HB] \cup verified[HB] THEN Absent
                            ELSE IF KeptIcon(p)
                                 THEN [NewEntry(HB, p) EXCEPT !.image = games[HB][p].image]
                                 ELSE NewEntry(HB, p)
        BY <1>1, <1>4, <2>1 DEF ScanUpdateHomebrews
      <4> QED
        BY <2>7, <3>2, <4>1 DEF NewEntry, KeptIcon
    <3> QED
      BY <3>1, <3>2
  <2> QED
    BY <2>1, <2>2, <2>3, <2>5, <2>6, <2>7 DEF ImageInv, ImagesAllocated, Listed
<1>5. ASSUME NEW d \in DBs, CoversAssign(d) PROVE ImageInv'
  <2>1. cpc[d] = "assign" /\ UNCHANGED <<gpu, mpc>>
    BY <1>5 DEF CoversAssign
  <2>2. gpu = {}
    BY <2>1, GPUIdle
  <2>3. PICK p \in coverMap[d] :
          /\ games' = [games EXCEPT ![d][p] = [ver |-> games[d][p].ver,
                                               cover |-> ResolveCover(d, p),
                                               image |-> "null"]]
          /\ live' = IF games[d][p].image = "shared" THEN live
                     ELSE live \ {Obj(d, p, games[d][p].image)}
    BY <1>5 DEF CoversAssign
  <2>4. p \in Path /\ games[d][p] \in Entry
    BY <2>1 DEF ListInv, TypeOK, CoversInv, Listed
  <2>5. games[d][p].image \in Images
    BY <2>4 DEF Entry
  <2>6. ASSUME NEW e \in DBs, NEW q \in Path, games'[e][q] # Absent,
               games'[e][q].image # "null"
        PROVE  games'[e][q] = games[e][q] /\ (e # d \/ q # p)
    BY <1>1, <2>3, <2>4, <2>6
  <2>7. ASSUME NEW e \in DBs, NEW q \in Path, games[e][q] # Absent,
               games[e][q].image # "null", e # d \/ q # p
        PROVE  Obj(e, q, games[e][q].image) \in live'
    <3>1. games[e][q].image \in Images
      BY <1>1, <2>7 DEF Entry
    <3>2. Obj(e, q, games[e][q].image) \in live
      BY <2>7 DEF ImageInv, ImagesAllocated, Listed
    <3>3. games[d][p].image # "shared"
            => Obj(e, q, games[e][q].image) # Obj(d, p, games[d][p].image)
      BY <2>4, <2>5, <2>7, <3>1, ObjDistinct
    <3> QED
      BY <2>3, <3>2, <3>3
  <2>8. Shared \in live'
    <3>1. games[d][p].image # "shared" => Obj(d, p, games[d][p].image) # Shared
      BY <2>4, <2>5, SharedAssumption DEF Obj
    <3> QED
      BY <2>3, <3>1 DEF ImageInv
  <2> QED
    BY <2>1, <2>2, <2>6, <2>7, <2>8 DEF ImageInv, ImagesAllocated, Listed
<1>6. ASSUME NEW d \in DBs, MainStartDB(d) PROVE ImageInv'
  <2>1. UNCHANGED <<live, gpu, mpc>>
    BY <1>6 DEF MainStartDB
  <2>2. ASSUME NEW e \in DBs, NEW p \in Path, games'[e][p] # games[e][p]
        PROVE  games'[e][p] = Absent \/ games'[e][p].image = "null"
    BY <1>1, <1>6, <2>2 DEF MainStartDB, ReadCache
  <2> QED
    BY <2>1, <2>2 DEF ImageInv, ImagesAllocated, Listed
<1>7. ASSUME NEW p \in Path, NEW onScreen \in BOOLEAN, DrawCover(p, onScreen) PROVE ImageInv'
  <2> DEFINE d == active
             old == games[d][p].image
             new == IF ~onScreen THEN "null"
                    ELSE IF old # "null" THEN old
                    ELSE IF games[d][p].cover = "none" THEN "shared"
                    ELSE games[d][p].cover
  <2>1. /\ d \in DBs /\ games[d][p] \in Entry /\ mpc = "draw" /\ mpc' = "draw"
        /\ old \in OwnImages => Obj(d, p, old) \notin gpu
        /\ games' = [games EXCEPT ![d][p].image = new]
        /\ live' = IF new # "null" THEN live \cup {Obj(d, p, new)}
                   ELSE IF old = "shared" THEN live ELSE live \ {Obj(d, p, old)}
        /\ gpu' = IF new # "null" THEN gpu \cup {Obj(d, p, new)} ELSE gpu
    BY <1>1, <1>7 DEF DrawCover, Listed
  <2>2. old \in Images /\ new \in Images
    BY <2>1 DEF Entry, Images, OwnImages, Covers
  <2>3. \A e \in DBs : \A q \in Path : e # d \/ q # p => games'[e][q] = games[e][q]
    BY <1>1, <2>1
  <2>4. games'[d][p].image = new /\ games'[d][p] # Absent /\ games[d][p] # Absent
    <3>1. games' = [games EXCEPT ![d] =
                      [games[d] EXCEPT ![p] = [games[d][p] EXCEPT !.image = new]]]
      BY <2>1
    <3>2. games'[d][p] = [games[d][p] EXCEPT !.image = new]
      BY <1>1, <2>1, <3>1
    <3>3. [games[d][p] EXCEPT !.image = new] \in Entry
      BY <2>1, <2>2 DEF Entry
    <3> QED
      BY <2>1, <3>2, <3>3, AbsentAssumption DEF Entry
  <2> HIDE DEF old, new, d
  <2>5. CASE new # "null"
    <3>1. live \subseteq live' /\ Obj(d, p, new) \in live'
      BY <2>1, <2>5
    <3> QED
      BY <2>1, <2>3, <2>4, <2>5, <3>1 DEF ImageInv, ImagesAllocated, Listed
  <2>6. CASE new = "null"
    <3>1. Obj(d, p, old) \notin gpu \/ old = "shared"
      <4>1. CASE old = "null"
        <5>1. Obj(d, p, old) \notin Objs
          BY <2>1, <4>1, SharedAssumption DEF Obj, Objs, OwnImages, Images
        <5> QED
          BY <1>1, <5>1
      <4> QED
        BY <2>1, <2>2, <4>1 DEF Images
    <3>2. Shared \in live'
      <4>1. old # "shared" => Obj(d, p, old) # Shared
        BY <2>1, <2>2, SharedAssumption DEF Obj
      <4> QED
        BY <2>1, <2>6, <4>1 DEF ImageInv
    <3>3. ASSUME NEW e \in DBs, NEW q \in Path, games[e][q] # Absent,
                 games[e][q].image # "null", e # d \/ q # p
          PROVE  Obj(e, q, games[e][q].image) \in live'
      <4>1. games[e][q].image \in Images
        BY <1>1, <3>3 DEF Entry
      <4>2. Obj(e, q, games[e][q].image) \in live
        BY <3>3 DEF ImageInv, ImagesAllocated, Listed
      <4>3. old # "shared" => Obj(e, q, games[e][q].image) # Obj(d, p, old)
        BY <2>1, <2>2, <3>3, <4>1, ObjDistinct
      <4> QED
        BY <2>1, <2>6, <4>2, <4>3
    <3>4. gpu' \subseteq live'
      BY <2>1, <2>6, <3>1 DEF ImageInv, ImagesAllocated
    <3> QED
      BY <2>1, <2>3, <2>4, <2>6, <3>2, <3>3, <3>4 DEF ImageInv, ImagesAllocated, Listed
  <2> QED
    BY <2>5, <2>6
<1>8. ASSUME NEW d \in DBs, Scan(d) \/ LoadCovers(d) PROVE ImageInv'
  <2>1. \/ UNCHANGED <<games, live, gpu, mpc>>
        \/ ScanUpdateGames(d) \/ ScanUpdateHomebrews \/ CoversAssign(d)
    BY <1>8
       DEF Scan, ScanNoDirectory, ScanLookup, ScanEntry, ScanInterrupted, ScanRead, ScanLock,
           ScanSave, ScanSpawnCovers, ScanSignal, LoadCovers, CoversInterrupted,
           CoversListed, CoversCopy, CoversLock, CoversSave
  <2> QED
    BY <1>2, <1>3, <1>4, <1>5, <2>1
<1>9. ASSUME Control PROVE ImageInv'
  <2>1. UNCHANGED <<games, live>>
    BY <1>9, ControlFrame DEF threadVars
  <2>2. gpu' = {} \/ (gpu' = gpu /\ (mpc = "draw" => mpc' = "draw"))
    BY <1>9, ControlGPU
  <2> QED
    BY <2>1, <2>2 DEF ImageInv, ImagesAllocated, Listed
<1>10. ASSUME UNCHANGED vars PROVE ImageInv'
  BY <1>2, <1>10 DEF vars
<1> QED
  BY <1>6, <1>7, <1>8, <1>9, <1>10, NextSplit DEF Draw

(* No image is drawn, or pointed to by an entry, after it was deleted: the *)
(* scan and covers threads delete images under the mutex that the main     *)
(* thread holds until the GPU is done (main.cpp 385-394).                  *)
THEOREM ImagesStayAllocated == Spec => []ImagesAllocated
<1>1. Init => ImageInv
  BY DEF Init, ImageInv, ImagesAllocated, Listed
<1>2. ListInv /\ LockInv /\ ImageInv /\ [Next]_vars => ImageInv'
  BY ImageStep
<1>3. ImageInv => ImagesAllocated
  BY DEF ImageInv
<1> QED
  BY <1>1, <1>2, <1>3, ListInvariant, LockInvariant, PTL DEF Spec

-----------------------------------------------------------------------------
(* The end of the threads and of the file system.                          *)

(* The steps of the scan and covers threads and the draws leave the main   *)
(* thread's place, the boot thread and the joins alone.                    *)
LEMMA ThreadFrame ==
  ASSUME (\E d \in DBs : Scan(d) \/ LoadCovers(d) \/ MainStartDB(d)) \/ Draw
  PROVE  UNCHANGED <<mpc, bpc, stopping, jdb, jscan, mounted>>
<1> USE DEF mainVars, bootVars, stopVars
<1>1. ASSUME NEW d \in DBs, Scan(d)
      PROVE  UNCHANGED <<mpc, bpc, stopping, jdb, jscan, mounted>>
  BY <1>1
     DEF Scan, ScanNoDirectory, ScanLookup, ScanEntry, ScanInterrupted, ScanRead, ScanLock,
         ScanUpdateGames, ScanUpdateHomebrews, ScanSave, ScanSpawnCovers, ScanSignal
<1>2. ASSUME NEW d \in DBs, LoadCovers(d)
      PROVE  UNCHANGED <<mpc, bpc, stopping, jdb, jscan, mounted>>
  BY <1>2
     DEF LoadCovers, CoversInterrupted, CoversListed, CoversCopy, CoversLock, CoversAssign,
         CoversSave
<1> QED
  BY <1>1, <1>2 DEF MainStartDB, Draw, DrawCover

(* A frame that is shown wakes the boot thread, or is missed by it, and    *)
(* then the main thread sleeps; or it changes nothing of the boot thread.  *)
LEMMA PresentWakes ==
  ASSUME MainPresent
  PROVE  /\ mpc' = IF bpc = "none" THEN "top" ELSE "asleep"
         /\ \/ bpc' = bpc
            \/ bpc \in {"log", "wait", "missed"} /\ bpc' \in {"work", "missed"}
<1>1. CASE bpc \in {"wait", "missed"}
  BY <1>1 DEF MainPresent, Controlled
<1>2. CASE bpc = "log"
  BY <1>2 DEF MainPresent, Controlled
<1>3. CASE bpc \notin {"wait", "missed", "log"}
  BY <1>3 DEF MainPresent, Controlled
<1> QED
  BY <1>1, <1>2, <1>3

(* Every step keeps BootInv.                                               *)
LEMMA BootStep ==
  ASSUME ListInv, BootInv, [Next]_vars
  PROVE  BootInv'
<1> USE DEF BootInv, bootVars, mainVars
<1>1. bpc \in BootStates /\ mpc \in MainStates
  BY DEF ListInv, TypeOK
<1>2. CASE UNCHANGED <<mpc, bpc>>
  BY <1>2
<1>3. ASSUME Control PROVE BootInv'
  <2>1. CASE MainStarted \/ MainLock \/ MainLocked \/ MainTheme \/ MainHandle \/ MainDrawDone
             \/ MainUnlock
    BY <1>1, <2>1 DEF MainStarted, MainLock, MainLocked, MainTheme, MainHandle, MainDrawDone,
                      MainUnlock
  <2>2. CASE MainPresent
    BY <1>1, <2>2, PresentWakes DEF MainPresent
  <2>3. CASE MainNextFrame
    BY <1>1, <2>3 DEF MainNextFrame
  <2>4. CASE MainExit
    BY <1>1, <2>4 DEF MainExit, MainPowerOff, MainLeave, MainBootVerbose, MainBootAnimated
  <2>5. CASE MainShutdown
    BY <1>1, <2>5 DEF MainShutdown, MainStop, MainJoin, MainUnmount
  <2>6. CASE BootWork
    BY <1>1, <2>6 DEF BootWork, BootLog, BootSleep, BootQuiet
  <2>7. CASE BootProceed \/ BootFail \/ BootSpins
    BY <1>1, <2>7 DEF BootProceed, BootUnmountFAT, BootLaunch, BootFail, BootSpins
  <2>8. CASE BootShutdown
    BY <1>1, <2>8 DEF BootShutdown, BootStop, BootJoin, BootUnmount
  <2> QED
    BY <1>3, <2>1, <2>2, <2>3, <2>4, <2>5, <2>6, <2>7, <2>8 DEF Control
<1> QED
  BY <1>2, <1>3, NextSplit, ThreadFrame DEF vars

(* The main and boot threads take turns (hiidra.cpp 1132-1167, main.cpp 366). *)
THEOREM BootInvariant == Spec => []BootInv
<1>1. Init => BootInv
  BY DEF Init, BootInv
<1>2. ListInv /\ BootInv /\ [Next]_vars => BootInv'
  BY BootStep
<1> QED
  BY <1>1, <1>2, ListInvariant, PTL DEF Spec

(* A thread that has ended stays ended, and no scan thread disappears.     *)
LEMMA EndedStays ==
  ASSUME ListInv, [Next]_vars, NEW d \in DBs
  PROVE  /\ spc[d] = "done" => spc'[d] = "done"
         /\ spc[d] = "done" /\ CoversEnded(d) => CoversEnded(d)'
         /\ spc[d] # "none" => spc'[d] # "none"
<1> USE DEF coverVars, scanVars, CoversEnded
<1>1. spc \in [DBs -> ScanStates] /\ cpc \in [DBs -> CoversStates]
  BY DEF ListInv, TypeOK
<1>2. CASE UNCHANGED <<spc, cpc>>
  BY <1>2
<1>3. ASSUME NEW e \in DBs, Scan(e)
      PROVE  /\ spc[d] = "done" => spc'[d] = "done"
             /\ spc[d] = "done" /\ CoversEnded(d) => CoversEnded(d)'
             /\ spc[d] # "none" => spc'[d] # "none"
  BY <1>1, <1>3
     DEF Scan, ScanNoDirectory, ScanLookup, ScanEntry, ScanInterrupted, ScanRead, ScanLock,
         ScanUpdateGames, ScanUpdateHomebrews, ScanSave, ScanSpawnCovers, ScanSignal,
         ScanReturns, AfterScan
<1>4. ASSUME NEW e \in DBs, LoadCovers(e)
      PROVE  UNCHANGED spc /\ (CoversEnded(d) => CoversEnded(d)')
  BY <1>1, <1>4
     DEF LoadCovers, CoversInterrupted, CoversListed, CoversCopy, CoversLock, CoversAssign,
         CoversSave
<1>5. ASSUME NEW e \in DBs, MainStartDB(e)
      PROVE  /\ spc[d] = "done" => spc'[d] = "done"
             /\ spc[d] # "none" => spc'[d] # "none"
             /\ UNCHANGED cpc
  BY <1>1, <1>5 DEF MainStartDB
<1>6. ASSUME Draw PROVE UNCHANGED <<spc, cpc>>
  BY <1>6 DEF Draw, DrawCover
<1> QED
  BY <1>2, <1>3, <1>4, <1>5, <1>6, NextSplit, ControlFrame DEF vars, threadVars

(* The next thread to be joined, as long as not all have been.             *)
LEMMA JoinStepEnds ==
  ASSUME ListInv, JoinInv, JoinStep, UNCHANGED <<spc, cpc>>, mpc # "start"
  PROVE  /\ \A i \in 1..NDB : i <= jdb' => spc'[LockOrder[i]] = "done" /\ CoversEnded(LockOrder[i])'
         /\ jscan' /\ jdb' < NDB => spc'[LockOrder[jdb' + 1]] = "done"
<1>1. /\ jdb \in 0..NDB /\ NDB \in Nat /\ jdb < NDB
      /\ jdb + 1 \in 1..NDB /\ LockOrder \in [1..NDB -> DBs]
  BY LockOrderAssumption DEF ListInv, TypeOK, JoinStep
<1>2. LockOrder[jdb + 1] \in DBs
  BY <1>1
<1>3. /\ \A i \in 1..NDB : i <= jdb => spc[LockOrder[i]] = "done" /\ CoversEnded(LockOrder[i])
      /\ jscan => spc[LockOrder[jdb + 1]] = "done"
      /\ \A d \in DBs : spc[d] # "none"
  BY <1>1 DEF JoinInv
<1>4. CASE ~jscan
  <2>1. ScanEnded(LockOrder[jdb + 1]) /\ jdb' = jdb
    BY <1>4 DEF JoinStep
  <2>2. spc[LockOrder[jdb + 1]] = "done"
    BY <1>2, <1>3, <2>1 DEF ScanEnded
  <2> QED
    BY <1>3, <2>1, <2>2 DEF CoversEnded
<1>5. CASE jscan
  <2>1. CoversEnded(LockOrder[jdb + 1]) /\ jscan' = FALSE /\ jdb' = jdb + 1
    BY <1>5 DEF JoinStep
  <2>2. \A i \in 1..NDB : i <= jdb' => i <= jdb \/ i = jdb + 1
    BY <1>1, <2>1
  <2> QED
    BY <1>3, <1>5, <2>1, <2>2 DEF CoversEnded
<1> QED
  BY <1>4, <1>5

(* Every step keeps JoinInv.                                               *)
LEMMA JoinsStep ==
  ASSUME ListInv, BootInv, JoinInv, [Next]_vars
  PROVE  JoinInv'
<1>1. /\ bpc \in BootStates /\ mpc \in MainStates
      /\ jdb \in 0..NDB /\ jscan \in BOOLEAN /\ stopping \in BOOLEAN /\ mounted \in BOOLEAN
      /\ NDB \in Nat /\ LockOrder \in [1..NDB -> DBs]
  BY LockOrderAssumption DEF ListInv, TypeOK
<1>2. ASSUME UNCHANGED <<jdb, jscan>>
      PROVE  /\ \A i \in 1..NDB :
                  i <= jdb' => spc'[LockOrder[i]] = "done" /\ CoversEnded(LockOrder[i])'
             /\ jscan' /\ jdb' < NDB => spc'[LockOrder[jdb' + 1]] = "done"
  <2>1. \A i \in 1..NDB : LockOrder[i] \in DBs
    BY <1>1
  <2>2. jdb < NDB => jdb + 1 \in 1..NDB
    BY <1>1
  <2> QED
    BY <1>2, <2>1, <2>2, EndedStays DEF JoinInv
<1>3. mpc # "start" => \A d \in DBs : spc'[d] # "none"
  BY EndedStays DEF JoinInv
<1>4. CASE UNCHANGED <<mpc, bpc, stopping, jdb, jscan, mounted>>
  BY <1>2, <1>3, <1>4 DEF JoinInv
<1>5. ASSUME UNCHANGED <<bpc, stopping, jdb, jscan, mounted>>,
             mpc' \notin {"start", "unmount", "join"}, mpc \notin {"start", "join"}
      PROVE  JoinInv'
  BY <1>2, <1>3, <1>5 DEF JoinInv
<1>6. CASE MainStarted
  <2>1. /\ \A d \in DBs : spc'[d] # "none"
        /\ UNCHANGED <<bpc, stopping, jdb, jscan, mounted>>
        /\ mpc = "start" /\ mpc' = "lock"
    BY <1>6 DEF MainStarted, scanVars, bootVars, stopVars
  <2> QED
    BY <1>2, <2>1 DEF JoinInv
<1>7. CASE MainLock \/ MainLocked \/ MainTheme \/ MainHandle \/ MainDrawDone \/ MainUnlock
           \/ MainNextFrame \/ MainPowerOff \/ MainLeave
  BY <1>4, <1>5, <1>7
     DEF MainLock, MainLocked, MainTheme, MainHandle, MainDrawDone, MainUnlock,
         MainNextFrame, MainPowerOff, MainLeave, mainVars, bootVars, stopVars
<1>8. CASE MainBootVerbose \/ MainBootAnimated
  <2>1. /\ UNCHANGED <<stopping, jdb, jscan, mounted>>
        /\ mpc = "handle" /\ bpc = "none" /\ bpc' = "new" /\ mpc' \in {"draw", "animation"}
    BY <1>8 DEF MainBootVerbose, MainBootAnimated, stopVars
  <2> QED
    BY <1>2, <1>3, <2>1 DEF JoinInv
<1>9. ASSUME UNCHANGED <<stopping, jdb, jscan, mounted>>,
             mpc' = mpc \/ {mpc, mpc'} \cap {"start", "join", "unmount"} = {},
             bpc \notin {"none", "join", "unmount"}, bpc' \notin {"join", "unmount"}
      PROVE  JoinInv'
  BY <1>2, <1>3, <1>9 DEF JoinInv
<1>14. CASE MainPresent
  <2>1. UNCHANGED <<stopping, jdb, jscan, mounted>> /\ mpc = "present"
    BY <1>14 DEF MainPresent, stopVars
  <2> QED
    BY <1>5, <1>9, <1>14, <2>1, PresentWakes
<1>10. CASE BootWork \/ BootProceed \/ BootFail \/ BootSpins
  BY <1>9, <1>10
     DEF BootWork, BootLog, BootSleep, BootQuiet, BootProceed, BootUnmountFAT, BootLaunch,
         BootFail, BootSpins, mainVars, stopVars
<1>11. CASE MainShutdown
  <2>1. bpc \in {"none", "log", "wait"}
    BY <1>1, <1>11 DEF BootInv, MainShutdown, MainStop, MainJoin, MainUnmount
  <2>2. CASE MainStop
    <3>1. /\ UNCHANGED <<bpc, jdb, jscan, mounted>> /\ mpc = "stop"
          /\ IF stopping THEN mpc' = "unmount" /\ UNCHANGED stopping
                         ELSE mpc' = "join" /\ stopping' = TRUE
      BY <2>2 DEF MainStop, bootVars
    <3> QED
      BY <1>2, <1>3, <2>1, <3>1 DEF JoinInv
  <2>3. CASE MainJoin
    <3>1. /\ UNCHANGED <<bpc, stopping, mounted, spc, cpc>> /\ mpc = "join"
          /\ IF jdb < NDB THEN JoinStep /\ mpc' = mpc
                          ELSE mpc' = "unmount" /\ UNCHANGED <<jdb, jscan>>
      BY <2>3 DEF MainJoin, bootVars, scanVars, coverVars
    <3>2. CASE jdb < NDB
      <4>1. mounted
        BY <1>1, <3>2 DEF JoinInv
      <4> QED
        BY <1>3, <2>1, <3>1, <3>2, <4>1, JoinStepEnds DEF JoinInv
    <3>3. CASE ~(jdb < NDB)
      <4>1. jdb = NDB
        BY <1>1, <3>3
      <4> QED
        BY <1>2, <1>3, <2>1, <3>1, <3>3, <4>1 DEF JoinInv
    <3> QED
      BY <3>2, <3>3
  <2>4. CASE MainUnmount
    <3>1. UNCHANGED <<bpc, stopping, jdb, jscan>> /\ mpc = "unmount" /\ mpc' = "off"
      BY <2>4 DEF MainUnmount, bootVars
    <3> QED
      BY <1>2, <1>3, <2>1, <3>1 DEF JoinInv
  <2> QED
    BY <1>11, <2>2, <2>3, <2>4 DEF MainShutdown
<1>12. CASE BootShutdown
  <2>1. mpc \in {"asleep", "animation"}
    BY <1>12 DEF BootInv, BootShutdown, BootStop, BootJoin, BootUnmount
  <2>2. CASE BootStop
    <3>1. /\ UNCHANGED <<mpc, jdb, jscan, mounted>> /\ bpc = "stop"
          /\ IF stopping THEN bpc' = "unmount" /\ UNCHANGED stopping
                         ELSE bpc' = "join" /\ stopping' = TRUE
      BY <2>2 DEF BootStop, mainVars
    <3> QED
      BY <1>2, <1>3, <2>1, <3>1 DEF JoinInv
  <2>3. CASE BootJoin
    <3>1. /\ UNCHANGED <<mpc, stopping, mounted, spc, cpc>> /\ bpc = "join"
          /\ IF jdb < NDB THEN JoinStep /\ bpc' = bpc
                          ELSE bpc' = "unmount" /\ UNCHANGED <<jdb, jscan>>
      BY <2>3 DEF BootJoin, mainVars, scanVars, coverVars
    <3>2. CASE jdb < NDB
      <4>1. mounted
        BY <1>1, <3>2 DEF JoinInv
      <4> QED
        BY <1>3, <2>1, <3>1, <3>2, <4>1, JoinStepEnds DEF JoinInv
    <3>3. CASE ~(jdb < NDB)
      <4>1. jdb = NDB
        BY <1>1, <3>3
      <4> QED
        BY <1>2, <1>3, <2>1, <3>1, <3>3, <4>1 DEF JoinInv
    <3> QED
      BY <3>2, <3>3
  <2>4. CASE BootUnmount
    <3>1. UNCHANGED <<mpc, stopping, jdb, jscan>> /\ bpc = "unmount" /\ bpc' = "work"
      BY <2>4 DEF BootUnmount, mainVars
    <3> QED
      BY <1>2, <1>3, <2>1, <3>1 DEF JoinInv
  <2> QED
    BY <1>12, <2>2, <2>3, <2>4 DEF BootShutdown
<1>13. ASSUME Control PROVE JoinInv'
  BY <1>6, <1>7, <1>8, <1>10, <1>11, <1>12, <1>13, <1>14 DEF Control, MainExit
<1> QED
  BY <1>4, <1>13, NextSplit, ThreadFrame DEF vars, mainVars, bootVars, stopVars

(* What the joins established, in every reachable state (titles.cpp 293-310). *)
THEOREM JoinInvariant == Spec => []JoinInv
<1>1. Init => JoinInv
  BY LockOrderAssumption DEF Init, JoinInv
<1>2. ListInv /\ BootInv /\ JoinInv /\ [Next]_vars => JoinInv'
  BY JoinsStep
<1> QED
  BY <1>1, <1>2, ListInvariant, BootInvariant, PTL DEF Spec

(* Once everything is joined every thread has ended.                       *)
LEMMA AllJoined ==
  ASSUME JoinInv, ~mounted
  PROVE  UnmountedQuiet /\ \A d \in DBs : spc[d] = "done"
<1>1. jdb = NDB
  BY DEF JoinInv
<1>2. ASSUME NEW d \in DBs PROVE spc[d] = "done" /\ CoversEnded(d)
  <2>1. PICK i \in 1..NDB : LockOrder[i] = d
    BY LockOrderAssumption
  <2>2. i <= jdb
    BY <1>1, <2>1, LockOrderAssumption
  <2> QED
    BY <2>1, <2>2 DEF JoinInv
<1> QED
  BY <1>2 DEF UnmountedQuiet, ScanEnded

(* No scan or covers thread survives the file system, whoever unmounts it: *)
(* the main thread, the boot thread, or the main thread after the boot     *)
(* thread has begun (system.cpp 240-250, titles.cpp 293-310).              *)
THEOREM QuietAfterUnmount == Spec => []UnmountedQuiet
<1>1. JoinInv => UnmountedQuiet
  BY AllJoined DEF UnmountedQuiet
<1> QED
  BY <1>1, JoinInvariant, PTL

(* Every write of a cache file happens on a mounted file system and under  *)
(* the mutex of its list (titles.cpp 197, 287, hb.cpp 224).                *)
THEOREM CacheWritesProtected == Spec => CacheWrites
<1> DEFINE W == cache' # cache => mounted /\ \A d \in DBs :
                  cache'[d] # cache[d] => mutex[d] \in {"scan", "covers"}
<1>1. ASSUME ListInv, LockInv, JoinInv, [Next]_vars, cache' # cache PROVE W
  <2>1. PICK d \in DBs : ScanSave(d) \/ CoversSave(d)
    <3>1. ~Control /\ ~UNCHANGED vars
      BY <1>1, ControlFrame DEF threadVars, vars, dataVars
    <3>2. ~Draw
      BY <1>1 DEF Draw, DrawCover
    <3>3. PICK d \in DBs : Scan(d) \/ LoadCovers(d) \/ MainStartDB(d)
      BY <1>1, <3>1, <3>2, NextSplit
    <3>4. ScanSave(d) \/ CoversSave(d)
      BY <1>1, <3>3
         DEF Scan, ScanNoDirectory, ScanLookup, ScanEntry, ScanInterrupted, ScanRead,
             ScanLock, ScanUpdateGames, ScanUpdateHomebrews, ScanSpawnCovers, ScanSignal,
             LoadCovers, CoversInterrupted, CoversListed, CoversCopy, CoversLock,
             CoversAssign, MainStartDB, dataVars
    <3> QED
      BY <3>4
  <2>2. WriteCache(d)
    BY <2>1 DEF ScanSave, CoversSave
  <2>3. \A e \in DBs : cache'[e] # cache[e] => e = d
    <3>1. TypeOK
      BY <1>1 DEF ListInv
    <3> QED
      BY <2>2, <3>1, WriteCacheOthers
  <2>4. mutex[d] \in {"scan", "covers"}
    BY <1>1, <2>1 DEF LockInv, ScanSave, CoversSave
  <2>5. mounted
    <3>1. ~(spc[d] = "done" /\ CoversEnded(d))
      BY <2>1 DEF ScanSave, CoversSave, CoversEnded
    <3> QED
      BY <1>1, <3>1, AllJoined DEF UnmountedQuiet
  <2> QED
    BY <2>3, <2>4, <2>5
<1>2. ListInv /\ LockInv /\ JoinInv /\ [Next]_vars => [W]_vars
  BY <1>1
<1> QED
  BY <1>2, ListInvariant, LockInvariant, JoinInvariant, PTL DEF Spec, CacheWrites

-----------------------------------------------------------------------------
(* What a scan makes of a list.                                            *)

(* A draw changes images only.                                             *)
LEMMA DrawKeepsLines ==
  ASSUME ListInv, Draw
  PROVE  \A d \in DBs : \A p \in Path :
           /\ games'[d][p] = Absent <=> games[d][p] = Absent
           /\ games[d][p] # Absent => /\ games'[d][p].ver = games[d][p].ver
                                      /\ games'[d][p].cover = games[d][p].cover
<1>1. PICK p \in Path, onScreen \in BOOLEAN : DrawCover(p, onScreen)
  BY DEF Draw
<1>2. /\ games \in [DBs -> [Path -> Entry \cup {Absent}]]
      /\ active \in DBs /\ games[active][p] \in Entry
  BY <1>1 DEF ListInv, TypeOK, DrawCover, Listed
<1>3. PICK new : games' = [games EXCEPT ![active][p].image = new]
  BY <1>1 DEF DrawCover
<1>4. games' = [games EXCEPT ![active] =
                  [games[active] EXCEPT ![p] = [games[active][p] EXCEPT !.image = new]]]
  BY <1>3
<1>5. \A d \in DBs : \A q \in Path : d # active \/ q # p => games'[d][q] = games[d][q]
  BY <1>2, <1>4
<1>6. games'[active][p] = [games[active][p] EXCEPT !.image = new]
  BY <1>2, <1>4
<1>7. /\ games'[active][p].ver = games[active][p].ver
      /\ games'[active][p].cover = games[active][p].cover
  BY <1>2, <1>6 DEF Entry
<1>8. games[active][p] # Absent /\ games'[active][p] # Absent
  <2>1. \A d \in DBs : Listed(d)' = Listed(d)
    BY <1>1, DrawType
  <2> QED
    BY <1>1, <2>1 DEF DrawCover, Listed
<1> QED
  BY <1>5, <1>7, <1>8

(* A covers thread changes the cover and the image of one entry.           *)
LEMMA AssignKeepsVersions ==
  ASSUME ListInv, NEW d \in DBs, CoversAssign(d)
  PROVE  \E p \in coverMap[d] :
           /\ coverMap' = [coverMap EXCEPT ![d] = @ \ {p}]
           /\ p \in Listed(d)
           /\ \A e \in DBs : \A q \in Path :
                /\ e # d \/ q # p => games'[e][q] = games[e][q]
                /\ games'[e][q] = Absent <=> games[e][q] = Absent
                /\ games[e][q] # Absent => games'[e][q].ver = games[e][q].ver
           /\ games'[d][p].cover = ResolveCover(d, p) /\ games'[d][p].image = "null"
<1>1. PICK p \in coverMap[d] :
        /\ coverMap' = [coverMap EXCEPT ![d] = @ \ {p}]
        /\ games' = [games EXCEPT ![d][p] = [ver |-> games[d][p].ver,
                                             cover |-> ResolveCover(d, p),
                                             image |-> "null"]]
  BY DEF CoversAssign
<1>2. p \in Listed(d) /\ p \in Path /\ games[d][p] \in Entry
  BY DEF CoversAssign, ListInv, TypeOK, CoversInv, Listed
<1>3. games \in [DBs -> [Path -> Entry \cup {Absent}]]
  BY DEF ListInv, TypeOK
<1>4. [ver |-> games[d][p].ver, cover |-> ResolveCover(d, p), image |-> "null"] \in Entry
  BY <1>2, CoverTypes DEF Entry, Images
<1>5. games'[d][p] = [ver |-> games[d][p].ver, cover |-> ResolveCover(d, p), image |-> "null"]
  BY <1>1, <1>2, <1>3
<1>6. \A e \in DBs : \A q \in Path : e # d \/ q # p => games'[e][q] = games[e][q]
  BY <1>1, <1>2, <1>3
<1>7. /\ games'[d][p].ver = games[d][p].ver /\ games'[d][p].cover = ResolveCover(d, p)
      /\ games'[d][p].image = "null"
  BY <1>5
<1>8. games'[d][p] # Absent /\ games[d][p] # Absent
  BY <1>2, <1>4, <1>5, AbsentAssumption
<1> QED
  BY <1>1, <1>2, <1>6, <1>7, <1>8

(* The list that a scan will commit, and what its pointers point to: until *)
(* the commit nobody else changes the list of titles.                      *)
ScanInv ==
  \A d \in DBs :
    /\ spc[d] \in {"none", "begin"} => fresh[d] = {} /\ verified[d] = {}
    /\ spc[d] \in {"iterate", "commit", "update"} =>
         /\ d \in drive.dirs
         /\ lookup[d] = Listed(d)
         /\ todo[d] \cup fresh[d] \cup verified[d] = drive.files[d]
         /\ verified[d] \subseteq Listed(d)
         /\ \A p \in verified[d] : games[d][p].ver = "current"
    /\ spc[d] \in {"commit", "update"} => todo[d] = {}

(* The steps of the other threads do not disturb a scan.                   *)
LEMMA ScanUndisturbed ==
  ASSUME ListInv, ScanInv, NEW d \in DBs,
         UNCHANGED <<drive, fresh, verified, todo, lookup>>, spc'[d] = spc[d],
         \A p \in Path :
           /\ games'[d][p] = Absent <=> games[d][p] = Absent
           /\ games[d][p] # Absent => games'[d][p].ver = games[d][p].ver
  PROVE  /\ spc'[d] \in {"none", "begin"} => fresh'[d] = {} /\ verified'[d] = {}
         /\ spc'[d] \in {"iterate", "commit", "update"} =>
              /\ d \in drive'.dirs
              /\ lookup'[d] = Listed(d)'
              /\ todo'[d] \cup fresh'[d] \cup verified'[d] = drive'.files[d]
              /\ verified'[d] \subseteq Listed(d)'
              /\ \A p \in verified'[d] : games'[d][p].ver = "current"
         /\ spc'[d] \in {"commit", "update"} => todo'[d] = {}
<1>1. Listed(d)' = Listed(d)
  BY DEF Listed
<1>2. verified[d] \subseteq Path
  BY DEF ListInv, TypeOK
<1> QED
  BY <1>1, <1>2 DEF ScanInv, Listed

(* One scan step leaves the other scans alone.                             *)
LEMMA ScanOthers ==
  ASSUME ListInv, NEW d \in DBs, Scan(d), NEW e \in DBs, e # d
  PROVE  /\ spc'[e] = spc[e] /\ fresh'[e] = fresh[e] /\ verified'[e] = verified[e]
         /\ todo'[e] = todo[e] /\ lookup'[e] = lookup[e] /\ games'[e] = games[e]
         /\ cache'[e] = cache[e] /\ cpc'[e] = cpc[e] /\ coverMap'[e] = coverMap[e]
         /\ drive' = drive /\ (e \in unsaved' <=> e \in unsaved)
<1> USE DEF dataVars, coverVars
<1>1. /\ spc \in [DBs -> ScanStates] /\ cpc \in [DBs -> CoversStates]
      /\ fresh \in [DBs -> SUBSET Path] /\ verified \in [DBs -> SUBSET Path]
      /\ todo \in [DBs -> SUBSET Path] /\ lookup \in [DBs -> SUBSET Path]
      /\ games \in [DBs -> [Path -> Entry \cup {Absent}]]
      /\ cache \in [DBs -> [Path -> Line \cup {Absent}]]
  BY DEF ListInv, TypeOK
<1>2. CASE ScanNoDirectory(d) \/ ScanInterrupted(d)
  BY <1>1, <1>2 DEF ScanNoDirectory, ScanInterrupted, ScanReturns
<1>7. CASE ScanSave(d)
  <2>1. cache'[e] = cache[e] /\ (e \in unsaved' <=> e \in unsaved)
    <3>1. TypeOK /\ WriteCache(d)
      BY <1>7 DEF ScanSave, ListInv
    <3> QED
      BY <3>1, WriteCacheOthers
  <2> QED
    BY <1>1, <1>7, <2>1 DEF ScanSave, ScanReturns
<1>3. CASE ScanLookup(d) \/ ScanRead(d) \/ ScanLock(d) \/ ScanSpawnCovers(d) \/ ScanSignal(d)
  BY <1>1, <1>3 DEF ScanLookup, ScanRead, ScanLock, ScanSpawnCovers, ScanSignal
<1>4. CASE ScanEntry(d)
  BY <1>1, <1>4 DEF ScanEntry
<1>5. CASE ScanUpdateGames(d)
  BY <1>1, <1>5 DEF ScanUpdateGames
<1>6. CASE d = HB /\ ScanUpdateHomebrews
  BY <1>1, <1>6 DEF ScanUpdateHomebrews
<1> QED
  BY <1>2, <1>3, <1>4, <1>5, <1>6, <1>7 DEF Scan

(* The covers thread is past the point where scans are.                    *)
LEMMA CoversOthers ==
  ASSUME ListInv, NEW d \in DBs, LoadCovers(d)
  PROVE  /\ UNCHANGED <<drive, fresh, verified, todo, lookup, spc>>
         /\ \A e \in DBs : \A p \in Path :
              /\ games'[e][p] = Absent <=> games[e][p] = Absent
              /\ games[e][p] # Absent => games'[e][p].ver = games[e][p].ver
<1> USE DEF dataVars, scanVars
<1>1. CASE CoversAssign(d)
  <2>1. UNCHANGED <<drive, fresh, verified, todo, lookup, spc>>
    BY <1>1 DEF CoversAssign
  <2>2. PICK p \in coverMap[d] :
          \A e \in DBs : \A q \in Path :
            /\ games'[e][q] = Absent <=> games[e][q] = Absent
            /\ games[e][q] # Absent => games'[e][q].ver = games[e][q].ver
    BY <1>1, AssignKeepsVersions
  <2> QED
    BY <2>1, <2>2
<1> QED
  BY <1>1 DEF LoadCovers, CoversInterrupted, CoversListed, CoversCopy, CoversLock, CoversSave

(* Every step keeps ScanInv.                                               *)
LEMMA ScanStep ==
  ASSUME ListInv, ScanInv, [Next]_vars
  PROVE  ScanInv'
<1> USE DEF dataVars, scanVars
<1>1. /\ spc \in [DBs -> ScanStates] /\ drive \in Drives
      /\ fresh \in [DBs -> SUBSET Path] /\ verified \in [DBs -> SUBSET Path]
      /\ todo \in [DBs -> SUBSET Path] /\ lookup \in [DBs -> SUBSET Path]
      /\ games \in [DBs -> [Path -> Entry \cup {Absent}]]
  BY DEF ListInv, TypeOK
<1>2. CASE UNCHANGED <<drive, fresh, verified, todo, lookup, spc, games>>
  BY <1>2 DEF ScanInv, Listed
<1>3. ASSUME NEW d \in DBs, Scan(d) PROVE ScanInv'
  <2> DEFINE Good(e) ==
        /\ spc[e] \in {"none", "begin"} => fresh[e] = {} /\ verified[e] = {}
        /\ spc[e] \in {"iterate", "commit", "update"} =>
             /\ e \in drive.dirs
             /\ lookup[e] = Listed(e)
             /\ todo[e] \cup fresh[e] \cup verified[e] = drive.files[e]
             /\ verified[e] \subseteq Listed(e)
             /\ \A p \in verified[e] : games[e][p].ver = "current"
        /\ spc[e] \in {"commit", "update"} => todo[e] = {}
  <2>1. ASSUME NEW e \in DBs, e # d PROVE Good(e)'
    BY <1>3, <2>1, ScanOthers DEF ScanInv, Listed
  <2>2. Good(d)
    BY DEF ScanInv
  <2>3. Good(d)'
    <3>1. CASE spc'[d] \notin {"none", "begin", "iterate", "commit", "update"}
      BY <3>1
    <3>2. CASE ScanLookup(d)
      BY <1>1, <2>2, <3>2 DEF ScanLookup, Listed
    <3>3. CASE ScanEntry(d)
      <4>1. PICK p \in todo[d] :
              /\ todo' = [todo EXCEPT ![d] = @ \ {p}]
              /\ IF p \in lookup[d] /\ games[d][p].ver = "current"
                 THEN verified' = [verified EXCEPT ![d] = @ \cup {p}] /\ UNCHANGED fresh
                 ELSE fresh' = [fresh EXCEPT ![d] = @ \cup {p}] /\ UNCHANGED verified
        BY <3>3 DEF ScanEntry
      <4>2. UNCHANGED <<drive, games, spc, lookup>> /\ spc[d] = "iterate" /\ Listed(d)' = Listed(d)
        BY <3>3 DEF ScanEntry, Listed
      <4>3. CASE p \in lookup[d] /\ games[d][p].ver = "current"
        BY <1>1, <2>2, <4>1, <4>2, <4>3
      <4>4. CASE ~(p \in lookup[d] /\ games[d][p].ver = "current")
        BY <1>1, <2>2, <4>1, <4>2, <4>4
      <4> QED
        BY <4>3, <4>4
    <3>4. CASE ScanRead(d)
      BY <1>1, <2>2, <3>4 DEF ScanRead, Listed
    <3>5. CASE ScanLock(d)
      BY <1>1, <2>2, <3>5 DEF ScanLock, Listed
    <3>6. CASE ScanNoDirectory(d) \/ ScanInterrupted(d) \/ ScanSave(d)
      BY <1>1, <3>1, <3>6 DEF ScanNoDirectory, ScanInterrupted, ScanSave, ScanReturns, AfterScan
    <3>7. CASE ScanUpdateGames(d) \/ (d = HB /\ ScanUpdateHomebrews)
               \/ ScanSpawnCovers(d) \/ ScanSignal(d)
      BY <1>1, <3>1, <3>7 DEF ScanUpdateGames, ScanUpdateHomebrews, ScanSpawnCovers, ScanSignal
    <3> QED
      BY <1>3, <3>2, <3>3, <3>4, <3>5, <3>6, <3>7 DEF Scan
  <2> QED
    BY <2>1, <2>3 DEF ScanInv
<1>4. ASSUME NEW d \in DBs, LoadCovers(d) PROVE ScanInv'
  BY <1>4, CoversOthers, ScanUndisturbed DEF ScanInv
<1>5. ASSUME NEW d \in DBs, MainStartDB(d) PROVE ScanInv'
  <2>1. /\ UNCHANGED <<drive, fresh, verified, todo, lookup>>
        /\ spc[d] = "none" /\ spc'[d] = "begin"
        /\ \A e \in DBs : e # d => spc'[e] = spc[e] /\ games'[e] = games[e]
    BY <1>1, <1>5 DEF MainStartDB
  <2> QED
    BY <2>1 DEF ScanInv, Listed
<1>6. ASSUME Draw PROVE ScanInv'
  <2>1. UNCHANGED <<drive, fresh, verified, todo, lookup, spc>>
    BY <1>6 DEF Draw, DrawCover
  <2> QED
    BY <1>6, <2>1, DrawKeepsLines, ScanUndisturbed DEF ScanInv
<1>7. ASSUME Control PROVE ScanInv'
  BY <1>2, <1>7, ControlFrame DEF threadVars
<1>8. ASSUME UNCHANGED vars PROVE ScanInv'
  BY <1>2, <1>8 DEF vars
<1> QED
  BY <1>3, <1>4, <1>5, <1>6, <1>7, <1>8, NextSplit

(* What a scan has found so far, in every reachable state.                 *)
THEOREM ScanInvariant == Spec => []ScanInv
<1>1. Init => ScanInv
  BY DEF Init, ScanInv
<1>2. ListInv /\ ScanInv /\ [Next]_vars => ScanInv'
  BY ScanStep
<1> QED
  BY <1>1, <1>2, ListInvariant, PTL DEF Spec

(* The pointers that the scan and covers threads keep while they do not    *)
(* hold the mutex stay valid (titles.cpp 142-162, 243-286).                *)
THEOREM PointersStayValid == Spec => []PointersValid
<1>1. ListInv /\ ScanInv => PointersValid
  BY DEF ListInv, CoversInv, ScanInv, PointersValid
<1> QED
  BY <1>1, ListInvariant, ScanInvariant, PTL

(* What a scan commits is the content of the drive.                        *)
LEMMA CommitList ==
  ASSUME ListInv, ScanInv, NEW d \in DBs,
         ScanUpdateGames(d) \/ (d = HB /\ ScanUpdateHomebrews)
  PROVE  /\ Listed(d)' = drive.files[d]
         /\ \A p \in Listed(d)' : games'[d][p].ver = "current"
<1>1. games \in [DBs -> [Path -> Entry \cup {Absent}]] /\ fresh[d] \cup verified[d] \subseteq Path
  BY DEF ListInv, TypeOK
<1>2. /\ spc[d] = "update" /\ fresh[d] \cup verified[d] = drive.files[d]
      /\ verified[d] \subseteq Listed(d)
      /\ \A p \in verified[d] : games[d][p].ver = "current"
  BY DEF ScanInv, ScanUpdateGames, ScanUpdateHomebrews
<1>3. CASE ScanUpdateGames(d)
  <2>1. \A p \in Path : games'[d][p] = IF p \in fresh[d] THEN NewEntry(d, p)
                                       ELSE IF p \in verified[d] THEN games[d][p] ELSE Absent
    BY <1>1, <1>3 DEF ScanUpdateGames
  <2>2. \A p \in Path : games'[d][p] # Absent <=> p \in fresh[d] \cup verified[d]
    BY <1>2, <2>1, NewEntryType DEF Listed
  <2>3. ASSUME NEW p \in fresh[d] \cup verified[d] PROVE games'[d][p].ver = "current"
    <3>1. NewEntry(d, p).ver = "current"
      BY DEF NewEntry
    <3>2. p \in Path
      BY <1>1
    <3> QED
      BY <1>2, <2>1, <3>1, <3>2
  <2> QED
    BY <1>1, <1>2, <2>2, <2>3 DEF Listed
<1>4. CASE d = HB /\ ScanUpdateHomebrews
  <2>1. \A p \in Path : games'[d][p] = IF p \notin fresh[d] \cup verified[d] THEN Absent
                                       ELSE IF KeptIcon(p)
                                            THEN [NewEntry(d, p) EXCEPT !.image = games[d][p].image]
                                            ELSE NewEntry(d, p)
    BY <1>1, <1>4 DEF ScanUpdateHomebrews
  <2>2. ASSUME NEW p \in Path, NEW i
        PROVE  /\ [NewEntry(d, p) EXCEPT !.image = i].ver = "current"
               /\ [NewEntry(d, p) EXCEPT !.image = i].cover = NewCover(d, p)
    BY DEF NewEntry
  <2>3. \A p \in Path : NewEntry(d, p).ver = "current"
    BY DEF NewEntry
  <2>4. ASSUME NEW p \in fresh[d] \cup verified[d] PROVE games'[d][p].ver = "current"
    <3>1. p \in Path
      BY <1>1
    <3> QED
      BY <2>1, <2>2, <2>3, <3>1
  <2>5. ASSUME NEW p \in fresh[d] \cup verified[d] PROVE games'[d][p] # Absent
    <3>1. p \in Path
      BY <1>1
    <3>2. KeptIcon(p) => games[d][p] \in Entry
      BY <1>1, <1>4, <3>1 DEF KeptIcon
    <3>3. KeptIcon(p) => [NewEntry(d, p) EXCEPT !.image = games[d][p].image] \in Entry
      BY <3>1, <3>2, NewEntryType DEF Entry
    <3>4. NewEntry(d, p) # Absent
      BY <3>1, NewEntryType
    <3> QED
      BY <2>1, <3>1, <3>3, <3>4, AbsentAssumption
  <2> QED
    BY <1>1, <1>2, <2>1, <2>4, <2>5 DEF Listed
<1> QED
  BY <1>3, <1>4

(* A list changes as a whole: to the cached one, or to what is on the      *)
(* drive, and a stopped scan changes nothing (titles.cpp 152-160, hb.cpp   *)
(* 202).                                                                   *)
THEOREM ScansReplaceWhole == Spec => ScanAllOrNothing
<1> DEFINE A == \A d \in DBs : Listed(d)' # Listed(d) =>
                  \/ spc[d] = "none"
                  \/ Listed(d)' = drive.files[d]
<1>1. ASSUME ListInv, ScanInv, [Next]_vars PROVE A
  <2>1. CASE UNCHANGED games
    BY <2>1 DEF Listed
  <2>2. ASSUME NEW d \in DBs, Scan(d) PROVE A
    <3>1. CASE ScanUpdateGames(d) \/ (d = HB /\ ScanUpdateHomebrews)
      <4>1. \A e \in DBs : e # d => Listed(e)' = Listed(e)
        BY <1>1, <2>2, ScanOthers DEF Listed
      <4> QED
        BY <1>1, <3>1, <4>1, CommitList
    <3>2. CASE ~(ScanUpdateGames(d) \/ (d = HB /\ ScanUpdateHomebrews))
      BY <2>1, <2>2, <3>2
         DEF Scan, ScanNoDirectory, ScanLookup, ScanEntry, ScanInterrupted, ScanRead, ScanLock,
             ScanSave, ScanSpawnCovers, ScanSignal, dataVars
    <3> QED
      BY <3>1, <3>2
  <2>3. ASSUME NEW d \in DBs, LoadCovers(d) PROVE A
    BY <1>1, <2>3, CoversOthers DEF Listed
  <2>4. ASSUME NEW d \in DBs, MainStartDB(d) PROVE A
    BY <1>1, <2>4 DEF MainStartDB, Listed, ListInv, TypeOK
  <2>5. ASSUME Draw PROVE A
    BY <1>1, <2>5, DrawKeepsLines DEF Listed
  <2>6. ASSUME Control PROVE A
    BY <2>1, <2>6, ControlFrame DEF threadVars
  <2>7. ASSUME UNCHANGED vars PROVE A
    BY <2>1, <2>7 DEF vars, dataVars
  <2> QED
    BY <1>1, <2>2, <2>3, <2>4, <2>5, <2>6, <2>7, NextSplit
<1>2. ListInv /\ ScanInv /\ [Next]_vars => [A]_vars
  BY <1>1
<1> QED
  BY <1>2, ListInvariant, ScanInvariant, PTL DEF Spec, ScanAllOrNothing

-----------------------------------------------------------------------------
(* What the views show.                                                    *)

(* A view is chosen before the first frame is handled.                     *)
ViewInv == ViewFresh /\ (mpc = "handle" => active # "none")

(* The titles of a list do not change after its scan.                      *)
LEMMA ListAfterScan ==
  ASSUME ListInv, [Next]_vars, NEW d \in DBs, spc[d] = "done"
  PROVE  Listed(d)' = Listed(d)
<1> USE DEF dataVars
<1>1. CASE UNCHANGED games
  BY <1>1 DEF Listed
<1>2. ASSUME NEW e \in DBs, Scan(e) PROVE Listed(d)' = Listed(d)
  <2>1. e # d
    BY <1>2
       DEF Scan, ScanNoDirectory, ScanLookup, ScanEntry, ScanInterrupted, ScanRead, ScanLock,
           ScanUpdateGames, ScanUpdateHomebrews, ScanSave, ScanSpawnCovers, ScanSignal
  <2> QED
    BY <1>2, <2>1, ScanOthers DEF Listed
<1>3. ASSUME NEW e \in DBs, LoadCovers(e) PROVE Listed(d)' = Listed(d)
  BY <1>3, CoversOthers DEF Listed
<1>4. ASSUME NEW e \in DBs, MainStartDB(e) PROVE Listed(d)' = Listed(d)
  BY <1>4 DEF MainStartDB, Listed, ListInv, TypeOK
<1>5. ASSUME Draw PROVE Listed(d)' = Listed(d)
  BY <1>5, DrawKeepsLines DEF Listed
<1> QED
  BY <1>1, <1>2, <1>3, <1>4, <1>5, NextSplit, ControlFrame DEF vars, threadVars

(* A trigger is sent by the step that ends a scan and taken by the step    *)
(* that counts the list.                                                   *)
LEMMA ViewStep ==
  ASSUME ListInv, ViewInv, [Next]_vars
  PROVE  ViewInv'
<1> USE DEF scanVars, mainVars
<1>1. /\ spc \in [DBs -> ScanStates] /\ trigger \in [DBs -> BOOLEAN]
      /\ view \in [DBs -> SUBSET Path] /\ active \in DBs \cup {"none", "boot"}
  BY DEF ListInv, TypeOK
<1>2. ASSUME UNCHANGED <<view, active>>, mpc' = "handle" => active # "none",
             \A d \in DBs : spc'[d] = "done" /\ ~trigger'[d] => spc[d] = "done" /\ ~trigger[d]
      PROVE  ViewInv'
  BY <1>2, ListAfterScan DEF ViewInv, ViewFresh
<1>3. ASSUME NEW d \in DBs, Scan(d) PROVE ViewInv'
  <2>1. UNCHANGED <<view, active, mpc>>
    BY <1>3
       DEF Scan, ScanNoDirectory, ScanLookup, ScanEntry, ScanInterrupted, ScanRead, ScanLock,
           ScanUpdateGames, ScanUpdateHomebrews, ScanSave, ScanSpawnCovers, ScanSignal
  <2>2. \/ UNCHANGED trigger /\ spc'[d] # "done"
        \/ trigger' = [trigger EXCEPT ![d] = TRUE]
    BY <1>1, <1>3
       DEF Scan, ScanNoDirectory, ScanLookup, ScanEntry, ScanInterrupted, ScanRead, ScanLock,
           ScanUpdateGames, ScanUpdateHomebrews, ScanSave, ScanSpawnCovers, ScanSignal,
           ScanReturns, AfterScan
  <2>3. \A e \in DBs : e # d => spc'[e] = spc[e]
    BY <1>3, ScanOthers
  <2>4. ASSUME NEW e \in DBs, spc'[e] = "done", ~trigger'[e]
        PROVE  spc[e] = "done" /\ ~trigger[e]
    BY <1>1, <2>2, <2>3, <2>4
  <2>5. mpc' = "handle" => active # "none"
    BY <2>1 DEF ViewInv
  <2> QED
    BY <1>2, <2>1, <2>4, <2>5
<1>4. ASSUME NEW d \in DBs, LoadCovers(d) PROVE ViewInv'
  <2>1. UNCHANGED <<spc, trigger, view, active, mpc>>
    BY <1>4
       DEF LoadCovers, CoversInterrupted, CoversListed, CoversCopy, CoversLock, CoversAssign,
           CoversSave
  <2> QED
    BY <1>2, <2>1 DEF ViewInv
<1>5. ASSUME NEW d \in DBs, MainStartDB(d) PROVE ViewInv'
  <2>1. UNCHANGED <<trigger, view, active, mpc>>
    BY <1>5 DEF MainStartDB
  <2>2. \A e \in DBs : spc'[e] = "done" => spc[e] = "done"
    BY <1>1, <1>5 DEF MainStartDB
  <2> QED
    BY <1>2, <2>1, <2>2 DEF ViewInv
<1>6. ASSUME Draw PROVE ViewInv'
  <2>1. UNCHANGED <<spc, trigger, view, active, mpc>>
    BY <1>6 DEF Draw, DrawCover
  <2> QED
    BY <1>2, <2>1 DEF ViewInv
<1>7. ASSUME Control PROVE ViewInv'
  <2>1. UNCHANGED <<spc, games>>
    BY <1>7, ControlFrame DEF threadVars
  <2>2. CASE MainTheme
    <3>1. view' = [d \in DBs |-> Listed(d)] /\ mpc' = "unlock"
      BY <2>2 DEF MainTheme
    <3> QED
      BY <2>1, <3>1 DEF ViewInv, ViewFresh, Listed
  <2>3. CASE MainHandle
    <3>1. active # "none" /\ mpc' = "draw"
      BY <2>3 DEF MainHandle, ViewInv
    <3>2. \A d \in DBs : ~trigger'[d] =>
            \/ view'[d] = Listed(d)
            \/ ~trigger[d] /\ view'[d] = view[d]
      <4>1. CASE active \in DBs /\ trigger[active]
        BY <1>1, <2>3, <4>1 DEF MainHandle
      <4>2. CASE ~(active \in DBs /\ trigger[active])
        BY <2>3, <4>2 DEF MainHandle
      <4> QED
        BY <4>1, <4>2
    <3> QED
      BY <2>1, <3>1, <3>2 DEF ViewInv, ViewFresh, Listed
  <2>4. CASE MainBootVerbose
    <3>1. mpc = "handle" /\ mpc' = "draw" /\ UNCHANGED <<trigger, view>>
      BY <2>4 DEF MainBootVerbose
    <3> QED
      BY <2>1, <3>1 DEF ViewInv, ViewFresh, Listed
  <2>5. CASE MainLocked
    BY <1>2, <2>5 DEF MainLocked
  <2>6. CASE MainStarted \/ MainLock \/ MainDrawDone \/ MainUnlock \/ MainPresent \/ MainNextFrame
             \/ MainPowerOff \/ MainLeave \/ MainBootAnimated
    BY <1>2, <2>6
       DEF MainStarted, MainLock, MainDrawDone, MainUnlock, MainPresent, MainNextFrame,
           MainPowerOff, MainLeave, MainBootAnimated, ViewInv
  <2>7. CASE MainShutdown
    BY <1>2, <2>7 DEF MainShutdown, MainStop, MainJoin, MainUnmount, ViewInv
  <2>8. CASE BootWork \/ BootProceed \/ BootFail \/ BootSpins \/ BootShutdown
    BY <1>2, <2>8
       DEF BootWork, BootLog, BootSleep, BootQuiet, BootProceed, BootUnmountFAT, BootLaunch,
           BootFail, BootSpins, BootShutdown, BootStop, BootJoin, BootUnmount, ViewInv
  <2> QED
    BY <1>7, <2>2, <2>3, <2>4, <2>5, <2>6, <2>7, <2>8 DEF Control, MainExit
<1>8. ASSUME UNCHANGED vars PROVE ViewInv'
  BY <1>2, <1>8 DEF vars, ViewInv
<1> QED
  BY <1>3, <1>4, <1>5, <1>6, <1>7, <1>8, NextSplit

(* No end of a scan is missed: a script whose trigger is gone has counted  *)
(* the list the scan left (rvltrigger.h, guigamesview.cpp 593-606).        *)
THEOREM ViewsStayFresh == Spec => []ViewFresh
<1>1. Init => ViewInv
  BY DEF Init, ViewInv, ViewFresh
<1>2. ListInv /\ ViewInv /\ [Next]_vars => ViewInv'
  BY ViewStep
<1>3. ViewInv => ViewFresh
  BY DEF ViewInv
<1> QED
  BY <1>1, <1>2, <1>3, ListInvariant, PTL DEF Spec

-----------------------------------------------------------------------------
(* Images and covers.                                                      *)

(* Every step keeps ImageShowsCover.                                       *)
LEMMA ImageCoverStep ==
  ASSUME ListInv, ImageShowsCover, [Next]_vars
  PROVE  ImageShowsCover'
<1> USE DEF dataVars
<1>1. games \in [DBs -> [Path -> Entry \cup {Absent}]]
  BY DEF ListInv, TypeOK
<1>2. ASSUME \A d \in DBs : \A p \in Path : games'[d][p] # games[d][p] =>
               \/ games'[d][p] = Absent
               \/ games'[d][p].image = "null"
               \/ /\ games'[d][p].image \in OwnImages => games'[d][p].cover = games'[d][p].image
                  /\ games'[d][p].image = "shared" => games'[d][p].cover = "none"
      PROVE  ImageShowsCover'
  BY <1>2 DEF ImageShowsCover, Listed, OwnImages
<1>3. CASE UNCHANGED games
  BY <1>3 DEF ImageShowsCover, Listed
<1>4. ASSUME NEW d \in DBs, ScanUpdateGames(d) PROVE ImageShowsCover'
  <2>1. ASSUME NEW e \in DBs, NEW p \in Path, games'[e][p] # games[e][p]
        PROVE  games'[e][p] = Absent \/ games'[e][p].image = "null"
    BY <1>1, <1>4, <2>1 DEF ScanUpdateGames, NewEntry
  <2> QED
    BY <1>2, <2>1
<1>5. ASSUME ScanUpdateHomebrews PROVE ImageShowsCover'
  <2>1. ASSUME NEW e \in DBs, NEW p \in Path, games'[e][p] # games[e][p]
        PROVE  \/ games'[e][p] = Absent
               \/ games'[e][p].image = "null"
               \/ /\ games'[e][p].image \in OwnImages => games'[e][p].cover = games'[e][p].image
                  /\ games'[e][p].image = "shared" => games'[e][p].cover = "none"
    <3>1. e = HB
      BY <1>1, <1>5, <2>1 DEF ScanUpdateHomebrews
    <3>2. games'[e][p] = IF p \notin fresh[HB] \cup verified[HB] THEN Absent
                         ELSE IF KeptIcon(p)
                              THEN [NewEntry(HB, p) EXCEPT !.image = games[HB][p].image]
                              ELSE NewEntry(HB, p)
      BY <1>1, <1>5, <3>1 DEF ScanUpdateHomebrews
    <3>3. CASE KeptIcon(p) /\ p \in fresh[HB] \cup verified[HB]
      <4>1. /\ games'[e][p].image = games[HB][p].image
            /\ games'[e][p].cover = games[HB][p].cover
        BY <3>2, <3>3 DEF KeptIcon, NewEntry
      <4>2. HB \in DBs /\ p \in Listed(HB)
        BY <3>1, <3>3 DEF KeptIcon, Listed
      <4> QED
        BY <4>1, <4>2 DEF ImageShowsCover
    <3>4. CASE ~KeptIcon(p) \/ p \notin fresh[HB] \cup verified[HB]
      BY <3>2, <3>4 DEF NewEntry
    <3> QED
      BY <3>3, <3>4
  <2> QED
    BY <1>2, <2>1
<1>6. ASSUME NEW d \in DBs, CoversAssign(d) PROVE ImageShowsCover'
  <2>1. PICK p \in coverMap[d] :
          /\ \A e \in DBs : \A q \in Path : e # d \/ q # p => games'[e][q] = games[e][q]
          /\ games'[d][p].image = "null"
    BY <1>6, AssignKeepsVersions
  <2> QED
    BY <1>2, <2>1
<1>7. ASSUME NEW d \in DBs, MainStartDB(d) PROVE ImageShowsCover'
  <2>1. ASSUME NEW e \in DBs, NEW p \in Path, games'[e][p] # games[e][p]
        PROVE  games'[e][p] = Absent \/ games'[e][p].image = "null"
    BY <1>1, <1>7, <2>1 DEF MainStartDB, ReadCache
  <2> QED
    BY <1>2, <2>1
<1>8. ASSUME NEW p \in Path, NEW onScreen \in BOOLEAN, DrawCover(p, onScreen)
      PROVE  ImageShowsCover'
  <2> DEFINE old == games[active][p].image
             new == IF ~onScreen THEN "null"
                    ELSE IF old # "null" THEN old
                    ELSE IF games[active][p].cover = "none" THEN "shared"
                    ELSE games[active][p].cover
  <2>1. /\ active \in DBs /\ p \in Listed(active) /\ games[active][p] \in Entry
        /\ games' = [games EXCEPT ![active] =
                       [games[active] EXCEPT ![p] = [games[active][p] EXCEPT !.image = new]]]
    BY <1>1, <1>8 DEF DrawCover, Listed
  <2>2. new = "null" \/ /\ new \in OwnImages => games[active][p].cover = new
                        /\ new = "shared" => games[active][p].cover = "none"
    BY <2>1 DEF ImageShowsCover, Entry, Covers, OwnImages
  <2> HIDE DEF new
  <2>3. games'[active][p] = [games[active][p] EXCEPT !.image = new]
    BY <1>1, <2>1
  <2>4. games'[active][p].image = new /\ games'[active][p].cover = games[active][p].cover
    BY <2>1, <2>3 DEF Entry
  <2>5. \A e \in DBs : \A q \in Path : e # active \/ q # p => games'[e][q] = games[e][q]
    BY <1>1, <2>1
  <2> QED
    BY <1>2, <2>2, <2>4, <2>5
<1>9. ASSUME NEW d \in DBs, Scan(d) \/ LoadCovers(d) PROVE ImageShowsCover'
  <2>1. UNCHANGED games \/ ScanUpdateGames(d) \/ ScanUpdateHomebrews \/ CoversAssign(d)
    BY <1>9
       DEF Scan, ScanNoDirectory, ScanLookup, ScanEntry, ScanInterrupted, ScanRead, ScanLock,
           ScanSave, ScanSpawnCovers, ScanSignal, LoadCovers, CoversInterrupted,
           CoversListed, CoversCopy, CoversLock, CoversSave
  <2> QED
    BY <1>3, <1>4, <1>5, <1>6, <2>1
<1> QED
  BY <1>3, <1>7, <1>8, <1>9, NextSplit, ControlFrame DEF Draw, vars, threadVars

(* A cover on screen is the one its entry names, whatever was replaced     *)
(* while it was shown (titles.cpp 272-286, hb.cpp 212-221).                *)
THEOREM ImagesShowCovers == Spec => []ImageShowsCover
<1>1. Init => ImageShowsCover
  BY DEF Init, ImageShowsCover, Listed
<1>2. ListInv /\ ImageShowsCover /\ [Next]_vars => ImageShowsCover'
  BY ImageCoverStep
<1> QED
  BY <1>1, <1>2, ListInvariant, PTL DEF Spec

-----------------------------------------------------------------------------
(* The result of the scans.                                                *)

Result(d) ==
  /\ d = HB => cpc[d] = "none" /\ spc[d] # "spawn"
  /\ d # HB /\ spc[d] \in {"signal", "done"} => cpc[d] # "none"
  /\ d \in drive.dirs /\ ~stopping =>
       /\ spc[d] \in {"save", "spawn", "signal", "done"} =>
            /\ Listed(d) = drive.files[d]
            /\ \A p \in Listed(d) : games[d][p].ver = "current"
            /\ d = HB => \A p \in Listed(d) : games[d][p].cover = NewCover(d, p)
       /\ spc[d] \in {"spawn", "signal", "done"} /\ cpc[d] # "assign" /\ d \notin unsaved =>
            cache[d] = CacheLines(d)
       /\ cpc[d] = "resolve" => coverMap[d] = Listed(d)
       /\ cpc[d] = "assign" =>
            \A p \in Listed(d) \ coverMap[d] : games[d][p].cover = ResolveCover(d, p)
       /\ cpc[d] = "done" => \A p \in Listed(d) : games[d][p].cover = ResolveCover(d, p)

(* Every database, from the end of its scan to the end of its covers       *)
(* thread.                                                                 *)
ResultInv == \A d \in DBs : Result(d)

(* The stop flag is never cleared.                                         *)
LEMMA StopStays ==
  ASSUME [Next]_vars, stopping
  PROVE  stopping'
<1> USE DEF stopVars
<1>1. ASSUME Control PROVE stopping'
  <2>1. CASE MainStarted \/ MainLock \/ MainLocked \/ MainTheme \/ MainHandle \/ MainDrawDone
             \/ MainUnlock \/ MainPresent \/ MainNextFrame \/ MainExit
    BY <2>1 DEF MainStarted, MainLock, MainLocked, MainTheme, MainHandle, MainDrawDone,
                MainUnlock, MainPresent, MainNextFrame, MainExit, MainPowerOff, MainLeave,
                MainBootVerbose, MainBootAnimated
  <2>2. CASE MainShutdown \/ BootShutdown
    BY <2>2 DEF MainShutdown, MainStop, MainJoin, MainUnmount, BootShutdown, BootStop, BootJoin,
                BootUnmount
  <2>3. CASE BootWork \/ BootProceed \/ BootFail \/ BootSpins
    BY <2>3 DEF BootWork, BootLog, BootSleep, BootQuiet, BootProceed, BootUnmountFAT,
                BootLaunch, BootFail, BootSpins
  <2> QED
    BY <1>1, <2>1, <2>2, <2>3 DEF Control
<1> QED
  BY <1>1, NextSplit, ThreadFrame DEF vars

(* A step that keeps a database's threads and lines keeps its result.      *)
LEMMA ResultKept ==
  ASSUME ListInv, NEW d \in DBs, Result(d),
         spc'[d] = spc[d], cpc'[d] = cpc[d], coverMap'[d] = coverMap[d],
         cache'[d] = cache[d], d \in unsaved' <=> d \in unsaved,
         drive' = drive, stopping => stopping',
         \A p \in Path :
           /\ games'[d][p] = Absent <=> games[d][p] = Absent
           /\ games[d][p] # Absent => /\ games'[d][p].ver = games[d][p].ver
                                      /\ games'[d][p].cover = games[d][p].cover
  PROVE  Result(d)'
<1>1. Listed(d)' = Listed(d)
  BY DEF Listed
<1>2. CacheLines(d)' = CacheLines(d)
  BY DEF CacheLines
<1>3. \A p \in Listed(d) : /\ games'[d][p].ver = games[d][p].ver
                           /\ games'[d][p].cover = games[d][p].cover
  BY DEF Listed
<1> QED
  BY <1>1, <1>2, <1>3 DEF Result

(* What a scan commits has the covers that the scan found.                 *)
LEMMA CommitCovers ==
  ASSUME ListInv, ScanUpdateHomebrews
  PROVE  \A p \in Listed(HB)' : games'[HB][p].cover = NewCover(HB, p)
<1> SUFFICES ASSUME NEW p \in Listed(HB)' PROVE games'[HB][p].cover = NewCover(HB, p)
  OBVIOUS
<1>1. games \in [DBs -> [Path -> Entry \cup {Absent}]] /\ HB \in DBs /\ p \in Path
      /\ games'[HB][p] # Absent
  BY DEF ListInv, TypeOK, DBs, Listed
<1>2. games'[HB][p] = IF p \notin fresh[HB] \cup verified[HB] THEN Absent
                      ELSE IF KeptIcon(p)
                           THEN [NewEntry(HB, p) EXCEPT !.image = games[HB][p].image]
                           ELSE NewEntry(HB, p)
  BY <1>1 DEF ScanUpdateHomebrews
<1> QED
  BY <1>1, <1>2 DEF NewEntry

(* Every step keeps ResultInv.                                             *)
LEMMA ResultStep ==
  ASSUME ListInv, ScanInv, ResultInv, [Next]_vars
  PROVE  ResultInv'
<1> USE DEF dataVars, scanVars, coverVars
<1>1. /\ spc \in [DBs -> ScanStates] /\ cpc \in [DBs -> CoversStates]
      /\ cache \in [DBs -> [Path -> Line \cup {Absent}]]
      /\ coverMap \in [DBs -> SUBSET Path]
      /\ games \in [DBs -> [Path -> Entry \cup {Absent}]]
  BY DEF ListInv, TypeOK
<1>2. stopping => stopping'
  BY StopStays
<1>3. CASE UNCHANGED threadVars
  BY <1>2, <1>3, ResultKept DEF ResultInv, threadVars
<1>4. ASSUME NEW d \in DBs, Scan(d) PROVE ResultInv'
  <2>1. ASSUME NEW e \in DBs, e # d PROVE Result(e)'
    <3>1. /\ spc'[e] = spc[e] /\ cpc'[e] = cpc[e] /\ coverMap'[e] = coverMap[e]
          /\ cache'[e] = cache[e] /\ (e \in unsaved' <=> e \in unsaved)
          /\ games'[e] = games[e] /\ drive' = drive
      BY <1>4, <2>1, ScanOthers
    <3> QED
      BY <1>2, <3>1, ResultKept DEF ResultInv
  <2>2. Result(d)
    BY DEF ResultInv
  <2>3. cpc[d] # "none" => spc[d] \in {"signal", "done"}
    BY DEF ListInv, CoversInv
  <2>4. ASSUME spc'[d] \in {"iterate", "commit", "update"}, spc[d] \notin {"signal", "done"},
               UNCHANGED cpc
        PROVE  Result(d)'
    BY <2>2, <2>3, <2>4 DEF Result
  <2>5. ASSUME ScanLookup(d) \/ ScanEntry(d) \/ ScanRead(d) \/ ScanLock(d) PROVE Result(d)'
    BY <1>1, <2>4, <2>5 DEF ScanLookup, ScanEntry, ScanRead, ScanLock
  <2>6. ASSUME ScanNoDirectory(d) PROVE Result(d)'
    BY <1>1, <2>2, <2>3, <2>6 DEF ScanNoDirectory, ScanReturns, AfterScan, Result
  <2>7. ASSUME ScanInterrupted(d) PROVE Result(d)'
    BY <1>1, <1>2, <2>2, <2>3, <2>7 DEF ScanInterrupted, ScanReturns, AfterScan, Result
  <2>8. ASSUME ScanUpdateGames(d) \/ (d = HB /\ ScanUpdateHomebrews) PROVE Result(d)'
    <3>1. spc'[d] = "save" /\ spc[d] = "update" /\ UNCHANGED <<cpc, drive>>
      BY <1>1, <2>8 DEF ScanUpdateGames, ScanUpdateHomebrews
    <3>2. Listed(d)' = drive.files[d] /\ \A p \in Listed(d)' : games'[d][p].ver = "current"
      BY <2>8, CommitList
    <3>3. d = HB => \A p \in Listed(d)' : games'[d][p].cover = NewCover(d, p)
      BY <2>8, CommitCovers DEF ScanUpdateGames
    <3> QED
      BY <2>2, <2>3, <3>1, <3>2, <3>3 DEF Result
  <2>9. ASSUME ScanSave(d) PROVE Result(d)'
    <3>1. /\ spc[d] = "save" /\ spc'[d] = AfterScan(d)
          /\ d \notin unsaved' => cache'[d] = CacheLines(d)
          /\ UNCHANGED <<cpc, coverMap, games, drive>>
      BY <1>1, <2>9, WriteCacheLeaves DEF ScanSave, ScanReturns, ListInv
    <3>2. CacheLines(d)' = CacheLines(d) /\ Listed(d)' = Listed(d)
      BY <3>1 DEF CacheLines, Listed
    <3> QED
      BY <1>2, <2>2, <2>3, <3>1, <3>2 DEF Result, AfterScan
  <2>10. ASSUME ScanSpawnCovers(d) PROVE Result(d)'
    <3>1. /\ spc[d] = "spawn" /\ spc'[d] = "signal" /\ cpc'[d] = "list"
          /\ UNCHANGED <<cache, unsaved, games, drive>>
      BY <1>1, <2>10 DEF ScanSpawnCovers
    <3>2. CacheLines(d)' = CacheLines(d) /\ Listed(d)' = Listed(d)
      BY <3>1 DEF CacheLines, Listed
    <3> QED
      BY <1>2, <2>2, <2>3, <3>1, <3>2 DEF Result
  <2>11. ASSUME ScanSignal(d) PROVE Result(d)'
    <3>1. /\ spc[d] = "signal" /\ spc'[d] = "done"
          /\ UNCHANGED <<cache, unsaved, games, drive, cpc, coverMap>>
      BY <1>1, <2>11 DEF ScanSignal
    <3>2. CacheLines(d)' = CacheLines(d) /\ Listed(d)' = Listed(d)
      BY <3>1 DEF CacheLines, Listed
    <3> QED
      BY <1>2, <2>2, <3>1, <3>2 DEF Result
  <2>12. Result(d)'
    BY <1>4, <2>5, <2>6, <2>7, <2>8, <2>9, <2>10, <2>11 DEF Scan
  <2> QED
    BY <2>1, <2>12 DEF ResultInv
<1>5. ASSUME NEW d \in DBs, LoadCovers(d) PROVE ResultInv'
  <2>1. spc' = spc /\ drive' = drive
    BY <1>5, CoversOthers
  <2>2. ASSUME NEW e \in DBs, e # d PROVE Result(e)'
    <3>1. /\ cpc'[e] = cpc[e] /\ coverMap'[e] = coverMap[e] /\ cache'[e] = cache[e]
          /\ games'[e] = games[e] /\ (e \in unsaved' <=> e \in unsaved)
      <4>1. CASE CoversAssign(d)
        BY <1>1, <2>2, <4>1, AssignKeepsVersions DEF CoversAssign
      <4>2. CASE CoversSave(d)
        <5>1. cache'[e] = cache[e] /\ (e \in unsaved' <=> e \in unsaved)
          <6>1. TypeOK /\ WriteCache(d)
            BY <4>2 DEF CoversSave, ListInv
          <6> QED
            BY <2>2, <6>1, WriteCacheOthers
        <5> QED
          BY <1>1, <2>2, <4>2, <5>1 DEF CoversSave
      <4>3. CASE ~CoversAssign(d) /\ ~CoversSave(d)
        BY <1>1, <1>5, <2>2, <4>3
           DEF LoadCovers, CoversInterrupted, CoversListed, CoversCopy, CoversLock
      <4> QED
        BY <4>1, <4>2, <4>3
    <3> QED
      BY <1>2, <2>1, <3>1, ResultKept DEF ResultInv
  <2>3. Result(d) /\ d # HB /\ spc[d] \in {"signal", "done"} /\ coverMap[d] \subseteq Path
    <3>1. cpc[d] # "none"
      BY <1>5 DEF LoadCovers, CoversInterrupted, CoversListed, CoversCopy, CoversLock,
                  CoversAssign, CoversSave
    <3> QED
      BY <1>1, <3>1 DEF ResultInv, Result, ListInv, CoversInv
  <2>4. ASSUME CoversInterrupted(d) PROVE Result(d)'
    BY <1>1, <1>2, <2>1, <2>3, <2>4 DEF CoversInterrupted, Result
  <2>5. ASSUME CoversListed(d) \/ CoversCopy(d) \/ CoversLock(d) PROVE Result(d)'
    <3>1. /\ UNCHANGED <<cache, unsaved, games>> /\ cpc[d] # "assign"
          /\ \/ cpc'[d] = "copy"
             \/ cpc'[d] = "resolve" /\ coverMap'[d] = Listed(d)
             \/ cpc'[d] = "assign" /\ cpc[d] = "resolve" /\ UNCHANGED coverMap
      BY <1>1, <2>5 DEF CoversListed, CoversCopy, CoversLock
    <3>2. CacheLines(d)' = CacheLines(d) /\ Listed(d)' = Listed(d)
      BY <3>1 DEF CacheLines, Listed
    <3> QED
      BY <1>2, <2>1, <2>3, <3>1, <3>2 DEF Result
  <2>6. ASSUME CoversAssign(d) PROVE Result(d)'
    <3>1. cpc[d] = "assign" /\ UNCHANGED <<cpc, cache, unsaved>>
      BY <2>6 DEF CoversAssign
    <3>2. PICK p \in coverMap[d] :
            /\ coverMap' = [coverMap EXCEPT ![d] = @ \ {p}]
            /\ p \in Listed(d)
            /\ \A e \in DBs : \A q \in Path :
                 /\ e # d \/ q # p => games'[e][q] = games[e][q]
                 /\ games'[e][q] = Absent <=> games[e][q] = Absent
                 /\ games[e][q] # Absent => games'[e][q].ver = games[e][q].ver
            /\ games'[d][p].cover = ResolveCover(d, p)
      BY <2>6, AssignKeepsVersions
    <3>3. coverMap'[d] = coverMap[d] \ {p}
      BY <1>1, <3>2
    <3>4. Listed(d)' = Listed(d)
      BY <3>2 DEF Listed
    <3>5. \A q \in Listed(d) : games'[d][q].ver = games[d][q].ver
      BY <3>2 DEF Listed
    <3>6. \A q \in Listed(d) : q # p => games'[d][q].cover = games[d][q].cover
      BY <3>2 DEF Listed
    <3> QED
      BY <1>2, <2>1, <2>3, <3>1, <3>2, <3>3, <3>4, <3>5, <3>6 DEF Result
  <2>7. ASSUME CoversSave(d) PROVE Result(d)'
    <3>1. /\ UNCHANGED games /\ cpc[d] = "assign" /\ coverMap[d] = {}
          /\ cpc'[d] = "done" /\ (d \notin unsaved' => cache'[d] = CacheLines(d))
      BY <1>1, <2>7, WriteCacheLeaves DEF CoversSave, ListInv
    <3>2. CacheLines(d)' = CacheLines(d) /\ Listed(d)' = Listed(d)
      BY <3>1 DEF CacheLines, Listed
    <3> QED
      BY <1>2, <2>1, <2>3, <3>1, <3>2 DEF Result
  <2>8. Result(d)'
    BY <1>5, <2>4, <2>5, <2>6, <2>7 DEF LoadCovers
  <2> QED
    BY <2>2, <2>8 DEF ResultInv
<1>6. ASSUME NEW d \in DBs, MainStartDB(d) PROVE ResultInv'
  <2>1. /\ UNCHANGED <<drive, cache, unsaved, cpc, coverMap>>
        /\ spc[d] = "none" /\ spc'[d] = "begin"
        /\ \A e \in DBs : e # d => spc'[e] = spc[e] /\ games'[e] = games[e]
    BY <1>1, <1>6 DEF MainStartDB
  <2>2. cpc[d] = "none"
    BY <2>1 DEF ListInv, CoversInv
  <2>3. Result(d)'
    BY <2>1, <2>2 DEF Result
  <2>4. ASSUME NEW e \in DBs, e # d PROVE Result(e)'
    BY <1>2, <2>1, <2>4, ResultKept DEF ResultInv
  <2> QED
    BY <2>3, <2>4 DEF ResultInv
<1>7. ASSUME Draw PROVE ResultInv'
  <2>1. UNCHANGED <<drive, cache, unsaved, spc, cpc, coverMap>>
    BY <1>7 DEF Draw, DrawCover
  <2> QED
    BY <1>2, <1>7, <2>1, DrawKeepsLines, ResultKept DEF ResultInv
<1> QED
  BY <1>3, <1>4, <1>5, <1>6, <1>7, NextSplit, ControlFrame DEF vars, threadVars

(* A scan that is not stopped makes list and cache file the content of the *)
(* drive, whatever the cache file it began with said (titles.cpp 129-198,  *)
(* 218-291, hb.cpp 142-225).                                               *)
THEOREM ScansMatchDrive == Spec => []ScanResult
<1>1. Init => ResultInv
  BY DEF Init, ResultInv, Result
<1>2. ListInv /\ ScanInv /\ ResultInv /\ [Next]_vars => ResultInv'
  BY ResultStep
<1>3. ResultInv => ScanResult
  <2> SUFFICES ASSUME ResultInv, NEW d \in DBs, spc[d] = "done", CoversEnded(d), ~stopping,
                      d \in drive.dirs
               PROVE  /\ Listed(d) = drive.files[d]
                      /\ \A p \in Listed(d) :
                           /\ games[d][p].ver = "current"
                           /\ games[d][p].cover = IF d = HB THEN NewCover(d, p)
                                                  ELSE ResolveCover(d, p)
                      /\ d \notin unsaved => cache[d] = CacheLines(d)
    BY DEF ScanResult
  <2> QED
    BY DEF ResultInv, Result, CoversEnded
<1> QED
  BY <1>1, <1>2, <1>3, ListInvariant, ScanInvariant, PTL DEF Spec

=============================================================================
