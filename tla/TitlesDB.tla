------------------------------ MODULE TitlesDB ------------------------------
(***************************************************************************)
(* The title databases of the front-end (main/source/titles/titles.cpp and *)
(* hb.cpp), the threads that fill them, the main loop that draws them      *)
(* (main/source/main.cpp) and the two ways out of them: shutdown() called  *)
(* by the main thread and unmountFAT() called by the Hiidra boot thread    *)
(* (main/source/system.cpp, hiidra.cpp).                                   *)
(*                                                                         *)
(* Every database has one scan thread; a games database also has a covers  *)
(* thread, which its scan thread creates.  The homebrew list HB has a scan *)
(* thread only.  A thread's steps interleave freely with every other       *)
(* thread's: the priorities of the LWP scheduler only remove behaviours,   *)
(* and matter where the boot thread spins or misses a signal.              *)
(***************************************************************************)
EXTENDS Naturals

CONSTANTS
  GameDBs,      \* the games databases (gc, wii, vc, channels in the code)
  HB,           \* the homebrew list
  NDB,          \* how many databases there are
  LockOrder,    \* the order lockTitlesDBs() takes the mutexes in
  Path,         \* the paths a title can have
  Library,      \* Library[d]: the paths that may belong to database d
  CoverFile,    \* CoverFile[d][p]: the kinds of cover the drive has for p
  DummyOnDrive, \* the databases for which the drive has a dummy cover
  CachedCovers, \* CachedCovers[d]: the covers that the lines of d's old cache
                \* file may name
  Unwritable,   \* the databases whose cache file may fail to open for writing
  Absent,       \* "no entry at this path"
  Shared,       \* dummyCover and dummyHBIcon, which no entry owns
  Exits         \* the ways out of the main loop that a run explores

DBs == GameDBs \cup {HB}

ASSUME DBsAssumption == HB \notin GameDBs /\ {"none", "boot"} \cap DBs = {}

(* Entries.  A cover path is abstracted to the file it names: the cover of *)
(* this very game, that of another region, the dummy picture, or "".       *)
Covers == {"exact", "region", "dummy", "none"}

(* lockTitlesDBs() names every database exactly once.                      *)
ASSUME LockOrderAssumption ==
  /\ NDB \in Nat
  /\ LockOrder \in [1..NDB -> DBs]
  /\ \A d \in DBs : \E i \in 1..NDB : LockOrder[i] = d
  /\ \A i, j \in 1..NDB : LockOrder[i] = LockOrder[j] => i = j

ASSUME DriveAssumption ==
  /\ Library \in [DBs -> SUBSET Path]
  /\ CoverFile \in [DBs -> [Path -> SUBSET {"exact", "region"}]]
  /\ \A p \in Path : "region" \notin CoverFile[HB][p]
  /\ DummyOnDrive \subseteq DBs
  /\ CachedCovers \in [DBs -> SUBSET Covers]
  /\ Unwritable \subseteq DBs

(* "powerButton": the power callback sets hasToShutdown; "leave": a script *)
(* boots a dol or reboots, or fails with systemError(); "verbose" and      *)
(* "animated": a script boots a Wii game with either loading screen.       *)
ASSUME ExitsAssumption ==
  Exits \subseteq {"powerButton", "leave", "verbose", "animated"}

(* What GameContainer::image points to: nothing, the shared dummy that no  *)
(* entry owns, or an image loaded from a cover file.                       *)
OwnImages == {"exact", "region", "dummy"}
Images == {"null", "shared"} \cup OwnImages

(* Whether an entry's mtime is the one the file has on the drive.          *)
Versions == {"current", "stale"}

Entry == [ver : Versions, cover : Covers, image : Images]
Line  == [ver : Versions, cover : Covers]      \* one line of a cache file

ASSUME AbsentAssumption == Absent \notin Entry /\ Absent \notin Line

(* The GuiImage object behind image i of the entry at path p of d.         *)
Obj(d, p, i) == IF i = "shared" THEN Shared ELSE <<d, p, i>>
Objs == {Shared} \cup (DBs \X Path \X OwnImages)

ASSUME SharedAssumption == Shared \notin DBs \X Path \X Images

VARIABLES
  drive,      \* what the USB drive holds: directories and title files
  cache,      \* cache[d]: the cache file of d on the drive
  unsaved,    \* history: the databases whose last writeCache() could not open it
  games,      \* games[d][p]: the entry at path p of the database d, or Absent
  live,       \* the GuiImage objects that are allocated
  gpu,        \* the objects the current frame's GX commands read
  mutex,      \* mutex[d]: which thread holds d's mutex
  owner,      \* titlesDBsOwner
  nlocked,    \* how many mutexes lockTitlesDBs() has taken
  stopping,   \* titlesThreadsStopping
  spc, cpc,   \* where each database's scan and covers threads are
  todo,       \* directory entries a scan thread has not read yet
  verified,   \* verifiedPaths of each scan
  fresh,      \* the paths in each scan's newGames
  lookup,     \* the paths each scan's lookup points to
  coverMap,   \* the entries each covers thread's coverMap points to
  trigger,    \* hasFinishedScanning of each database
  mpc,        \* where the main thread is
  active,     \* the view on screen: a database, the boot screen, none yet
  view,       \* view[d]: the list whose length the script of d last took
  bpc,        \* where the Hiidra boot thread is
  jdb, jscan, \* progress of the joins in stopTitlesThreads()
  mounted     \* the FAT file system is mounted

dataVars  == <<drive, cache, unsaved, games, live, gpu>>
lockVars  == <<mutex, owner, nlocked>>
scanVars  == <<spc, todo, verified, fresh, lookup, trigger>>
coverVars == <<cpc, coverMap>>
mainVars  == <<mpc, active, view>>
bootVars  == <<bpc>>
stopVars  == <<stopping, jdb, jscan, mounted>>
vars == <<dataVars, lockVars, scanVars, coverVars, mainVars, bootVars, stopVars>>

-----------------------------------------------------------------------------
Listed(d) == {p \in Path : games[d][p] # Absent}

(* Every cache file the drive may hold at power-on: the lines of an        *)
(* earlier session, some of them outdated or of titles that are gone, or   *)
(* what a power cut in the middle of writeCache() left.                    *)
CacheFiles(d) ==
  {f \in [Path -> Line \cup {Absent}] :
     \A p \in Path : f[p] # Absent => p \in Library[d] /\ f[p].cover \in CachedCovers[d]}

Drives == {v \in [dirs : SUBSET DBs, files : [DBs -> SUBSET Path]] :
             \A d \in DBs : /\ v.files[d] \subseteq Library[d]
                            /\ d \notin v.dirs => v.files[d] = {}}

OnDrive(d, p, c) ==
  \/ c = "dummy" /\ d \in DummyOnDrive
  \/ c \in CoverFile[d][p]

DummyCover(d) == IF d \in DummyOnDrive THEN "dummy" ELSE "none"

(* createGameContainer() and getHBCoverPath(): the title's own cover or    *)
(* the dummy.                                                              *)
NewCover(d, p) == IF "exact" \in CoverFile[d][p] THEN "exact" ELSE DummyCover(d)

(* loadCoversThread(): the cover of another region will do.                *)
ResolveCover(d, p) ==
  IF "exact" \in CoverFile[d][p] THEN "exact"
  ELSE IF "region" \in CoverFile[d][p] THEN "region" ELSE DummyCover(d)

(* readCache(), readHBCache(): a cover that is gone is replaced.           *)
ReadCache(d) ==
  [p \in Path |->
     IF cache[d][p] = Absent THEN Absent
     ELSE [ver   |-> cache[d][p].ver,
           cover |-> IF OnDrive(d, p, cache[d][p].cover) THEN cache[d][p].cover
                     ELSE IF d = HB THEN NewCover(d, p) ELSE DummyCover(d),
           image |-> "null"]]

CacheLines(d) ==
  [p \in Path |->
     IF games[d][p] = Absent THEN Absent
     ELSE [ver |-> games[d][p].ver, cover |-> games[d][p].cover]]

NewEntry(d, p) == [ver |-> "current", cover |-> NewCover(d, p), image |-> "null"]

Init ==
  /\ drive \in Drives
  /\ cache \in {f \in [DBs -> [Path -> Line \cup {Absent}]] :
                  \A d \in DBs : f[d] \in CacheFiles(d)}
  /\ unsaved = {}
  /\ games = [d \in DBs |-> [p \in Path |-> Absent]]
  /\ live = {Shared} /\ gpu = {}
  /\ mutex = [d \in DBs |-> "free"] /\ owner = "none" /\ nlocked = 0
  /\ stopping = FALSE
  /\ spc = [d \in DBs |-> "none"] /\ cpc = [d \in DBs |-> "none"]
  /\ todo = [d \in DBs |-> {}]
  /\ verified = [d \in DBs |-> {}]
  /\ fresh = [d \in DBs |-> {}]
  /\ lookup = [d \in DBs |-> {}]
  /\ coverMap = [d \in DBs |-> {}]
  /\ trigger = [d \in DBs |-> FALSE]
  /\ mpc = "start" /\ active = "none" /\ view = [d \in DBs |-> {}]
  /\ bpc = "none"
  /\ jdb = 0 /\ jscan = FALSE /\ mounted = TRUE

-----------------------------------------------------------------------------
(* The scan thread of database d: scanAndUpdateThread() and scanGames(), or *)
(* hbScanThread() and scanHomebrews().                                      *)

AfterScan(d) == IF d = HB THEN "signal" ELSE "spawn"

(* scanGames() and scanHomebrews() return: their local lists are gone.     *)
ScanReturns(d) ==
  /\ spc' = [spc EXCEPT ![d] = AfterScan(d)]
  /\ todo' = [todo EXCEPT ![d] = {}]
  /\ verified' = [verified EXCEPT ![d] = {}]
  /\ fresh' = [fresh EXCEPT ![d] = {}]
  /\ lookup' = [lookup EXCEPT ![d] = {}]

(* The scan directory is missing: the list stays as the cache left it.     *)
ScanNoDirectory(d) ==
  /\ spc[d] = "begin"
  /\ d \notin drive.dirs
  /\ ScanReturns(d)
  /\ UNCHANGED <<dataVars, lockVars, trigger, coverVars, mainVars, bootVars, stopVars>>

(* Mutant: the covers thread is created before the scan has run.           *)
ScanLookupWithCovers(d) ==
  /\ spc[d] = "begin"
  /\ d \in drive.dirs
  /\ mutex[d] = "free"
  /\ lookup' = [lookup EXCEPT ![d] = Listed(d)]
  /\ todo' = [todo EXCEPT ![d] = drive.files[d]]
  /\ spc' = [spc EXCEPT ![d] = "iterate"]
  /\ cpc' = [cpc EXCEPT ![d] = IF d = HB THEN "none" ELSE "list"]
  /\ UNCHANGED <<dataVars, lockVars, verified, fresh, trigger, coverMap,
                 mainVars, bootVars, stopVars>>

(* Lock, note where every entry is, unlock: the block neither waits nor    *)
(* writes, so it is one step.                                              *)
ScanLookup(d) ==
  /\ spc[d] = "begin"
  /\ d \in drive.dirs
  /\ mutex[d] = "free"
  /\ lookup' = [lookup EXCEPT ![d] = Listed(d)]
  /\ todo' = [todo EXCEPT ![d] = drive.files[d]]
  /\ spc' = [spc EXCEPT ![d] = "iterate"]
  /\ UNCHANGED <<dataVars, lockVars, verified, fresh, trigger,
                 coverVars, mainVars, bootVars, stopVars>>

(* One directory entry, through the lookup's pointer if the title is known. *)
ScanEntry(d) ==
  /\ spc[d] = "iterate"
  /\ ~stopping
  /\ \E p \in todo[d] :
       /\ todo' = [todo EXCEPT ![d] = @ \ {p}]
       /\ IF p \in lookup[d] /\ games[d][p].ver = "current"
          THEN verified' = [verified EXCEPT ![d] = @ \cup {p}] /\ UNCHANGED fresh
          ELSE fresh' = [fresh EXCEPT ![d] = @ \cup {p}] /\ UNCHANGED verified
  /\ UNCHANGED <<dataVars, lockVars, spc, lookup, trigger,
                 coverVars, mainVars, bootVars, stopVars>>

(* Mutant: the loop is left, the scan goes on with what it has.            *)
ScanInterruptedCommits(d) ==
  /\ spc[d] = "iterate"
  /\ stopping
  /\ spc' = [spc EXCEPT ![d] = "commit"]
  /\ UNCHANGED <<dataVars, lockVars, todo, verified, fresh, lookup, trigger,
                 coverVars, mainVars, bootVars, stopVars>>

(* The stop flag is tested once per directory entry.                       *)
ScanInterrupted(d) ==
  /\ spc[d] = "iterate"
  /\ stopping
  /\ todo[d] # {} \/ d = HB     \* scanHomebrews() tests it after the loop too
  /\ ScanReturns(d)
  /\ UNCHANGED <<dataVars, lockVars, trigger, coverVars, mainVars, bootVars, stopVars>>

ScanRead(d) ==
  /\ spc[d] = "iterate"
  /\ todo[d] = {}
  /\ d = HB => ~stopping
  /\ spc' = [spc EXCEPT ![d] = "commit"]
  /\ UNCHANGED <<dataVars, lockVars, todo, verified, fresh, lookup, trigger,
                 coverVars, mainVars, bootVars, stopVars>>

ScanLock(d) ==
  /\ spc[d] = "commit"
  /\ mutex[d] = "free"
  /\ mutex' = [mutex EXCEPT ![d] = "scan"]
  /\ spc' = [spc EXCEPT ![d] = "update"]
  /\ UNCHANGED <<dataVars, owner, nlocked, todo, verified, fresh, lookup, trigger,
                 coverVars, mainVars, bootVars, stopVars>>

(* Mutant: the entries that were not verified stay.                        *)
ScanUpdateKeepsAll(d) ==
  /\ d # HB
  /\ spc[d] = "update"
  /\ games' = [games EXCEPT ![d] =
                 [p \in Path |-> IF p \in fresh[d] THEN NewEntry(d, p) ELSE games[d][p]]]
  /\ spc' = [spc EXCEPT ![d] = "save"]
  /\ UNCHANGED <<drive, cache, unsaved, live, gpu, lockVars, todo, verified,
                 fresh, lookup, trigger, coverVars, mainVars, bootVars, stopVars>>

(* scanGames(): entries that were not verified go, with whatever image     *)
(* they point to, and the new ones come in.                                *)
ScanUpdateGames(d) ==
  /\ d # HB
  /\ spc[d] = "update"
  /\ games' = [games EXCEPT ![d] =
                 [p \in Path |-> IF p \in fresh[d] THEN NewEntry(d, p)
                                 ELSE IF p \in verified[d] THEN games[d][p]
                                 ELSE Absent]]
  /\ spc' = [spc EXCEPT ![d] = "save"]
  /\ UNCHANGED <<drive, cache, unsaved, live, gpu, lockVars, todo, verified,
                 fresh, lookup, trigger, coverVars, mainVars, bootVars, stopVars>>

(* Mutant: the icon file is not compared.                                  *)
KeptIconByPath(p) ==
  /\ p \in fresh[HB] \cup verified[HB]
  /\ games[HB][p] # Absent

(* scanHomebrews(): a loaded icon moves to the new list when path and icon *)
(* file are the same, and is deleted otherwise unless it is the shared one. *)
KeptIcon(p) ==
  /\ p \in fresh[HB] \cup verified[HB]
  /\ games[HB][p] # Absent
  /\ games[HB][p].cover = NewCover(HB, p)

IconToDelete(p) ==
  /\ games[HB][p] # Absent
  /\ games[HB][p].image \in OwnImages
  /\ ~KeptIcon(p)

ScanUpdateHomebrews ==
  /\ spc[HB] = "update"
  /\ live' = live \ {Obj(HB, p, games[HB][p].image) : p \in {q \in Path : IconToDelete(q)}}
  /\ games' = [games EXCEPT ![HB] =
                 [p \in Path |->
                    IF p \notin fresh[HB] \cup verified[HB] THEN Absent
                    ELSE IF KeptIcon(p)
                         THEN [NewEntry(HB, p) EXCEPT !.image = games[HB][p].image]
                         ELSE NewEntry(HB, p)]]
  /\ spc' = [spc EXCEPT ![HB] = "save"]
  /\ UNCHANGED <<drive, cache, unsaved, gpu, lockVars, todo, verified,
                 fresh, lookup, trigger, coverVars, mainVars, bootVars, stopVars>>

(* writeCache(), writeHBCache(): the file is rewritten, or left alone if it *)
(* cannot be opened; nobody asks whether it was.                           *)
WriteCache(d) ==
  \/ /\ cache' = [cache EXCEPT ![d] = CacheLines(d)]
     /\ unsaved' = unsaved \ {d}
  \/ /\ d \in Unwritable
     /\ unsaved' = unsaved \cup {d}
     /\ UNCHANGED cache

(* Mutant: the mutex is not released.                                      *)
ScanSaveKeepsMutex(d) ==
  /\ spc[d] = "save"
  /\ WriteCache(d)
  /\ ScanReturns(d)
  /\ UNCHANGED <<drive, games, live, gpu, lockVars, trigger, coverVars,
                 mainVars, bootVars, stopVars>>

ScanSave(d) ==
  /\ spc[d] = "save"
  /\ WriteCache(d)
  /\ mutex' = [mutex EXCEPT ![d] = "free"]
  /\ ScanReturns(d)
  /\ UNCHANGED <<drive, games, live, gpu, owner, nlocked, trigger, coverVars,
                 mainVars, bootVars, stopVars>>

(* The scan thread of a games database creates the covers thread, even     *)
(* when the scan was interrupted.                                          *)
ScanSpawnCovers(d) ==
  /\ spc[d] = "spawn"
  /\ cpc' = [cpc EXCEPT ![d] = "list"]
  /\ spc' = [spc EXCEPT ![d] = "signal"]
  /\ UNCHANGED <<dataVars, lockVars, todo, verified, fresh, lookup, trigger, coverMap,
                 mainVars, bootVars, stopVars>>

(* Mutant: the scan ends without sending its trigger.                      *)
ScanSignalNothing(d) ==
  /\ spc[d] = "signal"
  /\ spc' = [spc EXCEPT ![d] = "done"]
  /\ UNCHANGED <<dataVars, lockVars, todo, verified, fresh, lookup, trigger,
                 coverVars, mainVars, bootVars, stopVars>>

ScanSignal(d) ==
  /\ spc[d] = "signal"
  /\ trigger' = [trigger EXCEPT ![d] = TRUE]
  /\ spc' = [spc EXCEPT ![d] = "done"]
  /\ UNCHANGED <<dataVars, lockVars, todo, verified, fresh, lookup,
                 coverVars, mainVars, bootVars, stopVars>>

-----------------------------------------------------------------------------
(* The covers thread of a games database: loadCoversThread().              *)

CoversFolderEmpty == DummyOnDrive = {} /\ \A d \in DBs : \A p \in Path : CoverFile[d][p] = {}

(* The stop flag is tested for each file of the covers folder.             *)
CoversInterrupted(d) ==
  /\ cpc[d] = "list"
  /\ stopping /\ ~CoversFolderEmpty
  /\ cpc' = [cpc EXCEPT ![d] = "done"]
  /\ UNCHANGED <<dataVars, lockVars, scanVars, coverMap, mainVars, bootVars, stopVars>>

CoversListed(d) ==
  /\ cpc[d] = "list"
  /\ ~stopping \/ CoversFolderEmpty
  /\ cpc' = [cpc EXCEPT ![d] = "copy"]
  /\ UNCHANGED <<dataVars, lockVars, scanVars, coverMap, mainVars, bootVars, stopVars>>

CoversCopy(d) ==
  /\ cpc[d] = "copy"
  /\ mutex[d] = "free"
  /\ coverMap' = [coverMap EXCEPT ![d] = Listed(d)]
  /\ cpc' = [cpc EXCEPT ![d] = "resolve"]
  /\ UNCHANGED <<dataVars, lockVars, scanVars, mainVars, bootVars, stopVars>>

CoversLock(d) ==
  /\ cpc[d] = "resolve"
  /\ mutex[d] = "free"
  /\ mutex' = [mutex EXCEPT ![d] = "covers"]
  /\ cpc' = [cpc EXCEPT ![d] = "assign"]
  /\ UNCHANGED <<dataVars, owner, nlocked, scanVars, coverMap, mainVars, bootVars, stopVars>>

(* One entry, through coverMap's pointer: its cover path, and its image    *)
(* deleted unless it is the shared one.                                    *)
CoversAssign(d) ==
  /\ cpc[d] = "assign"
  /\ \E p \in coverMap[d] :
       /\ coverMap' = [coverMap EXCEPT ![d] = @ \ {p}]
       /\ games' = [games EXCEPT ![d][p] = [ver |-> games[d][p].ver,
                                            cover |-> ResolveCover(d, p),
                                            image |-> "null"]]
       /\ live' = IF games[d][p].image = "shared" THEN live
                  ELSE live \ {Obj(d, p, games[d][p].image)}
  /\ UNCHANGED <<drive, cache, unsaved, gpu, lockVars, scanVars, cpc,
                 mainVars, bootVars, stopVars>>

CoversSave(d) ==
  /\ cpc[d] = "assign"
  /\ coverMap[d] = {}
  /\ WriteCache(d)
  /\ mutex' = [mutex EXCEPT ![d] = "free"]
  /\ cpc' = [cpc EXCEPT ![d] = "done"]
  /\ UNCHANGED <<drive, games, live, gpu, owner, nlocked, scanVars, coverMap,
                 mainVars, bootVars, stopVars>>

-----------------------------------------------------------------------------
(* The main thread: start-up, then one frame after the other.              *)

(* readCache() and LWP_CreateThread(), one database after the other.       *)
MainStartDB(d) ==
  /\ mpc = "start"
  /\ spc[d] = "none"
  /\ games' = [games EXCEPT ![d] = ReadCache(d)]
  /\ spc' = [spc EXCEPT ![d] = "begin"]
  /\ UNCHANGED <<drive, cache, unsaved, live, gpu, lockVars, todo, verified, fresh, lookup,
                 trigger, coverVars, mainVars, bootVars, stopVars>>

MainStarted ==
  /\ mpc = "start"
  /\ \A d \in DBs : spc[d] # "none"
  /\ mpc' = "lock"
  /\ UNCHANGED <<dataVars, lockVars, scanVars, coverVars, active, view, bootVars, stopVars>>

(* lockTitlesDBs(): one mutex after the other, then the owner.             *)
MainLock ==
  /\ mpc = "lock"
  /\ nlocked < NDB
  /\ mutex[LockOrder[nlocked + 1]] = "free"
  /\ mutex' = [mutex EXCEPT ![LockOrder[nlocked + 1]] = "main"]
  /\ nlocked' = nlocked + 1
  /\ UNCHANGED <<dataVars, owner, scanVars, coverVars, mainVars, bootVars, stopVars>>

MainLocked ==
  /\ mpc = "lock"
  /\ nlocked = NDB
  /\ owner' = "main"
  /\ mpc' = IF active = "none" THEN "theme" ELSE "handle"
  /\ UNCHANGED <<dataVars, mutex, nlocked, scanVars, coverVars, active, view,
                 bootVars, stopVars>>

(* loadTheme(): every view's script counts its titles; one view is shown.  *)
MainTheme ==
  /\ mpc = "theme"
  /\ view' = [d \in DBs |-> Listed(d)]
  /\ active' \in DBs
  /\ mpc' = "unlock"
  /\ UNCHANGED <<dataVars, lockVars, scanVars, coverVars, bootVars, stopVars>>

(* handleInputs() of the active view: hasFinishedScanning() takes the      *)
(* trigger and the script counts again; the script may switch views.       *)
MainHandle ==
  /\ mpc = "handle"
  /\ IF active \in DBs /\ trigger[active]
     THEN /\ trigger' = [trigger EXCEPT ![active] = FALSE]
          /\ view' = [view EXCEPT ![active] = Listed(active)]
     ELSE UNCHANGED <<trigger, view>>
  /\ active' \in IF active \in DBs THEN DBs ELSE {active}
  /\ mpc' = "draw"
  /\ UNCHANGED <<dataVars, lockVars, spc, todo, verified, fresh, lookup, coverVars,
                 bootVars, stopVars>>

(* lua_drawGameCover(), lua_drawHBCover(): the script goes through the     *)
(* indices below its count, which may be any of the entries now listed; an *)
(* index out of range is ignored.  An entry on screen gets an image, which *)
(* the GPU will read; one off screen loses it.  The theme draws a cover    *)
(* once per frame.                                                         *)
DrawCover(p, onScreen) ==
  LET d == active
      old == games[d][p].image
      new == IF ~onScreen THEN "null"
             ELSE IF old # "null" THEN old
             ELSE IF games[d][p].cover = "none" THEN "shared" ELSE games[d][p].cover
  IN /\ mpc = "draw"
     /\ active \in DBs
     /\ view[d] # {} /\ p \in Listed(d)
     /\ old \in OwnImages => Obj(d, p, old) \notin gpu
     /\ games' = [games EXCEPT ![d][p].image = new]
     /\ live' = IF new # "null" THEN live \cup {Obj(d, p, new)}
                ELSE IF old = "shared" THEN live ELSE live \ {Obj(d, p, old)}
     /\ gpu' = IF new # "null" THEN gpu \cup {Obj(d, p, new)} ELSE gpu
     /\ UNCHANGED <<drive, cache, unsaved, lockVars, scanVars, coverVars, mainVars,
                    bootVars, stopVars>>

(* Mutant: the mutexes are released before the GPU is done.                *)
MainDrawNotDone ==
  /\ mpc = "draw"
  /\ mpc' = "unlock"
  /\ UNCHANGED <<dataVars, lockVars, scanVars, coverVars, active, view,
                 bootVars, stopVars>>

(* Gfx::waitDrawDone().                                                    *)
MainDrawDone ==
  /\ mpc = "draw"
  /\ gpu' = {}
  /\ mpc' = "unlock"
  /\ UNCHANGED <<drive, cache, unsaved, games, live, lockVars, scanVars, coverVars, active, view,
                 bootVars, stopVars>>

(* unlockTitlesDBs() gives all the mutexes back; no other thread waits for *)
(* two of them, so releasing them is one step.                             *)
Unlocked ==
  /\ owner' = "none"
  /\ nlocked' = 0
  /\ mutex' = [d \in DBs |-> "free"]

MainUnlock ==
  /\ mpc = "unlock"
  /\ Unlocked
  /\ mpc' = "present"
  /\ UNCHANGED <<dataVars, scanVars, coverVars, active, view, bootVars, stopVars>>

(* Mutant: redraws are not controlled.                                     *)
NeverControlled == FALSE

(* Once a game boots, redraws are controlled: the main thread sleeps in    *)
(* redrawQueue at the top of the loop until the boot thread has a line.    *)
Controlled == bpc # "none"

(* Mutant: the boot thread is not woken.                                   *)
MainPresentSilently ==
  /\ mpc = "present"
  /\ mpc' = IF Controlled THEN "asleep" ELSE "top"
  /\ UNCHANGED <<dataVars, lockVars, scanVars, coverVars, active, view, bootVars, stopVars>>

(* Gfx::endDrawing() waits for VSync; then hiidraSignalRedraw() wakes the  *)
(* boot thread if it sleeps in logQueue.  A thread that does not sleep yet *)
(* misses the signal and sleeps until the next one.  The main thread has   *)
(* the higher priority: it is at the top of the loop, asleep again if      *)
(* redraws are controlled, before the boot thread goes on.                 *)
MainPresent ==
  /\ mpc = "present"
  /\ mpc' = IF Controlled THEN "asleep" ELSE "top"
  /\ bpc' = CASE bpc \in {"wait", "missed"} -> "work"
              [] bpc = "log" -> "missed"
              [] OTHER -> bpc
  /\ UNCHANGED <<dataVars, lockVars, scanVars, coverVars, active, view, stopVars>>

MainNextFrame ==
  /\ mpc = "top"
  /\ mpc' = "lock"
  /\ UNCHANGED <<dataVars, lockVars, scanVars, coverVars, active, view, bootVars, stopVars>>

(* hasToShutdown: powerOff().                                              *)
MainPowerOff ==
  /\ "powerButton" \in Exits
  /\ mpc = "top"
  /\ mpc' = "stop"
  /\ UNCHANGED <<dataVars, lockVars, scanVars, coverVars, active, view, bootVars, stopVars>>

(* A script reboots or boots a dol, or fails: systemError() aborts the     *)
(* frame (GX_AbortFrame) and reboots.  The mutexes are still held.         *)
MainLeave ==
  /\ "leave" \in Exits
  /\ mpc \in {"theme", "handle", "draw"}
  /\ bpc = "none"
  /\ gpu' = {}
  /\ mpc' = "stop"
  /\ UNCHANGED <<drive, cache, unsaved, games, live, lockVars, scanVars, coverVars, active, view,
                 bootVars, stopVars>>

(* bootHiidra() with the log screen: the boot screen replaces the view and *)
(* the frame goes on.                                                      *)
MainBootVerbose ==
  /\ "verbose" \in Exits
  /\ mpc = "handle"
  /\ bpc = "none"
  /\ active' = "boot"
  /\ bpc' = "new"
  /\ mpc' = "draw"
  /\ UNCHANGED <<dataVars, lockVars, scanVars, coverVars, view, stopVars>>

(* bootHiidra() with the animation: discAnim() never returns.              *)
MainBootAnimated ==
  /\ "animated" \in Exits
  /\ mpc = "handle"
  /\ bpc = "none"
  /\ bpc' = "new"
  /\ mpc' = "animation"
  /\ UNCHANGED <<dataVars, lockVars, scanVars, coverVars, active, view, stopVars>>

-----------------------------------------------------------------------------
(* The Hiidra boot thread.                                                 *)

(* hiidraAddLogLine(): forceRedraw() wakes the main thread if it sleeps in *)
(* redrawQueue, and is lost otherwise.                                     *)
BootLog ==
  /\ bpc \in {"new", "work"}
  /\ mpc # "animation"
  /\ bpc' = "log"
  /\ mpc' = IF mpc = "asleep" THEN "top" ELSE mpc
  /\ UNCHANGED <<dataVars, lockVars, scanVars, coverVars, active, view, stopVars>>

(* hiidraWaitForRedraw(): asleep until the main loop has shown a frame.    *)
BootSleep ==
  /\ bpc = "log"
  /\ bpc' = "wait"
  /\ UNCHANGED <<dataVars, lockVars, scanVars, coverVars, mainVars, stopVars>>

(* Mutant: the thread sleeps until a frame is shown with the animation too. *)
BootQuietWaits ==
  /\ bpc = "new"
  /\ mpc = "animation"
  /\ bpc' = "log"
  /\ UNCHANGED <<dataVars, lockVars, scanVars, coverVars, mainVars, stopVars>>

(* With the animation hiidraAddLogLine() returns at once.                  *)
BootQuiet ==
  /\ bpc = "new"
  /\ mpc = "animation"
  /\ bpc' = "work"
  /\ UNCHANGED <<dataVars, lockVars, scanVars, coverVars, mainVars, stopVars>>

(* unmountFAT(), at least one log line ("Forging custom kernel") later.    *)
BootUnmountFAT ==
  /\ bpc = "work"
  /\ mounted
  /\ bpc' = "stop"
  /\ UNCHANGED <<dataVars, lockVars, scanVars, coverVars, mainVars, stopVars>>

BootLaunch ==
  /\ bpc = "work"
  /\ ~mounted
  /\ bpc' = "launched"
  /\ UNCHANGED <<dataVars, lockVars, scanVars, coverVars, mainVars, stopVars>>

(* The size of IOS58's kernel cannot be read: the thread returns.          *)
BootFail ==
  /\ bpc \in {"new", "work"}
  /\ bpc' = "failed"
  /\ UNCHANGED <<dataVars, lockVars, scanVars, coverVars, mainVars, stopVars>>

(* A WAD that cannot be installed, no disc drive: the thread spins for     *)
(* ever; or no kernel, and the program exits.  The thread has written a    *)
(* line to the log before.                                                 *)
BootSpins ==
  /\ bpc = "work"
  /\ bpc' = "spins"
  /\ UNCHANGED <<dataVars, lockVars, scanVars, coverVars, mainVars, stopVars>>

-----------------------------------------------------------------------------
(* unmountFAT(): stopTitlesThreads(), then the file system goes.  Called   *)
(* by the main thread (shutdown) and by the boot thread.                   *)

(* Mutant: the caller keeps its own mutexes.                               *)
StopBeginLocked(self) == UNCHANGED lockVars

(* The exchange lets one caller through; it releases the mutexes only if   *)
(* it is their owner.                                                      *)
StopBegin(self) ==
  IF self = owner
  THEN Unlocked
  ELSE UNCHANGED lockVars

(* joinThreads() of each database in turn: the scan thread, then the       *)
(* covers thread whose handle it left behind.                              *)
ScanEnded(d) == spc[d] \in {"none", "done"}
CoversEnded(d) == cpc[d] \in {"none", "done"}

(* Mutant: the covers thread is joined first, when its handle may not be   *)
(* there yet.                                                              *)
JoinStepCoversFirst ==
  /\ jdb < NDB
  /\ IF ~jscan
     THEN CoversEnded(LockOrder[jdb + 1]) /\ jscan' = TRUE /\ jdb' = jdb
     ELSE ScanEnded(LockOrder[jdb + 1]) /\ jscan' = FALSE /\ jdb' = jdb + 1

JoinStep ==
  /\ jdb < NDB
  /\ IF ~jscan
     THEN ScanEnded(LockOrder[jdb + 1]) /\ jscan' = TRUE /\ jdb' = jdb
     ELSE CoversEnded(LockOrder[jdb + 1]) /\ jscan' = FALSE /\ jdb' = jdb + 1

MainStop ==
  /\ mpc = "stop"
  /\ IF stopping
     THEN mpc' = "unmount" /\ UNCHANGED <<stopping, lockVars>>
     ELSE mpc' = "join" /\ stopping' = TRUE /\ StopBegin("main")
  /\ UNCHANGED <<dataVars, scanVars, coverVars, active, view, bootVars, jdb, jscan, mounted>>

MainJoin ==
  /\ mpc = "join"
  /\ IF jdb < NDB THEN JoinStep /\ mpc' = mpc
                  ELSE mpc' = "unmount" /\ UNCHANGED <<jdb, jscan>>
  /\ UNCHANGED <<dataVars, lockVars, scanVars, coverVars, active, view, bootVars,
                 stopping, mounted>>

(* fatUnmount(), USB shutdown and the end of this program.                 *)
MainUnmount ==
  /\ mpc = "unmount"
  /\ mounted' = FALSE
  /\ mpc' = "off"
  /\ UNCHANGED <<dataVars, lockVars, scanVars, coverVars, active, view, bootVars,
                 stopping, jdb, jscan>>

BootStop ==
  /\ bpc = "stop"
  /\ IF stopping
     THEN bpc' = "unmount" /\ UNCHANGED <<stopping, lockVars>>
     ELSE bpc' = "join" /\ stopping' = TRUE /\ StopBegin("boot")
  /\ UNCHANGED <<dataVars, scanVars, coverVars, mainVars, jdb, jscan, mounted>>

BootJoin ==
  /\ bpc = "join"
  /\ IF jdb < NDB THEN JoinStep /\ bpc' = bpc
                  ELSE bpc' = "unmount" /\ UNCHANGED <<jdb, jscan>>
  /\ UNCHANGED <<dataVars, lockVars, scanVars, coverVars, mainVars,
                 stopping, mounted>>

BootUnmount ==
  /\ bpc = "unmount"
  /\ mounted' = FALSE
  /\ bpc' = "work"
  /\ UNCHANGED <<dataVars, lockVars, scanVars, coverVars, mainVars,
                 stopping, jdb, jscan>>

-----------------------------------------------------------------------------
(* The scan and covers threads have the lowest priority: while the boot    *)
(* thread spins they never run.                                            *)
LowPriorityRuns == bpc # "spins"

Scan(d) ==
  /\ LowPriorityRuns
  /\ \/ ScanNoDirectory(d) \/ ScanLookup(d) \/ ScanEntry(d) \/ ScanInterrupted(d)
     \/ ScanRead(d) \/ ScanLock(d) \/ ScanUpdateGames(d)
     \/ (d = HB /\ ScanUpdateHomebrews)
     \/ ScanSave(d) \/ ScanSpawnCovers(d) \/ ScanSignal(d)

LoadCovers(d) ==
  /\ LowPriorityRuns
  /\ \/ CoversInterrupted(d) \/ CoversListed(d) \/ CoversCopy(d) \/ CoversLock(d)
     \/ CoversAssign(d) \/ CoversSave(d)

MainFrame ==
  \/ \E d \in DBs : MainStartDB(d)
  \/ MainStarted \/ MainLock \/ MainLocked \/ MainTheme \/ MainHandle \/ MainDrawDone
  \/ MainUnlock \/ MainPresent \/ MainNextFrame

MainExit == MainPowerOff \/ MainLeave \/ MainBootVerbose \/ MainBootAnimated

MainShutdown == MainStop \/ MainJoin \/ MainUnmount

Draw == \E p \in Path, onScreen \in BOOLEAN : DrawCover(p, onScreen)

BootWork == BootLog \/ BootSleep \/ BootQuiet

BootProceed == BootUnmountFAT \/ BootLaunch

BootShutdown == BootStop \/ BootJoin \/ BootUnmount

Next ==
  \/ \E d \in DBs : Scan(d) \/ LoadCovers(d)
  \/ MainFrame \/ Draw \/ MainExit \/ MainShutdown
  \/ BootWork \/ BootProceed \/ BootFail \/ BootSpins \/ BootShutdown

Spec == Init /\ [][Next]_vars

-----------------------------------------------------------------------------
(* Fairness.  A thread that can run does run in the end: the main thread   *)
(* sleeps in every frame (VSync, USB), the boot thread in every line.  A   *)
(* mutex goes to a thread that waits for it when it is released, so a      *)
(* thread whose next step is possible time and again takes it.  The boot   *)
(* thread prints finitely many lines.  Nobody has to leave the loop.       *)
Fairness ==
  /\ SF_vars(MainFrame) /\ WF_vars(MainShutdown)
  /\ \A d \in DBs : SF_vars(Scan(d)) /\ SF_vars(LoadCovers(d))
  /\ WF_vars(BootWork) /\ SF_vars(BootProceed) /\ WF_vars(BootShutdown)

FairSpec == Spec /\ Fairness

-----------------------------------------------------------------------------
(* Properties.                                                             *)

MainStates == {"start", "lock", "theme", "handle", "draw", "unlock", "present", "top",
               "asleep", "animation", "stop", "join", "unmount", "off"}
BootStates == {"none", "new", "work", "log", "wait", "missed", "stop", "join", "unmount",
               "launched", "failed", "spins"}
ScanStates == {"none", "begin", "iterate", "commit", "update", "save", "spawn", "signal", "done"}
CoversStates == {"none", "list", "copy", "resolve", "assign", "done"}

(* Every variable has the type of the code's.                              *)
TypeOK ==
  /\ drive \in Drives
  /\ cache \in [DBs -> [Path -> Line \cup {Absent}]] /\ unsaved \subseteq Unwritable
  /\ games \in [DBs -> [Path -> Entry \cup {Absent}]]
  /\ live \subseteq Objs /\ gpu \subseteq Objs
  /\ mutex \in [DBs -> {"free", "main", "scan", "covers"}]
  /\ owner \in {"none", "main"} /\ nlocked \in 0..NDB
  /\ spc \in [DBs -> ScanStates] /\ cpc \in [DBs -> CoversStates]
  /\ todo \in [DBs -> SUBSET Path] /\ verified \in [DBs -> SUBSET Path]
  /\ fresh \in [DBs -> SUBSET Path] /\ lookup \in [DBs -> SUBSET Path]
  /\ coverMap \in [DBs -> SUBSET Path] /\ trigger \in [DBs -> BOOLEAN]
  /\ mpc \in MainStates /\ active \in DBs \cup {"none", "boot"}
  /\ view \in [DBs -> SUBSET Path]
  /\ bpc \in BootStates
  /\ stopping \in BOOLEAN /\ mounted \in BOOLEAN
  /\ jdb \in 0..NDB /\ jscan \in BOOLEAN

(* No image is used after it is deleted: whatever an entry points to and   *)
(* whatever the GPU still reads in this frame is allocated, although the   *)
(* scan and covers threads delete images while the main thread draws them  *)
(* (titles.cpp 269-288, hb.cpp 205-224, main.cpp 385-394).                 *)
ImagesAllocated ==
  /\ gpu \subseteq live
  /\ \A d \in DBs : \A p \in Listed(d) :
       games[d][p].image # "null" => Obj(d, p, games[d][p].image) \in live

(* Pointers that the scan and covers threads took into the games vector    *)
(* under the mutex, and use after releasing it, still point to entries     *)
(* (lookup, titles.cpp 142-147; coverMap, 243-248).                        *)
PointersValid ==
  \A d \in DBs :
    /\ spc[d] = "iterate" => lookup[d] = Listed(d)
    /\ cpc[d] \in {"resolve", "assign"} => coverMap[d] \subseteq Listed(d)

(* Once the file system is unmounted no scan or covers thread is left to   *)
(* read a directory or to write a cache file (unmountFAT, system.cpp       *)
(* 240-250), even though a second caller of stopTitlesThreads() does not   *)
(* wait for the joins of the first (titles.cpp 301).                       *)
UnmountedQuiet ==
  ~mounted => \A d \in DBs : ScanEnded(d) /\ CoversEnded(d)

(* The image an entry shows was loaded from the cover its coverPath now    *)
(* names, and an entry shows the shared dummy only if it has no cover,     *)
(* however scan, covers thread and drawing interleave.                     *)
ImageShowsCover ==
  \A d \in DBs : \A p \in Listed(d) :
    /\ games[d][p].image \in OwnImages => games[d][p].cover = games[d][p].image
    /\ games[d][p].image = "shared" => games[d][p].cover = "none"

(* After all the threads of a database ended without being stopped, its    *)
(* list is the content of the drive, up to date and with the best covers,  *)
(* and the cache file says the same unless it could not be opened when it  *)
(* was written last; whatever cache file it started from.                  *)
ScanResult ==
  \A d \in DBs :
    (spc[d] = "done" /\ CoversEnded(d) /\ ~stopping /\ d \in drive.dirs) =>
      /\ Listed(d) = drive.files[d]
      /\ \A p \in Listed(d) :
           /\ games[d][p].ver = "current"
           /\ games[d][p].cover = IF d = HB THEN NewCover(d, p) ELSE ResolveCover(d, p)
      /\ d \notin unsaved => cache[d] = CacheLines(d)

(* When a scan has ended and its trigger is gone, the script of the view   *)
(* has counted the final list (hasFinishedScanning, rvltrigger.h).         *)
ViewFresh ==
  (active # "none") =>
    \A d \in DBs : (spc[d] = "done" /\ ~trigger[d]) => view[d] = Listed(d)

(* A scan replaces a list as a whole or not at all: a scan that is stopped *)
(* half-way drops no title (titles.cpp 152-160, hb.cpp 202).               *)
ScanAllOrNothing ==
  [][\A d \in DBs : Listed(d)' # Listed(d) =>
       \/ spc[d] = "none"
       \/ Listed(d)' = drive.files[d]]_vars

(* A cache file is written by a thread that holds the mutex of its list,   *)
(* never after the file system is gone.                                    *)
CacheWrites ==
  [][cache' # cache => mounted /\ \A d \in DBs :
       cache'[d] # cache[d] => mutex[d] \in {"scan", "covers"}]_vars

(* The main thread plays the animation, with all the mutexes: what then    *)
(* comes to an end is AnimationAfterScans' and AnimationEnds' matter.      *)
Animated == mpc = "animation"

(* Every scan ends, stopped or not, even though the main thread takes all  *)
(* the mutexes in every frame; unless a boot that failed spins and no other *)
(* thread runs (hiidra.cpp 969, 1103).                                     *)
ScansEnd ==
  \A d \in DBs :
    spc[d] = "begin" ~> (ScanEnded(d) /\ CoversEnded(d)) \/ Animated \/ bpc = "spins"

(* A thread that begins to unmount the file system gets there: the joins   *)
(* do not wait for a thread that waits for the caller's own mutexes        *)
(* (titles.cpp 303-309).                                                   *)
StopCompletes == (mpc = "stop" \/ bpc = "stop") ~> ~mounted \/ Animated

(* The boot thread is through: the game runs, or it cannot be booted.      *)
BootOver == bpc \in {"launched", "failed", "spins"}

(* A game booted with the log screen is launched, unless its files fail it *)
(* or the power button is pressed; or a frame was shown just when the boot *)
(* thread had asked for it and did not sleep yet (Redraw tells when that   *)
(* can happen): then both threads sleep for ever.  No other order of the   *)
(* two threads' signals and sleeps, nor the joins, stops the boot.         *)
BootCompletes ==
  bpc = "new" ~> BootOver \/ bpc = "missed" \/ mpc = "off" \/ Animated

(* A game booted with the animation is launched if every scan had ended    *)
(* before: then unmountFAT() has no thread to wait for.                    *)
AnimationAfterScans ==
  (mpc = "animation" /\ \A d \in DBs : ScanEnded(d) /\ CoversEnded(d)) ~> BootOver

(* hiidra.cpp 1106-1107: the boot thread gets to the animation's last part *)
(* and to the disc loader.  The main thread plays the animation from       *)
(* inside handleInputs(), with all the mutexes; a scan or covers thread    *)
(* that waits for one never ends, and neither does the join.               *)
AnimationEnds == Animated ~> BootOver

=============================================================================
