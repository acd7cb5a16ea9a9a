# RVLoader: models, checks and proofs

RVLoader is a game loader for Wii portables. Its front-end (`main/`) lists the
titles on a USB drive in several views, lets theme scripts draw them, and boots
what the user picks: a DOL, or a Wii game through the Hiidra kernel. An installer
(`installer/`) puts Priiloader in the place of the System Menu to start it. This
directory holds TLA+ models of it, the TLC runs that check them on small
instances, and TLAPS proofs of the safety properties for all instances.

Run `tlc -config Titles.cfg MCTitlesDB.tla` (and so on) for a run, and
`tlapm TitlesDB_proofs.tla` (and the other `_proofs` modules) for the proofs.

## Inventory

| Part | Source | State it keeps | Operations | Speaks to |
|---|---|---|---|---|
| Title databases | `main/source/titles/titles.cpp`, `hb.cpp`, `gc.cpp`, `wii.cpp` | the `games` vectors, their mutexes, cache files, one trigger each | read cache, scan, update covers, write cache, stop | main loop (mutexes, trigger), file system |
| Main loop | `main/source/main.cpp`, `gui/guigamesview.cpp`, `gui/guihbview.cpp` | the active view, loaded images, `hasToShutdown`, `controlledRedraw` | lock, handle inputs, draw, wait for the GPU, unlock, present | title databases, boot thread (two sleep queues) |
| Shutdown | `main/source/system.cpp` | `_fatInitialized`, `titlesThreadsStopping` | `shutdown()`, `unmountFAT()`, `systemError()` | title databases, USB storage |
| Hiidra boot | `main/source/hiidra.cpp`, `discAnim.cpp` | log ring, kernel image | boot thread, log lines, kernel forging | main loop, `unmountFAT()`, IOS |
| USB storage | `common/source/usbstorage.c` | one device handle, its tag, alarm and last result, the shared time-out | transfer with time-out, bulk-only cycle, reset, mount | IOS (callbacks), libfat |
| GC+ 2.0 | `main/source/peripherals/gcplus.cpp` | update flags, one recursive mutex | serial commands, EEPROM, flash update thread, mapping | serial interface, Lua |
| I2C bus | `main/source/i2c.c` | one recursive mutex, the mode of the lines | start, stop, bytes, register reads and writes | boards on the bus |
| PMS2 | `main/source/peripherals/pms2.cpp` | update flags, one mutex | getters and setters, flash update thread | I2C bus, Lua |
| Configuration | `main/source/config.cpp`, `virtualsysconf.cpp` | typed maps, SYSCONF image | open, get, set, save | files, Lua |
| Priiloader's installation | `installer/source/priiloader.cpp` | files of the NAND | copy the System Menu aside, write Priiloader in its place, back up and patch the TMD, write settings | ISFS/ES |
| Files of a boot | `main/source/systitles.cpp`, `hiidra.cpp`, `system.cpp` | the drive: settings, modules of IOS58, channels, saves | write, install a WAD, copy a save | file system, kernel |
| Other installation | rest of `installer/` | NAND titles | install IOS and a channel | ISFS/ES |
| GUI | `libGUI/`, `main/source/theme.cpp`, theme scripts | element trees, focus, animations | draw, handle inputs, switch element | main loop |
| Boot stages | `bootloader/`, `dolbooter/`, `discloader/` | none beyond one run | load and jump | hardware |

Threads are LWPs of libogc: preemptive priorities, main 64, boot thread 50, scan,
covers and update threads 30. Callbacks of IPC, alarms and the serial interface
run in interrupt context. The hard parts are therefore interleavings: images that
two threads delete and a GPU still reads, pointers kept across an unlocked
section, joins that wait for threads that wait for the joiner, flags and queues
between main loop and boot thread, results that arrive before, during or after a
time-out, what each of these leaves on the drive when the program ends, and an
installation that rewrites what the console boots and may lose power at any step.

What makes each part correct:

* *Title databases*: no image is used after it is deleted; no pointer dangles; a
  list is replaced as a whole or not at all; when the threads are through, list,
  covers and cache file are what the drive holds; the view shows that list.
* *Shutdown*: nothing touches the drive after it is unmounted, and shutting down
  never waits for itself.
* *Hiidra boot*: a boot gets to its launch whatever the scans are doing.
* *USB storage*: a successful read or write moved every byte of this very command;
  nothing waits forever for a device that does not answer.
* *GC+ and PMS2*: an update that reports success left the whole payload in flash;
  nobody else talks to the board meanwhile; the flags the interface polls are right.
* *I2C*: the calls of several threads take effect one at a time and leave the bus
  at rest, whatever byte is refused.
* *Files of a boot*: a game that is launched finds what it needs whole, after any
  number of boots that were cut off; a save it made is not overwritten.
* *Priiloader's installation*: as long as the console can boot it boots the menu or
  Priiloader, and the only copy of the menu is never lost; a run that was cut off can
  be completed by another.
* *Configuration*: what was set is what is read after save and open.

## Modules

| Modules | What they model | Checked by | Proved |
|---|---|---|---|
| `TitlesDB` | databases, main loop, shutdown, boot thread | `titles`, `titles_live`, `titles_animation_stuck` | all safety |
| `Redraw` | the handshake of main loop and boot thread, with priorities | `title_order` | all |
| `TitleOrder` | `compare()` as an order, and the sorted list | `title_order`, `title_order_prefix` | all |
| `BootFiles` | what booting a Wii game leaves on the drive | `title_order` | all |
| `UsbTransfer` | one asynchronous message with its alarm and callback | `usb_transfer`, `usb_transfer_stuck` | all safety |
| `UsbStorage`, `BlockDevice` | the bulk-only cycle with retries, tags and resets, and the abstract block store it implements | `usb_storage` | all safety, the refinement |
| `GCPlus` | sessions with the GC+ board, EEPROM retries, the update thread | `gcplus` | all safety |
| `I2C`, `Registers` | the bit-banged bus, and the abstract registers it implements | `i2c` | all safety, the refinement |
| `PMS2` | the power board's update thread and what the main thread asks meanwhile | `i2c` | all safety |
| `Priiloader`, `Handover` | an installation in the System Menu's place, and the abstract order of what it may do | `priiloader`, `priiloader_menu_lost` | all, the refinement |

The `MC...` modules give the small instances, the `..._proofs` modules the proofs.
Modules rest on each other in three places. `UsbStorage` takes from `UsbTransfer`
what a message can do, a late answer of a reset included. `PMS2` takes a call of
the bus to be one step because `I2C` implements `Registers`. `TitlesDB` and `Redraw`
both have the handshake of main loop and boot thread: the one with all other threads but
without priorities, the other with the priorities that keep most of its races out.

## TitlesDB

The state is that of the code: `games[d][p]` is the entry at path `p` of database
`d` (its order in the vector is left out), `live` the allocated `GuiImage`
objects, `gpu` those the current frame's GX commands read, `mutex`, `owner`
(`titlesDBsOwner`) and `stopping` (`titlesThreadsStopping`) the code's variables;
`spc`, `cpc`, `mpc` and `bpc` say where the scan, covers, main and boot threads
are. `lookup` and `coverMap` are the pointers the threads keep. A cover path is
abstracted to which file it names, an mtime to whether it is the drive's.

Each action is a piece of code between two points where another thread can run or
take notice: every directory entry of a scan is one (`ScanEntry`), every mutex
`lockTitlesDBs()` takes, every join, and every entry that `loadCoversThread()`
updates. A critical section that only reads (`ScanLookup`, `CoversCopy`) is one
step. Threads interleave without regard to their priorities, which only forbid
some of these behaviours, but for two places where a property needs them. A boot
thread that spins (`BootSpins`: `while(1)` after a WAD that cannot be installed,
`hiidra.cpp:969`, or without a disc drive, 1103) keeps the scan and covers threads, of
lower priority, from ever running again (`LowPriorityRuns`). And after its signal the
main thread, of higher priority, is back at the top of the loop before the boot thread
takes a step (`MainPresent`).

The redraw handshake is that of the code: a signal wakes only who sleeps in that
moment. Once redraws are controlled the main thread sleeps at the top of the loop
(`asleep`) until `BootLog` wakes it; the boot thread has signalled and does not sleep
yet in `log`, sleeps in `wait`, and in `missed` has missed the frame it asked for. A
frame shown later would wake it (`MainPresent`), but the main thread sleeps as well.

The environment is any drive, and any cache file that an earlier session of the program
can have left: lines that are outdated or whose title is gone, or only some of them,
after a power cut. A cache written by hand is not represented: two lines for one path, or
an mtime that is no number, for which `std::stoll()` throws (`titles.cpp:106`,
`hb.cpp:124`). `writeCache()` may fail to open the file (`Unwritable`), which then stays as
it is (`unsaved` is what `ScanResult` excepts); a drive that is full in the middle of it
leaves what a power cut leaves. The theme's script may draw any listed entry on or off
screen, and switch views at any input.

Runs (all in module `MCTitlesDB`; the machine powers off or starts another
program, hence no deadlock check):

| Run | Instance | Shows |
|---|---|---|
| `titles` | a games database with two titles (one cover of its own, one of another region) and no dummy cover, or the homebrew list with two (one icon of its own) and a dummy icon that old caches name; the other list empty; power button, script exits and verbose boot | all safety and action properties |
| `titles_live` | one game, verbose and animated boot, with fairness | every scan ends unless the boot thread spins, every stop completes, a verbose boot launches or cannot, unless it missed its frame, an animated one launches if the scans had ended |
| `titles_animation_stuck` | the same | an animated boot may hang if they had not: see below |

Two titles are enough for one that stays and one that goes, or two covers of
different kinds, in the same scan. The threads of different databases share
nothing but the stop flag and the main thread's locking, and the empty list is a
second database in every run, which is why `OneListInit` lets only one have titles.
The proofs hold for every number of both.

*Fairness* (`Fairness`): a thread that can run time and again does run. The main
thread sleeps in every frame for VSync, which is when threads of lower priority
run; a released LWP mutex is handed to a thread that waits for it, which is
strong fairness for the thread whose next step is to take it. The scan and covers
threads can run only while the boot thread does not spin, so that nothing is assumed of
them then and `ScansEnd` excepts it. Nothing obliges the user to leave the main loop or
to press the power button, or a boot to fail. `BootCompletes` excepts `missed`, which is
the race of `Redraw`, wider here for want of priorities; every other way to lose a signal
is open as well, and the run shows that none stops the boot.

*A finding.* With the animated loading screen, `bootHiidra()` calls `discAnim()`
(`hiidra.cpp:1256`), which never returns, from inside `handleInputs()`: the main
thread holds every database mutex for good. `stopTitlesThreads()`, called by the
boot thread's `unmountFAT()`, releases the mutexes only when the caller is their
owner (`titles.cpp:303`). A scan or covers thread that still has to take its
mutex then never ends and the join never returns: the animation plays forever.
`AnimationEnds` is violated; `AnimationAfterScans` shows that it is this that goes
wrong and nothing else.

## Redraw

While a game boots, the main loop draws a frame only when the boot thread has a new
line for the log. Each thread sleeps in a queue of its own (`waits`, `sleeps`), and
`LWP_ThreadSignal()` wakes who sleeps at that moment and is lost otherwise. Nothing
but the priorities makes that work, so they are in the model: the boot thread takes
a step only when the main thread waits (`BootRuns`), and the main thread is
preempted only where it blocks: in its queue, for a mutex of the databases, for the
GPU and, always, for VSync between drawing and signalling (`MainEnd`).

`TitlesDB` has the same handshake and shows what it does among the other threads.

`LinesShown` says that the boot thread goes on only when its line was drawn. The
first line is an exception: the frame in which the user picked the game is still
under way then. `NoSignalLost` names the one way in which the two can come to wait
for each other: VSync comes between the boot thread's `LWP_ThreadSignal()`
(`hiidraAddLogLine()`) and its `LWP_ThreadSleep()`, a few instructions later. The
history variable `raced` records just that. No text of the repository says that it
cannot happen, so it is no finding here.

## TitleOrder

`Less` is `GameContainer::compare()` on names as sequences of code points, `Insert`
one step of the insertion sort that libstdc++'s `std::sort()` is for lists of up to
16 elements. `Before` is alphabetical order, stated without `Less`.

`title_order` sorts every list of up to four of six names, two of which differ in
case only; other behaviours of the same run (`part`) are those of `Redraw` with
up to four lines and those of `BootFiles`. *A finding*: `title_order_prefix` shows that "The first string comes
first if it reached the end before" (`titles.h:55`) is not what the code does: the
end of a string is tested as `buffer1 == NULL` (line 56), which is never so. "AA" and
then "A" stay in that order; worse, "A" is then equivalent to "AA" and to "AC" while
these are not equivalent, which `std::sort()` does not allow.

## BootFiles

A boot writes some files each time (`Rewritten`) and others only if they are not there:
the modules of IOS58, which it looks for one by one, a channel and the save of a disc
game, of which it looks for `title.tmd` alone. `drive` is what each file holds, whole and
of which version, or cut short; `at` is how far the boot has come, `file` what is open
for writing. The power may go between any two steps (`PowerCut`), a file may not open
(`CannotOpen`), a write may fail (`CloseShort`), the WAD may be replaced (`NewWad`), and
the games that run save on the drive or in the NAND. `copyWBFSData()` returns early when
the game, the NAND's directory or its `title.tmd` cannot be opened (`CannotLook`), or when
there is nothing to copy (`NoCopy`); `copyNANDDirToUSB()` passes over a file it cannot
open and over all of a directory it cannot read (`SkipSave`). That opening a file for
reading succeeds when it is there is assumed. The drive, the NAND and the kernel
are external; that a game's save lies beside the `title.tmd` the kernel makes is what IOS
does in the NAND. SYSCONF stands for what the main thread writes before the boot thread
starts. `modules.txt` is appended to after it was removed. That `fopen()` of it or of a
save fails is undefined in the code (`fprintf()`, `fclose()` of `NULL`) and left out.

`LaunchedWhole` says that a game that is launched has the settings, modules, title and
save it needs, and `ProgressKept` that the save in the NAND, which goes on as well when
the game is also played without saves on the drive, is never copied over the one there.
The order of the writes is what they rest on: the metadata come after the contents.

Three things can go wrong for good, and nothing in the code would notice; the history
variable `torn` names them and `LaunchedWhole` excepts them: a file that is cut short or
could not be written and is found at every later boot (a module, `title.tmd`, a part of
a title or save); a reinstallation that stops half-way, when `title.tmd` is there from
the start (`over`); and a save of which `title.tmd` was copied first, which depends on
the order of the NAND's directory, and the rest was not, or was passed over. `slip` is
the set of what this very boot could not open, write or look at: each is excepted from
what `LaunchedWhole` says of that file, and of no other. The comments "Check if wad is already
installed by reading the tmd" (`systitles.cpp:321`) and "Check if save already exists"
(`hiidra.cpp:870`) say what the code looks at and promise no more.

`title_order` has, besides its other behaviours, those of boots of channels, forced
reinstallations among them, and those of boots of a disc game with saves on the drive or
without (`part`), which share only the modules and the files written at every boot; the
proofs let them follow each other. One module, one content and two versions of a WAD, two settings, two
saves: what one boot left is then told from what the next one wants, and a loop over more
files is in `Save`. The power may go any number of times.

## USB storage

Two modules, one above the other. Only one thread at a time is in the driver:
libfat holds its partition lock around every call of the disc interface, and the
driver its own `dev->lock` around every command.

`UsbTransfer` is one message: `retval` is `dev->retval` together with the message
it is about (the code has only the number; the pair is what lets a property ask
whose result was returned), `inflight` what IOS has not answered, `alarm` the
message for which `dev->alarm` was set. `Answer` and `Timeout` are the callbacks,
in interrupts, between any two steps of the thread. IOS may never answer.
`cancels`, fixed at the start, is whether `USB_ClearHalt()` ends what is left on the
endpoint: the code relies on it and nothing in the repository says it.
`usb_transfer` lets four messages of either kind follow each other, which is enough
for an alarm of the first to go off in the second and an answer of the second to
arrive in the fourth. *Fairness*: the thread runs and an alarm that is set goes off.

*A finding.* `dev->retval` is tested and the thread put to sleep in two steps
(`usbstorage.c:167-170`). If the callback comes between them it cancels the alarm
and wakes nobody, and the thread sleeps forever: `TransferEnds` is violated. A
few instructions wide, and every transfer of the drive passes it. The same run
showed what `CountIsOwn` has to assume: a control message (only the bulk-only reset
is sent while transfers go on) that timed out is never cancelled, and its late
answer 0 is the result of a later message.

`UsbStorage` is the cycle of a command above such messages: each can succeed, fail
or time out, with or without having reached the drive. `step` is the command (the
nine of the wake-up, then the transfer), `round` the second try of
`clearerrors()` and `Inquiry()`, `retries` and `code` the variables of `__cycle()`.
The drive owes the host data and statuses in order (`owed`) and may wait for data
(`job`); a reset clears both, unless it fails, times out, or takes effect later
(`late`). What `UsbTransfer` shows about late answers of a reset is in `SendCBW` (0
passes for success) and in the errors of the other messages.

`BlockDevice` is what the file system relies on, and `ImplementsBlockDevice` that
the driver provides it: a call that succeeds has done all it was asked, and no call
changes another's block. The third way to end, `unnoticed`, is the code's: it
compares the SCSI status only if `__cycle()` returned more than 0
(`usbstorage.c:754, 791`), which it never does, so that what the drive refuses is
reported as done. The abstraction says so in the open.

| Run | Instance | Shows |
|---|---|---|
| `usb_transfer` | four messages, bulk or control | `CountIsOwn`, `SleepsArmed`, `ArmedSleepEnds` |
| `usb_transfer_stuck` | one bulk message | the lost wake-up |
| `usb_storage` | two calls for two blocks of two messages and one retry, or one that follows a minute's rest and wakes the drive up first, with fairness | the refinement, with leftovers of the first call in the second, and through the wake-up; a call that succeeds leaves nothing under way; every call returns, if every message does |

`CallsEnd` is about retries, resets and `clearerrors()` and takes a message to end, by an
answer or by its alarm. The code does not quite give that: in the few instructions of
`usb_transfer_stuck` a message sleeps for ever, and its call with it.

`Retries` is 3 in the code and 1 here: the attempts differ only in how often they
are made, and a second one meets all that a first can leave behind. `MaxTag` is
large enough that no behaviour reaches it (`CallsEnd` would fail otherwise).
`MaxOwed` limits what the drive still owes when it takes a new command (two things,
or one once a wake-up goes on); above it the drive refuses. Left out: seconds, the 16 or 4 KB of a message, the bounce
buffer, `dataResidue` (nobody reads it), the sector size.

## GCPlus

The main thread's sessions are sequences of calls (`Calls`), each of which takes
`GCPMutex`; `at` is the place in a call of more than one transfer. `holder` is the
owner of the mutex, which is recursive. `read` is a getter of a setting, which reads the
packets of the EEPROM until one fails (`ReadPacket`) and ignores it; `save` a setter or
`loadDefaultSticksConfig()`; `saveBoth` the setter that writes twice
(`luagcpluslib.cpp:242`); `resetSticks` the safe menu's, which ends with a reset of the
board. The theme's controller settings do nothing else while an update is under way
(`Begin`), so that `startUpdate()`'s own early return (`gcplus.cpp:676`), which
`StartUpdate` has, is never taken. A transfer is one step, since nobody else
can make one meanwhile. The update thread's `upc` follows `updateThread()` and
`flashPayload()`; packets stand for 32 bytes, `address` is counted in packets, and
`updateProgress` too (a percentage is 100 only when all are sent). The board is
external: locked until it gets the key, refusing what its running program does not
know, with a buffer of a block and an index that is anything after a start.

Any transfer can fail: "timeout" without a callback, or "error", which
`padCallback()` does not look at and after which `answer` is what the serial
interface's buffer held, the command and so not `GCP_ERR_NONE`; the version read is
then anything. Either way the command may have reached the board.

| Run | Instance | Shows |
|---|---|---|
| `gcplus` | three sessions of any kind, three packets in blocks of two, two equal packets of settings, an EEPROM that may not keep them, one failure, with fairness | all of them; `AllEnd`: every session and every update ends |

Three packets leave the last block half full; two sessions are an update that stops
in the middle and one that is tried again, and the third is a view that talks to
the board while it runs. *Fairness*: a thread that can run time and again does, and
a released mutex is handed to whoever waits for it; failures are finitely many.
`Begin` assumes what priorities and VSync give, that the update thread has taken the
mutex before the main thread's next session, and `StartUpdate` what the theme's two
seconds give, that the last thread has returned.

What the properties do not promise is what the code does not: after a failed transfer
the board may stay unlocked, a write may be taken for verified (the comparison is then
with the packet before), and an update is reported as successful though its last
command, which starts the payload, was refused.

## I2C and PMS2

`I2C` is the driver line change by line change. `Code` gives the steps of each function
of `i2c.c`, because that is what the code is: straight lines of `i2c_setSCL()` and
`i2c_setSDA()` with a sleep after each, a wait for the clock, and the lock at the
beginning and at the end. `at` says where each thread is (function, step, byte, bit), and
`Follows` what a call does after a function, which is where the calls differ. The one
test, whether a byte was refused (`TakeAck`), goes to `refused`, the error path of
`i2c_sendByte()` with its own stop, after which the caller makes another. The mutex is
recursive (`MayLock`), and threads are preempted at every step. The board on the bus is
external: it takes a bit when the clock rises and answers when it falls, may refuse any
byte, may hold the clock. `i2c_init()` takes the mutex once around a stop condition,
`isConnected()` of the board takes none around its start, address and stop: it is
main()'s alone, before any other thread is there (`BootNext`).

`Registers` is what the users of the driver want: a call writes some registers and
reads some, at once; one that reports an error has written a prefix. The refinement
maps the abstract registers to those the board had when the mutex was taken, while
it is held. `BusRests` is the other half: between calls both lines are high and the
board idle, whichever byte was refused before.

`PMS2` is `updateThread()` with a call of the bus as one step. A block can be damaged
on its way (the board's bootloader then answers an error and the thread tries again)
or refused by the bus, which the code does not look at: it takes the answer to the
block before for this one's. `unsure` records that, and `FlashedWhole` excepts
those updates. `tempSize` is a `u32` that goes down by a block at a time and is 0
only after a whole number of blocks: a file that was cut off must not end in
success, and does not because the board refuses its last part (`FlashedWhole`); only
in an `unsure` update does `tempSize` underflow. `LooksAtFlag` and `Asks` are
every getter and setter: the flag is read under `updateMutex`, the board is asked
after its release. Nothing comes in between, as the thread that asks is also the one that
starts updates: `BoardUndisturbed` holds because the flag is set before the update
thread is there and cleared when it is through with the board.

| Run | Instance | Shows |
|---|---|---|
| `i2c` | two threads, two calls of six kinds after the four of `main()`, bytes of two bits, four registers, one board of two addresses probed; or up to three updates from a whole file, one cut off and one for the other board, flash of three blocks, two calls refused or blocks damaged; with fairness | all of both |

Each behaviour is one of the two modules (`part`), which share no variable. Two bits
make a byte of which one bit is the first and one the last, and two calls make one
that follows another's error and two that overlap. `Word` is 16 where the code has
2^32; more than a whole flash is below it, as in the code. Three updates let one find what two that failed
left. *Fairness*: threads go on, and a board lets the clock go; `i2c_setSCL()` waits
for it without a time-out, so that a board that never did would stop everything.

## Priiloader

`Priiloader` is `installPriiloader()` with each change of the NAND as one step:
`phase` is the piece of the installation, `step` the place in it. `Copy...` are
`nand_copy()`, which writes to `/tmp`, verifies, deletes the target and renames;
`Loader...` are `WritePriiloader()`, `LookUpBackup` to `PatchBuffer` `PatchTMD()`, the
last ones the settings and files. The power may go at any step (`PowerCut`), what was
being written is then cut short, and the installer may run again, or after
Nintendo's updater installed another System Menu (`NewMenu`). One call of
a run may fail, at any of the places in `Faults`.

`Handover` is the order that keeps a console bootable: the menu leaves its place only
when a whole copy is aside, the copy goes only when the menu is back. `HandsOver` is
the refinement. `TmdKept` and `AutobootHasTarget` relate files that different
phases write; `RunEndsWell` says what a run that was not cut off leaves.

| Run | Instance | Shows |
|---|---|---|
| `priiloader` | two System Menus one after the other, any number of runs and power cuts, one failing call per run out of `Survivable` | all of them |
| `priiloader_menu_lost` | a read-back of the new Priiloader that fails | the finding |

Two versions are the current one and one older or newer, which is what the backup of
the TMD has to be told from. Thirteen calls are not in `Survivable`: reads whose
failure is taken for the answer "there is none", errors that `nand_copy()` keeps in a
`u8` and so loses (`priiloader.cpp:440`), no memory for the copy of the System Menu, for
which it returns 0 and its caller takes the menu to be copied (`priiloader.cpp:353`,
`CopyNoMemory`), writes nobody looks at, and those of the finding. With any of the losses
of `nand_copy()`, Priiloader then replaces the only menu; `MenuNoMemory` and
`MenuNotVerified` of `MCPriiloader` are the instances that show it for `MenuKept`. They are
no runs, as the repository nowhere says what `nand_copy()` returns.

*A finding.* When Priiloader is written over an earlier one and cannot be read back,
`WritePriiloader()` deletes the copy of the System Menu and says "System Menu
Recovered" (`priiloader.cpp:1009`). That is right at a first installation, when the
menu is still in its place; in an update the copy was the only one. `MenuKept` is
violated.

## What is proved

`TitlesDB_proofs` proves, for every set of databases, titles, covers, drives and
caches that meets the named assumptions of `TitlesDB`:

| Theorem | Property |
|---|---|
| `TypeCorrect` | `TypeOK` |
| `ImagesStayAllocated` | `ImagesAllocated` |
| `QuietAfterUnmount` | `UnmountedQuiet` |
| `CacheWritesProtected` | `CacheWrites` |
| `PointersStayValid` | `PointersValid` |
| `ScansReplaceWhole` | `ScanAllOrNothing` |
| `ViewsStayFresh` | `ViewFresh` |
| `ImagesShowCovers` | `ImageShowsCover` |
| `ScansMatchDrive` | `ScanResult` |

The inductive invariant is built in layers, each proved with the ones below it.
`ListInv` (types, and which covers an entry of a list can have), `LockInv` (who
holds which mutex at which place of its code: without it no critical section is
known to be one), `ImageInv` (every image pointed to is allocated, is the entry's
own or the shared dummy, and is not deleted while the GPU may read it: needs
`LockInv` because only the locks keep the scan and covers threads out of a frame),
`BootInv` and `JoinInv` (what has been joined so far has ended, and stays so:
needs that the covers thread exists only after its scan thread), `ScanInv` (the
pointers, and that a scan has seen exactly the entries that are no longer to do),
`ViewInv` and `ResultInv` (what an entry is after the scan, after each assignment
of the covers thread, and after the last). Each has its `...Init` and `...Step`
lemmas, with a case for every action.

`UsbTransfer_proofs` proves, for any number of messages of either kind,
`UsbTypeCorrect` (`TypeOK`), `UsbSleepsArmed` (`SleepsArmed`, strengthened by
`Watched`: from the moment the alarm was set until the result is seen, the alarm or
the result is there) and `UsbCountIsOwn` (`CountIsOwn`, strengthened by `Alone`: a
call begins with nothing under way and only its own message can be answered while
it runs, which the early and late alarms do not change).

`UsbStorage_proofs` proves, for any blocks, messages of a transfer, retries, calls and
tags, `UsbStorageTypes` (`TypeOK`), `UsbStorageSettles` (`SettledAfterSuccess`) and
`UsbStorageImplements`, the refinement `ImplementsBlockDevice`. Neither is inductive, as a
status that is accepted now was put in line several steps ago, after failures that may
have left others there. `PlaceInv` and `OwedInv` say that what the drive owes ends with a
status and that none has a tag of the future; so what an earlier command left ends with a
status that gives itself away. `Pending` says that a drive that waits for data while some
are sent waits for those; and `InOrder` that a status with the current tag, before which no
older one stands, is the last thing owed, comes after exactly the data that are missing,
and, of a write, when all have been stored. From that follows `Success`, what a command
leaves when it is accepted, and from it the response. For the refinement `Call` is a
request, a message of data that the drive takes the write of a piece (of this call's
block, by `Pending`), `Return` a response; every other step stutters.

`GCPlus_proofs` proves, for payloads and blocks of any size and any number of
sessions and failures, `GCPlusTypeCorrect` (`TypeOK`, strengthened by `SentInv`: how
the counters of `flashPayload()` are related), `GCPlusFlashedWhole` (`FlashedWhole`,
strengthened by `FlashInv`, what buffer and flash hold at each place of the loop,
and `HoldInv`, without which the main thread might reset the board meanwhile),
`GCPlusCleanUpdates` (`CleanUpdateSucceeds`, with `CleanInv`: which program the board
runs and whether it is unlocked), `GCPlusWrites` (`WriteVerified`), `GCPlusLockedAtRest`
(`LockedAtRest`) and `GCPlusMappings` (`MappingSet`). The last three are about sessions in
which no transfer failed. `PlaceInv` says which calls of a session are left and that the
update thread does nothing meanwhile, `EepromInv` that the packets before the current one
are in the EEPROM and that the board is still open when one is read back, `LockInv` where
in a session and in an update the board is unlocked, and `MapInv` which of the two bytes
of a mapping have been set. The proofs assume the board's behaviour as modelled.

`Boot_proofs` proves of `Redraw`, for logs of any length, `LinesAreShown` (`LinesShown`) and
`SignalsArrive` (`NoSignalLost`). Both need to know where each thread is when the
other runs: `RedrawPlaces` (who can be asleep where, and `controlledRedraw` is set while
there is a boot thread), `SignalInv` (unless VSync came in the wrong moment, the main
thread does not get from its wait for VSync to its sleep while the boot thread is
between its signal and its sleep) and `LineInv` (a boot thread at work finds the main
thread asleep in its queue or about to be, so that its next signal has a frame drawn).

`PowerBoard_proofs` proves of `I2C`, for bytes of any number of bits, any number of
registers, any threads and calls, and a board that refuses bytes and holds the clock as it
likes, `BusAtRest` (`BusRests`) and `BusImplements`, the refinement
`ImplementsRegisters`. Of the constants it assumes that no two registers have one name and
that main() first calls `i2c_init()`. Neither property says anything of the middle of
a call, so nearly everything is in the invariant:

* `PlacesInv`: a thread is at a step that its call can be at (`Sound`; bytes are counted up
  to what the call sends or reads);
* `PhaseInv`: main() makes its first calls alone, as those of `isConnected()` take no lock;
* `MutexInv`: the mutex is held as often as the place of its owner tells (`Depth`). With
  `PhaseInv`, no two threads are in functions of `i2c.c` (`Alone`);
* `LinesInv`: for each step of each function, which lines are high and what the board
  expects, has received or shows (`Lines`), a clock that is held included; nobody in a
  function means `Rest`. It is preserved by a lemma for each kind of step, and a release of
  the clock changes nothing but for the one who waits for it (`LetGoLines`);
* `DataInv`: for each step, which bytes of the call have been written, where the board
  points, and which registers have been read (`Carries`).

For the refinement a transfer takes effect when it releases the mutex for good
(`TransferEnds`), and every other step stutters, as the abstract registers are those of the
moment the mutex was taken. `WrittenMore` and `NextNumber` say how the registers after
one byte more follow from those before, the wrap after the last register included.

It proves of `PMS2`, for flashes, blocks, words, files and retries of any size and
any number of updates, damaged blocks and refused calls, `PMS2FlashedWhole`
(`FlashedWhole`), `PMS2CleanUpdates` (`CleanUpdateSucceeds`) and `PMS2Undisturbed`
(`BoardUndisturbed`). `LeftInv` says what `tempSize` is at each block and that the
blocks before it are in the flash; the lemmas on sizes (`Fits`, `Shrinks`,
`NothingLeft`) say that it does not overflow and is 0 only at the end of a whole
file, for which the assumption that a word holds more than the flash is needed.
`BlockInv` is what the buffer holds, `DoneInv` that success means the loop came to its
end, `CleanInv` that an update of which no call is refused finds the bootloader and
fails no more tries than there were faults, and `AskInv` that no question is under way
while an update is.

`Priiloader_proofs` proves, for any number of System Menus, runs and power cuts and any
calls that may fail within `Survivable` (the one assumption, `Survives`; the run
`priiloader_menu_lost` shows that it is needed):

| Theorem | Property |
|---|---|
| `PriiloaderTypeCorrect` | `TypeOK` |
| `MenuNeverLost` | `MenuKept`, which a run shows broken without the assumption |
| `TmdNeverLost` | `TmdKept` |
| `AutobootWhole` | `AutobootHasTarget` |
| `RunsEndWell` | `RunEndsWell` |
| `InstallerHandsOver` | `HandsOver`, the refinement of `Handover` |

No property is inductive: whether a file may be deleted now depends on what was copied
several steps before. The layers say that: `PlaceInv` (which steps a phase has, and that
some phases are reached by failures only), `StoreInv` (what is in memory and in `/tmp` is
what the next rename puts in place), `MenuInv` and `TmdInv` (what is at the paths of the
menu, the TMD and their backups at each phase; `MenuInv` says that the menu is whole in
the copy before Priiloader is written), `BootInv` (the settings go first and come back
last), `CleanInv` (what a run without a failure has in place so far) and `AbortInv` (only
a copy that is then put back leaves the place that is booted empty). `PlaceInv` needs
`MenuInv` and `TmdInv` for the branches that are not taken, the others need `PlaceInv`, so
these are preserved together. For the refinement every step is shown to stutter
(`Elsewhere`) or to be the one of `Handover` its phase stands for.

`Boot_proofs` proves of `BootFiles`, for any modules, contents, settings and versions and any number
of boots, saves and power cuts, `GamesLaunchWhole` (`LaunchedWhole`) and `ProgressIsKept`
(`ProgressKept`). `PlaceInv` says that the open file is one whose turn it is and what is
left to do there; `RewrittenInv` and `ModulesInv` what this boot has written so far;
`TitleInv` that `title.tmd` is missing while the contents are written, unless those of an
earlier installation are written over, and that a title with it is of one version;
`SaveInv` that a copy goes on only while the drive has no `title.tmd` of a game that has
saved there. `TitleInv` and `SaveInv` need each other: what a boot is at says which game
was picked.

`TitleOrder_proofs` proves `ListSorted`: for lists and names of any length, if every
two names are `Comparable` (one is less, or they differ in case only), the list ends
in alphabetical order. It rests on `compare()` being irreflexive and transitive
(for all names) and on "not less" being transitive, which is where `Comparable` is
needed and where the finding is. That `compare()` finds the first difference of
two names that have one is an induction over their length and is left to TLC.

Only model-checked: liveness, which rests on fairness and is out of the prover's reach:
`ScansEnd`, `StopCompletes`, `BootCompletes`, `AnimationAfterScans`, `ArmedSleepEnds`,
`CallsEnd`, `AllEnd`, `AllEnds`.

`TypeOK` of `TitlesDB`, `UsbTransfer`, `UsbStorage`, `GCPlus` and `PMS2` is proved for every instance and
in no run.

## Not modelled

* *Lua 5.4.2 and the prebuilt libraries*, which are third-party code and the larger
  part of the repository's lines. What RVLoader relies on of Lua is that a script runs
  to its end in the main thread.
* *Parsers and printers*: configuration and SYSCONF (`config.cpp`,
  `virtualsysconf.cpp`), cheats, saves, wiiTDB, ASH, hex. Functions over bytes, of one
  thread, with no state that several steps could spoil. Their properties would be
  about layout, which a unit test reaches as well.
* *Installation of titles by the installer* (the rest of `installer/`): IOS and channels go
  through ES, which keeps a title whole by itself. Of `systitles.cpp`, the functions nobody
  calls and the decryption; `titles/wad.cpp` reads a header.
* *Boot stages* (`bootloader/`, `dolbooter/`, `discloader/`), *patches and the code
  handler*: straight-line code and assembly that ends in a jump to another program.
* *libGUI, Lua bindings, theme scripts*: drawing and the translation of calls. What
  they do to the title lists is in `TitlesDB`, the wait for VSync in `Redraw`.
* *Other peripherals*: a register access or two each through `i2c.c`.
* *Finding and mounting the USB drive*: enumeration by IOS before any transfer.

Hazards of the modelled code that no property states, because nothing in the
repository promises otherwise or because the model abstracts from them:

* after a failed boot nobody signals the main loop again, so that the power button is dead
  (`hiidra.cpp:984`), as the main thread of `TitlesDB` is asleep for good then;
* `__cycle()` never returns more than 0, and a write the drive refused is reported as done
  (`usbstorage.c:754`): `BlockDevice` allows it as an outcome of its own;
* `bootPayload()` does not look at the answer (`gcplus.cpp:459`): an update may be reported
  as successful although the board stays in its bootloader;
* the wait for SCL has no time-out (`i2c.c:82`): `AllEnds` assumes that boards let it go;
* an image leaks whose title left the drive (`titles.cpp:184`): memory is unbounded here;
* READ CAPACITY in a wake-up overwrites the sector size (`usbstorage.c:615`) and
  `IsInserted()` takes a drive that was unplugged and came back for the one that was
  open (`usbstorage.c:873`): sector sizes and drives are constant here;
* `isV2()` leaves the GC+ board unlocked when the version cannot be read
  (`gcplus.cpp:97`), `readEEPROM()`'s result is ignored (`gcplus.cpp:246`), a new update
  gets the stack of the last one's thread (`gcplus.cpp:689`), and unlocking, setting and
  locking are three separate calls (`guigamesview.cpp:835`): in `GCPlus` as the code has
  them, with the properties stated for what holds all the same;
* the SYSCONF in memory is written back although only part of it was read
  (`priiloader.cpp:1472`): its bytes are left out.
