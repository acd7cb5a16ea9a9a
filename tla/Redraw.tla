------------------------------- MODULE Redraw -------------------------------
(***************************************************************************)
(* The handshake between the main loop and the thread that boots a game    *)
(* (main.cpp and hiidra.cpp): the thread adds a line to the log, signals   *)
(* one queue and sleeps in another; the main loop, asleep in the first,    *)
(* draws a frame and signals the second.  A signal wakes who sleeps when   *)
(* it is sent and is lost if nobody does.  What saves the code is that the *)
(* main thread has the higher priority and waits for VSync in every frame: *)
(* only if VSync comes between LWP_ThreadSignal() and LWP_ThreadSleep() of *)
(* the boot thread is a signal lost, and then both sleep for ever.         *)
(* TitlesDB has the same handshake, with the frames but without the        *)
(* priorities that keep most of the races out.                             *)
(*                                                                         *)
(* LWPs are external: of the threads that can run, the one of the highest  *)
(* priority does.                                                          *)
(***************************************************************************)
EXTENDS Naturals

CONSTANT MaxLines   \* bound: lines of the log

VARIABLES
  mpc,      \* where the main loop is
  waits,    \* what the main thread waits for: nothing, the redrawQueue or a device
  controlledRedraw,
  bpc,      \* where the boot thread is
  sleeps,   \* what the boot thread waits for: nothing, the logQueue or a device
  lines,    \* in the log
  drawn,    \* of them, in the frame drawn last
  raced     \* history: VSync came between the boot thread's signal and its sleep

mainVars == <<mpc, waits, controlledRedraw, drawn>>
bootVars == <<bpc, sleeps, lines>>
redrawVars == <<mainVars, bootVars, raced>>

RedrawInit ==
  /\ mpc = "top" /\ waits = "nothing" /\ controlledRedraw = FALSE
  /\ bpc = "none" /\ sleeps = "nothing"
  /\ lines = 0 /\ drawn = 0 /\ raced = FALSE

MainRuns == waits = "nothing"
BootRuns == bpc # "none" /\ sleeps = "nothing" /\ ~MainRuns

-----------------------------------------------------------------------------
(* The main thread.                                                        *)

MainTop ==
  /\ MainRuns /\ mpc = "top" /\ mpc' = "lock"
  /\ waits' = IF controlledRedraw THEN "redrawQueue" ELSE "nothing"
  /\ UNCHANGED <<controlledRedraw, drawn, bootVars, raced>>

(* A scan may hold a mutex that lockTitlesDBs() takes.                     *)
MainLock ==
  /\ MainRuns /\ mpc = "lock" /\ mpc' = "handle"
  /\ waits' \in {"nothing", "device"}
  /\ UNCHANGED <<controlledRedraw, drawn, bootVars, raced>>

MainHandle ==
  /\ MainRuns /\ mpc = "handle" /\ mpc' = "draw"
  /\ UNCHANGED <<waits, controlledRedraw, drawn, bootVars, raced>>

(* Mutant: redraws are not controlled.                                     *)
BootUncontrolled ==
  /\ MainRuns /\ mpc = "handle" /\ bpc = "none"
  /\ mpc' = "draw" /\ controlledRedraw' = FALSE
  /\ bpc' = "work"
  /\ UNCHANGED <<waits, drawn, sleeps, lines, raced>>

(* The user picks a game; the thread is created and does not run yet.      *)
BootHiidra ==
  /\ MainRuns /\ mpc = "handle" /\ bpc = "none"
  /\ mpc' = "draw" /\ controlledRedraw' = TRUE
  /\ bpc' = "work"
  /\ UNCHANGED <<waits, drawn, sleeps, lines, raced>>

(* The screen shows the log; then the main thread waits for the GPU.       *)
MainDraw ==
  /\ MainRuns /\ mpc = "draw" /\ mpc' = "end"
  /\ drawn' = lines
  /\ waits' \in {"nothing", "device"}
  /\ UNCHANGED <<controlledRedraw, bootVars, raced>>

(* Mutant: no wait for VSync, as in the line commented out in main().      *)
MainEndAtOnce ==
  /\ MainRuns /\ mpc = "end" /\ mpc' = "signal"
  /\ waits' = "nothing"
  /\ UNCHANGED <<controlledRedraw, drawn, bootVars, raced>>

(* Gfx::endDrawing() waits for VSync.                                      *)
MainEnd ==
  /\ MainRuns /\ mpc = "end" /\ mpc' = "signal"
  /\ waits' = "device"
  /\ UNCHANGED <<controlledRedraw, drawn, bootVars, raced>>

(* hiidraSignalRedraw().                                                   *)
MainSignal ==
  /\ MainRuns /\ mpc = "signal" /\ mpc' = "top"
  /\ sleeps' = IF sleeps = "logQueue" THEN "nothing" ELSE sleeps
  /\ UNCHANGED <<waits, controlledRedraw, drawn, bpc, lines, raced>>

Main ==
  MainTop \/ MainLock \/ MainHandle \/ BootHiidra \/ MainDraw \/ MainEnd \/ MainSignal

-----------------------------------------------------------------------------
(* The boot thread.                                                        *)

BootReads ==
  /\ BootRuns /\ bpc = "work" /\ sleeps' = "device"
  /\ UNCHANGED <<bpc, lines, mainVars, raced>>

(* hiidraAddLogLine() or hiidraUpdateLogLine().                            *)
AddLogLine ==
  /\ BootRuns /\ bpc = "work" /\ lines < MaxLines
  /\ lines' = lines + 1 /\ bpc' = "force"
  /\ UNCHANGED <<sleeps, mainVars, raced>>

ForceRedraw ==
  /\ BootRuns /\ bpc = "force" /\ bpc' = "wait"
  /\ waits' = IF waits = "redrawQueue" THEN "nothing" ELSE waits
  /\ UNCHANGED <<sleeps, lines, mpc, controlledRedraw, drawn, raced>>

WaitForRedraw ==
  /\ BootRuns /\ bpc = "wait" /\ bpc' = "work"
  /\ sleeps' = "logQueue"
  /\ UNCHANGED <<lines, mainVars, raced>>

Boot == BootReads \/ AddLogLine \/ ForceRedraw \/ WaitForRedraw

-----------------------------------------------------------------------------
(* A device, or a thread of lower priority, lets one of them go on.        *)
MainGoesOn ==
  /\ waits = "device" /\ waits' = "nothing"
  /\ raced' = (raced \/ (mpc = "signal" /\ bpc = "wait"))
  /\ UNCHANGED <<mpc, controlledRedraw, drawn, bootVars>>

BootGoesOn ==
  /\ sleeps = "device" /\ sleeps' = "nothing"
  /\ UNCHANGED <<bpc, lines, mainVars, raced>>

RedrawNext == Main \/ Boot \/ MainGoesOn \/ BootGoesOn

RedrawSpec == RedrawInit /\ [][RedrawNext]_redrawVars

-----------------------------------------------------------------------------
(* LinesShown: the boot thread goes on only when the line it added has     *)
(* been drawn, except for its first line, which it may add while the main  *)
(* thread is still in the frame in which the user picked the game.         *)
LinesShown == bpc = "work" /\ sleeps # "logQueue" /\ lines > 1 => drawn = lines

(* NoSignalLost: the two threads never wait for each other, unless VSync   *)
(* lets the main thread go on between the boot thread's LWP_ThreadSignal() *)
(* and its LWP_ThreadSleep(): nothing else loses a signal both need.       *)
NoSignalLost == sleeps = "logQueue" /\ waits = "redrawQueue" => raced
=============================================================================
