----------------------------- MODULE EmuBridge -----------------------------
(***************************************************************************)
(* How the threads of the Android front end share the emulator:            *)
(* hataroid/src/hataroid.cpp.                                              *)
(*                                                                         *)
(*   "ui"   the activity's thread: menus, save states, pause, exit;        *)
(*   "gl"   the renderer's thread: draws frames, polls the virtual keys,   *)
(*          two of which store and load the quick save;                    *)
(*   "emu"  emulationMain: unmutes, runs a frame, runs one command.        *)
(*                                                                         *)
(* Commands reach the emulator on the queue that EmuCommands.tla looks     *)
(* into, save requests in a slot for one command, which is emptied at the  *)
(* emulated VBL, in the middle of a frame, with the lock of the slot held  *)
(* while the state is written to a file.  Between two accesses of a thread *)
(* to the variables below another thread may run.                          *)
(***************************************************************************)
EXTENDS SequencesExt

CONSTANTS
    Requests,       \* bound on the commands and saves that the two threads ask for
    MaxQueue,       \* bound on the length of the queue
    MaxLoading      \* bound on s_loadingCommand: no load is requested beyond it

Threads == {"ui", "gl", "emu"}
Loads == {"load", "quickload", "autoload"}  \* OpLoad, OpLoadQuickSave, OpLoadAutoSave
Saves == {"save", "quicksave", "autosave"}  \* OpSave, OpSaveQuickSave, OpSaveAutoSave
PauseTypes == {"user", "softmenu"}
Kinds == Loads \cup {"options", "reset"}    \* "reset" stands for the other commands

ASSUME EmuBridgeAssumption ==
    /\ Requests \subseteq Kinds \cup Saves
    /\ MaxQueue \in Nat
    /\ MaxLoading \in Nat

VARIABLES
    queue,          \* the kinds of the commands of the list at s_headCommand
    slot,           \* s_saveCommand: the save operation, "none" if 0
    saveLock,       \* s_saveCommandLock: the thread that holds it, or "none"
    loading,        \* s_loadingCommand
    mute,           \* g_audioMute
    paused,         \* emuUserPaused: who pauses
    quickSlot,      \* a quick save slot is selected
    ready,          \* g_emuReady
    videoReady,
    rendered,       \* _frameRendered
    saveAndQuit, runTillQuit, pendingQuit,
    quitRequested,  \* requestQuitHataroid was called
    pc, op,         \* what a thread is about to do, and for which procedure
    curSave,        \* curCommand of _processHataroidSaveCommands
    value           \* what a thread is about to store in s_loadingCommand

saving == <<slot, saveLock>>
audio == <<mute, paused>>
screen == <<ready, videoReady, rendered>>
quitting == <<saveAndQuit, runTillQuit, pendingQuit, quitRequested>>
local == <<op, curSave, value>>
vars == <<queue, saving, loading, audio, quickSlot, screen, quitting, pc, local>>

\* The state once emulationInit is done and the surface is there.
Init ==
    /\ queue = <<>>
    /\ slot = "none" /\ saveLock = "none"
    /\ loading = 0 /\ mute = FALSE /\ paused = {}
    /\ quickSlot \in BOOLEAN
    /\ ready = TRUE /\ videoReady = TRUE /\ rendered = FALSE
    /\ saveAndQuit = FALSE /\ runTillQuit = FALSE
    /\ pendingQuit = FALSE /\ quitRequested = FALSE
    /\ pc = [t \in Threads |-> IF t = "emu" THEN "top" ELSE "idle"]
    /\ op = [t \in Threads |-> "none"]
    /\ curSave = "none"
    /\ value = [t \in Threads |-> 0]

At(t, label) == pc[t] = label
Goto(t, label) == pc' = [pc EXCEPT ![t] = label]
Call(t, procedure, label) == op' = [op EXCEPT ![t] = procedure] /\ Goto(t, label)

(***************************************************************************)
(* Commands and save requests.                                             *)
(***************************************************************************)

\* addEmuCommand.  The loads are counted after it.
AddEmuCommand(t) ==
    /\ At(t, "add")
    /\ queue' = Append(queue, op[t])
    /\ IF op[t] \in Loads
       THEN Goto(t, IF op[t] = "load" THEN "mute" ELSE "count") /\ UNCHANGED op
       ELSE Call(t, "none", "idle")
    /\ UNCHANGED <<saving, loading, audio, quickSlot, screen, quitting, curSave, value>>

\* _addSaveCommand: an occupied slot keeps its command, the new one is dropped.
AddSaveCommand(t) ==
    /\ At(t, "add save")
    /\ saveLock = "none"
    /\ slot' = IF slot = "none" THEN op[t] ELSE slot
    /\ Call(t, "none", IF op[t] = "autosave" THEN "exit" ELSE "idle")
    /\ UNCHANGED <<queue, saveLock, loading, audio, quickSlot, screen, quitting, curSave, value>>

\* _clearHataroidSaveCommands, the first call of AutoSaveStoreOnExit.
ClearSaveCommands ==
    /\ At("ui", "clear save")
    /\ saveLock = "none"
    /\ slot' = "none"
    /\ Goto("ui", "add save")
    /\ UNCHANGED <<queue, saveLock, loading, audio, quickSlot, screen, quitting, local>>

(***************************************************************************)
(* s_loadingCommand.  Another thread may run between the read and the      *)
(* write of its ++ and --, and between its test and its reset.             *)
(***************************************************************************)

AddToLoading(t, n, label) ==
    /\ At(t, label)
    /\ value' = [value EXCEPT ![t] = loading + n]
    /\ Goto(t, "write")
    /\ UNCHANGED <<queue, saving, loading, audio, quickSlot, screen, quitting, op, curSave>>

WriteLoading(t, then) ==
    /\ At(t, "write")
    /\ loading' = value[t]
    /\ value' = [value EXCEPT ![t] = 0]
    /\ Goto(t, then)
    /\ UNCHANGED <<queue, saving, audio, quickSlot, screen, quitting, op, curSave>>

Count(t) == AddToLoading(t, 1, "count") \/ WriteLoading(t, "counted")

\* emulatorSaveStateLoad mutes before it counts, and afterwards ends the pause,
\* which mutes again; the other two only count.
LoadMute ==
    /\ At("ui", "mute")
    /\ mute' = TRUE
    /\ Goto("ui", "count")
    /\ UNCHANGED <<queue, saving, loading, paused, quickSlot, screen, quitting, local>>

LoadCounted(t) ==
    /\ At(t, "counted")
    /\ IF op[t] = "load" THEN mute' = TRUE /\ paused' = {} ELSE UNCHANGED audio
    /\ Call(t, "none", "idle")
    /\ UNCHANGED <<queue, saving, loading, quickSlot, screen, quitting, curSave, value>>

(***************************************************************************)
(* The activity's thread.                                                  *)
(***************************************************************************)

Begin(t, procedure, label) ==
    /\ At(t, "idle")
    /\ procedure \in Requests
    /\ procedure \in Kinds => Len(queue) < MaxQueue
    /\ procedure \in Loads =>
           \A n \in {loading} \cup Range(value) : n + Len(queue) < MaxLoading
    /\ Call(t, procedure, label)
    /\ UNCHANGED <<queue, saving, loading, audio, quickSlot, screen, quitting, curSave, value>>

\* "Ignored as load command pending", "Ignored as quiting"
SetEmulatorOptions == loading <= 0 /\ ~saveAndQuit /\ Begin("ui", "options", "add")
ResetCold == Begin("ui", "reset", "add")
\* Mutant of SaveStateSave: the save goes to the queue of the commands.
SaveIsQueued == ~saveAndQuit /\ Begin("ui", "save", "add")
SaveStateSave == ~saveAndQuit /\ Begin("ui", "save", "add save")
SaveStateLoad == ~saveAndQuit /\ Begin("ui", "load", "add")
AutoSaveLoadOnStart == Begin("ui", "autoload", "add")
AutoSaveStoreOnExit == ~saveAndQuit /\ Begin("ui", "autosave", "clear save")

\* The end of AutoSaveStoreOnExit.
Exit ==
    /\ At("ui", "exit")
    /\ saveAndQuit' = TRUE /\ runTillQuit' = TRUE
    /\ paused' = {} /\ mute' = TRUE
    /\ Goto("ui", "check")
    /\ UNCHANGED <<queue, saving, loading, quickSlot, screen, pendingQuit, quitRequested, local>>

\* setUserEmuPaused: the flag of the user, whose key both threads see, or that
\* of the menu on the screen is set or cleared.
TogglePause(t, flag) ==
    /\ At(t, "idle")
    /\ flag = "softmenu" => t = "ui"
    /\ paused' = SymDiff(paused, {flag})
    /\ mute' = TRUE
    /\ UNCHANGED <<queue, saving, loading, quickSlot, screen, quitting, pc, local>>

\* emulationPause, when the activity leaves the screen.
EmulationPause ==
    /\ At("ui", "idle")
    /\ ready' = FALSE
    /\ Goto("ui", "pause")
    /\ UNCHANGED <<queue, saving, loading, audio, quickSlot, videoReady, rendered, quitting, local>>

EmulationPaused ==
    /\ At("ui", "pause")
    /\ videoReady' = FALSE /\ rendered' = FALSE
    /\ mute' = TRUE
    /\ Goto("ui", "idle")
    /\ UNCHANGED <<queue, saving, loading, paused, quickSlot, ready, quitting, local>>

(***************************************************************************)
(* The renderer's thread.                                                  *)
(***************************************************************************)

QuickSaveStore == ~saveAndQuit /\ quickSlot /\ Begin("gl", "quicksave", "add save")
QuickSaveLoad == quickSlot /\ Begin("gl", "quickload", "add")

OnDrawFrame ==
    /\ At("gl", "idle")
    /\ ready
    /\ rendered' = TRUE
    /\ UNCHANGED <<queue, saving, loading, audio, quickSlot, ready, videoReady, quitting, pc, local>>

OnSurfaceChanged ==
    /\ At("gl", "idle")
    /\ videoReady' = TRUE
    /\ Goto("gl", "check")
    /\ UNCHANGED <<queue, saving, loading, audio, quickSlot, ready, rendered, quitting, local>>

\* _checkEmuReady, of both threads: reads videoReady, then writes g_emuReady.
CheckEmuReady(t) ==
    /\ At(t, "check")
    /\ Goto(t, IF ready \/ ~videoReady THEN "idle" ELSE "set ready")
    /\ UNCHANGED <<queue, saving, loading, audio, quickSlot, screen, quitting, local>>

SetEmuReady(t) ==
    /\ At(t, "set ready")
    /\ ready' = TRUE
    /\ Goto(t, "idle")
    /\ UNCHANGED <<queue, saving, loading, audio, quickSlot, videoReady, rendered, quitting, local>>

(***************************************************************************)
(* emulationMain.                                                          *)
(***************************************************************************)

\* if (!_saveAndQuit && g_audioMute && s_loadingCommand == 0): the sound comes back.
Top ==
    /\ At("emu", "top")
    /\ ready
    /\ Goto("emu", IF ~saveAndQuit /\ mute /\ loading = 0 THEN "unmute" ELSE "frame")
    /\ UNCHANGED <<queue, saving, loading, audio, quickSlot, screen, quitting, local>>

Unmute ==
    /\ At("emu", "unmute")
    /\ mute' = FALSE
    /\ Goto("emu", "frame")
    /\ UNCHANGED <<queue, saving, loading, paused, quickSlot, screen, quitting, local>>

\* Mutant of Frame: a paused loop leaves the commands for later.
FrameSkipsCommands ==
    /\ At("emu", "frame")
    /\ Goto("emu", IF ~(rendered \/ runTillQuit) \/ (paused # {} /\ ~saveAndQuit) THEN "top" ELSE "vbl")
    /\ UNCHANGED <<queue, saving, loading, audio, quickSlot, screen, quitting, local>>

\* Mutant of Frame: a pause stops the frames that the auto save needs.
FrameAlwaysPauses ==
    /\ At("emu", "frame")
    /\ Goto("emu", IF ~(rendered \/ runTillQuit) THEN "top" ELSE IF paused = {} THEN "vbl" ELSE "commands")
    /\ UNCHANGED <<queue, saving, loading, audio, quickSlot, screen, quitting, local>>

\* Once a frame was drawn, the body of the loop: hatari_main_doframe, whose VBL
\* processes the save slot, unless the user paused; then the commands.
Frame ==
    /\ At("emu", "frame")
    /\ Goto("emu", IF ~(rendered \/ runTillQuit) THEN "top"
                   ELSE IF paused = {} \/ saveAndQuit THEN "vbl" ELSE "commands")
    /\ UNCHANGED <<queue, saving, loading, audio, quickSlot, screen, quitting, local>>

\* _processHataroidSaveCommands: empties the slot and runs the save, all with
\* the lock held.  OpSaveAutoSave ends with _pendingQuit = true.
ProcessSaveCommands ==
    /\ At("emu", "vbl")
    /\ saveLock = "none"
    /\ saveLock' = "emu"
    /\ curSave' = slot
    /\ slot' = "none"
    /\ Goto("emu", "store")
    /\ UNCHANGED <<queue, loading, audio, quickSlot, screen, quitting, op, value>>

StoreState ==
    /\ At("emu", "store")
    /\ pendingQuit' = (pendingQuit \/ curSave = "autosave")
    /\ curSave' = "none"
    /\ saveLock' = "none"
    /\ Goto("emu", "commands")
    /\ UNCHANGED <<queue, slot, loading, audio, quickSlot, screen, saveAndQuit, runTillQuit,
                   quitRequested, op, value>>

\* processEmuCommands: nothing if the program quits, else one command.
ProcessEmuCommands ==
    /\ At("emu", "commands")
    /\ IF saveAndQuit \/ queue = <<>>
       THEN Goto("emu", "quit") /\ UNCHANGED <<queue, op>>
       ELSE /\ queue' = Tail(queue)
            /\ Call("emu", Head(queue), "run")
    /\ UNCHANGED <<saving, loading, audio, quickSlot, screen, quitting, curSave, value>>

\* The callback of the command.  Options may select or deselect the quick save
\* slot; a quick load without one ends before _loadSaveState.
Run ==
    /\ At("emu", "run")
    /\ quickSlot' \in IF op["emu"] = "options" THEN BOOLEAN ELSE {quickSlot}
    /\ IF op["emu"] = "reset" THEN mute' = TRUE /\ paused' = {} ELSE UNCHANGED audio
    /\ Goto("emu", IF op["emu"] \notin Loads \/ (op["emu"] = "quickload" /\ ~quickSlot)
                   THEN "quit" ELSE "loaded")
    /\ UNCHANGED <<queue, saving, loading, screen, quitting, local>>

\* The end of _loadSaveState: --s_loadingCommand, and 0 if that is negative.
Loaded == AddToLoading("emu", -1, "loaded") \/ WriteLoading("emu", "clamp")

\* Mutant of Clamp: a negative count is left as it is.
ClampLess ==
    /\ At("emu", "clamp")
    /\ Goto("emu", "quit")
    /\ UNCHANGED <<queue, saving, loading, audio, quickSlot, screen, quitting, local>>

Clamp ==
    /\ At("emu", "clamp")
    /\ Goto("emu", IF loading < 0 THEN "negative" ELSE "quit")
    /\ UNCHANGED <<queue, saving, loading, audio, quickSlot, screen, quitting, local>>

ClampWrite ==
    /\ At("emu", "negative")
    /\ loading' = 0
    /\ Goto("emu", "quit")
    /\ UNCHANGED <<queue, saving, audio, quickSlot, screen, quitting, local>>

\* if (_pendingQuit) ...; then, with g_vsync, the next frame waits to be drawn.
Quit ==
    /\ At("emu", "quit")
    /\ pendingQuit' = FALSE
    /\ ready' = (ready /\ ~pendingQuit)
    /\ quitRequested' = (quitRequested \/ pendingQuit)
    /\ rendered' \in {FALSE, rendered}
    /\ Call("emu", "none", "top")
    /\ UNCHANGED <<queue, saving, loading, audio, quickSlot, videoReady, saveAndQuit,
                   runTillQuit, curSave, value>>

(***************************************************************************)
(* The threads.                                                            *)
(***************************************************************************)

Ui == AddEmuCommand("ui") \/ AddSaveCommand("ui") \/ ClearSaveCommands \/ LoadMute \/ Count("ui")
      \/ LoadCounted("ui") \/ Exit \/ EmulationPaused \/ CheckEmuReady("ui") \/ SetEmuReady("ui")

Gl == AddEmuCommand("gl") \/ AddSaveCommand("gl") \/ Count("gl")
      \/ LoadCounted("gl") \/ CheckEmuReady("gl") \/ SetEmuReady("gl")

EmulationMain ==
    \/ Top \/ Unmute \/ Frame \/ ProcessSaveCommands \/ StoreState
    \/ ProcessEmuCommands \/ Run \/ Loaded \/ Clamp \/ ClampWrite \/ Quit

Next ==
    \/ SetEmulatorOptions \/ ResetCold \/ EmulationPause
    \/ \E t \in {"ui", "gl"}, flag \in PauseTypes : TogglePause(t, flag)
    \/ SaveStateSave \/ SaveStateLoad \/ AutoSaveLoadOnStart \/ AutoSaveStoreOnExit
    \/ QuickSaveStore \/ QuickSaveLoad \/ OnDrawFrame \/ OnSurfaceChanged
    \/ Ui \/ Gl \/ EmulationMain

\* A thread goes on with what it began; one that polls the lock of the slot
\* every 5 ms finds it open at last, as the emulator takes it once a frame; the
\* renderer draws a frame after every poll of the keys.
Fairness == SF_vars(Ui) /\ SF_vars(Gl) /\ WF_vars(EmulationMain) /\ SF_vars(OnDrawFrame)

Spec == Init /\ [][Next]_vars /\ Fairness

(***************************************************************************)
(* Correctness.                                                            *)
(***************************************************************************)

Labels == {"idle", "add", "mute", "count", "write", "counted", "add save", "clear save", "exit",
           "check", "set ready", "pause", "top", "unmute", "frame", "vbl", "store", "commands",
           "run", "loaded", "clamp", "negative", "quit"}

TypeOK ==
    /\ queue \in Seq(Kinds)
    /\ slot \in Saves \cup {"none"} /\ curSave \in Saves \cup {"none"}
    /\ saveLock \in {"none", "emu"}
    /\ loading \in Int /\ value \in [Threads -> Int]
    /\ paused \subseteq PauseTypes
    /\ {mute, quickSlot, ready, videoReady, rendered,
        saveAndQuit, runTillQuit, pendingQuit, quitRequested} \subseteq BOOLEAN
    /\ pc \in [Threads -> Labels]
    /\ op \in [Threads -> Kinds \cup Saves \cup {"none"}]

\* s_loadingCommand is negative for no longer than the emulator takes to look at
\* it: the sound comes back only when it is 0, so a count that stayed negative
\* would mute the program for good, whichever increments are lost.
NegativeIsClamped == loading < 0 => pc["emu"] \in {"clamp", "negative"}

\* A command of the queue is taken in the end, also while the user pauses,
\* unless the program quits or leaves the screen.
CommandsRun ==
    queue # <<>> ~> (pc["emu"] = "run" \/ saveAndQuit \/ ~ready)

\* An auto save that reached the slot is stored and the program then quits,
\* whatever the two other threads do meanwhile, if it stays on the screen.
StoredAutoSaveQuits == slot = "autosave" ~> (quitRequested \/ ~ready)

\* The changes of version 1.540: "fix hang on quit in a rare case".
ExitQuits == saveAndQuit ~> (quitRequested \/ ~ready)
=============================================================================
