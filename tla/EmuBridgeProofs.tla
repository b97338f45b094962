-------------------------- MODULE EmuBridgeProofs --------------------------
(***************************************************************************)
(* Theorems about EmuBridge for any set of requests and any bounds.        *)
(***************************************************************************)
EXTENDS EmuBridge, SequenceTheorems, TLAPS

\* What the activity's and the renderer's threads are about to do, and what the
\* emulator's is.
ClientLabels == {"idle", "add", "mute", "count", "write", "counted", "add save", "clear save",
                 "exit", "check", "set ready", "pause"}
EmuLabels == {"top", "unmute", "frame", "vbl", "store", "commands", "run", "loaded", "write",
              "clamp", "negative", "quit"}
Clients == {"ui", "gl"}

Flags == {mute, quickSlot, ready, videoReady, rendered,
          saveAndQuit, runTillQuit, pendingQuit, quitRequested}

\* Whatever increments and decrements are lost, a client stores no negative count
\* and the emulator none below -1, and only when it is about to look at it.
BridgeInv ==
    /\ TypeOK
    /\ pc["emu"] \in EmuLabels /\ \A t \in Clients : pc[t] \in ClientLabels
    /\ \A t \in Clients : /\ pc[t] = "add" => op[t] \in Kinds
                          /\ pc[t] \in {"clear save", "add save"} => op[t] \in Saves
                          /\ value[t] >= 0
    /\ value["emu"] >= -1 /\ loading >= -1
    /\ NegativeIsClamped

LEMMA InitBridgeInv == Init => BridgeInv
<1> SUFFICES ASSUME Init PROVE BridgeInv
  OBVIOUS
<1>1. queue \in Seq(Kinds)
  BY EmptySeq DEF Init
<1>2. Flags \subseteq BOOLEAN
  BY DEF Init, Flags
<1>3. /\ pc["emu"] = "top" /\ pc["ui"] = "idle" /\ pc["gl"] = "idle"
      /\ pc \in [Threads -> Labels]
  BY DEF Init, Threads, Labels
<1>4. TypeOK
  BY <1>1, <1>2, <1>3 DEF Init, TypeOK, Flags
<1> QED  BY <1>3, <1>4 DEF Init, BridgeInv, EmuLabels, Clients, ClientLabels, NegativeIsClamped, Threads

LEMMA FlagTypes == TypeOK /\ [Next]_vars => Flags' \subseteq BOOLEAN
<1> SUFFICES ASSUME TypeOK, [Next]_vars PROVE Flags' \subseteq BOOLEAN
  OBVIOUS
<1>0. Flags \subseteq BOOLEAN
  BY DEF TypeOK, Flags
<1>1. CASE SetEmulatorOptions \/ ResetCold \/ SaveStateSave \/ SaveStateLoad
           \/ AutoSaveLoadOnStart \/ AutoSaveStoreOnExit \/ QuickSaveStore \/ QuickSaveLoad
  <2>1. UNCHANGED <<audio, quickSlot, screen, quitting>>
    BY <1>1 DEF SetEmulatorOptions, ResetCold, SaveStateSave, SaveStateLoad, AutoSaveLoadOnStart,
                AutoSaveStoreOnExit, QuickSaveStore, QuickSaveLoad, Begin
  <2> QED  BY <1>0, <2>1 DEF Flags, audio, screen, quitting
<1>2. CASE EmulationPause \/ OnDrawFrame \/ OnSurfaceChanged
  BY <1>0, <1>2 DEF EmulationPause, OnDrawFrame, OnSurfaceChanged, Flags, audio, screen, quitting
<1>3. ASSUME NEW t \in {"ui", "gl"}, NEW flag \in PauseTypes, TogglePause(t, flag)
      PROVE  Flags' \subseteq BOOLEAN
  BY <1>0, <1>3 DEF TogglePause, Flags, audio, screen, quitting
<1>4. ASSUME NEW t \in Clients, AddEmuCommand(t) \/ AddSaveCommand(t) \/ Count(t)
                                \/ LoadCounted(t) \/ CheckEmuReady(t) \/ SetEmuReady(t)
      PROVE  Flags' \subseteq BOOLEAN
  <2>1. CASE AddEmuCommand(t) \/ AddSaveCommand(t) \/ Count(t) \/ CheckEmuReady(t)
    <3>1. UNCHANGED <<audio, quickSlot, screen, quitting>>
      BY <2>1 DEF AddEmuCommand, AddSaveCommand, Count, AddToLoading, WriteLoading, CheckEmuReady
    <3> QED  BY <1>0, <3>1 DEF Flags, audio, screen, quitting
  <2>2. CASE LoadCounted(t)
    <3>1. mute' \in {TRUE, mute} /\ UNCHANGED <<quickSlot, screen, quitting>>
      BY <2>2 DEF LoadCounted, audio
    <3> QED  BY <1>0, <3>1 DEF Flags, screen, quitting
  <2>3. CASE SetEmuReady(t)
    BY <1>0, <2>3 DEF SetEmuReady, Flags, audio, quitting
  <2> QED  BY <1>4, <2>1, <2>2, <2>3
<1>5. CASE ClearSaveCommands \/ LoadMute \/ Exit \/ EmulationPaused
  BY <1>0, <1>5 DEF ClearSaveCommands, LoadMute, Exit, EmulationPaused, Flags, audio, screen, quitting
<1>6. CASE Top \/ Unmute \/ Frame \/ ProcessSaveCommands \/ ProcessEmuCommands
           \/ Loaded \/ Clamp \/ ClampWrite
  <2>1. mute' \in {FALSE, mute} /\ UNCHANGED <<quickSlot, screen, quitting>>
    BY <1>6 DEF Top, Unmute, Frame, ProcessSaveCommands, ProcessEmuCommands, Loaded, AddToLoading,
                WriteLoading, Clamp, ClampWrite, audio
  <2> QED  BY <1>0, <2>1 DEF Flags, screen, quitting
<1>7. CASE Run
  <2>1. mute' \in {TRUE, mute} /\ UNCHANGED <<screen, quitting>> /\ quickSlot' \in BOOLEAN \cup {quickSlot}
    BY <1>7 DEF Run, audio
  <2> QED  BY <1>0, <2>1 DEF Flags, screen, quitting
<1>8. CASE StoreState \/ Quit
  BY <1>0, <1>8 DEF StoreState, Quit, Flags, audio, screen, quitting
<1>9. CASE UNCHANGED vars
  BY <1>0, <1>9 DEF vars, Flags, audio, screen, quitting
<1> QED
  BY <1>1, <1>2, <1>3, <1>4, <1>5, <1>6, <1>7, <1>8, <1>9 DEF Next, Ui, Gl, Clients, EmulationMain

LEMMA KeptOrStored ==
    ASSUME NEW l \in Int, NEW v \in Int, NEW n, l >= -1, v >= 0, n = l \/ n = v
    PROVE  n \in Int /\ n >= -1 /\ (n < 0 => n = l)
OBVIOUS

\* A step of a client: it goes from one of its labels to another, and leaves
\* to the emulator what is the emulator's.
LEMMA ClientStep ==
    ASSUME BridgeInv, Flags' \subseteq BOOLEAN, NEW t \in Clients, NEW label \in ClientLabels,
           pc' = [pc EXCEPT ![t] = label],
           queue' \in Seq(Kinds), slot' \in Saves \cup {"none"}, saveLock' \in {"none", "emu"},
           curSave' = curSave, paused' \subseteq PauseTypes,
           NEW procedure \in Kinds \cup Saves \cup {"none"}, op' = [op EXCEPT ![t] = procedure],
           label = "add" => procedure \in Kinds,
           label \in {"clear save", "add save"} => procedure \in Saves,
           NEW v \in Int, v >= 0, value' = [value EXCEPT ![t] = v],
           loading' = loading \/ loading' = value[t]
    PROVE  BridgeInv'
<1>1. t \in Threads /\ t # "emu" /\ "emu" \in Threads /\ Clients \subseteq Threads /\ label \in Labels
  BY DEF Clients, Threads, ClientLabels, Labels
<1>2. /\ pc' \in [Threads -> Labels] /\ pc'["emu"] = pc["emu"] /\ pc'[t] = label
      /\ \A u \in Clients : u # t => pc'[u] = pc[u]
  BY <1>1 DEF BridgeInv, TypeOK
<1>3. /\ op' \in [Threads -> Kinds \cup Saves \cup {"none"}] /\ op'[t] = procedure
      /\ \A u \in Clients : u # t => op'[u] = op[u]
  BY <1>1 DEF BridgeInv, TypeOK
<1>4. /\ value' \in [Threads -> Int] /\ value'[t] >= 0 /\ value'["emu"] = value["emu"]
      /\ \A u \in Clients : u # t => value'[u] = value[u]
  BY <1>1 DEF BridgeInv, TypeOK
<1>5. loading' \in Int /\ loading' >= -1 /\ (loading' < 0 => loading' = loading)
  <2>1. loading \in Int /\ loading >= -1 /\ value[t] \in Int /\ value[t] >= 0
    BY <1>1 DEF BridgeInv, TypeOK
  <2> QED  BY <2>1, KeptOrStored
<1>6. TypeOK'
  BY <1>2, <1>3, <1>4, <1>5 DEF BridgeInv, TypeOK, Flags
<1> QED  BY <1>2, <1>3, <1>4, <1>5, <1>6 DEF BridgeInv, NegativeIsClamped

LEMMA EmuStep ==
    ASSUME BridgeInv, Flags' \subseteq BOOLEAN, NEW label \in EmuLabels,
           pc' = [pc EXCEPT !["emu"] = label],
           queue' \in Seq(Kinds), slot' \in Saves \cup {"none"}, saveLock' \in {"none", "emu"},
           curSave' \in Saves \cup {"none"}, paused' \subseteq PauseTypes,
           NEW procedure \in Kinds \cup Saves \cup {"none"}, op' = [op EXCEPT !["emu"] = procedure],
           NEW v \in Int, v >= -1, value' = [value EXCEPT !["emu"] = v],
           loading' \in Int, loading' >= -1, loading' < 0 => label \in {"clamp", "negative"}
    PROVE  BridgeInv'
<1>1. "emu" \in Threads /\ Clients \subseteq Threads /\ "emu" \notin Clients /\ label \in Labels
  BY DEF Clients, Threads, EmuLabels, Labels
<1>2. /\ pc' \in [Threads -> Labels] /\ pc'["emu"] = label
      /\ \A u \in Clients : pc'[u] = pc[u]
  BY <1>1 DEF BridgeInv, TypeOK
<1>3. op' \in [Threads -> Kinds \cup Saves \cup {"none"}] /\ \A u \in Clients : op'[u] = op[u]
  BY <1>1 DEF BridgeInv, TypeOK
<1>4. /\ value' \in [Threads -> Int] /\ value'["emu"] >= -1
      /\ \A u \in Clients : value'[u] = value[u]
  BY <1>1 DEF BridgeInv, TypeOK
<1>5. TypeOK'
  BY <1>2, <1>3, <1>4 DEF BridgeInv, TypeOK, Flags
<1> QED  BY <1>2, <1>3, <1>4, <1>5 DEF BridgeInv, NegativeIsClamped

LEMMA BeginStep ==
    ASSUME BridgeInv, Flags' \subseteq BOOLEAN, NEW t \in Clients,
           \/ \E kind \in Kinds : Begin(t, kind, "add")
           \/ \E save \in Saves, label \in {"add save", "clear save"} : Begin(t, save, label)
    PROVE  BridgeInv'
<1>1. PICK procedure \in Kinds \cup Saves, label \in {"add", "add save", "clear save"} :
         /\ Begin(t, procedure, label)
         /\ label = "add" => procedure \in Kinds
         /\ label # "add" => procedure \in Saves
  OBVIOUS
<1>2. /\ op' = [op EXCEPT ![t] = procedure] /\ pc' = [pc EXCEPT ![t] = label]
      /\ UNCHANGED <<queue, slot, saveLock, loading, paused, curSave, value>>
  BY <1>1 DEF Begin, Call, Goto, saving, audio
<1>3. value' = [value EXCEPT ![t] = value[t]] /\ value[t] \in Int /\ value[t] >= 0
  BY <1>2 DEF BridgeInv, TypeOK, Clients, Threads
<1>4. TypeOK
  BY DEF BridgeInv
<1>5. label \in ClientLabels
  BY DEF ClientLabels
<1> QED  BY <1>1, <1>2, <1>3, <1>4, <1>5, ClientStep DEF TypeOK

\* The steps that both clients take.
LEMMA CommandSteps ==
    ASSUME BridgeInv, Flags' \subseteq BOOLEAN, NEW t \in Clients,
           AddEmuCommand(t) \/ AddSaveCommand(t) \/ LoadCounted(t)
    PROVE  BridgeInv'
<1>0. /\ TypeOK /\ value[t] \in Int /\ value[t] >= 0 /\ op[t] \in Kinds \cup Saves \cup {"none"}
      /\ value = [value EXCEPT ![t] = value[t]] /\ op = [op EXCEPT ![t] = op[t]]
  BY DEF BridgeInv, TypeOK, Clients, Threads
<1>1. PICK label \in ClientLabels \ {"add", "add save", "clear save"},
           procedure \in {"none", op[t]} :
         pc' = [pc EXCEPT ![t] = label] /\ op' = [op EXCEPT ![t] = procedure]
  <2>1. CASE AddEmuCommand(t)
    BY <1>0, <2>1 DEF AddEmuCommand, Call, Goto, ClientLabels
  <2>2. CASE AddSaveCommand(t)
    <3>1. \E label \in {"exit", "idle"} : Call(t, "none", label)
      BY <2>2 DEF AddSaveCommand
    <3> QED  BY <3>1 DEF Call, Goto, ClientLabels
  <2>3. CASE LoadCounted(t)
    BY <2>3 DEF LoadCounted, Call, Goto, ClientLabels
  <2> QED  BY <2>1, <2>2, <2>3
<1>2. UNCHANGED <<saveLock, loading, curSave, value>>
  BY DEF AddEmuCommand, AddSaveCommand, LoadCounted, saving
<1>3. queue' \in Seq(Kinds)
  <2>1. CASE AddEmuCommand(t)
    BY <1>0, <2>1, AppendProperties DEF AddEmuCommand, At, BridgeInv, TypeOK
  <2> QED  BY <1>0, <2>1 DEF AddSaveCommand, LoadCounted, TypeOK
<1>4. slot' \in Saves \cup {"none"}
  <2>1. CASE AddSaveCommand(t)
    BY <1>0, <2>1 DEF AddSaveCommand, At, BridgeInv, TypeOK
  <2> QED  BY <1>0, <2>1 DEF AddEmuCommand, LoadCounted, saving, TypeOK
<1>5. paused' \subseteq PauseTypes
  BY <1>0 DEF AddEmuCommand, AddSaveCommand, LoadCounted, audio, TypeOK
<1> QED  BY <1>0, <1>1, <1>2, <1>3, <1>4, <1>5, ClientStep DEF TypeOK

LEMMA CountSteps ==
    ASSUME BridgeInv, Flags' \subseteq BOOLEAN, NEW t \in Clients, Count(t)
    PROVE  BridgeInv'
<1>0. /\ TypeOK /\ value[t] \in Int /\ value[t] >= 0 /\ loading \in Int /\ loading >= -1
      /\ op[t] \in Kinds \cup Saves \cup {"none"} /\ op = [op EXCEPT ![t] = op[t]]
  BY DEF BridgeInv, TypeOK, Clients, Threads
<1>1. UNCHANGED <<queue, slot, saveLock, curSave, paused, op>>
  BY DEF Count, AddToLoading, WriteLoading, saving, audio
<1>2. PICK label \in {"write", "counted"}, v \in Int :
         /\ pc' = [pc EXCEPT ![t] = label] /\ value' = [value EXCEPT ![t] = v] /\ v >= 0
         /\ loading' = loading \/ loading' = value[t]
  BY <1>0, loading + 1 \in Int, loading + 1 >= 0 DEF Count, AddToLoading, WriteLoading, Goto
<1>3. label \in ClientLabels
  BY DEF ClientLabels
<1>4. label # "add" /\ label \notin {"clear save", "add save"}
  OBVIOUS
<1> QED  BY <1>0, <1>1, <1>2, <1>3, <1>4, ClientStep DEF TypeOK

\* The steps that leave the commands, the counts and the procedure alone.
LEMMA PlainSteps ==
    ASSUME BridgeInv, Flags' \subseteq BOOLEAN, NEW t \in Clients, NEW label \in ClientLabels,
           pc' = [pc EXCEPT ![t] = label], label # "add",
           label \in {"clear save", "add save"} => op[t] \in Saves,
           slot' \in {slot, "none"}, paused' \subseteq PauseTypes,
           UNCHANGED <<queue, saveLock, loading, local>>
    PROVE  BridgeInv'
<1>1. /\ TypeOK /\ value[t] \in Int /\ value[t] >= 0 /\ op[t] \in Kinds \cup Saves \cup {"none"}
      /\ value = [value EXCEPT ![t] = value[t]] /\ op = [op EXCEPT ![t] = op[t]]
  BY DEF BridgeInv, TypeOK, Clients, Threads
<1>2. UNCHANGED <<op, curSave, value>>
  BY DEF local
<1> QED  BY <1>1, <1>2, ClientStep DEF TypeOK

LEMMA ScreenSteps ==
    ASSUME BridgeInv, Flags' \subseteq BOOLEAN,
           \/ ClearSaveCommands \/ LoadMute \/ Exit \/ EmulationPause \/ EmulationPaused
           \/ OnDrawFrame \/ OnSurfaceChanged
           \/ \E t \in Clients : CheckEmuReady(t) \/ SetEmuReady(t)
           \/ \E t \in Clients, flag \in PauseTypes : TogglePause(t, flag)
    PROVE  BridgeInv'
<1>0. /\ TypeOK /\ paused \subseteq PauseTypes
      /\ \A t \in Clients : pc = [pc EXCEPT ![t] = pc[t]]
  BY DEF BridgeInv, TypeOK, Clients, Threads
<1>1. ASSUME NEW t \in Clients, CheckEmuReady(t) \/ SetEmuReady(t)
      PROVE  BridgeInv'
  <2>1. PICK label \in {"idle", "set ready"} : pc' = [pc EXCEPT ![t] = label]
    BY <1>1 DEF CheckEmuReady, SetEmuReady, Goto
  <2>2. UNCHANGED <<queue, saving, loading, audio, local>>
    BY <1>1 DEF CheckEmuReady, SetEmuReady
  <2> QED  BY <1>0, <2>1, <2>2, PlainSteps DEF ClientLabels, saving, audio
<1>2. CASE ClearSaveCommands
  <2>1. op["ui"] \in Saves
    BY <1>2 DEF ClearSaveCommands, At, BridgeInv, Clients
  <2> QED  BY <1>0, <1>2, <2>1, PlainSteps DEF ClearSaveCommands, Goto, Clients, ClientLabels, audio
<1>3. CASE LoadMute \/ Exit \/ EmulationPause \/ EmulationPaused
  <2>1. PICK label \in {"count", "check", "pause", "idle"} : pc' = [pc EXCEPT !["ui"] = label]
    BY <1>3 DEF LoadMute, Exit, EmulationPause, EmulationPaused, Goto
  <2>2. UNCHANGED <<queue, saving, loading, local>> /\ paused' \subseteq PauseTypes
    BY <1>0, <1>3 DEF LoadMute, Exit, EmulationPause, EmulationPaused, audio
  <2> QED  BY <2>1, <2>2, PlainSteps DEF ClientLabels, Clients, saving
<1>4. CASE OnSurfaceChanged
  BY <1>0, <1>4, PlainSteps DEF OnSurfaceChanged, Goto, Clients, ClientLabels, saving, audio
<1>5. CASE OnDrawFrame
  BY <1>0, <1>5
  DEF OnDrawFrame, BridgeInv, TypeOK, NegativeIsClamped, Flags, saving, audio, local
<1>6. ASSUME NEW t \in Clients, NEW flag \in PauseTypes, TogglePause(t, flag)
      PROVE  BridgeInv'
  <2>1. paused' \subseteq PauseTypes
    BY <1>0, <1>6 DEF TogglePause, SymDiff
  <2>2. UNCHANGED <<queue, slot, saveLock, loading, curSave, pc, op, value>>
    BY <1>6 DEF TogglePause, saving, local
  <2> QED  BY <1>0, <2>1, <2>2 DEF BridgeInv, TypeOK, NegativeIsClamped, Flags
<1> QED  BY <1>1, <1>2, <1>3, <1>4, <1>5, <1>6

\* The steps of the emulator that leave the count alone.
LEMMA FrameSteps ==
    ASSUME BridgeInv, Flags' \subseteq BOOLEAN,
           \/ Top \/ Unmute \/ Frame \/ ProcessSaveCommands \/ StoreState
           \/ ProcessEmuCommands \/ Run \/ Quit
    PROVE  BridgeInv'
<1>0. /\ TypeOK /\ value["emu"] \in Int /\ value["emu"] >= -1 /\ loading \in Int /\ loading >= -1
      /\ value = [value EXCEPT !["emu"] = value["emu"]] /\ op = [op EXCEPT !["emu"] = op["emu"]]
      /\ op["emu"] \in Kinds \cup Saves \cup {"none"}
  BY DEF BridgeInv, TypeOK, Threads
<1>1. pc["emu"] \notin {"clamp", "negative"}
  BY DEF Top, Unmute, Frame, ProcessSaveCommands, StoreState, ProcessEmuCommands, Run, Quit, At
<1>2. ~(loading < 0)
  BY <1>1 DEF BridgeInv, NegativeIsClamped
<1>3. UNCHANGED <<loading, value>>
  BY DEF Top, Unmute, Frame, ProcessSaveCommands, StoreState, ProcessEmuCommands, Run, Quit, local
<1>4. /\ slot' \in Saves \cup {"none"} /\ saveLock' \in {"none", "emu"}
      /\ curSave' \in Saves \cup {"none"} /\ paused' \subseteq PauseTypes
  BY <1>0 DEF Top, Unmute, Frame, ProcessSaveCommands, StoreState, ProcessEmuCommands, Run, Quit,
              local, saving, audio, TypeOK
<1>5. CASE ProcessEmuCommands /\ ~(saveAndQuit \/ queue = <<>>)
  <2>1. /\ queue' = Tail(queue) /\ pc' = [pc EXCEPT !["emu"] = "run"]
        /\ op' = [op EXCEPT !["emu"] = Head(queue)] /\ queue \in Seq(Kinds) /\ queue # <<>>
    BY <1>0, <1>5 DEF ProcessEmuCommands, Call, Goto, TypeOK
  <2>2. Head(queue) \in Kinds /\ queue' \in Seq(Kinds)
    BY <2>1, HeadTailProperties
  <2> QED  BY <1>0, <1>2, <1>3, <1>4, <2>1, <2>2, EmuStep DEF EmuLabels
<1>6. CASE ~(ProcessEmuCommands /\ ~(saveAndQuit \/ queue = <<>>))
  <2>1. queue' = queue
    BY <1>6 DEF Top, Unmute, Frame, ProcessSaveCommands, StoreState, ProcessEmuCommands, Run, Quit
  <2>2. PICK label \in EmuLabels, procedure \in {op["emu"], "none"} :
           pc' = [pc EXCEPT !["emu"] = label] /\ op' = [op EXCEPT !["emu"] = procedure]
    <3>1. CASE Top \/ Unmute \/ Frame
      <4>1. \E label \in {"unmute", "frame", "top", "vbl", "commands"} : pc' = [pc EXCEPT !["emu"] = label]
        BY <3>1 DEF Top, Unmute, Frame, Goto
      <4> QED  BY <1>0, <3>1, <4>1 DEF Top, Unmute, Frame, EmuLabels, local
    <3>2. CASE ProcessSaveCommands \/ StoreState
      BY <1>0, <3>2 DEF ProcessSaveCommands, StoreState, EmuLabels, Goto
    <3>3. CASE ProcessEmuCommands
      BY <1>0, <1>6, <3>3 DEF ProcessEmuCommands, EmuLabels, Goto
    <3>4. CASE Run
      <4>1. \E label \in {"quit", "loaded"} : pc' = [pc EXCEPT !["emu"] = label]
        BY <3>4 DEF Run, Goto
      <4> QED  BY <1>0, <3>4, <4>1 DEF Run, EmuLabels, local
    <3>5. CASE Quit
      BY <3>5 DEF Quit, Call, Goto, EmuLabels
    <3> QED  BY <3>1, <3>2, <3>3, <3>4, <3>5
  <2> QED  BY <1>0, <1>2, <1>3, <1>4, <2>1, <2>2, EmuStep DEF TypeOK
<1> QED  BY <1>5, <1>6

\* The steps of the emulator that take a load off the count.
LEMMA LoadedSteps ==
    ASSUME BridgeInv, Flags' \subseteq BOOLEAN, Loaded \/ Clamp \/ ClampWrite
    PROVE  BridgeInv'
<1>0. /\ TypeOK /\ value["emu"] \in Int /\ value["emu"] >= -1 /\ loading \in Int /\ loading >= -1
      /\ value = [value EXCEPT !["emu"] = value["emu"]] /\ op = [op EXCEPT !["emu"] = op["emu"]]
      /\ op["emu"] \in Kinds \cup Saves \cup {"none"}
      /\ loading < 0 => pc["emu"] \in {"clamp", "negative"}
  BY DEF BridgeInv, TypeOK, Threads, NegativeIsClamped
<1>1. UNCHANGED <<queue, slot, saveLock, curSave, paused, op>>
  BY DEF Loaded, AddToLoading, WriteLoading, Clamp, ClampWrite, saving, audio, local
<1>2. CASE AddToLoading("emu", -1, "loaded")
  <2>1. pc["emu"] = "loaded" /\ pc' = [pc EXCEPT !["emu"] = "write"] /\ loading' = loading
        /\ value' = [value EXCEPT !["emu"] = loading + -1]
    BY <1>2 DEF AddToLoading, At, Goto
  <2>2. ~(loading < 0)
    BY <1>0, <2>1
  <2>3. loading + -1 \in Int /\ loading + -1 >= -1
    BY <1>0, <2>2
  <2> QED  BY <1>0, <1>1, <2>1, <2>2, <2>3, EmuStep DEF EmuLabels, TypeOK
<1>3. CASE WriteLoading("emu", "clamp")
  <2>1. pc' = [pc EXCEPT !["emu"] = "clamp"] /\ loading' = value["emu"]
        /\ value' = [value EXCEPT !["emu"] = 0]
    BY <1>3 DEF WriteLoading, Goto
  <2>2. loading' \in Int /\ loading' >= -1
    BY <1>0, <2>1
  <2>3. PICK v \in Int : v >= -1 /\ value' = [value EXCEPT !["emu"] = v]
    <3>1. 0 \in Int /\ 0 >= -1
      OBVIOUS
    <3> QED  BY <2>1, <3>1, Zenon
  <2>4. PICK label \in EmuLabels : label = "clamp" /\ pc' = [pc EXCEPT !["emu"] = label]
    BY <2>1 DEF EmuLabels
  <2> QED  BY <1>0, <1>1, <2>2, <2>3, <2>4, EmuStep DEF TypeOK
<1>4. CASE Clamp
  <2>1. UNCHANGED <<loading, value>>
    BY <1>4 DEF Clamp, local
  <2>2. PICK label \in {"negative", "quit"} :
           pc' = [pc EXCEPT !["emu"] = label] /\ (loading < 0 => label = "negative")
    BY <1>4 DEF Clamp, Goto
  <2> QED  BY <1>0, <1>1, <2>1, <2>2, EmuStep DEF EmuLabels, TypeOK
<1>5. CASE ClampWrite
  <2>1. pc' = [pc EXCEPT !["emu"] = "quit"] /\ loading' = 0 /\ value' = value
    BY <1>5 DEF ClampWrite, Goto, local
  <2> QED  BY <1>0, <1>1, <2>1, EmuStep DEF EmuLabels, TypeOK
<1> QED  BY <1>2, <1>3, <1>4, <1>5 DEF Loaded

LEMMA NextBridgeInv == BridgeInv /\ [Next]_vars => BridgeInv'
<1> SUFFICES ASSUME BridgeInv, [Next]_vars PROVE BridgeInv'
  OBVIOUS
<1>1. Flags' \subseteq BOOLEAN
  BY FlagTypes DEF BridgeInv
<1>2. CASE SetEmulatorOptions \/ ResetCold \/ SaveStateSave \/ SaveStateLoad
           \/ AutoSaveLoadOnStart \/ AutoSaveStoreOnExit \/ QuickSaveStore \/ QuickSaveLoad
  <2>1. \E t \in Clients :
           \/ \E kind \in Kinds : Begin(t, kind, "add")
           \/ \E save \in Saves, label \in {"add save", "clear save"} : Begin(t, save, label)
    BY <1>2 DEF SetEmulatorOptions, ResetCold, SaveStateSave, SaveStateLoad, AutoSaveLoadOnStart,
                AutoSaveStoreOnExit, QuickSaveStore, QuickSaveLoad, Clients, Kinds, Loads, Saves
  <2> QED  BY <1>1, <2>1, BeginStep
<1>3. CASE EmulationPause \/ OnDrawFrame \/ OnSurfaceChanged
           \/ \E t \in {"ui", "gl"}, flag \in PauseTypes : TogglePause(t, flag)
  BY <1>1, <1>3, ScreenSteps DEF Clients
<1>4. CASE Ui \/ Gl
  BY <1>1, <1>4, CommandSteps, CountSteps, ScreenSteps DEF Ui, Gl, Clients
<1>5. CASE EmulationMain
  BY <1>1, <1>5, FrameSteps, LoadedSteps DEF EmulationMain
<1>6. CASE UNCHANGED vars
  BY <1>6 DEF vars, BridgeInv, TypeOK, NegativeIsClamped, Flags, saving, audio, screen, quitting, local
<1> QED  BY <1>2, <1>3, <1>4, <1>5, <1>6 DEF Next

LEMMA AlwaysBridgeInv == Spec => []BridgeInv
BY InitBridgeInv, NextBridgeInv, PTL DEF Spec

\* Every variable of hataroid.cpp's threads keeps its type.
THEOREM BridgeTypes == Spec => []TypeOK
<1>1. BridgeInv => TypeOK
  BY DEF BridgeInv
<1> QED  BY <1>1, AlwaysBridgeInv, PTL

\* However the threads' ++, -- and reset of s_loadingCommand interleave, and
\* whatever updates are lost, it is negative only until the emulator has looked.
THEOREM NegativeCountIsClamped == Spec => []NegativeIsClamped
<1>1. BridgeInv => NegativeIsClamped
  BY DEF BridgeInv
<1> QED  BY <1>1, AlwaysBridgeInv, PTL
=============================================================================
