---------------------------- MODULE EmuCommands ----------------------------
(***************************************************************************)
(* The list of commands for the emulator thread, s_headCommand of          *)
(* hataroid/src/hataroid.cpp, and its lock.                                *)
(*                                                                         *)
(* addEmuCommand is called by the activity's and the renderer's threads,   *)
(* processEmuCommands and clearEmuCommands by the emulator's.  Every read  *)
(* and write of the list and of the lock is a step.  The lock is a plain   *)
(* variable that is tested and then set: another thread may test it in     *)
(* between, and then both enter the locked section.  A deleted command     *)
(* keeps its contents here, as freed memory usually does for a moment.     *)
(***************************************************************************)
EXTENDS Integers, SequencesExt

CONSTANTS
    Producers,      \* the threads that add commands
    Emu,            \* the thread that runs them
    MaxCommands     \* bound on the commands a producer adds

ASSUME EmuCommandsAssumption ==
    /\ Emu \notin Producers
    /\ IsFiniteSet(Producers)
    /\ MaxCommands \in Nat

Threads == Producers \cup {Emu}

\* A command is named by the thread that adds it and a number.
Commands == Producers \X (1 .. MaxCommands)
Null == <<Emu, 0>>

VARIABLES
    lock,       \* s_EmuCommandLock
    head,       \* s_headCommand
    next,       \* the next field of every command
    pc,         \* where a thread is
    cur,        \* its curCommand
    added,      \* commands a producer added so far
    spent,      \* commands taken off the list to be run or deleted
    raced       \* two threads were between test and set at once (for the properties only)

vars == <<lock, head, next, pc, cur, added, spent, raced>>

Init ==
    /\ lock = FALSE
    /\ head = Null
    /\ next = [c \in Commands |-> Null]
    /\ pc = [t \in Threads |-> "idle"]
    /\ cur = [t \in Threads |-> Null]
    /\ added = [t \in Producers |-> 0]
    /\ spent = {}
    /\ raced = FALSE

Step(t, from, to) == pc[t] = from /\ pc' = [pc EXCEPT ![t] = to]

\* while (s_EmuCommandLock) { usleep(5000); } s_EmuCommandLock = 1;
TestLock(t) ==
    /\ t \in Producers => added[t] < MaxCommands
    /\ ~lock
    /\ Step(t, "idle", "tested")
    /\ raced' = (raced \/ \E u \in Threads : pc[u] = "tested")
    /\ UNCHANGED <<lock, head, next, cur, added, spent>>

SetLock(t) ==
    /\ Step(t, "tested", "locked")
    /\ lock' = TRUE
    /\ UNCHANGED <<head, next, cur, added, spent, raced>>

\* Mutant: the lock is released before the walk.
ReadHeadUnlock(t) ==
    /\ Step(t, "locked", "walk")
    /\ cur' = [cur EXCEPT ![t] = head]
    /\ lock' = FALSE
    /\ UNCHANGED <<head, next, added, spent, raced>>

\* addEmuCommand reads the head, walks to the last command, links the new one.
ReadHead(t) ==
    /\ Step(t, "locked", "walk")
    /\ cur' = [cur EXCEPT ![t] = head]
    /\ UNCHANGED <<lock, head, next, added, spent, raced>>

Walk(t) ==
    /\ cur[t] # Null
    /\ IF next[cur[t]] # Null
       THEN Step(t, "walk", "walk") /\ cur' = [cur EXCEPT ![t] = next[cur[t]]]
       ELSE Step(t, "walk", "link") /\ UNCHANGED cur
    /\ UNCHANGED <<lock, head, next, added, spent, raced>>

New(t) == <<t, added[t] + 1>>

LinkHead(t) ==
    /\ cur[t] = Null
    /\ Step(t, "walk", "unlock")
    /\ head' = New(t)
    /\ added' = [added EXCEPT ![t] = @ + 1]
    /\ UNCHANGED <<lock, next, cur, spent, raced>>

\* Mutant: the new command goes to the front.
LinkFront(t) ==
    /\ Step(t, "link", "unlock")
    /\ head' = New(t)
    /\ next' = [next EXCEPT ![New(t)] = head]
    /\ added' = [added EXCEPT ![t] = @ + 1]
    /\ UNCHANGED <<lock, cur, spent, raced>>

LinkNext(t) ==
    /\ Step(t, "link", "unlock")
    /\ next' = [next EXCEPT ![cur[t]] = New(t)]
    /\ added' = [added EXCEPT ![t] = @ + 1]
    /\ UNCHANGED <<lock, head, cur, spent, raced>>

Unlock(t) ==
    /\ Step(t, "unlock", "idle")
    /\ lock' = FALSE
    /\ cur' = [cur EXCEPT ![t] = Null]
    /\ UNCHANGED <<head, next, added, spent, raced>>

\* processEmuCommands reads s_headCommand and takes that command off the list;
\* it is run after the lock is released.
ReadFirst ==
    /\ Step(Emu, "locked", "take")
    /\ cur' = [cur EXCEPT ![Emu] = head]
    /\ UNCHANGED <<lock, head, next, added, spent, raced>>

\* Mutant: the rest of the list is dropped.
TakeLast ==
    /\ Step(Emu, "take", "unlock")
    /\ head' = Null
    /\ spent' = IF cur[Emu] = Null THEN spent ELSE spent \cup {cur[Emu]}
    /\ UNCHANGED <<lock, next, cur, added, raced>>

Take ==
    /\ Step(Emu, "take", "unlock")
    /\ head' = IF head = Null THEN Null ELSE next[head]
    /\ spent' = IF cur[Emu] = Null THEN spent ELSE spent \cup {cur[Emu]}
    /\ UNCHANGED <<lock, next, cur, added, raced>>

\* clearEmuCommands takes and deletes one command after the other.
ReadToClear ==
    /\ Step(Emu, "locked", IF head = Null THEN "unlock" ELSE "clear")
    /\ cur' = [cur EXCEPT ![Emu] = head]
    /\ UNCHANGED <<lock, head, next, added, spent, raced>>

ClearOne ==
    /\ Step(Emu, "clear", "locked clear")
    /\ head' = IF head = Null THEN Null ELSE next[head]
    /\ spent' = spent \cup {cur[Emu]}
    /\ UNCHANGED <<lock, next, cur, added, raced>>

ClearMore ==
    /\ Step(Emu, "locked clear", IF head = Null THEN "unlock" ELSE "clear")
    /\ cur' = [cur EXCEPT ![Emu] = head]
    /\ UNCHANGED <<lock, head, next, added, spent, raced>>

Add(t) == ReadHead(t) \/ Walk(t) \/ LinkHead(t) \/ LinkNext(t)
Process == ReadFirst \/ Take
ClearAll == ReadToClear \/ ClearOne \/ ClearMore

Next ==
    \/ \E t \in Threads : TestLock(t) \/ SetLock(t) \/ Unlock(t)
    \/ \E t \in Producers : Add(t)
    \/ Process
    \/ ClearAll

\* A thread in the locked section leaves it.  A thread that polls the lock every
\* 5 ms finds it open at last, as the others hold it only for a moment; the
\* emulator processes commands after every frame.
Fairness ==
    /\ \A t \in Threads : WF_vars(SetLock(t)) /\ WF_vars(Unlock(t)) /\ SF_vars(TestLock(t))
    /\ \A t \in Producers : WF_vars(Add(t))
    /\ WF_vars(Process \/ ClearAll)

Spec == Init /\ [][Next]_vars /\ Fairness

(***************************************************************************)
(* Correctness.                                                            *)
(***************************************************************************)

TypeOK ==
    /\ lock \in BOOLEAN
    /\ head \in Commands \cup {Null}
    /\ next \in [Commands -> Commands \cup {Null}]
    /\ pc \in [Threads -> {"idle", "tested", "locked", "walk", "link", "unlock",
                           "take", "clear", "locked clear"}]
    /\ cur \in [Threads -> Commands \cup {Null}]
    /\ added \in [Producers -> 0 .. MaxCommands]
    /\ spent \subseteq Commands
    /\ raced \in BOOLEAN

\* No two threads are in the locked section, nor is one whose lock another one
\* has opened, until two have found the lock open before either set it.
Inside(t) == pc[t] \notin {"idle", "tested"}
MutualExclusion ==
    raced \/ \A t, u \in Threads : Inside(t) => lock /\ (Inside(u) => t = u)

\* The commands on the list: the ones linked from the head on.
Lists == {s \in SeqOf(Commands, Cardinality(Commands)) : IsInjective(s)}

Linked(s, first, link) ==
    /\ first = IF s = <<>> THEN Null ELSE s[1]
    /\ \A i \in DOMAIN s : link[s[i]] = IF i = Len(s) THEN Null ELSE s[i + 1]

List == CHOOSE s \in Lists : Linked(s, head, next)

Q == INSTANCE CommandQueue WITH queue <- List

\* Until then the list is a queue: no command is lost, overtaken or taken twice,
\* and the pointers of the threads never reach a deleted one.
ImplementsCommandQueue == Q!Init /\ [][raced' \/ Q!Next]_<<List, spent>>

\* Even when threads meet in the locked section, no command is taken twice and
\* a producer's are taken in the order in which it added them.
RunsInOrder ==
    [][Take \/ ClearOne =>
          \A d \in spent : d[1] = cur[Emu][1] => d[2] < cur[Emu][2]]_vars

\* Every command that was added is taken off the list in the end, unless it is
\* lost because of such a race.
AllTaken == \A c \in Commands : added[c[1]] >= c[2] ~> c \in spent \/ raced
=============================================================================
