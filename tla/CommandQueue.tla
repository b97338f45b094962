---------------------------- MODULE CommandQueue ----------------------------
(***************************************************************************)
(* What the command list of hataroid.cpp is for: a queue into which        *)
(* threads put commands and from which the emulator takes the oldest.      *)
(***************************************************************************)
EXTENDS SequencesExt

CONSTANT Commands

VARIABLES
    queue,      \* the commands that wait, the oldest first
    spent       \* the commands that were put and taken since

Init == queue = <<>> /\ spent = {}

\* A command that was never put goes to the end.
Put(c) ==
    /\ c \notin spent \cup ToSet(queue)
    /\ queue' = Append(queue, c)
    /\ UNCHANGED spent

Take ==
    /\ queue # <<>>
    /\ queue' = Tail(queue)
    /\ spent' = spent \cup {Head(queue)}

Next == Take \/ \E c \in Commands : Put(c)

Spec == Init /\ [][Next]_<<queue, spent>>
=============================================================================
