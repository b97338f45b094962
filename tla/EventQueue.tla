----------------------------- MODULE EventQueue -----------------------------
(***************************************************************************)
(* What the interrupt table of cycInt.c promises its callers: a queue of   *)
(* events with ABSOLUTE deadlines on the emulated clock.  An event is      *)
(* fired only when its deadline has passed and never before an event with  *)
(* an earlier deadline; a handler may re-arm its event one period after    *)
(* the deadline it was fired for, however late it runs; an event taken off *)
(* the queue keeps the time it had left.                                   *)
(*                                                                         *)
(* cycInt.c keeps none of these deadlines: it stores counters relative to  *)
(* the last update and only decrements one of them.  CycInt.tla is that    *)
(* code, and implements this specification.                                *)
(***************************************************************************)
EXTENDS Integers

CONSTANTS
    Events,     \* the interrupt ids that have a handler function
    Delays,     \* delays an event may be scheduled with, in clock units
    Periods,    \* periods an event may be re-armed with, in clock units
    Shifts,     \* amounts a deadline may be moved by, in clock units
    Never,      \* what an event that was never on the queue has left
    NoEvent     \* no handler is running

VARIABLES
    now,        \* the emulated clock
    queue,      \* the events waiting to be fired
    due,        \* deadline of every event of the queue (0 for the others)
    left,       \* time an event off the queue had left (0 for the others)
    firing,     \* the event whose handler is running, or NoEvent
    firedDue    \* the deadline that event had (0 if none)

vars == <<now, queue, due, left, firing, firedDue>>

Init ==
    /\ now = 0
    /\ queue = {}
    /\ due = [e \in Events |-> 0]
    /\ left = [e \in Events |-> Never]
    /\ firing = NoEvent
    /\ firedDue = 0

\* The CPU executed an instruction; no handler runs meanwhile.
Advance ==
    /\ firing = NoEvent
    /\ now' >= now
    /\ UNCHANGED <<queue, due, left, firing, firedDue>>

\* The earliest event is due: it leaves the queue and its handler starts.
Fire(e) ==
    /\ firing = NoEvent
    /\ e \in queue
    /\ due[e] <= now
    /\ \A f \in queue : due[e] <= due[f]
    /\ queue' = queue \ {e}
    /\ due' = [due EXCEPT ![e] = 0]
    /\ left' = [left EXCEPT ![e] = due[e] - now]
    /\ firing' = e
    /\ firedDue' = due[e]
    /\ UNCHANGED now

Return ==
    /\ firing # NoEvent
    /\ firing' = NoEvent
    /\ firedDue' = 0
    /\ UNCHANGED <<now, queue, due, left>>

\* Put e on the queue (or move it) with deadline d.
Place(e, d) ==
    /\ queue' = queue \cup {e}
    /\ due' = [due EXCEPT ![e] = d]
    /\ left' = [left EXCEPT ![e] = 0]
    /\ UNCHANGED <<now, firing, firedDue>>

Schedule(e) == \E d \in Delays : Place(e, now + d)

Rearm == /\ firing # NoEvent
         /\ \E p \in Periods : Place(firing, firedDue + p)

Shift(e) ==
    /\ \E d \in Shifts :
          IF e \in queue
          THEN due' = [due EXCEPT ![e] = @ + d] /\ UNCHANGED left
          ELSE left' = [left EXCEPT ![e] = @ + d] /\ UNCHANGED due
    /\ UNCHANGED <<now, queue, firing, firedDue>>

Cancel(e) ==
    /\ e \in queue
    /\ queue' = queue \ {e}
    /\ due' = [due EXCEPT ![e] = 0]
    /\ left' = [left EXCEPT ![e] = due[e] - now]
    /\ UNCHANGED <<now, firing, firedDue>>

Resume(e) ==
    /\ e \notin queue
    /\ Place(e, now + left[e])

\* Reset of the machine: the queue and all remembered times are dropped.
Reset ==
    /\ firing = NoEvent
    /\ queue' = {}
    /\ due' = [e \in Events |-> 0]
    /\ left' = [e \in Events |-> Never]
    /\ UNCHANGED <<now, firing, firedDue>>

Next ==
    \/ Advance
    \/ Return
    \/ Rearm
    \/ Reset
    \/ \E e \in Events : Fire(e) \/ Schedule(e) \/ Shift(e) \/ Cancel(e) \/ Resume(e)

Spec == Init /\ [][Next]_vars
=============================================================================
