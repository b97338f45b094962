---------------------------- MODULE CycIntProofs ----------------------------
(***************************************************************************)
(* Proofs about CycInt for every number of interrupts, every value of the  *)
(* conversion factors and every set of times and instruction lengths.      *)
(*                                                                         *)
(* The inductive invariant is the conjunction of the three state           *)
(* predicates the runs check: ActiveIsEarliest alone is not inductive, a   *)
(* handler would be free to acknowledge an entry other than its own        *)
(* (HandlerPhase: func = active outside of instructions).                  *)
(***************************************************************************)
EXTENDS CycInt, TLAPS

Inv == TypeOK /\ ActiveIsEarliest /\ HandlerPhase

\* The conversions to internal units are integers, and natural for the times.
LEMMA InternalType ==
    /\ \A t \in Nat, type \in CycleTypes : ToInternal(t, type) \in Nat
    /\ \A t \in Int, type \in CycleTypes : ToInternal(t, type) \in Int
BY CycIntAssumption DEF ToInternal, CycleTypes

LEMMA IdsFacts ==
    /\ INTERRUPT_NULL \in Ids
    /\ Ids \subseteq Nat
    /\ Events \subseteq Ids
    /\ \A i \in Events : i > 0
BY CycIntAssumption DEF Ids, Events, INTERRUPT_NULL

LEMMA UpdatedType ==
    ASSUME TypeOK, NEW u \in [Ids -> BOOLEAN]
    PROVE  /\ Elapsed \in Int
           /\ Updated(u) \in [Ids -> Int]
           /\ \A i \in Ids : Updated(u)[i] = IF u[i] THEN cycles[i] - Elapsed ELSE cycles[i]
BY DEF TypeOK, Updated, Elapsed

LEMMA CurrentType ==
    ASSUME TypeOK
    PROVE  Current \in [Ids -> Int] /\ CurrentOver \in Int
<1>1. Updated(used) \in [Ids -> Int]
  BY UpdatedType DEF TypeOK
<1> QED  BY <1>1 DEF Current, CurrentOver, TypeOK

\* Every operation ends with CycInt_SetNewInterrupt, which establishes the
\* part of the invariant about the table from nothing.
LEMMA SetNewEstablishes ==
    ASSUME NEW u \in [Ids -> BOOLEAN], NEW c \in [Ids -> Int], SetNewInterrupt(u, c)
    PROVE  /\ used' \in [Ids -> BOOLEAN] /\ cycles' \in [Ids -> Int]
           /\ pending' \in Int /\ func' \in Ids /\ active' \in Ids
           /\ func' = active'
           /\ Elapsed' = 0
           /\ ActiveIsEarliest'
<1>1. used' = u /\ cycles' = c /\ active' \in Ids /\ IsLowest(active', u, c)
      /\ pending' = c[active'] /\ func' = active'
  BY DEF SetNewInterrupt
<1>2. Elapsed' = 0
  BY <1>1 DEF Elapsed
<1>3. IsLowest(active', used', cycles')
  BY <1>1
<1>4. IsLowest(active, used, cycles)'
  BY <1>3 DEF IsLowest
<1> QED  BY <1>1, <1>2, <1>4 DEF ActiveIsEarliest

LEMMA InitInv == Init => Inv
<1> SUFFICES ASSUME Init PROVE Inv
  OBVIOUS
<1> USE CycIntAssumption, IdsFacts
<1>1. TypeOK
  BY DEF Init, TypeOK
<1>2. ActiveIsEarliest
  BY DEF Init, ActiveIsEarliest, IsLowest
<1>3. HandlerPhase
  BY DEF Init, HandlerPhase
<1> QED  BY <1>1, <1>2, <1>3 DEF Inv

\* Operations of callers: they leave the control state alone and end with
\* SetNewInterrupt, so the invariant holds after each of them.
LEMMA TableOperation ==
    ASSUME Inv, phase \in {"run", "handler"}, UNCHANGED control,
           NEW u \in [Ids -> BOOLEAN], NEW c \in [Ids -> Int], SetNewInterrupt(u, c),
           nCyclesOver' \in Int, lastRemoved' \in Ids
    PROVE  Inv'
<1>1. /\ used' \in [Ids -> BOOLEAN] /\ cycles' \in [Ids -> Int]
      /\ pending' \in Int /\ func' \in Ids /\ active' \in Ids
      /\ func' = active' /\ ActiveIsEarliest'
  BY SetNewEstablishes
<1>2. TypeOK'
  BY <1>1 DEF TypeOK, Inv, control
<1>3. HandlerPhase'
  BY <1>1 DEF HandlerPhase, Inv, control
<1> QED  BY <1>1, <1>2, <1>3 DEF Inv

LEMMA AddInternalInv ==
    ASSUME Inv, phase \in {"run", "handler"}, NEW h \in Ids, NEW c \in Int, AddInternal(h, c)
    PROVE  Inv'
<1>1. Current \in [Ids -> Int] /\ CurrentOver \in Int
  BY CurrentType DEF Inv
<1>2. /\ [used EXCEPT ![h] = TRUE] \in [Ids -> BOOLEAN]
      /\ [Current EXCEPT ![h] = c] \in [Ids -> Int]
  BY <1>1 DEF Inv, TypeOK
<1>3. /\ SetNewInterrupt([used EXCEPT ![h] = TRUE], [Current EXCEPT ![h] = c])
      /\ nCyclesOver' \in Int /\ lastRemoved' \in Ids /\ UNCHANGED control
  BY <1>1, IdsFacts DEF AddInternal
<1> QED  BY <1>2, <1>3, TableOperation

LEMMA NextInv == Inv /\ [Next]_vars => Inv'
<1> SUFFICES ASSUME Inv, [Next]_vars PROVE Inv'
  OBVIOUS
<1> USE CycIntAssumption, IdsFacts
<1>1. CASE Reset
  <2>1. TypeOK'
    BY <1>1 DEF Reset, control, Inv, TypeOK
  <2>2. ActiveIsEarliest'
    BY <1>1 DEF Reset, ActiveIsEarliest, IsLowest
  <2>3. HandlerPhase'
    BY <1>1 DEF Reset, control, Inv, HandlerPhase
  <2> QED  BY <2>1, <2>2, <2>3 DEF Inv
<1>2. ASSUME NEW h \in Events, NEW t \in Times, NEW type \in CycleTypes,
             AddRelativeInterrupt(h, t, type)
      PROVE  Inv'
  <2>1. ToInternal(t, type) \in Int
    BY InternalType
  <2> QED  BY <1>2, <2>1, AddInternalInv DEF AddRelativeInterrupt
<1>3. ASSUME NEW t \in Times, NEW type \in CycleTypes, Rearm(t, type) PROVE Inv'
  <2>1. ToInternal(t, type) - late \in Int
    BY InternalType DEF Inv, TypeOK
  <2>2. handling \in Ids
    BY DEF Inv, TypeOK
  <2> QED  BY <1>3, <2>1, <2>2, AddInternalInv DEF Rearm
<1>4. ASSUME NEW t \in Times, AddAbsoluteInterrupt(t) PROVE Inv'
  <2> DEFINE u == [used EXCEPT ![INTERRUPT_NULL] = TRUE]
             c == [Current EXCEPT ![INTERRUPT_NULL] =
                       ToInternal(t, "INT_CPU_CYCLE") + nCyclesOver']
  <2>1. Current \in [Ids -> Int] /\ CurrentOver \in Int
    BY CurrentType DEF Inv
  <2>2. ToInternal(t, "INT_CPU_CYCLE") + nCyclesOver' \in Int /\ nCyclesOver' \in Int
    BY <1>4, <2>1, InternalType DEF AddAbsoluteInterrupt, CycleTypes
  <2>3. u \in [Ids -> BOOLEAN] /\ c \in [Ids -> Int]
    BY <2>1, <2>2 DEF Inv, TypeOK
  <2>4. SetNewInterrupt(u, c) /\ phase = "handler" /\ UNCHANGED control /\ lastRemoved' \in Ids
    BY <1>4 DEF AddAbsoluteInterrupt
  <2> QED  BY <2>2, <2>3, <2>4, TableOperation
<1>5. ASSUME NEW h \in Adjustable, NEW d \in Adjustments, ModifyInterrupt(h, d) PROVE Inv'
  <2> DEFINE c == [Current EXCEPT ![h] = @ + ToInternal(d, "INT_CPU_CYCLE")]
  <2>1. Current \in [Ids -> Int] /\ CurrentOver \in Int
    BY CurrentType DEF Inv
  <2>2. ToInternal(d, "INT_CPU_CYCLE") \in Int
    BY InternalType DEF CycleTypes
  <2>3. h \in Ids
    BY DEF Ids
  <2>4. used \in [Ids -> BOOLEAN] /\ c \in [Ids -> Int]
    BY <2>1, <2>2, <2>3 DEF Inv, TypeOK
  <2>5. /\ SetNewInterrupt(used, c) /\ phase \in {"run", "handler"} /\ UNCHANGED control
        /\ nCyclesOver' \in Int /\ lastRemoved' \in Ids
    BY <1>5, <2>1 DEF ModifyInterrupt
  <2> QED  BY <2>4, <2>5, TableOperation
<1>6. ASSUME NEW h \in Removable, RemovePendingInterrupt(h) PROVE Inv'
  <2>1. h \in Ids
    BY DEF Ids
  <2>2. /\ [used EXCEPT ![h] = FALSE] \in [Ids -> BOOLEAN]
        /\ Updated(used) \in [Ids -> Int]
    BY UpdatedType DEF Inv, TypeOK
  <2>3. /\ SetNewInterrupt([used EXCEPT ![h] = FALSE], Updated(used))
        /\ phase \in {"run", "handler"} /\ UNCHANGED control
        /\ nCyclesOver' \in Int /\ lastRemoved' \in Ids
    BY <1>6, <2>1 DEF RemovePendingInterrupt, Inv, TypeOK
  <2> QED  BY <2>2, <2>3, TableOperation
<1>7. ASSUME NEW h \in Removable, ResumeStoppedInterrupt(h) PROVE Inv'
  <2> DEFINE u == [used EXCEPT ![h] = TRUE]
  <2>1. u \in [Ids -> BOOLEAN]
    BY DEF Inv, TypeOK
  <2>2. Updated(u) \in [Ids -> Int]
    BY <2>1, UpdatedType DEF Inv
  <2>3. /\ SetNewInterrupt(u, Updated(u))
        /\ phase \in {"run", "handler"} /\ UNCHANGED control
        /\ nCyclesOver' \in Int /\ lastRemoved' \in Ids
    BY <1>7 DEF ResumeStoppedInterrupt, Inv, TypeOK
  <2> QED  BY <2>1, <2>2, <2>3, TableOperation
<1>8. ASSUME NEW n \in InstrCycles, AddCycles(n) PROVE Inv'
  <2>1. ToInternal(n, "INT_CPU_CYCLE") \in Nat
    BY InternalType DEF CycleTypes
  <2>2. TypeOK'
    BY <1>8, <2>1 DEF AddCycles, Inv, TypeOK
  <2>3. used' = used /\ cycles' = cycles /\ active' = active /\ func' = func
        /\ active # INTERRUPT_NULL
        /\ Elapsed' = Elapsed + ToInternal(n, "INT_CPU_CYCLE") /\ Elapsed \in Int
    BY <1>8, <2>1 DEF AddCycles, Elapsed, Inv, TypeOK
  <2>4. IsLowest(active, used, cycles)'
    BY <2>3 DEF Inv, ActiveIsEarliest, IsLowest
  <2>5. ActiveIsEarliest'
    BY <2>1, <2>3, <2>4 DEF Inv, ActiveIsEarliest
  <2>6. HandlerPhase'
    BY <1>8, <2>3 DEF AddCycles, Inv, HandlerPhase, ActiveIsEarliest
  <2> QED  BY <2>2, <2>5, <2>6 DEF Inv
<1>9. CASE CallHandler
  <2>1. /\ [used EXCEPT ![active] = FALSE] \in [Ids -> BOOLEAN]
        /\ Updated(used) \in [Ids -> Int]
    BY UpdatedType DEF Inv, TypeOK
  <2>2. SetNewInterrupt([used EXCEPT ![active] = FALSE], Updated(used))
    BY <1>9 DEF CallHandler
  <2>3. /\ used' \in [Ids -> BOOLEAN] /\ cycles' \in [Ids -> Int]
        /\ pending' \in Int /\ func' \in Ids /\ active' \in Ids /\ ActiveIsEarliest'
    BY <2>1, <2>2, SetNewEstablishes
  <2>4. TypeOK'
    BY <1>9, <2>3 DEF CallHandler, Inv, TypeOK
  <2>5. HandlerPhase'
    BY <1>9, <2>1, <2>2, SetNewEstablishes DEF CallHandler, HandlerPhase, Inv
  <2> QED  BY <2>3, <2>4, <2>5 DEF Inv
<1>10. CASE HandlerReturns \/ NextInstruction \/ UNCHANGED vars
  <2>1. UNCHANGED table
    BY <1>10 DEF HandlerReturns, NextInstruction, vars
  <2>2. IsLowest(active, used, cycles)' /\ Elapsed' = Elapsed
    BY <2>1 DEF table, Inv, ActiveIsEarliest, IsLowest, Elapsed
  <2>3. ActiveIsEarliest'
    BY <2>1, <2>2 DEF table, Inv, ActiveIsEarliest
  <2>4. TypeOK'
    BY <1>10, <2>1 DEF HandlerReturns, NextInstruction, vars, table, control, Inv, TypeOK
  <2>5. HandlerPhase'
    BY <1>10, <2>1 DEF HandlerReturns, NextInstruction, vars, table, control, Inv,
                             HandlerPhase
  <2> QED  BY <2>3, <2>4, <2>5 DEF Inv
<1> QED
  BY <1>1, <1>2, <1>3, <1>4, <1>5, <1>6, <1>7, <1>8, <1>9, <1>10 DEF Next

\* Type correctness, and the invariant that makes a single counter enough: the
\* entry the CPU decrements is always the earliest of the table.
THEOREM CycIntInvariant == Spec => [](TypeOK /\ ActiveIsEarliest /\ HandlerPhase)
<1>1. Inv <=> TypeOK /\ ActiveIsEarliest /\ HandlerPhase
  BY DEF Inv
<1> QED  BY <1>1, InitInv, NextInv, PTL DEF Spec

(***************************************************************************)
(* Refinement of EventQueue.                                               *)
(***************************************************************************)

\* Between the removal of a timer and its resumption nothing has elapsed, so
\* that ResumeStoppedInterrupt does not take anything off its frozen counter.
JustRemoved ==
    /\ phase = "dispatch" => lastRemoved = INTERRUPT_NULL
    /\ lastRemoved # INTERRUPT_NULL => ~used[lastRemoved] /\ Elapsed = 0

LEMMA JustRemovedInit == Init => JustRemoved
BY DEF Init, JustRemoved

LEMMA JustRemovedNext == Inv /\ JustRemoved /\ [Next]_vars => JustRemoved'
<1> SUFFICES ASSUME Inv, JustRemoved, [Next]_vars PROVE JustRemoved'
  OBVIOUS
<1>1. ASSUME NEW h \in Removable, RemovePendingInterrupt(h) PROVE JustRemoved'
  <2>1. h \in Ids /\ h # INTERRUPT_NULL
    BY CycIntAssumption DEF Ids, INTERRUPT_NULL
  <2>2. /\ [used EXCEPT ![h] = FALSE] \in [Ids -> BOOLEAN]
        /\ Updated(used) \in [Ids -> Int]
    BY UpdatedType DEF Inv, TypeOK
  <2>3. SetNewInterrupt([used EXCEPT ![h] = FALSE], Updated(used))
        /\ phase' = phase /\ phase # "dispatch" /\ lastRemoved' = h
    BY <1>1 DEF RemovePendingInterrupt, control
  <2>4. Elapsed' = 0
    BY <2>2, <2>3, SetNewEstablishes
  <2>5. used' = [used EXCEPT ![h] = FALSE]
    BY <2>3 DEF SetNewInterrupt
  <2>6. ~used'[lastRemoved']
    BY <2>1, <2>3, <2>5 DEF Inv, TypeOK
  <2> QED  BY <2>3, <2>4, <2>6 DEF JustRemoved
<1>2. CASE NextInstruction \/ CallHandler
  BY <1>2 DEF NextInstruction, CallHandler, JustRemoved
<1>3. CASE UNCHANGED vars
  BY <1>3 DEF vars, table, control, JustRemoved, Elapsed
<1>4. CASE lastRemoved' = INTERRUPT_NULL
  BY <1>4 DEF JustRemoved
<1>5. \/ \E h \in Removable : RemovePendingInterrupt(h)
      \/ NextInstruction \/ CallHandler
      \/ UNCHANGED vars
      \/ lastRemoved' = INTERRUPT_NULL
  BY DEF Next, Reset, AddRelativeInterrupt, Rearm, AddInternal, AddAbsoluteInterrupt,
         ModifyInterrupt, ResumeStoppedInterrupt, AddCycles, HandlerReturns
<1> QED  BY <1>1, <1>2, <1>3, <1>4, <1>5

\* What SetNewInterrupt leaves behind, read as absolute deadlines.
LEMMA AbstractAfter ==
    ASSUME TypeOK, now' = now,
           NEW u \in [Ids -> BOOLEAN], NEW c \in [Ids -> Int], SetNewInterrupt(u, c)
    PROVE  /\ AbstractQueue' = {i \in Events : u[i]}
           /\ AbstractDue' = [i \in Events |-> IF u[i] THEN now + c[i] ELSE 0]
           /\ AbstractLeft' = [i \in Events |-> IF u[i] THEN 0 ELSE c[i]]
<1>1. used' = u /\ cycles' = c
  BY DEF SetNewInterrupt
<1>2. Elapsed' = 0
  BY SetNewEstablishes
<1>3. \A i \in Events : Due(i)' = now + c[i]
  BY <1>1, <1>2, IdsFacts DEF Due, TypeOK
<1> QED  BY <1>1, <1>3 DEF AbstractQueue, AbstractDue, AbstractLeft

\* Bringing the table up to date moves no deadline.
LEMMA UpdateKeepsDue ==
    ASSUME Inv, NEW i \in Events
    PROVE  /\ used[i] => now + Updated(used)[i] = Due(i) /\ now + Current[i] = Due(i)
           /\ ~used[i] => Updated(used)[i] = cycles[i] /\ Current[i] = cycles[i]
           /\ Due(i) \in Int
<1> USE IdsFacts
<1>1. Elapsed \in Int /\ Updated(used)[i] = IF used[i] THEN cycles[i] - Elapsed ELSE cycles[i]
  BY UpdatedType DEF Inv, TypeOK
<1>2. now \in Int /\ cycles[i] \in Int /\ active \in Nat
  BY DEF Inv, TypeOK
<1>3. CASE active > 0
  BY <1>1, <1>2, <1>3 DEF Current, Due
<1>4. CASE active = 0
  <2>1. Elapsed = 0 \/ ~used[i]
    BY <1>4 DEF Inv, ActiveIsEarliest, INTERRUPT_NULL
  <2> QED  BY <1>1, <1>2, <1>4, <2>1 DEF Current, Due
<1> QED  BY <1>2, <1>3, <1>4

LEMMA AddIsPlace ==
    ASSUME Inv, NEW h \in Events, NEW c \in Int, AddInternal(h, c)
    PROVE  EQ!Place(h, now + c)
<1> DEFINE u == [used EXCEPT ![h] = TRUE]
           cc == [Current EXCEPT ![h] = c]
<1>1. Current \in [Ids -> Int] /\ used \in [Ids -> BOOLEAN] /\ h \in Ids /\ TypeOK
  BY CurrentType, IdsFacts DEF Inv, TypeOK
<1>2. u \in [Ids -> BOOLEAN] /\ cc \in [Ids -> Int]
  BY <1>1
<1>3. SetNewInterrupt(u, cc) /\ UNCHANGED control
  BY DEF AddInternal
<1>4. now' = now
  BY <1>3 DEF control
<1> HIDE DEF u, cc
<1>5. /\ AbstractQueue' = {i \in Events : u[i]}
      /\ AbstractDue' = [i \in Events |-> IF u[i] THEN now + cc[i] ELSE 0]
      /\ AbstractLeft' = [i \in Events |-> IF u[i] THEN 0 ELSE cc[i]]
  BY <1>1, <1>2, <1>3, <1>4, AbstractAfter
<1>6. u[h] /\ cc[h] = c
  BY <1>1 DEF u, cc
<1>7. \A i \in Events \ {h} : u[i] = used[i] /\ cc[i] = Current[i]
  BY <1>1, IdsFacts DEF u, cc
<1>8. AbstractQueue' = AbstractQueue \cup {h}
  BY <1>5, <1>6, <1>7 DEF AbstractQueue
<1>9. AbstractDue' = [AbstractDue EXCEPT ![h] = now + c]
  <2>1. \A i \in Events \ {h} :
            (IF u[i] THEN now + cc[i] ELSE 0) = (IF used[i] THEN Due(i) ELSE 0)
    BY <1>7, UpdateKeepsDue
  <2>2. (IF u[h] THEN now + cc[h] ELSE 0) = now + c
    BY <1>6
  <2> QED  BY <1>5, <2>1, <2>2, Zenon DEF AbstractDue
<1>10. AbstractLeft' = [AbstractLeft EXCEPT ![h] = 0]
  BY <1>5, <1>6, <1>7, UpdateKeepsDue DEF AbstractLeft
<1>11. AbstractFiredDue' = AbstractFiredDue /\ handling' = handling
  BY <1>3 DEF control, AbstractFiredDue
<1> QED  BY <1>4, <1>8, <1>9, <1>10, <1>11 DEF EQ!Place

\* Every step of the code is a step of the queue, or leaves it as it is.
LEMMA NextRefines ==
    Inv /\ Inv' /\ JustRemoved /\ [Next]_vars => [EQ!Next]_(EQ!vars)
<1> SUFFICES ASSUME Inv, Inv', JustRemoved, [Next]_vars PROVE [EQ!Next]_(EQ!vars)
  OBVIOUS
<1> USE IdsFacts
<1>type. TypeOK
  BY DEF Inv
<1>1. CASE Reset
  <2>1. /\ \A i \in Events : ~used'[i] /\ cycles'[i] = IntMax
        /\ now' = now /\ handling' = handling /\ phase' = phase /\ late' = late
        /\ phase = "run"
    BY <1>1 DEF Reset, control
  <2>2. AbstractQueue' = {} /\ AbstractDue' = [i \in Events |-> 0]
        /\ AbstractLeft' = [i \in Events |-> IntMax]
    BY <2>1 DEF AbstractQueue, AbstractDue, AbstractLeft
  <2>3. handling = INTERRUPT_NULL /\ AbstractFiredDue' = AbstractFiredDue
    BY <2>1 DEF Inv, HandlerPhase, AbstractFiredDue
  <2> QED  BY <2>1, <2>2, <2>3 DEF EQ!Next, EQ!Reset
<1>2. ASSUME NEW h \in Events, NEW t \in Times, NEW type \in CycleTypes,
             AddRelativeInterrupt(h, t, type)
      PROVE  EQ!Next
  <2> DEFINE d == ToInternal(t, type)
  <2>1. d \in Int /\ d \in InternalTimes
    BY InternalType, CycIntAssumption DEF InternalTimes
  <2>2. EQ!Place(h, now + d)
    BY <1>2, <2>1, AddIsPlace DEF AddRelativeInterrupt
  <2>3. EQ!Schedule(h)
    BY <2>1, <2>2 DEF EQ!Schedule
  <2> QED  BY <2>3 DEF EQ!Next
<1>3. ASSUME NEW t \in Times, NEW type \in CycleTypes, Rearm(t, type) PROVE EQ!Next
  <2> DEFINE d == ToInternal(t, type)
  <2>1. d \in Int /\ d \in InternalTimes
    BY InternalType, CycIntAssumption DEF InternalTimes
  <2>2. phase = "handler" /\ handling \in Events /\ handling # INTERRUPT_NULL
    BY <1>3 DEF Rearm, Inv, TypeOK, HandlerPhase, Events
  <2>3. EQ!Place(handling, now + (d - late))
    BY <1>3, <2>1, <2>2, AddIsPlace DEF Rearm, Inv, TypeOK
  <2>4. now + (d - late) = AbstractFiredDue + d
    BY <2>1, <2>2, <1>type DEF AbstractFiredDue, TypeOK
  <2>5. EQ!Rearm
    BY <2>1, <2>2, <2>3, <2>4 DEF EQ!Rearm
  <2> QED  BY <2>5 DEF EQ!Next
<1>4. ASSUME NEW t \in Times, AddAbsoluteInterrupt(t) PROVE UNCHANGED EQ!vars
  <2> DEFINE u == [used EXCEPT ![INTERRUPT_NULL] = TRUE]
             c == [Current EXCEPT ![INTERRUPT_NULL] =
                       ToInternal(t, "INT_CPU_CYCLE") + nCyclesOver']
  <2>1. Current \in [Ids -> Int] /\ CurrentOver \in Int
    BY CurrentType, <1>type
  <2>2. ToInternal(t, "INT_CPU_CYCLE") + nCyclesOver' \in Int
    BY <1>4, <2>1, InternalType, CycIntAssumption DEF AddAbsoluteInterrupt, CycleTypes
  <2>3. u \in [Ids -> BOOLEAN] /\ c \in [Ids -> Int]
    BY <2>1, <2>2, <1>type DEF TypeOK
  <2>4. SetNewInterrupt(u, c) /\ UNCHANGED control
    BY <1>4 DEF AddAbsoluteInterrupt
  <2>5. \A i \in Events : u[i] = used[i] /\ c[i] = Current[i]
    BY <2>1, <1>type DEF TypeOK, Events
  <2> HIDE DEF u, c
  <2>6. now' = now
    BY <2>4 DEF control
  <2>7. /\ AbstractQueue' = {i \in Events : u[i]}
        /\ AbstractDue' = [i \in Events |-> IF u[i] THEN now + c[i] ELSE 0]
        /\ AbstractLeft' = [i \in Events |-> IF u[i] THEN 0 ELSE c[i]]
    BY <1>type, <2>3, <2>4, <2>6, AbstractAfter
  <2>8. AbstractQueue' = AbstractQueue
    BY <2>5, <2>7 DEF AbstractQueue
  <2>9. AbstractDue' = AbstractDue
    BY <2>5, <2>7, UpdateKeepsDue DEF AbstractDue
  <2>10. AbstractLeft' = AbstractLeft
    BY <2>5, <2>7, UpdateKeepsDue DEF AbstractLeft
  <2>11. AbstractFiredDue' = AbstractFiredDue /\ handling' = handling
    BY <2>4 DEF control, AbstractFiredDue
  <2> QED  BY <2>6, <2>8, <2>9, <2>10, <2>11 DEF EQ!vars
<1>5. ASSUME NEW h \in Adjustable, NEW d \in Adjustments, ModifyInterrupt(h, d)
      PROVE  EQ!Next
  <2> DEFINE s == ToInternal(d, "INT_CPU_CYCLE")
             c == [Current EXCEPT ![h] = @ + s]
  <2>1. Current \in [Ids -> Int] /\ used \in [Ids -> BOOLEAN] /\ now \in Int
    BY CurrentType, <1>type DEF TypeOK
  <2>2. s \in Int /\ s \in {ToInternal(a, "INT_CPU_CYCLE") : a \in Adjustments}
    BY InternalType, CycIntAssumption DEF CycleTypes
  <2>3. h \in Events
    BY CycIntAssumption DEF Events, Ids, INTERRUPT_NULL
  <2>4. c \in [Ids -> Int] /\ c[h] = Current[h] + s /\ Current[h] \in Int
    BY <2>1, <2>2, <2>3
  <2>5. \A i \in Events \ {h} : c[i] = Current[i]
    BY <2>1
  <2>6. SetNewInterrupt(used, c) /\ UNCHANGED control
    BY <1>5 DEF ModifyInterrupt
  <2> HIDE DEF s, c
  <2>7. now' = now
    BY <2>6 DEF control
  <2>8. /\ AbstractQueue' = {i \in Events : used[i]}
        /\ AbstractDue' = [i \in Events |-> IF used[i] THEN now + c[i] ELSE 0]
        /\ AbstractLeft' = [i \in Events |-> IF used[i] THEN 0 ELSE c[i]]
    BY <1>type, <2>1, <2>4, <2>6, <2>7, AbstractAfter
  <2>9. AbstractQueue' = AbstractQueue
    BY <2>8 DEF AbstractQueue
  <2>10. CASE used[h]
    <3>1. AbstractDue' = [AbstractDue EXCEPT ![h] = @ + s]
      <4>1. now + c[h] = Due(h) + s
        BY <2>1, <2>2, <2>3, <2>4, <2>10, UpdateKeepsDue
      <4>2. \A i \in Events \ {h} :
                (IF used[i] THEN now + c[i] ELSE 0) = (IF used[i] THEN Due(i) ELSE 0)
        BY <2>5, UpdateKeepsDue
      <4>3. (IF used[h] THEN now + c[h] ELSE 0) = AbstractDue[h] + s
        BY <2>3, <2>10, <4>1 DEF AbstractDue
      <4> QED  BY <2>8, <4>2, <4>3, Zenon DEF AbstractDue
    <3>2. AbstractLeft' = AbstractLeft
      BY <2>5, <2>8, <2>10, UpdateKeepsDue DEF AbstractLeft
    <3> QED  BY <2>2, <2>3, <2>6, <2>9, <2>10, <3>1, <3>2
             DEF EQ!Next, EQ!Shift, control, AbstractFiredDue, AbstractQueue
  <2>11. CASE ~used[h]
    <3>1. AbstractDue' = AbstractDue
      BY <2>5, <2>8, <2>11, UpdateKeepsDue DEF AbstractDue
    <3>2. AbstractLeft' = [AbstractLeft EXCEPT ![h] = @ + s]
      BY <2>3, <2>4, <2>5, <2>8, <2>11, UpdateKeepsDue DEF AbstractLeft
    <3> QED  BY <2>2, <2>3, <2>6, <2>9, <2>11, <3>1, <3>2
             DEF EQ!Next, EQ!Shift, control, AbstractFiredDue, AbstractQueue
  <2> QED  BY <2>10, <2>11
<1>6. ASSUME NEW h \in Removable, RemovePendingInterrupt(h)
      PROVE  EQ!Next \/ UNCHANGED EQ!vars
  <2> DEFINE u == [used EXCEPT ![h] = FALSE]
             c == Updated(used)
  <2>1. h \in Events
    BY CycIntAssumption DEF Events, Ids, INTERRUPT_NULL
  <2>a. used \in [Ids -> BOOLEAN] /\ cycles \in [Ids -> Int] /\ now \in Int
    BY <1>type DEF TypeOK
  <2>b. u \in [Ids -> BOOLEAN]
    BY <2>a
  <2>c. c \in [Ids -> Int]
    BY <2>a, <1>type, UpdatedType
  <2>2. u \in [Ids -> BOOLEAN] /\ c \in [Ids -> Int] /\ now \in Int
    BY <2>a, <2>b, <2>c
  <2>3. SetNewInterrupt(u, c) /\ UNCHANGED control
    BY <1>6 DEF RemovePendingInterrupt
  <2>4. ~u[h] /\ \A i \in Events \ {h} : u[i] = used[i]
    BY <2>1, <1>type DEF TypeOK
  <2>5. \A i \in Events : IF used[i] THEN now + c[i] = Due(i) ELSE c[i] = cycles[i]
    BY UpdateKeepsDue
  <2>6. used[h] => c[h] = Due(h) - now
    BY <2>1, <2>2, <2>5
  <2> HIDE DEF u, c
  <2>7. now' = now
    BY <2>3 DEF control
  <2>8. /\ AbstractQueue' = {i \in Events : u[i]}
        /\ AbstractDue' = [i \in Events |-> IF u[i] THEN now + c[i] ELSE 0]
        /\ AbstractLeft' = [i \in Events |-> IF u[i] THEN 0 ELSE c[i]]
    BY <1>type, <2>2, <2>3, <2>7, AbstractAfter
  <2>9. AbstractFiredDue' = AbstractFiredDue /\ handling' = handling
    BY <2>3 DEF control, AbstractFiredDue
  <2>10. CASE used[h]
    <3>1. AbstractQueue' = AbstractQueue \ {h} /\ h \in AbstractQueue
      BY <2>1, <2>4, <2>8, <2>10 DEF AbstractQueue
    <3>2. AbstractDue' = [AbstractDue EXCEPT ![h] = 0]
      BY <2>4, <2>5, <2>8 DEF AbstractDue
    <3>3. AbstractLeft' = [AbstractLeft EXCEPT ![h] = AbstractDue[h] - now]
      <4>1. \A i \in Events \ {h} :
                (IF u[i] THEN 0 ELSE c[i]) = (IF used[i] THEN 0 ELSE cycles[i])
        BY <2>4, <2>5
      <4>2. (IF u[h] THEN 0 ELSE c[h]) = AbstractDue[h] - now
        BY <2>1, <2>4, <2>6, <2>10 DEF AbstractDue
      <4> QED  BY <2>8, <4>1, <4>2, Zenon DEF AbstractLeft
    <3>4. EQ!Cancel(h)
      BY <2>7, <2>9, <3>1, <3>2, <3>3 DEF EQ!Cancel
    <3> QED  BY <2>1, <3>4 DEF EQ!Next
  <2>11. CASE ~used[h]
    <3>1. AbstractQueue' = AbstractQueue
      BY <2>4, <2>8, <2>11 DEF AbstractQueue
    <3>2. AbstractDue' = AbstractDue
      BY <2>4, <2>5, <2>8, <2>11 DEF AbstractDue
    <3>3. AbstractLeft' = AbstractLeft
      BY <2>4, <2>5, <2>8, <2>11 DEF AbstractLeft
    <3> QED  BY <2>7, <2>9, <3>1, <3>2, <3>3 DEF EQ!vars
  <2> QED  BY <2>10, <2>11
<1>7. ASSUME NEW h \in Removable, ResumeStoppedInterrupt(h) PROVE EQ!Next
  <2> DEFINE u == [used EXCEPT ![h] = TRUE]
             c == Updated(u)
  <2>1. h \in Events
    BY CycIntAssumption DEF Events, Ids, INTERRUPT_NULL
  <2>2. ~used[h] /\ Elapsed = 0
    BY <1>7, <2>1 DEF ResumeStoppedInterrupt, JustRemoved, Events
  <2>a. used \in [Ids -> BOOLEAN] /\ cycles \in [Ids -> Int] /\ now \in Int
    BY <1>type DEF TypeOK
  <2>3. u \in [Ids -> BOOLEAN]
    BY <2>a
  <2>b. c \in [Ids -> Int] /\ \A i \in Ids : c[i] = IF u[i] THEN cycles[i] - Elapsed ELSE cycles[i]
    BY <1>type, <2>3, UpdatedType
  <2>4. \A i \in Events : c[i] = cycles[i] /\ cycles[i] \in Int
    <3>1. ASSUME NEW i \in Events PROVE c[i] = cycles[i] /\ cycles[i] \in Int
      <4>1. cycles[i] \in Int /\ c[i] = IF u[i] THEN cycles[i] - 0 ELSE cycles[i]
        BY <2>a, <2>b, <2>2
      <4> HIDE DEF c, u
      <4> QED  BY <4>1
    <3> QED  BY <3>1
  <2>5. SetNewInterrupt(u, c) /\ UNCHANGED control
    BY <1>7 DEF ResumeStoppedInterrupt
  <2>6. u[h] /\ \A i \in Events \ {h} : u[i] = used[i]
    BY <2>1, <2>a
  <2> HIDE DEF u, c
  <2>7. \A i \in Events : now + c[i] = Due(i)
    BY <2>a, <2>2, <2>4 DEF Due
  <2>8. now' = now
    BY <2>5 DEF control
  <2>9. /\ AbstractQueue' = {i \in Events : u[i]}
        /\ AbstractDue' = [i \in Events |-> IF u[i] THEN now + c[i] ELSE 0]
        /\ AbstractLeft' = [i \in Events |-> IF u[i] THEN 0 ELSE c[i]]
    BY <1>type, <2>3, <2>b, <2>5, <2>8, AbstractAfter
  <2>10. AbstractQueue' = AbstractQueue \cup {h} /\ h \notin AbstractQueue
    BY <2>1, <2>2, <2>6, <2>9 DEF AbstractQueue
  <2>11. AbstractLeft[h] = c[h]
    BY <2>1, <2>2, <2>4 DEF AbstractLeft
  <2>12. AbstractDue' = [AbstractDue EXCEPT ![h] = now + AbstractLeft[h]]
    <3>1. \A i \in Events \ {h} :
              (IF u[i] THEN now + c[i] ELSE 0) = (IF used[i] THEN Due(i) ELSE 0)
      BY <2>6, <2>7
    <3>2. (IF u[h] THEN now + c[h] ELSE 0) = now + AbstractLeft[h]
      BY <2>6, <2>11
    <3> QED  BY <2>9, <3>1, <3>2, Zenon DEF AbstractDue
  <2>13. AbstractLeft' = [AbstractLeft EXCEPT ![h] = 0]
    BY <2>4, <2>6, <2>9 DEF AbstractLeft
  <2>14. AbstractFiredDue' = AbstractFiredDue /\ handling' = handling
    BY <2>5 DEF control, AbstractFiredDue
  <2>15. EQ!Resume(h)
    BY <2>8, <2>10, <2>12, <2>13, <2>14 DEF EQ!Resume, EQ!Place
  <2> QED  BY <2>1, <2>15 DEF EQ!Next
<1>8. ASSUME NEW n \in InstrCycles, AddCycles(n) PROVE EQ!Next
  <2> DEFINE d == ToInternal(n, "INT_CPU_CYCLE")
  <2>1. d \in Nat
    BY InternalType, CycIntAssumption DEF CycleTypes
  <2>2. /\ used' = used /\ cycles' = cycles /\ active' = active /\ pending' = pending - d
        /\ now' = now + d /\ handling' = handling /\ phase = "run" /\ phase' = "dispatch"
    BY <1>8 DEF AddCycles
  <2> HIDE DEF d
  <2>3. Elapsed' = Elapsed + d /\ Elapsed \in Int
    BY <2>1, <2>2, <1>type DEF Elapsed, TypeOK
  <2>4. \A i \in Events : Due(i)' = Due(i)
    BY <2>1, <2>2, <2>3, <1>type DEF Due, TypeOK
  <2>5. AbstractQueue' = AbstractQueue /\ AbstractDue' = AbstractDue
        /\ AbstractLeft' = AbstractLeft /\ AbstractFiredDue' = AbstractFiredDue
    BY <2>2, <2>4 DEF AbstractQueue, AbstractDue, AbstractLeft, AbstractFiredDue
  <2>6. handling = INTERRUPT_NULL /\ now' >= now
    BY <2>1, <2>2, <1>type DEF Inv, HandlerPhase, TypeOK
  <2> QED  BY <2>2, <2>5, <2>6 DEF EQ!Next, EQ!Advance
<1>9. CASE CallHandler
  <2> DEFINE u == [used EXCEPT ![active] = FALSE]
             c == Updated(used)
  <2>1. /\ used \in [Ids -> BOOLEAN] /\ cycles \in [Ids -> Int] /\ now \in Int
        /\ pending \in Int /\ active \in Ids /\ Elapsed \in Int
    BY <1>type, UpdatedType DEF TypeOK
  <2>2. /\ func = active /\ active # INTERRUPT_NULL /\ active \in Events
        /\ handling = INTERRUPT_NULL /\ pending <= 0
    BY <1>9, <2>1 DEF CallHandler, Inv, HandlerPhase, Events
  <2>3. /\ used[active] /\ cycles[active] < IntMax
        /\ \A i \in Events : used[i] /\ cycles[i] < IntMax => cycles[active] <= cycles[i]
    BY <2>1, <2>2 DEF Inv, ActiveIsEarliest, IsLowest
  <2>4. \A i \in Events : used[i] => cycles[active] <= cycles[i]
    BY <2>1, <2>2, <2>3, CycIntAssumption
  <2>5. Due(active) = now + pending /\ \A i \in Events : used[i] => Due(active) <= Due(i)
    BY <2>1, <2>2, <2>4 DEF Due, Elapsed
  <2>6. u \in [Ids -> BOOLEAN]
    BY <2>1
  <2>7. c \in [Ids -> Int]
    BY <2>1, <1>type, UpdatedType
  <2>8. SetNewInterrupt(u, c) /\ now' = now
    BY <1>9 DEF CallHandler
  <2>9. ~u[active] /\ \A i \in Events \ {active} : u[i] = used[i]
    BY <2>1
  <2>10. \A i \in Events : IF used[i] THEN now + c[i] = Due(i) ELSE c[i] = cycles[i]
    BY UpdateKeepsDue
  <2>11. c[active] = Due(active) - now
    BY <2>1, <2>2, <2>3, <2>7, <2>10
  <2> HIDE DEF u, c
  <2>12. /\ AbstractQueue' = {i \in Events : u[i]}
         /\ AbstractDue' = [i \in Events |-> IF u[i] THEN now + c[i] ELSE 0]
         /\ AbstractLeft' = [i \in Events |-> IF u[i] THEN 0 ELSE c[i]]
    BY <1>type, <2>6, <2>7, <2>8, AbstractAfter
  <2>13. AbstractQueue' = AbstractQueue \ {active} /\ active \in AbstractQueue
    BY <2>2, <2>3, <2>9, <2>12 DEF AbstractQueue
  <2>14. AbstractDue[active] = Due(active)
    BY <2>2, <2>3 DEF AbstractDue
  <2>15. AbstractDue' = [AbstractDue EXCEPT ![active] = 0]
    BY <2>9, <2>10, <2>12 DEF AbstractDue
  <2>16. AbstractLeft' = [AbstractLeft EXCEPT ![active] = AbstractDue[active] - now]
    <3>1. \A i \in Events \ {active} :
              (IF u[i] THEN 0 ELSE c[i]) = (IF used[i] THEN 0 ELSE cycles[i])
      BY <2>9, <2>10
    <3>2. (IF u[active] THEN 0 ELSE c[active]) = AbstractDue[active] - now
      BY <2>9, <2>11, <2>14
    <3> QED  BY <2>12, <3>1, <3>2, Zenon DEF AbstractLeft
  <2>17. AbstractDue[active] <= now
         /\ \A i \in AbstractQueue : AbstractDue[active] <= AbstractDue[i]
    BY <2>1, <2>2, <2>5, <2>14 DEF AbstractQueue, AbstractDue
  <2>18. handling' = active /\ AbstractFiredDue' = AbstractDue[active]
    BY <1>9, <2>1, <2>2, <2>5, <2>14 DEF CallHandler, AbstractFiredDue
  <2>19. EQ!Fire(active)
    BY <2>2, <2>8, <2>13, <2>15, <2>16, <2>17, <2>18 DEF EQ!Fire
  <2> QED  BY <2>2, <2>19 DEF EQ!Next
<1>10. ASSUME UNCHANGED table, now' = now
       PROVE  AbstractQueue' = AbstractQueue /\ AbstractDue' = AbstractDue
              /\ AbstractLeft' = AbstractLeft
  <2>1. used' = used /\ cycles' = cycles /\ Elapsed' = Elapsed
    BY <1>10 DEF table, Elapsed
  <2>2. \A i \in Events : Due(i)' = Due(i)
    BY <1>10, <2>1 DEF Due
  <2> QED  BY <2>1, <2>2 DEF AbstractQueue, AbstractDue, AbstractLeft
<1>11. CASE HandlerReturns
  <2>1. UNCHANGED table /\ now' = now /\ handling' = INTERRUPT_NULL
        /\ phase = "handler" /\ phase' = "dispatch"
    BY <1>11 DEF HandlerReturns
  <2>2. handling # INTERRUPT_NULL /\ AbstractFiredDue' = 0
    BY <2>1 DEF Inv, HandlerPhase, AbstractFiredDue
  <2>3. EQ!Return
    BY <1>10, <2>1, <2>2 DEF EQ!Return
  <2> QED  BY <2>3 DEF EQ!Next
<1>12. CASE NextInstruction \/ UNCHANGED vars
  <2>1. UNCHANGED table /\ now' = now /\ handling' = handling
    BY <1>12 DEF NextInstruction, vars, control
  <2>2. AbstractFiredDue' = AbstractFiredDue
    BY <1>12 DEF NextInstruction, vars, control, AbstractFiredDue
  <2> QED  BY <1>10, <2>1, <2>2 DEF EQ!vars
<1> QED
  BY <1>1, <1>2, <1>3, <1>4, <1>5, <1>6, <1>7, <1>8, <1>9, <1>11, <1>12 DEF Next

LEMMA InitRefines == Init => EQ!Init
<1> SUFFICES ASSUME Init PROVE EQ!Init
  OBVIOUS
<1>1. /\ \A i \in Events : ~used[i] /\ cycles[i] = IntMax
      /\ now = 0 /\ handling = INTERRUPT_NULL /\ phase = "run"
  BY IdsFacts DEF Init
<1>2. AbstractQueue = {} /\ AbstractDue = [i \in Events |-> 0]
      /\ AbstractLeft = [i \in Events |-> IntMax] /\ AbstractFiredDue = 0
  BY <1>1 DEF AbstractQueue, AbstractDue, AbstractLeft, AbstractFiredDue
<1> QED  BY <1>1, <1>2 DEF EQ!Init

\* The table of relative counters, of which only one is decremented, behaves as
\* a queue of absolute deadlines whatever its callers do.
THEOREM CycIntRefinesEventQueue == Spec => ImplementsEventQueue
<1>1. Init => Inv /\ JustRemoved /\ EQ!Init
  BY InitInv, JustRemovedInit, InitRefines
<1>2. Inv /\ JustRemoved /\ [Next]_vars => Inv' /\ JustRemoved'
  BY NextInv, JustRemovedNext
<1>3. Inv /\ Inv' /\ JustRemoved /\ [Next]_vars => [EQ!Next]_(EQ!vars)
  BY NextRefines
<1> QED  BY <1>1, <1>2, <1>3, PTL DEF Spec, ImplementsEventQueue, EQ!Spec

\* When the CPU goes on to the next instruction, no event is overdue.
THEOREM CycIntNothingOverdueLeft == Spec => NothingOverdueLeft
<1>1. ASSUME Inv, NextInstruction, NEW i \in Events, used[i] PROVE Due(i) > now
  <2>1. /\ cycles[active] \in Int /\ cycles[i] \in Int /\ now \in Int /\ pending \in Int
        /\ func = active /\ active \in Ids
    BY <1>1, IdsFacts DEF Inv, TypeOK, HandlerPhase, NextInstruction
  <2>2. CASE active # INTERRUPT_NULL
    <3>1. pending > 0
      BY <1>1, <2>1, <2>2 DEF NextInstruction
    <3>2. active \in Events /\ cycles[active] < IntMax
          /\ (cycles[i] < IntMax => cycles[active] <= cycles[i])
      BY <1>1, <2>1, <2>2 DEF Inv, ActiveIsEarliest, IsLowest, Events
    <3>3. cycles[active] <= cycles[i]
      BY <2>1, <3>2, CycIntAssumption
    <3> QED  BY <2>1, <3>1, <3>3 DEF Due, Elapsed
  <2>3. CASE active = INTERRUPT_NULL
    <3>1. Elapsed = 0 /\ cycles[i] >= IntMax
      BY <1>1, <2>1, <2>3, CycIntAssumption DEF Inv, ActiveIsEarliest, IsLowest, Events
    <3> QED  BY <2>1, <3>1, CycIntAssumption DEF Due
  <2> QED  BY <2>2, <2>3
<1>2. Inv /\ [Next]_vars => [NextInstruction => \A i \in Events : used[i] => Due(i) > now]_vars
  BY <1>1
<1> QED  BY <1>2, InitInv, NextInv, PTL DEF Spec, NothingOverdueLeft
=============================================================================
