------------------------- MODULE EmuCommandsProofs -------------------------
(***************************************************************************)
(* Proofs about EmuCommands for any number of threads and commands: the    *)
(* types, what the lock of the command list is worth, that the commands    *)
(* run in order with or without it, and that with it the list is a queue.  *)
(***************************************************************************)
EXTENDS EmuCommands, SequenceTheorems, FiniteSetTheorems, TLAPS

\* A thread that has found the lock open is the only one that is not idle, until
\* another one finds it open as well; from its set to its reset the lock is closed.
LockInv ==
    ~raced =>
        /\ \A t \in Threads : Inside(t) => lock
        /\ \A t, u \in Threads : pc[t] # "idle" /\ pc[u] # "idle" => t = u

\* What the types rest on: a producer that has not linked its command yet has
\* not used up its numbers, and the emulator deletes a command that it has read.
TypeInv ==
    /\ TypeOK
    /\ \A t \in Producers :
          pc[t] \in {"tested", "locked", "walk", "link"} => added[t] < MaxCommands
    /\ pc[Emu] = "clear" => cur[Emu] # Null

LEMMA EmuIsAThread == Emu \in Threads /\ Producers \subseteq Threads /\ Emu \notin Producers
BY EmuCommandsAssumption DEF Threads

LEMMA NullIsNoCommand == Null \notin Commands
BY DEF Null, Commands

\* The kinds of steps that LockInv tells apart: one that tests the lock, one that
\* sets it, one that leaves, one of a thread that is inside and stays there.
LEMMA StepFacts ==
    ASSUME TypeOK, NEW t \in Threads, NEW from, NEW to, Step(t, from, to)
    PROVE  /\ pc[t] = from
           /\ pc'[t] = to
           /\ \A u \in Threads : u # t => pc'[u] = pc[u]
BY DEF Step, TypeOK

LEMMA TestKeepsLockInv ==
    ASSUME TypeOK, LockInv, NEW t \in Threads, TestLock(t)
    PROVE  LockInv'
<1>1. Step(t, "idle", "tested") /\ ~lock /\ lock' = lock
  BY DEF TestLock
<1>2. pc[t] = "idle" /\ pc'[t] = "tested" /\ \A u \in Threads : u # t => pc'[u] = pc[u]
  BY <1>1, StepFacts
<1>3. ASSUME ~raced'
      PROVE  \A u \in Threads : pc[u] = "idle"
  <2>1. ~raced /\ \A u \in Threads : pc[u] # "tested"
    BY <1>3 DEF TestLock
  <2> QED  BY <1>1, <2>1 DEF LockInv, Inside
<1> QED  BY <1>1, <1>2, <1>3 DEF LockInv, Inside

LEMMA SetKeepsLockInv ==
    ASSUME TypeOK, LockInv, NEW t \in Threads, SetLock(t)
    PROVE  LockInv'
<1>1. pc[t] = "tested" /\ pc'[t] = "locked" /\ \A u \in Threads : u # t => pc'[u] = pc[u]
  BY StepFacts DEF SetLock
<1>2. lock' /\ raced' = raced
  BY DEF SetLock
<1> QED  BY <1>1, <1>2 DEF LockInv, Inside

LEMMA LeaveKeepsLockInv ==
    ASSUME TypeOK, LockInv, NEW t \in Threads, Unlock(t)
    PROVE  LockInv'
<1>1. pc[t] = "unlock" /\ pc'[t] = "idle" /\ \A u \in Threads : u # t => pc'[u] = pc[u]
  BY StepFacts DEF Unlock
<1>2. raced' = raced
  BY DEF Unlock
<1>3. ~raced => \A u \in Threads : pc'[u] = "idle"
  BY <1>1 DEF LockInv
<1> QED  BY <1>2, <1>3 DEF LockInv, Inside

LEMMA StayKeepsLockInv ==
    ASSUME TypeOK, LockInv, NEW t \in Threads, NEW from, NEW to, Step(t, from, to),
           from \notin {"idle", "tested"}, to \notin {"idle", "tested"},
           lock' = lock, raced' = raced
    PROVE  LockInv'
<1>1. pc[t] = from /\ pc'[t] = to /\ \A u \in Threads : u # t => pc'[u] = pc[u]
  BY StepFacts
<1>2. \A u \in Threads : (Inside(u) <=> Inside(u)') /\ (pc[u] = "idle" <=> pc'[u] = "idle")
  BY <1>1 DEF Inside
<1> QED  BY <1>2 DEF LockInv

LEMMA LockInvInit == Init => LockInv
BY DEF Init, LockInv, Inside

LEMMA LockInvNext == TypeOK /\ LockInv /\ [Next]_vars => LockInv'
<1> SUFFICES ASSUME TypeOK, LockInv, [Next]_vars PROVE LockInv'
  OBVIOUS
<1>1. CASE UNCHANGED vars
  BY <1>1 DEF vars, LockInv, Inside
<1>2. CASE \E t \in Threads : TestLock(t) \/ SetLock(t) \/ Unlock(t)
  BY <1>2, TestKeepsLockInv, SetKeepsLockInv, LeaveKeepsLockInv
<1>5. CASE \E t \in Producers : Add(t)
  <2>1. PICK t \in Producers : Add(t)
    BY <1>5
  <2>2. t \in Threads
    BY EmuIsAThread
  <2>3. lock' = lock /\ raced' = raced
    BY <2>1 DEF Add, ReadHead, Walk, LinkHead, LinkNext
  <2>4. \E from \in {"locked", "walk", "link"}, to \in {"walk", "link", "unlock"} :
           Step(t, from, to)
    BY <2>1 DEF Add, ReadHead, Walk, LinkHead, LinkNext
  <2> QED  BY <2>2, <2>3, <2>4, StayKeepsLockInv
<1>6. CASE Process \/ ClearAll
  <2>1. lock' = lock /\ raced' = raced
    BY <1>6 DEF Process, ClearAll, ReadFirst, Take, ReadToClear, ClearOne, ClearMore
  <2>2. \E from \in {"locked", "take", "clear", "locked clear"},
           to \in {"take", "unlock", "clear", "locked clear"} : Step(Emu, from, to)
    BY <1>6 DEF Process, ClearAll, ReadFirst, Take, ReadToClear, ClearOne, ClearMore
  <2> QED  BY <2>1, <2>2, EmuIsAThread, StayKeepsLockInv
<1> QED  BY <1>1, <1>2, <1>5, <1>6 DEF Next

\* The counts are the only arithmetic.
LEMMA Counts ==
    ASSUME TypeInv, NEW t \in Producers
    PROVE  /\ 0 \in 0 .. MaxCommands
           /\ added[t] < MaxCommands => added[t] + 1 \in 0 .. MaxCommands
           /\ added[t] < MaxCommands => New(t) \in Commands
<1>1. MaxCommands \in Nat /\ added[t] \in 0 .. MaxCommands
  BY EmuCommandsAssumption DEF TypeInv, TypeOK
<1>2. added[t] < MaxCommands => added[t] + 1 \in 0 .. MaxCommands /\ added[t] + 1 \in 1 .. MaxCommands
  BY <1>1
<1>3. added[t] + 1 \in 1 .. MaxCommands => New(t) \in Commands
  BY DEF New, Commands
<1> QED  BY <1>1, <1>2, <1>3

LEMMA TypeInvInit == Init => TypeInv
<1> SUFFICES ASSUME Init PROVE TypeInv
  OBVIOUS
<1>1. 0 \in 0 .. MaxCommands
  BY EmuCommandsAssumption
<1>2. TypeOK
  BY <1>1 DEF Init, TypeOK
<1>3. pc[Emu] = "idle" /\ \A t \in Producers : pc[t] = "idle"
  BY EmuIsAThread DEF Init
<1> QED  BY <1>2, <1>3 DEF TypeInv

\* The steps of a producer that adds a command.
LEMMA AddKeepsTypeInv ==
    ASSUME TypeInv, NEW t \in Producers, Add(t)
    PROVE  TypeInv'
<1>1. t \in Threads /\ t # Emu /\ Emu \in Threads /\ Producers \subseteq Threads
  BY EmuIsAThread
<1>2. cur[t] \in Commands \cup {Null} /\ head \in Commands \cup {Null}
  BY <1>1 DEF TypeInv, TypeOK
<1>3. CASE ReadHead(t)
  <2>1. TypeOK'
    BY <1>1, <1>2, <1>3 DEF ReadHead, Step, TypeInv, TypeOK
  <2> QED  BY <1>1, <1>3, <2>1 DEF ReadHead, Step, TypeInv, TypeOK
<1>4. CASE Walk(t)
  <2>1. next[cur[t]] \in Commands \cup {Null}
    BY <1>2, <1>4 DEF Walk, TypeInv, TypeOK
  <2>2. \E to \in {"walk", "link"} : Step(t, "walk", to)
    BY <1>4 DEF Walk
  <2>3. cur' = cur \/ cur' = [cur EXCEPT ![t] = next[cur[t]]]
    BY <1>4 DEF Walk
  <2>4. UNCHANGED <<lock, head, next, added, spent, raced>>
    BY <1>4 DEF Walk
  <2>5. TypeOK'
    BY <1>1, <2>1, <2>2, <2>3, <2>4 DEF Step, TypeInv, TypeOK
  <2>6. cur'[Emu] = cur[Emu]
    BY <1>1, <2>3 DEF TypeInv, TypeOK
  <2> QED  BY <1>1, <2>2, <2>4, <2>5, <2>6 DEF Step, TypeInv, TypeOK
<1>5. CASE LinkHead(t) \/ LinkNext(t)
  <2>1. added[t] < MaxCommands
    BY <1>5 DEF LinkHead, LinkNext, Step, TypeInv
  <2>2. New(t) \in Commands /\ added[t] + 1 \in 0 .. MaxCommands
    BY <2>1, Counts
  <2>3. added' = [added EXCEPT ![t] = added[t] + 1]
    BY <1>5 DEF LinkHead, LinkNext
  <2>4. \E from \in {"walk", "link"} : Step(t, from, "unlock")
    BY <1>5 DEF LinkHead, LinkNext
  <2>5. UNCHANGED <<lock, cur, spent, raced>>
    BY <1>5 DEF LinkHead, LinkNext
  <2>6. head' \in Commands \cup {Null} /\ next' \in [Commands -> Commands \cup {Null}]
    BY <1>2, <1>5, <2>2 DEF LinkHead, LinkNext, TypeInv, TypeOK
  <2>7. TypeOK'
    BY <1>1, <2>2, <2>3, <2>4, <2>5, <2>6 DEF Step, TypeInv, TypeOK
  <2>8. \A u \in Producers : u # t => pc'[u] = pc[u] /\ added'[u] = added[u]
    BY <1>1, <2>3, <2>4 DEF Step, TypeInv, TypeOK
  <2>9. pc'[t] = "unlock" /\ pc'[Emu] = pc[Emu]
    BY <1>1, <2>4 DEF Step, TypeInv, TypeOK
  <2> QED  BY <2>5, <2>7, <2>8, <2>9 DEF TypeInv
<1> QED  BY <1>3, <1>4, <1>5 DEF Add

\* The steps of the emulator that takes or deletes commands.
LEMMA EmuKeepsTypeInv ==
    ASSUME TypeInv, Process \/ ClearAll
    PROVE  TypeInv'
<1>1. Emu \in Threads /\ Emu \notin Producers /\ Producers \subseteq Threads
  BY EmuIsAThread
<1>2. head # Null => next[head] \in Commands \cup {Null}
  BY DEF TypeInv, TypeOK
<1>3. CASE ReadFirst
  BY <1>1, <1>3 DEF ReadFirst, Step, TypeInv, TypeOK
<1>4. CASE Take
  BY <1>1, <1>2, <1>4 DEF Take, Step, TypeInv, TypeOK
<1>5. CASE ReadToClear
  BY <1>1, <1>5 DEF ReadToClear, Step, TypeInv, TypeOK
<1>6. CASE ClearOne
  <2>1. cur[Emu] \in Commands
    BY <1>1, <1>6 DEF ClearOne, Step, TypeInv, TypeOK
  <2> QED  BY <1>1, <1>2, <1>6, <2>1 DEF ClearOne, Step, TypeInv, TypeOK
<1>7. CASE ClearMore
  BY <1>1, <1>7 DEF ClearMore, Step, TypeInv, TypeOK
<1> QED  BY <1>3, <1>4, <1>5, <1>6, <1>7 DEF Process, ClearAll

LEMMA TypeInvNext == TypeInv /\ [Next]_vars => TypeInv'
<1> SUFFICES ASSUME TypeInv, [Next]_vars PROVE TypeInv'
  OBVIOUS
<1>1. CASE UNCHANGED vars
  BY <1>1 DEF vars, TypeInv, TypeOK
<1>2. CASE \E t \in Threads : TestLock(t)
  BY <1>2, EmuIsAThread, EmuCommandsAssumption DEF TestLock, Step, TypeInv, TypeOK
<1>3. CASE \E t \in Threads : SetLock(t)
  BY <1>3, EmuIsAThread DEF SetLock, Step, TypeInv, TypeOK
<1>4. CASE \E t \in Threads : Unlock(t)
  BY <1>4, EmuIsAThread DEF Unlock, Step, TypeInv, TypeOK
<1> QED
  BY <1>1, <1>2, <1>3, <1>4, AddKeepsTypeInv, EmuKeepsTypeInv DEF Next

\* Type correctness, whether or not the threads meet in the locked section.
THEOREM EmuCommandsType == Spec => []TypeOK
<1>1. TypeInv => TypeOK
  BY DEF TypeInv
<1> QED  BY <1>1, TypeInvInit, TypeInvNext, PTL DEF Spec

\* The lock of addEmuCommand and its like keeps the threads apart until two of
\* them have found it open before either set it.
THEOREM EmuCommandsMutualExclusion == Spec => []MutualExclusion
<1>1. Init => TypeInv /\ LockInv
  BY TypeInvInit, LockInvInit
<1>2. TypeInv /\ LockInv /\ [Next]_vars => TypeInv' /\ LockInv'
  BY TypeInvNext, LockInvNext DEF TypeInv
<1>3. LockInv => MutualExclusion
  BY DEF LockInv, MutualExclusion, Inside
<1> QED  BY <1>1, <1>2, <1>3, PTL DEF Spec

(***************************************************************************)
(* The list.  It is the only sequence that its pointers spell out, and     *)
(* what the steps do to the pointers is to append, and to take the head.   *)
(***************************************************************************)

LEMMA SeqFacts ==
    ASSUME NEW s \in Seq(Commands)
    PROVE  /\ Len(s) \in Nat /\ DOMAIN s = 1 .. Len(s)
           /\ \A i \in 1 .. Len(s) : s[i] \in Commands
           /\ s = <<>> <=> Len(s) = 0
           /\ s # <<>> => 1 \in 1 .. Len(s) /\ Len(s) \in 1 .. Len(s)
           /\ ToSet(s) = {s[i] : i \in 1 .. Len(s)}
<1>1. Len(s) \in Nat /\ DOMAIN s = 1 .. Len(s) /\ \A i \in 1 .. Len(s) : s[i] \in Commands
  BY LenProperties, ElementOfSeq
<1>2. s = <<>> <=> Len(s) = 0
  BY EmptySeq
<1> QED  BY <1>1, <1>2 DEF ToSet

\* No list without repetition is longer than there are commands.
LEMMA ListsAreSeqs ==
    ASSUME NEW s
    PROVE  s \in Lists <=> s \in Seq(Commands) /\ IsInjective(s)
<1> DEFINE N == Cardinality(Commands)
<1>0. IsFiniteSet(Commands) /\ N \in Nat
  <2>1. IsFiniteSet(1 .. MaxCommands)
    BY EmuCommandsAssumption, FS_Interval
  <2> QED  BY <2>1, EmuCommandsAssumption, FS_Product, FS_CardinalityType DEF Commands
<1>1. ASSUME s \in Lists
      PROVE  s \in Seq(Commands) /\ IsInjective(s)
  <2>1. PICK n \in 0 .. N : s \in [1 .. n -> Commands]
    BY <1>1 DEF Lists, SeqOf
  <2> QED  BY <1>0, <1>1, <2>1 DEF Lists
<1>2. ASSUME s \in Seq(Commands), IsInjective(s)
      PROVE  s \in Lists
  <2>1. Len(s) \in Nat /\ s \in [1 .. Len(s) -> Commands]
    BY <1>2, LenProperties
  <2>2. s \in Injection(1 .. Len(s), Commands)
    BY <1>2, <2>1 DEF Injection
  <2>3. Cardinality(1 .. Len(s)) <= N
    BY <1>0, <2>2, FS_Injection
  <2>4. Cardinality(1 .. Len(s)) = Len(s)
    BY <2>1, FS_Interval
  <2>5. Len(s) \in 0 .. N
    BY <1>0, <2>1, <2>3, <2>4
  <2> QED  BY <1>2, <2>1, <2>5 DEF Lists, SeqOf
<1> QED  BY <1>1, <1>2

LEMMA SmallestOf ==
    ASSUME NEW T, T \subseteq Nat, T # {}
    PROVE  \E m \in T : \A k \in T : ~(k < m)
<1> DEFINE R == OpToRel(<, Nat)
<1>1. \E x \in T : \A y \in T : ~(<<y, x>> \in R)
  <2> HIDE DEF R
  <2>1. IsWellFoundedOn(R, Nat)
    BY NatLessThanWellFounded DEF R
  <2> QED  BY <2>1, WFMin, Zenon
<1>2. PICK x \in T : \A y \in T : ~(<<y, x>> \in R)
  BY <1>1
<1>3. \A y \in T : ~(y < x)
  BY <1>2 DEF OpToRel
<1> QED  BY <1>3

LEMMA LinkedAgrees ==
    ASSUME NEW h, NEW n, NEW a \in Lists, NEW b \in Lists, Linked(a, h, n), Linked(b, h, n)
    PROVE  Len(a) <= Len(b) /\ \A i \in 1 .. Len(a) : a[i] = b[i]
<1> DEFINE Bad == {i \in 1 .. Len(a) : ~(i <= Len(b) /\ a[i] = b[i])}
<1>0. a \in Seq(Commands) /\ b \in Seq(Commands)
  BY ListsAreSeqs
<1>1. /\ Len(a) \in Nat /\ Len(b) \in Nat /\ DOMAIN a = 1 .. Len(a) /\ DOMAIN b = 1 .. Len(b)
      /\ \A i \in 1 .. Len(a) : a[i] # Null
      /\ a = <<>> <=> Len(a) = 0
      /\ b = <<>> <=> Len(b) = 0
  BY <1>0, SeqFacts, NullIsNoCommand
<1>2. ASSUME NEW m \in Bad, \A k \in Bad : ~(k < m)
      PROVE  FALSE
  <2>1. m \in 1 .. Len(a) /\ ~(m <= Len(b) /\ a[m] = b[m])
    OBVIOUS
  <2>2. CASE m = 1
    <3>1. h = a[1] /\ h # Null
      BY <1>1, <2>1, <2>2 DEF Linked
    <3>2. b # <<>> /\ h = b[1]
      BY <3>1 DEF Linked
    <3> QED  BY <1>1, <2>1, <2>2, <3>1, <3>2
  <2>3. CASE m # 1
    <3>1. m - 1 \in 1 .. Len(a) /\ m - 1 # Len(a) /\ m - 1 < m /\ (m - 1) + 1 = m
      BY <1>1, <2>1, <2>3
    <3>2. m - 1 <= Len(b) /\ a[m - 1] = b[m - 1]
      BY <1>2, <3>1
    <3>3. n[a[m - 1]] = a[m] /\ a[m] # Null
      BY <1>1, <2>1, <3>1 DEF Linked
    <3>4. m - 1 \in 1 .. Len(b)
      BY <1>1, <3>1, <3>2
    <3>5. m - 1 # Len(b) /\ n[b[m - 1]] = b[m]
      BY <1>1, <3>1, <3>2, <3>3, <3>4 DEF Linked
    <3>6. m <= Len(b)
      BY <1>1, <3>4, <3>5
    <3> QED  BY <2>1, <3>2, <3>3, <3>5, <3>6
  <2> QED  BY <2>2, <2>3
<1>3. Bad = {}
  <2>1. Bad \subseteq Nat
    BY <1>1
  <2> HIDE DEF Bad
  <2> QED  BY <1>2, <2>1, SmallestOf
<1>4. \A i \in 1 .. Len(a) : i <= Len(b) /\ a[i] = b[i]
  BY <1>3
<1> QED  BY <1>1, <1>4

LEMMA LinkedIsUnique ==
    ASSUME NEW h, NEW n, NEW a \in Lists, NEW b \in Lists, Linked(a, h, n), Linked(b, h, n)
    PROVE  a = b
<1>1. a \in Seq(Commands) /\ b \in Seq(Commands) /\ Len(a) \in Nat /\ Len(b) \in Nat
  BY ListsAreSeqs, SeqFacts
<1>2. Len(a) <= Len(b) /\ Len(b) <= Len(a) /\ \A i \in 1 .. Len(a) : a[i] = b[i]
  BY LinkedAgrees
<1> QED  BY <1>1, <1>2, SeqEqual

\* A new command, linked from the last one or from s_headCommand.
LEMMA AppendToList ==
    ASSUME NEW s \in Lists, NEW c \in Commands, c \notin ToSet(s)
    PROVE  Append(s, c) \in Lists
<1>1. s \in Seq(Commands) /\ IsInjective(s)
  BY ListsAreSeqs
<1>2. /\ Len(s) \in Nat /\ DOMAIN s = 1 .. Len(s) /\ \A i \in 1 .. Len(s) : s[i] # c
      /\ Append(s, c) \in Seq(Commands) /\ DOMAIN Append(s, c) = 1 .. Len(s) + 1
      /\ \A i \in 1 .. Len(s) : Append(s, c)[i] = s[i]
      /\ Append(s, c)[Len(s) + 1] = c
  BY <1>1, SeqFacts, AppendProperties, LenProperties
<1>3. ASSUME NEW i \in 1 .. Len(s) + 1, NEW j \in 1 .. Len(s) + 1, Append(s, c)[i] = Append(s, c)[j]
      PROVE  i = j
  <2>1. CASE i \in 1 .. Len(s) /\ j \in 1 .. Len(s)
    BY <1>1, <1>2, <1>3, <2>1 DEF IsInjective
  <2>2. CASE ~(i \in 1 .. Len(s) /\ j \in 1 .. Len(s))
    BY <1>2, <1>3, <2>2
  <2> QED  BY <2>1, <2>2
<1>4. IsInjective(Append(s, c))
  BY <1>2, <1>3 DEF IsInjective
<1> QED  BY <1>2, <1>4, ListsAreSeqs

LEMMA LinkedAppend ==
    ASSUME NEW s \in Lists, NEW h, NEW n \in [Commands -> Commands \cup {Null}], Linked(s, h, n),
           NEW c \in Commands, c \notin ToSet(s), n[c] = Null
    PROVE  /\ s = <<>> => Linked(Append(s, c), c, n)
           /\ s # <<>> => Linked(Append(s, c), h, [n EXCEPT ![s[Len(s)]] = c])
<1> DEFINE a == Append(s, c)
<1>1. s \in Seq(Commands) /\ IsInjective(s)
  BY ListsAreSeqs
<1>0. Len(s) \in Nat
  BY <1>1, SeqFacts
<1>2. /\ Len(s) \in Nat /\ DOMAIN s = 1 .. Len(s) /\ \A i \in 1 .. Len(s) : s[i] # c /\ s[i] \in Commands
      /\ a \in Seq(Commands) /\ Len(a) = Len(s) + 1 /\ DOMAIN a = 1 .. Len(s) + 1 /\ a # <<>>
      /\ \A i \in 1 .. Len(s) : a[i] = s[i]
      /\ a[Len(s) + 1] = c
  BY <1>1, SeqFacts, AppendProperties, LenProperties
<1> HIDE DEF a
<1>3. CASE s = <<>>
  <2>1. Len(s) = 0
    BY <1>3, EmptySeq
  <2>2. a[1] = c /\ DOMAIN a = {1} /\ Len(a) = 1
    BY <1>2, <2>1
  <2>3. Linked(a, c, n)
    BY <1>2, <2>2 DEF Linked
  <2> QED  BY <1>3, <2>3 DEF a
<1>4. CASE s # <<>>
  <2> DEFINE m == [n EXCEPT ![s[Len(s)]] = c]
  <2>1. Len(s) \in 1 .. Len(s) /\ 1 \in 1 .. Len(s)
    BY <1>1, <1>4, SeqFacts
  <2>2. m[c] = Null /\ m[s[Len(s)]] = c /\ \A d \in Commands : d # s[Len(s)] => m[d] = n[d]
    BY <1>2, <2>1
  <2> HIDE DEF m
  <2>3. ASSUME NEW i \in 1 .. Len(s) + 1
        PROVE  m[a[i]] = IF i = Len(s) + 1 THEN Null ELSE a[i + 1]
    <3>1. CASE i = Len(s) + 1
      BY <1>2, <2>2, <3>1
    <3>2. CASE i = Len(s)
      BY <1>2, <2>1, <2>2, <3>2
    <3>3. CASE i \in 1 .. Len(s) /\ i # Len(s)
      <4>1. s[i] # s[Len(s)]
        BY <1>1, <1>2, <2>1, <3>3 DEF IsInjective
      <4>2. m[a[i]] = n[s[i]]
        BY <1>2, <2>2, <3>3, <4>1
      <4>3. n[s[i]] = s[i + 1]
        BY <1>2, <3>3 DEF Linked
      <4>4. i + 1 \in 1 .. Len(s) /\ i # Len(s) + 1
        BY <1>0, <3>3
      <4> QED  BY <1>2, <4>2, <4>3, <4>4
    <3>4. i = Len(s) + 1 \/ i = Len(s) \/ (i \in 1 .. Len(s) /\ i # Len(s))
      BY <1>0
    <3> QED  BY <3>1, <3>2, <3>3, <3>4
  <2>4. h = a[1]
    BY <1>2, <1>4, <2>1 DEF Linked
  <2>5. Linked(a, h, m)
    BY <1>2, <2>3, <2>4 DEF Linked
  <2> QED  BY <1>4, <2>5 DEF a, m
<1> QED  BY <1>3, <1>4

\* The head is taken.
LEMMA LinkedTail ==
    ASSUME NEW s \in Lists, s # <<>>, NEW h, NEW n, Linked(s, h, n)
    PROVE  /\ Tail(s) \in Lists /\ Linked(Tail(s), n[h], n)
           /\ Head(s) = h
           /\ \A i \in DOMAIN Tail(s) : Tail(s)[i] \in ToSet(s) /\ Tail(s)[i] # h
<1> DEFINE r == Tail(s)
<1>1. s \in Seq(Commands) /\ IsInjective(s)
  BY ListsAreSeqs
<1>0. Len(s) \in Nat /\ Len(r) = Len(s) - 1
  BY <1>1, SeqFacts, HeadTailProperties
<1>2. /\ Len(s) \in Nat \ {0} /\ DOMAIN s = 1 .. Len(s) /\ ToSet(s) = {s[i] : i \in 1 .. Len(s)}
      /\ h = s[1] /\ Head(s) = h
  BY <1>1, SeqFacts, EmptySeq DEF Linked
<1>3. /\ r \in Seq(Commands) /\ Len(r) = Len(s) - 1 /\ DOMAIN r = 1 .. Len(s) - 1
      /\ \A i \in 1 .. Len(s) - 1 : r[i] = s[i + 1]
  BY <1>1, HeadTailProperties, LenProperties
<1>4. r = <<>> <=> Len(r) = 0
  BY <1>3, SeqFacts
<1> HIDE DEF r
<1>5. \A i \in 1 .. Len(s) - 1 : i + 1 \in 1 .. Len(s) /\ i + 1 # 1
  BY <1>2
<1>6. IsInjective(r)
  <2> SUFFICES ASSUME NEW i \in 1 .. Len(s) - 1, NEW j \in 1 .. Len(s) - 1, r[i] = r[j]
               PROVE  i = j
    BY <1>3 DEF IsInjective
  <2>1. i + 1 = j + 1
    BY <1>1, <1>2, <1>3, <1>5 DEF IsInjective
  <2> QED  BY <2>1
<1>7. \A i \in 1 .. Len(s) - 1 : r[i] \in ToSet(s) /\ r[i] # h
  <2> SUFFICES ASSUME NEW i \in 1 .. Len(s) - 1
               PROVE  r[i] \in ToSet(s) /\ r[i] # h
    OBVIOUS
  <2>1. s[i + 1] # s[1]
    BY <1>1, <1>2, <1>5 DEF IsInjective
  <2> QED  BY <1>2, <1>3, <1>5, <2>1
<1>8. Linked(r, n[h], n)
  <2>1. n[h] = IF r = <<>> THEN Null ELSE r[1]
    <3>1. n[h] = IF 1 = Len(s) THEN Null ELSE s[1 + 1]
      BY <1>2 DEF Linked
    <3> QED  BY <1>2, <1>3, <1>4, <3>1
  <2>2. ASSUME NEW i \in 1 .. Len(s) - 1
        PROVE  n[r[i]] = IF i = Len(r) THEN Null ELSE r[i + 1]
    <3>1. n[s[i + 1]] = IF i + 1 = Len(s) THEN Null ELSE s[(i + 1) + 1]
      BY <1>2, <1>5 DEF Linked
    <3>2. CASE i = Len(r)
      <4>1. i + 1 = Len(s)
        BY <1>0, <3>2
      <4> QED  BY <1>3, <3>1, <3>2, <4>1
    <3>3. CASE i # Len(r)
      <4>1. i + 1 \in 1 .. Len(s) - 1 /\ i + 1 # Len(s)
        BY <1>0, <3>3
      <4> QED  BY <1>3, <3>1, <3>3, <4>1
    <3> QED  BY <3>2, <3>3
  <2> QED  BY <1>3, <2>1, <2>2 DEF Linked
<1>9. r \in Lists
  BY <1>3, <1>6, ListsAreSeqs
<1> QED  BY <1>2, <1>3, <1>7, <1>8, <1>9 DEF r

(***************************************************************************)
(* The commands that were added.                                           *)
(***************************************************************************)

Created(c, n) == c[2] <= n[c[1]]

\* Nothing but what was added is linked, walked to or taken, race or not.
CreatedInv ==
    /\ \A c \in Commands : next[c] # Null => Created(c, added) /\ Created(next[c], added)
    /\ head # Null => Created(head, added)
    /\ \A d \in spent : Created(d, added)
    /\ \A t \in Threads : cur[t] # Null => Created(cur[t], added)

LEMMA CommandFacts ==
    ASSUME TypeInv, NEW c \in Commands
    PROVE  /\ c = <<c[1], c[2]>> /\ c[1] \in Producers /\ c[2] \in 1 .. MaxCommands
           /\ c[2] \in Nat /\ added[c[1]] \in Nat
<1>1. c = <<c[1], c[2]>> /\ c[1] \in Producers /\ c[2] \in 1 .. MaxCommands
  BY DEF Commands
<1>2. c[2] \in Nat
  BY <1>1, EmuCommandsAssumption
<1>3. added[c[1]] \in 0 .. MaxCommands /\ MaxCommands \in Nat
  BY <1>1, EmuCommandsAssumption DEF TypeInv, TypeOK
<1>4. added[c[1]] \in Nat
  BY <1>3
<1> QED  BY <1>1, <1>2, <1>4

\* A new command is one that was not there, and the only one that is new.
LEMMA NewIsCreated ==
    ASSUME TypeInv, NEW t \in Producers, LinkHead(t) \/ LinkNext(t)
    PROVE  /\ New(t) \in Commands /\ ~Created(New(t), added)
           /\ \A c \in Commands : Created(c, added') <=> Created(c, added) \/ c = New(t)
<1>0. added[t] < MaxCommands /\ added' = [added EXCEPT ![t] = added[t] + 1]
  BY DEF TypeInv, LinkHead, LinkNext, Step
<1>5. added[t] \in 0 .. MaxCommands /\ MaxCommands \in Nat
  BY EmuCommandsAssumption DEF TypeInv, TypeOK
<1>6. added[t] \in Nat
  BY <1>5
<1>1. added[t] < MaxCommands /\ added' = [added EXCEPT ![t] = added[t] + 1] /\ added[t] \in Nat
  BY <1>0, <1>6
<1>2. New(t) \in Commands
  BY <1>1, Counts
<1>3. ~Created(New(t), added)
  BY <1>1 DEF Created, New
<1>4. ASSUME NEW c \in Commands
      PROVE  Created(c, added') <=> Created(c, added) \/ c = New(t)
  <2>1. c = <<c[1], c[2]>> /\ c[1] \in Producers /\ c[2] \in Nat
    BY CommandFacts
  <2>2. CASE c[1] = t
    <3>1. added'[c[1]] = added[t] + 1
      BY <1>1, <2>2 DEF TypeInv, TypeOK
    <3>2. c[2] <= added[t] + 1 <=> c[2] <= added[t] \/ c[2] = added[t] + 1
      BY <1>1, <2>1
    <3>3. c = New(t) <=> c[2] = added[t] + 1
      BY <2>1, <2>2 DEF New
    <3> QED  BY <2>2, <3>1, <3>2, <3>3 DEF Created
  <2>3. CASE c[1] # t
    <3>1. added'[c[1]] = added[c[1]]
      BY <1>1, <2>1, <2>3 DEF TypeInv, TypeOK
    <3>2. c # New(t)
      BY <2>3 DEF New
    <3> QED  BY <3>1, <3>2 DEF Created
  <2> QED  BY <2>2, <2>3
<1> QED  BY <1>2, <1>3, <1>4

LEMMA InitCreated == Init => CreatedInv
BY DEF Init, CreatedInv

LEMMA AddKeepsCreated ==
    ASSUME TypeInv, CreatedInv, NEW t \in Producers, Add(t)
    PROVE  CreatedInv'
<1>1. /\ t \in Threads /\ cur[t] \in Commands \cup {Null} /\ head \in Commands \cup {Null}
      /\ next \in [Commands -> Commands \cup {Null}] /\ cur \in [Threads -> Commands \cup {Null}]
      /\ spent \subseteq Commands
  BY EmuIsAThread DEF TypeInv, TypeOK
<1>2. CASE ReadHead(t) \/ Walk(t)
  <2>1. added' = added /\ UNCHANGED <<head, next, spent>>
    BY <1>2 DEF ReadHead, Walk
  <2>2. PICK c \in {head, cur[t]} \cup {next[d] : d \in {cur[t]} \ {Null}} : cur' = [cur EXCEPT ![t] = c]
    BY <1>1, <1>2 DEF ReadHead, Walk
  <2>3. c # Null => Created(c, added)
    BY <1>1, <2>2 DEF CreatedInv
  <2>4. \A u \in Threads : cur'[u] # Null => Created(cur'[u], added)
    BY <1>1, <2>2, <2>3 DEF CreatedInv
  <2> QED  BY <2>1, <2>4 DEF CreatedInv, Created
<1>3. CASE LinkHead(t) \/ LinkNext(t)
  <2>1. /\ New(t) \in Commands /\ Created(New(t), added') /\ \A c \in Commands : Created(c, added) => Created(c, added')
    BY <1>3, NewIsCreated
  <2>2. UNCHANGED <<cur, spent>>
    BY <1>3 DEF LinkHead, LinkNext
  <2>3. head' \in {head, New(t)} /\ (next' = next \/ next' = [next EXCEPT ![cur[t]] = New(t)])
    BY <1>3 DEF LinkHead, LinkNext
  <2>4. ASSUME NEW c \in Commands, next'[c] # Null
        PROVE  Created(c, added') /\ Created(next'[c], added')
    <3>1. CASE next'[c] = next[c]
      BY <1>1, <2>1, <2>4, <3>1 DEF CreatedInv
    <3>2. CASE next'[c] # next[c]
      <4>1. c = cur[t] /\ next'[c] = New(t) /\ cur[t] # Null
        BY <1>1, <2>3, <3>2, NullIsNoCommand
      <4> QED  BY <1>1, <2>1, <4>1 DEF CreatedInv
    <3> QED  BY <3>1, <3>2
  <2>5. head' # Null => Created(head', added')
    BY <1>1, <2>1, <2>3 DEF CreatedInv
  <2>6. \A d \in spent : Created(d, added')
    BY <1>1, <2>1 DEF CreatedInv
  <2>7. \A u \in Threads : cur[u] # Null => Created(cur[u], added')
    BY <1>1, <2>1 DEF CreatedInv
  <2> QED  BY <2>2, <2>4, <2>5, <2>6, <2>7 DEF CreatedInv
<1> QED  BY <1>2, <1>3 DEF Add

LEMMA EmuKeepsCreated ==
    ASSUME TypeInv, CreatedInv, Process \/ ClearAll
    PROVE  CreatedInv'
<1>1. /\ Emu \in Threads /\ cur[Emu] \in Commands \cup {Null} /\ head \in Commands \cup {Null}
      /\ cur \in [Threads -> Commands \cup {Null}]
  BY EmuIsAThread DEF TypeInv, TypeOK
<1>2. added' = added /\ next' = next
  BY DEF Process, ClearAll, ReadFirst, Take, ReadToClear, ClearOne, ClearMore
<1>3. cur' = cur \/ cur' = [cur EXCEPT ![Emu] = head]
  BY DEF Process, ClearAll, ReadFirst, Take, ReadToClear, ClearOne, ClearMore
<1>4. head' = head \/ head' = IF head = Null THEN Null ELSE next[head]
  BY DEF Process, ClearAll, ReadFirst, Take, ReadToClear, ClearOne, ClearMore
<1>5. spent' = spent \/ (cur[Emu] # Null /\ spent' = spent \cup {cur[Emu]})
  BY DEF Process, ClearAll, ReadFirst, Take, ReadToClear, ClearOne, ClearMore, TypeInv, Step
<1>6. \A t \in Threads : cur'[t] # Null => Created(cur'[t], added)
  BY <1>1, <1>3 DEF CreatedInv
<1>7. head' # Null => Created(head', added)
  BY <1>1, <1>4 DEF CreatedInv
<1>8. \A d \in spent' : Created(d, added)
  BY <1>1, <1>5 DEF CreatedInv
<1> QED  BY <1>2, <1>6, <1>7, <1>8 DEF CreatedInv, Created

LEMMA NextCreated ==
    ASSUME TypeInv, CreatedInv, [Next]_vars
    PROVE  CreatedInv'
<1>1. CASE \E t \in Threads : TestLock(t) \/ SetLock(t)
  BY <1>1 DEF TestLock, SetLock, CreatedInv, Created
<1>2. ASSUME NEW t \in Threads, Unlock(t)
      PROVE  CreatedInv'
  <2>1. UNCHANGED <<head, next, added, spent>> /\ cur' = [cur EXCEPT ![t] = Null]
    BY <1>2 DEF Unlock
  <2>2. \A u \in Threads : cur'[u] # Null => Created(cur'[u], added)
    BY <2>1 DEF CreatedInv, TypeInv, TypeOK
  <2> QED  BY <2>1, <2>2 DEF CreatedInv, Created
<1>3. CASE UNCHANGED vars
  BY <1>3 DEF vars, CreatedInv, Created
<1> QED  BY <1>1, <1>2, <1>3, AddKeepsCreated, EmuKeepsCreated DEF Next

(***************************************************************************)
(* The order of the commands.  Give every command the time at which it was *)
(* linked: the times grow along the list, what was taken is older than     *)
(* what is on the list or in the emulator's hands, and the commands of a   *)
(* producer are numbered by their times.  None of that needs the lock.     *)
(***************************************************************************)

InTime(time, now) ==
    /\ \A c \in Commands : Created(c, added) => time[c] < now
    /\ \A c, d \in Commands :
          Created(d, added) /\ c[1] = d[1] /\ c[2] < d[2] => time[c] < time[d]
    /\ \A c \in Commands : next[c] # Null => time[c] < time[next[c]]
    /\ head # Null => \A d \in spent : time[d] < time[head]
    /\ pc[Emu] \in {"take", "clear"} /\ cur[Emu] # Null =>
          /\ \A d \in spent : time[d] < time[cur[Emu]]
          /\ head # Null => time[cur[Emu]] <= time[head]

TimeInv == \E time \in [Commands -> Nat], now \in Nat : InTime(time, now)

LEMMA InitInTime == Init => TimeInv
<1> SUFFICES ASSUME Init PROVE TimeInv
  OBVIOUS
<1>1. \A c \in Commands : ~Created(c, added)
  <2> SUFFICES ASSUME NEW c \in Commands PROVE ~Created(c, added)
    OBVIOUS
  <2>1. c[1] \in Producers /\ c[2] \in 1 .. MaxCommands /\ MaxCommands \in Nat
    BY EmuCommandsAssumption DEF Commands
  <2>2. added[c[1]] = 0
    BY <2>1 DEF Init
  <2> QED  BY <2>1, <2>2 DEF Created
<1>2. InTime([c \in Commands |-> 0], 0)
  BY <1>1, EmuIsAThread DEF InTime, Init
<1> QED  BY <1>2 DEF TimeInv

\* A step that leaves the list alone, and does not read its head.
LEMMA OtherStepsInTime ==
    ASSUME TimeInv, UNCHANGED <<head, next, added, spent>>,
           pc'[Emu] \in {"take", "clear"} => pc'[Emu] = pc[Emu] /\ cur'[Emu] = cur[Emu]
    PROVE  TimeInv'
<1>1. PICK time \in [Commands -> Nat], now \in Nat : InTime(time, now)
  BY DEF TimeInv
<1>2. InTime(time, now)'
  BY <1>1 DEF InTime, Created
<1> QED  BY <1>2 DEF TimeInv

\* The emulator reads the head.
LEMMA ReadsInTime ==
    ASSUME TypeInv, TimeInv, UNCHANGED <<head, next, added, spent>>, cur'[Emu] = head
    PROVE  TimeInv'
<1>1. PICK time \in [Commands -> Nat], now \in Nat : InTime(time, now)
  BY DEF TimeInv
<1>2. head # Null => time[head] \in Nat
  BY <1>1 DEF TypeInv, TypeOK
<1>3. head # Null => time[head] <= time[head]
  BY <1>2
<1>4. InTime(time, now)'
  BY <1>1, <1>3 DEF InTime, Created
<1> QED  BY <1>4 DEF TimeInv

\* The emulator takes the head, and what it has read before is spent.
LEMMA TakesInTime ==
    ASSUME TypeInv, TimeInv, Take \/ ClearOne
    PROVE  TimeInv'
<1>1. PICK time \in [Commands -> Nat], now \in Nat : InTime(time, now)
  BY DEF TimeInv
<1>2. /\ Emu \in Threads /\ head \in Commands \cup {Null} /\ cur[Emu] \in Commands \cup {Null}
      /\ head # Null => next[head] \in Commands \cup {Null}
      /\ spent \subseteq Commands
  BY EmuIsAThread DEF TypeInv, TypeOK
<1>3. /\ UNCHANGED <<next, added, cur>>
      /\ pc[Emu] \in {"take", "clear"} /\ pc'[Emu] \notin {"take", "clear"}
      /\ head' = IF head = Null THEN Null ELSE next[head]
      /\ \A d \in spent' : d \in spent \/ (d = cur[Emu] /\ cur[Emu] # Null)
  BY <1>2 DEF Take, ClearOne, Step, TypeInv, TypeOK
<1>4. ASSUME head' # Null, NEW d \in spent'
      PROVE  time[d] < time[head']
  <2>1. head \in Commands /\ head' = next[head] /\ head' \in Commands /\ d \in Commands
    BY <1>2, <1>3, <1>4
  <2>2. time[head] < time[head']
    BY <1>1, <1>4, <2>1 DEF InTime
  <2>3. time[d] <= time[head]
    <3>1. CASE d \in spent
      <4>1. time[d] < time[head]
        BY <1>1, <2>1, <3>1, NullIsNoCommand DEF InTime
      <4>2. time[d] \in Nat /\ time[head] \in Nat
        BY <2>1
      <4> QED  BY <4>1, <4>2
    <3>2. CASE d = cur[Emu] /\ cur[Emu] # Null
      BY <1>1, <1>3, <2>1, <3>2, NullIsNoCommand DEF InTime
    <3> QED  BY <1>3, <3>1, <3>2
  <2>4. time[d] \in Nat /\ time[head] \in Nat /\ time[head'] \in Nat
    BY <2>1
  <2> QED  BY <2>2, <2>3, <2>4
<1>5. InTime(time, now)'
  BY <1>1, <1>3, <1>4 DEF InTime, Created
<1> QED  BY <1>5 DEF TimeInv

\* A command is linked: its time is now.
LEMMA LinksInTime ==
    ASSUME TypeInv, CreatedInv, TimeInv, NEW t \in Producers, LinkHead(t) \/ LinkNext(t)
    PROVE  TimeInv'
<1>1. PICK time \in [Commands -> Nat], now \in Nat : InTime(time, now)
  BY DEF TimeInv
<1>2. /\ New(t) \in Commands /\ ~Created(New(t), added)
      /\ \A c \in Commands : Created(c, added') <=> Created(c, added) \/ c = New(t)
  BY NewIsCreated
<1>3. PICK later \in [Commands -> Nat] :
        later[New(t)] = now /\ \A c \in Commands : c # New(t) => later[c] = time[c]
  <2>1. [time EXCEPT ![New(t)] = now] \in [Commands -> Nat]
    OBVIOUS
  <2> QED  BY <1>2, <2>1
<1>4. \A c \in Commands : Created(c, added) => later[c] = time[c] /\ later[c] < now
  BY <1>1, <1>2, <1>3 DEF InTime
<1>5. /\ Emu \in Threads /\ Emu # t /\ t \in Threads
      /\ head \in Commands \cup {Null} /\ cur[Emu] \in Commands \cup {Null}
      /\ cur[t] \in Commands \cup {Null}
      /\ next \in [Commands -> Commands \cup {Null}] /\ spent \subseteq Commands
      /\ \A c \in Commands : later[c] \in Nat /\ time[c] \in Nat
  BY <1>3, EmuIsAThread DEF TypeInv, TypeOK
<1>6. UNCHANGED <<cur, spent>> /\ pc'[Emu] = pc[Emu]
  BY <1>5 DEF LinkHead, LinkNext, Step, TypeInv, TypeOK
<1>7. head' \in {head, New(t)} /\ (next' = next \/ next' = [next EXCEPT ![cur[t]] = New(t)])
  BY DEF LinkHead, LinkNext
<1>8. ASSUME NEW c \in Commands, Created(c, added')
      PROVE  later[c] < now + 1
  <2>1. later[c] \in Nat /\ (later[c] = now \/ later[c] < now)
    BY <1>2, <1>3, <1>4, <1>5, <1>8
  <2> QED  BY <2>1
<1>9. ASSUME NEW c \in Commands, NEW d \in Commands,
             Created(d, added'), c[1] = d[1], c[2] < d[2]
      PROVE  later[c] < later[d]
  <2>1. c[2] \in Nat /\ d[2] \in Nat /\ added[c[1]] \in Nat
    BY CommandFacts
  <2>2. CASE d = New(t)
    <3>1. c[2] < added[c[1]] + 1
      BY <1>9, <2>2 DEF New
    <3>2. Created(c, added)
      BY <2>1, <3>1 DEF Created
    <3> QED  BY <1>3, <1>4, <2>2, <3>2
  <2>3. CASE d # New(t) /\ c # New(t)
    BY <1>1, <1>2, <1>3, <1>9, <2>3 DEF InTime
  <2>4. CASE d # New(t) /\ c = New(t)
    <3>1. Created(d, added)
      BY <1>2, <1>9, <2>4
    <3>2. Created(c, added)
      BY <1>9, <2>1, <3>1 DEF Created
    <3> QED  BY <1>2, <2>4, <3>2
  <2> QED  BY <2>2, <2>3, <2>4
<1>10. ASSUME NEW c \in Commands, next'[c] # Null
       PROVE  later[c] < later[next'[c]]
  <2>1. CASE next'[c] = next[c]
    <3>1. Created(c, added) /\ Created(next[c], added) /\ next[c] \in Commands
      BY <1>5, <1>10, <2>1 DEF CreatedInv
    <3>2. time[c] < time[next[c]]
      BY <1>1, <1>10, <2>1 DEF InTime
    <3> QED  BY <1>4, <2>1, <3>1, <3>2
  <2>2. CASE next'[c] # next[c]
    <3>1. c = cur[t] /\ next'[c] = New(t) /\ cur[t] # Null
      BY <1>5, <1>7, <2>2, NullIsNoCommand
    <3>2. Created(c, added)
      BY <1>5, <3>1 DEF CreatedInv
    <3> QED  BY <1>3, <1>4, <3>1, <3>2
  <2> QED  BY <2>1, <2>2
<1>11. ASSUME head' # Null, NEW d \in spent
       PROVE  later[d] < later[head']
  <2>1. d \in Commands /\ Created(d, added)
    BY <1>5 DEF CreatedInv
  <2>2. CASE head' = New(t)
    BY <1>3, <1>4, <2>1, <2>2
  <2>3. CASE head' = head
    <3>1. head \in Commands /\ Created(head, added) /\ time[d] < time[head]
      BY <1>1, <1>5, <1>11, <2>3 DEF CreatedInv, InTime
    <3> QED  BY <1>4, <2>1, <2>3, <3>1
  <2> QED  BY <1>7, <2>2, <2>3
<1>12. ASSUME pc[Emu] \in {"take", "clear"}, cur[Emu] # Null
       PROVE  /\ \A d \in spent : later[d] < later[cur[Emu]]
              /\ head' # Null => later[cur[Emu]] <= later[head']
  <2>1. cur[Emu] \in Commands /\ Created(cur[Emu], added) /\ later[cur[Emu]] = time[cur[Emu]]
    BY <1>4, <1>5, <1>12 DEF CreatedInv
  <2>2. \A d \in spent : Created(d, added) /\ later[d] = time[d]
    BY <1>4, <1>5 DEF CreatedInv
  <2>3. \A d \in spent : later[d] < later[cur[Emu]]
    BY <1>1, <1>12, <2>1, <2>2 DEF InTime
  <2>4. CASE head' = New(t)
    <3>1. later[cur[Emu]] < now /\ later[cur[Emu]] \in Nat
      BY <1>4, <1>5, <2>1
    <3> QED  BY <1>3, <2>3, <2>4, <3>1
  <2>5. CASE head' = head /\ head # Null
    <3>1. Created(head, added) /\ later[head] = time[head] /\ time[cur[Emu]] <= time[head]
      BY <1>1, <1>4, <1>5, <1>12, <2>5 DEF CreatedInv, InTime
    <3> QED  BY <2>1, <2>3, <2>5, <3>1
  <2> QED  BY <1>7, <2>3, <2>4, <2>5
<1>13. InTime(later, now + 1)'
  BY <1>6, <1>8, <1>9, <1>10, <1>11, <1>12 DEF InTime
<1>14. now + 1 \in Nat
  OBVIOUS
<1> QED  BY <1>3, <1>13, <1>14 DEF TimeInv

LEMMA NextInTime ==
    ASSUME TypeInv, CreatedInv, TimeInv, [Next]_vars
    PROVE  TimeInv'
<1>0. /\ Emu \in Threads
      /\ pc = [t \in Threads |-> pc[t]]
      /\ cur \in [Threads -> Commands \cup {Null}]
  BY EmuIsAThread DEF TypeInv, TypeOK
<1>1. ASSUME NEW t \in Threads, TestLock(t) \/ SetLock(t) \/ Unlock(t)
      PROVE  TimeInv'
  <2>1. UNCHANGED <<head, next, added, spent>>
    BY <1>1 DEF TestLock, SetLock, Unlock
  <2>2. pc'[Emu] \in {"take", "clear"} => pc'[Emu] = pc[Emu] /\ cur'[Emu] = cur[Emu]
    BY <1>0, <1>1 DEF TestLock, SetLock, Unlock, Step
  <2> QED  BY <2>1, <2>2, OtherStepsInTime
<1>2. ASSUME NEW t \in Producers, ReadHead(t) \/ Walk(t)
      PROVE  TimeInv'
  <2>0. t # Emu
    BY EmuIsAThread
  <2>1. UNCHANGED <<head, next, added, spent>>
    BY <1>2 DEF ReadHead, Walk
  <2>2. pc'[Emu] = pc[Emu] /\ cur'[Emu] = cur[Emu]
    BY <1>0, <1>2, <2>0 DEF ReadHead, Walk, Step
  <2> QED  BY <2>1, <2>2, OtherStepsInTime
<1>3. CASE ReadFirst \/ ReadToClear \/ ClearMore
  <2>1. UNCHANGED <<head, next, added, spent>> /\ cur'[Emu] = head
    BY <1>0, <1>3 DEF ReadFirst, ReadToClear, ClearMore
  <2> QED  BY <2>1, ReadsInTime
<1>4. CASE UNCHANGED vars
  BY <1>4, OtherStepsInTime DEF vars
<1> QED
  BY <1>1, <1>2, <1>3, <1>4, TakesInTime, LinksInTime DEF Next, Add, Process, ClearAll

\* No command is taken twice, and a producer's are taken in the order in which it
\* added them, also when threads meet in the locked section of the list.
THEOREM CommandsRunInOrder == Spec => RunsInOrder
<1>1. Init => TypeInv /\ CreatedInv /\ TimeInv
  BY TypeInvInit, InitCreated, InitInTime
<1>2. TypeInv /\ CreatedInv /\ TimeInv /\ [Next]_vars => TypeInv' /\ CreatedInv' /\ TimeInv'
  BY TypeInvNext, NextCreated, NextInTime
<1>3. TypeInv /\ CreatedInv /\ TimeInv /\ [Next]_vars =>
        [Take \/ ClearOne =>
            \A d \in spent : d[1] = cur[Emu][1] => d[2] < cur[Emu][2]]_vars
  <2> SUFFICES ASSUME TypeInv, CreatedInv, TimeInv, Take \/ ClearOne,
                      NEW d \in spent, d[1] = cur[Emu][1]
               PROVE  d[2] < cur[Emu][2]
    OBVIOUS
  <2>1. PICK time \in [Commands -> Nat], now \in Nat : InTime(time, now)
    BY DEF TimeInv
  <2>2. d \in Commands /\ Created(d, added) /\ cur[Emu] \in Commands \cup {Null}
    BY EmuIsAThread DEF TypeInv, TypeOK, CreatedInv
  <2>3. d[1] \in Producers /\ d[2] \in Nat
    BY <2>2, CommandFacts
  <2>4. cur[Emu] \in Commands /\ cur[Emu] # Null
    BY <2>2, <2>3, EmuIsAThread DEF Null
  <2>5. pc[Emu] \in {"take", "clear"}
    BY DEF Take, ClearOne, Step
  <2>6. time[d] < time[cur[Emu]]
    BY <2>1, <2>4, <2>5 DEF InTime
  <2>7. ~(cur[Emu][2] < d[2])
    <3>1. cur[Emu][2] < d[2] => time[cur[Emu]] < time[d]
      BY <2>1, <2>2, <2>4 DEF InTime
    <3>2. time[d] \in Nat /\ time[cur[Emu]] \in Nat
      BY <2>2, <2>4
    <3> QED  BY <2>6, <3>1, <3>2
  <2>8. cur[Emu][2] # d[2]
    <3>1. cur[Emu] = <<cur[Emu][1], cur[Emu][2]>> /\ d = <<d[1], d[2]>>
      BY <2>2, <2>4, CommandFacts
    <3>2. cur[Emu][2] = d[2] => cur[Emu] = d
      BY <3>1
    <3>3. time[d] \in Nat
      BY <2>2
    <3> QED  BY <2>6, <3>2, <3>3
  <2>9. cur[Emu][2] \in Nat
    BY <2>4, CommandFacts
  <2> QED  BY <2>3, <2>7, <2>8, <2>9
<1> QED  BY <1>1, <1>2, <1>3, PTL DEF Spec, RunsInOrder

(***************************************************************************)
(* The list is a queue, as long as the lock keeps the threads apart.       *)
(***************************************************************************)

\* Where the threads point to while they use the list s: a producer that walks
\* is on it, one that links is at its end, the emulator has read its head.
Pointers(s) ==
    /\ \A t \in Producers :
          /\ pc[t] = "walk" => cur[t] \in IF s = <<>> THEN {Null} ELSE ToSet(s)
          /\ pc[t] = "link" => s # <<>> /\ cur[t] = s[Len(s)]
    /\ pc[Emu] \in {"take", "clear"} => cur[Emu] = head

Queued(s) ==
    /\ Linked(s, head, next)
    /\ \A c \in ToSet(s) : c \notin spent /\ Created(c, added)
    /\ Pointers(s)

QueueInv == ~raced => \E s \in Lists : Queued(s)

\* What a step does to the list: nothing, put a command, take one.
Becomes(s, r) ==
    \/ r = s /\ spent' = spent
    \/ \E c \in Commands : c \notin spent \cup ToSet(s) /\ r = Append(s, c) /\ spent' = spent
    \/ s # <<>> /\ r = Tail(s) /\ spent' = spent \cup {Head(s)}

LEMMA EmptyList ==
    /\ <<>> \in Lists /\ ToSet(<<>>) = {}
    /\ \A n : Linked(<<>>, Null, n)
<1>1. <<>> \in Seq(Commands) /\ DOMAIN <<>> = {}
  BY EmptySeq
<1> QED  BY <1>1, ListsAreSeqs DEF Linked, ToSet, IsInjective

LEMMA InitQueued == Init => Queued(<<>>)
BY EmptyList, EmuIsAThread DEF Init, Queued, Pointers

\* Alone between the set and the reset of the lock: then no other thread points
\* anywhere after a step of this one.
LEMMA AloneInside ==
    ASSUME TypeInv, LockInv, ~raced, NEW t \in Threads, NEW from, NEW to, Step(t, from, to),
           from # "idle", to \in {"unlock", "locked clear"}, NEW s
    PROVE  Pointers(s)'
<1>1. pc[t] = from /\ pc'[t] = to /\ \A u \in Threads : u # t => pc'[u] = pc[u] /\ pc[u] = "idle"
  BY StepFacts DEF TypeInv, LockInv
<1>2. \A u \in Threads : pc'[u] \in {"idle", "unlock", "locked clear"}
  BY <1>1
<1> QED  BY <1>2, EmuIsAThread DEF Pointers

\* The steps that only move the pointers of a thread.
LEMMA WalkKeepsQueued ==
    ASSUME TypeInv, NEW s \in Lists, Queued(s), NEW t \in Producers, ReadHead(t) \/ Walk(t)
    PROVE  Queued(s)'
<1>1. UNCHANGED <<head, next, added, spent>> /\ t \in Threads /\ t # Emu /\ Emu \in Threads
  BY EmuIsAThread DEF ReadHead, Walk
<1>2. s \in Seq(Commands) /\ IsInjective(s)
  BY ListsAreSeqs
<1>3. /\ Len(s) \in Nat /\ DOMAIN s = 1 .. Len(s) /\ ToSet(s) = {s[i] : i \in 1 .. Len(s)}
      /\ s = <<>> <=> Len(s) = 0
      /\ \A i \in 1 .. Len(s) : s[i] \in Commands
  BY <1>2, SeqFacts
<1>5. Len(s) \in Nat
  BY <1>3
<1>4. Pointers(s)'
  <2>1. /\ \A u \in Threads : u # t => pc'[u] = pc[u] /\ cur'[u] = cur[u]
        /\ pc'[t] \in {"walk", "link"}
    BY <1>1 DEF ReadHead, Walk, Step, TypeInv, TypeOK
  <2>2. CASE ReadHead(t)
    <3>1. pc'[t] = "walk" /\ cur'[t] = head
      BY <1>1, <2>2 DEF ReadHead, Step, TypeInv, TypeOK
    <3>2. head \in IF s = <<>> THEN {Null} ELSE ToSet(s)
      BY <1>2, SeqFacts DEF Queued, Linked
    <3> QED  BY <1>1, <2>1, <3>1, <3>2, EmuIsAThread DEF Pointers, Queued
  <2>3. CASE Walk(t)
    <3>1. pc[t] = "walk" /\ cur[t] # Null
      BY <2>3 DEF Walk, Step
    <3>2. s # <<>> /\ cur[t] \in ToSet(s)
      BY <3>1 DEF Queued, Pointers
    <3>3. PICK i \in 1 .. Len(s) : cur[t] = s[i]
      BY <1>3, <3>2
    <3>4. next[cur[t]] = IF i = Len(s) THEN Null ELSE s[i + 1]
      BY <1>3, <3>3 DEF Queued, Linked
    <3>5. CASE next[cur[t]] # Null
      <4>1. i + 1 \in 1 .. Len(s) /\ next[cur[t]] = s[i + 1]
        BY <1>3, <3>4, <3>5
      <4>2. pc'[t] = "walk" /\ cur'[t] = next[cur[t]]
        BY <1>1, <2>3, <3>5 DEF Walk, Step, TypeInv, TypeOK
      <4>3. cur'[t] \in ToSet(s)
        BY <1>3, <4>1, <4>2
      <4> QED  BY <1>1, <2>1, <3>2, <4>2, <4>3, EmuIsAThread DEF Pointers, Queued
    <3>6. CASE next[cur[t]] = Null
      <4>1. cur[t] = s[Len(s)]
        <5>1. ASSUME i # Len(s) PROVE FALSE
          <6>1. i + 1 \in 1 .. Len(s)
            BY <1>5, <5>1
          <6> QED  BY <1>3, <3>4, <3>6, <5>1, <6>1, NullIsNoCommand
        <5> QED  BY <3>3, <5>1
      <4>2. pc'[t] = "link" /\ cur'[t] = cur[t]
        BY <1>1, <2>3, <3>6 DEF Walk, Step, TypeInv, TypeOK
      <4> QED  BY <1>1, <2>1, <3>2, <4>1, <4>2, EmuIsAThread DEF Pointers, Queued
    <3> QED  BY <3>5, <3>6
  <2> QED  BY <2>2, <2>3
<1> QED  BY <1>1, <1>4 DEF Queued, Created, Linked

LEMMA ReadKeepsQueued ==
    ASSUME TypeInv, NEW s \in Lists, Queued(s), ReadFirst \/ ReadToClear \/ ClearMore
    PROVE  Queued(s)'
<1>1. UNCHANGED <<head, next, added, spent>> /\ Emu \in Threads /\ Emu \notin Producers
  BY EmuIsAThread DEF ReadFirst, ReadToClear, ClearMore
<1>2. cur'[Emu] = head /\ \A t \in Producers : pc'[t] = pc[t] /\ cur'[t] = cur[t]
  BY <1>1, EmuIsAThread DEF ReadFirst, ReadToClear, ClearMore, Step, TypeInv, TypeOK
<1>3. Pointers(s)'
  BY <1>1, <1>2 DEF Pointers, Queued
<1> QED  BY <1>1, <1>3 DEF Queued, Created, Linked

LEMMA LockKeepsQueued ==
    ASSUME TypeInv, NEW s \in Lists, Queued(s),
           NEW t \in Threads, TestLock(t) \/ SetLock(t) \/ Unlock(t)
    PROVE  Queued(s)'
<1>1. UNCHANGED <<head, next, added, spent>>
  BY DEF TestLock, SetLock, Unlock
<1>2. \A u \in Threads : pc'[u] \in {"walk", "link", "take", "clear"} =>
                            pc'[u] = pc[u] /\ cur'[u] = cur[u]
  BY DEF TestLock, SetLock, Unlock, Step, TypeInv, TypeOK
<1>3. Pointers(s)'
  BY <1>1, <1>2, EmuIsAThread DEF Pointers, Queued
<1> QED  BY <1>1, <1>3 DEF Queued, Created, Linked

\* A command is put at the end.
LEMMA LinkQueues ==
    ASSUME TypeInv, LockInv, CreatedInv, ~raced, NEW s \in Lists, Queued(s),
           NEW t \in Producers, LinkHead(t) \/ LinkNext(t)
    PROVE  \E r \in Lists : Becomes(s, r) /\ Queued(r)'
<1> DEFINE r == Append(s, New(t))
<1>1. /\ New(t) \in Commands /\ ~Created(New(t), added)
      /\ \A c \in Commands : Created(c, added') <=> Created(c, added) \/ c = New(t)
  BY NewIsCreated
<1>2. New(t) \notin spent \cup ToSet(s)
  BY <1>1 DEF CreatedInv, Queued
<1>3. next[New(t)] = Null /\ next \in [Commands -> Commands \cup {Null}]
  BY <1>1 DEF CreatedInv, TypeInv, TypeOK
<1>4. Linked(s, head, next)
  BY DEF Queued
<1>5. spent' = spent /\ r \in Lists /\ Becomes(s, r)
  <2>1. r \in Lists
    BY <1>1, <1>2, AppendToList
  <2> QED  BY <1>1, <1>2, <2>1 DEF Becomes, LinkHead, LinkNext
<1>6. Linked(r, head', next')
  <2>1. CASE LinkHead(t)
    <3>1. s = <<>>
      <4>1. pc[t] = "walk" /\ cur[t] = Null
        BY <2>1 DEF LinkHead, Step
      <4>2. s \in Seq(Commands)
        BY ListsAreSeqs
      <4>3. Null \notin ToSet(s)
        BY <4>2, SeqFacts, NullIsNoCommand
      <4> QED  BY <4>1, <4>3 DEF Queued, Pointers
    <3>2. head' = New(t) /\ next' = next
      BY <2>1 DEF LinkHead
    <3> QED  BY <1>1, <1>2, <1>3, <1>4, <3>1, <3>2, LinkedAppend
  <2>2. CASE LinkNext(t)
    <3>1. s # <<>> /\ cur[t] = s[Len(s)]
      BY <2>2 DEF LinkNext, Step, Queued, Pointers
    <3>2. head' = head /\ next' = [next EXCEPT ![s[Len(s)]] = New(t)]
      BY <2>2, <3>1 DEF LinkNext
    <3> QED  BY <1>1, <1>2, <1>3, <1>4, <3>1, <3>2, LinkedAppend
  <2> QED  BY <2>1, <2>2
<1>7. \A c \in ToSet(r) : c \notin spent' /\ Created(c, added')
  <2>1. s \in Seq(Commands)
    BY ListsAreSeqs
  <2>2. \A c \in ToSet(r) : c \in ToSet(s) \/ c = New(t)
    <3>1. r \in Seq(Commands) /\ Len(r) = Len(s) + 1 /\ r[Len(s) + 1] = New(t)
          /\ \A i \in 1 .. Len(s) : r[i] = s[i]
      BY <1>1, <2>1, AppendProperties
    <3>2. Len(s) \in Nat /\ ToSet(s) = {s[i] : i \in 1 .. Len(s)}
      BY <2>1, SeqFacts
    <3>3. ToSet(r) = {r[i] : i \in 1 .. Len(s) + 1}
      BY <3>1, SeqFacts
    <3> HIDE DEF r
    <3>4. \A i \in 1 .. Len(s) + 1 : i \in 1 .. Len(s) \/ i = Len(s) + 1
      BY <3>2
    <3> QED  BY <3>1, <3>2, <3>3, <3>4
  <2>3. \A c \in ToSet(s) : c \in Commands
    BY <2>1, SeqFacts
  <2> HIDE DEF r
  <2> QED  BY <1>1, <1>2, <1>5, <2>2, <2>3 DEF Queued
<1>8. PICK q \in Lists : q = r
  BY <1>5
<1>9. Pointers(q)'
  <2>1. t \in Threads /\ \E from \in {"walk", "link"} : Step(t, from, "unlock")
    BY EmuIsAThread DEF LinkHead, LinkNext
  <2> QED  BY <2>1, AloneInside
<1>10. Queued(q)'
  <2> HIDE DEF r
  <2>1. Linked(q, head, next)'
    BY <1>6, <1>8 DEF Linked
  <2> QED  BY <1>7, <1>8, <1>9, <2>1 DEF Queued
<1> QED  BY <1>5, <1>8, <1>10

\* The head is taken.
LEMMA TakeTakes ==
    ASSUME TypeInv, LockInv, ~raced, NEW s \in Lists, Queued(s), Take \/ ClearOne
    PROVE  \E r \in Lists : Becomes(s, r) /\ Queued(r)'
<1>1. /\ UNCHANGED <<next, added>>
      /\ head' = IF head = Null THEN Null ELSE next[head]
      /\ pc[Emu] \in {"take", "clear"}
      /\ spent' = IF cur[Emu] = Null THEN spent ELSE spent \cup {cur[Emu]}
  BY DEF Take, ClearOne, Step, TypeInv
<1>2. cur[Emu] = head /\ Linked(s, head, next)
  BY <1>1 DEF Queued, Pointers
<1>3. Emu \in Threads
      /\ \E from \in {"take", "clear"}, to \in {"unlock", "locked clear"} : Step(Emu, from, to)
  BY EmuIsAThread DEF Take, ClearOne
<1>4. CASE s = <<>>
  <2>1. head = Null
    BY <1>2, <1>4 DEF Linked
  <2>2. UNCHANGED <<head, spent>>
    BY <1>1, <1>2, <2>1
  <2>3. Pointers(s)'
    BY <1>3, AloneInside
  <2>4. Queued(s)'
    BY <1>1, <2>2, <2>3 DEF Queued, Created, Linked
  <2> QED  BY <2>2, <2>4 DEF Becomes
<1>5. CASE s # <<>>
  <2>1. /\ Tail(s) \in Lists /\ Linked(Tail(s), next[head], next) /\ Head(s) = head
        /\ \A i \in DOMAIN Tail(s) : Tail(s)[i] \in ToSet(s) /\ Tail(s)[i] # head
    BY <1>2, <1>5, LinkedTail
  <2>2. head # Null
    <3>1. s \in Seq(Commands)
      BY ListsAreSeqs
    <3>2. s[1] \in Commands /\ head = s[1]
      BY <1>2, <1>5, <3>1, SeqFacts DEF Linked
    <3> QED  BY <3>2, NullIsNoCommand
  <2>3. head' = next[head] /\ spent' = spent \cup {head}
    BY <1>1, <1>2, <2>2
  <2>4. \A c \in ToSet(Tail(s)) : c \in ToSet(s) /\ c # head
    BY <2>1 DEF ToSet
  <2>5. \A c \in ToSet(Tail(s)) : c \notin spent' /\ Created(c, added')
    BY <1>1, <2>3, <2>4 DEF Queued
  <2>6. Pointers(Tail(s))'
    BY <1>3, AloneInside
  <2>7. Linked(Tail(s), head, next)'
    BY <1>1, <2>1, <2>3 DEF Linked
  <2>8. Queued(Tail(s))'
    BY <2>5, <2>6, <2>7 DEF Queued
  <2> QED  BY <1>5, <2>1, <2>3, <2>8 DEF Becomes
<1> QED  BY <1>4, <1>5

LEMMA NextQueues ==
    ASSUME TypeInv, LockInv, CreatedInv, ~raced, NEW s \in Lists, Queued(s), [Next]_vars
    PROVE  \E r \in Lists : Becomes(s, r) /\ Queued(r)'
<1>1. CASE UNCHANGED vars
  BY <1>1 DEF vars, Becomes, Queued, Pointers, Created, Linked
<1>2. ASSUME NEW t \in Threads, TestLock(t) \/ SetLock(t) \/ Unlock(t)
      PROVE  Becomes(s, s) /\ Queued(s)'
  BY <1>2, LockKeepsQueued DEF Becomes, TestLock, SetLock, Unlock
<1>3. ASSUME NEW t \in Producers, ReadHead(t) \/ Walk(t)
      PROVE  Becomes(s, s) /\ Queued(s)'
  BY <1>3, WalkKeepsQueued DEF Becomes, ReadHead, Walk
<1>4. ASSUME ReadFirst \/ ReadToClear \/ ClearMore
      PROVE  Becomes(s, s) /\ Queued(s)'
  BY <1>4, ReadKeepsQueued DEF Becomes, ReadFirst, ReadToClear, ClearMore
<1> QED
  BY <1>1, <1>2, <1>3, <1>4, LinkQueues, TakeTakes DEF Next, Add, Process, ClearAll

\* Once raced, always raced.
LEMMA RacedStays == [Next]_vars /\ ~raced' => ~raced
BY DEF Next, vars, TestLock, SetLock, Unlock, Add, ReadHead, Walk, LinkHead, LinkNext,
       Process, ReadFirst, Take, ClearAll, ReadToClear, ClearOne, ClearMore

LEMMA NextQueueInv ==
    ASSUME TypeInv, LockInv, CreatedInv, QueueInv, [Next]_vars
    PROVE  QueueInv'
BY RacedStays, NextQueues DEF QueueInv

\* The list is what s_headCommand and the pointers spell out.
LEMMA ListIs ==
    ASSUME NEW h, NEW n, NEW s \in Lists, Linked(s, h, n)
    PROVE  (CHOOSE r \in Lists : Linked(r, h, n)) = s
BY LinkedIsUnique

\* Until two threads have found the lock open at once, the linked list of
\* commands is the queue that its users take it for.
THEOREM CommandsAreAQueue == Spec => ImplementsCommandQueue
<1>1. Init => TypeInv /\ LockInv /\ CreatedInv /\ QueueInv
  BY TypeInvInit, LockInvInit, InitCreated, InitQueued, EmptyList DEF QueueInv
<1>2. TypeInv /\ LockInv /\ CreatedInv /\ QueueInv /\ [Next]_vars
        => TypeInv' /\ LockInv' /\ CreatedInv' /\ QueueInv'
  BY TypeInvNext, LockInvNext, NextCreated, NextQueueInv DEF TypeInv
<1>3. Init => Q!Init
  <2> SUFFICES ASSUME Init PROVE Q!Init
    OBVIOUS
  <2>1. List = <<>>
    BY InitQueued, EmptyList, ListIs DEF List, Queued
  <2> QED  BY <2>1 DEF Q!Init, Init
<1>4. TypeInv /\ LockInv /\ CreatedInv /\ QueueInv /\ [Next]_vars
        => [raced' \/ Q!Next]_<<List, spent>>
  <2> SUFFICES ASSUME TypeInv, LockInv, CreatedInv, QueueInv, [Next]_vars, ~raced'
               PROVE  Q!Next \/ UNCHANGED <<List, spent>>
    OBVIOUS
  <2>1. PICK s \in Lists : Queued(s)
    BY RacedStays DEF QueueInv
  <2>2. PICK r \in Lists : Becomes(s, r) /\ Queued(r)'
    BY <2>1, RacedStays, NextQueues
  <2>3. List = s
    BY <2>1, ListIs DEF List, Queued
  <2>4. List' = r
    <3>1. Linked(r, head', next')
      BY <2>2 DEF Queued, Linked
    <3>2. List' = CHOOSE q \in Lists : Linked(q, head', next')
      BY DEF List, Linked
    <3> QED  BY <3>1, <3>2, ListIs
  <2> QED  BY <2>2, <2>3, <2>4 DEF Becomes, Q!Next, Q!Take, Q!Put, Q!ToSet, ToSet
<1> QED  BY <1>1, <1>2, <1>3, <1>4, PTL DEF Spec, ImplementsCommandQueue

\* So a run of the program in which no two threads ever find the lock open at once
\* is a behaviour of the queue.
THEOREM UnracedRunIsAQueue == Spec /\ []~raced => Q!Spec
<1>1. [raced' \/ Q!Next]_<<List, spent>> /\ ~raced' => [Q!Next]_<<List, spent>>
  OBVIOUS
<1> QED  BY <1>1, CommandsAreAQueue, PTL DEF ImplementsCommandQueue, Q!Spec
=============================================================================
