------------------------- MODULE PosixSemFileProofs -------------------------
(***************************************************************************)
(* Module3/09 for any numbers of runs, starts and lines: mutual exclusion, *)
(* atomicity, once-only printing, and parents that outlive their children. *)
(***************************************************************************)
EXTENDS PosixSemFile, LineFileLemmas, SequenceTheorems

Busy(r) == Running(Parent(r)) \/ Running(Child(r))

\* The calls of a parent and of a child.
Places ==
    \A r \in Runs :
        /\ pc[Parent(r)] \notin {"read", "trunc", "write"}
        /\ pc[Child(r)] \in {"off", "loop", "lock", "read", "trunc", "write", "unlock", "done"}

\* A run at work has opened a semaphore.
Opened == \A r \in Runs : Busy(r) => handle[r] \in 1 .. Len(sems)

\* Every semaphore, whatever the name stands for, has one holder at most, and the unit of
\* the holder is missing from it.  This needs no condition: a semaphore is only made
\* once, and nothing but its holder's sem_post() raises it.
Holder ==
    /\ \A p \in Procs : InCS(p) => sems[handle[p[1]]] = 0
    /\ \A p, q \in Procs : InCS(p) /\ InCS(q) /\ handle[p[1]] = handle[q[1]] => p = q

\* As long as the name was not taken away, all use the semaphore that it stands for.
Named == Guarded => \A r \in Runs : Busy(r) => handle[r] = name

\* A run has no child before fork() and after wait().
Childless == \A r \in Runs : pc[Parent(r)] \in {"fork", "unlink"} => ~Running(Child(r))

\* What the child of a run remembers of the file between its system calls.
Snapshot ==
    Guarded /\ lapses \cap {"KILL", "CUT"} = {} =>
        \A r \in Runs : /\ pc[Child(r)] = "trunc" => buf[r] = file
                        /\ pc[Child(r)] = "write" => file = <<>>

\* The lines were produced, and outside a pass those that were printed are marked.
MidPass == \E r \in Runs : pc[Child(r)] \in {"trunc", "write"}
IdsProduced ==
    /\ shown \subseteq 1 .. produced
    /\ \A i \in DOMAIN file : file[i].id <= produced
    /\ \A r \in Runs : \A i \in DOMAIN buf[r] : buf[r][i].id <= produced
ShownMarked ==
    /\ again = {}
    /\ \A r \in Runs : pc[Child(r)] = "write" => Len(file) = 0
    /\ ~MidPass => \A i \in DOMAIN file : file[i].id \in shown => file[i].done

MarksKept == IdsProduced /\ (lapses \subseteq {"CUT"} => ShownMarked)

\* The inductive invariant: the semaphores, who uses which, and what follows from that for
\* the file between the system calls of a pass.
IInv ==
    /\ TypeOK /\ Places /\ Opened /\ Holder /\ Named
    /\ Childless /\ NoOrphan /\ Snapshot /\ MarksKept

-----------------------------------------------------------------------------
(* Processes and types.                                                      *)

LEMMA ProcFacts ==
    /\ \A r \in Runs : Parent(r) \in Procs /\ Parent(r)[1] = r /\ Parent(r)[2] = "parent"
    /\ \A r \in Runs : Child(r) \in Procs /\ Child(r)[1] = r /\ Child(r)[2] = "child"
    /\ \A r, q \in Runs : Parent(r) # Child(q)
    /\ \A r, q \in Runs : Parent(r) = Parent(q) => r = q
    /\ \A r, q \in Runs : Child(r) = Child(q) => r = q
    /\ \A p \in Procs : p[1] \in Runs /\ (p = Parent(p[1]) \/ p = Child(p[1]))
BY DEF Procs, Parent, Child, Roles

\* The semaphore of a process at work is one of those that were made, and when the
\* process has locked it its value is 0.
LEMMA HandleFacts ==
    ASSUME TypeOK, Opened, Holder, NEW p \in Procs
    PROVE  /\ Running(p) => handle[p[1]] \in 1 .. Len(sems) /\ sems[handle[p[1]]] \in {0, 1}
           /\ InCS(p) => Running(p) /\ sems[handle[p[1]]] = 0
<1>1. p[1] \in Runs /\ (Running(p) => Busy(p[1]))
  BY ProcFacts DEF Busy
<1>2. Running(p) => handle[p[1]] \in 1 .. Len(sems)
  BY <1>1 DEF Opened
<1>3. sems \in Seq({0, 1})
  BY DEF TypeOK
<1>4. InCS(p) => Running(p)
  BY DEF InCS, Running
<1> QED
  BY <1>2, <1>3, <1>4 DEF Holder

\* One semaphore gets another value.
LEMMA SemsExcept ==
    ASSUME sems \in Seq({0, 1}), NEW h \in 1 .. Len(sems), NEW v \in {0, 1},
           sems' = [sems EXCEPT ![h] = v]
    PROVE  /\ sems' \in Seq({0, 1}) /\ Len(sems') = Len(sems)
           /\ sems'[h] = v
           /\ \A g \in 1 .. Len(sems) : g # h => sems'[g] = sems[g]
BY ExceptSeq

LEMMA TypeStep == TypeOK /\ Opened /\ Holder /\ [Next]_vars => TypeOK'
<1> SUFFICES ASSUME TypeOK, Opened, Holder, [Next]_vars PROVE TypeOK'
  OBVIOUS
<1> USE DEF TypeOK, Goto, PCs, Lapse, seen
<1>1. ASSUME NEW r \in Runs, Open(r) PROVE TypeOK'
  <2>1. Parent(r) \in Procs
    BY ProcFacts
  <2>2. /\ sems' \in Seq({0, 1}) /\ Len(sems') >= Len(sems)
        /\ name' \in 0 .. Len(sems')
    <3>1. CASE Joins
      BY <1>1, <3>1 DEF Open
    <3>2. CASE ~Joins
      <4>1. sems' = Append(sems, 1) /\ name' = Len(sems) + 1
        BY <1>1, <3>2 DEF Open, InitialVal
      <4> QED
        BY <4>1
    <3> QED
      BY <3>1, <3>2
  <2>3. handle' \in [Runs -> 0 .. Len(sems')]
    <3>1. 0 .. Len(sems) \subseteq 0 .. Len(sems')
      BY <2>2
    <3> QED
      BY <1>1, <2>2, <3>1 DEF Open
  <2> QED
    BY <1>1, <2>1, <2>2, <2>3 DEF Open
<1>2. ASSUME NEW r \in Runs, Unlink(r) PROVE TypeOK'
  <2>1. lapses' \subseteq Lapse
    BY <1>2 DEF Unlink
  <2>2. name' \in 0 .. Len(sems')
    <3>1. name' = 0 /\ sems' = sems
      BY <1>2 DEF Unlink
    <3> QED
      BY <3>1
  <2> QED
    BY <1>2, <2>1, <2>2 DEF Unlink
<1>3. ASSUME NEW r \in Runs, Fork(r) PROVE TypeOK'
  <2>1. stop' \in [Procs -> BOOLEAN]
    <3>1. stop[Parent(r)] \in BOOLEAN
      BY ProcFacts
    <3> QED
      BY <1>3, <3>1 DEF Fork
  <2>2. pc' \in [Procs -> PCs]
    BY <1>3 DEF Fork
  <2> QED
    BY <1>3, <2>1, <2>2 DEF Fork
<1>4. ASSUME NEW r \in Runs, Kill(r) PROVE TypeOK'
  BY <1>4 DEF Kill, StopSent
<1>5. ASSUME NEW r \in Runs, Wait(r) PROVE TypeOK'
  BY <1>5 DEF Wait
<1>6. ASSUME NEW p \in Procs, Loop(p) PROVE TypeOK'
  BY <1>6 DEF Loop
<1>7. ASSUME NEW p \in Procs, Lock(p) PROVE TypeOK'
  <2> DEFINE h == handle[p[1]]
  <2>1. h \in 1 .. Len(sems) /\ sems[h] \in {0, 1}
    BY <1>7, HandleFacts DEF Lock, Running
  <2>2. sems' = [sems EXCEPT ![h] = 0]
    <3>1. sems[h] = 1
      BY <1>7, <2>1 DEF Lock
    <3>2. sems' = [sems EXCEPT ![h] = sems[h] - 1]
      BY <1>7 DEF Lock
    <3> QED
      BY <3>1, <3>2
  <2>3. sems' \in Seq({0, 1}) /\ Len(sems') = Len(sems)
    BY <2>1, <2>2, SemsExcept
  <2> QED
    BY <1>7, <2>3 DEF Lock
<1>8. ASSUME NEW p \in Procs, Unlock(p) PROVE TypeOK'
  <2> DEFINE h == handle[p[1]]
  <2>1. h \in 1 .. Len(sems) /\ sems[h] = 0
    BY <1>8, HandleFacts DEF Unlock, InCS
  <2>2. sems' = [sems EXCEPT ![h] = 1]
    BY <1>8, <2>1 DEF Unlock
  <2>3. sems' \in Seq({0, 1}) /\ Len(sems') = Len(sems)
    BY <2>1, <2>2, SemsExcept
  <2> QED
    BY <1>8, <2>3 DEF Unlock
<1>9. ASSUME NEW r \in Runs, Write(r) PROVE TypeOK'
  <2>1. Append(file, NewLine(produced + 1)) \in Seq(Lines)
    BY NewLineType, AppendType
  <2>2. file' \in Seq(Lines) /\ produced' \in Nat
    <3>1. CASE file' = Append(file, NewLine(produced + 1)) /\ produced' = produced + 1
      BY <2>1, <3>1
    <3> QED
      BY <1>9, <3>1 DEF Write
  <2>3. pc' \in [Procs -> PCs]
    BY <1>9 DEF Write
  <2> QED
    BY <1>9, <2>2, <2>3 DEF Write
<1>10. ASSUME NEW r \in Runs, Read(r) PROVE TypeOK'
  <2>1. ReadAll(file) \in Seq(Lines)
    BY ReadAllPrefix
  <2>2. buf' \in [Runs -> Seq(Lines)]
    <3>1. buf' = buf \/ buf' = [buf EXCEPT ![r] = ReadAll(file)]
      BY <1>10 DEF Read
    <3> QED
      BY <2>1, <3>1
  <2>3. shown' \subseteq Nat
    <3>1. shown' = shown \/ shown' = shown \cup Unmarked(buf'[r])
      BY <1>10 DEF Read
    <3>2. Unmarked(buf'[r]) \subseteq Nat
      BY <2>2, UnmarkedLines
    <3> QED
      BY <3>1, <3>2
  <2>4. again' \subseteq Nat /\ lapses' \subseteq Lapse
    BY <1>10 DEF Read
  <2>5. pc' \in [Procs -> PCs]
    BY <1>10 DEF Read
  <2> QED
    BY <1>10, <2>2, <2>3, <2>4, <2>5 DEF Read
<1>11. ASSUME NEW r \in Runs, Trunc(r) PROVE TypeOK'
  <2>1. lapses' \subseteq Lapse
    BY <1>11 DEF Trunc
  <2>2. file' \in Seq(Lines) /\ buf' \in [Runs -> Seq(Lines)]
    BY <1>11, EmptyFile DEF Trunc
  <2>3. pc' \in [Procs -> PCs]
    BY <1>11 DEF Trunc
  <2> QED
    BY <1>11, <2>1, <2>2, <2>3 DEF Trunc
<1>12. ASSUME NEW r \in Runs, Rewrite(r) PROVE TypeOK'
  <2>1. file' \in Seq(Lines)
    BY <1>12, MarkedKeepsLines, OverwriteLines DEF Rewrite
  <2>2. buf' \in [Runs -> Seq(Lines)]
    BY <1>12, EmptyFile DEF Rewrite
  <2> QED
    BY <1>12, <2>1, <2>2 DEF Rewrite
<1>13. ASSUME NEW p \in Procs, Signal(p) PROVE TypeOK'
  BY <1>13 DEF Signal
<1>14. ASSUME NEW p \in Procs, Die(p) PROVE TypeOK'
  <2>1. buf' \in [Runs -> Seq(Lines)]
    BY <1>14, EmptyFile DEF Die
  <2>2. lapses' \subseteq Lapse
    BY <1>14 DEF Die
  <2> QED
    BY <1>14, <2>1, <2>2 DEF Die
<1>15. CASE UNCHANGED vars
  BY <1>15 DEF vars
<1> QED
  BY <1>1, <1>2, <1>3, <1>4, <1>5, <1>6, <1>7, <1>8, <1>9, <1>10, <1>11, <1>12, <1>13,
     <1>14, <1>15, ProcFacts DEF Next, ParentStep, ChildStep, ForkFailed, Close

-----------------------------------------------------------------------------
(* Parents and children.                                                     *)

LEMMA PlacesStep == TypeOK /\ Places /\ [Next]_vars => Places'
<1> SUFFICES ASSUME TypeOK, Places, [Next]_vars PROVE Places'
  OBVIOUS
<1>1. pc \in [Procs -> PCs]
  BY DEF TypeOK
<1> USE <1>1, ProcFacts DEF Places, Goto
<1>2. ASSUME NEW r \in Runs,
             Open(r) \/ Unlink(r) \/ Fork(r) \/ Kill(r) \/ Wait(r) \/ Write(r)
      PROVE  Places'
  BY <1>2 DEF Open, Unlink, Fork, Kill, Wait, Write
<1>3. ASSUME NEW r \in Runs, Read(r) \/ Trunc(r) \/ Rewrite(r) PROVE Places'
  BY <1>3 DEF Read, Trunc, Rewrite
<1>4. ASSUME NEW p \in Procs, Loop(p) \/ Lock(p) PROVE Places'
  BY <1>4 DEF Loop, Lock
<1>5. ASSUME NEW p \in Procs, Unlock(p) PROVE Places'
  BY <1>5 DEF Unlock
<1>6. ASSUME NEW p \in Procs, Signal(p) \/ Die(p) PROVE Places'
  BY <1>6 DEF Signal, Die
<1>7. CASE UNCHANGED vars
  BY <1>7 DEF vars
<1> QED
  BY <1>2, <1>3, <1>4, <1>5, <1>6, <1>7 DEF Next, ParentStep, ChildStep, ForkFailed, Close

LEMMA ChildlessStep == TypeOK /\ Places /\ Childless /\ [Next]_vars => Childless'
<1> SUFFICES ASSUME TypeOK, Places, Childless, [Next]_vars PROVE Childless'
  OBVIOUS
<1>1. pc \in [Procs -> PCs]
  BY DEF TypeOK
<1> USE <1>1, ProcFacts DEF Places, Childless, Running, Goto
<1>2. ASSUME NEW r \in Runs, Open(r) \/ Unlink(r) \/ Fork(r) \/ Kill(r) \/ Write(r)
      PROVE  Childless'
  BY <1>2 DEF Open, Unlink, Fork, Kill, Write
<1>3. ASSUME NEW r \in Runs, Wait(r) PROVE Childless'
  BY <1>3 DEF Wait, ChildEnded
<1>4. ASSUME NEW r \in Runs, Read(r) \/ Trunc(r) \/ Rewrite(r) PROVE Childless'
  BY <1>4 DEF Read, Trunc, Rewrite
<1>5. ASSUME NEW p \in Procs, Loop(p) \/ Lock(p) \/ Unlock(p) PROVE Childless'
  BY <1>5 DEF Loop, Lock, Unlock
<1>6. ASSUME NEW p \in Procs, Signal(p) \/ Die(p) PROVE Childless'
  BY <1>6 DEF Signal, Die
<1>7. CASE UNCHANGED vars
  BY <1>7 DEF vars
<1> QED
  BY <1>2, <1>3, <1>4, <1>5, <1>6, <1>7 DEF Next, ParentStep, ChildStep, ForkFailed, Close

\* A parent that is not killed ends in Unlink only, and then it has no child.
LEMMA NoOrphanStep == TypeOK /\ Places /\ Childless /\ NoOrphan /\ [Next]_vars => NoOrphan'
<1> SUFFICES ASSUME TypeOK, Places, Childless, NoOrphan, [Next]_vars PROVE NoOrphan'
  OBVIOUS
<1>1. pc \in [Procs -> PCs]
  BY DEF TypeOK
<1> USE <1>1, ProcFacts DEF Places, NoOrphan, Running, Goto
<1>2. ASSUME NEW r \in Runs, Open(r) \/ Fork(r) \/ Kill(r) \/ Wait(r) \/ Write(r)
      PROVE  NoOrphan'
  BY <1>2 DEF Open, Fork, Kill, Wait, Write
<1>3. ASSUME NEW r \in Runs, ForkFailed(r) \/ Close(r) PROVE NoOrphan'
  BY <1>3 DEF ForkFailed, Close, Unlink, Childless
<1>4. ASSUME NEW r \in Runs, Read(r) \/ Trunc(r) \/ Rewrite(r) PROVE NoOrphan'
  BY <1>4 DEF Read, Trunc, Rewrite
<1>5. ASSUME NEW p \in Procs, Loop(p) \/ Lock(p) \/ Unlock(p) PROVE NoOrphan'
  BY <1>5 DEF Loop, Lock, Unlock
<1>6. ASSUME NEW p \in Procs, Signal(p) \/ Die(p) PROVE NoOrphan'
  BY <1>6 DEF Signal, Die
<1>7. CASE UNCHANGED vars
  BY <1>7 DEF vars
<1> QED
  BY <1>2, <1>3, <1>4, <1>5, <1>6, <1>7 DEF Next, ParentStep, ChildStep

-----------------------------------------------------------------------------
(* The semaphores.                                                           *)

\* No run gets to work, no process into its critical section, no semaphore changes.
Quiet ==
    /\ UNCHANGED <<sems, handle>>
    /\ \A r \in Runs : Busy(r)' => Busy(r)
    /\ \A p \in Procs : InCS(p)' => InCS(p)

LEMMA QuietSteps ==
    ASSUME TypeOK
    PROVE  /\ \A r \in Runs : Unlink(r) \/ Fork(r) \/ Kill(r) \/ Wait(r) \/ Write(r) => Quiet
           /\ \A r \in Runs : Read(r) \/ Trunc(r) \/ Rewrite(r) => Quiet
           /\ \A p \in Procs : Loop(p) \/ Signal(p) \/ Die(p) => Quiet
           /\ UNCHANGED vars => Quiet
<1>1. pc \in [Procs -> PCs]
  BY DEF TypeOK
<1> USE <1>1, ProcFacts DEF Quiet, Busy, InCS, Running, Goto
<1>2. ASSUME NEW r \in Runs, Unlink(r) \/ Fork(r) \/ Kill(r) \/ Wait(r) \/ Write(r)
      PROVE  Quiet
  BY <1>2 DEF Unlink, Fork, Kill, Wait, Write
<1>3. ASSUME NEW r \in Runs, Read(r) \/ Trunc(r) \/ Rewrite(r) PROVE Quiet
  BY <1>3 DEF Read, Trunc, Rewrite
<1>4. ASSUME NEW p \in Procs, Loop(p) \/ Signal(p) \/ Die(p) PROVE Quiet
  BY <1>4 DEF Loop, Signal, Die
<1>5. CASE UNCHANGED vars
  BY <1>5 DEF vars
<1> QED
  BY <1>2, <1>3, <1>4, <1>5

\* What sem_open(), sem_wait() and sem_post() do.
LEMMA OpenEffect ==
    ASSUME TypeOK, NEW r \in Runs, Open(r)
    PROVE  /\ ~Busy(r) /\ \A q \in Runs : q # r => handle'[q] = handle[q] /\ Busy(q)' = Busy(q)
           /\ \A p \in Procs : InCS(p)' => InCS(p) /\ p[1] # r
           /\ Len(sems') >= Len(sems) /\ \A h \in 1 .. Len(sems) : sems'[h] = sems[h]
           /\ handle'[r] = name' /\ name' \in 1 .. Len(sems')
           /\ name # 0 => name' = name
<1>1. /\ pc \in [Procs -> PCs] /\ handle \in [Runs -> 0 .. Len(sems)]
      /\ sems \in Seq({0, 1}) /\ name \in 0 .. Len(sems)
  BY DEF TypeOK
<1>2. ~Busy(r) /\ pc' = [pc EXCEPT ![Parent(r)] = "fork"] /\ handle' = [handle EXCEPT ![r] = name']
  BY DEF Open, Busy, Goto
<1>3. \A q \in Runs : q # r => handle'[q] = handle[q] /\ Busy(q)' = Busy(q)
  BY <1>1, <1>2, ProcFacts DEF Busy, Running
<1>4. \A p \in Procs : InCS(p)' => InCS(p) /\ p[1] # r
  BY <1>1, <1>2, ProcFacts DEF InCS, Busy, Running
<1>5. CASE Joins
  BY <1>1, <1>2, <1>3, <1>4, <1>5 DEF Open, Joins
<1>6. CASE ~Joins
  <2>1. sems' = Append(sems, 1) /\ name' = Len(sems) + 1 /\ name = 0
    BY <1>6 DEF Open, Joins, InitialVal
  <2>2. Len(sems') = Len(sems) + 1 /\ \A h \in 1 .. Len(sems) : sems'[h] = sems[h]
    BY <1>1, <2>1
  <2> QED
    BY <1>1, <1>2, <1>3, <1>4, <2>1, <2>2
<1> QED
  BY <1>5, <1>6

LEMMA LockEffect ==
    ASSUME TypeOK, Opened, Holder, NEW p \in Procs, Lock(p) \/ Unlock(p)
    PROVE  /\ \A r \in Runs : Busy(r)' => Busy(r)
           /\ UNCHANGED <<handle, name, lapses>>
           /\ \A q \in Procs : q # p => InCS(q)' = InCS(q)
           /\ Len(sems') = Len(sems) /\ handle[p[1]] \in 1 .. Len(sems)
           /\ \A h \in 1 .. Len(sems) : h # handle[p[1]] => sems'[h] = sems[h]
           /\ Lock(p) => sems[handle[p[1]]] = 1 /\ sems'[handle[p[1]]] = 0
           /\ Unlock(p) => InCS(p) /\ ~InCS(p)'
<1> DEFINE h == handle[p[1]]
<1>1. pc \in [Procs -> PCs]
  BY DEF TypeOK
<1>2. h \in 1 .. Len(sems) /\ sems[h] \in {0, 1} /\ (InCS(p) => sems[h] = 0)
  BY HandleFacts DEF Lock, Unlock, Running
<1>3. PICK l : pc' = [pc EXCEPT ![p] = l] /\ l \notin {"off", "done"}
  BY DEF Lock, Unlock, Goto
<1>4. \A r \in Runs : Busy(r)' => Busy(r)
  <2>1. Running(p)
    BY DEF Lock, Unlock, Running
  <2>2. \A q \in Procs : Running(q)' => Running(q)
    BY <1>1, <1>3, <2>1 DEF Running
  <2> QED
    BY <2>2, ProcFacts DEF Busy
<1>5. \A q \in Procs : q # p => InCS(q)' = InCS(q)
  BY <1>1, <1>3 DEF InCS
<1>6. ASSUME Lock(p) PROVE sems[h] = 1 /\ sems' = [sems EXCEPT ![h] = 0]
  <2>1. sems[h] = 1 /\ sems' = [sems EXCEPT ![h] = sems[h] - 1]
    BY <1>2, <1>6 DEF Lock
  <2> QED
    BY <2>1
<1>7. ASSUME Unlock(p) PROVE InCS(p) /\ ~InCS(p)' /\ sems' = [sems EXCEPT ![h] = 1]
  <2>1. InCS(p) /\ sems' = [sems EXCEPT ![h] = sems[h] + 1]
    BY <1>7 DEF Unlock, InCS
  <2>2. sems[h] = 0
    BY <1>2, <2>1
  <2>3. sems' = [sems EXCEPT ![h] = 1]
    BY <2>1, <2>2
  <2>4. pc'[p] \in {"loop", "kill"}
    BY <1>1, <1>7 DEF Unlock, Goto
  <2>5. ~InCS(p)'
    BY <2>4 DEF InCS
  <2> QED
    BY <2>1, <2>3, <2>5
<1>8. /\ Len(sems') = Len(sems) /\ \A g \in 1 .. Len(sems) : g # h => sems'[g] = sems[g]
      /\ Lock(p) => sems'[h] = 0
  BY <1>2, <1>6, <1>7, SemsExcept
<1>9. UNCHANGED <<handle, name, lapses>>
  BY DEF Lock, Unlock
<1> QED
  BY <1>2, <1>4, <1>5, <1>6, <1>7, <1>8, <1>9

LEMMA OpenedStep == TypeOK /\ Opened /\ Holder /\ [Next]_vars => Opened'
<1> SUFFICES ASSUME TypeOK, Opened, Holder, [Next]_vars PROVE Opened'
  OBVIOUS
<1>1. CASE Quiet
  BY <1>1 DEF Quiet, Opened
<1>2. ASSUME NEW r \in Runs, Open(r) PROVE Opened'
  <2>1. ASSUME NEW q \in Runs, Busy(q)', q # r PROVE handle'[q] \in 1 .. Len(sems')
    <3>1. handle'[q] \in 1 .. Len(sems) /\ Len(sems') >= Len(sems)
      BY <1>2, <2>1, OpenEffect DEF Opened
    <3> QED
      BY <3>1
  <2> QED
    BY <1>2, <2>1, OpenEffect DEF Opened
<1>3. ASSUME NEW p \in Procs, Lock(p) \/ Unlock(p) PROVE Opened'
  BY <1>3, LockEffect DEF Opened
<1> QED
  BY <1>1, <1>2, <1>3, QuietSteps, ProcFacts DEF Next, ParentStep, ChildStep, ForkFailed, Close

LEMMA HolderStep == TypeOK /\ Opened /\ Holder /\ [Next]_vars => Holder'
<1> SUFFICES ASSUME TypeOK, Opened, Holder, [Next]_vars PROVE Holder'
  OBVIOUS
<1>1. CASE Quiet
  BY <1>1 DEF Quiet, Holder
<1>2. ASSUME NEW r \in Runs, Open(r) PROVE Holder'
  <2>1. ASSUME NEW p \in Procs, InCS(p)'
        PROVE  /\ InCS(p) /\ handle'[p[1]] = handle[p[1]]
               /\ sems'[handle[p[1]]] = sems[handle[p[1]]]
    <3>1. InCS(p) /\ p[1] # r /\ p[1] \in Runs
      BY <1>2, <2>1, OpenEffect, ProcFacts
    <3>2. handle[p[1]] \in 1 .. Len(sems)
      BY <3>1, HandleFacts
    <3> QED
      BY <1>2, <3>1, <3>2, OpenEffect
  <2> QED
    BY <2>1 DEF Holder
<1>3. ASSUME NEW p \in Procs, Lock(p) PROVE Holder'
  <2>1. \A q \in Procs : InCS(q) => handle[q[1]] # handle[p[1]]
    BY <1>3, LockEffect DEF Holder
  <2>2. \A q \in Procs : InCS(q) => handle[q[1]] \in 1 .. Len(sems)
    BY HandleFacts
  <2> QED
    BY <1>3, <2>1, <2>2, LockEffect DEF Holder
<1>4. ASSUME NEW p \in Procs, Unlock(p) PROVE Holder'
  <2>1. \A q \in Procs : InCS(q) /\ q # p => handle[q[1]] # handle[p[1]]
    BY <1>4, LockEffect DEF Holder
  <2>2. \A q \in Procs : InCS(q) => handle[q[1]] \in 1 .. Len(sems)
    BY HandleFacts
  <2> QED
    BY <1>4, <2>1, <2>2, LockEffect DEF Holder
<1> QED
  BY <1>1, <1>2, <1>3, <1>4, QuietSteps, ProcFacts
     DEF Next, ParentStep, ChildStep, ForkFailed, Close

\* An event that is recorded stays recorded.
LEMMA LapsesGrow == [Next]_vars => lapses \subseteq lapses'
<1> SUFFICES ASSUME [Next]_vars PROVE lapses \subseteq lapses'
  OBVIOUS
<1>1. ASSUME NEW r \in Runs, Open(r) \/ Unlink(r) \/ Fork(r) \/ Kill(r) \/ Wait(r) \/ Write(r)
      PROVE  lapses \subseteq lapses'
  BY <1>1 DEF Open, Unlink, Fork, Kill, Wait, Write
<1>2. ASSUME NEW r \in Runs, Read(r) \/ Trunc(r) \/ Rewrite(r) PROVE lapses \subseteq lapses'
  BY <1>2 DEF Read, Trunc, Rewrite
<1>3. ASSUME NEW p \in Procs, Loop(p) \/ Lock(p) \/ Unlock(p) \/ Signal(p) \/ Die(p)
      PROVE  lapses \subseteq lapses'
  BY <1>3 DEF Loop, Lock, Unlock, Signal, Die
<1>4. CASE UNCHANGED vars
  BY <1>4 DEF vars
<1> QED
  BY <1>1, <1>2, <1>3, <1>4, ProcFacts DEF Next, ParentStep, ChildStep, ForkFailed, Close

\* The name changes in Open when it is free, and in Unlink, which others notice or no
\* other process runs.
LEMMA NamedStep == TypeOK /\ Opened /\ Holder /\ Named /\ [Next]_vars => Named'
<1> SUFFICES ASSUME TypeOK, Opened, Holder, Named, [Next]_vars, Guarded'
             PROVE  \A r \in Runs : Busy(r)' => handle'[r] = name'
  BY DEF Named
<1>1. \A r \in Runs : Busy(r) => handle[r] = name /\ name # 0
  BY LapsesGrow DEF Guarded, Named, Opened
<1>2. CASE Quiet /\ UNCHANGED name
  BY <1>1, <1>2 DEF Quiet
<1>3. ASSUME NEW r \in Runs, Open(r)
      PROVE  \A q \in Runs : Busy(q)' => handle'[q] = name'
  BY <1>1, <1>3, OpenEffect
<1>4. ASSUME NEW r \in Runs, Unlink(r)
      PROVE  \A q \in Runs : Busy(q)' => handle'[q] = name'
  <2>1. \A p \in Procs \ {Parent(r)} : ~Running(p)
    BY <1>4 DEF Unlink, Guarded
  <2>2. \A p \in Procs : ~Running(p)'
    <3>1. pc' = [pc EXCEPT ![Parent(r)] = "done"] /\ pc \in [Procs -> PCs]
      BY <1>4 DEF Unlink, Goto, TypeOK
    <3> QED
      BY <2>1, <3>1 DEF Running
  <2> QED
    BY <2>2, ProcFacts DEF Busy
<1>5. ASSUME NEW p \in Procs, Lock(p) \/ Unlock(p)
      PROVE  \A q \in Runs : Busy(q)' => handle'[q] = name'
  BY <1>1, <1>5, LockEffect
<1>6. ASSUME NEW r \in Runs,
             Fork(r) \/ Kill(r) \/ Wait(r) \/ Write(r) \/ Read(r) \/ Trunc(r) \/ Rewrite(r)
      PROVE  UNCHANGED name
  BY <1>6 DEF Fork, Kill, Wait, Write, Read, Trunc, Rewrite
<1>7. ASSUME NEW p \in Procs, Loop(p) \/ Signal(p) \/ Die(p) PROVE UNCHANGED name
  BY <1>7 DEF Loop, Signal, Die
<1>8. CASE UNCHANGED vars
  BY <1>2, <1>8, QuietSteps DEF vars
<1> QED
  BY <1>2, <1>3, <1>4, <1>5, <1>6, <1>7, <1>8, QuietSteps, ProcFacts
     DEF Next, ParentStep, ChildStep, ForkFailed, Close

\* Of the processes that use the one semaphore, one is between sem_wait() and sem_post().
LEMMA MutexFromHolder == Holder /\ Named => MutexWhileGuarded
<1> SUFFICES ASSUME Holder, Named, Guarded, NEW p \in Procs, NEW q \in Procs, InCS(p), InCS(q)
             PROVE  p = q
  BY DEF MutexWhileGuarded
<1>1. handle[p[1]] = name /\ handle[q[1]] = name
  BY ProcFacts DEF Named, Busy, InCS, Running
<1> QED
  BY <1>1 DEF Holder

-----------------------------------------------------------------------------
(* Atomicity.                                                                *)

\* A step that leaves the file alone, and the passes that are about to change it.
PassesKept ==
    /\ file' = file
    /\ \A r \in Runs :
          pc'[Child(r)] \in {"trunc", "write"} => pc'[Child(r)] = pc[Child(r)] /\ buf'[r] = buf[r]

\* Besides, nothing is produced or printed, and no pass is left half done.
PassesGoOn ==
    /\ PassesKept /\ UNCHANGED <<produced, seen>>
    /\ \A r \in Runs : pc[Child(r)] \in {"trunc", "write"} => pc'[Child(r)] = pc[Child(r)]

LEMMA PassesKeptSteps ==
    ASSUME TypeOK, Places
    PROVE  /\ \A p \in Procs : Lock(p) \/ Unlock(p) \/ Loop(p) \/ Signal(p) => PassesGoOn
           /\ \A p \in Procs : Die(p) => PassesKept
           /\ \A p \in Procs : Die(p) /\ "KILL" \notin lapses' => PassesGoOn
           /\ \A r \in Runs : Open(r) \/ Unlink(r) \/ Fork(r) \/ Kill(r) \/ Wait(r)
                                 => PassesGoOn \/ (Fork(r) /\ Running(Child(r)))
           /\ UNCHANGED vars => PassesGoOn
<1>1. pc \in [Procs -> PCs] /\ buf \in [Runs -> Seq(Lines)]
  BY DEF TypeOK
<1> USE <1>1, ProcFacts DEF PassesKept, PassesGoOn, Goto, seen
<1>2. ASSUME NEW p \in Procs, Lock(p) \/ Unlock(p) \/ Loop(p) PROVE PassesGoOn
  BY <1>2 DEF Lock, Unlock, Loop
<1>3. ASSUME NEW p \in Procs, Signal(p) PROVE PassesGoOn
  BY <1>3 DEF Signal
<1>4. ASSUME NEW p \in Procs, Die(p)
      PROVE  PassesKept /\ ("KILL" \notin lapses' => PassesGoOn)
  <2>1. UNCHANGED <<file, produced, seen>> /\ pc' = [pc EXCEPT ![p] = "done"]
    BY <1>4 DEF Die
  <2>2. \A r \in Runs : Child(r) # p => buf'[r] = buf[r]
    BY <1>4 DEF Die
  <2>3. InCS(p) => "KILL" \in lapses'
    BY <1>4 DEF Die
  <2> QED
    BY <2>1, <2>2, <2>3 DEF InCS
<1>5. ASSUME NEW r \in Runs, Open(r) \/ Unlink(r) \/ Kill(r) \/ Wait(r) PROVE PassesGoOn
  BY <1>5 DEF Open, Unlink, Kill, Wait
<1>6. ASSUME NEW r \in Runs, Fork(r) PROVE PassesGoOn \/ Running(Child(r))
  BY <1>6 DEF Fork, Running
<1>7. CASE UNCHANGED vars
  BY <1>7 DEF vars
<1> QED
  BY <1>2, <1>3, <1>4, <1>5, <1>6, <1>7

LEMMA SnapshotStep ==
    TypeOK /\ Places /\ Childless /\ MutexWhileGuarded /\ Snapshot /\ [Next]_vars => Snapshot'
<1> SUFFICES ASSUME TypeOK, Places, Childless, MutexWhileGuarded, Snapshot, [Next]_vars,
                    Guarded', lapses' \cap {"KILL", "CUT"} = {}
             PROVE  Snapshot'
  BY DEF Snapshot
<1>1. Guarded /\ lapses \cap {"KILL", "CUT"} = {}
  BY LapsesGrow DEF Guarded
<1>2. pc \in [Procs -> PCs] /\ buf \in [Runs -> Seq(Lines)]
  BY DEF TypeOK
<1>3. \A p, q \in Procs : InCS(p) /\ InCS(q) => p = q
  BY <1>1 DEF MutexWhileGuarded
<1>4. \A r \in Runs : /\ pc[Child(r)] = "trunc" => buf[r] = file
                      /\ pc[Child(r)] = "write" => file = <<>>
  BY <1>1 DEF Snapshot
<1> USE <1>2, <1>3, ProcFacts DEF Goto, InCS
<1>5. ASSUME NEW r \in Runs, Write(r) PROVE Snapshot'
  <2>1. \A q \in Runs : pc'[Child(q)] \notin {"trunc", "write"}
    BY <1>5 DEF Write
  <2> QED
    BY <2>1 DEF Snapshot
<1>6. ASSUME NEW r \in Runs, Read(r) PROVE Snapshot'
  <2>1. \A q \in Runs \ {r} : pc'[Child(q)] \notin {"trunc", "write"}
    BY <1>6 DEF Read
  <2>2. CASE pc'[Child(r)] = "unlock"
    BY <2>1, <2>2 DEF Snapshot
  <2>3. CASE pc'[Child(r)] = "trunc"
    <3>1. file' = file /\ lapses' = IF buf'[r] = file THEN lapses ELSE lapses \cup {"CUT"}
      BY <1>6, <2>3 DEF Read
    <3> QED
      BY <2>1, <2>3, <3>1 DEF Snapshot
  <2> QED
    BY <1>6, <2>2, <2>3 DEF Read
<1>7. ASSUME NEW r \in Runs, Trunc(r) PROVE Snapshot'
  <2>1. \A q \in Runs \ {r} : pc'[Child(q)] \notin {"trunc", "write"}
    BY <1>7 DEF Trunc
  <2>2. pc'[Child(r)] = "unlock" \/ (pc'[Child(r)] = "write" /\ file' = <<>>)
    BY <1>7 DEF Trunc
  <2> QED
    BY <2>1, <2>2 DEF Snapshot
<1>8. ASSUME NEW r \in Runs, Rewrite(r) PROVE Snapshot'
  <2>1. \A q \in Runs : pc'[Child(q)] \notin {"trunc", "write"}
    BY <1>8 DEF Rewrite
  <2> QED
    BY <2>1 DEF Snapshot
<1>9. CASE PassesKept
  <2>1. ASSUME NEW r \in Runs, pc'[Child(r)] \in {"trunc", "write"}
        PROVE  /\ pc'[Child(r)] = "trunc" => buf'[r] = file'
               /\ pc'[Child(r)] = "write" => file' = <<>>
    <3>1. pc[Child(r)] = pc'[Child(r)] /\ buf'[r] = buf[r] /\ file' = file
      BY <1>9, <2>1 DEF PassesKept
    <3> QED
      BY <1>4, <3>1
  <2> QED
    BY <2>1 DEF Snapshot
<1>10. \A r \in Runs : Fork(r) => ~Running(Child(r))
  BY DEF Fork, Childless
<1> QED
  BY <1>5, <1>6, <1>7, <1>8, <1>9, <1>10, PassesKeptSteps
     DEF PassesGoOn, Next, ParentStep, ChildStep, ForkFailed, Close

\* What the others see of the file, in the two cases of its definition.
OneWriter == \A r, q \in Runs : pc[Child(r)] = "write" /\ pc[Child(q)] = "write" => r = q
ViewIsFile == (\A r \in Runs : pc[Child(r)] # "write") => View = file
ViewIsBuf == \A r \in Runs : pc[Child(r)] = "write" => View = buf[r]

LEMMA ViewCases == OneWriter => ViewIsFile /\ ViewIsBuf
<1> SUFFICES ASSUME OneWriter PROVE ViewIsFile /\ ViewIsBuf
  OBVIOUS
<1>1. ASSUME \A r \in Runs : pc[Child(r)] # "write" PROVE View = file
  BY <1>1 DEF View, Writers
<1>2. ASSUME NEW r \in Runs, pc[Child(r)] = "write" PROVE View = buf[r]
  <2>1. Writers = {r}
    BY <1>2 DEF Writers, OneWriter
  <2>2. (CHOOSE q \in {r} : TRUE) = r
    OBVIOUS
  <2> QED
    BY <2>1, <2>2 DEF View
<1> QED
  BY <1>1, <1>2 DEF ViewIsFile, ViewIsBuf

\* Steps that only let passes go on change nothing that the others see.
LEMMA ViewKept ==
    ASSUME OneWriter, OneWriter', PassesGoOn
    PROVE  UNCHANGED AF!vars
<1>1. ViewIsFile /\ ViewIsBuf
  BY ViewCases
<1>2. ViewIsFile' /\ ViewIsBuf'
  <2>1. (OneWriter => ViewIsFile /\ ViewIsBuf)'
    BY ViewCases, PTL
  <2> QED
    BY <2>1
<1>3. produced' = produced
  BY DEF PassesGoOn
<1>4. CASE \E r \in Runs : pc[Child(r)] = "write"
  <2>1. PICK r \in Runs : pc[Child(r)] = "write"
    BY <1>4
  <2>2. pc'[Child(r)] = "write" /\ buf'[r] = buf[r]
    BY <2>1 DEF PassesGoOn, PassesKept
  <2>3. View = buf[r] /\ View' = buf'[r]
    BY <1>1, <1>2, <2>1, <2>2 DEF ViewIsBuf
  <2> QED
    BY <1>3, <2>2, <2>3 DEF AF!vars
<1>5. CASE \A r \in Runs : pc[Child(r)] # "write"
  <2>1. \A r \in Runs : pc'[Child(r)] # "write"
    BY <1>5 DEF PassesGoOn, PassesKept
  <2>2. View = file /\ View' = file'
    BY <1>1, <1>2, <1>5, <2>1 DEF ViewIsFile
  <2> QED
    BY <1>3, <2>2 DEF AF!vars, PassesGoOn, PassesKept
<1> QED
  BY <1>4, <1>5

\* A mark or an appended line of the detailed file is one of the abstract file.
LEMMA AtomicStep ==
    ASSUME TypeOK, Places, Childless, MutexWhileGuarded, MutexWhileGuarded', Snapshot,
           [Next]_vars, Guarded', lapses' \cap {"KILL", "CUT"} = {}
    PROVE  [AF!Next]_AF!vars
<1>1. Guarded /\ lapses \cap {"KILL", "CUT"} = {}
  BY LapsesGrow DEF Guarded
<1>2. /\ pc \in [Procs -> PCs] /\ buf \in [Runs -> Seq(Lines)]
      /\ \A p, q \in Procs : InCS(p) /\ InCS(q) => p = q
  BY <1>1 DEF MutexWhileGuarded, TypeOK
<1>3. OneWriter /\ OneWriter'
  <2>1. \A p, q \in Procs : InCS(p)' /\ InCS(q)' => p = q
    BY DEF MutexWhileGuarded
  <2> QED
    BY <1>2, <2>1, ProcFacts DEF InCS, OneWriter
<1>4. /\ (\A r \in Runs : pc[Child(r)] # "write") => View = file
      /\ \A r \in Runs : pc[Child(r)] = "write" => View = buf[r]
  BY <1>3, ViewCases DEF ViewIsFile, ViewIsBuf
<1>5. /\ (\A r \in Runs : pc'[Child(r)] # "write") => View' = file'
      /\ \A r \in Runs : pc'[Child(r)] = "write" => View' = buf'[r]
  <2>1. (OneWriter => ViewIsFile /\ ViewIsBuf)'
    BY ViewCases, PTL
  <2> QED
    BY <1>3, <2>1 DEF ViewIsFile, ViewIsBuf
<1> USE <1>2, ProcFacts DEF Goto, InCS
<1>6. ASSUME NEW r \in Runs, Write(r) PROVE AF!Next \/ UNCHANGED AF!vars
  <2>1. \A q \in Runs : pc[Child(q)] # "write" /\ pc'[Child(q)] # "write"
    BY <1>6 DEF Write
  <2>2. View = file /\ View' = file'
    BY <1>4, <1>5, <2>1
  <2>3. CASE UNCHANGED file /\ UNCHANGED produced
    BY <2>2, <2>3 DEF AF!vars
  <2>4. CASE file' = Append(file, NewLine(produced + 1)) /\ produced' = produced + 1
    BY <2>2, <2>4 DEF AF!Next, AF!Add, NewLine
  <2> QED
    BY <1>6, <2>3, <2>4 DEF Write
<1>7. ASSUME NEW r \in Runs, Read(r) PROVE UNCHANGED AF!vars
  <2>1. \A q \in Runs : pc[Child(q)] # "write" /\ pc'[Child(q)] # "write"
    BY <1>7 DEF Read
  <2>2. UNCHANGED <<file, produced>>
    BY <1>7 DEF Read
  <2> QED
    BY <1>4, <1>5, <2>1, <2>2 DEF AF!vars
<1>8. ASSUME NEW r \in Runs, Trunc(r) PROVE UNCHANGED AF!vars
  <2>1. \A q \in Runs : pc[Child(q)] # "write"
    BY <1>8 DEF Trunc
  <2>2. View = file /\ buf[r] = file
    BY <1>1, <1>4, <1>8, <2>1 DEF Trunc, Snapshot
  <2>3. produced' = produced
    BY <1>8 DEF Trunc
  <2>4. CASE pc' = [pc EXCEPT ![Child(r)] = "write"] /\ UNCHANGED buf
    <3>1. View' = buf[r]
      BY <1>5, <2>4
    <3> QED
      BY <2>2, <2>3, <3>1 DEF AF!vars
  <2>5. CASE pc' = [pc EXCEPT ![Child(r)] = "unlock"] /\ UNCHANGED file
    <3>1. View' = file
      BY <1>5, <2>1, <2>5
    <3> QED
      BY <2>2, <2>3, <3>1 DEF AF!vars
  <2> QED
    BY <1>8, <2>4, <2>5 DEF Trunc
<1>9. ASSUME NEW r \in Runs, Rewrite(r) PROVE AF!Pass
  <2>1. View = buf[r] /\ buf[r] \in Seq(Lines)
    BY <1>4, <1>9 DEF Rewrite
  <2>2. file = <<>>
    BY <1>1, <1>9 DEF Rewrite, Snapshot
  <2>3. file' = Marked(buf[r]) /\ produced' = produced
    BY <1>9, <2>1, <2>2, MarkedKeepsLines, OverwriteEmpty DEF Rewrite
  <2>4. \A q \in Runs : pc'[Child(q)] # "write"
    BY <1>9 DEF Rewrite
  <2>5. View' = Marked(View)
    BY <1>5, <2>1, <2>3, <2>4
  <2> QED
    BY <2>3, <2>5 DEF AF!Pass, Marked
<1>10. \A r \in Runs : Fork(r) => ~Running(Child(r))
  BY DEF Fork, Childless
<1>11. PassesGoOn => UNCHANGED AF!vars
  BY <1>3, ViewKept
<1>12. \A p \in Procs : Die(p) => PassesGoOn
  BY PassesKeptSteps
<1> QED
  BY <1>6, <1>7, <1>8, <1>9, <1>10, <1>11, <1>12, PassesKeptSteps
     DEF Next, ParentStep, ChildStep, ForkFailed, Close, AF!Next

-----------------------------------------------------------------------------
(* Every line is printed once.                                               *)

\* The steps that leave the files and the arrays as they are, or empty an array.
LinesKept ==
    /\ UNCHANGED <<file, produced, shown>>
    /\ \A r \in Runs : buf'[r] = buf[r] \/ buf'[r] = <<>>

LEMMA LinesKeptSteps ==
    ASSUME TypeOK
    PROVE  /\ \A r \in Runs : Open(r) \/ Unlink(r) \/ Fork(r) \/ Kill(r) \/ Wait(r) => LinesKept
           /\ \A p \in Procs :
                 Lock(p) \/ Unlock(p) \/ Loop(p) \/ Signal(p) \/ Die(p) => LinesKept
           /\ UNCHANGED vars => LinesKept
<1> USE DEF LinesKept, seen
<1>1. ASSUME NEW r \in Runs, Open(r) \/ Unlink(r) \/ Fork(r) \/ Kill(r) \/ Wait(r)
      PROVE  LinesKept
  BY <1>1 DEF Open, Unlink, Fork, Kill, Wait
<1>2. ASSUME NEW p \in Procs, Lock(p) \/ Unlock(p) \/ Loop(p) \/ Signal(p) PROVE LinesKept
  BY <1>2 DEF Lock, Unlock, Loop, Signal
<1>3. ASSUME NEW p \in Procs, Die(p) PROVE LinesKept
  <2>1. \A r \in Runs : buf'[r] = buf[r] \/ buf'[r] = <<>>
    BY <1>3 DEF Die, TypeOK
  <2> QED
    BY <1>3, <2>1 DEF Die
<1>4. CASE UNCHANGED vars
  BY <1>4 DEF vars
<1> QED
  BY <1>1, <1>2, <1>3, <1>4

\* Lines are numbered by the parents alone.
LEMMA IdsStep == TypeOK /\ IdsProduced /\ [Next]_vars => IdsProduced'
<1> SUFFICES ASSUME TypeOK, IdsProduced, [Next]_vars PROVE IdsProduced'
  OBVIOUS
<1>1. buf \in [Runs -> Seq(Lines)] /\ file \in Seq(Lines) /\ produced \in Nat
  BY DEF TypeOK
<1>2. CASE LinesKept
  <2>1. ASSUME NEW r \in Runs, NEW i \in DOMAIN buf'[r] PROVE buf'[r][i].id <= produced'
    <3>1. CASE buf'[r] = buf[r]
      BY <1>2, <2>1, <3>1 DEF IdsProduced, LinesKept
    <3>2. CASE buf'[r] = <<>>
      BY <2>1, <3>2
    <3> QED
      BY <1>2, <3>1, <3>2 DEF LinesKept
  <2> QED
    BY <1>2, <2>1 DEF IdsProduced, LinesKept
<1>3. ASSUME NEW r \in Runs, Write(r) PROVE IdsProduced'
  <2>1. CASE UNCHANGED file /\ UNCHANGED produced
    BY <1>2, <1>3, <2>1 DEF Write, seen, LinesKept
  <2>2. CASE file' = Append(file, NewLine(produced + 1)) /\ produced' = produced + 1
    <3>1. /\ DOMAIN file' = DOMAIN file \cup {Len(file) + 1}
          /\ \A i \in DOMAIN file : file'[i] = file[i]
          /\ file'[Len(file) + 1].id = produced + 1
      BY <1>1, <2>2, AppendType, NewLineType
    <3>2. \A i \in DOMAIN file : file[i].id \in Nat
      BY <1>1, LineNumbers
    <3>3. \A i \in DOMAIN file' : file'[i].id <= produced'
      BY <1>1, <2>2, <3>1, <3>2 DEF IdsProduced
    <3>4. UNCHANGED <<shown, buf>>
      BY <1>3 DEF Write, seen
    <3>5. \A q \in Runs : \A i \in DOMAIN buf[q] : buf[q][i].id <= produced'
      <4>1. ASSUME NEW q \in Runs, NEW i \in DOMAIN buf[q] PROVE buf[q][i].id \in Nat
        BY <1>1, LineNumbers
      <4> QED
        BY <1>1, <2>2, <4>1 DEF IdsProduced
    <3> QED
      BY <1>1, <2>2, <3>3, <3>4, <3>5 DEF IdsProduced
  <2> QED
    BY <1>3, <2>1, <2>2 DEF Write
<1>4. ASSUME NEW r \in Runs, Read(r) PROVE IdsProduced'
  <2>1. CASE UNCHANGED buf /\ UNCHANGED shown
    BY <1>2, <1>4, <2>1 DEF Read, LinesKept
  <2>2. CASE /\ buf' = [buf EXCEPT ![r] = ReadAll(file)]
             /\ shown' = shown \cup Unmarked(ReadAll(file))
    <3>1. \A i \in DOMAIN ReadAll(file) : ReadAll(file)[i].id <= produced
      BY <1>1, ReadAllPrefix DEF IdsProduced
    <3>2. Unmarked(ReadAll(file)) \subseteq 1 .. produced
      <4>1. \A n \in Unmarked(ReadAll(file)) : n \in Nat \ {0} /\ n <= produced
        BY <1>1, <3>1, ReadAllPrefix, UnmarkedLines, LineNumbers
      <4> QED
        BY <1>1, <4>1
    <3>3. UNCHANGED <<file, produced>>
      BY <1>4 DEF Read
    <3> QED
      BY <1>1, <2>2, <3>1, <3>2, <3>3 DEF IdsProduced
  <2> QED
    BY <1>1, <1>4, <2>1, <2>2 DEF Read
<1>5. ASSUME NEW r \in Runs, Trunc(r) PROVE IdsProduced'
  <2>1. CASE UNCHANGED buf /\ file' = <<>>
    BY <1>5, <2>1 DEF Trunc, IdsProduced, seen
  <2>2. CASE buf' = [buf EXCEPT ![r] = <<>>] /\ UNCHANGED file
    BY <1>1, <1>2, <1>5, <2>2 DEF Trunc, seen, LinesKept
  <2> QED
    BY <1>5, <2>1, <2>2 DEF Trunc
<1>6. ASSUME NEW r \in Runs, Rewrite(r) PROVE IdsProduced'
  <2> DEFINE w == Marked(buf[r])
  <2>1. /\ w \in Seq(Lines) /\ DOMAIN w = DOMAIN buf[r]
        /\ \A i \in DOMAIN w : w[i].id = buf[r][i].id
    BY <1>1, MarkedKeepsLines
  <2>2. file' = Overwrite(file, w)
    BY <1>6 DEF Rewrite
  <2> HIDE DEF w
  <2>3. \A i \in DOMAIN w : w[i].id <= produced
    BY <2>1 DEF IdsProduced
  <2>4. \A i \in DOMAIN file' : file'[i].id <= produced
    BY <1>1, <2>1, <2>2, <2>3, OverwriteLines DEF IdsProduced
  <2>5. UNCHANGED <<shown, produced>> /\ buf' = [buf EXCEPT ![r] = <<>>]
    BY <1>6 DEF Rewrite, seen
  <2>6. \A q \in Runs : \A i \in DOMAIN buf'[q] : buf'[q][i].id <= produced
    BY <1>1, <2>5 DEF IdsProduced
  <2> QED
    BY <2>4, <2>5, <2>6 DEF IdsProduced
<1> QED
  BY <1>2, <1>3, <1>4, <1>5, <1>6, LinesKeptSteps, ProcFacts
     DEF Next, ParentStep, ChildStep, ForkFailed, Close

\* A pass prints what is unmarked, and leaves nothing unmarked that was printed.
LEMMA ShownStep ==
    ASSUME TypeOK, Places, Childless, MutexWhileGuarded, MarksKept, [Next]_vars,
           lapses' \subseteq {"CUT"}
    PROVE  ShownMarked'
<1>1. lapses \subseteq {"CUT"} /\ Guarded
  BY LapsesGrow DEF Guarded
<1>2. /\ again = {}
      /\ \A r \in Runs : pc[Child(r)] = "write" => Len(file) = 0
      /\ ~MidPass => \A i \in DOMAIN file : file[i].id \in shown => file[i].done
      /\ shown \subseteq 1 .. produced
  BY <1>1 DEF MarksKept, ShownMarked, IdsProduced
<1>3. /\ pc \in [Procs -> PCs] /\ file \in Seq(Lines)
      /\ buf \in [Runs -> Seq(Lines)] /\ produced \in Nat
  BY DEF TypeOK
<1>4. \A p, q \in Procs : InCS(p) /\ InCS(q) => p = q
  BY <1>1 DEF MutexWhileGuarded
<1> USE ProcFacts DEF InCS, Goto
<1>5. ASSUME NEW r \in Runs, Write(r) PROVE ShownMarked'
  <2>1. \A q \in Runs : pc[Child(q)] \notin {"trunc", "write"} /\ pc'[Child(q)] = pc[Child(q)]
    BY <1>3, <1>4, <1>5 DEF Write
  <2>2. again' = {} /\ shown' = shown
    BY <1>2, <1>5 DEF Write, seen
  <2>3. \A i \in DOMAIN file : file[i].id \in shown => file[i].done
    BY <1>2, <2>1 DEF MidPass
  <2>4. \A i \in DOMAIN file' : file'[i].id \in shown => file'[i].done
    <3>1. CASE file' = Append(file, NewLine(produced + 1))
      <4>1. /\ DOMAIN file' = DOMAIN file \cup {Len(file) + 1}
            /\ \A i \in DOMAIN file : file'[i] = file[i]
            /\ file'[Len(file) + 1].id = produced + 1
        BY <1>3, <3>1, AppendType, NewLineType
      <4>2. produced + 1 \notin shown
        BY <1>2, <1>3
      <4> QED
        BY <2>3, <4>1, <4>2
    <3>2. CASE UNCHANGED file
      BY <2>3, <3>2
    <3> QED
      BY <1>5, <3>1, <3>2 DEF Write
  <2> QED
    BY <2>1, <2>2, <2>4 DEF ShownMarked
<1>6. ASSUME NEW r \in Runs, Read(r) PROVE ShownMarked'
  <2>1. \A q \in Runs : pc[Child(q)] \notin {"trunc", "write"} /\ pc'[Child(q)] # "write"
    BY <1>3, <1>4, <1>6 DEF Read
  <2>2. \A i \in DOMAIN file : file[i].id \in shown => file[i].done
    BY <1>2, <2>1 DEF MidPass
  <2>3. CASE pc'[Child(r)] = "trunc"
    <3>1. MidPass'
      BY <2>3 DEF MidPass
    <3>2. again' = again \cup (shown \cap Unmarked(ReadAll(file)))
      BY <1>3, <1>6, <2>3 DEF Read
    <3>3. \A n \in Unmarked(ReadAll(file)) : n \notin shown
      <4>1. \A n \in Unmarked(ReadAll(file)) :
               \E i \in DOMAIN ReadAll(file) : ReadAll(file)[i].id = n /\ ~ReadAll(file)[i].done
        BY <1>3, ReadAllPrefix, UnmarkedLines
      <4>2. /\ DOMAIN ReadAll(file) \subseteq DOMAIN file
            /\ \A i \in DOMAIN ReadAll(file) : ReadAll(file)[i] = file[i]
        BY <1>3, ReadAllPrefix
      <4> QED
        BY <2>2, <4>1, <4>2
    <3> QED
      BY <1>2, <2>1, <3>1, <3>2, <3>3 DEF ShownMarked
  <2>4. CASE pc'[Child(r)] = "unlock"
    <3>1. UNCHANGED <<file, shown, again>>
      BY <1>3, <1>6, <2>4 DEF Read
    <3> QED
      BY <1>2, <2>1, <2>2, <3>1 DEF ShownMarked
  <2> QED
    BY <1>3, <1>6, <2>3, <2>4 DEF Read
<1>7. ASSUME NEW r \in Runs, Trunc(r) PROVE ShownMarked'
  <2>1. file' = <<>> /\ pc' = [pc EXCEPT ![Child(r)] = "write"]
    BY <1>7 DEF Trunc
  <2>2. Len(file') = 0
    BY <2>1
  <2>3. pc'[Child(r)] = "write" /\ UNCHANGED seen
    BY <1>3, <1>7, <2>1 DEF Trunc
  <2> QED
    BY <1>2, <2>2, <2>3 DEF ShownMarked, MidPass, seen
<1>8. ASSUME NEW r \in Runs, Rewrite(r) PROVE ShownMarked'
  <2>1. file' = Marked(buf[r])
    BY <1>2, <1>3, <1>8, MarkedKeepsLines, OverwriteLines DEF Rewrite
  <2>2. \A i \in DOMAIN file' : file'[i].done
    BY <1>3, <2>1, MarkedKeepsLines
  <2>3. \A q \in Runs : pc'[Child(q)] # "write"
    BY <1>3, <1>4, <1>8 DEF Rewrite
  <2> QED
    BY <1>2, <1>8, <2>2, <2>3 DEF Rewrite, ShownMarked, seen
<1>9. CASE PassesGoOn
  <2>1. MidPass' <=> MidPass
    BY <1>9 DEF MidPass, PassesGoOn, PassesKept
  <2>2. \A r \in Runs : pc'[Child(r)] = "write" => Len(file') = 0
    BY <1>2, <1>9 DEF PassesGoOn, PassesKept
  <2> QED
    BY <1>2, <1>9, <2>1, <2>2 DEF ShownMarked, PassesGoOn, PassesKept, seen
<1>10. \A r \in Runs : Fork(r) => ~Running(Child(r))
  BY DEF Fork, Childless
<1>11. \A p \in Procs : Die(p) => PassesGoOn
  BY PassesKeptSteps
<1> QED
  BY <1>5, <1>6, <1>7, <1>8, <1>9, <1>10, <1>11, PassesKeptSteps
     DEF Next, ParentStep, ChildStep, ForkFailed, Close

-----------------------------------------------------------------------------
(* The theorems.                                                             *)

\* The parts of the invariant together are inductive.
LEMMA InvariantHolds == Spec => []IInv
<1>1. Init => IInv
  <2> SUFFICES ASSUME Init PROVE IInv
    OBVIOUS
  <2> USE ProcFacts DEF Init
  <2>1. TypeOK
    BY DEF TypeOK, PCs, Lapse
  <2>2. \A p \in Procs : ~Running(p) /\ ~InCS(p)
    BY DEF Running, InCS
  <2>3. Places /\ Opened /\ Holder /\ Named /\ Childless /\ NoOrphan
    BY <2>2 DEF Places, Opened, Holder, Named, Childless, NoOrphan, Busy
  <2>4. Snapshot /\ MarksKept
    BY DEF Snapshot, MarksKept, IdsProduced, ShownMarked
  <2> QED
    BY <2>1, <2>3, <2>4 DEF IInv
<1>2. IInv /\ [Next]_vars => IInv'
  <2> SUFFICES ASSUME IInv, [Next]_vars PROVE IInv'
    OBVIOUS
  <2>1. TypeOK' /\ Opened' /\ Holder' /\ Named'
    BY TypeStep, OpenedStep, HolderStep, NamedStep DEF IInv
  <2>2. Places' /\ Childless' /\ NoOrphan'
    BY PlacesStep, ChildlessStep, NoOrphanStep DEF IInv
  <2>3. Snapshot' /\ MarksKept'
    BY MutexFromHolder, SnapshotStep, IdsStep, ShownStep DEF IInv, MarksKept
  <2> QED
    BY <2>1, <2>2, <2>3 DEF IInv
<1> QED
  BY <1>1, <1>2, PTL DEF Spec

\* Every value stays in its set: no semaphore is ever raised above 1, in whatever order
\* the processes of all runs lock, post, die and make new semaphores.
THEOREM TypeCorrect == Spec => []TypeOK
<1>1. IInv => TypeOK
  BY DEF IInv
<1> QED
  BY <1>1, InvariantHolds, PTL

\* At any time at most one process of all runs is past the semaphore, as long as nobody
\* has unlinked the name of a semaphore in use.
THEOREM MutexWhileGuardedHolds == Spec => []MutexWhileGuarded
<1>1. IInv => MutexWhileGuarded
  BY MutexFromHolder DEF IInv
<1> QED
  BY <1>1, InvariantHolds, PTL

\* A parent that was not killed is there as long as its child runs.
THEOREM NoOrphanHolds == Spec => []NoOrphan
<1>1. IInv => NoOrphan
  BY DEF IInv
<1> QED
  BY <1>1, InvariantHolds, PTL

\* No line is printed a second time by whichever run, while no pass dies or loses its
\* marks and the semaphore guards the file.
THEOREM ShownOnceHolds == Spec => []ShownOnce
<1>1. IInv => ShownOnce
  BY DEF IInv, MarksKept, ShownMarked, ShownOnce
<1> QED
  BY <1>1, InvariantHolds, PTL

\* While all use one semaphore and no pass dies or falls short, any number of runs change
\* the file as AtomicFile does.
THEOREM AtomicWhileGuardedHolds == Spec => AtomicWhileGuarded
<1>1. IInv => MutexWhileGuarded
  BY MutexFromHolder DEF IInv
<1>2. IInv /\ MutexWhileGuarded /\ MutexWhileGuarded' /\ [Next]_vars =>
          [Guarded' /\ lapses' \cap {"KILL", "CUT"} = {} => [AF!Next]_AF!vars]_vars
  BY AtomicStep DEF IInv
<1> QED
  BY <1>1, <1>2, InvariantHolds, PTL DEF Spec, AtomicWhileGuarded

=============================================================================
