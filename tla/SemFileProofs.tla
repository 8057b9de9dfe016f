---------------------------- MODULE SemFileProofs ----------------------------
(***************************************************************************)
(* Mutual exclusion, atomicity and once-only printing for Module3/08, for  *)
(* any numbers of processes, starts and lines.                             *)
(***************************************************************************)
EXTENDS SemFile, LineFileLemmas

\* The programs have no other system calls.
Roles ==
    /\ \A p \in Producers : pc[p] \notin {"read", "trunc", "write"}
    /\ \A c \in Consumers : pc[c] \notin {"setval", "append", "unlockBreak", "rmid"}

\* Mutual exclusion alone is not inductive: it takes that all running processes use
\* the set that exists, that the holder's unit is missing from the semaphore, and
\* that a set still to be initialised keeps everybody out.
Exclusion ==
    Guarded =>
        /\ \A p \in Procs : Running(p) => handle[p] = cur /\ cur # 0
        /\ val \in {0, 1}
        /\ \A p \in Procs : InCS(p) => val = 0
        /\ \A p, q \in Procs : InCS(p) /\ InCS(q) => p = q
        /\ \A p \in Procs : pc[p] = "setval" =>
              val = 0 /\ \A q \in Procs : ~InCS(q) /\ (pc[q] = "setval" => q = p)

\* What a consumer remembers of the file between its system calls.
Snapshot ==
    Guarded /\ lapses \cap {"KILL", "CUT"} = {} =>
        \A c \in Consumers : /\ pc[c] = "trunc" => buf[c] = file
                             /\ pc[c] = "write" => file = <<>>

\* The marks in the file agree with what was printed, except in the middle of a pass.
MidPass == \E c \in Consumers : pc[c] \in {"trunc", "write"}
IdsProduced ==
    /\ shown \subseteq 1 .. produced
    /\ \A i \in DOMAIN file : file[i].id <= produced
    /\ \A c \in Consumers : \A i \in DOMAIN buf[c] : buf[c][i].id <= produced
ShownMarked ==
    /\ again = {}
    /\ \A c \in Consumers : pc[c] = "write" => Len(file) = 0
    /\ ~MidPass => \A i \in DOMAIN file : file[i].id \in shown => file[i].done

MarksKept == IdsProduced /\ (lapses \subseteq {"CUT"} => ShownMarked)

\* The inductive invariant: types, roles, exclusion, and what follows from exclusion for
\* the file between the system calls of a pass.
IInv == TypeOK /\ Roles /\ Exclusion /\ Snapshot /\ MarksKept

-----------------------------------------------------------------------------
(* Types.                                                                    *)

LEMMA TypeStep == TypeOK /\ [Next]_vars => TypeOK'
<1> SUFFICES ASSUME TypeOK, [Next]_vars PROVE TypeOK'
  OBVIOUS
<1> USE DEF Goto, PCs, Lapse, sem, seen
<1>1. ASSUME NEW p \in Producers, PStart(p) PROVE TypeOK'
  <2>1. lapses' \subseteq Lapse
    BY <1>1 DEF PStart, TypeOK
  <2>2. cur' \in Nat /\ val' \in Nat /\ made' \in Nat
    BY <1>1 DEF PStart, TypeOK
  <2> QED
    BY <1>1, <2>1, <2>2 DEF PStart, TypeOK, Procs
<1>2. ASSUME NEW p \in Procs, Lock(p) PROVE TypeOK'
  BY <1>2 DEF Lock, TypeOK, Procs, Entry
<1>3. ASSUME NEW p \in Procs, Unlock(p) PROVE TypeOK'
  BY <1>3 DEF Unlock, TypeOK, Procs
<1>4. ASSUME NEW p \in Producers, PSetVal(p) PROVE TypeOK'
  BY <1>4 DEF PSetVal, TypeOK, Procs, InitialVal
<1>5. ASSUME NEW p \in Producers, PLoop(p) PROVE TypeOK'
  BY <1>5 DEF PLoop, TypeOK, Procs
<1>6. ASSUME NEW p \in Producers, PAppend(p) PROVE TypeOK'
  <2>1. Append(file, NewLine(produced + 1)) \in Seq(Lines)
    BY NewLineType, AppendType DEF TypeOK
  <2>2. file' \in Seq(Lines)
    BY <1>6, <2>1 DEF PAppend, TypeOK
  <2>3. produced' \in Nat
    BY <1>6 DEF PAppend, TypeOK
  <2>4. pc' \in [Procs -> PCs]
    BY <1>6 DEF PAppend, TypeOK, Procs
  <2> QED
    BY <1>6, <2>2, <2>3, <2>4 DEF PAppend, TypeOK
<1>7. ASSUME NEW p \in Producers, PRmid(p) PROVE TypeOK'
  <2>1. lapses' \subseteq Lapse
    BY <1>7 DEF PRmid, TypeOK
  <2>2. cur' \in Nat /\ val' \in Nat
    BY <1>7 DEF PRmid, TypeOK
  <2> QED
    BY <1>7, <2>1, <2>2 DEF PRmid, TypeOK, Procs
<1>8. ASSUME NEW c \in Consumers, CStart(c) PROVE TypeOK'
  BY <1>8 DEF CStart, TypeOK, Procs
<1>9. ASSUME NEW c \in Consumers, CLoop(c) PROVE TypeOK'
  BY <1>9 DEF CLoop, TypeOK, Procs
<1>10. ASSUME NEW c \in Consumers, CRead(c) PROVE TypeOK'
  <2>1. ReadAll(file) \in Seq(Lines)
    BY ReadAllPrefix DEF TypeOK
  <2>2. \A b \in Seq(Lines) : Unmarked(b) \subseteq Nat
    BY UnmarkedLines
  <2>3. buf' \in [Consumers -> Seq(Lines)]
    <3>1. buf' = buf \/ buf' = [buf EXCEPT ![c] = ReadAll(file)]
      BY <1>10 DEF CRead
    <3>2. buf \in [Consumers -> Seq(Lines)]
      BY DEF TypeOK
    <3> QED
      BY <2>1, <3>1, <3>2
  <2>4. shown' \subseteq Nat
    <3>1. shown' = shown \/ shown' = shown \cup Unmarked(buf'[c])
      BY <1>10 DEF CRead
    <3>2. Unmarked(buf'[c]) \subseteq Nat
      BY <2>2, <2>3
    <3> QED
      BY <3>1, <3>2 DEF TypeOK
  <2>5. again' \subseteq Nat
    BY <1>10 DEF CRead, TypeOK
  <2>6. lapses' \subseteq Lapse
    BY <1>10 DEF CRead, TypeOK
  <2>7. pc' \in [Procs -> PCs]
    BY <1>10 DEF CRead, TypeOK, Procs, AfterFailedOpen
  <2> QED
    BY <1>10, <2>3, <2>4, <2>5, <2>6, <2>7 DEF CRead, TypeOK
<1>11. ASSUME NEW c \in Consumers, CTrunc(c) PROVE TypeOK'
  <2>1. lapses' \subseteq Lapse
    BY <1>11 DEF CTrunc, TypeOK
  <2>2. file' \in Seq(Lines)
    BY <1>11, EmptyFile DEF CTrunc, TypeOK
  <2>3. buf' \in [Consumers -> Seq(Lines)]
    BY <1>11, EmptyFile DEF CTrunc, TypeOK
  <2>4. pc' \in [Procs -> PCs]
    BY <1>11 DEF CTrunc, TypeOK, Procs
  <2> QED
    BY <1>11, <2>1, <2>2, <2>3, <2>4 DEF CTrunc, TypeOK
<1>12. ASSUME NEW c \in Consumers, CWrite(c) PROVE TypeOK'
  <2>1. file' \in Seq(Lines)
    BY <1>12, MarkedKeepsLines, OverwriteLines DEF CWrite, TypeOK
  <2> QED
    BY <1>12, <2>1 DEF CWrite, TypeOK, Procs
<1>13. ASSUME NEW p \in Procs, Signal(p) PROVE TypeOK'
  BY <1>13 DEF Signal, TypeOK
<1>14. ASSUME NEW p \in Procs, Interrupt(p) PROVE TypeOK'
  BY <1>14 DEF Interrupt, TypeOK, Entry
<1>15. ASSUME NEW p \in Procs, Kill(p) PROVE TypeOK'
  BY <1>15 DEF Kill, TypeOK
<1>16. CASE UNCHANGED vars
  BY <1>16 DEF vars, TypeOK
<1> QED
  BY <1>1, <1>2, <1>3, <1>4, <1>5, <1>6, <1>7, <1>8, <1>9, <1>10, <1>11, <1>12,
     <1>13, <1>14, <1>15, <1>16 DEF Next, Producer, Consumer, Procs

\* Every variable of the model keeps its type.
THEOREM TypeCorrect == Spec => []TypeOK
<1>1. Init => TypeOK
  BY DEF Init, TypeOK, PCs, Lapse
<1> QED
  BY <1>1, TypeStep, PTL DEF Spec

-----------------------------------------------------------------------------
(* Mutual exclusion.                                                         *)

LEMMA RolesStep == TypeOK /\ Roles /\ [Next]_vars => Roles'
<1> SUFFICES ASSUME TypeOK, Roles, [Next]_vars PROVE Roles'
  OBVIOUS
<1>1. pc \in [Procs -> PCs] /\ Producers \cap Consumers = {}
  BY SemAssumption DEF TypeOK
<1> USE <1>1 DEF Roles, Goto, PCs, Procs
<1>2. ASSUME NEW p \in Producers, PStart(p) \/ Producer(p) PROVE Roles'
  BY <1>2 DEF Producer, PStart, Lock, Unlock, PSetVal, PLoop, PAppend, PRmid, Entry
<1>3. ASSUME NEW c \in Consumers, CStart(c) \/ Consumer(c) PROVE Roles'
  BY <1>3 DEF Consumer, CStart, Lock, Unlock, CLoop, CRead, CTrunc, CWrite, Entry,
              AfterFailedOpen
<1>4. ASSUME NEW p \in Procs, Signal(p) \/ Interrupt(p) \/ Kill(p) PROVE Roles'
  BY <1>4 DEF Signal, Interrupt, Kill, Entry
<1>5. CASE UNCHANGED vars
  BY <1>5 DEF vars
<1> QED
  BY <1>2, <1>3, <1>4, <1>5 DEF Next

\* What the removal, the second initialisation and the interrupt record.
LEMMA GuardedSteps ==
    ASSUME Guarded'
    PROVE  /\ \A p \in Producers : PStart(p) => cur = 0
           /\ \A p \in Producers : PRmid(p) => \/ UNCHANGED <<cur, val>>
                                              \/ \A q \in Procs \ {p} : ~Running(q)
           /\ \A p \in Procs : ~Interrupt(p)
<1>1. "SETVAL" \notin lapses' /\ "RMID" \notin lapses' /\ "EINTR" \notin lapses'
  BY DEF Guarded
<1>2. ASSUME NEW p \in Producers, PStart(p), cur # 0 PROVE FALSE
  BY <1>1, <1>2 DEF PStart
<1>3. ASSUME NEW p \in Producers, PRmid(p), NEW q \in Procs \ {p}, Running(q)
      PROVE  UNCHANGED <<cur, val>>
  BY <1>1, <1>3 DEF PRmid
<1>4. ASSUME NEW p \in Procs, Interrupt(p) PROVE FALSE
  BY <1>1, <1>4 DEF Interrupt
<1> QED
  BY <1>2, <1>3, <1>4

\* An event that is recorded stays recorded.
LEMMA LapsesGrow == [Next]_vars => lapses \subseteq lapses'
<1> SUFFICES ASSUME [Next]_vars PROVE lapses \subseteq lapses'
  OBVIOUS
<1>1. ASSUME NEW p \in Producers, PStart(p) \/ Producer(p) PROVE lapses \subseteq lapses'
  BY <1>1 DEF Producer, PStart, Lock, Unlock, PSetVal, PLoop, PAppend, PRmid
<1>2. ASSUME NEW c \in Consumers, CStart(c) \/ Consumer(c) PROVE lapses \subseteq lapses'
  BY <1>2 DEF Consumer, CStart, Lock, Unlock, CLoop, CRead, CTrunc, CWrite
<1>3. ASSUME NEW p \in Procs, Signal(p) \/ Interrupt(p) \/ Kill(p) PROVE lapses \subseteq lapses'
  BY <1>3 DEF Signal, Interrupt, Kill
<1>4. CASE UNCHANGED vars
  BY <1>4 DEF vars
<1> QED
  BY <1>1, <1>2, <1>3, <1>4 DEF Next

LEMMA ExclusionStep == TypeOK /\ Roles /\ Exclusion /\ [Next]_vars => Exclusion'
<1> SUFFICES ASSUME TypeOK, Roles, Exclusion, [Next]_vars, Guarded' PROVE Exclusion'
  BY DEF Exclusion
<1>1. Guarded
  BY LapsesGrow DEF Guarded
<1>2. /\ pc \in [Procs -> PCs] /\ handle \in [Procs -> Nat]
      /\ cur \in Nat /\ made \in Nat /\ Producers \cap Consumers = {}
  BY SemAssumption DEF TypeOK
<1> USE <1>1, <1>2 DEF Exclusion, Goto, InCS, Running, Procs, Roles, sem
<1>3. ASSUME NEW p \in Producers, PStart(p) PROVE Exclusion'
  <2>1. cur = 0
    BY <1>3, GuardedSteps
  <2>2. \A q \in Procs : ~Running(q)
    BY <2>1
  <2>3. cur' = made + 1 /\ val' = 0 /\ handle' = [handle EXCEPT ![p] = cur']
    BY <1>3, <2>1 DEF PStart
  <2>4. pc' = [pc EXCEPT ![p] = "setval"]
    BY <1>3 DEF PStart
  <2> QED
    BY <2>2, <2>3, <2>4
<1>4. ASSUME NEW p \in Producers, PSetVal(p) PROVE Exclusion'
  BY <1>4 DEF PSetVal, InitialVal, Gone
<1>5. ASSUME NEW p \in Procs, Lock(p) PROVE Exclusion'
  BY <1>5 DEF Lock, Gone, Entry
<1>6. ASSUME NEW p \in Procs, Unlock(p) PROVE Exclusion'
  BY <1>6 DEF Unlock, Gone
<1>7. ASSUME NEW p \in Producers, PLoop(p) PROVE Exclusion'
  BY <1>7 DEF PLoop
<1>8. ASSUME NEW p \in Producers, PAppend(p) PROVE Exclusion'
  BY <1>8 DEF PAppend
<1>9. ASSUME NEW p \in Producers, PRmid(p) PROVE Exclusion'
  BY <1>9, GuardedSteps DEF PRmid, Gone
<1>10. ASSUME NEW c \in Consumers, CStart(c) PROVE Exclusion'
  BY <1>10 DEF CStart
<1>11. ASSUME NEW c \in Consumers, CLoop(c) PROVE Exclusion'
  BY <1>11 DEF CLoop
<1>12. ASSUME NEW c \in Consumers, CRead(c) PROVE Exclusion'
  BY <1>12 DEF CRead, AfterFailedOpen
<1>13. ASSUME NEW c \in Consumers, CTrunc(c) PROVE Exclusion'
  BY <1>13 DEF CTrunc
<1>14. ASSUME NEW c \in Consumers, CWrite(c) PROVE Exclusion'
  BY <1>14 DEF CWrite
<1>15. ASSUME NEW p \in Procs, Signal(p) PROVE Exclusion'
  BY <1>15 DEF Signal
<1>16. ASSUME NEW p \in Procs, Kill(p) PROVE Exclusion'
  BY <1>16 DEF Kill
<1>17. CASE UNCHANGED vars
  BY <1>17 DEF vars
<1> QED
  BY <1>3, <1>4, <1>5, <1>6, <1>7, <1>8, <1>9, <1>10, <1>11, <1>12, <1>13, <1>14,
     <1>15, <1>16, <1>17, GuardedSteps DEF Next, Producer, Consumer

-----------------------------------------------------------------------------
(* Atomicity.                                                                *)

\* A step that leaves the file alone, and the passes that are about to change it.
PassesKept ==
    /\ file' = file
    /\ \A c \in Consumers :
          pc'[c] \in {"trunc", "write"} => pc'[c] = pc[c] /\ buf'[c] = buf[c]

LEMMA PassesKeptSteps ==
    ASSUME TypeOK, Roles
    PROVE  /\ \A p \in Procs : Lock(p) \/ Unlock(p) \/ Signal(p) \/ Kill(p) => PassesKept
           /\ \A p \in Producers :
                 PStart(p) \/ PSetVal(p) \/ PLoop(p) \/ PRmid(p) => PassesKept
           /\ \A c \in Consumers : CStart(c) \/ CLoop(c) => PassesKept
           /\ UNCHANGED vars => PassesKept
<1>1. pc \in [Procs -> PCs] /\ Producers \cap Consumers = {}
  BY SemAssumption DEF TypeOK
<1> USE <1>1 DEF PassesKept, Goto, Procs
<1>2. ASSUME NEW p \in Procs, Lock(p) \/ Unlock(p) PROVE PassesKept
  BY <1>2 DEF Lock, Unlock, Entry
<1>3. ASSUME NEW p \in Procs, Signal(p) PROVE PassesKept
  BY <1>3 DEF Signal
<1>4. ASSUME NEW p \in Procs, Kill(p) PROVE PassesKept
  <2>1. \A c \in Consumers \ {p} : buf'[c] = buf[c]
    BY <1>4 DEF Kill, TypeOK
  <2>2. file' = file /\ pc' = [pc EXCEPT ![p] = "done"]
    BY <1>4 DEF Kill
  <2> QED
    BY <2>1, <2>2
<1>5. ASSUME NEW p \in Producers, PStart(p) \/ PSetVal(p) \/ PLoop(p) \/ PRmid(p)
      PROVE  PassesKept
  BY <1>5 DEF PStart, PSetVal, PLoop, PRmid
<1>6. ASSUME NEW c \in Consumers, CStart(c) \/ CLoop(c) PROVE PassesKept
  BY <1>6 DEF CStart, CLoop
<1>7. CASE UNCHANGED vars
  BY <1>7 DEF vars
<1> QED
  BY <1>2, <1>3, <1>4, <1>5, <1>6, <1>7

LEMMA SnapshotStep ==
    TypeOK /\ Roles /\ Exclusion /\ Snapshot /\ [Next]_vars => Snapshot'
<1> SUFFICES ASSUME TypeOK, Roles, Exclusion, Snapshot, [Next]_vars,
                    Guarded', lapses' \cap {"KILL", "CUT"} = {}
             PROVE  Snapshot'
  BY DEF Snapshot
<1>1. Guarded /\ lapses \cap {"KILL", "CUT"} = {}
  BY LapsesGrow DEF Guarded
<1>2. /\ pc \in [Procs -> PCs] /\ buf \in [Consumers -> Seq(Lines)]
      /\ Producers \cap Consumers = {}
  BY SemAssumption DEF TypeOK
<1>3. \A p, q \in Procs : InCS(p) /\ InCS(q) => p = q
  BY <1>1 DEF Exclusion
<1>4. \A c \in Consumers : pc[c] = "trunc" => buf[c] = file
  BY <1>1 DEF Snapshot
<1>10. \A c \in Consumers : pc[c] = "write" => file = <<>>
  BY <1>1 DEF Snapshot
<1> USE <1>2, <1>3 DEF Goto, InCS, Procs
<1>5. ASSUME NEW p \in Producers, PAppend(p) PROVE Snapshot'
  <2>1. \A c \in Consumers : pc'[c] \notin {"trunc", "write"}
    BY <1>5 DEF PAppend
  <2> QED
    BY <2>1 DEF Snapshot
<1>6. ASSUME NEW c \in Consumers, CRead(c) PROVE Snapshot'
  <2>1. \A d \in Consumers \ {c} : pc'[d] \notin {"trunc", "write"}
    BY <1>6 DEF CRead
  <2>2. CASE pc'[c] = "unlock"
    BY <2>1, <2>2 DEF Snapshot
  <2>3. CASE pc'[c] = "trunc"
    <3>1. file' = file /\ lapses' = IF buf'[c] = file THEN lapses ELSE lapses \cup {"CUT"}
      BY <1>6, <2>3 DEF CRead, AfterFailedOpen
    <3> QED
      BY <2>1, <2>3, <3>1 DEF Snapshot
  <2> QED
    BY <1>6, <2>2, <2>3 DEF CRead, AfterFailedOpen
<1>7. ASSUME NEW c \in Consumers, CTrunc(c) PROVE Snapshot'
  <2>1. \A d \in Consumers \ {c} : pc'[d] \notin {"trunc", "write"}
    BY <1>7 DEF CTrunc
  <2>2. pc'[c] = "unlock" \/ (pc'[c] = "write" /\ file' = <<>>)
    BY <1>7 DEF CTrunc
  <2> QED
    BY <2>1, <2>2 DEF Snapshot
<1>8. ASSUME NEW c \in Consumers, CWrite(c) PROVE Snapshot'
  <2>1. \A d \in Consumers : pc'[d] \notin {"trunc", "write"}
    BY <1>8 DEF CWrite
  <2> QED
    BY <2>1 DEF Snapshot
<1>9. CASE PassesKept
  <2>1. ASSUME NEW c \in Consumers, pc'[c] = "trunc" PROVE buf'[c] = file'
    <3>1. pc[c] = "trunc" /\ buf'[c] = buf[c] /\ file' = file
      BY <1>9, <2>1 DEF PassesKept
    <3> QED
      BY <1>4, <3>1
  <2>2. ASSUME NEW c \in Consumers, pc'[c] = "write" PROVE file' = <<>>
    <3>1. pc[c] = "write" /\ buf'[c] = buf[c] /\ file' = file
      BY <1>9, <2>2 DEF PassesKept
    <3> QED
      BY <1>10, <3>1
  <2> QED
    BY <2>1, <2>2 DEF Snapshot
<1> QED
  BY <1>5, <1>6, <1>7, <1>8, <1>9, PassesKeptSteps, GuardedSteps DEF Next, Producer, Consumer

\* What the others see of the file, in the two cases of its definition.
OneWriter == \A c, d \in Consumers : pc[c] = "write" /\ pc[d] = "write" => c = d
ViewIsFile == (\A c \in Consumers : pc[c] # "write") => View = file
ViewIsBuf == \A c \in Consumers : pc[c] = "write" => View = buf[c]

LEMMA ViewCases == OneWriter => ViewIsFile /\ ViewIsBuf
<1> SUFFICES ASSUME OneWriter PROVE ViewIsFile /\ ViewIsBuf
  OBVIOUS
<1>1. ASSUME \A c \in Consumers : pc[c] # "write" PROVE View = file
  BY <1>1 DEF View, Writers
<1>2. ASSUME NEW c \in Consumers, pc[c] = "write" PROVE View = buf[c]
  <2>1. Writers = {c}
    BY <1>2 DEF Writers, OneWriter
  <2>2. (CHOOSE d \in {c} : TRUE) = c
    OBVIOUS
  <2> QED
    BY <2>1, <2>2 DEF View
<1> QED
  BY <1>1, <1>2 DEF ViewIsFile, ViewIsBuf

\* A mark or an appended line of the detailed file is one of the abstract file.
LEMMA AtomicStep ==
    ASSUME TypeOK, Roles, Exclusion, Snapshot, [Next]_vars,
           Guarded', lapses' \cap {"KILL", "CUT"} = {}
    PROVE  [AF!Next]_AF!vars
<1>1. Guarded /\ lapses \cap {"KILL", "CUT"} = {}
  BY LapsesGrow DEF Guarded
<1>2. /\ pc \in [Procs -> PCs] /\ Producers \cap Consumers = {}
      /\ \A p, q \in Procs : InCS(p) /\ InCS(q) => p = q
      /\ \A p, q \in Procs : InCS(p)' /\ InCS(q)' => p = q
  <2>1. \A p, q \in Procs : InCS(p) /\ InCS(q) => p = q
    BY <1>1 DEF Exclusion
  <2>2. Exclusion'
    BY ExclusionStep
  <2>3. \A p, q \in Procs : InCS(p)' /\ InCS(q)' => p = q
    BY <2>2 DEF Exclusion
  <2> QED
    BY <2>1, <2>3, SemAssumption DEF TypeOK
<1>3. OneWriter /\ OneWriter'
  BY <1>2 DEF InCS, Procs, OneWriter
<1>4. /\ (\A c \in Consumers : pc[c] # "write") => View = file
      /\ \A c \in Consumers : pc[c] = "write" => View = buf[c]
  BY <1>3, ViewCases DEF ViewIsFile, ViewIsBuf
<1>5. /\ (\A c \in Consumers : pc'[c] # "write") => View' = file'
      /\ \A c \in Consumers : pc'[c] = "write" => View' = buf'[c]
  <2>1. (OneWriter => ViewIsFile /\ ViewIsBuf)'
    BY ViewCases, PTL
  <2> QED
    BY <1>3, <2>1 DEF ViewIsFile, ViewIsBuf
<1> USE <1>2 DEF Goto, InCS, Procs
<1>6. ASSUME NEW p \in Producers, PAppend(p) PROVE AF!Next \/ UNCHANGED AF!vars
  <2>1. \A c \in Consumers : pc[c] # "write" /\ pc'[c] # "write"
    BY <1>6 DEF PAppend
  <2>2. View = file /\ View' = file'
    BY <1>4, <1>5, <2>1
  <2>3. CASE UNCHANGED file /\ UNCHANGED produced
    BY <2>2, <2>3 DEF AF!vars
  <2>4. CASE file' = Append(file, NewLine(produced + 1)) /\ produced' = produced + 1
    BY <2>2, <2>4 DEF AF!Next, AF!Add, NewLine
  <2> QED
    BY <1>6, <2>3, <2>4 DEF PAppend
<1>7. ASSUME NEW c \in Consumers, CRead(c) PROVE UNCHANGED AF!vars
  <2>1. \A d \in Consumers : pc[d] # "write" /\ pc'[d] # "write"
    BY <1>7 DEF CRead, AfterFailedOpen
  <2>2. UNCHANGED <<file, produced>>
    BY <1>7 DEF CRead
  <2> QED
    BY <1>4, <1>5, <2>1, <2>2 DEF AF!vars
<1>8. ASSUME NEW c \in Consumers, CTrunc(c) PROVE UNCHANGED AF!vars
  <2>1. \A d \in Consumers : pc[d] # "write"
    BY <1>8 DEF CTrunc
  <2>2. View = file /\ buf[c] = file
    BY <1>1, <1>4, <1>8, <2>1 DEF CTrunc, Snapshot
  <2>3. produced' = produced
    BY <1>8 DEF CTrunc
  <2>4. CASE pc' = [pc EXCEPT ![c] = "write"] /\ UNCHANGED buf
    <3>1. View' = buf[c]
      BY <1>5, <2>4
    <3> QED
      BY <2>2, <2>3, <3>1 DEF AF!vars
  <2>5. CASE pc' = [pc EXCEPT ![c] = "unlock"] /\ UNCHANGED file
    <3>1. View' = file
      BY <1>5, <2>1, <2>5
    <3> QED
      BY <2>2, <2>3, <3>1 DEF AF!vars
  <2> QED
    BY <1>8, <2>4, <2>5 DEF CTrunc
<1>9. ASSUME NEW c \in Consumers, CWrite(c) PROVE AF!Pass
  <2>1. View = buf[c] /\ buf[c] \in Seq(Lines)
    BY <1>4, <1>9 DEF CWrite, TypeOK
  <2>2. file = <<>>
    BY <1>1, <1>9 DEF CWrite, Snapshot
  <2>3. file' = Marked(buf[c]) /\ produced' = produced
    BY <1>9, <2>1, <2>2, MarkedKeepsLines, OverwriteEmpty DEF CWrite
  <2>4. \A d \in Consumers : pc'[d] # "write"
    BY <1>9 DEF CWrite
  <2>5. View' = Marked(View)
    BY <1>5, <2>1, <2>3, <2>4
  <2> QED
    BY <2>3, <2>5 DEF AF!Pass, Marked
<1>10. CASE PassesKept /\ UNCHANGED produced /\ \A c \in Consumers : pc[c] = "write" => pc'[c] = "write"
  <2>1. CASE \E c \in Consumers : pc[c] = "write"
    <3>1. PICK c \in Consumers : pc[c] = "write"
      BY <2>1
    <3>2. pc'[c] = "write" /\ buf'[c] = buf[c]
      BY <1>10, <3>1 DEF PassesKept
    <3> QED
      BY <1>4, <1>5, <1>10, <3>1, <3>2 DEF AF!vars
  <2>2. CASE \A c \in Consumers : pc[c] # "write"
    <3>1. \A c \in Consumers : pc'[c] # "write"
      BY <1>10, <2>2 DEF PassesKept
    <3> QED
      BY <1>4, <1>5, <1>10, <2>2, <3>1 DEF AF!vars, PassesKept
  <2> QED
    BY <2>1, <2>2
<1>11. ASSUME NEW p \in Procs, Lock(p) \/ Unlock(p) \/ Signal(p)
       PROVE  UNCHANGED produced /\ \A c \in Consumers : pc[c] = "write" => pc'[c] = "write"
  BY <1>11 DEF Lock, Unlock, Signal
<1>12. ASSUME NEW p \in Procs, Kill(p)
       PROVE  UNCHANGED produced /\ \A c \in Consumers : pc[c] = "write" => pc'[c] = "write"
  BY <1>12 DEF Kill
<1>13. ASSUME NEW p \in Producers, PStart(p) \/ PSetVal(p) \/ PLoop(p) \/ PRmid(p)
       PROVE  UNCHANGED produced /\ \A c \in Consumers : pc[c] = "write" => pc'[c] = "write"
  BY <1>13 DEF PStart, PSetVal, PLoop, PRmid
<1>14. ASSUME NEW c \in Consumers, CStart(c) \/ CLoop(c)
       PROVE  UNCHANGED produced /\ \A d \in Consumers : pc[d] = "write" => pc'[d] = "write"
  BY <1>14 DEF CStart, CLoop
<1>15. CASE UNCHANGED vars
  BY <1>10, <1>15, PassesKeptSteps DEF vars
<1> QED
  BY <1>6, <1>7, <1>8, <1>9, <1>10, <1>11, <1>12, <1>13, <1>14, <1>15,
     PassesKeptSteps, GuardedSteps DEF Next, Producer, Consumer, AF!Next

-----------------------------------------------------------------------------
(* Every line is printed once.                                               *)

\* Lines are numbered by the producer alone.
LEMMA IdsStep == TypeOK /\ IdsProduced /\ [Next]_vars => IdsProduced'
<1> SUFFICES ASSUME TypeOK, IdsProduced, [Next]_vars PROVE IdsProduced'
  OBVIOUS
<1>1. /\ buf \in [Consumers -> Seq(Lines)] /\ file \in Seq(Lines)
      /\ produced \in Nat
  BY DEF TypeOK
<1>2. ASSUME UNCHANGED <<file, produced, shown>>,
             \A c \in Consumers : buf'[c] = buf[c] \/ buf'[c] = <<>>
      PROVE  IdsProduced'
  <2>1. ASSUME NEW c \in Consumers, NEW i \in DOMAIN buf'[c] PROVE buf'[c][i].id <= produced'
    <3>1. CASE buf'[c] = buf[c]
      BY <1>2, <2>1, <3>1 DEF IdsProduced
    <3>2. CASE buf'[c] = <<>>
      BY <2>1, <3>2
    <3> QED
      BY <1>2, <3>1, <3>2
  <2> QED
    BY <1>2, <2>1 DEF IdsProduced
<1>3. ASSUME NEW p \in Producers, PAppend(p) PROVE IdsProduced'
  <2>1. CASE UNCHANGED file /\ UNCHANGED produced
    BY <1>2, <1>3, <2>1 DEF PAppend, seen
  <2>2. CASE file' = Append(file, NewLine(produced + 1)) /\ produced' = produced + 1
    <3>1. /\ DOMAIN file' = DOMAIN file \cup {Len(file) + 1}
          /\ \A i \in DOMAIN file : file'[i] = file[i]
          /\ file'[Len(file) + 1].id = produced + 1
      BY <1>1, <2>2, AppendType, NewLineType
    <3>2. \A i \in DOMAIN file : file[i].id \in Nat
      BY <1>1, LineNumbers
    <3>3. \A i \in DOMAIN file' : file'[i].id <= produced'
      BY <1>1, <2>2, <3>1, <3>2 DEF IdsProduced
    <3>4. UNCHANGED <<shown, buf>>
      BY <1>3 DEF PAppend, seen
    <3>5. \A c \in Consumers : \A i \in DOMAIN buf[c] : buf[c][i].id <= produced'
      <4>1. ASSUME NEW c \in Consumers, NEW i \in DOMAIN buf[c] PROVE buf[c][i].id \in Nat
        BY <1>1, LineNumbers
      <4> QED
        BY <1>1, <2>2, <4>1 DEF IdsProduced
    <3> QED
      BY <1>1, <2>2, <3>3, <3>4, <3>5 DEF IdsProduced
  <2> QED
    BY <1>3, <2>1, <2>2 DEF PAppend
<1>4. ASSUME NEW c \in Consumers, CRead(c) PROVE IdsProduced'
  <2>1. CASE UNCHANGED buf /\ UNCHANGED shown
    BY <1>2, <1>4, <2>1 DEF CRead
  <2>2. CASE /\ buf' = [buf EXCEPT ![c] = ReadAll(file)]
             /\ shown' = shown \cup Unmarked(ReadAll(file))
    <3>1. \A i \in DOMAIN ReadAll(file) : ReadAll(file)[i].id <= produced
      BY <1>1, ReadAllPrefix DEF IdsProduced
    <3>2. Unmarked(ReadAll(file)) \subseteq 1 .. produced
      <4>1. \A n \in Unmarked(ReadAll(file)) : n \in Nat \ {0} /\ n <= produced
        BY <1>1, <3>1, ReadAllPrefix, UnmarkedLines, LineNumbers
      <4> QED
        BY <1>1, <4>1
    <3>3. UNCHANGED <<file, produced>>
      BY <1>4 DEF CRead
    <3> QED
      BY <1>1, <2>2, <3>1, <3>2, <3>3 DEF IdsProduced
  <2> QED
    BY <1>1, <1>4, <2>1, <2>2 DEF CRead
<1>5. ASSUME NEW c \in Consumers, CTrunc(c) PROVE IdsProduced'
  <2>1. CASE UNCHANGED buf /\ file' = <<>>
    BY <1>5, <2>1 DEF CTrunc, IdsProduced, seen
  <2>2. CASE buf' = [buf EXCEPT ![c] = <<>>] /\ UNCHANGED file
    BY <1>1, <1>2, <1>5, <2>2 DEF CTrunc, seen
  <2> QED
    BY <1>5, <2>1, <2>2 DEF CTrunc
<1>6. ASSUME NEW c \in Consumers, CWrite(c) PROVE IdsProduced'
  <2> DEFINE w == Marked(buf[c])
  <2>1. /\ w \in Seq(Lines) /\ DOMAIN w = DOMAIN buf[c]
        /\ \A i \in DOMAIN w : w[i].id = buf[c][i].id
    BY <1>1, MarkedKeepsLines
  <2>2. file' = Overwrite(file, w)
    BY <1>6 DEF CWrite
  <2> HIDE DEF w
  <2>3. \A i \in DOMAIN w : w[i].id <= produced
    BY <2>1 DEF IdsProduced
  <2>4. \A i \in DOMAIN file' : file'[i].id <= produced
    BY <1>1, <2>1, <2>2, <2>3, OverwriteLines DEF IdsProduced
  <2>5. UNCHANGED <<shown, produced>> /\ buf' = [buf EXCEPT ![c] = <<>>]
    BY <1>6 DEF CWrite, seen
  <2>6. \A d \in Consumers : \A i \in DOMAIN buf'[d] : buf'[d][i].id <= produced
    BY <1>1, <2>5 DEF IdsProduced
  <2> QED
    BY <2>4, <2>5, <2>6 DEF IdsProduced
<1>7. ASSUME NEW p \in Procs, Lock(p) \/ Unlock(p) \/ Signal(p) \/ Interrupt(p) PROVE IdsProduced'
  BY <1>2, <1>7 DEF Lock, Unlock, Signal, Interrupt, seen
<1>8. ASSUME NEW p \in Procs, Kill(p) PROVE IdsProduced'
  <2>1. \A c \in Consumers : buf'[c] = buf[c] \/ buf'[c] = <<>>
    BY <1>1, <1>8 DEF Kill
  <2> QED
    BY <1>2, <1>8, <2>1 DEF Kill, seen
<1>9. ASSUME NEW p \in Producers, PStart(p) \/ PSetVal(p) \/ PLoop(p) \/ PRmid(p)
      PROVE  IdsProduced'
  <2>1. UNCHANGED <<buf, file, produced, seen>>
    BY <1>9 DEF PStart, PSetVal, PLoop, PRmid
  <2> QED
    BY <1>2, <2>1 DEF seen
<1>10. ASSUME NEW c \in Consumers, CStart(c) \/ CLoop(c) PROVE IdsProduced'
  BY <1>2, <1>10 DEF CStart, CLoop, seen
<1>11. CASE UNCHANGED vars
  BY <1>2, <1>11 DEF vars
<1> QED
  BY <1>3, <1>4, <1>5, <1>6, <1>7, <1>8, <1>9, <1>10, <1>11 DEF Next, Producer, Consumer, Procs

\* A pass prints what is unmarked, and leaves nothing unmarked that was printed.
LEMMA ShownStep ==
    ASSUME TypeOK, Roles, Exclusion, MarksKept, [Next]_vars, lapses' \subseteq {"CUT"}
    PROVE  ShownMarked'
<1>1. lapses \subseteq {"CUT"} /\ Guarded /\ Guarded'
  BY LapsesGrow DEF Guarded
<1>2. /\ again = {}
      /\ \A c \in Consumers : pc[c] = "write" => Len(file) = 0
      /\ ~MidPass => \A i \in DOMAIN file : file[i].id \in shown => file[i].done
      /\ shown \subseteq 1 .. produced
  BY <1>1 DEF MarksKept, ShownMarked, IdsProduced
<1>3. /\ pc \in [Procs -> PCs] /\ Producers \cap Consumers = {}
      /\ file \in Seq(Lines) /\ buf \in [Consumers -> Seq(Lines)] /\ produced \in Nat
  BY SemAssumption DEF TypeOK
<1>4. \A p, q \in Procs : InCS(p) /\ InCS(q) => p = q
  BY <1>1 DEF Exclusion
<1> USE DEF InCS, Procs, Goto
<1>5. ASSUME NEW p \in Producers, PAppend(p) PROVE ShownMarked'
  <2>1. \A c \in Consumers : pc[c] \notin {"trunc", "write"} /\ pc'[c] = pc[c]
    BY <1>3, <1>4, <1>5 DEF PAppend
  <2>2. again' = {} /\ shown' = shown
    BY <1>2, <1>5 DEF PAppend, seen
  <2>3. \A i \in DOMAIN file : file[i].id \in shown => file[i].done
    BY <1>2, <2>1 DEF MidPass
  <2>4. \A i \in DOMAIN file' : file'[i].id \in shown => file'[i].done
    <3>1. CASE file' = Append(file, NewLine(produced + 1))
      <4>1. /\ DOMAIN file' = DOMAIN file \cup {Len(file) + 1}
            /\ \A i \in DOMAIN file : file'[i] = file[i]
            /\ file'[Len(file) + 1].id = produced + 1
        BY <1>3, <3>1, AppendType, NewLineType
      <4>2. produced + 1 \notin shown
        BY <1>2, <1>3
      <4> QED
        BY <2>3, <4>1, <4>2
    <3>2. CASE UNCHANGED file
      BY <2>3, <3>2
    <3> QED
      BY <1>5, <3>1, <3>2 DEF PAppend
  <2> QED
    BY <2>1, <2>2, <2>4 DEF ShownMarked
<1>6. ASSUME NEW c \in Consumers, CRead(c) PROVE ShownMarked'
  <2>1. \A d \in Consumers : pc[d] \notin {"trunc", "write"} /\ pc'[d] # "write"
    BY <1>3, <1>4, <1>6 DEF CRead, AfterFailedOpen
  <2>2. \A i \in DOMAIN file : file[i].id \in shown => file[i].done
    BY <1>2, <2>1 DEF MidPass
  <2>3. CASE pc'[c] = "trunc"
    <3>1. MidPass'
      BY <2>3 DEF MidPass
    <3>2. again' = again \cup (shown \cap Unmarked(ReadAll(file)))
      BY <1>3, <1>6, <2>3 DEF CRead, AfterFailedOpen
    <3>3. \A n \in Unmarked(ReadAll(file)) : n \notin shown
      <4>1. \A n \in Unmarked(ReadAll(file)) :
               \E i \in DOMAIN ReadAll(file) : ReadAll(file)[i].id = n /\ ~ReadAll(file)[i].done
        BY <1>3, ReadAllPrefix, UnmarkedLines
      <4>2. /\ DOMAIN ReadAll(file) \subseteq DOMAIN file
            /\ \A i \in DOMAIN ReadAll(file) : ReadAll(file)[i] = file[i]
        BY <1>3, ReadAllPrefix
      <4> QED
        BY <2>2, <4>1, <4>2
    <3> QED
      BY <1>2, <2>1, <3>1, <3>2, <3>3 DEF ShownMarked
  <2>4. CASE pc'[c] = "unlock"
    <3>1. UNCHANGED <<file, shown, again>>
      BY <1>3, <1>6, <2>4 DEF CRead
    <3> QED
      BY <1>2, <2>1, <2>2, <3>1 DEF ShownMarked
  <2> QED
    BY <1>3, <1>6, <2>3, <2>4 DEF CRead, AfterFailedOpen
<1>7. ASSUME NEW c \in Consumers, CTrunc(c) PROVE ShownMarked'
  <2>1. file' = <<>> /\ pc' = [pc EXCEPT ![c] = "write"]
    BY <1>7 DEF CTrunc
  <2>2. Len(file') = 0
    BY <2>1
  <2>3. pc'[c] = "write" /\ UNCHANGED seen
    BY <1>3, <1>7, <2>1 DEF CTrunc
  <2> QED
    BY <1>2, <2>2, <2>3 DEF ShownMarked, MidPass, seen
<1>8. ASSUME NEW c \in Consumers, CWrite(c) PROVE ShownMarked'
  <2>1. file' = Marked(buf[c])
    BY <1>2, <1>3, <1>8, MarkedKeepsLines, OverwriteLines DEF CWrite
  <2>2. \A i \in DOMAIN file' : file'[i].done
    BY <1>3, <2>1, MarkedKeepsLines
  <2>3. \A d \in Consumers : pc'[d] # "write"
    BY <1>3, <1>4, <1>8 DEF CWrite
  <2> QED
    BY <1>2, <1>8, <2>2, <2>3 DEF CWrite, ShownMarked, seen
<1>9. ASSUME PassesKept, UNCHANGED seen,
             \A c \in Consumers : pc[c] \in {"trunc", "write"} => pc'[c] = pc[c]
      PROVE  ShownMarked'
  <2>1. MidPass' <=> MidPass
    BY <1>9 DEF MidPass, PassesKept
  <2>2. \A c \in Consumers : pc'[c] = "write" => Len(file') = 0
    BY <1>2, <1>9 DEF PassesKept
  <2> QED
    BY <1>2, <1>9, <2>1, <2>2 DEF ShownMarked, PassesKept, seen
<1>10. ASSUME NEW p \in Procs, Lock(p) \/ Unlock(p) \/ Signal(p) \/ Kill(p)
       PROVE  UNCHANGED seen /\ \A c \in Consumers : pc[c] \in {"trunc", "write"} => pc'[c] = pc[c]
  BY <1>3, <1>10 DEF Lock, Unlock, Signal, Kill
<1>11. ASSUME NEW p \in Producers, PStart(p) \/ PSetVal(p) \/ PLoop(p) \/ PRmid(p)
       PROVE  UNCHANGED seen /\ \A c \in Consumers : pc[c] \in {"trunc", "write"} => pc'[c] = pc[c]
  BY <1>3, <1>11 DEF PStart, PSetVal, PLoop, PRmid
<1>12. ASSUME NEW p \in Consumers, CStart(p) \/ CLoop(p)
       PROVE  UNCHANGED seen /\ \A c \in Consumers : pc[c] \in {"trunc", "write"} => pc'[c] = pc[c]
  BY <1>3, <1>12 DEF CStart, CLoop
<1>13. CASE UNCHANGED vars
  BY <1>9, <1>13, PassesKeptSteps DEF vars, seen
<1> QED
  BY <1>1, <1>5, <1>6, <1>7, <1>8, <1>9, <1>10, <1>11, <1>12, <1>13,
     PassesKeptSteps, GuardedSteps DEF Next, Producer, Consumer

-----------------------------------------------------------------------------
(* The theorems.                                                             *)

\* The four parts together are inductive.
LEMMA InvariantHolds == Spec => []IInv
<1>1. Init => IInv
  <2> SUFFICES ASSUME Init PROVE IInv
    OBVIOUS
  <2>1. TypeOK
    BY DEF Init, TypeOK, PCs, Lapse
  <2>2. Roles /\ Exclusion /\ Snapshot
    BY DEF Init, Roles, Exclusion, Snapshot, Running, InCS, Procs
  <2>3. MarksKept
    BY DEF Init, MarksKept, IdsProduced, ShownMarked
  <2> QED
    BY <2>1, <2>2, <2>3 DEF IInv
<1>2. IInv /\ [Next]_vars => IInv'
  BY TypeStep, RolesStep, ExclusionStep, SnapshotStep, IdsStep, ShownStep
     DEF IInv, MarksKept
<1> QED
  BY <1>1, <1>2, PTL DEF Spec

\* At any time at most one process is past the semaphore, whatever else happens, as
\* long as the three events that go past it do not.
THEOREM MutualExclusionHolds == Spec => []MutexWhileGuarded
<1>1. IInv => MutexWhileGuarded
  BY DEF IInv, Exclusion, MutexWhileGuarded, MutualExclusion
<1> QED
  BY <1>1, InvariantHolds, PTL

\* While the semaphore guards the file, and no pass dies or falls short, the two
\* programs change the file as AtomicFile does.
THEOREM AtomicWhileGuardedHolds == Spec => AtomicWhileGuarded
<1>1. IInv /\ [Next]_vars =>
          [Guarded' /\ lapses' \cap {"KILL", "CUT"} = {} => [AF!Next]_AF!vars]_vars
  BY AtomicStep DEF IInv
<1> QED
  BY <1>1, InvariantHolds, PTL DEF Spec, AtomicWhileGuarded

\* No line of the file is printed a second time, while no pass dies or loses its marks
\* and the semaphore guards the file, however often the programs are started.
THEOREM ShownOnceHolds == Spec => []ShownOnce
<1>1. IInv => ShownOnce
  BY DEF IInv, MarksKept, ShownMarked, ShownOnce
<1> QED
  BY <1>1, InvariantHolds, PTL
=============================================================================
