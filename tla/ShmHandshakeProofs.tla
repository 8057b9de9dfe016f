------------------------- MODULE ShmHandshakeProofs -------------------------
(***************************************************************************)
(* The handshake of Module3/10 and Module3/11, for any numbers of runs,    *)
(* sets and numbers.                                                       *)
(***************************************************************************)
EXTENDS ShmHandshake, TLAPS

Busy(r) == Running(Parent(r)) \/ Running(Child(r))

\* A run at work has attached a segment that exists.
Attached == \A r \in Runs : Busy(r) => shm[r] \in Segments /\ shm[r] <= made

\* The places a parent and a child can be at.
Places ==
    \A r \in Runs :
        /\ pc[Parent(r)] \notin {"poll", "scan", "result", "answer"}
        /\ pc[Child(r)] \in {"off", "poll", "scan", "result", "answer", "done"}

\* While no run is started into another, one run is at work, and in the segment that
\* the key names.
OneRun ==
    ~shared => \A r \in Runs : Busy(r) =>
        /\ shm[r] = key
        /\ \A q \in Runs : Busy(q) => q = r

\* What the place of each process of a run says about state.
Handover(r) ==
    /\ pc[Parent(r)] \in {"init", "fork", "remove"} => ~Running(Child(r))
    /\ pc[Parent(r)] \in {"fork", "wait0", "count", "fill", "publish"} => state[shm[r]] = 0
    /\ pc[Parent(r)] = "wait2" => state[shm[r]] \in {1, 2}
    /\ pc[Parent(r)] \in {"print", "ack"} => state[shm[r]] = 2
    /\ pc[Child(r)] \in {"scan", "result", "answer"} => state[shm[r]] = 1

\* processed counts the results of the run that has set it to 0.
Counted(r) ==
    /\ pc[Parent(r)] = "init" => printed[r] = 0
    /\ Running(Parent(r)) /\ pc[Parent(r)] # "init" => processed[shm[r]] = printed[r]

\* The first n numbers in memory are those that were listed.
SetListed(r, n) ==
    /\ Len(generated[r]) = n
    /\ \A j \in 1 .. n : generated[r][j] = numbers[shm[r]][j]

\* The set in memory is the set that was listed.
Listed(r) ==
    /\ pc[Parent(r)] = "fill" =>
          /\ count[shm[r]] >= 1 /\ i[Parent(r)] <= count[shm[r]] + 1
          /\ SetListed(r, i[Parent(r)] - 1)
    /\ pc[Parent(r)] \in {"publish", "wait2", "print"} =>
          count[shm[r]] >= 1 /\ SetListed(r, count[shm[r]])
    /\ Busy(r) /\ pc[Parent(r)] # "init" /\ state[shm[r]] = 1 => count[shm[r]] >= 1

\* v holds the minimum and maximum of the first n numbers in memory.
ResultsOf(v, r, n) == IsMinMax(v[1], v[2], numbers[shm[r]], n)

\* What the child has found so far, and what it has answered.
Searched(r) ==
    /\ pc[Child(r)] = "scan" =>
          i[Child(r)] <= count[shm[r]] + 1 /\ ResultsOf(best[r], r, i[Child(r)] - 1)
    /\ pc[Child(r)] \in {"result", "answer"} => ResultsOf(best[r], r, count[shm[r]])
    /\ pc[Child(r)] = "answer" => minmax[shm[r]] = best[r]
    /\ pc[Parent(r)] \in {"wait2", "print"} /\ state[shm[r]] = 2 =>
          ResultsOf(minmax[shm[r]], r, count[shm[r]])

Handshake ==
    ~shared => \A r \in Runs : Handover(r) /\ Counted(r) /\ Listed(r) /\ Searched(r)

IInv == TypeOK /\ Places /\ Attached /\ OneRun /\ Handshake /\ PrintedRight

-----------------------------------------------------------------------------
(* Processes and types.                                                      *)

LEMMA ProcFacts ==
    /\ \A r \in Runs : Parent(r) \in Procs /\ Child(r) \in Procs
    /\ \A r, q \in Runs : Parent(r) # Child(q)
    /\ \A r, q \in Runs : Parent(r) = Parent(q) => r = q
    /\ \A r, q \in Runs : Child(r) = Child(q) => r = q
    /\ \A p \in Procs : \E r \in Runs : p = Parent(r) \/ p = Child(r)
BY DEF Procs, Parent, Child

\* A step of a process of the run.
Own(r) == ParentStep(r) \/ ChildStep(r)

\* A signal, a death, or nothing.
Env == (\E p \in Procs : Signal(p) \/ Die(p)) \/ UNCHANGED vars

\* The processes and the segment of a run that is at work.
HasSegment(r) == Parent(r) \in Procs /\ Child(r) \in Procs /\ shm[r] \in Segments

LEMMA AtWork ==
    ASSUME Attached, NEW r \in Runs, ParentStep(r) \/ ChildStep(r)
    PROVE  HasSegment(r)
<1>1. Parent(r) \in Procs /\ Child(r) \in Procs
  BY DEF Procs, Parent, Child
<1>2. CASE ParentStep(r)
  <2>1. pc[Parent(r)] \notin {"off", "done"}
    BY <1>2 DEF ParentStep, Reset, Fork, AwaitFree, AwaitAnswer, Await, Count, Fill, Publish,
       PrintResult, Ack, Kill, Wait, Remove
  <2> QED
    BY <1>1, <2>1 DEF Attached, Busy, Running, HasSegment
<1>3. CASE ChildStep(r)
  <2>1. pc[Child(r)] \notin {"off", "done"}
    BY <1>3 DEF ChildStep, Poll, Scan, Result, Answer
  <2> QED
    BY <1>1, <2>1 DEF Attached, Busy, Running, HasSegment
<1> QED
  BY <1>2, <1>3

LEMMA TypeStep == TypeOK /\ Attached /\ [Next]_vars => TypeOK'
<1> SUFFICES ASSUME TypeOK, Attached, [Next]_vars PROVE TypeOK'
  OBVIOUS
<1> USE DEF TypeOK, Goto, memory, told, PCs, HasSegment
<1>1. ASSUME NEW r \in Runs, Open(r) PROVE TypeOK'
  <2>1. key' \in 0 .. made' /\ made' \in 0 .. starts' /\ made' >= made /\ starts' \in 0 .. MaxStarts
    BY <1>1, ShmAssumption DEF Open
  <2>2. shm' \in [Runs -> 0 .. made']
    BY <1>1, <2>1 DEF Open
  <2>3. shared' \in BOOLEAN
    BY <1>1 DEF Open
  <2> QED
    BY <1>1, <2>1, <2>2, <2>3 DEF Open
<1>2. ASSUME NEW r \in Runs, HasSegment(r), Reset(r) PROVE TypeOK'
  <2>1. state' \in [Segments -> 0 .. 2]
    BY <1>2 DEF Reset, Zeroed
  <2>2. processed' \in [Segments -> Nat]
    BY <1>2 DEF Reset, Zeroed
  <2>3. pc' \in [Procs -> PCs]
    BY <1>2 DEF Reset
  <2> QED
    BY <1>2, <2>1, <2>2, <2>3 DEF Reset
<1>3. ASSUME NEW r \in Runs, HasSegment(r), Fork(r) PROVE TypeOK'
  <2>1. pc' \in [Procs -> PCs]
    BY <1>3 DEF Fork
  <2>2. stop' \in [Procs -> BOOLEAN]
    <3>1. stop[Parent(r)] \in BOOLEAN
      BY ProcFacts
    <3> QED
      BY <1>3, <3>1 DEF Fork
  <2> QED
    BY <1>3, <2>1, <2>2 DEF Fork
<1>4. ASSUME NEW r \in Runs, HasSegment(r), Kill(r) PROVE TypeOK'
  BY <1>4 DEF Kill, StopSent
<1>5. ASSUME NEW r \in Runs, HasSegment(r), Wait(r) PROVE TypeOK'
  BY <1>5 DEF Wait
<1>6. ASSUME NEW r \in Runs, HasSegment(r), Remove(r) PROVE TypeOK'
  BY <1>6, ShmAssumption DEF Remove
<1>7. ASSUME NEW r \in Runs, HasSegment(r), AwaitFree(r) \/ AwaitAnswer(r) PROVE TypeOK'
  <2>1. pc' \in [Procs -> PCs]
    BY <1>7 DEF AwaitFree, AwaitAnswer, Await
  <2>2. UNCHANGED <<memory, key, made, shm, stop, i, best, told, starts, shared>>
    BY <1>7 DEF AwaitFree, AwaitAnswer, Await
  <2> QED
    BY <2>1, <2>2
<1>8. ASSUME NEW r \in Runs, HasSegment(r), Count(r) PROVE TypeOK'
  <2>1. PICK c \in 1 .. MaxCount : count' = [count EXCEPT ![shm[r]] = c]
    BY <1>8 DEF Count
  <2>2. c \in 0 .. MaxCount
    BY <2>1, ShmAssumption
  <2>3. count' \in [Segments -> 0 .. MaxCount]
    BY <2>1, <2>2
  <2>4. generated' \in [Runs -> Seq(Numbers)]
    <3>1. generated' = [generated EXCEPT ![r] = <<>>]
      BY <1>8 DEF Count
    <3>2. <<>> \in Seq(Numbers)
      OBVIOUS
    <3> QED
      BY <3>1, <3>2
  <2>5. i' \in [Procs -> Nat \ {0}] /\ pc' \in [Procs -> PCs]
    BY <1>8 DEF Count
  <2> QED
    BY <1>8, <2>3, <2>4, <2>5 DEF Count
<1>9. ASSUME NEW r \in Runs, HasSegment(r), Fill(r) PROVE TypeOK'
  <2>1. CASE UNCHANGED <<numbers, generated, i>> /\ Goto(Parent(r), "publish")
    BY <1>9, <2>1 DEF Fill
  <2>2. ASSUME NEW n \in Numbers,
               numbers' = [numbers EXCEPT ![shm[r]] = [@ EXCEPT ![i[Parent(r)]] = n]],
               generated' = [generated EXCEPT ![r] = Append(@, n)],
               i' = [i EXCEPT ![Parent(r)] = @ + 1], pc' = pc
        PROVE  TypeOK'
    <3>1. numbers' \in [Segments -> [1 .. MaxCount -> Numbers]]
      BY <2>2
    <3>2. generated' \in [Runs -> Seq(Numbers)]
      BY <2>2
    <3>3. i' \in [Procs -> Nat \ {0}]
      BY <2>2, ProcFacts
    <3> QED
      BY <1>9, <2>2, <3>1, <3>2, <3>3 DEF Fill
  <2> QED
    BY <1>9, <2>1, <2>2 DEF Fill
<1>10. ASSUME NEW r \in Runs, HasSegment(r), Publish(r) PROVE TypeOK'
  BY <1>10 DEF Publish
<1>11. ASSUME NEW r \in Runs, HasSegment(r), PrintResult(r) PROVE TypeOK'
  <2>1. wrong' \subseteq Runs
    BY <1>11 DEF PrintResult
  <2>2. printed' \in [Runs -> Nat] /\ processed' \in [Segments -> Nat]
    BY <1>11, SMTT(30) DEF PrintResult
  <2> QED
    BY <1>11, <2>1, <2>2 DEF PrintResult
<1>12. ASSUME NEW r \in Runs, HasSegment(r), Ack(r) PROVE TypeOK'
  BY <1>12, SMTT(30) DEF Ack
<1>13. ASSUME NEW r \in Runs, HasSegment(r), Poll(r) PROVE TypeOK'
  <2>1. CASE UNCHANGED <<best, i>>
    BY <1>13, <2>1 DEF Poll
  <2>2. CASE /\ best' = [best EXCEPT ![r] = <<numbers[shm[r]][1], numbers[shm[r]][1]>>]
             /\ i' = [i EXCEPT ![Child(r)] = 2]
    <3>1. numbers[shm[r]][1] \in Numbers
      BY <1>13, ShmAssumption DEF Poll, Attached, Busy, Running
    <3>2. best' \in [Runs -> Numbers \X Numbers] /\ i' \in [Procs -> Nat \ {0}]
      BY <1>13, <2>2, <3>1
    <3> QED
      BY <1>13, <3>2 DEF Poll
  <2> QED
    BY <1>13, <2>1, <2>2 DEF Poll
<1>14. ASSUME NEW r \in Runs, HasSegment(r), Scan(r) PROVE TypeOK'
  <2>1. CASE UNCHANGED <<best, i>> /\ Goto(Child(r), "result")
    BY <1>14, <2>1 DEF Scan
  <2> DEFINE n == numbers[shm[r]][i[Child(r)]]
  <2>2. CASE /\ i[Child(r)] <= count[shm[r]]
             /\ best' = [best EXCEPT ![r] = << IF n < @[1] THEN n ELSE @[1],
                                               IF n > @[2] THEN n ELSE @[2] >>]
             /\ i' = [i EXCEPT ![Child(r)] = @ + 1] /\ pc' = pc
    <3>1. n \in Numbers
      BY <1>14, <2>2, ProcFacts, ShmAssumption DEF Scan, Attached, Busy, Running
    <3>2. best[r][1] \in Numbers /\ best[r][2] \in Numbers
      OBVIOUS
    <3> HIDE DEF n
    <3>3. best' \in [Runs -> Numbers \X Numbers]
      BY <2>2, <3>1, <3>2
    <3>4. i' \in [Procs -> Nat \ {0}]
      BY <2>2, ProcFacts
    <3> QED
      BY <1>14, <2>2, <3>3, <3>4 DEF Scan
  <2> QED
    BY <1>14, <2>1, <2>2 DEF Scan, InSet
<1>15. ASSUME NEW r \in Runs, HasSegment(r), Result(r) PROVE TypeOK'
  BY <1>15 DEF Result
<1>16. ASSUME NEW r \in Runs, HasSegment(r), Answer(r) PROVE TypeOK'
  BY <1>16, SMTT(30) DEF Answer, AnswerState
<1>17. ASSUME NEW p \in Procs, Signal(p) PROVE TypeOK'
  BY <1>17 DEF Signal
<1>18. ASSUME NEW p \in Procs, Die(p) PROVE TypeOK'
  BY <1>18 DEF Die
<1>19. CASE UNCHANGED vars
  BY <1>19 DEF vars
<1> QED
  BY <1>1, <1>2, <1>3, <1>4, <1>5, <1>6, <1>7, <1>8, <1>9, <1>10, <1>11, <1>12, <1>13,
     <1>14, <1>15, <1>16, <1>17, <1>18, <1>19, AtWork DEF Next, ParentStep, ChildStep

LEMMA PlacesStep == TypeOK /\ Places /\ [Next]_vars => Places'
<1> SUFFICES ASSUME TypeOK, Places, [Next]_vars, NEW q \in Runs
             PROVE  /\ pc'[Parent(q)] \notin {"poll", "scan", "result", "answer"}
                    /\ pc'[Child(q)] \in {"off", "poll", "scan", "result", "answer", "done"}
  BY DEF Places
<1>0. pc \in [Procs -> PCs]
  BY DEF TypeOK
<1>1. /\ pc[Parent(q)] \notin {"poll", "scan", "result", "answer"}
      /\ pc[Child(q)] \in {"off", "poll", "scan", "result", "answer", "done"}
  BY DEF Places
<1>2. ASSUME NEW r \in Runs, NEW l, Goto(Parent(r), l),
             l \notin {"poll", "scan", "result", "answer"}
      PROVE  /\ pc'[Parent(q)] \notin {"poll", "scan", "result", "answer"}
             /\ pc'[Child(q)] \in {"off", "poll", "scan", "result", "answer", "done"}
  BY <1>0, <1>1, <1>2, ProcFacts DEF Goto
<1>3. ASSUME NEW r \in Runs, NEW l, Goto(Child(r), l),
             l \in {"poll", "scan", "result", "answer", "done"}
      PROVE  /\ pc'[Parent(q)] \notin {"poll", "scan", "result", "answer"}
             /\ pc'[Child(q)] \in {"off", "poll", "scan", "result", "answer", "done"}
  BY <1>0, <1>1, <1>3, ProcFacts DEF Goto
<1>4. CASE pc' = pc
  BY <1>1, <1>4
<1>5. ASSUME NEW r \in Runs, Fork(r)
      PROVE  /\ pc'[Parent(q)] \notin {"poll", "scan", "result", "answer"}
             /\ pc'[Child(q)] \in {"off", "poll", "scan", "result", "answer", "done"}
  <2>1. CASE pc' = [pc EXCEPT ![Parent(r)] = "wait0", ![Child(r)] = "poll"]
    BY <1>0, <1>1, <2>1, ProcFacts
  <2>2. CASE Goto(Parent(r), "done")
    BY <1>2, <2>2
  <2> QED
    BY <1>5, <2>1, <2>2 DEF Fork
<1>6. ASSUME NEW r \in Runs, Open(r) \/ (ParentStep(r) /\ ~Fork(r))
      PROVE  /\ pc'[Parent(q)] \notin {"poll", "scan", "result", "answer"}
             /\ pc'[Child(q)] \in {"off", "poll", "scan", "result", "answer", "done"}
  <2>1. \/ \E l \in PCs \ {"poll", "scan", "result", "answer"} : Goto(Parent(r), l)
        \/ pc' = pc
    BY <1>6 DEF Open, ParentStep, Reset, AwaitFree, AwaitAnswer, Await, Count, Fill, Publish,
       PrintResult, Ack, Kill, Wait, Remove, PCs
  <2> QED
    BY <1>2, <1>4, <2>1
<1>7. ASSUME NEW r \in Runs, ChildStep(r)
      PROVE  /\ pc'[Parent(q)] \notin {"poll", "scan", "result", "answer"}
             /\ pc'[Child(q)] \in {"off", "poll", "scan", "result", "answer", "done"}
  <2>1. \/ \E l \in {"poll", "scan", "result", "answer", "done"} : Goto(Child(r), l)
        \/ pc' = pc
    BY <1>7 DEF ChildStep, Poll, Scan, Result, Answer
  <2> QED
    BY <1>3, <1>4, <2>1
<1>8. ASSUME NEW p \in Procs, Signal(p) \/ Die(p)
      PROVE  /\ pc'[Parent(q)] \notin {"poll", "scan", "result", "answer"}
             /\ pc'[Child(q)] \in {"off", "poll", "scan", "result", "answer", "done"}
  <2>1. pc' = [pc EXCEPT ![p] = "done"] \/ pc' = pc
    BY <1>8 DEF Signal, Die, Goto
  <2>2. Parent(q) \in Procs /\ Child(q) \in Procs
    BY DEF Procs, Parent, Child
  <2> QED
    BY <1>0, <1>1, <2>1, <2>2
<1> QED
  BY <1>4, <1>5, <1>6, <1>7, <1>8 DEF Next, ParentStep, vars

-----------------------------------------------------------------------------
(* One run at a time.                                                        *)

\* Only Open makes a run busy, gives it a segment, or makes one.
LEMMA NoNewRun ==
    ASSUME TypeOK, Attached, [Next]_vars, ~\E r \in Runs : Open(r), NEW q \in Runs
    PROVE  /\ Busy(q)' => Busy(q)
           /\ shm' = shm /\ made' = made /\ shared' = shared
<1>0. pc \in [Procs -> PCs] /\ Parent(q) \in Procs /\ Child(q) \in Procs
  BY DEF TypeOK, Procs, Parent, Child
<1>1. ASSUME NEW p \in Procs, NEW l, Running(p), Goto(p, l)
      PROVE  Busy(q)' => Busy(q)
  <2>1. CASE p = Parent(q) \/ p = Child(q)
    BY <1>1, <2>1 DEF Busy
  <2>2. CASE p # Parent(q) /\ p # Child(q)
    <3>1. pc'[Parent(q)] = pc[Parent(q)] /\ pc'[Child(q)] = pc[Child(q)]
      BY <1>0, <1>1, <2>2 DEF Goto
    <3> QED
      BY <3>1 DEF Busy, Running
  <2> QED
    BY <2>1, <2>2
<1>2. ASSUME pc' = pc PROVE Busy(q)' => Busy(q)
  BY <1>2 DEF Busy, Running
<1>3. ASSUME NEW r \in Runs, Own(r)
      PROVE  /\ Busy(q)' => Busy(q)
             /\ shm' = shm /\ made' = made /\ shared' = shared
  <2>1. CASE Fork(r)
    <3>1. \/ Goto(Parent(r), "done")
          \/ pc' = [pc EXCEPT ![Parent(r)] = "wait0", ![Child(r)] = "poll"]
      BY <2>1 DEF Fork
    <3>2. Running(Parent(r)) /\ Parent(r) \in Procs /\ Child(r) \in Procs
      BY <2>1 DEF Fork, Running, Procs, Parent, Child
    <3>3. ASSUME pc' = [pc EXCEPT ![Parent(r)] = "wait0", ![Child(r)] = "poll"]
          PROVE  Busy(q)' => Busy(q)
      <4>1. CASE q = r
        BY <3>2, <4>1 DEF Busy
      <4>2. CASE q # r
        <5>1. Parent(q) \notin {Parent(r), Child(r)} /\ Child(q) \notin {Parent(r), Child(r)}
          BY <4>2, ProcFacts
        <5>2. pc'[Parent(q)] = pc[Parent(q)] /\ pc'[Child(q)] = pc[Child(q)]
          BY <1>0, <3>2, <3>3, <5>1
        <5> QED
          BY <5>2 DEF Busy, Running
      <4> QED
        BY <4>1, <4>2
    <3> QED
      BY <1>1, <2>1, <3>1, <3>2, <3>3 DEF Fork
  <2>2. CASE ParentStep(r) /\ ~Fork(r)
    <3>1. /\ Running(Parent(r)) /\ Parent(r) \in Procs
          /\ (\E l \in PCs : Goto(Parent(r), l)) \/ pc' = pc
      BY <2>2 DEF ParentStep, Reset, AwaitFree, AwaitAnswer, Await, Count, Fill, Publish,
         PrintResult, Ack, Kill, Wait, Remove, PCs, Running, Procs, Parent
    <3>2. shm' = shm /\ made' = made /\ shared' = shared
      BY <2>2 DEF ParentStep, Reset, AwaitFree, AwaitAnswer, Await, Count, Fill, Publish,
         PrintResult, Ack, Kill, Wait, Remove
    <3> QED
      BY <1>1, <1>2, <3>1, <3>2
  <2>3. CASE ChildStep(r)
    <3>1. /\ Running(Child(r)) /\ Child(r) \in Procs
          /\ (\E l \in PCs : Goto(Child(r), l)) \/ pc' = pc
      BY <2>3 DEF ChildStep, Poll, Scan, Result, Answer, PCs, Running, Procs, Child
    <3>2. shm' = shm /\ made' = made /\ shared' = shared
      BY <2>3 DEF ChildStep, Poll, Scan, Result, Answer
    <3> QED
      BY <1>1, <1>2, <3>1, <3>2
  <2> QED
    BY <1>3, <2>1, <2>2, <2>3 DEF Own
<1>4. ASSUME NEW p \in Procs, Signal(p) \/ Die(p)
      PROVE  /\ Busy(q)' => Busy(q)
             /\ shm' = shm /\ made' = made /\ shared' = shared
  BY <1>1, <1>2, <1>4 DEF Signal, Die
<1> QED
  BY <1>2, <1>3, <1>4 DEF Next, Own, vars

LEMMA AttachedStep == TypeOK /\ Attached /\ [Next]_vars => Attached'
<1> SUFFICES ASSUME TypeOK, Attached, [Next]_vars, NEW q \in Runs, Busy(q)'
             PROVE  shm'[q] \in Segments /\ shm'[q] <= made'
  BY DEF Attached
<1>1. ASSUME NEW r \in Runs, Open(r)
      PROVE  shm'[q] \in Segments /\ shm'[q] <= made'
  <2>1. key' \in 1 .. made' /\ made <= made' /\ made' <= MaxStarts /\ made' \in Nat
    BY <1>1, ShmAssumption DEF Open, TypeOK
  <2>2. shm' = [shm EXCEPT ![r] = key'] /\ shm \in [Runs -> 0 .. made]
    BY <1>1 DEF Open, TypeOK
  <2>3. CASE q = r
    BY <2>1, <2>2, <2>3, ShmAssumption DEF Segments
  <2>4. CASE q # r
    <3>1. Busy(q)
      <4>1. Parent(q) # Parent(r) /\ Child(q) # Parent(r)
        BY <2>4, ProcFacts
      <4>2. pc' = [pc EXCEPT ![Parent(r)] = "init"]
        BY <1>1 DEF Open, Goto
      <4>3. pc \in [Procs -> PCs] /\ Parent(q) \in Procs /\ Child(q) \in Procs
        BY DEF TypeOK, Procs, Parent, Child
      <4> QED
        BY <4>1, <4>2, <4>3 DEF Busy, Running
    <3>2. shm[q] \in Segments /\ shm[q] <= made
      BY <3>1 DEF Attached
    <3> QED
      BY <2>1, <2>2, <2>4, <3>2 DEF Segments, TypeOK
  <2> QED
    BY <2>3, <2>4
<1>2. CASE ~\E r \in Runs : Open(r)
  BY <1>2, NoNewRun DEF Attached
<1> QED
  BY <1>1, <1>2

\* Open leaves the processes of other runs where they are.
LEMMA OpenOther ==
    ASSUME TypeOK, NEW r \in Runs, NEW q \in Runs, Open(r), q # r
    PROVE  Busy(q)' <=> Busy(q)
<1>1. Parent(q) # Parent(r) /\ Child(q) # Parent(r)
  BY ProcFacts
<1>2. pc' = [pc EXCEPT ![Parent(r)] = "init"]
  BY DEF Open, Goto
<1>3. pc \in [Procs -> PCs] /\ Parent(q) \in Procs /\ Child(q) \in Procs
  BY DEF TypeOK, Procs, Parent, Child
<1> QED
  BY <1>1, <1>2, <1>3 DEF Busy, Running

\* As long as nothing is shared, a busy run is disturbed by nobody else.
LEMMA Alone ==
    ASSUME TypeOK, Attached, OneRun, [Next]_vars, ~shared', NEW q \in Runs, Busy(q)'
    PROVE  ~shared /\ (Open(q) \/ Own(q) \/ Env)
<1>1. ASSUME NEW r \in Runs, Open(r)
      PROVE  ~shared /\ Open(q)
  <2>1. ~shared /\ \A p \in Procs : ~Running(p)
    BY <1>1 DEF Open
  <2>2. ~Busy(q)
    BY <2>1 DEF Busy, Procs, Parent, Child
  <2> QED
    BY <1>1, <2>1, <2>2, OpenOther
<1>2. ASSUME NEW r \in Runs, Own(r), ~\E s \in Runs : Open(s)
      PROVE  ~shared /\ Own(q)
  <2>1. ~shared /\ Busy(q)
    BY <1>2, NoNewRun
  <2>2. Busy(r)
    BY <1>2 DEF Busy, Running, Own, ParentStep, Reset, Fork, AwaitFree, AwaitAnswer, Await,
       Count, Fill, Publish, PrintResult, Ack, Kill, Wait, Remove, ChildStep, Poll, Scan,
       Result, Answer
  <2>3. q = r
    BY <2>1, <2>2 DEF OneRun
  <2> QED
    BY <1>2, <2>1, <2>3
<1>3. ASSUME Env
      PROVE  ~shared
  BY <1>3 DEF Env, Signal, Die, vars
<1> QED
  BY <1>1, <1>2, <1>3 DEF Next, Own, Env

\* What the environment leaves as it is.
LEMMA EnvStep ==
    ASSUME TypeOK, Env, NEW q \in Runs
    PROVE  /\ state' = state /\ count' = count /\ numbers' = numbers /\ minmax' = minmax
           /\ processed' = processed /\ shm' = shm /\ i' = i /\ best' = best
           /\ generated' = generated /\ printed' = printed /\ wrong' = wrong
           /\ key' = key /\ shared' = shared
           /\ pc'[Parent(q)] \in {pc[Parent(q)], "done"}
           /\ pc'[Child(q)] \in {pc[Child(q)], "done"}
<1>1. pc \in [Procs -> PCs] /\ Parent(q) \in Procs /\ Child(q) \in Procs
  BY DEF TypeOK, Procs, Parent, Child
<1>2. pc' = pc \/ \E p \in Procs : pc' = [pc EXCEPT ![p] = "done"]
  BY DEF Env, Signal, Die, Goto, vars
<1>3. /\ pc'[Parent(q)] \in {pc[Parent(q)], "done"}
      /\ pc'[Child(q)] \in {pc[Child(q)], "done"}
  BY <1>1, <1>2
<1> QED
  BY <1>3 DEF Env, Signal, Die, vars, memory, told

-----------------------------------------------------------------------------
(* The handover of the memory.                                               *)

\* Where a step of one process leaves the two of its run.
LEMMA GotoStep ==
    ASSUME TypeOK, NEW r \in Runs, HasSegment(r), NEW l
    PROVE  /\ Goto(Parent(r), l) => pc'[Parent(r)] = l /\ pc'[Child(r)] = pc[Child(r)]
           /\ Goto(Child(r), l) => pc'[Child(r)] = l /\ pc'[Parent(r)] = pc[Parent(r)]
<1>1. pc \in [Procs -> PCs] /\ Parent(r) # Child(r)
  BY DEF TypeOK, Parent, Child
<1> QED
  BY <1>1 DEF Goto, HasSegment

LEMMA HandoverStep ==
    ASSUME TypeOK, Places, NEW r \in Runs, HasSegment(r), Handover(r), Own(r)
    PROVE  Handover(r)'
<1>1. state \in [Segments -> 0 .. 2] /\ shm[r] \in Segments
  BY DEF TypeOK, HasSegment
<1>2. /\ pc[Parent(r)] \notin {"poll", "scan", "result", "answer"}
      /\ pc[Child(r)] \in {"off", "poll", "scan", "result", "answer", "done"}
  BY DEF Places
<1>3. CASE Reset(r)
  BY <1>1, <1>2, <1>3, GotoStep DEF Reset, Zeroed, Handover, Running
<1>4. CASE Fork(r)
  <2>1. CASE pc' = [pc EXCEPT ![Parent(r)] = "wait0", ![Child(r)] = "poll"]
    <3>1. pc \in [Procs -> PCs] /\ Parent(r) # Child(r)
      BY DEF TypeOK, Parent, Child
    <3>2. pc'[Parent(r)] = "wait0" /\ pc'[Child(r)] = "poll"
      BY <2>1, <3>1 DEF HasSegment
    <3> QED
      BY <1>4, <3>2 DEF Fork, Handover, Running, memory
  <2>2. CASE Goto(Parent(r), "done")
    BY <1>4, <2>2, GotoStep DEF Fork, Handover, Running, memory
  <2> QED
    BY <1>4, <2>1, <2>2 DEF Fork
<1>5. CASE AwaitFree(r) \/ AwaitAnswer(r)
  BY <1>5, GotoStep DEF AwaitFree, AwaitAnswer, Await, AnswerReady, Handover, Running, memory
<1>6. CASE Count(r)
  BY <1>6, GotoStep DEF Count, Handover, Running
<1>7. CASE Fill(r)
  BY <1>7, GotoStep DEF Fill, Handover, Running
<1>8. CASE Publish(r)
  BY <1>1, <1>8, GotoStep DEF Publish, Handover, Running
<1>9. CASE PrintResult(r)
  BY <1>9, GotoStep DEF PrintResult, Handover, Running
<1>10. CASE Ack(r)
  BY <1>1, <1>10, GotoStep DEF Ack, Handover, Running
<1>11. CASE Kill(r) \/ Wait(r) \/ Remove(r)
  BY <1>11, GotoStep DEF Kill, Wait, Remove, Handover, Running, memory
<1>12. CASE Poll(r)
  BY <1>1, <1>12, GotoStep DEF Poll, Handover, Running, memory
<1>13. CASE Scan(r)
  BY <1>13, GotoStep DEF Scan, Handover, Running, memory
<1>14. CASE Result(r)
  BY <1>14, GotoStep DEF Result, Handover, Running
<1>15. CASE Answer(r)
  BY <1>1, <1>15, GotoStep DEF Answer, AnswerState, Handover, Running
<1> QED
  BY <1>3, <1>4, <1>5, <1>6, <1>7, <1>8, <1>9, <1>10, <1>11, <1>12, <1>13, <1>14, <1>15
     DEF Own, ParentStep, ChildStep

LEMMA CountedStep ==
    ASSUME TypeOK, Places, NEW r \in Runs, HasSegment(r), Counted(r), Own(r)
    PROVE  Counted(r)'
<1>1. /\ processed \in [Segments -> Nat] /\ printed \in [Runs -> Nat]
      /\ shm[r] \in Segments
  BY DEF TypeOK, HasSegment
<1>3. CASE Reset(r)
  BY <1>1, <1>3, GotoStep DEF Reset, Zeroed, Counted, Running, told
<1>4. CASE Fork(r)
  <2>1. /\ pc[Parent(r)] = "fork" /\ pc'[Parent(r)] \in {"wait0", "done"}
        /\ processed' = processed /\ printed' = printed /\ shm' = shm
    <3>1. pc \in [Procs -> PCs] /\ Parent(r) # Child(r)
      BY DEF TypeOK, Parent, Child
    <3> QED
      BY <1>4, <3>1 DEF Fork, Goto, HasSegment, memory, told
  <2> QED
    BY <2>1 DEF Counted, Running
<1>5. CASE AwaitFree(r) \/ AwaitAnswer(r)
  BY <1>5, GotoStep DEF AwaitFree, AwaitAnswer, Await, Counted, Running, memory, told
<1>6. CASE Count(r) \/ Fill(r)
  BY <1>6, GotoStep DEF Count, Fill, Counted, Running
<1>7. CASE Publish(r) \/ Ack(r)
  BY <1>7, GotoStep DEF Publish, Ack, Counted, Running, told
<1>8. CASE PrintResult(r)
  BY <1>1, <1>8, GotoStep DEF PrintResult, Counted, Running
<1>9. CASE Kill(r) \/ Wait(r) \/ Remove(r)
  BY <1>9, GotoStep DEF Kill, Wait, Remove, Counted, Running, memory, told
<1>10. CASE ChildStep(r)
  <2>1. /\ pc'[Parent(r)] = pc[Parent(r)]
        /\ processed' = processed /\ printed' = printed /\ shm' = shm
    BY <1>10, GotoStep DEF ChildStep, Poll, Scan, Result, Answer, memory, told
  <2> QED
    BY <2>1 DEF Counted, Running
<1> QED
  BY <1>3, <1>4, <1>5, <1>6, <1>7, <1>8, <1>9, <1>10 DEF Own, ParentStep

-----------------------------------------------------------------------------
(* Sets and their results.                                                   *)

LEMMA MinMaxOne ==
    ASSUME NEW s, s[1] \in Int
    PROVE  IsMinMax(s[1], s[1], s, 1)
BY DEF IsMinMax

LEMMA MinMaxMore ==
    ASSUME NEW n \in Nat, NEW s, \A j \in 1 .. n + 1 : s[j] \in Int,
           NEW v \in Int, NEW w \in Int, IsMinMax(v, w, s, n)
    PROVE  IsMinMax(IF s[n + 1] < v THEN s[n + 1] ELSE v,
                    IF s[n + 1] > w THEN s[n + 1] ELSE w, s, n + 1)
<1> DEFINE x == s[n + 1]
           a == IF x < v THEN x ELSE v
           b == IF x > w THEN x ELSE w
<1>1. x \in Int /\ a \in Int /\ b \in Int
  OBVIOUS
<1>2. \E j \in 1 .. n + 1 : s[j] = a
  BY DEF IsMinMax
<1>3. \E j \in 1 .. n + 1 : s[j] = b
  BY DEF IsMinMax
<1>4. ASSUME NEW j \in 1 .. n + 1 PROVE a <= s[j] /\ s[j] <= b
  <2>1. CASE j = n + 1
    BY <1>1, <2>1
  <2>2. CASE j \in 1 .. n
    BY <1>1, <2>2 DEF IsMinMax
  <2> QED
    BY <2>1, <2>2
<1> QED
  BY <1>2, <1>3, <1>4 DEF IsMinMax

LEMMA MinMaxSame ==
    ASSUME NEW n \in Nat, NEW s, NEW t, \A j \in 1 .. n : s[j] = t[j], NEW v, NEW w,
           IsMinMax(v, w, s, n)
    PROVE  IsMinMax(v, w, t, n)
BY DEF IsMinMax

\* One turn of the loop of Fill adds the same number to both lists.
LEMMA FillTurn ==
    ASSUME TypeOK, NEW r \in Runs, HasSegment(r), Listed(r), NEW n \in Numbers,
           pc[Parent(r)] = "fill", i[Parent(r)] <= count[shm[r]],
           numbers' = [numbers EXCEPT ![shm[r]] = [@ EXCEPT ![i[Parent(r)]] = n]],
           generated' = [generated EXCEPT ![r] = Append(@, n)], shm' = shm
    PROVE  /\ Len(generated'[r]) = i[Parent(r)]
           /\ \A j \in 1 .. i[Parent(r)] : generated'[r][j] = numbers'[shm'[r]][j]
<1> DEFINE k == i[Parent(r)]
           g == generated[r]
           m == numbers[shm[r]]
<1>1. k \in 1 .. MaxCount
  <2>1. k \in Nat \ {0} /\ count[shm[r]] \in 0 .. MaxCount
    BY DEF TypeOK, HasSegment
  <2> QED
    BY <2>1, ShmAssumption
<1>2. g \in Seq(Numbers) /\ m \in [1 .. MaxCount -> Numbers]
  BY DEF TypeOK, HasSegment
<1>3. Len(g) = k - 1 /\ \A j \in 1 .. k - 1 : g[j] = m[j]
  BY DEF Listed, SetListed
<1>4. generated'[r] = Append(g, n)
  BY DEF TypeOK
<1>5. numbers'[shm'[r]] = [m EXCEPT ![k] = n]
  BY DEF TypeOK, HasSegment
<1> HIDE DEF k, g, m
<1>6. Len(Append(g, n)) = k /\ \A j \in 1 .. k : Append(g, n)[j] = IF j = k THEN n ELSE g[j]
  BY <1>1, <1>2, <1>3, ShmAssumption
<1>7. ASSUME NEW j \in 1 .. k PROVE Append(g, n)[j] = [m EXCEPT ![k] = n][j]
  <2>1. CASE j = k
    BY <1>1, <1>2, <1>6, <2>1
  <2>2. CASE j # k
    BY <1>1, <1>2, <1>3, <1>6, <2>2, ShmAssumption
  <2> QED
    BY <2>1, <2>2
<1>8. Len(generated'[r]) = k /\ \A j \in 1 .. k : generated'[r][j] = numbers'[shm'[r]][j]
  BY <1>4, <1>5, <1>6, <1>7
<1> QED
  BY <1>8 DEF k

LEMMA ListedStep ==
    ASSUME TypeOK, Places, NEW r \in Runs, HasSegment(r), Handover(r), Listed(r), Own(r)
    PROVE  Listed(r)'
<1>1. /\ state \in [Segments -> 0 .. 2] /\ count \in [Segments -> 0 .. MaxCount]
      /\ i \in [Procs -> Nat \ {0}] /\ generated \in [Runs -> Seq(Numbers)]
      /\ shm[r] \in Segments /\ Parent(r) \in Procs
  BY DEF TypeOK, HasSegment
<1>2. /\ pc[Parent(r)] \notin {"poll", "scan", "result", "answer"}
      /\ pc[Child(r)] \in {"off", "poll", "scan", "result", "answer", "done"}
  BY DEF Places
<1>3. CASE Reset(r)
  BY <1>1, <1>3, GotoStep DEF Reset, Zeroed, Listed
<1>4. CASE Fork(r)
  <2>1. pc'[Parent(r)] \in {"wait0", "done"}
    <3>1. pc \in [Procs -> PCs] /\ Parent(r) # Child(r)
      BY DEF TypeOK, Parent, Child
    <3> QED
      BY <1>4, <3>1 DEF Fork, Goto, HasSegment
  <2>2. state'[shm'[r]] = 0
    BY <1>4 DEF Fork, Handover, memory
  <2> QED
    BY <2>1, <2>2 DEF Listed
<1>5. CASE AwaitFree(r) \/ AwaitAnswer(r)
  <2>1. /\ pc[Parent(r)] = "wait0" => pc'[Parent(r)] \in {"count", "kill"}
        /\ pc[Parent(r)] = "wait2" => pc'[Parent(r)] \in {"print", "kill"}
        /\ pc[Parent(r)] \in {"wait0", "wait2"}
    BY <1>5, GotoStep DEF AwaitFree, AwaitAnswer, Await
  <2>2. /\ state' = state /\ count' = count /\ numbers' = numbers /\ i' = i
        /\ generated' = generated /\ shm' = shm
    BY <1>5 DEF AwaitFree, AwaitAnswer, Await, memory, told
  <2> QED
    BY <2>1, <2>2 DEF Listed, SetListed, Busy, Running
<1>6. CASE Count(r)
  <2>1. pc'[Parent(r)] = "fill" /\ shm' = shm /\ state'[shm[r]] = 0
    BY <1>6, GotoStep DEF Count, Handover
  <2>2. count'[shm[r]] \in Nat /\ count'[shm[r]] >= 1 /\ i'[Parent(r)] = 1
    BY <1>1, <1>6, ShmAssumption DEF Count
  <2>3. Len(generated'[r]) = 0
    BY <1>1, <1>6 DEF Count
  <2>4. SetListed(r, i[Parent(r)] - 1)'
    <3>1. i'[Parent(r)] - 1 = 0
      BY <2>2
    <3> QED
      BY <2>3, <3>1 DEF SetListed
  <2> QED
    BY <2>1, <2>2, <2>4 DEF Listed
<1>7. CASE Fill(r)
  <2>1. state'[shm'[r]] = 0 /\ shm' = shm /\ count' = count /\ pc[Parent(r)] = "fill"
    BY <1>7 DEF Fill, Handover
  <2>2. i[Parent(r)] \in Nat /\ count[shm[r]] \in Nat
    BY <1>1, ShmAssumption
  <2>3. CASE i[Parent(r)] > count[shm[r]]
    <3>1. /\ numbers' = numbers /\ generated' = generated /\ i' = i
          /\ pc'[Parent(r)] = "publish"
      BY <1>7, <2>2, <2>3, GotoStep DEF Fill
    <3>2. i[Parent(r)] - 1 = count[shm[r]] /\ count[shm[r]] >= 1
      BY <1>1, <2>1, <2>3 DEF Listed
    <3> QED
      BY <2>1, <3>1, <3>2 DEF Listed, SetListed
  <2>4. CASE i[Parent(r)] <= count[shm[r]]
    <3>1. ~(i[Parent(r)] > count[shm[r]])
      BY <2>4, <2>2
    <3>2. PICK n \in Numbers :
             /\ numbers' = [numbers EXCEPT ![shm[r]] = [@ EXCEPT ![i[Parent(r)]] = n]]
             /\ generated' = [generated EXCEPT ![r] = Append(@, n)]
             /\ i' = [i EXCEPT ![Parent(r)] = @ + 1] /\ pc' = pc
      BY <1>7, <3>1, Zenon DEF Fill
    <3>3. /\ Len(generated'[r]) = i[Parent(r)]
          /\ \A j \in 1 .. i[Parent(r)] : generated'[r][j] = numbers'[shm'[r]][j]
      BY <2>1, <2>4, <3>2, FillTurn
    <3>4. i'[Parent(r)] = i[Parent(r)] + 1
      BY <1>1, <3>2
    <3>5. SetListed(r, i[Parent(r)] - 1)'
      <4>1. i'[Parent(r)] - 1 = i[Parent(r)]
        BY <2>2, <3>4
      <4> QED
        BY <3>3, <4>1 DEF SetListed
    <3>6. pc'[Parent(r)] = "fill"
      BY <2>1, <3>2
    <3>7. count[shm[r]] >= 1 /\ i'[Parent(r)] <= count[shm[r]] + 1
      BY <2>1, <2>2, <2>4, <3>4 DEF Listed
    <3> QED
      BY <2>1, <3>5, <3>6, <3>7 DEF Listed
  <2> QED
    BY <2>2, <2>3, <2>4
<1>8. CASE Publish(r)
  BY <1>8, GotoStep DEF Publish, Listed, SetListed, told
<1>9. CASE PrintResult(r)
  BY <1>9, GotoStep DEF PrintResult, Listed, Busy, Running
<1>10. CASE Ack(r)
  BY <1>1, <1>10, GotoStep DEF Ack, Listed
<1>11. CASE Kill(r) \/ Wait(r) \/ Remove(r)
  BY <1>11, GotoStep DEF Kill, Wait, Remove, Listed, Busy, Running, memory
<1>12. CASE ChildStep(r)
  <2>1. /\ pc'[Parent(r)] = pc[Parent(r)] /\ shm' = shm /\ count' = count
        /\ numbers' = numbers /\ generated' = generated /\ Busy(r)
    BY <1>12, GotoStep DEF ChildStep, Poll, Scan, Result, Answer, memory, told, Busy, Running
  <2>2. i'[Parent(r)] = i[Parent(r)]
    <3>1. Parent(r) # Child(r)
      BY DEF Parent, Child
    <3> QED
      BY <1>1, <1>12, <3>1 DEF ChildStep, Poll, Scan, Result, Answer
  <2>3. state'[shm[r]] = 1 => state[shm[r]] = 1
    BY <1>1, <1>12 DEF ChildStep, Poll, Scan, Result, Answer, AnswerState, memory
  <2> QED
    BY <2>1, <2>2, <2>3 DEF Listed, SetListed
<1> QED
  BY <1>3, <1>4, <1>5, <1>6, <1>7, <1>8, <1>9, <1>10, <1>11, <1>12 DEF Own, ParentStep

\* One turn of the loop of Scan extends the search by one number.
LEMMA ScanTurn ==
    ASSUME TypeOK, NEW r \in Runs, HasSegment(r), Searched(r), pc[Child(r)] = "scan",
           i[Child(r)] <= count[shm[r]],
           best' = [best EXCEPT ![r] =
               << IF numbers[shm[r]][i[Child(r)]] < @[1] THEN numbers[shm[r]][i[Child(r)]]
                  ELSE @[1],
                  IF numbers[shm[r]][i[Child(r)]] > @[2] THEN numbers[shm[r]][i[Child(r)]]
                  ELSE @[2] >>]
    PROVE  IsMinMax(best'[r][1], best'[r][2], numbers[shm[r]], i[Child(r)])
<1> DEFINE k == i[Child(r)]
           m == numbers[shm[r]]
           v == best[r][1]
           w == best[r][2]
<1>1. k \in Nat \ {0} /\ k <= MaxCount /\ MaxCount \in Nat
  <2>1. k \in Nat \ {0} /\ count[shm[r]] \in 0 .. MaxCount /\ k <= count[shm[r]]
    BY DEF TypeOK, HasSegment
  <2>2. MaxCount \in Nat
    BY ShmAssumption
  <2> HIDE DEF k
  <2> QED
    BY <2>1, <2>2
<1>2. m \in [1 .. MaxCount -> Numbers] /\ v \in Numbers /\ w \in Numbers
  BY DEF TypeOK, HasSegment
<1>3. IsMinMax(v, w, m, k - 1)
  BY DEF Searched, ResultsOf
<1>4. /\ best'[r][1] = IF m[k] < v THEN m[k] ELSE v
      /\ best'[r][2] = IF m[k] > w THEN m[k] ELSE w
  BY DEF TypeOK
<1> HIDE DEF k, m, v, w
<1>5. IsMinMax(best'[r][1], best'[r][2], m, k)
  <2>1. k - 1 \in Nat /\ (k - 1) + 1 = k
    BY <1>1
  <2>0. Numbers \subseteq Int
    BY ShmAssumption
  <2>2. \A j \in 1 .. k : m[j] \in Int
    <3>1. 1 .. k \subseteq 1 .. MaxCount
      BY <1>1
    <3> QED
      BY <1>2, <2>0, <3>1
  <2>3. v \in Int /\ w \in Int
    BY <1>2, <2>0
  <2>4. IsMinMax(IF m[(k - 1) + 1] < v THEN m[(k - 1) + 1] ELSE v,
                 IF m[(k - 1) + 1] > w THEN m[(k - 1) + 1] ELSE w, m, (k - 1) + 1)
    BY <2>1, <2>2, <2>3, <1>3, MinMaxMore
  <2> QED
    BY <2>1, <2>4, <1>4
<1> QED
  BY <1>5 DEF k, m

LEMMA SearchedStep ==
    ASSUME TypeOK, Places, NEW r \in Runs, HasSegment(r), Handover(r), Listed(r),
           Searched(r), Own(r)
    PROVE  Searched(r)'
<1>1. /\ state \in [Segments -> 0 .. 2] /\ count \in [Segments -> 0 .. MaxCount]
      /\ minmax \in [Segments -> Numbers \X Numbers]
      /\ numbers \in [Segments -> [1 .. MaxCount -> Numbers]]
      /\ best \in [Runs -> Numbers \X Numbers] /\ i \in [Procs -> Nat \ {0}]
      /\ shm[r] \in Segments /\ Parent(r) \in Procs /\ Child(r) \in Procs
  BY DEF TypeOK, HasSegment
<1>2. Parent(r) # Child(r)
  BY DEF Parent, Child
<1>3. /\ pc[Parent(r)] \notin {"poll", "scan", "result", "answer"}
      /\ pc[Child(r)] \in {"off", "poll", "scan", "result", "answer", "done"}
  BY DEF Places
<1>4. CASE Reset(r)
  BY <1>3, <1>4, GotoStep DEF Reset, Handover, Running, Searched
<1>5. CASE Fork(r)
  <2>1. /\ pc'[Parent(r)] \in {"wait0", "done"}
        /\ pc'[Child(r)] \in {pc[Child(r)], "poll"} /\ ~Running(Child(r))
    <3>1. pc \in [Procs -> PCs]
      BY DEF TypeOK
    <3>2. ~Running(Child(r))
      BY <1>5 DEF Fork, Handover
    <3> QED
      BY <1>1, <1>2, <1>5, <3>1, <3>2 DEF Fork, Goto
  <2> QED
    BY <1>3, <2>1 DEF Searched, Running
<1>6. CASE AwaitFree(r) \/ AwaitAnswer(r)
  <2>1. /\ pc[Parent(r)] = "wait0" => pc'[Parent(r)] \in {"count", "kill"}
        /\ pc[Parent(r)] \in {"wait0", "wait2"} /\ pc'[Child(r)] = pc[Child(r)]
    BY <1>6, GotoStep DEF AwaitFree, AwaitAnswer, Await
  <2>2. /\ state' = state /\ count' = count /\ numbers' = numbers /\ i' = i
        /\ best' = best /\ minmax' = minmax /\ shm' = shm
    BY <1>6 DEF AwaitFree, AwaitAnswer, Await, memory, told
  <2> QED
    BY <2>1, <2>2 DEF Searched, ResultsOf
<1>7. CASE Count(r) \/ Fill(r)
  <2>1. pc'[Child(r)] = pc[Child(r)] /\ pc[Child(r)] \notin {"scan", "result", "answer"}
    BY <1>1, <1>7, GotoStep DEF Count, Fill, Handover
  <2>2. pc'[Parent(r)] \in {"fill", "publish"}
    BY <1>1, <1>7, GotoStep DEF Count, Fill
  <2> QED
    BY <2>1, <2>2 DEF Searched
<1>8. CASE Publish(r)
  <2>1. pc'[Child(r)] = pc[Child(r)] /\ pc[Child(r)] \notin {"scan", "result", "answer"}
    BY <1>1, <1>8, GotoStep DEF Publish, Handover
  <2>2. state'[shm'[r]] = 1
    BY <1>1, <1>8 DEF Publish
  <2> QED
    BY <2>1, <2>2 DEF Searched
<1>9. CASE PrintResult(r) \/ Ack(r)
  <2>1. pc'[Child(r)] = pc[Child(r)] /\ pc[Child(r)] \notin {"scan", "result", "answer"}
    BY <1>1, <1>9, GotoStep DEF PrintResult, Ack, Handover
  <2>2. pc'[Parent(r)] \in {"ack", "wait0"}
    BY <1>1, <1>9, GotoStep DEF PrintResult, Ack
  <2> QED
    BY <2>1, <2>2 DEF Searched
<1>10. CASE Kill(r) \/ Wait(r) \/ Remove(r)
  <2>1. /\ pc'[Parent(r)] \in {"wait", "remove", "done"} /\ pc'[Child(r)] = pc[Child(r)]
        /\ state' = state /\ count' = count /\ numbers' = numbers /\ i' = i
        /\ best' = best /\ minmax' = minmax /\ shm' = shm
    BY <1>10, GotoStep DEF Kill, Wait, Remove, memory
  <2> QED
    BY <2>1 DEF Searched, ResultsOf
<1>11. CASE Poll(r)
  <2>1. pc'[Parent(r)] = pc[Parent(r)] /\ pc'[Child(r)] \in {"scan", "done"}
    BY <1>11, GotoStep DEF Poll
  <2>2. /\ state' = state /\ count' = count /\ numbers' = numbers
        /\ minmax' = minmax /\ shm' = shm
    BY <1>11 DEF Poll, memory
  <2>3. pc'[Child(r)] = "scan" =>
           i'[Child(r)] = 2 /\ count[shm[r]] >= 1
           /\ best'[r] = <<numbers[shm[r]][1], numbers[shm[r]][1]>>
    <3>1. CASE Goto(Child(r), "done")
      BY <3>1, GotoStep
    <3>2. CASE /\ state[shm[r]] = 1
               /\ best' = [best EXCEPT ![r] = <<numbers[shm[r]][1], numbers[shm[r]][1]>>]
               /\ i' = [i EXCEPT ![Child(r)] = 2]
      <4>1. count[shm[r]] >= 1
        BY <1>11, <3>2 DEF Poll, Listed, Handover, Busy, Running
      <4> QED
        BY <1>1, <3>2, <4>1
    <3> QED
      BY <1>11, <3>1, <3>2 DEF Poll
  <2>4. pc'[Child(r)] = "scan" => ResultsOf(best[r], r, i[Child(r)] - 1)'
    <3>1. numbers[shm[r]][1] \in Int
      <4>1. Numbers \subseteq Int /\ 1 \in 1 .. MaxCount
        BY ShmAssumption
      <4>2. numbers[shm[r]] \in [1 .. MaxCount -> Numbers]
        BY <1>1
      <4> QED
        BY <4>1, <4>2
    <3>2. IsMinMax(numbers[shm[r]][1], numbers[shm[r]][1], numbers[shm[r]], 1)
      BY <3>1, MinMaxOne
    <3>3. ASSUME pc'[Child(r)] = "scan"
          PROVE  /\ best'[r][1] = numbers[shm[r]][1] /\ best'[r][2] = numbers[shm[r]][1]
                 /\ i'[Child(r)] - 1 = 1
      BY <2>3, <3>3
    <3> QED
      BY <2>2, <3>2, <3>3 DEF ResultsOf
  <2>5. pc'[Child(r)] = "scan" => i'[Child(r)] <= count'[shm'[r]] + 1
    <3>1. count[shm[r]] \in Nat
      BY <1>1, ShmAssumption
    <3> QED
      BY <2>2, <2>3, <3>1
  <2> QED
    BY <2>1, <2>2, <2>4, <2>5 DEF Searched, ResultsOf
<1>12. CASE Scan(r)
  <2>1. /\ pc'[Parent(r)] = pc[Parent(r)] /\ pc[Child(r)] = "scan" /\ state[shm[r]] = 1
        /\ state' = state /\ count' = count /\ numbers' = numbers /\ shm' = shm
    BY <1>12, GotoStep DEF Scan, memory, Handover
  <2>2. i[Child(r)] \in Nat /\ count[shm[r]] \in Nat
    BY <1>1, ShmAssumption
  <2>3. CASE i[Child(r)] <= count[shm[r]]
    <3>0. InSet(i[Child(r)], count[shm[r]])
      BY <2>3 DEF InSet
    <3>1. /\ i' = [i EXCEPT ![Child(r)] = @ + 1] /\ pc' = pc
          /\ best' = [best EXCEPT ![r] =
                << IF numbers[shm[r]][i[Child(r)]] < @[1] THEN numbers[shm[r]][i[Child(r)]]
                   ELSE @[1],
                   IF numbers[shm[r]][i[Child(r)]] > @[2] THEN numbers[shm[r]][i[Child(r)]]
                   ELSE @[2] >>]
      BY <1>12, <3>0, Zenon DEF Scan
    <3>3. IsMinMax(best'[r][1], best'[r][2], numbers[shm[r]], i[Child(r)])
      <4>1. pc[Child(r)] = "scan"
        BY <2>1
      <4>2. best' = [best EXCEPT ![r] =
                << IF numbers[shm[r]][i[Child(r)]] < @[1] THEN numbers[shm[r]][i[Child(r)]]
                   ELSE @[1],
                   IF numbers[shm[r]][i[Child(r)]] > @[2] THEN numbers[shm[r]][i[Child(r)]]
                   ELSE @[2] >>]
        BY <3>1
      <4> QED
        BY <2>3, <4>1, <4>2, ScanTurn
    <3>2. i'[Child(r)] - 1 = i[Child(r)] /\ i'[Child(r)] <= count[shm[r]] + 1
      <4>1. i' = [i EXCEPT ![Child(r)] = @ + 1]
        BY <3>1
      <4> QED
        BY <1>1, <2>2, <2>3, <4>1
    <3> QED
      BY <2>1, <3>1, <3>2, <3>3 DEF Searched, ResultsOf
  <2>4. CASE i[Child(r)] > count[shm[r]]
    <3>1. ~InSet(i[Child(r)], count[shm[r]])
      BY <2>2, <2>4 DEF InSet
    <3>2. best' = best /\ pc'[Child(r)] = "result"
      BY <1>12, <3>1, GotoStep DEF Scan
    <3>3. i[Child(r)] - 1 = count[shm[r]]
      BY <2>1, <2>2, <2>4 DEF Searched
    <3>4. ResultsOf(best[r], r, count[shm[r]])
      BY <2>1, <3>3 DEF Searched
    <3> QED
      BY <2>1, <3>2, <3>4 DEF Searched, ResultsOf
  <2> QED
    BY <2>2, <2>3, <2>4
<1>13. CASE Result(r)
  <2>1. /\ pc'[Parent(r)] = pc[Parent(r)] /\ pc'[Child(r)] = "answer"
        /\ pc[Child(r)] = "result" /\ state[shm[r]] = 1
        /\ state' = state /\ count' = count /\ numbers' = numbers /\ shm' = shm
        /\ best' = best /\ minmax'[shm[r]] = best[r]
    BY <1>1, <1>13, GotoStep DEF Result, Handover
  <2> QED
    BY <2>1 DEF Searched, ResultsOf
<1>14. CASE Answer(r)
  <2>1. /\ pc'[Child(r)] = "poll" /\ pc[Child(r)] = "answer"
        /\ minmax' = minmax /\ count' = count /\ numbers' = numbers /\ shm' = shm
    BY <1>1, <1>14, GotoStep DEF Answer
  <2> QED
    BY <2>1 DEF Searched, ResultsOf
<1> QED
  BY <1>4, <1>5, <1>6, <1>7, <1>8, <1>9, <1>10, <1>11, <1>12, <1>13, <1>14
     DEF Own, ParentStep, ChildStep

-----------------------------------------------------------------------------
(* The invariant.                                                            *)

LEMMA OneRunStep ==
    TypeOK /\ Attached /\ OneRun /\ Handshake /\ [Next]_vars => OneRun'
<1> SUFFICES ASSUME TypeOK, Attached, OneRun, Handshake, [Next]_vars, ~shared',
                    NEW r \in Runs, Busy(r)'
             PROVE  shm'[r] = key' /\ \A q \in Runs : Busy(q)' => q = r
  BY DEF OneRun
<1>1. CASE Open(r)
  <2>1. \A p \in Procs : ~Running(p)
    BY <1>1 DEF Open
  <2>2. ASSUME NEW q \in Runs, q # r PROVE ~Busy(q)'
    <3>1. ~Busy(q)
      BY <2>1 DEF Busy, Procs, Parent, Child
    <3> QED
      BY <1>1, <2>2, <3>1, OpenOther
  <2>3. shm'[r] = key'
    BY <1>1 DEF Open, TypeOK
  <2> QED
    BY <2>2, <2>3
<1>2. CASE ~\E q \in Runs : Open(q)
  <2>1. ~shared /\ Busy(r) /\ shm' = shm
    BY <1>2, NoNewRun
  <2>2. \A q \in Runs : Busy(q)' => q = r
    BY <1>2, <2>1, NoNewRun DEF OneRun
  <2>3. CASE key' = key
    BY <2>1, <2>2, <2>3 DEF OneRun
  <2>4. ASSUME NEW q \in Runs, Remove(q) PROVE FALSE
    <3>1. Busy(q)
      BY <2>4 DEF Remove, Busy, Running
    <3>2. q = r
      BY <2>1, <3>1 DEF OneRun
    <3>3. ~Running(Child(r)) /\ pc'[Parent(r)] = "done" /\ pc'[Child(r)] = pc[Child(r)]
      <4>1. ~Running(Child(r))
        BY <2>1, <2>4, <3>2 DEF Handshake, Handover, Remove
      <4>2. HasSegment(r) /\ Goto(Parent(r), "done")
        BY <2>4, <3>2, AtWork DEF ParentStep, Remove
      <4> QED
        BY <4>1, <4>2, GotoStep
    <3> QED
      BY <3>3 DEF Busy, Running
  <2>5. key' = key \/ \E q \in Runs : Remove(q)
    <3>1. ASSUME NEW q \in Runs, Own(q) PROVE key' = key \/ Remove(q)
      BY <3>1 DEF Own, ParentStep, Reset, Fork, AwaitFree, AwaitAnswer, Await, Count, Fill,
         Publish, PrintResult, Ack, Kill, Wait, ChildStep, Poll, Scan, Result, Answer
    <3>2. CASE Env
      BY <3>2 DEF Env, Signal, Die, vars
    <3> QED
      BY <1>2, <3>1, <3>2 DEF Next, Own, Env
  <2> QED
    BY <2>3, <2>4, <2>5
<1>3. ASSUME NEW q \in Runs, Open(q), q # r PROVE FALSE
  <2>1. ~shared /\ ~Busy(r)
    BY <1>3 DEF Open, Busy, Procs, Parent, Child
  <2> QED
    BY <1>3, <2>1, OpenOther
<1> QED
  BY <1>1, <1>2, <1>3

LEMMA HandshakeStep ==
    TypeOK /\ Places /\ Attached /\ OneRun /\ Handshake /\ [Next]_vars =>
        Places' /\ Attached' /\ Handshake'
<1> SUFFICES ASSUME TypeOK, Places, Attached, OneRun, Handshake, [Next]_vars
             PROVE  Places' /\ Attached' /\ Handshake'
  OBVIOUS
<1>1. Places' /\ Attached'
  BY PlacesStep, AttachedStep
<1>2. ASSUME ~shared', NEW r \in Runs
      PROVE  (Handover(r) /\ Counted(r) /\ Listed(r) /\ Searched(r))'
  <2>0. /\ pc'[Parent(r)] \notin {"poll", "scan", "result", "answer"}
        /\ pc'[Child(r)] \in {"off", "poll", "scan", "result", "answer", "done"}
    BY <1>1 DEF Places
  <2>1. CASE ~Busy(r)'
    <3>1. pc'[Parent(r)] \in {"off", "done"} /\ pc'[Child(r)] \in {"off", "done"}
      BY <2>1 DEF Busy, Running
    <3> QED
      BY <3>1, <2>1 DEF Handover, Counted, Listed, Searched, Busy, Running
  <2>2. CASE Busy(r)'
    <3>1. ~shared /\ (Open(r) \/ Own(r) \/ Env)
      BY <1>2, <2>2, Alone
    <3>2. Handover(r) /\ Counted(r) /\ Listed(r) /\ Searched(r)
      BY <3>1 DEF Handshake
    <3>3. CASE Open(r)
      <4>1. /\ pc'[Parent(r)] = "init" /\ pc'[Child(r)] = pc[Child(r)]
        <5>1. pc \in [Procs -> PCs] /\ Parent(r) \in Procs /\ Parent(r) # Child(r)
          BY DEF TypeOK, Procs, Parent, Child
        <5>2. pc' = [pc EXCEPT ![Parent(r)] = "init"]
          BY <3>3 DEF Open, Goto
        <5>3. Child(r) \in Procs
          BY DEF Procs, Child
        <5> QED
          BY <5>1, <5>2, <5>3
      <4>2. pc[Child(r)] \in {"off", "done"} /\ printed'[r] = 0
        BY <3>3 DEF Open, Running, TypeOK
      <4> QED
        BY <4>1, <4>2 DEF Handover, Counted, Listed, Searched, Running
    <3>4. CASE Own(r)
      <4>1. HasSegment(r)
        BY <3>4, AtWork DEF Own
      <4> QED
        BY <3>2, <3>4, <4>1, HandoverStep, CountedStep, ListedStep, SearchedStep
    <3>5. CASE Env
      <4>1. /\ state' = state /\ count' = count /\ numbers' = numbers /\ minmax' = minmax
            /\ processed' = processed /\ shm' = shm /\ i' = i /\ best' = best
            /\ generated' = generated /\ printed' = printed
            /\ pc'[Parent(r)] \in {pc[Parent(r)], "done"}
            /\ pc'[Child(r)] \in {pc[Child(r)], "done"}
        BY <3>5, EnvStep
      <4>2. Handover(r)'
        BY <3>2, <4>1 DEF Handover, Running
      <4>3. Counted(r)'
        BY <3>2, <4>1 DEF Counted, Running
      <4>4. Listed(r)'
        <5>1. Busy(r)' /\ pc'[Parent(r)] # "init" => Busy(r) /\ pc[Parent(r)] # "init"
          BY <3>2, <4>1 DEF Handover, Busy, Running
        <5> QED
          BY <3>2, <4>1, <5>1 DEF Listed, SetListed
      <4>5. Searched(r)'
        BY <3>2, <4>1 DEF Searched, ResultsOf
      <4> QED
        BY <4>2, <4>3, <4>4, <4>5
    <3> QED
      BY <3>1, <3>3, <3>4, <3>5
  <2> QED
    BY <2>1, <2>2
<1> QED
  BY <1>1, <1>2 DEF Handshake

\* A parent prints what the child has found in the set that was listed.
LEMMA PrintedStep ==
    TypeOK /\ Attached /\ Handshake /\ PrintedRight /\ [Next]_vars => PrintedRight'
<1> SUFFICES ASSUME TypeOK, Attached, Handshake, PrintedRight, [Next]_vars, ~shared'
             PROVE  wrong' = {}
  BY DEF PrintedRight
<1>1. ASSUME NEW r \in Runs, PrintResult(r) PROVE wrong' = {}
  <2>1. ~shared /\ wrong = {} /\ HasSegment(r)
    BY <1>1, AtWork DEF PrintResult, PrintedRight, ParentStep
  <2>2. /\ count[shm[r]] \in Nat
        /\ ResultsOf(minmax[shm[r]], r, count[shm[r]]) /\ SetListed(r, count[shm[r]])
    <3>1. count[shm[r]] \in Nat
      BY <2>1, ShmAssumption DEF TypeOK, HasSegment
    <3> QED
      BY <1>1, <2>1, <3>1 DEF PrintResult, Handshake, Handover, Listed, Searched
  <2>3. IsMinMax(minmax[shm[r]][1], minmax[shm[r]][2], generated[r], Len(generated[r]))
    <3>1. /\ Len(generated[r]) = count[shm[r]]
          /\ \A j \in 1 .. count[shm[r]] : numbers[shm[r]][j] = generated[r][j]
      BY <2>2 DEF SetListed
    <3>2. IsMinMax(minmax[shm[r]][1], minmax[shm[r]][2], numbers[shm[r]], count[shm[r]])
      BY <2>2 DEF ResultsOf
    <3>3. PICK n \in Nat : n = count[shm[r]]
      BY <2>2, Zenon
    <3>4. PICK s, t : s = numbers[shm[r]] /\ t = generated[r]
      BY Zenon
    <3>5. PICK v, w : v = minmax[shm[r]][1] /\ w = minmax[shm[r]][2]
      BY Zenon
    <3>6. IsMinMax(v, w, s, n) /\ \A j \in 1 .. n : s[j] = t[j]
      BY <3>1, <3>2, <3>3, <3>4, <3>5, Zenon
    <3>7. IsMinMax(v, w, t, n)
      BY <3>6, MinMaxSame, Zenon
    <3> QED
      BY <3>1, <3>3, <3>4, <3>5, <3>7, Zenon
  <2> QED
    BY <1>1, <2>1, <2>3 DEF PrintResult
<1>2. ASSUME NEW r \in Runs, Open(r) PROVE wrong' = {}
  BY <1>2 DEF Open, PrintedRight
<1>3. ASSUME NEW r \in Runs, Own(r), ~PrintResult(r) PROVE wrong' = {}
  <2>1. wrong' = wrong /\ shared' = shared
    BY <1>3 DEF Own, ParentStep, Reset, Fork, AwaitFree, AwaitAnswer, Await, Count, Fill,
       Publish, Ack, Kill, Wait, Remove, ChildStep, Poll, Scan, Result, Answer, told
  <2> QED
    BY <2>1 DEF PrintedRight
<1>4. CASE Env
  BY <1>4 DEF Env, Signal, Die, vars, told, PrintedRight
<1> QED
  BY <1>1, <1>2, <1>3, <1>4 DEF Next, Own, Env

LEMMA InitIInv == Init => IInv
<1> SUFFICES ASSUME Init PROVE IInv
  OBVIOUS
<1>1. TypeOK
  <2>1. 0 \in Numbers /\ MaxStarts \in Nat /\ MaxCount \in Nat
    BY ShmAssumption
  <2>2. <<>> \in Seq(Numbers)
    OBVIOUS
  <2>3. /\ state \in [Segments -> 0 .. 2] /\ count \in [Segments -> 0 .. MaxCount]
        /\ numbers \in [Segments -> [1 .. MaxCount -> Numbers]]
        /\ minmax \in [Segments -> Numbers \X Numbers] /\ processed \in [Segments -> Nat]
    BY <2>1 DEF Init
  <2>4. /\ key \in 0 .. made /\ made \in 0 .. starts /\ starts \in 0 .. MaxStarts
        /\ shm \in [Runs -> 0 .. made]
    BY <2>1 DEF Init
  <2>5. pc \in [Procs -> PCs] /\ stop \in [Procs -> BOOLEAN] /\ i \in [Procs -> Nat \ {0}]
    BY DEF Init, PCs
  <2>6. best \in [Runs -> Numbers \X Numbers] /\ printed \in [Runs -> Nat]
    BY <2>1 DEF Init
  <2>7. generated \in [Runs -> Seq(Numbers)]
    BY <2>2 DEF Init
  <2>8. wrong \subseteq Runs /\ shared \in BOOLEAN
    BY DEF Init
  <2> QED
    BY <2>3, <2>4, <2>5, <2>6, <2>7, <2>8 DEF TypeOK
<1>2. \A r \in Runs : pc[Parent(r)] = "off" /\ pc[Child(r)] = "off"
  BY DEF Init, Procs, Parent, Child
<1>3. wrong = {}
  BY DEF Init
<1>4. Places /\ Attached /\ OneRun /\ PrintedRight
  BY <1>2, <1>3 DEF Places, Attached, OneRun, PrintedRight, Busy, Running
<1>5. Handshake
  BY <1>2 DEF Handshake, Handover, Counted, Listed, Searched, Busy, Running
<1> QED
  BY <1>1, <1>4, <1>5 DEF IInv

LEMMA NextIInv == IInv /\ [Next]_vars => IInv'
BY TypeStep, HandshakeStep, OneRunStep, PrintedStep DEF IInv

\* IInv is an inductive invariant of the program of Module3/10 and Module3/11.
THEOREM InvariantHolds == Spec => []IInv
BY InitIInv, NextIInv, PTL DEF Spec

\* Every variable keeps its type.
THEOREM TypeCorrect == Spec => []TypeOK
<1>1. IInv => TypeOK
  BY DEF IInv
<1> QED
  BY <1>1, InvariantHolds, PTL

\* A parent prints the minimum and maximum of the numbers it has listed, as long as no
\* run is started into the segment of another.
THEOREM PrintedRightHolds == Spec => []PrintedRight
<1>1. IInv => PrintedRight
  BY DEF IInv
<1> QED
  BY <1>1, InvariantHolds, PTL

\* A parent does not write the set while a child of any run reads it.
THEOREM NoRaceHolds == Spec => []NoRace
<1>1. IInv => NoRace
  <2> SUFFICES ASSUME IInv, ~shared, NEW r \in Runs, NEW s \in Runs,
                      pc[Parent(r)] \in {"count", "fill", "publish"},
                      pc[Child(s)] \in {"scan", "result", "answer"}
               PROVE  FALSE
    BY DEF NoRace
  <2>1. Busy(r) /\ Busy(s)
    BY DEF Busy, Running
  <2>2. r = s
    BY <2>1 DEF IInv, OneRun
  <2> QED
    BY <2>2 DEF IInv, Handshake, Handover
<1> QED
  BY <1>1, InvariantHolds, PTL

\* The number printed at the end is the number of the results of the run.
THEOREM CountedOnceHolds == Spec => []CountedOnce
<1>1. IInv => CountedOnce
  BY DEF IInv, Handshake, Counted, CountedOnce, Running
<1> QED
  BY <1>1, InvariantHolds, PTL
=============================================================================
