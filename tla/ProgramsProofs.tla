--------------------------- MODULE ProgramsProofs ---------------------------
(***************************************************************************)
(* What the runs of Programs check, for every value of its constants.      *)
(***************************************************************************)
EXTENDS Programs, FiniteSetTheorems, SequenceTheorems, WellFoundedInduction, TLAPS

\* A step of Programs is a step of one program, or leaves its variables alone.
LEMMA EachStep ==
    [Next]_vars =>
        /\ [CQ!Next]_cqVars /\ [SP!Next]_spVars /\ [PF!Next]_pfVars
        /\ [RE!Next]_reVars /\ [CD!Next]_cdVars
BY DEF Next, vars

-----------------------------------------------------------------------------
(* The character device.                                                     *)

LEMMA DeviceConstants ==
    /\ MaxLength \in Nat \ {0} /\ MaxDeficit \in Nat /\ MaxLoads \in Nat
    /\ NULL \notin Procs /\ IsFiniteSet(Procs)
    /\ \A S : CD!Cardinality(S) = Cardinality(S)
<1>1. \A S : CD!IsFiniteSet(S) = IsFiniteSet(S)
  BY DEF CD!IsFiniteSet, IsFiniteSet
<1>2. \A S : CD!Cardinality(S) = Cardinality(S)
  BY DEF CD!Cardinality, Cardinality
<1> QED
  BY <1>1, <1>2, ProgramsAssumption DEF CD!DeviceAssumption

DeviceUses == {"open", "compared", "subtracted", "written"}

\* The processes that have the device open, the ones of these that device_open() has
\* counted, and those in device_release().
Holders == {p \in Procs : d_pc[p] \in DeviceUses \cup {"taken"}}
Counted == {p \in Procs : d_pc[p] \in DeviceUses}
Closing == {p \in Procs : d_pc[p] = "closing"}

\* already_open keeps all but one open file out, which only fork() spreads.
OneFile ==
    /\ \A p \in Procs : d_file[p] # NULL <=> p \in Holders
    /\ \A p, q \in Holders : d_file[p] = d_file[q]
    /\ \A p, q \in Holders : ~d_shared \/ d_pc[p] = "taken" => p = q
    /\ d_already_open <=> Holders # {}

\* One for every device_release() under way and one for the open file, or less when
\* try_module_get() failed.
Uncounting == Cardinality(Closing) + (IF Counted = {} THEN 0 ELSE 1)

UsageCount ==
    /\ d_refs \in 0 .. Uncounting
    /\ ~d_raced => d_refs = Uncounting
    /\ ~d_raced /\ d_module # "live" => \A p \in Procs : d_pc[p] = "out"

\* Between its steps a read or write of the one process finds what it left.
ReadSteps ==
    ~d_shared =>
        /\ \A p \in Procs : d_pc[p] = "compared" => d_seen[p] = d_temp /\ d_count[p] <= d_temp
        /\ \A p \in Procs : d_pc[p] = "written" => d_count[p] = d_len
        /\ (\A p \in Procs : d_pc[p] # "written") => d_temp >= 0 /\ d_temp + d_got = d_len

\* The inductive invariant.
DeviceInv == CD!TypeOK /\ OneFile /\ UsageCount /\ ReadSteps

-----------------------------------------------------------------------------
(* Places and files.                                                         *)

DevicePlaces == {"out", "entered", "taken", "open", "closing", "compared", "subtracted", "written"}

LEMMA OneFileStep ==
    CD!TypeOK /\ OneFile /\ [CD!Next]_cdVars => OneFile'
<1> SUFFICES ASSUME CD!TypeOK, OneFile, [CD!Next]_cdVars PROVE OneFile'
  OBVIOUS
<1>1. /\ d_pc \in [Procs -> DevicePlaces] /\ d_file \in [Procs -> Procs \cup {NULL}] /\ NULL \notin Procs
      /\ d_already_open \in BOOLEAN
  BY DeviceConstants DEF CD!TypeOK, DevicePlaces
<1> USE <1>1 DEF OneFile, Holders, DeviceUses
<1>2. CASE CD!chardev_init
  BY <1>2 DEF CD!chardev_init
<1>3. CASE CD!Unload \/ CD!chardev_exit
  BY <1>3 DEF CD!Unload, CD!chardev_exit
<1>4. ASSUME NEW p \in Procs, CD!Enter(p) \/ CD!Count(p) \/ CD!Put(p) PROVE OneFile'
  BY <1>4 DEF CD!Enter, CD!Count, CD!Put
<1>5. ASSUME NEW p \in Procs, CD!Take(p) PROVE OneFile'
  BY <1>5 DEF CD!Take
<1>6. ASSUME NEW p \in Procs, CD!Close(p) PROVE OneFile'
  <2>1. p \in Holders /\ CD!Sharers(p) = Holders /\ d_pc[p] = "open"
    BY <1>6 DEF CD!Close, CD!Sharers
  <2>2. CASE CD!Sharers(p) = {p}
    BY <1>6, <2>1, <2>2 DEF CD!Close
  <2>3. CASE CD!Sharers(p) # {p}
    <3>1. PICK q \in Holders : q # p
      BY <2>1, <2>3
    <3>2. /\ d_pc' = [d_pc EXCEPT ![p] = "out"] /\ d_file' = [d_file EXCEPT ![p] = NULL]
          /\ UNCHANGED <<d_already_open, d_shared>>
      BY <1>6, <2>3 DEF CD!Close
    <3> QED
      BY <2>1, <3>1, <3>2
  <2> QED
    BY <2>2, <2>3
<1>7. ASSUME NEW p \in Procs, CD!Compare(p) \/ CD!Subtract(p) \/ CD!Deliver(p) \/ CD!SetLength(p) \/ CD!SetTemp(p)
      PROVE  OneFile'
  <2>1. PICK from \in DeviceUses, to \in DeviceUses : CD!Moves(p, from, to)
    BY <1>7 DEF CD!Compare, CD!Subtract, CD!Deliver, CD!SetLength, CD!SetTemp
  <2> QED
    BY <2>1 DEF CD!Moves
<1>8. ASSUME NEW p \in Procs, NEW q \in Procs, CD!Share(p, q) PROVE OneFile'
  BY <1>8 DEF CD!Share
<1>9. CASE UNCHANGED cdVars
  BY <1>9 DEF cdVars
<1> QED
  BY <1>2, <1>3, <1>4, <1>5, <1>6, <1>7, <1>8, <1>9 DEF CD!Next

-----------------------------------------------------------------------------
(* The usage count.                                                          *)

LEMMA ClosingFinite ==
    /\ IsFiniteSet(Closing) /\ Cardinality(Closing) \in Nat
    /\ Cardinality(Closing) = 0 <=> Closing = {}
    /\ IsFiniteSet(Closing)'
<1>1. IsFiniteSet(Procs) /\ Closing \in SUBSET Procs /\ Closing' \in SUBSET Procs
  BY DeviceConstants DEF Closing
<1> QED
  BY <1>1, FS_Subset, FS_CardinalityType, FS_EmptySet

\* The steps that neither count nor uncount.
LEMMA UsageKept ==
    ASSUME UsageCount, UNCHANGED d_refs, Closing' = Closing, Counted' = {} <=> Counted = {},
           d_raced => d_raced',
           ~d_raced' /\ d_module' # "live" => \A p \in Procs : d_pc'[p] = "out"
    PROVE  UsageCount'
BY DEF UsageCount, Uncounting

LEMMA UsageStep ==
    CD!TypeOK /\ OneFile /\ UsageCount /\ [CD!Next]_cdVars => UsageCount'
<1> SUFFICES ASSUME CD!TypeOK, OneFile, UsageCount, [CD!Next]_cdVars PROVE UsageCount'
  OBVIOUS
<1> DEFINE n == Cardinality(Closing)
<1>1. /\ d_pc \in [Procs -> DevicePlaces] /\ d_raced \in BOOLEAN
      /\ d_module \in {"out", "live", "going"}
  BY DEF CD!TypeOK, DevicePlaces
<1>2. n \in Nat /\ (n = 0 <=> Closing = {})
  BY ClosingFinite
<1>3. ~d_raced /\ d_module # "live" => \A p \in Procs : d_pc[p] = "out"
  BY DEF UsageCount
<1>4. CASE CD!chardev_init
  <2>1. Closing' = {} /\ Counted' = {} /\ d_refs' = 0 /\ d_module' = "live"
    BY <1>4 DEF CD!chardev_init, Closing, Counted, DeviceUses
  <2>2. Cardinality(Closing') = 0
    BY <2>1, FS_EmptySet
  <2> QED
    BY <2>1, <2>2 DEF UsageCount, Uncounting
<1>5. CASE CD!Unload
  <2>1. Closing' = Closing /\ Counted' = Counted /\ UNCHANGED d_refs /\ (d_raced => d_raced')
    BY <1>5, Zenon DEF CD!Unload, Closing, Counted
  <2>2. ASSUME ~d_raced' PROVE \A p \in Procs : d_pc'[p] = "out"
    <3>1. ~d_raced /\ d_refs = 0 /\ \A p \in Procs : d_pc[p] \notin {"entered", "taken"}
      BY <1>5, <2>2, Zenon DEF CD!Unload
    <3>2. Closing = {} /\ Counted = {}
      BY <1>2, <3>1 DEF UsageCount, Uncounting
    <3> QED
      BY <1>1, <1>5, <3>1, <3>2 DEF CD!Unload, Closing, Counted, DeviceUses, DevicePlaces
  <2> QED
    BY <2>1, <2>2, UsageKept
<1>6. CASE CD!chardev_exit
  <2>1. Closing' = Closing /\ Counted' = Counted /\ UNCHANGED <<d_pc, d_refs, d_raced>> /\ d_module # "live"
    BY <1>6 DEF CD!chardev_exit, Closing, Counted
  <2> QED
    BY <1>3, <2>1, UsageKept
<1>7. ASSUME NEW p \in Procs, CD!Enter(p) PROVE UsageCount'
  <2>1. Closing' = Closing /\ Counted' = Counted /\ UNCHANGED d_refs /\ (d_raced => d_raced')
    BY <1>1, <1>7 DEF CD!Enter, Closing, Counted, DeviceUses
  <2>2. ~d_raced' => d_module' = "live"
    BY <1>1, <1>7, Zenon DEF CD!Enter
  <2> QED
    BY <2>1, <2>2, UsageKept
<1>8. ASSUME NEW p \in Procs, CD!Take(p) PROVE UsageCount'
  <2>1. Closing' = Closing /\ Counted' = Counted /\ UNCHANGED <<d_refs, d_raced>>
    BY <1>1, <1>8 DEF CD!Take, Closing, Counted, DeviceUses
  <2>2. ~d_raced' => d_module' = "live"
    BY <1>3, <1>8 DEF CD!Take
  <2> QED
    BY <2>1, <2>2, UsageKept
<1>9. ASSUME NEW p \in Procs, CD!Count(p) PROVE UsageCount'
  <2>1. Closing' = Closing /\ Counted = {} /\ Counted' = {p}
    BY <1>1, <1>9 DEF CD!Count, Closing, Counted, DeviceUses, OneFile, Holders
  <2>2. d_refs' = (IF d_module = "live" THEN d_refs + 1 ELSE d_refs) /\ UNCHANGED <<d_raced, d_module>>
    BY <1>9 DEF CD!Count
  <2>3. ~d_raced => d_module = "live"
    BY <1>3, <1>9 DEF CD!Count
  <2>4. d_refs \in 0 .. n /\ (~d_raced => d_refs = n)
    BY <1>2, <2>1 DEF UsageCount, Uncounting
  <2>5. Uncounting' = n + 1
    BY <2>1 DEF Uncounting
  <2> HIDE DEF n
  <2> QED
    BY <1>2, <2>2, <2>3, <2>4, <2>5 DEF UsageCount
<1>10. ASSUME NEW p \in Procs, NEW q \in Procs, CD!Share(p, q) PROVE UsageCount'
  <2>1. /\ Closing' = Closing /\ Counted' # {} /\ Counted # {} /\ UNCHANGED <<d_refs, d_raced>>
        /\ UNCHANGED d_module
    BY <1>1, <1>10 DEF CD!Share, Closing, Counted, DeviceUses
  <2>2. ~d_raced => d_module = "live"
    BY <1>3, <1>10 DEF CD!Share
  <2> QED
    BY <2>1, <2>2, UsageKept
<1>11. ASSUME NEW p \in Procs, CD!Close(p) PROVE UsageCount'
  <2>1. p \in Counted /\ UNCHANGED <<d_refs, d_raced, d_module>> /\ (~d_raced => d_module = "live")
    BY <1>3, <1>11 DEF CD!Close, Counted, DeviceUses
  <2>2. CD!Sharers(p) = Holders
    <3>1. NULL \notin Procs /\ d_file[p] # NULL
      BY <2>1, DeviceConstants DEF OneFile, Holders, Counted
    <3> QED
      BY <2>1, <3>1 DEF CD!Sharers, OneFile, Holders, Counted
  <2>3. CASE Holders = {p}
    <3>1. d_pc' = [d_pc EXCEPT ![p] = "closing"]
      BY <1>11, <2>2, <2>3 DEF CD!Close
    <3>2. Closing' = Closing \cup {p} /\ p \notin Closing /\ Counted' = {}
      BY <1>1, <2>1, <2>3, <3>1 DEF Closing, Counted, Holders, DeviceUses
    <3>3. Cardinality(Closing') = n + 1
      BY <3>2, ClosingFinite, FS_AddElement
    <3>4. Uncounting' = n + 1 /\ Uncounting = n + 1
      BY <1>2, <2>1, <3>2, <3>3 DEF Uncounting
    <3> QED
      BY <2>1, <3>4 DEF UsageCount
  <2>4. CASE Holders # {p}
    <3>1. d_pc' = [d_pc EXCEPT ![p] = "out"] /\ d_pc[p] = "open"
      BY <1>11, <2>2, <2>4 DEF CD!Close
    <3>2. PICK q \in Holders : q # p
      BY <2>1, <2>4 DEF Holders, Counted
    <3>3. q \in Counted
      BY <2>1, <3>2 DEF OneFile, Holders, Counted
    <3>4. Closing' = Closing /\ Counted' # {}
      BY <1>1, <3>1, <3>2, <3>3 DEF Closing, Counted, DeviceUses
    <3> QED
      BY <2>1, <3>4, UsageKept
  <2> QED
    BY <2>3, <2>4
<1>12. ASSUME NEW p \in Procs, CD!Put(p) PROVE UsageCount'
  <2>1. /\ Closing' = Closing \ {p} /\ p \in Closing /\ Counted' = Counted
        /\ d_refs' = (IF d_refs > 0 THEN d_refs - 1 ELSE d_refs) /\ UNCHANGED <<d_raced, d_module>>
    BY <1>1, <1>12 DEF CD!Put, Closing, Counted, DeviceUses
  <2>2. ~d_raced => d_module = "live"
    BY <1>3, <1>12 DEF CD!Put
  <2>3. Cardinality(Closing') = n - 1 /\ n > 0
    <3>1. Closing # {}
      BY <2>1
    <3> QED
      BY <1>2, <2>1, <3>1, ClosingFinite, FS_RemoveElement
  <2>4. Uncounting' = Uncounting - 1 /\ Uncounting \in Nat /\ Uncounting > 0
    <3>1. CASE Counted = {}
      BY <1>2, <2>1, <2>3, <3>1 DEF Uncounting
    <3>2. CASE Counted # {}
      BY <1>2, <2>1, <2>3, <3>2 DEF Uncounting
    <3> QED
      BY <3>1, <3>2
  <2>5. d_refs \in 0 .. Uncounting /\ (~d_raced => d_refs = Uncounting)
    BY DEF UsageCount
  <2>6. d_refs' \in 0 .. Uncounting' /\ (~d_raced => d_refs' = Uncounting')
    BY <2>1, <2>4, <2>5
  <2> QED
    BY <2>1, <2>2, <2>6 DEF UsageCount
<1>13. ASSUME NEW p \in Procs,
              CD!Compare(p) \/ CD!Subtract(p) \/ CD!Deliver(p) \/ CD!SetLength(p) \/ CD!SetTemp(p)
       PROVE  UsageCount'
  <2>1. PICK from \in DeviceUses, to \in DeviceUses : CD!Moves(p, from, to)
    BY <1>13 DEF CD!Compare, CD!Subtract, CD!Deliver, CD!SetLength, CD!SetTemp, DeviceUses
  <2>2. /\ Closing' = Closing /\ Counted' = Counted /\ UNCHANGED <<d_refs, d_raced, d_module>>
        /\ (~d_raced => d_module = "live")
    BY <1>1, <1>3, <2>1 DEF CD!Moves, Closing, Counted, DeviceUses
  <2> QED
    BY <2>2, UsageKept
<1>14. CASE UNCHANGED cdVars
  <2>1. Closing' = Closing /\ Counted' = Counted /\ UNCHANGED <<d_refs, d_raced, d_module, d_pc>>
    BY <1>14 DEF cdVars, Closing, Counted
  <2> QED
    BY <1>3, <2>1, UsageKept
<1> QED
  BY <1>4, <1>5, <1>6, <1>7, <1>8, <1>9, <1>10, <1>11, <1>12, <1>13, <1>14 DEF CD!Next

-----------------------------------------------------------------------------
(* Types.                                                                    *)

\* Those in device_release() and a process that has the device open are different ones.
LEMMA UncountingBound ==
    ASSUME UsageCount
    PROVE  d_refs \in 0 .. Cardinality(Procs)
<1> DEFINE n == Cardinality(Closing)
           N == Cardinality(Procs)
<1>1. IsFiniteSet(Procs) /\ Closing \in SUBSET Procs
  BY DeviceConstants DEF Closing
<1>2. n \in Nat /\ N \in Nat /\ n <= N
  BY <1>1, FS_Subset, FS_CardinalityType, ClosingFinite
<1>3. CASE Counted = {}
  BY <1>2, <1>3 DEF UsageCount, Uncounting
<1>4. CASE Counted # {}
  <2>1. PICK p \in Counted : p \in Procs \ Closing
    BY <1>4 DEF Counted, Closing, DeviceUses
  <2>2. n # N
    BY <1>1, <2>1, FS_Subset
  <2>3. Uncounting = n + 1
    BY <1>4 DEF Uncounting
  <2> QED
    BY <1>2, <2>2, <2>3 DEF UsageCount
<1> QED
  BY <1>3, <1>4

LEMMA DeviceTypes ==
    CD!TypeOK /\ UsageCount' /\ [CD!Next]_cdVars => CD!TypeOK'
<1> SUFFICES ASSUME CD!TypeOK, UsageCount', [CD!Next]_cdVars PROVE CD!TypeOK'
  OBVIOUS
<1>1. d_refs' \in 0 .. CD!Cardinality(Procs)
  <2>1. (UsageCount => d_refs \in 0 .. Cardinality(Procs))'
    BY UncountingBound, PTL
  <2> QED
    BY <2>1, DeviceConstants
<1>2. MaxLength \in Nat \ {0} /\ MaxDeficit \in Nat /\ MaxLoads \in Nat
  BY DeviceConstants
<1> USE <1>1, <1>2 DEF CD!TypeOK, CD!buffer
<1>3. CASE CD!chardev_init
  <2>1. d_loads' \in 0 .. MaxLoads
    BY <1>3 DEF CD!chardev_init
  <2>2. d_temp' \in -MaxDeficit .. MaxLength /\ d_len' \in 0 .. MaxLength
    BY <1>3 DEF CD!chardev_init
  <2> QED
    BY <1>3, <2>1, <2>2, Zenon DEF CD!chardev_init
<1>4. CASE CD!Unload \/ CD!chardev_exit
  BY <1>4, Zenon DEF CD!Unload, CD!chardev_exit
<1>5. ASSUME NEW p \in Procs, CD!Enter(p) \/ CD!Take(p) \/ CD!Count(p) \/ CD!Close(p) \/ CD!Put(p) PROVE CD!TypeOK'
  BY <1>5, ZenonT(40) DEF CD!Enter, CD!Take, CD!Count, CD!Close, CD!Put
<1>6. ASSUME NEW p \in Procs, NEW q \in Procs, CD!Share(p, q) PROVE CD!TypeOK'
  BY <1>6 DEF CD!Share
<1>7. ASSUME NEW p \in Procs, CD!Compare(p) PROVE CD!TypeOK'
  <2>1. PICK c \in 0 .. MaxLength :
          d_count' = [d_count EXCEPT ![p] = IF d_temp >= 0 /\ c > d_temp THEN d_temp ELSE c]
    BY <1>7, Zenon DEF CD!Compare
  <2>2. (IF d_temp >= 0 /\ c > d_temp THEN d_temp ELSE c) \in 0 .. MaxLength
    OBVIOUS
  <2> QED
    BY <1>7, <2>1, <2>2 DEF CD!Compare, CD!Moves
<1>8. ASSUME NEW p \in Procs, CD!Subtract(p) PROVE CD!TypeOK'
  <2>1. PICK t \in {d_temp, d_seen[p]} : t - d_count[p] >= - MaxDeficit /\ d_temp' = t - d_count[p]
    BY <1>8 DEF CD!Subtract
  <2>2. t \in -MaxDeficit .. MaxLength /\ d_count[p] \in 0 .. MaxLength
    OBVIOUS
  <2>3. d_temp' \in -MaxDeficit .. MaxLength
    BY <2>1, <2>2
  <2>4. d_got' \in Nat
    BY <1>8, <2>2 DEF CD!Subtract
  <2> QED
    BY <1>8, <2>3, <2>4 DEF CD!Subtract, CD!Moves
<1>9. ASSUME NEW p \in Procs, CD!Deliver(p) PROVE CD!TypeOK'
  BY <1>9 DEF CD!Deliver, CD!Moves, CD!Forget
<1>10. ASSUME NEW p \in Procs, CD!SetLength(p) PROVE CD!TypeOK'
  BY <1>10 DEF CD!SetLength, CD!Moves
<1>11. ASSUME NEW p \in Procs, CD!SetTemp(p) PROVE CD!TypeOK'
  BY <1>11 DEF CD!SetTemp, CD!Moves, CD!Forget
<1>12. CASE UNCHANGED cdVars
  BY <1>12 DEF cdVars
<1> QED
  BY <1>3, <1>4, <1>5, <1>6, <1>7, <1>8, <1>9, <1>10, <1>11, <1>12 DEF CD!Next

-----------------------------------------------------------------------------
(* Reading and writing.                                                      *)

LEMMA ReadStepsStep ==
    CD!TypeOK /\ OneFile /\ ReadSteps /\ [CD!Next]_cdVars => ReadSteps'
<1> SUFFICES ASSUME CD!TypeOK, OneFile, ReadSteps, [CD!Next]_cdVars, ~d_shared' PROVE ReadSteps'
  BY DEF ReadSteps
<1>1. /\ d_pc \in [Procs -> DevicePlaces] /\ d_count \in [Procs -> 0 .. MaxLength]
      /\ d_seen \in [Procs -> -MaxDeficit .. MaxLength] /\ d_len \in 0 .. MaxLength
      /\ d_temp \in -MaxDeficit .. MaxLength /\ d_got \in Nat
      /\ MaxLength \in Nat /\ MaxDeficit \in Nat
  BY DeviceConstants DEF CD!TypeOK, DevicePlaces
<1>2. ~d_shared
  <2>1. ASSUME NEW p \in Procs,
               CD!Compare(p) \/ CD!Subtract(p) \/ CD!Deliver(p) \/ CD!SetLength(p) \/ CD!SetTemp(p)
        PROVE  UNCHANGED d_shared
    BY <2>1 DEF CD!Compare, CD!Subtract, CD!Deliver, CD!SetLength, CD!SetTemp, CD!Moves
  <2>2. ASSUME NEW p \in Procs, CD!Enter(p) \/ CD!Take(p) \/ CD!Count(p) \/ CD!Close(p) \/ CD!Put(p)
        PROVE  UNCHANGED d_shared
    BY <2>2 DEF CD!Enter, CD!Take, CD!Count, CD!Close, CD!Put
  <2> QED
    BY <2>1, <2>2 DEF CD!Next, CD!chardev_init, CD!Unload, CD!chardev_exit, CD!Share, cdVars
<1>3. \A p, q \in Procs : d_pc[p] \in DeviceUses \cup {"taken"} /\ d_pc[q] \in DeviceUses \cup {"taken"} => p = q
  BY <1>2 DEF OneFile, Holders
<1>4. /\ \A p \in Procs : d_pc[p] = "compared" => d_seen[p] = d_temp /\ d_count[p] <= d_temp
      /\ \A p \in Procs : d_pc[p] = "written" => d_count[p] = d_len
      /\ (\A p \in Procs : d_pc[p] # "written") => d_temp >= 0 /\ d_temp + d_got = d_len
  BY <1>2 DEF ReadSteps
<1>5. ASSUME UNCHANGED CD!buffer,
             \A p \in Procs : d_pc'[p] \in {"compared", "written"} \/ d_pc[p] \in {"compared", "written"}
                                 => d_pc'[p] = d_pc[p]
      PROVE  ReadSteps'
  BY <1>4, <1>5 DEF ReadSteps, CD!buffer
<1> USE <1>1 DEF DeviceUses
<1>6. CASE CD!chardev_init
  BY <1>6 DEF CD!chardev_init, ReadSteps
<1>7. CASE CD!Unload \/ CD!chardev_exit
  BY <1>5, <1>7 DEF CD!Unload, CD!chardev_exit
<1>8. ASSUME NEW p \in Procs, CD!Enter(p) \/ CD!Take(p) \/ CD!Count(p) \/ CD!Close(p) \/ CD!Put(p) PROVE ReadSteps'
  BY <1>5, <1>8 DEF CD!Enter, CD!Take, CD!Count, CD!Close, CD!Put
<1>9. ASSUME NEW p \in Procs, NEW q \in Procs, CD!Share(p, q) PROVE FALSE
  BY <1>9 DEF CD!Share
<1>10. ASSUME NEW p \in Procs, CD!Compare(p) PROVE ReadSteps'
  <2>1. \A q \in Procs : q # p => d_pc[q] \notin DeviceUses /\ d_pc'[q] = d_pc[q]
    BY <1>3, <1>10 DEF CD!Compare, CD!Moves
  <2>2. d_temp >= 0 /\ d_temp + d_got = d_len
    BY <1>4, <1>10, <2>1 DEF CD!Compare, CD!Moves
  <2>3. d_pc'[p] = "compared" /\ d_seen'[p] = d_temp /\ d_count'[p] <= d_temp /\ UNCHANGED <<d_len, d_temp, d_got>>
    BY <1>10, <2>2 DEF CD!Compare, CD!Moves
  <2> QED
    BY <2>1, <2>2, <2>3 DEF ReadSteps
<1>11. ASSUME NEW p \in Procs, CD!Subtract(p) PROVE ReadSteps'
  <2>1. \A q \in Procs : q # p => d_pc[q] \notin DeviceUses /\ d_pc'[q] = d_pc[q]
    BY <1>3, <1>11 DEF CD!Subtract, CD!Moves
  <2>2. d_temp >= 0 /\ d_temp + d_got = d_len /\ d_seen[p] = d_temp /\ d_count[p] <= d_temp
    BY <1>4, <1>11, <2>1 DEF CD!Subtract, CD!Moves
  <2>3. d_pc'[p] = "subtracted" /\ d_temp' = d_temp - d_count[p] /\ d_got' = d_got + d_count[p] /\ d_len' = d_len
    BY <1>11, <2>2 DEF CD!Subtract, CD!Moves
  <2>4. d_temp' >= 0 /\ d_temp' + d_got' = d_len'
    BY <2>2, <2>3
  <2> QED
    BY <2>1, <2>3, <2>4 DEF ReadSteps
<1>12. ASSUME NEW p \in Procs, CD!Deliver(p) PROVE ReadSteps'
  <2>1. \A q \in Procs : q # p => d_pc[q] \notin DeviceUses /\ d_pc'[q] = d_pc[q]
    BY <1>3, <1>12 DEF CD!Deliver, CD!Moves
  <2>2. d_temp >= 0 /\ d_temp + d_got = d_len
    BY <1>4, <1>12, <2>1 DEF CD!Deliver, CD!Moves
  <2>3. d_pc'[p] = "open" /\ d_temp' >= 0 /\ d_temp' + d_got' = d_len'
    BY <1>12, <2>2 DEF CD!Deliver, CD!Moves
  <2> QED
    BY <2>1, <2>3 DEF ReadSteps
<1>13. ASSUME NEW p \in Procs, CD!SetLength(p) PROVE ReadSteps'
  <2>1. \A q \in Procs : q # p => d_pc[q] \notin DeviceUses /\ d_pc'[q] = d_pc[q]
    BY <1>3, <1>13 DEF CD!SetLength, CD!Moves
  <2>2. d_pc'[p] = "written" /\ d_count'[p] = d_len'
    BY <1>13 DEF CD!SetLength, CD!Moves
  <2> QED
    BY <2>1, <2>2 DEF ReadSteps
<1>14. ASSUME NEW p \in Procs, CD!SetTemp(p) PROVE ReadSteps'
  <2>1. \A q \in Procs : q # p => d_pc[q] \notin DeviceUses /\ d_pc'[q] = d_pc[q]
    BY <1>3, <1>14 DEF CD!SetTemp, CD!Moves
  <2>2. d_pc'[p] = "open" /\ d_temp' = d_len /\ d_got' = 0 /\ d_len' = d_len
    BY <1>4, <1>14 DEF CD!SetTemp, CD!Moves
  <2> QED
    BY <2>1, <2>2 DEF ReadSteps
<1>15. CASE UNCHANGED cdVars
  BY <1>5, <1>15 DEF cdVars, CD!buffer
<1> QED
  BY <1>6, <1>7, <1>8, <1>9, <1>10, <1>11, <1>12, <1>13, <1>14, <1>15 DEF CD!Next

-----------------------------------------------------------------------------
(* The theorems.                                                             *)

LEMMA DeviceInvHolds ==
    Spec => []DeviceInv
<1>1. Init => DeviceInv
  <2> SUFFICES ASSUME CD!Init PROVE DeviceInv
    BY DEF Init
  <2>1. OneFile
    BY DEF CD!Init, OneFile, Holders, DeviceUses
  <2>2. UsageCount
    <3>1. Closing = {} /\ Counted = {} /\ d_refs = 0 /\ \A p \in Procs : d_pc[p] = "out"
      BY DEF CD!Init, Closing, Counted, DeviceUses
    <3>2. Uncounting = 0
      BY <3>1, FS_EmptySet DEF Uncounting
    <3> QED
      BY <3>1, <3>2 DEF UsageCount
  <2>3. CD!TypeOK
    <3>1. d_refs \in 0 .. CD!Cardinality(Procs)
      BY <2>2, UncountingBound, DeviceConstants
    <3>2. 0 \in -MaxDeficit .. MaxLength /\ 0 \in 0 .. MaxLength /\ 0 \in 0 .. MaxLoads
      BY DeviceConstants
    <3> QED
      BY <3>1, <3>2, Zenon DEF CD!Init, CD!TypeOK
  <2>4. ReadSteps
    BY DEF CD!Init, ReadSteps
  <2> QED
    BY <2>1, <2>2, <2>3, <2>4 DEF DeviceInv
<1>2. DeviceInv /\ [CD!Next]_cdVars => DeviceInv'
  BY OneFileStep, UsageStep, DeviceTypes, ReadStepsStep DEF DeviceInv
<1>3. DeviceInv /\ [Next]_vars => DeviceInv'
  BY <1>2, EachStep
<1> QED
  BY <1>1, <1>3, PTL DEF Spec

\* The module stays while a file is open and can go when none is, unless an open() overlaps
\* its unloading.
THEOREM HeldWhileOpenHolds ==
    Spec => []HeldWhileOpen
<1>1. DeviceInv => HeldWhileOpen
  <2> SUFFICES ASSUME DeviceInv, ~d_raced
               PROVE  /\ (\E p \in Procs : d_pc[p] \notin CD!Outside) => d_module = "live"
                      /\ (\A p \in Procs : d_pc[p] \in CD!Outside) => d_refs = 0
    BY DEF HeldWhileOpen, CD!HeldWhileOpen
  <2>1. (\E p \in Procs : d_pc[p] \notin CD!Outside) => d_module = "live"
    BY DEF DeviceInv, UsageCount, CD!Outside
  <2>2. ASSUME \A p \in Procs : d_pc[p] \in CD!Outside PROVE d_refs = 0
    <3>1. Closing = {} /\ Counted = {}
      BY <2>2 DEF CD!Outside, Closing, Counted, DeviceUses
    <3>2. Uncounting = 0
      BY <3>1, FS_EmptySet DEF Uncounting
    <3> QED
      BY <3>2 DEF DeviceInv, UsageCount
  <2> QED
    BY <2>1, <2>2
<1> QED
  BY <1>1, DeviceInvHolds, PTL

\* A message is read once between two ends of file, in whatever parts, unless processes
\* share the open file.
THEOREM ReadOnceHolds ==
    Spec => []ReadOnce
<1>1. DeviceInv => ReadOnce
  BY DEF ReadOnce, DeviceInv, ReadSteps, CD!ReadOnce
<1> QED
  BY <1>1, DeviceInvHolds, PTL

-----------------------------------------------------------------------------
(* The phone book in a file.                                                 *)

LEMMA BookConstants ==
    /\ NoContact \notin Text /\ InitialSize \in Nat \ {0} /\ MaxSize \in Nat
    /\ MaxCommands \in Nat /\ BookStarts \in Nat /\ InitialSize <= MaxSize
BY ProgramsAssumption DEF PF!BookAssumption

\* What the run of a phone book and the file have to do with each other: the last that was
\* saved is in the file unless it is torn, and a run whose use of the file nobody has
\* disturbed has read, or written, the beginning of it.
BookSizes ==
    \A r \in Procs :
        /\ b_pc[r] \in {"menu", "save"} => Len(b_book[r]) > 0
        /\ b_pc[r] = "load" => Len(b_book[r]) < b_i[r]
        /\ b_pc[r] = "save" => b_i[r] < Len(b_book[r])

Torn ==
    /\ PF!Writers # {} => b_torn
    /\ ~b_torn => b_file = b_saved

Reading(r) ==
    /\ ~b_torn /\ b_i[r] = Len(b_file)
    /\ \A k \in 1 .. Len(b_book[r]) : b_book[r][k] = b_file[k]

Writing(r) ==
    /\ PF!Writers = {r} /\ b_i[r] = Len(b_file)
    /\ \A k \in 1 .. Len(b_file) : b_file[k] = b_book[r][k]

Undisturbed ==
    \A r \in b_alone :
        /\ b_pc[r] = "load" => Reading(r)
        /\ b_pc[r] = "save" => Writing(r)

\* The inductive invariant.
BookInv == PF!TypeOK /\ BookSizes /\ Torn /\ Undisturbed

BookPlaces == {"off", "load", "menu", "save", "stuck", "done"}

LEMMA BooksAreSequences ==
    \A s : s \in PF!Books <=> s \in Seq(PF!Slots) /\ Len(s) <= MaxSize
<1>1. MaxSize \in Nat
  BY BookConstants
<1>2. ASSUME NEW s \in PF!Books PROVE s \in Seq(PF!Slots) /\ Len(s) <= MaxSize
  <2>1. PICK n \in 0 .. MaxSize : s \in [1 .. n -> PF!Slots]
    BY DEF PF!Books
  <2>2. n \in Nat /\ n <= MaxSize
    BY <1>1, <2>1
  <2> QED
    BY <2>1, <2>2
<1>3. ASSUME NEW s \in Seq(PF!Slots), Len(s) <= MaxSize PROVE s \in PF!Books
  <2>1. Len(s) \in 0 .. MaxSize /\ s \in [1 .. Len(s) -> PF!Slots]
    BY <1>1, <1>3, LenProperties
  <2> QED
    BY <2>1 DEF PF!Books
<1> QED
  BY <1>2, <1>3

\* The types, with the books as sequences.
BookTyped ==
    /\ b_file \in Seq(PF!Slots) /\ Len(b_file) <= MaxSize
    /\ b_saved \in Seq(PF!Slots) /\ Len(b_saved) <= MaxSize
    /\ b_torn \in BOOLEAN /\ b_alone \subseteq Procs
    /\ b_pc \in [Procs -> BookPlaces]
    /\ b_book \in [Procs -> Seq(PF!Slots)] /\ \A r \in Procs : Len(b_book[r]) <= MaxSize
    /\ b_i \in [Procs -> 0 .. MaxSize]
    /\ b_commands \in 0 .. MaxCommands /\ b_starts \in 0 .. BookStarts

LEMMA BookTypes == PF!TypeOK <=> BookTyped
<1>1. b_book \in [Procs -> PF!Books] <=>
          b_book \in [Procs -> Seq(PF!Slots)] /\ \A r \in Procs : Len(b_book[r]) <= MaxSize
  BY BooksAreSequences
<1> QED
  BY <1>1, BooksAreSequences DEF PF!TypeOK, BookPlaces, BookTyped

BookParts == BookTyped /\ BookSizes /\ Torn /\ Undisturbed

\* A step that changes the place of one run, and its book without losing what it has read.
LEMMA BookKept ==
    ASSUME BookParts, NEW r \in Procs, NEW place \in BookPlaces,
           NEW s \in Seq(PF!Slots), Len(s) <= MaxSize,
           b_pc' = [b_pc EXCEPT ![r] = place], b_book' = [b_book EXCEPT ![r] = s],
           place \notin {"load", "save"}, place = "menu" => Len(s) > 0,
           UNCHANGED <<b_file, b_i, b_saved, b_torn, b_alone>>,
           b_commands' \in 0 .. MaxCommands, b_starts' \in 0 .. BookStarts
    PROVE  BookParts'
<1>1. BookTyped'
  BY DEF BookTyped, BookParts
<1>2. BookSizes'
  BY DEF BookTyped, BookParts, BookSizes
<1>3. /\ b_pc \in [Procs -> BookPlaces] /\ b_book \in [Procs -> Seq(PF!Slots)]
      /\ b_alone \subseteq Procs
  BY DEF BookTyped, BookParts
<1>4. PF!Writers' \subseteq PF!Writers /\ \A q \in Procs \ {r} : q \in PF!Writers => q \in PF!Writers'
  BY <1>3 DEF PF!Writers
<1>5. Torn'
  BY <1>4 DEF BookParts, Torn
<1>6. ASSUME NEW q \in b_alone, b_pc'[q] \in {"load", "save"}
      PROVE  /\ b_pc'[q] = "load" => Reading(q)'
             /\ b_pc'[q] = "save" => Writing(q)'
  <2>1. q # r /\ b_pc'[q] = b_pc[q] /\ b_book'[q] = b_book[q]
    BY <1>3, <1>6
  <2>2. (b_pc[q] = "load" => Reading(q)) /\ (b_pc[q] = "save" => Writing(q))
    BY DEF BookParts, Undisturbed
  <2>3. b_pc[q] = "load" => Reading(q)'
    BY <2>1, <2>2 DEF Reading
  <2>4. b_pc[q] = "save" => Writing(q)'
    <3>1. ASSUME Writing(q) PROVE PF!Writers' = {q}
      BY <1>3, <1>4, <2>1, <3>1 DEF Writing
    <3> QED
      BY <2>1, <2>2, <3>1 DEF Writing
  <2> QED
    BY <2>1, <2>3, <2>4
<1>7. Undisturbed'
  BY <1>6 DEF Undisturbed
<1> QED
  BY <1>1, <1>2, <1>5, <1>7 DEF BookParts

LEMMA BookStart ==
    ASSUME BookParts, NEW r \in Procs, PF!Start(r)
    PROVE  BookParts'
<1>1. /\ b_pc \in [Procs -> BookPlaces] /\ b_book \in [Procs -> Seq(PF!Slots)]
      /\ b_alone \subseteq Procs /\ b_i \in [Procs -> 0 .. MaxSize]
      /\ b_file \in Seq(PF!Slots) /\ Len(b_file) <= MaxSize
      /\ b_starts' \in 0 .. BookStarts /\ b_commands' \in 0 .. MaxCommands
  BY BookConstants DEF BookParts, BookTyped, PF!Start
<1>2. ASSUME b_pc' = [b_pc EXCEPT ![r] = "menu"],
             b_book' = [b_book EXCEPT ![r] = PF!Blank(InitialSize)], UNCHANGED <<b_i, b_alone>>
      PROVE  BookParts'
  <2> DEFINE s == PF!Blank(InitialSize)
  <2>1. s \in Seq(PF!Slots) /\ Len(s) = InitialSize /\ NoContact \in PF!Slots
    BY BookConstants DEF PF!Blank, PF!Slots
  <2> HIDE DEF s
  <2>2. Len(s) > 0 /\ Len(s) <= MaxSize /\ "menu" \in BookPlaces
    BY <2>1, BookConstants DEF BookPlaces
  <2>3. b_book' = [b_book EXCEPT ![r] = s]
    BY <1>2 DEF s
  <2> QED
    BY <1>1, <1>2, <2>1, <2>2, <2>3, BookKept, ZenonT(60) DEF PF!Start
<1>3. ASSUME b_file # <<>>, b_pc' = [b_pc EXCEPT ![r] = "load"],
             b_book' = [b_book EXCEPT ![r] = <<>>], b_i' = [b_i EXCEPT ![r] = Len(b_file)],
             b_alone' = IF b_torn THEN b_alone \ {r} ELSE b_alone \cup {r},
             UNCHANGED <<b_file, b_saved, b_torn>>, b_pc[r] \in {"off", "done"}
      PROVE  BookParts'
  <2>1. Len(b_file) \in 0 .. MaxSize /\ Len(b_file) > 0
    BY <1>1, <1>3, EmptySeq
  <2>2. BookTyped'
    <3>1. <<>> \in Seq(PF!Slots) /\ Len(<<>>) <= MaxSize /\ "load" \in BookPlaces
      BY BookConstants, EmptySeq DEF BookPlaces
    <3>2. /\ b_book' \in [Procs -> Seq(PF!Slots)] /\ b_pc' \in [Procs -> BookPlaces]
          /\ b_i' \in [Procs -> 0 .. MaxSize] /\ b_alone' \subseteq Procs
      BY <1>1, <1>3, <2>1, <3>1
    <3>3. \A q \in Procs : Len(b_book'[q]) <= MaxSize
      BY <1>1, <1>3, <3>1 DEF BookParts, BookTyped
    <3> QED
      BY <1>1, <1>3, <3>2, <3>3 DEF BookParts, BookTyped
  <2>3. BookSizes'
    BY <1>1, <1>3, <2>1 DEF BookParts, BookSizes
  <2>4. PF!Writers' = PF!Writers
    BY <1>1, <1>3 DEF PF!Writers
  <2>5. Torn'
    BY <1>3, <2>4 DEF BookParts, Torn
  <2>6. ASSUME NEW q \in b_alone', q # r
        PROVE  /\ b_pc'[q] = "load" => Reading(q)'
               /\ b_pc'[q] = "save" => Writing(q)'
    <3>1. q \in b_alone /\ b_pc'[q] = b_pc[q] /\ b_book'[q] = b_book[q] /\ b_i'[q] = b_i[q]
      BY <1>1, <1>3, <2>6
    <3> QED
      BY <1>3, <2>4, <3>1 DEF BookParts, Undisturbed, Reading, Writing
  <2>7. r \in b_alone' => Reading(r)'
    BY <1>1, <1>3 DEF Reading
  <2>8. b_pc'[r] = "load"
    BY <1>1, <1>3
  <2>9. Undisturbed'
    BY <2>6, <2>7, <2>8 DEF Undisturbed
  <2> QED
    BY <2>2, <2>3, <2>5, <2>9 DEF BookParts
<1> QED
  BY <1>2, <1>3 DEF PF!Start, PF!Become

LEMMA BookRead ==
    ASSUME BookParts, NEW r \in Procs, PF!Read(r)
    PROVE  /\ BookParts'
           /\ r \in b_alone /\ b_pc'[r] = "menu" => b_book'[r] = b_saved
<1>1. /\ b_pc \in [Procs -> BookPlaces] /\ b_book \in [Procs -> Seq(PF!Slots)]
      /\ b_alone \subseteq Procs /\ b_i \in [Procs -> 0 .. MaxSize]
      /\ b_file \in Seq(PF!Slots) /\ Len(b_file) <= MaxSize
      /\ b_starts' \in 0 .. BookStarts /\ b_commands' \in 0 .. MaxCommands
      /\ b_pc[r] = "load"
      /\ UNCHANGED <<b_file, b_i, b_saved, b_torn, b_alone>>
  BY DEF BookParts, BookTyped, PF!Read
<1>2. CASE b_pc' = [b_pc EXCEPT ![r] = "done"] /\ UNCHANGED b_book
  <2>1. b_book' = [b_book EXCEPT ![r] = b_book[r]] /\ "done" \in BookPlaces /\ Len(b_book[r]) <= MaxSize
    BY <1>1, <1>2 DEF BookPlaces, BookParts, BookTyped
  <2>2. BookParts'
    BY <1>1, <1>2, <2>1, BookKept, Zenon
  <2> QED
    BY <1>1, <1>2, <2>2
<1> DEFINE n == Len(b_book[r]) + 1
           s == PF!Loaded(r, b_file[n])
<1>3. ASSUME n <= Len(b_file), b_book' = [b_book EXCEPT ![r] = s],
             b_pc' = [b_pc EXCEPT ![r] = IF Len(b_book'[r]) >= b_i[r] THEN "menu" ELSE "load"]
      PROVE  /\ BookParts'
             /\ r \in b_alone /\ b_pc'[r] = "menu" => b_book'[r] = b_saved
  <2>1. n \in 1 .. Len(b_file) /\ b_file[n] \in PF!Slots /\ n \in Nat
    BY <1>1, <1>3, LenProperties, ElementOfSeq
  <2>2. /\ s \in Seq(PF!Slots) /\ Len(s) = n /\ s[n] = b_file[n]
        /\ \A k \in 1 .. n - 1 : s[k] = b_book[r][k]
    BY <1>1, <2>1 DEF PF!Loaded
  <2>3. r \in b_alone => /\ ~b_torn /\ b_i[r] = Len(b_file) /\ b_file = b_saved
                         /\ \A k \in 1 .. n : s[k] = b_file[k]
    <3>1. r \in b_alone => Reading(r) /\ (~b_torn => b_file = b_saved)
      BY <1>1 DEF BookParts, Undisturbed, Torn
    <3>2. \A k \in 1 .. n : k = n \/ k \in 1 .. n - 1
      BY <2>1
    <3>3. r \in b_alone => \A k \in 1 .. n - 1 : s[k] = b_file[k]
      BY <2>2, <3>1 DEF Reading
    <3> QED
      BY <2>2, <3>1, <3>2, <3>3 DEF Reading
  <2>4. b_book'[r] = s
    BY <1>1, <1>3
  <2> HIDE DEF n, s
  <2>5. n <= MaxSize
    BY <1>1, <1>3, <2>1, BookConstants
  <2>6. CASE n >= b_i[r]
    <3>1. b_pc' = [b_pc EXCEPT ![r] = "menu"] /\ "menu" \in BookPlaces
      BY <1>3, <2>2, <2>4, <2>6, Zenon DEF BookPlaces
    <3>2. Len(s) > 0 /\ Len(s) <= MaxSize
      BY <2>1, <2>2, <2>5
    <3>3. BookParts'
      BY <1>1, <1>3, <2>2, <3>1, <3>2, BookKept, Zenon
    <3>4. r \in b_alone => b_book'[r] = b_saved
      <4> SUFFICES ASSUME r \in b_alone PROVE s = b_file
        BY <2>3, <2>4
      <4>1. n = Len(b_file)
        BY <2>1, <2>3, <2>6
      <4> QED
        BY <1>1, <2>2, <2>3, <4>1, SeqEqual
    <3> QED
      BY <3>3, <3>4
  <2>7. CASE n < b_i[r]
    <3>0. ~(Len(b_book'[r]) >= b_i[r])
      BY <1>1, <2>1, <2>2, <2>4, <2>7, BookConstants
    <3>1. b_pc' = [b_pc EXCEPT ![r] = "load"] /\ b_pc' = b_pc
      BY <1>1, <1>3, <3>0
    <3>2. BookTyped'
      BY <1>1, <1>3, <2>2, <2>5, <3>1, Zenon DEF BookParts, BookTyped, BookPlaces
    <3>3. BookSizes'
      BY <1>1, <1>3, <2>2, <2>7, <3>1 DEF BookParts, BookSizes
    <3>4. PF!Writers' = PF!Writers
      BY <3>1 DEF PF!Writers
    <3>5. Torn'
      BY <1>1, <3>4 DEF BookParts, Torn
    <3>6. ASSUME NEW q \in b_alone', q # r
          PROVE  /\ b_pc'[q] = "load" => Reading(q)'
                 /\ b_pc'[q] = "save" => Writing(q)'
      <4>1. q \in b_alone /\ b_pc'[q] = b_pc[q] /\ b_book'[q] = b_book[q] /\ b_i'[q] = b_i[q]
        BY <1>1, <1>3, <3>1, <3>6
      <4>2. /\ b_pc[q] = "load" => Reading(q)
            /\ b_pc[q] = "save" => Writing(q)
        BY <1>1, <4>1, Zenon DEF BookParts, Undisturbed
      <4>3. b_file' = b_file /\ b_torn' = b_torn
        BY <1>1
      <4>4. Reading(q) => Reading(q)'
        BY <4>1, <4>3, Zenon DEF Reading
      <4>5. Writing(q) => Writing(q)'
        BY <3>4, <4>1, <4>3, Zenon DEF Writing
      <4> QED
        BY <4>1, <4>2, <4>4, <4>5, Zenon
    <3>7. r \in b_alone' => Reading(r)'
      BY <1>1, <2>2, <2>3, <2>4 DEF Reading
    <3>8. Undisturbed'
      BY <1>1, <3>1, <3>6, <3>7 DEF Undisturbed
    <3> QED
      BY <1>1, <3>1, <3>2, <3>3, <3>5, <3>8 DEF BookParts
  <2>8. b_i[r] \in Nat
    BY <1>1, BookConstants
  <2> QED
    BY <2>1, <2>6, <2>7, <2>8
<1> QED
  BY <1>2, <1>3 DEF PF!Read, PF!Become

LEMMA BookExit ==
    ASSUME BookParts, NEW r \in Procs, PF!Exit(r)
    PROVE  BookParts'
<1>1. /\ b_pc \in [Procs -> BookPlaces] /\ b_book \in [Procs -> Seq(PF!Slots)]
      /\ b_alone \subseteq Procs /\ b_i \in [Procs -> 0 .. MaxSize]
      /\ b_starts' \in 0 .. BookStarts /\ b_commands' \in 0 .. MaxCommands
      /\ b_pc[r] = "menu" /\ UNCHANGED <<b_book, b_saved>>
  BY DEF BookParts, BookTyped, PF!Exit
<1>2. CASE b_pc' = [b_pc EXCEPT ![r] = "done"] /\ UNCHANGED <<b_file, b_i, b_torn, b_alone>>
  <2>1. b_book' = [b_book EXCEPT ![r] = b_book[r]] /\ "done" \in BookPlaces /\ Len(b_book[r]) <= MaxSize
    BY <1>1, <1>2 DEF BookPlaces, BookParts, BookTyped
  <2> QED
    BY <1>1, <1>2, <2>1, BookKept, ZenonT(40)
<1>3. ASSUME b_pc' = [b_pc EXCEPT ![r] = "save"], b_i' = [b_i EXCEPT ![r] = 0],
             b_file' = <<>>, b_torn' = TRUE, b_alone' = IF PF!Writers = {} THEN {r} ELSE {}
      PROVE  BookParts'
  <2>1. 0 \in 0 .. MaxSize /\ <<>> \in Seq(PF!Slots) /\ Len(<<>>) = 0 /\ Len(<<>>) <= MaxSize
    BY BookConstants, EmptySeq
  <2>2. BookTyped'
    BY <1>1, <1>3, <2>1 DEF BookParts, BookTyped, BookPlaces
  <2>3. BookSizes'
    BY <1>1, <1>3, <2>1 DEF BookParts, BookSizes
  <2>4. Torn'
    BY <1>3 DEF Torn
  <2>5. PF!Writers = {} => PF!Writers' = {r}
    BY <1>1, <1>3 DEF PF!Writers
  <2>6. r \in b_alone' => Writing(r)'
    BY <1>1, <1>3, <2>1, <2>5 DEF Writing
  <2>7. Undisturbed'
    BY <1>1, <1>3, <2>6 DEF Undisturbed
  <2> QED
    BY <2>2, <2>3, <2>4, <2>7 DEF BookParts
<1> QED
  BY <1>2, <1>3, Zenon DEF PF!Exit, PF!Become

\* What write() makes of the file.
LEMMA WrittenFile ==
    ASSUME NEW s \in Seq(PF!Slots), Len(s) <= MaxSize, NEW n \in 0 .. MaxSize - 1,
           NEW slot \in PF!Slots
    PROVE  /\ PF!Written(s, n, slot) \in Seq(PF!Slots) /\ Len(PF!Written(s, n, slot)) <= MaxSize
           /\ Len(s) = n => /\ Len(PF!Written(s, n, slot)) = n + 1
                            /\ \A k \in 1 .. n : PF!Written(s, n, slot)[k] = s[k]
                            /\ PF!Written(s, n, slot)[n + 1] = slot
<1> DEFINE top == IF Len(s) > n THEN Len(s) ELSE n + 1
           w == PF!Written(s, n, slot)
<1>1. MaxSize \in Nat /\ Len(s) \in Nat /\ n \in Nat /\ NoContact \in PF!Slots
  BY BookConstants, LenProperties DEF PF!Slots
<1>2. top \in Nat /\ top <= MaxSize
  BY <1>1
<1>3. w = [k \in 1 .. top |-> IF k = n + 1 THEN slot ELSE IF k <= Len(s) THEN s[k] ELSE NoContact]
  BY DEF PF!Written
<1> HIDE DEF top, w
<1>4. \A k \in 1 .. top : (IF k = n + 1 THEN slot ELSE IF k <= Len(s) THEN s[k] ELSE NoContact) \in PF!Slots
  BY <1>1, <1>2
<1>5. w \in [1 .. top -> PF!Slots]
  BY <1>3, <1>4
<1>6. w \in Seq(PF!Slots) /\ Len(w) = top
  BY <1>2, <1>5
<1>7. ASSUME Len(s) = n PROVE /\ top = n + 1 /\ w[n + 1] = slot /\ \A k \in 1 .. n : w[k] = s[k]
  <2>1. top = n + 1
    BY <1>1, <1>7 DEF top
  <2> QED
    BY <1>1, <1>3, <1>7, <2>1
<1> QED
  BY <1>2, <1>6, <1>7 DEF w

LEMMA BookWrite ==
    ASSUME BookParts, NEW r \in Procs, PF!Write(r)
    PROVE  BookParts'
<1>1. /\ b_pc \in [Procs -> BookPlaces] /\ b_book \in [Procs -> Seq(PF!Slots)]
      /\ b_alone \subseteq Procs /\ b_i \in [Procs -> 0 .. MaxSize]
      /\ b_file \in Seq(PF!Slots) /\ Len(b_file) <= MaxSize
      /\ b_saved \in Seq(PF!Slots) /\ Len(b_saved) <= MaxSize
      /\ b_starts' \in 0 .. BookStarts /\ b_commands' \in 0 .. MaxCommands
      /\ b_pc[r] = "save" /\ UNCHANGED <<b_book, b_alone>>
      /\ Len(b_book[r]) <= MaxSize /\ Len(b_book[r]) \in Nat /\ MaxSize \in Nat
  BY BookConstants, LenProperties DEF BookParts, BookTyped, PF!Write
<1>2. CASE b_pc' = [b_pc EXCEPT ![r] = "done"] /\ UNCHANGED <<b_file, b_i, b_torn, b_saved>>
  <2>1. b_book' = [b_book EXCEPT ![r] = b_book[r]] /\ "done" \in BookPlaces
    BY <1>1, <1>2 DEF BookPlaces
  <2> QED
    BY <1>1, <1>2, <2>1, BookKept, Zenon
<1> DEFINE n == b_i[r] + 1
           s == b_book[r]
           all == PF!AllWritten(r, n)
<1>3. ASSUME b_file' = PF!Written(b_file, b_i[r], s[n]), b_i' = [b_i EXCEPT ![r] = n],
             b_pc' = [b_pc EXCEPT ![r] = IF all THEN "done" ELSE "save"],
             b_torn' = ~(all /\ r \in b_alone),
             b_saved' = IF b_torn' THEN b_saved ELSE s
      PROVE  BookParts'
  <2>1. /\ r \in PF!Writers /\ b_torn /\ b_i[r] < Len(s) /\ b_i[r] \in 0 .. MaxSize - 1
        /\ n \in 1 .. Len(s) /\ s[n] \in PF!Slots /\ b_i[r] \in Nat
    <3>1. r \in PF!Writers /\ b_torn /\ b_i[r] < Len(s)
      BY <1>1 DEF PF!Writers, BookParts, Torn, BookSizes
    <3>2. b_i[r] \in Nat /\ b_i[r] \in 0 .. MaxSize - 1 /\ n \in 1 .. Len(s)
      BY <1>1, <3>1
    <3>3. s[n] \in PF!Slots
      BY <1>1, <3>2, ElementOfSeq
    <3> QED
      BY <3>1, <3>2, <3>3
  <2>2. /\ b_file' \in Seq(PF!Slots) /\ Len(b_file') <= MaxSize
        /\ Len(b_file) = b_i[r] => /\ Len(b_file') = n /\ b_file'[n] = s[n]
                                   /\ \A k \in 1 .. n - 1 : b_file'[k] = b_file[k]
    <3>1. n = b_i[r] + 1 /\ n - 1 = b_i[r]
      BY <2>1
    <3> HIDE DEF n, s
    <3>2. PICK slot \in PF!Slots, m \in 0 .. MaxSize - 1 : slot = s[n] /\ m = b_i[r]
      BY <2>1
    <3>3. /\ PF!Written(b_file, m, slot) \in Seq(PF!Slots)
          /\ Len(PF!Written(b_file, m, slot)) <= MaxSize
          /\ Len(b_file) = m => /\ Len(PF!Written(b_file, m, slot)) = m + 1
                                /\ \A k \in 1 .. m : PF!Written(b_file, m, slot)[k] = b_file[k]
                                /\ PF!Written(b_file, m, slot)[m + 1] = slot
      BY <1>1, WrittenFile
    <3>4. b_file' = PF!Written(b_file, m, slot)
      BY <1>3, <3>2
    <3> QED
      BY <3>1, <3>2, <3>3, <3>4, Zenon
  <2>3. all <=> n = Len(s)
    BY <1>1, <2>1 DEF PF!AllWritten, PF!Size
  <2>4. r \in b_alone => /\ PF!Writers = {r} /\ Len(b_file') = n
                         /\ \A k \in 1 .. n : b_file'[k] = s[k]
    <3> SUFFICES ASSUME r \in b_alone
                 PROVE  /\ PF!Writers = {r} /\ Len(b_file') = n
                        /\ \A k \in 1 .. n : b_file'[k] = s[k]
      OBVIOUS
    <3>1. Writing(r)
      BY <1>1 DEF BookParts, Undisturbed
    <3>2. \A k \in 1 .. n : k = n \/ k \in 1 .. n - 1
      BY <2>1
    <3>3. \A k \in 1 .. n - 1 : b_file'[k] = s[k]
      BY <2>1, <2>2, <3>1 DEF Writing
    <3> QED
      BY <2>2, <3>1, <3>2, <3>3 DEF Writing
  <2>5. ASSUME all, r \in b_alone PROVE b_file' = s
    BY <1>1, <2>2, <2>3, <2>4, <2>5, SeqEqual
  <2> DEFINE place == IF all THEN "done" ELSE "save"
  <2>6. b_pc' = [b_pc EXCEPT ![r] = place] /\ place \in BookPlaces /\ (place = "save" <=> ~all)
    BY <1>3 DEF BookPlaces
  <2>7. n \in 0 .. MaxSize /\ b_torn' \in BOOLEAN
    BY <1>1, <1>3, <2>1
  <2> HIDE DEF n, s, all, place
  <2>8. BookTyped'
    <3>1. b_saved' \in Seq(PF!Slots) /\ Len(b_saved') <= MaxSize
      BY <1>1, <1>3 DEF s
    <3> QED
      BY <1>1, <1>3, <2>2, <2>6, <2>7, <3>1 DEF BookParts, BookTyped
  <2>9. BookSizes'
    <3>1. ~all => n < Len(s)
      BY <1>1, <2>1, <2>3 DEF s
    <3>2. ASSUME NEW q \in Procs
          PROVE  /\ b_pc'[q] \in {"menu", "save"} => Len(b_book'[q]) > 0
                 /\ b_pc'[q] = "load" => Len(b_book'[q]) < b_i'[q]
                 /\ b_pc'[q] = "save" => b_i'[q] < Len(b_book'[q])
      <4>1. CASE q # r
        BY <1>1, <1>3, <2>6, <4>1 DEF BookParts, BookSizes
      <4>2. CASE q = r
        <5>1. b_pc'[q] = place /\ b_i'[q] = n /\ b_book'[q] = s
          BY <1>1, <1>3, <2>6, <4>2 DEF s
        <5> QED
          BY <1>1, <2>1, <2>6, <3>1, <5>1 DEF place, s
      <4> QED
        BY <4>1, <4>2
    <3> QED
      BY <3>2 DEF BookSizes
  <2>10. PF!Writers' = IF all THEN PF!Writers \ {r} ELSE PF!Writers
    BY <1>1, <2>1, <2>6, Zenon DEF PF!Writers, place
  <2>11. Torn'
    <3>1. CASE all /\ r \in b_alone
      BY <1>3, <2>4, <2>5, <2>10, <3>1 DEF Torn
    <3>2. CASE ~(all /\ r \in b_alone)
      BY <1>3, <3>2, Zenon DEF Torn
    <3> QED
      BY <3>1, <3>2
  <2>12. ASSUME NEW q \in b_alone, q # r PROVE b_pc'[q] \notin {"load", "save"}
    <3>1. b_pc'[q] = b_pc[q]
      BY <1>1, <2>6, <2>12
    <3>2. (b_pc[q] = "load" => Reading(q)) /\ (b_pc[q] = "save" => Writing(q))
      BY DEF BookParts, Undisturbed
    <3> QED
      BY <2>1, <2>12, <3>1, <3>2 DEF Reading, Writing
  <2>13. ASSUME r \in b_alone PROVE /\ b_pc'[r] # "load"
                                    /\ b_pc'[r] = "save" => Writing(r)'
    <3>1. b_pc'[r] = place
      BY <1>1, <2>6
    <3>2. ASSUME ~all PROVE Writing(r)'
      BY <1>1, <1>3, <2>4, <2>10, <2>13, <3>2 DEF Writing, s
    <3> QED
      BY <2>6, <3>1, <3>2 DEF place
  <2>14. Undisturbed'
    BY <1>1, <2>12, <2>13 DEF Undisturbed
  <2> QED
    BY <2>8, <2>9, <2>11, <2>14 DEF BookParts
<1> QED
  BY <1>2, <1>3 DEF PF!Write, PF!Become

\* The commands change a book and do not shorten it; they, a kill and the end of the input
\* may end a run.
LEMMA BookCommand ==
    ASSUME BookParts, NEW r \in Procs,
           PF!Add(r) \/ PF!Edit(r) \/ PF!Delete(r) \/ PF!EndOfInput(r) \/ PF!Dies(r)
    PROVE  BookParts'
<1>1. /\ b_pc \in [Procs -> BookPlaces] /\ b_book \in [Procs -> Seq(PF!Slots)]
      /\ b_commands \in 0 .. MaxCommands /\ b_starts \in 0 .. BookStarts
      /\ Len(b_book[r]) <= MaxSize /\ Len(b_book[r]) \in Nat
      /\ b_pc[r] = "menu" => Len(b_book[r]) > 0
  BY LenProperties DEF BookParts, BookTyped, BookSizes
<1>2. UNCHANGED <<b_file, b_i, b_saved, b_torn, b_alone>>
  BY Zenon DEF PF!Add, PF!Edit, PF!Delete, PF!EndOfInput, PF!Dies, PF!Command
<1>3. b_commands' \in 0 .. MaxCommands /\ b_starts' \in 0 .. BookStarts
  BY <1>1, BookConstants DEF PF!Add, PF!Edit, PF!Delete, PF!EndOfInput, PF!Dies, PF!Command
<1>4. ASSUME NEW s \in Seq(PF!Slots), Len(s) \in 1 .. MaxSize, b_pc[r] = "menu",
             b_book' = [b_book EXCEPT ![r] = s], UNCHANGED b_pc \/ PF!Become(r, "done")
      PROVE  BookParts'
  <2>1. PICK place \in {"menu", "done"} : b_pc' = [b_pc EXCEPT ![r] = place]
    BY <1>1, <1>4 DEF PF!Become
  <2>2. place \in BookPlaces /\ Len(s) > 0 /\ Len(s) <= MaxSize /\ place \notin {"load", "save"}
    BY <1>4, BookConstants DEF BookPlaces
  <2> QED
    BY <1>2, <1>3, <1>4, <2>1, <2>2, BookKept, Zenon
<1>5. ASSUME UNCHANGED b_book, NEW place \in {"done", "stuck"}, PF!Become(r, place)
      PROVE  BookParts'
  <2>1. place \in BookPlaces /\ b_book' = [b_book EXCEPT ![r] = b_book[r]]
    BY <1>1, <1>5 DEF BookPlaces
  <2> QED
    BY <1>1, <1>2, <1>3, <1>5, <2>1, BookKept, Zenon DEF PF!Become
<1>6. ASSUME UNCHANGED b_book, UNCHANGED b_pc, b_pc[r] = "menu" PROVE BookParts'
  <2>1. b_book' = [b_book EXCEPT ![r] = b_book[r]] /\ Len(b_book[r]) \in 1 .. MaxSize
    BY <1>1, <1>6
  <2> QED
    BY <1>1, <1>4, <1>6, <2>1, Zenon
<1>7. ASSUME NEW k \in 1 .. Len(b_book[r]), NEW c \in Text, b_pc[r] = "menu",
             b_book' = [b_book EXCEPT ![r][k] = c], UNCHANGED b_pc
      PROVE  BookParts'
  <2> DEFINE s == [b_book[r] EXCEPT ![k] = c]
  <2>1. s \in Seq(PF!Slots) /\ Len(s) = Len(b_book[r])
    <3>1. c \in PF!Slots
      BY DEF PF!Slots
    <3> QED
      BY <1>1, <3>1, ExceptSeq
  <2>2. b_book' = [b_book EXCEPT ![r] = s]
    BY <1>1, <1>7
  <2> HIDE DEF s
  <2>3. Len(s) \in 1 .. MaxSize
    BY <1>1, <1>7, <2>1, BookConstants
  <2> QED
    BY <1>4, <1>7, <2>1, <2>2, <2>3, Zenon
<1>8. CASE PF!Add(r)
  <2>1. b_pc[r] = "menu"
    BY <1>8 DEF PF!Add, PF!Command
  <2>2. PICK c \in Text :
          \/ (\E k \in PF!FirstEmpty(r) : b_book' = [b_book EXCEPT ![r][k] = c]) /\ UNCHANGED b_pc
          \/ /\ 2 * PF!Size(r) <= MaxSize
             /\ b_book' = [b_book EXCEPT ![r] = Append(b_book[r], c) \o PF!Blank(PF!Size(r) - 1)]
             /\ UNCHANGED b_pc
          \/ PF!Become(r, "done") /\ UNCHANGED b_book
    BY <1>1, <1>8, Zenon DEF PF!Add
  <2>3. ASSUME NEW k \in PF!FirstEmpty(r), b_book' = [b_book EXCEPT ![r][k] = c], UNCHANGED b_pc
        PROVE  BookParts'
    <3>1. k \in 1 .. Len(b_book[r])
      BY DEF PF!FirstEmpty, PF!Size
    <3> QED
      BY <1>7, <2>1, <2>3, <3>1, Zenon
  <2>4. ASSUME 2 * PF!Size(r) <= MaxSize, UNCHANGED b_pc,
               b_book' = [b_book EXCEPT ![r] = Append(b_book[r], c) \o PF!Blank(PF!Size(r) - 1)]
        PROVE  BookParts'
    <3> DEFINE l == Len(b_book[r])
               a == Append(b_book[r], c)
               b == PF!Blank(l - 1)
    <3>1. a \in Seq(PF!Slots) /\ Len(a) = l + 1
      <4>1. c \in PF!Slots
        BY DEF PF!Slots
      <4> QED
        BY <1>1, <4>1
    <3>2. b \in Seq(PF!Slots) /\ Len(b) = l - 1
      <4>1. l - 1 \in Nat /\ NoContact \in PF!Slots
        BY <1>1, <2>1 DEF PF!Slots
      <4> HIDE DEF l
      <4> QED
        BY <4>1 DEF PF!Blank
    <3>3. b_book' = [b_book EXCEPT ![r] = a \o b]
      BY <2>4 DEF PF!Size
    <3> HIDE DEF a, b
    <3>4. a \o b \in Seq(PF!Slots) /\ Len(a \o b) = Len(a) + Len(b)
      BY <3>1, <3>2, ConcatProperties, Zenon
    <3>5. Len(a \o b) \in 1 .. MaxSize
      BY <1>1, <2>1, <2>4, <3>1, <3>2, <3>4, BookConstants DEF PF!Size
    <3> QED
      BY <1>4, <2>1, <2>4, <3>3, <3>4, <3>5, Zenon
  <2> QED
    BY <1>5, <2>2, <2>3, <2>4, Zenon
<1>9. CASE PF!Edit(r)
  <2>1. b_pc[r] = "menu"
    BY <1>9 DEF PF!Edit, PF!Command
  <2>2. \/ /\ UNCHANGED b_pc
           /\ \E k \in 1 .. Len(b_book[r]), c \in Text : b_book' = [b_book EXCEPT ![r][k] = c]
        \/ UNCHANGED b_book /\ (UNCHANGED b_pc \/ PF!Become(r, "done"))
    BY <1>9 DEF PF!Edit, PF!Stray, PF!Size
  <2> QED
    BY <1>5, <1>6, <1>7, <2>1, <2>2
<1>10. CASE PF!Delete(r)
  <2>1. b_pc[r] = "menu"
    BY <1>10 DEF PF!Delete, PF!Command
  <2>2. PICK ids : /\ b_book' = [b_book EXCEPT ![r] = [k \in 1 .. PF!Size(r) |->
                          IF k - 1 \in ids THEN NoContact ELSE b_book[r][k]]]
                   /\ UNCHANGED b_pc \/ PF!Become(r, "done")
    BY <1>10, Zenon DEF PF!Delete
  <2> DEFINE s == [k \in 1 .. Len(b_book[r]) |-> IF k - 1 \in ids THEN NoContact ELSE b_book[r][k]]
  <2>3. \A k \in 1 .. Len(b_book[r]) : b_book[r][k] \in PF!Slots /\ NoContact \in PF!Slots
    BY <1>1, ElementOfSeq DEF PF!Slots
  <2>4. s \in [1 .. Len(b_book[r]) -> PF!Slots]
    BY <2>3
  <2>5. s \in Seq(PF!Slots) /\ Len(s) = Len(b_book[r])
    <3> HIDE DEF s
    <3> QED
      BY <1>1, <2>4
  <2>6. b_book' = [b_book EXCEPT ![r] = s]
    BY <2>2 DEF PF!Size
  <2> HIDE DEF s
  <2>7. Len(s) \in 1 .. MaxSize
    BY <1>1, <2>1, <2>5, BookConstants
  <2> QED
    BY <1>4, <2>1, <2>2, <2>5, <2>6, <2>7, Zenon
<1>11. CASE PF!EndOfInput(r) \/ PF!Dies(r)
  BY <1>5, <1>11 DEF PF!EndOfInput, PF!Dies
<1> QED
  BY <1>8, <1>9, <1>10, <1>11

LEMMA BookStep == BookInv /\ [PF!Next]_pfVars => BookInv'
<1>1. PF!TypeOK' <=> BookTyped'
  BY BookTypes, PTL
<1> SUFFICES ASSUME BookParts, [PF!Next]_pfVars PROVE BookParts'
  BY <1>1, BookTypes DEF BookInv, BookParts
<1>3. CASE UNCHANGED pfVars
  <2>1. PF!Writers' = PF!Writers
    BY <1>3 DEF pfVars, PF!Writers
  <2> QED
    BY <1>3, <2>1 DEF pfVars, BookParts, BookTyped, BookSizes, Torn, Undisturbed, Reading, Writing
<1>4. CASE PF!Next
  <2>1. PICK r \in Procs :
          \/ PF!Start(r) \/ PF!Read(r) \/ PF!Add(r) \/ PF!Edit(r) \/ PF!Delete(r)
          \/ PF!EndOfInput(r) \/ PF!Exit(r) \/ PF!Write(r) \/ PF!Dies(r)
    BY <1>4 DEF PF!Next
  <2> QED
    BY <2>1, BookStart, BookRead, BookCommand, BookExit, BookWrite
<1> QED
  BY <1>3, <1>4

LEMMA BookInvHolds == Spec => []BookInv
<1>1. Init => BookInv
  <2> SUFFICES ASSUME PF!Init PROVE BookInv
    BY DEF Init
  <2>1. <<>> \in Seq(PF!Slots) /\ Len(<<>>) = 0 /\ Len(<<>>) <= MaxSize
    BY BookConstants, EmptySeq
  <2>2. BookTyped
    <3>1. 0 \in 0 .. MaxSize /\ 0 \in 0 .. MaxCommands /\ 0 \in 0 .. BookStarts
      BY BookConstants
    <3>2. b_book \in [Procs -> Seq(PF!Slots)] /\ \A r \in Procs : Len(b_book[r]) <= MaxSize
      BY <2>1 DEF PF!Init
    <3> QED
      BY <2>1, <3>1, <3>2, Zenon DEF PF!Init, BookTyped, BookPlaces
  <2>3. BookSizes /\ Torn /\ Undisturbed
    BY DEF PF!Init, BookSizes, Torn, Undisturbed, PF!Writers
  <2> QED
    BY <2>2, <2>3, BookTypes DEF BookInv
<1>2. BookInv /\ [Next]_vars => BookInv'
  BY BookStep, EachStep
<1> QED
  BY <1>1, <1>2, PTL DEF Spec

\* A run that was left alone begins with the book of the run that saved last, whatever was
\* killed or failed in between.
THEOREM LoadsWholeHolds == Spec => LoadsWhole
<1>1. BookInv /\ [Next]_vars =>
          [\A r \in b_alone : b_pc[r] = "load" /\ b_pc'[r] = "menu" => b_book'[r] = b_saved]_pfVars
  <2> SUFFICES ASSUME BookParts, PF!Next, NEW q \in b_alone, b_pc[q] = "load", b_pc'[q] = "menu"
               PROVE  b_book'[q] = b_saved
    BY EachStep, BookTypes DEF BookInv, BookParts
  <2>1. b_pc \in [Procs -> BookPlaces] /\ b_alone \subseteq Procs
    BY DEF BookParts, BookTyped
  <2>2. PICK r \in Procs :
          \/ PF!Start(r) \/ PF!Read(r) \/ PF!Add(r) \/ PF!Edit(r) \/ PF!Delete(r)
          \/ PF!EndOfInput(r) \/ PF!Exit(r) \/ PF!Write(r) \/ PF!Dies(r)
    BY DEF PF!Next
  <2>3. CASE PF!Read(r)
    <3>1. r = q
      BY <2>1, <2>3 DEF PF!Read, PF!Become
    <3> QED
      BY <2>3, <3>1, BookRead
  <2>4. CASE PF!Start(r) \/ PF!Exit(r) \/ PF!Write(r)
    BY <2>1, <2>4 DEF PF!Start, PF!Exit, PF!Write, PF!Become
  <2>5. CASE PF!Add(r) \/ PF!Edit(r) \/ PF!Delete(r)
    BY <2>1, <2>5, Zenon DEF PF!Add, PF!Edit, PF!Delete, PF!Command, PF!Stray, PF!Become
  <2>6. CASE PF!EndOfInput(r) \/ PF!Dies(r)
    BY <2>1, <2>6 DEF PF!EndOfInput, PF!Dies, PF!Become
  <2> QED
    BY <2>2, <2>3, <2>4, <2>5, <2>6
<1> QED
  BY <1>1, BookInvHolds, PTL DEF Spec, LoadsWhole, PF!LoadsWhole, PF!vars, pfVars

-----------------------------------------------------------------------------
(* The echo server.                                                          *)

LEMMA EchoConstants ==
    /\ {MaxLines, MaxFlight, MaxCopies, EchoStarts} \subseteq Nat
BY ProgramsAssumption DEF RE!EchoAssumption

\* Where the elements of a sequence are when one is taken out.
LEMMA RemoveAtElements ==
    ASSUME NEW S, NEW s \in Seq(S), NEW k \in DOMAIN s
    PROVE  /\ RE!RemoveAt(s, k) \in Seq(S) /\ Len(RE!RemoveAt(s, k)) = Len(s) - 1
           /\ \A i \in 1 .. Len(s) - 1 : RE!RemoveAt(s, k)[i] = s[IF i < k THEN i ELSE i + 1]
<1> DEFINE a == SubSeq(s, 1, k - 1)
           b == SubSeq(s, k + 1, Len(s))
<1>1. k \in 1 .. Len(s) /\ Len(s) \in Nat
  OBVIOUS
<1>2. /\ a \in Seq(S) /\ Len(a) = k - 1
      /\ \A i \in 1 .. k - 1 : a[i] = s[i]
  BY <1>1, SubSeqProperties
<1>3. /\ b \in Seq(S) /\ Len(b) = Len(s) - k
      /\ \A i \in 1 .. Len(s) - k : b[i] = s[k + i]
  BY <1>1, SubSeqProperties
<1>4. RE!RemoveAt(s, k) = a \o b
  BY DEF RE!RemoveAt
<1> HIDE DEF a, b
<1>5. /\ a \o b \in Seq(S) /\ Len(a \o b) = Len(s) - 1
      /\ \A i \in 1 .. Len(s) - 1 : (a \o b)[i] = IF i <= k - 1 THEN a[i] ELSE b[i - (k - 1)]
  <2>1. Len(a) + Len(b) = Len(s) - 1
    BY <1>1, <1>2, <1>3
  <2>2. /\ a \o b \in Seq(S) /\ Len(a \o b) = Len(a) + Len(b)
        /\ \A i \in 1 .. Len(a) + Len(b) : (a \o b)[i] = IF i <= Len(a) THEN a[i] ELSE b[i - Len(a)]
    <3>1. a \in Seq(S) /\ b \in Seq(S)
      BY <1>2, <1>3
    <3> QED
      BY <3>1, ConcatProperties, Zenon
  <2>3. Len(a) = k - 1
    BY <1>2
  <2> QED
    BY <2>1, <2>2, <2>3, Zenon
<1>6. ASSUME NEW i \in 1 .. Len(s) - 1 PROVE (a \o b)[i] = s[IF i < k THEN i ELSE i + 1]
  <2>1. CASE i < k
    BY <1>1, <1>2, <1>5, <2>1
  <2>2. CASE i >= k
    <3>1. i - (k - 1) \in 1 .. Len(s) - k /\ k + (i - (k - 1)) = i + 1
      BY <1>1, <2>2
    <3>2. (a \o b)[i] = b[i - (k - 1)]
      <4>1. ~(i <= k - 1)
        BY <1>1, <2>2
      <4> QED
        BY <1>5, <4>1, Zenon
    <3>3. b[i - (k - 1)] = s[k + (i - (k - 1))]
      BY <1>3, <3>1, Zenon
    <3>4. ~(i < k)
      BY <1>1, <2>2
    <3> QED
      BY <3>1, <3>2, <3>3, <3>4, Zenon
  <2>3. i < k \/ i >= k
    BY <1>1
  <2> QED
    BY <2>1, <2>2, <2>3, Zenon
<1> QED
  BY <1>4, <1>5, <1>6

\* Where the elements of a sequence are when one is put into it.
LEMMA InsertElements ==
    ASSUME NEW S, NEW s \in Seq(S), NEW k \in 1 .. Len(s) + 1, NEW e \in S
    PROVE  /\ RE!InsertAt(s, k, e) \in Seq(S) /\ Len(RE!InsertAt(s, k, e)) = Len(s) + 1
           /\ \A i \in 1 .. Len(s) + 1 :
                 RE!InsertAt(s, k, e)[i] = IF i < k THEN s[i]
                                              ELSE IF i = k THEN e ELSE s[i - 1]
<1> DEFINE a == SubSeq(s, 1, k - 1)
           b == SubSeq(s, k, Len(s))
           m == a \o <<e>>
<1>1. k \in 1 .. Len(s) + 1 /\ Len(s) \in Nat
  BY LenProperties
<1>2. /\ a \in Seq(S) /\ Len(a) = k - 1
      /\ \A i \in 1 .. k - 1 : a[i] = s[i]
  BY <1>1, SubSeqProperties
<1>3. /\ b \in Seq(S) /\ Len(b) = Len(s) - k + 1
      /\ \A i \in 1 .. Len(s) - k + 1 : b[i] = s[k + i - 1]
  BY <1>1, SubSeqProperties
<1> HIDE DEF a, b
<1>5. m \in Seq(S) /\ Len(m) = k /\ m[k] = e /\ \A i \in 1 .. k - 1 : m[i] = s[i]
  <2>1. <<e>> \in Seq(S) /\ Len(<<e>>) = 1 /\ <<e>>[1] = e
    BY <1>1
  <2>2. /\ m \in Seq(S) /\ Len(m) = k
        /\ \A i \in 1 .. k : m[i] = IF i <= k - 1 THEN a[i] ELSE <<e>>[i - (k - 1)]
    BY <1>1, <1>2, <2>1, ConcatProperties
  <2>3. ASSUME NEW i \in 1 .. k - 1 PROVE m[i] = s[i]
    BY <1>1, <1>2, <2>2
  <2>4. m[k] = e
    <3>1. ~(k <= k - 1) /\ k - (k - 1) = 1 /\ k \in 1 .. k
      BY <1>1
    <3>2. m[k] = <<e>>[1]
      BY <2>2, <3>1
    <3> QED
      BY <2>1, <3>2, Zenon
  <2> QED
    BY <2>2, <2>3, <2>4
<1> HIDE DEF m
<1>6. /\ m \o b \in Seq(S) /\ Len(m \o b) = Len(s) + 1
      /\ \A i \in 1 .. Len(s) + 1 : (m \o b)[i] = IF i <= k THEN m[i] ELSE b[i - k]
  <2>1. Len(m) + Len(b) = Len(s) + 1
    BY <1>1, <1>3, <1>5
  <2>2. /\ m \o b \in Seq(S) /\ Len(m \o b) = Len(m) + Len(b)
        /\ \A i \in 1 .. Len(m) + Len(b) : (m \o b)[i] = IF i <= Len(m) THEN m[i] ELSE b[i - Len(m)]
    BY <1>3, <1>5, ConcatProperties
  <2> QED
    BY <1>5, <2>1, <2>2
<1>7. ASSUME NEW i \in 1 .. Len(s) + 1
      PROVE  (m \o b)[i] = IF i < k THEN s[i] ELSE IF i = k THEN e ELSE s[i - 1]
  <2>1. CASE i < k
    BY <1>1, <1>5, <1>6, <2>1
  <2>2. CASE i > k
    <3>1. i - k \in 1 .. Len(s) - k + 1 /\ k + (i - k) - 1 = i - 1
      BY <1>1, <2>2
    <3>2. (m \o b)[i] = b[i - k]
      BY <1>1, <1>6, <2>2
    <3>3. b[i - k] = s[i - 1]
      BY <1>3, <3>1
    <3> QED
      BY <1>1, <2>2, <3>2, <3>3
  <2>3. CASE i = k
    BY <1>1, <1>5, <1>6, <2>3
  <2>4. i < k \/ i > k \/ i = k
    BY <1>1
  <2> QED
    BY <2>1, <2>2, <2>3, <2>4, Zenon
<1>8. RE!InsertAt(s, k, e) = m \o b
  BY DEF m, a, b, RE!InsertAt
<1> QED
  BY <1>6, <1>7, <1>8

\* Where they are when one of them is repeated.
LEMMA RepeatElements ==
    ASSUME NEW S, NEW s \in Seq(S), NEW k \in DOMAIN s
    PROVE  /\ RE!InsertAt(s, k, s[k]) \in Seq(S) /\ Len(RE!InsertAt(s, k, s[k])) = Len(s) + 1
           /\ \A i \in 1 .. Len(s) + 1 :
                 RE!InsertAt(s, k, s[k])[i] = s[IF i <= k THEN i ELSE i - 1]
<1>1. k \in 1 .. Len(s) + 1 /\ s[k] \in S /\ Len(s) \in Nat
  BY LenProperties
<1>2. PICK j \in 1 .. Len(s) + 1, e \in S : j = k /\ e = s[k]
  BY <1>1
<1>3. RE!InsertAt(s, j, e) \in Seq(S) /\ Len(RE!InsertAt(s, j, e)) = Len(s) + 1
  BY InsertElements
<1>4. \A i \in 1 .. Len(s) + 1 :
         RE!InsertAt(s, j, e)[i] = IF i < j THEN s[i] ELSE IF i = j THEN e ELSE s[i - 1]
  BY InsertElements
<1>5. RE!InsertAt(s, k, s[k]) = RE!InsertAt(s, j, e)
  BY <1>2, Zenon
<1> QED
  BY <1>1, <1>2, <1>3, <1>4, <1>5

Entries == [who : Procs, counter : Nat \ {0}]
Datagrams == [from : Procs, text : {"line", "shutdown"}, k : 0 .. MaxLines]

\* Nobody is in the list of clients twice, and a server that does not run has none.
OneEntry == \A i, j \in DOMAIN e_clients : e_clients[i].who = e_clients[j].who => i = j
OffNoEntry == e_server = "off" => e_clients = <<>>

\* The counter of a client, 0 when it is not in the list.
Counter(c) == IF RE!find_client(c) = 0 THEN 0 ELSE e_clients[RE!find_client(c)].counter

\* The datagrams of a client on their way, and 0 for the list they come to; what the counter
\* is behind each of them.
Points(c) == {0} \cup {j \in DOMAIN e_up : e_up[j].from = c}
Value(c, j) == IF j = 0 THEN Counter(c) ELSE IF RE!Bye(e_up[j]) THEN 0 ELSE e_up[j].k

\* Where the counter of a client has to stand when nothing is on its way.
Standing(c) == IF e_pc[c] \in {"input", "leave"} THEN e_spoken[c] ELSE 0

\* The life of a client that nothing has cut off: each line on its way is the one after what
\* the counter is before it, and behind the last of them all it is where it has to stand.
EchoCourse(c) ==
    /\ \A i, j \in Points(c) :
          i < j /\ (\A h \in Points(c) : ~(i < h /\ h < j)) /\ ~RE!Bye(e_up[j])
              => e_up[j].k = Value(c, i) + 1
    /\ \A i \in Points(c) : (\A h \in Points(c) : h <= i) => Value(c, i) = Standing(c)

EchoCourses == \A c \in Procs \ e_lapsed : EchoCourse(c) /\ e_reply[c].n = e_reply[c].k

SpokenLines == \A c \in Procs : e_spoken[c] <= e_lines

\* The inductive invariant.
EchoInv == RE!TypeOK /\ SpokenLines /\ OneEntry /\ OffNoEntry /\ EchoCourses

Listed == e_clients \in Seq(Entries) /\ OneEntry

-----------------------------------------------------------------------------
(* The list of clients.                                                      *)

\* The first of the elements that pass a test, when there is at most one.
LEMMA FindOnly ==
    ASSUME NEW S, NEW s \in Seq(S), NEW c, \A i, j \in DOMAIN s : s[i].who = s[j].who => i = j
    PROVE  LET f == RE!SelectInSeq(s, LAMBDA r : r.who = c)
           IN  /\ (\A i \in DOMAIN s : s[i].who # c) => f = 0
               /\ \A i \in DOMAIN s : s[i].who = c => f = i
<1> DEFINE I == {i \in 1 .. Len(s) : s[i].who = c}
           f == RE!SelectInSeq(s, LAMBDA r : r.who = c)
<1>1. DOMAIN s = 1 .. Len(s) /\ Len(s) \in Nat
  BY LenProperties
<1>2. f = IF I # {} THEN RE!Min(I) ELSE 0
  BY DEF RE!SelectInSeq
<1>3. ASSUME NEW i \in DOMAIN s, s[i].who = c PROVE f = i
  <2>1. I = {i}
    BY <1>1, <1>3
  <2>2. i =< i
    BY <1>1
  <2>3. RE!Min({i}) = i
    BY <2>2 DEF RE!Min
  <2> QED
    BY <1>2, <2>1, <2>3, Zenon
<1>4. ASSUME \A i \in DOMAIN s : s[i].who # c PROVE f = 0
  <2>1. I = {}
    BY <1>1, <1>4
  <2> QED
    BY <1>2, <2>1
<1> QED
  BY <1>3, <1>4, Zenon

LEMMA Found ==
    Listed =>
        \A c : \/ RE!find_client(c) = 0 /\ (\A i \in DOMAIN e_clients : e_clients[i].who # c)
               \/ RE!find_client(c) \in DOMAIN e_clients /\ e_clients[RE!find_client(c)].who = c
<1> SUFFICES ASSUME Listed, NEW c
             PROVE  \/ RE!find_client(c) = 0 /\ (\A i \in DOMAIN e_clients : e_clients[i].who # c)
                    \/ RE!find_client(c) \in DOMAIN e_clients /\ e_clients[RE!find_client(c)].who = c
  OBVIOUS
<1>1. e_clients \in Seq(Entries)
  BY DEF Listed
<1>2. /\ (\A i \in DOMAIN e_clients : e_clients[i].who # c) => RE!find_client(c) = 0
      /\ \A i \in DOMAIN e_clients : e_clients[i].who = c => RE!find_client(c) = i
  BY <1>1, FindOnly, Zenon DEF RE!find_client, OneEntry, Listed
<1> QED
  BY <1>2

\* Counters, entry by entry.
LEMMA Counters ==
    Listed =>
        /\ \A d : \A i \in DOMAIN e_clients : e_clients[i].who = d => Counter(d) = e_clients[i].counter
        /\ \A d : (\A i \in DOMAIN e_clients : e_clients[i].who # d) => Counter(d) = 0
        /\ \A d : Counter(d) \in Nat
<1> SUFFICES ASSUME Listed
             PROVE  /\ \A d : \A i \in DOMAIN e_clients : e_clients[i].who = d => Counter(d) = e_clients[i].counter
                    /\ \A d : (\A i \in DOMAIN e_clients : e_clients[i].who # d) => Counter(d) = 0
                    /\ \A d : Counter(d) \in Nat
  OBVIOUS
<1>1. e_clients \in Seq(Entries)
  BY DEF Listed
<1>2. \A i \in DOMAIN e_clients : i # 0 /\ e_clients[i] \in Entries
  BY <1>1, LenProperties, ElementOfSeq
<1>3. \A i \in DOMAIN e_clients : e_clients[i].counter \in Nat
  BY <1>2 DEF Entries
<1>4. \A i \in DOMAIN e_clients : RE!find_client(e_clients[i].who) = i
  BY Found DEF Listed, OneEntry
<1> QED
  BY <1>2, <1>3, <1>4, Found DEF Counter

LEMMA CountersNext ==
    (Listed =>
        /\ \A d : \A i \in DOMAIN e_clients : e_clients[i].who = d => Counter(d) = e_clients[i].counter
        /\ \A d : (\A i \in DOMAIN e_clients : e_clients[i].who # d) => Counter(d) = 0
        /\ \A d : Counter(d) \in Nat)'
BY Counters, PTL

LEMMA CounterKept ==
    ASSUME Listed, Listed', NEW x,
           \A i \in DOMAIN e_clients : e_clients[i].who = x =>
              \E j \in DOMAIN e_clients' : e_clients'[j] = e_clients[i],
           \A j \in DOMAIN e_clients' : e_clients'[j].who = x =>
              \E i \in DOMAIN e_clients : e_clients'[j] = e_clients[i]
    PROVE  Counter(x)' = Counter(x)
<1>1. /\ \A d : \A i \in DOMAIN e_clients : e_clients[i].who = d => Counter(d) = e_clients[i].counter
      /\ \A d : (\A i \in DOMAIN e_clients : e_clients[i].who # d) => Counter(d) = 0
  BY Counters
<1>2. /\ \A d : \A i \in DOMAIN e_clients' : e_clients'[i].who = d => Counter(d)' = e_clients'[i].counter
      /\ \A c : (\A i \in DOMAIN e_clients' : e_clients'[i].who # c) => Counter(c)' = 0
  BY CountersNext
<1>3. CASE \E i \in DOMAIN e_clients : e_clients[i].who = x
  <2>1. PICK i \in DOMAIN e_clients : e_clients[i].who = x
    BY <1>3
  <2>2. PICK j \in DOMAIN e_clients' : e_clients'[j] = e_clients[i]
    BY <2>1
  <2>3. Counter(x) = e_clients[i].counter
    BY <1>1, <2>1
  <2>4. Counter(x)' = e_clients'[j].counter
    BY <1>2, <2>1, <2>2
  <2> QED
    BY <2>2, <2>3, <2>4
<1>4. CASE ~ \E i \in DOMAIN e_clients : e_clients[i].who = x
  BY <1>1, <1>2, <1>4
<1> QED
  BY <1>3, <1>4

\* The list when one of its entries has been given a new counter, or a new one is put before
\* it.
LEMMA EntryCounted ==
    ASSUME Listed, Listed', NEW c, NEW n, NEW k \in DOMAIN e_clients',
           e_clients'[k] = [who |-> c, counter |-> n],
           \A d : d # c =>
              /\ \A i \in DOMAIN e_clients : e_clients[i].who = d =>
                    \E j \in DOMAIN e_clients' : e_clients'[j] = e_clients[i]
              /\ \A j \in DOMAIN e_clients' : e_clients'[j].who = d =>
                    \E i \in DOMAIN e_clients : e_clients'[j] = e_clients[i]
    PROVE  Counter(c)' = n /\ \A d : d # c => Counter(d)' = Counter(d)
<1>1. \A d : d # c => Counter(d)' = Counter(d)
  BY CounterKept
<1>2. \A i \in DOMAIN e_clients' : e_clients'[i].who = c => Counter(c)' = e_clients'[i].counter
  BY CountersNext
<1>3. e_clients'[k].who = c /\ e_clients'[k].counter = n
  OBVIOUS
<1>4. Counter(c)' = n
  BY <1>2, <1>3
<1> QED
  BY <1>1, <1>4

LEMMA EchoEffect ==
    ASSUME Listed, NEW c \in Procs, NEW k, RE!Echo(c, k)
    PROVE  /\ Listed' /\ Counter(c)' = Counter(c) + 1
           /\ \A d : d # c => Counter(d)' = Counter(d)
           /\ e_reply' = [e_reply EXCEPT ![c] = [k |-> k, n |-> Counter(c) + 1]]
<1> DEFINE f == RE!find_client(c)
           list == IF f = 0 THEN RE!add_client(c) ELSE e_clients
           at == RE!SelectInSeq(list, LAMBDA r : r.who = c)
<1>1. /\ e_clients' = [list EXCEPT ![at].counter = @ + 1]
      /\ e_reply' = [e_reply EXCEPT ![c] = [k |-> k, n |-> list[at].counter + 1]]
  BY DEF RE!Echo
<1>2. /\ e_clients \in Seq(Entries) /\ DOMAIN e_clients = 1 .. Len(e_clients)
      /\ Len(e_clients) \in Nat /\ \A i \in DOMAIN e_clients : e_clients[i] \in Entries
      /\ \A i, j \in DOMAIN e_clients : e_clients[i].who = e_clients[j].who => i = j
  BY LenProperties, ElementOfSeq DEF Listed, OneEntry
<1>3. \/ f = 0 /\ Counter(c) = 0 /\ (\A i \in DOMAIN e_clients : e_clients[i].who # c)
      \/ f # 0 /\ f \in DOMAIN e_clients /\ e_clients[f].who = c /\ Counter(c) = e_clients[f].counter
  BY <1>2, Found DEF Counter
<1>4. CASE f = 0
  <2> DEFINE new == [who |-> c, counter |-> 0]
             Wide == [who : Procs, counter : Nat]
  <2>1. list = <<new>> \o e_clients
    BY <1>4 DEF RE!add_client
  <2>2. <<new>> \in Seq(Wide) /\ Len(<<new>>) = 1 /\ <<new>>[1] = new /\ e_clients \in Seq(Wide)
    <3>1. new \in Wide /\ Entries \subseteq Wide
      BY DEF Entries
    <3> HIDE DEF new, Wide
    <3> QED
      BY <1>2, <3>1, SeqMonotonic
  <2> HIDE DEF list
  <2>3. /\ list \in Seq(Wide) /\ Len(list) = Len(e_clients) + 1
        /\ list[1] = new /\ \A i \in DOMAIN e_clients : list[i + 1] = e_clients[i]
    <3>1. /\ list \in Seq(Wide) /\ Len(list) = 1 + Len(e_clients)
          /\ \A i \in 1 .. 1 + Len(e_clients) : list[i] = IF i <= 1 THEN <<new>>[1] ELSE e_clients[i - 1]
      <4>1. /\ <<new>> \o e_clients \in Seq(Wide)
            /\ Len(<<new>> \o e_clients) = Len(<<new>>) + Len(e_clients)
            /\ \A i \in 1 .. Len(<<new>>) + Len(e_clients) : (<<new>> \o e_clients)[i] =
                  IF i <= Len(<<new>>) THEN <<new>>[i] ELSE e_clients[i - Len(<<new>>)]
        BY <2>2, ConcatProperties
      <4> HIDE DEF new, Wide
      <4>2. ASSUME NEW i \in 1 .. 1 + Len(e_clients)
            PROVE  list[i] = IF i <= 1 THEN <<new>>[1] ELSE e_clients[i - 1]
        <5>1. i <= 1 => i = 1
          BY <1>2
        <5> QED
          BY <2>1, <2>2, <4>1, <5>1
      <4> QED
        BY <2>1, <2>2, <4>1, <4>2
    <3>2. list[1] = new
      BY <1>2, <2>2, <3>1
    <3>3. ASSUME NEW i \in DOMAIN e_clients PROVE list[i + 1] = e_clients[i]
      <4>1. i + 1 \in 1 .. 1 + Len(e_clients) /\ ~(i + 1 <= 1) /\ (i + 1) - 1 = i
        BY <1>2
      <4> QED
        BY <3>1, <4>1
    <3> QED
      BY <1>2, <3>1, <3>2, <3>3
  <2>4. /\ DOMAIN list = 1 .. Len(e_clients) + 1
        /\ \A i \in DOMAIN list : i = 1 \/ (i - 1 \in DOMAIN e_clients /\ list[i] = e_clients[i - 1])
    <3>1. DOMAIN list = 1 .. Len(e_clients) + 1
      BY <2>3, LenProperties
    <3>2. ASSUME NEW i \in DOMAIN list, i # 1
          PROVE  i - 1 \in DOMAIN e_clients /\ list[i] = e_clients[i - 1]
      <4>1. i - 1 \in DOMAIN e_clients /\ (i - 1) + 1 = i
        BY <1>2, <3>1, <3>2
      <4> QED
        BY <2>3, <4>1
    <3> QED
      BY <3>1, <3>2
  <2>5. 1 \in DOMAIN list
    BY <1>2, <2>4
  <2>6. ASSUME NEW i \in DOMAIN list, NEW j \in DOMAIN list, list[i].who = list[j].who
        PROVE  i = j
    <3>1. /\ i = 1 \/ (list[i].who # c /\ i - 1 \in DOMAIN e_clients /\ list[i] = e_clients[i - 1])
          /\ j = 1 \/ (list[j].who # c /\ j - 1 \in DOMAIN e_clients /\ list[j] = e_clients[j - 1])
      BY <1>3, <1>4, <2>4
    <3>2. list[1].who = c
      BY <2>3
    <3>3. i = 1 \/ j = 1 \/ i - 1 = j - 1
      BY <1>2, <2>6, <3>1
    <3> QED
      BY <1>2, <2>4, <2>6, <3>1, <3>2, <3>3
  <2>7. at = 1
    <3>1. list[1].who = c
      BY <2>3
    <3>2. \A i, j \in DOMAIN list : list[i].who = list[j].who => i = j
      BY <2>6
    <3> HIDE DEF new, Wide
    <3>3. list \in Seq(Wide)
      BY <2>3
    <3>4. \A i \in DOMAIN list : list[i].who = c => at = i
      BY <3>2, <3>3, FindOnly, Zenon
    <3> QED
      BY <2>5, <3>1, <3>4, Zenon
  <2>8. /\ e_clients' \in Seq(Wide) /\ DOMAIN e_clients' = DOMAIN list
        /\ e_clients'[1] = [who |-> c, counter |-> 1]
        /\ \A i \in DOMAIN list : i # 1 => e_clients'[i] = list[i]
    <3>1. list \in [DOMAIN list -> Wide]
      BY <2>3, LenProperties, Zenon
    <3>2. e_clients' = [list EXCEPT ![1] = [who |-> c, counter |-> 1]]
      <4>1. e_clients' = [list EXCEPT ![1] = [list[1] EXCEPT !.counter = @ + 1]]
        BY <1>1, <2>7, Zenon
      <4>2. [new EXCEPT !.counter = @ + 1] = [who |-> c, counter |-> 1]
        OBVIOUS
      <4> QED
        BY <2>3, <4>1, <4>2, Zenon
    <3>3. [who |-> c, counter |-> 1] \in Wide
      OBVIOUS
    <3> HIDE DEF Wide
    <3> QED
      BY <2>3, <2>4, <2>5, <3>2, <3>3, ExceptSeq, LenProperties
  <2>9. Listed'
    <3>1. \A i \in DOMAIN e_clients' : e_clients'[i] \in Entries
      BY <1>2, <2>4, <2>8 DEF Entries
    <3>2. e_clients' \in Seq(Entries)
      <4>1. Len(e_clients') \in Nat /\ e_clients' \in [1 .. Len(e_clients') -> Wide]
        BY <2>8, LenProperties, Zenon
      <4>2. e_clients' \in [1 .. Len(e_clients') -> Entries]
        BY <3>1, <4>1
      <4> QED
        BY <4>1, <4>2
    <3>3. ASSUME NEW i \in DOMAIN list PROVE e_clients'[i].who = list[i].who
      <4>1. new.who = c
        OBVIOUS
      <4>2. CASE i = 1
        BY <2>3, <2>8, <4>1, <4>2
      <4>3. CASE i # 1
        BY <2>8, <4>3
      <4> QED
        BY <4>2, <4>3
    <3>4. OneEntry'
      BY <2>6, <2>8, <3>3 DEF OneEntry
    <3> QED
      BY <3>2, <3>4 DEF Listed
  <2>10. /\ \A i \in DOMAIN e_clients : \E j \in DOMAIN e_clients' : e_clients'[j] = e_clients[i]
         /\ \A j \in DOMAIN e_clients' : j = 1 \/ \E i \in DOMAIN e_clients : e_clients'[j] = e_clients[i]
    <3>1. ASSUME NEW i \in DOMAIN e_clients
          PROVE  i + 1 \in DOMAIN e_clients' /\ e_clients'[i + 1] = e_clients[i]
      <4>1. i + 1 \in DOMAIN list /\ i + 1 # 1
        BY <1>2, <2>4
      <4> QED
        BY <2>3, <2>8, <4>1
    <3> QED
      BY <2>4, <2>8, <3>1
  <2>11. Counter(c)' = 1 /\ \A d : d # c => Counter(d)' = Counter(d)
    <3>1. 1 \in DOMAIN e_clients' /\ e_clients'[1].who = c
      BY <2>5, <2>8
    <3> QED
      BY <2>8, <2>9, <2>10, <3>1, EntryCounted
  <2>12. list[at].counter = 0
    BY <2>3, <2>7
  <2> QED
    BY <1>1, <1>3, <1>4, <2>9, <2>11, <2>12
<1>5. CASE f # 0
  <2>1. list = e_clients
    BY <1>5
  <2>2. at = f
    BY <1>2, <1>3, <1>5, <2>1, FindOnly, Zenon
  <2> HIDE DEF list, at
  <2>3. e_clients[f] = [who |-> c, counter |-> Counter(c)] /\ Counter(c) \in Nat
    BY <1>2, <1>3, <1>5 DEF Entries
  <2> DEFINE r == [who |-> c, counter |-> Counter(c) + 1]
  <2>4. e_clients' = [e_clients EXCEPT ![f] = r] /\ r \in Entries
    <3>1. e_clients' = [e_clients EXCEPT ![f] = [e_clients[f] EXCEPT !.counter = @ + 1]]
      BY <1>1, <2>1, <2>2
    <3>2. [e_clients[f] EXCEPT !.counter = @ + 1] = r
      BY <2>3
    <3>3. r \in Entries
      BY <2>3 DEF Entries
    <3>4. e_clients' = [e_clients EXCEPT ![f] = r]
      <4> HIDE DEF r, f
      <4> QED
        BY <3>1, <3>2, Zenon
    <3> QED
      BY <3>3, <3>4
  <2>5. /\ e_clients' \in Seq(Entries) /\ DOMAIN e_clients' = DOMAIN e_clients
        /\ e_clients'[f] = r /\ \A i \in DOMAIN e_clients : i # f => e_clients'[i] = e_clients[i]
    <3> HIDE DEF r
    <3> QED
      BY <1>2, <1>3, <1>5, <2>4, ExceptSeq, LenProperties
  <2>6. Listed'
    <3>1. \A i \in DOMAIN e_clients : e_clients'[i].who = e_clients[i].who
      BY <2>3, <2>5
    <3> QED
      BY <1>2, <2>5, <3>1 DEF Listed, OneEntry
  <2>7. Counter(c)' = Counter(c) + 1 /\ \A d : d # c => Counter(d)' = Counter(d)
    <3>1. \A d : d # c =>
              /\ \A i \in DOMAIN e_clients : e_clients[i].who = d =>
                    \E j \in DOMAIN e_clients' : e_clients'[j] = e_clients[i]
              /\ \A j \in DOMAIN e_clients' : e_clients'[j].who = d =>
                    \E i \in DOMAIN e_clients : e_clients'[j] = e_clients[i]
      BY <1>3, <2>5
    <3> QED
      BY <1>3, <1>5, <2>5, <2>6, <3>1, EntryCounted
  <2>8. list[at].counter = Counter(c)
    BY <2>1, <2>2, <2>3
  <2> QED
    BY <1>1, <2>6, <2>7, <2>8
<1> QED
  BY <1>4, <1>5

LEMMA RemoveEffect ==
    ASSUME Listed, NEW c, e_clients' = RE!remove_client(c)
    PROVE  /\ Listed' /\ Counter(c)' = 0
           /\ \A d : d # c => Counter(d)' = Counter(d)
<1> DEFINE f == RE!find_client(c)
<1>1. /\ e_clients \in Seq(Entries) /\ DOMAIN e_clients = 1 .. Len(e_clients)
      /\ Len(e_clients) \in Nat
      /\ \A i, j \in DOMAIN e_clients : e_clients[i].who = e_clients[j].who => i = j
  BY LenProperties DEF Listed, OneEntry
<1>2. \/ f = 0 /\ (\A i \in DOMAIN e_clients : e_clients[i].who # c)
      \/ f # 0 /\ f \in DOMAIN e_clients /\ e_clients[f].who = c
  BY <1>1, Found
<1>3. CASE f = 0
  <2>1. e_clients' = e_clients
    BY <1>3 DEF RE!remove_client
  <2>2. Listed'
    BY <2>1 DEF Listed, OneEntry
  <2>3. Counter(c)' = 0
    BY <1>2, <1>3, <2>1, <2>2, CountersNext
  <2>4. \A d : Counter(d)' = Counter(d)
    BY <2>1, <2>2, CounterKept
  <2> QED
    BY <2>2, <2>3, <2>4
<1>4. CASE f # 0
  <2>1. e_clients' = RE!RemoveAt(e_clients, f)
    BY <1>4 DEF RE!remove_client
  <2>2. f \in DOMAIN e_clients /\ e_clients[f].who = c
    BY <1>2, <1>4
  <2> HIDE DEF f
  <2>3. /\ e_clients' \in Seq(Entries) /\ DOMAIN e_clients' = 1 .. Len(e_clients) - 1
        /\ \A i \in 1 .. Len(e_clients) - 1 : e_clients'[i] = e_clients[IF i < f THEN i ELSE i + 1]
    <3>1. /\ e_clients' \in Seq(Entries) /\ Len(e_clients') = Len(e_clients) - 1
          /\ \A i \in 1 .. Len(e_clients) - 1 :
                e_clients'[i] = e_clients[IF i < f THEN i ELSE i + 1]
      <4>1. e_clients \in Seq(Entries) /\ f \in DOMAIN e_clients
        BY <1>1, <2>2
      <4> HIDE DEF f
      <4> QED
        BY <2>1, <4>1, RemoveAtElements
    <3> QED
      BY <3>1, LenProperties
  <2> DEFINE m(i) == IF i < f THEN i ELSE i + 1
  <2>4. ASSUME NEW i \in DOMAIN e_clients'
        PROVE  /\ m(i) \in DOMAIN e_clients /\ m(i) # f /\ e_clients'[i] = e_clients[m(i)]
               /\ e_clients'[i].who # c
    <3>1. m(i) \in DOMAIN e_clients /\ m(i) # f /\ e_clients'[i] = e_clients[m(i)]
      BY <1>1, <2>2, <2>3
    <3> HIDE DEF m
    <3> QED
      BY <1>1, <2>2, <3>1
  <2>5. ASSUME NEW i \in DOMAIN e_clients', NEW j \in DOMAIN e_clients', m(i) = m(j) PROVE i = j
    BY <1>1, <2>2, <2>3, <2>5
  <2>6. Listed'
    <3>1. ASSUME NEW i \in DOMAIN e_clients', NEW j \in DOMAIN e_clients',
                 e_clients'[i].who = e_clients'[j].who
          PROVE  i = j
      <4>1. m(i) = m(j)
        <5> HIDE DEF m
        <5> QED
          BY <1>1, <2>4, <3>1
      <4> QED
        BY <2>5, <4>1
    <3> QED
      BY <2>3, <3>1 DEF Listed, OneEntry
  <2>7. ASSUME NEW i \in DOMAIN e_clients, i # f PROVE \E j \in DOMAIN e_clients' : e_clients'[j] = e_clients[i]
    <3>1. CASE i < f
      <4>1. i \in DOMAIN e_clients'
        BY <1>1, <2>2, <2>3, <3>1
      <4> QED
        BY <2>3, <3>1, <4>1
    <3>2. CASE i > f
      <4>1. i - 1 \in DOMAIN e_clients' /\ ~(i - 1 < f) /\ (i - 1) + 1 = i
        BY <1>1, <2>2, <2>3, <3>2
      <4> QED
        BY <2>3, <4>1, Zenon
    <3> QED
      BY <1>1, <2>2, <2>7, <3>1, <3>2
  <2>8. \A d : d # c => Counter(d)' = Counter(d)
    <3> SUFFICES ASSUME NEW d, d # c PROVE Counter(d)' = Counter(d)
      OBVIOUS
    <3>1. \A i \in DOMAIN e_clients : e_clients[i].who = d =>
              \E j \in DOMAIN e_clients' : e_clients'[j] = e_clients[i]
      BY <2>2, <2>7
    <3>2. \A j \in DOMAIN e_clients' : e_clients'[j].who = d =>
              \E i \in DOMAIN e_clients : e_clients'[j] = e_clients[i]
      BY <2>4
    <3> QED
      BY <2>6, <3>1, <3>2, CounterKept
  <2>9. Counter(c)' = 0
    BY <2>4, <2>6, CountersNext
  <2> QED
    BY <2>6, <2>8, <2>9
<1> QED
  BY <1>3, <1>4

-----------------------------------------------------------------------------
(* The datagrams on their way.                                               *)

\* Nothing happens to the datagrams of a client but that the first, which the server
\* handles, becomes the list, or they are counted anew: what remains is in its order.
LEMMA EchoCourseKept ==
    ASSUME NEW c, NEW m \in [Points(c)' -> Points(c)],
           EchoCourse(c), Standing(c)' = Standing(c), Points(c) \subseteq Nat, Points(c)' \subseteq Nat,
           NEW first \in Points(c),
           \A i \in Points(c)' : /\ m[i] >= first /\ Value(c, i)' = Value(c, m[i])
                                 /\ i # 0 => e_up'[i] = e_up[m[i]],
           \A i, j \in Points(c)' : i < j <=> m[i] < m[j],
           \A h \in Points(c) : h >= first => \E i \in Points(c)' : m[i] = h
    PROVE  EchoCourse(c)'
<1>1. ASSUME NEW i \in Points(c)', NEW j \in Points(c)', i < j, ~RE!Bye(e_up'[j]),
             \A h \in Points(c)' : ~(i < h /\ h < j)
      PROVE  e_up'[j].k = Value(c, i)' + 1
  <2>1. m[i] \in Points(c) /\ m[j] \in Points(c) /\ m[i] < m[j] /\ m[i] >= first
    BY <1>1
  <2>2. ASSUME NEW h \in Points(c) PROVE ~(m[i] < h /\ h < m[j])
    <3> SUFFICES ASSUME m[i] < h, h < m[j] PROVE FALSE
      OBVIOUS
    <3>1. h >= first
      BY <2>1
    <3>2. PICK g \in Points(c)' : m[g] = h
      BY <3>1
    <3> QED
      BY <1>1, <3>2
  <2>3. j # 0 /\ e_up'[j] = e_up[m[j]]
    BY <1>1
  <2>4. ~RE!Bye(e_up[m[j]])
    BY <1>1, <2>3
  <2>5. e_up[m[j]].k = Value(c, m[i]) + 1
    BY <2>1, <2>2, <2>4 DEF EchoCourse
  <2> QED
    BY <2>3, <2>5
<1>2. ASSUME NEW i \in Points(c)', \A h \in Points(c)' : h <= i
      PROVE  Value(c, i)' = Standing(c)'
  <2>1. \A h \in Points(c) : h <= m[i]
    <3> SUFFICES ASSUME NEW h \in Points(c), ~(h <= m[i]) PROVE FALSE
      OBVIOUS
    <3>1. m[i] \in Points(c) /\ h >= first /\ m[i] < h
      OBVIOUS
    <3>2. PICK g \in Points(c)' : m[g] = h
      BY <3>1
    <3>3. i < g
      BY <3>1, <3>2
    <3> QED
      BY <1>2, <3>3
  <2>2. Value(c, m[i]) = Standing(c) /\ Value(c, i)' = Value(c, m[i])
    BY <2>1 DEF EchoCourse
  <2> QED
    BY <2>2
<1>3. \A i, j \in Points(c)' :
          i < j /\ (\A h \in Points(c)' : ~(i < h /\ h < j)) /\ ~RE!Bye(e_up'[j])
              => e_up'[j].k = Value(c, i)' + 1
  BY <1>1
<1>4. \A i \in Points(c)' : (\A h \in Points(c)' : h <= i) => Value(c, i)' = Standing(c)'
  BY <1>2
<1> QED
  BY <1>3, <1>4 DEF EchoCourse

\* Where the datagrams of a client are, and what it means that nothing of its own happens.
LEMMA PointsType ==
    ASSUME e_up \in Seq(Datagrams), NEW c
    PROVE  /\ Points(c) \subseteq Nat /\ 0 \in Points(c)
           /\ \A j \in Points(c) : j # 0 => j \in DOMAIN e_up /\ e_up[j].from = c /\ j > 0
<1>1. DOMAIN e_up = 1 .. Len(e_up) /\ Len(e_up) \in Nat
  BY LenProperties
<1> QED
  BY <1>1 DEF Points

LEMMA PointsTypeNext ==
    (e_up \in Seq(Datagrams) =>
        \A c : /\ Points(c) \subseteq Nat /\ 0 \in Points(c)
               /\ \A j \in Points(c) : j # 0 => j \in DOMAIN e_up /\ e_up[j].from = c /\ j > 0)'
<1>1. e_up \in Seq(Datagrams) =>
        \A c : /\ Points(c) \subseteq Nat /\ 0 \in Points(c)
               /\ \A j \in Points(c) : j # 0 => j \in DOMAIN e_up /\ e_up[j].from = c /\ j > 0
  BY PointsType
<1> QED
  BY <1>1, PTL

\* The datagrams of the client stay where they are.
LEMMA EchoUnmoved ==
    ASSUME NEW c, EchoCourse(c), Standing(c)' = Standing(c), Counter(c)' = Counter(c),
           e_up \in Seq(Datagrams), e_up' \in Seq(Datagrams),
           Points(c)' = Points(c), \A i \in Points(c) : i # 0 => e_up'[i] = e_up[i]
    PROVE  EchoCourse(c)'
<1> DEFINE m == [i \in Points(c) |-> i]
           first == 0
<1>1. Points(c) \subseteq Nat /\ 0 \in Points(c)
  BY PointsType
<1>2. (\A i \in Points(c) : m[i] = i) /\ m \in [Points(c)' -> Points(c)]
  OBVIOUS
<1> HIDE DEF m
<1>3. \A i \in Points(c)' : /\ m[i] \in Points(c) /\ m[i] >= first
                            /\ Value(c, i)' = Value(c, m[i])
                            /\ i # 0 => e_up'[i] = e_up[m[i]]
  BY <1>1, <1>2 DEF Value
<1>4. \A i, j \in Points(c)' : i < j <=> m[i] < m[j]
  BY <1>2
<1>5. \A h \in Points(c) : h >= first => \E i \in Points(c)' : m[i] = h
  BY <1>2
<1>6. Points(c) \subseteq Nat /\ Points(c)' \subseteq Nat /\ first \in Points(c)
  BY <1>1
<1> HIDE DEF first
<1> QED
  BY <1>2, <1>3, <1>4, <1>5, <1>6, EchoCourseKept, SMTT(30)

\* One datagram is taken out: not one of the client, or the first one, which the server
\* handles.
LEMMA EchoTaken ==
    ASSUME NEW c, EchoCourse(c), Standing(c)' = Standing(c), e_up \in Seq(Datagrams), NEW k \in DOMAIN e_up,
           e_up' = RE!RemoveAt(e_up, k),
           \/ e_up[k].from # c /\ Counter(c)' = Counter(c)
           \/ /\ e_up[k].from = c /\ (\A i \in 1 .. k - 1 : e_up[i].from # c)
              /\ Counter(c)' = IF RE!Bye(e_up[k]) THEN 0 ELSE e_up[k].k
    PROVE  EchoCourse(c)'
<1>1. /\ DOMAIN e_up = 1 .. Len(e_up) /\ Len(e_up) \in Nat /\ k \in 1 .. Len(e_up)
      /\ e_up' \in Seq(Datagrams) /\ DOMAIN e_up' = 1 .. Len(e_up) - 1
      /\ \A i \in 1 .. Len(e_up) - 1 : e_up'[i] = e_up[IF i < k THEN i ELSE i + 1]
  <2>1. /\ e_up' \in Seq(Datagrams) /\ Len(e_up') = Len(e_up) - 1
        /\ \A i \in 1 .. Len(e_up) - 1 : e_up'[i] = e_up[IF i < k THEN i ELSE i + 1]
    BY RemoveAtElements
  <2> QED
    BY <2>1, LenProperties
<1>2. Points(c) \subseteq Nat /\ 0 \in Points(c)
  BY PointsType
<1>3. Points(c)' \subseteq Nat
  BY <1>1, PointsTypeNext
<1> DEFINE first == IF e_up[k].from = c THEN k ELSE 0
           m == [i \in Points(c)' |-> IF i = 0 THEN first ELSE IF i < k THEN i ELSE i + 1]
<1>4. first \in Points(c) /\ first \in Nat
  BY <1>2 DEF Points
<1>5. ASSUME NEW i \in Points(c)', i # 0
      PROVE  /\ m[i] \in Points(c) /\ m[i] > first /\ m[i] # 0 /\ e_up'[i] = e_up[m[i]]
             /\ i \in 1 .. Len(e_up) - 1 /\ m[i] = IF i < k THEN i ELSE i + 1
  <2>1. i \in 1 .. Len(e_up) - 1 /\ e_up'[i].from = c
    BY <1>1, <1>5 DEF Points
  <2>2. m[i] \in 1 .. Len(e_up) /\ e_up'[i] = e_up[m[i]] /\ m[i] # k
    BY <1>1, <1>5, <2>1
  <2>3. m[i] \in Points(c)
    BY <1>1, <2>1, <2>2 DEF Points
  <2>4. m[i] > first
    <3>1. CASE e_up[k].from # c
      BY <2>2, <3>1
    <3>2. CASE e_up[k].from = c
      <4>1. m[i] \notin 1 .. k - 1
        BY <2>1, <2>2, <3>2
      <4> QED
        BY <1>1, <2>2, <3>2, <4>1
    <3> QED
      BY <3>1, <3>2
  <2> QED
    BY <1>5, <2>1, <2>2, <2>3, <2>4
<1>6. 0 \in Points(c)' => m[0] = first
  OBVIOUS
<1>7. 0 \in Points(c)'
  BY DEF Points
<1>8. ASSUME NEW h \in Points(c), h >= first PROVE \E i \in Points(c)' : m[i] = h
  <2>1. CASE h = first
    BY <1>6, <1>7, <2>1
  <2>2. CASE h # first
    <3>1. h \in 1 .. Len(e_up) /\ e_up[h].from = c /\ h # k
      BY <1>1, <1>2, <1>4, <1>8, <2>2 DEF Points
    <3>2. CASE h < k
      <4>1. h \in 1 .. Len(e_up) - 1 /\ e_up'[h] = e_up[h]
        BY <1>1, <3>1, <3>2
      <4>2. h \in Points(c)' /\ h # 0
        BY <1>1, <3>1, <4>1 DEF Points
      <4> QED
        BY <3>2, <4>2
    <3>3. CASE h > k
      <4>1. h - 1 \in 1 .. Len(e_up) - 1 /\ ~(h - 1 < k) /\ (h - 1) + 1 = h
        BY <1>1, <3>1, <3>3
      <4>2. e_up'[h - 1] = e_up[h]
        BY <1>1, <4>1
      <4>3. h - 1 \in Points(c)' /\ h - 1 # 0
        BY <1>1, <3>1, <4>1, <4>2 DEF Points
      <4> QED
        BY <4>1, <4>3
    <3> QED
      BY <1>1, <3>1, <3>2, <3>3
  <2> QED
    BY <2>1, <2>2
<1>12. m \in [Points(c)' -> Points(c)]
  BY <1>4, <1>5, <1>6
<1> HIDE DEF m
<1>9. Value(c, 0)' = Value(c, first)
  BY <1>1, <1>2 DEF Value
<1> HIDE DEF first
<1>10. \A i \in Points(c)' : /\ m[i] \in Points(c) /\ m[i] >= first
                             /\ Value(c, i)' = Value(c, m[i])
                             /\ i # 0 => e_up'[i] = e_up[m[i]]
  <2>1. ASSUME NEW i \in Points(c)', i # 0
        PROVE  m[i] \in Points(c) /\ m[i] >= first /\ Value(c, i)' = Value(c, m[i]) /\ e_up'[i] = e_up[m[i]]
    BY <1>2, <1>4, <1>5, <2>1 DEF Value
  <2>2. m[0] \in Points(c) /\ m[0] >= first /\ Value(c, 0)' = Value(c, m[0])
    BY <1>4, <1>6, <1>7, <1>9
  <2> QED
    BY <2>1, <2>2
<1>11. \A i, j \in Points(c)' : i < j <=> m[i] < m[j]
  <2>1. ASSUME NEW i \in Points(c)', NEW j \in Points(c)' PROVE i < j <=> m[i] < m[j]
    <3>1. CASE i # 0 /\ j # 0
      BY <1>1, <1>5, <3>1
    <3>2. CASE i = 0 \/ j = 0
      BY <1>2, <1>3, <1>4, <1>5, <1>6, <3>2
    <3> QED
      BY <3>1, <3>2
  <2> QED
    BY <2>1
<1> QED
  BY <1>2, <1>3, <1>4, <1>8, <1>10, <1>11, <1>12, EchoCourseKept, SMTT(30)

\* A datagram of another client is repeated.
LEMMA EchoRepeated ==
    ASSUME NEW c, EchoCourse(c), Standing(c)' = Standing(c), e_up \in Seq(Datagrams), NEW k \in DOMAIN e_up,
           e_up' = RE!InsertAt(e_up, k, e_up[k]), e_up[k].from # c, Counter(c)' = Counter(c)
    PROVE  EchoCourse(c)'
<1>1. /\ DOMAIN e_up = 1 .. Len(e_up) /\ Len(e_up) \in Nat /\ k \in 1 .. Len(e_up)
      /\ e_up' \in Seq(Datagrams) /\ DOMAIN e_up' = 1 .. Len(e_up) + 1
      /\ \A i \in 1 .. Len(e_up) + 1 : e_up'[i] = e_up[IF i <= k THEN i ELSE i - 1]
  <2>1. /\ e_up' \in Seq(Datagrams) /\ Len(e_up') = Len(e_up) + 1
        /\ \A i \in 1 .. Len(e_up) + 1 : e_up'[i] = e_up[IF i <= k THEN i ELSE i - 1]
    BY RepeatElements
  <2> QED
    BY <2>1, LenProperties
<1>2. Points(c) \subseteq Nat /\ 0 \in Points(c)
  BY PointsType
<1>3. Points(c)' \subseteq Nat
  BY <1>1, PointsTypeNext
<1> DEFINE m == [i \in Points(c)' |-> IF i <= k THEN i ELSE i - 1]
           first == 0
<1>4. ASSUME NEW i \in Points(c)', i # 0
      PROVE  /\ m[i] \in Points(c) /\ m[i] # 0 /\ e_up'[i] = e_up[m[i]]
             /\ i \in 1 .. Len(e_up) + 1 /\ i # k /\ i # k + 1
             /\ m[i] = IF i <= k THEN i ELSE i - 1
  <2>1. i \in 1 .. Len(e_up) + 1 /\ e_up'[i].from = c
    BY <1>1, <1>4 DEF Points
  <2>2. e_up'[i] = e_up[m[i]] /\ m[i] # k
    BY <1>1, <1>4, <2>1
  <2>3. i # k /\ i # k + 1
    BY <1>1, <2>1, <2>2
  <2>4. m[i] \in 1 .. Len(e_up)
    BY <1>1, <2>1, <2>3
  <2> QED
    BY <1>1, <2>1, <2>2, <2>3, <2>4 DEF Points
<1>5. 0 \in Points(c)' /\ m[0] = 0
  <2>1. 0 \in Points(c)' /\ 0 <= k
    BY <1>1 DEF Points
  <2> QED
    BY <2>1
<1>6. ASSUME NEW h \in Points(c), h >= first PROVE \E i \in Points(c)' : m[i] = h
  <2>1. CASE h = 0
    BY <1>5, <2>1
  <2>2. CASE h # 0
    <3>1. h \in 1 .. Len(e_up) /\ e_up[h].from = c /\ h # k
      BY <1>1, <2>2 DEF Points
    <3>2. CASE h < k
      <4>1. h \in 1 .. Len(e_up) + 1 /\ h <= k /\ e_up'[h] = e_up[h]
        BY <1>1, <3>1, <3>2
      <4>2. h \in Points(c)'
        BY <1>1, <3>1, <4>1 DEF Points
      <4> QED
        BY <4>1, <4>2
    <3>3. CASE h > k
      <4>1. h + 1 \in 1 .. Len(e_up) + 1 /\ ~(h + 1 <= k) /\ (h + 1) - 1 = h
        BY <1>1, <3>1, <3>3
      <4>2. e_up'[h + 1] = e_up[h]
        BY <1>1, <4>1
      <4>3. h + 1 \in Points(c)'
        BY <1>1, <3>1, <4>1, <4>2 DEF Points
      <4> QED
        BY <4>1, <4>3
    <3> QED
      BY <1>1, <3>1, <3>2, <3>3
  <2> QED
    BY <2>1, <2>2
<1>10. m \in [Points(c)' -> Points(c)]
  BY <1>2, <1>4, <1>5
<1> HIDE DEF m
<1>7. \A i \in Points(c)' : /\ m[i] \in Points(c) /\ m[i] >= first
                            /\ Value(c, i)' = Value(c, m[i])
                            /\ i # 0 => e_up'[i] = e_up[m[i]]
  BY <1>2, <1>4, <1>5 DEF Value
<1>8. \A i, j \in Points(c)' : i < j <=> m[i] < m[j]
  <2>1. ASSUME NEW i \in Points(c)', NEW j \in Points(c)' PROVE i < j <=> m[i] < m[j]
    <3>1. CASE i # 0 /\ j # 0
      BY <1>1, <1>4, <3>1
    <3>2. CASE i = 0 \/ j = 0
      <4>1. i \in Nat /\ j \in Nat /\ m[i] \in Nat /\ m[j] \in Nat
        BY <1>2, <1>3, <1>7
      <4> QED
        BY <1>4, <1>5, <3>2, <4>1
    <3> QED
      BY <3>1, <3>2
  <2> QED
    BY <2>1
<1>9. first \in Points(c)
  BY <1>2
<1> HIDE DEF first
<1> QED
  BY <1>2, <1>3, <1>6, <1>7, <1>8, <1>9, <1>10, EchoCourseKept

\* Datagrams are put behind those on their way.
LEMMA EchoGrown ==
    ASSUME NEW c, Counter(c)' = Counter(c), e_up \in Seq(Datagrams), e_up' \in Seq(Datagrams),
           Len(e_up') >= Len(e_up), \A i \in 1 .. Len(e_up) : e_up'[i] = e_up[i]
    PROVE  /\ Points(c) \subseteq 0 .. Len(e_up) /\ Points(c)' \subseteq 0 .. Len(e_up')
           /\ Points(c) = {j \in Points(c)' : j <= Len(e_up)} /\ 0 \in Points(c)
           /\ \A j \in Points(c) : Value(c, j)' = Value(c, j) /\ (j # 0 => e_up'[j] = e_up[j])
<1>1. /\ DOMAIN e_up = 1 .. Len(e_up) /\ Len(e_up) \in Nat
      /\ DOMAIN e_up' = 1 .. Len(e_up') /\ Len(e_up') \in Nat
  BY LenProperties
<1>2. /\ Points(c) \subseteq 0 .. Len(e_up) /\ Points(c)' \subseteq 0 .. Len(e_up')
      /\ 0 \in Points(c)
  BY <1>1 DEF Points
<1>3. Points(c) = {j \in Points(c)' : j <= Len(e_up)}
  BY <1>1 DEF Points
<1>4. ASSUME NEW j \in Points(c)
      PROVE  Value(c, j)' = Value(c, j) /\ (j # 0 => e_up'[j] = e_up[j])
  BY <1>1, <1>2 DEF Value
<1> QED
  BY <1>2, <1>3, <1>4

\* By another client.
LEMMA EchoOthersSent ==
    ASSUME NEW c, EchoCourse(c), Standing(c)' = Standing(c), Counter(c)' = Counter(c),
           e_up \in Seq(Datagrams), e_up' \in Seq(Datagrams),
           Len(e_up') >= Len(e_up), \A i \in 1 .. Len(e_up) : e_up'[i] = e_up[i],
           \A i \in Len(e_up) + 1 .. Len(e_up') : e_up'[i].from # c
    PROVE  EchoCourse(c)'
<1>1. /\ DOMAIN e_up = 1 .. Len(e_up) /\ Len(e_up) \in Nat
      /\ DOMAIN e_up' = 1 .. Len(e_up') /\ Len(e_up') \in Nat
  BY LenProperties
<1>2. Points(c)' = Points(c)
  BY <1>1 DEF Points
<1>3. \A i \in Points(c) : i # 0 => e_up'[i] = e_up[i]
  BY <1>1 DEF Points
<1> QED
  BY <1>2, <1>3, EchoUnmoved

\* By the client: its next line.
LEMMA EchoLineSent ==
    ASSUME NEW c, EchoCourse(c), Counter(c)' = Counter(c),
           e_up \in Seq(Datagrams), e_up' \in Seq(Datagrams), Len(e_up') = Len(e_up) + 1,
           \A i \in 1 .. Len(e_up) : e_up'[i] = e_up[i],
           e_up'[Len(e_up) + 1].from = c, ~RE!Bye(e_up'[Len(e_up) + 1]),
           e_up'[Len(e_up) + 1].k = Standing(c) + 1, Standing(c)' = Standing(c) + 1
    PROVE  EchoCourse(c)'
<1>7. PICK l : l = Len(e_up) + 1
  OBVIOUS
<1>1. Len(e_up) \in Nat /\ l \in Nat /\ l = Len(e_up) + 1 /\ DOMAIN e_up' = 1 .. l
  BY <1>7, LenProperties
<1>2. /\ Points(c) \subseteq 0 .. Len(e_up) /\ Points(c)' \subseteq 0 .. Len(e_up')
      /\ Points(c) = {j \in Points(c)' : j <= Len(e_up)} /\ 0 \in Points(c)
      /\ \A j \in Points(c) : Value(c, j)' = Value(c, j) /\ (j # 0 => e_up'[j] = e_up[j])
  BY <1>1, EchoGrown
<1>8. e_up'[l].k = Standing(c) + 1
  BY <1>1
<1>3. l \in Points(c)' /\ \A j \in Points(c)' : j # l => j \in Points(c)
  <2>1. l \in Points(c)'
    BY <1>1 DEF Points
  <2> QED
    BY <1>1, <1>2, <2>1
<1>4. ASSUME NEW i \in Points(c)', NEW j \in Points(c)', i < j, ~RE!Bye(e_up'[j]),
             \A h \in Points(c)' : ~(i < h /\ h < j)
      PROVE  e_up'[j].k = Value(c, i)' + 1
  <2>1. i \in Points(c) /\ Value(c, i)' = Value(c, i)
    BY <1>1, <1>2, <1>3, <1>4
  <2>2. CASE j = l
    <3>1. \A h \in Points(c) : h <= i
      BY <1>1, <1>2, <1>4, <2>2
    <3>2. Value(c, i) = Standing(c)
      BY <2>1, <3>1 DEF EchoCourse
    <3> QED
      BY <1>8, <2>1, <2>2, <3>2
  <2>3. CASE j # l
    <3>1. j \in Points(c) /\ j # 0
      BY <1>2, <1>3, <1>4, <2>1, <2>3
    <3>2. e_up'[j] = e_up[j]
      BY <1>2, <3>1
    <3>3. ~RE!Bye(e_up[j])
      BY <1>4, <3>2
    <3>4. \A h \in Points(c) : ~(i < h /\ h < j)
      BY <1>2, <1>4
    <3>5. e_up[j].k = Value(c, i) + 1
      BY <1>4, <2>1, <3>1, <3>3, <3>4 DEF EchoCourse
    <3> QED
      BY <2>1, <3>2, <3>5
  <2> QED
    BY <2>2, <2>3
<1>5. ASSUME NEW i \in Points(c)', \A h \in Points(c)' : h <= i
      PROVE  Value(c, i)' = Standing(c)'
  <2>1. i = l
    BY <1>1, <1>2, <1>3, <1>5
  <2>2. l # 0 /\ ~RE!Bye(e_up'[l]) /\ e_up'[l].k = Standing(c)'
    BY <1>1
  <2>3. Value(c, l)' = e_up'[l].k
    BY <2>2 DEF Value
  <2> QED
    BY <2>1, <2>2, <2>3
<1>6. \A i, j \in Points(c)' :
          i < j /\ (\A h \in Points(c)' : ~(i < h /\ h < j)) /\ ~RE!Bye(e_up'[j])
              => e_up'[j].k = Value(c, i)' + 1
  BY <1>4
<1> QED
  BY <1>5, <1>6 DEF EchoCourse

\* That it leaves.
LEMMA EchoByeSent ==
    ASSUME NEW c, EchoCourse(c), Counter(c)' = Counter(c),
           e_up \in Seq(Datagrams), e_up' \in Seq(Datagrams), Len(e_up') > Len(e_up),
           \A i \in 1 .. Len(e_up) : e_up'[i] = e_up[i],
           \A i \in Len(e_up) + 1 .. Len(e_up') : e_up'[i].from = c /\ RE!Bye(e_up'[i]),
           Standing(c)' = 0
    PROVE  EchoCourse(c)'
<1>1. /\ Len(e_up) \in Nat /\ Len(e_up') \in Nat /\ DOMAIN e_up' = 1 .. Len(e_up')
  BY LenProperties
<1>2. /\ Points(c) \subseteq 0 .. Len(e_up) /\ Points(c)' \subseteq 0 .. Len(e_up')
      /\ Points(c) = {j \in Points(c)' : j <= Len(e_up)} /\ 0 \in Points(c)
      /\ \A j \in Points(c) : Value(c, j)' = Value(c, j) /\ (j # 0 => e_up'[j] = e_up[j])
  BY <1>1, EchoGrown
<1>3. Len(e_up') \in Points(c)'
  BY <1>1 DEF Points
<1>4. ASSUME NEW i \in Points(c)', NEW j \in Points(c)', i < j, ~RE!Bye(e_up'[j]),
             \A h \in Points(c)' : ~(i < h /\ h < j)
      PROVE  e_up'[j].k = Value(c, i)' + 1
  <2>1. j <= Len(e_up)
    BY <1>1, <1>2, <1>4
  <2>2. i \in Points(c) /\ j \in Points(c) /\ j # 0
    BY <1>1, <1>2, <1>4, <2>1
  <2>3. e_up'[j] = e_up[j] /\ Value(c, i)' = Value(c, i)
    BY <1>2, <2>2
  <2>4. ~RE!Bye(e_up[j])
    BY <1>4, <2>3
  <2>5. \A h \in Points(c) : ~(i < h /\ h < j)
    BY <1>2, <1>4
  <2>6. e_up[j].k = Value(c, i) + 1
    BY <1>4, <2>2, <2>4, <2>5 DEF EchoCourse
  <2> QED
    BY <2>3, <2>6
<1>5. ASSUME NEW i \in Points(c)', \A h \in Points(c)' : h <= i
      PROVE  Value(c, i)' = Standing(c)'
  <2>1. i = Len(e_up')
    BY <1>1, <1>2, <1>3, <1>5
  <2>2. i # 0 /\ RE!Bye(e_up'[i])
    BY <1>1, <2>1
  <2> QED
    BY <2>2 DEF Value
<1>6. \A i, j \in Points(c)' :
          i < j /\ (\A h \in Points(c)' : ~(i < h /\ h < j)) /\ ~RE!Bye(e_up'[j])
              => e_up'[j].k = Value(c, i)' + 1
  BY <1>4
<1> QED
  BY <1>5, <1>6 DEF EchoCourse

-----------------------------------------------------------------------------
(* The steps.                                                                *)

LEMMA CountersSame == Listed /\ e_clients' = e_clients => \A d : Counter(d)' = Counter(d)
<1> SUFFICES ASSUME Listed, e_clients' = e_clients, NEW d PROVE Counter(d)' = Counter(d)
  OBVIOUS
<1>1. Listed'
  BY DEF Listed, OneEntry
<1> QED
  BY <1>1, CounterKept

LEMMA EchoInitially == RE!Init => EchoInv
<1> SUFFICES ASSUME RE!Init PROVE EchoInv
  OBVIOUS
<1> USE DEF RE!Init
<1>1. RE!TypeOK /\ SpokenLines
  BY EchoConstants DEF RE!TypeOK, SpokenLines
<1>2. Listed /\ OffNoEntry
  BY DEF Listed, OneEntry, OffNoEntry
<1>3. ASSUME NEW c \in Procs PROVE EchoCourse(c) /\ e_reply[c].n = e_reply[c].k
  <2>1. Counter(c) = 0 /\ Points(c) = {0} /\ Standing(c) = 0
    BY <1>2, Counters DEF Points, Standing
  <2>2. Value(c, 0) = 0
    BY <2>1 DEF Value
  <2> QED
    BY <2>1, <2>2 DEF EchoCourse
<1> QED
  BY <1>1, <1>2, <1>3 DEF EchoInv, Listed, EchoCourses

LEMMA EchoReceives == EchoInv /\ RE!Receive => EchoInv'
<1> SUFFICES ASSUME EchoInv, RE!Receive PROVE EchoInv'
  OBVIOUS
<1>1. /\ RE!TypeOK /\ SpokenLines /\ Listed /\ EchoCourses /\ e_up \in Seq(Datagrams)
      /\ \A i \in DOMAIN e_up : e_up[i] \in Datagrams
      /\ DOMAIN e_up = 1 .. Len(e_up) /\ Len(e_up) \in Nat
  <2>1. RE!TypeOK /\ SpokenLines /\ Listed /\ EchoCourses /\ e_up \in Seq(Datagrams)
    BY DEF EchoInv, Listed, RE!TypeOK, Entries, Datagrams
  <2> QED
    BY <2>1, LenProperties, ElementOfSeq
<1>2. PICK j \in DOMAIN e_up :
        /\ e_up' = RE!RemoveAt(e_up, j)
        /\ IF RE!Bye(e_up[j])
              THEN e_clients' = RE!remove_client(e_up[j].from) /\ e_reply' = e_reply
              ELSE RE!Echo(e_up[j].from, e_up[j].k)
        /\ e_lapsed' = IF \E i \in 1 .. j - 1 : e_up[i].from = e_up[j].from
                          THEN e_lapsed \cup {e_up[j].from} ELSE e_lapsed
  BY Zenon DEF RE!Receive
<1>3. /\ e_server = "on" /\ e_server' = e_server /\ e_copies' = e_copies
      /\ e_starts' = e_starts /\ e_pc' = e_pc /\ e_spoken' = e_spoken /\ e_lines' = e_lines
  BY DEF RE!Receive, RE!clientVars
<1>4. PICK f, k : /\ f = e_up[j].from /\ k = e_up[j].k /\ f \in Procs /\ k \in 0 .. MaxLines
  BY <1>1 DEF Datagrams
<1>5. e_up' \in Seq(Datagrams)
  BY <1>1, <1>2, RemoveAtElements
<1>6. /\ Listed' /\ (\A d : d # f => Counter(d)' = Counter(d))
      /\ Counter(f)' = IF RE!Bye(e_up[j]) THEN 0 ELSE Counter(f) + 1
      /\ e_reply' = IF RE!Bye(e_up[j]) THEN e_reply
                      ELSE [e_reply EXCEPT ![f] = [k |-> k, n |-> Counter(f) + 1]]
  <2>1. CASE RE!Bye(e_up[j])
    BY <1>1, <1>2, <1>4, <2>1, RemoveEffect
  <2>2. CASE ~RE!Bye(e_up[j])
    BY <1>1, <1>2, <1>4, <2>2, EchoEffect
  <2> QED
    BY <2>1, <2>2
<1>7. Counter(f) \in Nat
  BY <1>1, Counters
<1>8. RE!TypeOK'
  <2>1. e_reply' \in [Procs -> [k : 0 .. MaxLines, n : Nat]]
    <3>1. e_reply \in [Procs -> [k : 0 .. MaxLines, n : Nat]]
      BY <1>1 DEF RE!TypeOK
    <3>2. [k |-> k, n |-> Counter(f) + 1] \in [k : 0 .. MaxLines, n : Nat]
      BY <1>4, <1>7
    <3> QED
      BY <1>4, <1>6, <3>1, <3>2
  <2>2. e_lapsed' \subseteq Procs
    BY <1>1, <1>2, <1>4, Zenon DEF RE!TypeOK
  <2> QED
    BY <1>1, <1>3, <1>5, <1>6, <2>1, <2>2, Zenon DEF RE!TypeOK, Listed, Entries, Datagrams
<1>9. SpokenLines' /\ OneEntry' /\ OffNoEntry'
  BY <1>1, <1>3, <1>6 DEF SpokenLines, Listed, OffNoEntry
<1>10. ASSUME NEW c \in Procs, c \notin e_lapsed'
       PROVE  EchoCourse(c)' /\ e_reply'[c].n = e_reply'[c].k
  <2>1. c \notin e_lapsed /\ EchoCourse(c) /\ e_reply[c].n = e_reply[c].k
    BY <1>1, <1>2, <1>10 DEF EchoCourses
  <2>2. Standing(c)' = Standing(c)
    BY <1>3 DEF Standing
  <2>3. CASE c # f
    <3>1. e_up[j].from # c /\ Counter(c)' = Counter(c)
      BY <1>4, <1>6, <2>3
    <3>2. EchoCourse(c)'
      BY <1>1, <1>2, <2>1, <2>2, <3>1, EchoTaken
    <3>3. e_reply'[c] = e_reply[c]
      BY <1>1, <1>6, <2>3 DEF RE!TypeOK
    <3> QED
      BY <2>1, <3>2, <3>3
  <2>4. CASE c = f
    <3>1. \A i \in 1 .. j - 1 : e_up[i].from # c
      BY <1>2, <1>4, <1>10, <2>4
    <3>2. RE!Bye(e_up[j]) \/ k = Counter(c) + 1
      <4> SUFFICES ASSUME ~RE!Bye(e_up[j]) PROVE k = Counter(c) + 1
        OBVIOUS
      <4>1. /\ 0 \in Points(c) /\ j \in Points(c) /\ 0 < j
            /\ \A h \in Points(c) : ~(0 < h /\ h < j)
        BY <1>1, <1>4, <2>4, <3>1 DEF Points
      <4>2. e_up[j].k = Value(c, 0) + 1
        BY <2>1, <4>1 DEF EchoCourse
      <4> QED
        BY <1>4, <4>2 DEF Value
    <3>3. Counter(c)' = IF RE!Bye(e_up[j]) THEN 0 ELSE e_up[j].k
      BY <1>4, <1>6, <2>4, <3>2
    <3>4. EchoCourse(c)'
      BY <1>1, <1>2, <1>4, <2>1, <2>2, <2>4, <3>1, <3>3, EchoTaken
    <3>5. e_reply'[c].n = e_reply'[c].k
      BY <1>1, <1>6, <2>1, <2>4, <3>2 DEF RE!TypeOK
    <3> QED
      BY <3>4, <3>5
  <2> QED
    BY <2>3, <2>4
<1> QED
  BY <1>8, <1>9, <1>10 DEF EchoInv, EchoCourses

LEMMA EchoLoses == EchoInv /\ RE!Lose => EchoInv'
<1> SUFFICES ASSUME EchoInv, RE!Lose PROVE EchoInv'
  OBVIOUS
<1>1. /\ RE!TypeOK /\ SpokenLines /\ Listed /\ OffNoEntry /\ EchoCourses
      /\ e_up \in Seq(Datagrams) /\ \A i \in DOMAIN e_up : e_up[i] \in Datagrams
  <2>1. /\ RE!TypeOK /\ SpokenLines /\ Listed /\ OffNoEntry /\ EchoCourses
        /\ e_up \in Seq(Datagrams)
    BY DEF EchoInv, Listed, RE!TypeOK, Entries, Datagrams
  <2> QED
    BY <2>1, ElementOfSeq
<1>2. PICK j \in DOMAIN e_up : /\ e_up' = RE!RemoveAt(e_up, j)
                               /\ e_lapsed' = e_lapsed \cup {e_up[j].from}
  BY DEF RE!Lose
<1>3. /\ e_server' = e_server /\ e_clients' = e_clients /\ e_copies' = e_copies
      /\ e_starts' = e_starts /\ e_pc' = e_pc /\ e_spoken' = e_spoken /\ e_lines' = e_lines
      /\ e_reply' = e_reply
  BY DEF RE!Lose, RE!clientVars
<1>4. e_up' \in Seq(Datagrams) /\ e_lapsed' \subseteq Procs
  <2>1. e_up[j].from \in Procs
    BY <1>1 DEF Datagrams
  <2> QED
    BY <1>1, <1>2, <2>1, RemoveAtElements, Zenon DEF RE!TypeOK
<1>5. RE!TypeOK' /\ SpokenLines' /\ OneEntry' /\ OffNoEntry'
  BY <1>1, <1>3, <1>4, Zenon DEF RE!TypeOK, SpokenLines, Listed, OneEntry, OffNoEntry, Datagrams
<1>6. ASSUME NEW c \in Procs, c \notin e_lapsed' PROVE EchoCourse(c)'
  <2>1. Standing(c)' = Standing(c) /\ Counter(c)' = Counter(c)
    BY <1>1, <1>3, CountersSame DEF Standing
  <2>2. EchoCourse(c) /\ e_up[j].from # c
    BY <1>1, <1>2, <1>6 DEF EchoCourses
  <2> QED
    BY <1>1, <1>2, <2>1, <2>2, EchoTaken
<1>7. EchoCourses'
  BY <1>1, <1>2, <1>3, <1>6 DEF EchoCourses
<1> QED
  BY <1>5, <1>7 DEF EchoInv

LEMMA EchoDuplicates == EchoInv /\ RE!Duplicate => EchoInv'
<1> SUFFICES ASSUME EchoInv, RE!Duplicate PROVE EchoInv'
  OBVIOUS
<1>1. /\ RE!TypeOK /\ SpokenLines /\ Listed /\ OffNoEntry /\ EchoCourses
      /\ e_up \in Seq(Datagrams) /\ \A i \in DOMAIN e_up : e_up[i] \in Datagrams
  <2>1. /\ RE!TypeOK /\ SpokenLines /\ Listed /\ OffNoEntry /\ EchoCourses
        /\ e_up \in Seq(Datagrams)
    BY DEF EchoInv, Listed, RE!TypeOK, Entries, Datagrams
  <2> QED
    BY <2>1, ElementOfSeq
<1>2. PICK j \in DOMAIN e_up : /\ e_up' = RE!InsertAt(e_up, j, e_up[j])
                               /\ e_lapsed' = e_lapsed \cup {e_up[j].from}
  BY DEF RE!Duplicate
<1>3. /\ e_server' = e_server /\ e_clients' = e_clients
      /\ e_copies < MaxCopies /\ e_copies' = e_copies + 1
      /\ e_starts' = e_starts /\ e_pc' = e_pc /\ e_spoken' = e_spoken /\ e_lines' = e_lines
      /\ e_reply' = e_reply
  BY DEF RE!Duplicate, RE!clientVars
<1>4. /\ e_up' \in Seq(Datagrams) /\ e_lapsed' \subseteq Procs
      /\ e_copies' \in 0 .. MaxCopies
  <2>1. e_up[j].from \in Procs
    BY <1>1 DEF Datagrams
  <2>2. e_copies' \in 0 .. MaxCopies
    BY <1>1, <1>3, EchoConstants DEF RE!TypeOK
  <2> QED
    BY <1>1, <1>2, <2>1, <2>2, RepeatElements, Zenon DEF RE!TypeOK
<1>5. RE!TypeOK' /\ SpokenLines' /\ OneEntry' /\ OffNoEntry'
  BY <1>1, <1>3, <1>4, Zenon DEF RE!TypeOK, SpokenLines, Listed, OneEntry, OffNoEntry, Datagrams
<1>6. ASSUME NEW c \in Procs, c \notin e_lapsed' PROVE EchoCourse(c)'
  <2>1. Standing(c)' = Standing(c) /\ Counter(c)' = Counter(c)
    BY <1>1, <1>3, CountersSame DEF Standing
  <2>2. EchoCourse(c) /\ e_up[j].from # c
    BY <1>1, <1>2, <1>6 DEF EchoCourses
  <2> QED
    BY <1>1, <1>2, <2>1, <2>2, EchoRepeated
<1>7. EchoCourses'
  BY <1>1, <1>2, <1>3, <1>6 DEF EchoCourses
<1> QED
  BY <1>5, <1>7 DEF EchoInv

\* Nothing on its way and no counter changes; where the counters have to stand stays, too,
\* but for the clients that are cut off.
LEMMA EchoQuiet ==
    ASSUME EchoInv, e_up' = e_up, e_clients' = e_clients, e_reply' = e_reply,
           e_lapsed \subseteq e_lapsed',
           \A c \in Procs \ e_lapsed' : Standing(c)' = Standing(c)
    PROVE  OneEntry' /\ EchoCourses'
<1>1. /\ Listed /\ OneEntry /\ EchoCourses /\ e_up \in Seq(Datagrams) /\ e_up' \in Seq(Datagrams)
  BY DEF EchoInv, Listed, RE!TypeOK, Entries, Datagrams
<1>2. ASSUME NEW c \in Procs, c \notin e_lapsed' PROVE EchoCourse(c)'
  <2>1. Standing(c)' = Standing(c) /\ Counter(c)' = Counter(c)
    BY <1>1, <1>2, CountersSame
  <2>2. EchoCourse(c)
    BY <1>1, <1>2 DEF EchoCourses
  <2>3. Points(c)' = Points(c)
    BY DEF Points
  <2> QED
    BY <1>1, <2>1, <2>2, <2>3, EchoUnmoved
<1> QED
  BY <1>1, <1>2 DEF OneEntry, EchoCourses

\* What a client sends gets behind all that is on its way, or the client is cut off.
LEMMA EchoSends ==
    ASSUME EchoInv, NEW c \in Procs, NEW sends \in Seq(Datagrams), RE!Send(c, sends)
    PROVE  /\ e_up' \in Seq(Datagrams) /\ Len(e_up') >= Len(e_up)
           /\ \A i \in 1 .. Len(e_up) : e_up'[i] = e_up[i]
           /\ \A i \in Len(e_up) + 1 .. Len(e_up') :
                 i - Len(e_up) \in 1 .. Len(sends) /\ e_up'[i] = sends[i - Len(e_up)]
           /\ e_lapsed \subseteq e_lapsed' /\ e_lapsed' \subseteq Procs
           /\ \/ c \in e_lapsed' 
              \/ Len(e_up') = Len(e_up) + Len(sends)
<1>1. /\ e_up \in Seq(Datagrams) /\ Len(e_up) \in Nat /\ Len(sends) \in Nat
      /\ e_lapsed \subseteq Procs
  BY LenProperties DEF EchoInv, RE!TypeOK, Datagrams
<1>2. CASE e_server # "on"
  <2>1. e_up' = e_up /\ e_lapsed' = e_lapsed \cup {c}
    BY <1>2 DEF RE!Send
  <2> QED
    BY <1>1, <2>1
<1>3. CASE e_server = "on"
  <2>1. e_up' = e_up \o sends /\ e_lapsed' = e_lapsed
    BY <1>3 DEF RE!Send
  <2>2. /\ e_up' \in Seq(Datagrams) /\ Len(e_up') = Len(e_up) + Len(sends)
        /\ \A i \in 1 .. Len(e_up) + Len(sends) :
              e_up'[i] = IF i <= Len(e_up) THEN e_up[i] ELSE sends[i - Len(e_up)]
    BY <1>1, <2>1, ConcatProperties
  <2> QED
    BY <1>1, <2>1, <2>2
<1> QED
  BY <1>2, <1>3

LEMMA EchoServerStarts == EchoInv /\ RE!ServerStart => EchoInv'
<1> SUFFICES ASSUME EchoInv, RE!ServerStart PROVE EchoInv'
  OBVIOUS
<1>1. /\ e_server = "off" /\ e_server' = "on" /\ e_clients' = <<>> /\ e_up' = e_up
      /\ e_starts < EchoStarts /\ e_starts' = e_starts + 1 /\ e_pc' = e_pc
      /\ e_spoken' = e_spoken /\ e_lines' = e_lines /\ e_reply' = e_reply
      /\ e_lapsed' = e_lapsed /\ e_copies' = e_copies
  BY DEF RE!ServerStart, RE!clientVars
<1>2. RE!TypeOK /\ SpokenLines /\ e_clients' = e_clients
  BY <1>1 DEF EchoInv, OffNoEntry
<1>3. RE!TypeOK' /\ SpokenLines' /\ OffNoEntry'
  BY <1>1, <1>2, EchoConstants DEF RE!TypeOK, SpokenLines, OffNoEntry
<1>4. OneEntry' /\ EchoCourses'
  <2>1. \A c \in Procs : Standing(c)' = Standing(c)
    BY <1>1 DEF Standing
  <2> QED
    BY <1>1, <1>2, <2>1, EchoQuiet
<1> QED
  BY <1>3, <1>4 DEF EchoInv

LEMMA EchoServerDies == EchoInv /\ RE!ServerDies => EchoInv'
<1> SUFFICES ASSUME EchoInv, RE!ServerDies PROVE EchoInv'
  OBVIOUS
<1>1. /\ e_server' = "off" /\ e_clients' = <<>> /\ e_up' = <<>> /\ e_starts' = e_starts
      /\ e_pc' = e_pc /\ e_spoken' = e_spoken /\ e_lines' = e_lines /\ e_reply' = e_reply
      /\ e_lapsed' = Procs /\ e_copies' = e_copies
  BY DEF RE!ServerDies, RE!clientVars
<1>2. RE!TypeOK /\ SpokenLines
  BY DEF EchoInv
<1>3. RE!TypeOK' /\ SpokenLines'
  BY <1>1, <1>2 DEF RE!TypeOK, SpokenLines
<1> QED
  BY <1>1, <1>3 DEF EchoInv, OneEntry, OffNoEntry, EchoCourses

\* A client that neither is on line 0 nor was is started; one is told to leave, or killed.
LEMMA EchoClientMoves ==
    ASSUME EchoInv, NEW c \in Procs, RE!Start(c) \/ RE!Interrupt(c) \/ RE!ClientDies(c)
    PROVE  EchoInv'
<1>1. RE!TypeOK /\ SpokenLines /\ OffNoEntry
  BY DEF EchoInv
<1>2. /\ e_server' = e_server /\ e_clients' = e_clients /\ e_up' = e_up /\ e_reply' = e_reply
      /\ e_lines' = e_lines /\ e_copies' = e_copies
      /\ e_lapsed' \in {e_lapsed, e_lapsed \cup {c}}
  BY DEF RE!Start, RE!Interrupt, RE!ClientDies
<1>3. /\ e_spoken' = e_spoken \/ e_spoken' = [e_spoken EXCEPT ![c] = 0]
      /\ e_starts' = e_starts \/ (e_starts < EchoStarts /\ e_starts' = e_starts + 1)
      /\ \E p \in {"input", "leave", "done"} : e_pc' = [e_pc EXCEPT ![c] = p]
  BY DEF RE!Start, RE!Interrupt, RE!ClientDies
<1>4. RE!TypeOK'
  <2>1. e_pc' \in [Procs -> {"off", "input", "leave", "done"}]
    BY <1>1, <1>3 DEF RE!TypeOK
  <2>2. e_spoken' \in [Procs -> 0 .. MaxLines]
    <3>1. e_spoken \in [Procs -> 0 .. MaxLines] /\ 0 \in 0 .. MaxLines
      BY <1>1, EchoConstants DEF RE!TypeOK
    <3> QED
      BY <1>3, <3>1
  <2>3. e_lapsed' \subseteq Procs /\ e_starts' \in 0 .. EchoStarts
    BY <1>1, <1>2, <1>3, EchoConstants DEF RE!TypeOK
  <2> QED
    BY <1>1, <1>2, <2>1, <2>2, <2>3 DEF RE!TypeOK
<1>5. SpokenLines' /\ OffNoEntry'
  <2>1. e_spoken \in [Procs -> 0 .. MaxLines] /\ e_lines \in Nat
    BY <1>1, EchoConstants DEF RE!TypeOK
  <2>2. \A d \in Procs : e_spoken'[d] \in {0, e_spoken[d]}
    BY <1>3, <2>1
  <2>3. SpokenLines'
    BY <1>1, <1>2, <2>1, <2>2 DEF SpokenLines
  <2> QED
    BY <1>1, <1>2, <2>3 DEF OffNoEntry
<1>6. ASSUME NEW d \in Procs, d \notin e_lapsed' PROVE Standing(d)' = Standing(d)
  <2>1. CASE d # c
    BY <1>1, <1>3, <2>1 DEF Standing, RE!TypeOK
  <2>2. CASE d = c /\ RE!Start(c)
    <3>1. /\ e_pc[c] \in {"off", "done"} /\ e_pc'[c] = "input" /\ e_spoken'[c] = 0
      BY <1>1, <2>2 DEF RE!Start, RE!TypeOK
    <3> QED
      BY <2>2, <3>1 DEF Standing
  <2>3. CASE d = c /\ RE!Interrupt(c)
    <3>1. e_pc[c] = "input" /\ e_pc'[c] = "leave" /\ e_spoken' = e_spoken
      BY <1>1, <2>3 DEF RE!Interrupt, RE!TypeOK
    <3> QED
      BY <2>3, <3>1 DEF Standing
  <2>4. CASE d = c /\ RE!ClientDies(c)
    BY <1>6, <2>4 DEF RE!ClientDies
  <2> QED
    BY <2>1, <2>2, <2>3, <2>4
<1>7. OneEntry' /\ EchoCourses'
  BY <1>2, <1>6, EchoQuiet
<1> QED
  BY <1>4, <1>5, <1>7 DEF EchoInv

LEMMA EchoSays == ASSUME EchoInv, NEW c \in Procs, RE!Say(c) PROVE EchoInv'
<1>1. /\ RE!TypeOK /\ SpokenLines /\ Listed /\ OffNoEntry /\ EchoCourses
      /\ e_up \in Seq(Datagrams) /\ Len(e_up) \in Nat
  <2>1. /\ RE!TypeOK /\ SpokenLines /\ Listed /\ OffNoEntry /\ EchoCourses
        /\ e_up \in Seq(Datagrams)
    BY DEF EchoInv, Listed, RE!TypeOK, Entries, Datagrams
  <2> QED
    BY <2>1, LenProperties
<1>2. PICK m : m = [from |-> c, text |-> "line", k |-> e_spoken[c] + 1]
  BY Zenon
<1>3. /\ e_pc[c] = "input" /\ e_lines < MaxLines /\ RE!Send(c, <<m>>)
      /\ e_spoken' = [e_spoken EXCEPT ![c] = @ + 1]
      /\ e_pc' = e_pc \/ e_pc' = [e_pc EXCEPT ![c] = "leave"]
      /\ e_lines' = e_lines + 1 /\ e_server' = e_server /\ e_clients' = e_clients
      /\ e_reply' = e_reply /\ e_copies' = e_copies /\ e_starts' = e_starts
  BY <1>2 DEF RE!Say
<1>4. /\ e_spoken[c] \in Nat /\ e_lines \in Nat /\ e_spoken[c] + 1 \in 0 .. MaxLines
      /\ e_lines + 1 \in 0 .. MaxLines /\ m \in Datagrams
  <2>1. /\ e_spoken[c] \in Nat /\ e_lines \in Nat /\ e_spoken[c] + 1 \in 0 .. MaxLines
        /\ e_lines + 1 \in 0 .. MaxLines
    BY <1>1, <1>3, EchoConstants DEF RE!TypeOK, SpokenLines
  <2> QED
    BY <1>2, <2>1 DEF Datagrams
<1>5. <<m>> \in Seq(Datagrams) /\ Len(<<m>>) = 1 /\ <<m>>[1] = m
  BY <1>4
<1>6. PICK sends \in Seq(Datagrams) : sends = <<m>> /\ Len(sends) = 1 /\ sends[1] = m
  BY <1>5, Zenon
<1>7. /\ e_up' \in Seq(Datagrams) /\ Len(e_up') >= Len(e_up)
      /\ \A i \in 1 .. Len(e_up) : e_up'[i] = e_up[i]
      /\ \A i \in Len(e_up) + 1 .. Len(e_up') :
            i - Len(e_up) \in 1 .. Len(sends) /\ e_up'[i] = sends[i - Len(e_up)]
      /\ e_lapsed \subseteq e_lapsed' /\ e_lapsed' \subseteq Procs
      /\ \/ c \in e_lapsed'
         \/ Len(e_up') = Len(e_up) + Len(sends)
  BY <1>3, <1>6, EchoSends, Zenon
<1>8. Len(e_up') \in Nat /\ \A i \in Len(e_up) + 1 .. Len(e_up') : e_up'[i] = m
  <2>1. Len(e_up') \in Nat
    BY <1>7, LenProperties
  <2>2. \A i \in Len(e_up) + 1 .. Len(e_up') : i - Len(e_up) = 1
    BY <1>1, <1>6, <1>7, <2>1
  <2> QED
    BY <1>6, <1>7, <2>1, <2>2
<1>9. RE!TypeOK'
  <2>1. e_pc' \in [Procs -> {"off", "input", "leave", "done"}]
    BY <1>1, <1>3, Zenon DEF RE!TypeOK
  <2>2. e_spoken' \in [Procs -> 0 .. MaxLines]
    BY <1>1, <1>3, <1>4 DEF RE!TypeOK
  <2> QED
    BY <1>1, <1>3, <1>4, <1>7, <2>1, <2>2, Zenon DEF RE!TypeOK, Datagrams
<1>10. OneEntry' /\ OffNoEntry' /\ SpokenLines'
  <2>1. e_spoken \in [Procs -> 0 .. MaxLines] /\ e_lines \in Nat
    BY <1>1, EchoConstants DEF RE!TypeOK
  <2>2. SpokenLines'
    <3>1. \A d \in Procs : e_spoken[d] \in Nat /\ e_spoken'[d] <= e_spoken[d] + 1
      BY <1>3, <2>1, EchoConstants
    <3>2. \A d \in Procs : e_spoken[d] <= e_lines
      BY <1>1 DEF SpokenLines
    <3>3. \A d \in Procs : e_spoken'[d] \in Nat
      BY <1>3, <2>1, EchoConstants
    <3> QED
      BY <1>3, <2>1, <3>1, <3>2, <3>3 DEF SpokenLines
  <2> QED
    BY <1>1, <1>3, <2>2 DEF Listed, OneEntry, OffNoEntry
<1>11. ASSUME NEW d \in Procs, d \notin e_lapsed' PROVE EchoCourse(d)'
  <2>1. EchoCourse(d) /\ Counter(d)' = Counter(d)
    BY <1>1, <1>3, <1>7, <1>11, CountersSame DEF EchoCourses
  <2>2. CASE d # c
    <3>1. Standing(d)' = Standing(d)
      BY <1>1, <1>3, <2>2, Zenon DEF Standing, RE!TypeOK
    <3>2. \A i \in Len(e_up) + 1 .. Len(e_up') : e_up'[i].from # d
      BY <1>2, <1>8, <2>2
    <3> QED
      BY <1>1, <1>7, <2>1, <3>1, <3>2, EchoOthersSent, Zenon
  <2>3. CASE d = c
    <3>1. Len(e_up') = Len(e_up) + 1
      BY <1>6, <1>7, <1>11, <2>3
    <3>2. e_up'[Len(e_up) + 1] = m
      BY <1>1, <1>8, <3>1
    <3>3. Standing(d) = e_spoken[c] /\ Standing(d)' = e_spoken[c] + 1
      BY <1>1, <1>3, <2>3 DEF Standing, RE!TypeOK
    <3>4. ~RE!Bye(e_up'[Len(e_up) + 1])
      BY <1>2, <3>2 DEF RE!Bye
    <3>5. e_up'[Len(e_up) + 1].from = d /\ e_up'[Len(e_up) + 1].k = Standing(d) + 1
      BY <1>2, <2>3, <3>2, <3>3
    <3> QED
      BY <1>1, <1>7, <2>1, <3>1, <3>3, <3>4, <3>5, EchoLineSent
  <2> QED
    BY <2>2, <2>3
<1>12. EchoCourses'
  BY <1>1, <1>3, <1>7, <1>11 DEF EchoCourses
<1> QED
  BY <1>9, <1>10, <1>12 DEF EchoInv

LEMMA EchoLeaves == ASSUME EchoInv, NEW c \in Procs, RE!Leave(c) PROVE EchoInv'
<1>1. /\ RE!TypeOK /\ SpokenLines /\ Listed /\ OffNoEntry /\ EchoCourses
      /\ e_up \in Seq(Datagrams) /\ Len(e_up) \in Nat
  <2>1. /\ RE!TypeOK /\ SpokenLines /\ Listed /\ OffNoEntry /\ EchoCourses
        /\ e_up \in Seq(Datagrams)
    BY DEF EchoInv, Listed, RE!TypeOK, Entries, Datagrams
  <2> QED
    BY <2>1, LenProperties
<1>2. PICK m : m = [from |-> c, text |-> "shutdown", k |-> 0]
  BY Zenon
<1>3. /\ e_pc[c] = "leave" /\ e_pc' = [e_pc EXCEPT ![c] = "done"]
      /\ RE!Send(c, <<m>>) \/ RE!Send(c, <<m, m>>)
      /\ e_spoken' = e_spoken /\ e_lines' = e_lines /\ e_server' = e_server
      /\ e_clients' = e_clients /\ e_reply' = e_reply /\ e_copies' = e_copies
      /\ e_starts' = e_starts
  BY <1>2 DEF RE!Leave
<1>4. m \in Datagrams
  BY <1>2, EchoConstants DEF Datagrams
<1>5. PICK sends \in Seq(Datagrams) :
        RE!Send(c, sends) /\ Len(sends) \in Nat \ {0} /\ \A i \in 1 .. Len(sends) : sends[i] = m
  <2>1. CASE RE!Send(c, <<m>>)
    <3>1. <<m>> \in Seq(Datagrams) /\ Len(<<m>>) = 1 /\ \A i \in 1 .. 1 : <<m>>[i] = m
      BY <1>4
    <3>2. PICK sends : sends = <<m>>
      BY Zenon
    <3>3. sends \in Seq(Datagrams) /\ Len(sends) = 1 /\ \A i \in 1 .. 1 : sends[i] = m
      BY <3>1, <3>2
    <3>4. RE!Send(c, sends)
      BY <2>1, <3>2
    <3>5. Len(sends) \in Nat \ {0} /\ \A i \in 1 .. Len(sends) : sends[i] = m
      BY <3>3
    <3> QED
      BY <3>3, <3>4, <3>5, Zenon
  <2>2. CASE RE!Send(c, <<m, m>>)
    <3>1. <<m, m>> \in Seq(Datagrams) /\ Len(<<m, m>>) = 2 /\ \A i \in 1 .. 2 : <<m, m>>[i] = m
      BY <1>4
    <3>2. PICK sends : sends = <<m, m>>
      BY Zenon
    <3>3. sends \in Seq(Datagrams) /\ Len(sends) = 2 /\ \A i \in 1 .. 2 : sends[i] = m
      BY <3>1, <3>2
    <3>4. RE!Send(c, sends)
      BY <2>2, <3>2
    <3>5. Len(sends) \in Nat \ {0} /\ \A i \in 1 .. Len(sends) : sends[i] = m
      BY <3>3
    <3> QED
      BY <3>3, <3>4, <3>5, Zenon
  <2> QED
    BY <1>3, <2>1, <2>2
<1>7. /\ e_up' \in Seq(Datagrams) /\ Len(e_up') >= Len(e_up)
      /\ \A i \in 1 .. Len(e_up) : e_up'[i] = e_up[i]
      /\ \A i \in Len(e_up) + 1 .. Len(e_up') :
            i - Len(e_up) \in 1 .. Len(sends) /\ e_up'[i] = sends[i - Len(e_up)]
      /\ e_lapsed \subseteq e_lapsed' /\ e_lapsed' \subseteq Procs
      /\ \/ c \in e_lapsed'
         \/ Len(e_up') = Len(e_up) + Len(sends)
  BY <1>5, EchoSends
<1>8. Len(e_up') \in Nat /\ \A i \in Len(e_up) + 1 .. Len(e_up') : e_up'[i] = m
  BY <1>5, <1>7, LenProperties
<1>9. RE!TypeOK'
  <2>1. e_pc' \in [Procs -> {"off", "input", "leave", "done"}]
    BY <1>1, <1>3 DEF RE!TypeOK
  <2> QED
    BY <1>1, <1>3, <1>7, <2>1 DEF RE!TypeOK, Datagrams
<1>10. OneEntry' /\ OffNoEntry' /\ SpokenLines'
  BY <1>1, <1>3 DEF Listed, OneEntry, OffNoEntry, SpokenLines
<1>11. ASSUME NEW d \in Procs, d \notin e_lapsed' PROVE EchoCourse(d)'
  <2>1. EchoCourse(d) /\ Counter(d)' = Counter(d)
    BY <1>1, <1>3, <1>7, <1>11, CountersSame DEF EchoCourses
  <2>2. CASE d # c
    <3>1. Standing(d)' = Standing(d)
      BY <1>1, <1>3, <2>2 DEF Standing, RE!TypeOK
    <3>2. \A i \in Len(e_up) + 1 .. Len(e_up') : e_up'[i].from # d
      BY <1>2, <1>8, <2>2
    <3> QED
      BY <1>1, <1>7, <2>1, <3>1, <3>2, EchoOthersSent, Zenon
  <2>3. CASE d = c
    <3>1. Len(e_up') > Len(e_up)
      BY <1>1, <1>5, <1>7, <1>8, <1>11, <2>3
    <3>2. Standing(d)' = 0
      BY <1>1, <1>3, <2>3 DEF Standing, RE!TypeOK
    <3>3. \A i \in Len(e_up) + 1 .. Len(e_up') : e_up'[i].from = d /\ RE!Bye(e_up'[i])
      BY <1>2, <1>8, <2>3 DEF RE!Bye
    <3> QED
      BY <1>1, <1>7, <2>1, <3>1, <3>2, <3>3, EchoByeSent
  <2> QED
    BY <2>2, <2>3
<1>12. EchoCourses'
  BY <1>1, <1>3, <1>7, <1>11 DEF EchoCourses
<1> QED
  BY <1>9, <1>10, <1>12 DEF EchoInv

LEMMA EchoStays == ASSUME EchoInv, UNCHANGED reVars PROVE EchoInv'
<1>1. /\ e_server' = e_server /\ e_clients' = e_clients /\ e_up' = e_up /\ e_reply' = e_reply
      /\ e_lines' = e_lines /\ e_copies' = e_copies /\ e_lapsed' = e_lapsed
      /\ e_pc' = e_pc /\ e_spoken' = e_spoken /\ e_starts' = e_starts
  BY DEF reVars
<1>2. RE!TypeOK' /\ SpokenLines' /\ OffNoEntry'
  BY <1>1, Zenon DEF EchoInv, RE!TypeOK, SpokenLines, OffNoEntry
<1>3. \A c \in Procs : Standing(c)' = Standing(c)
  BY <1>1 DEF Standing
<1>4. OneEntry' /\ EchoCourses'
  BY <1>1, <1>3, EchoQuiet
<1> QED
  BY <1>2, <1>4 DEF EchoInv

\* The inductive invariant of the echo server.
LEMMA EchoInvHolds == Spec => []EchoInv
<1>1. Init => EchoInv
  BY EchoInitially DEF Init
<1>2. EchoInv /\ [Next]_vars => EchoInv'
  <2> SUFFICES ASSUME EchoInv, [RE!Next]_reVars PROVE EchoInv'
    BY EachStep
  <2>1. ASSUME NEW c \in Procs,
               RE!Start(c) \/ RE!Say(c) \/ RE!Interrupt(c) \/ RE!Leave(c) \/ RE!ClientDies(c)
        PROVE  EchoInv'
    BY <2>1, EchoClientMoves, EchoSays, EchoLeaves
  <2> QED
    BY <2>1, EchoServerStarts, EchoReceives, EchoLoses, EchoDuplicates, EchoServerDies, EchoStays
       DEF RE!Next
<1> QED
  BY <1>1, <1>2, PTL DEF Spec

\* Over a network that loses, repeats and reorders datagrams, and with a server and clients
\* that are killed and come back, a client that none of this has hit gets each of its lines
\* back with the number it has since the client was started.
THEOREM CountsFromOneHolds == Spec => []CountsFromOne
<1>1. EchoInv => CountsFromOne
  BY DEF EchoInv, EchoCourses, CountsFromOne, RE!CountsFromOne
<1> QED
  BY <1>1, EchoInvHolds, PTL

-----------------------------------------------------------------------------
(* Sequences, and doubly linked lists in memory.                             *)

\* A set of numbers has a least one.
LEMMA Least == ASSUME NEW S, S \subseteq Nat, S # {} PROVE \E m \in S : \A k \in S : m <= k
<1> DEFINE R == OpToRel(<, Nat)
<1>1. IsWellFoundedOn(R, Nat)
  BY NatLessThanWellFounded, Zenon
<1>2. \A k, m \in Nat : <<k, m>> \in R <=> k < m
  BY DEF OpToRel
<1> HIDE DEF R
<1>3. PICK m \in S : \A k \in S : ~ (<<k, m>> \in R)
  BY <1>1, WFMin, Zenon
<1>4. ASSUME NEW k \in S PROVE m <= k
  <2>1. k \in Nat /\ m \in Nat /\ ~(k < m)
    BY <1>2, <1>3, Zenon
  <2> QED
    BY <2>1
<1> QED
  BY <1>4

\* What is at a place of a list, and the list with a node put into it or taken out.
At(c, i) == IF i \in 1 .. Len(c) THEN c[i] ELSE NULL
With(c, k, n) ==
    [i \in 1 .. Len(c) + 1 |-> IF i < k THEN c[i] ELSE IF i = k THEN n ELSE c[i - 1]]
Without(c, k) == [i \in 1 .. Len(c) - 1 |-> IF i < k THEN c[i] ELSE c[i + 1]]

\* The nodes that are in use hang together in the order of c: from the head on, and from
\* behind, too, if there is a way back.
Whole(h, hd, c, back) ==
    /\ c \in Seq(Node) /\ \A i, j \in 1 .. Len(c) : c[i] = c[j] => i = j
    /\ {n \in Node : h[n] # Free} = {c[i] : i \in 1 .. Len(c)}
    /\ hd = At(c, 1)
    /\ \A i \in 1 .. Len(c) : h[c[i]].next = At(c, i + 1)
    /\ back => \A i \in 1 .. Len(c) : h[c[i]].prev = At(c, i - 1)

\* Going from node to node gives the nodes in their order.
LEMMA ChainWalk ==
    ASSUME NULL \notin Node, NEW h, NEW hd, NEW c, NEW back, Whole(h, hd, c, back), NEW f,
           f = CHOOSE F : F = [n \in {n \in Node : h[n] # Free} \cup {NULL} |->
                                  IF n = NULL THEN <<>> ELSE <<n>> \o F[h[n].next]]
    PROVE  f[hd] = c
<1> DEFINE U == {n \in Node : h[n] # Free}
           p == [n \in U |-> CHOOSE i \in 1 .. Len(c) : c[i] = n]
           g == [n \in U \cup {NULL} |-> IF n = NULL THEN <<>> ELSE SubSeq(c, p[n], Len(c))]
           Fun(F) == F = [n \in U \cup {NULL} |-> IF n = NULL THEN <<>> ELSE <<n>> \o F[h[n].next]]
<1>1. /\ c \in Seq(Node) /\ Len(c) \in Nat /\ \A i \in 1 .. Len(c) : c[i] \in Node
      /\ \A i, j \in 1 .. Len(c) : c[i] = c[j] => i = j
      /\ U = {c[i] : i \in 1 .. Len(c)} /\ hd = At(c, 1)
      /\ \A i \in 1 .. Len(c) : h[c[i]].next = At(c, i + 1)
  BY LenProperties, ElementOfSeq DEF Whole
<1>2. \A i \in 1 .. Len(c) : c[i] \in U /\ p[c[i]] = i /\ c[i] # NULL
  BY <1>1
<1>3. NULL \notin U
  OBVIOUS
<1>4. /\ \A i \in 1 .. Len(c) : g[c[i]] = SubSeq(c, i, Len(c))
      /\ g[NULL] = <<>> /\ DOMAIN g = U \cup {NULL}
  <2> HIDE DEF U, p
  <2> QED
    BY <1>2, <1>3
<1>5. \A i \in 1 .. Len(c) : g[c[i]] = <<c[i]>> \o g[At(c, i + 1)]
  <2> SUFFICES ASSUME NEW i \in 1 .. Len(c)
               PROVE  SubSeq(c, i, Len(c)) = <<c[i]>> \o g[At(c, i + 1)]
    BY <1>4, Zenon
  <2> HIDE DEF g
  <2>1. CASE i < Len(c)
    <3>1. i + 1 \in 1 .. Len(c) /\ At(c, i + 1) = c[i + 1]
      BY <1>1, <2>1 DEF At
    <3>2. g[c[i + 1]] = SubSeq(c, i + 1, Len(c))
      BY <1>4, <3>1
    <3>3. SubSeq(c, i, Len(c)) = <<c[i]>> \o SubSeq(c, i + 1, Len(c))
      BY <1>1, <2>1, SubSeqRecursiveFirst
    <3> QED
      BY <3>1, <3>2, <3>3, Zenon
  <2>2. CASE i = Len(c)
    <3>1. At(c, i + 1) = NULL
      BY <1>1, <2>2 DEF At
    <3>2. SubSeq(c, i, Len(c)) = <<c[i]>> \o SubSeq(c, i + 1, Len(c))
      BY <1>1, <2>2, SubSeqRecursiveFirst
    <3>3. SubSeq(c, i + 1, Len(c)) = <<>>
      BY <1>1, <2>2, SubSeqEmpty
    <3> QED
      BY <1>4, <3>1, <3>2, <3>3, Zenon
  <2> QED
    BY <1>1, <2>1, <2>2, SMTT(30)
<1>6. Fun(g)
  <2>1. ASSUME NEW n \in U PROVE g[n] = <<n>> \o g[h[n].next]
    <3>1. PICK i \in 1 .. Len(c) : n = c[i]
      BY <1>1
    <3>2. h[n].next = At(c, i + 1)
      BY <1>1, <3>1
    <3> HIDE DEF g
    <3>3. g[n] = <<c[i]>> \o g[At(c, i + 1)]
      BY <1>5, <3>1
    <3> QED
      BY <3>1, <3>2, <3>3
  <2>2. g = [n \in U \cup {NULL} |-> IF n = NULL THEN <<>> ELSE <<n>> \o g[h[n].next]]
    <3>1. \A n \in U \cup {NULL} : g[n] = IF n = NULL THEN <<>> ELSE <<n>> \o g[h[n].next]
      <4> HIDE DEF g, U
      <4> QED
        BY <1>3, <1>4, <2>1, Zenon
    <3>2. g = [n \in U \cup {NULL} |-> g[n]]
      OBVIOUS
    <3> HIDE DEF g, U
    <3> QED
      BY <3>1, <3>2, Zenon
  <2> QED
    BY <2>2, Zenon
<1>7. Fun(f)
  <2> HIDE DEF g, U
  <2>1. f = CHOOSE F : Fun(F)
    BY DEF U
  <2> HIDE DEF Fun
  <2> QED
    BY <1>6, <2>1, Zenon
<1>8. /\ f[NULL] = <<>> 
      /\ \A i \in 1 .. Len(c) : f[c[i]] = <<c[i]>> \o f[At(c, i + 1)]
  <2>1. \A n \in U \cup {NULL} : f[n] = IF n = NULL THEN <<>> ELSE <<n>> \o f[h[n].next]
    <3> HIDE DEF U
    <3> QED
      BY <1>7, Zenon
  <2>2. ASSUME NEW i \in 1 .. Len(c) PROVE f[c[i]] = <<c[i]>> \o f[At(c, i + 1)]
    <3>1. c[i] \in U /\ c[i] # NULL
      BY <1>2, Zenon
    <3>2. h[c[i]].next = At(c, i + 1)
      BY <1>1
    <3> HIDE DEF U, Fun
    <3>3. f[c[i]] = <<c[i]>> \o f[h[c[i]].next]
      BY <2>1, <3>1, Zenon
    <3> QED
      BY <3>2, <3>3, Zenon
  <2> HIDE DEF U, Fun
  <2>3. f[NULL] = <<>>
    BY <2>1, Zenon
  <2> QED
    BY <2>2, <2>3, Zenon
<1> HIDE DEF g, Fun
<1>9. \A k \in 0 .. Len(c) : f[At(c, Len(c) + 1 - k)] = g[At(c, Len(c) + 1 - k)]
  <2> DEFINE S == {k \in 0 .. Len(c) : f[At(c, Len(c) + 1 - k)] # g[At(c, Len(c) + 1 - k)]}
  <2> SUFFICES ASSUME S # {} PROVE FALSE
    BY Zenon
  <2>1. PICK k \in S : \A j \in S : k <= j
    <3>1. S \subseteq Nat
      OBVIOUS
    <3> HIDE DEF S
    <3> QED
      BY <3>1, Least, Zenon
  <2>a. k \in 0 .. Len(c) /\ f[At(c, Len(c) + 1 - k)] # g[At(c, Len(c) + 1 - k)]
    BY Zenon
  <2>b. \A j \in 0 .. Len(c) :
           ~(k <= j) => f[At(c, Len(c) + 1 - j)] = g[At(c, Len(c) + 1 - j)]
    BY <2>1, Zenon
  <2>c. Len(c) \in Nat /\ k \in 0 .. Len(c)
    BY <1>1, <2>a, Zenon
  <2> HIDE DEF S
  <2>2. k # 0
    <3>1. At(c, Len(c) + 1) = NULL
      BY <1>1 DEF At
    <3>2. f[At(c, Len(c) + 1)] = g[At(c, Len(c) + 1)]
      BY <1>4, <1>8, <3>1, Zenon
    <3>3. Len(c) + 1 - 0 = Len(c) + 1
      BY <1>1
    <3> SUFFICES ASSUME k = 0 PROVE FALSE
      OBVIOUS
    <3>4. f[At(c, Len(c) + 1 - 0)] # g[At(c, Len(c) + 1 - 0)]
      BY <2>a, Zenon
    <3> QED
      BY <3>2, <3>3, <3>4, Zenon
  <2>3. PICK i \in 1 .. Len(c) : i = Len(c) + 1 - k
    BY <2>2, <2>c
  <2>4. k - 1 \in 0 .. Len(c) /\ ~(k <= k - 1) /\ Len(c) + 1 - (k - 1) = i + 1
    BY <2>2, <2>3, <2>c
  <2>5. f[At(c, i + 1)] = g[At(c, i + 1)]
    BY <2>4, <2>b, Zenon
  <2>6. At(c, i) = c[i]
    BY <2>3 DEF At
  <2>7. f[c[i]] = g[c[i]]
    BY <1>5, <1>8, <2>3, <2>5, Zenon
  <2> QED
    BY <2>3, <2>6, <2>7, <2>a, Zenon
<1>10. f[hd] = g[hd]
  <2>1. Len(c) \in 0 .. Len(c) /\ Len(c) + 1 - Len(c) = 1
    BY <1>1
  <2> QED
    BY <1>1, <1>9, <2>1, Zenon
<1>11. g[hd] = c
  <2>1. CASE Len(c) = 0
    BY <1>1, <1>4, <2>1, EmptySeq DEF At
  <2>2. CASE Len(c) # 0
    <3>1. 1 \in 1 .. Len(c) /\ hd = c[1]
      BY <1>1, <2>2 DEF At
    <3>2. SubSeq(c, 1, Len(c)) = c
      BY <1>1, SubSeqFull
    <3> QED
      BY <1>4, <3>1, <3>2, Zenon
  <2> QED
    BY <2>1, <2>2
<1> QED
  BY <1>10, <1>11

\* A new node is put at place k.
LEMMA WholeWith ==
    ASSUME NULL \notin Node, NEW h, NEW hd, NEW c, NEW back, Whole(h, hd, c, back),
           NEW n \in Node, h[n] = Free, NEW k \in 1 .. Len(c) + 1, NEW g, NEW hd2,
           g[n] # Free, \A m \in Node : m # n => (g[m] = Free <=> h[m] = Free),
           g[n].next = At(c, k), back => g[n].prev = At(c, k - 1),
           \A i \in 1 .. Len(c) :
              /\ g[c[i]].next = IF i = k - 1 THEN n ELSE h[c[i]].next
              /\ back => g[c[i]].prev = IF i = k THEN n ELSE h[c[i]].prev,
           hd2 = IF k = 1 THEN n ELSE hd
    PROVE  Whole(g, hd2, With(c, k, n), back)
<1> DEFINE d == With(c, k, n)
<1>1. /\ c \in Seq(Node) /\ Len(c) \in Nat /\ \A i \in 1 .. Len(c) : c[i] \in Node
      /\ \A i, j \in 1 .. Len(c) : c[i] = c[j] => i = j
      /\ {m \in Node : h[m] # Free} = {c[i] : i \in 1 .. Len(c)} /\ hd = At(c, 1)
      /\ \A i \in 1 .. Len(c) : h[c[i]].next = At(c, i + 1)
      /\ back => \A i \in 1 .. Len(c) : h[c[i]].prev = At(c, i - 1)
  BY LenProperties, ElementOfSeq DEF Whole
<1>2. /\ \A i \in 1 .. Len(c) + 1 : d[i] = IF i < k THEN c[i] ELSE IF i = k THEN n ELSE c[i - 1]
      /\ DOMAIN d = 1 .. Len(c) + 1
  BY DEF With
<1>3. /\ \A i \in 1 .. Len(c) + 1 : i < k => i \in 1 .. Len(c) /\ d[i] = c[i]
      /\ d[k] = n
      /\ \A i \in 1 .. Len(c) + 1 : i > k => i - 1 \in 1 .. Len(c) /\ d[i] = c[i - 1]
  <2> HIDE DEF d
  <2> QED
    BY <1>1, <1>2
<1>4. d \in Seq(Node) /\ Len(d) = Len(c) + 1
  <2> HIDE DEF d
  <2>1. \A i \in 1 .. Len(c) + 1 : d[i] \in Node
    BY <1>1, <1>3
  <2>2. d \in [1 .. Len(c) + 1 -> Node]
    <3>1. d = [i \in 1 .. Len(c) + 1 |-> d[i]]
      BY DEF d, With
    <3> QED
      BY <2>1, <3>1
  <2>3. d \in Seq(Node)
    BY <1>1, <2>2
  <2> QED
    BY <1>1, <1>2, <2>3, LenProperties
<1> HIDE DEF d
<1>5. \A i \in 1 .. Len(c) : c[i] # n
  BY <1>1
<1>6. ASSUME NEW i \in 1 .. Len(d), NEW j \in 1 .. Len(d), d[i] = d[j] PROVE i = j
  <2>1. i < k \/ i = k \/ i > k
    BY <1>1
  <2>2. j < k \/ j = k \/ j > k
    BY <1>1
  <2>3. \A l \in 1 .. Len(d) : l # k =>
            \E a \in 1 .. Len(c) : d[l] = c[a] /\ (l < k => a = l) /\ (l > k => a = l - 1)
    <3> SUFFICES ASSUME NEW l \in 1 .. Len(d), l # k
                 PROVE  \E a \in 1 .. Len(c) :
                            d[l] = c[a] /\ (l < k => a = l) /\ (l > k => a = l - 1)
      BY Zenon
    <3>1. CASE l < k
      BY <1>1, <1>3, <1>4, <3>1
    <3>2. CASE l > k
      BY <1>1, <1>3, <1>4, <3>2
    <3> QED
      BY <1>1, <1>4, <3>1, <3>2
  <2>4. CASE i = k
    BY <1>3, <1>5, <1>6, <2>3, <2>4
  <2>5. CASE j = k
    BY <1>3, <1>5, <1>6, <2>3, <2>5
  <2>6. CASE i # k /\ j # k
    <3>1. PICK a \in 1 .. Len(c) : d[i] = c[a] /\ (i < k => a = i) /\ (i > k => a = i - 1)
      BY <2>3, <2>6, Zenon
    <3>2. PICK b \in 1 .. Len(c) : d[j] = c[b] /\ (j < k => b = j) /\ (j > k => b = j - 1)
      BY <2>3, <2>6
    <3>3. a = b
      BY <1>1, <1>6, <3>1, <3>2, ZenonT(40)
    <3> QED
      BY <1>1, <1>4, <2>1, <2>2, <2>6, <3>1, <3>2, <3>3
  <2> QED
    BY <2>4, <2>5, <2>6
<1>7. {m \in Node : g[m] # Free} = {d[i] : i \in 1 .. Len(d)}
  <2>1. ASSUME NEW m \in Node, g[m] # Free PROVE \E i \in 1 .. Len(d) : d[i] = m
    <3>1. CASE m = n
      BY <1>3, <1>4, <3>1
    <3>2. CASE m # n
      <4>1. h[m] # Free
        BY <2>1, <3>2
      <4>2. PICK i \in 1 .. Len(c) : c[i] = m
        BY <1>1, <4>1
      <4>3. CASE i < k
        <5>1. i \in 1 .. Len(d) /\ d[i] = c[i]
          BY <1>1, <1>3, <1>4, <4>3
        <5> QED
          BY <4>2, <5>1
      <4>4. CASE i >= k
        <5>1. i + 1 \in 1 .. Len(d) /\ i + 1 > k /\ (i + 1) - 1 = i
          BY <1>1, <1>4, <4>4
        <5> QED
          BY <1>3, <1>4, <4>2, <5>1, ZenonT(40)
      <4> QED
        BY <1>1, <4>3, <4>4
    <3> QED
      BY <3>1, <3>2
  <2>2. ASSUME NEW i \in 1 .. Len(d) PROVE d[i] \in Node /\ g[d[i]] # Free
    <3>1. CASE i = k
      BY <1>3, <3>1
    <3>2. CASE i # k
      <4>1. PICK j \in 1 .. Len(c) : d[i] = c[j]
        BY <1>1, <1>3, <1>4, <3>2
      <4>2. c[j] \in Node /\ h[c[j]] # Free /\ c[j] # n
        BY <1>1, <1>5
      <4> QED
        BY <4>1, <4>2
    <3> QED
      BY <3>1, <3>2
  <2> QED
    BY <2>1, <2>2
<1>8. /\ \A i \in 1 .. Len(c) + 2 : i < k => At(d, i) = At(c, i)
      /\ At(d, k) = n
      /\ \A i \in 1 .. Len(c) + 2 : i > k => At(d, i) = At(c, i - 1)
      /\ At(d, 0) = NULL /\ At(c, 0) = NULL
  <2>1. At(d, k) = n
    BY <1>3, <1>4 DEF At
  <2>2. ASSUME NEW i \in 1 .. Len(c) + 2, i < k PROVE At(d, i) = At(c, i)
    <3>1. i \in 1 .. Len(c) + 1 /\ i \in 1 .. Len(c)
      BY <1>1, <2>2
    <3> QED
      BY <1>3, <1>4, <2>2, <3>1 DEF At
  <2>3. ASSUME NEW i \in 1 .. Len(c) + 2, i > k PROVE At(d, i) = At(c, i - 1)
    <3>1. CASE i <= Len(c) + 1
      <4>1. i \in 1 .. Len(c) + 1 /\ i - 1 \in 1 .. Len(c)
        BY <1>1, <2>3, <3>1
      <4> QED
        BY <1>3, <1>4, <2>3, <4>1 DEF At
    <3>2. CASE i > Len(c) + 1
      <4>1. i \notin 1 .. Len(c) + 1 /\ i - 1 \notin 1 .. Len(c)
        BY <1>1, <3>2
      <4> QED
        BY <1>4, <4>1 DEF At
    <3> QED
      BY <1>1, <3>1, <3>2
  <2>4. At(d, 0) = NULL /\ At(c, 0) = NULL
    BY <1>1, <1>4 DEF At
  <2> QED
    BY <2>1, <2>2, <2>3, <2>4
<1>9. hd2 = At(d, 1)
  BY <1>1, <1>8
<1>10. ASSUME NEW i \in 1 .. Len(d) PROVE g[d[i]].next = At(d, i + 1)
  <2>1. CASE i < k - 1
    <3>1. i \in 1 .. Len(c) /\ d[i] = c[i] /\ i # k - 1 /\ At(d, i + 1) = At(c, i + 1)
      BY <1>1, <1>3, <1>4, <1>8, <2>1
    <3> QED
      BY <1>1, <3>1
  <2>2. CASE i = k - 1
    <3>1. i \in 1 .. Len(c) /\ d[i] = c[i] /\ At(d, i + 1) = n
      BY <1>1, <1>3, <1>4, <1>8, <2>2
    <3> QED
      BY <2>2, <3>1
  <2>3. CASE i = k
    <3>1. At(d, i + 1) = At(c, k)
      BY <1>1, <1>8, <2>3
    <3> QED
      BY <1>3, <2>3, <3>1
  <2>4. CASE i > k
    <3>1. /\ i - 1 \in 1 .. Len(c) /\ d[i] = c[i - 1] /\ i - 1 # k - 1
          /\ At(d, i + 1) = At(c, (i - 1) + 1)
      BY <1>1, <1>3, <1>4, <1>8, <2>4
    <3>2. g[c[i - 1]].next = h[c[i - 1]].next /\ h[c[i - 1]].next = At(c, (i - 1) + 1)
      BY <1>1, <3>1, Zenon
    <3> QED
      BY <3>1, <3>2
  <2> QED
    BY <1>1, <1>4, <2>1, <2>2, <2>3, <2>4
<1>11. ASSUME back, NEW i \in 1 .. Len(d) PROVE g[d[i]].prev = At(d, i - 1)
  <2>1. CASE i < k
    <3>1. i \in 1 .. Len(c) /\ d[i] = c[i] /\ i # k
      BY <1>1, <1>3, <1>4, <2>1
    <3>2. g[c[i]].prev = At(c, i - 1)
      BY <1>1, <1>11, <3>1
    <3>3. At(d, i - 1) = At(c, i - 1)
      <4>1. CASE i = 1
        BY <1>8, <4>1
      <4>2. CASE i # 1
        <5>1. i - 1 \in 1 .. Len(c) + 2 /\ i - 1 < k
          BY <1>1, <1>4, <2>1, <4>2
        <5> QED
          BY <1>8, <5>1
      <4> QED
        BY <4>1, <4>2
    <3> QED
      BY <3>1, <3>2, <3>3
  <2>2. CASE i = k
    <3>1. At(d, i - 1) = At(c, k - 1)
      <4>1. CASE k = 1
        BY <1>8, <2>2, <4>1
      <4>2. CASE k # 1
        <5>1. k - 1 \in 1 .. Len(c) + 2 /\ k - 1 < k
          BY <1>1, <4>2
        <5> QED
          BY <1>8, <2>2, <5>1
      <4> QED
        BY <4>1, <4>2
    <3> QED
      BY <1>3, <1>11, <2>2, <3>1
  <2>3. CASE i = k + 1
    <3>1. i - 1 \in 1 .. Len(c) /\ d[i] = c[i - 1] /\ i - 1 = k /\ At(d, i - 1) = n
      BY <1>1, <1>3, <1>4, <1>8, <2>3
    <3> QED
      BY <1>11, <3>1
  <2>4. CASE i > k + 1
    <3>1. /\ i - 1 \in 1 .. Len(c) /\ d[i] = c[i - 1] /\ i - 1 # k
          /\ At(d, i - 1) = At(c, (i - 1) - 1)
      BY <1>1, <1>3, <1>4, <1>8, <2>4
    <3>2. g[c[i - 1]].prev = h[c[i - 1]].prev /\ h[c[i - 1]].prev = At(c, (i - 1) - 1)
      BY <1>1, <1>11, <3>1, Zenon
    <3> QED
      BY <3>1, <3>2
  <2> QED
    BY <1>1, <1>4, <2>1, <2>2, <2>3, <2>4
<1> QED
  BY <1>4, <1>6, <1>7, <1>9, <1>10, <1>11 DEF Whole, d

\* The node at place k is taken out.
LEMMA WholeWithout ==
    ASSUME NULL \notin Node, NEW h, NEW hd, NEW c, NEW back, NEW back2, back2 => back,
           Whole(h, hd, c, back),
           NEW k \in 1 .. Len(c), NEW g, NEW hd2,
           \A m \in Node : g[m] = Free <=> m = c[k] \/ h[m] = Free,
           \A i \in 1 .. Len(c) : i # k =>
              /\ g[c[i]].next = IF i = k - 1 THEN h[c[k]].next ELSE h[c[i]].next
              /\ back2 => g[c[i]].prev = IF i = k + 1 THEN h[c[k]].prev ELSE h[c[i]].prev,
           hd2 = IF k = 1 THEN h[c[k]].next ELSE hd
    PROVE  Whole(g, hd2, Without(c, k), back2)
<1> DEFINE d == Without(c, k)
<1>1. /\ c \in Seq(Node) /\ Len(c) \in Nat /\ \A i \in 1 .. Len(c) : c[i] \in Node
      /\ \A i, j \in 1 .. Len(c) : c[i] = c[j] => i = j
      /\ {m \in Node : h[m] # Free} = {c[i] : i \in 1 .. Len(c)} /\ hd = At(c, 1)
      /\ \A i \in 1 .. Len(c) : h[c[i]].next = At(c, i + 1)
      /\ back => \A i \in 1 .. Len(c) : h[c[i]].prev = At(c, i - 1)
  BY LenProperties, ElementOfSeq, Zenon DEF Whole
<1>2. /\ \A i \in 1 .. Len(c) - 1 : d[i] = IF i < k THEN c[i] ELSE c[i + 1]
      /\ DOMAIN d = 1 .. Len(c) - 1
  BY DEF Without
<1>3. /\ \A i \in 1 .. Len(c) - 1 : i < k => i \in 1 .. Len(c) /\ d[i] = c[i]
      /\ \A i \in 1 .. Len(c) - 1 : i >= k => i + 1 \in 1 .. Len(c) /\ d[i] = c[i + 1]
  <2> HIDE DEF d
  <2> QED
    BY <1>1, <1>2
<1>4. d \in Seq(Node) /\ Len(d) = Len(c) - 1 /\ Len(c) - 1 \in Nat
  <2> HIDE DEF d
  <2>1. ASSUME NEW i \in 1 .. Len(c) - 1 PROVE d[i] \in Node
    <3>1. i < k \/ i >= k
      BY <1>1
    <3> QED
      BY <1>1, <1>3, <3>1, Zenon
  <2>2. d \in [1 .. Len(c) - 1 -> Node]
    <3>1. d = [i \in 1 .. Len(c) - 1 |-> d[i]]
      BY DEF d, Without
    <3> QED
      BY <2>1, <3>1
  <2>3. Len(c) - 1 \in Nat
    BY <1>1
  <2>4. d \in Seq(Node)
    BY <2>2, <2>3
  <2> QED
    BY <1>2, <2>3, <2>4, LenProperties
<1> HIDE DEF d
<1>6. ASSUME NEW i \in 1 .. Len(d), NEW j \in 1 .. Len(d), d[i] = d[j] PROVE i = j
  <2>1. (i < k \/ i >= k) /\ (j < k \/ j >= k)
    BY <1>1
  <2> QED
    BY <1>1, <1>3, <1>4, <1>6, <2>1, SMTT(30)
<1>5. \A i \in 1 .. Len(d) : d[i] # c[k]
  BY <1>1, <1>3, <1>4
<1>7. {m \in Node : g[m] # Free} = {d[i] : i \in 1 .. Len(d)}
  <2>1. ASSUME NEW m \in Node, g[m] # Free PROVE \E i \in 1 .. Len(d) : d[i] = m
    <3>1. h[m] # Free /\ m # c[k]
      BY <2>1
    <3>2. PICK i \in 1 .. Len(c) : c[i] = m
      BY <1>1, <3>1
    <3>3. CASE i < k
      BY <1>1, <1>3, <1>4, <3>2, <3>3, SMTT(30)
    <3>4. CASE i > k
      <4>1. i - 1 \in 1 .. Len(d) /\ i - 1 >= k /\ (i - 1) + 1 = i
        BY <1>1, <1>4, <3>4
      <4> QED
        BY <1>3, <1>4, <3>2, <4>1, Zenon
    <3> QED
      BY <1>1, <3>1, <3>2, <3>3, <3>4
  <2>2. ASSUME NEW i \in 1 .. Len(d) PROVE d[i] \in Node /\ g[d[i]] # Free
    <3>1. PICK j \in 1 .. Len(c) : d[i] = c[j]
      BY <1>1, <1>3, <1>4
    <3>2. c[j] \in Node /\ h[c[j]] # Free
      BY <1>1
    <3> QED
      BY <1>5, <3>1, <3>2
  <2> QED
    BY <2>1, <2>2
<1>8. /\ \A i \in 1 .. Len(c) : i < k => At(d, i) = At(c, i)
      /\ \A i \in 1 .. Len(c) : i >= k => At(d, i) = At(c, i + 1)
      /\ At(d, 0) = NULL /\ At(c, 0) = NULL
  <2>1. ASSUME NEW i \in 1 .. Len(c), i < k PROVE At(d, i) = At(c, i)
    <3>1. i \in 1 .. Len(c) - 1
      BY <1>1, <2>1
    <3> QED
      BY <1>3, <1>4, <2>1, <3>1 DEF At
  <2>2. ASSUME NEW i \in 1 .. Len(c), i >= k PROVE At(d, i) = At(c, i + 1)
    <3>1. CASE i < Len(c)
      <4>1. i \in 1 .. Len(c) - 1 /\ i + 1 \in 1 .. Len(c)
        BY <1>1, <3>1
      <4> QED
        BY <1>3, <1>4, <2>2, <4>1 DEF At
    <3>2. CASE i = Len(c)
      <4>1. i \notin 1 .. Len(c) - 1 /\ i + 1 \notin 1 .. Len(c)
        BY <1>1, <3>2
      <4> QED
        BY <1>4, <4>1 DEF At
    <3> QED
      BY <1>1, <3>1, <3>2
  <2>3. At(d, 0) = NULL /\ At(c, 0) = NULL
    BY <1>1, <1>4 DEF At
  <2> QED
    BY <2>1, <2>2, <2>3
<1>9. hd2 = At(d, 1)
  <2>1. 1 \in 1 .. Len(c)
    BY <1>1
  <2>2. CASE k = 1
    BY <1>1, <1>8, <2>1, <2>2
  <2>3. CASE k # 1
    BY <1>1, <1>8, <2>1, <2>3
  <2> QED
    BY <2>2, <2>3
<1>10. ASSUME NEW i \in 1 .. Len(d) PROVE g[d[i]].next = At(d, i + 1)
  <2>1. CASE i < k - 1
    <3>1. /\ i \in 1 .. Len(c) /\ d[i] = c[i] /\ i # k - 1 /\ i # k
          /\ At(d, i + 1) = At(c, i + 1)
      BY <1>1, <1>3, <1>4, <1>8, <2>1
    <3> QED
      BY <1>1, <3>1, Zenon
  <2>2. CASE i = k - 1
    <3>1. /\ i \in 1 .. Len(c) /\ d[i] = c[i] /\ i # k /\ i + 1 = k
          /\ At(d, i + 1) = At(c, k + 1)
      BY <1>1, <1>3, <1>4, <1>8, <2>2
    <3>2. g[c[i]].next = h[c[k]].next
      BY <2>2, <3>1
    <3>3. h[c[k]].next = At(c, k + 1)
      BY <1>1
    <3> QED
      BY <3>1, <3>2, <3>3
  <2>3. CASE i >= k
    <3>1. /\ i + 1 \in 1 .. Len(c) /\ d[i] = c[i + 1] /\ i + 1 # k - 1 /\ i + 1 # k
          /\ At(d, i + 1) = At(c, (i + 1) + 1)
      BY <1>1, <1>3, <1>4, <1>8, <2>3
    <3>2. g[c[i + 1]].next = h[c[i + 1]].next /\ h[c[i + 1]].next = At(c, (i + 1) + 1)
      BY <1>1, <3>1
    <3> QED
      BY <3>1, <3>2
  <2> QED
    BY <1>1, <1>4, <2>1, <2>2, <2>3
<1>11. ASSUME back2, NEW i \in 1 .. Len(d) PROVE g[d[i]].prev = At(d, i - 1)
  <2>1. CASE i < k
    <3>1. i \in 1 .. Len(c) /\ d[i] = c[i] /\ i # k /\ i # k + 1
      BY <1>1, <1>3, <1>4, <2>1
    <3>2. g[c[i]].prev = At(c, i - 1)
      BY <1>1, <1>11, <3>1, Zenon
    <3>3. At(d, i - 1) = At(c, i - 1)
      <4>1. CASE i = 1
        BY <1>8, <4>1
      <4>2. CASE i # 1
        <5>1. i - 1 \in 1 .. Len(c) /\ i - 1 < k
          BY <1>1, <1>4, <2>1, <4>2
        <5> QED
          BY <1>8, <5>1
      <4> QED
        BY <4>1, <4>2
    <3> QED
      BY <3>1, <3>2, <3>3
  <2>2. CASE i = k
    <3>1. i + 1 \in 1 .. Len(c) /\ d[i] = c[i + 1] /\ i + 1 = k + 1 /\ i + 1 # k
      BY <1>1, <1>3, <1>4, <2>2
    <3>2. g[c[i + 1]].prev = h[c[k]].prev /\ h[c[k]].prev = At(c, k - 1)
      BY <1>1, <1>11, <3>1, Zenon
    <3>3. At(d, i - 1) = At(c, k - 1)
      <4>1. CASE k = 1
        BY <1>8, <2>2, <4>1
      <4>2. CASE k # 1
        <5>1. k - 1 \in 1 .. Len(c) /\ k - 1 < k
          BY <1>1, <4>2
        <5> QED
          BY <1>8, <2>2, <5>1
      <4> QED
        BY <4>1, <4>2
    <3> QED
      BY <3>1, <3>2, <3>3
  <2>3. CASE i > k
    <3>1. /\ i + 1 \in 1 .. Len(c) /\ d[i] = c[i + 1] /\ i + 1 # k + 1 /\ i + 1 # k
          /\ At(d, i - 1) = At(c, (i + 1) - 1)
      BY <1>1, <1>3, <1>4, <1>8, <2>3
    <3>2. g[c[i + 1]].prev = h[c[i + 1]].prev /\ h[c[i + 1]].prev = At(c, (i + 1) - 1)
      BY <1>1, <1>11, <3>1, Zenon
    <3> QED
      BY <3>1, <3>2
  <2> QED
    BY <1>1, <1>4, <2>1, <2>2, <2>3
<1> QED
  BY <1>4, <1>6, <1>7, <1>9, <1>10, <1>11, Zenon DEF Whole, d

\* The least element of a set of numbers.
LEMMA LeastChosen ==
    ASSUME NEW S, S \subseteq Nat, S # {}, NEW m, m = CHOOSE x \in S : \A y \in S : x =< y
    PROVE  m \in S /\ \A k \in S : m <= k
BY Least, Zenon

-----------------------------------------------------------------------------
(* The priority queue.                                                       *)

LEMMA QueueConstants ==
    MaxPriority \in Nat /\ MaxCount \in Nat /\ NULL \notin Node /\ Free \notin CQ!NodeType
BY ProgramsAssumption DEF CQ!QueueAssumption

Ordered(h, c) == \A i, j \in 1 .. Len(c) : i < j => h[c[i]].priority <= h[c[j]].priority

\* The inductive invariant: the list is whole, and in the order of priorities.
QueueInv ==
    /\ CQ!TypeOK /\ Whole(q_heap, q_head, CQ!Chain, TRUE) /\ Ordered(q_heap, CQ!Chain)

LEMMA QueueChain == \A c, back : Whole(q_heap, q_head, c, back) => CQ!Chain = c
<1> SUFFICES ASSUME NEW c, NEW back, Whole(q_heap, q_head, c, back) PROVE CQ!Chain = c
  OBVIOUS
<1>1. PICK f : f = CHOOSE F : F = [n \in {n \in Node : q_heap[n] # Free} \cup {NULL} |->
                                     IF n = NULL THEN <<>> ELSE <<n>> \o F[q_heap[n].next]]
  BY Zenon
<1>2. CQ!Used = {n \in Node : q_heap[n] # Free}
  BY DEF CQ!Used, CQ!Spare
<1>3. CQ!Chain = f[q_head]
  BY <1>1, <1>2, Zenon DEF CQ!Chain
<1>4. f[q_head] = c
  BY <1>1, QueueConstants, ChainWalk, Zenon
<1> QED
  BY <1>3, <1>4

LEMMA QueueChainNext == (\A c, back : Whole(q_heap, q_head, c, back) => CQ!Chain = c)'
BY QueueChain, PTL

\* What is known of the list of messages.
LEMMA QueueFacts ==
    ASSUME QueueInv
    PROVE  /\ CQ!Chain \in Seq(Node) /\ Len(CQ!Chain) \in Nat
           /\ q_heap \in [Node -> CQ!NodeType \cup {Free}]
           /\ \A i \in 1 .. Len(CQ!Chain) :
                 /\ CQ!Chain[i] \in Node /\ CQ!Chain[i] # NULL
                 /\ q_heap[CQ!Chain[i]] \in CQ!NodeType /\ q_heap[CQ!Chain[i]] # Free
                 /\ q_heap[CQ!Chain[i]].next = At(CQ!Chain, i + 1)
                 /\ q_heap[CQ!Chain[i]].prev = At(CQ!Chain, i - 1)
           /\ \A i, j \in 1 .. Len(CQ!Chain) : CQ!Chain[i] = CQ!Chain[j] => i = j
           /\ CQ!Used = {CQ!Chain[i] : i \in 1 .. Len(CQ!Chain)}
           /\ q_head = At(CQ!Chain, 1)
<1>1. /\ CQ!Chain \in Seq(Node) /\ Len(CQ!Chain) \in Nat
      /\ q_heap \in [Node -> CQ!NodeType \cup {Free}]
      /\ \A i \in 1 .. Len(CQ!Chain) : CQ!Chain[i] \in Node
  BY LenProperties, ElementOfSeq DEF QueueInv, Whole, CQ!TypeOK
<1>2. CQ!Used = {n \in Node : q_heap[n] # Free}
  BY DEF CQ!Used, CQ!Spare
<1>3. CQ!Used = {CQ!Chain[i] : i \in 1 .. Len(CQ!Chain)}
  BY <1>2 DEF QueueInv, Whole
<1>4. ASSUME NEW i \in 1 .. Len(CQ!Chain)
      PROVE  q_heap[CQ!Chain[i]] \in CQ!NodeType /\ q_heap[CQ!Chain[i]] # Free
  BY <1>1, <1>2, <1>3
<1> QED
  BY <1>1, <1>3, <1>4, QueueConstants, Zenon DEF QueueInv, Whole

\* The node a loop stops at.
LEMMA QueueSeek ==
    ASSUME QueueInv, NEW found
    PROVE  \/ /\ CQ!Seek(found) = NULL
              /\ \A i \in 1 .. Len(CQ!Chain) : CQ!Chain[i] \notin found
           \/ \E k \in 1 .. Len(CQ!Chain) :
                 /\ CQ!Seek(found) = CQ!Chain[k] /\ CQ!Chain[k] \in found
                 /\ \A i \in 1 .. Len(CQ!Chain) : i < k => CQ!Chain[i] \notin found
<1> DEFINE I == {i \in 1 .. Len(CQ!Chain) : CQ!Chain[i] \in found}
<1>1. CQ!Chain \in Seq(Node) /\ Len(CQ!Chain) \in Nat
  BY QueueFacts
<1>2. DOMAIN CQ!Chain = 1 .. Len(CQ!Chain)
  BY <1>1, LenProperties
<1>3. CQ!Seek(found) = IF I = {} THEN NULL
                       ELSE CQ!Chain[CHOOSE x \in I : \A y \in I : x =< y]
  BY <1>2 DEF CQ!Seek, CQ!Min
<1>4. CASE I = {}
  BY <1>3, <1>4
<1>5. CASE I # {}
  <2>1. PICK k : k = CHOOSE x \in I : \A y \in I : x =< y
    BY Zenon
  <2>2. CQ!Seek(found) = CQ!Chain[k]
    BY <1>3, <1>5, <2>1, Zenon
  <2>3. I \subseteq Nat
    BY <1>1
  <2>4. k \in I /\ \A i \in I : k <= i
    <3> HIDE DEF I
    <3> QED
      BY <1>5, <2>1, <2>3, LeastChosen, Zenon
  <2>5. k \in 1 .. Len(CQ!Chain) /\ CQ!Chain[k] \in found
    BY <1>1, <2>4
  <2>6. \A i \in 1 .. Len(CQ!Chain) : i < k => CQ!Chain[i] \notin found
    BY <1>1, <2>4, <2>5
  <2> QED
    BY <2>2, <2>5, <2>6
<1> QED
  BY <1>4, <1>5

LEMMA QueueEnd == ASSUME QueueInv PROVE CQ!End = At(CQ!Chain, Len(CQ!Chain))
<1> DEFINE found == {n \in CQ!Used : q_heap[n].next = NULL}
<1>1. CQ!End = CQ!Seek(found)
  BY DEF CQ!End
<1>2. \A i \in 1 .. Len(CQ!Chain) : CQ!Chain[i] \in found <=> i = Len(CQ!Chain)
  <2> SUFFICES ASSUME NEW i \in 1 .. Len(CQ!Chain)
               PROVE  CQ!Chain[i] \in found <=> i = Len(CQ!Chain)
    OBVIOUS
  <2>1. CQ!Chain[i] \in found <=> At(CQ!Chain, i + 1) = NULL
    BY QueueFacts
  <2>2. At(CQ!Chain, i + 1) = NULL <=> i = Len(CQ!Chain)
    <3>1. CASE i = Len(CQ!Chain)
      <4>1. i + 1 \notin 1 .. Len(CQ!Chain)
        BY QueueFacts, <3>1
      <4> QED
        BY <3>1, <4>1 DEF At
    <3>2. CASE i # Len(CQ!Chain)
      <4>1. i + 1 \in 1 .. Len(CQ!Chain)
        BY QueueFacts, <3>2
      <4>2. CQ!Chain[i + 1] # NULL
        BY QueueFacts, <4>1
      <4> QED
        BY <3>2, <4>1, <4>2 DEF At
    <3> QED
      BY <3>1, <3>2
  <2> QED
    BY <2>1, <2>2
<1> HIDE DEF found
<1>3. Len(CQ!Chain) \in Nat
  BY QueueFacts
<1>4. CASE Len(CQ!Chain) = 0
  <2>1. At(CQ!Chain, Len(CQ!Chain)) = NULL
    BY <1>4 DEF At
  <2>2. CQ!Seek(found) = NULL
    BY <1>4, QueueSeek
  <2> QED
    BY <1>1, <2>1, <2>2
<1>5. CASE Len(CQ!Chain) # 0
  <2>1. Len(CQ!Chain) \in 1 .. Len(CQ!Chain)
    BY <1>3, <1>5
  <2>2. CQ!Seek(found) = CQ!Chain[Len(CQ!Chain)]
    BY <1>2, <2>1, QueueSeek
  <2> QED
    BY <1>1, <2>1, <2>2 DEF At
<1> QED
  BY <1>4, <1>5

\* Where push puts a message: the places before have messages at least as urgent, those from
\* there on less urgent ones.
LEMMA QueuePlace ==
    ASSUME QueueInv, NEW p \in Int, NEW found,
           \A m \in CQ!Used : m \in found <=> ~(q_heap[m].priority <= p),
           NEW temp, temp = CQ!Seek(found),
           NEW before, before = CASE temp = NULL   -> CQ!End
                                  [] temp = q_head -> NULL
                                  [] OTHER         -> q_heap[temp].prev
    PROVE  \E k \in 1 .. Len(CQ!Chain) + 1 :
              /\ temp = At(CQ!Chain, k) /\ before = At(CQ!Chain, k - 1)
              /\ \A i \in 1 .. Len(CQ!Chain) : i < k <=> q_heap[CQ!Chain[i]].priority <= p
<1> PICK c : c = CQ!Chain
  OBVIOUS
<1>1. /\ Len(c) \in Nat /\ q_head = At(c, 1)
      /\ \A i \in 1 .. Len(c) : /\ c[i] \in CQ!Used /\ c[i] # NULL
                                /\ q_heap[c[i]].priority \in Int
                                /\ q_heap[c[i]].prev = At(c, i - 1)
      /\ \A i, j \in 1 .. Len(c) : c[i] = c[j] => i = j
      /\ \A i, j \in 1 .. Len(c) : i < j => q_heap[c[i]].priority <= q_heap[c[j]].priority
  <2>1. \A i \in 1 .. Len(c) : q_heap[c[i]].priority \in Int
    <3> TAKE i \in 1 .. Len(c)
    <3>1. q_heap[c[i]] \in CQ!NodeType
      BY QueueFacts
    <3> QED
      BY <3>1, QueueConstants DEF CQ!NodeType
  <2>2. \A i, j \in 1 .. Len(c) : i < j => q_heap[c[i]].priority <= q_heap[c[j]].priority
    BY DEF QueueInv, Ordered
  <2> QED
    BY <2>1, <2>2, QueueFacts
<1>2. \A i \in 1 .. Len(c) : c[i] \in found <=> ~(q_heap[c[i]].priority <= p)
  BY <1>1
<1>3. CASE /\ temp = NULL
           /\ \A i \in 1 .. Len(c) : c[i] \notin found
  <2>1. before = At(c, Len(c))
    <3>1. CQ!End = At(c, Len(c))
      BY QueueEnd
    <3>2. CASE q_head = NULL
      <4>1. Len(c) = 0
        <5>1. ~(1 \in 1 .. Len(c))
          BY <1>1, <3>2 DEF At
        <5> QED
          BY <1>1, <5>1
      <4>2. At(c, Len(c)) = NULL
        BY <4>1 DEF At
      <4> QED
        BY <1>3, <3>1, <3>2, <4>2
    <3>3. CASE q_head # NULL
      BY <1>3, <3>1, <3>3
    <3> QED
      BY <3>2, <3>3
  <2>2. temp = At(c, Len(c) + 1)
    BY <1>1, <1>3 DEF At
  <2> WITNESS Len(c) + 1 \in 1 .. Len(c) + 1
  <2> QED
    BY <1>1, <1>2, <1>3, <2>1, <2>2
<1>4. ASSUME NEW k \in 1 .. Len(c), temp = c[k], c[k] \in found,
             \A i \in 1 .. Len(c) : i < k => c[i] \notin found
      PROVE  \E j \in 1 .. Len(c) + 1 :
                /\ temp = At(c, j) /\ before = At(c, j - 1)
                /\ \A i \in 1 .. Len(c) : i < j <=> q_heap[c[i]].priority <= p
  <2>1. temp = At(c, k) /\ temp # NULL
    BY <1>1, <1>4 DEF At
  <2>2. before = At(c, k - 1)
    <3>1. CASE k = 1
      <4>1. temp = q_head
        BY <1>1, <2>1, <3>1
      <4>2. At(c, k - 1) = NULL
        BY <1>1, <3>1 DEF At
      <4> QED
        BY <2>1, <4>1, <4>2
    <3>2. CASE k # 1
      <4>1. temp # q_head
        <5>1. 1 \in 1 .. Len(c)
          BY <1>1
        <5>2. q_head = c[1]
          BY <1>1, <5>1 DEF At
        <5> QED
          BY <1>1, <1>4, <3>2, <5>1, <5>2
      <4> QED
        BY <1>1, <1>4, <2>1, <4>1, Zenon
    <3> QED
      BY <3>1, <3>2
  <2>3. ASSUME NEW i \in 1 .. Len(c) PROVE i < k <=> q_heap[c[i]].priority <= p
    <3>1. CASE i < k
      BY <1>2, <1>4, <3>1
    <3>2. CASE i = k
      BY <1>2, <1>4, <3>2
    <3>3. CASE i > k
      <4>1. k < i /\ q_heap[c[k]].priority <= q_heap[c[i]].priority
        BY <1>1, <3>3
      <4>2. ~(q_heap[c[k]].priority <= p)
        BY <1>2, <1>4
      <4>3. q_heap[c[k]].priority \in Int /\ q_heap[c[i]].priority \in Int
        BY <1>1
      <4> QED
        BY <3>3, <4>1, <4>2, <4>3
    <3> QED
      BY <3>1, <3>2, <3>3
  <2>4. k \in 1 .. Len(c) + 1
    BY <1>1
  <2> QED
    BY <2>1, <2>2, <2>3, <2>4
<1> QED
  BY <1>3, <1>4, QueueSeek

\* What push does to the list, when malloc finds memory.
Pushed(t, p) ==
    \E n \in Node, k \in 1 .. Len(CQ!Chain) + 1 :
        /\ Whole(q_heap', q_head', With(CQ!Chain, k, n), TRUE)
        /\ q_heap' \in [Node -> CQ!NodeType \cup {Free}] /\ q_head' \in CQ!Pointer
        /\ q_heap'[n].text = t /\ q_heap'[n].priority = p
        /\ \A i \in 1 .. Len(CQ!Chain) :
              /\ CQ!Chain[i] # n /\ q_heap'[CQ!Chain[i]].text = q_heap[CQ!Chain[i]].text
              /\ q_heap'[CQ!Chain[i]].priority = q_heap[CQ!Chain[i]].priority
              /\ i < k <=> q_heap[CQ!Chain[i]].priority <= p

LEMMA QueuePush ==
    ASSUME QueueInv, NEW t \in Text, NEW p \in 0 .. MaxPriority + 1, CQ!Push(t, p)
    PROVE  \/ q_call' = [op |-> "refused"] /\ UNCHANGED <<q_heap, q_head>>
           \/ q_call' = [op |-> "push", text |-> t, priority |-> p] /\ Pushed(t, p)
<1> DEFINE temp == CQ!Seek({m \in CQ!Used : CQ!After(m, p)})
           before == CASE temp = NULL   -> CQ!End
                       [] temp = q_head -> NULL
                       [] OTHER         -> q_heap[temp].prev
           made(n) == [q_heap EXCEPT ![n] = [text |-> t, priority |-> p,
                                              prev |-> NULL, next |-> NULL]]
<1> SUFFICES ASSUME NEW n \in CQ!Spare, q_heap' = CQ!Linked(made(n), n, before, temp),
                    q_head' = IF before = NULL THEN n ELSE q_head
             PROVE  Pushed(t, p)
  BY Zenon DEF CQ!Push
<1>1. PICK a, b : a = temp /\ b = before
  BY Zenon
<1> PICK c : c = CQ!Chain
  OBVIOUS
<1> PICK h : h = made(n)
  OBVIOUS
<1>2. PICK k \in 1 .. Len(c) + 1 : 
         /\ a = At(c, k) /\ b = At(c, k - 1)
         /\ \A i \in 1 .. Len(c) : i < k <=> q_heap[c[i]].priority <= p
  <2>1. p \in Int
    BY QueueConstants
  <2> QED
    <3>1. PICK found : found = {m \in CQ!Used : CQ!After(m, p)}
      OBVIOUS
    <3>2. a = CQ!Seek(found) /\ \A m \in CQ!Used : m \in found <=> ~(q_heap[m].priority <= p)
      BY <1>1, <3>1 DEF CQ!After
    <3>3. b = CASE a = NULL -> CQ!End [] a = q_head -> NULL [] OTHER -> q_heap[a].prev
      BY <1>1
    <3> HIDE DEF temp, before, made
    <3> QED
      BY <2>1, <3>2, <3>3, QueuePlace
<1>3. q_heap' = CQ!Linked(h, n, b, a) /\ q_head' = IF b = NULL THEN n ELSE q_head
  BY <1>1
<1> HIDE DEF temp, before
<1>4. /\ c \in Seq(Node) /\ Len(c) \in Nat
      /\ q_heap \in [Node -> CQ!NodeType \cup {Free}]
      /\ \A i \in 1 .. Len(c) : /\ c[i] \in Node /\ c[i] # NULL
                                /\ q_heap[c[i]] \in CQ!NodeType /\ q_heap[c[i]] # Free
      /\ \A i, j \in 1 .. Len(c) : c[i] = c[j] => i = j
      /\ q_head = At(c, 1)
  BY QueueFacts
<1>5. n \in Node /\ q_heap[n] = Free /\ n # NULL /\ \A i \in 1 .. Len(c) : c[i] # n
  BY <1>4, QueueConstants DEF CQ!Spare
<1>6. /\ a = IF k = Len(c) + 1 THEN NULL ELSE c[k]
      /\ b = IF k = 1 THEN NULL ELSE c[k - 1]
      /\ b = NULL <=> k = 1
  BY <1>2, <1>4 DEF At
<1>7. a \in CQ!Pointer /\ b \in CQ!Pointer /\ n \in CQ!Pointer
  BY <1>4, <1>5, <1>6 DEF CQ!Pointer
<1>8. h \in [Node -> CQ!NodeType \cup {Free}] /\ h[n] \in CQ!NodeType
      /\ \A m \in Node : m # n => h[m] = q_heap[m]
  BY <1>4, <1>5 DEF CQ!NodeType, CQ!Pointer
<1>9. /\ q_heap'[n] = [h[n] EXCEPT !.prev = b, !.next = a]
      /\ \A m \in Node : m # n =>
            q_heap'[m] = IF m = b THEN [h[m] EXCEPT !.next = n]
                         ELSE IF m = a THEN [h[m] EXCEPT !.prev = n] ELSE h[m]
      /\ q_heap' = [m \in Node |-> q_heap'[m]]
  <2>1. a = b => a = NULL
    BY <1>4, <1>6, SMTT(30)
  <2>2. n # a /\ n # b
    BY <1>5, <1>6
  <2>3. NULL \notin Node
    BY QueueConstants
  <2> HIDE DEF made
  <2> QED
    BY <1>3, <1>5, <2>1, <2>2, <2>3 DEF CQ!Linked
<1>10. \A i \in 1 .. Len(c) :
         q_heap'[c[i]] = IF i = k - 1 THEN [q_heap[c[i]] EXCEPT !.next = n]
                         ELSE IF i = k THEN [q_heap[c[i]] EXCEPT !.prev = n] ELSE q_heap[c[i]]
  <2> TAKE i \in 1 .. Len(c)
  <2>1. c[i] = b <=> i = k - 1
    BY <1>4, <1>6
  <2>2. c[i] = a <=> i = k
    BY <1>4, <1>6
  <2>3. c[i] \in Node /\ c[i] # n /\ h[c[i]] = q_heap[c[i]]
    BY <1>4, <1>5, <1>8
  <2> QED
    BY <1>9, <2>1, <2>2, <2>3, ZenonT(60)
<1>11. /\ q_heap'[n] \in CQ!NodeType
       /\ q_heap'[n].text = t /\ q_heap'[n].priority = p
       /\ q_heap'[n].next = a /\ q_heap'[n].prev = b
  <2>1. h[n] = [text |-> t, priority |-> p, prev |-> NULL, next |-> NULL]
    BY <1>4, <1>5
  <2>2. q_heap'[n] = [[text |-> t, priority |-> p, prev |-> NULL, next |-> NULL]
                        EXCEPT !.prev = b, !.next = a]
    BY <1>9, <2>1, Zenon
  <2>3. q_heap'[n] = [text |-> t, priority |-> p, prev |-> b, next |-> a]
    BY <2>2, Zenon
  <2> QED
    BY <1>7, <2>3 DEF CQ!NodeType
<1>12. \A i \in 1 .. Len(c) :
          /\ q_heap'[c[i]] \in CQ!NodeType
          /\ q_heap'[c[i]].text = q_heap[c[i]].text
          /\ q_heap'[c[i]].priority = q_heap[c[i]].priority
          /\ q_heap'[c[i]].next = IF i = k - 1 THEN n ELSE q_heap[c[i]].next
          /\ q_heap'[c[i]].prev = IF i = k THEN n ELSE q_heap[c[i]].prev
  <2> TAKE i \in 1 .. Len(c)
  <2>1. q_heap[c[i]] \in CQ!NodeType
    BY <1>4
  <2> QED
    <3>1. CASE i = k - 1
      <4>1. i # k /\ i \in Nat
        BY <1>4, <3>1
      <4>2. q_heap'[c[i]] = [q_heap[c[i]] EXCEPT !.next = n]
        BY <1>10, <3>1, Zenon
      <4> QED
        BY <1>7, <2>1, <3>1, <4>1, <4>2 DEF CQ!NodeType
    <3>2. CASE i = k
      <4>1. i # k - 1 /\ i \in Nat
        BY <1>4, <3>2
      <4>2. q_heap'[c[i]] = [q_heap[c[i]] EXCEPT !.prev = n]
        BY <1>10, <3>2, <4>1, Zenon
      <4> QED
        BY <1>7, <2>1, <3>2, <4>1, <4>2 DEF CQ!NodeType
    <3>3. CASE i # k /\ i # k - 1
      BY <1>10, <2>1, <3>3, Zenon
    <3> QED
      BY <3>1, <3>2, <3>3
<1>13. \A m \in Node : m # n => /\ q_heap'[m] = Free <=> q_heap[m] = Free
                                /\ q_heap'[m] \in CQ!NodeType \cup {Free}
  <2> TAKE m \in Node
  <2> SUFFICES ASSUME m # n PROVE /\ q_heap'[m] = Free <=> q_heap[m] = Free
                                  /\ q_heap'[m] \in CQ!NodeType \cup {Free}
    OBVIOUS
  <2>1. CASE \E i \in 1 .. Len(c) : m = c[i]
    <3>1. PICK i \in 1 .. Len(c) : m = c[i]
      BY <2>1
    <3>2. q_heap[m] # Free /\ q_heap'[m] \in CQ!NodeType
      BY <1>4, <1>12, <3>1, Zenon
    <3> QED
      BY <3>2, QueueConstants
  <2>2. CASE ~\E i \in 1 .. Len(c) : m = c[i]
    <3>1. m # a /\ m # b
      BY <1>4, <1>6, <2>2, QueueConstants
    <3> QED
      BY <1>4, <1>8, <1>9, <3>1, ZenonT(40)
  <2> QED
    BY <2>1, <2>2
<1>14. q_heap' \in [Node -> CQ!NodeType \cup {Free}]
  BY <1>9, <1>11, <1>13, Zenon
<1>15. Whole(q_heap', q_head', With(c, k, n), TRUE)
  <2>1. PICK g, hd2 : g = q_heap' /\ hd2 = q_head'
    OBVIOUS
  <2>2. Whole(q_heap, q_head, c, TRUE)
    BY Zenon DEF QueueInv
  <2>3. g[n] # Free /\ g[n].next = At(c, k) /\ g[n].prev = At(c, k - 1)
    BY <1>2, <1>11, <2>1, QueueConstants
  <2>4. hd2 = IF k = 1 THEN n ELSE q_head
    BY <1>3, <1>6, <2>1
  <2>5. /\ \A m \in Node : m # n => (g[m] = Free <=> q_heap[m] = Free)
        /\ \A i \in 1 .. Len(c) :
              /\ g[c[i]].next = IF i = k - 1 THEN n ELSE q_heap[c[i]].next
              /\ g[c[i]].prev = IF i = k THEN n ELSE q_heap[c[i]].prev
    BY <1>12, <1>13, <2>1, Zenon
  <2>6. NULL \notin Node
    BY QueueConstants
  <2>7. PICK back : back = TRUE
    OBVIOUS
  <2>8. Whole(g, hd2, With(c, k, n), back)
    <3>1. Whole(q_heap, q_head, c, back)
      BY <2>2, <2>7, Zenon
    <3>2. back => g[n].prev = At(c, k - 1)
      BY <2>3
    <3>3. \A i \in 1 .. Len(c) :
            /\ g[c[i]].next = IF i = k - 1 THEN n ELSE q_heap[c[i]].next
            /\ back => g[c[i]].prev = IF i = k THEN n ELSE q_heap[c[i]].prev
      BY <2>5
    <3> QED
      BY <1>5, <2>3, <2>4, <2>5, <2>6, <3>1, <3>2, <3>3, WholeWith
  <2> QED
    BY <2>1, <2>7, <2>8, Zenon
<1>16. q_head' \in CQ!Pointer
  <2>1. q_head \in CQ!Pointer
    BY DEF QueueInv, CQ!TypeOK
  <2> QED
    BY <1>3, <1>7, <2>1
<1> QED
  <2>1. n \in Node /\ k \in 1 .. Len(c) + 1
    BY <1>5
  <2>2. q_heap'[n].text = t /\ q_heap'[n].priority = p
    BY <1>11, Zenon
  <2>3. \A i \in 1 .. Len(c) :
           /\ c[i] # n /\ q_heap'[c[i]].text = q_heap[c[i]].text
           /\ q_heap'[c[i]].priority = q_heap[c[i]].priority
           /\ i < k <=> q_heap[c[i]].priority <= p
    BY <1>2, <1>5, <1>12, Zenon
  <2> HIDE DEF made
  <2> QED
    BY <1>14, <1>15, <1>16, <2>1, <2>2, <2>3, ZenonT(40) DEF Pushed

\* What taking a message out does to the list.
Taken(k) ==
    /\ Whole(q_heap', q_head', Without(CQ!Chain, k), TRUE)
    /\ q_heap' \in [Node -> CQ!NodeType \cup {Free}] /\ q_head' \in CQ!Pointer
    /\ \A i \in 1 .. Len(CQ!Chain) :
          i # k => /\ q_heap'[CQ!Chain[i]].text = q_heap[CQ!Chain[i]].text
                   /\ q_heap'[CQ!Chain[i]].priority = q_heap[CQ!Chain[i]].priority

LEMMA QueueTake ==
    ASSUME QueueInv, NEW k \in 1 .. Len(CQ!Chain), CQ!TakeOut(CQ!Chain[k])
    PROVE  Taken(k)
<1>0. PICK c : c = CQ!Chain
  OBVIOUS
<1> PICK b : b = IF c[k] = q_head THEN NULL ELSE q_heap[c[k]].prev
  OBVIOUS
<1> PICK a : a = q_heap[c[k]].next
  OBVIOUS
<1>1. /\ c \in Seq(Node) /\ Len(c) \in Nat /\ k \in 1 .. Len(c)
      /\ q_heap \in [Node -> CQ!NodeType \cup {Free}]
      /\ \A i \in 1 .. Len(c) : /\ c[i] \in Node /\ c[i] # NULL
                                /\ q_heap[c[i]] \in CQ!NodeType /\ q_heap[c[i]] # Free
                                /\ q_heap[c[i]].next = At(c, i + 1)
                                /\ q_heap[c[i]].prev = At(c, i - 1)
      /\ \A i, j \in 1 .. Len(c) : c[i] = c[j] => i = j
      /\ q_head = At(c, 1)
  BY <1>0, QueueFacts
<1>2. c[k] = q_head <=> k = 1
  <2>1. 1 \in 1 .. Len(c)
    BY <1>1
  <2>2. q_head = c[1]
    BY <1>1, <2>1 DEF At
  <2> QED
    BY <1>1, <2>1, <2>2
<1>3. /\ a = IF k = Len(c) THEN NULL ELSE c[k + 1]
      /\ b = IF k = 1 THEN NULL ELSE c[k - 1]
  <2>1. a = At(c, k + 1)
    BY <1>1
  <2>2. b = IF k = 1 THEN NULL ELSE At(c, k - 1)
    BY <1>1, <1>2
  <2> QED
    BY <1>1, <2>1, <2>2 DEF At
<1>4. a \in CQ!Pointer /\ b \in CQ!Pointer
  BY <1>1, <1>3 DEF CQ!Pointer
<1>5. /\ q_heap'[c[k]] = Free
      /\ \A m \in Node : m # c[k] =>
            q_heap'[m] = IF m = b THEN [q_heap[m] EXCEPT !.next = a]
                         ELSE IF m = a THEN [q_heap[m] EXCEPT !.prev = b] ELSE q_heap[m]
      /\ q_heap' = [m \in Node |-> q_heap'[m]]
      /\ q_head' = IF k = 1 THEN a ELSE q_head
  <2>1. a = b => a = NULL
    BY <1>1, <1>3
  <2>2. c[k] # a /\ c[k] # b
    BY <1>1, <1>3
  <2>3. NULL \notin Node
    BY QueueConstants
  <2>4. q_heap' = [m \in Node |-> CASE m = c[k] -> Free
                                    [] m = b -> [q_heap[m] EXCEPT !.next = a]
                                    [] m = a -> [q_heap[m] EXCEPT !.prev = b]
                                    [] OTHER -> q_heap[m]]
    <3>1. q_heap' = CQ!Unlinked(c[k])
      BY <1>0 DEF CQ!TakeOut
    <3> QED
      BY <3>1 DEF CQ!Unlinked
  <2>5. q_head' = IF c[k] = q_head THEN q_heap[c[k]].next ELSE q_head
    BY <1>0 DEF CQ!TakeOut
  <2> QED
    BY <1>1, <1>2, <2>1, <2>2, <2>3, <2>4, <2>5
<1>6. \A i \in 1 .. Len(c) : i # k =>
         q_heap'[c[i]] = IF i = k - 1 THEN [q_heap[c[i]] EXCEPT !.next = a]
                         ELSE IF i = k + 1 THEN [q_heap[c[i]] EXCEPT !.prev = b] ELSE q_heap[c[i]]
  <2> TAKE i \in 1 .. Len(c)
  <2>1. c[i] = b <=> i = k - 1
    BY <1>1, <1>3, SMTT(30)
  <2>2. c[i] = a <=> i = k + 1
    BY <1>1, <1>3
  <2>3. c[i] \in Node /\ (i # k => c[i] # c[k])
    BY <1>1
  <2> QED
    BY <1>5, <2>1, <2>2, <2>3
<1>7. \A i \in 1 .. Len(c) : i # k =>
          /\ q_heap'[c[i]] \in CQ!NodeType
          /\ q_heap'[c[i]].text = q_heap[c[i]].text
          /\ q_heap'[c[i]].priority = q_heap[c[i]].priority
          /\ q_heap'[c[i]].next = IF i = k - 1 THEN a ELSE q_heap[c[i]].next
          /\ q_heap'[c[i]].prev = IF i = k + 1 THEN b ELSE q_heap[c[i]].prev
  <2> TAKE i \in 1 .. Len(c)
  <2> HAVE i # k
  <2> i \in Nat /\ k \in Nat
    BY <1>1
  <2>1. q_heap[c[i]] \in CQ!NodeType
    BY <1>1
  <2>2. CASE i = k - 1
    <3>1. q_heap'[c[i]] = [q_heap[c[i]] EXCEPT !.next = a]
      BY <1>6, <2>2, Zenon
    <3> QED
      BY <1>4, <2>1, <2>2, <3>1 DEF CQ!NodeType
  <2>3. CASE i = k + 1
    <3>1. i # k - 1
      BY <2>3
    <3>2. q_heap'[c[i]] = [q_heap[c[i]] EXCEPT !.prev = b]
      BY <1>6, <2>3, <3>1, Zenon
    <3> QED
      BY <1>4, <2>1, <2>3, <3>1, <3>2, Zenon DEF CQ!NodeType
  <2>4. CASE i # k - 1 /\ i # k + 1
    BY <1>6, <2>1, <2>4, Zenon
  <2> QED
    BY <2>2, <2>3, <2>4
<1>8. \A m \in Node : /\ q_heap'[m] = Free <=> m = c[k] \/ q_heap[m] = Free
                      /\ q_heap'[m] \in CQ!NodeType \cup {Free}
  <2> TAKE m \in Node
  <2>1. CASE m = c[k]
    BY <1>5, <2>1
  <2>2. CASE m # c[k] /\ \E i \in 1 .. Len(c) : m = c[i]
    <3>1. PICK i \in 1 .. Len(c) : m = c[i]
      BY <2>2
    <3>2. q_heap[m] # Free /\ q_heap'[m] \in CQ!NodeType
      BY <1>1, <1>7, <2>2, <3>1
    <3> QED
      BY <2>2, <3>2, QueueConstants
  <2>3. CASE ~\E i \in 1 .. Len(c) : m = c[i]
    <3>1. m # a /\ m # b /\ m # c[k]
      BY <1>1, <1>3, <2>3, QueueConstants
    <3> QED
      BY <1>1, <1>5, <3>1
  <2> QED
    BY <2>1, <2>2, <2>3
<1>9. q_heap' \in [Node -> CQ!NodeType \cup {Free}]
  BY <1>5, <1>8
<1>10. Whole(q_heap', q_head', Without(c, k), TRUE)
  <2>1. PICK g, hd2 : g = q_heap' /\ hd2 = q_head'
    OBVIOUS
  <2>2. Whole(q_heap, q_head, c, TRUE)
    BY <1>0, Zenon DEF QueueInv
  <2>3. hd2 = IF k = 1 THEN q_heap[c[k]].next ELSE q_head
    BY <1>5, <2>1
  <2>4. b = q_heap[c[k]].prev
    <3>1. k = 1 => At(c, k - 1) = NULL
      BY <1>1 DEF At
    <3>2. q_heap[c[k]].prev = At(c, k - 1)
      BY <1>1
    <3> QED
      BY <1>2, <3>1, <3>2
  <2>5. /\ \A m \in Node : g[m] = Free <=> m = c[k] \/ q_heap[m] = Free
        /\ \A i \in 1 .. Len(c) : i # k =>
              /\ g[c[i]].next = IF i = k - 1 THEN q_heap[c[k]].next ELSE q_heap[c[i]].next
              /\ g[c[i]].prev = IF i = k + 1 THEN q_heap[c[k]].prev ELSE q_heap[c[i]].prev
    BY <1>7, <1>8, <2>1, <2>4
  <2>6. NULL \notin Node
    BY QueueConstants
  <2>7. PICK back : back = TRUE
    OBVIOUS
  <2>8. Whole(g, hd2, Without(c, k), back)
    <3>1. Whole(q_heap, q_head, c, back)
      BY <2>2, <2>7, Zenon
    <3>2. PICK j \in 1 .. Len(c) : j = k
      BY <1>1
    <3>3. \A m \in Node : g[m] = Free <=> m = c[j] \/ q_heap[m] = Free
      BY <2>5, <3>2
    <3>4. \A i \in 1 .. Len(c) : i # j =>
            /\ g[c[i]].next = IF i = j - 1 THEN q_heap[c[j]].next ELSE q_heap[c[i]].next
            /\ back => g[c[i]].prev = IF i = j + 1 THEN q_heap[c[j]].prev ELSE q_heap[c[i]].prev
      BY <2>5, <3>2
    <3>5. hd2 = IF j = 1 THEN q_heap[c[j]].next ELSE q_head
      BY <2>3, <3>2
    <3>6. Whole(g, hd2, Without(c, j), back)
      BY <2>6, <3>1, <3>3, <3>4, <3>5, WholeWithout, Zenon
    <3> QED
      BY <3>2, <3>6
  <2> QED
    BY <2>1, <2>7, <2>8, Zenon
<1>11. q_head' \in CQ!Pointer
  <2>1. q_head \in CQ!Pointer
    BY DEF QueueInv, CQ!TypeOK
  <2> QED
    BY <1>4, <1>5, <2>1
<1> QED
  BY <1>0, <1>7, <1>9, <1>10, <1>11, Zenon DEF Taken

-----------------------------------------------------------------------------
(* Lines: the stretches of one priority in a row that is in order.           *)

Rising(N, r) == \A i, j \in 1 .. N : i < j => r[i] <= r[j]
Cuts(N, r, p, m) == \A i \in 1 .. N : i <= m <=> r[i] <= p

\* d is the row c with e put at place k.
Opened(N, c, d, k, e) ==
    \A i \in 1 .. N + 1 : d[i] = IF i < k THEN c[i] ELSE IF i = k THEN e ELSE c[i - 1]

\* A row that is in order is cut by every number.
LEMMA Cut ==
    ASSUME NEW N \in Nat, NEW r \in [1 .. N -> Int],
           Rising(N, r), NEW p \in Int
    PROVE  \E m \in 0 .. N : Cuts(N, r, p, m)
<1> DEFINE S == {i \in 1 .. N : ~(r[i] <= p)} \cup {N + 1}
<1>1. S \subseteq Nat /\ N + 1 \in S
  OBVIOUS
<1>2. \A i \in 1 .. N : i \in S <=> ~(r[i] <= p)
  OBVIOUS
<1>3. \A i \in S : i \in 1 .. N + 1
  OBVIOUS
<1> HIDE DEF S
<1>4. PICK m \in S : \A i \in S : m <= i
  BY <1>1, Least, Zenon
<1>5. m \in 1 .. N + 1
  BY <1>3, <1>4
<1>7. m - 1 \in 0 .. N
  BY <1>5
<1>6. ASSUME NEW i \in 1 .. N PROVE i <= m - 1 <=> r[i] <= p
  <2>1. CASE i <= m - 1
    <3>1. i \notin S
      BY <1>4, <1>5, <2>1
    <3> QED
      BY <1>2, <2>1, <3>1
  <2>2. CASE i = m
    BY <1>2, <1>4, <1>5, <2>2
  <2>3. CASE m < i
    <3>1. m \in 1 .. N /\ ~(r[m] <= p) /\ r[m] <= r[i]
      BY <1>2, <1>4, <1>5, <2>3 DEF Rising
    <3>2. r[m] \in Int /\ r[i] \in Int
      BY <3>1
    <3> QED
      BY <1>5, <2>3, <3>1, <3>2
  <2> QED
    BY <1>5, <2>1, <2>2, <2>3
<1> QED
  BY <1>6, <1>7, Zenon DEF Cuts

\* Where the places of p begin and end.
Places(N, r, p, lo, hi) ==
    /\ lo \in 1 .. N + 1 /\ hi \in 0 .. N /\ lo <= hi + 1
    /\ \A i \in 1 .. N : r[i] = p <=> lo <= i /\ i <= hi

Stretch(x, lo, hi) == [i \in 1 .. hi - lo + 1 |-> x[lo + i - 1]]

LEMMA StretchSeq ==
    ASSUME NEW T, NEW x \in Seq(T), NEW lo \in 1 .. Len(x) + 1, NEW hi \in 0 .. Len(x), lo <= hi + 1
    PROVE  /\ Stretch(x, lo, hi) \in Seq(T) /\ Len(Stretch(x, lo, hi)) = hi - lo + 1
           /\ hi - lo + 1 \in Nat
           /\ \A i \in 1 .. hi - lo + 1 : Stretch(x, lo, hi)[i] = x[lo + i - 1]
<1>0. Len(x) \in Nat /\ \A i \in 1 .. Len(x) : x[i] \in T
  BY LenProperties
<1>1. PICK n \in Nat : n = hi - lo + 1
  BY <1>0
<1>2. \A i \in 1 .. n : lo + i - 1 \in 1 .. Len(x)
  BY <1>0, <1>1
<1>3. Stretch(x, lo, hi) = [i \in 1 .. n |-> x[lo + i - 1]]
  BY <1>1 DEF Stretch
<1>4. Stretch(x, lo, hi) \in Seq(T)
  BY <1>0, <1>2, <1>3
<1>5. Len(Stretch(x, lo, hi)) = n
  BY <1>3
<1>6. \A i \in 1 .. n : Stretch(x, lo, hi)[i] = x[lo + i - 1]
  BY <1>3
<1> QED
  BY <1>1, <1>4, <1>5, <1>6

\* The line of q from r and x to r2 and x2: t joins the line of p.
LineGrows(N, r, x, r2, x2, p, t, q) ==
    \E lo, hi, lo2, hi2 :
        /\ Places(N, r, q, lo, hi) /\ Places(N + 1, r2, q, lo2, hi2)
        /\ Stretch(x2, lo2, hi2) = IF q = p THEN Append(Stretch(x, lo, hi), t)
                                            ELSE Stretch(x, lo, hi)

\* One more of priority p, behind all those that are at least as urgent.
LEMMA LinesPushed ==
    ASSUME NEW T, NEW N \in Nat, NEW r \in [1 .. N -> Int], NEW x \in Seq(T), Len(x) = N,
           Rising(N, r), NEW p \in Int, NEW t \in T, NEW k \in 1 .. N + 1, Cuts(N, r, p, k - 1),
           NEW r2, Opened(N, r, r2, k, p), NEW x2 \in Seq(T), Len(x2) = N + 1,
           Opened(N, x, x2, k, t),
           NEW q \in Int
    PROVE  LineGrows(N, r, x, r2, x2, p, t, q)
<1>1. PICK m \in 0 .. N : Cuts(N, r, q - 1, m)
  <2>1. q - 1 \in Int
    OBVIOUS
  <2> QED
    BY <2>1, Cut, Zenon
<1>2. PICK hi \in 0 .. N : Cuts(N, r, q, hi)
  BY Cut, Zenon
<1>3. PICK lo \in 1 .. N + 1 : lo = m + 1
  OBVIOUS
<1>4. m <= hi
  <2>1. CASE m = 0
    BY <2>1
  <2>2. CASE m \in 1 .. N
    <3>1. r[m] <= q - 1 /\ r[m] \in Int
      BY <1>1, <2>2 DEF Cuts
    <3>2. r[m] <= q
      BY <3>1
    <3> QED
      BY <1>2, <2>2, <3>2 DEF Cuts
  <2> QED
    BY <2>1, <2>2
<1>5. Places(N, r, q, lo, hi)
  <2>1. ASSUME NEW i \in 1 .. N PROVE r[i] = q <=> lo <= i /\ i <= hi
    <3>1. r[i] \in Int /\ (i <= m <=> r[i] <= q - 1) /\ (i <= hi <=> r[i] <= q)
      BY <1>1, <1>2 DEF Cuts
    <3> QED
      BY <1>3, <3>1
  <2> QED
    BY <1>3, <1>4, <2>1 DEF Places
<1>6. /\ q < p => hi < k
      /\ p < q => k <= lo
      /\ q = p => hi = k - 1
  <2>1. CASE q < p
    <3>1. CASE hi = 0
      BY <2>1, <3>1
    <3>2. CASE hi \in 1 .. N
      <4>1. r[hi] <= q /\ r[hi] \in Int
        BY <1>2, <3>2 DEF Cuts
      <4>2. r[hi] <= p
        BY <2>1, <4>1
      <4> QED
        BY <2>1, <3>2, <4>2 DEF Cuts
    <3> QED
      BY <2>1, <3>1, <3>2
  <2>2. CASE p < q
    <3>1. CASE k = 1
      BY <1>3, <2>2, <3>1
    <3>2. CASE k # 1
      <4>1. k - 1 \in 1 .. N
        BY <3>2
      <4>2. r[k - 1] <= p /\ r[k - 1] \in Int
        BY <4>1 DEF Cuts
      <4>3. r[k - 1] <= q - 1
        BY <2>2, <4>2
      <4>4. k - 1 <= m
        BY <1>1, <4>1, <4>3 DEF Cuts
      <4> QED
        BY <1>3, <2>2, <4>4
    <3> QED
      BY <3>1, <3>2
  <2>3. CASE q = p
    <3>2. ~(hi < k - 1)
      <4> SUFFICES ASSUME hi < k - 1 PROVE FALSE
        OBVIOUS
      <4>1. PICK j \in 1 .. N : j = k - 1
        OBVIOUS
      <4>2. r[j] <= p
        BY <4>1 DEF Cuts
      <4>3. j <= hi
        BY <1>2, <2>3, <4>2 DEF Cuts
      <4> QED
        BY <4>1, <4>3
    <3>3. ~(k - 1 < hi)
      <4> SUFFICES ASSUME k - 1 < hi PROVE FALSE
        OBVIOUS
      <4>1. PICK j \in 1 .. N : j = hi
        OBVIOUS
      <4>2. r[j] <= q
        BY <1>2, <4>1 DEF Cuts
      <4>3. j <= k - 1
        BY <2>3, <4>2 DEF Cuts
      <4> QED
        BY <4>1, <4>3
    <3> QED
      BY <2>3, <3>2, <3>3
  <2> QED
    BY <2>1, <2>2, <2>3
<1>7. PICK lo2 \in 1 .. N + 2, hi2 \in 0 .. N + 1 :
                      /\ lo2 = IF p < q THEN lo + 1 ELSE lo
                      /\ hi2 = IF p <= q THEN hi + 1 ELSE hi
  OBVIOUS
<1>8. lo2 \in 1 .. N + 2 /\ hi2 \in 0 .. N + 1 /\ lo2 <= hi2 + 1 /\ lo \in 1 .. N + 1
  BY <1>3, <1>4, <1>7
<1>9. Places(N + 1, r2, q, lo2, hi2)
  <2>1. ASSUME NEW i \in 1 .. N + 1 PROVE r2[i] = q <=> lo2 <= i /\ i <= hi2
    <3>1. \A j \in 1 .. N : r[j] = q <=> lo <= j /\ j <= hi
      BY <1>5 DEF Places
    <3>2. CASE i < k
      <4>1. i \in 1 .. N /\ r2[i] = r[i]
        BY <3>2, SMTT(30) DEF Opened
      <4>2. r2[i] = q <=> lo <= i /\ i <= hi
        BY <3>1, <4>1
      <4> QED
        BY <1>6, <1>7, <1>8, <3>2, <4>2
    <3>3. CASE i = k
      <4>1. r2[i] = p
        BY <3>3, SMTT(30) DEF Opened
      <4> QED
        BY <1>6, <1>7, <1>8, <3>3, <4>1, <1>3, <1>4
    <3>4. CASE k < i
      <4>1. i - 1 \in 1 .. N /\ r2[i] = r[i - 1]
        BY <3>4, SMTT(30) DEF Opened
      <4>2. r2[i] = q <=> lo <= i - 1 /\ i - 1 <= hi
        BY <3>1, <4>1
      <4> QED
        <5>1. lo <= i - 1 /\ i - 1 <= hi <=> lo2 <= i /\ i <= hi2
          BY <1>6, <1>7, <1>8, <3>4
        <5> QED
          BY <4>2, <5>1
    <3> QED
      BY <3>2, <3>3, <3>4
  <2> QED
    BY <1>8, <2>1 DEF Places
<1>10. /\ Stretch(x, lo, hi) \in Seq(T) /\ Len(Stretch(x, lo, hi)) = hi - lo + 1
       /\ hi - lo + 1 \in Nat
       /\ \A i \in 1 .. hi - lo + 1 : Stretch(x, lo, hi)[i] = x[lo + i - 1]
  <2>1. lo \in 1 .. Len(x) + 1 /\ hi \in 0 .. Len(x) /\ lo <= hi + 1
    BY <1>3, <1>4
  <2>2. Stretch(x, lo, hi) \in Seq(T)
    BY <2>1, StretchSeq, Zenon
  <2>3. Len(Stretch(x, lo, hi)) = hi - lo + 1
    BY <2>1, StretchSeq, Zenon
  <2>4. \A i \in 1 .. hi - lo + 1 : Stretch(x, lo, hi)[i] = x[lo + i - 1]
    BY <2>1, StretchSeq, Zenon
  <2> QED
    BY <2>1, <2>2, <2>3, <2>4
<1>12. /\ Stretch(x2, lo2, hi2) \in Seq(T) /\ Len(Stretch(x2, lo2, hi2)) = hi2 - lo2 + 1
       /\ hi2 - lo2 + 1 \in Nat
       /\ \A i \in 1 .. hi2 - lo2 + 1 : Stretch(x2, lo2, hi2)[i] = x2[lo2 + i - 1]
  <2>1. lo2 \in 1 .. Len(x2) + 1 /\ hi2 \in 0 .. Len(x2)
    BY <1>8
  <2>2. Stretch(x2, lo2, hi2) \in Seq(T)
    BY <1>8, <2>1, StretchSeq, Zenon
  <2>3. Len(Stretch(x2, lo2, hi2)) = hi2 - lo2 + 1
    BY <1>8, <2>1, StretchSeq, ZenonT(40)
  <2>4. \A i \in 1 .. hi2 - lo2 + 1 : Stretch(x2, lo2, hi2)[i] = x2[lo2 + i - 1]
    BY <1>8, <2>1, StretchSeq, Zenon
  <2> QED
    BY <1>8, <2>2, <2>3, <2>4
<1>13. PICK a, b : a = Stretch(x, lo, hi) /\ b = Stretch(x2, lo2, hi2)
  OBVIOUS
<1>14. b = IF q = p THEN Append(a, t) ELSE a
  <2>1. CASE q < p
    <3>1. lo2 = lo /\ hi2 = hi
      BY <1>7, <1>8, <2>1
    <3>2. \A i \in 1 .. hi - lo + 1 : b[i] = a[i]
      <4> TAKE i \in 1 .. hi - lo + 1
      <4>1. lo + i - 1 \in 1 .. N + 1 /\ lo + i - 1 < k
        BY <1>6, <1>8, <2>1
      <4>2. x2[lo + i - 1] = x[lo + i - 1]
        BY <4>1 DEF Opened
      <4> QED
        BY <1>10, <1>12, <1>13, <3>1, <4>2
    <3>3. a \in Seq(T) /\ b \in Seq(T) /\ Len(a) = Len(b) /\ Len(a) = hi - lo + 1
      BY <1>10, <1>12, <1>13, <3>1
    <3>4. b = a
      BY <3>2, <3>3, SeqEqual, Zenon
    <3> QED
      BY <2>1, <3>4
  <2>2. CASE p < q
    <3>1. lo2 = lo + 1 /\ hi2 = hi + 1
      BY <1>7, <1>8, <2>2
    <3>2. \A i \in 1 .. hi - lo + 1 : b[i] = a[i]
      <4> TAKE i \in 1 .. hi - lo + 1
      <4>1. lo2 + i - 1 \in 1 .. N + 1 /\ k < lo2 + i - 1 /\ lo2 + i - 1 - 1 = lo + i - 1
        BY <1>6, <1>8, <2>2, <3>1
      <4>2. x2[lo2 + i - 1] = x[lo + i - 1]
        <5>1. PICK j \in 1 .. N + 1 : j = lo2 + i - 1
          BY <4>1
        <5>2. k < j /\ j - 1 = lo + i - 1
          BY <1>8, <4>1, <5>1
        <5>3. x2[j] = x[j - 1]
          BY <5>2 DEF Opened
        <5> QED
          BY <5>1, <5>2, <5>3, Zenon
      <4>3. i \in 1 .. hi2 - lo2 + 1
        BY <1>8, <3>1
      <4> QED
        BY <1>10, <1>12, <1>13, <4>2, <4>3
    <3>3. a \in Seq(T) /\ b \in Seq(T) /\ Len(a) = Len(b) /\ Len(a) = hi - lo + 1
      BY <1>8, <1>10, <1>12, <1>13, <3>1
    <3>4. b = a
      BY <3>2, <3>3, SeqEqual, Zenon
    <3> QED
      BY <2>2, <3>4
  <2>3. CASE q = p
    <3>1. lo2 = lo /\ hi2 = hi + 1 /\ hi = k - 1
      BY <1>6, <1>7, <1>8, <2>3
    <3>2. a \in Seq(T) /\ b \in Seq(T) /\ Len(a) = hi - lo + 1 /\ Len(b) = hi - lo + 2
      BY <1>8, <1>10, <1>12, <1>13, <3>1
    <3>7. Len(a) \in Nat /\ Len(b) = Len(a) + 1
      BY <1>10, <1>13, <3>2, SMTT(30)
    <3>3. /\ Append(a, t) \in Seq(T) /\ Len(Append(a, t)) = Len(a) + 1
          /\ \A i \in 1 .. Len(a) : Append(a, t)[i] = a[i]
          /\ Append(a, t)[Len(a) + 1] = t
      <4>1. Append(a, t) \in Seq(T)
        BY <3>2, AppendProperties
      <4>2. Len(Append(a, t)) = Len(a) + 1
        BY <3>2, <4>1, AppendProperties, SMTT(30)
      <4>3. \A i \in 1 .. Len(a) : Append(a, t)[i] = a[i]
        BY <3>2, <4>1, AppendProperties
      <4>4. Append(a, t)[Len(a) + 1] = t
        <5>1. a \in Seq(T) /\ t \in T
          BY <3>2
        <5> QED
          BY <5>1, AppendProperties, ZenonT(40)
      <4> QED
        BY <4>1, <4>2, <4>3, <4>4
    <3>4. ASSUME NEW i \in 1 .. Len(b) PROVE b[i] = Append(a, t)[i]
      <4>1. b[i] = x2[lo + i - 1]
        BY <1>12, <1>13, <3>1
      <4>2. CASE i = Len(a) + 1
        <5>1. lo + i - 1 = k
          BY <1>8, <3>1, <3>2, <4>2
        <5>2. b[i] = t
          BY <4>1, <5>1 DEF Opened
        <5> QED
          BY <3>3, <4>2, <5>2
      <4>3. CASE i \in 1 .. Len(a)
        <5>1. lo + i - 1 \in 1 .. N + 1 /\ lo + i - 1 < k
          BY <1>8, <3>1, <3>2, <4>3
        <5>2. b[i] = x[lo + i - 1]
          BY <4>1, <5>1 DEF Opened
        <5> QED
          BY <1>10, <1>13, <3>2, <3>3, <4>3, <5>2, Zenon
      <4> QED
        BY <3>7, <4>2, <4>3
    <3>5. Len(b) = Len(Append(a, t))
      BY <3>3, <3>7
    <3>6. b = Append(a, t)
      BY <3>2, <3>3, <3>4, <3>5, SeqEqual, Zenon
    <3> QED
      BY <2>3, <3>6
  <2> QED
    BY <2>1, <2>2, <2>3
<1> QED
  BY <1>5, <1>9, <1>13, <1>14, Zenon DEF LineGrows

\* d is the row c without what was at place k.
Closed(N, c, d, k) == \A i \in 1 .. N - 1 : d[i] = IF i < k THEN c[i] ELSE c[i + 1]

\* The line of q from r and x to r2 and x2: the line of p loses its first.
LineShrinks(N, r, x, r2, x2, p, q) ==
    \E lo, hi, lo2, hi2 :
        /\ Places(N, r, q, lo, hi) /\ Places(N - 1, r2, q, lo2, hi2)
        /\ Stretch(x2, lo2, hi2) = IF q = p THEN Tail(Stretch(x, lo, hi)) ELSE Stretch(x, lo, hi)
        /\ q = p => Stretch(x, lo, hi) # <<>>

\* The first of a priority less.
LEMMA LinesTaken ==
    ASSUME NEW T, NEW N \in Nat, NEW r \in [1 .. N -> Int], NEW x \in Seq(T), Len(x) = N,
           Rising(N, r), NEW k \in 1 .. N, NEW p \in Int, r[k] = p,
           \A i \in 1 .. N : i < k => r[i] # p,
           NEW r2, Closed(N, r, r2, k), NEW x2 \in Seq(T), Len(x2) = N - 1, Closed(N, x, x2, k),
           NEW q \in Int
    PROVE  LineShrinks(N, r, x, r2, x2, p, q)
<1>1. PICK m \in 0 .. N : Cuts(N, r, q - 1, m)
  <2>1. q - 1 \in Int
    OBVIOUS
  <2> QED
    BY <2>1, Cut, Zenon
<1>2. PICK hi \in 0 .. N : Cuts(N, r, q, hi)
  BY Cut, Zenon
<1>3. PICK lo \in 1 .. N + 1 : lo = m + 1
  OBVIOUS
<1>4. m <= hi
  <2>1. CASE m = 0
    BY <2>1
  <2>2. CASE m \in 1 .. N
    <3>1. r[m] <= q - 1 /\ r[m] \in Int
      BY <1>1, <2>2 DEF Cuts
    <3>2. r[m] <= q
      BY <3>1
    <3> QED
      BY <1>2, <2>2, <3>2 DEF Cuts
  <2> QED
    BY <2>1, <2>2
<1>5. Places(N, r, q, lo, hi)
  <2>1. ASSUME NEW i \in 1 .. N PROVE r[i] = q <=> lo <= i /\ i <= hi
    <3>1. r[i] \in Int /\ (i <= m <=> r[i] <= q - 1) /\ (i <= hi <=> r[i] <= q)
      BY <1>1, <1>2 DEF Cuts
    <3> QED
      BY <1>3, <3>1
  <2> QED
    BY <1>3, <1>4, <2>1 DEF Places
<1>6. /\ q < p => hi < k
      /\ p < q => k < lo
      /\ q = p => lo = k /\ k <= hi
  <2>1. (k <= hi <=> p <= q) /\ (k <= m <=> p <= q - 1)
    BY <1>1, <1>2 DEF Cuts
  <2>2. ASSUME q = p, lo < k PROVE FALSE
    <3>1. lo \in 1 .. N /\ ~(lo <= m)
      BY <1>3, <2>2
    <3>2. ~(r[lo] <= q - 1) /\ r[lo] \in Int
      BY <1>1, <3>1 DEF Cuts
    <3>3. r[lo] <= r[k]
      BY <2>2, <3>1 DEF Rising
    <3> QED
      BY <2>2, <3>1, <3>2, <3>3
  <2> QED
    BY <1>3, <2>1, <2>2
<1>7. PICK lo2 \in 1 .. N, hi2 \in 0 .. N - 1 :
                      /\ lo2 = IF p < q THEN lo - 1 ELSE lo
                      /\ hi2 = IF p <= q THEN hi - 1 ELSE hi
  BY <1>3, <1>4, <1>6
<1>8. lo2 <= hi2 + 1 /\ lo <= hi + 1
  BY <1>3, <1>4, <1>6, <1>7
<1>0. PICK M \in Nat : M = N - 1
  OBVIOUS
<1>9. Places(M, r2, q, lo2, hi2)
  <2>1. ASSUME NEW i \in 1 .. M PROVE r2[i] = q <=> lo2 <= i /\ i <= hi2
    <3>1. \A j \in 1 .. N : r[j] = q <=> lo <= j /\ j <= hi
      BY <1>5 DEF Places
    <3>2. CASE i < k
      <4>1. i \in 1 .. N /\ r2[i] = r[i]
        BY <1>0, <3>2 DEF Closed
      <4>2. r2[i] = q <=> lo <= i /\ i <= hi
        BY <3>1, <4>1
      <4>3. lo <= i /\ i <= hi <=> lo2 <= i /\ i <= hi2
        BY <1>6, <1>7, <3>2
      <4> QED
        BY <4>2, <4>3
    <3>3. CASE ~(i < k)
      <4>1. i + 1 \in 1 .. N /\ r2[i] = r[i + 1]
        BY <1>0, <3>3 DEF Closed
      <4>2. r2[i] = q <=> lo <= i + 1 /\ i + 1 <= hi
        BY <3>1, <4>1, Zenon
      <4>3. lo <= i + 1 /\ i + 1 <= hi <=> lo2 <= i /\ i <= hi2
        BY <1>6, <1>7, <3>3
      <4> QED
        BY <4>2, <4>3
    <3> QED
      BY <3>2, <3>3
  <2> QED
    BY <1>0, <1>8, <2>1 DEF Places
<1>10. /\ Stretch(x, lo, hi) \in Seq(T) /\ Len(Stretch(x, lo, hi)) = hi - lo + 1
       /\ hi - lo + 1 \in Nat
       /\ \A i \in 1 .. hi - lo + 1 : Stretch(x, lo, hi)[i] = x[lo + i - 1]
  <2>1. lo \in 1 .. Len(x) + 1 /\ hi \in 0 .. Len(x)
    BY <1>8
  <2>2. Stretch(x, lo, hi) \in Seq(T)
    BY <1>8, <2>1, StretchSeq, Zenon
  <2>3. Len(Stretch(x, lo, hi)) = hi - lo + 1
    BY <1>8, <2>1, StretchSeq, ZenonT(40)
  <2>4. \A i \in 1 .. hi - lo + 1 : Stretch(x, lo, hi)[i] = x[lo + i - 1]
    BY <1>8, <2>1, StretchSeq, Zenon
  <2> QED
    BY <1>8, <2>2, <2>3, <2>4
<1>12. /\ Stretch(x2, lo2, hi2) \in Seq(T) /\ Len(Stretch(x2, lo2, hi2)) = hi2 - lo2 + 1
       /\ hi2 - lo2 + 1 \in Nat
       /\ \A i \in 1 .. hi2 - lo2 + 1 : Stretch(x2, lo2, hi2)[i] = x2[lo2 + i - 1]
  <2>1. lo2 \in 1 .. Len(x2) + 1 /\ hi2 \in 0 .. Len(x2)
    OBVIOUS
  <2>2. Stretch(x2, lo2, hi2) \in Seq(T)
    BY <1>8, <2>1, StretchSeq, Zenon
  <2>3. Len(Stretch(x2, lo2, hi2)) = hi2 - lo2 + 1
    BY <1>8, <2>1, StretchSeq, ZenonT(40)
  <2>4. \A i \in 1 .. hi2 - lo2 + 1 : Stretch(x2, lo2, hi2)[i] = x2[lo2 + i - 1]
    BY <1>8, <2>1, StretchSeq, ZenonT(40)
  <2>5. hi2 - lo2 + 1 \in Nat
    BY <1>8
  <2> QED
    BY <2>2, <2>3, <2>4, <2>5
<1>13. PICK a, b : a = Stretch(x, lo, hi) /\ b = Stretch(x2, lo2, hi2)
  OBVIOUS
<1>14. (q = p => a # <<>>) /\ b = IF q = p THEN Tail(a) ELSE a
  <2>1. CASE q < p
    <3>1. lo2 = lo /\ hi2 = hi
      BY <1>7, <2>1
    <3>2. \A i \in 1 .. hi - lo + 1 : b[i] = a[i]
      <4> TAKE i \in 1 .. hi - lo + 1
      <4>1. lo + i - 1 \in 1 .. N - 1 /\ lo + i - 1 < k
        BY <1>6, <2>1
      <4>2. x2[lo + i - 1] = x[lo + i - 1]
        BY <4>1 DEF Closed
      <4> QED
        BY <1>10, <1>12, <1>13, <3>1, <4>2
    <3>3. a \in Seq(T) /\ b \in Seq(T) /\ Len(a) = Len(b) /\ Len(a) = hi - lo + 1
      BY <1>10, <1>12, <1>13, <3>1, Zenon
    <3>4. b = a
      BY <3>2, <3>3, SeqEqual, Zenon
    <3> QED
      BY <2>1, <3>4
  <2>2. CASE p < q
    <3>1. lo2 = lo - 1 /\ hi2 = hi - 1
      BY <1>7, <2>2
    <3>2. \A i \in 1 .. hi - lo + 1 : b[i] = a[i]
      <4> TAKE i \in 1 .. hi - lo + 1
      <4>1. PICK j \in 1 .. N - 1 : j = lo2 + i - 1
        BY <1>6, <2>2, <3>1
      <4>2. ~(j < k) /\ j + 1 = lo + i - 1
        BY <1>6, <2>2, <3>1, <4>1
      <4>3. x2[j] = x[j + 1]
        BY <4>2 DEF Closed
      <4>4. i \in 1 .. hi2 - lo2 + 1
        BY <3>1
      <4> QED
        BY <1>10, <1>12, <1>13, <4>1, <4>2, <4>3, <4>4, Zenon
    <3>3. a \in Seq(T) /\ b \in Seq(T) /\ Len(a) = Len(b) /\ Len(a) = hi - lo + 1
      BY <1>10, <1>12, <1>13, <3>1, SMTT(30)
    <3>4. b = a
      BY <3>2, <3>3, SeqEqual, Zenon
    <3> QED
      BY <2>2, <3>4
  <2>3. CASE q = p
    <3>1. lo2 = lo /\ hi2 = hi - 1 /\ lo = k /\ k <= hi
      BY <1>6, <1>7, <2>3
    <3>2. a \in Seq(T) /\ b \in Seq(T) /\ Len(a) = hi - lo + 1 /\ Len(b) = hi - lo
      BY <1>10, <1>12, <1>13, <3>1
    <3>3. PICK n \in Nat : n = hi - lo
      BY <3>1
    <3>4. Len(a) = n + 1 /\ Len(b) = n /\ a # <<>>
      <4>1. Len(a) = n + 1 /\ Len(b) = n
        BY <3>2, <3>3
      <4>2. Len(<<>>) = 0
        OBVIOUS
      <4> QED
        BY <4>1, <4>2
    <3>5. /\ Tail(a) \in Seq(T) /\ Len(Tail(a)) = Len(a) - 1
          /\ \A i \in 1 .. Len(Tail(a)) : Tail(a)[i] = a[i + 1]
      BY <3>2, <3>4, HeadTailProperties
    <3>6. ASSUME NEW i \in 1 .. n PROVE b[i] = Tail(a)[i]
      <4>1. PICK j \in 1 .. N - 1 : j = lo + i - 1
        BY <3>1, <3>3
      <4>2. ~(j < k) /\ j + 1 = lo + (i + 1) - 1 /\ i + 1 \in 1 .. hi - lo + 1
        BY <3>1, <3>3, <4>1
      <4>3. x2[j] = x[j + 1]
        BY <4>2 DEF Closed
      <4>4. b[i] = x2[j]
        BY <1>12, <1>13, <3>1, <3>3, <4>1
      <4>5. a[i + 1] = x[j + 1]
        BY <1>10, <1>13, <4>2, Zenon
      <4>6. Tail(a)[i] = a[i + 1]
        BY <3>4, <3>5
      <4> QED
        BY <4>3, <4>4, <4>5, <4>6, Zenon
    <3>7. Len(Tail(a)) = n
      BY <3>4, <3>5
    <3>8. b = Tail(a)
      BY <3>2, <3>4, <3>5, <3>6, <3>7, SeqEqual, ZenonT(40)
    <3> QED
      BY <2>3, <3>4, <3>8
  <2> QED
    BY <2>1, <2>2, <2>3
<1> QED
  BY <1>0, <1>5, <1>9, <1>13, <1>14, Zenon DEF LineShrinks

LEMMA RisingOpened ==
    ASSUME NEW N \in Nat, NEW r \in [1 .. N -> Int], Rising(N, r), NEW k \in 1 .. N + 1,
           NEW p \in Int, Cuts(N, r, p, k - 1), NEW r2, Opened(N, r, r2, k, p)
    PROVE  Rising(N + 1, r2)
<1> SUFFICES ASSUME NEW i \in 1 .. N + 1, NEW j \in 1 .. N + 1, i < j PROVE r2[i] <= r2[j]
  BY DEF Rising
<1>1. CASE j < k
  <2>1. r2[i] = r[i] /\ r2[j] = r[j] /\ i \in 1 .. N /\ j \in 1 .. N
    BY <1>1 DEF Opened
  <2> QED
    BY <2>1 DEF Rising
<1>2. CASE j = k
  <2>1. r2[i] = r[i] /\ r2[j] = p /\ i \in 1 .. N /\ i <= k - 1
    BY <1>2 DEF Opened
  <2> QED
    BY <2>1 DEF Cuts
<1>3. CASE k < j /\ i < k
  <2>1. r2[i] = r[i] /\ r2[j] = r[j - 1] /\ i \in 1 .. N
    BY <1>3 DEF Opened
  <2>2. PICK l \in 1 .. N : l = j - 1
    BY <1>3
  <2>3. r[i] <= p /\ ~(r[l] <= p) /\ r[i] \in Int /\ r[l] \in Int
    BY <1>3, <2>1, <2>2 DEF Cuts
  <2> QED
    BY <2>1, <2>2, <2>3
<1>4. CASE k < j /\ i = k
  <2>1. r2[i] = p /\ r2[j] = r[j - 1]
    BY <1>4 DEF Opened
  <2>2. PICK l \in 1 .. N : l = j - 1
    BY <1>4
  <2>3. ~(r[l] <= p) /\ r[l] \in Int
    BY <1>4, <2>2 DEF Cuts
  <2> QED
    BY <2>1, <2>2, <2>3
<1>5. CASE k < i
  <2>1. r2[i] = r[i - 1] /\ r2[j] = r[j - 1]
    BY <1>5 DEF Opened
  <2>2. PICK l \in 1 .. N, m \in 1 .. N : l = j - 1 /\ m = i - 1
    BY <1>5
  <2>3. r[m] <= r[l]
    BY <2>2 DEF Rising
  <2> QED
    BY <2>1, <2>2, <2>3
<1> QED
  BY <1>1, <1>2, <1>3, <1>4, <1>5

LEMMA RisingClosed ==
    ASSUME NEW N \in Nat, NEW r, Rising(N, r), NEW k \in 1 .. N, NEW r2, Closed(N, r, r2, k)
    PROVE  Rising(N - 1, r2)
<1> SUFFICES ASSUME NEW i \in 1 .. N - 1, NEW j \in 1 .. N - 1, i < j PROVE r2[i] <= r2[j]
  BY DEF Rising
<1>1. PICK l \in 1 .. N, m \in 1 .. N : /\ l = IF i < k THEN i ELSE i + 1
                                       /\ m = IF j < k THEN j ELSE j + 1
  OBVIOUS
<1>2. r2[i] = r[l] /\ r2[j] = r[m]
  BY <1>1 DEF Closed
<1>3. l < m
  BY <1>1
<1> QED
  BY <1>2, <1>3 DEF Rising

-----------------------------------------------------------------------------
(* The lines of the queue.                                                   *)

Prios(h, c) == [i \in 1 .. Len(c) |-> h[c[i]].priority]
Texts(h, c) == [i \in 1 .. Len(c) |-> h[c[i]].text]

LEMMA QueueLine ==
    \A p, lo, hi :
        /\ CQ!Chain \in Seq(Node)
        /\ Places(Len(CQ!Chain), Prios(q_heap, CQ!Chain), p, lo, hi)
        => CQ!Line(p) = Stretch(Texts(q_heap, CQ!Chain), lo, hi)
<1> SUFFICES ASSUME NEW p, NEW lo, NEW hi, CQ!Chain \in Seq(Node),
                    Places(Len(CQ!Chain), Prios(q_heap, CQ!Chain), p, lo, hi)
             PROVE  CQ!Line(p) = Stretch(Texts(q_heap, CQ!Chain), lo, hi)
  OBVIOUS
<1>1. PICK c : c = CQ!Chain
  OBVIOUS
<1>2. c \in Seq(Node) /\ Places(Len(c), Prios(q_heap, c), p, lo, hi)
  BY <1>1
<1>3. Len(c) \in Nat /\ DOMAIN c = 1 .. Len(c)
  BY <1>2, LenProperties
<1>4. PICK mine : mine = {i \in DOMAIN c : q_heap[c[i]].priority = p}
  BY Zenon
<1>5. /\ lo \in 1 .. Len(c) + 1 /\ hi \in 0 .. Len(c) /\ lo <= hi + 1
      /\ \A i \in 1 .. Len(c) : i \in mine <=> lo <= i /\ i <= hi
      /\ \A i \in mine : i \in 1 .. Len(c)
  BY <1>2, <1>3, <1>4 DEF Places, Prios
<1>6. CQ!Line(p) = IF mine = {} THEN <<>>
                   ELSE [i \in 1 .. CQ!Max(mine) - CQ!Min(mine) + 1 |->
                           q_heap[c[CQ!Min(mine) + i - 1]].text]
  BY <1>1, <1>4 DEF CQ!Line
<1>7. CASE lo = hi + 1
  <2>1. mine = {}
    BY <1>3, <1>5, <1>7
  <2>2. Stretch(Texts(q_heap, c), lo, hi) = <<>>
    <3>1. hi - lo + 1 = 0
      BY <1>3, <1>5, <1>7
    <3>2. Stretch(Texts(q_heap, c), lo, hi) = [i \in 1 .. 0 |-> Texts(q_heap, c)[lo + i - 1]]
      BY <3>1 DEF Stretch
    <3> QED
      BY <3>2
  <2> QED
    BY <1>1, <1>6, <2>1, <2>2
<1>8. CASE lo # hi + 1
  <2>1. lo \in mine /\ hi \in mine /\ lo \in Nat /\ hi \in Nat
    BY <1>3, <1>5, <1>8
  <2>2. \A i \in mine : lo <= i /\ i <= hi /\ i \in Nat
    BY <1>3, <1>5
  <2>3. CQ!Min(mine) = lo
    <3>1. PICK l : l = CHOOSE x \in mine : \A y \in mine : x =< y
      OBVIOUS
    <3>2. l = CQ!Min(mine)
      BY <3>1 DEF CQ!Min
    <3>3. l \in mine /\ \A y \in mine : l <= y
      <4>1. mine \subseteq Nat /\ mine # {}
        BY <2>1, <2>2
      <4> QED
        BY <3>1, <4>1, LeastChosen, Zenon
    <3> QED
      BY <2>1, <2>2, <3>2, <3>3
  <2>4. CQ!Max(mine) = hi
    <3>1. PICK l : l = CHOOSE x \in mine : \A y \in mine : x >= y
      OBVIOUS
    <3>2. l = CQ!Max(mine)
      BY <3>1 DEF CQ!Max
    <3>3. l \in mine /\ \A y \in mine : l >= y
      <4>1. \E x \in mine : \A y \in mine : x >= y
        BY <2>1, <2>2
      <4> QED
        BY <3>1, <4>1
    <3> QED
      BY <2>1, <2>2, <3>2, <3>3
  <2>5. CQ!Line(p) = [i \in 1 .. hi - lo + 1 |-> q_heap[c[lo + i - 1]].text]
    BY <1>6, <2>1, <2>3, <2>4
  <2>6. \A i \in 1 .. hi - lo + 1 : /\ lo + i - 1 \in 1 .. Len(c)
                                    /\ q_heap[c[lo + i - 1]].text = Texts(q_heap, c)[lo + i - 1]
    <3> TAKE i \in 1 .. hi - lo + 1
    <3>1. PICK j \in 1 .. Len(c) : j = lo + i - 1
      BY <1>3, <1>5, <2>1
    <3> QED
      BY <3>1 DEF Texts
  <2> QED
    BY <1>1, <2>5, <2>6 DEF Stretch
<1> QED
  BY <1>7, <1>8

LEMMA QueueLineNext ==
    (\A p, lo, hi :
        /\ CQ!Chain \in Seq(Node)
        /\ Places(Len(CQ!Chain), Prios(q_heap, CQ!Chain), p, lo, hi)
        => CQ!Line(p) = Stretch(Texts(q_heap, CQ!Chain), lo, hi))'
BY QueueLine, PTL

\* The rows of priorities and texts of a queue.
LEMMA QueueRows ==
    ASSUME QueueInv
    PROVE  /\ Len(CQ!Chain) \in Nat
           /\ Prios(q_heap, CQ!Chain) \in [1 .. Len(CQ!Chain) -> Int]
           /\ Texts(q_heap, CQ!Chain) \in Seq(Text)
           /\ Len(Texts(q_heap, CQ!Chain)) = Len(CQ!Chain)
           /\ Rising(Len(CQ!Chain), Prios(q_heap, CQ!Chain))
<1> PICK c : c = CQ!Chain
  OBVIOUS
<1>1. Len(c) \in Nat /\ \A i \in 1 .. Len(c) : q_heap[c[i]] \in CQ!NodeType
  BY QueueFacts
<1>2. \A i \in 1 .. Len(c) : q_heap[c[i]].priority \in Int /\ q_heap[c[i]].text \in Text
  BY <1>1, QueueConstants DEF CQ!NodeType
<1>3. Prios(q_heap, c) \in [1 .. Len(c) -> Int]
  BY <1>2 DEF Prios
<1>4. Texts(q_heap, c) \in Seq(Text) /\ Len(Texts(q_heap, c)) = Len(c)
  BY <1>1, <1>2 DEF Texts
<1>5. Rising(Len(c), Prios(q_heap, c))
  BY DEF QueueInv, Ordered, Rising, Prios
<1> QED
  BY <1>1, <1>3, <1>4, <1>5

\* Push in terms of the lines.
LEMMA QueuePushed ==
    ASSUME QueueInv, NEW t \in Text, NEW p \in 0 .. MaxPriority + 1, Pushed(t, p)
    PROVE  /\ q_heap' \in [Node -> CQ!NodeType \cup {Free}] /\ q_head' \in CQ!Pointer
           /\ Whole(q_heap', q_head', CQ!Chain', TRUE) /\ Ordered(q_heap', CQ!Chain')
           /\ \A q \in Int :
                 CQ!Line(q)' = IF q = p THEN Append(CQ!Line(q), t) ELSE CQ!Line(q)
<1>1. PICK n \in Node, k \in 1 .. Len(CQ!Chain) + 1 :
        /\ Whole(q_heap', q_head', With(CQ!Chain, k, n), TRUE)
        /\ q_heap' \in [Node -> CQ!NodeType \cup {Free}] /\ q_head' \in CQ!Pointer
        /\ q_heap'[n].text = t /\ q_heap'[n].priority = p
        /\ \A i \in 1 .. Len(CQ!Chain) :
              /\ CQ!Chain[i] # n /\ q_heap'[CQ!Chain[i]].text = q_heap[CQ!Chain[i]].text
              /\ q_heap'[CQ!Chain[i]].priority = q_heap[CQ!Chain[i]].priority
              /\ i < k <=> q_heap[CQ!Chain[i]].priority <= p
  BY Zenon DEF Pushed
<1>2. CQ!Chain' = With(CQ!Chain, k, n)
  BY <1>1, QueueChainNext, Zenon
<1>3. PICK c, d : c = CQ!Chain /\ d = CQ!Chain'
  OBVIOUS
<1>4. PICK N \in Nat : N = Len(c)
  BY <1>3, QueueFacts
<1>5. PICK r : r = Prios(q_heap, c)
  OBVIOUS
<1>6. PICK x : x = Texts(q_heap, c)
  OBVIOUS
<1>7. PICK r2 : r2 = Prios(q_heap', d)
  OBVIOUS
<1>8. PICK x2 : x2 = Texts(q_heap', d)
  OBVIOUS
<1>9. /\ N \in Nat /\ r \in [1 .. N -> Int] /\ x \in Seq(Text) /\ Len(x) = N /\ Rising(N, r)
      /\ c \in Seq(Node) /\ p \in Int /\ k \in 1 .. N + 1
  BY <1>3, <1>4, <1>5, <1>6, QueueRows, QueueFacts, QueueConstants
<1>10. /\ d \in Seq(Node) /\ Len(d) = N + 1
       /\ \A i \in 1 .. N + 1 : d[i] = IF i < k THEN c[i] ELSE IF i = k THEN n ELSE c[i - 1]
  <2>1. d \in Seq(Node)
    BY <1>1, <1>2, <1>3 DEF Whole
  <2>2. d = [i \in 1 .. N + 1 |-> IF i < k THEN c[i] ELSE IF i = k THEN n ELSE c[i - 1]]
    BY <1>2, <1>3, <1>4 DEF With
  <2> QED
    BY <1>9, <2>1, <2>2
<1>11. /\ r2 = [i \in 1 .. N + 1 |-> q_heap'[d[i]].priority]
       /\ x2 = [i \in 1 .. N + 1 |-> q_heap'[d[i]].text]
  BY <1>7, <1>8, <1>10 DEF Prios, Texts
<1>12. \A i \in 1 .. N : /\ q_heap'[c[i]].text = x[i] /\ q_heap'[c[i]].priority = r[i]
                         /\ x[i] \in Text
                         /\ i <= k - 1 <=> r[i] <= p
  <2>1. \A i \in 1 .. N : x[i] \in Text
    BY <1>9, ElementOfSeq
  <2>2. \A i \in 1 .. N : /\ q_heap'[c[i]].text = x[i] /\ q_heap'[c[i]].priority = r[i]
                          /\ i < k <=> r[i] <= p
    BY <1>1, <1>3, <1>4, <1>5, <1>6 DEF Prios, Texts
  <2>3. \A i \in 1 .. N : i < k <=> i <= k - 1
    BY <1>9
  <2> QED
    BY <2>1, <2>2, <2>3
<1>13. ASSUME NEW i \in 1 .. N + 1
       PROVE  /\ r2[i] = IF i < k THEN r[i] ELSE IF i = k THEN p ELSE r[i - 1]
              /\ x2[i] = IF i < k THEN x[i] ELSE IF i = k THEN t ELSE x[i - 1]
              /\ x2[i] \in Text
  <2>1. r2[i] = q_heap'[d[i]].priority /\ x2[i] = q_heap'[d[i]].text
    BY <1>11
  <2>2. CASE i < k
    <3>1. i \in 1 .. N /\ d[i] = c[i]
      BY <1>9, <1>10, <2>2
    <3> QED
      BY <1>12, <2>1, <2>2, <3>1
  <2>3. CASE i = k
    <3>1. d[i] = n
      BY <1>10, <2>3
    <3> QED
      BY <1>1, <1>9, <2>1, <2>3, <3>1
  <2>4. CASE k < i
    <3>1. PICK j \in 1 .. N : j = i - 1
      BY <1>9, <2>4
    <3>2. d[i] = c[j]
      BY <1>9, <1>10, <2>4, <3>1
    <3>3. ~(i < k) /\ i # k
      BY <1>9, <2>4
    <3> QED
      BY <1>12, <2>1, <3>1, <3>2, <3>3
  <2> QED
    BY <1>9, <2>2, <2>3, <2>4
<1>14. Opened(N, r, r2, k, p) /\ Opened(N, x, x2, k, t)
  BY <1>13 DEF Opened
<1>15. Cuts(N, r, p, k - 1)
  BY <1>12 DEF Cuts
<1>16. x2 \in Seq(Text) /\ Len(x2) = N + 1
  BY <1>9, <1>11, <1>13
<1>17. Ordered(q_heap', d)
  <2>1. Rising(N + 1, r2)
    BY <1>9, <1>14, <1>15, RisingOpened, Zenon
  <2>2. \A i \in 1 .. N + 1 : r2[i] = q_heap'[d[i]].priority
    BY <1>11
  <2> QED
    BY <1>10, <2>1, <2>2 DEF Ordered, Rising
<1>18. ASSUME NEW q \in Int
       PROVE  CQ!Line(q)' = IF q = p THEN Append(CQ!Line(q), t) ELSE CQ!Line(q)
  <2>1. PICK lo, hi, lo2, hi2 :
              /\ Places(N, r, q, lo, hi) /\ Places(N + 1, r2, q, lo2, hi2)
              /\ Stretch(x2, lo2, hi2) = IF q = p THEN Append(Stretch(x, lo, hi), t)
                                                  ELSE Stretch(x, lo, hi)
    <3>1. PICK k0 \in 1 .. N + 1, p0 \in Int : k0 = k /\ p0 = p
      BY <1>9
    <3>2. /\ Opened(N, r, r2, k0, p0) /\ Opened(N, x, x2, k0, t)
          /\ Cuts(N, r, p0, k0 - 1)
      BY <1>14, <1>15, <3>1
    <3>3. r \in [1 .. N -> Int] /\ x \in Seq(Text) /\ Len(x) = N /\ Rising(N, r)
      BY <1>9
    <3>4. LineGrows(N, r, x, r2, x2, p0, t, q)
      BY <1>16, <3>2, <3>3, LinesPushed, Zenon
    <3> QED
      BY <3>1, <3>4 DEF LineGrows
  <2>2. CQ!Line(q) = Stretch(x, lo, hi)
    BY <1>3, <1>4, <1>5, <1>6, <1>9, <2>1, QueueLine
  <2>3. CQ!Line(q)' = Stretch(x2, lo2, hi2)
    BY <1>3, <1>7, <1>8, <1>10, <2>1, QueueLineNext
  <2> QED
    BY <2>1, <2>2, <2>3
<1>19. Whole(q_heap', q_head', CQ!Chain', TRUE)
  BY <1>1, <1>2, Zenon
<1> QED
  BY <1>1, <1>3, <1>17, <1>18, <1>19, Zenon

\* An extraction in terms of the lines.
LEMMA QueueTaken ==
    ASSUME QueueInv, NEW k \in 1 .. Len(CQ!Chain), NEW p, q_heap[CQ!Chain[k]].priority = p,
           \A i \in 1 .. Len(CQ!Chain) : i < k => q_heap[CQ!Chain[i]].priority # p, Taken(k)
    PROVE  /\ q_heap' \in [Node -> CQ!NodeType \cup {Free}] /\ q_head' \in CQ!Pointer
           /\ Whole(q_heap', q_head', CQ!Chain', TRUE) /\ Ordered(q_heap', CQ!Chain')
           /\ \A q \in Int : CQ!Line(q)' = IF q = p THEN Tail(CQ!Line(q)) ELSE CQ!Line(q)
           /\ CQ!Line(p) # <<>>
<1>1. /\ Whole(q_heap', q_head', Without(CQ!Chain, k), TRUE)
      /\ q_heap' \in [Node -> CQ!NodeType \cup {Free}] /\ q_head' \in CQ!Pointer
      /\ \A i \in 1 .. Len(CQ!Chain) :
            i # k => /\ q_heap'[CQ!Chain[i]].text = q_heap[CQ!Chain[i]].text
                     /\ q_heap'[CQ!Chain[i]].priority = q_heap[CQ!Chain[i]].priority
  BY Zenon DEF Taken
<1>2. CQ!Chain' = Without(CQ!Chain, k)
  BY <1>1, QueueChainNext, Zenon
<1>3. PICK c, d : c = CQ!Chain /\ d = CQ!Chain'
  OBVIOUS
<1>4. PICK N \in Nat : N = Len(c)
  BY <1>3, QueueFacts
<1>5. PICK r : r = Prios(q_heap, c)
  OBVIOUS
<1>6. PICK x : x = Texts(q_heap, c)
  OBVIOUS
<1>7. PICK r2 : r2 = Prios(q_heap', d)
  OBVIOUS
<1>8. PICK x2 : x2 = Texts(q_heap', d)
  OBVIOUS
<1>9. /\ r \in [1 .. N -> Int] /\ x \in Seq(Text) /\ Len(x) = N /\ Rising(N, r)
      /\ c \in Seq(Node) /\ k \in 1 .. N
  BY <1>3, <1>4, <1>5, <1>6, QueueRows, QueueFacts
<1>10. /\ d \in Seq(Node) /\ Len(d) = N - 1
       /\ \A i \in 1 .. N - 1 : d[i] = IF i < k THEN c[i] ELSE c[i + 1]
  <2>1. d \in Seq(Node)
    BY <1>1, <1>2, <1>3 DEF Whole
  <2>2. d = [i \in 1 .. N - 1 |-> IF i < k THEN c[i] ELSE c[i + 1]]
    BY <1>2, <1>3, <1>4 DEF Without
  <2> QED
    BY <1>9, <2>1, <2>2
<1>11. /\ r2 = [i \in 1 .. N - 1 |-> q_heap'[d[i]].priority]
       /\ x2 = [i \in 1 .. N - 1 |-> q_heap'[d[i]].text]
  BY <1>7, <1>8, <1>10 DEF Prios, Texts
<1>12. /\ \A i \in 1 .. N : x[i] \in Text /\ r[i] \in Int
       /\ \A i \in 1 .. N : i # k => q_heap'[c[i]].text = x[i] /\ q_heap'[c[i]].priority = r[i]
  <2>1. \A i \in 1 .. N : x[i] \in Text
    BY <1>9, ElementOfSeq
  <2>2. \A i \in 1 .. N : i # k => q_heap'[c[i]].text = x[i] /\ q_heap'[c[i]].priority = r[i]
    BY <1>1, <1>3, <1>4, <1>5, <1>6 DEF Prios, Texts
  <2> QED
    BY <1>9, <2>1, <2>2
<1>13. ASSUME NEW i \in 1 .. N - 1
       PROVE  /\ r2[i] = IF i < k THEN r[i] ELSE r[i + 1]
              /\ x2[i] = IF i < k THEN x[i] ELSE x[i + 1]
              /\ x2[i] \in Text
  <2>1. r2[i] = q_heap'[d[i]].priority /\ x2[i] = q_heap'[d[i]].text
    BY <1>11
  <2>2. CASE i < k
    <3>1. i \in 1 .. N /\ d[i] = c[i] /\ i # k
      BY <1>9, <1>10, <2>2
    <3> QED
      BY <1>12, <2>1, <2>2, <3>1
  <2>3. CASE ~(i < k)
    <3>1. PICK j \in 1 .. N : j = i + 1
      OBVIOUS
    <3>2. d[i] = c[j] /\ j # k
      BY <1>9, <1>10, <2>3, <3>1
    <3> QED
      BY <1>12, <2>1, <2>3, <3>1, <3>2
  <2> QED
    BY <2>2, <2>3
<1>14. Closed(N, r, r2, k) /\ Closed(N, x, x2, k)
  BY <1>13 DEF Closed
<1>16. x2 \in Seq(Text) /\ Len(x2) = N - 1
  <2>1. PICK M \in Nat : M = N - 1
    BY <1>9
  <2> QED
    BY <1>11, <1>13, <2>1
<1>17. Ordered(q_heap', d)
  <2>1. Rising(N - 1, r2)
    BY <1>9, <1>14, RisingClosed
  <2>2. \A i \in 1 .. N - 1 : r2[i] = q_heap'[d[i]].priority
    BY <1>11
  <2> QED
    BY <1>10, <2>1, <2>2 DEF Ordered, Rising
<1>18. PICK k0 \in 1 .. N, p0 \in Int : k0 = k /\ p0 = p /\ r[k0] = p0
  <2>1. r[k] = p
    BY <1>3, <1>5, <1>9, <1>4 DEF Prios
  <2> QED
    BY <1>9, <1>12, <2>1
<1>19. ASSUME NEW q \in Int
       PROVE  /\ CQ!Line(q)' = IF q = p THEN Tail(CQ!Line(q)) ELSE CQ!Line(q)
              /\ q = p => CQ!Line(q) # <<>>
  <2>1. LineShrinks(N, r, x, r2, x2, p0, q)
    <3>1. Closed(N, r, r2, k0) /\ Closed(N, x, x2, k0)
      BY <1>14, <1>18
    <3>2. \A i \in 1 .. N : i < k0 => r[i] # p0
      BY <1>3, <1>4, <1>5, <1>18 DEF Prios
    <3>3. r \in [1 .. N -> Int] /\ x \in Seq(Text) /\ Len(x) = N /\ Rising(N, r) /\ r[k0] = p0
      BY <1>9, <1>18
    <3> QED
      BY <1>16, <3>1, <3>2, <3>3, LinesTaken, Zenon
  <2>2. PICK lo, hi, lo2, hi2 :
            /\ Places(N, r, q, lo, hi) /\ Places(N - 1, r2, q, lo2, hi2)
            /\ Stretch(x2, lo2, hi2) = IF q = p THEN Tail(Stretch(x, lo, hi))
                                                ELSE Stretch(x, lo, hi)
            /\ q = p => Stretch(x, lo, hi) # <<>>
    BY <1>18, <2>1 DEF LineShrinks
  <2>3. CQ!Line(q) = Stretch(x, lo, hi)
    BY <1>3, <1>4, <1>5, <1>6, <1>9, <2>2, QueueLine
  <2>4. CQ!Line(q)' = Stretch(x2, lo2, hi2)
    BY <1>3, <1>7, <1>8, <1>10, <2>2, QueueLineNext
  <2> QED
    BY <2>2, <2>3, <2>4
<1>20. Whole(q_heap', q_head', CQ!Chain', TRUE)
  BY <1>1, <1>2, Zenon
<1>21. CQ!Line(p) # <<>>
  BY <1>18, <1>19
<1> QED
  BY <1>1, <1>3, <1>17, <1>19, <1>20, <1>21, Zenon

-----------------------------------------------------------------------------
(* The steps of the queue.                                                   *)

\* The part of the invariant that the list is about.
QueueList ==
    /\ q_heap \in [Node -> CQ!NodeType \cup {Free}] /\ q_head \in CQ!Pointer
    /\ Whole(q_heap, q_head, CQ!Chain, TRUE) /\ Ordered(q_heap, CQ!Chain)

\* No message has priority q.
LEMMA QueueLineEmpty ==
    ASSUME QueueInv, NEW q,
           \A i \in 1 .. Len(CQ!Chain) : q_heap[CQ!Chain[i]].priority # q
    PROVE  CQ!Line(q) = <<>>
<1>1. DOMAIN CQ!Chain = 1 .. Len(CQ!Chain)
  BY QueueFacts, LenProperties
<1>2. {i \in DOMAIN CQ!Chain : q_heap[CQ!Chain[i]].priority = q} = {}
  BY <1>1
<1> QED
  BY <1>2 DEF CQ!Line

\* A step that leaves the list alone.
LEMMA QueueSame ==
    ASSUME QueueInv, UNCHANGED <<q_heap, q_head>>
    PROVE  QueueList' /\ \A q : CQ!Line(q)' = CQ!Line(q)
<1>1. /\ q_heap \in [Node -> CQ!NodeType \cup {Free}] /\ q_head \in CQ!Pointer
      /\ Whole(q_heap, q_head, CQ!Chain, TRUE) /\ Ordered(q_heap, CQ!Chain)
  BY Zenon DEF QueueInv, CQ!TypeOK
<1>2. q_heap' = q_heap /\ q_head' = q_head
  OBVIOUS
<1>3. CQ!Chain' = CQ!Chain
  BY <1>1, <1>2, QueueChainNext, Zenon
<1> QED
  BY <1>1, <1>2, <1>3, ZenonT(40) DEF QueueList, CQ!Line, CQ!NodeType, CQ!Pointer

LEMMA QueueEntered ==
    /\ CQ!Entered = 0 .. MaxPriority + 1 /\ CQ!Entered \subseteq Int
    /\ \A n \in CQ!NodeType : n.priority \in CQ!Entered
<1>1. CQ!Entered = 0 .. MaxPriority + 1
  BY DEF CQ!Entered
<1>2. CQ!Entered \subseteq Int
  BY <1>1, QueueConstants
<1>3. \A n \in CQ!NodeType : n.priority \in 0 .. MaxPriority + 1
  BY DEF CQ!NodeType
<1> QED
  BY <1>1, <1>2, <1>3

\* push is a step of the lines.
LEMMA QueuePushStep ==
    ASSUME QueueInv, NEW t \in Text, NEW p \in 0 .. MaxPriority + 1, CQ!Push(t, p)
    PROVE  QueueList' /\ q_call' \in CQ!Call /\ CQ!PQ!Next
<1>1. CASE q_call' = [op |-> "refused"] /\ UNCHANGED <<q_heap, q_head>>
  <2>1. QueueList' /\ \A q : CQ!Line(q)' = CQ!Line(q)
    BY <1>1, QueueSame
  <2>2. [q \in CQ!Entered |-> CQ!Line(q)]' = [q \in CQ!Entered |-> CQ!Line(q)]
    BY <2>1 DEF CQ!Entered
  <2>3. CQ!PQ!Refuse
    BY <1>1, <2>2 DEF CQ!PQ!Refuse, CQ!PQ!Calls
  <2>4. q_call' \in CQ!Call
    BY <1>1 DEF CQ!Call
  <2> QED
    BY <2>1, <2>3, <2>4 DEF CQ!PQ!Next
<1>2. CASE q_call' = [op |-> "push", text |-> t, priority |-> p] /\ Pushed(t, p)
  <2>1. /\ q_heap' \in [Node -> CQ!NodeType \cup {Free}] /\ q_head' \in CQ!Pointer
        /\ Whole(q_heap', q_head', CQ!Chain', TRUE) /\ Ordered(q_heap', CQ!Chain')
        /\ \A q \in Int : CQ!Line(q)' = IF q = p THEN Append(CQ!Line(q), t) ELSE CQ!Line(q)
    BY <1>2, QueuePushed, Zenon
  <2>2. QueueList'
    BY <2>1, Zenon DEF QueueList, CQ!NodeType, CQ!Pointer
  <2>3. [q \in CQ!Entered |-> CQ!Line(q)]'
          = [[q \in CQ!Entered |-> CQ!Line(q)] EXCEPT ![p] = Append(@, t)]
    <3>1. CQ!Entered' = CQ!Entered /\ p \in CQ!Entered
      BY DEF CQ!Entered
    <3> QED
      BY <2>1, <3>1, QueueEntered, Zenon
  <2>4. CQ!PQ!Add(t, p)
    BY <1>2, <2>3 DEF CQ!PQ!Add, CQ!PQ!Calls
  <2>5. q_call' \in CQ!Call
    BY <1>2 DEF CQ!Call
  <2> QED
    BY <2>2, <2>4, <2>5, QueueEntered DEF CQ!PQ!Next
<1> QED
  BY <1>1, <1>2, QueuePush

\* Taking out the first message of its priority takes the first of a line.
LEMMA QueueTakeStep ==
    ASSUME QueueInv, NEW k \in 1 .. Len(CQ!Chain), CQ!TakeOut(CQ!Chain[k]),
           NEW p, q_heap[CQ!Chain[k]].priority = p,
           \A i \in 1 .. Len(CQ!Chain) : i < k => q_heap[CQ!Chain[i]].priority # p
    PROVE  QueueList' /\ p \in CQ!Entered /\ CQ!PQ!Take(p) /\ CQ!Line(p) # <<>>
<1>1. Taken(k)
  BY QueueTake
<1>2. /\ q_heap' \in [Node -> CQ!NodeType \cup {Free}] /\ q_head' \in CQ!Pointer
      /\ Whole(q_heap', q_head', CQ!Chain', TRUE) /\ Ordered(q_heap', CQ!Chain')
      /\ \A q \in Int : CQ!Line(q)' = IF q = p THEN Tail(CQ!Line(q)) ELSE CQ!Line(q)
      /\ CQ!Line(p) # <<>>
  BY <1>1, QueueTaken, Zenon
<1>3. QueueList'
  BY <1>2, Zenon DEF QueueList, CQ!NodeType, CQ!Pointer
<1>4. p \in CQ!Entered
  BY QueueFacts, QueueEntered
<1>5. [q \in CQ!Entered |-> CQ!Line(q)]'
        = [[q \in CQ!Entered |-> CQ!Line(q)] EXCEPT ![p] = Tail(@)]
  <2>1. CQ!Entered' = CQ!Entered
    BY DEF CQ!Entered
  <2> QED
    BY <1>2, <1>4, <2>1, QueueEntered, Zenon
<1> QED
  BY <1>2, <1>3, <1>4, <1>5 DEF CQ!PQ!Take

\* The first message of the list is the first of the most urgent.
LEMMA QueueFirst ==
    ASSUME QueueInv, 1 \in 1 .. Len(CQ!Chain), CQ!TakeOut(CQ!Chain[1])
    PROVE  /\ QueueList'
           /\ \E p \in CQ!Entered : /\ p = q_heap[CQ!Chain[1]].priority
                                    /\ CQ!PQ!MostUrgent(p) /\ CQ!PQ!Take(p)
<1>1. PICK p : p = q_heap[CQ!Chain[1]].priority
  OBVIOUS
<1>2. QueueList' /\ p \in CQ!Entered /\ CQ!PQ!Take(p) /\ CQ!Line(p) # <<>>
  <2>1. PICK k \in 1 .. Len(CQ!Chain) : k = 1
    OBVIOUS
  <2>2. \A i \in 1 .. Len(CQ!Chain) : i < k => q_heap[CQ!Chain[i]].priority # p
    BY <2>1
  <2>3. CQ!TakeOut(CQ!Chain[k]) /\ q_heap[CQ!Chain[k]].priority = p
    BY <1>1, <2>1
  <2> QED
    BY <2>2, <2>3, QueueTakeStep
<1>3. ASSUME NEW q \in CQ!Entered, q < p PROVE CQ!Line(q) = <<>>
  <2>1. \A i \in 1 .. Len(CQ!Chain) : q_heap[CQ!Chain[i]].priority # q
    <3> TAKE i \in 1 .. Len(CQ!Chain)
    <3>1. q_heap[CQ!Chain[i]].priority \in CQ!Entered
      BY QueueFacts, QueueEntered
    <3>2. p <= q_heap[CQ!Chain[i]].priority
      <4>1. CASE i = 1
        BY <1>1, <1>2, <4>1, QueueEntered
      <4>2. CASE i # 1
        <5>1. 1 < i
          BY <4>2
        <5> QED
          BY <1>1, <5>1 DEF QueueInv, Ordered
      <4> QED
        BY <4>1, <4>2
    <3> QED
      BY <1>2, <1>3, <3>1, <3>2, QueueEntered
  <2> QED
    BY <2>1, QueueLineEmpty
<1>4. CQ!PQ!MostUrgent(p)
  BY <1>2, <1>3 DEF CQ!PQ!MostUrgent
<1> QED
  BY <1>1, <1>2, <1>4

LEMMA QueuePopStep ==
    ASSUME QueueInv, CQ!Pop PROVE QueueList' /\ q_call' \in CQ!Call /\ CQ!PQ!Next
<1>1. q_call' = [op |-> "pop"] /\ q_call' \in CQ!Call
  BY DEF CQ!Pop, CQ!Call
<1>2. CASE q_head = NULL
  <2>1. QueueList' /\ \A q : CQ!Line(q)' = CQ!Line(q)
    BY <1>2, QueueSame DEF CQ!Pop
  <2>2. [q \in CQ!Entered |-> CQ!Line(q)]' = [q \in CQ!Entered |-> CQ!Line(q)]
    BY <2>1 DEF CQ!Entered
  <2>3. \A q : CQ!Line(q) = <<>>
    <3>1. ~(1 \in 1 .. Len(CQ!Chain))
      BY <1>2, QueueFacts DEF At
    <3>2. \A q : \A i \in 1 .. Len(CQ!Chain) : q_heap[CQ!Chain[i]].priority # q
      BY <3>1, QueueFacts
    <3> QED
      BY <3>2, QueueLineEmpty
  <2>4. CQ!PQ!Pop
    BY <1>1, <2>2, <2>3 DEF CQ!PQ!Pop, CQ!PQ!Calls, CQ!PQ!Empty
  <2> QED
    BY <1>1, <2>1, <2>4 DEF CQ!PQ!Next
<1>3. CASE q_head # NULL
  <2>1. 1 \in 1 .. Len(CQ!Chain) /\ q_head = CQ!Chain[1]
    BY <1>3, QueueFacts DEF At
  <2>2. CQ!TakeOut(CQ!Chain[1])
    BY <1>3, <2>1 DEF CQ!Pop
  <2>3. /\ QueueList'
        /\ \E p \in CQ!Entered : CQ!PQ!MostUrgent(p) /\ CQ!PQ!Take(p)
    BY <2>1, <2>2, QueueFirst
  <2>4. CQ!PQ!Pop
    BY <1>1, <2>3 DEF CQ!PQ!Pop, CQ!PQ!Calls
  <2> QED
    BY <1>1, <2>3, <2>4 DEF CQ!PQ!Next
<1> QED
  BY <1>2, <1>3

LEMMA QueueByPriorityStep ==
    ASSUME QueueInv, NEW x \in CQ!Asked, CQ!ExtractByPriority(x)
    PROVE  QueueList' /\ q_call' \in CQ!Call /\ CQ!PQ!Next
<1>1. q_call' = [op |-> "byPriority", priority |-> x] /\ q_call' \in CQ!Call
  BY DEF CQ!ExtractByPriority, CQ!Call
<1>2. PICK found : found = {n \in CQ!Used : q_heap[n].priority = x}
  BY Zenon
<1>3. \A i \in 1 .. Len(CQ!Chain) : CQ!Chain[i] \in found <=> q_heap[CQ!Chain[i]].priority = x
  BY <1>2, QueueFacts
<1>4. IF CQ!Seek(found) = NULL THEN UNCHANGED <<q_heap, q_head>>
                               ELSE CQ!TakeOut(CQ!Seek(found))
  BY <1>2 DEF CQ!ExtractByPriority, CQ!Extract
<1>5. CASE /\ CQ!Seek(found) = NULL
           /\ \A i \in 1 .. Len(CQ!Chain) : CQ!Chain[i] \notin found
  <2>1. QueueList' /\ \A q : CQ!Line(q)' = CQ!Line(q)
    BY <1>4, <1>5, QueueSame
  <2>2. [q \in CQ!Entered |-> CQ!Line(q)]' = [q \in CQ!Entered |-> CQ!Line(q)]
    BY <2>1 DEF CQ!Entered
  <2>3. CQ!Line(x) = <<>>
    BY <1>3, <1>5, QueueLineEmpty
  <2>4. CQ!PQ!ByPriority(x)
    BY <1>1, <2>2, <2>3 DEF CQ!PQ!ByPriority, CQ!PQ!Calls
  <2> QED
    BY <1>1, <2>1, <2>4 DEF CQ!PQ!Next
<1>6. ASSUME NEW k \in 1 .. Len(CQ!Chain), CQ!Seek(found) = CQ!Chain[k], CQ!Chain[k] \in found,
             \A i \in 1 .. Len(CQ!Chain) : i < k => CQ!Chain[i] \notin found
      PROVE  QueueList' /\ CQ!PQ!Next
  <2>1. q_heap[CQ!Chain[k]].priority = x
    BY <1>3, <1>6
  <2>2. \A i \in 1 .. Len(CQ!Chain) : i < k => q_heap[CQ!Chain[i]].priority # x
    BY <1>3, <1>6
  <2>3. CQ!TakeOut(CQ!Chain[k])
    BY <1>4, <1>6, QueueFacts
  <2>4. QueueList' /\ x \in CQ!Entered /\ CQ!PQ!Take(x) /\ CQ!Line(x) # <<>>
    BY <2>1, <2>2, <2>3, QueueTakeStep
  <2>5. CQ!PQ!ByPriority(x)
    BY <1>1, <2>4 DEF CQ!PQ!ByPriority, CQ!PQ!Calls
  <2> QED
    BY <2>4, <2>5 DEF CQ!PQ!Next
<1> QED
  BY <1>1, <1>5, <1>6, QueueSeek

LEMMA QueueNotLowerStep ==
    ASSUME QueueInv, NEW x \in CQ!Asked, CQ!ExtractNotLower(x)
    PROVE  QueueList' /\ q_call' \in CQ!Call /\ CQ!PQ!Next
<1>1. q_call' = [op |-> "notLower", priority |-> x] /\ q_call' \in CQ!Call
  BY DEF CQ!ExtractNotLower, CQ!Call
<1>2. PICK found : found = {n \in CQ!Used : q_heap[n].priority <= x}
  BY Zenon
<1>3. \A i \in 1 .. Len(CQ!Chain) : CQ!Chain[i] \in found <=> q_heap[CQ!Chain[i]].priority <= x
  BY <1>2, QueueFacts
<1>4. IF CQ!Seek(found) = NULL THEN UNCHANGED <<q_heap, q_head>>
                               ELSE CQ!TakeOut(CQ!Seek(found))
  BY <1>2 DEF CQ!ExtractNotLower, CQ!Extract
<1>5. CASE /\ CQ!Seek(found) = NULL
           /\ \A i \in 1 .. Len(CQ!Chain) : CQ!Chain[i] \notin found
  <2>1. QueueList' /\ \A q : CQ!Line(q)' = CQ!Line(q)
    BY <1>4, <1>5, QueueSame
  <2>2. [q \in CQ!Entered |-> CQ!Line(q)]' = [q \in CQ!Entered |-> CQ!Line(q)]
    BY <2>1 DEF CQ!Entered
  <2>3. ASSUME NEW q \in CQ!Entered, q <= x PROVE CQ!Line(q) = <<>>
    <3>1. \A i \in 1 .. Len(CQ!Chain) : q_heap[CQ!Chain[i]].priority # q
      BY <1>3, <1>5, <2>3
    <3> QED
      BY <3>1, QueueLineEmpty
  <2>4. CQ!PQ!NotLower(x)
    BY <1>1, <2>2, <2>3 DEF CQ!PQ!NotLower, CQ!PQ!Calls
  <2> QED
    BY <1>1, <2>1, <2>4 DEF CQ!PQ!Next
<1>6. ASSUME NEW k \in 1 .. Len(CQ!Chain), CQ!Seek(found) = CQ!Chain[k], CQ!Chain[k] \in found,
             \A i \in 1 .. Len(CQ!Chain) : i < k => CQ!Chain[i] \notin found
      PROVE  QueueList' /\ CQ!PQ!Next
  <2>1. k = 1 /\ 1 \in 1 .. Len(CQ!Chain)
    <3>1. 1 \in 1 .. Len(CQ!Chain)
      BY QueueFacts
    <3>2. CASE 1 < k
      <4>1. /\ q_heap[CQ!Chain[1]].priority \in CQ!Entered
            /\ q_heap[CQ!Chain[k]].priority \in CQ!Entered
        BY <3>1, QueueFacts, QueueEntered
      <4>2. q_heap[CQ!Chain[1]].priority <= q_heap[CQ!Chain[k]].priority
        BY <3>1, <3>2 DEF QueueInv, Ordered
      <4>3. q_heap[CQ!Chain[k]].priority <= x /\ ~(q_heap[CQ!Chain[1]].priority <= x)
        BY <1>3, <1>6, <3>1, <3>2
      <4>4. x \in Int
        BY QueueConstants DEF CQ!Asked
      <4> QED
        BY <4>1, <4>2, <4>3, <4>4, QueueEntered
    <3> QED
      BY <3>1, <3>2
  <2>2. CQ!TakeOut(CQ!Chain[1])
    BY <1>4, <1>6, <2>1, QueueFacts
  <2>3. /\ QueueList'
        /\ \E p \in CQ!Entered : /\ p = q_heap[CQ!Chain[1]].priority
                                 /\ CQ!PQ!MostUrgent(p) /\ CQ!PQ!Take(p)
    BY <2>1, <2>2, QueueFirst
  <2>4. q_heap[CQ!Chain[1]].priority <= x
    BY <1>3, <1>6, <2>1
  <2>5. CQ!PQ!NotLower(x)
    BY <1>1, <2>3, <2>4 DEF CQ!PQ!NotLower, CQ!PQ!Calls
  <2> QED
    BY <2>3, <2>5 DEF CQ!PQ!Next
<1> QED
  BY <1>1, <1>5, <1>6, QueueSeek

\* What a step of the queue does.
QueueStepOK ==
    QueueInv' /\ (CQ!PQ!Next \/ UNCHANGED CQ!PQ!vars)

LEMMA QueueInvNext ==
    ASSUME QueueInv, QueueList', q_call' \in CQ!Call, q_todo' \in 0 .. MaxCount,
           q_pc' \in {"menu", "generate", "pop", "byPriority", "notLower", "free", "ended", "stuck"}
    PROVE  QueueInv'
BY Zenon DEF QueueInv, QueueList, CQ!TypeOK, CQ!NodeType, CQ!Pointer, CQ!Call, CQ!Asked

LEMMA QueueQuiet ==
    ASSUME QueueInv, UNCHANGED <<q_heap, q_head, q_call>>
    PROVE  QueueList' /\ q_call' \in CQ!Call /\ UNCHANGED CQ!PQ!vars
<1>1. QueueList' /\ \A q : CQ!Line(q)' = CQ!Line(q)
  BY QueueSame
<1>2. [q \in CQ!Entered |-> CQ!Line(q)]' = [q \in CQ!Entered |-> CQ!Line(q)]
  BY <1>1 DEF CQ!Entered
<1>3. q_call' = q_call /\ q_call \in CQ!Call
  BY DEF QueueInv, CQ!TypeOK
<1> QED
  BY <1>1, <1>2, <1>3 DEF CQ!PQ!vars

\* Every step of the queue keeps the invariant and is a step of the lines, or changes nothing
\* of them.
LEMMA QueueStep ==
    ASSUME QueueInv, [CQ!Next]_cqVars PROVE QueueStepOK
<1>0. /\ q_pc \in {"menu", "generate", "pop", "byPriority", "notLower", "free", "ended", "stuck"}
      /\ q_todo \in 0 .. MaxCount /\ MaxCount \in Nat /\ MaxPriority \in Nat
  BY QueueConstants DEF QueueInv, CQ!TypeOK
<1>1. CASE CQ!MenuPush
  <2>1. PICK t \in Text, p \in 0 .. MaxPriority + 1 : CQ!Push(t, p)
    BY <1>1 DEF CQ!MenuPush, CQ!Entered
  <2>2. QueueList' /\ q_call' \in CQ!Call /\ CQ!PQ!Next
    BY <2>1, QueuePushStep
  <2>3. q_pc' = "menu" /\ q_todo' = q_todo
    BY <1>1 DEF CQ!MenuPush, CQ!Goto
  <2> QED
    BY <1>0, <2>2, <2>3, QueueInvNext DEF QueueStepOK
<1>2. CASE CQ!MenuExtract
  <2>1. QueueList' /\ q_call' \in CQ!Call /\ CQ!PQ!Next
    BY <1>2, QueuePopStep, QueueByPriorityStep, QueueNotLowerStep DEF CQ!MenuExtract
  <2>3. q_pc' = "menu" /\ q_todo' = q_todo
    BY <1>2 DEF CQ!MenuExtract, CQ!Goto
  <2> QED
    BY <1>0, <2>1, <2>3, QueueInvNext DEF QueueStepOK
<1>3. CASE CQ!MenuGenerate
  <2>1. QueueList' /\ q_call' \in CQ!Call /\ UNCHANGED CQ!PQ!vars
    BY <1>3, QueueQuiet DEF CQ!MenuGenerate
  <2>3. q_pc' = "generate" /\ q_todo' \in 0 .. MaxCount
    BY <1>3 DEF CQ!MenuGenerate, CQ!Goto
  <2> QED
    BY <1>0, <2>1, <2>3, QueueInvNext DEF QueueStepOK
<1>4. CASE CQ!MenuTest \/ CQ!Exit \/ CQ!InputEnds
  <2>1. QueueList' /\ q_call' \in CQ!Call /\ UNCHANGED CQ!PQ!vars
    BY <1>4, QueueQuiet DEF CQ!MenuTest, CQ!Exit, CQ!InputEnds
  <2>3. q_pc' \in {"pop", "free", "stuck"} /\ q_todo' = q_todo
    BY <1>4 DEF CQ!MenuTest, CQ!Exit, CQ!InputEnds, CQ!Goto
  <2> QED
    BY <1>0, <2>1, <2>3, QueueInvNext DEF QueueStepOK
<1>5. CASE CQ!GenerateMessages
  <2>1. CASE q_todo > 0 /\ q_todo' = q_todo - 1 /\ q_pc' = "generate"
               /\ \E t \in Text, p \in CQ!Drawn : CQ!Push(t, p)
    <3>1. PICK t \in Text, p \in 0 .. MaxPriority + 1 : CQ!Push(t, p)
      BY <1>0, <2>1 DEF CQ!Drawn
    <3>2. QueueList' /\ q_call' \in CQ!Call /\ CQ!PQ!Next
      BY <3>1, QueuePushStep
    <3>3. q_todo' \in 0 .. MaxCount
      BY <1>0, <2>1
    <3> QED
      BY <2>1, <3>2, <3>3, QueueInvNext DEF QueueStepOK
  <2>2. CASE q_pc' = "menu" /\ UNCHANGED <<q_heap, q_head, q_todo, q_call>>
    <3>1. QueueList' /\ q_call' \in CQ!Call /\ UNCHANGED CQ!PQ!vars
      BY <2>2, QueueQuiet
    <3> QED
      BY <1>0, <2>2, <3>1, QueueInvNext DEF QueueStepOK
  <2> QED
    BY <1>5, <2>1, <2>2 DEF CQ!GenerateMessages, CQ!Goto
<1>6. CASE CQ!TestExtraction
  <2>1. CQ!Drawn \subseteq CQ!Asked
    BY <1>0 DEF CQ!Drawn, CQ!Asked
  <2>2. QueueList' /\ q_call' \in CQ!Call /\ CQ!PQ!Next
    BY <1>6, <2>1, QueuePopStep, QueueByPriorityStep, QueueNotLowerStep DEF CQ!TestExtraction
  <2>3. q_pc' \in {"byPriority", "notLower", "menu"} /\ q_todo' = q_todo
    BY <1>6 DEF CQ!TestExtraction, CQ!Goto
  <2> QED
    BY <1>0, <2>2, <2>3, QueueInvNext DEF QueueStepOK
<1>7. CASE CQ!FreeQueue
  <2>1. CASE q_pc' = "free" /\ CQ!Pop /\ q_todo' = q_todo
    <3>1. QueueList' /\ q_call' \in CQ!Call /\ CQ!PQ!Next
      BY <2>1, QueuePopStep
    <3> QED
      BY <1>0, <2>1, <3>1, QueueInvNext DEF QueueStepOK
  <2>2. CASE q_pc' = "ended" /\ UNCHANGED <<q_heap, q_head, q_todo, q_call>>
    <3>1. QueueList' /\ q_call' \in CQ!Call /\ UNCHANGED CQ!PQ!vars
      BY <2>2, QueueQuiet
    <3> QED
      BY <1>0, <2>2, <3>1, QueueInvNext DEF QueueStepOK
  <2> QED
    BY <1>7, <2>1, <2>2 DEF CQ!FreeQueue, CQ!Goto
<1>8. CASE UNCHANGED cqVars
  <2>1. QueueList' /\ q_call' \in CQ!Call /\ UNCHANGED CQ!PQ!vars
    BY <1>8, QueueQuiet DEF cqVars
  <2>2. q_pc' = q_pc /\ q_todo' = q_todo
    BY <1>8 DEF cqVars
  <2> QED
    BY <1>0, <2>1, <2>2, QueueInvNext DEF QueueStepOK
<1> QED
  BY <1>1, <1>2, <1>3, <1>4, <1>5, <1>6, <1>7, <1>8 DEF CQ!Next

LEMMA QueueStart ==
    ASSUME CQ!Init PROVE QueueInv /\ CQ!PQ!Init
<1>1. q_heap = [n \in Node |-> Free] /\ q_head = NULL
  BY DEF CQ!Init
<1>2. Whole(q_heap, q_head, <<>>, TRUE)
  <2>1. <<>> \in Seq(Node) /\ Len(<<>>) = 0
    OBVIOUS
  <2> QED
    BY <1>1, <2>1 DEF Whole, At
<1>3. CQ!Chain = <<>>
  BY <1>2, QueueChain, Zenon
<1>4. QueueInv
  <2>1. CQ!TypeOK
    BY QueueConstants DEF CQ!Init, CQ!TypeOK, CQ!Pointer, CQ!Call
  <2>2. Ordered(q_heap, CQ!Chain)
    BY <1>3 DEF Ordered
  <2> QED
    BY <1>2, <1>3, <2>1, <2>2, Zenon DEF QueueInv
<1>5. \A q : CQ!Line(q) = <<>>
  <2>1. \A q : \A i \in 1 .. Len(CQ!Chain) : q_heap[CQ!Chain[i]].priority # q
    BY <1>3
  <2> QED
    BY <1>4, <2>1, QueueLineEmpty
<1>6. CQ!PQ!Init
  BY <1>5 DEF CQ!Init, CQ!PQ!Init
<1> QED
  BY <1>4, <1>6

\* The invariant of the queue holds.
THEOREM QueueInvHolds == Spec => []QueueInv
<1>1. Init => QueueInv
  BY QueueStart DEF Init
<1>2. QueueInv /\ [Next]_vars => QueueInv'
  BY EachStep, QueueStep DEF QueueStepOK
<1> QED
  BY <1>1, <1>2, PTL DEF Spec

\* The list of messages implements the lines of the abstract queue.
THEOREM QueueImplements == Spec => CQ!ImplementsPriorityQueue
<1>1. Init => CQ!PQ!Init
  BY QueueStart DEF Init
<1>2. QueueInv /\ [Next]_vars => [CQ!PQ!Next]_(CQ!PQ!vars)
  BY EachStep, QueueStep DEF QueueStepOK
<1> QED
  BY <1>1, <1>2, QueueInvHolds, PTL DEF Spec, CQ!ImplementsPriorityQueue, CQ!PQ!Spec

LEMMA QueueIntact == QueueInv => CQ!ListIntact
<1> SUFFICES ASSUME QueueInv PROVE CQ!ListIntact
  OBVIOUS
<1> PICK c : c = CQ!Chain
  OBVIOUS
<1>1. /\ c \in Seq(Node) /\ Len(c) \in Nat
      /\ \A i \in 1 .. Len(c) : /\ c[i] # NULL
                                /\ q_heap[c[i]].next = At(c, i + 1)
                                /\ q_heap[c[i]].prev = At(c, i - 1)
      /\ CQ!Used = {c[i] : i \in 1 .. Len(c)} /\ q_head = At(c, 1)
  BY QueueFacts
<1>2. CQ!Used = {c[i] : i \in DOMAIN c}
  <2>1. DOMAIN c = 1 .. Len(c)
    BY <1>1, LenProperties
  <2> QED
    BY <1>1, <2>1
<1>3. ASSUME q_head # NULL PROVE q_heap[q_head].prev = NULL
  <2>1. 1 \in 1 .. Len(c) /\ q_head = c[1]
    BY <1>1, <1>3 DEF At
  <2>2. At(c, 1 - 1) = NULL
    BY DEF At
  <2>3. PICK i \in 1 .. Len(c) : i = 1
    BY <2>1
  <2>4. q_heap[c[i]].prev = At(c, i - 1)
    BY <1>1
  <2> QED
    BY <2>1, <2>2, <2>3, <2>4
<1>4. ASSUME NEW n \in CQ!Used, q_heap[n].next # NULL PROVE q_heap[q_heap[n].next].prev = n
  <2>1. PICK i \in 1 .. Len(c) : n = c[i]
    BY <1>1
  <2>2. q_heap[n].next = At(c, i + 1)
    BY <1>1, <2>1
  <2>3. PICK j \in 1 .. Len(c) : j = i + 1 /\ q_heap[n].next = c[j]
    BY <1>1, <1>4, <2>2 DEF At
  <2>4. q_heap[c[j]].prev = At(c, j - 1)
    BY <1>1
  <2>5. At(c, j - 1) = n
    BY <1>1, <2>1, <2>3 DEF At
  <2> QED
    BY <2>3, <2>4, <2>5
<1> QED
  BY <1>2, <1>3, <1>4 DEF CQ!ListIntact

-----------------------------------------------------------------------------
(* The phone book in a list.                                                 *)

LEMMA ContactConstants ==
    /\ Surname \subseteq Int /\ NULL \notin Node /\ Free \notin SP!NodeType
    /\ IsFiniteSet(Node) /\ \A S : SP!Cardinality(S) = Cardinality(S)
<1>1. \A S : SP!IsFiniteSet(S) = IsFiniteSet(S)
  BY DEF SP!IsFiniteSet, IsFiniteSet
<1>2. \A S : SP!Cardinality(S) = Cardinality(S)
  BY DEF SP!Cardinality, Cardinality
<1> QED
  BY <1>1, <1>2, ProgramsAssumption DEF SP!PhonebookAssumption

\* The inductive invariant: the list is whole, and can be walked back until its memory is
\* given back node by node; the editor has a contact to work on.
ContactsInv ==
    /\ SP!TypeOK /\ Whole(s_heap, s_head, SP!Chain, s_pc # "free")
    /\ s_pc = "edit" => s_head # NULL

LEMMA ContactsChain == \A c, back : Whole(s_heap, s_head, c, back) => SP!Chain = c
<1> SUFFICES ASSUME NEW c, NEW back, Whole(s_heap, s_head, c, back) PROVE SP!Chain = c
  OBVIOUS
<1>1. PICK f : f = CHOOSE F : F = [n \in {n \in Node : s_heap[n] # Free} \cup {NULL} |->
                                     IF n = NULL THEN <<>> ELSE <<n>> \o F[s_heap[n].next]]
  BY Zenon
<1>2. SP!Used = {n \in Node : s_heap[n] # Free}
  BY DEF SP!Used
<1>3. SP!Chain = f[s_head]
  BY <1>1, <1>2, Zenon DEF SP!Chain
<1>4. f[s_head] = c
  BY <1>1, ContactConstants, ChainWalk, Zenon
<1> QED
  BY <1>3, <1>4

LEMMA ContactsChainNext == (\A c, back : Whole(s_heap, s_head, c, back) => SP!Chain = c)'
BY ContactsChain, PTL

\* What is known of the list of contacts.
LEMMA ContactsFacts ==
    ASSUME ContactsInv
    PROVE  /\ SP!Chain \in Seq(Node) /\ Len(SP!Chain) \in Nat
           /\ s_heap \in [Node -> SP!NodeType \cup {Free}]
           /\ \A i \in 1 .. Len(SP!Chain) :
                 /\ SP!Chain[i] \in Node /\ SP!Chain[i] # NULL
                 /\ s_heap[SP!Chain[i]] \in SP!NodeType /\ s_heap[SP!Chain[i]] # Free
                 /\ s_heap[SP!Chain[i]].next = At(SP!Chain, i + 1)
                 /\ s_pc # "free" => s_heap[SP!Chain[i]].prev = At(SP!Chain, i - 1)
           /\ \A i, j \in 1 .. Len(SP!Chain) : SP!Chain[i] = SP!Chain[j] => i = j
           /\ SP!Used = {SP!Chain[i] : i \in 1 .. Len(SP!Chain)}
           /\ s_head = At(SP!Chain, 1)
<1>1. /\ SP!Chain \in Seq(Node) /\ Len(SP!Chain) \in Nat
      /\ s_heap \in [Node -> SP!NodeType \cup {Free}]
      /\ \A i \in 1 .. Len(SP!Chain) : SP!Chain[i] \in Node
  BY LenProperties, ElementOfSeq DEF ContactsInv, Whole, SP!TypeOK
<1>2. SP!Used = {n \in Node : s_heap[n] # Free}
  BY DEF SP!Used
<1>3. SP!Used = {SP!Chain[i] : i \in 1 .. Len(SP!Chain)}
  BY <1>2 DEF ContactsInv, Whole
<1>4. ASSUME NEW i \in 1 .. Len(SP!Chain)
      PROVE  s_heap[SP!Chain[i]] \in SP!NodeType /\ s_heap[SP!Chain[i]] # Free
  BY <1>1, <1>2, <1>3
<1> QED
  BY <1>1, <1>3, <1>4, ContactConstants DEF ContactsInv, Whole

\* The list is no longer than memory has nodes.
LEMMA ContactsFit ==
    ASSUME ContactsInv PROVE Cardinality(Node) \in Nat /\ Len(SP!Chain) <= Cardinality(Node)
<1>1. PICK c : c = SP!Chain
  OBVIOUS
<1>2. /\ c \in Seq(Node) /\ Len(c) \in Nat
      /\ \A i, j \in 1 .. Len(c) : c[i] = c[j] => i = j
  BY <1>1, ContactsFacts
<1>3. c \in [1 .. Len(c) -> Node]
  BY <1>2, LenProperties
<1>4. c \in Injection(1 .. Len(c), Node)
  BY <1>2, <1>3 DEF Injection, IsInjective
<1>5. Cardinality(1 .. Len(c)) <= Cardinality(Node)
  BY <1>4, ContactConstants, FS_Injection
<1>6. Cardinality(1 .. Len(c)) = Len(c)
  <2>1. 1 \in Int /\ Len(c) \in Int
    BY <1>2
  <2>2. Cardinality(1 .. Len(c)) = IF 1 > Len(c) THEN 0 ELSE Len(c) - 1 + 1
    BY <2>1, FS_Interval
  <2> QED
    BY <1>2, <2>2
<1>7. Cardinality(Node) \in Nat
  BY ContactConstants, FS_CardinalityType
<1> QED
  BY <1>1, <1>5, <1>6, <1>7

\* The node addMenu's loop stops at.
LEMMA ContactsSeek ==
    ASSUME ContactsInv, NEW s \in Surname
    PROVE  \E k \in 1 .. Len(SP!Chain) + 1 :
              /\ SP!FirstNotBefore(s) = At(SP!Chain, k)
              /\ \A i \in 1 .. Len(SP!Chain) :
                    i < k => s > s_heap[SP!Chain[i]].surname
              /\ k <= Len(SP!Chain) => ~(s > s_heap[SP!Chain[k]].surname)
<1> PICK c : c = SP!Chain
  OBVIOUS
<1> DEFINE I == {i \in 1 .. Len(c) : ~(s > s_heap[c[i]].surname)}
<1>1. c \in Seq(Node) /\ Len(c) \in Nat
  BY ContactsFacts
<1>2. DOMAIN c = 1 .. Len(c)
  BY <1>1, LenProperties
<1>3. SP!FirstNotBefore(s) = IF I = {} THEN NULL
                             ELSE c[CHOOSE x \in I : \A y \in I : x =< y]
  BY <1>2 DEF SP!FirstNotBefore, SP!Min
<1>4. CASE I = {}
  <2>2. SP!FirstNotBefore(s) = At(c, Len(c) + 1)
    BY <1>1, <1>3, <1>4 DEF At
  <2>3. \A i \in 1 .. Len(c) : s > s_heap[c[i]].surname
    BY <1>4
  <2> WITNESS Len(c) + 1 \in 1 .. Len(c) + 1
  <2> QED
    BY <1>1, <2>2, <2>3
<1>5. CASE I # {}
  <2>1. PICK k : k = CHOOSE x \in I : \A y \in I : x =< y
    BY Zenon
  <2>2. SP!FirstNotBefore(s) = c[k]
    BY <1>3, <1>5, <2>1, Zenon
  <2>3. I \subseteq Nat
    BY <1>1
  <2>4. k \in I /\ \A i \in I : k <= i
    <3> HIDE DEF I
    <3> QED
      BY <1>5, <2>1, <2>3, LeastChosen, Zenon
  <2>5. k \in 1 .. Len(c) /\ ~(s > s_heap[c[k]].surname)
    BY <1>1, <2>4
  <2>6. \A i \in 1 .. Len(c) : i < k => s > s_heap[c[i]].surname
    BY <1>1, <2>4, <2>5
  <2>7. SP!FirstNotBefore(s) = At(c, k)
    BY <2>2, <2>5 DEF At
  <2>8. k \in 1 .. Len(c) + 1
    BY <1>1, <2>5
  <2> QED
    BY <2>5, <2>6, <2>7, <2>8
<1> QED
  BY <1>4, <1>5

\* What addMenu does to the list, when calloc finds memory.
Added(s, t) ==
    \E n \in Node, k \in 1 .. Len(SP!Chain) + 1 :
        /\ Whole(s_heap', s_head', With(SP!Chain, k, n), TRUE)
        /\ s_heap' \in [Node -> SP!NodeType \cup {Free}] /\ s_head' \in Node \cup {NULL}
        /\ s_heap'[n].surname = s /\ s_heap'[n].note = t
        /\ \A i \in 1 .. Len(SP!Chain) :
              /\ SP!Chain[i] # n /\ s_heap'[SP!Chain[i]].surname = s_heap[SP!Chain[i]].surname
              /\ s_heap'[SP!Chain[i]].note = s_heap[SP!Chain[i]].note
              /\ i < k => s > s_heap[SP!Chain[i]].surname
        /\ k <= Len(SP!Chain) => ~(s > s_heap[SP!Chain[k]].surname)

LEMMA ContactsAdd ==
    ASSUME ContactsInv, NEW s \in Surname, NEW t \in Text, SP!addMenu(s, t)
    PROVE  \/ s_call' = [op |-> "refused"] /\ UNCHANGED <<s_heap, s_head>>
           \/ /\ s_call' = [op |-> "add", contact |-> [surname |-> s, note |-> t]]
              /\ Added(s, t)
<1> DEFINE new == [surname |-> s, note |-> t, prev |-> NULL, next |-> NULL]
<1> SUFFICES ASSUME NEW n \in Node \ SP!Used,
                    s_heap' = IF s_head = NULL THEN [s_heap EXCEPT ![n] = new]
                              ELSE SP!Inserted(n, new, SP!FirstNotBefore(s)),
                    s_head' = IF SP!FirstNotBefore(s) = s_head THEN n ELSE s_head
             PROVE  Added(s, t)
  BY DEF SP!addMenu
<1>1. PICK a : a = SP!FirstNotBefore(s)
  OBVIOUS
<1>2. PICK c : c = SP!Chain
  OBVIOUS
<1>3. PICK b : b = IF s_head = NULL THEN NULL
                   ELSE IF a = NULL THEN c[Len(c)] ELSE s_heap[a].prev
  OBVIOUS
<1>4. PICK k \in 1 .. Len(c) + 1 :
        /\ a = At(c, k)
        /\ \A i \in 1 .. Len(c) : i < k => s > s_heap[c[i]].surname
        /\ k <= Len(c) => ~(s > s_heap[c[k]].surname)
  BY <1>1, <1>2, ContactsSeek
<1>5. /\ c \in Seq(Node) /\ Len(c) \in Nat /\ s_pc = "menu"
      /\ s_heap \in [Node -> SP!NodeType \cup {Free}]
      /\ \A i \in 1 .. Len(c) : /\ c[i] \in Node /\ c[i] # NULL
                                /\ s_heap[c[i]] \in SP!NodeType /\ s_heap[c[i]] # Free
                                /\ s_heap[c[i]].prev = At(c, i - 1)
      /\ \A i, j \in 1 .. Len(c) : c[i] = c[j] => i = j
      /\ s_head = At(c, 1)
  BY <1>2, ContactsFacts DEF SP!addMenu
<1>6. n \in Node /\ s_heap[n] = Free /\ n # NULL /\ \A i \in 1 .. Len(c) : c[i] # n
  BY <1>5, ContactConstants, Zenon DEF SP!Used
<1>7. s_head = NULL <=> Len(c) = 0
  <2>1. CASE Len(c) = 0
    BY <1>5, <2>1 DEF At
  <2>2. CASE Len(c) # 0
    <3>1. 1 \in 1 .. Len(c)
      BY <1>5, <2>2
    <3> QED
      BY <1>5, <2>2, <3>1 DEF At
  <2> QED
    BY <2>1, <2>2
<1>8. b = At(c, k - 1)
  <2>1. CASE Len(c) = 0
    BY <1>3, <1>4, <1>7, <2>1 DEF At
  <2>2. CASE Len(c) # 0 /\ k = Len(c) + 1
    <3>1. a = NULL
      BY <1>4, <1>5, <2>2 DEF At
    <3>2. b = c[Len(c)]
      BY <1>3, <1>7, <2>2, <3>1
    <3>3. k - 1 = Len(c) /\ Len(c) \in 1 .. Len(c)
      BY <1>5, <2>2
    <3> QED
      BY <3>2, <3>3 DEF At
  <2>3. CASE Len(c) # 0 /\ k # Len(c) + 1
    <3>1. k \in 1 .. Len(c)
      BY <1>5, <2>3
    <3>2. a = c[k] /\ a # NULL
      BY <1>4, <1>5, <3>1 DEF At
    <3> QED
      BY <1>3, <1>5, <1>7, <2>3, <3>1, <3>2
  <2> QED
    BY <2>1, <2>2, <2>3
<1>9. /\ a = IF k = Len(c) + 1 THEN NULL ELSE c[k]
      /\ b = IF k = 1 THEN NULL ELSE c[k - 1]
      /\ a = s_head <=> k = 1
  <2>1. a = IF k = Len(c) + 1 THEN NULL ELSE c[k]
    BY <1>4, <1>5 DEF At
  <2>2. b = IF k = 1 THEN NULL ELSE c[k - 1]
    BY <1>5, <1>8 DEF At
  <2>3. CASE Len(c) = 0
    <3>1. k = 1 /\ k = Len(c) + 1
      BY <2>3
    <3> QED
      BY <2>2, <1>7, <2>1, <2>3, <3>1
  <2>4. CASE Len(c) # 0
    <3>1. 1 \in 1 .. Len(c) /\ s_head = c[1]
      BY <1>5, <2>4 DEF At
    <3>2. CASE k = Len(c) + 1
      BY <2>2, <1>5, <2>1, <2>4, <3>1, <3>2
    <3>3. CASE k # Len(c) + 1
      <4>1. k \in 1 .. Len(c) /\ a = c[k]
        BY <1>5, <2>1, <3>3
      <4> QED
        BY <2>1, <2>2, <1>5, <3>1, <4>1
    <3> QED
      BY <3>2, <3>3
  <2> QED
    BY <2>1, <2>2, <2>3, <2>4
<1>10. a \in Node \cup {NULL} /\ b \in Node \cup {NULL}
  BY <1>5, <1>9
<1>11. /\ s_heap'[n] = [surname |-> s, note |-> t, prev |-> b, next |-> a]
       /\ \A m \in Node : m # n =>
             s_heap'[m] = IF m = a THEN [s_heap[m] EXCEPT !.prev = n]
                          ELSE IF m = b THEN [s_heap[m] EXCEPT !.next = n] ELSE s_heap[m]
       /\ s_heap' = [m \in Node |-> s_heap'[m]]
  <2>1. CASE s_head = NULL
    <3>1. a = NULL /\ b = NULL
      BY <1>7, <1>9, <1>4, <2>1
    <3>2. s_heap' = [s_heap EXCEPT ![n] = new]
      BY <2>1
    <3>3. s_heap'[n] = new /\ s_heap' = [m \in Node |-> s_heap'[m]]
      <4> HIDE DEF new
      <4> QED
        BY <1>5, <1>6, <3>2, Zenon
    <3>4. \A m \in Node : m # n => s_heap'[m] = s_heap[m]
      <4> HIDE DEF new
      <4> QED
        BY <1>5, <3>2, Zenon
    <3>5. \A m \in Node : m # a /\ m # b
      BY <3>1, ContactConstants, Zenon
    <3>6. s_heap'[n] = [surname |-> s, note |-> t, prev |-> b, next |-> a]
      BY <3>1, <3>3, Zenon
    <3>7. \A m \in Node : m # n =>
             s_heap'[m] = IF m = a THEN [s_heap[m] EXCEPT !.prev = n]
                          ELSE IF m = b THEN [s_heap[m] EXCEPT !.next = n] ELSE s_heap[m]
      BY <3>4, <3>5, Zenon
    <3> HIDE DEF new
    <3> QED
      BY <3>3, <3>6, <3>7, Zenon
  <2>2. CASE s_head # NULL
    <3>1. s_heap' = SP!Inserted(n, new, a)
      BY <1>1, <2>2
    <3>2. b = IF a = NULL THEN c[Len(c)] ELSE s_heap[a].prev
      BY <1>3, <2>2
    <3>3. a = b => a = NULL
      BY <1>5, <1>9
    <3>4. n # a /\ n # b
      BY <1>6, <1>9
    <3> HIDE DEF new
    <3>5. s_heap' = [m \in Node |->
                       CASE m = n -> [new EXCEPT !.prev = b, !.next = a]
                         [] m = a -> [s_heap[m] EXCEPT !.prev = n]
                         [] m = b -> [s_heap[m] EXCEPT !.next = n]
                         [] OTHER -> s_heap[m]]
      BY <1>2, <3>1, <3>2, Zenon DEF SP!Inserted
    <3>6. s_heap'[n] = [new EXCEPT !.prev = b, !.next = a]
      BY <1>6, <3>4, <3>5
    <3>7. s_heap'[n] = [surname |-> s, note |-> t, prev |-> b, next |-> a]
      BY <3>6, Zenon DEF new
    <3> QED
      BY <1>6, <3>3, <3>4, <3>5, <3>7, ContactConstants
  <2> QED
    BY <2>1, <2>2, Zenon
<1>12. /\ s_heap'[n] \in SP!NodeType
       /\ s_heap'[n].surname = s /\ s_heap'[n].note = t
       /\ s_heap'[n].next = a /\ s_heap'[n].prev = b
  BY <1>10, <1>11 DEF SP!NodeType
<1>13. \A i \in 1 .. Len(c) :
          /\ s_heap'[c[i]] \in SP!NodeType
          /\ s_heap'[c[i]].surname = s_heap[c[i]].surname
          /\ s_heap'[c[i]].note = s_heap[c[i]].note
          /\ s_heap'[c[i]].next = IF i = k - 1 THEN n ELSE s_heap[c[i]].next
          /\ s_heap'[c[i]].prev = IF i = k THEN n ELSE s_heap[c[i]].prev
  <2> TAKE i \in 1 .. Len(c)
  <2> i \in Nat
    BY <1>5
  <2>1. s_heap[c[i]] \in SP!NodeType /\ c[i] \in Node /\ c[i] # n
    BY <1>5, <1>6
  <2>2. (c[i] = b <=> i = k - 1) /\ (c[i] = a <=> i = k)
    <3>1. c[i] = b <=> i = k - 1
      BY <1>5, <1>9
    <3>2. c[i] = a <=> i = k
      BY <1>5, <1>9
    <3> QED
      BY <3>1, <3>2
  <2>3. CASE i = k
    <3>1. i # k - 1
      BY <1>5, <2>3
    <3>2. s_heap'[c[i]] = [s_heap[c[i]] EXCEPT !.prev = n]
      BY <1>11, <2>1, <2>2, <2>3, Zenon
    <3> QED
      BY <1>6, <2>1, <2>3, <3>1, <3>2 DEF SP!NodeType
  <2>4. CASE i = k - 1
    <3>1. i # k
      BY <1>5, <2>4
    <3>2. s_heap'[c[i]] = [s_heap[c[i]] EXCEPT !.next = n]
      BY <1>11, <2>1, <2>2, <2>4, <3>1, Zenon
    <3> QED
      BY <1>6, <2>1, <2>4, <3>1, <3>2 DEF SP!NodeType
  <2>5. CASE i # k /\ i # k - 1
    BY <1>11, <2>1, <2>2, <2>5, Zenon
  <2> QED
    BY <2>3, <2>4, <2>5
<1>14. \A m \in Node : m # n => /\ s_heap'[m] = Free <=> s_heap[m] = Free
                                /\ s_heap'[m] \in SP!NodeType \cup {Free}
  <2> TAKE m \in Node
  <2> SUFFICES ASSUME m # n PROVE /\ s_heap'[m] = Free <=> s_heap[m] = Free
                                  /\ s_heap'[m] \in SP!NodeType \cup {Free}
    OBVIOUS
  <2>1. CASE \E i \in 1 .. Len(c) : m = c[i]
    <3>1. PICK i \in 1 .. Len(c) : m = c[i]
      BY <2>1
    <3>2. s_heap[m] # Free /\ s_heap'[m] \in SP!NodeType
      BY <1>5, <1>13, <3>1
    <3> QED
      BY <3>2, ContactConstants
  <2>2. CASE ~\E i \in 1 .. Len(c) : m = c[i]
    <3>1. m # a /\ m # b
      BY <1>5, <1>9, <2>2, ContactConstants
    <3> QED
      BY <1>5, <1>11, <3>1, Zenon
  <2> QED
    BY <2>1, <2>2
<1>15. s_heap' \in [Node -> SP!NodeType \cup {Free}]
  BY <1>11, <1>12, <1>14, Zenon
<1>16. s_head' = IF k = 1 THEN n ELSE s_head
  BY <1>1, <1>9
<1>17. Whole(s_heap', s_head', With(c, k, n), TRUE)
  <2>1. PICK g, hd2 : g = s_heap' /\ hd2 = s_head'
    BY Zenon
  <2>2. Whole(s_heap, s_head, c, TRUE)
    BY <1>2, <1>5 DEF ContactsInv, Whole
  <2>3. g[n] # Free /\ g[n].next = At(c, k) /\ g[n].prev = At(c, k - 1)
    BY <1>4, <1>8, <1>12, <2>1, ContactConstants
  <2>4. hd2 = IF k = 1 THEN n ELSE s_head
    BY <1>16, <2>1
  <2>5. /\ \A m \in Node : m # n => (g[m] = Free <=> s_heap[m] = Free)
        /\ \A i \in 1 .. Len(c) :
              /\ g[c[i]].next = IF i = k - 1 THEN n ELSE s_heap[c[i]].next
              /\ g[c[i]].prev = IF i = k THEN n ELSE s_heap[c[i]].prev
    BY <1>13, <1>14, <2>1
  <2>6. NULL \notin Node
    BY ContactConstants
  <2>7. PICK back : back = TRUE
    OBVIOUS
  <2>8. Whole(g, hd2, With(c, k, n), back)
    <3>1. Whole(s_heap, s_head, c, back)
      BY <2>2, <2>7, Zenon
    <3>2. back => g[n].prev = At(c, k - 1)
      BY <2>3
    <3>3. \A i \in 1 .. Len(c) :
            /\ g[c[i]].next = IF i = k - 1 THEN n ELSE s_heap[c[i]].next
            /\ back => g[c[i]].prev = IF i = k THEN n ELSE s_heap[c[i]].prev
      BY <2>5
    <3> QED
      BY <1>6, <2>3, <2>4, <2>5, <2>6, <3>1, <3>2, <3>3, WholeWith
  <2> QED
    BY <2>1, <2>7, <2>8, Zenon
<1>18. s_head' \in Node \cup {NULL}
  <2>1. s_head \in Node \cup {NULL}
    BY DEF ContactsInv, SP!TypeOK
  <2> QED
    BY <1>6, <1>16, <2>1
<1>19. k \in 1 .. Len(SP!Chain) + 1 /\ c = SP!Chain
  BY <1>2
<1>20. /\ \A i \in 1 .. Len(c) :
             /\ c[i] # n /\ s_heap'[c[i]].surname = s_heap[c[i]].surname
             /\ s_heap'[c[i]].note = s_heap[c[i]].note
             /\ i < k => s > s_heap[c[i]].surname
       /\ k <= Len(c) => ~(s > s_heap[c[k]].surname)
  BY <1>4, <1>6, <1>13
<1>21. /\ Whole(s_heap', s_head', With(SP!Chain, k, n), TRUE)
       /\ \A i \in 1 .. Len(SP!Chain) :
             /\ SP!Chain[i] # n /\ s_heap'[SP!Chain[i]].surname = s_heap[SP!Chain[i]].surname
             /\ s_heap'[SP!Chain[i]].note = s_heap[SP!Chain[i]].note
             /\ i < k => s > s_heap[SP!Chain[i]].surname
       /\ k <= Len(SP!Chain) => ~(s > s_heap[SP!Chain[k]].surname)
  <2>1. Whole(s_heap', s_head', With(SP!Chain, k, n), TRUE)
    BY <1>2, <1>17, Zenon
  <2>2. ASSUME NEW i \in 1 .. Len(SP!Chain)
        PROVE  /\ SP!Chain[i] # n /\ s_heap'[SP!Chain[i]].surname = s_heap[SP!Chain[i]].surname
               /\ s_heap'[SP!Chain[i]].note = s_heap[SP!Chain[i]].note
               /\ i < k => s > s_heap[SP!Chain[i]].surname
    <3>1. i \in 1 .. Len(c) /\ c[i] = SP!Chain[i]
      BY <1>2
    <3>2. /\ c[i] # n /\ s_heap'[c[i]].surname = s_heap[c[i]].surname
          /\ s_heap'[c[i]].note = s_heap[c[i]].note
          /\ i < k => s > s_heap[c[i]].surname
      BY <1>20, <3>1
    <3> QED
      BY <3>1, <3>2
  <2>3. k <= Len(SP!Chain) => ~(s > s_heap[SP!Chain[k]].surname)
    BY <1>2, <1>20
  <2> QED
    BY <2>1, <2>2, <2>3, Zenon
<1> QED
  BY <1>6, <1>12, <1>15, <1>18, <1>19, <1>21, Zenon DEF Added

\* What taking a contact out does to the list.
Dropped(k, back) ==
    /\ Whole(s_heap', s_head', Without(SP!Chain, k), back)
    /\ s_heap' \in [Node -> SP!NodeType \cup {Free}] /\ s_head' \in Node \cup {NULL}
    /\ \A i \in 1 .. Len(SP!Chain) : i # k =>
          /\ s_heap'[SP!Chain[i]].surname = s_heap[SP!Chain[i]].surname
          /\ s_heap'[SP!Chain[i]].note = s_heap[SP!Chain[i]].note

LEMMA ContactsTake ==
    ASSUME ContactsInv, s_pc # "free", NEW k \in 1 .. Len(SP!Chain),
           s_heap' = SP!Without(SP!Chain[k]),
           s_head' = IF s_heap[SP!Chain[k]].prev = NULL THEN s_heap[SP!Chain[k]].next ELSE s_head
    PROVE  Dropped(k, TRUE)
<1>0. PICK c : c = SP!Chain
  OBVIOUS
<1> PICK b : b = s_heap[c[k]].prev
  OBVIOUS
<1> PICK a : a = s_heap[c[k]].next
  OBVIOUS
<1>1. /\ c \in Seq(Node) /\ Len(c) \in Nat /\ k \in 1 .. Len(c)
      /\ s_heap \in [Node -> SP!NodeType \cup {Free}]
      /\ \A i \in 1 .. Len(c) : /\ c[i] \in Node /\ c[i] # NULL
                                /\ s_heap[c[i]] \in SP!NodeType /\ s_heap[c[i]] # Free
                                /\ s_heap[c[i]].next = At(c, i + 1)
                                /\ s_heap[c[i]].prev = At(c, i - 1)
      /\ \A i, j \in 1 .. Len(c) : c[i] = c[j] => i = j
      /\ s_head = At(c, 1)
  BY <1>0, ContactsFacts
<1>2. b = At(c, k - 1) /\ (b = NULL <=> k = 1)
  <2>1. b = At(c, k - 1)
    BY <1>1
  <2>2. CASE k = 1
    BY <2>1, <2>2 DEF At
  <2>3. CASE k # 1
    <3>1. k - 1 \in 1 .. Len(c)
      BY <1>1, <2>3
    <3> QED
      BY <1>1, <2>1, <2>3, <3>1 DEF At
  <2> QED
    BY <2>1, <2>2, <2>3
<1>3. /\ a = IF k = Len(c) THEN NULL ELSE c[k + 1]
      /\ b = IF k = 1 THEN NULL ELSE c[k - 1]
  <2>1. a = At(c, k + 1)
    BY <1>1
  <2>2. a = IF k = Len(c) THEN NULL ELSE c[k + 1]
    BY <1>1, <2>1 DEF At
  <2>3. b = IF k = 1 THEN NULL ELSE c[k - 1]
    BY <1>1, <1>2 DEF At
  <2> QED
    BY <2>2, <2>3
<1>4. a \in Node \cup {NULL} /\ b \in Node \cup {NULL}
  BY <1>1, <1>3
<1>5. /\ s_heap'[c[k]] = Free
      /\ \A m \in Node : m # c[k] =>
            s_heap'[m] = IF m = b THEN [s_heap[m] EXCEPT !.next = a]
                         ELSE IF m = a THEN [s_heap[m] EXCEPT !.prev = b] ELSE s_heap[m]
      /\ s_heap' = [m \in Node |-> s_heap'[m]]
      /\ s_head' = IF k = 1 THEN a ELSE s_head
  <2>1. a = b => a = NULL
    BY <1>1, <1>3
  <2>2. c[k] # a /\ c[k] # b
    BY <1>1, <1>3
  <2>3. NULL \notin Node
    BY ContactConstants
  <2>4. s_heap' = [m \in Node |-> CASE m = c[k] -> Free
                                    [] m = b -> [s_heap[m] EXCEPT !.next = a]
                                    [] m = a -> [s_heap[m] EXCEPT !.prev = b]
                                    [] OTHER -> s_heap[m]]
    <3>1. s_heap' = SP!Without(c[k])
      BY <1>0
    <3> QED
      BY <3>1 DEF SP!Without
  <2>5. s_head' = IF b = NULL THEN s_heap[c[k]].next ELSE s_head
    BY <1>0
  <2> QED
    BY <1>1, <1>2, <2>1, <2>2, <2>3, <2>4, <2>5
<1>6. \A i \in 1 .. Len(c) : i # k =>
         s_heap'[c[i]] = IF i = k - 1 THEN [s_heap[c[i]] EXCEPT !.next = a]
                         ELSE IF i = k + 1 THEN [s_heap[c[i]] EXCEPT !.prev = b] ELSE s_heap[c[i]]
  <2> TAKE i \in 1 .. Len(c)
  <2>1. c[i] = b <=> i = k - 1
    BY <1>1, <1>3
  <2>2. c[i] = a <=> i = k + 1
    BY <1>1, <1>3
  <2>3. c[i] \in Node /\ (i # k => c[i] # c[k])
    BY <1>1
  <2> QED
    BY <1>5, <2>1, <2>2, <2>3, Zenon
<1>7. \A i \in 1 .. Len(c) : i # k =>
          /\ s_heap'[c[i]] \in SP!NodeType
          /\ s_heap'[c[i]].surname = s_heap[c[i]].surname
          /\ s_heap'[c[i]].note = s_heap[c[i]].note
          /\ s_heap'[c[i]].next = IF i = k - 1 THEN a ELSE s_heap[c[i]].next
          /\ s_heap'[c[i]].prev = IF i = k + 1 THEN b ELSE s_heap[c[i]].prev
  <2> TAKE i \in 1 .. Len(c)
  <2> HAVE i # k
  <2> i \in Nat /\ k \in Nat
    BY <1>1
  <2>1. s_heap[c[i]] \in SP!NodeType
    BY <1>1
  <2>2. CASE i = k - 1
    <3>1. s_heap'[c[i]] = [s_heap[c[i]] EXCEPT !.next = a]
      BY <1>6, <2>2, Zenon
    <3> QED
      BY <1>4, <2>1, <2>2, <3>1 DEF SP!NodeType
  <2>3. CASE i = k + 1
    <3>1. i # k - 1
      BY <2>3
    <3>2. s_heap'[c[i]] = [s_heap[c[i]] EXCEPT !.prev = b]
      BY <1>6, <2>3, <3>1, Zenon
    <3> QED
      BY <1>4, <2>1, <2>3, <3>1, <3>2, Zenon DEF SP!NodeType
  <2>4. CASE i # k - 1 /\ i # k + 1
    BY <1>6, <2>1, <2>4, Zenon
  <2> QED
    BY <2>2, <2>3, <2>4
<1>8. \A m \in Node : /\ s_heap'[m] = Free <=> m = c[k] \/ s_heap[m] = Free
                      /\ s_heap'[m] \in SP!NodeType \cup {Free}
  <2> TAKE m \in Node
  <2>1. CASE m = c[k]
    BY <1>5, <2>1
  <2>2. CASE m # c[k] /\ \E i \in 1 .. Len(c) : m = c[i]
    <3>1. PICK i \in 1 .. Len(c) : m = c[i]
      BY <2>2
    <3>2. s_heap[m] # Free /\ s_heap'[m] \in SP!NodeType
      BY <1>1, <1>7, <2>2, <3>1
    <3> QED
      BY <2>2, <3>2, ContactConstants
  <2>3. CASE ~\E i \in 1 .. Len(c) : m = c[i]
    <3>1. m # a /\ m # b /\ m # c[k]
      BY <1>1, <1>3, <2>3, ContactConstants
    <3>2. s_heap'[m] = s_heap[m]
      BY <1>5, <3>1, Zenon
    <3>3. s_heap[m] \in SP!NodeType \cup {Free}
      BY <1>1
    <3> QED
      BY <3>1, <3>2, <3>3
  <2> QED
    BY <2>1, <2>2, <2>3
<1>9. s_heap' \in [Node -> SP!NodeType \cup {Free}]
  BY <1>5, <1>8
<1>10. Whole(s_heap', s_head', Without(c, k), TRUE)
  <2>1. PICK g, hd2 : g = s_heap' /\ hd2 = s_head'
    OBVIOUS
  <2>2. Whole(s_heap, s_head, c, TRUE)
    BY <1>0 DEF ContactsInv, Whole
  <2>3. hd2 = IF k = 1 THEN s_heap[c[k]].next ELSE s_head
    BY <1>5, <2>1
  <2>4. b = s_heap[c[k]].prev
    OBVIOUS
  <2>5. /\ \A m \in Node : g[m] = Free <=> m = c[k] \/ s_heap[m] = Free
        /\ \A i \in 1 .. Len(c) : i # k =>
              /\ g[c[i]].next = IF i = k - 1 THEN s_heap[c[k]].next ELSE s_heap[c[i]].next
              /\ g[c[i]].prev = IF i = k + 1 THEN s_heap[c[k]].prev ELSE s_heap[c[i]].prev
    BY <1>7, <1>8, <2>1, <2>4
  <2>6. NULL \notin Node
    BY ContactConstants
  <2>7. PICK back : back = TRUE
    OBVIOUS
  <2>8. Whole(g, hd2, Without(c, k), back)
    <3>1. Whole(s_heap, s_head, c, back)
      BY <2>2, <2>7, Zenon
    <3>2. PICK j \in 1 .. Len(c) : j = k
      BY <1>1
    <3>3. \A m \in Node : g[m] = Free <=> m = c[j] \/ s_heap[m] = Free
      BY <2>5, <3>2
    <3>4. \A i \in 1 .. Len(c) : i # j =>
            /\ g[c[i]].next = IF i = j - 1 THEN s_heap[c[j]].next ELSE s_heap[c[i]].next
            /\ back => g[c[i]].prev = IF i = j + 1 THEN s_heap[c[j]].prev ELSE s_heap[c[i]].prev
      BY <2>5, <3>2
    <3>5. hd2 = IF j = 1 THEN s_heap[c[j]].next ELSE s_head
      BY <2>3, <3>2
    <3>6. Whole(g, hd2, Without(c, j), back)
      BY <2>6, <3>1, <3>3, <3>4, <3>5, WholeWithout
    <3> QED
      BY <3>2, <3>6
  <2> QED
    BY <2>1, <2>7, <2>8, Zenon
<1>11. s_head' \in Node \cup {NULL}
  <2>1. s_head \in Node \cup {NULL}
    BY DEF ContactsInv, SP!TypeOK
  <2> QED
    BY <1>4, <1>5, <2>1
<1>12. \A i \in 1 .. Len(c) : i # k =>
          /\ s_heap'[c[i]].surname = s_heap[c[i]].surname
          /\ s_heap'[c[i]].note = s_heap[c[i]].note
  BY <1>7
<1>13. /\ Whole(s_heap', s_head', Without(SP!Chain, k), TRUE)
       /\ \A i \in 1 .. Len(SP!Chain) : i # k =>
             /\ s_heap'[SP!Chain[i]].surname = s_heap[SP!Chain[i]].surname
             /\ s_heap'[SP!Chain[i]].note = s_heap[SP!Chain[i]].note
  BY <1>0, <1>10, <1>12, Zenon
<1> QED
  BY <1>9, <1>11, <1>13, Zenon DEF Dropped

\* freePhonebook takes the first contact out; the next one then points back to no node.
LEMMA ContactsFree ==
    ASSUME ContactsInv, s_head # NULL, s_heap' = [s_heap EXCEPT ![s_head] = Free],
           s_head' = s_heap[s_head].next
    PROVE  1 \in 1 .. Len(SP!Chain) /\ Dropped(1, FALSE)
<1>0. PICK c : c = SP!Chain
  OBVIOUS
<1>1. /\ c \in Seq(Node) /\ Len(c) \in Nat
      /\ s_heap \in [Node -> SP!NodeType \cup {Free}]
      /\ \A i \in 1 .. Len(c) : /\ c[i] \in Node /\ s_heap[c[i]] \in SP!NodeType
                                /\ s_heap[c[i]] # Free
      /\ \A i, j \in 1 .. Len(c) : c[i] = c[j] => i = j
      /\ s_head = At(c, 1)
  BY <1>0, ContactsFacts
<1>2. 1 \in 1 .. Len(c) /\ s_head = c[1]
  BY <1>1 DEF At
<1>3. PICK k \in 1 .. Len(c) : k = 1
  BY <1>2
<1>4. \A m \in Node : s_heap'[m] = IF m = c[k] THEN Free ELSE s_heap[m]
  BY <1>1, <1>2, <1>3
<1>5. s_heap' \in [Node -> SP!NodeType \cup {Free}]
  BY <1>1, Zenon
<1>6. s_head' \in Node \cup {NULL}
  BY <1>1, <1>2 DEF SP!NodeType
<1>7. \A i \in 1 .. Len(c) : i # k => s_heap'[c[i]] = s_heap[c[i]]
  BY <1>1, <1>4
<1>8. Whole(s_heap', s_head', Without(c, k), FALSE)
  <2>1. PICK g, hd2 : g = s_heap' /\ hd2 = s_head'
    OBVIOUS
  <2>2. PICK back, back2 : back = (s_pc # "free") /\ back2 = FALSE
    BY Zenon
  <2>3. Whole(s_heap, s_head, c, back)
    BY <1>0, <2>2, Zenon DEF ContactsInv
  <2>4. \A m \in Node : g[m] = Free <=> m = c[k] \/ s_heap[m] = Free
    BY <1>4, <2>1
  <2>5. \A i \in 1 .. Len(c) : i # k =>
          /\ g[c[i]].next = IF i = k - 1 THEN s_heap[c[k]].next ELSE s_heap[c[i]].next
          /\ back2 => g[c[i]].prev = IF i = k + 1 THEN s_heap[c[k]].prev ELSE s_heap[c[i]].prev
    <3> TAKE i \in 1 .. Len(c)
    <3> HAVE i # k
    <3>1. i # k - 1 /\ ~back2
      BY <1>3, <2>2
    <3> QED
      BY <1>7, <2>1, <3>1
  <2>6. hd2 = IF k = 1 THEN s_heap[c[k]].next ELSE s_head
    BY <1>2, <1>3, <2>1
  <2>7. NULL \notin Node /\ (back2 => back)
    BY <2>2, ContactConstants
  <2>8. Whole(g, hd2, Without(c, k), back2)
    BY <2>3, <2>4, <2>5, <2>6, <2>7, WholeWithout, Zenon
  <2> QED
    BY <2>1, <2>2, <2>8, Zenon
<1>9. /\ Whole(s_heap', s_head', Without(SP!Chain, k), FALSE)
      /\ \A i \in 1 .. Len(SP!Chain) : i # k =>
            /\ s_heap'[SP!Chain[i]].surname = s_heap[SP!Chain[i]].surname
            /\ s_heap'[SP!Chain[i]].note = s_heap[SP!Chain[i]].note
  BY <1>0, <1>7, <1>8, Zenon
<1>10. Dropped(k, FALSE)
  BY <1>5, <1>6, <1>9, Zenon DEF Dropped
<1> QED
  BY <1>0, <1>2, <1>3, <1>10, Zenon

-----------------------------------------------------------------------------
(* The contacts as the abstract book has them.                               *)

Contacts == [i \in DOMAIN SP!Chain |-> [surname |-> s_heap[SP!Chain[i]].surname,
                                        note |-> s_heap[SP!Chain[i]].note]]

\* The contacts of a memory h and a list c of its nodes.
ContactsOf(h, c) == [i \in 1 .. Len(c) |-> [surname |-> h[c[i]].surname, note |-> h[c[i]].note]]

LEMMA ContactsOfChain == ASSUME ContactsInv PROVE Contacts = ContactsOf(s_heap, SP!Chain)
<1>1. DOMAIN SP!Chain = 1 .. Len(SP!Chain)
  BY ContactsFacts, LenProperties
<1> QED
  BY <1>1 DEF Contacts, ContactsOf

LEMMA ContactsOfSeq ==
    ASSUME NEW h, NEW c \in Seq(Node),
           \A i \in 1 .. Len(c) : h[c[i]].surname \in Surname /\ h[c[i]].note \in Text
    PROVE  /\ ContactsOf(h, c) \in Seq(SP!SB!Contact) /\ Len(ContactsOf(h, c)) = Len(c)
           /\ \A i \in 1 .. Len(c) :
                 /\ ContactsOf(h, c)[i] = [surname |-> h[c[i]].surname, note |-> h[c[i]].note]
                 /\ ContactsOf(h, c)[i].surname = h[c[i]].surname
<1> DEFINE d == ContactsOf(h, c)
<1>1. Len(c) \in Nat
  BY LenProperties
<1>2. d = [i \in 1 .. Len(c) |-> [surname |-> h[c[i]].surname, note |-> h[c[i]].note]]
  BY DEF ContactsOf
<1> HIDE DEF d
<1>3. \A i \in 1 .. Len(c) : d[i] = [surname |-> h[c[i]].surname, note |-> h[c[i]].note]
  BY <1>2
<1>4. \A i \in 1 .. Len(c) : d[i] \in SP!SB!Contact /\ d[i].surname = h[c[i]].surname
  <2> TAKE i \in 1 .. Len(c)
  <2>1. h[c[i]].surname \in Surname /\ h[c[i]].note \in Text
    OBVIOUS
  <2>2. PICK u \in Surname, v \in Text : u = h[c[i]].surname /\ v = h[c[i]].note
    BY <2>1
  <2>3. d[i] = [surname |-> u, note |-> v]
    BY <1>3, <2>2, Zenon
  <2> QED
    BY <2>2, <2>3 DEF SP!SB!Contact
<1>5. d \in [1 .. Len(c) -> SP!SB!Contact]
  BY <1>2, <1>4
<1>6. d \in Seq(SP!SB!Contact) /\ Len(d) = Len(c)
  BY <1>1, <1>5, LenProperties
<1> QED
  BY <1>3, <1>4, <1>6 DEF d

LEMMA ContactsBook ==
    ASSUME ContactsInv
    PROVE  /\ Contacts \in Seq(SP!SB!Contact) /\ Len(Contacts) = Len(SP!Chain)
           /\ \A i \in 1 .. Len(SP!Chain) :
                 /\ s_heap[SP!Chain[i]].surname \in Surname /\ s_heap[SP!Chain[i]].note \in Text
                 /\ Contacts[i] = [surname |-> s_heap[SP!Chain[i]].surname,
                                   note |-> s_heap[SP!Chain[i]].note]
                 /\ Contacts[i].surname = s_heap[SP!Chain[i]].surname
<1>0. PICK c : c = SP!Chain
  OBVIOUS
<1>1. c \in Seq(Node) /\ \A i \in 1 .. Len(c) : s_heap[c[i]] \in SP!NodeType
  BY <1>0, ContactsFacts
<1>2. \A i \in 1 .. Len(c) : s_heap[c[i]].surname \in Surname /\ s_heap[c[i]].note \in Text
  BY <1>1 DEF SP!NodeType
<1>3. Contacts = ContactsOf(s_heap, c)
  BY <1>0, ContactsOfChain
<1> QED
  BY <1>0, <1>1, <1>2, <1>3, ContactsOfSeq

\* The list after a step.
LEMMA ContactsNext ==
    ASSUME NEW d, NEW back, Whole(s_heap', s_head', d, back)
    PROVE  SP!Chain' = d /\ Contacts' = ContactsOf(s_heap', d)
<1>1. SP!Chain' = d
  BY ContactsChainNext
<1>2. d \in Seq(Node)
  BY DEF Whole
<1>3. DOMAIN d = 1 .. Len(d)
  BY <1>2, LenProperties
<1> QED
  BY <1>1, <1>3 DEF Contacts, ContactsOf

\* What addMenu does is an insertion in front of the first contact not before the new one.
LEMMA ContactsAdded ==
    ASSUME ContactsInv, NEW s \in Surname, NEW t \in Text, Added(s, t),
           s_call' = [op |-> "add", contact |-> [surname |-> s, note |-> t]]
    PROVE  /\ Whole(s_heap', s_head', SP!Chain', TRUE)
           /\ s_heap' \in [Node -> SP!NodeType \cup {Free}] /\ s_head' \in Node \cup {NULL}
           /\ SP!SB!Next
<1>0. PICK c, e : c = SP!Chain /\ e = [surname |-> s, note |-> t]
  OBVIOUS
<1>1. PICK n \in Node, k \in 1 .. Len(c) + 1 :
        /\ Whole(s_heap', s_head', With(c, k, n), TRUE)
        /\ s_heap' \in [Node -> SP!NodeType \cup {Free}] /\ s_head' \in Node \cup {NULL}
        /\ s_heap'[n].surname = s /\ s_heap'[n].note = t
        /\ \A i \in 1 .. Len(c) :
              /\ c[i] # n /\ s_heap'[c[i]].surname = s_heap[c[i]].surname
              /\ s_heap'[c[i]].note = s_heap[c[i]].note
              /\ i < k => s > s_heap[c[i]].surname
        /\ k <= Len(c) => ~(s > s_heap[c[k]].surname)
  <2>1. PICK n \in Node, k \in 1 .. Len(SP!Chain) + 1 :
          /\ Whole(s_heap', s_head', With(SP!Chain, k, n), TRUE)
          /\ s_heap' \in [Node -> SP!NodeType \cup {Free}] /\ s_head' \in Node \cup {NULL}
          /\ s_heap'[n].surname = s /\ s_heap'[n].note = t
          /\ \A i \in 1 .. Len(SP!Chain) :
                /\ SP!Chain[i] # n /\ s_heap'[SP!Chain[i]].surname = s_heap[SP!Chain[i]].surname
                /\ s_heap'[SP!Chain[i]].note = s_heap[SP!Chain[i]].note
                /\ i < k => s > s_heap[SP!Chain[i]].surname
          /\ k <= Len(SP!Chain) => ~(s > s_heap[SP!Chain[k]].surname)
    BY Zenon DEF Added
  <2>2. SP!Chain = c
    BY <1>0
  <2> QED
    BY <2>1, <2>2, Zenon
<1>2. /\ c \in Seq(Node) /\ Len(c) \in Nat
      /\ Contacts \in Seq(SP!SB!Contact) /\ Len(Contacts) = Len(c)
      /\ \A i \in 1 .. Len(c) :
            /\ s_heap[c[i]].surname \in Surname /\ s_heap[c[i]].note \in Text
            /\ Contacts[i] = [surname |-> s_heap[c[i]].surname, note |-> s_heap[c[i]].note]
            /\ Contacts[i].surname = s_heap[c[i]].surname
  BY <1>0, ContactsBook, ContactsFacts
<1>3. PICK d : d = With(c, k, n)
  OBVIOUS
<1>4. /\ d \in Seq(Node) /\ Len(d) = Len(c) + 1
      /\ \A i \in 1 .. Len(c) + 1 : d[i] = IF i < k THEN c[i] ELSE IF i = k THEN n ELSE c[i - 1]
  <2>1. d = [i \in 1 .. Len(c) + 1 |-> IF i < k THEN c[i] ELSE IF i = k THEN n ELSE c[i - 1]]
    BY <1>3 DEF With
  <2>2. d \in Seq(Node)
    BY <1>1, <1>3 DEF Whole
  <2>3. DOMAIN d = 1 .. Len(d) /\ DOMAIN d = 1 .. Len(c) + 1 /\ Len(d) \in Nat
    BY <2>1, <2>2, LenProperties
  <2> QED
    BY <1>2, <2>1, <2>2, <2>3
<1>5. Whole(s_heap', s_head', d, TRUE)
  BY <1>1, <1>3, Zenon
<1>6. SP!Chain' = d /\ Contacts' = ContactsOf(s_heap', d)
  BY <1>5, ContactsNext, Zenon
<1>7. e \in SP!SB!Contact
  BY <1>0 DEF SP!SB!Contact
<1>8. PICK f : f = RE!InsertAt(Contacts, k, e)
  OBVIOUS
<1>9. /\ f \in Seq(SP!SB!Contact) /\ Len(f) = Len(c) + 1
      /\ \A i \in 1 .. Len(c) + 1 :
            f[i] = IF i < k THEN Contacts[i] ELSE IF i = k THEN e ELSE Contacts[i - 1]
  <2>1. k \in 1 .. Len(Contacts) + 1
    BY <1>2
  <2>2. /\ f \in Seq(SP!SB!Contact) /\ Len(f) = Len(Contacts) + 1
        /\ \A i \in 1 .. Len(Contacts) + 1 :
              f[i] = IF i < k THEN Contacts[i] ELSE IF i = k THEN e ELSE Contacts[i - 1]
    <3>1. PICK S : S = SP!SB!Contact
      OBVIOUS
    <3>2. PICK x \in Seq(S), y \in S : x = Contacts /\ y = e
      BY <1>2, <1>7, <3>1
    <3>3. PICK j \in 1 .. Len(x) + 1 : j = k
      BY <2>1, <3>2
    <3>4. RE!InsertAt(x, j, y) \in Seq(S)
      BY InsertElements
    <3>5. Len(RE!InsertAt(x, j, y)) = Len(x) + 1
      BY InsertElements
    <3>6. \A i \in 1 .. Len(x) + 1 :
             RE!InsertAt(x, j, y)[i] = IF i < j THEN x[i] ELSE IF i = j THEN y ELSE x[i - 1]
      BY InsertElements
    <3>7. f = RE!InsertAt(x, j, y)
      BY <1>8, <3>2, <3>3
    <3> QED
      BY <3>1, <3>2, <3>3, <3>4, <3>5, <3>6, <3>7
  <2> QED
    BY <1>2, <2>2
<1>10. \A i \in 1 .. Len(d) :
          /\ s_heap'[d[i]].surname \in Surname /\ s_heap'[d[i]].note \in Text
          /\ f[i] = [surname |-> s_heap'[d[i]].surname, note |-> s_heap'[d[i]].note]
  <2> TAKE i \in 1 .. Len(d)
  <2>0. i \in 1 .. Len(c) + 1 /\ i \in Nat /\ k \in Nat
    BY <1>2, <1>4
  <2>1. CASE i = k
    <3>1. d[i] = n /\ f[i] = e
      BY <1>4, <1>9, <2>0, <2>1
    <3> QED
      BY <1>0, <1>1, <3>1
  <2>2. CASE i # k
    <3>1. PICK j \in 1 .. Len(c) : j = IF i < k THEN i ELSE i - 1
      BY <1>2, <2>0, <2>2
    <3>2. d[i] = c[j] /\ f[i] = Contacts[j]
      BY <1>4, <1>9, <2>0, <2>2, <3>1
    <3>3. s_heap'[c[j]].surname = s_heap[c[j]].surname /\ s_heap'[c[j]].note = s_heap[c[j]].note
      BY <1>1
    <3> QED
      BY <1>2, <3>2, <3>3
  <2> QED
    BY <2>1, <2>2
<1>11. Contacts' = f
  <2>1. PICK h : h = s_heap'
    OBVIOUS
  <2>2. /\ ContactsOf(h, d) \in Seq(SP!SB!Contact) /\ Len(ContactsOf(h, d)) = Len(d)
        /\ \A i \in 1 .. Len(d) :
              ContactsOf(h, d)[i] = [surname |-> h[d[i]].surname, note |-> h[d[i]].note]
    BY <1>4, <1>10, <2>1, ContactsOfSeq, ZenonT(40)
  <2>3. Len(f) = Len(d) /\ \A i \in 1 .. Len(d) : ContactsOf(h, d)[i] = f[i]
    BY <1>4, <1>9, <1>10, <2>1, <2>2, Zenon
  <2>4. ContactsOf(h, d) = f
    BY <1>9, <2>2, <2>3, SeqEqual
  <2> QED
    BY <1>6, <2>1, <2>4
<1>12. SP!SB!Add(e)
  <2>1. \A j \in 1 .. k - 1 : Contacts[j].surname < e.surname
    <3> TAKE j \in 1 .. k - 1
    <3>1. j \in 1 .. Len(c) /\ j < k
      BY <1>2
    <3>2. s > s_heap[c[j]].surname /\ Contacts[j].surname = s_heap[c[j]].surname
      BY <1>1, <1>2, <3>1, Zenon
    <3>3. e.surname = s
      BY <1>0
    <3>4. s \in Int /\ s_heap[c[j]].surname \in Int
      BY <1>2, <3>1, ContactConstants, Zenon
    <3> QED
      BY <3>2, <3>3, <3>4
  <2>2. k <= Len(Contacts) => Contacts[k].surname >= e.surname
    <3> SUFFICES ASSUME k <= Len(c) PROVE Contacts[k].surname >= e.surname
      BY <1>2
    <3>1. k \in 1 .. Len(c)
      BY <1>2
    <3>2. ~(s > s_heap[c[k]].surname) /\ Contacts[k].surname = s_heap[c[k]].surname
      BY <1>1, <1>2, <3>1, Zenon
    <3>3. e.surname = s
      BY <1>0
    <3>4. s \in Int /\ s_heap[c[k]].surname \in Int
      BY <1>2, <3>1, ContactConstants, Zenon
    <3> QED
      BY <3>2, <3>3, <3>4
  <2>3. k \in 1 .. Len(Contacts) + 1
    BY <1>2
  <2>4. Contacts' = RE!InsertAt(Contacts, k, e)
    BY <1>8, <1>11
  <2>5. \E i \in 1 .. Len(Contacts) + 1 :
           /\ \A j \in 1 .. i - 1 : Contacts[j].surname < e.surname
           /\ i <= Len(Contacts) => Contacts[i].surname >= e.surname
           /\ Contacts' = RE!InsertAt(Contacts, i, e)
    BY <2>1, <2>2, <2>3, <2>4
  <2>6. s_call' = [op |-> "add", contact |-> e]
    BY <1>0
  <2> QED
    BY <2>5, <2>6, Zenon DEF SP!SB!Add, RE!InsertAt, Contacts
<1>13. SP!SB!Next
  BY <1>7, <1>12 DEF SP!SB!Next
<1>14. Whole(s_heap', s_head', SP!Chain', TRUE)
  BY <1>5, <1>6, Zenon
<1> QED
  BY <1>1, <1>13, <1>14, Zenon

\* Taking the contact at place k out takes it out of the book.
LEMMA ContactsDropped ==
    ASSUME ContactsInv, NEW k \in 1 .. Len(SP!Chain), NEW back, Dropped(k, back)
    PROVE  /\ Whole(s_heap', s_head', SP!Chain', back)
           /\ s_heap' \in [Node -> SP!NodeType \cup {Free}] /\ s_head' \in Node \cup {NULL}
           /\ Contacts' = RE!RemoveAt(Contacts, k)
<1>0. PICK c : c = SP!Chain
  OBVIOUS
<1>1. /\ k \in 1 .. Len(c) /\ Whole(s_heap', s_head', Without(c, k), back)
      /\ s_heap' \in [Node -> SP!NodeType \cup {Free}] /\ s_head' \in Node \cup {NULL}
      /\ \A i \in 1 .. Len(c) : i # k =>
            /\ s_heap'[c[i]].surname = s_heap[c[i]].surname
            /\ s_heap'[c[i]].note = s_heap[c[i]].note
  BY <1>0, Zenon DEF Dropped
<1>2. /\ c \in Seq(Node) /\ Len(c) \in Nat
      /\ Contacts \in Seq(SP!SB!Contact) /\ Len(Contacts) = Len(c)
      /\ \A i \in 1 .. Len(c) :
            /\ s_heap[c[i]].surname \in Surname /\ s_heap[c[i]].note \in Text
            /\ Contacts[i] = [surname |-> s_heap[c[i]].surname, note |-> s_heap[c[i]].note]
  BY <1>0, ContactsBook, ContactsFacts
<1>3. PICK d : d = Without(c, k)
  OBVIOUS
<1>4. /\ d \in Seq(Node) /\ Len(d) = Len(c) - 1
      /\ \A i \in 1 .. Len(c) - 1 : d[i] = c[IF i < k THEN i ELSE i + 1]
  <2>1. d = [i \in 1 .. Len(c) - 1 |-> IF i < k THEN c[i] ELSE c[i + 1]]
    BY <1>3 DEF Without
  <2>2. d \in Seq(Node)
    BY <1>1, <1>3 DEF Whole
  <2>3. DOMAIN d = 1 .. Len(d) /\ DOMAIN d = 1 .. Len(c) - 1 /\ Len(d) \in Nat
    BY <2>1, <2>2, LenProperties, Zenon
  <2>4. Len(d) = Len(c) - 1
    BY <1>1, <1>2, <2>3
  <2> QED
    BY <1>2, <2>1, <2>2, <2>4, Zenon
<1>5. Whole(s_heap', s_head', d, back)
  BY <1>1, <1>3
<1>6. SP!Chain' = d /\ Contacts' = ContactsOf(s_heap', d)
  BY <1>5, ContactsNext
<1>8. PICK f : f = RE!RemoveAt(Contacts, k)
  OBVIOUS
<1>9. /\ f \in Seq(SP!SB!Contact) /\ Len(f) = Len(c) - 1
      /\ \A i \in 1 .. Len(c) - 1 : f[i] = Contacts[IF i < k THEN i ELSE i + 1]
  <2>1. DOMAIN Contacts = 1 .. Len(Contacts)
    BY <1>2, LenProperties
  <2>2. k \in DOMAIN Contacts
    BY <1>1, <1>2, <2>1
  <2>3. f = RE!RemoveAt(Contacts, k)
    BY <1>8
  <2>4. /\ f \in Seq(SP!SB!Contact) /\ Len(f) = Len(Contacts) - 1
        /\ \A i \in 1 .. Len(Contacts) - 1 : f[i] = Contacts[IF i < k THEN i ELSE i + 1]
    BY <1>2, <2>2, <2>3, RemoveAtElements, Zenon
  <2> QED
    BY <1>2, <2>4
<1>10. \A i \in 1 .. Len(d) :
          /\ s_heap'[d[i]].surname \in Surname /\ s_heap'[d[i]].note \in Text
          /\ f[i] = [surname |-> s_heap'[d[i]].surname, note |-> s_heap'[d[i]].note]
  <2> TAKE i \in 1 .. Len(d)
  <2>1. i \in 1 .. Len(c) - 1 /\ i \in Nat
    BY <1>2, <1>4
  <2>2. PICK j \in 1 .. Len(c) : j = (IF i < k THEN i ELSE i + 1) /\ j # k
    BY <1>1, <1>2, <2>1
  <2>3. d[i] = c[j] /\ f[i] = Contacts[j]
    BY <1>4, <1>9, <2>1, <2>2, Zenon
  <2>4. s_heap'[c[j]].surname = s_heap[c[j]].surname /\ s_heap'[c[j]].note = s_heap[c[j]].note
    BY <1>1, <2>2
  <2> QED
    BY <1>2, <2>3, <2>4
<1>11. Contacts' = f
  <2>1. PICK h : h = s_heap'
    OBVIOUS
  <2>2. /\ ContactsOf(h, d) \in Seq(SP!SB!Contact) /\ Len(ContactsOf(h, d)) = Len(d)
        /\ \A i \in 1 .. Len(d) :
              ContactsOf(h, d)[i] = [surname |-> h[d[i]].surname, note |-> h[d[i]].note]
    BY <1>4, <1>10, <2>1, ContactsOfSeq, Zenon
  <2>3. Len(f) = Len(d) /\ \A i \in 1 .. Len(d) : ContactsOf(h, d)[i] = f[i]
    BY <1>4, <1>9, <1>10, <2>1, <2>2, Zenon
  <2>4. ContactsOf(h, d) = f
    BY <1>9, <2>2, <2>3, SeqEqual
  <2> QED
    BY <1>6, <2>1, <2>4
<1>12. Whole(s_heap', s_head', SP!Chain', back)
  BY <1>5, <1>6
<1> QED
  BY <1>1, <1>8, <1>11, <1>12

-----------------------------------------------------------------------------
(* The steps of the phone book.                                              *)

ContactCalls ==
    [op : {"none", "refused", "edit"}]
        \cup [op : {"add"}, contact : [surname : Surname, note : Text]]
        \cup [op : {"delete"}, id : -1 .. Cardinality(Node)]

\* What a step of the phone book does.
ContactsStepOK ==
    ContactsInv' /\ (SP!SB!Next \/ UNCHANGED SP!SB!vars)

LEMMA ContactsInvNext ==
    ASSUME ContactsInv,
           s_heap' \in [Node -> SP!NodeType \cup {Free}], s_head' \in Node \cup {NULL},
           Whole(s_heap', s_head', SP!Chain', s_pc' # "free"),
           s_pc' = "edit" => s_head' # NULL, s_call' \in ContactCalls,
           s_pc' \in {"menu", "edit", "free", "ended", "stuck", "undefined"}
    PROVE  ContactsInv'
BY ContactConstants DEF ContactsInv, SP!TypeOK, SP!NodeType, ContactCalls

LEMMA ContactsTypes ==
    ASSUME ContactsInv
    PROVE  /\ s_heap \in [Node -> SP!NodeType \cup {Free}] /\ s_head \in Node \cup {NULL}
           /\ s_call \in ContactCalls
           /\ s_pc \in {"menu", "edit", "free", "ended", "stuck", "undefined"}
BY ContactConstants DEF ContactsInv, SP!TypeOK, ContactCalls

\* A step that leaves the list alone.
LEMMA ContactsSame ==
    ASSUME ContactsInv, UNCHANGED <<s_heap, s_head>>
    PROVE  /\ s_heap' \in [Node -> SP!NodeType \cup {Free}] /\ s_head' \in Node \cup {NULL}
           /\ Whole(s_heap', s_head', SP!Chain', s_pc # "free") /\ Contacts' = Contacts
<1>1. s_heap' = s_heap /\ s_head' = s_head
  OBVIOUS
<1>2. Whole(s_heap, s_head, SP!Chain, s_pc # "free")
  BY DEF ContactsInv
<1>3. PICK c, back : c = SP!Chain /\ back = (s_pc # "free")
  OBVIOUS
<1>4. Whole(s_heap, s_head, c, back)
  BY <1>2, <1>3, Zenon
<1>5. Whole(s_heap', s_head', c, back)
  BY <1>1, <1>4
<1>6. SP!Chain' = c /\ Contacts' = ContactsOf(s_heap', c)
  BY <1>5, ContactsNext
<1>7. Contacts = ContactsOf(s_heap, c)
  BY <1>3, ContactsOfChain
<1>8. Contacts' = Contacts
  BY <1>1, <1>6, <1>7
<1>9. Whole(s_heap', s_head', SP!Chain', s_pc # "free")
  BY <1>3, <1>5, <1>6, Zenon
<1> QED
  BY <1>1, <1>8, <1>9, ContactsTypes

\* A list that can be walked back can be walked.
LEMMA WholeWeaker ==
    ASSUME NEW h, NEW hd, NEW c, NEW b1, NEW b2, b2 => b1, Whole(h, hd, c, b1)
    PROVE  Whole(h, hd, c, b2)
BY DEF Whole

\* A step that changes no more than where the program is.
LEMMA ContactsQuiet ==
    ASSUME ContactsInv, UNCHANGED <<s_heap, s_head, s_call>>,
           s_pc' \in {"menu", "edit", "free", "ended", "stuck", "undefined"},
           s_pc # "free" \/ s_pc' = "free" \/ s_head = NULL,
           s_pc' = "edit" => s_head # NULL
    PROVE  ContactsStepOK
<1>1. /\ s_heap' \in [Node -> SP!NodeType \cup {Free}] /\ s_head' \in Node \cup {NULL}
      /\ Whole(s_heap', s_head', SP!Chain', s_pc # "free") /\ Contacts' = Contacts
  BY ContactsSame
<1>2. s_head' = s_head /\ s_call' = s_call /\ s_call' \in ContactCalls
  BY ContactsTypes
<1>3. Whole(s_heap', s_head', SP!Chain', s_pc' # "free")
  <2>1. PICK g, c, hd : g = s_heap' /\ c = SP!Chain' /\ hd = s_head'
    OBVIOUS
  <2>2. PICK b1, b2 : b1 = (s_pc # "free") /\ b2 = (s_pc' # "free")
    OBVIOUS
  <2>3. Whole(g, hd, c, b1)
    BY <1>1, <2>1, <2>2, Zenon
  <2>4. CASE s_pc # "free" \/ s_pc' = "free"
    <3>1. b2 => b1
      BY <2>2, <2>4, Zenon
    <3>2. Whole(g, hd, c, b2)
      BY <2>3, <3>1, WholeWeaker
    <3> QED
      BY <2>1, <2>2, <3>2, Zenon
  <2>5. CASE s_head = NULL
    <3>1. hd = NULL /\ c \in Seq(Node) /\ hd = At(c, 1)
      BY <1>2, <2>1, <2>3, <2>5, Zenon DEF Whole
    <3>2. \A i \in 1 .. Len(c) : FALSE
      <4>1. Len(c) \in Nat /\ \A i \in 1 .. Len(c) : c[i] \in Node
        BY <3>1, LenProperties, ElementOfSeq
      <4>2. ~(1 \in 1 .. Len(c))
        BY <3>1, <4>1, ContactConstants DEF At
      <4> QED
        BY <4>1, <4>2
    <3>3. Whole(g, hd, c, b2)
      BY <2>3, <3>2 DEF Whole
    <3> QED
      BY <2>1, <2>2, <3>3, Zenon
  <2> QED
    BY <2>4, <2>5
<1>4. ContactsInv'
  BY <1>1, <1>2, <1>3, ContactsInvNext
<1>5. UNCHANGED SP!SB!vars
  BY <1>1, <1>2 DEF SP!SB!vars, Contacts
<1> QED
  BY <1>4, <1>5 DEF ContactsStepOK

LEMMA ContactsAddStep ==
    ASSUME ContactsInv, NEW s \in Surname, NEW t \in Text, SP!addMenu(s, t)
    PROVE  ContactsStepOK
<1>1. s_pc = "menu" /\ s_pc' = "menu"
  BY DEF SP!addMenu
<1>2. CASE s_call' = [op |-> "refused"] /\ UNCHANGED <<s_heap, s_head>>
  <2>1. /\ s_heap' \in [Node -> SP!NodeType \cup {Free}] /\ s_head' \in Node \cup {NULL}
        /\ Whole(s_heap', s_head', SP!Chain', s_pc # "free") /\ Contacts' = Contacts
    BY <1>2, ContactsSame
  <2>2. Whole(s_heap', s_head', SP!Chain', s_pc' # "free")
    BY <1>1, <2>1
  <2>3. s_call' \in ContactCalls
    BY <1>2 DEF ContactCalls
  <2>4. ContactsInv'
    BY <1>1, <2>1, <2>2, <2>3, ContactsInvNext
  <2>5. SP!SB!Refuse
    BY <1>2, <2>1 DEF SP!SB!Refuse, Contacts
  <2> QED
    BY <2>4, <2>5 DEF ContactsStepOK, SP!SB!Next
<1>3. CASE /\ s_call' = [op |-> "add", contact |-> [surname |-> s, note |-> t]]
           /\ Added(s, t)
  <2>1. /\ Whole(s_heap', s_head', SP!Chain', TRUE)
        /\ s_heap' \in [Node -> SP!NodeType \cup {Free}] /\ s_head' \in Node \cup {NULL}
        /\ SP!SB!Next
    BY <1>3, ContactsAdded, Zenon
  <2>2. Whole(s_heap', s_head', SP!Chain', s_pc' # "free")
    <3>1. (s_pc' # "free") = TRUE
      BY <1>1
    <3> QED
      BY <2>1, <3>1, Zenon
  <2>3. s_call' \in ContactCalls
    BY <1>3 DEF ContactCalls
  <2>4. ContactsInv'
    BY <1>1, <2>1, <2>2, <2>3, ContactsInvNext
  <2> QED
    BY <2>1, <2>4 DEF ContactsStepOK
<1> QED
  BY <1>2, <1>3, ContactsAdd

\* The walk to a number stops at the contact the number stands for.
LEMMA ContactsWalk ==
    ASSUME ContactsInv, NEW id \in -1 .. Len(SP!Chain)
    PROVE  /\ SP!SB!Place(id) \in 1 .. Len(SP!Chain) + 1
           /\ SP!Walk(id) = At(SP!Chain, SP!SB!Place(id))
           /\ SP!Walk(id) = NULL <=> ~(SP!SB!Place(id) <= Len(SP!Chain))
           /\ id \in -1 .. Cardinality(Node)
<1>0. PICK c : c = SP!Chain
  OBVIOUS
<1>1. /\ Len(c) \in Nat /\ s_head = At(c, 1) /\ \A i \in 1 .. Len(c) : c[i] # NULL
      /\ id \in -1 .. Len(c) /\ Len(c) <= Cardinality(Node) /\ Cardinality(Node) \in Nat
  BY <1>0, ContactsFacts, ContactsFit
<1>2. PICK k : k = SP!SB!Place(id)
  OBVIOUS
<1>3. k = IF id < 0 THEN 1 ELSE id + 1
  BY <1>2 DEF SP!SB!Place
<1>4. k \in 1 .. Len(c) + 1
  BY <1>1, <1>3
<1>5. SP!Walk(id) = At(c, k)
  <2>1. CASE id < 0
    BY <1>1, <1>3, <2>1 DEF SP!Walk
  <2>2. CASE ~(id < 0) /\ id >= Len(c)
    <3>1. ~(k \in 1 .. Len(c))
      BY <1>1, <1>3, <2>2
    <3> QED
      BY <1>0, <1>1, <2>2, <3>1 DEF SP!Walk, At
  <2>3. CASE ~(id < 0) /\ ~(id >= Len(c))
    <3>1. k \in 1 .. Len(c) /\ k = id + 1
      BY <1>1, <1>3, <2>3
    <3> QED
      BY <1>0, <1>1, <2>3, <3>1 DEF SP!Walk, At
  <2> QED
    BY <2>1, <2>2, <2>3
<1>6. SP!Walk(id) = NULL <=> ~(k <= Len(c))
  BY <1>1, <1>4, <1>5 DEF At
<1>7. id \in -1 .. Cardinality(Node)
  BY <1>1
<1> QED
  BY <1>0, <1>2, <1>4, <1>5, <1>6, <1>7

LEMMA ContactsDeleteStep ==
    ASSUME ContactsInv, NEW id \in -1 .. Len(SP!Chain), SP!deleteMenu(id)
    PROVE  ContactsStepOK
<1>1. s_pc = "menu" /\ s_pc' = "menu" /\ s_call' = [op |-> "delete", id |-> id]
  BY DEF SP!deleteMenu
<1>2. PICK k : k = SP!SB!Place(id)
  OBVIOUS
<1>3. /\ SP!Walk(id) = At(SP!Chain, k) /\ id \in -1 .. Cardinality(Node)
      /\ SP!Walk(id) = NULL <=> ~(k <= Len(SP!Chain))
      /\ k \in 1 .. Len(SP!Chain) + 1
  BY <1>2, ContactsWalk
<1>4. Len(Contacts) = Len(SP!Chain) /\ Len(SP!Chain) \in Nat
  BY ContactsBook, ContactsFacts
<1>5. s_call' \in ContactCalls
  BY <1>1, <1>3 DEF ContactCalls
<1>6. CASE SP!Walk(id) = NULL
  <2>1. UNCHANGED <<s_heap, s_head>>
    BY <1>6 DEF SP!deleteMenu
  <2>2. /\ s_heap' \in [Node -> SP!NodeType \cup {Free}] /\ s_head' \in Node \cup {NULL}
        /\ Whole(s_heap', s_head', SP!Chain', s_pc # "free") /\ Contacts' = Contacts
    BY <2>1, ContactsSame
  <2>3. Whole(s_heap', s_head', SP!Chain', s_pc' # "free")
    BY <1>1, <2>2
  <2>4. ContactsInv'
    BY <1>1, <1>5, <2>2, <2>3, ContactsInvNext
  <2>5. ~(SP!SB!Place(id) <= Len(Contacts))
    BY <1>2, <1>3, <1>4, <1>6
  <2>6. SP!SB!Delete(id)
    BY <1>1, <2>2, <2>5 DEF SP!SB!Delete, Contacts
  <2> QED
    BY <1>3, <2>4, <2>6, Zenon DEF ContactsStepOK, SP!SB!Next, SP!Cardinality, Cardinality
<1>7. CASE SP!Walk(id) # NULL
  <2>1. k \in 1 .. Len(SP!Chain) /\ SP!Walk(id) = SP!Chain[k]
    BY <1>3, <1>4, <1>7 DEF At
  <2>2. /\ s_heap' = SP!Without(SP!Chain[k])
        /\ s_head' = IF s_heap[SP!Chain[k]].prev = NULL THEN s_heap[SP!Chain[k]].next
                     ELSE s_head
    BY <1>7, <2>1 DEF SP!deleteMenu
  <2>3. Dropped(k, TRUE)
    BY <1>1, <2>1, <2>2, ContactsTake, Zenon
  <2>4. /\ Whole(s_heap', s_head', SP!Chain', TRUE)
        /\ s_heap' \in [Node -> SP!NodeType \cup {Free}] /\ s_head' \in Node \cup {NULL}
        /\ Contacts' = RE!RemoveAt(Contacts, k)
    <3>1. PICK back : back = TRUE
      OBVIOUS
    <3>2. Dropped(k, back)
      BY <2>3, <3>1, Zenon
    <3>3. /\ Whole(s_heap', s_head', SP!Chain', back)
          /\ s_heap' \in [Node -> SP!NodeType \cup {Free}] /\ s_head' \in Node \cup {NULL}
          /\ Contacts' = RE!RemoveAt(Contacts, k)
      BY <2>1, <3>2, ContactsDropped
    <3> QED
      BY <3>1, <3>3, Zenon
  <2>5. Whole(s_heap', s_head', SP!Chain', s_pc' # "free")
    <3>1. (s_pc' # "free") = TRUE
      BY <1>1
    <3> QED
      BY <2>4, <3>1, Zenon
  <2>6. ContactsInv'
    BY <1>1, <1>5, <2>4, <2>5, ContactsInvNext
  <2>7. SP!SB!Place(id) <= Len(Contacts)
    BY <1>2, <1>3, <1>4, <1>7
  <2>8. SP!SB!Delete(id)
    BY <1>1, <1>2, <2>4, <2>7 DEF SP!SB!Delete, RE!RemoveAt, Contacts
  <2> QED
    BY <1>3, <2>6, <2>8, Zenon DEF ContactsStepOK, SP!SB!Next, SP!Cardinality, Cardinality
<1> QED
  BY <1>6, <1>7

LEMMA ContactsFreeStep ==
    ASSUME ContactsInv, SP!FreeNode PROVE ContactsStepOK
<1>1. s_pc = "free"
  BY DEF SP!FreeNode
<1>2. CASE s_head = NULL
  BY <1>1, <1>2, ContactsQuiet DEF SP!FreeNode
<1>3. CASE s_head # NULL
  <2>1. /\ s_heap' = [s_heap EXCEPT ![s_head] = Free] /\ s_head' = s_heap[s_head].next
        /\ s_call' = [op |-> "delete", id |-> 0] /\ s_pc' = "free"
    BY <1>1, <1>3 DEF SP!FreeNode
  <2>2. 1 \in 1 .. Len(SP!Chain) /\ Dropped(1, FALSE)
    BY <1>3, <2>1, ContactsFree, Zenon
  <2>3. /\ Whole(s_heap', s_head', SP!Chain', FALSE)
        /\ s_heap' \in [Node -> SP!NodeType \cup {Free}] /\ s_head' \in Node \cup {NULL}
        /\ Contacts' = RE!RemoveAt(Contacts, 1)
    <3>1. PICK back : back = FALSE
      BY Zenon
    <3>2. PICK k \in 1 .. Len(SP!Chain) : k = 1
      BY <2>2
    <3>3. Dropped(k, back)
      BY <2>2, <3>1, <3>2, Zenon
    <3>4. /\ Whole(s_heap', s_head', SP!Chain', back)
          /\ s_heap' \in [Node -> SP!NodeType \cup {Free}] /\ s_head' \in Node \cup {NULL}
          /\ Contacts' = RE!RemoveAt(Contacts, k)
      BY <3>3, ContactsDropped
    <3> QED
      BY <3>1, <3>2, <3>4, Zenon
  <2>4. Whole(s_heap', s_head', SP!Chain', s_pc' # "free")
    <3>1. (s_pc' # "free") = FALSE
      BY <2>1
    <3> QED
      BY <2>3, <3>1, Zenon
  <2>5. 0 \in -1 .. Cardinality(Node)
    BY ContactsFit
  <2>6. s_call' \in ContactCalls
    BY <2>1, <2>5 DEF ContactCalls
  <2>7. ContactsInv'
    BY <2>1, <2>3, <2>4, <2>6, ContactsInvNext
  <2>8. SP!SB!Place(0) = 1 /\ SP!SB!Place(0) <= Len(Contacts)
    <3>1. Len(Contacts) = Len(SP!Chain) /\ Len(SP!Chain) \in Nat
      BY ContactsBook, ContactsFacts
    <3> QED
      BY <2>2, <3>1 DEF SP!SB!Place
  <2>9. SP!SB!Delete(0)
    BY <2>1, <2>3, <2>8 DEF SP!SB!Delete, RE!RemoveAt, Contacts
  <2> QED
    BY <2>5, <2>7, <2>9, Zenon DEF ContactsStepOK, SP!SB!Next, SP!Cardinality, Cardinality
<1> QED
  BY <1>2, <1>3

\* A turn of the editor changes one field of the first contact.
LEMMA ContactsEditStep ==
    ASSUME ContactsInv, SP!EditField PROVE ContactsStepOK
<1>0. PICK c : c = SP!Chain
  OBVIOUS
<1>1. s_pc = "edit" /\ s_pc' = "edit" /\ s_head' = s_head /\ s_call' = [op |-> "edit"]
  BY DEF SP!EditField
<1>2. /\ c \in Seq(Node) /\ Len(c) \in Nat
      /\ s_heap \in [Node -> SP!NodeType \cup {Free}]
      /\ \A i \in 1 .. Len(c) : /\ c[i] \in Node /\ s_heap[c[i]] \in SP!NodeType
                                /\ s_heap[c[i]] # Free
      /\ \A i, j \in 1 .. Len(c) : c[i] = c[j] => i = j
      /\ s_head = At(c, 1)
  BY <1>0, ContactsFacts
<1>3. 1 \in 1 .. Len(c) /\ s_head = c[1] /\ s_head # NULL
  <2>1. s_head # NULL
    BY <1>1 DEF ContactsInv
  <2> QED
    BY <1>2, <2>1 DEF At
<1>4. /\ Contacts \in Seq(SP!SB!Contact) /\ Len(Contacts) = Len(c)
      /\ \A i \in 1 .. Len(c) :
            /\ s_heap[c[i]].surname \in Surname /\ s_heap[c[i]].note \in Text
            /\ Contacts[i] = [surname |-> s_heap[c[i]].surname, note |-> s_heap[c[i]].note]
  BY <1>0, ContactsBook
<1>5. PICK f \in Seq(SP!SB!Contact) : f = Contacts
  BY <1>4
<1>6. /\ DOMAIN f = 1 .. Len(c) /\ Len(f) = Len(c)
      /\ \A i \in 1 .. Len(c) :
            f[i] = [surname |-> s_heap[c[i]].surname, note |-> s_heap[c[i]].note]
  BY <1>4, <1>5, LenProperties
<1>7. ASSUME NEW s \in Surname, NEW t \in Text, NEW m \in SP!NodeType,
             m.prev = s_heap[s_head].prev, m.next = s_heap[s_head].next,
             m.surname = s, m.note = t,
             s_heap' = [s_heap EXCEPT ![s_head] = m]
      PROVE  /\ ContactsInv'
             /\ Contacts' = [f EXCEPT ![1] = [surname |-> s, note |-> t]]
  <2>1. \A n \in Node : s_heap'[n] = IF n = c[1] THEN m ELSE s_heap[n]
    BY <1>2, <1>3, <1>7
  <2>2. s_heap' \in [Node -> SP!NodeType \cup {Free}]
    BY <1>2, <1>7, Zenon
  <2>3. PICK h : h = s_heap'
    OBVIOUS
  <2>4. /\ \A i \in 1 .. Len(c) : h[c[i]].next = s_heap[c[i]].next
        /\ \A i \in 1 .. Len(c) : h[c[i]].prev = s_heap[c[i]].prev
    BY <1>2, <1>3, <1>7, <2>1, <2>3
  <2>5. \A n \in Node : h[n] = Free <=> s_heap[n] = Free
    <3> TAKE n \in Node
    <3>1. m # Free /\ s_heap[c[1]] # Free
      BY <1>2, <1>3, ContactConstants
    <3> QED
      BY <2>1, <2>3, <3>1
  <2>6. Whole(h, s_head, c, TRUE)
    <3>1. PICK back : back = TRUE
      OBVIOUS
    <3>2. Whole(s_heap, s_head, c, back)
      <4>1. (s_pc # "free") = back
        BY <1>1, <3>1, Zenon
      <4> QED
        BY <1>0, <4>1, Zenon DEF ContactsInv
    <3>3. {n \in Node : h[n] # Free} = {n \in Node : s_heap[n] # Free}
      BY <2>5
    <3>4. Whole(h, s_head, c, back)
      BY <2>4, <3>2, <3>3, Zenon DEF Whole
    <3> QED
      BY <3>1, <3>4, Zenon
  <2>7. Whole(s_heap', s_head', c, TRUE)
    BY <1>1, <2>3, <2>6, Zenon
  <2>8. SP!Chain' = c /\ Contacts' = ContactsOf(s_heap', c)
    BY <2>7, ContactsNext, Zenon
  <2>9. Whole(s_heap', s_head', SP!Chain', s_pc' # "free")
    <3>1. (s_pc' # "free") = TRUE
      BY <1>1
    <3> QED
      BY <2>7, <2>8, <3>1, Zenon
  <2>10. s_call' \in ContactCalls /\ s_head' \in Node \cup {NULL} /\ s_head' # NULL
    BY <1>1, <1>3, ContactsTypes DEF ContactCalls
  <2>11. ContactsInv'
    BY <1>1, <2>2, <2>9, <2>10, ContactsInvNext
  <2>12. ContactsOf(h, c) = [i \in 1 .. Len(c) |-> [surname |-> h[c[i]].surname,
                                                    note |-> h[c[i]].note]]
    BY DEF ContactsOf
  <2>13. \A i \in 1 .. Len(c) :
            ContactsOf(h, c)[i] = [f EXCEPT ![1] = [surname |-> s, note |-> t]][i]
    <3> TAKE i \in 1 .. Len(c)
    <3>1. CASE i = 1
      <4>1. h[c[i]] = m
        BY <1>2, <2>1, <2>3, <3>1
      <4> QED
        BY <1>3, <1>6, <1>7, <2>12, <3>1, <4>1
    <3>2. CASE i # 1
      <4>1. h[c[i]] = s_heap[c[i]]
        BY <1>2, <1>3, <2>1, <2>3, <3>2
      <4> QED
        BY <1>6, <2>12, <3>2, <4>1
    <3> QED
      BY <3>1, <3>2
  <2>14. ContactsOf(h, c) = [f EXCEPT ![1] = [surname |-> s, note |-> t]]
    <3>1. PICK d : d = ContactsOf(h, c)
      OBVIOUS
    <3>2. d = [i \in 1 .. Len(c) |-> d[i]]
      BY <2>12, <3>1
    <3>3. PICK e : e = [f EXCEPT ![1] = [surname |-> s, note |-> t]]
      BY Zenon
    <3>4. e = [i \in 1 .. Len(c) |-> e[i]]
      BY <1>6, <3>3, Zenon
    <3>5. \A i \in 1 .. Len(c) : d[i] = e[i]
      BY <2>13, <3>1, <3>3
    <3> QED
      BY <3>1, <3>2, <3>3, <3>4, <3>5, Zenon
  <2> QED
    BY <2>3, <2>8, <2>11, <2>14
<1>8. /\ f # <<>> /\ f[1].surname = s_heap[s_head].surname /\ f[1].note = s_heap[s_head].note
      /\ f[1] = [surname |-> s_heap[s_head].surname, note |-> s_heap[s_head].note]
      /\ s_heap[s_head] \in SP!NodeType
  BY <1>2, <1>3, <1>6
<1>9. CASE \E s \in Surname : s_heap' = [s_heap EXCEPT ![s_head].surname = s]
  <2>1. PICK s \in Surname : s_heap' = [s_heap EXCEPT ![s_head].surname = s]
    BY <1>9, Zenon
  <2>2. PICK m : m = [s_heap[s_head] EXCEPT !.surname = s]
    BY Zenon
  <2>3. /\ m \in SP!NodeType /\ m.prev = s_heap[s_head].prev /\ m.next = s_heap[s_head].next
        /\ m.surname = s /\ m.note = s_heap[s_head].note /\ s_heap[s_head].note \in Text
    BY <1>8, <2>2 DEF SP!NodeType
  <2>4. s_heap' = [s_heap EXCEPT ![s_head] = m]
    BY <2>1, <2>2
  <2>5. /\ ContactsInv'
        /\ Contacts' = [f EXCEPT ![1] = [surname |-> s, note |-> s_heap[s_head].note]]
    BY <1>7, <2>3, <2>4, Zenon
  <2>6. [f[1] EXCEPT !.surname = s] = [surname |-> s, note |-> s_heap[s_head].note]
    BY <1>8
  <2>7. Contacts' = [f EXCEPT ![1].surname = s]
    BY <2>5, <2>6, Zenon
  <2>8. SP!SB!EditFirst
    BY <1>1, <1>5, <1>8, <2>7, Zenon DEF SP!SB!EditFirst, Contacts
  <2> QED
    BY <2>5, <2>8 DEF ContactsStepOK, SP!SB!Next
<1>10. CASE \E t \in Text : s_heap' = [s_heap EXCEPT ![s_head].note = t]
  <2>1. PICK t \in Text : s_heap' = [s_heap EXCEPT ![s_head].note = t]
    BY <1>10, Zenon
  <2>2. PICK m : m = [s_heap[s_head] EXCEPT !.note = t]
    BY Zenon
  <2>3. /\ m \in SP!NodeType /\ m.prev = s_heap[s_head].prev /\ m.next = s_heap[s_head].next
        /\ m.note = t /\ m.surname = s_heap[s_head].surname
        /\ s_heap[s_head].surname \in Surname
    BY <1>8, <2>2 DEF SP!NodeType
  <2>4. s_heap' = [s_heap EXCEPT ![s_head] = m]
    BY <2>1, <2>2
  <2>5. /\ ContactsInv'
        /\ Contacts' = [f EXCEPT ![1] = [surname |-> s_heap[s_head].surname, note |-> t]]
    BY <1>7, <2>3, <2>4, Zenon
  <2>6. [f[1] EXCEPT !.note = t] = [surname |-> s_heap[s_head].surname, note |-> t]
    BY <1>8
  <2>7. Contacts' = [f EXCEPT ![1].note = t]
    BY <2>5, <2>6, Zenon
  <2>8. SP!SB!EditFirst
    BY <1>1, <1>5, <1>8, <2>7, Zenon DEF SP!SB!EditFirst, Contacts
  <2> QED
    BY <2>5, <2>8 DEF ContactsStepOK, SP!SB!Next
<1> QED
  BY <1>9, <1>10 DEF SP!EditField

\* Every step of the phone book keeps the invariant and is a step of the abstract book, or
\* changes nothing of it.
LEMMA ContactsStep ==
    ASSUME ContactsInv, [SP!Next]_spVars PROVE ContactsStepOK
<1>1. CASE \E s \in Surname, t \in Text : SP!addMenu(s, t)
  BY <1>1, ContactsAddStep
<1>2. CASE \E id \in SP!Asked : SP!deleteMenu(id)
  BY <1>2, ContactsDeleteStep DEF SP!Asked
<1>3. CASE \E id \in SP!Asked : SP!editContact(id)
  <2>1. PICK id \in SP!Asked : SP!editContact(id)
    BY <1>3
  <2>2. /\ s_pc = "menu" /\ SP!Walk(id) # NULL
        /\ s_pc' = IF id = 0 THEN "edit" ELSE "undefined"
        /\ UNCHANGED <<s_heap, s_head, s_call>>
    BY <2>1 DEF SP!editContact
  <2>3. id \in -1 .. Len(SP!Chain) /\ Len(SP!Chain) \in Nat
    BY ContactsFacts DEF SP!Asked
  <2>4. id = 0 => s_head # NULL
    <3> SUFFICES ASSUME id = 0 PROVE s_head # NULL
      OBVIOUS
    <3>1. SP!SB!Place(id) = 1
      BY DEF SP!SB!Place
    <3> QED
      BY <2>2, <2>3, <3>1, ContactsWalk, ContactsFacts
  <2> QED
    BY <2>2, <2>4, ContactsQuiet
<1>4. CASE SP!EditField
  BY <1>4, ContactsEditStep
<1>5. CASE SP!EditEnds
  BY <1>5, ContactsQuiet DEF SP!EditEnds
<1>6. CASE SP!Exit
  BY <1>6, ContactsQuiet DEF SP!Exit
<1>7. CASE SP!FreeNode
  BY <1>7, ContactsFreeStep
<1>8. CASE SP!InputEnds
  BY <1>8, ContactsQuiet DEF SP!InputEnds
<1>9. CASE UNCHANGED spVars
  <2>1. UNCHANGED <<s_heap, s_head, s_call>> /\ s_pc' = s_pc
    BY <1>9 DEF spVars
  <2>2. s_pc' = "edit" => s_head # NULL
    BY <2>1 DEF ContactsInv
  <2> QED
    BY <2>1, <2>2, ContactsTypes, ContactsQuiet
<1> QED
  BY <1>1, <1>2, <1>3, <1>4, <1>5, <1>6, <1>7, <1>8, <1>9 DEF SP!Next

LEMMA ContactsStart ==
    ASSUME SP!Init PROVE ContactsInv /\ SP!SB!Init
<1>1. /\ s_heap = [n \in Node |-> Free] /\ s_head = NULL
      /\ s_pc = "menu" /\ s_call = [op |-> "none"]
  BY DEF SP!Init
<1>2. \A back : Whole(s_heap, s_head, <<>>, back)
  <2>1. <<>> \in Seq(Node) /\ Len(<<>>) = 0
    OBVIOUS
  <2> QED
    BY <1>1, <2>1 DEF Whole, At
<1>3. SP!Chain = <<>>
  BY <1>2, ContactsChain
<1>4. ContactsInv
  <2>1. SP!TypeOK
    BY <1>1, ContactConstants DEF SP!TypeOK
  <2>2. Whole(s_heap, s_head, SP!Chain, s_pc # "free")
    BY <1>2, <1>3, Zenon
  <2> QED
    BY <1>1, <2>1, <2>2 DEF ContactsInv
<1>5. Contacts = <<>>
  <2>1. Contacts \in Seq(SP!SB!Contact) /\ Len(Contacts) = Len(SP!Chain)
    BY <1>4, ContactsBook
  <2>2. Len(SP!Chain) = 0
    BY <1>3
  <2> QED
    BY <2>1, <2>2, EmptySeq
<1>6. SP!SB!Init
  BY <1>1, <1>5 DEF SP!SB!Init, Contacts
<1> QED
  BY <1>4, <1>6

\* The invariant of the list of contacts holds.
THEOREM ContactsInvHolds == Spec => []ContactsInv
<1>1. Init => ContactsInv
  BY ContactsStart DEF Init
<1>2. ContactsInv /\ [Next]_vars => ContactsInv'
  BY EachStep, ContactsStep DEF ContactsStepOK
<1> QED
  BY <1>1, <1>2, PTL DEF Spec

\* The list of contacts implements the abstract book: addMenu puts a contact where its
\* surname belongs, deleteMenu and freePhonebook take out the one asked for.
THEOREM ContactsImplement == Spec => SP!ImplementsSurnameBook
<1>1. Init => SP!SB!Init
  BY ContactsStart DEF Init
<1>2. ContactsInv /\ [Next]_vars => [SP!SB!Next]_(SP!SB!vars)
  BY EachStep, ContactsStep DEF ContactsStepOK
<1> QED
  BY <1>1, <1>2, ContactsInvHolds, PTL DEF Spec, SP!ImplementsSurnameBook, SP!SB!Spec

\* The contacts of a sequence are in the order of their surnames.
BySurname(s) == \A i, j \in DOMAIN s : i < j => s[i].surname <= s[j].surname

\* A contact that is put in front of the first that does not come before it keeps the order.
LEMMA OrderedInsert ==
    ASSUME NEW s \in Seq(SP!SB!Contact), BySurname(s), NEW e \in SP!SB!Contact,
           NEW k \in 1 .. Len(s) + 1,
           \A j \in 1 .. k - 1 : s[j].surname < e.surname,
           k <= Len(s) => s[k].surname >= e.surname
    PROVE  BySurname(RE!InsertAt(s, k, e))
<1>1. Len(s) \in Nat /\ \A i \in 1 .. Len(s) : s[i].surname \in Int
  <2>1. Len(s) \in Nat /\ \A i \in 1 .. Len(s) : s[i] \in SP!SB!Contact
    BY LenProperties, ElementOfSeq
  <2> QED
    BY <2>1, ContactConstants DEF SP!SB!Contact
<1>2. e.surname \in Int
  BY ContactConstants DEF SP!SB!Contact
<1>3. \A i, j \in 1 .. Len(s) : i < j => s[i].surname <= s[j].surname
  <2>1. DOMAIN s = 1 .. Len(s)
    BY LenProperties
  <2> QED
    BY <2>1 DEF BySurname
<1>4. \A j \in k .. Len(s) : e.surname <= s[j].surname
  <2> SUFFICES ASSUME NEW j \in k .. Len(s) PROVE e.surname <= s[j].surname
    OBVIOUS
  <2>1. k \in 1 .. Len(s) /\ j \in 1 .. Len(s) /\ k <= j
    BY <1>1
  <2>2. e.surname <= s[k].surname
    BY <1>1, <1>2, <2>1
  <2>3. CASE j = k
    BY <2>2, <2>3
  <2>4. CASE k < j
    BY <1>1, <1>2, <1>3, <2>1, <2>2, <2>4
  <2> QED
    BY <2>1, <2>3, <2>4
<1>5. PICK d : d = RE!InsertAt(s, k, e)
  OBVIOUS
<1>6. /\ d \in Seq(SP!SB!Contact) /\ Len(d) = Len(s) + 1
      /\ \A i \in 1 .. Len(s) + 1 : d[i] = IF i < k THEN s[i] ELSE IF i = k THEN e ELSE s[i - 1]
  <2>1. PICK S : S = SP!SB!Contact
    OBVIOUS
  <2>2. PICK x \in Seq(S), y \in S : x = s /\ y = e
    BY <2>1
  <2>3. PICK j \in 1 .. Len(x) + 1 : j = k
    BY <2>2
  <2>4. RE!InsertAt(x, j, y) \in Seq(S) /\ Len(RE!InsertAt(x, j, y)) = Len(x) + 1
    BY InsertElements
  <2>5. \A i \in 1 .. Len(x) + 1 :
           RE!InsertAt(x, j, y)[i] = IF i < j THEN x[i] ELSE IF i = j THEN y ELSE x[i - 1]
    BY InsertElements
  <2> QED
    BY <1>5, <2>1, <2>2, <2>3, <2>4, <2>5, Zenon
<1>7. ASSUME NEW i \in 1 .. Len(s) + 1, NEW j \in 1 .. Len(s) + 1, i < j
      PROVE  d[i].surname <= d[j].surname
  <2>1. k \in Int /\ i \in Int /\ j \in Int
    BY <1>1
  <2>2. CASE j < k
    <3>1. d[i] = s[i] /\ d[j] = s[j] /\ i \in 1 .. Len(s) /\ j \in 1 .. Len(s)
      BY <1>1, <1>6, <1>7, <2>1, <2>2
    <3> QED
      BY <1>3, <1>7, <3>1
  <2>3. CASE j = k
    <3>1. d[i] = s[i] /\ d[j] = e /\ i \in 1 .. k - 1 /\ i \in 1 .. Len(s)
      BY <1>1, <1>6, <1>7, <2>1, <2>3
    <3> QED
      BY <1>1, <1>2, <3>1
  <2>4. CASE k < j /\ i < k
    <3>1. d[i] = s[i] /\ d[j] = s[j - 1]
      BY <1>1, <1>6, <1>7, <2>1, <2>4
    <3>2. i \in 1 .. Len(s) /\ j - 1 \in 1 .. Len(s) /\ i < j - 1
      BY <1>1, <2>1, <2>4
    <3> QED
      BY <1>3, <3>1, <3>2
  <2>5. CASE k < j /\ i = k
    <3>1. d[i] = e /\ d[j] = s[j - 1] /\ j - 1 \in k .. Len(s)
      BY <1>1, <1>6, <1>7, <2>1, <2>5
    <3> QED
      BY <1>4, <3>1
  <2>6. CASE k < i
    <3>1. d[i] = s[i - 1] /\ d[j] = s[j - 1]
      BY <1>1, <1>6, <1>7, <2>1, <2>6
    <3>2. i - 1 \in 1 .. Len(s) /\ j - 1 \in 1 .. Len(s) /\ i - 1 < j - 1
      BY <1>1, <1>7, <2>1, <2>6
    <3> QED
      BY <1>3, <3>1, <3>2
  <2>7. (j < k) \/ (j = k) \/ (k < j /\ i < k) \/ (k < j /\ i = k) \/ (k < i)
    BY <1>7, <2>1
  <2> QED
    BY <2>2, <2>3, <2>4, <2>5, <2>6, <2>7
<1>8. DOMAIN d = 1 .. Len(s) + 1
  BY <1>6, LenProperties
<1>9. BySurname(d)
  BY <1>7, <1>8, Zenon DEF BySurname
<1> QED
  BY <1>5, <1>9

\* Taking a contact out keeps the order of the others.
LEMMA OrderedRemove ==
    ASSUME NEW s \in Seq(SP!SB!Contact), BySurname(s), NEW k \in 1 .. Len(s)
    PROVE  BySurname(RE!RemoveAt(s, k))
<1>1. Len(s) \in Nat /\ DOMAIN s = 1 .. Len(s)
  BY LenProperties
<1>2. PICK d : d = RE!RemoveAt(s, k)
  OBVIOUS
<1>3. /\ d \in Seq(SP!SB!Contact) /\ Len(d) = Len(s) - 1
      /\ \A i \in 1 .. Len(s) - 1 : d[i] = s[IF i < k THEN i ELSE i + 1]
  BY <1>1, <1>2, RemoveAtElements, Zenon
<1>4. ASSUME NEW i \in 1 .. Len(s) - 1, NEW j \in 1 .. Len(s) - 1, i < j
      PROVE  d[i].surname <= d[j].surname
  <2>1. PICK x, y : x = (IF i < k THEN i ELSE i + 1) /\ y = (IF j < k THEN j ELSE j + 1)
    OBVIOUS
  <2>2. x \in 1 .. Len(s) /\ y \in 1 .. Len(s) /\ x < y
    BY <1>1, <1>4, <2>1
  <2>3. d[i] = s[x] /\ d[j] = s[y]
    BY <1>3, <2>1, Zenon
  <2>4. s[x].surname <= s[y].surname
    BY <1>1, <2>2 DEF BySurname
  <2> QED
    BY <2>3, <2>4
<1>5. DOMAIN d = 1 .. Len(s) - 1
  BY <1>3, LenProperties
<1>6. BySurname(d)
  BY <1>4, <1>5, Zenon DEF BySurname
<1> QED
  BY <1>2, <1>6

\* What a step of the abstract book does to the order.
LEMMA OrderStep ==
    ASSUME ContactsInv, SP!SB!Next, BySurname(Contacts)
    PROVE  BySurname(Contacts') \/ SP!SB!SurnameEdited
<1>0. PICK s : s = Contacts
  OBVIOUS
<1>1. s \in Seq(SP!SB!Contact) /\ BySurname(s) /\ Len(s) \in Nat /\ DOMAIN s = 1 .. Len(s)
  BY <1>0, ContactsBook, LenProperties
<1>2. ASSUME NEW c \in SP!SB!Contact, SP!SB!Add(c) PROVE BySurname(Contacts')
  <2>1. PICK i \in 1 .. Len(s) + 1 :
           /\ \A j \in 1 .. i - 1 : s[j].surname < c.surname
           /\ i <= Len(s) => s[i].surname >= c.surname
           /\ Contacts' = RE!InsertAt(s, i, c)
    BY <1>0, <1>2, Zenon DEF SP!SB!Add, RE!InsertAt, Contacts
  <2>2. BySurname(RE!InsertAt(s, i, c))
    BY <1>1, <2>1, OrderedInsert
  <2> QED
    BY <2>1, <2>2
<1>3. ASSUME NEW id \in -1 .. Cardinality(Node), SP!SB!Delete(id) PROVE BySurname(Contacts')
  <2>1. PICK i : i = SP!SB!Place(id)
    OBVIOUS
  <2>2. i \in Int /\ 1 <= i
    BY <2>1, ContactConstants DEF SP!SB!Place
  <2>3. Contacts' = IF i <= Len(s) THEN RE!RemoveAt(s, i) ELSE s
    BY <1>0, <1>3, <2>1, Zenon DEF SP!SB!Delete, RE!RemoveAt, Contacts
  <2>4. CASE i <= Len(s)
    <3>1. i \in 1 .. Len(s) /\ Contacts' = RE!RemoveAt(s, i)
      BY <1>1, <2>2, <2>3, <2>4
    <3>2. BySurname(RE!RemoveAt(s, i))
      BY <1>1, <3>1, OrderedRemove
    <3> QED
      BY <3>1, <3>2
  <2>5. CASE ~(i <= Len(s))
    BY <1>1, <2>3, <2>5, Zenon
  <2> QED
    BY <2>4, <2>5
<1>4. ASSUME SP!SB!Refuse PROVE BySurname(Contacts')
  <2>1. Contacts' = s
    BY <1>0, <1>4, Zenon DEF SP!SB!Refuse, Contacts
  <2> QED
    BY <1>1, <2>1, Zenon
<1>5. ASSUME SP!SB!EditFirst PROVE BySurname(Contacts') \/ SP!SB!SurnameEdited
  <2>1. s_call'.op = "edit"
    BY <1>5 DEF SP!SB!EditFirst
  <2>2. SP!SB!SurnameEdited <=> \E i \in DOMAIN s : Contacts'[i].surname # s[i].surname
    BY <1>0, <2>1, ZenonT(40) DEF SP!SB!SurnameEdited, Contacts
  <2>3. DOMAIN Contacts' = DOMAIN s
    <3>1. \/ \E x \in Surname : Contacts' = [s EXCEPT ![1].surname = x]
          \/ \E n \in Text : Contacts' = [s EXCEPT ![1].note = n]
      BY <1>0, <1>5, Zenon DEF SP!SB!EditFirst, Contacts
    <3> QED
      BY <3>1
  <2>4. PICK d : d = Contacts'
    OBVIOUS
  <2>5. ASSUME \A i \in DOMAIN s : d[i].surname = s[i].surname PROVE BySurname(d)
    BY <1>1, <2>3, <2>4, <2>5 DEF BySurname
  <2> QED
    BY <2>2, <2>4, <2>5
<1>6. \/ \E c \in SP!SB!Contact : SP!SB!Add(c)
      \/ \E id \in -1 .. Cardinality(Node) : SP!SB!Delete(id)
      \/ SP!SB!Refuse \/ SP!SB!EditFirst
  BY ContactConstants DEF SP!SB!Next
<1> QED
  BY <1>2, <1>3, <1>4, <1>5, <1>6, Zenon

\* The contacts stay in the order of their surnames until a surname is edited.
THEOREM BookInOrderHolds == Spec => BookInOrder
<1>1. SP!SB!InOrder <=> BySurname(Contacts)
  BY Zenon DEF SP!SB!InOrder, BySurname, Contacts
<1>2. SP!SB!InOrder' <=> BySurname(Contacts')
  BY Zenon DEF SP!SB!InOrder, BySurname, Contacts
<1>3. ContactsInv /\ [Next]_vars =>
        [SP!SB!InOrder => SP!SB!InOrder' \/ SP!SB!SurnameEdited]_(SP!SB!vars)
  <2> SUFFICES ASSUME ContactsInv, [Next]_vars, SP!SB!InOrder, ~UNCHANGED SP!SB!vars
               PROVE  SP!SB!InOrder' \/ SP!SB!SurnameEdited
    OBVIOUS
  <2>1. SP!SB!Next
    BY EachStep, ContactsStep DEF ContactsStepOK
  <2> QED
    BY <1>1, <1>2, <2>1, OrderStep
<1> QED
  BY <1>3, ContactsInvHolds, PTL DEF Spec, BookInOrder, SP!BookInOrder, SP!SB!OrderKept

LEMMA ContactsIntact == ContactsInv => SP!ListIntact
<1> SUFFICES ASSUME ContactsInv PROVE SP!ListIntact
  OBVIOUS
<1> PICK c : c = SP!Chain
  OBVIOUS
<1>1. /\ c \in Seq(Node) /\ Len(c) \in Nat
      /\ \A i \in 1 .. Len(c) : /\ c[i] # NULL
                                /\ s_heap[c[i]].next = At(c, i + 1)
                                /\ s_pc # "free" => s_heap[c[i]].prev = At(c, i - 1)
      /\ SP!Used = {c[i] : i \in 1 .. Len(c)} /\ s_head = At(c, 1)
  BY ContactsFacts
<1>2. SP!Used = {c[i] : i \in DOMAIN c}
  <2>1. DOMAIN c = 1 .. Len(c)
    BY <1>1, LenProperties
  <2> QED
    BY <1>1, <2>1
<1>3. ASSUME s_pc # "free", s_head # NULL PROVE s_heap[s_head].prev = NULL
  <2>1. 1 \in 1 .. Len(c) /\ s_head = c[1]
    BY <1>1, <1>3 DEF At
  <2>2. At(c, 1 - 1) = NULL
    BY DEF At
  <2>3. PICK i \in 1 .. Len(c) : i = 1
    BY <2>1
  <2>4. s_heap[c[i]].prev = At(c, i - 1)
    BY <1>1, <1>3
  <2> QED
    BY <2>1, <2>2, <2>3, <2>4
<1>4. ASSUME s_pc # "free", NEW n \in SP!Used, s_heap[n].next # NULL
      PROVE  s_heap[s_heap[n].next].prev = n
  <2>1. PICK i \in 1 .. Len(c) : n = c[i]
    BY <1>1
  <2>2. s_heap[n].next = At(c, i + 1)
    BY <1>1, <2>1
  <2>3. PICK j \in 1 .. Len(c) : j = i + 1 /\ s_heap[n].next = c[j]
    BY <1>1, <1>4, <2>2 DEF At
  <2>4. s_heap[c[j]].prev = At(c, j - 1)
    BY <1>1, <1>4
  <2>5. At(c, j - 1) = n
    BY <1>1, <2>1, <2>3 DEF At
  <2> QED
    BY <2>3, <2>4, <2>5
<1> QED
  BY <1>2, <1>3, <1>4 DEF SP!ListIntact

-----------------------------------------------------------------------------
(* All five programs.                                                        *)

\* Both lists stay whole: the nodes that calloc or malloc gave and free did not take back
\* are the nodes of the list, and going forward and back are inverse.
THEOREM ListIntactHolds == Spec => []ListIntact
<1>1. QueueInv /\ ContactsInv => ListIntact
  BY QueueIntact, ContactsIntact DEF ListIntact
<1> QED
  BY <1>1, QueueInvHolds, ContactsInvHolds, PTL

\* Both lists do what the abstract ones do: the messages are a first-in-first-out line for each
\* priority menuPush accepts, and each operation changes the contact it is asked for.
THEOREM ListsImplementHolds == Spec => ListsImplement
BY QueueImplements, ContactsImplement DEF ListsImplement

\* The variables of the five programs keep their types.
THEOREM TypesHold == Spec => []TypeOK
<1>1. QueueInv /\ ContactsInv /\ BookInv /\ EchoInv /\ DeviceInv => TypeOK
  BY DEF QueueInv, ContactsInv, BookInv, EchoInv, DeviceInv, TypeOK
<1> QED
  BY <1>1, QueueInvHolds, ContactsInvHolds, BookInvHolds, EchoInvHolds, DeviceInvHolds, PTL
=============================================================================
