------------------------- MODULE CheckpointsPromise -------------------------
(***************************************************************************)
(* What the checkpoints promise an operator: the proofs that the files     *)
(* implement the map of CheckpointStore, that retention keeps the newest   *)
(* and no more than Keep, and that a disk a restore replaces is saved.     *)
(***************************************************************************)
EXTENDS CheckpointsWhole, CheckpointsImplement, FiniteSetTheorems, WellFoundedInduction

-----------------------------------------------------------------------------
(* A name is free until it is written *)

Making == {"stage", "copy", "rest", "sync", "rename"}

\* A writer past the sweep works on a name that no one else can take.
FreeInv == \A w \in Writers : pc[w] \in Making => file[target[w]] = NoInode

LEMMA FreeStep == TypeInv /\ LockInv /\ FreeInv /\ [Next]_vars => FreeInv'
<1> SUFFICES ASSUME TypeInv, LockInv, FreeInv, [Next]_vars,
                    NEW w \in Writers, pc'[w] \in Making
             PROVE  file'[target'[w]] = NoInode
    BY DEF FreeInv
<1> USE Processes, ImageIsNoName
<1>t. TypeOK /\ Opened
    BY DEF TypeInv
\* It is enough that w was there before, and that no one renamed.
<1>keeps. ASSUME pc[w] \in Making, target'[w] = target[w],
                 \A n \in Names : file'[n] \in {file[n], NoInode}
          PROVE  file'[target'[w]] = NoInode
    BY <1>keeps, <1>t DEF FreeInv, Opened, Making
<1>own. ASSUME NEW p \in Procs, pc[p] \in Making,
               \A q \in Procs : q # p => pc'[q] = pc[q], UNCHANGED <<file, target>>
        PROVE  file'[target'[w]] = NoInode
    <2>1. pc[w] \in Making
        BY <1>own
    <2> QED
        BY <1>own, <1>keeps, <2>1
<1>end. ASSUME NEW p \in Procs, End(p), UNCHANGED file
        PROVE  file'[target'[w]] = NoInode
    BY <1>end, <1>keeps, <1>t DEF End, Goto, TypeOK, Making
<1>1. ASSUME NEW v \in Writers, StartWriter(v) \/ Lock(v) \/ List(v)
      PROVE  file'[target'[w]] = NoInode
    BY <1>1, <1>keeps, <1>t DEF StartWriter, Lock, List, Goto, TypeOK, Making, unixVars
<1>2. ASSUME NEW v \in Writers, Sweep(v) PROVE file'[target'[w]] = NoInode
    <2>1. CASE file[target[v]] # NoInode
        BY <1>2, <2>1, <1>end DEF Sweep
    <2>2. CASE file[target[v]] = NoInode
        BY <1>2, <2>2, <1>keeps, <1>t DEF Sweep, Goto, TypeOK, Making
    <2> QED
        BY <2>1, <2>2
<1>3. ASSUME NEW p \in Procs, Stage(p) \/ Clone(p) \/ CopyHead(p) \/ CopyRest(p) \/ Sync(p)
      PROVE  file'[target'[w]] = NoInode
    BY <1>3, <1>own, <1>t DEF Stage, Clone, CopyHead, CopyRest, Sync, Goto, TypeOK, Making
<1>4. ASSUME NEW p \in Procs, Fail(p) \/ Kill(p) PROVE file'[target'[w]] = NoInode
    BY <1>4, <1>end DEF Fail, Kill, unixVars
<1>5. ASSUME NEW v \in Writers, Rename(v) PROVE file'[target'[w]] = NoInode
    <2>1. w # v /\ pc[w] \in Making
        BY <1>5, <1>t DEF Rename, Goto, TypeOK, Making
    <2> QED
        BY <1>5, <2>1 DEF Rename, Installed, Making, LockInv, TmpOwned, Holding
<1>6. ASSUME NEW v \in Writers, PruneOne(v) PROVE file'[target'[w]] = NoInode
    BY <1>6, <1>keeps, <1>t DEF PruneOne, TypeOK
<1>7. ASSUME NEW v \in Writers, Finish(v) PROVE file'[target'[w]] = NoInode
    BY <1>7, <1>end DEF Finish, unixVars
<1>8. ASSUME NEW n \in Names, Remove(n) PROVE file'[target'[w]] = NoInode
    BY <1>8, <1>keeps, <1>t DEF Remove, procVars, TypeOK
<1>9. ASSUME NEW r \in Restorers, NEW n \in Names, OpenSource(r, n) PROVE file'[target'[w]] = NoInode
    <2>1. w # r /\ w \in Procs /\ r \in Procs
        OBVIOUS
    <2>2. pc'[w] = pc[w] /\ target'[w] = target[w]
        BY <1>9, <1>t, <2>1 DEF OpenSource, Goto, TypeOK
    <2> QED
        BY <1>9, <2>2, <1>keeps DEF OpenSource, unixVars
<1>10. ASSUME NEW r \in Restorers, StopUnit(r) \/ UnitStopped(r) PROVE file'[target'[w]] = NoInode
    BY <1>10, <1>keeps, <1>t DEF StopUnit, UnitStopped, Goto, TypeOK, unixVars
<1>11. ASSUME NEW r \in Restorers, Replace(r) PROVE file'[target'[w]] = NoInode
    <2>1. \A n \in Names : file'[n] = file[n]
        BY <1>11, <1>t DEF Replace, Installed, LockInv, RestoresImage, TypeOK
    <2> QED
        BY <1>11, <2>1, <1>keeps, <1>t DEF Replace, Goto, TypeOK
<1>12. ASSUME NEW r \in Restorers, StartUnit(r) PROVE file'[target'[w]] = NoInode
    BY <1>12, <1>end DEF StartUnit, unixVars
<1>13. CASE Tick \/ GuestWrite \/ UnitStart \/ FailedExit \/ Commit \/ UNCHANGED vars
    BY <1>13, <1>keeps DEF Tick, GuestWrite, UnitStart, FailedExit, Commit, vars, unixVars, procVars
<1>14. CASE CleanExit
    BY <1>14, <1>keeps, <1>t DEF CleanExit, Goto, TypeOK, Making, unixVars
<1>15. CASE HostCrash
    BY <1>15 DEF HostCrash, Making
<1> QED
    BY <1>1, <1>2, <1>3, <1>4, <1>5, <1>6, <1>7, <1>8, <1>9, <1>10, <1>11, <1>12, <1>13, <1>14, <1>15
       DEF Next, WriterStep, RestoreStep, Copying, Procs

-----------------------------------------------------------------------------
(* The refinement *)

MapInv == SafeInv /\ FreeInv

\* What names and restores stand for, one at a time.
Holds(inode) == IF inode = NoInode THEN None ELSE data[inode]
Held(n) == Holds(file[n])
Choice(r) == IF pc[r] = "idle" THEN None ELSE wanted[r]

\* No name changes what it stands for, now or after a crash.
SameSettled ==
    /\ data'[stable'.file[Image]] = data[stable.file[Image]]
    /\ \A n \in Names : Holds(stable.file[n])' = Holds(stable.file[n])

LEMMA SettledSame ==
    ASSUME SameSettled
    PROVE  [image |-> data[stable.file[Image]], store |-> HeldBy(stable.file)]'
             = [image |-> data[stable.file[Image]], store |-> HeldBy(stable.file)]
BY DEF SameSettled, HeldBy, Holds

LEMMA MapInit == Init => Store!Init
<1> SUFFICES ASSUME Init PROVE Store!Init
    OBVIOUS
<1>1. file[Image] = 1 /\ stable.file = file /\ \A n \in Names : file[n] = NoInode
    BY ImageIsNoName DEF Init, Named
<1>2. \A r \in Restorers : pc[r] = "idle"
    BY Processes DEF Init
<1>3. data[file[Image]] = 0 /\ Guest = "on" /\ writes = 0
    BY <1>1 DEF Init, Guest
<1> QED
    BY <1>1, <1>2, <1>3 DEF Store!Init, HeldBy

\* A step that at most ends restores, and stops or starts the sandbox.
LEMMA MapTurn ==
    ASSUME UNCHANGED writes, data'[file'[Image]] = data[file[Image]],
           \A n \in Names : Held(n)' = Held(n), SameSettled,
           Guest' \in {Guest, "off"} \/ (Guest = "off" /\ Guest' = "on"),
           \A r \in Restorers : Choice(r)' \in {Choice(r), None}
    PROVE  Store!Turn
<1> DEFINE ended == {r \in Restorers : Choice(r)' = None}
<1>1. HeldBy(file)' = HeldBy(file)
    BY DEF Held, Holds, HeldBy
<1>2. ended \in SUBSET Restorers
    OBVIOUS
<1>3. [r \in Restorers |-> Choice(r)]' = [r \in Restorers |-> IF r \in ended THEN None ELSE Choice(r)]
    OBVIOUS
<1>4. \A r \in Restorers : [q \in Restorers |-> Choice(q)][r] = Choice(r)
    OBVIOUS
<1>5. Guest' \in {Guest, "off"} \cup IF Guest = "off" THEN {"on"} ELSE {}
    OBVIOUS
<1> HIDE DEF ended
<1> QED
    BY <1>1, <1>2, <1>3, <1>4, <1>5, SettledSame DEF Store!Turn, Choice

\* A step that names nothing and chooses nothing.
Calm ==
    /\ UNCHANGED <<file, stable, writes>>
    /\ vm' = "up" => (vm = "up" /\ disk' = disk) \/ (vm # "up" /\ disk' = file[Image])
    /\ \A r \in Restorers : pc'[r] = "idle" \/ (pc[r] # "idle" /\ wanted'[r] = wanted[r])

LEMMA StepKinds ==
    ASSUME TypeInv, [Next]_vars
    PROVE  \/ GuestWrite \/ Calm \/ Commit \/ HostCrash
           \/ \E w \in Writers : Rename(w) \/ PruneOne(w)
           \/ \E n \in Names : Remove(n) \/ \E r \in Restorers : OpenSource(r, n)
           \/ \E r \in Restorers : Replace(r)
<1> USE Processes
<1>t. TypeOK
    BY DEF TypeInv
<1>go. ASSUME NEW p \in Procs, NEW label, Goto(p, label), UNCHANGED <<file, stable, vm, disk, writes, wanted>>,
              p \in Restorers => pc[p] # "idle"
       PROVE  Calm
    BY <1>go, <1>t DEF Goto, TypeOK, Calm
<1>end. ASSUME NEW p \in Procs, End(p), UNCHANGED <<file, stable, disk, writes, wanted>>, UnitAfter(p)
        PROVE  Calm
    BY <1>end, <1>t DEF End, UnitAfter, Inactive, Goto, TypeOK, Calm
<1>same. UNCHANGED <<file, stable, writes, pc, wanted>> /\ NoBoot => Calm
    BY DEF Calm, NoBoot
<1>1. ASSUME NEW w \in Writers, StartWriter(w) \/ Lock(w) \/ List(w) PROVE Calm
    BY <1>1, <1>go DEF StartWriter, Lock, List, unixVars, vmVars, history
<1>2. ASSUME NEW w \in Writers, Sweep(w) PROVE Calm
    BY <1>2, <1>go, <1>end DEF Sweep, history
<1>3. ASSUME NEW p \in Procs, Stage(p) \/ Clone(p) \/ CopyHead(p) \/ CopyRest(p) \/ Sync(p) PROVE Calm
    BY <1>3, <1>go DEF Stage, Clone, CopyHead, CopyRest, Sync, vmVars, history
<1>4. ASSUME NEW p \in Procs, Fail(p) \/ Kill(p) PROVE Calm
    BY <1>4, <1>end DEF Fail, Kill, unixVars, history
<1>5. ASSUME NEW w \in Writers, Finish(w) PROVE Calm
    BY <1>5, <1>end DEF Finish, unixVars, history
<1>6. ASSUME NEW r \in Restorers, StopUnit(r) \/ UnitStopped(r) PROVE Calm
    BY <1>6, <1>go DEF StopUnit, UnitStopped, unixVars, vmVars, history
<1>7. ASSUME NEW r \in Restorers, StartUnit(r) PROVE Calm
    BY <1>7, <1>t DEF StartUnit, Boots, unixVars, End, Goto, TypeOK, Calm
<1>8. CASE Tick \/ FailedExit \/ UNCHANGED vars
    BY <1>8, <1>same DEF Tick, FailedExit, Inactive, NoBoot, vars, unixVars, vmVars, procVars, history
<1>11. CASE UnitStart
    BY <1>11 DEF UnitStart, Boots, unixVars, procVars, Calm
<1>9. CASE CleanExit
    <2>1. \A r \in Restorers : r # Post
        BY DistinctAssumption
    <2>2. \A r \in Restorers : pc'[r] = pc[r]
        BY <1>9, <1>t, <2>1 DEF CleanExit, Goto, TypeOK
    <2> QED
        BY <1>9, <2>2 DEF CleanExit, Inactive, unixVars, history, Calm
<1> QED
    BY <1>1, <1>2, <1>3, <1>4, <1>5, <1>6, <1>7, <1>8, <1>9, <1>11
       DEF Next, WriterStep, RestoreStep, Copying, Procs

LEMMA MapStep ==
    ASSUME OneRestore, MapInv, [Next]_vars
    PROVE  Store!Next \/ UNCHANGED Store!vars
<1> USE Processes, ImageIsNoName
<1>t. /\ SafeInv /\ TypeInv /\ TypeOK /\ Opened /\ LockInv /\ Disks /\ disk \in 1 .. Len(data)
      /\ writes \in Nat /\ file[Image] # NoInode /\ stable.file[Image] # NoInode
    BY DEF MapInv, SafeInv, TypeInv, TypeOK, WholeInv, Opened
<1>n. ASSUME NEW f \in Files, file[f] # NoInode
      PROVE  data[file[f]] \in 0 .. writes /\ data[file[f]] # None
    BY <1>n, <1>t DEF Disks, FilesWhole, None, Partial
\* What a crash returns to changes only by Commit, and by the guest's writes.
<1>s. UNCHANGED stable /\ Still => SameSettled
    BY <1>t DEF Still, SameSettled, Holds
<1>same. UNCHANGED <<data, stable>> => SameSettled
    BY DEF SameSettled, Holds
<1>1. CASE Calm /\ Still
    <2>1. data'[file'[Image]] = data[file[Image]] /\ UNCHANGED <<stable, writes>>
        BY <1>1, <1>t DEF Calm, Still
    <2>2. \A n \in Names : Held(n)' = Held(n)
        BY <1>1 DEF Calm, Still, Held, Holds
    <2>3. \A r \in Restorers : Choice(r)' \in {Choice(r), None}
        BY <1>1 DEF Calm, Choice
    <2>4. Guest' \in {Guest, "off"} \/ (Guest = "off" /\ Guest' = "on")
        BY <1>1 DEF Calm, Guest
    <2>5. Store!Turn
        BY <1>1, <1>s, <2>1, <2>2, <2>3, <2>4, MapTurn
    <2> QED
        BY <2>5 DEF Store!Next
<1>2. CASE GuestWrite
    <2>1. /\ vm = "up" /\ writes' = writes + 1 /\ UNCHANGED <<vm, disk, file, stable, pc, wanted>>
        BY <1>2 DEF GuestWrite, procVars, history
    <2>2. /\ data'[disk] = writes + 1
          /\ \A f \in Files : /\ file[f] # NoInode /\ file[f] # disk => data'[file[f]] = data[file[f]]
                              /\ stable.file[f] # NoInode /\ stable.file[f] # disk =>
                                    data'[stable.file[f]] = data[stable.file[f]]
          /\ \A n \in Names : file[n] # disk /\ stable.file[n] # disk
        BY <1>2, <1>t, GuestFiles
    <2>3. HeldBy(file)' = HeldBy(file) /\ HeldBy(stable.file)' = HeldBy(stable.file)
        BY <2>1, <2>2 DEF HeldBy
    <2>4. [r \in Restorers |-> Choice(r)]' = [r \in Restorers |-> Choice(r)]
        BY <2>1 DEF Choice
    <2>5. data'[file'[Image]] = IF Guest = "on" THEN writes + 1 ELSE data[file[Image]]
        BY <1>t, <2>1, <2>2 DEF Guest
    <2>6. data'[stable'.file[Image]] \in {data[stable.file[Image]], writes + 1}
        BY <1>t, <2>1, <2>2
    <2>7. Guest # "off" /\ Guest' = Guest
        BY <2>1 DEF Guest
    <2>8. Store!Write
        BY <2>1, <2>3, <2>4, <2>5, <2>6, <2>7 DEF Store!Write, Choice
    <2> QED
        BY <2>8 DEF Store!Next
<1>3. ASSUME NEW w \in Writers, Rename(w) PROVE Store!Next
    <2>1. target[w] \in Names
        BY <1>3, <1>t DEF Rename, Installed, Opened
    <2> PICK n \in Names : n = target[w]
        BY <2>1
    <2>2. /\ n # Image /\ file[n] = NoInode /\ tmp[n] # NoInode /\ data[tmp[n]] \in 0 .. writes
        BY <1>3, <1>t DEF Rename, Installed, MapInv, FreeInv, Making, Disks, Copies, Filled
    <2>3. /\ UNCHANGED <<vm, disk, stable, writes, data, wanted>>
          /\ \A r \in Restorers : pc'[r] = pc[r]
          /\ \A f \in Files : file'[f] = IF f = n THEN tmp[n] ELSE file[f]
        BY <1>3, <1>t DEF Rename, Installed, Goto, vmVars, TypeOK
    <2>4. \A m \in Names : Held(m)' = IF m = n THEN data[tmp[n]] ELSE Held(m)
        BY <2>2, <2>3 DEF Held, Holds
    <2>5. data'[file'[Image]] = data[file[Image]] /\ Guest' = Guest
        BY <2>2, <2>3 DEF Guest
    <2>6. [r \in Restorers |-> Choice(r)]' = [r \in Restorers |-> Choice(r)]
        BY <2>3 DEF Choice
    <2>7. HeldBy(file)' = [HeldBy(file) EXCEPT ![n] = data[tmp[n]]]
        BY <2>4 DEF HeldBy, Held, Holds
    <2>8. HeldBy(file)[n] = None
        BY <2>2 DEF HeldBy
    <2>9. Store!Take(n)
        BY <1>same, <2>2, <2>3, <2>5, <2>6, <2>7, <2>8, SettledSame DEF Store!Take, Choice
    <2> QED
        BY <2>9 DEF Store!Next
<1>4. ASSUME NEW n \in Names, file' = [file EXCEPT ![n] = NoInode],
             UNCHANGED <<vm, disk, stable, writes, data, pc, wanted>>
      PROVE  Store!Next
    <2>1. \A f \in Files : file'[f] = IF f = n THEN NoInode ELSE file[f]
        BY <1>4, <1>t DEF TypeOK
    <2>2. \A m \in Names : Held(m)' = IF m = n THEN None ELSE Held(m)
        BY <1>4, <2>1 DEF Held, Holds
    <2>3. data'[file'[Image]] = data[file[Image]] /\ Guest' = Guest
        BY <1>4, <2>1 DEF Guest
    <2>4. [r \in Restorers |-> Choice(r)]' = [r \in Restorers |-> Choice(r)]
        BY <1>4 DEF Choice
    <2>5. HeldBy(file)' = [HeldBy(file) EXCEPT ![n] = None]
        BY <2>2 DEF HeldBy, Held, Holds
    <2>6. Store!Drop(n)
        BY <1>4, <1>same, <2>3, <2>4, <2>5, SettledSame DEF Store!Drop, Choice
    <2> QED
        BY <2>6 DEF Store!Next
<1>5. ASSUME NEW w \in Writers, PruneOne(w) PROVE Store!Next
    BY <1>5, <1>4, <1>t DEF PruneOne, vmVars, history, TypeOK
<1>6. ASSUME NEW n \in Names, Remove(n) PROVE Store!Next
    BY <1>6, <1>4 DEF Remove, vmVars, procVars
<1>7. ASSUME NEW n \in Names, NEW r \in Restorers, OpenSource(r, n) PROVE Store!Next
    <2>1. /\ file[n] # NoInode /\ UNCHANGED <<vm, disk, writes, data, file, stable>>
          /\ \A q \in Restorers : pc'[q] = IF q = r THEN "stop" ELSE pc[q]
          /\ \A q \in Restorers : wanted'[q] = IF q = r THEN data[file[n]] ELSE wanted[q]
        BY <1>7, <1>t DEF OpenSource, unixVars, vmVars, Goto, TypeOK
    <2>2. \A q \in Restorers : Choice(q)' = IF q = r THEN Held(n) ELSE Choice(q)
        BY <2>1 DEF Choice, Held, Holds
    <2>3. [q \in Restorers |-> Choice(q)]' = [[q \in Restorers |-> Choice(q)] EXCEPT ![r] = Held(n)]
        BY <2>2
    <2>4. HeldBy(file)' = HeldBy(file) /\ HeldBy(file)[n] = Held(n) /\ Guest' = Guest
        BY <2>1 DEF HeldBy, Held, Holds, Guest
    <2>5. Held(n) # None
        BY <1>n, <2>1 DEF Held, Holds
    <2>6. Store!Choose(r, n)
        BY <1>same, <2>1, <2>3, <2>4, <2>5, SettledSame DEF Store!Choose, Choice
    <2> QED
        BY <2>6 DEF Store!Next
<1>8. ASSUME NEW r \in Restorers, Replace(r) PROVE Store!Next
    <2>1. /\ target[r] = Image /\ pc[r] = "rename" /\ tmp[Image] # NoInode
          /\ UNCHANGED <<vm, disk, stable, writes, data, wanted>>
          /\ \A q \in Restorers : pc'[q] = IF q = r THEN "start" ELSE pc[q]
          /\ \A f \in Files : file'[f] = IF f = Image THEN tmp[Image] ELSE file[f]
        BY <1>8, <1>t DEF Replace, Installed, LockInv, RestoresImage, Goto, vmVars, TypeOK
    <2>2. Guest' = IF Guest = "off" THEN "off" ELSE "aside"
        BY <1>t, <2>1 DEF Guest, Disks, Aside
    <2>3. data[tmp[Image]] = wanted[r] /\ wanted[r] \in 0 .. writes
        BY <1>t, <2>1 DEF Disks, Copies, Filled
    <2>4. Choice(r) = wanted[r] /\ wanted[r] # None
        BY <2>1, <2>3, <1>t DEF Choice, None, Partial
    <2>5. data'[file'[Image]] = Choice(r)
        BY <2>1, <2>3, <2>4
    <2>6. [q \in Restorers |-> Choice(q)]' = [q \in Restorers |-> Choice(q)]
        BY <2>1 DEF Choice
    <2>7. HeldBy(file)' = HeldBy(file)
        BY <2>1 DEF HeldBy
    <2>8. Store!Install(r)
        BY <1>same, <2>1, <2>2, <2>4, <2>5, <2>6, <2>7, SettledSame DEF Store!Install, Choice
    <2> QED
        BY <2>8 DEF Store!Next
<1>10. CASE Commit
    <2>1. /\ stable'.file = file
          /\ UNCHANGED <<vm, disk, file, data, writes, pc, wanted>>
        BY <1>10 DEF Commit, Named, vmVars, procVars, history
    <2>2. HeldBy(file)' = HeldBy(file) /\ HeldBy(stable.file)' = HeldBy(file) /\ Guest' = Guest
        BY <2>1 DEF HeldBy, Guest
    <2>3. [r \in Restorers |-> Choice(r)]' = [r \in Restorers |-> Choice(r)]
        BY <2>1 DEF Choice
    <2>4. Store!Settle
        BY <2>1, <2>2, <2>3 DEF Store!Settle, Choice
    <2> QED
        BY <2>4 DEF Store!Next
<1>11. CASE HostCrash /\ Still
    <2>1. /\ file' = stable.file /\ vm' = "down" /\ UNCHANGED <<stable, writes>>
          /\ \A r \in Restorers : pc'[r] = "idle"
        BY <1>11 DEF HostCrash, Inactive
    <2>2. SameSettled /\ Guest' = "off"
        BY <1>11, <1>s, <2>1 DEF Guest
    <2>3. data'[file'[Image]] = data[stable.file[Image]] /\ HeldBy(file)' = HeldBy(stable.file)
        BY <2>1, <2>2 DEF SameSettled, HeldBy, Holds
    <2>4. [r \in Restorers |-> Choice(r)]' = [r \in Restorers |-> None]
        BY <2>1 DEF Choice
    <2>5. Store!Crash
        BY <2>1, <2>2, <2>3, <2>4, SettledSame DEF Store!Crash, Choice
    <2> QED
        BY <2>5 DEF Store!Next
<1>9. GuestWrite \/ Still
    BY <1>t, FilesStill
<1> QED
    BY <1>1, <1>2, <1>3, <1>5, <1>6, <1>7, <1>8, <1>9, <1>10, <1>11, <1>t, StepKinds

\* The directory of inodes, locks and processes is, seen through its names, the
\* write-once map of CheckpointStore, a restore one step of it, and a crash of
\* the host a return to names and an image that were there before.
THEOREM FilesImplementStore ==
    ASSUME OneRestore, ColdStops PROVE Spec => ImplementsStore
<1>1. Init => MapInv
    BY TypeInit, LockInit, KeptInit, WholeInit, Processes DEF MapInv, SafeInv, FreeInv, Making, Init
<1>2. MapInv /\ [Next]_vars => MapInv'
    BY TypeStep, LockStep, KeptStep, UnitsStep, DisksStep, FreeStep DEF MapInv, SafeInv, WholeInv
<1>3. MapInv /\ [Next]_vars => [Store!Next]_(Store!vars)
    BY MapStep
<1> QED
    BY <1>1, <1>2, <1>3, MapInit, PTL DEF Spec, ImplementsStore, Store!Spec

-----------------------------------------------------------------------------
(* Stamps and counting *)

LEMMA Dated ==
    ASSUME NEW n \in Names, n.kind \in Pruned
    PROVE  n.at \in Stamps /\ n.at \in Nat /\ n = [kind |-> n.kind, at |-> n.at]
BY DEF Names, Pruned, Automatic, Stamps

\* There are no more checkpoints of a pruned kind than stamps.
LEMMA KindIsFinite ==
    ASSUME NEW kind \in Pruned, NEW set \in SUBSET Names, \A n \in set : n.kind = kind
    PROVE  IsFiniteSet(set) /\ Cardinality(set) \in Nat
<1> DEFINE f == [n \in set |-> n.at]
<1>1. f \in [set -> Stamps] /\ \A m, n \in set : f[m] = f[n] => m = n
    BY Dated
<1>2. f \in Injection(set, Stamps)
    BY <1>1 DEF Injection, IsInjective
<1>3. IsFiniteSet(Stamps)
    BY BoundAssumption, FS_Interval DEF Stamps
<1> QED
    BY <1>2, <1>3, FS_Injection, FS_CardinalityType

\* More names make a name no newer.
LEMMA NewerGrows ==
    ASSUME NEW big \in SUBSET Names, NEW small \in SUBSET big, NEW n \in Names, n.kind \in Pruned
    PROVE  /\ Cardinality(Newer(small, n)) =< Cardinality(Newer(big, n))
           /\ Cardinality(Newer(small, n)) \in Nat /\ Cardinality(Newer(big, n)) \in Nat
           /\ IsFiniteSet(Newer(small, n)) /\ IsFiniteSet(Newer(big, n))
<1>1. /\ Newer(big, n) \in SUBSET Names /\ \A m \in Newer(big, n) : m.kind = n.kind
      /\ Newer(small, n) \subseteq Newer(big, n)
    BY DEF Newer
<1>2. IsFiniteSet(Newer(big, n)) /\ Cardinality(Newer(big, n)) \in Nat
    BY <1>1, KindIsFinite
<1> QED
    BY <1>1, <1>2, FS_Subset, FS_CardinalityType

\* A set that is not empty has an element of least measure.
LEMMA LeastOf ==
    ASSUME NEW set, set # {}, NEW f \in [set -> Nat]
    PROVE  \E least \in set : \A x \in set : f[least] =< f[x]
<1> DEFINE R == OpToRel(<, Nat)
           values == {f[x] : x \in set}
<1>1. IsWellFoundedOn(R, Nat)
    BY NatLessThanWellFounded
<1>2. \A a, b \in Nat : a < b => <<a, b>> \in R
    BY DEF OpToRel
<1>3. values # {} /\ values \subseteq Nat
    OBVIOUS
<1> HIDE DEF R
<1>4. PICK a \in values : \A b \in values : ~(<<b, a>> \in R)
    BY <1>1, <1>3, WFMin
<1>5. PICK least \in set : a = f[least]
    OBVIOUS
<1>6. \A b \in values : a \in Nat /\ b \in Nat /\ ~(b < a)
    <2> HIDE DEF values
    <2> QED
        BY <1>2, <1>3, <1>4
<1>7. ASSUME NEW x \in set PROVE f[least] =< f[x]
    <2>1. f[x] \in values
        OBVIOUS
    <2> HIDE DEF values
    <2> QED
        BY <1>5, <1>6, <2>1
<1> QED
    BY <1>7

\* A set of dated names that is not empty has an oldest and a newest.
LEMMA OldestOf ==
    ASSUME NEW kind \in Pruned, NEW set \in SUBSET Names, \A n \in set : n.kind = kind, set # {}
    PROVE  \E oldest \in set : \A n \in set : oldest.at =< n.at
<1> DEFINE f == [n \in set |-> n.at]
<1>1. f \in [set -> Nat]
    BY Dated
<1>2. PICK oldest \in set : \A n \in set : f[oldest] =< f[n]
    <2> HIDE DEF f
    <2> QED
        BY <1>1, LeastOf
<1> QED
    BY <1>2

LEMMA NewestOf ==
    ASSUME NEW kind \in Pruned, NEW set \in SUBSET Names, \A n \in set : n.kind = kind, set # {}
    PROVE  \E newest \in set : \A n \in set : n.at =< newest.at
<1> DEFINE f == [n \in set |-> MaxClock - n.at]
<1>0. \A n \in set : n.at \in 1 .. MaxClock /\ MaxClock \in Nat
    BY Dated, BoundAssumption DEF Stamps
<1>1. f \in [set -> Nat]
    BY <1>0
<1>2. PICK newest \in set : \A n \in set : f[newest] =< f[n]
    <2> HIDE DEF f
    <2> QED
        BY <1>1, LeastOf
<1>3. ASSUME NEW n \in set PROVE n.at =< newest.at
    <2>1. MaxClock - newest.at =< MaxClock - n.at
        BY <1>2
    <2> QED
        BY <1>0, <2>1
<1> QED
    BY <1>3

\* prune's rule leaves at most Keep of a kind, since no two have one stamp.
Recent(kind) == {n \in Present(kind) : Cardinality(Newer(Present(kind), n)) < Keep}

LEMMA RecentAreFew ==
    ASSUME NEW kind \in Pruned
    PROVE  IsFiniteSet(Recent(kind)) /\ Cardinality(Recent(kind)) =< Keep
<1> DEFINE S == Recent(kind)
<1>0. /\ Present(kind) \in SUBSET Names /\ S \subseteq Present(kind)
      /\ \A n \in Present(kind) : n.kind = kind
    BY DEF Present, Recent
<1>1. IsFiniteSet(S) /\ Cardinality(S) \in Nat
    BY <1>0, KindIsFinite
<1>2. CASE S = {}
    BY <1>2, FS_EmptySet, KeepAssumption
<1>3. CASE S # {}
    <2>1. PICK m \in S : \A n \in S : m.at =< n.at
        BY <1>0, <1>3, OldestOf
    <2>2. m \in Names /\ m.kind = kind
        BY <1>0
    <2>3. S \ {m} \subseteq Newer(Present(kind), m)
        <3>1. ASSUME NEW n \in S \ {m} PROVE n.at > m.at
            <4>1. n.at \in Nat /\ m.at \in Nat /\ n.at # m.at /\ m.at =< n.at
                BY <1>0, <2>1, <2>2, Dated
            <4> QED
                BY <4>1
        <3> QED
            BY <1>0, <2>2, <3>1 DEF Newer
    <2>4. /\ Cardinality(Newer(Present(kind), m)) < Keep
          /\ Cardinality(Newer(Present(kind), m)) \in Nat /\ IsFiniteSet(Newer(Present(kind), m))
        BY <1>0, <2>2, NewerGrows DEF Recent
    <2>5. Cardinality(S \ {m}) = Cardinality(S) - 1
        BY <1>1, FS_RemoveElement
    <2>6. Cardinality(S \ {m}) =< Cardinality(Newer(Present(kind), m))
        BY <2>3, <2>4, FS_Subset
    <2> QED
        BY <1>1, <2>4, <2>5, <2>6, KeepAssumption
<1> QED
    BY <1>1, <1>2, <1>3

-----------------------------------------------------------------------------
(* Retention *)

\* A step that names, lists, prunes and removes no checkpoint.
Bystands ==
    /\ UNCHANGED <<made, removed>> /\ \A n \in Names : file'[n] = file[n]
    /\ \A p \in Procs : victims'[p] \in {victims[p], {}}
    /\ \A w \in Writers : pc'[w] = "prune" => pc[w] = "prune" /\ victims'[w] = victims[w]

LEMMA PruneKinds ==
    ASSUME TypeInv, LockInv, [Next]_vars
    PROVE  \/ Bystands \/ HostCrash
           \/ \E w \in Writers : Rename(w) \/ List(w) \/ PruneOne(w)
           \/ \E n \in Names : Remove(n)
<1> USE Processes, ImageIsNoName
<1>t. TypeOK
    BY DEF TypeInv
<1>go. ASSUME NEW p \in Procs, NEW label, Goto(p, label), label # "prune",
              UNCHANGED <<made, removed, file, victims>>
       PROVE  Bystands
    BY <1>go, <1>t DEF Goto, TypeOK, Bystands
<1>end. ASSUME NEW p \in Procs, End(p), UNCHANGED <<made, removed, file>> PROVE Bystands
    BY <1>end, <1>t DEF End, Goto, TypeOK, Bystands
<1>same. UNCHANGED <<made, removed, file, victims, pc>> => Bystands
    BY DEF Bystands
<1>1. ASSUME NEW w \in Writers, StartWriter(w) \/ Lock(w) PROVE Bystands
    BY <1>1, <1>go DEF StartWriter, Lock, unixVars, history
<1>2. ASSUME NEW w \in Writers, Sweep(w) PROVE Bystands
    BY <1>2, <1>go, <1>end DEF Sweep, history
<1>3. ASSUME NEW p \in Procs, Stage(p) \/ Clone(p) \/ CopyHead(p) \/ CopyRest(p) \/ Sync(p)
      PROVE  Bystands
    BY <1>3, <1>go DEF Stage, Clone, CopyHead, CopyRest, Sync, history
<1>4. ASSUME NEW p \in Procs, Fail(p) \/ Kill(p) PROVE Bystands
    BY <1>4, <1>end DEF Fail, Kill, unixVars, history
<1>5. ASSUME NEW w \in Writers, Finish(w) PROVE Bystands
    BY <1>5, <1>end DEF Finish, unixVars, history
<1>6. ASSUME NEW r \in Restorers, StopUnit(r) \/ UnitStopped(r) PROVE Bystands
    BY <1>6, <1>go DEF StopUnit, UnitStopped, unixVars, history
<1>7. ASSUME NEW r \in Restorers, NEW n \in Names, OpenSource(r, n) PROVE Bystands
    BY <1>7, <1>go DEF OpenSource, unixVars
<1>8. ASSUME NEW r \in Restorers, Replace(r) PROVE Bystands
    <2>1. \A n \in Names : file'[n] = file[n]
        BY <1>8, <1>t DEF Replace, Installed, LockInv, RestoresImage, TypeOK
    <2>2. \A w \in Writers : pc'[w] = pc[w]
        BY <1>8, <1>t DEF Replace, Goto, TypeOK
    <2> QED
        BY <1>8, <2>1, <2>2 DEF Replace, Bystands
<1>9. ASSUME NEW r \in Restorers, StartUnit(r) PROVE Bystands
    BY <1>9, <1>end DEF StartUnit, unixVars
<1>10. CASE Tick \/ GuestWrite \/ UnitStart \/ FailedExit \/ Commit \/ UNCHANGED vars
    BY <1>10, <1>same DEF Tick, GuestWrite, UnitStart, FailedExit, Commit, vars, unixVars, procVars, history
<1>11. CASE CleanExit
    <2>1. CASE OnStop
        <3>1. Goto(Post, "lock") /\ Post \in Procs
            BY <1>11, <2>1 DEF CleanExit, Procs, Writers
        <3> QED
            BY <1>11, <1>go, <3>1 DEF CleanExit, unixVars, history
    <2>2. CASE ~OnStop
        BY <1>11, <1>same, <2>2 DEF CleanExit, unixVars, history
    <2> QED
        BY <2>1, <2>2
<1> QED
    BY <1>1, <1>2, <1>3, <1>4, <1>5, <1>6, <1>7, <1>8, <1>9, <1>10, <1>11
       DEF Next, WriterStep, RestoreStep, Copying, Procs

\* A name that Keep newer ones were made of; it stays one.
OutdatedIn(names, n) == n.kind \in Pruned /\ Cardinality(Newer(names, n)) >= Keep
Outdated(n) == OutdatedIn(made, n)

\* What prune has listed is outdated, and so is what is there no more.
Retained(names, gone, paths) ==
    /\ \A n \in Names : paths[n] # NoInode => n \in names
    /\ \A n \in names \ gone : paths[n] # NoInode \/ OutdatedIn(names, n)
RetainNow ==
    /\ Retained(made, removed, file)
    /\ \A p \in Procs : \A n \in victims[p] : Outdated(n)
RetainSettled == Retained(stable.made, stable.removed, stable.file)

RetainInv == RetainNow /\ RetainSettled

LEMMA SettledRetained == RetainInv /\ [Next]_vars => RetainSettled'
<1>1. CASE UNCHANGED stable
    BY <1>1 DEF RetainInv, RetainSettled, Retained, OutdatedIn
<1>2. CASE Commit
    BY <1>2 DEF Commit, Named, RetainInv, RetainNow, RetainSettled, Retained, OutdatedIn
<1> QED
    BY <1>1, <1>2, StableMoves

LEMMA StaysOutdated ==
    ASSUME TypeOK, NEW n \in Names, Outdated(n), made \subseteq made', made' \subseteq Names
    PROVE  Outdated(n)'
<1>1. /\ Cardinality(Newer(made, n)) =< Cardinality(Newer(made', n))
      /\ Cardinality(Newer(made, n)) \in Nat /\ Cardinality(Newer(made', n)) \in Nat
    BY NewerGrows DEF Outdated, OutdatedIn
<1> QED
    BY <1>1, KeepAssumption DEF Outdated, OutdatedIn

LEMMA RetainStep == TypeInv /\ LockInv /\ RetainInv /\ [Next]_vars => RetainInv'
<1> SUFFICES ASSUME TypeInv, LockInv, RetainNow, RetainSettled, [Next]_vars PROVE RetainNow'
    BY SettledRetained DEF RetainInv
<1> USE Processes, ImageIsNoName
<1>t. TypeOK /\ made \subseteq Names /\ \A p \in Procs : victims[p] \subseteq Names
    BY DEF TypeInv, TypeOK
<1>r. /\ \A n \in Names : file[n] # NoInode => n \in made
      /\ \A n \in made \ removed : file[n] # NoInode \/ Outdated(n)
      /\ \A p \in Procs : \A n \in victims[p] : Outdated(n)
    BY DEF RetainNow, Retained, Outdated
<1> SUFFICES /\ \A n \in Names : file'[n] # NoInode => n \in made'
             /\ \A n \in made' \ removed' : file'[n] # NoInode \/ Outdated(n)'
             /\ \A p \in Procs : \A n \in victims'[p] : Outdated(n)'
    BY DEF RetainNow, Retained, Outdated, Names, Stamps, Procs, Writers
<1> DEFINE Goal == /\ \A n \in Names : file'[n] # NoInode => n \in made'
                   /\ \A n \in made' \ removed' : file'[n] # NoInode \/ Outdated(n)'
                   /\ \A p \in Procs : \A n \in victims'[p] : Outdated(n)'
<1>1. CASE Bystands
    <2>1. \A n : Outdated(n)' <=> Outdated(n)
        BY <1>1 DEF Bystands, Outdated, OutdatedIn
    <2> QED
        BY <1>1, <1>r, <1>t, <2>1 DEF Bystands
<1>2. ASSUME NEW w \in Writers, Rename(w) PROVE Goal
    <2>1. /\ target[w] \in Names /\ tmp[target[w]] # NoInode
          /\ made' = made \cup {target[w]} /\ removed' = removed \ {target[w]} /\ victims' = victims
          /\ \A n \in Names : file'[n] = IF n = target[w] THEN tmp[n] ELSE file[n]
        BY <1>2, <1>t DEF Rename, Installed, TypeInv, Opened, TypeOK
    <2>2. \A n \in Names : Outdated(n) => Outdated(n)'
        BY <1>t, <2>1, StaysOutdated
    <2> QED
        BY <1>r, <1>t, <2>1, <2>2
<1>3. ASSUME NEW w \in Writers, List(w) PROVE Goal
    <2>1. /\ UNCHANGED <<made, removed, file>>
          /\ \A p \in Procs : victims'[p] = IF p = w THEN UNION {Excess(kind) : kind \in Pruned} ELSE victims[p]
        BY <1>3, <1>t DEF List, unixVars, history, TypeOK
    <2>2. ASSUME NEW kind \in Pruned, NEW n \in Excess(kind) PROVE Outdated(n)
        <3>1. n \in Names /\ n.kind = kind /\ Cardinality(Newer(Present(kind), n)) >= Keep
            BY DEF Excess, Present
        <3>2. Present(kind) \subseteq made
            BY <1>r DEF Present
        <3>3. /\ Cardinality(Newer(Present(kind), n)) =< Cardinality(Newer(made, n))
              /\ Cardinality(Newer(Present(kind), n)) \in Nat /\ Cardinality(Newer(made, n)) \in Nat
            BY <1>t, <3>1, <3>2, NewerGrows
        <3> QED
            BY <3>1, <3>3, KeepAssumption DEF Outdated, OutdatedIn
    <2>3. \A n \in UNION {Excess(kind) : kind \in Pruned} : Outdated(n)
        BY <2>2
    <2>4. \A n : Outdated(n)' <=> Outdated(n)
        BY <2>1 DEF Outdated, OutdatedIn
    <2>5. \A p \in Procs : \A n \in victims'[p] : Outdated(n)
        BY <1>r, <2>1, <2>3
    <2> QED
        BY <1>r, <2>1, <2>4, <2>5
<1>4. ASSUME NEW w \in Writers, PruneOne(w) PROVE Goal
    <2>1. PICK n \in victims[w] : /\ file' = [file EXCEPT ![n] = NoInode]
                                  /\ victims' = [victims EXCEPT ![w] = @ \ {n}]
        BY <1>4 DEF PruneOne
    <2>2. /\ UNCHANGED <<made, removed>> /\ \A p \in Procs : victims'[p] \subseteq victims[p]
          /\ \A m \in Names : m # n => file'[m] = file[m]
          /\ file'[n] = NoInode
        BY <1>4, <1>t, <2>1 DEF PruneOne, history, TypeOK
    <2>3. Outdated(n) /\ \A m : Outdated(m)' <=> Outdated(m)
        BY <1>r, <2>1, <2>2 DEF Outdated, OutdatedIn
    <2> QED
        BY <1>r, <1>t, <2>2, <2>3
<1>5. ASSUME NEW n \in Names, Remove(n) PROVE Goal
    <2>1. /\ UNCHANGED <<made, victims>> /\ removed' = removed \cup {n}
          /\ \A m \in Names : file'[m] = IF m = n THEN NoInode ELSE file[m]
        BY <1>5, <1>t DEF Remove, procVars, TypeOK
    <2>2. \A m : Outdated(m)' <=> Outdated(m)
        BY <2>1 DEF Outdated, OutdatedIn
    <2> QED
        BY <1>r, <1>t, <2>1, <2>2
<1>6. CASE HostCrash
    <2>1. made' = stable.made /\ removed' = stable.removed /\ file' = stable.file /\ \A p \in Procs : victims'[p] = {}
        BY <1>6 DEF HostCrash
    <2> QED
        BY <2>1 DEF RetainSettled, Retained, Outdated, OutdatedIn
<1> QED
    BY <1>1, <1>2, <1>3, <1>4, <1>5, <1>6, PruneKinds

\* Retention keeps the newest, whatever listings grew stale, stamps came late
\* to the lock and writers were killed: an automatic checkpoint goes only when
\* Keep newer ones of its kind were made, or by --rm (prune).
THEOREM NewestStay == Spec => []NewestKept
<1>1. Init => TypeInv /\ LockInv /\ RetainInv
    BY TypeInit, LockInit, ImageIsNoName, Processes
       DEF Init, Named, RetainInv, RetainNow, RetainSettled, Retained
<1>2. TypeInv /\ LockInv /\ RetainInv /\ [Next]_vars => (TypeInv /\ LockInv /\ RetainInv)'
    BY TypeStep, LockStep, RetainStep
<1>3. TypeInv /\ RetainInv => NewestKept
    <2> SUFFICES ASSUME TypeInv, RetainInv, NEW n \in made \ removed, file[n] = NoInode
                 PROVE  ~(Cardinality(Newer(made, n)) < Keep)
        BY DEF NewestKept
    <2>1. n \in Names /\ made \subseteq Names /\ Outdated(n)
        BY DEF TypeInv, TypeOK, RetainInv, RetainNow, Retained, Outdated
    <2>2. Cardinality(Newer(made, n)) \in Nat
        BY <2>1, NewerGrows DEF Outdated, OutdatedIn
    <2> QED
        BY <2>1, <2>2, KeepAssumption DEF Outdated, OutdatedIn
<1> QED
    BY <1>1, <1>2, <1>3, PTL DEF Spec

\* What a prune still has to unlink, and what stays of a kind.
Left(w, kind) == Present(kind) \ victims[w]
AtMostKeep(set) == IsFiniteSet(set) /\ Cardinality(set) =< Keep

LEMMA FewerFit ==
    ASSUME NEW big, NEW small \in SUBSET big, AtMostKeep(big)
    PROVE  AtMostKeep(small)
<1>1. /\ IsFiniteSet(small) /\ Cardinality(small) =< Cardinality(big)
      /\ Cardinality(small) \in Nat /\ Cardinality(big) \in Nat
    BY FS_Subset, FS_CardinalityType DEF AtMostKeep
<1> QED
    BY <1>1, KeepAssumption DEF AtMostKeep

FewLeft == \A w \in Writers : pc[w] = "prune" => \A kind \in Pruned : AtMostKeep(Left(w, kind))

LEMMA FewStep == TypeInv /\ LockInv /\ FewLeft /\ [Next]_vars => FewLeft'
<1> SUFFICES ASSUME TypeInv, LockInv, FewLeft, [Next]_vars,
                    NEW w \in Writers, pc'[w] = "prune", NEW kind \in Pruned
             PROVE  AtMostKeep(Left(w, kind)')
    BY DEF FewLeft, AtMostKeep
<1> USE Processes
<1>t. TypeOK
    BY DEF TypeInv
\* It is enough that w was pruning and that nothing was added.
<1>less. ASSUME pc[w] = "prune", Left(w, kind)' \subseteq Left(w, kind)
         PROVE  AtMostKeep(Left(w, kind)')
    <2>1. AtMostKeep(Left(w, kind))
        BY <1>less DEF FewLeft
    <2> HIDE DEF Left
    <2> QED
        BY <1>less, <2>1, FewerFit
<1>1. CASE Bystands
    <2>1. pc[w] = "prune" /\ Left(w, kind)' = Left(w, kind)
        BY <1>1 DEF Bystands, Left, Present
    <2> QED
        BY <1>less, <2>1
<1>2. ASSUME NEW v \in Writers, Rename(v) PROVE FALSE
    <2>1. pc[v] = "rename" /\ pc'[v] = "list" /\ \A q \in Procs : q # v => pc'[q] = pc[q]
        BY <1>2, <1>t DEF Rename, Installed, Goto, TypeOK
    <2>2. w # v /\ pc[w] = "prune"
        BY <2>1
    <2> QED
        BY <2>1, <2>2 DEF LockInv, TmpOwned, Holding
<1>3. ASSUME NEW v \in Writers, List(v) PROVE AtMostKeep(Left(w, kind)')
    <2>1. /\ UNCHANGED file /\ pc[v] = "list" /\ \A q \in Procs : q # v => pc'[q] = pc[q]
          /\ victims'[v] = UNION {Excess(k) : k \in Pruned}
        BY <1>3, <1>t DEF List, Goto, unixVars, TypeOK
    <2>2. w = v
        BY <2>1 DEF LockInv, TmpOwned, Holding
    <2>3. Left(w, kind)' \subseteq Recent(kind)
        <3> SUFFICES ASSUME NEW n \in Present(kind), n \notin Excess(kind)
                     PROVE  Cardinality(Newer(Present(kind), n)) < Keep
            BY <2>1, <2>2 DEF Left, Present, Recent
        <3>1. Cardinality(Newer(Present(kind), n)) \in Nat
            BY NewerGrows DEF Present
        <3> QED
            BY <3>1, KeepAssumption DEF Excess
    <2> QED
        BY <2>3, RecentAreFew, FewerFit DEF AtMostKeep
<1>4. ASSUME NEW v \in Writers, PruneOne(v) PROVE AtMostKeep(Left(w, kind)')
    <2>1. PICK n \in victims[v] : /\ file' = [file EXCEPT ![n] = NoInode]
                                  /\ victims' = [victims EXCEPT ![v] = @ \ {n}]
        BY <1>4 DEF PruneOne
    <2>2. pc[w] = "prune" /\ w = v
        BY <1>4 DEF PruneOne, LockInv, TmpOwned, Holding
    <2>3. Left(w, kind)' \subseteq Left(w, kind)
        BY <1>t, <2>1, <2>2, ImageIsNoName DEF Left, Present, TypeOK
    <2> QED
        BY <1>less, <2>2, <2>3
<1>5. ASSUME NEW n \in Names, Remove(n) PROVE AtMostKeep(Left(w, kind)')
    <2>1. pc[w] = "prune" /\ victims' = victims /\ file' = [file EXCEPT ![n] = NoInode]
        BY <1>5 DEF Remove, procVars
    <2>2. Left(w, kind)' \subseteq Left(w, kind)
        BY <1>t, <2>1, ImageIsNoName DEF Left, Present, TypeOK
    <2> QED
        BY <1>less, <2>1, <2>2
<1>6. ~HostCrash
    BY DEF HostCrash
<1> QED
    BY <1>1, <1>2, <1>3, <1>4, <1>5, <1>6, PruneKinds

\* Retention bounds the directory: a writer that has unlinked what it listed
\* leaves at most Keep of a pruned kind, for every Keep, also when operators
\* remove checkpoints meanwhile (prune, under the flock of writeCheckpoint).
THEOREM KeepIsKept == Spec => []WithinKeep
<1>1. Init => TypeInv /\ LockInv /\ FewLeft
    BY TypeInit, LockInit, Processes DEF Init, FewLeft
<1>2. TypeInv /\ LockInv /\ FewLeft /\ [Next]_vars => (TypeInv /\ LockInv /\ FewLeft)'
    BY TypeStep, LockStep, FewStep
<1>3. FewLeft => WithinKeep
    <2> SUFFICES ASSUME FewLeft, NEW w \in Writers, pc[w] = "prune", victims[w] = {},
                        NEW kind \in Pruned
                 PROVE  Cardinality(Present(kind)) =< Keep
        BY DEF WithinKeep
    <2>1. AtMostKeep(Left(w, kind)) /\ Left(w, kind) = Present(kind)
        BY DEF FewLeft, Left
    <2> QED
        BY <2>1 DEF AtMostKeep
<1> QED
    BY <1>1, <1>2, <1>3, PTL DEF Spec

-----------------------------------------------------------------------------
(* The disk a restore replaces *)

Stops == {n \in Names : n.kind = "stop"}
OnImage == data[file[Image]]

\* A writer whose copy is, or will be, the disk the image holds now.
Fresh(w) ==
    /\ pc[w] \in {"stage", "copy", "rest"} => src[w] = file[Image]
    /\ pc[w] \in Filled /\ tmp[target[w]] # NoInode => data[tmp[target[w]]] = OnImage

\* Every stop checkpoint with a stamp after t holds that disk, and every one
\* being made will.
SavedSince(t) ==
    /\ \A n \in Stops : n.at > t /\ file[n] # NoInode => data[file[n]] = OnImage
    /\ \A w \in Writers : pc[w] \in Making /\ target[w] \in Stops /\ target[w].at > t => Fresh(w)

\* Stamps are not of the future.
Past ==
    /\ \A n \in Stops : file[n] # NoInode \/ stable.file[n] # NoInode => n.at =< clock
    /\ \A w \in Writers : pc[w] # "idle" /\ target[w] \in Stops => target[w].at =< clock

\* From the moment the ExecStopPost has its stamp the image stays as it is,
\* when the guest that stopped was not started under a restore.
Stopping ==
    ~early => \A w \in Writers : w = Post /\ pc[w] # "idle" =>
        target[w] \in Stops /\ SavedSince(target[w].at) /\ (pc[w] \in Making => Fresh(w))

\* What a prune will unlink has a newer one that stays, unless --rm takes it.
Known(n) == file[n] # NoInode \/ n \in removed
Spare ==
    \A w \in Writers : pc[w] = "prune" =>
        \A n \in victims[w] \cap Stops : \E m \in Stops \ victims[w] : m.at > n.at /\ Known(m)

\* The stop that named its copy holds on to the image's disk.
Saved ==
    saved => /\ vm # "up"
             /\ \E t \in 0 .. MaxClock : SavedSince(t) /\ \E n \in Stops : n.at > t /\ Known(n)

SavedInv == Past /\ Stopping /\ Spare /\ Saved

LEMMA StopDates ==
    /\ Stops \subseteq Names /\ Stops \subseteq Files /\ Image \notin Stops
    /\ \A n \in Stops : n.at \in 1 .. MaxClock /\ n = [kind |-> "stop", at |-> n.at]
    /\ MaxClock \in Nat
BY ImageIsNoName, Dated, BoundAssumption DEF Stops, Pruned, Stamps

\* Where a writer's name comes from.
LEMMA TargetKept ==
    ASSUME TypeInv, [Next]_vars, NEW w \in Writers, pc'[w] # "idle"
    PROVE  \/ /\ pc[w] # "idle" /\ target'[w] = target[w]
              /\ pc'[w] \in Making => pc[w] \in Making \cup {"sweep"}
           \/ /\ pc'[w] = "lock" /\ target'[w] = CheckpointName(Label(w)) /\ UNCHANGED clock
              /\ w = Post => CleanExit
<1> DEFINE Kept == /\ pc[w] # "idle" /\ target'[w] = target[w]
                   /\ pc'[w] \in Making => pc[w] \in Making \cup {"sweep"}
<1> USE Processes
<1>t. TypeOK
    BY DEF TypeInv
<1>go. ASSUME NEW p \in Procs, NEW label, Goto(p, label), UNCHANGED target,
              p \in Writers => pc[p] # "idle" /\ (label \in Making => pc[p] \in Making \cup {"sweep"})
       PROVE  Kept
    BY <1>go, <1>t DEF Goto, TypeOK
<1>end. ASSUME NEW p \in Procs, End(p) PROVE Kept
    BY <1>end, <1>t DEF End, Goto, TypeOK
<1>same. UNCHANGED <<pc, target>> => Kept
    OBVIOUS
<1> HIDE DEF Kept
<1>1. ASSUME NEW v \in Writers, StartWriter(v)
      PROVE  \/ Kept
             \/ /\ pc'[w] = "lock" /\ target'[w] = CheckpointName(Label(w)) /\ UNCHANGED clock
                /\ w = Post => CleanExit
    BY <1>1, <1>t DEF StartWriter, Goto, TypeOK, Label, Kept
<1>2. ASSUME NEW v \in Writers, Lock(v) \/ List(v) \/ Rename(v) PROVE Kept
    BY <1>2, <1>go DEF Lock, List, Rename, Installed, Making
<1>3. ASSUME NEW v \in Writers, Sweep(v) PROVE Kept
    BY <1>3, <1>go, <1>end DEF Sweep
<1>4. ASSUME NEW p \in Procs, Stage(p) \/ Clone(p) \/ CopyHead(p) \/ CopyRest(p) \/ Sync(p)
      PROVE  Kept
    BY <1>4, <1>go DEF Stage, Clone, CopyHead, CopyRest, Sync, Making
<1>5. ASSUME NEW p \in Procs, Fail(p) \/ Kill(p) PROVE Kept
    BY <1>5, <1>end DEF Fail, Kill
<1>6. ASSUME NEW v \in Writers, Finish(v) PROVE Kept
    BY <1>6, <1>end DEF Finish
<1>7. ASSUME NEW v \in Writers, PruneOne(v) PROVE Kept
    BY <1>7, <1>same DEF PruneOne
<1>8. ASSUME NEW r \in Restorers, StopUnit(r) \/ UnitStopped(r) \/ Replace(r) PROVE Kept
    BY <1>8, <1>go DEF StopUnit, UnitStopped, Replace
<1>9. ASSUME NEW r \in Restorers, NEW n \in Names, OpenSource(r, n) PROVE Kept
    BY <1>9, <1>t DEF OpenSource, Goto, TypeOK, Kept
<1>10. ASSUME NEW r \in Restorers, StartUnit(r) PROVE Kept
    BY <1>10, <1>end DEF StartUnit
<1>11. ASSUME \/ \E n \in Names : Remove(n)
              \/ Tick \/ GuestWrite \/ UnitStart \/ FailedExit \/ Commit \/ UNCHANGED vars
       PROVE  Kept
    BY <1>11, <1>same DEF Remove, Tick, GuestWrite, UnitStart, FailedExit, Commit, vars, procVars
<1>12. CASE CleanExit
    <2>1. CASE OnStop /\ w = Post
        BY <1>12, <1>t, <2>1 DEF CleanExit, Goto, TypeOK, Label
    <2>2. CASE ~(OnStop /\ w = Post)
        <3>1. pc'[w] = pc[w] /\ target'[w] = target[w]
            BY <1>12, <1>t, <2>2 DEF CleanExit, Goto, TypeOK
        <3> QED
            BY <3>1 DEF Kept
    <2> QED
        BY <2>1, <2>2
<1>13. HostCrash => FALSE
    BY DEF HostCrash
<1> QED
    BY <1>1, <1>2, <1>3, <1>4, <1>5, <1>6, <1>7, <1>8, <1>9, <1>10, <1>11, <1>12, <1>13
       DEF Next, WriterStep, RestoreStep, Copying, Procs, Kept

\* A name is new only by a writer's rename, and the image by a restore's, until
\* the host crashes.
LEMMA NamedBy ==
    ASSUME TypeInv, LockInv, [Next]_vars, ~HostCrash
    PROVE  /\ \A n \in Names : \/ file'[n] \in {file[n], NoInode}
                             \/ \E w \in Writers : Rename(w) /\ n = target[w] /\ file'[n] = tmp[n]
           /\ file'[Image] = file[Image] \/ \E r \in Restorers : Replace(r)
<1> DEFINE Goal == /\ \A n \in Names :
                        \/ file'[n] \in {file[n], NoInode}
                        \/ \E w \in Writers : Rename(w) /\ n = target[w] /\ file'[n] = tmp[n]
                   /\ file'[Image] = file[Image] \/ \E r \in Restorers : Replace(r)
<1> USE Processes, ImageIsNoName
<1>t. TypeOK
    BY DEF TypeInv
<1>1. CASE UNCHANGED file
    BY <1>1
<1>2. ASSUME NEW w \in Writers, Rename(w) PROVE Goal
    <2>1. \A f \in Files : file'[f] = IF f = target[w] THEN tmp[target[w]] ELSE file[f]
        BY <1>2, <1>t DEF Rename, Installed, TypeOK
    <2>2. target[w] # Image
        BY <1>2 DEF Rename, Installed, TypeInv, Opened
    <2> QED
        BY <1>2, <2>1, <2>2
<1>3. ASSUME NEW n \in Names, file' = [file EXCEPT ![n] = NoInode] PROVE Goal
    BY <1>3, <1>t DEF TypeOK
<1>4. ASSUME NEW r \in Restorers, Replace(r) PROVE Goal
    BY <1>4, <1>t DEF Replace, Installed, LockInv, RestoresImage, TypeOK
<1> HIDE DEF Goal
<1>5. ASSUME NEW w \in Writers, PruneOne(w) PROVE Goal
    BY <1>3, <1>5, <1>t DEF PruneOne, TypeOK
<1>6. ASSUME NEW n \in Names, Remove(n) PROVE Goal
    BY <1>3, <1>6 DEF Remove
<1>7. GuestWrite \/ Calm \/ Commit => UNCHANGED file
    BY DEF GuestWrite, Calm, Commit
<1>8. ASSUME NEW r \in Restorers, NEW n \in Names, OpenSource(r, n) PROVE UNCHANGED file
    BY <1>8 DEF OpenSource, unixVars
<1> QED
    BY <1>1, <1>2, <1>4, <1>5, <1>6, <1>7, <1>8, StepKinds DEF Goal

\* While the guest is gone and no restore installs, a copy of the image's disk
\* stays one.
LEMMA FreshStep ==
    ASSUME OneRestore, SafeInv, [Next]_vars, vm # "up", \A r \in Restorers : ~Replace(r),
           file'[Image] = file[Image], NEW w \in Writers, pc'[w] \in Making, pc[w] \in Making => Fresh(w)
    PROVE  Fresh(w)'
<1> USE Processes, ImageIsNoName
<1>t. TypeInv /\ TypeOK /\ LockInv /\ Disks
    BY DEF SafeInv, TypeInv, WholeInv
<1>k. target'[w] = target[w] /\ pc[w] \in Making \cup {"sweep"}
    <2>1. pc'[w] # "idle" /\ pc'[w] # "lock"
        BY DEF Making
    <2> QED
        BY <1>t, <2>1, TargetKept
<1>g. ~GuestWrite
    BY DEF GuestWrite
<1>i. OnImage' = OnImage
    <2>1. file[Image] # NoInode
        BY <1>t DEF TypeInv, Opened
    <2> QED
        BY <1>g, <2>1, FilesStill DEF Still, OnImage
<1>f. target[w] \in Files
    BY <1>t DEF TypeOK
\* It is enough that w stayed where it was, and lost its copy at most.
<1>same. ASSUME UNCHANGED data, pc'[w] = pc[w], src'[w] = src[w], tmp'[target[w]] \in {tmp[target[w]], NoInode}
         PROVE  Fresh(w)'
    BY <1>same, <1>i, <1>k DEF Fresh, OnImage, Making
<1>other. ASSUME NEW p \in Procs, NEW label, Goto(p, label), label \notin Making,
                 UNCHANGED <<data, src>>, tmp'[target[w]] \in {tmp[target[w]], NoInode}
          PROVE  Fresh(w)'
    BY <1>other, <1>same, <1>t DEF Goto, TypeOK
<1>end. ASSUME NEW p \in Procs, End(p), UNCHANGED data, tmp'[target[w]] \in {tmp[target[w]], NoInode}
        PROVE  Fresh(w)'
    BY <1>end, <1>same, <1>t DEF End, Goto, TypeOK, Making
<1>1. ASSUME NEW v \in Writers, StartWriter(v) \/ Lock(v) \/ List(v) PROVE Fresh(w)'
    BY <1>1, <1>other, <1>k DEF StartWriter, Lock, List, unixVars, Making
<1>2. ASSUME NEW v \in Writers, Sweep(v) PROVE Fresh(w)'
    <2>1. v = w
        BY <1>2, <1>t, <1>k DEF Sweep, LockInv, TmpOwned, Holding, Making
    <2>2. pc'[w] = "stage" /\ src'[w] = file[Image]
        BY <1>2, <1>t, <1>k, <2>1 DEF Sweep, End, Goto, TypeOK, Making
    <2> QED
        BY <1>k, <2>2 DEF Fresh, Filled
<1>3. ASSUME NEW p \in Procs, Stage(p) \/ Clone(p) \/ CopyHead(p) \/ CopyRest(p) PROVE Fresh(w)'
    <2>0. PICK c : /\ Puts(p, c) /\ pc[p] \in {"stage", "copy", "rest"} /\ UNCHANGED <<target, src>>
                   /\ \E label \in {"copy", "rest", "sync"} :
                        Goto(p, label) /\ (label = "sync" => c = data[src[p]])
        BY <1>3, <1>t, CopyPuts
    <2>1. PICK label \in {"copy", "rest", "sync"} : Goto(p, label) /\ (label = "sync" => c = data[src[p]])
        BY <2>0
    <2>2. \A q \in Procs : pc'[q] = IF q = p THEN label ELSE pc[q]
        BY <1>t, <2>1 DEF Goto, TypeOK
    <2>3. pc[p] \in Swept /\ pc[w] \in Making
        BY <1>k, <2>0, <2>1, <2>2 DEF Swept, Holding, Making
    <2>4. CASE p = w
        BY <1>i, <1>k, <2>0, <2>1, <2>2, <2>3, <2>4 DEF Fresh, Puts, OnImage, Filled
    <2>5. CASE p # w
        <3>1. pc[w] \in Filled => /\ tmp'[target[w]] = tmp[target[w]]
                                  /\ tmp[target[w]] # NoInode => data'[tmp[target[w]]] = data[tmp[target[w]]]
            BY <1>t, <2>0, <2>3, <2>5, PutsApart
        <3> QED
            BY <1>i, <1>k, <2>0, <2>1, <2>2, <2>3, <2>5, <3>1 DEF Fresh, OnImage
    <2> QED
        BY <2>4, <2>5
<1>4. ASSUME NEW p \in Procs, Sync(p) PROVE Fresh(w)'
    <2>1. /\ UNCHANGED <<data, tmp, src>> /\ pc[p] = "sync"
          /\ \A q \in Procs : pc'[q] = IF q = p THEN "rename" ELSE pc[q]
        BY <1>4, <1>t DEF Sync, Goto, TypeOK
    <2> QED
        BY <1>i, <1>k, <2>1 DEF Fresh, OnImage, Filled, Making
<1>5. ASSUME NEW p \in Procs, Fail(p) \/ Kill(p) PROVE Fresh(w)'
    BY <1>5, <1>end, <1>t, <1>f DEF Fail, Kill, unixVars, TypeOK
<1>6. ASSUME NEW v \in Writers, Rename(v) PROVE Fresh(w)'
    <2>1. tmp'[target[w]] \in {tmp[target[w]], NoInode}
        BY <1>6, <1>t, <1>f DEF Rename, Installed, TypeOK
    <2> QED
        BY <1>6, <2>1, <1>other DEF Rename, Making
<1>7. ASSUME NEW v \in Writers, Finish(v) PROVE Fresh(w)'
    BY <1>7, <1>end DEF Finish, unixVars
<1>8. ASSUME NEW v \in Writers, PruneOne(v) PROVE Fresh(w)'
    BY <1>8, <1>same DEF PruneOne
<1>9. ASSUME NEW r \in Restorers, StopUnit(r) PROVE Fresh(w)'
    BY <1>9, <1>other DEF StopUnit, unixVars, Making
<1>10. ASSUME NEW r \in Restorers, UnitStopped(r) PROVE Fresh(w)'
    <2>1. pc'[w] = pc[w]
        BY <1>10, <1>t DEF UnitStopped, Goto, TypeOK
    <2> QED
        BY <1>10, <1>same, <2>1 DEF UnitStopped, unixVars
<1>11. ASSUME NEW r \in Restorers, NEW n \in Names, OpenSource(r, n) PROVE Fresh(w)'
    <2>1. pc'[w] = pc[w] /\ src'[w] = src[w]
        BY <1>11, <1>t DEF OpenSource, Goto, TypeOK
    <2> QED
        BY <1>11, <1>same, <2>1 DEF OpenSource, unixVars
<1>12. ASSUME NEW r \in Restorers, StartUnit(r) PROVE Fresh(w)'
    BY <1>12, <1>end DEF StartUnit, unixVars
<1>13. ASSUME \/ \E n \in Names : Remove(n)
              \/ Tick \/ UnitStart \/ Commit \/ UNCHANGED vars
       PROVE  Fresh(w)'
    BY <1>13, <1>same DEF Remove, Tick, UnitStart, Commit, vars, unixVars, procVars
<1>14. ~CleanExit /\ ~FailedExit
    BY DEF CleanExit, FailedExit
<1>15. ~HostCrash
    BY DEF HostCrash, Making
<1> QED
    BY <1>g, <1>1, <1>2, <1>3, <1>4, <1>5, <1>6, <1>7, <1>8, <1>9, <1>10, <1>11, <1>12, <1>13, <1>14, <1>15
       DEF Next, WriterStep, RestoreStep, Copying, Procs

\* So what the stop checkpoints since t hold stays the image's disk.
LEMMA SavedSinceStep ==
    ASSUME OneRestore, SafeInv, [Next]_vars, vm # "up", \A r \in Restorers : ~Replace(r), ~HostCrash,
           NEW t \in 0 .. MaxClock, SavedSince(t)
    PROVE  SavedSince(t)' /\ OnImage' = OnImage
<1> USE Processes, ImageIsNoName
<1>t. TypeInv /\ TypeOK /\ LockInv /\ Disks /\ file[Image] # NoInode
    BY DEF SafeInv, TypeInv, WholeInv, Opened
<1>g. ~GuestWrite /\ Still
    BY FilesStill DEF GuestWrite
<1>i. file'[Image] = file[Image] /\ OnImage' = OnImage
    BY <1>t, <1>g, NamedBy DEF Still, OnImage
<1>1. ASSUME NEW n \in Stops, n.at > t, file'[n] # NoInode
      PROVE  data'[file'[n]] = OnImage
    <2>0. n \in Files
        BY StopDates
    <2>1. CASE file'[n] = file[n]
        BY <1>1, <1>g, <2>0, <2>1 DEF Still, SavedSince
    <2>2. CASE file'[n] # file[n]
        <3>1. PICK w \in Writers : Rename(w) /\ n = target[w] /\ file'[n] = tmp[n]
            BY <1>1, <1>t, <2>2, NamedBy DEF Stops
        <3>2. pc[w] = "rename" /\ UNCHANGED data
            BY <3>1 DEF Rename, Installed
        <3>3. Fresh(w)
            BY <1>1, <3>1, <3>2 DEF SavedSince, Making
        <3> QED
            BY <1>1, <3>1, <3>2, <3>3 DEF Fresh, Filled
    <2> QED
        BY <2>1, <2>2
<1>2. ASSUME NEW w \in Writers, pc'[w] \in Making, target'[w] \in Stops, target'[w].at > t
      PROVE  Fresh(w)'
    <2>1. pc'[w] # "idle" /\ pc'[w] # "lock"
        BY <1>2 DEF Making
    <2>2. target'[w] = target[w]
        BY <1>t, <2>1, TargetKept
    <2>3. pc[w] \in Making => Fresh(w)
        BY <1>2, <2>2 DEF SavedSince
    <2> QED
        BY <1>i, <1>2, <2>3, FreshStep
<1> QED
    BY <1>i, <1>1, <1>2 DEF SavedSince, Stops, Names, Stamps

LEMMA PastStep ==
    ASSUME TypeInv, LockInv, Past, [Next]_vars PROVE Past' /\ clock =< clock'
<1> USE Processes, ImageIsNoName, StopDates
<1>t. TypeOK /\ clock \in Nat
    BY DEF TypeInv, TypeOK, Stamps
<1>c. clock =< clock' /\ clock' \in Nat
    <2>1. CASE UNCHANGED clock
        BY <1>t, <2>1
    <2>2. CASE Tick
        BY <1>t, <2>2 DEF Tick
    <2> QED
        BY <2>1, <2>2 DEF Next, StartWriter, WriterStep, RestoreStep, Copying, Lock, Sweep, Stage, Clone, CopyHead,
           CopyRest, Sync, Fail, Rename, List, PruneOne, Finish, Remove, OpenSource, StopUnit, UnitStopped,
           Replace, StartUnit, GuestWrite, UnitStart, CleanExit, FailedExit, Kill, Commit, HostCrash, bounds, vars
<1>1. ASSUME NEW w \in Writers, pc'[w] # "idle", target'[w] \in Stops PROVE target'[w].at =< clock'
    <2>1. CASE pc[w] # "idle" /\ target'[w] = target[w]
        BY <1>1, <1>c, <1>t, <2>1 DEF Past
    <2>2. CASE target'[w] = CheckpointName(Label(w)) /\ UNCHANGED clock
        BY <1>1, <1>t, <2>2 DEF CheckpointName, Stops, Automatic
    <2> QED
        BY <1>1, <2>1, <2>2, TargetKept DEF TypeInv
<1>2. ASSUME NEW n \in Stops, file'[n] # NoInode \/ stable'.file[n] # NoInode PROVE n.at =< clock'
    <2>1. CASE file[n] # NoInode \/ stable.file[n] # NoInode
        BY <1>c, <1>t, <2>1 DEF Past
    <2>2. ASSUME NEW w \in Writers, Rename(w), n = target[w] PROVE n.at =< clock'
        BY <1>c, <1>t, <2>2 DEF Past, Rename, Installed
    <2>3. CASE HostCrash
        BY <1>2, <2>1, <2>3 DEF HostCrash
    <2>4. CASE Commit
        BY <1>2, <2>1, <2>4 DEF Commit, Named
    <2> QED
        BY <1>2, <2>1, <2>2, <2>3, <2>4, NamedBy, StableMoves DEF Stops
<1> QED
    BY <1>c, <1>1, <1>2 DEF Past, Stops, Names, Stamps

\* prune never lists the newest of a kind.
LEMMA NewestStays ==
    ASSUME NEW kind \in Pruned, NEW n \in Excess(kind)
    PROVE  \E m \in Present(kind) \ Excess(kind) : m.at > n.at
<1> DEFINE S == Newer(Present(kind), n)
<1>0. /\ Present(kind) \in SUBSET Names /\ S \in SUBSET Names /\ n \in Present(kind)
      /\ \A m \in Present(kind) : m.kind = kind /\ m.at \in Nat
      /\ \A m \in S : m \in Present(kind) /\ m.kind = kind /\ m.at > n.at
    BY Dated DEF Present, Newer, Excess
<1>1. S # {}
    BY FS_EmptySet, KeepAssumption DEF Excess
<1>2. PICK m \in S : \A x \in S : x.at =< m.at
    BY <1>0, <1>1, NewestOf
<1>3. Newer(Present(kind), m) = {}
    <2> SUFFICES ASSUME NEW x \in Newer(Present(kind), m) PROVE FALSE
        OBVIOUS
    <2>1. x \in Present(kind) /\ x.at > m.at /\ m.at > n.at
        BY <1>0 DEF Newer
    <2>2. x.at \in Nat /\ m.at \in Nat /\ n.at \in Nat
        BY <1>0, <2>1
    <2>3. x \in S
        BY <1>0, <2>1, <2>2 DEF Newer
    <2> QED
        BY <1>2, <2>1, <2>2, <2>3
<1>4. m \notin Excess(kind)
    BY <1>3, FS_EmptySet, KeepAssumption DEF Excess
<1> QED
    BY <1>0, <1>2, <1>4

LEMMA SpareStep ==
    ASSUME TypeInv, LockInv, Spare, [Next]_vars PROVE Spare'
<1> USE Processes, StopDates
<1>t. TypeOK /\ \A p \in Procs : victims[p] \subseteq Names
    BY DEF TypeInv, TypeOK
<1>s. Stops' = Stops
    BY DEF Stops, Names, Stamps
<1> SUFFICES ASSUME NEW w \in Writers, pc'[w] = "prune", NEW n \in victims'[w], n \in Stops
             PROVE  \E m \in Stops : m \notin victims'[w] /\ m.at > n.at /\ Known(m)'
    BY <1>s DEF Spare
\* It is enough that w was pruning, and that what stays is not lost.
<1>keep. ASSUME pc[w] = "prune", victims'[w] \subseteq victims[w],
                \A m \in Stops : Known(m) /\ m \notin victims[w] => Known(m)'
         PROVE  \E m \in Stops : m \notin victims'[w] /\ m.at > n.at /\ Known(m)'
    BY <1>keep DEF Spare
<1>1. CASE Bystands
    <2>1. \A m \in Stops : Known(m)' <=> Known(m)
        BY <1>1 DEF Bystands, Known
    <2> QED
        BY <1>1, <1>keep, <2>1 DEF Bystands
<1>2. ASSUME NEW v \in Writers, Rename(v) PROVE FALSE
    <2>1. pc[v] = "rename" /\ pc'[v] = "list" /\ \A q \in Procs : q # v => pc'[q] = pc[q]
        BY <1>2, <1>t DEF Rename, Installed, Goto, TypeOK
    <2>2. w # v /\ pc[w] = "prune"
        BY <2>1
    <2> QED
        BY <2>1, <2>2 DEF LockInv, TmpOwned, Holding
<1>3. ASSUME NEW v \in Writers, List(v)
      PROVE  \E m \in Stops : m \notin victims'[w] /\ m.at > n.at /\ Known(m)'
    <2>1. /\ UNCHANGED <<file, removed>> /\ pc[v] = "list" /\ \A q \in Procs : q # v => pc'[q] = pc[q]
          /\ victims'[v] = UNION {Excess(k) : k \in Pruned}
        BY <1>3, <1>t DEF List, Goto, unixVars, history, TypeOK
    <2>2. w = v
        BY <2>1 DEF LockInv, TmpOwned, Holding
    <2>3. \A k : \A x \in Excess(k) : x.kind = k
        BY DEF Excess, Present
    <2>4. n \in Excess("stop") /\ "stop" \in Pruned
        BY <2>1, <2>2, <2>3 DEF Stops, Pruned
    <2>5. PICK m \in Present("stop") \ Excess("stop") : m.at > n.at
        BY <2>4, NewestStays
    <2>6. m \in Stops /\ file[m] # NoInode /\ m \notin victims'[w]
        BY <2>1, <2>2, <2>3 DEF Present, Stops
    <2> QED
        BY <2>1, <2>5, <2>6 DEF Known
<1>4. ASSUME NEW v \in Writers, PruneOne(v)
      PROVE  \E m \in Stops : m \notin victims'[w] /\ m.at > n.at /\ Known(m)'
    <2>1. PICK x \in victims[v] : /\ file' = [file EXCEPT ![x] = NoInode]
                                  /\ victims' = [victims EXCEPT ![v] = @ \ {x}]
        BY <1>4 DEF PruneOne
    <2>2. pc[w] = "prune" /\ w = v /\ UNCHANGED removed
        BY <1>4 DEF PruneOne, LockInv, TmpOwned, Holding, history
    <2>3. \A m \in Stops : Known(m) /\ m \notin victims[w] => Known(m)'
        BY <1>t, <2>1, <2>2 DEF Known, TypeOK
    <2>4. victims'[w] \subseteq victims[w]
        BY <1>t, <2>1, <2>2 DEF TypeOK
    <2> QED
        BY <1>keep, <2>2, <2>3, <2>4
<1>5. ASSUME NEW x \in Names, Remove(x)
      PROVE  \E m \in Stops : m \notin victims'[w] /\ m.at > n.at /\ Known(m)'
    <2>1. /\ pc[w] = "prune" /\ victims' = victims /\ file' = [file EXCEPT ![x] = NoInode]
          /\ removed' = removed \cup {x}
        BY <1>5 DEF Remove, procVars
    <2>2. \A m \in Stops : Known(m) => Known(m)'
        BY <1>t, <2>1 DEF Known, TypeOK
    <2> QED
        BY <1>keep, <2>1, <2>2
<1>6. ~HostCrash
    BY DEF HostCrash
<1> QED
    BY <1>1, <1>2, <1>3, <1>4, <1>5, <1>6, PruneKinds

\* Only a unit that starts was started under a restore.
LEMMA EarlyMoves == [Next]_vars => UNCHANGED early \/ (vm # "post" /\ vm' = "up")
BY DEF Next, vars, history, StartWriter, WriterStep, Lock, Sweep, Copying, Stage, Clone, CopyHead,
   CopyRest, Sync, Fail, Rename, List, PruneOne, Finish, RestoreStep, OpenSource, StopUnit,
   UnitStopped, Replace, StartUnit, Boots, Kill, Remove, Tick, GuestWrite, UnitStart, CleanExit,
   FailedExit, Commit, HostCrash

LEMMA StoppingStep ==
    ASSUME OneRestore, SafeInv, Past, Stopping, [Next]_vars PROVE Stopping'
<1> USE Processes, StopDates
<1>t. TypeInv /\ TypeOK /\ LockInv /\ Units
    BY DEF SafeInv, TypeInv, WholeInv
<1>p. Past' /\ clock \in Nat
    BY <1>t, PastStep DEF TypeOK, Stamps
<1>s. Stops' = Stops
    BY DEF Stops, Names, Stamps
<1> SUFFICES ASSUME ~early', NEW w \in Writers, w = Post, pc'[w] # "idle"
             PROVE  /\ target'[w] \in Stops /\ SavedSince(target[w].at)'
                    /\ pc'[w] \in Making => Fresh(w)'
    BY <1>s DEF Stopping
<1>1. CASE /\ pc[w] # "idle" /\ target'[w] = target[w]
           /\ pc'[w] \in Making => pc[w] \in Making \cup {"sweep"}
    <2>0. vm = "post" /\ ~early
        BY <1>t, <1>1, EarlyMoves DEF Units, Posted
    <2>1. target[w] \in Stops /\ SavedSince(target[w].at) /\ (pc[w] \in Making => Fresh(w))
        BY <1>t, <1>1, <2>0 DEF Stopping
    <2>2. (\A r \in Restorers : ~Replace(r)) /\ ~HostCrash
        BY <1>t, <2>0 DEF Replace, Installed, Units, Attached, Replacing, HostCrash
    <2>3. file'[Image] = file[Image]
        BY <1>t, <2>2, NamedBy
    <2> PICK t \in 0 .. MaxClock : t = target[w].at
        BY <2>1
    <2>5. SavedSince(t)'
        BY <2>0, <2>1, <2>2, SavedSinceStep
    <2>6. pc'[w] \in Making => Fresh(w)'
        BY <2>0, <2>1, <2>2, <2>3, FreshStep
    <2>7. SavedSince(target[w].at)'
        BY <1>1, <2>5 DEF SavedSince
    <2> QED
        BY <1>1, <2>1, <2>6, <2>7
<1>2. CASE CleanExit /\ pc'[w] = "lock" /\ target'[w] = CheckpointName(Label(w)) /\ UNCHANGED clock
    <2>1. target'[w] = [kind |-> "stop", at |-> clock] /\ target'[w].at = clock'
        BY <1>2 DEF CheckpointName, Label, Word, Automatic
    <2>2. target'[w] \in Stops
        BY <1>t, <2>1 DEF Stops, Names, Automatic, TypeOK
    <2>3. \A n \in Stops : n.at \in Nat
        OBVIOUS
    <2>4. \A n \in Stops : ~(n.at > clock' /\ file'[n] # NoInode)
        BY <1>p, <1>s, <1>2, <2>3 DEF Past
    <2>5. \A v \in Writers : pc'[v] \in Making /\ target'[v] \in Stops => ~(target'[v].at > clock')
        BY <1>p, <1>s, <1>2, <2>3 DEF Past, Making
    <2>6. SavedSince(target[w].at)'
        BY <1>s, <2>1, <2>4, <2>5 DEF SavedSince
    <2>7. pc'[w] \notin Making
        BY <1>2 DEF Making
    <2> QED
        BY <2>2, <2>6, <2>7
<1> QED
    BY <1>t, <1>1, <1>2, TargetKept

\* A disk becomes saved by the ExecStopPost's rename, and stays so only while
\* the guest is gone, no restore installs and the host does not crash.
LEMMA SavedKinds ==
    ASSUME [Next]_vars, saved'
    PROVE  /\ ~HostCrash
           /\ \/ \E w \in Writers : w = Post /\ Rename(w) /\ ~early
              \/ saved /\ (vm # "up" => vm' # "up") /\ \A r \in Restorers : ~Replace(r)
<1> DEFINE Goal == \/ \E w \in Writers : w = Post /\ Rename(w) /\ ~early
                   \/ saved /\ (vm # "up" => vm' # "up") /\ \A r \in Restorers : ~Replace(r)
<1>0. \A r \in Restorers : ~Replace(r)
    BY DEF Replace
<1>same. UNCHANGED <<vm, saved>> => Goal
    BY <1>0
<1>after. ASSUME NEW p, UnitAfter(p), UNCHANGED saved PROVE Goal
    BY <1>0, <1>after DEF UnitAfter, Inactive
<1>1. ASSUME NEW w \in Writers, StartWriter(w) \/ Lock(w) \/ List(w) \/ PruneOne(w) PROVE Goal
    BY <1>1, <1>same DEF StartWriter, Lock, List, PruneOne, vmVars, history
<1>2. ASSUME NEW w \in Writers, Sweep(w) PROVE Goal
    BY <1>2, <1>same, <1>after DEF Sweep, history
<1>3. ASSUME NEW p \in Procs, Stage(p) \/ Clone(p) \/ CopyHead(p) \/ CopyRest(p) \/ Sync(p) PROVE Goal
    BY <1>3, <1>same DEF Stage, Clone, CopyHead, CopyRest, Sync, vmVars, history
<1>4. ASSUME NEW p \in Procs, Fail(p) \/ Kill(p) PROVE Goal
    BY <1>4, <1>after DEF Fail, Kill, history
<1>5. ASSUME NEW w \in Writers, Finish(w) PROVE Goal
    BY <1>5, <1>after DEF Finish, history
<1>6. ASSUME NEW w \in Writers, Rename(w) PROVE Goal
    BY <1>0, <1>6 DEF Rename, vmVars
<1>7. ASSUME NEW r \in Restorers, StopUnit(r) \/ UnitStopped(r) PROVE Goal
    BY <1>7, <1>same DEF StopUnit, UnitStopped, vmVars, history
<1>8. ASSUME NEW r \in Restorers, NEW n \in Names, OpenSource(r, n) PROVE Goal
    BY <1>8, <1>same DEF OpenSource, vmVars
<1>9. ASSUME NEW r \in Restorers, StartUnit(r) PROVE Goal
    BY <1>0, <1>9 DEF StartUnit, Boots
<1>10. ASSUME NEW n \in Names, Remove(n) PROVE Goal
    BY <1>10, <1>same DEF Remove, vmVars
<1>11. ASSUME Tick \/ GuestWrite \/ Commit \/ UNCHANGED vars PROVE Goal
    BY <1>11, <1>same DEF Tick, GuestWrite, Commit, vmVars, history, vars
<1>12. ASSUME CleanExit \/ FailedExit PROVE Goal
    BY <1>0, <1>12 DEF CleanExit, FailedExit, Inactive, history
<1>13. ~UnitStart /\ ~HostCrash
    BY DEF UnitStart, Boots, HostCrash
<1> QED
    BY <1>0, <1>1, <1>2, <1>3, <1>4, <1>5, <1>6, <1>7, <1>8, <1>9, <1>10, <1>11, <1>12, <1>13
       DEF Next, WriterStep, RestoreStep, Copying, Procs

\* What is known stays known, unless it is pruned.
LEMMA KnownStep ==
    ASSUME TypeInv, LockInv, [Next]_vars, ~HostCrash, NEW n \in Stops, Known(n)
    PROVE  Known(n)' \/ \E w \in Writers : PruneOne(w) /\ n \in victims[w]
<1> USE StopDates
<1>t. TypeOK
    BY DEF TypeInv
<1>1. CASE Bystands
    BY <1>1 DEF Bystands, Known
<1>2. ASSUME NEW w \in Writers, Rename(w) PROVE Known(n)'
    <2>1. CASE n = target[w]
        BY <1>2, <1>t, <2>1 DEF Rename, Installed, Known, TypeOK
    <2>2. CASE n # target[w]
        BY <1>2, <1>t, <2>2 DEF Rename, Installed, Known, TypeOK
    <2> QED
        BY <2>1, <2>2
<1>3. ASSUME NEW w \in Writers, List(w) PROVE Known(n)'
    BY <1>3 DEF List, unixVars, history, Known
<1>4. ASSUME NEW w \in Writers, PruneOne(w), n \notin victims[w] PROVE Known(n)'
    BY <1>4, <1>t DEF PruneOne, history, Known, TypeOK
<1>5. ASSUME NEW m \in Names, Remove(m) PROVE Known(n)'
    BY <1>5, <1>t DEF Remove, Known, TypeOK
<1> QED
    BY <1>1, <1>2, <1>3, <1>4, <1>5, PruneKinds

LEMMA SavedStep ==
    ASSUME OneRestore, SafeInv, SavedInv, [Next]_vars PROVE Saved'
<1> USE Processes, StopDates
<1>t. /\ TypeInv /\ TypeOK /\ LockInv /\ Units /\ Disks /\ Past /\ Stopping /\ Spare /\ Saved
      /\ clock \in Nat
    BY DEF SafeInv, TypeInv, TypeOK, WholeInv, SavedInv, Stamps
<1>s. Stops' = Stops
    BY DEF Stops, Names, Stamps
<1> SUFFICES ASSUME saved'
             PROVE  /\ vm' # "up"
                    /\ \E t \in 0 .. MaxClock : SavedSince(t)' /\ \E n \in Stops : n.at > t /\ Known(n)'
    BY <1>s DEF Saved
<1>h. ~HostCrash
    BY SavedKinds
<1>1. ASSUME NEW w \in Writers, w = Post, Rename(w), ~early
      PROVE  /\ vm' # "up"
             /\ \E t \in 0 .. MaxClock : SavedSince(t)' /\ \E n \in Stops : n.at > t /\ Known(n)'
    <2>1. /\ pc[w] = "rename" /\ tmp[target[w]] # NoInode /\ UNCHANGED <<vm, data, target>>
          /\ pc'[w] = "list" /\ \A q \in Procs : q # w => pc'[q] = pc[q]
        BY <1>1, <1>t DEF Rename, Installed, Goto, vmVars, TypeOK
    <2>2. vm = "post" /\ target[w] \in Stops /\ SavedSince(target[w].at) /\ Fresh(w)
        BY <1>1, <1>t, <2>1 DEF Units, Posted, Stopping, Making
    <2>3. \A r \in Restorers : ~Replace(r)
        BY <1>1, <1>t, <2>2 DEF Replace, Installed, Units, Attached, Replacing
    <2> PICK n \in Stops : n = target[w]
        BY <2>2
    <2> PICK t \in 0 .. MaxClock : t = n.at - 1
        BY <2>2
    <2>4. n.at \in 0 .. MaxClock /\ n.at > t /\ n.at \in Nat
        OBVIOUS
    <2>5. SavedSince(n.at)' /\ OnImage' = OnImage
        BY <1>h, <2>2, <2>3, <2>4, SavedSinceStep
    <2>6. file'[n] = tmp[n] /\ data'[file'[n]] = OnImage'
        BY <1>1, <1>t, <2>1, <2>2, <2>5 DEF Rename, Installed, Fresh, Filled, TypeOK
    <2>7. ASSUME NEW m \in Stops, m.at > t, file'[m] # NoInode PROVE data'[file'[m]] = OnImage'
        <3>1. m.at > n.at \/ m = n
            BY <2>4, <2>7
        <3> QED
            BY <1>s, <2>5, <2>6, <2>7, <3>1 DEF SavedSince
    <2>8. \A v \in Writers : pc'[v] \notin Making
        <3> SUFFICES ASSUME NEW v \in Writers, pc'[v] \in Making PROVE FALSE
            OBVIOUS
        <3>1. v # w /\ pc[v] \in Making
            BY <2>1 DEF Making
        <3> QED
            BY <1>t, <2>1, <3>1 DEF LockInv, TmpOwned, Holding, Making
    <2>9. SavedSince(t)'
        BY <1>s, <2>7, <2>8 DEF SavedSince
    <2> QED
        BY <2>1, <2>2, <2>4, <2>6, <2>9 DEF Known
<1>2. CASE saved /\ (vm # "up" => vm' # "up") /\ \A r \in Restorers : ~Replace(r)
    <2>1. PICK t \in 0 .. MaxClock : SavedSince(t) /\ \E n \in Stops : n.at > t /\ Known(n)
        BY <1>2, <1>t DEF Saved
    <2>2. vm # "up" /\ vm' # "up"
        BY <1>2, <1>t DEF Saved
    <2>3. PICK n \in Stops : n.at > t /\ Known(n)
        BY <2>1
    <2>4. \E m \in Stops : m.at > t /\ Known(m)'
        <3>1. CASE Known(n)'
            BY <2>3, <3>1
        <3>2. ASSUME NEW w \in Writers, PruneOne(w), n \in victims[w]
              PROVE  \E m \in Stops : m.at > t /\ Known(m)'
            <4>1. pc[w] = "prune"
                BY <3>2 DEF PruneOne
            <4>2. PICK m \in Stops \ victims[w] : m.at > n.at /\ Known(m)
                BY <1>t, <3>2, <4>1 DEF Spare
            <4>3. Known(m)'
                BY <1>t, <3>2, <4>2 DEF PruneOne, history, Known, TypeOK
            <4>4. m.at > t
                BY <2>3, <4>2
            <4> QED
                BY <4>3, <4>4
        <3> QED
            BY <1>h, <1>t, <2>3, <3>1, <3>2, KnownStep
    <2>5. SavedSince(t)'
        BY <1>h, <1>2, <2>1, <2>2, SavedSinceStep
    <2> QED
        BY <2>2, <2>4, <2>5
<1> QED
    BY <1>1, <1>2, SavedKinds

LEMMA SavedInit == Init => SavedInv
<1> SUFFICES ASSUME Init PROVE SavedInv
    OBVIOUS
<1>1. \A n \in Stops : file[n] = NoInode
    BY StopDates DEF Init
<1>2. \A w \in Writers : pc[w] = "idle"
    BY Processes DEF Init
<1> QED
    BY <1>1, <1>2 DEF Init, Named, SavedInv, Past, Stopping, Spare, Saved

\* No restore replaces a disk that is not saved: once the ExecStopPost has
\* named its copy, some stop checkpoint holds the image's disk when
\* os.Rename (restore, cli.go) puts another one over it, unless --rm took one
\* or the guest that stopped was started under a restore.
THEOREM ReplacedDiskIsSaved ==
    ASSUME OneRestore, ColdStops PROVE Spec => ReplacedIsSaved
<1>1. Init => SavedInv
    BY SavedInit
<1>2. SafeInv /\ SavedInv /\ [Next]_vars => SavedInv'
    BY PastStep, StoppingStep, SpareStep, SavedStep DEF SafeInv, SavedInv, WholeInv
<1>3. SavedInv /\ saved /\ (\A n \in removed : n.kind # "stop")
        => \E n \in Names : /\ n.kind = "stop" /\ file[n] # NoInode
                            /\ data[file[n]] = data[file[Image]]
    <2> SUFFICES ASSUME SavedInv, saved, \A n \in removed : n.kind # "stop"
                 PROVE  \E n \in Stops : file[n] # NoInode /\ data[file[n]] = OnImage
        BY DEF Stops, OnImage
    <2>1. PICK t \in 0 .. MaxClock : SavedSince(t) /\ \E n \in Stops : n.at > t /\ Known(n)
        BY DEF SavedInv, Saved
    <2>2. PICK n \in Stops : n.at > t /\ Known(n)
        BY <2>1
    <2>3. file[n] # NoInode
        BY <2>2 DEF Known, Stops
    <2> QED
        BY <2>1, <2>2, <2>3 DEF SavedSince
<1>4. Spec => []SafeInv
    BY SafeAlways
<1> QED
    BY <1>1, <1>2, <1>3, <1>4, PTL DEF Spec, ReplacedIsSaved
=============================================================================
