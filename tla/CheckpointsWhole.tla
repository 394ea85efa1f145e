-------------------------- MODULE CheckpointsWhole --------------------------
(***************************************************************************)
(* What a name shows: the proof that checkpoints and the image are whole,  *)
(* before and after a crash, that checkpoints are frozen, that a restore   *)
(* installs what it chose, and which guests keep the file they opened.  It *)
(* assumes two things the code leaves to its users; TLC shows what fails   *)
(* without each of them.                                                   *)
(***************************************************************************)
EXTENDS CheckpointsProofs

\* One operator restores at a time, since restores stage in one path.
OneRestore == \A r, s \in Restorers : r = s

\* Without reflinks the template is not started with the label stop, which
\* would copy the disk of a running sandbox.
ColdStops == Reflink \/ Word("stop") \notin Labels

\* Where a process has a source open, and where its copy is complete.
Reading == {"stop", "stopped", "stage", "copy", "rest"}
Filled == {"sync", "rename"}

\* The guest is gone while the ExecStopPost runs; and one that was not started
\* under a restore keeps the image, since a restore queues a job behind it.
Posted == \A w \in Writers : w = Post /\ pc[w] # "idle" => vm = "post"
Attached ==
    (vm # "down" /\ ~early) =>
        /\ vm = "up" => disk = file[Image]
        /\ \A r \in Restorers : pc[r] \in Replacing => pc[r] = "stopped" /\ r \in jobs
Units == Posted /\ Attached

\* No inode has two paths, now or where a crash would lead.
Inodes ==
    /\ \A f, g \in Files : tmp[f] # NoInode =>
        tmp[f] # file[g] /\ tmp[f] # stable.file[g] /\ (f # g => tmp[f] # tmp[g])
    /\ \A f, g \in Files : file[f] # NoInode /\ f # g => file[f] # file[g]
    /\ \A n \in Names : file[Image] # stable.file[n]
StableInodes ==
    /\ \A f, g \in Files : stable.tmp[f] # NoInode =>
        stable.tmp[f] # stable.file[g] /\ (f # g => stable.tmp[f] # stable.tmp[g])
    /\ \A f, g \in Files : stable.file[f] # NoInode /\ f # g => stable.file[f] # stable.file[g]

\* A running guest writes to no copy, no checkpoint, and nothing a restore reads.
Aside ==
    vm = "up" =>
        /\ \A f \in Files : tmp[f] # disk
        /\ \A n \in Names : file[n] # disk /\ stable.file[n] # disk
        /\ \A r \in Restorers : pc[r] \in Reading => src[r] # disk

\* An open source holds a whole disk that no copy is being written to; a
\* restore's is the one it chose, and a plain copy's does not change.
Sources ==
    \A p \in Procs : pc[p] \in Reading =>
        /\ data[src[p]] \in 0 .. writes
        /\ \A f \in Files : tmp[f] # src[p]
        /\ p \in Restorers => data[src[p]] = wanted[p] /\ src[p] # file[Image]
        /\ pc[p] = "rest" => data[src[p]] = head[p] /\ ~Reflink /\ FallsBack(p)

\* A finished copy is whole, and synced before it is renamed.
Copies ==
    \A p \in Procs : pc[p] \in Filled /\ tmp[target[p]] # NoInode =>
        /\ data[tmp[target[p]]] \in 0 .. writes
        /\ p \in Restorers => data[tmp[target[p]]] = wanted[p]
        /\ pc[p] = "rename" => tmp[target[p]] \in durable

\* What a crash would leave under every name is whole.
StableWhole ==
    \A f \in Files : stable.file[f] # NoInode =>
        data[stable.file[f]] \in 0 .. writes /\ stable.file[f] \in durable

Disks == Inodes /\ StableInodes /\ Aside /\ Sources /\ Copies /\ FilesWhole /\ StableWhole

WholeInv == Units /\ Disks

LEMMA WholeInit == Init => WholeInv
<1> SUFFICES ASSUME Init PROVE WholeInv
    OBVIOUS
<1> USE Processes, ImageIsNoName DEF Init, Named, NoInode
<1>1. Units
    BY DEF Units, Posted, Attached, Replacing
<1>2. Inodes /\ StableInodes
    BY DEF Inodes, StableInodes
<1>3. Aside /\ Sources /\ Copies
    BY DEF Aside, Sources, Copies, Reading, Filled
<1>4. FilesWhole /\ StableWhole
    BY DEF FilesWhole, StableWhole
<1> QED
    BY <1>1, <1>2, <1>3, <1>4 DEF WholeInv, Disks

LEMMA PathTypes ==
    ASSUME TypeOK
    PROVE  /\ Len(data) \in Nat
           /\ \A f \in Files : file[f] \in 0 .. Len(data) /\ tmp[f] \in 0 .. Len(data)
           /\ \A f \in Files : stable.file[f] \in 0 .. Len(data)
BY LenProperties, StableType DEF TypeOK

\* Two processes between the sweep and the rename never work on one path.
LEMMA OwnTargets ==
    ASSUME TypeInv, LockInv, OneRestore, NEW p \in Procs, NEW q \in Procs,
           pc[p] \in Swept, pc[q] \in Swept, target[p] = target[q]
    PROVE  p = q
<1> USE Processes, ImageIsNoName
<1>1. \A w \in Writers : pc[w] \in Swept => target[w] # Image
    BY DEF TypeInv, Opened, Swept, Holding
<1>2. \A r \in Restorers : target[r] = Image
    BY DEF LockInv, RestoresImage
<1>3. CASE p \in Writers /\ q \in Writers
    BY <1>3 DEF LockInv, TmpOwned, Swept
<1>4. CASE p \in Restorers /\ q \in Restorers
    BY <1>4 DEF OneRestore
<1> QED
    BY <1>1, <1>2, <1>3, <1>4 DEF Procs

-----------------------------------------------------------------------------
(* The microvm unit *)

\* A step that leaves the unit and the image's path alone.
LEMMA UnitsSame ==
    ASSUME Units, UNCHANGED <<vm, disk, jobs, early>>, file'[Image] = file[Image],
           \A w \in Writers : w = Post /\ pc'[w] # "idle" => pc[w] # "idle",
           \A r \in Restorers : pc'[r] \in Replacing =>
                pc'[r] = pc[r] \/ (pc[r] = "stopped" /\ r \notin jobs) \/ pc[r] \in Replacing \ {"stopped"}
    PROVE  Units'
BY DEF Units, Posted, Attached, Replacing

LEMMA EndUnits ==
    ASSUME TypeOK, Units, NEW p \in Procs, End(p), UnitAfter(p), UNCHANGED <<disk, early>>,
           file'[Image] = file[Image]
    PROVE  Units'
<1> USE Processes
<1>1. \A q \in Procs : pc'[q] = IF q = p THEN "idle" ELSE pc[q]
    BY DEF End, Goto, TypeOK
<1>2. CASE p = Post
    BY <1>1, <1>2 DEF UnitAfter, Inactive, Units, Posted, Attached
<1>3. CASE p # Post
    BY <1>1, <1>3, UnitsSame DEF UnitAfter, Replacing
<1> QED
    BY <1>2, <1>3

LEMMA GoUnits ==
    ASSUME TypeOK, Units, NEW p \in Procs, NEW label, Goto(p, label),
           p \in Writers => pc[p] # "idle",
           p \in Restorers /\ label \in Replacing =>
                (pc[p] = "stopped" /\ p \notin jobs) \/ pc[p] \in Replacing \ {"stopped"},
           UNCHANGED <<vm, disk, jobs, early>>, file'[Image] = file[Image]
    PROVE  Units'
<1>1. \A q \in Procs : pc'[q] = IF q = p THEN label ELSE pc[q]
    BY DEF Goto, TypeOK
<1>2. \A w \in Writers : w = Post /\ pc'[w] # "idle" => pc[w] # "idle"
    BY <1>1, Processes
<1>3. \A r \in Restorers : pc'[r] \in Replacing =>
        pc'[r] = pc[r] \/ (pc[r] = "stopped" /\ r \notin jobs) \/ pc[r] \in Replacing \ {"stopped"}
    BY <1>1, Processes
<1> QED
    BY <1>2, <1>3, UnitsSame

\* A guest that starts opens the image there is.
LEMMA BootUnits ==
    ASSUME Units, Boots, vm # "post", UNCHANGED file, \A q \in Procs : pc'[q] \in {pc[q], "idle"}
    PROVE  Units'
<1>1. Posted'
    BY Processes DEF Units, Posted
<1>2. ASSUME ~early' PROVE \A r \in Restorers : pc'[r] \notin Replacing
    BY <1>2, Processes DEF Boots, Replacing
<1>3. disk' = file'[Image]
    BY DEF Boots
<1> QED
    BY <1>1, <1>2, <1>3 DEF Units, Attached

LEMMA UnitsStep == TypeInv /\ LockInv /\ Units /\ [Next]_vars => Units'
<1> SUFFICES ASSUME TypeInv, LockInv, Units, [Next]_vars PROVE Units'
    OBVIOUS
<1> USE Processes, ImageIsNoName
<1>t. TypeOK /\ Opened /\ Units
    BY DEF TypeInv
<1>1. ASSUME NEW w \in Writers, StartWriter(w) PROVE Units'
    <2>1. \A q \in Procs : q = w \/ pc'[q] = pc[q]
        BY <1>1, <1>t DEF StartWriter, Goto, TypeOK
    <2> QED
        BY <1>1, <1>t, <2>1, UnitsSame DEF StartWriter, unixVars, vmVars, history
<1>2. ASSUME NEW w \in Writers, Lock(w) PROVE Units'
    BY <1>2, <1>t, GoUnits DEF Lock, unixVars, vmVars, history
<1>3. ASSUME NEW w \in Writers, Sweep(w) PROVE Units'
    BY <1>3, <1>t, GoUnits, EndUnits DEF Sweep, history
<1>4. ASSUME NEW p \in Procs, Stage(p) \/ Clone(p) \/ CopyHead(p) \/ CopyRest(p) \/ Sync(p) PROVE Units'
    BY <1>4, <1>t, GoUnits DEF Stage, Clone, CopyHead, CopyRest, Sync, vmVars, history, Replacing
<1>5. ASSUME NEW p \in Procs, Fail(p) PROVE Units'
    BY <1>5, <1>t, EndUnits DEF Fail, history
<1>6. ASSUME NEW w \in Writers, Rename(w) PROVE Units'
    <2>1. file'[Image] = file[Image]
        BY <1>6, <1>t DEF Rename, Installed, Opened, TypeOK
    <2> QED
        BY <1>6, <1>t, <2>1, GoUnits DEF Rename, Installed, vmVars
<1>7. ASSUME NEW w \in Writers, List(w) PROVE Units'
    BY <1>7, <1>t, GoUnits DEF List, unixVars, vmVars, history
<1>8. ASSUME NEW w \in Writers, PruneOne(w) PROVE Units'
    <2>1. file'[Image] = file[Image]
        BY <1>8, <1>t DEF PruneOne, TypeOK
    <2> QED
        BY <1>8, <1>t, <2>1, UnitsSame DEF PruneOne, vmVars, history
<1>9. ASSUME NEW w \in Writers, Finish(w) PROVE Units'
    BY <1>9, <1>t, EndUnits DEF Finish, unixVars, history
<1>10. ASSUME NEW n \in Names, Remove(n) PROVE Units'
    <2>1. file'[Image] = file[Image]
        BY <1>10, <1>t DEF Remove, TypeOK
    <2> QED
        BY <1>10, <1>t, <2>1, UnitsSame DEF Remove, vmVars, procVars
<1>11. ASSUME NEW r \in Restorers, NEW n \in Names, OpenSource(r, n) PROVE Units'
    BY <1>11, <1>t, GoUnits DEF OpenSource, unixVars, vmVars, Replacing
<1>12. ASSUME NEW r \in Restorers, StopUnit(r) PROVE Units'
    <2>1. \A q \in Procs : pc'[q] = IF q = r THEN "stopped" ELSE pc[q]
        BY <1>12, <1>t DEF StopUnit, Goto, TypeOK
    <2>2. UNCHANGED <<vm, disk, file, early>> /\ jobs \subseteq jobs' /\ (r \notin jobs' => vm = "down")
        BY <1>12 DEF StopUnit, unixVars, history
    <2> QED
        BY <1>t, <2>1, <2>2 DEF Units, Posted, Attached
<1>13. ASSUME NEW r \in Restorers, UnitStopped(r) PROVE Units'
    BY <1>13, <1>t, GoUnits DEF UnitStopped, unixVars, vmVars, history
<1>14. ASSUME NEW r \in Restorers, Replace(r) PROVE Units'
    <2>1. ~(vm # "down" /\ ~early)
        BY <1>14, <1>t DEF Replace, Installed, Units, Attached, Replacing
    <2>2. \A w \in Writers : pc'[w] = pc[w]
        BY <1>14, <1>t DEF Replace, Goto, TypeOK
    <2> QED
        BY <1>14, <1>t, <2>1, <2>2 DEF Replace, vmVars, Units, Posted, Attached
<1>15. ASSUME NEW r \in Restorers, StartUnit(r) PROVE Units'
    <2>1. \A q \in Procs : pc'[q] = IF q = r THEN "idle" ELSE pc[q]
        BY <1>15, <1>t DEF StartUnit, End, Goto, TypeOK
    <2>2. vm # "post" /\ UNCHANGED <<file, jobs>>
        BY <1>15 DEF StartUnit, unixVars
    <2>3. CASE vm = "up"
        BY <1>15, <1>t, <2>1, <2>2, <2>3, UnitsSame DEF StartUnit, Replacing
    <2>4. CASE vm # "up"
        BY <1>15, <1>t, <2>1, <2>2, <2>4, BootUnits DEF StartUnit
    <2> QED
        BY <2>3, <2>4
<1>16. CASE Tick \/ GuestWrite \/ Commit \/ UNCHANGED vars
    BY <1>16, <1>t, UnitsSame DEF Tick, GuestWrite, Commit, vars, unixVars, vmVars, procVars, history
<1>17. CASE UnitStart
    BY <1>17, <1>t, BootUnits DEF UnitStart, unixVars, procVars
<1>18. CASE CleanExit
    <2>1. CASE OnStop
        <3>1. \A r \in Restorers : pc'[r] = pc[r]
            BY <1>18, <1>t, <2>1, DistinctAssumption DEF CleanExit, Goto, TypeOK
        <3> QED
            BY <1>18, <1>t, <2>1, <3>1 DEF CleanExit, history, Units, Posted, Attached
    <2>2. CASE ~OnStop
        BY <1>18, <1>t, <2>2 DEF CleanExit, Inactive, Units, Posted, Attached
    <2> QED
        BY <2>1, <2>2
<1>19. CASE FailedExit
    BY <1>19, <1>t DEF FailedExit, Inactive, procVars, Units, Posted, Attached
<1>20. ASSUME NEW p \in Procs, Kill(p) PROVE Units'
    BY <1>20, <1>t, EndUnits DEF Kill, unixVars, history
<1>21. CASE HostCrash
    BY <1>21 DEF HostCrash, Inactive, Units, Posted, Attached
<1> QED
    BY <1>1, <1>2, <1>3, <1>4, <1>5, <1>6, <1>7, <1>8, <1>9, <1>10, <1>11, <1>12, <1>13, <1>14,
       <1>15, <1>16, <1>17, <1>18, <1>19, <1>20, <1>21
       DEF Next, WriterStep, RestoreStep, Copying, Procs

-----------------------------------------------------------------------------
(* The disks *)

\* A step at which a process keeps the source it reads, or opens a file.
KeepsSource(p) ==
    /\ pc[p] \in Reading /\ (pc'[p] = "rest" => pc[p] = "rest")
    /\ src'[p] = src[p] /\ head'[p] = head[p]
    /\ p \in Restorers => wanted'[p] = wanted[p]

OpensSource(p) ==
    /\ pc'[p] # "rest"
    /\ \E f \in Files : /\ file[f] # NoInode /\ src'[p] = file[f]
                        /\ p \in Restorers => f # Image /\ wanted'[p] = data[file[f]]

\* A step that unlinks at most, and completes no copy; a guest may start.
Quiet ==
    /\ UNCHANGED <<data, durable, stable, writes>> /\ file'[Image] = file[Image]
    /\ vm' = "up" => disk' = file[Image] \/ (vm = "up" /\ disk' = disk)
    /\ \A f \in Files : file'[f] \in {file[f], NoInode} /\ tmp'[f] \in {tmp[f], NoInode}
    /\ \A p \in Procs : pc'[p] \in Reading => KeepsSource(p) \/ OpensSource(p)
    /\ \A p \in Procs : pc'[p] \in Filled => pc'[p] = pc[p] /\ target'[p] = target[p]
    /\ \A r \in Restorers : pc'[r] \in Filled \cup {"start"} => pc'[r] = pc[r] /\ wanted'[r] = wanted[r]

LEMMA QuietDisks ==
    ASSUME TypeInv, Disks, Quiet PROVE Disks'
<1> USE Processes, ImageIsNoName
<1>t. TypeOK /\ Opened /\ file[Image] # NoInode /\ disk # NoInode
    BY DEF TypeInv, TypeOK, Opened, NoInode
<1>1. Inodes' /\ StableInodes'
    BY DEF Quiet, Disks, Inodes, StableInodes
<1>2. ASSUME NEW p \in Procs, pc'[p] \in Reading
      PROVE  /\ data'[src'[p]] \in 0 .. writes'
             /\ \A f \in Files : tmp'[f] # src'[p]
             /\ p \in Restorers => data'[src'[p]] = wanted'[p] /\ src'[p] # file'[Image]
             /\ pc'[p] = "rest" => data'[src'[p]] = head'[p] /\ ~Reflink /\ FallsBack(p)
             /\ vm = "up" /\ p \in Restorers => src'[p] # disk
    <2>1. CASE KeepsSource(p)
        <3>1. src[p] # NoInode
            BY <2>1 DEF KeepsSource, Reading, TypeInv, Opened
        <3>2. vm = "up" /\ p \in Restorers => src'[p] # disk
            BY <2>1 DEF KeepsSource, Disks, Aside
        <3> QED
            BY <2>1, <3>1, <3>2 DEF KeepsSource, Quiet, Disks, Sources
    <2>2. CASE OpensSource(p)
        <3>1. PICK f \in Files : /\ file[f] # NoInode /\ src'[p] = file[f]
                                 /\ p \in Restorers => f # Image /\ wanted'[p] = data[file[f]]
            BY <2>2 DEF OpensSource
        <3>2. data[file[f]] \in 0 .. writes /\ \A g \in Files : tmp[g] # file[f]
            BY <3>1 DEF Disks, FilesWhole, Inodes
        <3>3. f # Image => file[f] # file[Image]
            BY <3>1 DEF Disks, Inodes
        <3>4. vm = "up" /\ f # Image => file[f] # disk
            BY DEF Disks, Aside, Files
        <3> QED
            BY <2>2, <3>1, <3>2, <3>3, <3>4 DEF OpensSource, Quiet
    <2> QED
        BY <1>2, <2>1, <2>2 DEF Quiet
<1>3. Copies'
    BY DEF Quiet, Disks, Copies, TypeInv, TypeOK
<1>4. FilesWhole' /\ StableWhole'
    BY DEF Quiet, Disks, FilesWhole, StableWhole
<1>5. Sources'
    BY <1>2 DEF Sources
<1>6. Aside'
    <2> SUFFICES ASSUME vm' = "up"
                 PROVE  /\ \A f \in Files : tmp'[f] # disk'
                        /\ \A n \in Names : file'[n] # disk' /\ stable.file[n] # disk'
                        /\ \A r \in Restorers : pc'[r] \in Reading => src'[r] # disk'
        BY DEF Aside, Quiet
    <2>1. CASE disk' = file[Image]
        BY <1>2, <1>t, <2>1 DEF Quiet, Disks, Inodes
    <2>2. CASE vm = "up" /\ disk' = disk
        BY <1>2, <1>t, <2>2 DEF Quiet, Disks, Aside
    <2> QED
        BY <2>1, <2>2 DEF Quiet
<1> QED
    BY <1>1, <1>3, <1>4, <1>5, <1>6 DEF Disks

\* The unit neither starts nor opens another file.
NoBoot == vm' = "up" => vm = "up" /\ disk' = disk

\* A process that ends, or goes on where no copy begins or is completed.
LEMMA EndQuiet ==
    ASSUME TypeOK, NEW p \in Procs, End(p), UNCHANGED <<data, durable, stable, writes, file, wanted>>,
           \A f \in Files : tmp'[f] \in {tmp[f], NoInode},
           vm' = "up" => disk' = file[Image] \/ (vm = "up" /\ disk' = disk)
    PROVE  Quiet
<1>1. \A q \in Procs : pc'[q] = (IF q = p THEN "idle" ELSE pc[q]) /\
        (q # p => target'[q] = target[q] /\ src'[q] = src[q] /\ head'[q] = head[q])
    BY DEF End, Goto, TypeOK
<1> QED
    BY <1>1, Processes DEF Quiet, KeepsSource, Reading, Filled

LEMMA GoQuiet ==
    ASSUME TypeOK, NEW p \in Procs, NEW label, Goto(p, label), label \notin Filled \cup {"start", "rest"},
           label \in Reading => pc[p] \in Reading,
           UNCHANGED <<data, durable, stable, writes, file, tmp, target, src, head, wanted, vm, disk>>
    PROVE  Quiet
<1>1. \A q \in Procs : pc'[q] = IF q = p THEN label ELSE pc[q]
    BY DEF Goto, TypeOK
<1>2. \A q \in Procs : pc'[q] \in Reading => KeepsSource(q)
    BY <1>1 DEF KeepsSource
<1> QED
    BY <1>1, <1>2, Processes, ImageIsNoName DEF Quiet

\* p puts content into the .tmp of its target, an inode no other path names.
Puts(p, content) ==
    /\ UNCHANGED <<durable, file, stable, vm, disk>>
    /\ \A f \in Files : f # target[p] => tmp'[f] = tmp[f]
    /\ tmp'[target[p]] \in {tmp[target[p]], Len(data) + 1} /\ tmp'[target[p]] # NoInode
    /\ data'[tmp'[target[p]]] = content
    /\ \A i \in 1 .. Len(data) : i # tmp'[target[p]] => data'[i] = data[i]

LEMMA StagePuts ==
    ASSUME TypeOK, NEW p \in Procs, NEW c \in Contents, UNCHANGED <<durable, file, stable, vm, disk>>,
           data' = Append(data, c), tmp' = [tmp EXCEPT ![target[p]] = Len(data) + 1]
    PROVE  Puts(p, c)
<1>1. target[p] \in Files /\ data \in Seq(Contents)
    BY DEF TypeOK
<1>2. tmp'[target[p]] = Len(data) + 1 /\ \A f \in Files : f # target[p] => tmp'[f] = tmp[f]
    BY <1>1 DEF TypeOK
<1>3. Len(data) + 1 # NoInode
    BY PathTypes DEF NoInode
<1>4. data'[Len(data) + 1] = c /\ \A i \in 1 .. Len(data) : data'[i] = data[i]
    BY <1>1, DataCreate
<1> QED
    BY <1>2, <1>3, <1>4 DEF Puts

LEMMA FillPuts ==
    ASSUME TypeOK, NEW p \in Procs, NEW c \in Contents, UNCHANGED <<durable, file, stable, vm, disk>>, Fill(p, c)
    PROVE  Puts(p, c)
<1>1. target[p] \in Files /\ data \in Seq(Contents) /\ tmp[target[p]] \in 0 .. Len(data) /\ Len(data) \in Nat
    BY PathTypes DEF TypeOK
<1>2. CASE tmp[target[p]] = NoInode
    BY <1>2, StagePuts DEF Fill
<1>3. CASE tmp[target[p]] # NoInode
    <2>1. tmp[target[p]] \in 1 .. Len(data)
        BY <1>1, <1>3 DEF NoInode
    <2>2. data' = [data EXCEPT ![tmp[target[p]]] = c] /\ tmp' = tmp
        BY <1>3 DEF Fill
    <2>3. data'[tmp[target[p]]] = c
        BY <1>1, <2>1, <2>2, DataWrite
    <2>4. \A i \in 1 .. Len(data) : i # tmp[target[p]] => data'[i] = data[i]
        BY <1>1, <2>1, <2>2, DataWrite
    <2> QED
        BY <1>3, <2>2, <2>3, <2>4 DEF Puts
<1> QED
    BY <1>2, <1>3

\* Such a step touches no file, no open source and no other copy.
LEMMA PutsApart ==
    ASSUME TypeInv, LockInv, Disks, OneRestore, NEW p \in Procs, NEW c, Puts(p, c), pc[p] \in Swept
    PROVE  /\ \A f \in Files : file[f] # tmp'[target[p]] /\ stable.file[f] # tmp'[target[p]]
           /\ \A f \in Files : f # target[p] => tmp[f] # tmp'[target[p]]
           /\ vm = "up" => tmp'[target[p]] # disk
           /\ \A f \in Files : file[f] # NoInode => data'[file[f]] = data[file[f]]
           /\ \A f \in Files : stable.file[f] # NoInode => data'[stable.file[f]] = data[stable.file[f]]
           /\ \A q \in Procs : pc[q] \in Reading =>
                src[q] # tmp'[target[p]] /\ data'[src[q]] = data[src[q]]
           /\ \A q \in Procs : pc[q] \in Filled /\ q # p =>
                /\ target[q] # target[p] /\ tmp'[target[q]] = tmp[target[q]]
                /\ tmp[target[q]] # NoInode => data'[tmp[target[q]]] = data[tmp[target[q]]]
<1> DEFINE i == tmp'[target[p]]
<1>t. TypeOK /\ Opened /\ target[p] \in Files
    BY DEF TypeInv, TypeOK
<1>p. i \in {tmp[target[p]], Len(data) + 1} /\ i # NoInode /\ \A j \in 1 .. Len(data) : j # i => data'[j] = data[j]
    BY DEF Puts
<1>0. /\ Len(data) \in Nat /\ disk \in 1 .. Len(data)
      /\ \A f \in Files : file[f] \in 0 .. Len(data) /\ tmp[f] \in 0 .. Len(data)
      /\ \A f \in Files : stable.file[f] \in 0 .. Len(data)
    BY <1>t, PathTypes DEF TypeOK
<1>1. \A f \in Files : file[f] # i /\ stable.file[f] # i
    <2>1. CASE i = tmp[target[p]]
        BY <1>t, <1>p, <2>1 DEF Disks, Inodes
    <2>2. CASE i = Len(data) + 1
        BY <1>0, <2>2
    <2> QED
        BY <1>p, <2>1, <2>2
<1>2. \A f \in Files : f # target[p] => tmp[f] # i
    <2>1. CASE i = tmp[target[p]]
        BY <1>t, <1>p, <2>1 DEF Disks, Inodes
    <2>2. CASE i = Len(data) + 1
        BY <1>0, <2>2
    <2> QED
        BY <1>p, <2>1, <2>2
<1>v. vm = "up" => i # disk
    <2>1. CASE i = tmp[target[p]]
        BY <1>t, <2>1 DEF Disks, Aside
    <2>2. CASE i = Len(data) + 1
        BY <1>0, <2>2
    <2> QED
        BY <1>p, <2>1, <2>2
<1>6. \A f \in Files : stable.file[f] # NoInode => data'[stable.file[f]] = data[stable.file[f]]
    <2> SUFFICES ASSUME NEW f \in Files, stable.file[f] # NoInode
                 PROVE  data'[stable.file[f]] = data[stable.file[f]]
        OBVIOUS
    <2>1. stable.file[f] \in 1 .. Len(data)
        BY <1>0 DEF NoInode
    <2> QED
        BY <1>1, <1>p, <2>1
<1>3. \A f \in Files : file[f] # NoInode => data'[file[f]] = data[file[f]]
    <2> SUFFICES ASSUME NEW f \in Files, file[f] # NoInode PROVE data'[file[f]] = data[file[f]]
        OBVIOUS
    <2>1. file[f] \in 1 .. Len(data)
        BY <1>0 DEF NoInode
    <2> QED
        BY <1>1, <1>p, <2>1
<1>4. ASSUME NEW q \in Procs, pc[q] \in Reading
      PROVE  src[q] # i /\ data'[src[q]] = data[src[q]]
    <2>1. src[q] \in 1 .. Len(data)
        BY <1>0, <1>t, <1>4 DEF Opened, Reading, TypeOK, NoInode
    <2>2. src[q] # i
        <3>1. CASE i = tmp[target[p]]
            BY <1>t, <1>4, <3>1 DEF Disks, Sources
        <3>2. CASE i = Len(data) + 1
            BY <1>0, <2>1, <3>2
        <3> QED
            BY <1>p, <3>1, <3>2
    <2> QED
        BY <1>p, <2>1, <2>2
<1>5. ASSUME NEW q \in Procs, pc[q] \in Filled, q # p
      PROVE  /\ target[q] # target[p] /\ tmp'[target[q]] = tmp[target[q]]
             /\ tmp[target[q]] # NoInode => data'[tmp[target[q]]] = data[tmp[target[q]]]
    <2>1. target[q] # target[p]
        BY <1>5, OwnTargets DEF Filled, Swept, Holding
    <2>2. target[q] \in Files
        BY <1>t DEF TypeOK
    <2>3. tmp'[target[q]] = tmp[target[q]] /\ tmp[target[q]] # i
        BY <1>2, <2>1, <2>2 DEF Puts
    <2>4. ASSUME tmp[target[q]] # NoInode PROVE tmp[target[q]] \in 1 .. Len(data)
        BY <1>0, <2>2, <2>4 DEF NoInode
    <2> QED
        BY <1>p, <2>1, <2>3, <2>4
<1> QED
    BY <1>1, <1>2, <1>v, <1>3, <1>4, <1>5, <1>6

LEMMA PutsDisks ==
    ASSUME TypeInv, LockInv, Disks, OneRestore, NEW p \in Procs, NEW c, Puts(p, c),
           pc[p] \in {"stage", "copy", "rest"}, NEW label \in {"copy", "rest", "sync"}, Goto(p, label),
           label = "rest" => head'[p] = data[src[p]] /\ ~Reflink /\ FallsBack(p),
           label = "sync" => c \in 0 .. writes /\ (p \in Restorers => c = wanted[p]),
           \A q \in Procs : q # p => head'[q] = head[q],
           UNCHANGED <<target, src, writes, wanted>>
    PROVE  Disks'
<1> USE Processes, ImageIsNoName
<1>t. TypeOK /\ Opened /\ target[p] \in Files
    BY DEF TypeInv, TypeOK
<1>g. \A q \in Procs : pc'[q] = IF q = p THEN label ELSE pc[q]
    BY <1>t DEF Goto, TypeOK
<1>a. pc[p] \in Swept /\ pc[p] \in Reading
    BY DEF Swept, Holding, Reading
<1>1. Inodes' /\ StableInodes'
    <2>1. \A f, g \in Files : tmp'[f] # NoInode =>
            tmp'[f] # file[g] /\ tmp'[f] # stable.file[g] /\ (f # g => tmp'[f] # tmp'[g])
        BY <1>a, PutsApart DEF Puts, Disks, Inodes
    <2> QED
        BY <2>1 DEF Disks, Inodes, StableInodes, Puts
<1>2. ASSUME NEW q \in Procs, pc'[q] \in Reading
      PROVE  /\ data'[src'[q]] \in 0 .. writes'
             /\ \A f \in Files : tmp'[f] # src'[q]
             /\ q \in Restorers => data'[src'[q]] = wanted'[q] /\ src'[q] # file'[Image]
             /\ pc'[q] = "rest" => data'[src'[q]] = head'[q] /\ ~Reflink /\ FallsBack(q)
    <2>1. pc[q] \in Reading
        BY <1>2, <1>g, <1>a
    <2>2. src[q] # tmp'[target[p]] /\ data'[src[q]] = data[src[q]]
        BY <2>1, <1>a, PutsApart
    <2>3. \A f \in Files : tmp'[f] # src[q]
        BY <2>1, <2>2 DEF Puts, Disks, Sources
    <2>4. pc'[q] = "rest" => data[src[q]] = head'[q] /\ ~Reflink /\ FallsBack(q)
        BY <2>1, <1>g DEF Disks, Sources
    <2> QED
        BY <2>1, <2>2, <2>3, <2>4 DEF Disks, Sources, Puts
<1>3. Copies'
    <2> SUFFICES ASSUME NEW q \in Procs, pc'[q] \in Filled, tmp'[target[q]] # NoInode
                 PROVE  /\ data'[tmp'[target[q]]] \in 0 .. writes
                        /\ q \in Restorers => data'[tmp'[target[q]]] = wanted[q]
                        /\ pc'[q] = "rename" => tmp'[target[q]] \in durable
        BY DEF Copies, Puts
    <2>1. CASE q = p
        BY <1>g, <2>1 DEF Filled, Puts
    <2>2. CASE q # p
        <3>1. pc[q] \in Filled /\ pc'[q] = pc[q]
            BY <1>g, <2>2
        <3>2. tmp'[target[q]] = tmp[target[q]] /\ data'[tmp[target[q]]] = data[tmp[target[q]]]
            BY <1>a, <2>2, <3>1, PutsApart
        <3> QED
            BY <3>1, <3>2 DEF Disks, Copies
    <2> QED
        BY <2>1, <2>2
<1>4. FilesWhole' /\ StableWhole'
    <2>1. FilesWhole'
        BY <1>a, PutsApart DEF Puts, Disks, FilesWhole
    <2>2. StableWhole'
        BY <1>a, PutsApart DEF Puts, Disks, StableWhole
    <2> QED
        BY <2>1, <2>2
<1>5. Aside'
    <2>1. \A r \in Restorers : pc'[r] \in Reading => pc[r] \in Reading
        BY <1>g, <1>a
    <2> QED
        BY <1>a, <2>1, PutsApart DEF Puts, Disks, Aside
<1>6. Sources'
    BY <1>2 DEF Sources
<1> QED
    BY <1>1, <1>3, <1>4, <1>5, <1>6 DEF Disks

LEMMA SyncDisks ==
    ASSUME TypeInv, Disks, NEW p \in Procs, Sync(p) PROVE Disks'
<1> USE Processes, ImageIsNoName
<1>1. \A q \in Procs : pc'[q] = IF q = p THEN "rename" ELSE pc[q]
    BY DEF Sync, Goto, TypeInv, TypeOK
<1>2. /\ UNCHANGED <<data, file, tmp, stable, vm, disk, writes, target, src, head, wanted>>
      /\ durable' = durable \cup {tmp[target[p]]} /\ pc[p] = "sync"
    BY DEF Sync, vmVars, history
<1>3. Inodes' /\ StableInodes' /\ Sources' /\ Aside'
    BY <1>1, <1>2 DEF Disks, Inodes, StableInodes, Sources, Aside, Reading
<1>4. Copies'
    BY <1>1, <1>2 DEF Disks, Copies, Filled
<1>5. FilesWhole' /\ StableWhole'
    BY <1>1, <1>2 DEF Disks, FilesWhole, StableWhole
<1> QED
    BY <1>3, <1>4, <1>5 DEF Disks

LEMMA InstallDisks ==
    ASSUME TypeInv, LockInv, Disks, OneRestore, NEW p \in Procs, Installed(p),
           NEW label \in {"list", "start"}, Goto(p, label), p \in Writers => label = "list",
           UNCHANGED <<data, durable, stable, vm, disk, writes, target, src, head, wanted>>
    PROVE  Disks'
<1> USE Processes, ImageIsNoName
<1>t. TypeOK /\ Opened /\ target[p] \in Files
    BY DEF TypeInv, TypeOK
<1>g. \A q \in Procs : pc'[q] = IF q = p THEN label ELSE pc[q]
    BY <1>t DEF Goto, TypeOK
<1>i. /\ pc[p] = "rename" /\ tmp[target[p]] # NoInode
      /\ \A f \in Files : file'[f] = IF f = target[p] THEN tmp[f] ELSE file[f]
      /\ \A f \in Files : tmp'[f] = IF f = target[p] THEN NoInode ELSE tmp[f]
    BY <1>t DEF Installed, TypeOK
<1>c. /\ data[tmp[target[p]]] \in 0 .. writes /\ tmp[target[p]] \in durable
      /\ p \in Restorers => data[tmp[target[p]]] = wanted[p]
    BY <1>i DEF Disks, Copies, Filled
<1>1. Inodes' /\ StableInodes'
    <2>1. \A f, g \in Files : tmp'[f] # NoInode =>
            tmp'[f] # file'[g] /\ tmp'[f] # stable.file[g] /\ (f # g => tmp'[f] # tmp'[g])
        BY <1>t, <1>i DEF Disks, Inodes
    <2>2. \A f, g \in Files : file'[f] # NoInode /\ f # g => file'[f] # file'[g]
        BY <1>t, <1>i DEF Disks, Inodes
    <2>3. \A n \in Names : file'[Image] # stable.file[n]
        BY <1>t, <1>i DEF Disks, Inodes
    <2> QED
        BY <2>1, <2>2, <2>3 DEF Disks, Inodes, StableInodes
<1>2. Sources'
    <2>1. ASSUME NEW q \in Procs, pc'[q] \in Reading
          PROVE  /\ pc[q] \in Reading /\ pc'[q] = pc[q]
                 /\ \A f \in Files : tmp'[f] # src[q]
                 /\ src[q] # file[Image] => src[q] # file'[Image]
        <3>1. pc[q] \in Reading /\ pc'[q] = pc[q]
            BY <1>g, <2>1 DEF Reading
        <3>2. src[q] # NoInode /\ \A f \in Files : tmp[f] # src[q]
            BY <3>1, <1>t DEF Opened, Reading, Disks, Sources
        <3> QED
            BY <3>1, <3>2, <1>i
    <2> QED
        BY <2>1 DEF Disks, Sources
<1>3. Copies'
    <2> SUFFICES ASSUME NEW q \in Procs, pc'[q] \in Filled, tmp'[target[q]] # NoInode
                 PROVE  pc[q] \in Filled /\ pc'[q] = pc[q] /\ tmp'[target[q]] = tmp[target[q]]
        BY DEF Disks, Copies
    <2>1. pc[q] \in Filled /\ pc'[q] = pc[q]
        BY <1>g DEF Filled
    <2>2. target[q] \in Files
        BY <1>t DEF TypeOK
    <2> QED
        BY <2>1, <2>2, <1>i
<1>4. FilesWhole' /\ StableWhole'
    BY <1>i, <1>c DEF Disks, FilesWhole, StableWhole
<1>5. Aside'
    <2> SUFFICES ASSUME vm = "up"
                 PROVE  /\ \A f \in Files : tmp'[f] # disk
                        /\ \A n \in Names : file'[n] # disk /\ stable.file[n] # disk
                        /\ \A r \in Restorers : pc'[r] \in Reading => src[r] # disk
        BY DEF Aside
    <2>1. disk # NoInode
        BY <1>t DEF TypeOK, NoInode
    <2>2. \A r \in Restorers : pc'[r] \in Reading => pc[r] \in Reading
        BY <1>g DEF Reading
    <2> QED
        BY <1>i, <2>1, <2>2 DEF Disks, Aside
<1> QED
    BY <1>1, <1>2, <1>3, <1>4, <1>5 DEF Disks

\* While a guest runs, no writer reads its disk over time.
LEMMA GuestAlone ==
    ASSUME Units, Sources, ColdStops, vm = "up", NEW w \in Writers
    PROVE  pc[w] # "rest"
<1> SUFFICES ASSUME pc[w] = "rest" PROVE FALSE
    OBVIOUS
<1>1. ~Reflink /\ FallsBack(w)
    BY Processes DEF Sources, Reading
<1>2. Label(w) = Word("stop")
    BY <1>1, Processes DEF FallsBack
<1>3. w = Post
    BY <1>1, <1>2 DEF ColdStops, Label, Writers
<1> QED
    BY <1>3 DEF Units, Posted

LEMMA GuestDisks ==
    ASSUME TypeInv, WholeInv, ColdStops, GuestWrite PROVE Disks'
<1> USE Processes, ImageIsNoName
<1>t. TypeOK /\ Opened /\ writes \in Nat /\ disk \in 1 .. Len(data)
    BY DEF TypeInv, TypeOK
<1>g. /\ UNCHANGED <<durable, file, tmp, stable, vm, disk, pc, target, src, head, wanted>>
      /\ writes' = writes + 1 /\ vm = "up"
    BY DEF GuestWrite, procVars, history
<1>a. Aside
    BY DEF WholeInv, Disks
<1>w. \A i \in 1 .. Len(data) : data'[i] = IF i = disk THEN writes + 1 ELSE data[i]
    <2>1. writes + 1 \in Contents
        BY <1>t DEF Contents
    <2> QED
        BY <1>t, <2>1, DataWrite DEF GuestWrite, TypeOK
<1>m. \A v \in 0 .. writes : v \in 0 .. writes'
    BY <1>t, <1>g
<1>n. writes + 1 \in 0 .. writes'
    BY <1>t, <1>g
<1>1. Inodes' /\ StableInodes' /\ Aside'
    BY <1>g DEF WholeInv, Disks, Inodes, StableInodes, Aside
<1>2. ASSUME NEW p \in Procs, pc[p] \in Reading
      PROVE  /\ data'[src[p]] \in 0 .. writes'
             /\ p \in Restorers => data'[src[p]] = data[src[p]]
             /\ p \in Writers => pc[p] # "rest"
    <2>1. src[p] \in 1 .. Len(data)
        BY <1>2, <1>t, PathTypes DEF TypeOK, Opened, Reading, NoInode
    <2>2. data[src[p]] \in 0 .. writes /\ (p \in Restorers => src[p] # disk)
        BY <1>2, <1>g DEF WholeInv, Disks, Sources, Aside
    <2>3. p \in Writers => pc[p] # "rest"
        BY <1>g, GuestAlone DEF WholeInv, Disks
    <2> QED
        BY <2>1, <2>2, <2>3, <1>w, <1>m, <1>n
<1>3. Sources'
    BY <1>2, <1>g DEF WholeInv, Disks, Sources, Procs
<1>4. Copies'
    <2> SUFFICES ASSUME NEW p \in Procs, pc[p] \in Filled, tmp[target[p]] # NoInode
                 PROVE  data'[tmp[target[p]]] = data[tmp[target[p]]]
        BY <1>g, <1>m DEF WholeInv, Disks, Copies
    <2>1. target[p] \in Files /\ tmp[target[p]] \in 1 .. Len(data)
        BY <1>t, PathTypes DEF TypeOK, NoInode
    <2>2. tmp[target[p]] # disk
        BY <1>a, <1>g, <2>1 DEF Aside
    <2> QED
        BY <1>w, <2>1, <2>2
<1>5. FilesWhole'
    <2> SUFFICES ASSUME NEW f \in Files, file[f] # NoInode
                 PROVE  data'[file[f]] \in 0 .. writes' /\ file[f] \in durable
        BY <1>g DEF FilesWhole
    <2>1. file[f] \in 1 .. Len(data)
        BY <1>t, PathTypes DEF NoInode
    <2> QED
        BY <1>w, <1>m, <1>n, <2>1 DEF WholeInv, Disks, FilesWhole
<1>6. StableWhole'
    <2> SUFFICES ASSUME NEW f \in Files, stable.file[f] # NoInode
                 PROVE  data'[stable.file[f]] \in 0 .. writes' /\ stable.file[f] \in durable
        BY <1>g DEF StableWhole
    <2>1. stable.file[f] \in 1 .. Len(data)
        BY <1>t, PathTypes DEF NoInode
    <2> QED
        BY <1>w, <1>m, <1>n, <2>1 DEF WholeInv, Disks, StableWhole
<1> QED
    BY <1>1, <1>3, <1>4, <1>5, <1>6 DEF Disks

\* The directories on the disk become those in memory.
LEMMA CommitDisks ==
    ASSUME TypeInv, Disks, Commit PROVE Disks'
<1> USE Processes, ImageIsNoName
<1>1. /\ UNCHANGED <<data, durable, file, tmp, vm, disk, writes, pc, target, src, head, wanted>>
      /\ stable'.file = file /\ stable'.tmp = tmp
    BY DEF Commit, Named, vmVars, procVars, history
<1>i. file[Image] # NoInode
    BY DEF TypeInv, Opened
<1>2. Inodes' /\ StableInodes'
    BY <1>1, <1>i DEF Disks, Inodes, StableInodes
<1>3. Aside' /\ Sources' /\ Copies'
    BY <1>1 DEF Disks, Aside, Sources, Copies
<1>4. FilesWhole' /\ StableWhole'
    BY <1>1 DEF Disks, FilesWhole, StableWhole
<1> QED
    BY <1>2, <1>3, <1>4 DEF Disks

\* A crash goes back to the directories on the disk, whose files were synced.
LEMMA CrashDisks ==
    ASSUME TypeInv, Disks, HostCrash PROVE Disks'
<1> USE Processes, ImageIsNoName
<1>t. TypeOK /\ stable.file[Image] # NoInode
    BY DEF TypeInv, Opened
<1>1. /\ UNCHANGED <<durable, stable, writes>> /\ \A p \in Procs : pc'[p] = "idle"
      /\ file' = stable.file /\ tmp' = stable.tmp /\ vm' = "down"
    BY DEF HostCrash, Inactive
<1>2. \A i \in 1 .. Len(data) : data'[i] = IF i \in durable THEN data[i] ELSE Torn
    BY <1>t, DataLost DEF HostCrash, Lost, TypeOK
<1>3. Inodes' /\ StableInodes'
    BY <1>1, <1>t DEF Disks, Inodes, StableInodes
<1>4. Aside' /\ Sources' /\ Copies'
    BY <1>1 DEF Aside, Sources, Copies, Reading, Filled
<1>5. FilesWhole' /\ StableWhole'
    <2> SUFFICES ASSUME NEW f \in Files, stable.file[f] # NoInode
                 PROVE  data'[stable.file[f]] \in 0 .. writes /\ stable.file[f] \in durable
        BY <1>1 DEF FilesWhole, StableWhole
    <2>1. stable.file[f] \in 1 .. Len(data)
        BY <1>t, PathTypes DEF NoInode
    <2> QED
        BY <1>2, <2>1 DEF Disks, StableWhole
<1> QED
    BY <1>3, <1>4, <1>5 DEF Disks

\* The four steps that write into a copy.
LEMMA CopyPuts ==
    ASSUME TypeInv, Disks, NEW p \in Procs, Stage(p) \/ Clone(p) \/ CopyHead(p) \/ CopyRest(p)
    PROVE  \E c : /\ Puts(p, c) /\ pc[p] \in {"stage", "copy", "rest"}
                  /\ \E label \in {"copy", "rest", "sync"} :
                        /\ Goto(p, label)
                        /\ label = "rest" => head'[p] = data[src[p]] /\ ~Reflink /\ FallsBack(p)
                        /\ label = "sync" => /\ c \in 0 .. writes /\ c = data[src[p]]
                                             /\ p \in Restorers => c = wanted[p]
                  /\ \A q \in Procs : q # p => head'[q] = head[q]
                  /\ UNCHANGED <<target, src, writes, wanted>>
<1>t. TypeOK
    BY DEF TypeInv
<1>p. Partial \in Contents
    BY DEF Contents
<1>s. pc[p] \in {"copy", "rest"} =>
        /\ data[src[p]] \in 0 .. writes /\ data[src[p]] \in Contents
        /\ p \in Restorers => data[src[p]] = wanted[p]
    BY <1>t DEF Disks, Sources, Reading, Contents, TypeOK
<1>1. CASE Stage(p)
    BY <1>1, <1>t, <1>p, StagePuts DEF Stage, vmVars, history
<1>2. CASE Clone(p)
    BY <1>2, <1>t, <1>s, FillPuts DEF Clone, vmVars, history
<1>3. CASE CopyHead(p)
    <2>1. head'[p] = data[src[p]] /\ \A q \in Procs : q # p => head'[q] = head[q]
        BY <1>3, <1>t DEF CopyHead, TypeOK
    <2> QED
        BY <1>3, <1>t, <1>p, <2>1, FillPuts DEF CopyHead, vmVars, history
<1>4. CASE CopyRest(p)
    <2>1. data[src[p]] = head[p]
        BY <1>4 DEF CopyRest, Disks, Sources, Reading
    <2>2. Fill(p, data[src[p]])
        BY <1>4, <2>1 DEF CopyRest
    <2> QED
        BY <1>4, <1>t, <1>s, <2>2, FillPuts DEF CopyRest, vmVars, history
<1> QED
    BY <1>1, <1>2, <1>3, <1>4

LEMMA DisksStep ==
    ASSUME OneRestore, ColdStops
    PROVE  TypeInv /\ LockInv /\ WholeInv /\ [Next]_vars => Disks'
<1> SUFFICES ASSUME TypeInv, LockInv, WholeInv, [Next]_vars PROVE Disks'
    OBVIOUS
<1> USE Processes, ImageIsNoName
<1>t. TypeOK /\ Opened /\ Disks
    BY DEF TypeInv, WholeInv
<1>same. UNCHANGED <<unixVars, pc, target, src, head, writes, wanted>> /\ NoBoot => Disks'
    BY <1>t DEF unixVars, NoBoot, Disks, Inodes, StableInodes, Aside, Sources, Copies, FilesWhole, StableWhole
<1>after. \A p \in Procs : UnitAfter(p) /\ UNCHANGED disk => NoBoot
    BY DEF UnitAfter, Inactive, NoBoot
<1>1. ASSUME NEW w \in Writers, StartWriter(w) PROVE Disks'
    <2>1. \A q \in Procs : q # w => pc'[q] = pc[q] /\ target'[q] = target[q]
        BY <1>1, <1>t DEF StartWriter, Goto, TypeOK
    <2>2. pc'[w] = "lock"
        BY <1>1, <1>t DEF StartWriter, Goto, TypeOK
    <2>3. Quiet
        BY <1>1, <2>1, <2>2 DEF StartWriter, Quiet, KeepsSource, Reading, Filled, unixVars, vmVars, history
    <2> QED
        BY <1>t, <2>3, QuietDisks
<1>2. ASSUME NEW w \in Writers, Lock(w) \/ List(w) PROVE Disks'
    BY <1>2, <1>t, GoQuiet, QuietDisks DEF Lock, List, unixVars, vmVars, history, Reading, Filled
<1>3. ASSUME NEW w \in Writers, Sweep(w) PROVE Disks'
    <2>1. \A f \in Files : tmp'[f] \in {tmp[f], NoInode}
        BY <1>3 DEF Sweep
    <2>2. CASE file[target[w]] # NoInode
        BY <1>3, <1>t, <2>1, <2>2, <1>after, EndQuiet, QuietDisks DEF Sweep, history, NoBoot
    <2>3. CASE file[target[w]] = NoInode
        <3>1. pc'[w] = "stage" /\ src'[w] = file[Image] /\ \A q \in Procs : q # w => pc'[q] = pc[q] /\ src'[q] = src[q]
            BY <1>3, <1>t, <2>3 DEF Sweep, Goto, TypeOK
        <3>2. OpensSource(w)
            BY <1>t, <3>1 DEF OpensSource, Opened
        <3>3. UNCHANGED <<data, durable, file, stable, vm, disk, writes, wanted, target, head>>
            BY <1>3, <2>3 DEF Sweep, history
        <3>4. Quiet
            BY <2>1, <3>1, <3>2, <3>3 DEF Quiet, KeepsSource, Reading, Filled
        <3> QED
            BY <1>t, <3>4, QuietDisks
    <2> QED
        BY <2>2, <2>3
<1>4. ASSUME NEW p \in Procs, Stage(p) \/ Clone(p) \/ CopyHead(p) \/ CopyRest(p) PROVE Disks'
    <2>1. PICK c : /\ Puts(p, c) /\ pc[p] \in {"stage", "copy", "rest"}
                   /\ \E label \in {"copy", "rest", "sync"} :
                        /\ Goto(p, label)
                        /\ label = "rest" => head'[p] = data[src[p]] /\ ~Reflink /\ FallsBack(p)
                        /\ label = "sync" => c \in 0 .. writes /\ (p \in Restorers => c = wanted[p])
                   /\ \A q \in Procs : q # p => head'[q] = head[q]
                   /\ UNCHANGED <<target, src, writes, wanted>>
        BY <1>4, <1>t, CopyPuts
    <2> QED
        BY <1>t, <2>1, PutsDisks
<1>5. ASSUME NEW p \in Procs, Sync(p) PROVE Disks'
    BY <1>5, <1>t, SyncDisks
<1>6. ASSUME NEW p \in Procs, Fail(p) PROVE Disks'
    <2>1. \A f \in Files : tmp'[f] \in {tmp[f], NoInode}
        BY <1>6, <1>t DEF Fail, TypeOK
    <2> QED
        BY <1>6, <1>t, <2>1, <1>after, EndQuiet, QuietDisks DEF Fail, history, NoBoot
<1>7. ASSUME NEW w \in Writers, Rename(w) PROVE Disks'
    BY <1>7, <1>t, InstallDisks DEF Rename, vmVars
<1>8. ASSUME NEW w \in Writers, PruneOne(w) PROVE Disks'
    <2>1. file'[Image] = file[Image] /\ \A f \in Files : file'[f] \in {file[f], NoInode}
        BY <1>8, <1>t DEF PruneOne, TypeOK
    <2>2. Quiet
        BY <1>8, <2>1 DEF PruneOne, Quiet, KeepsSource, vmVars, history
    <2> QED
        BY <1>t, <2>2, QuietDisks
<1>9. ASSUME NEW w \in Writers, Finish(w) PROVE Disks'
    BY <1>9, <1>t, <1>after, EndQuiet, QuietDisks DEF Finish, unixVars, history, NoBoot
<1>10. ASSUME NEW n \in Names, Remove(n) PROVE Disks'
    <2>1. file'[Image] = file[Image] /\ \A f \in Files : file'[f] \in {file[f], NoInode}
        BY <1>10, <1>t DEF Remove, TypeOK
    <2>2. Quiet
        BY <1>10, <2>1 DEF Remove, Quiet, KeepsSource, vmVars, procVars
    <2> QED
        BY <1>t, <2>2, QuietDisks
<1>11. ASSUME NEW r \in Restorers, NEW n \in Names, OpenSource(r, n) PROVE Disks'
    <2>1. /\ pc'[r] = "stop" /\ src'[r] = file[n] /\ wanted'[r] = data[file[n]] /\ file[n] # NoInode
          /\ \A q \in Procs : q # r => pc'[q] = pc[q] /\ src'[q] = src[q] /\ target'[q] = target[q]
          /\ \A q \in Restorers : q # r => wanted'[q] = wanted[q]
        BY <1>11, <1>t DEF OpenSource, Goto, TypeOK
    <2>2. OpensSource(r)
        BY <2>1 DEF OpensSource
    <2>3. UNCHANGED <<data, durable, file, tmp, stable, vm, disk, writes, head>>
        BY <1>11 DEF OpenSource, unixVars, vmVars
    <2>4. Quiet
        BY <2>1, <2>2, <2>3 DEF Quiet, KeepsSource, Reading, Filled
    <2> QED
        BY <1>t, <2>4, QuietDisks
<1>12. ASSUME NEW r \in Restorers, StopUnit(r) \/ UnitStopped(r) PROVE Disks'
    BY <1>12, <1>t, GoQuiet, QuietDisks DEF StopUnit, UnitStopped, unixVars, vmVars, history, Reading, Filled
<1>13. ASSUME NEW r \in Restorers, Replace(r) PROVE Disks'
    BY <1>13, <1>t, InstallDisks DEF Replace, vmVars
<1>14. ASSUME NEW r \in Restorers, StartUnit(r) PROVE Disks'
    <2>1. vm' = "up" => disk' = file[Image] \/ (vm = "up" /\ disk' = disk)
        BY <1>14 DEF StartUnit, Boots
    <2> QED
        BY <1>14, <1>t, <2>1, EndQuiet, QuietDisks DEF StartUnit, unixVars
<1>15. CASE Tick \/ FailedExit
    BY <1>15, <1>same DEF Tick, FailedExit, Inactive, NoBoot, unixVars, vmVars, procVars, history
<1>21. CASE UnitStart
    <2>1. Quiet
        BY <1>21 DEF UnitStart, Boots, Quiet, KeepsSource, unixVars, procVars
    <2> QED
        BY <1>t, <2>1, QuietDisks
<1>22. CASE Commit
    BY <1>22, <1>t, CommitDisks
<1>16. CASE GuestWrite
    BY <1>16, GuestDisks
<1>17. CASE CleanExit
    <2>1. \A q \in Procs : pc'[q] = "lock" \/ (pc'[q] = pc[q] /\ target'[q] = target[q])
        BY <1>17, <1>t DEF CleanExit, Goto, TypeOK
    <2>2. Quiet
        BY <1>17, <2>1 DEF CleanExit, Inactive, Quiet, KeepsSource, Reading, Filled, unixVars, history
    <2> QED
        BY <1>t, <2>2, QuietDisks
<1>18. ASSUME NEW p \in Procs, Kill(p) PROVE Disks'
    BY <1>18, <1>t, <1>after, EndQuiet, QuietDisks DEF Kill, unixVars, history, NoBoot
<1>19. CASE HostCrash
    BY <1>19, <1>t, CrashDisks
<1>20. CASE UNCHANGED vars
    BY <1>20, <1>same DEF NoBoot, vars, unixVars, vmVars, procVars, history
<1> QED
    BY <1>1, <1>2, <1>3, <1>4, <1>5, <1>6, <1>7, <1>8, <1>9, <1>10, <1>11, <1>12, <1>13, <1>14,
       <1>15, <1>16, <1>17, <1>18, <1>19, <1>20, <1>21, <1>22
       DEF Next, WriterStep, RestoreStep, Copying, Procs

-----------------------------------------------------------------------------
(* Results *)

SafeInv == TypeInv /\ LockInv /\ KeptInv /\ WholeInv

LEMMA SafeAlways ==
    ASSUME OneRestore, ColdStops PROVE Spec => []SafeInv
<1>1. Init => SafeInv
    BY TypeInit, LockInit, KeptInit, WholeInit DEF SafeInv
<1>2. SafeInv /\ [Next]_vars => SafeInv'
    BY TypeStep, LockStep, KeptStep, UnitsStep, DisksStep DEF SafeInv, WholeInv
<1> QED
    BY <1>1, <1>2, PTL DEF Spec

\* The image and every checkpoint are a disk as it was at one moment, on
\* stable storage, at every step of every writer, restore, kill and crash.
THEOREM NamesShowWhole ==
    ASSUME OneRestore, ColdStops PROVE Spec => []FilesWhole
<1>1. SafeInv => FilesWhole
    BY DEF SafeInv, WholeInv, Disks
<1> QED
    BY <1>1, SafeAlways, PTL

\* replace puts the disk in place that restore opened at the beginning, even
\* when the stop in between has pruned the checkpoint's name.
THEOREM RestoreKeepsChoice ==
    ASSUME OneRestore, ColdStops PROVE Spec => []RestoreInstalls
<1>1. SafeInv => RestoreInstalls
    BY Processes DEF SafeInv, WholeInv, Disks, Copies, Filled, LockInv, RestoresImage, RestoreInstalls
<1> QED
    BY <1>1, SafeAlways, PTL

\* A guest that was started while no restore was between its stop and its
\* rename has the file at the image's path open as long as it runs: a restore
\* that begins later waits until the unit is inactive.  One that was started in
\* between is left on the file the rename replaces, and `early` says so.
THEOREM GuestKeepsImage == Spec => []RunsOnImage
<1>1. Init => TypeInv /\ LockInv /\ Units
    BY TypeInit, LockInit, WholeInit DEF WholeInv
<1>2. TypeInv /\ LockInv /\ Units /\ [Next]_vars => (TypeInv /\ LockInv /\ Units)'
    BY TypeStep, LockStep, UnitsStep
<1>3. TypeInv /\ LockInv /\ Units => RunsOnImage
    BY DEF Units, Attached, RunsOnImage
<1> QED
    BY <1>1, <1>2, <1>3, PTL DEF Spec

\* Only the guest changes what a file holds, one that a crash would bring back
\* included.
Still ==
    \A f \in Files : /\ file[f] # NoInode => data'[file[f]] = data[file[f]]
                     /\ stable.file[f] # NoInode => data'[stable.file[f]] = data[stable.file[f]]

LEMMA FilesStill ==
    ASSUME OneRestore, SafeInv, [Next]_vars PROVE GuestWrite \/ Still
<1> USE Processes, ImageIsNoName
<1>t. TypeInv /\ TypeOK /\ LockInv /\ Disks
    BY DEF SafeInv, TypeInv, WholeInv
<1>1. ASSUME NEW p \in Procs, Stage(p) \/ Clone(p) \/ CopyHead(p) \/ CopyRest(p) PROVE Still
    <2>1. PICK c : Puts(p, c) /\ pc[p] \in {"stage", "copy", "rest"}
        BY <1>1, <1>t, CopyPuts
    <2>2. pc[p] \in Swept
        BY <2>1 DEF Swept, Holding
    <2> QED
        BY <1>t, <2>1, <2>2, PutsApart DEF Still
<1>2. CASE HostCrash
    <2>1. \A i \in 1 .. Len(data) : i \in durable => data'[i] = data[i]
        BY <1>2, <1>t, DataLost DEF HostCrash, Lost, TypeOK
    <2>2. \A f \in Files : /\ file[f] # NoInode => file[f] \in 1 .. Len(data)
                           /\ stable.file[f] # NoInode => stable.file[f] \in 1 .. Len(data)
        BY <1>t, PathTypes DEF NoInode
    <2> QED
        BY <1>t, <2>1, <2>2 DEF Still, Disks, FilesWhole, StableWhole
<1>3. CASE UNCHANGED data
    BY <1>3 DEF Still
<1>4. ASSUME NEW w \in Writers,
             StartWriter(w) \/ Lock(w) \/ Sweep(w) \/ Rename(w) \/ List(w) \/ PruneOne(w) \/ Finish(w)
      PROVE  UNCHANGED data
    BY <1>4 DEF StartWriter, Lock, Sweep, Rename, List, PruneOne, Finish, unixVars
<1>5. ASSUME NEW r \in Restorers, \/ StopUnit(r) \/ UnitStopped(r) \/ Replace(r) \/ StartUnit(r)
                                  \/ \E n \in Names : OpenSource(r, n)
      PROVE  UNCHANGED data
    BY <1>5 DEF OpenSource, StopUnit, UnitStopped, Replace, StartUnit, unixVars
<1>6. ASSUME NEW p \in Procs, Sync(p) \/ Fail(p) \/ Kill(p) PROVE UNCHANGED data
    BY <1>6 DEF Sync, Fail, Kill, unixVars
<1>7. ASSUME \/ \E n \in Names : Remove(n)
             \/ Tick \/ UnitStart \/ CleanExit \/ FailedExit \/ Commit \/ UNCHANGED vars
      PROVE  UNCHANGED data
    BY <1>7 DEF Remove, Tick, UnitStart, CleanExit, FailedExit, Commit, vars, unixVars
<1> QED
    BY <1>1, <1>2, <1>3, <1>4, <1>5, <1>6, <1>7
       DEF Next, WriterStep, RestoreStep, Copying, Procs

\* The guest writes to the file it has open: the image, or the one that was,
\* and no checkpoint's.
LEMMA GuestFiles ==
    ASSUME SafeInv, GuestWrite
    PROVE  /\ UNCHANGED <<file, stable, disk>> /\ data'[disk] = writes + 1
           /\ \A f \in Files : /\ file[f] # NoInode /\ file[f] # disk => data'[file[f]] = data[file[f]]
                               /\ stable.file[f] # NoInode /\ stable.file[f] # disk =>
                                    data'[stable.file[f]] = data[stable.file[f]]
           /\ \A n \in Names : file[n] # disk /\ stable.file[n] # disk
<1> USE ImageIsNoName
<1>t. TypeOK /\ Disks
    BY DEF SafeInv, TypeInv, WholeInv
<1>n. \A f \in Files : /\ file[f] # NoInode => file[f] \in 1 .. Len(data)
                       /\ stable.file[f] # NoInode => stable.file[f] \in 1 .. Len(data)
    BY <1>t, PathTypes DEF NoInode
<1>1. disk \in 1 .. Len(data) /\ UNCHANGED <<file, stable, disk>>
    BY <1>t DEF GuestWrite, TypeOK
<1>2. \A n \in Names : file[n] # disk /\ stable.file[n] # disk
    BY <1>t DEF GuestWrite, Disks, Aside
<1>3. writes + 1 \in Contents /\ data' = [data EXCEPT ![disk] = writes + 1]
    BY <1>t DEF GuestWrite, TypeOK, Contents
<1>4. data'[disk] = writes + 1 /\ \A i \in 1 .. Len(data) : i # disk => data'[i] = data[i]
    BY <1>t, <1>1, <1>3, DataWrite DEF TypeOK
<1> QED
    BY <1>n, <1>1, <1>2, <1>4

Frozen ==
    \A n \in Names : (file[n] # NoInode /\ file'[n] = file[n]) => data'[file[n]] = data[file[n]]

LEMMA FrozenStep ==
    ASSUME OneRestore PROVE SafeInv /\ [Next]_vars => Frozen
BY FilesStill, GuestFiles, ImageIsNoName DEF Frozen, Still

\* The bytes under a checkpoint's name never change: neither the guest, nor a
\* restore from it, nor another writer, nor a crash touches its inode.
THEOREM NamesAreFrozen ==
    ASSUME OneRestore, ColdStops PROVE Spec => CheckpointsFrozen
<1>1. SafeInv /\ [Next]_vars =>
        [\A n \in Names : (file[n] # NoInode /\ file'[n] = file[n])
            => data'[file[n]] = data[file[n]]]_vars
    BY FrozenStep DEF Frozen
<1> QED
    BY <1>1, SafeAlways, PTL DEF Spec, CheckpointsFrozen
=============================================================================
