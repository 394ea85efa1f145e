------------------------- MODULE CheckpointsProofs -------------------------
(* Proofs about Checkpoints, for every value of its constants. *)
EXTENDS Checkpoints, SequenceTheorems, TLAPS

-----------------------------------------------------------------------------
(* Names and inodes *)

\* The image is not a checkpoint, and the label a writer was started with
\* resolves to the name of one.
LEMMA ImageIsNoName == Image \notin Names /\ Image \in Files /\ Names \subseteq Files
BY DistinctAssumption DEF Image, Names, Files, Word, Automatic

LEMMA NameOfLabel ==
    ASSUME NEW w \in Writers, Accepted(Label(w)), clock \in Stamps
    PROVE  CheckpointName(Label(w)) \in Names
<1>1. CASE Label(w).kind \in Automatic
    BY <1>1 DEF CheckpointName, Names
<1>2. CASE Label(w).kind \notin Automatic
    <2>1. w \in Labels
        BY <1>2 DEF Writers, Label, Word, Automatic
    <2>2. Label(w) = w
        BY <2>1, DistinctAssumption DEF Label
    <2> QED
        BY <1>2, <2>1, <2>2 DEF CheckpointName, Names
<1> QED
    BY <1>1, <1>2

\* What creating an inode, writing to one and a crash of the host do to the
\* table of inodes.
LEMMA DataCreate ==
    ASSUME NEW d \in Seq(Contents), NEW c \in Contents
    PROVE  /\ Append(d, c) \in Seq(Contents)
           /\ Len(Append(d, c)) = Len(d) + 1
           /\ \A i \in 1 .. Len(d) : Append(d, c)[i] = d[i]
           /\ Append(d, c)[Len(d) + 1] = c
OBVIOUS

LEMMA DataWrite ==
    ASSUME NEW d \in Seq(Contents), NEW i \in 1 .. Len(d), NEW c \in Contents
    PROVE  /\ [d EXCEPT ![i] = c] \in Seq(Contents)
           /\ Len([d EXCEPT ![i] = c]) = Len(d)
           /\ \A j \in 1 .. Len(d) : [d EXCEPT ![i] = c][j] = IF j = i THEN c ELSE d[j]
BY ExceptSeq

LEMMA SameInterval ==
    ASSUME NEW m \in Nat, NEW n \in Nat, 1 .. m = 1 .. n
    PROVE  m = n
<1>1. \A i \in Nat : i \in 1 .. m <=> i \in 1 .. n
    OBVIOUS
<1> QED
    BY <1>1

Lost(d, S) == [i \in DOMAIN d |-> IF i \in S THEN d[i] ELSE Torn]

LEMMA DataLost ==
    ASSUME NEW d \in Seq(Contents), NEW S
    PROVE  /\ Lost(d, S) \in Seq(Contents)
           /\ Len(Lost(d, S)) = Len(d)
           /\ \A i \in 1 .. Len(d) : Lost(d, S)[i] = IF i \in S THEN d[i] ELSE Torn
<1> DEFINE lost == Lost(d, S)
<1>1. Len(d) \in Nat /\ DOMAIN d = 1 .. Len(d) /\ d \in [1 .. Len(d) -> Contents]
    BY LenProperties
<1>2. lost \in [1 .. Len(d) -> Contents]
    BY <1>1 DEF Contents, Lost
<1>3. lost \in Seq(Contents)
    BY <1>1, <1>2, SeqDef
<1>4. DOMAIN lost = 1 .. Len(lost) /\ Len(lost) \in Nat
    BY <1>3, LenProperties
<1>5. Len(lost) = Len(d)
    <2>1. DOMAIN lost = 1 .. Len(d)
        BY <1>1 DEF Lost
    <2> HIDE DEF lost
    <2> QED
        BY <1>1, <1>4, <2>1, SameInterval
<1> QED
    BY <1>1, <1>3, <1>5 DEF Lost

-----------------------------------------------------------------------------
(* Type correctness *)

\* The image is never missing, a process that copies has its source open, and
\* what a writer makes is a checkpoint: the facts TypeOK needs to be inductive.
Opened ==
    /\ file[Image] # NoInode /\ stable.file[Image] # NoInode
    /\ \A p \in Procs : pc[p] \in {"stop", "stopped", "stage", "copy", "rest"} => src[p] # NoInode
    /\ \A w \in Writers : pc[w] # "idle" => target[w] \in Names

TypeInv == TypeOK /\ Opened

\* What stable records are directories of the inodes there are, as long as
\* inodes are only added.
LEMMA StableType ==
    ASSUME TypeOK
    PROVE  /\ stable.file \in [Files -> 0 .. Len(data)] /\ stable.tmp \in [Files -> 0 .. Len(data)]
           /\ stable.made \subseteq Names /\ stable.kept \subseteq Names /\ stable.removed \subseteq Names
BY DEF TypeOK, Directories

LEMMA NamedType == TypeOK => Named \in Directories(Len(data))
BY DEF TypeOK, Named, Directories

LEMMA DirectoriesGrow ==
    ASSUME NEW m \in Nat, NEW n \in Nat, m =< n
    PROVE  Directories(m) \subseteq Directories(n)
<1> SUFFICES ASSUME NEW d \in Directories(m) PROVE d \in Directories(n)
    OBVIOUS
<1>1. \A f \in [Files -> 0 .. m] : f \in [Files -> 0 .. n]
    OBVIOUS
<1>2. /\ d = [file |-> d.file, tmp |-> d.tmp, made |-> d.made, kept |-> d.kept, removed |-> d.removed]
      /\ d.file \in [Files -> 0 .. m] /\ d.tmp \in [Files -> 0 .. m]
      /\ d.made \subseteq Names /\ d.kept \subseteq Names /\ d.removed \subseteq Names
    BY DEF Directories
<1> QED
    BY <1>1, <1>2 DEF Directories

LEMMA TypeInit == Init => TypeInv
<1> SUFFICES ASSUME Init PROVE TypeInv
    OBVIOUS
<1>1. data \in Seq(Contents) /\ Len(data) = 1
    BY DEF Init, Contents
<1>2. clock \in Stamps /\ disk \in 1 .. Len(data) /\ durable \subseteq 1 .. Len(data)
    BY <1>1, BoundAssumption DEF Init, Stamps
<1>3. file \in [Files -> 0 .. Len(data)] /\ tmp \in [Files -> 0 .. Len(data)]
    BY <1>1 DEF Init, NoInode
<1>4. /\ target \in [Procs -> Files] /\ src \in [Procs -> 0 .. Len(data)]
      /\ pc \in [Procs -> PCs] /\ head \in [Procs -> Contents]
    BY <1>1, ImageIsNoName DEF Init, PCs, NoInode, Contents
<1>d. stable \in Directories(Len(data))
    BY <1>3 DEF Init, Named, Directories
<1>5. TypeOK
    BY <1>1, <1>2, <1>3, <1>4, <1>d DEF Init, TypeOK, Contents
<1>6. Opened
    BY ImageIsNoName DEF Init, Named, Opened, NoInode, Procs
<1> QED
    BY <1>5, <1>6 DEF TypeInv

\* The three ways the table of inodes changes keep it well-typed and make
\* it no shorter.
Grows == data' \in Seq(Contents) /\ Len(data') \in Nat /\ Len(data) =< Len(data')

LEMMA FillType ==
    ASSUME TypeOK, NEW p \in Procs, NEW c \in Contents, Fill(p, c)
    PROVE  Grows /\ tmp' \in [Files -> 0 .. Len(data')]
<1>1. target[p] \in Files /\ tmp[target[p]] \in 0 .. Len(data) /\ Len(data) \in Nat
    BY LenProperties DEF TypeOK
<1>2. CASE tmp[target[p]] = NoInode
    <2>1. data' = Append(data, c) /\ tmp' = [tmp EXCEPT ![target[p]] = Len(data) + 1]
        BY <1>2 DEF Fill
    <2>2. data' \in Seq(Contents) /\ Len(data') = Len(data) + 1
        BY <2>1, DataCreate DEF TypeOK
    <2>3. tmp' \in [Files -> 0 .. Len(data')]
        BY <1>1, <2>1, <2>2 DEF TypeOK
    <2> QED
        BY <1>1, <2>2, <2>3 DEF Grows
<1>3. CASE tmp[target[p]] # NoInode
    <2>1. tmp[target[p]] \in 1 .. Len(data)
        BY <1>1, <1>3 DEF NoInode
    <2>2. data' = [data EXCEPT ![tmp[target[p]]] = c] /\ tmp' = tmp
        BY <1>3 DEF Fill
    <2>3. data' \in Seq(Contents) /\ Len(data') = Len(data)
        BY <2>1, <2>2, DataWrite DEF TypeOK
    <2> QED
        BY <1>1, <2>2, <2>3 DEF TypeOK, Grows
<1> QED
    BY <1>2, <1>3

\* A process that ends leaves the variables of processes well-typed.
LEMMA EndType ==
    ASSUME TypeOK, NEW p \in Procs, End(p), Grows
    PROVE  /\ holder' \in Writers \cup {NoProc}
           /\ pc' \in [Procs -> PCs]
           /\ target' \in [Procs -> Files]
           /\ src' \in [Procs -> 0 .. Len(data')]
           /\ head' \in [Procs -> Contents]
           /\ victims' \in [Procs -> SUBSET Names]
BY ImageIsNoName, LenProperties DEF TypeOK, End, Goto, Grows, PCs, NoInode, Contents

LEMMA EndOpened ==
    ASSUME TypeOK, Opened, NEW p \in Procs, End(p), UNCHANGED <<file, stable>>
    PROVE  Opened'
<1>1. \A q \in Procs : pc'[q] # "idle" => pc'[q] = pc[q] /\ src'[q] = src[q] /\ target'[q] = target[q]
    BY DEF TypeOK, End, Goto
<1>2. Writers \subseteq Procs
    BY DEF Procs
<1> QED
    BY <1>1, <1>2 DEF Opened

LEMMA TypeStep == TypeInv /\ [Next]_vars => TypeInv'
<1> SUFFICES ASSUME TypeInv, [Next]_vars PROVE TypeInv'
    OBVIOUS
<1>t. TypeOK /\ Opened
    BY DEF TypeInv
<1>len. Len(data) \in Nat
    BY <1>t, LenProperties DEF TypeOK
<1>same. UNCHANGED data => Grows
    BY <1>t, <1>len DEF TypeOK, Grows
<1>dir. Grows /\ UNCHANGED stable => stable' \in Directories(Len(data'))
    BY <1>t, <1>len, DirectoriesGrow DEF TypeOK, Grows
<1> USE ImageIsNoName
<1>1. ASSUME NEW w \in Writers, StartWriter(w) PROVE TypeInv'
    <2>1. w \in Procs /\ CheckpointName(w) \in Names
        BY <1>1, <1>t, NameOfLabel DEF StartWriter, Procs, Label, TypeOK
    <2> QED
        BY <1>1, <1>t, <2>1 DEF StartWriter, TypeInv, TypeOK, Opened, Goto, PCs,
             unixVars, vmVars, history
<1>2. ASSUME NEW w \in Writers, Lock(w) PROVE TypeInv'
    BY <1>2, <1>t DEF Lock, TypeInv, TypeOK, Opened, Goto, PCs, Procs, unixVars, vmVars, history, bounds
<1>3. ASSUME NEW w \in Writers, Sweep(w) PROVE TypeInv'
    <2>p. w \in Procs
        BY DEF Procs
    <2>1. tmp' \in [Files -> 0 .. Len(data)] /\ UNCHANGED data
        BY <1>3, <1>t, <1>len DEF Sweep, TypeOK, NoInode
    <2>2. CASE file[target[w]] # NoInode
        <3>1. End(w) /\ UnitAfter(w)
            BY <1>3, <2>2 DEF Sweep
        <3>2. vm' \in {"down", "up", "post"} /\ jobs' \subseteq Restorers
            BY <1>t, <3>1 DEF UnitAfter, Inactive, TypeOK
        <3>3. TypeOK'
            BY <1>3, <1>t, <1>same, <2>p, <2>1, <3>1, <3>2, EndType
               DEF Sweep, TypeOK, history, bounds
        <3> QED
            BY <1>3, <1>t, <2>p, <3>1, <3>3, EndOpened DEF Sweep, TypeInv
    <2>3. CASE file[target[w]] = NoInode
        <3>1. /\ pc' = [pc EXCEPT ![w] = "stage"] /\ src' = [src EXCEPT ![w] = file[Image]]
              /\ UNCHANGED <<target, head, victims, holder, vm, jobs>>
            BY <1>3, <2>3 DEF Sweep, Goto
        <3>2. TypeOK'
            BY <1>3, <1>t, <2>p, <2>1, <3>1 DEF Sweep, TypeOK, PCs, history, bounds
        <3> QED
            BY <1>3, <1>t, <2>p, <3>1, <3>2 DEF Sweep, TypeInv, TypeOK, Opened
    <2> QED
        BY <2>2, <2>3
<1>4. ASSUME NEW p \in Procs, Stage(p) PROVE TypeInv'
    <2>1. Grows /\ Len(data') = Len(data) + 1
        BY <1>4, <1>t, <1>len, DataCreate DEF Stage, TypeOK, Grows, Contents
    <2> QED
        BY <1>4, <1>t, <1>len, <1>dir, <2>1
           DEF Stage, Grows, TypeInv, TypeOK, Opened, Goto, PCs, vmVars, history, bounds
<1>5. ASSUME NEW p \in Procs, Clone(p) PROVE TypeInv'
    <2>1. data[src[p]] \in Contents
        BY <1>5, <1>t, <1>len, ElementOfSeq DEF Clone, TypeOK, Opened, NoInode
    <2>2. Grows /\ tmp' \in [Files -> 0 .. Len(data')]
        BY <1>5, <1>t, <2>1, FillType DEF Clone
    <2> QED
        BY <1>5, <1>t, <1>len, <1>dir, <2>2
           DEF Clone, Grows, TypeInv, TypeOK, Opened, Goto, PCs, vmVars, history, bounds
<1>6. ASSUME NEW p \in Procs, CopyHead(p) PROVE TypeInv'
    <2>1. data[src[p]] \in Contents
        BY <1>6, <1>t, <1>len, ElementOfSeq DEF CopyHead, TypeOK, Opened, NoInode
    <2>2. Grows /\ tmp' \in [Files -> 0 .. Len(data')]
        BY <1>6, <1>t, FillType DEF CopyHead, Contents
    <2> QED
        BY <1>6, <1>t, <1>len, <1>dir, <2>1, <2>2
           DEF CopyHead, Grows, TypeInv, TypeOK, Opened, Goto, PCs, vmVars, history, bounds
<1>7. ASSUME NEW p \in Procs, CopyRest(p) PROVE TypeInv'
    <2>1. (IF data[src[p]] = head[p] THEN head[p] ELSE Torn) \in Contents
        BY <1>t DEF TypeOK, Contents
    <2>2. Grows /\ tmp' \in [Files -> 0 .. Len(data')]
        BY <1>7, <1>t, <2>1, FillType DEF CopyRest
    <2> QED
        BY <1>7, <1>t, <1>len, <1>dir, <2>2
           DEF CopyRest, Grows, TypeInv, TypeOK, Opened, Goto, PCs, vmVars, history, bounds
<1>8. ASSUME NEW p \in Procs, Sync(p) PROVE TypeInv'
    <2>1. tmp[target[p]] \in 1 .. Len(data)
        BY <1>8, <1>t, <1>len DEF Sync, TypeOK, NoInode
    <2>2. TypeOK'
        BY <1>8, <1>t, <2>1 DEF Sync, TypeOK, Goto, PCs, vmVars, history, bounds
    <2>3. Opened'
        BY <1>8, <1>t DEF Sync, TypeOK, Opened, Goto, Procs
    <2> QED
        BY <2>2, <2>3 DEF TypeInv
<1>9. ASSUME NEW p \in Procs, Fail(p) PROVE TypeInv'
    <2>1. tmp' \in [Files -> 0 .. Len(data)] /\ UNCHANGED data
        BY <1>9, <1>t, <1>len DEF Fail, TypeOK, NoInode
    <2>2. vm' \in {"down", "up", "post"} /\ jobs' \subseteq Restorers
        BY <1>9, <1>t DEF Fail, UnitAfter, Inactive, TypeOK
    <2>3. TypeOK'
        BY <1>9, <1>t, <1>same, <2>1, <2>2, EndType DEF Fail, TypeOK, history, bounds
    <2> QED
        BY <1>9, <1>t, <2>3, EndOpened DEF Fail, TypeInv
<1>10. ASSUME NEW w \in Writers, Rename(w) PROVE TypeInv'
    <2>1. target[w] \in Files /\ tmp[target[w]] \in 1 .. Len(data)
        BY <1>10, <1>t, <1>len DEF Rename, Installed, Procs, TypeOK, NoInode
    <2>2. file' \in [Files -> 0 .. Len(data)] /\ tmp' \in [Files -> 0 .. Len(data)] /\ file'[Image] # NoInode
        BY <1>10, <1>t, <1>len, <2>1 DEF Rename, Installed, TypeOK, Opened, NoInode
    <2>3. made' \subseteq Names /\ kept' \subseteq Names /\ removed' \subseteq Names /\ saved' \in BOOLEAN
        BY <1>10, <1>t DEF Rename, Installed, TypeOK, Opened
    <2> QED
        BY <1>10, <1>t, <2>2, <2>3
           DEF Rename, TypeInv, TypeOK, Opened, Goto, PCs, Procs, vmVars, bounds
<1>11. ASSUME NEW w \in Writers, List(w) PROVE TypeInv'
    <2>1. UNION {Excess(kind) : kind \in Pruned} \subseteq Names
        BY DEF Excess, Present
    <2> QED
        BY <1>11, <1>t, <2>1
           DEF List, TypeInv, TypeOK, Opened, Goto, PCs, Procs, unixVars, vmVars, history, bounds
<1>12. ASSUME NEW w \in Writers, PruneOne(w) PROVE TypeInv'
    <2>1. /\ file' \in [Files -> 0 .. Len(data)] /\ file'[Image] # NoInode
          /\ victims' \in [Procs -> SUBSET Names]
        BY <1>12, <1>t, <1>len DEF PruneOne, TypeOK, Opened, Procs, NoInode
    <2>2. TypeOK'
        BY <1>12, <1>t, <2>1 DEF PruneOne, TypeOK, vmVars, history, bounds
    <2> QED
        BY <1>12, <1>t, <2>1, <2>2 DEF PruneOne, TypeInv, Opened
<1>13. ASSUME NEW w \in Writers, Finish(w) PROVE TypeInv'
    <2>p. w \in Procs
        BY DEF Procs
    <2>1. vm' \in {"down", "up", "post"} /\ jobs' \subseteq Restorers
        BY <1>13, <1>t DEF Finish, UnitAfter, Inactive, TypeOK
    <2>2. TypeOK'
        BY <1>13, <1>t, <1>same, <2>p, <2>1, EndType DEF Finish, TypeOK, unixVars, history, bounds
    <2> QED
        BY <1>13, <1>t, <2>p, <2>2, EndOpened DEF Finish, TypeInv, unixVars
<1>14. ASSUME NEW n \in Names, Remove(n) PROVE TypeInv'
    BY <1>14, <1>t, <1>len
       DEF Remove, TypeInv, TypeOK, Opened, NoInode, vmVars, procVars, history, bounds
<1>15. ASSUME NEW r \in Restorers, NEW n \in Names, OpenSource(r, n) PROVE TypeInv'
    <2>1. data[file[n]] \in Contents
        BY <1>15, <1>t, <1>len, ElementOfSeq DEF OpenSource, TypeOK, NoInode
    <2>2. r \in Procs /\ r \notin Writers
        BY DistinctAssumption DEF Procs, Writers
    <2>3. TypeOK'
        BY <1>15, <1>t, <1>len, <2>1, <2>2 DEF OpenSource, TypeOK, Goto, PCs, unixVars, vmVars
    <2> QED
        BY <1>15, <1>t, <2>2, <2>3 DEF OpenSource, TypeInv, TypeOK, Opened, Goto, unixVars
<1>16. ASSUME NEW r \in Restorers, StopUnit(r) PROVE TypeInv'
    BY <1>16, <1>t
       DEF StopUnit, TypeInv, TypeOK, Opened, Goto, PCs, Procs, unixVars, history, bounds
<1>17. ASSUME NEW r \in Restorers, UnitStopped(r) PROVE TypeInv'
    BY <1>17, <1>t
       DEF UnitStopped, TypeInv, TypeOK, Opened, Goto, PCs, Procs, unixVars, vmVars, history, bounds
<1>18. ASSUME NEW r \in Restorers, Replace(r) PROVE TypeInv'
    <2>1. target[r] \in Files /\ tmp[target[r]] \in 1 .. Len(data)
        BY <1>18, <1>t, <1>len DEF Replace, Installed, Procs, TypeOK, NoInode
    <2>2. file' \in [Files -> 0 .. Len(data)] /\ tmp' \in [Files -> 0 .. Len(data)] /\ file'[Image] # NoInode
        BY <1>18, <1>t, <1>len, <2>1 DEF Replace, Installed, TypeOK, Opened, NoInode
    <2>3. TypeOK'
        BY <1>18, <1>t, <2>2 DEF Replace, TypeOK, Goto, PCs, Procs, vmVars, bounds
    <2>4. Opened'
        BY <1>18, <1>t, <2>2 DEF Replace, Installed, TypeOK, Opened, Goto, Procs
    <2> QED
        BY <2>3, <2>4 DEF TypeInv
<1>19. ASSUME NEW r \in Restorers, StartUnit(r) PROVE TypeInv'
    <2>1. r \in Procs /\ file[Image] \in 1 .. Len(data)
        BY <1>t, <1>len DEF Procs, TypeOK, Opened, NoInode
    <2>2. /\ vm' = "up" /\ disk' \in 1 .. Len(data) /\ saved' \in BOOLEAN /\ early' \in BOOLEAN
        BY <2>1, <1>19, <1>t DEF StartUnit, Boots, TypeOK
    <2>3. TypeOK'
        BY <1>19, <1>t, <1>same, <2>1, <2>2, EndType DEF StartUnit, TypeOK, unixVars, bounds
    <2> QED
        BY <1>19, <1>t, <2>1, <2>3, EndOpened DEF StartUnit, TypeInv, unixVars
<1>20. CASE Tick
    BY <1>20, <1>t, BoundAssumption
       DEF Tick, Stamps, TypeInv, TypeOK, Opened, unixVars, vmVars, procVars, history
<1>21. CASE GuestWrite
    <2>1. Grows /\ Len(data') = Len(data)
        BY <1>21, <1>t, <1>len, DataWrite DEF GuestWrite, TypeOK, Grows, Contents
    <2> QED
        BY <1>21, <1>t, <1>len, <1>dir, <2>1
           DEF GuestWrite, Grows, TypeInv, TypeOK, Opened, procVars, history, bounds
<1>22. CASE UnitStart
    <2>1. file[Image] \in 1 .. Len(data)
        BY <1>t, <1>len DEF TypeOK, Opened, NoInode
    <2> QED
        BY <1>22, <1>t, <2>1 DEF UnitStart, Boots, TypeInv, TypeOK, Opened, unixVars, procVars, bounds
<1>23. CASE CleanExit
    <2>1. CASE OnStop
        <3>1. Post \in Writers /\ Post \in Procs
            BY <2>1 DEF Writers, Procs
        <3>2. CheckpointName(Word("stop")) \in Names
            BY <1>t, <3>1, NameOfLabel DEF TypeOK, Label, Accepted, Word
        <3>3. ops' \in Nat
            BY <1>23, <1>t DEF CleanExit, Exits, TypeOK
        <3>4. TypeOK'
            BY <1>23, <1>t, <2>1, <3>1, <3>2, <3>3
               DEF CleanExit, TypeOK, Goto, PCs, unixVars, history
        <3>5. Opened'
            BY <1>23, <1>t, <2>1, <3>1, <3>2 DEF CleanExit, TypeOK, Opened, Goto, Procs, unixVars
        <3> QED
            BY <3>4, <3>5 DEF TypeInv
    <2>2. CASE ~OnStop
        BY <1>23, <1>t, <2>2
           DEF CleanExit, Exits, Inactive, TypeInv, TypeOK, Opened, unixVars, history
    <2> QED
        BY <2>1, <2>2
<1>24. CASE FailedExit
    BY <1>24, <1>t
       DEF FailedExit, Exits, Inactive, TypeInv, TypeOK, Opened, unixVars, procVars, history
<1>25. ASSUME NEW p \in Procs, Kill(p) PROVE TypeInv'
    <2>1. vm' \in {"down", "up", "post"} /\ jobs' \subseteq Restorers
        BY <1>25, <1>t DEF Kill, UnitAfter, Inactive, TypeOK
    <2>2. Grows /\ Len(data') = Len(data)
        BY <1>25, <1>same DEF Kill, unixVars
    <2>3. ops' \in Nat /\ UNCHANGED <<unixVars, disk, writes, history, clock, crashes>>
        BY <1>25, <1>t DEF Kill, TypeOK
    <2>4. /\ holder' \in Writers \cup {NoProc} /\ pc' \in [Procs -> PCs]
          /\ target' \in [Procs -> Files] /\ src' \in [Procs -> 0 .. Len(data')]
          /\ head' \in [Procs -> Contents] /\ victims' \in [Procs -> SUBSET Names]
        BY <1>25, <1>t, <2>2, EndType DEF Kill
    <2>5. TypeOK'
        BY <1>t, <2>1, <2>2, <2>3, <2>4 DEF TypeOK, unixVars, history
    <2> QED
        BY <1>25, <1>t, <2>5, EndOpened DEF Kill, TypeInv, unixVars
<1>26. CASE HostCrash
    <2>1. Grows /\ Len(data') = Len(data)
        <3>1. data' \in Seq(Contents) /\ Len(data') = Len(data)
            BY <1>26, <1>t, DataLost DEF HostCrash, Lost, TypeOK
        <3> QED
            BY <1>len, <3>1 DEF Grows
    <2>2. /\ pc' \in [Procs -> PCs] /\ target' \in [Procs -> Files]
          /\ src' \in [Procs -> 0 .. Len(data)] /\ head' \in [Procs -> Contents]
          /\ victims' \in [Procs -> SUBSET Names]
        BY <1>26, <1>len DEF HostCrash, PCs, NoInode, Contents
    <2>s. /\ file' \in [Files -> 0 .. Len(data)] /\ tmp' \in [Files -> 0 .. Len(data)]
          /\ made' \subseteq Names /\ kept' \subseteq Names /\ removed' \subseteq Names
        BY <1>26, <1>t, StableType DEF HostCrash
    <2>d. stable' \in Directories(Len(data'))
        BY <1>26, <1>dir, <2>1 DEF HostCrash
    <2>i. /\ data' \in Seq(Contents) /\ Len(data') = Len(data)
          /\ disk' \in 1 .. Len(data) /\ durable' \subseteq 1 .. Len(data)
        BY <1>26, <1>t, <2>1 DEF HostCrash, Grows, TypeOK
    <2>v. /\ clock' \in Stamps /\ vm' \in {"down", "up", "post"} /\ jobs' \subseteq Restorers
          /\ saved' \in BOOLEAN /\ early' \in BOOLEAN /\ writes' \in Nat /\ ops' \in Nat
          /\ crashes' \in Nat /\ holder' \in Writers \cup {NoProc} /\ wanted' \in [Restorers -> Contents]
        <3>1. /\ vm' = "down" /\ jobs' = {} /\ saved' = FALSE /\ holder' = NoProc
              /\ crashes' = crashes + 1 /\ UNCHANGED <<clock, early, writes, ops, wanted>>
            BY <1>26 DEF HostCrash, Inactive
        <3>2. saved' \in BOOLEAN /\ early' \in BOOLEAN
            BY <1>t, <3>1 DEF TypeOK
        <3>3. crashes' \in Nat
            BY <1>t, <3>1 DEF TypeOK
        <3> QED
            BY <1>t, <3>1, <3>2, <3>3 DEF TypeOK
    <2>3. TypeOK'
        BY <2>2, <2>s, <2>d, <2>i, <2>v DEF TypeOK
    <2>4. Opened'
        BY <1>26, <1>t DEF HostCrash, Opened, Procs
    <2> QED
        BY <2>3, <2>4 DEF TypeInv
<1>28. CASE Commit
    <2>1. stable' \in Directories(Len(data))
        BY <1>28, <1>t, NamedType DEF Commit
    <2>2. Opened'
        BY <1>28, <1>t DEF Commit, Named, Opened, procVars
    <2> QED
        BY <1>28, <1>t, <2>1, <2>2 DEF Commit, TypeInv, TypeOK, vmVars, procVars, history, bounds
<1>27. CASE UNCHANGED vars
    BY <1>27, <1>t
       DEF vars, TypeInv, TypeOK, Opened, unixVars, vmVars, procVars, history, bounds
<1> QED
    BY <1>1, <1>2, <1>3, <1>4, <1>5, <1>6, <1>7, <1>8, <1>9, <1>10, <1>11, <1>12, <1>13, <1>14,
       <1>15, <1>16, <1>17, <1>18, <1>19, <1>20, <1>21, <1>22, <1>23, <1>24, <1>25, <1>26, <1>27, <1>28
       DEF Next, WriterStep, RestoreStep, Copying, Procs

\* Every variable keeps its type: no handler reads an inode or writes a path
\* that does not exist.
THEOREM TypeCorrect == Spec => []TypeOK
<1>1. TypeInv => TypeOK
    BY DEF TypeInv
<1> QED
    BY <1>1, TypeInit, TypeStep, PTL DEF Spec

\* Writers and restores are different processes.
LEMMA Processes ==
    /\ Writers \subseteq Procs /\ Restorers \subseteq Procs
    /\ Writers \cap Restorers = {} /\ NoProc \notin Procs
BY DistinctAssumption, NoProcAssumption DEF Procs, Writers

-----------------------------------------------------------------------------
(* The lock *)

\* A restore stages beside the image, never in the checkpoint directory.
RestoresImage == \A r \in Restorers : target[r] = Image

LockInv == TmpOwned /\ RestoresImage

LEMMA LockInit == Init => LockInv
BY Processes DEF Init, LockInv, TmpOwned, RestoresImage, Holding, Swept

\* A process that ends gives up the lock it held and no other.
LEMMA EndLock ==
    ASSUME TypeInv, LockInv, NEW p \in Procs, End(p),
           \A n \in Names : tmp'[n] \in {tmp[n], NoInode}
    PROVE  LockInv'
<1> USE Processes DEF TypeInv, TypeOK
<1>1. RestoresImage'
    BY DEF LockInv, RestoresImage, End
<1>2. \A w \in Writers : pc'[w] \in Holding =>
        w # p /\ pc'[w] = pc[w] /\ target'[w] = target[w]
    BY DEF End, Goto, Holding
<1>3. \A w \in Writers : pc'[w] \in Holding => holder' = w
    BY <1>2 DEF LockInv, TmpOwned, End
<1>4. \A w \in Writers : pc'[w] \in Swept =>
        \A n \in Names : tmp'[n] # NoInode => n = target'[w]
    BY <1>2 DEF LockInv, TmpOwned, Swept
<1> QED
    BY <1>1, <1>3, <1>4 DEF LockInv, TmpOwned

\* A process that goes on between two places where it holds the lock, or that
\* is a restore, leaves the lock alone.
LEMMA GoLock ==
    ASSUME TypeInv, LockInv, NEW p \in Procs, NEW label, Goto(p, label), UNCHANGED <<target, holder>>,
           p \in Writers /\ label \in Holding => pc[p] \in Holding,
           p \in Writers /\ label \in Swept => pc[p] \in Swept,
           \A n \in Names : tmp'[n] \in {tmp[n], NoInode}
    PROVE  LockInv'
<1> USE Processes DEF TypeInv, TypeOK
<1>1. \A w \in Writers : pc'[w] \in Holding => pc[w] \in Holding
    BY DEF Goto
<1>2. \A w \in Writers : pc'[w] \in Swept => pc[w] \in Swept
    BY DEF Goto
<1> QED
    BY <1>1, <1>2 DEF LockInv, TmpOwned, RestoresImage

\* Creating the .tmp of one's own target keeps the .tmps owned.
LEMMA CreateLock ==
    ASSUME TypeInv, LockInv, NEW p \in Procs, pc[p] \in Swept, NEW label \in Swept, Goto(p, label),
           UNCHANGED <<target, holder>>,
           \A n \in Names : n # target[p] => tmp'[n] = tmp[n]
    PROVE  LockInv'
<1> USE Processes, ImageIsNoName DEF TypeInv, TypeOK
<1>1. RestoresImage' /\ \A w \in Writers : pc'[w] \in Holding => holder' = w
    BY DEF LockInv, RestoresImage, TmpOwned, Goto, Swept
<1>2. ASSUME NEW w \in Writers, pc'[w] \in Swept, NEW n \in Names, tmp'[n] # NoInode
      PROVE  n = target'[w]
    <2>1. pc[w] \in Swept
        BY <1>2 DEF Goto
    <2>2. CASE p \in Writers
        <3>1. holder = p /\ holder = w
            BY <2>1, <2>2 DEF LockInv, TmpOwned, Swept
        <3> QED
            BY <1>2, <2>1, <3>1 DEF LockInv, TmpOwned
    <2>3. CASE p \in Restorers
        <3>1. n # target[p]
            BY <1>2, <2>3 DEF LockInv, RestoresImage
        <3>2. tmp[n] # NoInode
            BY <1>2, <3>1
        <3> QED
            BY <1>2, <2>1, <3>2 DEF LockInv, TmpOwned
    <2> QED
        BY <2>2, <2>3 DEF Procs
<1> QED
    BY <1>1, <1>2 DEF LockInv, TmpOwned

LEMMA FillLock ==
    ASSUME TypeInv, LockInv, NEW p \in Procs, NEW content, Fill(p, content), pc[p] \in {"copy", "rest"},
           NEW label \in {"rest", "sync"}, Goto(p, label), UNCHANGED <<target, holder>>
    PROVE  LockInv'
<1>1. \A n \in Names : n # target[p] => tmp'[n] = tmp[n]
    BY ImageIsNoName DEF Fill, TypeInv, TypeOK
<1> QED
    BY <1>1, CreateLock DEF Swept, Holding

LEMMA LockStep == TypeInv /\ LockInv /\ [Next]_vars => LockInv'
<1> SUFFICES ASSUME TypeInv, LockInv, [Next]_vars PROVE LockInv'
    OBVIOUS
<1> USE Processes, ImageIsNoName
<1>t. TypeOK
    BY DEF TypeInv
<1>same. UNCHANGED <<pc, target, holder>> /\ (\A n \in Names : tmp'[n] \in {tmp[n], NoInode}) => LockInv'
    BY DEF LockInv, TmpOwned, RestoresImage
<1>1. ASSUME NEW w \in Writers, StartWriter(w) PROVE LockInv'
    <2>1. \A v \in Writers : pc'[v] \in Holding => pc'[v] = pc[v] /\ target'[v] = target[v]
        BY <1>1, <1>t DEF StartWriter, Goto, TypeOK, Holding
    <2>2. RestoresImage' /\ UNCHANGED <<tmp, holder>>
        BY <1>1, <1>t DEF StartWriter, LockInv, RestoresImage, TypeOK, unixVars
    <2> QED
        BY <2>1, <2>2 DEF LockInv, TmpOwned, Swept
<1>2. ASSUME NEW w \in Writers, Lock(w) PROVE LockInv'
    <2>1. \A v \in Writers : pc[v] \notin Holding
        BY <1>2 DEF Lock, LockInv, TmpOwned
    <2>2. \A v \in Writers : pc'[v] \in Holding => v = w /\ pc'[v] = "sweep"
        BY <1>2, <1>t, <2>1 DEF Lock, Goto, TypeOK
    <2> QED
        BY <1>2, <2>2 DEF Lock, LockInv, TmpOwned, RestoresImage, Swept
<1>3. ASSUME NEW w \in Writers, Sweep(w) PROVE LockInv'
    <2>1. \A n \in Names : tmp'[n] = NoInode
        BY <1>3 DEF Sweep
    <2>2. CASE file[target[w]] # NoInode
        BY <1>3, <2>1, <2>2, EndLock DEF Sweep
    <2>3. CASE file[target[w]] = NoInode
        <3>1. \A v \in Writers : pc'[v] \in Holding => pc[v] \in Holding
            BY <1>3, <1>t, <2>3 DEF Sweep, Goto, TypeOK, Holding
        <3> QED
            BY <1>3, <2>1, <2>3, <3>1 DEF Sweep, LockInv, TmpOwned, RestoresImage
    <2> QED
        BY <2>2, <2>3
<1>4. ASSUME NEW p \in Procs, Stage(p) PROVE LockInv'
    <2>1. \A n \in Names : n # target[p] => tmp'[n] = tmp[n]
        BY <1>4, <1>t DEF Stage, TypeOK
    <2> QED
        BY <1>4, <2>1, CreateLock DEF Stage, Swept, Holding
<1>5. ASSUME NEW p \in Procs, Clone(p) \/ CopyHead(p) \/ CopyRest(p) PROVE LockInv'
    BY <1>5, FillLock DEF Clone, CopyHead, CopyRest
<1>6. ASSUME NEW p \in Procs, Sync(p) PROVE LockInv'
    BY <1>6, GoLock DEF Sync, Swept, Holding
<1>7. ASSUME NEW p \in Procs, Fail(p) PROVE LockInv'
    <2>1. \A n \in Names : tmp'[n] \in {tmp[n], NoInode}
        BY <1>7, <1>t DEF Fail, TypeOK
    <2> QED
        BY <1>7, <2>1, EndLock DEF Fail
<1>8. ASSUME NEW w \in Writers, Rename(w) PROVE LockInv'
    <2>1. \A n \in Names : tmp'[n] \in {tmp[n], NoInode}
        BY <1>8, <1>t DEF Rename, Installed, TypeOK
    <2> QED
        BY <1>8, <2>1, GoLock DEF Rename, Installed, Swept, Holding
<1>9. ASSUME NEW w \in Writers, List(w) PROVE LockInv'
    BY <1>9, GoLock DEF List, Swept, Holding, unixVars
<1>10. ASSUME NEW w \in Writers, PruneOne(w) PROVE LockInv'
    BY <1>10, <1>same DEF PruneOne
<1>11. ASSUME NEW w \in Writers, Finish(w) PROVE LockInv'
    BY <1>11, EndLock DEF Finish, unixVars
<1>12. ASSUME NEW n \in Names, Remove(n) PROVE LockInv'
    BY <1>12, <1>same DEF Remove, procVars
<1>13. ASSUME NEW r \in Restorers, NEW n \in Names, OpenSource(r, n) PROVE LockInv'
    <2>1. \A w \in Writers : pc'[w] = pc[w] /\ target'[w] = target[w]
        BY <1>13, <1>t DEF OpenSource, Goto, TypeOK
    <2>2. RestoresImage' /\ UNCHANGED <<tmp, holder>>
        BY <1>13, <1>t DEF OpenSource, LockInv, RestoresImage, TypeOK, unixVars
    <2> QED
        BY <2>1, <2>2 DEF LockInv, TmpOwned
<1>14. ASSUME NEW r \in Restorers, StopUnit(r) \/ UnitStopped(r) PROVE LockInv'
    BY <1>14, GoLock DEF StopUnit, UnitStopped, unixVars
<1>15. ASSUME NEW r \in Restorers, Replace(r) PROVE LockInv'
    <2>1. \A n \in Names : tmp'[n] \in {tmp[n], NoInode}
        BY <1>15, <1>t DEF Replace, Installed, TypeOK
    <2> QED
        BY <1>15, <2>1, GoLock DEF Replace
<1>16. ASSUME NEW r \in Restorers, StartUnit(r) PROVE LockInv'
    BY <1>16, EndLock DEF StartUnit, unixVars
<1>17. CASE Tick \/ GuestWrite \/ UnitStart \/ FailedExit
    BY <1>17, <1>same DEF Tick, GuestWrite, UnitStart, FailedExit, unixVars, procVars
<1>18. CASE CleanExit
    <2>1. \A w \in Writers : pc'[w] \in Holding => pc'[w] = pc[w] /\ target'[w] = target[w]
        BY <1>18, <1>t DEF CleanExit, Goto, TypeOK, Holding
    <2>2. RestoresImage' /\ UNCHANGED <<tmp, holder>>
        BY <1>18, <1>t, DistinctAssumption DEF CleanExit, LockInv, RestoresImage, TypeOK, unixVars
    <2> QED
        BY <2>1, <2>2 DEF LockInv, TmpOwned, Swept
<1>19. ASSUME NEW p \in Procs, Kill(p) PROVE LockInv'
    BY <1>19, EndLock DEF Kill, unixVars
<1>20. CASE HostCrash
    BY <1>20 DEF HostCrash, LockInv, TmpOwned, RestoresImage, Holding, Swept
<1>21. CASE Commit \/ UNCHANGED vars
    BY <1>21, <1>same DEF Commit, vars, unixVars, procVars
<1> QED
    BY <1>1, <1>2, <1>3, <1>4, <1>5, <1>6, <1>7, <1>8, <1>9, <1>10, <1>11, <1>12, <1>13, <1>14,
       <1>15, <1>16, <1>17, <1>18, <1>19, <1>20, <1>21
       DEF Next, WriterStep, RestoreStep, Copying, Procs

\* One writer at a time is past the flock of writeCheckpoint, and once it has
\* swept the directory every .tmp there is its own, with any number of units,
\* restores, kills and crashes.
THEOREM WritersTakeTurns == Spec => []TmpOwned
<1>1. Init => TypeInv /\ LockInv
    BY TypeInit, LockInit
<1>2. TypeInv /\ LockInv /\ [Next]_vars => (TypeInv /\ LockInv)'
    BY TypeStep, LockStep
<1>3. TypeInv /\ LockInv => TmpOwned
    BY DEF LockInv
<1> QED
    BY <1>1, <1>2, <1>3, PTL DEF Spec

-----------------------------------------------------------------------------
(* The checkpoints an operator asked for *)

\* What prune has listed is of its own kinds, and a name is of the kind of the
\* label it was made from.
Kinds ==
    /\ \A n \in kept : n.kind \notin Pruned
    /\ \A p \in Procs : \A n \in victims[p] : n.kind \in Pruned
    /\ \A w \in Writers : pc[w] # "idle" => target[w].kind = Label(w).kind /\ Accepted(Label(w))

KeptNow == KeptUntilRemoved /\ Kinds

\* The same of the directory as a crash would leave it.
KeptSettled ==
    /\ \A n \in stable.kept : n.kind \notin Pruned
    /\ \A n \in stable.kept \ stable.removed : stable.file[n] # NoInode

KeptInv == KeptNow /\ KeptSettled

LEMMA KeptInit == Init => KeptInv
BY Processes DEF Init, Named, KeptInv, KeptNow, KeptUntilRemoved, Kinds, KeptSettled

\* Only Commit writes what a crash returns to.
LEMMA StableMoves == [Next]_vars => UNCHANGED stable \/ Commit
BY DEF Next, vars, unixVars, StartWriter, WriterStep, Lock, Sweep, Copying, Stage, Clone, CopyHead,
   CopyRest, Sync, Fail, Rename, List, PruneOne, Finish, RestoreStep, OpenSource, StopUnit,
   UnitStopped, Replace, StartUnit, Kill, Remove, Tick, GuestWrite, UnitStart, CleanExit,
   FailedExit, HostCrash

LEMMA SettledKept == KeptInv /\ [Next]_vars => KeptSettled'
<1>1. CASE UNCHANGED stable
    BY <1>1 DEF KeptInv, KeptSettled
<1>2. CASE Commit
    BY <1>2 DEF Commit, Named, KeptInv, KeptNow, KeptUntilRemoved, Kinds, KeptSettled
<1> QED
    BY <1>1, <1>2, StableMoves

\* checkpointLabel keeps the kind, and takes the words stop and timer only.
LEMMA LabelKinds ==
    ASSUME NEW w \in Writers, Accepted(Label(w)), Label(w).kind \in Pruned
    PROVE  Label(w) \in {Word("stop"), Word("timer")}
<1>1. CASE w = Post
    BY <1>1 DEF Label
<1>2. CASE w # Post
    <2>1. w \in Labels /\ Label(w) = w
        BY <1>2 DEF Writers, Label
    <2>2. w = [kind |-> w.kind, at |-> w.at]
        BY <2>1, LabelAssumption
    <2>3. w.at = 0 /\ w.kind \in {"stop", "timer"}
        BY <2>1 DEF Accepted, Pruned, Automatic
    <2> QED
        BY <2>1, <2>2, <2>3 DEF Word
<1> QED
    BY <1>1, <1>2

LEMMA NameKind == \A l : CheckpointName(l).kind = l.kind
BY DEF CheckpointName

\* A step that neither prunes nor names a checkpoint.
LEMMA KeptSame ==
    ASSUME KeptNow, UNCHANGED <<kept, removed>>,
           \A n \in Names : file'[n] = file[n],
           kept \subseteq Names,
           \A p \in Procs : victims'[p] \subseteq victims[p],
           \A w \in Writers : pc'[w] # "idle" => pc[w] # "idle" /\ target'[w] = target[w]
    PROVE  KeptNow'
<1>1. KeptUntilRemoved'
    BY DEF KeptNow, KeptUntilRemoved
<1>2. \A n \in kept' : n.kind \notin Pruned
    BY DEF KeptNow, Kinds
<1>3. \A p \in Procs : \A n \in victims'[p] : n.kind \in Pruned
    BY DEF KeptNow, Kinds
<1>4. \A w \in Writers : pc'[w] # "idle" => target'[w].kind = Label(w).kind /\ Accepted(Label(w))
    BY DEF KeptNow, Kinds
<1> QED
    BY <1>1, <1>2, <1>3, <1>4 DEF KeptNow, Kinds

LEMMA EndKept ==
    ASSUME TypeOK, KeptNow, NEW p \in Procs, End(p), UNCHANGED <<file, kept, removed>>
    PROVE  KeptNow'
<1>1. \A q \in Procs : victims'[q] \subseteq victims[q]
    BY DEF End, TypeOK
<1>2. \A w \in Writers : pc'[w] # "idle" => pc[w] # "idle" /\ target'[w] = target[w]
    BY Processes DEF End, Goto, TypeOK
<1> QED
    BY <1>1, <1>2, KeptSame DEF TypeOK

LEMMA GoKept ==
    ASSUME TypeOK, KeptNow, NEW p \in Procs, p \in Writers => pc[p] # "idle",
           NEW label, Goto(p, label), UNCHANGED <<file, target, victims, kept, removed>>
    PROVE  KeptNow'
<1>1. \A w \in Writers : pc'[w] # "idle" => pc[w] # "idle" /\ target'[w] = target[w]
    BY Processes DEF Goto, TypeOK
<1> QED
    BY <1>1, KeptSame DEF TypeOK

\* A writer starts under the name checkpointLabel gives it.
LEMMA NamedKept ==
    ASSUME TypeOK, KeptNow, NEW w \in Writers, Accepted(Label(w)), Goto(w, "lock"),
           target' = [target EXCEPT ![w] = CheckpointName(Label(w))],
           UNCHANGED <<file, victims, kept, removed>>
    PROVE  KeptNow'
<1>1. ASSUME NEW v \in Writers, pc'[v] # "idle"
      PROVE  target'[v].kind = Label(v).kind /\ Accepted(Label(v))
    <2>1. CASE v = w
        BY <2>1, NameKind, Processes DEF TypeOK
    <2>2. CASE v # w
        BY <1>1, <2>2, Processes DEF TypeOK, Goto, KeptNow, Kinds
    <2> QED
        BY <2>1, <2>2
<1> QED
    BY <1>1 DEF KeptNow, KeptUntilRemoved, Kinds

LEMMA KeptStep == TypeInv /\ KeptInv /\ LockInv /\ [Next]_vars => KeptInv'
<1> SUFFICES ASSUME TypeInv, KeptInv, KeptNow, LockInv, [Next]_vars PROVE KeptNow'
    BY SettledKept DEF KeptInv
<1> USE Processes, ImageIsNoName
<1>t. TypeOK /\ Opened
    BY DEF TypeInv
<1>1. ASSUME NEW w \in Writers, StartWriter(w) PROVE KeptNow'
    <2>1. Label(w) = w
        BY <1>1 DEF StartWriter, Label
    <2> QED
        BY <1>1, <1>t, <2>1, NamedKept DEF StartWriter, unixVars, history
<1>2. ASSUME NEW w \in Writers, Lock(w) \/ Sweep(w) PROVE KeptNow'
    BY <1>2, <1>t, GoKept, EndKept DEF Lock, Sweep, unixVars, history
<1>3. ASSUME NEW p \in Procs, Copying(p) PROVE KeptNow'
    <2>1. CASE Stage(p) \/ Clone(p) \/ CopyHead(p) \/ CopyRest(p) \/ Sync(p)
        BY <2>1, <1>t, GoKept DEF Stage, Clone, CopyHead, CopyRest, Sync, history
    <2>2. CASE Fail(p)
        BY <2>2, <1>t, EndKept DEF Fail, history
    <2> QED
        BY <1>3, <2>1, <2>2 DEF Copying
<1>4. ASSUME NEW w \in Writers, Rename(w) PROVE KeptNow'
    <2>1. target[w] \in Names /\ target[w].kind = Label(w).kind /\ Accepted(Label(w))
        BY <1>4, <1>t DEF Rename, Installed, Opened, KeptNow, Kinds
    <2>2. KeptUntilRemoved'
        <3> SUFFICES ASSUME NEW n \in kept' \ removed' PROVE file'[n] # NoInode
            BY DEF KeptUntilRemoved
        <3>1. CASE n = target[w]
            BY <1>4, <1>t, <2>1, <3>1 DEF Rename, Installed, TypeOK
        <3>2. CASE n # target[w]
            <4>1. n \in kept \ removed /\ n \in Names
                BY <1>4, <1>t, <3>2 DEF Rename, TypeOK
            <4>2. file'[n] = file[n]
                BY <1>4, <1>t, <3>2, <4>1 DEF Rename, Installed, TypeOK
            <4> QED
                BY <4>1, <4>2 DEF KeptNow, KeptUntilRemoved
        <3> QED
            BY <3>1, <3>2
    <2>3. \A n \in kept' : n.kind \notin Pruned
        <3> SUFFICES ASSUME NEW n \in kept' PROVE n.kind \notin Pruned
            OBVIOUS
        <3>1. CASE n \in kept
            BY <3>1 DEF KeptNow, Kinds
        <3>2. CASE n \notin kept
            <4>1. n = target[w] /\ Label(w) \notin {Word("stop"), Word("timer")}
                BY <1>4, <3>2 DEF Rename
            <4> QED
                BY <2>1, <4>1, LabelKinds
        <3> QED
            BY <3>1, <3>2
    <2>4. \A v \in Writers : pc'[v] # "idle" => pc[v] # "idle"
        BY <1>4, <1>t DEF Rename, Installed, Goto, TypeOK
    <2> QED
        BY <1>4, <2>2, <2>3, <2>4 DEF Rename, KeptNow, Kinds
<1>5. ASSUME NEW w \in Writers, List(w) PROVE KeptNow'
    <2>1. ASSUME NEW p \in Procs, NEW n \in victims'[p] PROVE n.kind \in Pruned
        <3>1. CASE p = w
            <4>1. n \in UNION {Excess(kind) : kind \in Pruned}
                BY <1>5, <1>t, <2>1, <3>1 DEF List, TypeOK
            <4> QED
                BY <4>1 DEF Excess, Present
        <3>2. CASE p # w
            BY <1>5, <1>t, <2>1, <3>2 DEF List, TypeOK, KeptNow, Kinds
        <3> QED
            BY <3>1, <3>2
    <2>2. \A v \in Writers : pc'[v] # "idle" => pc[v] # "idle"
        BY <1>5, <1>t DEF List, Goto, TypeOK
    <2>3. UNCHANGED <<file, kept, removed, target>>
        BY <1>5 DEF List, unixVars, history
    <2> QED
        BY <2>1, <2>2, <2>3 DEF KeptNow, KeptUntilRemoved, Kinds
<1>6. ASSUME NEW w \in Writers, PruneOne(w) PROVE KeptNow'
    <2>1. PICK n \in victims[w] : /\ file' = [file EXCEPT ![n] = NoInode]
                                  /\ victims' = [victims EXCEPT ![w] = @ \ {n}]
        BY <1>6 DEF PruneOne
    <2>2. UNCHANGED <<pc, target, kept, removed>>
        BY <1>6 DEF PruneOne, history
    <2>3. n \notin kept
        BY <2>1 DEF KeptNow, Kinds
    <2>4. KeptUntilRemoved'
        BY <1>t, <2>1, <2>2, <2>3 DEF KeptNow, KeptUntilRemoved, TypeOK
    <2>5. \A p \in Procs : victims'[p] \subseteq victims[p]
        BY <1>t, <2>1 DEF TypeOK
    <2> QED
        BY <2>2, <2>4, <2>5 DEF KeptNow, Kinds
<1>7. ASSUME NEW w \in Writers, Finish(w) PROVE KeptNow'
    BY <1>7, <1>t, EndKept DEF Finish, unixVars, history
<1>8. ASSUME NEW n \in Names, Remove(n) PROVE KeptNow'
    <2>1. UNCHANGED <<pc, target, victims, kept>>
        BY <1>8 DEF Remove, procVars
    <2>2. KeptUntilRemoved'
        BY <1>8, <1>t DEF Remove, KeptNow, KeptUntilRemoved, TypeOK
    <2> QED
        BY <2>1, <2>2 DEF KeptNow, Kinds
<1>9. ASSUME NEW r \in Restorers, NEW n \in Names, OpenSource(r, n) PROVE KeptNow'
    <2>1. \A w \in Writers : pc'[w] = pc[w] /\ target'[w] = target[w]
        BY <1>9, <1>t DEF OpenSource, Goto, TypeOK
    <2> QED
        BY <1>9, <1>t, <2>1, KeptSame DEF OpenSource, unixVars, TypeOK
<1>10. ASSUME NEW r \in Restorers, StopUnit(r) \/ UnitStopped(r) PROVE KeptNow'
    BY <1>10, <1>t, GoKept DEF StopUnit, UnitStopped, unixVars, history
<1>11. ASSUME NEW r \in Restorers, Replace(r) PROVE KeptNow'
    <2>1. \A n \in Names : file'[n] = file[n]
        BY <1>11, <1>t DEF Replace, Installed, LockInv, RestoresImage, TypeOK
    <2>2. \A w \in Writers : pc'[w] = pc[w]
        BY <1>11, <1>t DEF Replace, Goto, TypeOK
    <2> QED
        BY <1>11, <1>t, <2>1, <2>2, KeptSame DEF Replace, TypeOK
<1>12. ASSUME NEW r \in Restorers, StartUnit(r) PROVE KeptNow'
    BY <1>12, <1>t, EndKept DEF StartUnit, unixVars
<1>13. CASE Tick \/ GuestWrite \/ UnitStart \/ FailedExit
    BY <1>13, <1>t, KeptSame DEF Tick, GuestWrite, UnitStart, FailedExit, unixVars, procVars, history, TypeOK
<1>14. CASE CleanExit
    <2>1. CASE OnStop
        <3>1. Post \in Writers /\ Label(Post) = Word("stop") /\ Accepted(Word("stop"))
            BY <2>1 DEF Writers, Label, Accepted, Word
        <3> QED
            BY <1>14, <1>t, <2>1, <3>1, NamedKept DEF CleanExit, unixVars, history
    <2>2. CASE ~OnStop
        BY <1>14, <1>t, <2>2, KeptSame DEF CleanExit, unixVars, history, TypeOK
    <2> QED
        BY <2>1, <2>2
<1>15. ASSUME NEW p \in Procs, Kill(p) PROVE KeptNow'
    BY <1>15, <1>t, EndKept DEF Kill, unixVars, history
<1>16. CASE HostCrash
    <2>1. KeptUntilRemoved' /\ \A n \in kept' : n.kind \notin Pruned
        BY <1>16 DEF HostCrash, KeptInv, KeptSettled, KeptUntilRemoved
    <2>2. \A p \in Procs : pc'[p] = "idle" /\ victims'[p] = {}
        BY <1>16 DEF HostCrash
    <2> QED
        BY <2>1, <2>2 DEF KeptNow, Kinds
<1>17. CASE Commit \/ UNCHANGED vars
    BY <1>17, <1>t, KeptSame DEF Commit, vars, unixVars, procVars, history, TypeOK
<1> QED
    BY <1>1, <1>2, <1>3, <1>4, <1>5, <1>6, <1>7, <1>8, <1>9, <1>10, <1>11, <1>12, <1>13, <1>14,
       <1>15, <1>16, <1>17 DEF Next, WriterStep, RestoreStep, Procs

\* prune takes no checkpoint an operator named: it leaves only through --rm,
\* whatever labels there are, whenever listings were made and files unlinked.
THEOREM OperatorsKeep == Spec => []KeptUntilRemoved
<1>1. Init => TypeInv /\ LockInv /\ KeptInv
    BY TypeInit, LockInit, KeptInit
<1>2. TypeInv /\ LockInv /\ KeptInv /\ [Next]_vars => (TypeInv /\ LockInv /\ KeptInv)'
    BY TypeStep, LockStep, KeptStep
<1>3. TypeInv /\ LockInv /\ KeptInv => KeptUntilRemoved
    BY DEF KeptInv, KeptNow
<1> QED
    BY <1>1, <1>2, <1>3, PTL DEF Spec
=============================================================================
