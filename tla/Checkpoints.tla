----------------------------- MODULE Checkpoints -----------------------------
(***************************************************************************)
(* The checkpoint directory of one sandbox: `fencr write-checkpoint` as    *)
(* the units run it (the microvm's ExecStopPost and the instances of the   *)
(* checkpoint@ template), `fencr checkpoints --rm`, `fencr restore`, and   *)
(* the sandbox whose disk they copy.                                       *)
(*                                                                         *)
(* Files are inodes, numbered in the order they are created: data[i] is    *)
(* what inode i holds, file and tmp say which inode a path names.  A disk  *)
(* is abstracted to the number of the last guest write it contains, where  *)
(* a write is one the guest has flushed.  Contents are synced, directories *)
(* never are: stable is what they name on the disk, which lags behind.     *)
(***************************************************************************)
EXTENDS Integers, Sequences, FiniteSets

CONSTANTS
    Labels,      \* the labels the checkpoint@ template is started with
    OnStop,      \* checkpoints.onStop: the microvm unit has the ExecStopPost
    Reflink,     \* the file system of the state directory has reflinks
    Keep,        \* checkpoints.keep
    Restorers,   \* operators running `fencr restore`
    MaxClock,    \* bound: seconds the model's clock shows
    MaxWrites,   \* bound: disk states the guest writes
    MaxOps,      \* bound: commands, timers and unasked-for exits
    MaxCrashes   \* bound: crashes of the host

ASSUME KeepAssumption == Keep \in Nat \ {0}
ASSUME FlagAssumption == OnStop \in BOOLEAN /\ Reflink \in BOOLEAN
ASSUME BoundAssumption == MaxClock \in Nat \ {0} /\ MaxWrites \in Nat /\ MaxOps \in Nat /\ MaxCrashes \in Nat
ASSUME LabelAssumption ==
    \A l \in Labels : l = [kind |-> l.kind, at |-> l.at] /\ l.kind \in STRING /\ l.at \in Nat

Automatic == {"stop", "timer", "manual"}
Pruned == {"stop", "timer"}

\* A label or a name: [kind |-> k, at |-> 0] is the bare word k, and
\* [kind |-> k, at |-> t] is k followed by the stamp of second t.
Word(k) == [kind |-> k, at |-> 0]

\* The disk image, in the same name space so that `stage` and the rename
\* serve the writers and the restorers alike.
Image == Word("image")

\* The ExecStopPost of the microvm unit; its label is "stop".
Post == Word("ExecStopPost")
Writers == Labels \cup IF OnStop THEN {Post} ELSE {}
Label(w) == IF w = Post THEN Word("stop") ELSE w

Procs == Writers \cup Restorers

Stamps == 1 .. MaxClock
Names == [kind : Automatic, at : Stamps] \cup {l \in Labels : l.kind \notin Automatic}
Files == Names \cup {Image}

ASSUME DistinctAssumption ==
    /\ Image \notin Labels /\ Post \notin Labels
    /\ Labels \cap Restorers = {} /\ Post \notin Restorers

\* What an inode can hold besides the disk after write number v >= 0.
Torn == -1       \* parts of two disk states, or bytes lost in a crash
Partial == -2    \* created, not copied yet
Contents == Nat \cup {Torn, Partial}
NoInode == 0
NoProc == Word("none")
ASSUME NoProcAssumption == NoProc \notin Procs

VARIABLES
    clock,     \* the second a stamp taken now shows
    vm,        \* the microvm unit: "down", "up", "post" (ExecStopPost runs)
    disk,      \* the inode the running firecracker has open
    jobs,      \* the restores whose stop job for the unit is not done
    writes,    \* number of the guest's last write
    data, durable,       \* inodes: contents, and which of them are synced
    file, tmp,           \* paths: <name>.img or the image, and its .tmp
    stable,    \* the paths, and the history of them, as of the last Commit
    holder,              \* who holds the flock on the directory
    pc, target, src, head, victims,   \* per process, as in the code
    ops, crashes,        \* bounded counters
    made, kept, removed, wanted, saved, early   \* history, read by properties only

unixVars == <<data, durable, file, tmp, stable>>
vmVars == <<vm, disk, jobs, writes>>
procVars == <<pc, target, src, head, victims, holder>>
history == <<made, kept, removed, wanted, saved, early>>
bounds == <<clock, ops, crashes>>
vars == <<unixVars, vmVars, procVars, history, bounds>>

PCs == {"idle", "lock", "sweep", "stage", "copy", "rest", "sync", "rename",
        "list", "prune", "stop", "stopped", "start"}
\* Where a writer holds the flock, and where it has already swept.
Holding == {"sweep", "stage", "copy", "rest", "sync", "rename", "list", "prune"}
Swept == Holding \ {"sweep"}

\* What the directories name, and what was done to names to get there.
Named == [file |-> file, tmp |-> tmp, made |-> made, kept |-> kept, removed |-> removed]
Directories(inodes) ==
    [file : [Files -> 0 .. inodes], tmp : [Files -> 0 .. inodes],
     made : SUBSET Names, kept : SUBSET Names, removed : SUBSET Names]

TypeOK ==
    /\ clock \in Stamps /\ vm \in {"down", "up", "post"}
    /\ jobs \subseteq Restorers /\ saved \in BOOLEAN /\ early \in BOOLEAN
    /\ writes \in Nat /\ ops \in Nat /\ crashes \in Nat
    /\ data \in Seq(Contents)
    /\ disk \in 1 .. Len(data) /\ durable \subseteq 1 .. Len(data)
    /\ file \in [Files -> 0 .. Len(data)] /\ tmp \in [Files -> 0 .. Len(data)]
    /\ stable \in Directories(Len(data))
    /\ holder \in Writers \cup {NoProc}
    /\ pc \in [Procs -> PCs]
    /\ target \in [Procs -> Files]
    /\ src \in [Procs -> 0 .. Len(data)]
    /\ head \in [Procs -> Contents]
    /\ victims \in [Procs -> SUBSET Names]
    /\ made \subseteq Names /\ kept \subseteq Names /\ removed \subseteq Names
    /\ wanted \in [Restorers -> Contents]

Init ==
    /\ clock = 1 /\ ops = 0 /\ crashes = 0
    /\ vm = "up" /\ disk = 1 /\ jobs = {} /\ writes = 0
    /\ data = <<0>> /\ durable = {1}
    /\ file = [f \in Files |-> IF f = Image THEN 1 ELSE NoInode]
    /\ tmp = [f \in Files |-> NoInode]
    /\ holder = NoProc
    /\ pc = [p \in Procs |-> "idle"]
    /\ target = [p \in Procs |-> Image]
    /\ src = [p \in Procs |-> NoInode]
    /\ head = [p \in Procs |-> 0]
    /\ victims = [p \in Procs |-> {}]
    /\ made = {} /\ kept = {} /\ removed = {}
    /\ wanted = [r \in Restorers |-> 0] /\ saved = FALSE /\ early = FALSE
    /\ stable = Named

Goto(p, label) == pc' = [pc EXCEPT ![p] = label]

\* Mutant: the lock outlives the process that held it.
EndKeepsLock(p) ==
    /\ Goto(p, "idle")
    /\ target' = [target EXCEPT ![p] = Image]
    /\ src' = [src EXCEPT ![p] = NoInode]
    /\ head' = [head EXCEPT ![p] = 0]
    /\ victims' = [victims EXCEPT ![p] = {}]
    /\ UNCHANGED holder

\* A process ends: its locals go with it, and so does the lock it held.
End(p) ==
    /\ Goto(p, "idle")
    /\ target' = [target EXCEPT ![p] = Image]
    /\ src' = [src EXCEPT ![p] = NoInode]
    /\ head' = [head EXCEPT ![p] = 0]
    /\ victims' = [victims EXCEPT ![p] = {}]
    /\ holder' = IF holder = p THEN NoProc ELSE holder

\* The microvm unit becomes inactive, which completes its stop jobs.
Inactive == vm' = "down" /\ jobs' = {}

\* Mutant: the unit is not told that its ExecStopPost is over.
UnitAfterForgets(p) == UNCHANGED <<vm, jobs>>

\* It does so when its ExecStopPost is over.
UnitAfter(p) == IF p = Post THEN Inactive ELSE UNCHANGED <<vm, jobs>>

-----------------------------------------------------------------------------
(* writeCheckpoint *)

\* Mutants: a label that looks stamped is taken; no label is stamped.
AcceptedAny(l) == TRUE
CheckpointNameBare(l) == l

\* checkpointLabel: the automatic labels get a stamp, and a label that looks
\* like a stamped one is refused.
Accepted(l) == l.kind \in Automatic => l.at = 0
CheckpointName(l) == IF l.kind \in Automatic THEN [kind |-> l.kind, at |-> clock] ELSE l

\* The unit of label w starts; a unit runs one process at a time.  A timer
\* asks firecracker first, which answers only while it runs.
StartWriter(w) ==
    /\ w # Post /\ pc[w] = "idle" /\ ops < MaxOps
    /\ Accepted(w)
    /\ w = Word("timer") => vm = "up"
    /\ ops' = ops + 1
    /\ Goto(w, "lock")
    /\ target' = [target EXCEPT ![w] = CheckpointName(w)]
    /\ UNCHANGED <<unixVars, vmVars, src, head, victims, holder, history, clock, crashes>>

\* Mutant: the lock is not waited for.
LockIgnored(w) ==
    /\ pc[w] = "lock"
    /\ holder' = w
    /\ Goto(w, "sweep")
    /\ UNCHANGED <<unixVars, vmVars, target, src, head, victims, history, bounds>>

\* flock(LOCK_EX) on the checkpoint directory.
Lock(w) ==
    /\ pc[w] = "lock" /\ holder = NoProc
    /\ holder' = w
    /\ Goto(w, "sweep")
    /\ UNCHANGED <<unixVars, vmVars, target, src, head, victims, history, bounds>>

\* Mutant: a name that is taken is written again.
SweepRetakes(w) ==
    /\ pc[w] = "sweep"
    /\ tmp' = [f \in Files |-> IF f = Image THEN tmp[f] ELSE NoInode]
    /\ Goto(w, "stage")
    /\ src' = [src EXCEPT ![w] = file[Image]]
    /\ UNCHANGED <<data, durable, file, stable, vmVars, target, head, victims, holder, history, bounds>>

\* Every .tmp of the directory goes; a name that is taken ends the writer,
\* otherwise the image is opened.  state.img.tmp is not in the directory.
Sweep(w) ==
    /\ pc[w] = "sweep"
    /\ tmp' = [f \in Files |-> IF f = Image THEN tmp[f] ELSE NoInode]
    /\ IF file[target[w]] # NoInode
       THEN End(w) /\ UnitAfter(w)
       ELSE /\ Goto(w, "stage")
            /\ src' = [src EXCEPT ![w] = file[Image]]
            /\ UNCHANGED <<target, head, victims, holder, vm, jobs>>
    /\ UNCHANGED <<data, durable, file, stable, disk, writes, history, bounds>>

-----------------------------------------------------------------------------
(* stage, shared by writeCheckpoint and replace *)

\* Mutant: --reflink=auto for every label.
FallsBackAlways(p) == TRUE

\* --reflink=auto for restores and for the label stop, --reflink=always else.
FallsBack(p) == p \in Restorers \/ Label(p) = Word("stop")

\* remove the .tmp a killed copy left, create an empty one.
Stage(p) ==
    /\ pc[p] = "stage"
    /\ data' = Append(data, Partial)
    /\ tmp' = [tmp EXCEPT ![target[p]] = Len(data) + 1]
    /\ Goto(p, "copy")
    /\ UNCHANGED <<durable, file, stable, vmVars, target, src, head, victims, holder, history, bounds>>

\* cp writes content to the path .tmp, creating the file when it is gone.
Fill(p, content) ==
    IF tmp[target[p]] = NoInode
    THEN /\ data' = Append(data, content)
         /\ tmp' = [tmp EXCEPT ![target[p]] = Len(data) + 1]
    ELSE /\ data' = [data EXCEPT ![tmp[target[p]]] = content]
         /\ UNCHANGED tmp

\* Mutant: the copy is a hard link to its source.
CloneLinks(p) ==
    /\ pc[p] = "copy" /\ Reflink
    /\ tmp' = [tmp EXCEPT ![target[p]] = src[p]]
    /\ Goto(p, "sync")
    /\ UNCHANGED <<data, durable, file, stable, vmVars, target, src, head, victims, holder, history, bounds>>

\* A clone takes the whole source in one step.
Clone(p) ==
    /\ pc[p] = "copy" /\ Reflink
    /\ Fill(p, data[src[p]])
    /\ Goto(p, "sync")
    /\ UNCHANGED <<durable, file, stable, vmVars, target, src, head, victims, holder, history, bounds>>

\* A plain copy reads its source over time: the first part now ...
CopyHead(p) ==
    /\ pc[p] = "copy" /\ ~Reflink /\ FallsBack(p)
    /\ head' = [head EXCEPT ![p] = data[src[p]]]
    /\ Fill(p, Partial)
    /\ Goto(p, "rest")
    /\ UNCHANGED <<durable, file, stable, vmVars, target, src, victims, holder, history, bounds>>

\* ... and the rest later, when the source may have changed.
CopyRest(p) ==
    /\ pc[p] = "rest"
    /\ Fill(p, IF data[src[p]] = head[p] THEN head[p] ELSE Torn)
    /\ Goto(p, "sync")
    /\ UNCHANGED <<durable, file, stable, vmVars, target, src, head, victims, holder, history, bounds>>

\* fsync of the copy before it gets its name.
Sync(p) ==
    /\ pc[p] = "sync" /\ tmp[target[p]] # NoInode
    /\ durable' = durable \cup {tmp[target[p]]}
    /\ Goto(p, "rename")
    /\ UNCHANGED <<data, file, tmp, stable, vmVars, target, src, head, victims, holder, history, bounds>>

\* cp or fsync fails (no reflinks, no space), or the .tmp went under another
\* restore before its rename: what is left of the copy is removed and the
\* process exits; a restore leaves the unit stopped.
Fails(p) ==
    \/ pc[p] \in {"stage", "copy", "rest", "sync"}
    \/ pc[p] = "rename" /\ tmp[target[p]] = NoInode

\* Mutant: the error of cp is dropped and what it left is renamed.
FailIgnored(p) ==
    /\ Fails(p) /\ tmp[target[p]] # NoInode
    /\ Goto(p, "rename")
    /\ UNCHANGED <<unixVars, vmVars, target, src, head, victims, holder, history, bounds>>

Fail(p) ==
    /\ Fails(p)
    /\ tmp' = [tmp EXCEPT ![target[p]] = NoInode]
    /\ End(p) /\ UnitAfter(p)
    /\ UNCHANGED <<data, durable, file, stable, disk, writes, history, bounds>>

\* rename(2): the target path names the copy from now on, and no path the
\* inode it named before.
Installed(p) ==
    /\ pc[p] = "rename" /\ tmp[target[p]] # NoInode
    /\ file' = [file EXCEPT ![target[p]] = tmp[target[p]]]
    /\ tmp' = [tmp EXCEPT ![target[p]] = NoInode]

-----------------------------------------------------------------------------
(* prune *)

Present(kind) == {n \in Names : n.kind = kind /\ file[n] # NoInode}
Newer(set, n) == {m \in set : m.kind = n.kind /\ m.at > n.at}

\* Mutants: the Keep oldest stay; one more than Keep stays.
ExcessNewest(kind) ==
    {n \in Present(kind) : Cardinality({m \in Present(kind) : m.at < n.at}) >= Keep}
ExcessOneMore(kind) == {n \in Present(kind) : Cardinality(Newer(Present(kind), n)) > Keep}

\* All of a kind but the Keep newest by stamp.
Excess(kind) == {n \in Present(kind) : Cardinality(Newer(Present(kind), n)) >= Keep}

Rename(w) ==
    /\ w \in Writers
    /\ Installed(w)
    /\ Goto(w, "list")
    /\ made' = made \cup {target[w]}
    /\ kept' = IF Label(w) \in {Word("stop"), Word("timer")} THEN kept ELSE kept \cup {target[w]}
    /\ removed' = removed \ {target[w]}
    /\ saved' = IF w = Post THEN ~early ELSE saved
    /\ UNCHANGED <<data, durable, stable, vmVars, target, src, head, victims, holder, wanted, early, bounds>>

\* The directory is listed once ...
List(w) ==
    /\ pc[w] = "list"
    /\ victims' = [victims EXCEPT ![w] = UNION {Excess(kind) : kind \in Pruned}]
    /\ Goto(w, "prune")
    /\ UNCHANGED <<unixVars, vmVars, target, src, head, holder, history, bounds>>

\* ... and what the list says is too old goes one file at a time, the oldest
\* first; a file that is gone already is only reported.
PruneOne(w) ==
    /\ pc[w] = "prune"
    /\ \E n \in victims[w] :
        /\ \A m \in victims[w] : m.kind = n.kind => n.at =< m.at
        /\ file' = [file EXCEPT ![n] = NoInode]
        /\ victims' = [victims EXCEPT ![w] = @ \ {n}]
    /\ UNCHANGED <<data, durable, tmp, stable, vmVars, pc, target, src, head, holder, history, bounds>>

Finish(w) ==
    /\ pc[w] = "prune" /\ victims[w] = {}
    /\ End(w) /\ UnitAfter(w)
    /\ UNCHANGED <<unixVars, disk, writes, history, bounds>>

-----------------------------------------------------------------------------
(* fencr checkpoints --rm: as root, without the lock *)

Remove(n) ==
    /\ file[n] # NoInode /\ ops < MaxOps
    /\ ops' = ops + 1
    /\ file' = [file EXCEPT ![n] = NoInode]
    /\ removed' = removed \cup {n}
    /\ UNCHANGED <<data, durable, tmp, stable, vmVars, procVars, made, kept, wanted, saved, early, clock, crashes>>

-----------------------------------------------------------------------------
(* fencr restore: the checkpoint is opened, then the unit is stopped *)

OpenSource(r, n) ==
    /\ pc[r] = "idle" /\ ops < MaxOps /\ file[n] # NoInode
    /\ ops' = ops + 1
    /\ src' = [src EXCEPT ![r] = file[n]]
    /\ target' = [target EXCEPT ![r] = Image]
    /\ wanted' = [wanted EXCEPT ![r] = data[file[n]]]
    /\ Goto(r, "stop")
    /\ UNCHANGED <<unixVars, vmVars, head, victims, holder, made, kept, removed, saved, early, clock, crashes>>

\* systemctl stop queues the job ...
StopUnit(r) ==
    /\ pc[r] = "stop"
    /\ jobs' = IF vm = "down" THEN jobs ELSE jobs \cup {r}
    /\ Goto(r, "stopped")
    /\ UNCHANGED <<unixVars, vm, disk, writes, target, src, head, victims, holder, history, bounds>>

\* Mutant: systemctl stop --no-block.
UnitStoppedUnwaited(r) ==
    /\ pc[r] = "stopped"
    /\ Goto(r, "stage")
    /\ UNCHANGED <<unixVars, vmVars, target, src, head, victims, holder, history, bounds>>

\* ... and returns once the unit is inactive, ExecStopPost included.
UnitStopped(r) ==
    /\ pc[r] = "stopped" /\ r \notin jobs
    /\ Goto(r, "stage")
    /\ UNCHANGED <<unixVars, vmVars, target, src, head, victims, holder, history, bounds>>

\* The copy takes the image's place; what the image held is no longer saved
\* by the stop that preceded.
Replace(r) ==
    /\ r \in Restorers
    /\ Installed(r)
    /\ Goto(r, "start")
    /\ saved' = FALSE
    /\ UNCHANGED <<data, durable, stable, vmVars, target, src, head, victims, holder,
                   made, kept, removed, wanted, early, bounds>>

\* The unit starts: firecracker opens the image, the one a restore is about
\* to replace when one is past its stop and short of its rename.
Replacing == {"stopped", "stage", "copy", "rest", "sync", "rename"}
Boots ==
    /\ vm' = "up" /\ disk' = file[Image]
    /\ early' = \E r \in Restorers : pc[r] \in Replacing
    /\ saved' = FALSE

\* systemctl start does nothing to a unit that is up already; the jobs of a
\* unit run one after the other.
StartUnit(r) ==
    /\ pc[r] = "start" /\ vm # "post" /\ jobs = {}
    /\ IF vm = "up" THEN UNCHANGED <<vm, disk, early, saved>> ELSE Boots
    /\ End(r)
    /\ UNCHANGED <<unixVars, jobs, writes, made, kept, removed, wanted, bounds>>

-----------------------------------------------------------------------------
(* The sandbox and the host *)

Tick ==
    /\ clock < MaxClock
    /\ clock' = clock + 1
    /\ UNCHANGED <<unixVars, vmVars, procVars, history, ops, crashes>>

GuestWrite ==
    /\ vm = "up" /\ writes < MaxWrites
    /\ writes' = writes + 1
    /\ data' = [data EXCEPT ![disk] = writes + 1]
    /\ UNCHANGED <<durable, file, tmp, stable, vm, disk, jobs, procVars, history, bounds>>

\* A boot, systemctl start, a switch of the host or Restart=on-failure: at any
\* moment the unit is inactive, also while a restore is between its stop and
\* its start.
UnitStart ==
    /\ vm = "down"
    /\ Boots
    /\ UNCHANGED <<unixVars, jobs, writes, procVars, made, kept, removed, wanted, bounds>>

\* An exit a stop job waits for always comes; others count against the bound.
Exits == IF jobs # {} THEN UNCHANGED ops ELSE ops < MaxOps /\ ops' = ops + 1

\* The guest powered off, asked to by a stop job or by itself; the unit's
\* ExecStopPost takes its stamp and runs while the unit is deactivating.
CleanExit ==
    /\ vm = "up" /\ Exits
    /\ IF OnStop
       THEN /\ vm' = "post" /\ Goto(Post, "lock")
            /\ target' = [target EXCEPT ![Post] = CheckpointName(Word("stop"))]
            /\ UNCHANGED jobs
       ELSE Inactive /\ UNCHANGED <<pc, target>>
    /\ UNCHANGED <<unixVars, disk, writes, src, head, victims, holder, history, clock, crashes>>

\* firecracker died or was killed at the stop timeout: SERVICE_RESULT is not
\* success, and the ExecStopPost returns without a copy.
FailedExit ==
    /\ vm = "up" /\ Exits
    /\ Inactive
    /\ UNCHANGED <<unixVars, disk, writes, procVars, history, clock, crashes>>

\* A process is killed: the stop timeout for the ExecStopPost, systemctl stop
\* or the oom killer for a unit, the operator for a restore.
Kill(p) ==
    /\ pc[p] # "idle" /\ ops < MaxOps
    /\ ops' = ops + 1
    /\ End(p) /\ UnitAfter(p)
    /\ UNCHANGED <<unixVars, disk, writes, history, clock, crashes>>

\* The file system writes its journal out; it does so when it likes, and
\* changes of directories reach the disk in the order they were made.
Commit ==
    /\ crashes < MaxCrashes
    /\ stable' = Named
    /\ UNCHANGED <<data, durable, file, tmp, vmVars, procVars, history, bounds>>

\* The host loses power: every process ends, what was never synced is lost
\* from its inode, and the renames and unlinks since the last Commit are
\* undone, for neither `replace` nor the writers sync a directory.
HostCrash ==
    /\ crashes < MaxCrashes
    /\ crashes' = crashes + 1
    /\ data' = [i \in DOMAIN data |-> IF i \in durable THEN data[i] ELSE Torn]
    /\ file' = stable.file /\ tmp' = stable.tmp
    /\ made' = stable.made /\ kept' = stable.kept /\ removed' = stable.removed
    /\ saved' = FALSE
    /\ Inactive
    /\ holder' = NoProc
    /\ pc' = [p \in Procs |-> "idle"]
    /\ target' = [p \in Procs |-> Image]
    /\ src' = [p \in Procs |-> NoInode]
    /\ head' = [p \in Procs |-> 0]
    /\ victims' = [p \in Procs |-> {}]
    /\ UNCHANGED <<durable, stable, disk, writes, wanted, early, clock, ops>>

-----------------------------------------------------------------------------
Copying(p) ==
    \/ Stage(p) \/ Clone(p) \/ CopyHead(p) \/ CopyRest(p) \/ Sync(p) \/ Fail(p)

WriterStep(w) ==
    Lock(w) \/ Sweep(w) \/ Copying(w) \/ Rename(w) \/ List(w) \/ PruneOne(w) \/ Finish(w)

RestoreStep(r) ==
    StopUnit(r) \/ UnitStopped(r) \/ Copying(r) \/ Replace(r) \/ StartUnit(r)

Next ==
    \/ \E w \in Writers : StartWriter(w) \/ WriterStep(w)
    \/ \E r \in Restorers : RestoreStep(r) \/ \E n \in Names : OpenSource(r, n)
    \/ \E p \in Procs : Kill(p)
    \/ \E n \in Names : Remove(n)
    \/ Tick \/ GuestWrite \/ UnitStart \/ CleanExit \/ FailedExit \/ Commit \/ HostCrash

Spec == Init /\ [][Next]_vars

\* Processes run on, the kernel hands a free flock to a waiter, and a stop
\* job ends at the latest at TimeoutStopSec.
Fairness ==
    /\ \A w \in Writers : WF_vars(WriterStep(w))
    /\ \A r \in Restorers : WF_vars(RestoreStep(r))
    /\ WF_vars(jobs # {} /\ (CleanExit \/ FailedExit))

FairSpec == Spec /\ Fairness

-----------------------------------------------------------------------------
(* Properties *)

\* One writer at a time works in the directory, and once it has swept, every
\* .tmp there is its own: the sweep never takes a copy still being written
\* (cli.go:908, "while one holds the directory, a .tmp in it is no one's copy").
TmpOwned ==
    /\ \A w \in Writers : pc[w] \in Holding => holder = w
    /\ \A w \in Writers : pc[w] \in Swept =>
         \A n \in Names : tmp[n] # NoInode => n = target[w]

\* A reader never sees a half-written checkpoint, and the image is never half
\* of one: every file under its own name is the disk as it was at one moment,
\* on stable storage, whatever was killed, lost or racing with the guest.
FilesWhole ==
    \A f \in Files : file[f] # NoInode =>
        data[file[f]] \in 0 .. writes /\ file[f] \in durable

\* A checkpoint's bytes stay what they were when it got its name: the guest,
\* a restore and other writers work on inodes of their own.
CheckpointsFrozen ==
    [][\A n \in Names : (file[n] # NoInode /\ file'[n] = file[n])
            => data'[file[n]] = data[file[n]]]_vars

\* A checkpoint an operator asked for leaves only through --rm: prune never
\* takes it for one of its own, whatever it is called.  Here and below a name
\* that a crash of the host undid counts as never made.
KeptUntilRemoved == \A n \in kept \ removed : file[n] # NoInode

\* Retention keeps the newest: an automatic checkpoint with fewer than Keep
\* newer ones of its kind ever made is there unless --rm took it, though
\* writers stamp before they lock and prune from a listing that grows stale.
NewestKept ==
    \A n \in made : (Cardinality(Newer(made, n)) < Keep /\ n \notin removed)
        => file[n] # NoInode

\* Retention bounds the directory: a writer that is through with its prune
\* leaves at most Keep of a pruned kind, those of killed writers included.
WithinKeep ==
    \A w \in Writers : (pc[w] = "prune" /\ victims[w] = {}) =>
        \A kind \in Pruned : Cardinality(Present(kind)) =< Keep

\* The file a restore is about to give the image's name holds the disk the
\* chosen checkpoint had when it was opened, though the stop in between may
\* have pruned that very checkpoint, or an operator removed it.
RestoreInstalls ==
    \A r \in Restorers : (pc[r] = "rename" /\ tmp[Image] # NoInode) => data[tmp[Image]] = wanted[r]

\* The sandbox writes to the file the image's path names: no restore pulls
\* the image from under a running guest.  A guest someone starts while a
\* restore is between its stop and its rename is the one exception: `restore`
\* does not look at the unit again before it renames.
RunsOnImage == (vm = "up" /\ ~early) => disk = file[Image]

\* The stop leaves a checkpoint of what is replaced: once the ExecStopPost of
\* the stop has named its copy, a restore replaces only a disk that a stop
\* checkpoint still holds, unless --rm took a stop checkpoint.  The guest that
\* was started under a restore is the exception here too: its stop may copy
\* the image before or after the rename.
ReplacedIsSaved ==
    [][(file'[Image] # file[Image] /\ saved /\ \A n \in removed : n.kind # "stop")
            => \E n \in Names : /\ n.kind = "stop" /\ file[n] # NoInode
                                /\ data[file[n]] = data[file[Image]]]_vars

\* Every writer ends, also one that waits for the lock behind others.
WritersEnd == \A w \in Writers : pc[w] # "idle" ~> pc[w] = "idle"

\* Every restore ends: the stop it waits for completes although its
\* ExecStopPost queues for the lock.
RestoresEnd == \A r \in Restorers : pc[r] # "idle" ~> pc[r] = "idle"
=============================================================================
