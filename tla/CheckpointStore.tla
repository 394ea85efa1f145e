--------------------------- MODULE CheckpointStore ---------------------------
(***************************************************************************)
(* What the checkpoints of a sandbox promise its operator, with no files,  *)
(* locks or processes: a map from names to whole disk states in which a    *)
(* name is written once, and restores that replace the image, in one step, *)
(* by the state they chose, whatever became of the name meanwhile.  Two    *)
(* things it does not promise: that no guest runs when its image is        *)
(* replaced, and that the latest steps survive a crash of the host, which  *)
(* returns the names and the image to a point settled before.              *)
(***************************************************************************)
EXTENDS Naturals

CONSTANTS Names, Restorers, None

VARIABLES
    guest,     \* "off", "on" the image, or "aside": on one it replaced
    last,      \* number of the guest's last write; its states are 0 .. last
    image,     \* the disk state the image holds
    store,     \* the state each name holds, or None
    chosen,    \* the state each restore under way will install, or None
    settled    \* image and store as a crash would leave them

vars == <<guest, last, image, store, chosen, settled>>

Init ==
    /\ guest = "on" /\ last = 0 /\ image = 0
    /\ store = [n \in Names |-> None]
    /\ chosen = [r \in Restorers |-> None]
    /\ settled = [image |-> image, store |-> store]

\* The settled image is the one written to unless a restore came between.
Write ==
    /\ guest # "off"
    /\ last' = last + 1
    /\ image' = IF guest = "on" THEN last + 1 ELSE image
    /\ \E v \in {settled.image, last + 1} : settled' = [settled EXCEPT !.image = v]
    /\ UNCHANGED <<guest, store, chosen>>

\* A free name gets a disk state the sandbox was in.
Take(n) ==
    /\ store[n] = None
    /\ \E v \in 0 .. last : store' = [store EXCEPT ![n] = v]
    /\ UNCHANGED <<guest, last, image, chosen, settled>>

Drop(n) ==
    /\ store' = [store EXCEPT ![n] = None]
    /\ UNCHANGED <<guest, last, image, chosen, settled>>

Choose(r, n) ==
    /\ store[n] # None
    /\ chosen' = [chosen EXCEPT ![r] = store[n]]
    /\ UNCHANGED <<guest, last, image, store, settled>>

Install(r) ==
    /\ chosen[r] # None
    /\ image' = chosen[r]
    /\ guest' = IF guest = "off" THEN "off" ELSE "aside"
    /\ UNCHANGED <<last, store, chosen, settled>>

\* The sandbox stops or starts, restores end or give up, or both.
Turn ==
    /\ guest' \in {guest, "off"} \cup IF guest = "off" THEN {"on"} ELSE {}
    /\ \E ended \in SUBSET Restorers :
        chosen' = [r \in Restorers |-> IF r \in ended THEN None ELSE chosen[r]]
    /\ UNCHANGED <<last, image, store, settled>>

Settle ==
    /\ settled' = [image |-> image, store |-> store]
    /\ UNCHANGED <<guest, last, image, store, chosen>>

Crash ==
    /\ guest' = "off"
    /\ image' = settled.image /\ store' = settled.store
    /\ chosen' = [r \in Restorers |-> None]
    /\ UNCHANGED <<last, settled>>

Next ==
    \/ Write \/ Turn \/ Settle \/ Crash
    \/ \E n \in Names : Take(n) \/ Drop(n)
    \/ \E r \in Restorers : Install(r) \/ \E n \in Names : Choose(r, n)

Spec == Init /\ [][Next]_vars
=============================================================================
