--------------------------- MODULE MCCheckpoints ---------------------------
(* Instances of Checkpoints for TLC. *)
EXTENDS CheckpointsImplement

CONSTANTS alice, bob

\* A label the ExecStopPost competes with, one an operator chose freely, and
\* one that looks like an automatic checkpoint.
MCLabels == {Word("stop"), Word("keep"), [kind |-> "stop", at |-> 1]}

\* Without reflinks nothing but the ExecStopPost carries the label stop; the
\* timer is the writer that queues with it and looks at the unit first.
MCLabelsPlain == {Word("timer")}
MCLabelsStop == {Word("stop")}

One == {alice}
Two == {alice, bob}
=============================================================================
