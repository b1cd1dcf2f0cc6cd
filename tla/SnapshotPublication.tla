------------------------- MODULE SnapshotPublication -------------------------
(***************************************************************************)
(* What the snapshot store promises its callers, crashes included: a       *)
(* snapshot appears as a whole and for good before its creation is         *)
(* answered, disappears only after somebody asked for it, and a deletion   *)
(* that was answered is final.                                             *)
(***************************************************************************)
CONSTANT Snaps

VARIABLES shown,   \* what a reader of the store would find, crash or no crash
          answer   \* what the caller was told

Shown == {"absent", "whole", "retracted", "gone"}
Answers == {"none", "created", "deleted", "error"}

PubInit ==
    /\ shown = [s \in Snaps |-> "absent"]
    /\ answer = [s \in Snaps |-> "none"]

\* A snapshot appears, is taken back and goes, in this order and once each.
Appearance == ({"absent"} \X {"whole"})
                  \cup ({"absent", "whole"} \X {"retracted"})
                  \cup ({"retracted"} \X {"gone"})

Shows(s) == <<shown[s], shown'[s]>> \in Appearance \/ shown'[s] = shown[s]

\* No answer is given before the store bears it out.
Tells(s) ==
    \/ answer'[s] = answer[s]
    \/ answer[s] = "none" /\ answer'[s] = "created" /\ shown'[s] = "whole"
    \/ answer[s] = "created" /\ answer'[s] = "deleted" /\ shown'[s] = "gone"
    \/ answer'[s] = "error"

(***************************************************************************)
(* One step may move several snapshots: a single sync of the store's root  *)
(* makes every pending rename and removal durable.                         *)
(***************************************************************************)
PubNext ==
    /\ shown' \in [Snaps -> Shown]
    /\ answer' \in [Snaps -> Answers]
    /\ \A s \in Snaps : Shows(s) /\ Tells(s)

PubSpec == PubInit /\ [][PubNext]_<<shown, answer>>
==============================================================================
