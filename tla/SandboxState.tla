---------------------------- MODULE SandboxState ----------------------------
(***************************************************************************)
(* The sandbox life cycle of ferrobox-core: the states a sandbox record    *)
(* may be in and the transitions `can_transition_to` admits.  Both the API *)
(* server and the Firecracker runtime keep a state of this type, each in a *)
(* record of its own.                                                      *)
(***************************************************************************)

States == {"Creating", "Running", "Pausing", "Paused", "Resuming",
           "Deleting", "Deleted", "Failed"}

\* SandboxState::can_transition_to, as the set of pairs its `matches!` lists.
LegalTransitions ==
    ({"Creating"} \X {"Running", "Failed", "Deleting"})
        \cup ({"Running"}  \X {"Pausing", "Deleting", "Failed"})
        \cup ({"Pausing"}  \X {"Paused", "Failed", "Deleting"})
        \cup ({"Paused"}   \X {"Resuming", "Deleting", "Failed"})
        \cup ({"Resuming"} \X {"Running", "Failed", "Deleting"})
        \cup ({"Failed"}   \X {"Deleting"})
        \cup ({"Deleting"} \X {"Deleted", "Failed"})

CanTransitionTo(s, next) == <<s, next>> \in LegalTransitions
=============================================================================
