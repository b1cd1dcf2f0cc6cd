--------------------------- MODULE SandboxLifetime ---------------------------
(***************************************************************************)
(* What the HTTP API promises of a sandbox id: it is handed out once, is   *)
(* good for requests for a while, good for none when its time is up, and   *)
(* when it has ended, by a deletion or after its time, it never returns.   *)
(***************************************************************************)
CONSTANT Ids

VARIABLES usable,   \* ids a request is accepted for
          overdue,  \* ids whose time is up
          ended     \* ids whose life is over

LifeInit == usable = {} /\ overdue = {} /\ ended = {}

\* One answer hands out one sandbox, or the clones of a snapshot.
HandOut ==
    /\ \E S \in SUBSET (Ids \ (usable \cup overdue \cup ended)) : usable' = usable \cup S
    /\ UNCHANGED <<overdue, ended>>

TimeUp(i) ==
    /\ i \in usable
    /\ usable' = usable \ {i}
    /\ overdue' = overdue \cup {i}
    /\ UNCHANGED ended

End(i) ==
    /\ i \in usable \cup overdue
    /\ usable' = usable \ {i}
    /\ overdue' = overdue \ {i}
    /\ ended' = ended \cup {i}

LifeNext == HandOut \/ \E i \in Ids : TimeUp(i) \/ End(i)

LifeSpec == LifeInit /\ [][LifeNext]_<<usable, overdue, ended>>
==============================================================================
