-------------------------- MODULE PublishedMemory ---------------------------
(***************************************************************************)
(* What the readers of one archived source are promised: they see either   *)
(* what the legacy pipeline derived or exactly one published generation,   *)
(* with complete outputs that never change; a later generation replaces an *)
(* earlier one in one step, legacy derivations never come back, and a      *)
(* removed source shows nothing again (app/domain/derivations/             *)
(* visibility.py, publication in service.py, withdrawal in privacy.py).    *)
(***************************************************************************)
EXTENDS Naturals

CONSTANTS
    MaxGens,      \* bound: generations of the source
    Summaries,    \* outcomes a published summary stage may have
    Extractions   \* outcomes a published extraction stage may have

VARIABLES
    shown,     \* the generation whose rows are current, 0 when none is
    outputs,   \* its stage outcomes
    legacy,    \* rows of no generation are current
    sealed,    \* nothing may be published any more
    removed    \* the source was deleted

vars == <<shown, outputs, legacy, sealed, removed>>

Nothing == [sum |-> "none", ext |-> "none"]
Outputs == [sum : Summaries, ext : Extractions]

TypeOK == /\ shown \in 0..MaxGens
          /\ outputs \in Outputs \union {Nothing}
          /\ legacy \in BOOLEAN /\ sealed \in BOOLEAN /\ removed \in BOOLEAN

Init == /\ shown = 0
        /\ outputs = Nothing
        /\ legacy = TRUE
        /\ sealed = FALSE
        /\ removed = FALSE

\* a later generation, complete, takes the place of whatever was current
Publish == /\ ~sealed /\ ~removed
           /\ shown' \in {g \in 1..MaxGens : g > shown}
           /\ outputs' \in Outputs
           /\ legacy' = FALSE
           /\ UNCHANGED <<sealed, removed>>

\* a tombstone covers the source's content: what is shown stays the last
Seal == /\ sealed' = TRUE
        /\ UNCHANGED <<shown, outputs, legacy, removed>>

\* the source is deleted: nothing of it is current any more
Withdraw == /\ removed' = TRUE
            /\ shown' = 0
            /\ outputs' = Nothing
            /\ legacy' = FALSE
            /\ UNCHANGED sealed

Next == Publish \/ Seal \/ Withdraw

Spec == Init /\ [][Next]_vars
=============================================================================
