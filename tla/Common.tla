------------------------------- MODULE Common -------------------------------
(***************************************************************************)
(* What the modules on accounts, browsers, live maps and pages share.       *)
(***************************************************************************)
CONSTANTS
    None,     \* no value
    Faults    \* TRUE: a handler may die between two awaits, a message may be lost

ASSUME FaultsType == Faults \in BOOLEAN
=============================================================================
