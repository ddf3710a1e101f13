----------------------------- MODULE MCServices -----------------------------
(***************************************************************************)
(* The components that share no variable with another, in one instance:     *)
(* each behaviour is a behaviour of one of them, chosen at the start, while *)
(* the others stay as they are.                                            *)
(***************************************************************************)
EXTENDS Accounts, RateLimit, Browser, Catalog, Monitor, Panels, Pages, TLC

\* d1, d2 and e1, e2 are interchangeable: two of whatever a component needs two of.
CONSTANTS d1, d2, e1, e2, u1, t1, z1, z2, s1, b1

VARIABLE part  \* the component that moves

MCTabOf   == [c \in Slots |-> t1]
\* Below, at and above the thresholds of 3 spots, of 75 % and of 90 %; from four free
\* spots to one the size stays, so statuses may change without a spot coming or going.
MCTallies == {[occupied |-> 2, others |-> 0], [occupied |-> 0, others |-> 3],
              [occupied |-> 0, others |-> 4], [occupied |-> 3, others |-> 1],
              [occupied |-> 9, others |-> 1]}
MCPairs   == {p @@ q : p \in Permutations({d1, d2}), q \in Permutations({e1, e2})}

vars == <<part, avars, lvars, bvars, cvars, ovars, tvars, pvars>>

Parts == {"accounts", "limiter", "browser", "catalog", "monitor", "panels", "pages"}

\* The components at rest stay in an initial state, from which they move elsewhere.
TypesOK ==
    \/ part = "accounts" /\ AccountsTypeOK
    \/ part = "limiter" /\ RateLimitTypeOK
    \/ part = "browser" /\ BrowserTypeOK
    \/ part = "catalog" /\ CatalogTypeOK
    \/ part = "monitor" /\ MonitorTypeOK
    \/ part = "panels"  /\ PanelsTypeOK
    \/ part = "pages"   /\ PagesTypeOK

\* Only the component that moves starts in any of its initial states.
Init ==
    /\ part \in Parts
    /\ AccountsInit /\ RateLimitInit /\ BrowserInit /\ CatalogInit
    /\ MonitorInit /\ PanelsInit /\ PagesInit
    /\ part # "monitor" => /\ tally = [z \in Blocks |-> CHOOSE c \in Tallies : TRUE]
                           /\ booked = FALSE /\ services = {}
    /\ part # "panels" => table = "zones" /\ record = [i \in Items |-> None]
    /\ part # "pages" => desk = "session"

Next ==
    \/ part = "accounts" /\ AccountsNext /\ UNCHANGED <<part, lvars, bvars, cvars, ovars, tvars, pvars>>
    \/ part = "limiter" /\ RateLimitNext /\ UNCHANGED <<part, avars, bvars, cvars, ovars, tvars, pvars>>
    \/ part = "browser" /\ BrowserNext   /\ UNCHANGED <<part, avars, lvars, cvars, ovars, tvars, pvars>>
    \/ part = "catalog" /\ CatalogNext   /\ UNCHANGED <<part, avars, lvars, bvars, ovars, tvars, pvars>>
    \/ part = "monitor" /\ MonitorNext   /\ UNCHANGED <<part, avars, lvars, bvars, cvars, tvars, pvars>>
    \/ part = "panels"  /\ PanelsNext    /\ UNCHANGED <<part, avars, lvars, bvars, cvars, ovars, pvars>>
    \/ part = "pages"   /\ PagesNext     /\ UNCHANGED <<part, avars, lvars, bvars, cvars, ovars, tvars>>

Spec == Init /\ [][Next]_vars
=============================================================================
