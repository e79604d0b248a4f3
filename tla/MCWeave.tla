------------------------------- MODULE MCWeave ------------------------------
\* Two domains; core and memory controller n are in domain n, the one cache is
\* in domain 0.
EXTENDS Weave

MCCoreDomain == [c \in Cores |-> c]
OneThread == [d \in Domains |-> 1]
ThreadEach == [d \in Domains |-> d + 1]
Miss(put, mem, wb, lookups) ==
    [op |-> "miss", put |-> put, line |-> "line", mem |-> mem, wb |-> wb, lookups |-> lookups]
Hit(put) == [op |-> "hit", put |-> put]
Put == [op |-> "put"]
Both(a, b) == (0 :> a) @@ (1 :> b)

\* A thread per domain and one MSHR: both cores miss, one of them after its
\* first-level cache wrote a line back.
Contended ==
    [owner |-> ThreadEach, mshrs |-> 1, phases |-> 2, blocks |-> {5},
     accesses |-> Both(1, 1), joins |-> Both(1, 1),
     shapes |-> Both({Miss(FALSE, 1, Unset, <<>>)}, {Miss(TRUE, 0, 0, <<>>)})]

\* One thread for both domains and more phases: a core that leaves comes back.
Rejoining ==
    [owner |-> OneThread, mshrs |-> 1, phases |-> 4, blocks |-> {4},
     accesses |-> Both(2, 0), joins |-> Both(2, 0),
     shapes |-> Both({Miss(FALSE, 1, Unset, <<>>), Put}, {})]

\* One thread, two MSHRs, and misses that look up replacement candidates.
Lookups ==
    [owner |-> OneThread, mshrs |-> 2, phases |-> 2, blocks |-> {5},
     accesses |-> Both(1, 1), joins |-> Both(1, 1),
     shapes |-> Both({Miss(FALSE, 0, Unset, <<2>>)}, {Miss(TRUE, 0, 0, <<1>>), Hit(TRUE)})]

MCConfigs == {Contended, Rejoining, Lookups}

\* A victim that is written back to the domain the missing line comes from.
DirtyAcross ==
    [Rejoining EXCEPT !.shapes = Both({Miss(FALSE, 1, 1, <<>>)}, {})]
DirtyConfigs == {DirtyAcross}
=============================================================================
