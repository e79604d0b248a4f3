------------------------------- MODULE MCMesi -------------------------------
\* Two cores under a shared last-level cache: core c1 has a first-level cache
\* and a private second level, core c2 only a first level, so that every level
\* has a parent, children, or both.  All caches have one line.
EXTENDS Mesi
CONSTANTS c1, c2, a1, a2, b1

MCCaches == {"l1a", "l2a", "l1b", "l3"}
MCLines == [c \in MCCaches |-> {1}]
MCChildren == [l1a |-> <<>>, l2a |-> <<"l1a">>, l1b |-> <<>>, l3 |-> <<"l2a", "l1b">>]
MCParent ==
    [c \in MCCaches |-> [x \in Addrs |->
        CASE c = "l1a" -> "l2a" [] c = "l3" -> Memory [] OTHER -> "l3"]]
MCFirstLevel == [t \in Cores |-> IF t = c1 THEN {"l1a"} ELSE {"l1b"}]
\* a1 and a2 are lines of one process, b1 of another that uses the same line as a1.
MCProcMask == [x \in Addrs |-> IF x = b1 THEN 2 ELSE 1]
MCVLineAddr == [x \in Addrs |-> IF x = a2 THEN 2 ELSE 1]
=============================================================================
