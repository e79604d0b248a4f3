--------------------------- MODULE MCCacheArrays ----------------------------
(* Caches of two to four lines for CacheArrays.                            *)
EXTENDS CacheArrays

Same(n, addrs) == [w \in 0..(n - 1) |-> [a \in addrs |-> a]]

\* One set.
OneSet(repl, lines, addrs, children, accesses) ==
    [array |-> "SetAssoc", repl |-> repl, lines |-> lines, ways |-> lines, cands |-> lines,
     hash |-> Same(1, addrs), children |-> children, accesses |-> accesses, costs |-> {}]

\* A zcache of two ways and two sets whose walks revisit lines.
ZHash == [w \in {0, 1} |-> [a \in 1..5 |-> IF w = 0 THEN a ELSE a \div 2]]
ZCache(repl) ==
    [array |-> "Z", repl |-> repl, lines |-> 4, ways |-> 2, cands |-> 10,
     hash |-> ZHash, children |-> {1}, accesses |-> 7, costs |-> {}]

MCConfigs ==
    {OneSet("LRU", 3, 1..4, {1, 2}, 6), OneSet("LRUNoSh", 3, 1..4, {1}, 6),
     OneSet("NRU", 4, 1..5, {1}, 6), OneSet("LFU", 2, 1..3, {1}, 6),
     OneSet("Rand", 2, 1..3, {1}, 5), OneSet("SRRIP", 3, 1..4, {1}, 7),
     [OneSet("CARE", 2, 1..4, {1}, 5) EXCEPT !.costs = {0, 200, 400}],
     [OneSet("LRU", 3, 1..4, {1}, 6) EXCEPT !.array = "IdealLRU"],
     ZCache("LRUNoSh"), ZCache("SRRIP")}
=============================================================================
