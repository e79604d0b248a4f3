----------------------------- MODULE MesiProofs -----------------------------
(***************************************************************************)
(* The coherence of the cache hierarchy.  The proof looks at the arrays by *)
(* address: what state a cache has a line in, which children it lists as   *)
(* sharers and whether it lists one of them as exclusive.  Moving a line   *)
(* about in an array changes none of this.                                 *)
(*                                                                         *)
(* The inductive invariant relates what a cache knows of an address with   *)
(* what its children have: exactly while nobody tells the children, and up *)
(* to the children already told while somebody does (a job); and it says,  *)
(* frame by frame, what an access or an invalidation in progress may rely  *)
(* on.  All of it is stated of arbitrary arrays and stacks, so that the    *)
(* lemmas about the steps speak of two states without primes.              *)
(***************************************************************************)
EXTENDS MesiLocks

Served == CHOOSE served \in [Caches -> SUBSET Addrs] :
             /\ \A t \in Cores : \A c \in FirstLevel[t] : served[c] = Addrs
             /\ \A c \in Caches : \A a \in served[c] :
                    Parent[c][a] # Memory => a \in served[Parent[c][a]]
             /\ \A c, d \in Caches : \A a \in served[c] \cap served[d] :
                    Parent[c][a] = Memory /\ Parent[d][a] = Memory => c = d

-----------------------------------------------------------------------------
(* The arrays by address.                                                  *)

Slots == Addrs \cup {None}
Has(g, c, a) == \E l \in Lines[c] : g[c][l] = a
Where(g, c, a) == CHOOSE l \in Lines[c] : g[c][l] = a

States(g, b) == [c \in Caches |-> [a \in Slots |->
                   IF Has(g, c, a) THEN b[c][Where(g, c, a)] ELSE "I"]]
Sharers(g, e) == [c \in Caches |-> [a \in Slots |->
                   IF Has(g, c, a) THEN e[c][Where(g, c, a)].sharers ELSE {}]]
Exclusives(g, e) == [c \in Caches |->
                   {a \in Slots : Has(g, c, a) /\ isExclusive(e[c][Where(g, c, a)])}]

\* No address is twice in a cache, nor in a cache that does not serve it.
TagInv(g) ==
    \A c \in Caches : \A l \in Lines[c] : g[c][l] # None =>
        /\ g[c][l] \in Served[c]
        /\ \A m \in Lines[c] : g[c][m] = g[c][l] => m = l

\* numSharers counts the sharers, and exclusive is not left set with two of them.
EntryOK(e, c) ==
    /\ e.sharers \subseteq Range(Children[c])
    /\ e.numSharers = Cardinality(e.sharers)
    /\ e.numSharers > 1 => ~e.exclusive
EntryInv(e) == \A c \in Caches : \A l \in Lines[c] : EntryOK(e[c][l], c)

-----------------------------------------------------------------------------
(* Jobs: frames that tell the children of a cache about a line.            *)

\* The address of the line that a frame works on in its cache.
Adr(g, f) == IF f.pc \in {"evict", "insert"} THEN g[f.cache][f.line] ELSE f.addr

Job(g, s, i) ==
    [cache |-> s[i].cache, addr |-> Adr(g, s[i]), type |-> SendType(s[i]),
     left  |-> s[i].todo \cup (IF i < Len(s) THEN {s[i + 1].cache} ELSE {}),
     up    |-> IF s[i].pc = "grant" /\ s[i].type = "GETX" THEN {s[i - 1].cache} ELSE {}]
Jobs(g, k) ==
    UNION {{Job(g, k[t], i) : i \in {n \in 1 .. Len(k[t]) : k[t][n].pc \in Sending}} : t \in Cores}

\* A directory entry lists children for this address, and permits no more than
\* the cache's own state does.
EntryRel(S, H, X) ==
    \A p \in Caches : \A a \in Addrs :
        /\ S[p][a] \in MESIState
        /\ \A c \in H[p][a] : c \in Caches /\ Parent[c][a] = p /\ S[p][a] # "I"
        /\ a \in X[p] => /\ Exclusive(S[p][a])
                      /\ \E c \in H[p][a] : H[p][a] = {c}

\* A line that a child has is listed, unless it is being upgraded.
UpRel(S, H, X, J) ==
    \A c \in Caches : \A a \in Addrs : S[c][a] # "I" /\ Parent[c][a] # Memory =>
        \/ /\ c \in H[Parent[c][a]][a]
           /\ Exclusive(S[c][a]) => a \in X[Parent[c][a]]
        \/ /\ S[c][a] = "S"
           /\ \E j \in J : j.cache = Parent[c][a] /\ j.addr = a /\ c \in j.up

\* A line listed is there, unless the child was just told to give it up.
DownRel(S, H, X, J) ==
    \A p \in Caches : \A a \in Addrs : \A c \in H[p][a] :
        (\A j \in J : j.cache = p /\ j.addr = a => c \in j.left) =>
            S[c][a] # "I" /\ (a \in X[p] => Exclusive(S[c][a]))

\* The children left to tell, those told and the one that upgrades.
ToldOK(S, H, X, j) ==
    /\ j.left \subseteq H[j.cache][j.addr]
    /\ j.type = "INVX" =>
          /\ j.up = {} /\ (j.left # {} => j.addr \in X[j.cache])
          /\ \A c \in H[j.cache][j.addr] : c \notin j.left => S[c][j.addr] = "S"
    /\ j.type = "INV" =>
          \A c \in Caches : Parent[c][j.addr] = j.cache /\ c \notin j.left =>
              S[c][j.addr] = "I" \/ (c \in j.up /\ S[c][j.addr] = "S")
    /\ \A c \in j.up : c \in Caches /\ Parent[c][j.addr] = j.cache
    /\ \A c \in j.up : c \notin H[j.cache][j.addr] /\ (S[c][j.addr] # "I" => j.addr \notin X[j.cache])
ToldRel(S, H, X, J) == \A j \in J : j.cache \in Caches /\ (j.addr \in Addrs => ToldOK(S, H, X, j))

Rel(S, H, X, J) == EntryRel(S, H, X) /\ UpRel(S, H, X, J) /\ DownRel(S, H, X, J) /\ ToldRel(S, H, X, J)

-----------------------------------------------------------------------------
(* Frames: what an access or an invalidation relies on.                    *)

\* The states of a child's line that an access of this type can find, when it is
\* called and while it is served (a GETX may lose the S it started with), and the
\* states that it leaves.
Kept(type) ==
    CASE type = "GETS" -> {"I"}
      [] type = "GETX" -> {"I", "S"}
      [] type = "PUTS" -> {"S", "E"}
      [] OTHER -> {"M"}
Given(type) ==
    CASE type = "GETS" -> {"S", "E"}
      [] type = "GETX" -> {"M"}
      [] OTHER -> {"I"}
ChildMay(f) ==
    IF f.pc \in {"tcc", "bcc"} THEN {"I", f.init} \cup (IF f.type \in Puts THEN {"S"} ELSE {})
    ELSE IF f.pc = "end" THEN Given(f.type) ELSE Kept(f.type)

\* A frame f: while it sends invalidations it has the line.
Own(S, H, g, f) ==
    LET c == f.cache
        s == S[c][Adr(g, f)]
    IN
    /\ f.addr \in Served[c] /\ f.flags = {}
    /\ f.pc # "inval" => f.type \in Gets \cup Puts
    /\ f.pc \in {"access", "prefetch", "dir", "grant", "fill", "inval"} \/ (f.pc = "end" /\ f.type \in Gets)
          => f.line \in Lines[c] /\ g[c][f.line] = f.addr
    /\ f.pc \in {"evict", "insert"} => f.type \in Gets /\ \A m \in Lines[c] : g[c][m] # f.addr
    /\ f.pc = "insert" => H[c][Adr(g, f)] = {}
    /\ f.pc = "grant" => f.type \in Gets
    /\ f.pc \in {"insert", "access", "prefetch", "dir"} => ~f.wb
    /\ f.pc \in Sending /\ f.wb => Exclusive(s)
    /\ f.pc = "inval" => s # "I" /\ (f.type = "INVX" => Exclusive(s))

\* A frame f that does not wait for its parent.
Ready(S, g, f) ==
    LET s == S[f.cache][Adr(g, f)] IN
    /\ f.pc = "insert" => s = "I"
    /\ f.pc \in {"prefetch", "dir", "grant", "end", "fill"} =>
          (f.type = "GETS" => s # "I") /\ (f.type = "GETX" => s = "M")
    /\ f.pc = "dir" /\ f.type = "PUTX" => s = "M"

\* A frame d and the one it called, f: its parent's or a child's.
Link(S, g, d, f) ==
    /\ f.addr = Adr(g, d)
    /\ f.pc # "inval" =>
          /\ f.own /\ Parent[d.cache][f.addr] = f.cache
          /\ d.pc = "end" => Terminal(d.cache)
          /\ d.line \in Lines[d.cache] /\ g[d.cache][d.line] = f.addr
          /\ f.pc \in {"tcc", "bcc"} => f.init \in Kept(f.type)
          /\ f.type \in Gets => d.pc # "insert" /\ d.type = f.type
          /\ f.type \in Puts => d.pc = "insert"
          /\ S[d.cache][f.addr] \in ChildMay(f)
    /\ f.pc = "inval" =>
          /\ Parent[f.cache][f.addr] = d.cache
          /\ f.type = SendType(d) /\ f.cache \notin d.todo /\ ~f.own

FrameAt(S, H, g, s, i) ==
    /\ Own(S, H, g, s[i])
    /\ ~Waits(s, i) => Ready(S, g, s[i])
    /\ i = 1 => ~s[i].own /\ s[i].type \in Gets
    /\ i > 1 => Link(S, g, s[i - 1], s[i])
FramesInv(S, H, g, s) == \A i \in 1 .. Len(s) : FrameAt(S, H, g, s, i)

-----------------------------------------------------------------------------
(* The invariant.                                                          *)

ST == States(tag, bcc)
SH == Sharers(tag, tcc)
EX == Exclusives(tag, tcc)
JS == Jobs(tag, stack)

CoherenceInv ==
    /\ TagInv(tag) /\ EntryInv(tcc)
    /\ Rel(ST, SH, EX, JS)
    /\ \A t \in Cores : FramesInv(ST, SH, tag, stack[t])

-----------------------------------------------------------------------------
(* How the steps change the relation between a cache and its children.     *)

\* T is S but for the value v that cache c has for address a.
SetAt(T, S, c, a, v) == \A d \in Caches : \A x \in Addrs : T[d][x] = IF d = c /\ x = a THEN v ELSE S[d][x]

\* Y is X but for address a of cache c, which is exclusive as state v is.
FlagAt(Y, X, c, a, v) ==
    \A d \in Caches : \A x \in Addrs : x \in Y[d] <=> IF d = c /\ x = a THEN Exclusive(v) ELSE x \in X[d]

\* The jobs J, with the jobs N instead of those of the caches D.
Replaced(J, D, N) == {j \in J : j.cache \notin D} \cup N

LEMMA ParentType ==
    /\ Memory \notin Caches
    /\ \A c \in Caches : \A a \in Addrs : Parent[c][a] \in Caches \cup {Memory}
BY MesiAssumption

\* A cache starts to tell its children: all that have the line, or the one that
\* has it exclusively.  A child that upgrades is taken off the list.
LEMMA BeginRel ==
    ASSUME NEW S, NEW H, NEW X, NEW J, Rel(S, H, X, J), NEW p \in Caches, NEW a \in Addrs,
           \A i \in J : i.cache # p,
           NEW j, j.cache = p, j.addr = a, j.type \in InvTypes,
           NEW G, SetAt(G, H, p, a, H[p][a] \ j.up),
           j.left = IF j.type = "INV" \/ a \in X[p] THEN G[p][a] ELSE {},
           j.up # {} => j.type = "INV",
           \A c \in j.up : c \in Caches /\ Parent[c][a] = p /\ S[c][a] \in {"I", "S"},
           NEW J2, J2 = J \cup {j}
    PROVE  Rel(S, G, X, J2)
<1>1. \A c \in H[p][a] : S[c][a] # "I" /\ (a \in X[p] => Exclusive(S[c][a]))
  BY DEF Rel, DownRel
<1>2. \A c \in Caches : S[c][a] # "I" /\ Parent[c][a] = p => c \in H[p][a] /\ (Exclusive(S[c][a]) => a \in X[p])
  BY ParentType DEF Rel, UpRel
<1>3. \A c \in j.up : c \in H[p][a] => a \notin X[p]
  BY <1>1 DEF Exclusive
<1>4. G[p][a] = H[p][a] \ j.up /\ \A q \in Caches : \A b \in Addrs : q # p \/ b # a => G[q][b] = H[q][b]
  BY DEF SetAt
<1>5. EntryRel(S, G, X)
  <2> SUFFICES ASSUME NEW q \in Caches, NEW b \in Addrs
               PROVE  /\ S[q][b] \in MESIState
                      /\ \A c \in G[q][b] : c \in Caches /\ Parent[c][b] = q /\ S[q][b] # "I"
                      /\ b \in X[q] => Exclusive(S[q][b]) /\ \E c \in G[q][b] : G[q][b] = {c}
    BY DEF EntryRel
  <2>1. /\ S[q][b] \in MESIState
        /\ \A c \in H[q][b] : c \in Caches /\ Parent[c][b] = q /\ S[q][b] # "I"
        /\ b \in X[q] => Exclusive(S[q][b]) /\ \E c \in H[q][b] : H[q][b] = {c}
    BY DEF Rel, EntryRel
  <2>2. CASE q = p /\ b = a
    <3>1. b \in X[q] => G[q][b] = H[q][b]
      BY <1>3, <1>4, <2>2
    <3> QED
      BY <1>4, <2>1, <2>2, <3>1
  <2> QED
    BY <1>4, <2>1, <2>2
<1>6. UpRel(S, G, X, J2)
  <2> SUFFICES ASSUME NEW c \in Caches, NEW b \in Addrs, S[c][b] # "I", Parent[c][b] # Memory
               PROVE  \/ c \in G[Parent[c][b]][b] /\ (Exclusive(S[c][b]) => b \in X[Parent[c][b]])
                      \/ S[c][b] = "S" /\ \E i \in J2 : i.cache = Parent[c][b] /\ i.addr = b /\ c \in i.up
    BY DEF UpRel
  <2>1. \/ c \in H[Parent[c][b]][b] /\ (Exclusive(S[c][b]) => b \in X[Parent[c][b]])
        \/ S[c][b] = "S" /\ \E i \in J : i.cache = Parent[c][b] /\ i.addr = b /\ c \in i.up
    BY DEF Rel, UpRel
  <2>2. CASE Parent[c][b] = p /\ b = a /\ c \in j.up
    BY <2>2
  <2>3. CASE ~(Parent[c][b] = p /\ b = a /\ c \in j.up)
    BY <1>4, <2>1, <2>3, ParentType
  <2> QED
    BY <2>2, <2>3
<1>7. DownRel(S, G, X, J2)
  <2> SUFFICES ASSUME NEW q \in Caches, NEW b \in Addrs, NEW c \in G[q][b],
                      \A i \in J2 : i.cache = q /\ i.addr = b => c \in i.left
               PROVE  S[c][b] # "I" /\ (b \in X[q] => Exclusive(S[c][b]))
    BY DEF DownRel
  <2>1. c \in H[q][b]
    BY <1>4
  <2> QED
    BY <2>1 DEF Rel, DownRel
<1>8. ToldRel(S, G, X, J2)
  <2>1. ToldOK(S, G, X, j)
    <3>1. j.type = "INVX" => \A c \in G[p][a] : c \notin j.left => S[c][a] = "S"
      <4> SUFFICES ASSUME j.type = "INVX", NEW c \in G[p][a], c \notin j.left
                   PROVE  S[c][a] = "S"
        OBVIOUS
      <4>1. c \in H[p][a] /\ a \notin X[p] /\ c \in Caches /\ Parent[c][a] = p /\ S[c][a] \in MESIState
        BY <1>4 DEF Rel, EntryRel
      <4>2. S[c][a] # "I" /\ ~Exclusive(S[c][a])
        BY <1>1, <1>2, <4>1
      <4> QED
        BY <4>1, <4>2 DEF Exclusive, MESIState
    <3>2. j.type = "INV" => \A c \in Caches : Parent[c][a] = p /\ c \notin j.left =>
              S[c][a] = "I" \/ (c \in j.up /\ S[c][a] = "S")
      BY <1>2, <1>4
    <3>3. \A c \in j.up : c \notin G[p][a] /\ (S[c][a] # "I" => a \notin X[p])
      BY <1>2, <1>3, <1>4
    <3> QED
      BY <1>4, <3>1, <3>2, <3>3 DEF ToldOK, InvTypes
  <2>2. ASSUME NEW i \in J, i.addr \in Addrs PROVE ToldOK(S, G, X, i)
    <3>1. G[i.cache][i.addr] = H[i.cache][i.addr]
      BY <1>4, <2>2 DEF Rel, ToldRel
    <3>2. ToldOK(S, H, X, i)
      BY <2>2 DEF Rel, ToldRel
    <3> QED
      BY <3>1, <3>2 DEF ToldOK
  <2> QED
    BY <2>1, <2>2 DEF Rel, ToldRel
<1> QED
  BY <1>5, <1>6, <1>7, <1>8 DEF Rel

\* A line gets a better state: from memory, or with a store to a line in E.
LEMMA UpgradeRel ==
    ASSUME NEW S, NEW H, NEW X, NEW J, Rel(S, H, X, J), NEW c \in Caches, NEW a \in Addrs,
           NEW v \in MESIState \ {"I"}, NEW T, SetAt(T, S, c, a, v),
           Exclusive(S[c][a]) => Exclusive(v),
           Parent[c][a] = Memory \/ Exclusive(S[c][a])
    PROVE  Rel(T, H, X, J)
<1>1. T[c][a] = v /\ \A d \in Caches : \A x \in Addrs : d # c \/ x # a => T[d][x] = S[d][x]
  BY DEF SetAt, FlagAt, Exclusive
<1>2. EntryRel(T, H, X)
  <2> SUFFICES ASSUME NEW q \in Caches, NEW b \in Addrs
               PROVE  /\ T[q][b] \in MESIState
                      /\ \A d \in H[q][b] : d \in Caches /\ Parent[d][b] = q /\ T[q][b] # "I"
                      /\ b \in X[q] => Exclusive(T[q][b]) /\ \E d \in H[q][b] : H[q][b] = {d}
    BY DEF EntryRel
  <2>1. /\ S[q][b] \in MESIState
        /\ \A d \in H[q][b] : d \in Caches /\ Parent[d][b] = q /\ S[q][b] # "I"
        /\ b \in X[q] => Exclusive(S[q][b]) /\ \E d \in H[q][b] : H[q][b] = {d}
    BY DEF Rel, EntryRel
  <2> QED
    BY <1>1, <2>1
<1>3. UpRel(T, H, X, J)
  <2> SUFFICES ASSUME NEW d \in Caches, NEW b \in Addrs, T[d][b] # "I", Parent[d][b] # Memory
               PROVE  \/ d \in H[Parent[d][b]][b] /\ (Exclusive(T[d][b]) => b \in X[Parent[d][b]])
                      \/ T[d][b] = "S" /\ \E i \in J : i.cache = Parent[d][b] /\ i.addr = b /\ d \in i.up
    BY DEF UpRel
  <2>1. S[d][b] # "I"
    BY <1>1 DEF Exclusive
  <2>2. \/ d \in H[Parent[d][b]][b] /\ (Exclusive(S[d][b]) => b \in X[Parent[d][b]])
        \/ S[d][b] = "S" /\ \E i \in J : i.cache = Parent[d][b] /\ i.addr = b /\ d \in i.up
    BY <2>1 DEF Rel, UpRel
  <2>3. CASE d = c /\ b = a
    BY <2>2, <2>3 DEF Exclusive
  <2> QED
    BY <1>1, <2>2, <2>3
<1>4. DownRel(T, H, X, J)
  <2> SUFFICES ASSUME NEW q \in Caches, NEW b \in Addrs, NEW d \in H[q][b],
                      \A i \in J : i.cache = q /\ i.addr = b => d \in i.left
               PROVE  T[d][b] # "I" /\ (b \in X[q] => Exclusive(T[d][b]))
    BY DEF DownRel
  <2>1. d \in Caches /\ S[d][b] # "I" /\ (b \in X[q] => Exclusive(S[d][b]))
    BY DEF Rel, DownRel, EntryRel
  <2> QED
    BY <1>1, <2>1
<1>5. ToldRel(T, H, X, J)
  <2> SUFFICES ASSUME NEW j \in J, j.addr \in Addrs PROVE ToldOK(T, H, X, j)
    BY DEF Rel, ToldRel
  <2>1. j.cache \in Caches /\ ToldOK(S, H, X, j)
    BY DEF Rel, ToldRel
  <2>2. \A d \in Caches : Parent[d][j.addr] = j.cache => T[d][j.addr] = S[d][j.addr] \/ Exclusive(S[d][j.addr])
    BY <1>1, <2>1, ParentType
  <2>3. \A d \in H[j.cache][j.addr] : d \in Caches /\ Parent[d][j.addr] = j.cache
    BY <2>1 DEF Rel, EntryRel
  <2>4. \A d \in Caches : T[d][j.addr] # "I" => S[d][j.addr] # "I" \/ Parent[d][j.addr] = Memory
    BY <1>1 DEF Exclusive
  <2>5. \A d \in j.up : d \in Caches /\ Parent[d][j.addr] = j.cache
    BY <2>1 DEF ToldOK
  <2> QED
    BY <2>1, <2>2, <2>3, <2>4, <2>5, ParentType DEF ToldOK, Exclusive
<1> QED
  BY <1>2, <1>3, <1>4, <1>5 DEF Rel

\* An eviction ends: no child has the line any more.
LEMMA EvictRel ==
    ASSUME NEW S, NEW H, NEW X, NEW J, Rel(S, H, X, J), NEW p \in Caches, NEW a \in Addrs,
           NEW j \in J, j.cache = p, j.addr = a, j.type = "INV", j.left = {}, j.up = {},
           \A i \in J : i.cache = p => i = j,
           NEW v \in MESIState, v = S[p][a] \/ (v = "I" /\ Parent[p][a] = Memory),
           NEW T, SetAt(T, S, p, a, v), NEW G, SetAt(G, H, p, a, {}), NEW Y, FlagAt(Y, X, p, a, "I"),
           NEW J2, J2 = Replaced(J, {p}, {})
    PROVE  Rel(T, G, Y, J2)
<1> J2 = {i \in J : i.cache # p}
  BY DEF Replaced
<1>1. /\ T[p][a] = v /\ G[p][a] = {} /\ a \notin Y[p]
      /\ \A d \in Caches : \A x \in Addrs : d # p \/ x # a =>
            T[d][x] = S[d][x] /\ G[d][x] = H[d][x] /\ (x \in Y[d] <=> x \in X[d])
  BY DEF SetAt, FlagAt, Exclusive
<1>2. \A c \in Caches : Parent[c][a] = p => S[c][a] = "I"
  <2>1. ToldOK(S, H, X, j)
    BY DEF Rel, ToldRel
  <2> QED
    BY <2>1 DEF ToldOK
<1>3. EntryRel(T, G, Y)
  <2> SUFFICES ASSUME NEW q \in Caches, NEW b \in Addrs
               PROVE  /\ T[q][b] \in MESIState
                      /\ \A d \in G[q][b] : d \in Caches /\ Parent[d][b] = q /\ T[q][b] # "I"
                      /\ b \in Y[q] => Exclusive(T[q][b]) /\ \E d \in G[q][b] : G[q][b] = {d}
    BY DEF EntryRel
  <2>1. /\ S[q][b] \in MESIState
        /\ \A d \in H[q][b] : d \in Caches /\ Parent[d][b] = q /\ S[q][b] # "I"
        /\ b \in X[q] => Exclusive(S[q][b]) /\ \E d \in H[q][b] : H[q][b] = {d}
    BY DEF Rel, EntryRel
  <2> QED
    BY <1>1, <2>1
<1>4. UpRel(T, G, Y, J2)
  <2> SUFFICES ASSUME NEW d \in Caches, NEW b \in Addrs, T[d][b] # "I", Parent[d][b] # Memory
               PROVE  \/ d \in G[Parent[d][b]][b] /\ (Exclusive(T[d][b]) => b \in Y[Parent[d][b]])
                      \/ T[d][b] = "S" /\ \E i \in J2 : i.cache = Parent[d][b] /\ i.addr = b /\ d \in i.up
    BY DEF UpRel
  <2>1. T[d][b] = S[d][b]
    BY <1>1
  <2>2. \/ d \in H[Parent[d][b]][b] /\ (Exclusive(S[d][b]) => b \in X[Parent[d][b]])
        \/ S[d][b] = "S" /\ \E i \in J : i.cache = Parent[d][b] /\ i.addr = b /\ d \in i.up
    BY <2>1 DEF Rel, UpRel
  <2>3. Parent[d][b] # p \/ b # a
    BY <1>2, <2>1
  <2>4. \A i \in J : i.cache = Parent[d][b] /\ i.addr = b => i \in J2
    BY <2>3
  <2>5. Parent[d][b] \in Caches
    BY ParentType
  <2>6. G[Parent[d][b]][b] = H[Parent[d][b]][b] /\ (b \in Y[Parent[d][b]] <=> b \in X[Parent[d][b]])
    BY <1>1, <2>3, <2>5
  <2>7. CASE d \in H[Parent[d][b]][b] /\ (Exclusive(S[d][b]) => b \in X[Parent[d][b]])
    BY <2>1, <2>6, <2>7
  <2>8. CASE S[d][b] = "S" /\ \E i \in J : i.cache = Parent[d][b] /\ i.addr = b /\ d \in i.up
    BY <2>1, <2>4, <2>8
  <2> QED
    BY <2>2, <2>7, <2>8
<1>5. DownRel(T, G, Y, J2)
  <2> SUFFICES ASSUME NEW q \in Caches, NEW b \in Addrs, NEW d \in G[q][b],
                      \A i \in J2 : i.cache = q /\ i.addr = b => d \in i.left
               PROVE  T[d][b] # "I" /\ (b \in Y[q] => Exclusive(T[d][b]))
    BY DEF DownRel
  <2>1. q # p \/ b # a
    BY <1>1
  <2>2. \A i \in J : i.cache = q /\ i.addr = b => d \in i.left
    BY <2>1
  <2>3. d \in H[q][b] /\ d \in Caches /\ Parent[d][b] = q /\ S[d][b] # "I" /\ (b \in X[q] => Exclusive(S[d][b]))
    BY <1>1, <2>1, <2>2 DEF Rel, DownRel, EntryRel
  <2>4. T[d][b] = S[d][b]
    BY <1>1, <2>3, ParentType
  <2> QED
    BY <1>1, <2>1, <2>3, <2>4
<1>6. ToldRel(T, G, Y, J2)
  <2> SUFFICES ASSUME NEW i \in J2, i.addr \in Addrs PROVE ToldOK(T, G, Y, i)
    BY DEF Rel, ToldRel
  <2>1. i.cache \in Caches /\ i.cache # p /\ ToldOK(S, H, X, i)
    BY DEF Rel, ToldRel
  <2>2. G[i.cache][i.addr] = H[i.cache][i.addr] /\ (i.addr \in Y[i.cache] <=> i.addr \in X[i.cache])
    BY <1>1, <2>1
  <2>3. \A d \in H[i.cache][i.addr] : d \in Caches /\ Parent[d][i.addr] = i.cache
    BY <2>1 DEF Rel, EntryRel
  <2>4. \A d \in Caches : Parent[d][i.addr] = i.cache => T[d][i.addr] = S[d][i.addr]
    BY <1>1, <2>1, ParentType
  <2>5. \A d \in i.up : d \in Caches /\ Parent[d][i.addr] = i.cache
    BY <2>1 DEF ToldOK
  <2> QED
    BY <2>1, <2>2, <2>3, <2>4, <2>5 DEF ToldOK
<1> QED
  BY <1>3, <1>4, <1>5, <1>6 DEF Rel

\* A child gets the line, once the others have been told.
LEMMA GrantRel ==
    ASSUME NEW S, NEW H, NEW X, NEW J, Rel(S, H, X, J), NEW p \in Caches, NEW a \in Addrs,
           NEW j \in J, j.cache = p, j.addr = a, j.left = {},
           \A i \in J : i.cache = p => i = j,
           NEW d \in Caches, Parent[d][a] = p, NEW given \in MESIState,
           \/ j.type = "INV" /\ j.up = {d} /\ given = "M"
           \/ j.type = "INVX" /\ S[d][a] = "I" /\ given \in {"S", "E"},
           S[p][a] # "I", Exclusive(given) => Exclusive(S[p][a]),
           j.type = "INVX" /\ given = "E" => H[p][a] = {},
           NEW T, SetAt(T, S, d, a, given),
           NEW list, list = IF j.type = "INV" THEN {d} ELSE H[p][a] \cup {d},
           NEW G, SetAt(G, H, p, a, list),
           NEW Y, FlagAt(Y, X, p, a, given),
           NEW J2, J2 = Replaced(J, {p}, {})
    PROVE  Rel(T, G, Y, J2)
<1> J2 = {i \in J : i.cache # p}
  BY DEF Replaced
<1>1. /\ T[d][a] = given /\ G[p][a] = (IF j.type = "INV" THEN {d} ELSE H[p][a] \cup {d})
      /\ (a \in Y[p] <=> Exclusive(given))
      /\ \A c \in Caches : \A x \in Addrs :
            /\ c # d \/ x # a => T[c][x] = S[c][x]
            /\ c # p \/ x # a => G[c][x] = H[c][x] /\ (x \in Y[c] <=> x \in X[c])
  BY DEF SetAt, FlagAt, Exclusive
<1>2. /\ \A c \in Caches : Parent[c][a] = p /\ c # d =>
            \/ T[c][a] = "I"
            \/ T[c][a] = "S" /\ c \in G[p][a] /\ ~Exclusive(given)
      /\ G[p][a] # {d} => ~Exclusive(given)
      /\ \A c \in G[p][a] : c \in Caches /\ Parent[c][a] = p /\ T[c][a] # "I"
  <2>1. ToldOK(S, H, X, j)
    BY DEF Rel, ToldRel
  <2>2. \A c \in H[p][a] : c \in Caches /\ Parent[c][a] = p
    BY DEF Rel, EntryRel
  <2>3. CASE j.type = "INV" /\ j.up = {d} /\ given = "M"
    BY <1>1, <2>1, <2>3 DEF ToldOK
  <2>4. CASE j.type = "INVX" /\ S[d][a] = "I" /\ given \in {"S", "E"}
    <3>1. \A c \in H[p][a] : S[c][a] = "S" /\ c # d
      BY <2>1, <2>4 DEF ToldOK
    <3>2. \A c \in Caches : Parent[c][a] = p /\ S[c][a] # "I" => c \in H[p][a]
      <4> SUFFICES ASSUME NEW c \in Caches, Parent[c][a] = p, S[c][a] # "I" PROVE c \in H[p][a]
        OBVIOUS
      <4>1. c \in H[p][a] \/ \E i \in J : i.cache = p /\ c \in i.up
        BY ParentType DEF Rel, UpRel
      <4>2. j.up = {}
        BY <2>1, <2>4 DEF ToldOK
      <4> QED
        BY <4>1, <4>2
    <3>3. G[p][a] = H[p][a] \cup {d} /\ (given = "E" => H[p][a] = {}) /\ (~Exclusive(given) <=> given = "S")
      BY <1>1, <2>4 DEF Exclusive
    <3>4. \A c \in H[p][a] : T[c][a] = "S"
      BY <1>1, <2>2, <3>1
    <3>5. \A c \in Caches : Parent[c][a] = p /\ c # d => T[c][a] = S[c][a]
      BY <1>1
    <3> QED
      BY <1>1, <2>2, <2>4, <3>1, <3>2, <3>3, <3>4, <3>5
  <2> QED
    BY <2>3, <2>4
<1>3. p # d
  <2>1. p \in Range(Children[p]) => FALSE
    BY LevelFacts
  <2> QED
    BY <2>1, ParentFacts, ParentType
<1>4. EntryRel(T, G, Y)
  <2> SUFFICES ASSUME NEW q \in Caches, NEW b \in Addrs
               PROVE  /\ T[q][b] \in MESIState
                      /\ \A c \in G[q][b] : c \in Caches /\ Parent[c][b] = q /\ T[q][b] # "I"
                      /\ b \in Y[q] => Exclusive(T[q][b]) /\ \E c \in G[q][b] : G[q][b] = {c}
    BY DEF EntryRel
  <2>1. /\ S[q][b] \in MESIState
        /\ \A c \in H[q][b] : c \in Caches /\ Parent[c][b] = q /\ S[q][b] # "I"
        /\ b \in X[q] => Exclusive(S[q][b]) /\ \E c \in H[q][b] : H[q][b] = {c}
    BY DEF Rel, EntryRel
  <2>2. CASE q = p /\ b = a
    <3>1. T[p][a] = S[p][a]
      BY <1>1, <1>3
    <3> QED
      BY <1>1, <1>2, <2>1, <2>2, <3>1
  <2>3. CASE q = d /\ b = a
    <3>1. S[d][a] \in {"I", "S"}
      <4>1. ToldOK(S, H, X, j)
        BY DEF Rel, ToldRel
      <4> QED
        BY <4>1 DEF ToldOK
    <3>2. given # "I" /\ b \notin X[q]
      BY <2>1, <2>3, <3>1 DEF Exclusive
    <3> QED
      BY <1>1, <1>3, <2>1, <2>3, <3>1, <3>2
  <2> QED
    BY <1>1, <2>1, <2>2, <2>3
<1>5. UpRel(T, G, Y, J2)
  <2> SUFFICES ASSUME NEW c \in Caches, NEW b \in Addrs, T[c][b] # "I", Parent[c][b] # Memory
               PROVE  \/ c \in G[Parent[c][b]][b] /\ (Exclusive(T[c][b]) => b \in Y[Parent[c][b]])
                      \/ T[c][b] = "S" /\ \E i \in J2 : i.cache = Parent[c][b] /\ i.addr = b /\ c \in i.up
    BY DEF UpRel
  <2>1. CASE Parent[c][b] = p /\ b = a
    <3>1. c = d => c \in G[p][a] /\ (Exclusive(T[c][b]) => a \in Y[p])
      BY <1>1, <2>1
    <3>2. c # d => c \in G[p][a] /\ ~Exclusive(T[c][b])
      BY <1>2, <2>1 DEF Exclusive
    <3> QED
      BY <2>1, <3>1, <3>2
  <2>2. CASE ~(Parent[c][b] = p /\ b = a)
    <3>1. T[c][b] = S[c][b]
      BY <1>1, <2>2
    <3>2. \/ c \in H[Parent[c][b]][b] /\ (Exclusive(S[c][b]) => b \in X[Parent[c][b]])
          \/ S[c][b] = "S" /\ \E i \in J : i.cache = Parent[c][b] /\ i.addr = b /\ c \in i.up
      BY <3>1 DEF Rel, UpRel
    <3>3. \A i \in J : i.cache = Parent[c][b] /\ i.addr = b => i \in J2
      BY <2>2
    <3>4. Parent[c][b] \in Caches
      BY ParentType
    <3>5. \A x : x \in H[Parent[c][b]][b] => x \in G[Parent[c][b]][b]
      BY <1>1, <2>2, <3>4
    <3>6. b \in X[Parent[c][b]] => b \in Y[Parent[c][b]]
      BY <1>1, <2>2, <3>4
    <3>7. CASE c \in H[Parent[c][b]][b] /\ (Exclusive(S[c][b]) => b \in X[Parent[c][b]])
      BY <3>1, <3>5, <3>6, <3>7
    <3>8. CASE S[c][b] = "S" /\ \E i \in J : i.cache = Parent[c][b] /\ i.addr = b /\ c \in i.up
      BY <3>1, <3>3, <3>8
    <3> QED
      BY <3>2, <3>7, <3>8
  <2> QED
    BY <2>1, <2>2
<1>6. DownRel(T, G, Y, J2)
  <2> SUFFICES ASSUME NEW q \in Caches, NEW b \in Addrs, NEW c \in G[q][b],
                      \A i \in J2 : i.cache = q /\ i.addr = b => c \in i.left
               PROVE  T[c][b] # "I" /\ (b \in Y[q] => Exclusive(T[c][b]))
    BY DEF DownRel
  <2>1. CASE q = p /\ b = a
    BY <1>1, <1>2, <2>1
  <2>2. CASE ~(q = p /\ b = a)
    <3>1. \A i \in J : i.cache = q /\ i.addr = b => c \in i.left
      BY <2>2
    <3>2. c \in H[q][b] /\ c \in Caches /\ Parent[c][b] = q /\ S[c][b] # "I" /\ (b \in X[q] => Exclusive(S[c][b]))
      BY <1>1, <2>2, <3>1 DEF Rel, DownRel, EntryRel
    <3>3. T[c][b] = S[c][b]
      BY <1>1, <2>2, <3>2
    <3> QED
      BY <1>1, <2>2, <3>2, <3>3
  <2> QED
    BY <2>1, <2>2
<1>7. ToldRel(T, G, Y, J2)
  <2> SUFFICES ASSUME NEW i \in J2, i.addr \in Addrs PROVE ToldOK(T, G, Y, i)
    BY DEF Rel, ToldRel
  <2>1. i.cache \in Caches /\ i.cache # p /\ ToldOK(S, H, X, i)
    BY DEF Rel, ToldRel
  <2>2. G[i.cache][i.addr] = H[i.cache][i.addr] /\ (i.addr \in Y[i.cache] <=> i.addr \in X[i.cache])
    BY <1>1, <2>1
  <2>3. \A c \in H[i.cache][i.addr] : c \in Caches /\ Parent[c][i.addr] = i.cache
    BY <2>1 DEF Rel, EntryRel
  <2>4. \A c \in Caches : Parent[c][i.addr] = i.cache => T[c][i.addr] = S[c][i.addr]
    BY <1>1, <2>1
  <2>5. \A c \in i.up : c \in Caches /\ Parent[c][i.addr] = i.cache
    BY <2>1 DEF ToldOK
  <2> QED
    BY <2>1, <2>2, <2>3, <2>4, <2>5 DEF ToldOK
<1> QED
  BY <1>4, <1>5, <1>6, <1>7 DEF Rel

\* A child gives a line up.
LEMMA TakeRel ==
    ASSUME NEW S, NEW H, NEW X, NEW J, Rel(S, H, X, J), NEW p \in Caches, NEW a \in Addrs,
           \A i \in J : i.cache # p,
           NEW d \in Caches, Parent[d][a] = p, S[d][a] # "I", H[d][a] = {},
           NEW T, SetAt(T, S, d, a, "I"), NEW G, SetAt(G, H, p, a, H[p][a] \ {d}),
           NEW Y, FlagAt(Y, X, p, a, "I")
    PROVE  d \in H[p][a] /\ Rel(T, G, Y, J)
<1>1. /\ T[d][a] = "I" /\ G[p][a] = H[p][a] \ {d} /\ a \notin Y[p]
      /\ \A c \in Caches : \A x \in Addrs :
            /\ c # d \/ x # a => T[c][x] = S[c][x]
            /\ c # p \/ x # a => G[c][x] = H[c][x] /\ (x \in Y[c] <=> x \in X[c])
  BY DEF SetAt, FlagAt, Exclusive
<1>2. d \in H[p][a]
  BY ParentType DEF Rel, UpRel
<1>3. \A c \in Caches : Parent[c][a] = p /\ S[c][a] # "I" /\ c # d => c \in H[p][a] /\ ~Exclusive(S[c][a])
  <2> SUFFICES ASSUME NEW c \in Caches, Parent[c][a] = p, S[c][a] # "I", c # d
               PROVE  c \in H[p][a] /\ ~Exclusive(S[c][a])
    OBVIOUS
  <2>1. c \in H[p][a] /\ (Exclusive(S[c][a]) => a \in X[p])
    BY ParentType DEF Rel, UpRel
  <2>2. a \in X[p] => \E x \in H[p][a] : H[p][a] = {x}
    BY DEF Rel, EntryRel
  <2> QED
    BY <1>2, <2>1, <2>2
<1>4. p # d
  BY LevelFacts, ParentFacts, ParentType
<1>5. EntryRel(T, G, Y)
  <2> SUFFICES ASSUME NEW q \in Caches, NEW b \in Addrs
               PROVE  /\ T[q][b] \in MESIState
                      /\ \A c \in G[q][b] : c \in Caches /\ Parent[c][b] = q /\ T[q][b] # "I"
                      /\ b \in Y[q] => Exclusive(T[q][b]) /\ \E c \in G[q][b] : G[q][b] = {c}
    BY DEF EntryRel
  <2>1. /\ S[q][b] \in MESIState
        /\ \A c \in H[q][b] : c \in Caches /\ Parent[c][b] = q /\ S[q][b] # "I"
        /\ b \in X[q] => Exclusive(S[q][b]) /\ \E c \in H[q][b] : H[q][b] = {c}
    BY DEF Rel, EntryRel
  <2>2. CASE q = p /\ b = a
    BY <1>1, <1>4, <2>1, <2>2
  <2>3. CASE q = d /\ b = a
    <3>1. G[q][b] = {} /\ b \notin Y[q] /\ T[q][b] = "I"
      BY <1>1, <1>4, <2>1, <2>3
    <3> QED
      BY <3>1 DEF MESIState
  <2>4. CASE ~(q = p /\ b = a) /\ ~(q = d /\ b = a)
    BY <1>1, <2>1, <2>4
  <2> QED
    BY <2>2, <2>3, <2>4
<1>6. UpRel(T, G, Y, J)
  <2> SUFFICES ASSUME NEW c \in Caches, NEW b \in Addrs, T[c][b] # "I", Parent[c][b] # Memory
               PROVE  \/ c \in G[Parent[c][b]][b] /\ (Exclusive(T[c][b]) => b \in Y[Parent[c][b]])
                      \/ T[c][b] = "S" /\ \E i \in J : i.cache = Parent[c][b] /\ i.addr = b /\ c \in i.up
    BY DEF UpRel
  <2>1. T[c][b] = S[c][b] /\ (c # d \/ b # a)
    BY <1>1
  <2>2. CASE Parent[c][b] = p /\ b = a
    BY <1>1, <1>3, <2>1, <2>2
  <2>3. CASE ~(Parent[c][b] = p /\ b = a)
    <3>1. \/ c \in H[Parent[c][b]][b] /\ (Exclusive(S[c][b]) => b \in X[Parent[c][b]])
          \/ S[c][b] = "S" /\ \E i \in J : i.cache = Parent[c][b] /\ i.addr = b /\ c \in i.up
      BY <2>1 DEF Rel, UpRel
    <3> QED
      BY <1>1, <2>1, <2>3, <3>1, ParentType
  <2> QED
    BY <2>2, <2>3
<1>7. DownRel(T, G, Y, J)
  <2> SUFFICES ASSUME NEW q \in Caches, NEW b \in Addrs, NEW c \in G[q][b],
                      \A i \in J : i.cache = q /\ i.addr = b => c \in i.left
               PROVE  T[c][b] # "I" /\ (b \in Y[q] => Exclusive(T[c][b]))
    BY DEF DownRel
  <2>1. c \in H[q][b] /\ (b \in Y[q] => b \in X[q])
    BY <1>1
  <2>2. c \in Caches /\ Parent[c][b] = q /\ S[c][b] # "I" /\ (b \in X[q] => Exclusive(S[c][b]))
    BY <2>1 DEF Rel, DownRel, EntryRel
  <2>3. c # d \/ b # a
    BY <1>1, <2>2
  <2> QED
    BY <1>1, <2>1, <2>2, <2>3
<1>8. ToldRel(T, G, Y, J)
  <2> SUFFICES ASSUME NEW i \in J, i.addr \in Addrs PROVE ToldOK(T, G, Y, i)
    BY DEF Rel, ToldRel
  <2>1. i.cache \in Caches /\ i.cache # p /\ ToldOK(S, H, X, i)
    BY DEF Rel, ToldRel
  <2>2. G[i.cache][i.addr] = H[i.cache][i.addr] /\ (i.addr \in Y[i.cache] <=> i.addr \in X[i.cache])
    BY <1>1, <2>1
  <2>3. \A c \in H[i.cache][i.addr] : c \in Caches /\ Parent[c][i.addr] = i.cache
    BY <2>1 DEF Rel, EntryRel
  <2>4. \A c \in Caches : Parent[c][i.addr] = i.cache => T[c][i.addr] = S[c][i.addr]
    BY <1>1, <2>1
  <2>5. \A c \in i.up : c \in Caches /\ Parent[c][i.addr] = i.cache
    BY <2>1 DEF ToldOK
  <2> QED
    BY <2>1, <2>2, <2>3, <2>4, <2>5 DEF ToldOK
<1> QED
  BY <1>2, <1>5, <1>6, <1>7, <1>8 DEF Rel

\* A child has told its own children and answers its parent.
LEMMA InvalRel ==
    ASSUME NEW S, NEW H, NEW X, NEW J, Rel(S, H, X, J), NEW c \in Caches, NEW a \in Addrs,
           NEW p \in Caches, Parent[c][a] = p,
           NEW j \in J, j.cache = c, j.addr = a, j.type \in InvTypes, j.left = {}, j.up = {},
           NEW k \in J, k.cache = p, k.addr = a, k.type = j.type, c \in k.left,
           \A i \in J : (i.cache = c => i = j) /\ (i.cache = p => i = k),
           NEW T, SetAt(T, S, c, a, Invalidated(j.type)),
           NEW list, list = IF j.type = "INV" THEN {} ELSE H[c][a], NEW G, SetAt(G, H, c, a, list),
           NEW Y, FlagAt(Y, X, c, a, "I"),
           NEW m, m.cache = p, m.addr = a, m.type = k.type, m.up = k.up, m.left = k.left \ {c},
           NEW J2, J2 = Replaced(J, {c, p}, {m})
    PROVE  Rel(T, G, Y, J2)
<1> J2 = {i \in J : i.cache # c /\ i.cache # p} \cup {m}
  BY DEF Replaced
<1>1. /\ T[c][a] = Invalidated(j.type) /\ G[c][a] = (IF j.type = "INV" THEN {} ELSE H[c][a]) /\ a \notin Y[c]
      /\ \A d \in Caches : \A x \in Addrs : d # c \/ x # a =>
            T[d][x] = S[d][x] /\ G[d][x] = H[d][x] /\ (x \in Y[d] <=> x \in X[d])
  BY DEF SetAt, FlagAt, Exclusive
<1>2. ToldOK(S, H, X, j) /\ ToldOK(S, H, X, k)
  BY DEF Rel, ToldRel
<1>3. p # c
  BY LevelFacts, ParentFacts, ParentType
<1>4. c \in H[p][a] /\ c \notin k.up
  BY <1>2 DEF ToldOK
<1>5. \A d \in Caches : Parent[d][a] = c => T[d][a] = S[d][a]
  BY <1>1, LevelFacts, ParentFacts, ParentType
<1>6. \A d \in Caches : Parent[d][a] = c => T[d][a] = "I" \/ (j.type = "INVX" /\ T[d][a] = "S" /\ d \in G[c][a])
  <2> SUFFICES ASSUME NEW d \in Caches, Parent[d][a] = c, T[d][a] # "I"
               PROVE  j.type = "INVX" /\ T[d][a] = "S" /\ d \in G[c][a]
    OBVIOUS
  <2>1. d \in H[c][a]
    BY <1>5, ParentType DEF Rel, UpRel
  <2> QED
    BY <1>1, <1>2, <1>5, <2>1 DEF ToldOK, InvTypes
<1>7. EntryRel(T, G, Y)
  <2> SUFFICES ASSUME NEW q \in Caches, NEW b \in Addrs
               PROVE  /\ T[q][b] \in MESIState
                      /\ \A d \in G[q][b] : d \in Caches /\ Parent[d][b] = q /\ T[q][b] # "I"
                      /\ b \in Y[q] => Exclusive(T[q][b]) /\ \E d \in G[q][b] : G[q][b] = {d}
    BY DEF EntryRel
  <2>1. /\ S[q][b] \in MESIState
        /\ \A d \in H[q][b] : d \in Caches /\ Parent[d][b] = q /\ S[q][b] # "I"
        /\ b \in X[q] => Exclusive(S[q][b]) /\ \E d \in H[q][b] : H[q][b] = {d}
    BY DEF Rel, EntryRel
  <2>2. CASE q = c /\ b = a
    BY <1>1, <2>1, <2>2 DEF Invalidated, InvTypes, MESIState
  <2> QED
    BY <1>1, <2>1, <2>2
<1>8. UpRel(T, G, Y, J2)
  <2> SUFFICES ASSUME NEW d \in Caches, NEW b \in Addrs, T[d][b] # "I", Parent[d][b] # Memory
               PROVE  \/ d \in G[Parent[d][b]][b] /\ (Exclusive(T[d][b]) => b \in Y[Parent[d][b]])
                      \/ T[d][b] = "S" /\ \E i \in J2 : i.cache = Parent[d][b] /\ i.addr = b /\ d \in i.up
    BY DEF UpRel
  <2>1. CASE d = c /\ b = a
    BY <1>1, <1>3, <1>4, <2>1 DEF Invalidated, Exclusive
  <2>2. CASE Parent[d][b] = c /\ b = a
    BY <1>6, <2>2 DEF Exclusive
  <2>3. CASE ~(d = c /\ b = a) /\ ~(Parent[d][b] = c /\ b = a)
    <3>1. T[d][b] = S[d][b]
      BY <1>1, <2>3
    <3>2. \/ d \in H[Parent[d][b]][b] /\ (Exclusive(S[d][b]) => b \in X[Parent[d][b]])
          \/ S[d][b] = "S" /\ \E i \in J : i.cache = Parent[d][b] /\ i.addr = b /\ d \in i.up
      BY <3>1 DEF Rel, UpRel
    <3>3. ASSUME NEW i \in J, i.cache = Parent[d][b], i.addr = b, d \in i.up
          PROVE  \E x \in J2 : x.cache = Parent[d][b] /\ x.addr = b /\ d \in x.up
      <4>1. CASE i = k
        BY <3>3, <4>1
      <4>2. CASE i # k
        BY <2>3, <3>3, <4>2
      <4> QED
        BY <4>1, <4>2
    <3>4. Parent[d][b] \in Caches
      BY ParentType
    <3>5. \A x : x \in H[Parent[d][b]][b] => x \in G[Parent[d][b]][b]
      BY <1>1, <2>3, <3>4
    <3>6. b \in X[Parent[d][b]] => b \in Y[Parent[d][b]]
      BY <1>1, <2>3, <3>4
    <3>7. CASE d \in H[Parent[d][b]][b] /\ (Exclusive(S[d][b]) => b \in X[Parent[d][b]])
      BY <3>1, <3>5, <3>6, <3>7
    <3>8. CASE S[d][b] = "S" /\ \E i \in J : i.cache = Parent[d][b] /\ i.addr = b /\ d \in i.up
      BY <3>1, <3>3, <3>8
    <3> QED
      BY <3>2, <3>7, <3>8
  <2> QED
    BY <2>1, <2>2, <2>3
<1>9. DownRel(T, G, Y, J2)
  <2> SUFFICES ASSUME NEW q \in Caches, NEW b \in Addrs, NEW d \in G[q][b],
                      \A i \in J2 : i.cache = q /\ i.addr = b => d \in i.left
               PROVE  T[d][b] # "I" /\ (b \in Y[q] => Exclusive(T[d][b]))
    BY DEF DownRel
  <2>1. CASE q = c /\ b = a
    <3>1. d \in H[c][a] /\ j.type = "INVX"
      BY <1>1, <2>1 DEF InvTypes
    <3>2. d \in Caches /\ Parent[d][a] = c /\ S[d][a] = "S"
      BY <1>2, <3>1 DEF ToldOK, Rel, EntryRel
    <3> QED
      BY <1>1, <1>5, <2>1, <3>2
  <2>2. CASE ~(q = c /\ b = a)
    <3>1. d \in H[q][b]
      BY <1>1, <2>2
    <3>2. d \in Caches /\ Parent[d][b] = q
      BY <3>1 DEF Rel, EntryRel
    <3>3. ~(d = c /\ b = a)
      <4> SUFFICES ASSUME d = c, b = a PROVE FALSE
        OBVIOUS
      <4>1. q = p /\ m \in J2
        BY <3>2
      <4> QED
        BY <4>1
    <3>4. ASSUME NEW i \in J, i.cache = q, i.addr = b PROVE d \in i.left
      <4>1. CASE i = k
        <5>1. m \in J2 /\ m.cache = q /\ m.addr = b
          BY <3>4, <4>1
        <5> QED
          BY <4>1, <5>1
      <4>2. CASE i # k
        BY <2>2, <3>4, <4>2
      <4> QED
        BY <4>1, <4>2
    <3>5. S[d][b] # "I" /\ (b \in X[q] => Exclusive(S[d][b]))
      BY <3>1, <3>4 DEF Rel, DownRel
    <3> QED
      BY <1>1, <2>2, <3>2, <3>3, <3>5
  <2> QED
    BY <2>1, <2>2
<1>10. ToldRel(T, G, Y, J2)
  <2>1. ASSUME NEW i \in J2, i.addr \in Addrs, i # m PROVE ToldOK(T, G, Y, i) /\ i.cache \in Caches
    <3>1. i.cache \in Caches /\ i.cache # c /\ i.cache # p /\ ToldOK(S, H, X, i)
      BY <2>1 DEF Rel, ToldRel
    <3>2. G[i.cache][i.addr] = H[i.cache][i.addr] /\ (i.addr \in Y[i.cache] <=> i.addr \in X[i.cache])
      BY <1>1, <2>1, <3>1
    <3>3. \A d \in H[i.cache][i.addr] : d \in Caches /\ Parent[d][i.addr] = i.cache
      BY <2>1, <3>1 DEF Rel, EntryRel
    <3>4. \A d \in Caches : Parent[d][i.addr] = i.cache => T[d][i.addr] = S[d][i.addr]
      BY <1>1, <2>1, <3>1
    <3>5. \A d \in i.up : d \in Caches /\ Parent[d][i.addr] = i.cache
      BY <3>1 DEF ToldOK
    <3> QED
      BY <3>1, <3>2, <3>3, <3>4, <3>5 DEF ToldOK
  <2>2. ToldOK(T, G, Y, m)
    <3>1. G[p][a] = H[p][a] /\ (a \in Y[p] <=> a \in X[p])
      BY <1>1, <1>3
    <3>2. \A d \in Caches : d # c => T[d][a] = S[d][a]
      BY <1>1
    <3>3. \A d \in H[p][a] : d \in Caches /\ Parent[d][a] = p
      BY DEF Rel, EntryRel
    <3>4. m.left \subseteq G[p][a] /\ (m.type = "INVX" => m.up = {} /\ (m.left # {} => a \in Y[p]))
      BY <1>2, <3>1 DEF ToldOK
    <3>5. m.type = "INVX" => \A d \in G[p][a] : d \notin m.left => T[d][a] = "S"
      <4> SUFFICES ASSUME m.type = "INVX", NEW d \in G[p][a], d \notin m.left PROVE T[d][a] = "S"
        OBVIOUS
      <4>1. CASE d = c
        BY <1>1, <4>1 DEF Invalidated
      <4>2. CASE d # c
        BY <1>2, <3>1, <3>2, <3>3, <4>2 DEF ToldOK
      <4> QED
        BY <4>1, <4>2
    <3>6. m.type = "INV" => \A d \in Caches : Parent[d][a] = p /\ d \notin m.left =>
             T[d][a] = "I" \/ (d \in m.up /\ T[d][a] = "S")
      <4> SUFFICES ASSUME m.type = "INV", NEW d \in Caches, Parent[d][a] = p, d \notin m.left
                   PROVE  T[d][a] = "I" \/ (d \in m.up /\ T[d][a] = "S")
        OBVIOUS
      <4>1. CASE d = c
        BY <1>1, <4>1 DEF Invalidated
      <4>2. CASE d # c
        BY <1>2, <3>2, <4>2 DEF ToldOK
      <4> QED
        BY <4>1, <4>2
    <3>7. \A d \in m.up : /\ d \in Caches /\ Parent[d][a] = p
                          /\ d \notin G[p][a] /\ (T[d][a] # "I" => a \notin Y[p])
      BY <1>2, <1>4, <3>1, <3>2 DEF ToldOK
    <3> QED
      BY <3>4, <3>5, <3>6, <3>7 DEF ToldOK
  <2> QED
    BY <2>1, <2>2 DEF Rel, ToldRel
<1> QED
  BY <1>7, <1>8, <1>9, <1>10 DEF Rel

-----------------------------------------------------------------------------
(* From lines to addresses.                                                *)

\* The arrays: tags g, states b and directory entries e.
Arrays(g, b, e) ==
    /\ PerLine(g, Slots) /\ PerLine(b, MESIState) /\ PerLine(e, Entries)
    /\ TagInv(g) /\ EntryInv(e)
    /\ \A c \in Caches : \A l \in Lines[c] : g[c][l] = None => b[c][l] = "I" /\ e[c][l].sharers = {}

LEMMA NoneFacts == None \notin Addrs /\ None \notin Cores
BY MesiAssumption

LEMMA EntryFacts ==
    ASSUME NEW c \in Caches, NEW e \in Entries, EntryOK(e, c)
    PROVE  /\ IsFiniteSet(e.sharers) /\ e.numSharers \in Nat
           /\ e.numSharers = 0 <=> e.sharers = {}
           /\ e.numSharers = 1 => \E d \in e.sharers : e.sharers = {d}
           /\ isExclusive(e) => \E d \in e.sharers : e.sharers = {d}
<1>1. e.sharers \subseteq Caches
  BY DEF Entries
<1>2. IsFiniteSet(e.sharers)
  BY <1>1, HierarchyAssumption, FS_Subset
<1>3. e.numSharers = Cardinality(e.sharers) /\ Cardinality(e.sharers) \in Nat
  BY <1>2, FS_CardinalityType DEF EntryOK
<1>4. Cardinality(e.sharers) = 0 <=> e.sharers = {}
  BY <1>2, FS_EmptySet
<1>5. e.numSharers = 1 => \E d \in e.sharers : e.sharers = {d}
  <2> SUFFICES ASSUME Cardinality(e.sharers) = 1 PROVE \E d \in e.sharers : e.sharers = {d}
    BY <1>3
  <2>1. \E d : e.sharers = {d}
    BY <1>2, FS_Singleton
  <2> QED
    BY <2>1
<1> QED
  BY <1>2, <1>3, <1>4, <1>5 DEF isExclusive

LEMMA ViewAt ==
    ASSUME NEW g, NEW b, NEW e, Arrays(g, b, e)
    PROVE  /\ \A c \in Caches : \A l \in Lines[c] :
                 /\ g[c][l] \in Slots
                 /\ States(g, b)[c][g[c][l]] = b[c][l]
                 /\ Sharers(g, e)[c][g[c][l]] = e[c][l].sharers
                 /\ g[c][l] \in Exclusives(g, e)[c] <=> isExclusive(e[c][l])
           /\ \A c \in Caches : \A a \in Slots : ~Has(g, c, a) =>
                 /\ States(g, b)[c][a] = "I" /\ Sharers(g, e)[c][a] = {} /\ a \notin Exclusives(g, e)[c]
           /\ \A c \in Caches : States(g, b)[c][None] = "I" /\ Sharers(g, e)[c][None] = {}
           /\ \A c \in Caches : \A a \in Slots : States(g, b)[c][a] \in MESIState
<1>1. ASSUME NEW c \in Caches, NEW l \in Lines[c], g[c][l] # None
      PROVE  Has(g, c, g[c][l]) /\ Where(g, c, g[c][l]) = l
  <2>1. \A m \in Lines[c] : g[c][m] = g[c][l] => m = l
    BY <1>1 DEF Arrays, TagInv
  <2> QED
    BY <2>1 DEF Has, Where
<1>2. ASSUME NEW c \in Caches, Has(g, c, None)
      PROVE  Where(g, c, None) \in Lines[c] /\ g[c][Where(g, c, None)] = None
  BY <1>2 DEF Has, Where
<1>3. \A c \in Caches : \A l \in Lines[c] : g[c][l] \in Slots /\ e[c][l] \in Entries /\ EntryOK(e[c][l], c)
  BY DEF Arrays, PerLine, EntryInv
<1>4. \A c \in Caches : \A l \in Lines[c] : e[c][l].sharers = {} => ~isExclusive(e[c][l])
  BY <1>3, EntryFacts
<1>5. \A c \in Caches : \A a \in Slots :
         /\ States(g, b)[c][a] = (IF Has(g, c, a) THEN b[c][Where(g, c, a)] ELSE "I")
         /\ Sharers(g, e)[c][a] = (IF Has(g, c, a) THEN e[c][Where(g, c, a)].sharers ELSE {})
         /\ a \in Exclusives(g, e)[c] <=> Has(g, c, a) /\ isExclusive(e[c][Where(g, c, a)])
  BY DEF States, Sharers, Exclusives
<1>6. None \in Slots
  BY DEF Slots
<1>7. \A c \in Caches : \A l \in Lines[c] : g[c][l] = None => b[c][l] = "I" /\ e[c][l].sharers = {}
  BY DEF Arrays
<1>8. \A c \in Caches : /\ States(g, b)[c][None] = "I" /\ Sharers(g, e)[c][None] = {}
                        /\ None \notin Exclusives(g, e)[c]
  <2> TAKE c \in Caches
  <2>1. CASE Has(g, c, None)
    <3>1. Where(g, c, None) \in Lines[c] /\ g[c][Where(g, c, None)] = None
      BY <1>2, <2>1
    <3> QED
      BY <1>4, <1>5, <1>6, <1>7, <2>1, <3>1
  <2>2. CASE ~Has(g, c, None)
    BY <1>5, <1>6, <2>2
  <2> QED
    BY <2>1, <2>2
<1>9. ASSUME NEW c \in Caches, NEW l \in Lines[c]
      PROVE  /\ g[c][l] \in Slots
             /\ States(g, b)[c][g[c][l]] = b[c][l]
             /\ Sharers(g, e)[c][g[c][l]] = e[c][l].sharers
             /\ g[c][l] \in Exclusives(g, e)[c] <=> isExclusive(e[c][l])
  <2>1. CASE g[c][l] = None
    BY <1>3, <1>4, <1>7, <1>8, <2>1
  <2>2. CASE g[c][l] # None
    <3>1. Has(g, c, g[c][l]) /\ Where(g, c, g[c][l]) = l
      BY <1>1, <2>2
    <3> QED
      BY <1>3, <1>5, <3>1
  <2> QED
    BY <2>1, <2>2
<1>10. \A c \in Caches : \A a \in Slots : States(g, b)[c][a] \in MESIState
  <2> TAKE c \in Caches
  <2> TAKE a \in Slots
  <2>1. CASE Has(g, c, a)
    <3>1. PICK l \in Lines[c] : g[c][l] = a
      BY <2>1 DEF Has
    <3>2. b[c][l] \in MESIState
      BY DEF Arrays, PerLine
    <3> QED
      BY <1>9, <3>1, <3>2
  <2> QED
    BY <1>5, <2>1 DEF MESIState
<1> QED
  BY <1>5, <1>8, <1>9, <1>10

\* A write to the state or to the directory entry of a line.
LEMMA ViewSet ==
    ASSUME NEW g, NEW b, NEW e, NEW b2, NEW e2, Arrays(g, b, e), Arrays(g, b2, e2),
           NEW c \in Caches, NEW l \in Lines[c],
           \A d \in Caches : \A m \in Lines[d] : d # c \/ m # l => b2[d][m] = b[d][m] /\ e2[d][m] = e[d][m]
    PROVE  /\ SetAt(States(g, b2), States(g, b), c, g[c][l], b2[c][l])
           /\ SetAt(Sharers(g, e2), Sharers(g, e), c, g[c][l], e2[c][l].sharers)
           /\ \A d \in Caches : \A x \in Addrs : x \in Exclusives(g, e2)[d] <=>
                 IF d = c /\ x = g[c][l] THEN isExclusive(e2[c][l]) ELSE x \in Exclusives(g, e)[d]
<1> SUFFICES ASSUME NEW d \in Caches, NEW x \in Addrs
             PROVE  /\ States(g, b2)[d][x] = IF d = c /\ x = g[c][l] THEN b2[c][l] ELSE States(g, b)[d][x]
                    /\ Sharers(g, e2)[d][x] = IF d = c /\ x = g[c][l] THEN e2[c][l].sharers ELSE Sharers(g, e)[d][x]
                    /\ x \in Exclusives(g, e2)[d] <=>
                         IF d = c /\ x = g[c][l] THEN isExclusive(e2[c][l]) ELSE x \in Exclusives(g, e)[d]
  BY DEF SetAt
<1>1. CASE Has(g, d, x)
  <2>1. PICK m \in Lines[d] : g[d][m] = x
    BY <1>1 DEF Has
  <2>2. d = c /\ x = g[c][l] => m = l
    BY <2>1, NoneFacts DEF Arrays, TagInv
  <2>3. /\ States(g, b2)[d][x] = b2[d][m] /\ States(g, b)[d][x] = b[d][m]
        /\ Sharers(g, e2)[d][x] = e2[d][m].sharers /\ Sharers(g, e)[d][x] = e[d][m].sharers
        /\ x \in Exclusives(g, e2)[d] <=> isExclusive(e2[d][m])
        /\ x \in Exclusives(g, e)[d] <=> isExclusive(e[d][m])
    BY <2>1, ViewAt
  <2>4. CASE d = c /\ x = g[c][l]
    BY <2>2, <2>3, <2>4
  <2>5. CASE ~(d = c /\ x = g[c][l])
    <3>1. d # c \/ m # l
      BY <2>1, <2>5
    <3>2. b2[d][m] = b[d][m] /\ e2[d][m] = e[d][m]
      BY <3>1
    <3> QED
      BY <2>3, <2>5, <3>2
  <2> QED
    BY <2>4, <2>5
<1>2. CASE ~Has(g, d, x)
  <2>1. ~(d = c /\ x = g[c][l])
    BY <1>2 DEF Has
  <2>2. x \in Slots
    BY DEF Slots
  <2>3. /\ States(g, b2)[d][x] = "I" /\ States(g, b)[d][x] = "I"
        /\ Sharers(g, e2)[d][x] = {} /\ Sharers(g, e)[d][x] = {}
        /\ x \notin Exclusives(g, e2)[d] /\ x \notin Exclusives(g, e)[d]
    BY <1>2, <2>2, ViewAt
  <2> QED
    BY <2>1, <2>3
<1> QED
  BY <1>1, <1>2

\* A new address in a line that nobody has any more.
LEMMA ViewInsert ==
    ASSUME NEW g, NEW b, NEW e, Arrays(g, b, e), NEW c \in Caches, NEW l \in Lines[c],
           NEW a \in Served[c], a \in Addrs, \A m \in Lines[c] : g[c][m] # a,
           b[c][l] = "I", e[c][l].sharers = {},
           NEW h, PerLine(h, Slots),
           \A d \in Caches : \A m \in Lines[d] : h[d][m] = IF d = c /\ m = l THEN a ELSE g[d][m]
    PROVE  /\ Arrays(h, b, e)
           /\ \A d \in Caches : \A x \in Slots :
                 /\ States(h, b)[d][x] = States(g, b)[d][x]
                 /\ Sharers(h, e)[d][x] = Sharers(g, e)[d][x]
                 /\ x \in Exclusives(h, e)[d] <=> x \in Exclusives(g, e)[d]
<1>1. TagInv(h)
  <2> SUFFICES ASSUME NEW d \in Caches, NEW m \in Lines[d], h[d][m] # None
               PROVE  h[d][m] \in Served[d] /\ \A n \in Lines[d] : h[d][n] = h[d][m] => n = m
    BY DEF TagInv
  <2>1. CASE d = c /\ m = l
    BY <2>1
  <2>2. CASE ~(d = c /\ m = l)
    <3>1. h[d][m] = g[d][m]
      BY <2>2
    <3>2. g[d][m] \in Served[d] /\ \A n \in Lines[d] : g[d][n] = g[d][m] => n = m
      BY <3>1 DEF Arrays, TagInv
    <3>3. CASE d = c
      BY <3>1, <3>2, <3>3
    <3>4. CASE d # c
      BY <3>1, <3>2, <3>4
    <3> QED
      BY <3>3, <3>4
  <2> QED
    BY <2>1, <2>2
<1>2. Arrays(h, b, e)
  BY <1>1, NoneFacts DEF Arrays
<1>3. ASSUME NEW d \in Caches, NEW x \in Slots
      PROVE  /\ States(h, b)[d][x] = States(g, b)[d][x]
             /\ Sharers(h, e)[d][x] = Sharers(g, e)[d][x]
             /\ x \in Exclusives(h, e)[d] <=> x \in Exclusives(g, e)[d]
  <2>0. e[c][l] \in Entries /\ EntryOK(e[c][l], c) /\ ~isExclusive(e[c][l])
    BY EntryFacts DEF Arrays, PerLine, EntryInv
  <2>1. ASSUME NEW m \in Lines[d], h[d][m] = x, g[d][m] = x
        PROVE  /\ States(h, b)[d][x] = States(g, b)[d][x]
               /\ Sharers(h, e)[d][x] = Sharers(g, e)[d][x]
               /\ x \in Exclusives(h, e)[d] <=> x \in Exclusives(g, e)[d]
    <3>1. /\ States(h, b)[d][x] = b[d][m] /\ Sharers(h, e)[d][x] = e[d][m].sharers
          /\ x \in Exclusives(h, e)[d] <=> isExclusive(e[d][m])
      BY <1>2, <2>1, ViewAt
    <3>2. /\ States(g, b)[d][x] = b[d][m] /\ Sharers(g, e)[d][x] = e[d][m].sharers
          /\ x \in Exclusives(g, e)[d] <=> isExclusive(e[d][m])
      BY <2>1, ViewAt
    <3> QED
      BY <3>1, <3>2
  <2>2. /\ States(h, b)[c][a] = "I" /\ Sharers(h, e)[c][a] = {} /\ a \notin Exclusives(h, e)[c]
    <3>1. h[c][l] = a
      OBVIOUS
    <3> QED
      BY <1>2, <2>0, <3>1, ViewAt
  <2>3. /\ States(g, b)[c][g[c][l]] = "I" /\ Sharers(g, e)[c][g[c][l]] = {} /\ g[c][l] \notin Exclusives(g, e)[c]
    BY <2>0, ViewAt
  <2>4. /\ ~Has(g, d, x) => States(g, b)[d][x] = "I" /\ Sharers(g, e)[d][x] = {} /\ x \notin Exclusives(g, e)[d]
        /\ ~Has(h, d, x) => States(h, b)[d][x] = "I" /\ Sharers(h, e)[d][x] = {} /\ x \notin Exclusives(h, e)[d]
    BY <1>2, ViewAt
  <2>5. CASE d = c /\ x = a
    <3>1. ~Has(g, d, x)
      BY <2>5 DEF Has
    <3> QED
      BY <2>2, <2>4, <2>5, <3>1
  <2>6. CASE \E m \in Lines[d] : h[d][m] = x /\ g[d][m] = x
    BY <2>1, <2>6
  <2>7. CASE ~(d = c /\ x = a) /\ \A m \in Lines[d] : ~(h[d][m] = x /\ g[d][m] = x)
    <3>1. ~Has(h, d, x)
      BY <2>7 DEF Has
    <3>2. Has(g, d, x) => d = c /\ x = g[c][l]
      BY <2>7 DEF Has
    <3> QED
      BY <2>3, <2>4, <3>1, <3>2
  <2> QED
    BY <2>5, <2>6, <2>7
<1> QED
  BY <1>2, <1>3

-----------------------------------------------------------------------------
(* Whose turn it is: what the locks keep apart.                            *)

LEMMA FrameType ==
    ASSUME LocksInv, NEW t \in Cores, NEW i \in 1 .. Len(stack[t])
    PROVE  /\ stack[t] # <<>> /\ Len(stack[t]) \in Nat \ {0} /\ stack[t][i] \in Frames /\ FrameOK(stack[t][i])
           /\ stack[t][i].cache \in Caches /\ stack[t][i].addr \in Addrs /\ stack[t][i].pc \in PCs
           /\ i < Len(stack[t]) => i + 1 \in 1 .. Len(stack[t]) /\ LinkOK(stack[t][i], stack[t][i + 1])
           /\ i > 1 => i - 1 \in 1 .. Len(stack[t]) /\ LinkOK(stack[t][i - 1], stack[t][i])
           /\ i = 1 => stack[t][i].cache \in FirstLevel[t] /\ stack[t][i].pc # "inval"
<1>1. stack[t] \in Seq(Frames) /\ Shape(t, stack[t])
  BY DEF LocksInv, ShapeInv
<1>2. Len(stack[t]) \in Nat
  BY <1>1
<1>3. stack[t] # <<>> /\ Len(stack[t]) # 0
  BY <1>1, <1>2, EmptySeq
<1>4. stack[t][i] \in Frames /\ FrameOK(stack[t][i]) /\ (i < Len(stack[t]) => LinkOK(stack[t][i], stack[t][i + 1]))
      /\ (i = 1 => stack[t][i].cache \in FirstLevel[t] /\ stack[t][i].pc # "inval")
  BY <1>1 DEF Shape
<1>5. i > 1 => i - 1 \in 1 .. Len(stack[t]) /\ LinkOK(stack[t][i - 1], stack[t][i])
  <2> SUFFICES ASSUME i > 1 PROVE i - 1 \in 1 .. Len(stack[t]) /\ LinkOK(stack[t][i - 1], stack[t][i])
    OBVIOUS
  <2>1. i - 1 \in 1 .. Len(stack[t]) /\ i - 1 < Len(stack[t]) /\ (i - 1) + 1 = i
    BY <1>2
  <2>2. LinkOK(stack[t][i - 1], stack[t][(i - 1) + 1])
    BY <1>1, <2>1 DEF Shape
  <2> QED
    BY <2>1, <2>2
<1> QED
  BY <1>2, <1>3, <1>4, <1>5 DEF Frames, PCs

LEMMA LevelOK ==
    ASSUME LocksInv, NEW t \in Cores, NEW i \in 1 .. Len(stack[t]), NEW j \in 1 .. Len(stack[t]), i < j,
           stack[t][i].cache = stack[t][j].cache
    PROVE  stack[t][j].pc = "inval" /\ Waits(stack[t], i)
<1>1. Levels(stack[t])
  BY DEF LocksInv, ShapeInv
<1>2. /\ stack[t][j].pc # "inval" => Level[stack[t][i].cache] < Level[stack[t][j].cache]
      /\ stack[t][i + 1].pc = "inval" => Level[stack[t][i].cache] > Level[stack[t][j].cache]
  BY <1>1 DEF Levels
<1>3. stack[t][j].cache \in Caches /\ Len(stack[t]) \in Nat
  BY FrameType
<1>4. Level[stack[t][j].cache] \in Nat
  BY <1>3, LevelFacts
<1> QED
  BY <1>2, <1>3, <1>4 DEF Waits

\* One frame holds the bottom lock of a cache.
LEMMA OneHolder ==
    ASSUME LocksInv, NEW t \in Cores, NEW u \in Cores,
           NEW i \in 1 .. Len(stack[t]), NEW j \in 1 .. Len(stack[u]),
           stack[t][i].cache = stack[u][j].cache, HoldsBcc(stack[t], i), HoldsBcc(stack[u], j)
    PROVE  t = u /\ i = j
<1>1. stack[t][i].cache \in BccHeld(stack[t]) /\ stack[u][j].cache \in BccHeld(stack[u])
  BY DEF BccHeld
<1>2. bccLock[stack[t][i].cache] = t /\ bccLock[stack[u][j].cache] = u
  BY <1>1 DEF LocksInv, LockInv
<1>3. t = u
  BY <1>2
<1>4. ~(i < j) /\ ~(j < i)
  BY <1>3, LevelOK DEF HoldsBcc
<1>5. Len(stack[t]) \in Nat
  BY FrameType
<1> QED
  BY <1>3, <1>4, <1>5

LEMMA HolderLock ==
    ASSUME LocksInv, NEW t \in Cores, NEW i \in 1 .. Len(stack[t])
    PROVE  /\ HoldsBcc(stack[t], i) => bccLock[stack[t][i].cache] = t /\ bccLock[stack[t][i].cache] # None
           /\ stack[t][i].pc = "fill" => filterLock[stack[t][i].cache] = t /\ filterLock[stack[t][i].cache] # None
<1>1. HoldsBcc(stack[t], i) => stack[t][i].cache \in BccHeld(stack[t])
  BY DEF BccHeld
<1>2. stack[t][i].pc = "fill" => stack[t][i].cache \in FilterHeld(stack[t])
  BY DEF FilterHeld
<1> QED
  BY <1>1, <1>2, NoneFacts DEF LocksInv, LockInv

\* One access at a time goes on in a cache, but for those that wait for its top lock.
LEMMA OneAccess ==
    ASSUME LocksInv, NEW t \in Cores, NEW u \in Cores,
           NEW i \in 1 .. Len(stack[t]), NEW j \in 1 .. Len(stack[u]),
           stack[t][i].cache = stack[u][j].cache,
           stack[t][i].pc \notin {"tcc", "inval"}, stack[u][j].pc \notin {"tcc", "inval"}
    PROVE  t = u /\ i = j
<1>1. CASE ~Terminal(stack[t][i].cache)
  <2>1. stack[t][i].cache \in TccHeld(stack[t]) /\ stack[u][j].cache \in TccHeld(stack[u])
    BY <1>1 DEF TccHeld, HoldsTcc
  <2>2. tccLock[stack[t][i].cache] = t /\ tccLock[stack[u][j].cache] = u
    BY <2>1 DEF LocksInv, LockInv
  <2>3. t = u
    BY <2>2
  <2>4. ~(i < j) /\ ~(j < i)
    BY <2>3, LevelOK
  <2>5. Len(stack[t]) \in Nat
    BY FrameType
  <2> QED
    BY <2>3, <2>4, <2>5
<1>2. CASE Terminal(stack[t][i].cache)
  <2>1. ASSUME NEW v \in Cores, NEW m \in 1 .. Len(stack[v]), m > 1, stack[v][m].pc # "inval",
               Terminal(stack[v][m].cache)
        PROVE  FALSE
    <3>1. m - 1 \in 1 .. Len(stack[v]) /\ LinkOK(stack[v][m - 1], stack[v][m]) /\ stack[v][m].cache \in Caches
      BY <2>1, FrameType
    <3>2. stack[v][m - 1].cache \in Caches
      BY <3>1, FrameType
    <3> QED
      BY <2>1, <3>1, <3>2, TerminalFacts DEF LinkOK
  <2>2. Len(stack[t]) \in Nat /\ Len(stack[u]) \in Nat
    BY FrameType
  <2>3. i = 1 /\ j = 1
    BY <1>2, <2>1, <2>2
  <2>4. stack[t][i].cache \in FirstLevel[t] /\ stack[u][j].cache \in FirstLevel[u]
    BY <2>3, FrameType
  <2> QED
    BY <2>3, <2>4, TerminalFacts
<1> QED
  BY <1>1, <1>2

\* Who sends invalidations, and an invalidation, hold the bottom lock.
LEMMA SenderHolds ==
    ASSUME LocksInv, NEW t \in Cores, NEW i \in 1 .. Len(stack[t])
    PROVE  /\ stack[t][i].pc \in Sending => HoldsBcc(stack[t], i)
           /\ i < Len(stack[t]) /\ stack[t][i + 1].pc = "inval" => stack[t][i].pc \in Sending /\ HoldsBcc(stack[t], i)
           /\ Waits(stack[t], i) => stack[t][i].pc \in Called
<1>1. i < Len(stack[t]) => LinkOK(stack[t][i], stack[t][i + 1])
  BY FrameType
<1> QED
  BY <1>1 DEF LinkOK, HoldsBcc, Waits, Sending, Called

LEMMA JobIff ==
    ASSUME NEW g, NEW k, NEW j
    PROVE  j \in Jobs(g, k) <=>
             \E t \in Cores : \E i \in 1 .. Len(k[t]) : k[t][i].pc \in Sending /\ j = Job(g, k[t], i)
BY DEF Jobs

LEMMA JobFields ==
    ASSUME NEW g, NEW s, NEW i
    PROVE  /\ Job(g, s, i).cache = s[i].cache /\ Job(g, s, i).addr = Adr(g, s[i])
           /\ Job(g, s, i).type = SendType(s[i])
           /\ Job(g, s, i).left = s[i].todo \cup (IF i < Len(s) THEN {s[i + 1].cache} ELSE {})
           /\ Job(g, s, i).up = IF s[i].pc = "grant" /\ s[i].type = "GETX" THEN {s[i - 1].cache} ELSE {}
BY DEF Job

LEMMA JobCache == \A g, s, i : Job(g, s, i).cache = s[i].cache
BY DEF Job

\* A cache has one job at a time.
LEMMA OneJob ==
    ASSUME LocksInv
    PROVE  /\ \A j \in JS : j.cache \in Caches /\ bccLock[j.cache] # None
           /\ \A i, j \in JS : i.cache = j.cache => i = j
<1>1. ASSUME NEW j \in JS
      PROVE  \E t \in Cores : \E n \in 1 .. Len(stack[t]) :
                j = Job(tag, stack[t], n) /\ HoldsBcc(stack[t], n) /\ j.cache = stack[t][n].cache
  <2>1a. PICK t \in Cores : \E n \in 1 .. Len(stack[t]) : stack[t][n].pc \in Sending /\ j = Job(tag, stack[t], n)
    BY JobIff DEF JS
  <2>1. PICK n \in 1 .. Len(stack[t]) : stack[t][n].pc \in Sending /\ j = Job(tag, stack[t], n)
    BY <2>1a
  <2>2. j.cache = stack[t][n].cache
    BY <2>1, JobCache
  <2> QED
    BY <2>1, <2>2, SenderHolds
<1>2. \A j \in JS : j.cache \in Caches /\ bccLock[j.cache] # None
  BY <1>1, HolderLock, FrameType
<1>3. \A i, j \in JS : i.cache = j.cache => i = j
  <2> SUFFICES ASSUME NEW i \in JS, NEW j \in JS, i.cache = j.cache PROVE i = j
    OBVIOUS
  <2>1a. PICK t \in Cores : \E n \in 1 .. Len(stack[t]) : i = Job(tag, stack[t], n) /\ HoldsBcc(stack[t], n) /\ i.cache = stack[t][n].cache
    BY <1>1
  <2>1. PICK n \in 1 .. Len(stack[t]) : i = Job(tag, stack[t], n) /\ HoldsBcc(stack[t], n) /\ i.cache = stack[t][n].cache
    BY <2>1a
  <2>2a. PICK u \in Cores : \E m \in 1 .. Len(stack[u]) : j = Job(tag, stack[u], m) /\ HoldsBcc(stack[u], m) /\ j.cache = stack[u][m].cache
    BY <1>1
  <2>2. PICK m \in 1 .. Len(stack[u]) : j = Job(tag, stack[u], m) /\ HoldsBcc(stack[u], m) /\ j.cache = stack[u][m].cache
    BY <2>2a
  <2>3. t = u /\ n = m
    BY <2>1, <2>2, OneHolder
  <2> QED
    BY <2>1, <2>2, <2>3
<1> QED
  BY <1>2, <1>3

\* The jobs outside the caches D stay (from tags g and stacks k to tags h and
\* stacks r), and all others are in N.
JobsStay(g, k, h, r, D) ==
    \A u \in Cores : \A i \in 1 .. Len(k[u]) : k[u][i].pc \in Sending /\ k[u][i].cache \notin D =>
        i \in 1 .. Len(r[u]) /\ r[u][i].pc \in Sending /\ Job(h, r[u], i) = Job(g, k[u], i)
JobsNew(g, k, h, r, D, N) ==
    \A u \in Cores : \A i \in 1 .. Len(r[u]) : r[u][i].pc \in Sending =>
        \/ Job(h, r[u], i) \in N
        \/ /\ i \in 1 .. Len(k[u]) /\ k[u][i].pc \in Sending /\ k[u][i].cache \notin D
           /\ Job(h, r[u], i) = Job(g, k[u], i)

LEMMA JobsChange ==
    ASSUME NEW k, NEW k2, NEW g, NEW h, NEW D, NEW N, N \subseteq Jobs(h, k2),
           JobsStay(g, k, h, k2, D), JobsNew(g, k, h, k2, D, N)
    PROVE  Jobs(h, k2) = {j \in Jobs(g, k) : j.cache \notin D} \cup N
<1>1. ASSUME NEW j \in Jobs(g, k), j.cache \notin D PROVE j \in Jobs(h, k2)
  <2>1a. PICK t \in Cores : \E i \in 1 .. Len(k[t]) : k[t][i].pc \in Sending /\ j = Job(g, k[t], i)
    BY JobIff
  <2>1. PICK i \in 1 .. Len(k[t]) : k[t][i].pc \in Sending /\ j = Job(g, k[t], i)
    BY <2>1a
  <2>2. k[t][i].cache \notin D
    BY <1>1, <2>1, JobCache
  <2> QED
    BY <2>1, <2>2, JobIff DEF JobsStay
<1>2. ASSUME NEW j \in Jobs(h, k2), j \notin N PROVE j \in Jobs(g, k) /\ j.cache \notin D
  <2>1a. PICK t \in Cores : \E i \in 1 .. Len(k2[t]) : k2[t][i].pc \in Sending /\ j = Job(h, k2[t], i)
    BY JobIff
  <2>1. PICK i \in 1 .. Len(k2[t]) : k2[t][i].pc \in Sending /\ j = Job(h, k2[t], i)
    BY <2>1a
  <2>2. /\ i \in 1 .. Len(k[t]) /\ k[t][i].pc \in Sending /\ k[t][i].cache \notin D
        /\ j = Job(g, k[t], i)
    BY <1>2, <2>1 DEF JobsNew
  <2> QED
    BY <2>2, JobIff, JobCache
<1> QED
  BY <1>1, <1>2

-----------------------------------------------------------------------------
(* What a step leaves alone.                                               *)

LEMMA FrameKept ==
    ASSUME NEW S, NEW H, NEW g, NEW T, NEW G, NEW h, NEW s, NEW i \in 1 .. Len(s), FrameAt(S, H, g, s, i),
           s[i].pc \notin {"tcc", "bcc"} =>
              h[s[i].cache] = g[s[i].cache] /\ G[s[i].cache][Adr(g, s[i])] \subseteq H[s[i].cache][Adr(g, s[i])],
           s[i].pc \in {"tcc", "bcc"} \/ (Waits(s, i) /\ s[i].pc \notin Sending)
              \/ T[s[i].cache][Adr(g, s[i])] = S[s[i].cache][Adr(g, s[i])],
           i > 1 => h[s[i - 1].cache] = g[s[i - 1].cache],
           i > 1 /\ s[i].pc # "inval" =>
              T[s[i - 1].cache][s[i].addr] \in ChildMay(s[i])
    PROVE  FrameAt(T, G, h, s, i)
<1>1. s[i].pc \notin {"tcc", "bcc"} => Adr(h, s[i]) = Adr(g, s[i])
  BY DEF Adr
<1>2. i > 1 => Adr(h, s[i - 1]) = Adr(g, s[i - 1])
  BY DEF Adr
<1>3. Own(T, G, h, s[i])
  <2>1. Own(S, H, g, s[i])
    BY DEF FrameAt
  <2>2. CASE s[i].pc \in {"tcc", "bcc"}
    BY <2>1, <2>2 DEF Own, Sending
  <2>3. CASE s[i].pc \notin {"tcc", "bcc"}
    BY <1>1, <2>1, <2>3 DEF Own, Sending
  <2> QED
    BY <2>2, <2>3
<1>4. ~Waits(s, i) => Ready(T, h, s[i])
  <2> SUFFICES ASSUME ~Waits(s, i) PROVE Ready(T, h, s[i])
    OBVIOUS
  <2>1. Ready(S, g, s[i])
    BY DEF FrameAt
  <2>2. CASE s[i].pc \in {"tcc", "bcc"}
    BY <2>2 DEF Ready
  <2>3. CASE s[i].pc \notin {"tcc", "bcc"}
    BY <1>1, <2>1, <2>3 DEF Ready
  <2> QED
    BY <2>2, <2>3
<1>5. i > 1 => Link(T, h, s[i - 1], s[i])
  <2> SUFFICES ASSUME i > 1 PROVE Link(T, h, s[i - 1], s[i])
    OBVIOUS
  <2>1. Link(S, g, s[i - 1], s[i])
    BY DEF FrameAt
  <2> QED
    BY <1>2, <2>1 DEF Link
<1> QED
  BY <1>3, <1>4, <1>5 DEF FrameAt

LEMMA FrameInv ==
    ASSUME LocksInv, CoherenceInv, NEW u \in Cores, NEW i \in 1 .. Len(stack[u])
    PROVE  /\ FrameAt(ST, SH, tag, stack[u], i) /\ Own(ST, SH, tag, stack[u][i])
           /\ ~Waits(stack[u], i) => Ready(ST, tag, stack[u][i])
           /\ i > 1 => i - 1 \in 1 .. Len(stack[u]) /\ Link(ST, tag, stack[u][i - 1], stack[u][i])
           /\ i > 1 /\ stack[u][i].pc # "inval" => Waits(stack[u], i - 1)
           /\ Adr(tag, stack[u][i]) \in Slots
<1>1. FrameAt(ST, SH, tag, stack[u], i)
  BY DEF CoherenceInv, FramesInv
<1>2. i > 1 => i - 1 \in 1 .. Len(stack[u])
  BY FrameType
<1>3. i > 1 => i - 1 < Len(stack[u]) /\ (i - 1) + 1 = i
  BY FrameType
<1>4. i > 1 /\ stack[u][i].pc # "inval" => Waits(stack[u], i - 1)
  BY <1>3 DEF Waits
<1>5. Adr(tag, stack[u][i]) \in Slots
  <2>1. stack[u][i].cache \in Caches /\ stack[u][i].addr \in Addrs /\ FrameOK(stack[u][i])
    BY FrameType
  <2>2. stack[u][i].pc \in {"evict", "insert"} => stack[u][i].line \in Lines[stack[u][i].cache]
    BY <2>1 DEF FrameOK
  <2>3. \A c \in Caches : \A l \in Lines[c] : tag[c][l] \in Slots
    BY DEF LocksInv, LineInv, PerLine, Slots
  <2> QED
    BY <2>1, <2>2, <2>3 DEF Adr, Slots
<1> QED
  BY <1>1, <1>2, <1>4, <1>5 DEF FrameAt

\* The step of an access that holds both locks of its cache changes nothing that
\* another frame relies on, but for the state of the line of its caller.
LEMMA AccessKeeps ==
    ASSUME LocksInv, CoherenceInv, NEW t \in Cores, stack[t] # <<>>,
           Top(t).pc \notin {"tcc", "bcc", "fill", "inval"}, NEW T, NEW G, NEW h,
           \A d \in Caches : d # Top(t).cache => h[d] = tag[d] /\ \A x \in Slots : G[d][x] = SH[d][x],
           \A d \in Caches : \A x \in Slots :
               d = Top(t).cache \/ (Len(stack[t]) > 1 /\ d = Caller(t).cache /\ x = Top(t).addr) \/ T[d][x] = ST[d][x],
           NEW u \in Cores, NEW i \in 1 .. Len(stack[u]), u # t \/ i < Len(stack[t])
    PROVE  FrameAt(T, G, h, stack[u], i)
<1> DEFINE n == Len(stack[t])
           f == stack[t][n]
           c == f.cache
           s == stack[u]
           e == s[i]
<1>1. /\ n \in Nat \ {0} /\ n \in 1 .. n /\ Top(t) = f /\ c \in Caches /\ HoldsBcc(stack[t], n)
      /\ n > 1 => Caller(t) = stack[t][n - 1] /\ n - 1 \in 1 .. n
  <2>1. n \in Nat \ {0} /\ Top(t) = f /\ c \in Caches
    BY TopOK
  <2>2. HoldsBcc(stack[t], n)
    BY <2>1 DEF HoldsBcc, Waits
  <2> QED
    BY <2>1, <2>2 DEF Caller
<1>2. n > 1 => /\ Parent[Caller(t).cache][f.addr] = c
               /\ stack[t][n - 1].pc \in Called
  <2> SUFFICES ASSUME n > 1 PROVE Parent[Caller(t).cache][f.addr] = c /\ stack[t][n - 1].pc \in Called
    OBVIOUS
  <2>1. n - 1 \in 1 .. n /\ Link(ST, tag, stack[t][n - 1], f) /\ LinkOK(stack[t][n - 1], f)
    BY <1>1, FrameInv, FrameType
  <2> QED
    BY <1>1, <2>1 DEF Link, LinkOK
<1>3. ~(u = t /\ i = n) /\ (u = t /\ i + 1 \in 1 .. n => i + 1 <= n) /\ ~(u = t /\ i - 1 = n)
  BY <1>1
<1>4. FrameAt(ST, SH, tag, s, i) /\ Adr(tag, e) \in Slots /\ e.cache \in Caches /\ e.addr \in Addrs
  BY FrameInv, FrameType
<1>5. e.pc \notin {"tcc", "bcc"} => e.cache # c
  <2>1. CASE e.pc = "inval"
    <3>1. HoldsBcc(s, i)
      BY <2>1, SenderHolds DEF Sending
    <3> QED
      BY <1>1, <1>3, <3>1, OneHolder
  <2>2. CASE e.pc \notin {"tcc", "inval"}
    BY <1>1, <1>3, <2>2, OneAccess
  <2> QED
    BY <2>1, <2>2
<1>6. n > 1 /\ e.cache = Caller(t).cache /\ Adr(tag, e) = f.addr /\ e.pc \notin {"tcc", "bcc"} =>
          Waits(s, i) /\ e.pc \notin Sending
  <2> SUFFICES ASSUME n > 1, e.cache = Caller(t).cache, Adr(tag, e) = f.addr, e.pc \notin {"tcc", "bcc"}
               PROVE  Waits(s, i) /\ e.pc \notin Sending
    OBVIOUS
  <2>1. n - 1 \in 1 .. n /\ Caller(t) = stack[t][n - 1] /\ stack[t][n - 1].pc \in Called /\ Waits(stack[t], n - 1)
    <3>1. n - 1 \in 1 .. n /\ Caller(t) = stack[t][n - 1] /\ stack[t][n - 1].pc \in Called
      BY <1>1, <1>2
    <3> QED
      BY <1>1, <3>1, FrameInv
  <2>2. CASE e.pc = "inval"
    <3>1. i > 1
      BY <2>2, FrameType
    <3>2. i - 1 \in 1 .. Len(s) /\ Link(ST, tag, s[i - 1], e)
      BY <3>1, FrameInv
    <3>3. s[i - 1].cache = c
      BY <1>2, <2>1, <2>2, <3>2 DEF Link, Adr
    <3>4. HoldsBcc(s, i - 1)
      <4>1. i - 1 < Len(s) /\ s[(i - 1) + 1].pc = "inval"
        BY <2>2, <3>1, FrameType
      <4> QED
        BY <3>2, <4>1, SenderHolds
    <3>5. u = t /\ i - 1 = n
      BY <1>1, <3>2, <3>3, <3>4, OneHolder
    <3> QED
      BY <1>3, <3>5
  <2>3. CASE e.pc # "inval"
    <3>1. u = t /\ i = n - 1
      BY <2>1, <2>3, OneAccess DEF Called
    <3> QED
      BY <2>1, <3>1 DEF Called, Sending
  <2> QED
    BY <2>2, <2>3
<1>7. ASSUME i > 1
      PROVE  /\ h[s[i - 1].cache] = tag[s[i - 1].cache]
             /\ e.pc # "inval" => T[s[i - 1].cache][e.addr] \in ChildMay(e)
  <2>1. i - 1 \in 1 .. Len(s) /\ i - 1 < Len(s) /\ (i - 1) + 1 = i /\ Link(ST, tag, s[i - 1], e) /\ LinkOK(s[i - 1], e)
    BY <1>7, FrameInv, FrameType
  <2>2. s[i - 1].cache \in Caches
    BY <2>1, FrameType
  <2>3. s[i - 1].cache # c
    <3>1. CASE e.pc = "inval"
      <4>1. HoldsBcc(s, i - 1)
        BY <2>1, <3>1, SenderHolds
      <4> QED
        BY <1>1, <1>3, <2>1, <4>1, OneHolder
    <3>2. CASE e.pc # "inval"
      <4>1. s[i - 1].pc \notin {"tcc", "inval"}
        BY <2>1, <3>2 DEF LinkOK, Called
      <4> QED
        BY <1>1, <1>3, <2>1, <4>1, OneAccess
    <3> QED
      BY <3>1, <3>2
  <2>4. e.pc # "inval" /\ n > 1 => s[i - 1].cache # Caller(t).cache
    <3> SUFFICES ASSUME e.pc # "inval", n > 1, s[i - 1].cache = Caller(t).cache PROVE FALSE
      OBVIOUS
    <3>1. s[i - 1].pc \notin {"tcc", "inval"}
      BY <2>1 DEF LinkOK, Called
    <3>3. /\ n - 1 \in 1 .. Len(stack[t]) /\ stack[t][n - 1].pc \notin {"tcc", "inval"}
          /\ stack[t][n - 1].cache = s[i - 1].cache
      BY <1>1, <1>2 DEF Called
    <3>2. u = t /\ i - 1 = n - 1
      BY <2>1, <3>1, <3>3, OneAccess
    <3> QED
      BY <1>1, <1>3, <3>2
  <2>5. e.pc # "inval" => T[s[i - 1].cache][e.addr] = ST[s[i - 1].cache][e.addr]
    BY <1>1, <1>4, <2>2, <2>3, <2>4 DEF Slots
  <2>6. h[s[i - 1].cache] = tag[s[i - 1].cache]
    BY <1>1, <2>2, <2>3
  <2>7. e.pc # "inval" => ST[s[i - 1].cache][e.addr] \in ChildMay(e)
    BY <2>1 DEF Link
  <2> QED
    BY <2>5, <2>6, <2>7
<1>8. e.pc \notin {"tcc", "bcc"} => h[e.cache] = tag[e.cache] /\ G[e.cache][Adr(tag, e)] \subseteq SH[e.cache][Adr(tag, e)]
  BY <1>1, <1>4, <1>5
<1>9. e.pc \in {"tcc", "bcc"} \/ (Waits(s, i) /\ e.pc \notin Sending) \/ T[e.cache][Adr(tag, e)] = ST[e.cache][Adr(tag, e)]
  BY <1>1, <1>4, <1>5, <1>6
<1> QED
  BY <1>4, <1>7, <1>8, <1>9, FrameKept

\* An access finds its caller's line as it may, also after an invalidation.
LEMMA InvalChild ==
    ASSUME LocksInv, CoherenceInv, NEW t \in Cores, stack[t] # <<>>, Top(t).pc = "inval",
           NEW u \in Cores, NEW i \in 1 .. Len(stack[u]), i > 1, stack[u][i].pc # "inval",
           stack[u][i - 1].cache = Top(t).cache, stack[u][i].addr = Top(t).addr
    PROVE  Invalidated(Top(t).type) \in ChildMay(stack[u][i])
<1> DEFINE n == Len(stack[t])
           f == stack[t][n]
           s == stack[u]
           e == s[i]
<1>1. /\ n \in Nat \ {0} /\ n \in 1 .. n /\ Top(t) = f /\ n > 1 /\ n - 1 \in 1 .. n
      /\ f.pc = "inval" /\ FrameOK(f)
  <2>1. n \in Nat \ {0} /\ Top(t) = f /\ FrameOK(f)
    BY TopOK
  <2>2. n > 1
    BY CallerOK
  <2> QED
    BY <2>1, <2>2
<1>2. f.type \in InvTypes
  BY <1>1 DEF FrameOK
<1>3. ST[f.cache][f.addr] # "I" /\ (f.type = "INVX" => Exclusive(ST[f.cache][f.addr]))
  <2>1. Own(ST, SH, tag, f)
    BY <1>1, FrameInv
  <2> QED
    BY <1>1, <2>1 DEF Own, Adr
<1>4. Parent[f.cache][f.addr] = stack[t][n - 1].cache /\ stack[t][n - 1].pc \in Sending /\ HoldsBcc(stack[t], n - 1)
  <2>1. Link(ST, tag, stack[t][n - 1], f)
    BY <1>1, FrameInv
  <2>2. n - 1 < n /\ (n - 1) + 1 = n
    BY <1>1
  <2>3. stack[t][n - 1].pc \in Sending /\ HoldsBcc(stack[t], n - 1)
    BY <1>1, <2>2, SenderHolds
  <2> QED
    BY <1>1, <2>1, <2>3 DEF Link
<1>5. /\ i - 1 \in 1 .. Len(s) /\ Link(ST, tag, s[i - 1], e) /\ LinkOK(s[i - 1], e) /\ Own(ST, SH, tag, e)
      /\ s[i - 1].cache \in Caches /\ e.cache \in Caches /\ Len(s) \in Nat
  <2>1. i - 1 \in 1 .. Len(s) /\ Link(ST, tag, s[i - 1], e) /\ LinkOK(s[i - 1], e) /\ Own(ST, SH, tag, e)
    BY FrameInv, FrameType
  <2> QED
    BY <2>1, FrameType
<1>6. /\ e.cache = Parent[f.cache][f.addr] /\ ST[f.cache][f.addr] \in ChildMay(e) /\ e.type \in Gets \cup Puts
      /\ e.pc \in {"tcc", "bcc"} => e.init \in Kept(e.type)
      /\ ~Terminal(e.cache) /\ e.pc # "fill"
  <2>1. ~Terminal(e.cache)
    BY <1>5, TerminalFacts DEF LinkOK
  <2>2. e.pc # "fill"
    BY <1>5 DEF LocksInv, ShapeInv, Shape
  <2> QED
    BY <1>1, <1>5, <2>1, <2>2 DEF Link, Own
<1>7. e.pc \notin {"tcc", "bcc"} /\ ~Waits(s, i) => e.pc \in Sending
  <2> SUFFICES ASSUME e.pc \notin {"tcc", "bcc"}, ~Waits(s, i) PROVE e.pc \in Sending
    OBVIOUS
  <2>1. HoldsBcc(s, i)
    BY <1>6 DEF HoldsBcc
  <2>2. e.cache = stack[t][n - 1].cache
    BY <1>4, <1>6
  <2>3. u = t /\ i = n - 1
    BY <1>1, <1>4, <2>1, <2>2, OneHolder
  <2> QED
    BY <1>4, <2>3
<1>8. Waits(s, i) => e.pc # "end" /\ e.type \in Gets
  <2> SUFFICES ASSUME Waits(s, i) PROVE e.pc # "end" /\ e.type \in Gets
    OBVIOUS
  <2>1. i + 1 \in 1 .. Len(s) /\ i + 1 > 1 /\ (i + 1) - 1 = i /\ s[i + 1].pc # "inval"
    BY <1>5 DEF Waits
  <2>2. Link(ST, tag, e, s[i + 1]) /\ Own(ST, SH, tag, s[i + 1])
    BY <2>1, FrameInv
  <2>3. s[i + 1].type \in Gets \cup Puts /\ (e.pc = "end" => Terminal(e.cache))
        /\ (s[i + 1].type \in Gets => e.type = s[i + 1].type) /\ (s[i + 1].type \in Puts => e.pc = "insert")
    BY <2>1, <2>2 DEF Link, Own
  <2>4. e.pc = "insert" => e.type \in Gets
    BY <1>5 DEF Own
  <2> QED
    BY <1>6, <2>3, <2>4
<1>9. CASE e.pc \in {"tcc", "bcc"}
  BY <1>1, <1>2, <1>3, <1>6, <1>9 DEF ChildMay, Kept, Invalidated, Exclusive, Gets, Puts, InvTypes
<1>10. CASE e.pc \notin {"tcc", "bcc"}
  <2>1. e.pc # "end" /\ e.type \in Gets
    <3>1. ~Waits(s, i) => e.pc \in Sending /\ e.type \in Gets
      BY <1>5, <1>7, <1>10 DEF Own, Sending
    <3> QED
      BY <1>8, <3>1 DEF Sending
  <2>2. ST[f.cache][f.addr] \in Kept(e.type)
    BY <1>6, <1>10, <2>1 DEF ChildMay
  <2>3. e.type = "GETX" /\ f.type = "INV"
    BY <1>2, <1>3, <2>1, <2>2 DEF Kept, Gets, Exclusive, InvTypes
  <2> QED
    BY <1>1, <1>10, <2>1, <2>3 DEF ChildMay, Kept, Invalidated
<1> QED
  BY <1>9, <1>10

\* An invalidation changes nothing that another frame relies on.
LEMMA InvalKeeps ==
    ASSUME LocksInv, CoherenceInv, NEW t \in Cores, stack[t] # <<>>, Top(t).pc = "inval",
           Terminal(Top(t).cache) => filterLock[Top(t).cache] = None, NEW T, NEW G,
           \A d \in Caches : \A x \in Slots : G[d][x] \subseteq SH[d][x],
           \A d \in Caches : \A x \in Slots :
               T[d][x] = IF d = Top(t).cache /\ x = Top(t).addr THEN Invalidated(Top(t).type) ELSE ST[d][x],
           NEW u \in Cores, NEW i \in 1 .. Len(stack[u]), u # t \/ i < Len(stack[t])
    PROVE  FrameAt(T, G, tag, stack[u], i)
<1> DEFINE n == Len(stack[t])
           f == stack[t][n]
           c == f.cache
           s == stack[u]
           e == s[i]
<1>1. n \in Nat \ {0} /\ n \in 1 .. n /\ Top(t) = f /\ c \in Caches /\ f.pc = "inval" /\ HoldsBcc(stack[t], n)
  <2>1. n \in Nat \ {0} /\ Top(t) = f /\ c \in Caches
    BY TopOK
  <2> QED
    BY <2>1 DEF HoldsBcc, Waits
<1>2. FrameAt(ST, SH, tag, s, i) /\ Adr(tag, e) \in Slots /\ e.cache \in Caches /\ e.addr \in Addrs
  BY FrameInv, FrameType
<1>3. e.pc \in {"tcc", "bcc"} \/ (Waits(s, i) /\ e.pc \notin Sending) \/ e.cache # c
  <2> SUFFICES ASSUME e.pc \notin {"tcc", "bcc"}, ~Waits(s, i) \/ e.pc \in Sending, e.cache = c PROVE FALSE
    OBVIOUS
  <2>1. CASE e.pc = "fill"
    <3>1. Len(s) = 1 /\ Shape(u, s)
      BY <2>1 DEF LocksInv, ShapeInv, Shape
    <3>2. e.cache \in FirstLevel[u]
      BY <3>1 DEF Shape
    <3>3. filterLock[c] # None /\ Terminal(c)
      BY <2>1, <3>2, HolderLock, TerminalFacts
    <3> QED
      BY <1>1, <3>3
  <2>2. CASE e.pc # "fill"
    <3>1. HoldsBcc(s, i)
      BY <2>2, SenderHolds DEF HoldsBcc
    <3>2. u = t /\ i = n
      BY <1>1, <3>1, OneHolder
    <3> QED
      BY <1>1, <3>2
  <2> QED
    BY <2>1, <2>2
<1>4. e.pc \in {"tcc", "bcc"} \/ (Waits(s, i) /\ e.pc \notin Sending) \/ T[e.cache][Adr(tag, e)] = ST[e.cache][Adr(tag, e)]
  BY <1>1, <1>2, <1>3
<1>5. i > 1 /\ e.pc # "inval" => T[s[i - 1].cache][e.addr] \in ChildMay(e)
  <2> SUFFICES ASSUME i > 1, e.pc # "inval" PROVE T[s[i - 1].cache][e.addr] \in ChildMay(e)
    OBVIOUS
  <2>1. i - 1 \in 1 .. Len(s) /\ Link(ST, tag, s[i - 1], e)
    BY FrameInv
  <2>2. s[i - 1].cache \in Caches /\ e.addr \in Slots
    BY <1>2, <2>1, FrameType DEF Slots
  <2>3. CASE s[i - 1].cache = c /\ e.addr = f.addr
    BY <1>1, <2>2, <2>3, InvalChild
  <2>4. CASE ~(s[i - 1].cache = c /\ e.addr = f.addr)
    <3>1. T[s[i - 1].cache][e.addr] = ST[s[i - 1].cache][e.addr]
      BY <1>1, <2>2, <2>4
    <3> QED
      BY <2>1, <3>1 DEF Link
  <2> QED
    BY <2>3, <2>4
<1>6. SH[e.cache][Adr(tag, e)] = SH[e.cache][Adr(tag, e)] /\ G[e.cache][Adr(tag, e)] \subseteq SH[e.cache][Adr(tag, e)]
  BY <1>2
<1> QED
  BY <1>2, <1>4, <1>5, <1>6, FrameKept

-----------------------------------------------------------------------------
(* The frames of a stack after a step, from the frames that it keeps.      *)

LEMMA FramesTop ==
    ASSUME NEW S, NEW H, NEW g, NEW s, NEW r, NEW f, Len(s) \in Nat \ {0}, TopSet(s, r, f),
           \A i \in 1 .. Len(s) : i < Len(s) => FrameAt(S, H, g, s, i),
           f.pc = "inval" <=> s[Len(s)].pc = "inval",
           Own(S, H, g, f), Ready(S, g, f),
           Len(s) = 1 => ~f.own /\ f.type \in Gets,
           Len(s) > 1 => Link(S, g, s[Len(s) - 1], f)
    PROVE  FramesInv(S, H, g, r)
<1> DEFINE n == Len(s)
<1>1. Len(r) = n /\ r[n] = f /\ \A i \in 1 .. n : i < n => r[i] = s[i]
  BY DEF TopSet
<1>2. ASSUME NEW i \in 1 .. n, i < n PROVE FrameAt(S, H, g, r, i)
  <2>1. r[i] = s[i] /\ (i > 1 => r[i - 1] = s[i - 1])
    BY <1>1, <1>2
  <2>2. Waits(r, i) <=> Waits(s, i)
    <3>1. i + 1 < n => r[i + 1] = s[i + 1]
      BY <1>1, <1>2
    <3>2. i + 1 = n \/ i + 1 < n
      BY <1>2
    <3> QED
      BY <1>1, <1>2, <3>1, <3>2 DEF Waits
  <2> QED
    BY <1>2, <2>1, <2>2 DEF FrameAt
<1>3. FrameAt(S, H, g, r, n)
  <2>1. n > 1 => r[n - 1] = s[n - 1]
    BY <1>1
  <2> QED
    BY <1>1, <2>1 DEF FrameAt
<1> QED
  BY <1>1, <1>2, <1>3 DEF FramesInv

LEMMA FramesPush ==
    ASSUME NEW S, NEW H, NEW g, NEW s, NEW r, NEW f, NEW e, Len(s) \in Nat \ {0}, Pushed(s, r, f, e),
           \A i \in 1 .. Len(s) : i < Len(s) => FrameAt(S, H, g, s, i),
           f.pc = "inval" <=> s[Len(s)].pc = "inval",
           Own(S, H, g, f), e.pc = "inval" => Ready(S, g, f),
           Len(s) = 1 => ~f.own /\ f.type \in Gets,
           Len(s) > 1 => Link(S, g, s[Len(s) - 1], f),
           Own(S, H, g, e), Ready(S, g, e), Link(S, g, f, e)
    PROVE  FramesInv(S, H, g, r)
<1> DEFINE n == Len(s)
<1>1. Len(r) = n + 1 /\ r[n] = f /\ r[n + 1] = e /\ \A i \in 1 .. n : i < n => r[i] = s[i]
  BY DEF Pushed
<1>2. ASSUME NEW i \in 1 .. n, i < n PROVE FrameAt(S, H, g, r, i)
  <2>1. r[i] = s[i] /\ (i > 1 => r[i - 1] = s[i - 1])
    BY <1>1, <1>2
  <2>2. Waits(r, i) <=> Waits(s, i)
    <3>1. i + 1 < n => r[i + 1] = s[i + 1]
      BY <1>1, <1>2
    <3>2. i + 1 = n \/ i + 1 < n
      BY <1>2
    <3> QED
      BY <1>1, <1>2, <3>1, <3>2 DEF Waits
  <2> QED
    BY <1>2, <2>1, <2>2 DEF FrameAt
<1>3. FrameAt(S, H, g, r, n)
  <2>1. n > 1 => r[n - 1] = s[n - 1]
    BY <1>1
  <2>2. Waits(r, n) <=> e.pc # "inval"
    BY <1>1 DEF Waits
  <2> QED
    BY <1>1, <2>1, <2>2 DEF FrameAt
<1>4. FrameAt(S, H, g, r, n + 1)
  <2>1. (n + 1) - 1 = n /\ n + 1 # 1
    OBVIOUS
  <2> QED
    BY <1>1, <2>1 DEF FrameAt
<1>5. \A i \in 1 .. n + 1 : i = n + 1 \/ i = n \/ (i \in 1 .. n /\ i < n)
  OBVIOUS
<1> QED
  BY <1>1, <1>2, <1>3, <1>4, <1>5 DEF FramesInv

LEMMA FramesPop ==
    ASSUME NEW S, NEW H, NEW g, NEW s, NEW r, NEW f, Len(s) \in Nat, Len(s) > 1, Popped(s, r, f),
           \A i \in 1 .. Len(s) : i < Len(s) - 1 => FrameAt(S, H, g, s, i),
           f.pc = "inval" <=> s[Len(s) - 1].pc = "inval",
           Own(S, H, g, f), Ready(S, g, f),
           Len(s) - 1 = 1 => ~f.own /\ f.type \in Gets,
           Len(s) - 1 > 1 => Link(S, g, s[Len(s) - 2], f)
    PROVE  FramesInv(S, H, g, r)
<1> DEFINE n == Len(s) - 1
<1>1. Len(r) = n /\ r[n] = f /\ n \in Nat \ {0} /\ \A i \in 1 .. n : i < n => r[i] = s[i]
  BY DEF Popped
<1>2. ASSUME NEW i \in 1 .. n, i < n PROVE FrameAt(S, H, g, r, i)
  <2>1. r[i] = s[i] /\ (i > 1 => r[i - 1] = s[i - 1])
    <3>1. i > 1 => i - 1 \in 1 .. n /\ i - 1 < n
      BY <1>2
    <3> QED
      BY <1>1, <1>2, <3>1
  <2>2. Waits(r, i) <=> Waits(s, i)
    <3>1. i + 1 < n => r[i + 1] = s[i + 1]
      BY <1>1, <1>2
    <3>2. i + 1 = n \/ i + 1 < n
      BY <1>1, <1>2
    <3> QED
      BY <1>1, <1>2, <3>1, <3>2 DEF Waits
  <2>3. FrameAt(S, H, g, s, i)
    <3>1. i \in 1 .. Len(s) /\ i < Len(s) - 1
      BY <1>2
    <3> QED
      BY <3>1
  <2> QED
    BY <1>2, <2>1, <2>2, <2>3 DEF FrameAt
<1>3. FrameAt(S, H, g, r, n)
  <2>1. n > 1 => r[n - 1] = s[Len(s) - 2]
    BY <1>1
  <2> QED
    BY <1>1, <2>1 DEF FrameAt
<1> QED
  BY <1>1, <1>2, <1>3 DEF FramesInv

-----------------------------------------------------------------------------
(* The state that a step starts from.                                      *)

LEMMA ArraysFrom ==
    ASSUME NEW g, NEW b, NEW e, PerLine(g, Slots), PerLine(b, MESIState), PerLine(e, Entries),
           TagInv(g), EntryInv(e),
           \A c \in Caches : \A l \in Lines[c] : b[c][l] # "I" \/ e[c][l].numSharers # 0 => g[c][l] # None
    PROVE  Arrays(g, b, e)
<1>1. ASSUME NEW c \in Caches, NEW l \in Lines[c], g[c][l] = None PROVE b[c][l] = "I" /\ e[c][l].sharers = {}
  <2>1. e[c][l] \in Entries /\ EntryOK(e[c][l], c)
    BY DEF PerLine, EntryInv
  <2>2. e[c][l].numSharers = 0
    BY <1>1
  <2> QED
    BY <1>1, <2>1, <2>2, EntryFacts
<1> QED
  BY <1>1 DEF Arrays

LEMMA ArraysNow ==
    ASSUME LocksInv, CoherenceInv
    PROVE  Arrays(tag, bcc, tcc)
BY ArraysFrom DEF LocksInv, LineInv, CoherenceInv, Slots

\* The top frame of a stack and its caller.
LEMMA TopFrame ==
    ASSUME LocksInv, CoherenceInv, NEW t \in Cores, stack[t] # <<>>
    PROVE  /\ Own(ST, SH, tag, Top(t)) /\ Ready(ST, tag, Top(t)) /\ Adr(tag, Top(t)) \in Slots
           /\ Len(stack[t]) = 1 => ~Top(t).own /\ Top(t).type \in Gets
           /\ Len(stack[t]) > 1 =>
                /\ Caller(t) = stack[t][Len(stack[t]) - 1] /\ Link(ST, tag, Caller(t), Top(t))
                /\ Own(ST, SH, tag, Caller(t)) /\ LinkOK(Caller(t), Top(t)) /\ Caller(t) \in Frames
                /\ Caller(t).cache \in Caches /\ Caller(t).cache # Top(t).cache /\ FrameOK(Caller(t))
           /\ \A i \in 1 .. Len(stack[t]) : FrameAt(ST, SH, tag, stack[t], i)
<1> DEFINE n == Len(stack[t])
<1>0. n \in Nat \ {0} /\ Top(t) = stack[t][n] /\ Top(t).cache \in Caches
  BY TopOK
<1>1. n \in Nat \ {0} /\ n \in 1 .. n /\ Top(t) = stack[t][n] /\ Top(t).cache \in Caches
  BY <1>0
<1>2. \A i \in 1 .. n : FrameAt(ST, SH, tag, stack[t], i)
  BY FrameInv
<1>3. ~Waits(stack[t], n)
  BY <1>1 DEF Waits
<1>4. /\ Own(ST, SH, tag, Top(t)) /\ Ready(ST, tag, Top(t)) /\ Adr(tag, Top(t)) \in Slots
      /\ n = 1 => ~Top(t).own /\ Top(t).type \in Gets
  <2>1. Adr(tag, Top(t)) \in Slots
    BY <1>1, FrameInv
  <2> QED
    BY <1>1, <1>2, <1>3, <2>1 DEF FrameAt
<1>5. ASSUME n > 1
      PROVE  /\ Caller(t) = stack[t][n - 1] /\ Link(ST, tag, Caller(t), Top(t))
             /\ Own(ST, SH, tag, Caller(t)) /\ LinkOK(Caller(t), Top(t)) /\ Caller(t) \in Frames
             /\ Caller(t).cache \in Caches /\ Caller(t).cache # Top(t).cache /\ FrameOK(Caller(t))
  <2>1. n - 1 \in 1 .. n /\ n - 1 < n /\ (n - 1) + 1 = n
    BY <1>1, <1>5
  <2>2. Caller(t) = stack[t][n - 1]
    BY DEF Caller
  <2>3. Link(ST, tag, Caller(t), Top(t)) /\ Own(ST, SH, tag, Caller(t))
    BY <1>1, <1>2, <1>5, <2>1, <2>2 DEF FrameAt
  <2>4. LinkOK(Caller(t), Top(t)) /\ Caller(t) \in Frames /\ Caller(t).cache \in Caches /\ FrameOK(Caller(t))
    BY <1>1, <2>1, <2>2, FrameType
  <2>5. Caller(t).cache # Top(t).cache
    <3>1. \A c \in Caches : \A d \in Range(Children[c]) : d # c
      BY LevelFacts
    <3> QED
      BY <1>1, <2>4, <3>1 DEF LinkOK
  <2> QED
    BY <2>2, <2>3, <2>4, <2>5
<1> QED
  BY <1>2, <1>4, <1>5

LEMMA TopLock ==
    ASSUME LocksInv, NEW t \in Cores, stack[t] # <<>>, Top(t).pc \notin {"tcc", "bcc", "fill"}
    PROVE  bccLock[Top(t).cache] = t
<1> DEFINE n == Len(stack[t])
<1>0. n \in Nat \ {0} /\ Top(t) = stack[t][n]
  BY TopOK
<1>1. n \in Nat \ {0} /\ n \in 1 .. n /\ Top(t) = stack[t][n]
  BY <1>0
<1>2. HoldsBcc(stack[t], n)
  BY <1>1 DEF HoldsBcc, Waits
<1> QED
  BY <1>1, <1>2, HolderLock

LEMMA OtherSenders ==
    ASSUME LocksInv, NEW t \in Cores, NEW c \in Caches, bccLock[c] \in {None, t}
    PROVE  \A u \in Cores \ {t} : \A i \in 1 .. Len(stack[u]) :
              stack[u][i].pc \in Sending => stack[u][i].cache # c
<1>1. ASSUME NEW u \in Cores \ {t}, NEW i \in 1 .. Len(stack[u]), stack[u][i].pc \in Sending
      PROVE  stack[u][i].cache # c
  <2>1. HoldsBcc(stack[u], i)
    BY <1>1, SenderHolds
  <2>2. bccLock[stack[u][i].cache] = u /\ bccLock[stack[u][i].cache] # None
    BY <2>1, HolderLock
  <2> QED
    BY <2>2
<1> QED
  BY <1>1

\* No invalidation is sent from below an access.
LEMMA NoneBelow ==
    ASSUME LocksInv, NEW t \in Cores, stack[t] # <<>>, Top(t).pc # "inval"
    PROVE  \A i \in 1 .. Len(stack[t]) : i < Len(stack[t]) => stack[t][i].pc \notin Sending
<1>1. Len(stack[t]) \in Nat \ {0} /\ Levels(stack[t]) /\ stack[t][Len(stack[t])].pc # "inval"
  BY TopOK
<1>2. ASSUME NEW i \in 1 .. Len(stack[t]), i < Len(stack[t]) PROVE stack[t][i].pc \notin Sending
  <2>1. Waits(stack[t], i)
    BY <1>1, <1>2, AccessOnTop
  <2>2. stack[t][i].pc \in Called
    BY <2>1, SenderHolds
  <2> QED
    BY <2>2 DEF Called, Sending
<1> QED
  BY <1>2

\* Outside the caches D, core t sends nothing and nobody's tags change (to h); the
\* other cores send nothing in D; all that t sends with stacks k is in N.
StackElse(k, t) == \A u \in Cores \ {t} : k[u] = stack[u]
TagsElse(h, D) == \A d \in Caches : d \notin D => h[d] = tag[d]
SentIn(t, D) == stack[t] # <<>> => Top(t).pc # "inval" /\ (Top(t).pc \in Sending => Top(t).cache \in D)
QuietIn(t, D) ==
    \A u \in Cores \ {t} : \A i \in 1 .. Len(stack[u]) : stack[u][i].pc \in Sending => stack[u][i].cache \notin D
JobsOf(h, s, N) == \A i \in 1 .. Len(s) : s[i].pc \in Sending => Job(h, s, i) \in N

\* The jobs after a step of an access.
LEMMA JobsStep ==
    ASSUME LocksInv, NEW t \in Cores, NEW k, NEW h, NEW D, NEW N, StackElse(k, t), TagsElse(h, D),
           SentIn(t, D), QuietIn(t, D), N \subseteq Jobs(h, k), JobsOf(h, k[t], N)
    PROVE  Jobs(h, k) = Replaced(JS, D, N)
<1>1. ASSUME NEW u \in Cores \ {t}, NEW i \in 1 .. Len(stack[u]), stack[u][i].pc \in Sending
      PROVE  stack[u][i].cache \notin D /\ Job(h, k[u], i) = Job(tag, stack[u], i)
  <2>1. stack[u][i].cache \in Caches /\ stack[u][i].cache \notin D /\ k[u] = stack[u]
    BY <1>1, FrameType DEF StackElse, QuietIn
  <2>2. Adr(h, stack[u][i]) = Adr(tag, stack[u][i])
    BY <2>1 DEF Adr, TagsElse
  <2> QED
    BY <2>1, <2>2 DEF Job
<1>2. ASSUME NEW i \in 1 .. Len(stack[t]), stack[t][i].pc \in Sending
      PROVE  stack[t][i].cache \in D
  <2>1. stack[t] # <<>> /\ Len(stack[t]) \in Nat \ {0}
    BY FrameType
  <2>2. ~(i < Len(stack[t]))
    BY <1>2, <2>1, NoneBelow DEF SentIn
  <2>3. i = Len(stack[t])
    BY <2>1, <2>2
  <2>4. Top(t) = stack[t][i]
    BY <2>1, <2>3, TopOK
  <2> QED
    BY <1>2, <2>1, <2>4 DEF SentIn
<1>3. JobsStay(tag, stack, h, k, D)
  BY <1>1, <1>2 DEF JobsStay, StackElse
<1>4. JobsNew(tag, stack, h, k, D, N)
  BY <1>1 DEF JobsNew, JobsOf, StackElse
<1>5. Jobs(h, k) = {j \in Jobs(tag, stack) : j.cache \notin D} \cup N
  BY <1>3, <1>4, JobsChange
<1> QED
  BY <1>5 DEF JS, Replaced

-----------------------------------------------------------------------------
(* The relation, when nothing changes that it speaks of.                   *)

LEMMA RelSame ==
    ASSUME NEW S, NEW H, NEW X, NEW J, Rel(S, H, X, J), NEW T, NEW G, NEW Y, NEW J2,
           \A c \in Caches : \A a \in Addrs : T[c][a] = S[c][a] /\ G[c][a] = H[c][a] /\ (a \in Y[c] <=> a \in X[c]),
           \A j \in J : j.addr \in Addrs => j \in J2,
           \A j \in J2 : j.cache \in Caches /\ (j.addr \in Addrs => j \in J)
    PROVE  Rel(T, G, Y, J2)
<1>1. EntryRel(T, G, Y)
  BY DEF Rel, EntryRel
<1>2. UpRel(T, G, Y, J2)
  <2> SUFFICES ASSUME NEW c \in Caches, NEW a \in Addrs, T[c][a] # "I" /\ Parent[c][a] # Memory
               PROVE  \/ /\ c \in G[Parent[c][a]][a]
                         /\ Exclusive(T[c][a]) => a \in Y[Parent[c][a]]
                      \/ /\ T[c][a] = "S"
                         /\ \E j \in J2 : j.cache = Parent[c][a] /\ j.addr = a /\ c \in j.up
    BY DEF UpRel
  <2>1. Parent[c][a] \in Caches
    BY ParentType
  <2>2. S[c][a] # "I"
    OBVIOUS
  <2>3. \/ /\ c \in H[Parent[c][a]][a]
           /\ Exclusive(S[c][a]) => a \in X[Parent[c][a]]
        \/ /\ S[c][a] = "S"
           /\ \E j \in J : j.cache = Parent[c][a] /\ j.addr = a /\ c \in j.up
    BY <2>2 DEF Rel, UpRel
  <2> QED
    BY <2>1, <2>3
<1>3. DownRel(T, G, Y, J2)
  <2> SUFFICES ASSUME NEW p \in Caches, NEW a \in Addrs, NEW c \in G[p][a],
                      \A j \in J2 : j.cache = p /\ j.addr = a => c \in j.left
               PROVE  T[c][a] # "I" /\ (a \in Y[p] => Exclusive(T[c][a]))
    BY DEF DownRel
  <2>1. c \in H[p][a] /\ c \in Caches
    BY DEF Rel, EntryRel
  <2>2. \A j \in J : j.cache = p /\ j.addr = a => c \in j.left
    OBVIOUS
  <2>3. S[c][a] # "I" /\ (a \in X[p] => Exclusive(S[c][a]))
    BY <2>1, <2>2 DEF Rel, DownRel
  <2> QED
    BY <2>1, <2>3
<1>4. ToldRel(T, G, Y, J2)
  <2> SUFFICES ASSUME NEW j \in J2, j.addr \in Addrs PROVE ToldOK(T, G, Y, j)
    BY DEF ToldRel
  <2>1. j \in J /\ j.cache \in Caches
    OBVIOUS
  <2>2. ToldOK(S, H, X, j)
    BY <2>1 DEF Rel, ToldRel
  <2>3. \A c \in H[j.cache][j.addr] : c \in Caches
    BY <2>1 DEF Rel, EntryRel
  <2> QED
    BY <2>1, <2>2, <2>3 DEF ToldOK
<1> QED
  BY <1>1, <1>2, <1>3, <1>4 DEF Rel

\* Who is told: the sharers, or the exclusive one.
LEMMA TargetsAre ==
    ASSUME NEW c \in Caches, NEW e \in Entries, EntryOK(e, c)
    PROVE  /\ Targets(e, c, "INV") = e.sharers
           /\ Targets(e, c, "INVX") = IF isExclusive(e) THEN e.sharers ELSE {}
<1>1. e.numSharers = 0 <=> e.sharers = {}
  BY EntryFacts
<1>2. Range(Children[c]) \cap e.sharers = e.sharers
  BY DEF EntryOK
<1>3. isExclusive(e) => e.numSharers # 0
  BY DEF isExclusive
<1> QED
  BY <1>1, <1>2, <1>3 DEF Targets, isEmpty

-----------------------------------------------------------------------------
(* Steps that change no array.                                             *)

LEMMA SameArrays ==
    ASSUME LocksInv, CoherenceInv, NEW t \in Cores, UNCHANGED arrayVars, SameOthers(t),
           Rel(ST, SH, EX, Jobs(tag, stack')), FramesInv(ST, SH, tag, stack'[t])
    PROVE  CoherenceInv'
<1>1. tag' = tag /\ tcc' = tcc /\ bcc' = bcc
  BY DEF arrayVars
<1>2. ST' = ST /\ SH' = SH /\ EX' = EX /\ JS' = Jobs(tag, stack')
  BY <1>1 DEF ST, SH, EX, JS
<1>3. \A u \in Cores : FramesInv(ST, SH, tag, stack'[u])
  BY DEF CoherenceInv, SameOthers
<1> QED
  BY <1>1, <1>2, <1>3 DEF CoherenceInv

\* The jobs do not change when no frame of t sends invalidations.
LEMMA JobsSame ==
    ASSUME LocksInv, NEW t \in Cores, stack[t] # <<>> => Top(t).pc \notin Sending,
           NEW k, StackElse(k, t), \A i \in 1 .. Len(k[t]) : k[t][i].pc \notin Sending
    PROVE  Jobs(tag, k) = JS
<1>1. SentIn(t, {}) /\ QuietIn(t, {}) /\ TagsElse(tag, {}) /\ JobsOf(tag, k[t], {}) /\ {} \subseteq Jobs(tag, k)
  BY DEF Sending, SentIn, QuietIn, TagsElse, JobsOf
<1>2. Jobs(tag, k) = Replaced(JS, {}, {})
  BY <1>1, JobsStep
<1> QED
  BY <1>2 DEF Replaced

\* The frames of an access below its top send nothing.
LEMMA QuietTop ==
    ASSUME LocksInv, NEW t \in Cores, stack[t] # <<>>, Top(t).pc # "inval", NEW f, f.pc \notin Sending,
           TopSet(stack[t], stack'[t], f)
    PROVE  \A i \in 1 .. Len(stack'[t]) : stack'[t][i].pc \notin Sending
<1>1. Len(stack[t]) \in Nat \ {0} /\ Len(stack'[t]) = Len(stack[t]) /\ stack'[t][Len(stack[t])] = f
  BY TopOK DEF TopSet
<1>2. \A i \in 1 .. Len(stack[t]) : i < Len(stack[t]) => stack'[t][i].pc \notin Sending
  BY NoneBelow DEF TopSet
<1>3. \A i \in 1 .. Len(stack[t]) : i = Len(stack[t]) \/ i < Len(stack[t])
  BY <1>1
<1> QED
  BY <1>1, <1>2, <1>3

LEMMA LockTccCoherent ==
    ASSUME LocksInv, CoherenceInv, NEW t \in Cores, LockTcc(t)
    PROVE  CoherenceInv'
<1> DEFINE f == Top(t)
           g == Goto(f, "bcc")
           n == Len(stack[t])
<1>1. stack[t] # <<>> /\ f.pc = "tcc" /\ UNCHANGED arrayVars /\ SetTop(t, g)
  BY DEF LockTcc, At
<1>2. f \in Frames /\ StackType /\ n \in Nat \ {0} /\ f = stack[t][n]
  BY <1>1, TopOK
<1>3. /\ g \in Frames /\ g.pc = "bcc" /\ g.cache = f.cache /\ g.addr = f.addr /\ g.type = f.type
      /\ g.own = f.own /\ g.init = f.init /\ g.flags = f.flags /\ g.wb = f.wb
  BY <1>2, GotoFrame DEF PCs
<1>4. SameOthers(t) /\ TopSet(stack[t], stack'[t], g)
  BY <1>1, <1>2, <1>3, SetTopStack
<1>5. Jobs(tag, stack') = JS
  <2>1. \A i \in 1 .. Len(stack'[t]) : stack'[t][i].pc \notin Sending
    BY <1>1, <1>3, <1>4, QuietTop DEF Sending
  <2> QED
    BY <1>1, <1>4, <2>1, JobsSame DEF Sending, SameOthers, StackElse
<1>6. FramesInv(ST, SH, tag, stack'[t])
  <2>1. /\ Own(ST, SH, tag, f) /\ Ready(ST, tag, f)
        /\ n = 1 => ~f.own /\ f.type \in Gets
        /\ n > 1 => Link(ST, tag, stack[t][n - 1], f)
        /\ \A i \in 1 .. n : FrameAt(ST, SH, tag, stack[t], i)
    BY <1>1, TopFrame
  <2>2. Own(ST, SH, tag, g) /\ Ready(ST, tag, g)
    BY <1>1, <1>3, <2>1 DEF Own, Ready, Sending
  <2>3. n > 1 => Link(ST, tag, stack[t][n - 1], g)
    BY <1>1, <1>3, <2>1 DEF Link, ChildMay
  <2>4. n = 1 => ~g.own /\ g.type \in Gets
    BY <1>3, <2>1
  <2> HIDE DEF f, g, n
  <2>5. f.pc # "inval" /\ g.pc # "inval"
    BY <1>1, <1>3
  <2> QED
    BY <1>2, <1>4, <2>1, <2>2, <2>3, <2>4, <2>5, FramesTop DEF n
<1>7. Rel(ST, SH, EX, JS)
  BY DEF CoherenceInv
<1> QED
  BY <1>1, <1>4, <1>5, <1>6, <1>7, SameArrays

LEMMA EndAccessCoherent ==
    ASSUME LocksInv, CoherenceInv, NEW t \in Cores, EndAccess(t)
    PROVE  CoherenceInv'
<1> DEFINE f == Top(t)
           g == Goto(f, "fill")
           n == Len(stack[t])
<1>1. stack[t] # <<>> /\ f.pc = "end" /\ UNCHANGED arrayVars
  BY DEF EndAccess, At
<1>2. f \in Frames /\ StackType /\ n \in Nat \ {0} /\ f = stack[t][n]
  BY <1>1, TopOK
<1>3. /\ Own(ST, SH, tag, f) /\ Ready(ST, tag, f)
      /\ n = 1 => ~f.own /\ f.type \in Gets
      /\ n > 1 => /\ Caller(t) = stack[t][n - 1] /\ Link(ST, tag, Caller(t), f) /\ LinkOK(Caller(t), f)
                  /\ Own(ST, SH, tag, Caller(t))
      /\ \A i \in 1 .. n : FrameAt(ST, SH, tag, stack[t], i)
  BY <1>1, TopFrame
<1>4. Rel(ST, SH, EX, JS)
  BY DEF CoherenceInv
<1>5. CASE n = 1
  <2>1. SetTop(t, g)
    BY <1>5 DEF EndAccess
  <2>2. /\ g \in Frames /\ g.pc = "fill" /\ g.cache = f.cache /\ g.addr = f.addr /\ g.type = f.type
        /\ g.own = f.own /\ g.init = f.init /\ g.flags = f.flags /\ g.line = f.line
    BY <1>2, GotoFrame DEF PCs
  <2>3. SameOthers(t) /\ TopSet(stack[t], stack'[t], g)
    BY <1>1, <1>2, <2>1, <2>2, SetTopStack
  <2>4. \A i \in 1 .. Len(stack'[t]) : stack'[t][i].pc \notin Sending
    BY <1>1, <2>2, <2>3, QuietTop DEF Sending
  <2>5. Jobs(tag, stack') = JS
    BY <1>1, <2>3, <2>4, JobsSame DEF Sending, SameOthers, StackElse
  <2>6. Own(ST, SH, tag, g)
    BY <1>1, <1>3, <1>5, <2>2 DEF Own, Sending
  <2>7. Ready(ST, tag, g)
    BY <1>1, <1>3, <2>2 DEF Ready, Adr
  <2>8. n = 1 => ~g.own /\ g.type \in Gets
    BY <1>3, <2>2
  <2>9. f.pc # "inval" /\ g.pc # "inval" /\ ~(n > 1)
    BY <1>1, <1>5, <2>2
  <2> HIDE DEF f, g, n
  <2>10. FramesInv(ST, SH, tag, stack'[t])
    BY <1>2, <1>3, <2>3, <2>6, <2>7, <2>8, <2>9, FramesTop DEF n
  <2> QED
    BY <1>1, <1>4, <2>3, <2>5, <2>10, SameArrays
<1>6. CASE n # 1
  <2> DEFINE d == Caller(t)
  <2>1. n > 1 /\ n - 1 \in 1 .. n /\ n - 1 < n
    BY <1>2, <1>6, MoreThanOne
  <2>2. SameOthers(t) /\ Popped(stack[t], stack'[t], d)
    <3>1. stack' = [stack EXCEPT ![t] = Front(@)]
      BY <1>6 DEF EndAccess
    <3> QED
      BY <1>2, <2>1, <3>1, EndStack
  <2>3. \A i \in 1 .. Len(stack'[t]) : i \in 1 .. n /\ i < n /\ stack'[t][i] = stack[t][i]
    <3>1. Len(stack'[t]) = n - 1 /\ stack'[t][n - 1] = d /\ d = stack[t][n - 1]
      BY <1>3, <2>1, <2>2 DEF Popped
    <3>2. \A i \in 1 .. n - 1 : i < n - 1 => stack'[t][i] = stack[t][i]
      BY <2>2 DEF Popped
    <3>3. \A i \in 1 .. n - 1 : i \in 1 .. n /\ i < n /\ (i = n - 1 \/ i < n - 1)
      BY <1>2
    <3> QED
      BY <3>1, <3>2, <3>3
  <2>4. \A i \in 1 .. Len(stack'[t]) : stack'[t][i].pc \notin Sending
    BY <1>1, <2>3, NoneBelow
  <2>5. Jobs(tag, stack') = JS
    BY <1>1, <2>2, <2>4, JobsSame DEF Sending, SameOthers, StackElse
  <2>6. Ready(ST, tag, d)
    <3>1. /\ f.addr = Adr(tag, d) /\ ST[d.cache][f.addr] \in Given(f.type)
          /\ f.type \in Gets => d.pc # "insert" /\ d.type = f.type
          /\ f.type \in Puts => d.pc = "insert"
          /\ f.type \in Gets \cup Puts
      BY <1>1, <1>3, <2>1 DEF Link, ChildMay, Own
    <3>2. CASE f.type \in Gets
      BY <3>1, <3>2 DEF Ready, Given, Gets
    <3>3. CASE f.type \in Puts
      BY <3>1, <3>3 DEF Ready, Given, Puts
    <3> QED
      BY <3>1, <3>2, <3>3
  <2>7. FrameAt(ST, SH, tag, stack[t], n - 1)
    BY <1>3, <2>1
  <2>8. /\ n - 1 = 1 => ~d.own /\ d.type \in Gets
        /\ n - 1 > 1 => Link(ST, tag, stack[t][n - 2], d)
    <3>1. (n - 1) - 1 = n - 2
      BY <1>2
    <3> QED
      BY <1>3, <2>1, <2>7, <3>1 DEF FrameAt
  <2>9. d.pc = "inval" <=> stack[t][n - 1].pc = "inval"
    BY <1>3, <2>1
  <2>10. \A i \in 1 .. n : i < n - 1 => FrameAt(ST, SH, tag, stack[t], i)
    BY <1>3
  <2>11. Own(ST, SH, tag, d)
    BY <1>3, <2>1
  <2> HIDE DEF f, g, d, n
  <2>12. FramesInv(ST, SH, tag, stack'[t])
    BY <1>2, <2>1, <2>2, <2>6, <2>8, <2>9, <2>10, <2>11, FramesPop DEF n
  <2> QED
    BY <1>1, <1>4, <2>2, <2>5, <2>12, SameArrays
<1> QED
  BY <1>5, <1>6

LEMMA FillCoherent ==
    ASSUME LocksInv, CoherenceInv, NEW t \in Cores, Fill(t)
    PROVE  CoherenceInv'
<1>1. stack[t] # <<>> /\ Top(t).pc = "fill" /\ UNCHANGED arrayVars
  BY DEF Fill, At
<1>2. stack' = [stack EXCEPT ![t] = <<>>] /\ DOMAIN stack = Cores
  BY DEF Fill, LocksInv, ShapeInv
<1>3. SameOthers(t) /\ stack'[t] = <<>>
  BY <1>2 DEF SameOthers
<1>4. Len(stack'[t]) = 0
  BY <1>3
<1>5. Jobs(tag, stack') = JS
  <2>1. \A i \in 1 .. Len(stack'[t]) : stack'[t][i].pc \notin Sending
    BY <1>4
  <2> QED
    BY <1>1, <1>3, <2>1, JobsSame DEF Sending, SameOthers, StackElse
<1>6. FramesInv(ST, SH, tag, stack'[t])
  BY <1>4 DEF FramesInv
<1>7. Rel(ST, SH, EX, JS)
  BY DEF CoherenceInv
<1> QED
  BY <1>1, <1>3, <1>5, <1>6, <1>7, SameArrays

LEMMA ContextSwitchCoherent ==
    ASSUME LocksInv, CoherenceInv, NEW t \in Cores, NEW c \in FirstLevel[t], ContextSwitch(t, c)
    PROVE  CoherenceInv'
<1>1. UNCHANGED arrayVars /\ stack' = stack
  BY DEF ContextSwitch
<1>2. SameOthers(t) /\ Jobs(tag, stack') = JS
  BY <1>1 DEF SameOthers, JS
<1>3. FramesInv(ST, SH, tag, stack'[t]) /\ Rel(ST, SH, EX, JS)
  BY <1>1 DEF CoherenceInv
<1> QED
  BY <1>1, <1>2, <1>3, SameArrays

\* A cache serves the addresses that its children ask it for.
LEMMA ServedFacts ==
    /\ \A c \in Caches : Served[c] \subseteq Addrs
    /\ \A t \in Cores : \A c \in FirstLevel[t] : Served[c] = Addrs
    /\ \A c \in Caches : \A a \in Served[c] : Parent[c][a] # Memory => a \in Served[Parent[c][a]]
    /\ \A c, d \in Caches : \A a \in Served[c] \cap Served[d] :
           Parent[c][a] = Memory /\ Parent[d][a] = Memory => c = d
<1> DEFINE Good(served) ==
             /\ \A t \in Cores : \A c \in FirstLevel[t] : served[c] = Addrs
             /\ \A c \in Caches : \A a \in served[c] :
                    Parent[c][a] # Memory => a \in served[Parent[c][a]]
             /\ \A c, d \in Caches : \A a \in served[c] \cap served[d] :
                    Parent[c][a] = Memory /\ Parent[d][a] = Memory => c = d
<1>1. \E served \in [Caches -> SUBSET Addrs] : Good(served)
  BY HierarchyAssumption
<1>2. Served = CHOOSE served \in [Caches -> SUBSET Addrs] : Good(served)
  BY DEF Served
<1> HIDE DEF Good
<1>3. Served \in [Caches -> SUBSET Addrs] /\ Good(Served)
  BY <1>1, <1>2
<1> QED
  BY <1>3 DEF Good

LEMMA ReplaceCoherent ==
    ASSUME LocksInv, CoherenceInv, NEW t \in Cores, NEW c \in FirstLevel[t], NEW a \in Addrs, NEW type \in Gets,
           Replace(t, c, a, type)
    PROVE  CoherenceInv'
<1> DEFINE g == AccessFrame(c, a, type, "I", FALSE, ReqFlags(c))
<1>1. stack[t] = <<>> /\ UNCHANGED arrayVars /\ DOMAIN stack = Cores
  BY DEF Replace, LocksInv, ShapeInv
<1>2. stack' = [stack EXCEPT ![t] = <<g>>]
  BY DEF Replace
<1>3. SameOthers(t) /\ stack'[t] = <<g>>
  BY <1>1, <1>2 DEF SameOthers
<1>4. c \in Caches /\ Terminal(c) /\ Served[c] = Addrs
  BY TerminalFacts, ServedFacts
<1>5. /\ g.pc = "bcc" /\ g.addr = a /\ g.cache = c /\ g.flags = {} /\ g.type = type /\ ~g.own
  BY <1>4 DEF AccessFrame, Carried
<1> HIDE DEF g
<1>6. Len(stack'[t]) = 1 /\ stack'[t][1] = g
  BY <1>3
<1>7. Jobs(tag, stack') = JS
  <2>1. \A i \in 1 .. Len(stack'[t]) : stack'[t][i].pc \notin Sending
    BY <1>5, <1>6 DEF Sending
  <2> QED
    BY <1>1, <1>3, <2>1, JobsSame DEF SameOthers, StackElse
<1>8. Own(ST, SH, tag, g) /\ Ready(ST, tag, g)
  BY <1>4, <1>5 DEF Own, Ready, Sending
<1>9. FramesInv(ST, SH, tag, stack'[t])
  BY <1>5, <1>6, <1>8 DEF FramesInv, FrameAt
<1>10. Rel(ST, SH, EX, JS)
  BY DEF CoherenceInv
<1> QED
  BY <1>1, <1>3, <1>7, <1>9, <1>10, SameArrays

\* The jobs after a step that replaces the top frame of an access.
LEMMA JobsTop ==
    ASSUME LocksInv, NEW t \in Cores, stack[t] # <<>>, Top(t).pc # "inval", NEW k, StackElse(k, t),
           NEW f, TopSet(stack[t], k[t], f), bccLock[Top(t).cache] \in {None, t},
           NEW h, TagsElse(h, {Top(t).cache})
    PROVE  /\ f.pc \notin Sending => Jobs(h, k) = Replaced(JS, {Top(t).cache}, {})
           /\ f.pc \in Sending => Jobs(h, k) = Replaced(JS, {Top(t).cache}, {Job(h, k[t], Len(stack[t]))})
<1> DEFINE c == Top(t).cache
           n == Len(stack[t])
<1>1. n \in Nat \ {0} /\ c \in Caches
  BY TopOK
<1>2. n \in 1 .. n /\ Len(k[t]) = n /\ k[t][n] = f
  BY <1>1 DEF TopSet
<1>3. SentIn(t, {c})
  BY DEF SentIn
<1>4. QuietIn(t, {c})
  BY <1>1, OtherSenders DEF QuietIn
<1>5. \A i \in 1 .. n : i = n \/ k[t][i].pc \notin Sending
  <2>1. \A i \in 1 .. n : i < n => k[t][i].pc \notin Sending
    BY NoneBelow DEF TopSet
  <2>2. \A i \in 1 .. n : i = n \/ i < n
    BY <1>1
  <2> QED
    BY <2>1, <2>2
<1>6. CASE f.pc \notin Sending
  <2>1. JobsOf(h, k[t], {}) /\ {} \subseteq Jobs(h, k)
    BY <1>2, <1>5, <1>6 DEF JobsOf
  <2>2. Jobs(h, k) = Replaced(JS, {c}, {})
    BY <1>3, <1>4, <2>1, JobsStep
  <2> QED
    BY <1>6, <2>2
<1>7. CASE f.pc \in Sending
  <2>1. JobsOf(h, k[t], {Job(h, k[t], n)})
    BY <1>2, <1>5 DEF JobsOf
  <2>2. Job(h, k[t], n) \in Jobs(h, k)
    BY <1>2, <1>7, JobIff
  <2>3. {Job(h, k[t], n)} \subseteq Jobs(h, k)
    BY <2>2
  <2>4. Jobs(h, k) = Replaced(JS, {c}, {Job(h, k[t], n)})
    BY <1>3, <1>4, <2>1, <2>3, JobsStep
  <2> QED
    BY <1>7, <2>4
<1> QED
  BY <1>6, <1>7

LEMMA NoJob ==
    ASSUME LocksInv, NEW c, c \in Caches => bccLock[c] = None, NEW N
    PROVE  (\A j \in JS : j.cache # c) /\ Replaced(JS, {c}, N) = JS \cup N
<1>1. \A j \in JS : j.cache # c
  BY OneJob
<1> QED
  BY <1>1 DEF Replaced

\* The line of an access as its caller sees it.
LEMMA ChildStateIs ==
    ASSUME LocksInv, CoherenceInv, NEW t \in Cores, stack[t] # <<>>, Top(t).pc # "inval"
    PROVE  /\ Len(stack[t]) = 1 => ChildState(t) = Top(t).init
           /\ Len(stack[t]) > 1 =>
                /\ ChildState(t) = ST[Caller(t).cache][Top(t).addr] /\ ChildState(t) \in ChildMay(Top(t))
                /\ Caller(t).line \in Lines[Caller(t).cache] /\ bcc[Caller(t).cache][Caller(t).line] = ChildState(t)
                /\ tag[Caller(t).cache][Caller(t).line] = Top(t).addr
                /\ Parent[Caller(t).cache][Top(t).addr] = Top(t).cache
<1>1. CASE Len(stack[t]) = 1
  BY <1>1, TopFrame DEF ChildState
<1>2. ASSUME Len(stack[t]) > 1
      PROVE  /\ ChildState(t) = ST[Caller(t).cache][Top(t).addr] /\ ChildState(t) \in ChildMay(Top(t))
             /\ Caller(t).line \in Lines[Caller(t).cache] /\ bcc[Caller(t).cache][Caller(t).line] = ChildState(t)
             /\ tag[Caller(t).cache][Caller(t).line] = Top(t).addr
             /\ Parent[Caller(t).cache][Top(t).addr] = Top(t).cache
  <2>1. Link(ST, tag, Caller(t), Top(t)) /\ Caller(t).cache \in Caches
    BY <1>2, TopFrame
  <2>2. /\ Top(t).own /\ Caller(t).line \in Lines[Caller(t).cache] /\ Parent[Caller(t).cache][Top(t).addr] = Top(t).cache
        /\ tag[Caller(t).cache][Caller(t).line] = Top(t).addr /\ ST[Caller(t).cache][Top(t).addr] \in ChildMay(Top(t))
    BY <2>1 DEF Link
  <2>3. ST[Caller(t).cache][tag[Caller(t).cache][Caller(t).line]] = bcc[Caller(t).cache][Caller(t).line]
    BY <2>1, <2>2, ArraysNow, ViewAt DEF ST
  <2>4. ChildState(t) = bcc[Caller(t).cache][Caller(t).line]
    BY <2>2 DEF ChildState
  <2>5. ChildState(t) = ST[Caller(t).cache][Top(t).addr]
    BY <2>2, <2>3, <2>4
  <2> QED
    BY <2>2, <2>4, <2>5
<1>3. Len(stack[t]) \in Nat \ {0}
  BY TopOK
<1>4. \A m \in Nat \ {0} : m = 1 \/ m > 1
  OBVIOUS
<1> QED
  BY <1>1, <1>2, <1>3, <1>4

\* The parent of a line that is not being upgraded has it and lists the child.
LEMMA ListedUp ==
    ASSUME LocksInv, CoherenceInv, NEW d \in Caches, NEW a \in Addrs, NEW c \in Caches, Parent[d][a] = c,
           ST[d][a] # "I", \A j \in JS : j.cache # c
    PROVE  /\ d \in SH[c][a] /\ ST[c][a] # "I"
           /\ Exclusive(ST[d][a]) => a \in EX[c] /\ Exclusive(ST[c][a])
           /\ a \in EX[c] => Exclusive(ST[d][a])
<1>1. c # Memory
  BY MesiAssumption
<1>2. UpRel(ST, SH, EX, JS) /\ EntryRel(ST, SH, EX) /\ DownRel(ST, SH, EX, JS)
  BY DEF CoherenceInv, Rel
<1>3. d \in SH[c][a] /\ (Exclusive(ST[d][a]) => a \in EX[c])
  BY <1>1, <1>2 DEF UpRel
<1>4. ST[c][a] # "I" /\ (a \in EX[c] => Exclusive(ST[c][a]))
  BY <1>2, <1>3 DEF EntryRel
<1>5. a \in EX[c] => Exclusive(ST[d][a])
  BY <1>2, <1>3 DEF DownRel
<1> QED
  BY <1>3, <1>4, <1>5

\* CheckForMESIRace leaves an access that finds its line as it expects it.
LEMMA RaceOutcome ==
    ASSUME NEW type \in Gets \cup Puts, NEW init \in Kept(type),
           NEW now \in {"I", init} \cup (IF type \in Puts THEN {"S"} ELSE {}),
           ~RaceSkips(type, now, init)
    PROVE  /\ now \in Kept(RaceType(type, now, init)) /\ RaceType(type, now, init) \in Gets \cup Puts
           /\ type \in Gets => RaceType(type, now, init) = type
           /\ type \in Puts => RaceType(type, now, init) \in Puts
<1>1. CASE type = "GETS"
  BY <1>1 DEF Kept, RaceType, RaceSkips, Gets, Puts
<1>2. CASE type = "GETX"
  BY <1>2 DEF Kept, RaceType, RaceSkips, Gets, Puts
<1>3. CASE type = "PUTS"
  BY <1>3 DEF Kept, RaceType, RaceSkips, Gets, Puts
<1>4. CASE type = "PUTX"
  BY <1>4 DEF Kept, RaceType, RaceSkips, Gets, Puts
<1> QED
  BY <1>1, <1>2, <1>3, <1>4 DEF Gets, Puts

\* The frame that startAccess and the lookup leave: nothing to do, a line found or
\* a line to evict.
LEMMA StartAccessTop ==
    ASSUME LocksInv, CoherenceInv, NEW t \in Cores, StartAccess(t)
    PROVE  LET f == Top(t)
               now == ChildState(t)
           IN
           \/ RaceSkips(f.type, now, f.init) /\ SetTop(t, Goto(f, "end"))
           \/ /\ ~RaceSkips(f.type, now, f.init)
              /\ \E l \in LineFor(f.cache, f.addr) :
                    /\ l \in Lines[f.cache]
                    /\ \/ /\ tag[f.cache][l] = f.addr
                          /\ SetTop(t, Found(f, RaceType(f.type, now, f.init), l, "access", {}))
                       \/ /\ tag[f.cache][l] # f.addr
                          /\ SetTop(t, Found(f, RaceType(f.type, now, f.init), l, "evict",
                                             Targets(tcc[f.cache][l], f.cache, "INV")))
<1> DEFINE f == Top(t)
           c == f.cache
           now == ChildState(t)
           type == RaceType(f.type, now, f.init)
<1>1. stack[t] # <<>> /\ f.pc = "bcc"
  BY DEF StartAccess, At
<1>2. f \in Frames /\ f.todo = {}
  <2>1. f \in Frames /\ FrameOK(f)
    BY <1>1, TopOK
  <2> QED
    BY <1>1, <2>1 DEF FrameOK, Sending
<1>3. CASE RaceSkips(f.type, now, f.init)
  <2>1. SetTop(t, Goto(f, "end"))
    BY <1>3 DEF StartAccess
  <2> QED
    BY <1>3, <2>1
<1>4. CASE ~RaceSkips(f.type, now, f.init)
  <2>1. PICK l \in LineFor(c, f.addr) :
            SetTop(t, IF tag[c][l] = f.addr
                      THEN Goto([f EXCEPT !.type = type, !.line = l], "access")
                      ELSE [Goto([f EXCEPT !.type = type, !.line = l], "evict") EXCEPT
                              !.todo = Targets(tcc[c][l], c, "INV")])
    BY <1>4 DEF StartAccess
  <2>2. l \in Lines[c]
    BY <2>1 DEF LineFor, Lookup
  <2>3. Goto([f EXCEPT !.type = type, !.line = l], "access") = Found(f, type, l, "access", {})
    <3>1. Goto([f EXCEPT !.type = type, !.line = l], "access") = Found(f, type, l, "access", f.todo)
      BY <1>2, FoundGoto, Zenon
    <3> QED
      BY <1>2, <3>1
  <2>4. [Goto([f EXCEPT !.type = type, !.line = l], "evict") EXCEPT !.todo = Targets(tcc[c][l], c, "INV")]
            = Found(f, type, l, "evict", Targets(tcc[c][l], c, "INV"))
    <3> DEFINE k == Goto([f EXCEPT !.type = type, !.line = l], "evict")
    <3>1. k = Found(f, type, l, "evict", f.todo)
      BY <1>2, FoundGoto, Zenon
    <3> HIDE DEF k
    <3>2. [k EXCEPT !.todo = Targets(tcc[c][l], c, "INV")] = Found(f, type, l, "evict", Targets(tcc[c][l], c, "INV"))
      BY <3>1 DEF Found
    <3> QED
      BY <3>2 DEF k
  <2>5. CASE tag[c][l] = f.addr
    <3>1. SetTop(t, Found(f, type, l, "access", {}))
      BY <2>1, <2>3, <2>5
    <3> QED
      BY <1>4, <2>1, <2>2, <2>5, <3>1
  <2>6. CASE tag[c][l] # f.addr
    <3>1. SetTop(t, Found(f, type, l, "evict", Targets(tcc[c][l], c, "INV")))
      BY <2>1, <2>4, <2>6
    <3> QED
      BY <1>4, <2>1, <2>2, <2>6, <3>1
  <2> QED
    BY <2>5, <2>6
<1> QED
  BY <1>3, <1>4

LEMMA FoundFields ==
    \A f, type, l, pc, todo :
       LET g == Found(f, type, l, pc, todo) IN
           /\ g.cache = f.cache /\ g.addr = f.addr /\ g.type = type /\ g.init = f.init /\ g.own = f.own
           /\ g.flags = f.flags /\ g.pc = pc /\ g.line = l /\ g.wb = f.wb /\ g.todo = todo
BY DEF Found

\* Arrays, others and the stack below the top do not change: what the new top g
\* of an access has to satisfy.
LEMMA NewTop ==
    ASSUME LocksInv, CoherenceInv, NEW t \in Cores, stack[t] # <<>>, Top(t).pc # "inval",
           NEW g \in Frames, SetTop(t, g), UNCHANGED arrayVars, g.pc # "inval",
           g.own = Top(t).own, g.type \in Gets <=> Top(t).type \in Gets,
           Own(ST, SH, tag, g), Ready(ST, tag, g),
           Len(stack[t]) > 1 => Link(ST, tag, Caller(t), g),
           Rel(ST, SH, EX, Jobs(tag, stack'))
    PROVE  CoherenceInv'
<1> DEFINE f == Top(t)
           n == Len(stack[t])
<1>1. StackType /\ n \in Nat \ {0} /\ f = stack[t][n]
  BY TopOK
<1>2. SameOthers(t) /\ TopSet(stack[t], stack'[t], g)
  BY <1>1, SetTopStack
<1>3. /\ n = 1 => ~f.own /\ f.type \in Gets
      /\ n > 1 => Caller(t) = stack[t][n - 1]
      /\ \A i \in 1 .. n : FrameAt(ST, SH, tag, stack[t], i)
  BY TopFrame
<1>4. n > 1 => Link(ST, tag, stack[t][n - 1], g)
  BY <1>3
<1>5. n = 1 => ~g.own /\ g.type \in Gets
  BY <1>3
<1>6. FramesInv(ST, SH, tag, stack'[t])
  <2> HIDE DEF f, n
  <2>1. f.pc # "inval" /\ g.pc # "inval"
    BY DEF f
  <2> QED
    BY <1>1, <1>2, <1>3, <1>4, <1>5, <2>1, FramesTop DEF n
<1> QED
  BY <1>2, <1>6, SameArrays

LEMMA StartAccessCoherent ==
    ASSUME LocksInv, CoherenceInv, NEW t \in Cores, StartAccess(t)
    PROVE  CoherenceInv'
<1> DEFINE f == Top(t)
           c == f.cache
           a == f.addr
           n == Len(stack[t])
           d == Caller(t)
           now == ChildState(t)
           type == RaceType(f.type, now, f.init)
<1>1. stack[t] # <<>> /\ f.pc = "bcc" /\ bccLock[c] = None /\ UNCHANGED arrayVars
  BY DEF StartAccess, At
<1>2. /\ f \in Frames /\ FrameOK(f) /\ StackType /\ n \in Nat \ {0} /\ f = stack[t][n]
      /\ c \in Caches /\ a \in Addrs /\ ~f.wb
  <2>1. /\ f \in Frames /\ FrameOK(f) /\ StackType /\ n \in Nat \ {0} /\ f = stack[t][n]
        /\ c \in Caches /\ a \in Addrs
    BY <1>1, TopOK
  <2> QED
    BY <1>1, <2>1 DEF FrameOK
<1>3. /\ Own(ST, SH, tag, f)
      /\ n = 1 => ~f.own /\ f.type \in Gets
      /\ n > 1 => Link(ST, tag, d, f) /\ LinkOK(d, f) /\ d \in Frames /\ d.cache \in Caches /\ d.cache # c
  BY <1>1, TopFrame
<1>4. /\ n = 1 => now = f.init
      /\ n > 1 => now = ST[d.cache][a] /\ now \in ChildMay(f) /\ Parent[d.cache][a] = c
  BY <1>1, ChildStateIs
<1>5. f.type \in Gets \cup Puts /\ a \in Served[c] /\ f.flags = {}
  BY <1>1, <1>3 DEF Own
<1>6. Rel(ST, SH, EX, JS) /\ TagInv(tag) /\ EntryInv(tcc) /\ EntryRel(ST, SH, EX)
  BY DEF CoherenceInv, Rel
<1>7. n = 1 \/ n > 1
  <2>1. \A m \in Nat \ {0} : m = 1 \/ m > 1
    OBVIOUS
  <2> QED
    BY <1>2, <2>1
<1>8. /\ \A j \in JS : j.cache # c
      /\ \A N : Replaced(JS, {c}, N) = JS \cup N
  BY <1>1, NoJob
<1>9. TagsElse(tag, {c})
  BY DEF TagsElse
<1>10. ASSUME NEW g \in Frames, SetTop(t, g)
       PROVE  /\ StackElse(stack', t) /\ TopSet(stack[t], stack'[t], g)
              /\ g.pc \notin Sending => Jobs(tag, stack') = JS
              /\ g.pc \in Sending => Jobs(tag, stack') = JS \cup {Job(tag, stack'[t], n)}
  <2>1. StackElse(stack', t) /\ TopSet(stack[t], stack'[t], g)
    BY <1>1, <1>2, <1>10, SetTopStack DEF SameOthers, StackElse
  <2>2. f.pc # "inval" /\ bccLock[c] \in {None, t}
    BY <1>1
  <2>3. /\ g.pc \notin Sending => Jobs(tag, stack') = Replaced(JS, {c}, {})
        /\ g.pc \in Sending => Jobs(tag, stack') = Replaced(JS, {c}, {Job(tag, stack'[t], n)})
    BY <1>1, <1>9, <2>1, <2>2, JobsTop
  <2> QED
    BY <1>8, <2>1, <2>3
<1>11. CASE RaceSkips(f.type, now, f.init) /\ SetTop(t, Goto(f, "end"))
  <2> DEFINE g == Goto(f, "end")
  <2>1. /\ g \in Frames /\ g.pc = "end" /\ g.cache = c /\ g.addr = a /\ g.type = f.type
        /\ g.own = f.own /\ g.init = f.init /\ g.flags = f.flags /\ g.wb = f.wb
    BY <1>2, GotoFrame DEF PCs
  <2>2. f.type \in Puts /\ f.type \notin Gets /\ now = "I"
    BY <1>11 DEF RaceSkips, Puts, Gets
  <2>3. Own(ST, SH, tag, g) /\ Ready(ST, tag, g)
    BY <1>3, <1>5, <2>1, <2>2 DEF Own, Ready, Sending, Gets
  <2> HIDE DEF g
  <2>4. n > 1 => Link(ST, tag, d, g)
    <3> SUFFICES ASSUME n > 1 PROVE Link(ST, tag, d, g)
      OBVIOUS
    <3>1. ST[d.cache][a] \in ChildMay(g)
      BY <1>4, <2>1, <2>2 DEF ChildMay, Given, Puts
    <3> QED
      BY <1>1, <1>3, <2>1, <2>2, <3>1 DEF Link
  <2>5. Rel(ST, SH, EX, Jobs(tag, stack'))
    BY <1>6, <1>10, <1>11, <2>1 DEF Sending, g
  <2>6. SetTop(t, g)
    BY <1>11 DEF g
  <2>7. f.pc # "inval" /\ g.pc # "inval" /\ g.own = f.own /\ (g.type \in Gets <=> f.type \in Gets)
    BY <1>1, <2>1
  <2> QED
    BY <1>1, <2>1, <2>3, <2>4, <2>5, <2>6, <2>7, NewTop
<1>12. ASSUME ~RaceSkips(f.type, now, f.init)
       PROVE  /\ type \in Gets \cup Puts /\ (f.type \in Gets => type = f.type) /\ (f.type \in Puts => type \in Puts)
              /\ n > 1 => now \in Kept(type)
  <2>1. CASE n > 1
    <3>1. f.init \in Kept(f.type) /\ now \in {"I", f.init} \cup (IF f.type \in Puts THEN {"S"} ELSE {})
      BY <1>1, <1>3, <1>4, <2>1 DEF Link, ChildMay
    <3> QED
      BY <1>5, <1>12, <3>1, RaceOutcome
  <2>2. CASE n = 1
    <3>1. type = f.type
      BY <1>4, <2>2 DEF RaceType
    <3> QED
      BY <1>3, <2>2, <3>1
  <2> QED
    BY <1>7, <2>1, <2>2
<1>13. \A k \in MESIState : k \in Kept("PUTS") \cup Kept("PUTX") => k # "I"
  BY DEF Kept
<1>14. ASSUME ~RaceSkips(f.type, now, f.init), NEW l \in LineFor(c, a), l \in Lines[c], tag[c][l] = a,
              SetTop(t, Found(f, type, l, "access", {}))
       PROVE  CoherenceInv'
  <2> DEFINE g == Found(f, type, l, "access", {})
  <2>1. /\ g.cache = c /\ g.addr = a /\ g.type = type /\ g.init = f.init /\ g.own = f.own
        /\ g.flags = f.flags /\ g.pc = "access" /\ g.line = l /\ g.wb = f.wb
    BY FoundFields
  <2>2. g \in Frames
    BY <1>2, <1>12, <1>14, FoundFrame
  <2>3. /\ type \in Gets \cup Puts /\ (f.type \in Gets => type = f.type) /\ (f.type \in Puts => type \in Puts)
        /\ n > 1 => now \in Kept(type)
    BY <1>12, <1>14
  <2> HIDE DEF type, g
  <2>4. Own(ST, SH, tag, g) /\ Ready(ST, tag, g)
    BY <1>2, <1>5, <1>14, <2>1, <2>3 DEF Own, Ready, Sending
  <2>5. n > 1 => Link(ST, tag, d, g)
    BY <1>1, <1>3, <1>4, <1>5, <2>1, <2>3 DEF Link, ChildMay, Gets, Puts
  <2>6. Rel(ST, SH, EX, Jobs(tag, stack'))
    BY <1>6, <1>10, <1>14, <2>1, <2>2 DEF Sending, g, type
  <2>7. SetTop(t, g)
    BY <1>14 DEF g, type
  <2>8. f.pc # "inval" /\ g.pc # "inval" /\ g.own = f.own /\ (g.type \in Gets <=> f.type \in Gets)
    BY <1>1, <1>5, <2>1, <2>3 DEF Gets, Puts
  <2> QED
    BY <1>1, <2>2, <2>4, <2>5, <2>6, <2>7, <2>8, NewTop
<1>15. ASSUME ~RaceSkips(f.type, now, f.init), NEW l \in LineFor(c, a), l \in Lines[c], tag[c][l] # a,
              SetTop(t, Found(f, type, l, "evict", Targets(tcc[c][l], c, "INV")))
       PROVE  CoherenceInv'
  <2> DEFINE e == tcc[c][l]
             g == Found(f, type, l, "evict", Targets(e, c, "INV"))
             b == tag[c][l]
             j == Job(tag, stack'[t], n)
  <2>1. e \in Entries /\ EntryOK(e, c) /\ b \in Slots
    BY <1>2, <1>6, <1>15 DEF LocksInv, LineInv, PerLine, EntryInv, Slots
  <2>2. Targets(e, c, "INV") = e.sharers /\ e.sharers \subseteq Caches /\ SH[c][b] = e.sharers
    <3>1. Targets(e, c, "INV") = e.sharers /\ e.sharers \subseteq Caches
      BY <1>2, <2>1, TargetsAre DEF Entries
    <3>2. SH[c][b] = e.sharers
      BY <1>2, <1>15, ArraysNow, ViewAt DEF SH
    <3> QED
      BY <3>1, <3>2
  <2>3. /\ g.cache = c /\ g.addr = a /\ g.type = type /\ g.init = f.init /\ g.own = f.own
        /\ g.flags = f.flags /\ g.pc = "evict" /\ g.line = l /\ g.wb = f.wb /\ g.todo = e.sharers
    <3>1. g.todo = Targets(e, c, "INV")
      BY FoundFields
    <3> QED
      BY <2>2, <3>1, FoundFields
  <2>4. g \in Frames
    <3>1. Targets(e, c, "INV") \in SUBSET Caches
      BY <2>2
    <3> QED
      BY <1>2, <1>12, <1>15, <3>1, FoundFrame
  <2>5. /\ type \in Gets \cup Puts /\ (f.type \in Gets => type = f.type) /\ (f.type \in Puts => type \in Puts)
        /\ n > 1 => now \in Kept(type)
    BY <1>12, <1>15
  <2>6. \A m \in Lines[c] : tag[c][m] # a
    BY <1>15 DEF LineFor, Lookup
  <2>7. type \in Gets
    <3> SUFFICES ASSUME type \in Puts PROVE FALSE
      BY <2>5
    <3>1. n > 1
      BY <1>3, <1>5, <1>7, <2>5 DEF Gets, Puts
    <3>2. ST[d.cache][a] # "I" /\ Parent[d.cache][a] = c /\ d.cache \in Caches
      BY <1>3, <1>4, <2>5, <3>1 DEF Kept, Puts
    <3>3. ST[c][a] # "I"
      BY <1>2, <1>8, <3>2, ListedUp
    <3>4. ~Has(tag, c, a)
      BY <2>6 DEF Has
    <3>5. a \in Slots
      BY <1>2 DEF Slots
    <3>6. ST[c][a] = "I"
      BY <1>2, <3>4, <3>5, ArraysNow, ViewAt DEF ST
    <3> QED
      BY <3>3, <3>6
  <2> HIDE DEF type, g
  <2>8. SetTop(t, g)
    BY <1>15 DEF g, type
  <2>9. /\ Len(stack'[t]) = n /\ stack'[t][n] = g
        /\ Jobs(tag, stack') = JS \cup {j}
    <3>1. g.pc \in Sending
      BY <2>3 DEF Sending
    <3>2. TopSet(stack[t], stack'[t], g)
      BY <1>10, <2>4, <2>8
    <3> QED
      BY <1>10, <2>4, <2>8, <3>1, <3>2 DEF TopSet
  <2>10. j.cache = c /\ j.addr = b /\ j.type = "INV" /\ j.left = e.sharers /\ j.up = {}
    <3>1. Adr(tag, g) = b /\ SendType(g) = "INV" /\ g.pc # "grant"
      BY <2>3 DEF Adr, SendType
    <3>2. ~(n < Len(stack'[t]))
      BY <1>2, <2>9
    <3> QED
      BY <2>3, <2>9, <3>1, <3>2 DEF Job
  <2> HIDE DEF j
  <2>11. Rel(ST, SH, EX, JS \cup {j})
    <3>1. CASE b \in Addrs
      <4>1. SetAt(SH, SH, c, b, SH[c][b] \ j.up) /\ j.type \in InvTypes
        BY <2>10 DEF SetAt, InvTypes
      <4>2. j.left = IF j.type = "INV" \/ b \in EX[c] THEN SH[c][b] ELSE {}
        BY <2>2, <2>10
      <4> QED
        BY <1>2, <1>6, <1>8, <2>10, <3>1, <4>1, <4>2, BeginRel
    <3>2. CASE b \notin Addrs
      <4>1. \A i \in JS \cup {j} : i.cache \in Caches /\ (i.addr \in Addrs => i \in JS)
        BY <1>2, <2>10, <3>2, OneJob
      <4> QED
        BY <1>6, <4>1, RelSame
    <3> QED
      BY <3>1, <3>2
  <2>12. Own(ST, SH, tag, g) /\ Ready(ST, tag, g)
    BY <1>2, <1>5, <1>15, <2>3, <2>6, <2>7 DEF Own, Ready, Sending
  <2>13. n > 1 => Link(ST, tag, d, g)
    BY <1>1, <1>3, <1>4, <1>5, <2>3, <2>5 DEF Link, ChildMay, Gets, Puts
  <2>14. f.pc # "inval" /\ g.pc # "inval" /\ g.own = f.own /\ (g.type \in Gets <=> f.type \in Gets)
    BY <1>1, <1>5, <2>3, <2>5 DEF Gets, Puts
  <2> QED
    BY <1>1, <2>4, <2>8, <2>9, <2>11, <2>12, <2>13, <2>14, NewTop
<1> QED
  BY <1>11, <1>14, <1>15, StartAccessTop

\* What a frame sends.
LEMMA SenderFacts ==
    ASSUME LocksInv, NEW t \in Cores, NEW i \in 1 .. Len(stack[t]), stack[t][i].pc \in Sending
    PROVE  /\ Adr(tag, stack[t][i]) = SendAddr(stack[t][i]) /\ SendType(stack[t][i]) \in InvTypes
           /\ Job(tag, stack[t], i) \in JS
<1> DEFINE f == stack[t][i]
<1>1. FrameOK(f)
  BY FrameType
<1>2. Adr(tag, f) = SendAddr(f)
  BY DEF Adr, SendAddr, Sending
<1>3. SendType(f) \in InvTypes
  <2>1. CASE f.pc = "evict"
    BY <2>1 DEF SendType, InvTypes
  <2>2. CASE f.pc = "grant"
    BY <2>2 DEF SendType, InvTypes
  <2>3. CASE f.pc = "inval"
    BY <1>1, <2>3 DEF SendType, FrameOK
  <2> QED
    BY <2>1, <2>2, <2>3 DEF Sending
<1>4. Job(tag, stack[t], i) \in JS
  BY JobIff DEF JS
<1> QED
  BY <1>2, <1>3, <1>4

\* The line of an address that a cache has a state for.
LEMMA LineOf ==
    ASSUME LocksInv, CoherenceInv, NEW d \in Caches, NEW a \in Addrs, ST[d][a] # "I"
    PROVE  Lookup(d, a) # {} /\ Line(d, a) \in Lines[d] /\ tag[d][Line(d, a)] = a
<1>1. a \in Slots
  BY DEF Slots
<1>2. Has(tag, d, a)
  BY <1>1, ArraysNow, ViewAt DEF ST
<1>3. Lookup(d, a) # {}
  BY <1>2 DEF Has, Lookup
<1>4. Line(d, a) \in Lookup(d, a)
  BY <1>3 DEF Line
<1> QED
  BY <1>3, <1>4 DEF Lookup

\* The child that a frame tells next has the line, in a state that can be given up.
LEMMA SendFacts ==
    ASSUME LocksInv, CoherenceInv, NEW t \in Cores, stack[t] # <<>>, Top(t).todo # {}
    PROVE  LET f == Top(t)
               d == NextChild(f)
               a == SendAddr(f)
           IN
           /\ f.pc \in Sending /\ d \in f.todo /\ d \in Caches /\ d \in Range(Children[f.cache])
           /\ a \in Addrs /\ Adr(tag, f) = a /\ SendType(f) \in InvTypes /\ Parent[d][a] = f.cache
           /\ ST[d][a] # "I" /\ (SendType(f) = "INVX" => Exclusive(ST[d][a]))
           /\ Line(d, a) \in Lines[d] /\ tag[d][Line(d, a)] = a
<1> DEFINE f == Top(t)
           c == f.cache
           n == Len(stack[t])
           d == NextChild(f)
           a == SendAddr(f)
           j == Job(tag, stack[t], n)
<1>1. /\ f \in Frames /\ FrameOK(f) /\ c \in Caches /\ f.addr \in Addrs /\ n \in Nat \ {0}
      /\ f = stack[t][n] /\ TagOK(tag, f, FALSE)
  BY TopOK
<1>2. f.pc \in Sending /\ f.todo \subseteq Range(Children[c]) /\ n \in 1 .. n
  BY <1>1 DEF FrameOK
<1>3. d \in f.todo /\ d \in Range(Children[c]) /\ d \in Caches
  BY <1>1, <1>2, NextChildIn, LevelFacts
<1>4. Adr(tag, f) = a /\ SendType(f) \in InvTypes /\ j \in JS
  BY <1>1, <1>2, SenderFacts
<1>5. a \in Addrs
  <2>1. CASE f.pc = "evict"
    <3>1. tag[c][f.line] # None
      BY <1>1, <2>1 DEF TagOK
    <3>2. f.line \in Lines[c]
      BY <1>1, <2>1 DEF FrameOK
    <3>3. tag[c][f.line] \in Addrs
      BY <1>1, <3>1, <3>2 DEF LocksInv, LineInv, PerLine
    <3> QED
      BY <2>1, <3>3 DEF SendAddr
  <2>2. CASE f.pc # "evict"
    BY <1>1, <2>2 DEF SendAddr
  <2> QED
    BY <2>1, <2>2
<1>6. j.cache = c /\ j.addr = a /\ j.type = SendType(f) /\ d \in j.left
  BY <1>1, <1>3, <1>4 DEF Job
<1> HIDE DEF d, a, j
<1>7. ToldOK(ST, SH, EX, j) /\ DownRel(ST, SH, EX, JS) /\ EntryRel(ST, SH, EX)
  BY <1>4, <1>5, <1>6 DEF CoherenceInv, Rel, ToldRel
<1>8. d \in SH[c][a] /\ (j.type = "INVX" => a \in EX[c])
  BY <1>6, <1>7 DEF ToldOK
<1>9. Parent[d][a] = c
  BY <1>1, <1>5, <1>7, <1>8 DEF EntryRel
<1>10. \A k \in JS : k.cache = c /\ k.addr = a => d \in k.left
  <2>1. \A k \in JS : k.cache = c => k = j
    BY <1>4, <1>6, OneJob
  <2> QED
    BY <1>6, <2>1
<1>11. ST[d][a] # "I" /\ (a \in EX[c] => Exclusive(ST[d][a]))
  BY <1>1, <1>5, <1>7, <1>8, <1>10 DEF DownRel
<1>12. Line(d, a) \in Lines[d] /\ tag[d][Line(d, a)] = a
  BY <1>3, <1>5, <1>11, LineOf
<1> QED
  BY <1>2, <1>3, <1>4, <1>5, <1>6, <1>8, <1>9, <1>11, <1>12 DEF d, a

\* The jobs, when a frame tells a child.
LEMMA JobsPush ==
    ASSUME LocksInv, NEW t \in Cores, stack[t] # <<>>, NEW k, StackElse(k, t), NEW g, NEW h,
           Pushed(stack[t], k[t], g, h), g.pc = Top(t).pc, g.cache = Top(t).cache, g.line = Top(t).line,
           g.addr = Top(t).addr, g.type = Top(t).type, h.pc = "inval", Top(t).todo = g.todo \cup {h.cache}
    PROVE  Jobs(tag, k) = JS \cup {Job(tag, k[t], Len(stack[t]) + 1)}
<1> DEFINE s == stack[t]
           n == Len(s)
           r == k[t]
           e == Job(tag, r, n + 1)
<1>1. /\ n \in Nat \ {0} /\ Top(t) = s[n]
  BY TopOK
<1>2. /\ Len(r) = n + 1 /\ r[n + 1] = h /\ r[n] = g
      /\ \A i \in 1 .. n : i < n => r[i] = s[i]
  BY DEF Pushed
<1>3. n \in 1 .. n + 1 /\ n + 1 \in 1 .. n + 1 /\ ~(n + 1 < n + 1) /\ n < n + 1 /\ ~(n < n)
  BY <1>1
<1> HIDE DEF n, s, r
<1>4. ASSUME NEW i \in 1 .. n
      PROVE  i \in 1 .. n + 1 /\ r[i].pc = s[i].pc /\ (s[i].pc \in Sending => Job(tag, r, i) = Job(tag, s, i))
  <2>1. i \in 1 .. n + 1 /\ (i = n \/ i < n) /\ i < n + 1
    BY <1>1
  <2>2. r[i].pc = s[i].pc /\ r[i].cache = s[i].cache /\ r[i].addr = s[i].addr /\ r[i].type = s[i].type /\ r[i].line = s[i].line
    BY <1>1, <1>2, <2>1
  <2>3. Adr(tag, r[i]) = Adr(tag, s[i]) /\ SendType(r[i]) = SendType(s[i])
    BY <2>2 DEF Adr, SendType
  <2>4. r[i].todo \cup (IF i < Len(r) THEN {r[i + 1].cache} ELSE {}) = s[i].todo \cup (IF i < n THEN {s[i + 1].cache} ELSE {})
    <3>1. CASE i = n
      BY <1>1, <1>2, <1>3, <3>1
    <3>2. CASE i < n
      <4>1. i + 1 \in 1 .. n /\ (i + 1 = n \/ i + 1 < n)
        BY <1>1, <3>2
      <4>2. r[i + 1].cache = s[i + 1].cache
        BY <1>1, <1>2, <4>1
      <4>3. r[i] = s[i] /\ i < Len(r)
        BY <1>2, <2>1, <3>2
      <4> QED
        BY <3>2, <4>2, <4>3
    <3> QED
      BY <2>1, <3>1, <3>2
  <2>5. s[i].pc = "grant" => r[i - 1].cache = s[i - 1].cache
    <3>1. s[i].pc = "grant" => i # 1
      BY TerminalFacts DEF LocksInv, ShapeInv, Shape, FrameOK, s, n
    <3>2. i # 1 => i - 1 \in 1 .. n /\ i - 1 < n
      BY <1>1
    <3> QED
      BY <1>2, <3>1, <3>2
  <2> QED
    BY <2>1, <2>2, <2>3, <2>4, <2>5 DEF Job, n
<1>5. ASSUME NEW u \in Cores \ {t} PROVE k[u] = stack[u]
  BY DEF StackElse
<1>6. JobsStay(tag, stack, tag, k, {})
  BY <1>2, <1>4, <1>5 DEF JobsStay, n, s, r
<1>7. JobsNew(tag, stack, tag, k, {}, {e})
  <2> SUFFICES ASSUME NEW u \in Cores, NEW i \in 1 .. Len(k[u]), k[u][i].pc \in Sending
               PROVE  \/ Job(tag, k[u], i) \in {e}
                      \/ /\ i \in 1 .. Len(stack[u]) /\ stack[u][i].pc \in Sending /\ stack[u][i].cache \notin {}
                         /\ Job(tag, k[u], i) = Job(tag, stack[u], i)
    BY DEF JobsNew
  <2>1. CASE u # t
    BY <1>5, <2>1
  <2>2. CASE u = t
    <3>1. i = n + 1 \/ i \in 1 .. n
      BY <1>1, <1>2, <2>2 DEF r
    <3> QED
      BY <1>4, <2>2, <3>1 DEF n, s, r
  <2> QED
    BY <2>1, <2>2
<1>8. {e} \subseteq Jobs(tag, k)
  <2>1. h.pc \in Sending
    BY DEF Sending
  <2> QED
    BY <1>2, <1>3, <2>1, JobIff DEF r
<1>9. Jobs(tag, k) = {j \in Jobs(tag, stack) : j.cache \notin {}} \cup {e}
  BY <1>6, <1>7, <1>8, JobsChange
<1> QED
  BY <1>9 DEF JS, n, s, r

LEMMA StartInvalidateCoherent ==
    ASSUME LocksInv, CoherenceInv, NEW t \in Cores, StartInvalidate(t)
    PROVE  CoherenceInv'
<1> DEFINE f == Top(t)
           c == f.cache
           n == Len(stack[t])
           d == NextChild(f)
           a == SendAddr(f)
           type == SendType(f)
           l == Line(d, a)
           e == tcc[d][l]
           todo == Targets(e, d, type)
           g == [f EXCEPT !.todo = @ \ {d}]
           h == InvFrame(d, a, type, l, todo)
           j == Job(tag, stack'[t], n + 1)
<1>1. /\ stack[t] # <<>> /\ f.todo # {} /\ bccLock[d] = None /\ Call(t, g, h) /\ UNCHANGED arrayVars
  BY DEF StartInvalidate, CanStartInv
<1>2. /\ f \in Frames /\ FrameOK(f) /\ StackType /\ n \in Nat \ {0} /\ f = stack[t][n]
      /\ c \in Caches /\ f.addr \in Addrs
  BY <1>1, TopOK
<1>3. /\ f.pc \in Sending /\ d \in f.todo /\ d \in Caches /\ d \in Range(Children[c])
      /\ a \in Addrs /\ Adr(tag, f) = a /\ type \in InvTypes /\ Parent[d][a] = c
      /\ ST[d][a] # "I" /\ (type = "INVX" => Exclusive(ST[d][a]))
      /\ l \in Lines[d] /\ tag[d][l] = a
  BY <1>1, SendFacts
<1>4. /\ Own(ST, SH, tag, f) /\ Ready(ST, tag, f)
      /\ n = 1 => ~f.own /\ f.type \in Gets
      /\ n > 1 => Caller(t) = stack[t][n - 1] /\ Link(ST, tag, stack[t][n - 1], f)
      /\ \A i \in 1 .. n : FrameAt(ST, SH, tag, stack[t], i)
  BY <1>1, TopFrame
<1>5. Rel(ST, SH, EX, JS) /\ TagInv(tag) /\ EntryInv(tcc)
  BY DEF CoherenceInv
<1>6. e \in Entries /\ EntryOK(e, d) /\ SH[d][a] = e.sharers /\ (a \in EX[d] <=> isExclusive(e))
  <2>1. e \in Entries /\ EntryOK(e, d)
    BY <1>3, <1>5 DEF LocksInv, LineInv, PerLine, EntryInv
  <2>2. Arrays(tag, bcc, tcc)
    BY ArraysNow
  <2>3. SH[d][tag[d][l]] = e.sharers /\ (tag[d][l] \in EX[d] <=> isExclusive(e))
    BY <1>3, <2>2, ViewAt DEF SH, EX
  <2> QED
    BY <1>3, <2>1, <2>3
<1>7. todo = (IF type = "INV" \/ a \in EX[d] THEN SH[d][a] ELSE {}) /\ todo \in SUBSET Range(Children[d])
  <2>1. Targets(e, d, "INV") = e.sharers /\ Targets(e, d, "INVX") = IF isExclusive(e) THEN e.sharers ELSE {}
    BY <1>3, <1>6, TargetsAre
  <2> QED
    BY <1>3, <1>6, <2>1, TargetsFacts DEF InvTypes
<1>8. a # None /\ l # None
  BY <1>3, MesiAssumption
<1> HIDE DEF a, d, l, type, todo, e
<1>9. h \in Frames /\ FrameOK(h)
  BY <1>3, <1>7, <1>8, InvFrameOK
<1>10. /\ h.cache = d /\ h.addr = a /\ h.type = type /\ h.pc = "inval" /\ h.line = l /\ h.todo = todo
       /\ h.flags = {} /\ ~h.wb /\ ~h.own
  BY DEF InvFrame
<1>11. /\ g \in Frames /\ g.cache = c /\ g.pc = f.pc /\ g.line = f.line /\ g.wb = f.wb /\ g.todo = f.todo \ {d}
       /\ g.type = f.type /\ g.addr = f.addr /\ g.own = f.own /\ g.flags = f.flags /\ g.init = f.init
  BY <1>2 DEF Frames
<1> HIDE DEF g, h
<1>12. SameOthers(t) /\ Pushed(stack[t], stack'[t], g, h)
  BY <1>1, <1>2, <1>9, <1>11, CallStack
<1>13. Jobs(tag, stack') = JS \cup {j}
  <2>1. StackElse(stack', t)
    BY <1>12 DEF StackElse, SameOthers
  <2>2. f.todo = g.todo \cup {h.cache}
    BY <1>3, <1>10, <1>11
  <2> QED
    BY <1>1, <1>10, <1>11, <1>12, <2>1, <2>2, JobsPush
<1>14. j.cache = d /\ j.addr = a /\ j.type = type /\ j.left = todo /\ j.up = {}
  <2>1. Len(stack'[t]) = n + 1 /\ stack'[t][n + 1] = h /\ ~(n + 1 < Len(stack'[t]))
    BY <1>2, <1>12 DEF Pushed
  <2>2. Adr(tag, h) = a /\ SendType(h) = type
    BY <1>10 DEF Adr, SendType
  <2> QED
    BY <1>10, <2>1, <2>2 DEF Job
<1> HIDE DEF j
<1>15. Rel(ST, SH, EX, JS \cup {j})
  <2>1. SetAt(SH, SH, d, a, SH[d][a] \ j.up)
    BY <1>14 DEF SetAt
  <2>2. \A i \in JS : i.cache # d
    BY <1>1, <1>3, NoJob DEF d
  <2> QED
    BY <1>3, <1>5, <1>7, <1>14, <2>1, <2>2, BeginRel
<1>16. Own(ST, SH, tag, g) /\ Ready(ST, tag, g)
  <2>1. Adr(tag, g) = Adr(tag, f)
    BY <1>11 DEF Adr
  <2> QED
    BY <1>4, <1>11, <2>1 DEF Own, Ready
<1>17. n > 1 => Link(ST, tag, stack[t][n - 1], g)
  <2> SUFFICES ASSUME n > 1 PROVE Link(ST, tag, stack[t][n - 1], g)
    OBVIOUS
  <2>1. ChildMay(g) = ChildMay(f)
    BY <1>11 DEF ChildMay
  <2> QED
    BY <1>4, <1>11, <2>1 DEF Link
<1>18. Own(ST, SH, tag, h) /\ Ready(ST, tag, h)
  <2>1. Adr(tag, h) = a
    BY <1>10 DEF Adr
  <2>2. a \in Served[d]
    BY <1>3, <1>5, <1>8 DEF TagInv
  <2> QED
    BY <1>3, <1>10, <2>1, <2>2 DEF Own, Ready
<1>19. Link(ST, tag, g, h)
  <2>1. Adr(tag, g) = a /\ SendType(g) = type
    BY <1>3, <1>11 DEF Adr, SendType, type
  <2> QED
    BY <1>3, <1>10, <1>11, <2>1 DEF Link
<1>20. n = 1 => ~g.own /\ g.type \in Gets
  BY <1>4, <1>11
<1>21. FramesInv(ST, SH, tag, stack'[t])
  <2>1. g.pc = "inval" <=> stack[t][n].pc = "inval"
    BY <1>2, <1>11
  <2> HIDE DEF n
  <2>2. \A i \in 1 .. n : i < n => FrameAt(ST, SH, tag, stack[t], i)
    BY <1>4
  <2> QED
    BY <1>2, <1>12, <1>16, <1>17, <1>18, <1>19, <1>20, <2>1, <2>2, FramesPush DEF n
<1> QED
  BY <1>1, <1>12, <1>13, <1>15, <1>21, SameArrays

-----------------------------------------------------------------------------
(* Steps of an access that change the arrays.                              *)

\* The arrays T, G and h are those of now but for the cache of t's top frame and
\* for the state of its caller's line.
KeepsElse(t, T, G, h) ==
    /\ \A d \in Caches : d # Top(t).cache => h[d] = tag[d] /\ \A x \in Slots : G[d][x] = SH[d][x]
    /\ \A d \in Caches : \A x \in Slots :
          d = Top(t).cache \/ (Len(stack[t]) > 1 /\ d = Caller(t).cache /\ x = Top(t).addr) \/ T[d][x] = ST[d][x]

\* What is modified in the cache of t's top frame or below it still is: in T somebody
\* has it in state M, or it is no longer among the dirty lines D.
Saved(t, T, D) ==
    \A x \in Addrs :
        /\ x \in D
        /\ \/ \E d \in Caches : ST[d][x] = "M"
           \/ Top(t).pc \in Sending /\ Top(t).wb /\ Adr(tag, Top(t)) = x
        => \E d \in Caches : T[d][x] = "M"

Busy == {"evict", "insert", "access", "prefetch", "dir", "grant", "end"}

LEMMA OthersKeep ==
    ASSUME LocksInv, CoherenceInv, NEW t \in Cores, stack[t] # <<>>, Top(t).pc \in Busy,
           NEW T, NEW G, NEW h, KeepsElse(t, T, G, h)
    PROVE  /\ \A u \in Cores \ {t} : FramesInv(T, G, h, stack[u])
           /\ \A i \in 1 .. Len(stack[t]) : i < Len(stack[t]) => FrameAt(T, G, h, stack[t], i)
<1>1. ASSUME NEW u \in Cores, NEW i \in 1 .. Len(stack[u]), u # t \/ i < Len(stack[t])
      PROVE  FrameAt(T, G, h, stack[u], i)
  <2>1. Top(t).pc \notin {"tcc", "bcc", "fill", "inval"}
    BY DEF Busy
  <2> QED
    BY <1>1, <2>1, AccessKeeps DEF KeepsElse
<1> QED
  BY <1>1 DEF FramesInv

LEMMA LinkTop ==
    ASSUME NEW S, NEW T, NEW g, NEW h, NEW d, NEW e, NEW f, Link(S, g, d, f), f.pc # "inval",
           e.pc \notin {"inval", "tcc", "bcc"}, e.own = f.own, e.addr = f.addr, e.cache = f.cache, e.type = f.type,
           h[d.cache] = g[d.cache], T[d.cache][f.addr] \in ChildMay(e)
    PROVE  Link(T, h, d, e)
<1>1. Adr(h, d) = Adr(g, d)
  BY DEF Adr
<1> QED
  BY <1>1 DEF Link

\* The step that makes the top frame g.
LEMMA AccessTop ==
    ASSUME LocksInv, CoherenceInv, NEW t \in Cores, stack[t] # <<>>, Top(t).pc \in Busy,
           NEW g \in Frames, SetTop(t, g), g.pc \in Busy, g.cache = Top(t).cache, g.addr = Top(t).addr,
           g.own = Top(t).own, g.type = Top(t).type,
           TagInv(tag'), EntryInv(tcc'), KeepsElse(t, ST', SH', tag'), Rel(ST', SH', EX', JS'),
           Own(ST', SH', tag', g), Ready(ST', tag', g),
           Len(stack[t]) > 1 => ST'[Caller(t).cache][Top(t).addr] \in ChildMay(g)
    PROVE  CoherenceInv'
<1> DEFINE f == Top(t)
           s == stack[t]
           n == Len(s)
           T == ST'
           G == SH'
           h == tag'
<1>1. StackType /\ n \in Nat \ {0} /\ f = s[n] /\ f.cache \in Caches
  BY TopOK
<1>2. SameOthers(t) /\ TopSet(s, stack'[t], g)
  BY <1>1, SetTopStack
<1>3. /\ n = 1 => ~f.own /\ f.type \in Gets
      /\ n > 1 => /\ Caller(t) = s[n - 1] /\ Link(ST, tag, s[n - 1], f)
                  /\ s[n - 1].cache \in Caches /\ s[n - 1].cache # f.cache
  BY TopFrame
<1>4. f.pc # "inval" /\ g.pc \notin {"inval", "tcc", "bcc"}
  BY DEF Busy
<1>5. /\ \A u \in Cores \ {t} : FramesInv(T, G, h, stack[u])
      /\ \A i \in 1 .. n : i < n => FrameAt(T, G, h, s, i)
  BY OthersKeep
<1>6. n > 1 => Link(T, h, s[n - 1], g)
  <2> SUFFICES ASSUME n > 1 PROVE Link(T, h, s[n - 1], g)
    OBVIOUS
  <2>1. h[s[n - 1].cache] = tag[s[n - 1].cache]
    BY <1>3 DEF KeepsElse
  <2>2. T[s[n - 1].cache][f.addr] \in ChildMay(g)
    BY <1>3
  <2>3. Link(ST, tag, s[n - 1], f)
    BY <1>3
  <2> HIDE DEF f, n, s, T, h
  <2> QED
    BY <1>4, <2>1, <2>2, <2>3, LinkTop DEF f
<1>7. FramesInv(T, G, h, stack'[t])
  <2>1. n = 1 => ~g.own /\ g.type \in Gets
    BY <1>3
  <2>2. g.pc = "inval" <=> s[n].pc = "inval"
    BY <1>1, <1>4
  <2>3. Own(T, G, h, g) /\ Ready(T, h, g)
    OBVIOUS
  <2> HIDE DEF f, n, s, T, G, h
  <2> QED
    BY <1>1, <1>2, <1>5, <1>6, <2>1, <2>2, <2>3, FramesTop DEF n
<1>8. \A u \in Cores : FramesInv(T, G, h, stack'[u])
  BY <1>2, <1>5, <1>7 DEF SameOthers
<1> QED
  BY <1>8 DEF CoherenceInv

\* The step that makes the top frame g and calls e, of the parent.
LEMMA AccessCall ==
    ASSUME LocksInv, CoherenceInv, NEW t \in Cores, stack[t] # <<>>, Top(t).pc \in Busy,
           NEW g \in Frames, NEW e \in Frames, Call(t, g, e), g.pc \in Busy,
           g.cache = Top(t).cache, g.addr = Top(t).addr, g.own = Top(t).own, g.type = Top(t).type, e.pc = "tcc",
           TagInv(tag'), EntryInv(tcc'), KeepsElse(t, ST', SH', tag'), Rel(ST', SH', EX', JS'),
           Own(ST', SH', tag', g), Own(ST', SH', tag', e), Link(ST', tag', g, e),
           Len(stack[t]) > 1 => ST'[Caller(t).cache][Top(t).addr] \in ChildMay(g)
    PROVE  CoherenceInv'
<1> DEFINE f == Top(t)
           s == stack[t]
           n == Len(s)
           T == ST'
           G == SH'
           h == tag'
<1>1. StackType /\ n \in Nat \ {0} /\ f = s[n] /\ f.cache \in Caches
  BY TopOK
<1>2. SameOthers(t) /\ Pushed(s, stack'[t], g, e)
  BY <1>1, CallStack
<1>3. /\ n = 1 => ~f.own /\ f.type \in Gets
      /\ n > 1 => /\ Caller(t) = s[n - 1] /\ Link(ST, tag, s[n - 1], f)
                  /\ s[n - 1].cache \in Caches /\ s[n - 1].cache # f.cache
  BY TopFrame
<1>4. f.pc # "inval" /\ g.pc \notin {"inval", "tcc", "bcc"} /\ e.pc # "inval"
  BY DEF Busy
<1>5. /\ \A u \in Cores \ {t} : FramesInv(T, G, h, stack[u])
      /\ \A i \in 1 .. n : i < n => FrameAt(T, G, h, s, i)
  BY OthersKeep
<1>6. n > 1 => Link(T, h, s[n - 1], g)
  <2> SUFFICES ASSUME n > 1 PROVE Link(T, h, s[n - 1], g)
    OBVIOUS
  <2>1. h[s[n - 1].cache] = tag[s[n - 1].cache]
    BY <1>3 DEF KeepsElse
  <2>2. T[s[n - 1].cache][f.addr] \in ChildMay(g)
    BY <1>3
  <2>3. Link(ST, tag, s[n - 1], f)
    BY <1>3
  <2> HIDE DEF f, n, s, T, h
  <2> QED
    BY <1>4, <2>1, <2>2, <2>3, LinkTop DEF f
<1>7. FramesInv(T, G, h, stack'[t])
  <2>1. n = 1 => ~g.own /\ g.type \in Gets
    BY <1>3
  <2>2. g.pc = "inval" <=> s[n].pc = "inval"
    BY <1>1, <1>4
  <2>3. Own(T, G, h, g) /\ Own(T, G, h, e) /\ Link(T, h, g, e)
    OBVIOUS
  <2>4. Ready(T, h, e)
    BY DEF Ready
  <2> HIDE DEF f, n, s, T, G, h
  <2> QED
    BY <1>1, <1>2, <1>4, <1>5, <1>6, <2>1, <2>2, <2>3, <2>4, FramesPush DEF n
<1>8. \A u \in Cores : FramesInv(T, G, h, stack'[u])
  BY <1>2, <1>5, <1>7 DEF SameOthers
<1> QED
  BY <1>8 DEF CoherenceInv

LEMMA ArraysThen ==
    ASSUME LocksInv', TagInv(tag'), EntryInv(tcc')
    PROVE  Arrays(tag', bcc', tcc')
<1>1. /\ PerLine(tag', Slots) /\ PerLine(bcc', MESIState) /\ PerLine(tcc', Entries)
      /\ \A c \in Caches : \A l \in Lines[c] : bcc'[c][l] # "I" \/ tcc'[c][l].numSharers # 0 => tag'[c][l] # None
  BY DEF LocksInv, LineInv, Slots
<1> QED
  BY <1>1, ArraysFrom

LEMMA ElseFrom ==
    ASSUME LocksInv, CoherenceInv, NEW t, NEW g, NEW b, NEW e, Arrays(g, b, e),
           \A d \in Caches : d # Top(t).cache => g[d] = tag[d] /\ \A x \in Addrs : Sharers(g, e)[d][x] = SH[d][x],
           \A d \in Caches : \A x \in Addrs :
               \/ d = Top(t).cache \/ (Len(stack[t]) > 1 /\ d = Caller(t).cache /\ x = Top(t).addr)
               \/ States(g, b)[d][x] = ST[d][x]
    PROVE  KeepsElse(t, States(g, b), Sharers(g, e), g)
<1>1. \A d \in Caches : States(g, b)[d][None] = "I" /\ Sharers(g, e)[d][None] = {}
  BY ViewAt
<1>2. \A d \in Caches : ST[d][None] = "I" /\ SH[d][None] = {}
  <2>1. Arrays(tag, bcc, tcc)
    BY ArraysNow
  <2> QED
    BY <2>1, ViewAt DEF ST, SH
<1>3. \A x \in Slots : x \in Addrs \/ x = None
  BY DEF Slots
<1> QED
  BY <1>1, <1>2, <1>3 DEF KeepsElse

\* The jobs after an access calls the parent.
LEMMA JobsCall ==
    ASSUME LocksInv, NEW t \in Cores, stack[t] # <<>>, Top(t).pc # "inval", NEW k, StackElse(k, t),
           NEW g, NEW e, Pushed(stack[t], k[t], g, e), bccLock[Top(t).cache] = t,
           g.pc \notin Sending, e.pc \notin Sending,
           NEW h, TagsElse(h, {Top(t).cache})
    PROVE  Jobs(h, k) = Replaced(JS, {Top(t).cache}, {})
<1> DEFINE c == Top(t).cache
           n == Len(stack[t])
<1>1. n \in Nat \ {0} /\ c \in Caches
  BY TopOK
<1>2. Len(k[t]) = n + 1 /\ k[t][n] = g /\ k[t][n + 1] = e
  BY DEF Pushed
<1>3. SentIn(t, {c})
  BY DEF SentIn
<1>4. QuietIn(t, {c})
  BY <1>1, OtherSenders DEF QuietIn
<1>5. \A i \in 1 .. n + 1 : k[t][i].pc \notin Sending
  <2>1. \A i \in 1 .. n : i < n => k[t][i].pc \notin Sending
    BY NoneBelow DEF Pushed
  <2>2. \A i \in 1 .. n + 1 : i = n + 1 \/ i = n \/ (i \in 1 .. n /\ i < n)
    BY <1>1
  <2> QED
    BY <1>2, <2>1, <2>2
<1>6. JobsOf(h, k[t], {}) /\ {} \subseteq Jobs(h, k)
  BY <1>2, <1>5 DEF JobsOf
<1> QED
  BY <1>3, <1>4, <1>6, JobsStep

LEMMA ToldOKEntry ==
    ASSUME NEW c \in Caches, NEW e \in Entries, EntryOK(e, c), NEW type \in InvTypes
    PROVE  /\ EntryOK(Told(e, type), c) /\ ~isExclusive(Told(e, type)) /\ Told(e, type) \in Entries
           /\ Told(e, type).sharers = IF type = "INV" THEN {} ELSE e.sharers
           /\ Told(e, type).numSharers = IF type = "INV" THEN 0 ELSE e.numSharers
<1> DEFINE k == Told(e, type)
<1>1. /\ k \in Entries
      /\ k.numSharers = IF type = "INV" THEN 0 ELSE e.numSharers
      /\ k.sharers = IF type = "INV" THEN {} ELSE e.sharers
      /\ k.exclusive = IF type = "INV" THEN e.exclusive ELSE e.exclusive /\ ~isExclusive(e)
  BY ToldEntry
<1> HIDE DEF k
<1>2. CASE type = "INV"
  <2>1. Cardinality({}) = 0
    BY FS_EmptySet
  <2> QED
    BY <1>1, <1>2, <2>1 DEF EntryOK, isExclusive, k
<1>3. CASE type # "INV"
  <2>1. k.numSharers = 1 => ~k.exclusive
    BY <1>1, <1>3 DEF isExclusive
  <2> QED
    BY <1>1, <1>3, <2>1 DEF EntryOK, isExclusive, k
<1> QED
  BY <1>2, <1>3

\* The relation after an eviction of address a of cache p, which had job j.
LEMMA EvictedRel ==
    ASSUME NEW S, NEW H, NEW X, NEW J, Rel(S, H, X, J), NEW p \in Caches, NEW a \in Addrs,
           NEW j \in J, j.cache = p, j.addr = a, j.type = "INV", j.left = {}, j.up = {},
           \A i \in J : i.cache = p => i = j,
           NEW s \in MESIState, s = S[p][a] \/ (s = "M" /\ Exclusive(S[p][a])),
           NEW v \in MESIState, v = s \/ (v = "I" /\ Parent[p][a] = Memory),
           NEW T, SetAt(T, S, p, a, v), NEW G, SetAt(G, H, p, a, {}), NEW Y, FlagAt(Y, X, p, a, "I"),
           NEW J2, J2 = Replaced(J, {p}, {})
    PROVE  Rel(T, G, Y, J2)
<1> DEFINE U == [d \in Caches |-> [x \in Addrs |-> IF d = p /\ x = a THEN s ELSE S[d][x]]]
<1>1. SetAt(U, S, p, a, s) /\ U[p][a] = s
  BY DEF SetAt
<1> HIDE DEF U
<1>2. Rel(U, H, X, J)
  <2>1. CASE s = S[p][a]
    <3>1. \A c \in Caches : \A x \in Addrs : U[c][x] = S[c][x]
      BY <1>1, <2>1 DEF SetAt
    <3>2. \A i \in J : i.cache \in Caches
      BY DEF Rel, ToldRel
    <3> QED
      BY <3>1, <3>2, RelSame
  <2>2. CASE s = "M" /\ Exclusive(S[p][a])
    <3>1. s \in MESIState \ {"I"} /\ Exclusive(s)
      BY <2>2 DEF Exclusive
    <3> QED
      BY <1>1, <2>2, <3>1, UpgradeRel
  <2> QED
    BY <2>1, <2>2
<1>3. SetAt(T, U, p, a, v)
  BY <1>1 DEF SetAt
<1> QED
  BY <1>1, <1>2, <1>3, EvictRel

LEMMA EvictCoherent ==
    ASSUME LocksInv, CoherenceInv, NEW t \in Cores, Evict(t)
    PROVE  CoherenceInv' /\ KeepsElse(t, ST', SH', tag') /\ Saved(t, ST', dirty')
<1> DEFINE f == Top(t)
           c == f.cache
           l == f.line
           n == Len(stack[t])
           b == tag[c][l]
           s == Evicted(f)
           g == [Goto(f, "insert") EXCEPT !.wb = FALSE]
           direct == s = "I" \/ Parent[c][b] = Memory
           v == IF direct THEN "I" ELSE s
           q == Told(tcc[c][l], "INV")
           h == CallFrame(Parent[c][b], b, PutType(s), s)
           j == Job(tag, stack[t], n)
<1>1. /\ stack[t] # <<>> /\ f.pc = "evict" /\ f.todo = {}
      /\ tcc' = Upd(tcc, c, l, q) /\ bcc' = Upd(bcc, c, l, v)
      /\ IF direct THEN SetTop(t, g) ELSE Call(t, g, h)
      /\ tag' = tag
  BY DEF Evict, At, CallFrame, Upd
<1>2. /\ f \in Frames /\ FrameOK(f) /\ c \in Caches /\ n \in Nat \ {0} /\ TagOK(tag, f, FALSE) /\ StackType
      /\ f = stack[t][n] /\ f.addr \in Addrs
  BY <1>1, TopOK
<1>3. l \in Lines[c] /\ bcc[c][l] \in MESIState /\ tcc[c][l] \in Entries /\ b \in Slots
  BY <1>1, <1>2 DEF FrameOK, LocksInv, LineInv, PerLine, Slots
<1>4. s \in MESIState /\ (s # "I" => b \in Addrs) /\ (f.wb => b \in Addrs)
  <2>1. s # "I" => b # None
    BY <1>1, <1>2, <1>3 DEF Evicted, LocksInv, LineInv, TagOK
  <2>2. f.wb => b # None
    BY <1>1, <1>2 DEF TagOK
  <2> QED
    BY <1>3, <2>1, <2>2 DEF Evicted, MESIState, Slots
<1>5. /\ Own(ST, SH, tag, f) /\ Adr(tag, f) = b
      /\ n > 1 => Link(ST, tag, Caller(t), f) /\ Caller(t).cache \in Caches /\ Caller(t).cache # c
  BY <1>1, TopFrame DEF Adr
<1>6. LocksInv'
  BY EvictInv
<1>7. TagInv(tag) /\ EntryInv(tcc) /\ Rel(ST, SH, EX, JS) /\ Arrays(tag, bcc, tcc)
  BY ArraysNow DEF CoherenceInv
<1>8. /\ q \in Entries /\ EntryOK(q, c) /\ ~isExclusive(q) /\ q.sharers = {} /\ v \in MESIState
  <2>1. EntryOK(tcc[c][l], c) /\ "INV" \in InvTypes
    BY <1>2, <1>3, <1>7 DEF EntryInv, InvTypes
  <2>2. /\ q \in Entries /\ EntryOK(q, c) /\ ~isExclusive(q) /\ q.sharers = {}
    BY <1>2, <1>3, <2>1, ToldOKEntry
  <2>3. v \in MESIState
    BY <1>4 DEF MESIState
  <2> QED
    BY <2>2, <2>3
<1>9. /\ f.addr \in Served[c] /\ f.flags = {} /\ f.type \in Gets /\ \A m \in Lines[c] : tag[c][m] # f.addr
      /\ f.wb => Exclusive(ST[c][b])
  BY <1>1, <1>5 DEF Own, Sending
<1>10. /\ g \in Frames /\ g.cache = c /\ g.pc = "insert" /\ g.todo = {} /\ g.line = l /\ g.addr = f.addr
       /\ g.type = f.type /\ g.own = f.own /\ g.flags = f.flags /\ ~g.wb
  <2> DEFINE k == Goto(f, "insert")
  <2>1. /\ k \in Frames /\ k.cache = c /\ k.pc = "insert" /\ k.todo = {} /\ k.line = l /\ k.addr = f.addr
        /\ k.type = f.type /\ k.own = f.own /\ k.flags = f.flags
    BY <1>1, <1>2, GotoFrame DEF PCs
  <2> HIDE DEF k
  <2>2. /\ [k EXCEPT !.wb = FALSE] \in Frames /\ [k EXCEPT !.wb = FALSE].cache = k.cache /\ [k EXCEPT !.wb = FALSE].pc = k.pc
        /\ [k EXCEPT !.wb = FALSE].todo = k.todo /\ [k EXCEPT !.wb = FALSE].line = k.line
        /\ [k EXCEPT !.wb = FALSE].addr = k.addr /\ [k EXCEPT !.wb = FALSE].type = k.type
        /\ [k EXCEPT !.wb = FALSE].own = k.own /\ [k EXCEPT !.wb = FALSE].flags = k.flags
        /\ [k EXCEPT !.wb = FALSE].wb = FALSE
    BY <2>1 DEF Frames
  <2> QED
    BY <2>1, <2>2 DEF k
<1> HIDE DEF g
<1>11. /\ j \in JS /\ j.cache = c /\ j.addr = b /\ j.type = "INV" /\ j.left = {} /\ j.up = {}
       /\ \A i \in JS : i.cache = c => i = j
  <2>1. n \in 1 .. n /\ ~(n < n)
    BY <1>2
  <2>2. j \in JS
    BY <1>1, <1>2, <2>1, SenderFacts DEF Sending
  <2>3. SendType(f) = "INV" /\ f.pc # "grant"
    BY <1>1 DEF SendType
  <2>4. j.cache = c /\ j.addr = b /\ j.type = "INV" /\ j.left = {} /\ j.up = {}
    BY <1>1, <1>2, <1>5, <2>1, <2>3 DEF Job
  <2> QED
    BY <2>2, <2>4, OneJob
<1> HIDE DEF j
<1>12. TagInv(tag') /\ EntryInv(tcc') /\ Arrays(tag, bcc', tcc')
       /\ \A d \in Caches : \A m \in Lines[d] :
             /\ bcc'[d][m] = IF d = c /\ m = l THEN v ELSE bcc[d][m]
             /\ tcc'[d][m] = IF d = c /\ m = l THEN q ELSE tcc[d][m]
  <2> HIDE DEF v, q
  <2>1. \A d \in Caches : \A m \in Lines[d] : tcc'[d][m] = IF d = c /\ m = l THEN q ELSE tcc[d][m]
    BY <1>1, <1>3, <1>8, PerLineSet DEF LocksInv, LineInv
  <2>2. \A d \in Caches : \A m \in Lines[d] : bcc'[d][m] = IF d = c /\ m = l THEN v ELSE bcc[d][m]
    BY <1>1, <1>3, <1>8, PerLineSet DEF LocksInv, LineInv
  <2>3. TagInv(tag') /\ EntryInv(tcc')
    BY <1>1, <1>7, <1>8, <2>1 DEF EntryInv
  <2>4. Arrays(tag', bcc', tcc')
    BY <1>6, <2>3, ArraysThen
  <2> QED
    BY <1>1, <2>1, <2>2, <2>3, <2>4
<1>13. SetAt(ST', ST, c, b, v) /\ SetAt(SH', SH, c, b, {}) /\ FlagAt(EX', EX, c, b, "I")
  <2> DEFINE b2 == bcc'
             e2 == tcc'
  <2>1. /\ Arrays(tag, b2, e2) /\ b2[c][l] = v /\ e2[c][l] = q
        /\ \A d \in Caches : \A m \in Lines[d] : d # c \/ m # l => b2[d][m] = bcc[d][m] /\ e2[d][m] = tcc[d][m]
    BY <1>2, <1>3, <1>12
  <2>2. ST' = States(tag, b2) /\ SH' = Sharers(tag, e2) /\ EX' = Exclusives(tag, e2)
    BY <1>1 DEF ST, SH, EX
  <2> HIDE DEF b2, e2, v, q
  <2>3. /\ SetAt(States(tag, b2), ST, c, b, b2[c][l])
        /\ SetAt(Sharers(tag, e2), SH, c, b, e2[c][l].sharers)
        /\ \A d \in Caches : \A x \in Addrs : x \in Exclusives(tag, e2)[d] <=>
                 IF d = c /\ x = b THEN isExclusive(e2[c][l]) ELSE x \in EX[d]
    BY <1>2, <1>3, <1>7, <2>1, ViewSet DEF ST, SH, EX
  <2>4. ~Exclusive("I")
    BY DEF Exclusive
  <2> QED
    BY <1>8, <2>1, <2>2, <2>3, <2>4 DEF FlagAt
<1>14. KeepsElse(t, ST', SH', tag')
  <2>1. Arrays(tag', bcc', tcc') /\ ST' = States(tag', bcc') /\ SH' = Sharers(tag', tcc')
    BY <1>1, <1>12 DEF ST, SH
  <2>2. \A d \in Caches : d # c => tag'[d] = tag[d] /\ \A x \in Addrs : Sharers(tag', tcc')[d][x] = SH[d][x]
    BY <1>1, <1>13, <2>1 DEF SetAt
  <2>3. \A d \in Caches : \A x \in Addrs : d = c \/ States(tag', bcc')[d][x] = ST[d][x]
    BY <1>13, <2>1 DEF SetAt
  <2>4. KeepsElse(t, States(tag', bcc'), Sharers(tag', tcc'), tag')
    BY <2>1, <2>2, <2>3, ElseFrom
  <2> QED
    BY <2>1, <2>4
<1>15. bccLock[c] = t /\ f.pc # "inval"
  BY <1>1, TopLock
<1>16. JS' = Replaced(JS, {c}, {})
  <2>1. TagsElse(tag', {c})
    BY <1>1 DEF TagsElse
  <2>2. CASE direct
    <3>1. SetTop(t, g)
      BY <1>1, <2>2
    <3>2. StackElse(stack', t) /\ TopSet(stack[t], stack'[t], g)
      BY <1>1, <1>2, <1>10, <3>1, SetTopStack DEF SameOthers, StackElse
    <3>3. g.pc \notin Sending
      BY <1>10 DEF Sending
    <3>4. Jobs(tag', stack') = Replaced(JS, {c}, {})
      BY <1>1, <1>15, <2>1, <3>2, <3>3, JobsTop
    <3> QED
      BY <3>4 DEF JS
  <2>3. CASE ~direct
    <3>1. Call(t, g, h)
      BY <1>1, <2>3
    <3>2. b \in Addrs /\ Parent[c][b] # Memory /\ PutType(s) \in Gets \cup Puts
      BY <1>4, <2>3 DEF PutType, Puts
    <3>3. h \in Frames /\ h.pc = "tcc"
      BY <1>2, <1>4, <3>2, CallFrameOK
    <3> HIDE DEF h
    <3>4. StackElse(stack', t) /\ Pushed(stack[t], stack'[t], g, h)
      BY <1>1, <1>2, <1>10, <3>1, <3>3, CallStack DEF SameOthers, StackElse
    <3>5. g.pc \notin Sending /\ h.pc \notin Sending
      BY <1>10, <3>3 DEF Sending
    <3>6. Jobs(tag', stack') = Replaced(JS, {c}, {})
      BY <1>1, <1>15, <2>1, <3>4, <3>5, JobsCall
    <3> QED
      BY <3>6 DEF JS
  <2> QED
    BY <2>2, <2>3
<1>17. Rel(ST', SH', EX', JS')
  <2> DEFINE T == ST'
             G == SH'
             Y == EX'
             J2 == JS'
  <2>1. SetAt(T, ST, c, b, v) /\ SetAt(G, SH, c, b, {}) /\ FlagAt(Y, EX, c, b, "I") /\ J2 = Replaced(JS, {c}, {})
    BY <1>13, <1>16
  <2>2. ~f.wb => s = ST[c][b]
    BY <1>2, <1>3, <1>7, ViewAt DEF Evicted, ST
  <2>3. f.wb => s = "M" /\ Exclusive(ST[c][b])
    BY <1>9 DEF Evicted
  <2>4. v = s \/ (v = "I" /\ Parent[c][b] = Memory)
    OBVIOUS
  <2> HIDE DEF T, G, Y, J2, v, s, b
  <2>5. CASE b \in Addrs
    <3>1. s = ST[c][b] \/ (s = "M" /\ Exclusive(ST[c][b]))
      BY <2>2, <2>3
    <3>2. Rel(T, G, Y, J2)
      BY <1>2, <1>4, <1>7, <1>8, <1>11, <2>1, <2>4, <2>5, <3>1, EvictedRel
    <3> QED
      BY <3>2 DEF T, G, Y, J2
  <2>6. CASE b \notin Addrs
    <3>1. \A d \in Caches : \A x \in Addrs : T[d][x] = ST[d][x] /\ G[d][x] = SH[d][x] /\ (x \in Y[d] <=> x \in EX[d])
      BY <2>1, <2>6 DEF SetAt, FlagAt
    <3>2. \A i \in JS : i.addr \in Addrs => i \in J2
      BY <1>11, <2>1, <2>6 DEF Replaced
    <3>3. \A i \in J2 : i.cache \in Caches /\ (i.addr \in Addrs => i \in JS)
      BY <2>1, OneJob DEF Replaced
    <3>4. Rel(T, G, Y, J2)
      BY <1>7, <3>1, <3>2, <3>3, RelSame
    <3> QED
      BY <3>4 DEF T, G, Y, J2
  <2> QED
    BY <2>5, <2>6
<1>18. ST'[c][b] = v /\ SH'[c][b] = {}
  <2>1. ST' = States(tag, bcc') /\ SH' = Sharers(tag, tcc')
    BY <1>1 DEF ST, SH
  <2> DEFINE b2 == bcc'
             e2 == tcc'
  <2>2. Arrays(tag, b2, e2) /\ b2[c][l] = v /\ e2[c][l].sharers = {}
    BY <1>2, <1>3, <1>8, <1>12
  <2> HIDE DEF b2, e2, v
  <2>3. States(tag, b2)[c][b] = b2[c][l] /\ Sharers(tag, e2)[c][b] = e2[c][l].sharers
    BY <1>2, <1>3, <2>2, ViewAt
  <2> QED
    BY <2>1, <2>2, <2>3 DEF b2, e2
<1>19. Adr(tag', g) = b
  BY <1>1, <1>10 DEF Adr
<1>20. Own(ST', SH', tag', g)
  <2>1. g.pc = "insert" /\ g.addr \in Served[g.cache] /\ g.flags = {} /\ g.type \in Gets
        /\ (\A m \in Lines[g.cache] : tag'[g.cache][m] # g.addr) /\ SH'[g.cache][Adr(tag', g)] = {} /\ ~g.wb
    BY <1>1, <1>9, <1>10, <1>18, <1>19
  <2> QED
    BY <2>1 DEF Own, Sending
<1>21. n > 1 => ST'[Caller(t).cache][f.addr] \in ChildMay(g)
  <2>1. n > 1 => ST'[Caller(t).cache][f.addr] = ST[Caller(t).cache][f.addr] /\ ST[Caller(t).cache][f.addr] \in ChildMay(f)
    <3> SUFFICES ASSUME n > 1
                 PROVE  /\ ST'[Caller(t).cache][f.addr] = ST[Caller(t).cache][f.addr]
                        /\ ST[Caller(t).cache][f.addr] \in ChildMay(f)
      OBVIOUS
    <3>1. Link(ST, tag, Caller(t), f) /\ f.pc # "inval"
      BY <1>1, <1>5
    <3>2. ST[Caller(t).cache][f.addr] \in ChildMay(f)
      BY <3>1 DEF Link
    <3>3. ST'[Caller(t).cache][f.addr] = ST[Caller(t).cache][f.addr]
      BY <1>2, <1>5, <1>13 DEF SetAt
    <3> QED
      BY <3>2, <3>3
  <2>2. ChildMay(g) = ChildMay(f)
    BY <1>1, <1>10 DEF ChildMay
  <2> QED
    BY <2>1, <2>2
<1>22. f.pc \in Busy /\ g.pc \in Busy
  BY <1>1, <1>10 DEF Busy
<1>23. Saved(t, ST', dirty')
  <2>1. f.wb => s = "M"
    BY DEF Evicted
  <2>2. ~f.wb => s = ST[c][b]
    BY <1>2, <1>3, <1>7, ViewAt DEF Evicted, ST
  <2>3. s = "M" /\ b \in dirty' => v = "M"
    <3>1. dirty' = IF direct /\ s = "M" THEN dirty \ {b} ELSE dirty
      BY DEF Evict
    <3> QED
      BY <3>1
  <2> DEFINE T == ST'
             D == dirty'
  <2>4. SetAt(T, ST, c, b, v) /\ (s = "M" /\ b \in D => v = "M")
    BY <1>13, <2>3
  <2> HIDE DEF T, D, v, s, b
  <2>5. Saved(t, T, D)
    BY <1>2, <1>5, <2>1, <2>2, <2>4 DEF Saved, SetAt
  <2> QED
    BY <2>5 DEF T, D
<1>24. CASE direct
  <2>1. SetTop(t, g)
    BY <1>1, <1>24
  <2>2. Ready(ST', tag', g)
    BY <1>10, <1>18, <1>19, <1>24 DEF Ready
  <2>3. CoherenceInv'
    BY <1>1, <1>10, <1>12, <1>14, <1>17, <1>20, <1>21, <1>22, <2>1, <2>2, AccessTop
  <2> QED
    BY <1>14, <1>23, <2>3
<1>25. CASE ~direct
  <2>1. Call(t, g, h) /\ b \in Addrs /\ Parent[c][b] # Memory /\ PutType(s) \in Puts /\ PutType(s) \in Gets \cup Puts /\ s # "I"
    BY <1>1, <1>4, <1>25 DEF PutType, Puts
  <2>2. h \in Frames /\ h.pc = "tcc" /\ h.cache = Parent[c][b]
    BY <1>2, <1>4, <2>1, CallFrameOK
  <2>3. h.addr = b /\ h.type = PutType(s) /\ h.init = s /\ h.own /\ h.flags = {} /\ ~h.wb
    BY DEF CallFrame, AccessFrame, Carried
  <2> HIDE DEF h
  <2>4. b \in Served[c] /\ b \in Served[h.cache]
    <3>1. b # None
      BY <2>1, NoneFacts
    <3>2. b \in Served[c]
      BY <1>2, <1>3, <1>7, <3>1 DEF TagInv
    <3> QED
      BY <1>2, <2>1, <2>2, <3>2, ServedFacts
  <2>5. Own(ST', SH', tag', h)
    BY <2>1, <2>2, <2>3, <2>4 DEF Own, Sending
  <2>6. Link(ST', tag', g, h)
    <3>1. s \in Kept(PutType(s))
      BY <1>4, <2>1 DEF PutType, Kept, MESIState
    <3>2. s \in ChildMay(h)
      BY <2>2, <2>3 DEF ChildMay
    <3>3. ST'[g.cache][h.addr] = s
      BY <1>10, <1>18, <1>25, <2>3
    <3>4. h.type \in Puts /\ h.type \notin Gets
      BY <2>1, <2>3 DEF Puts, Gets
    <3> QED
      BY <1>1, <1>3, <1>10, <1>19, <2>1, <2>2, <2>3, <3>1, <3>2, <3>3, <3>4 DEF Link
  <2>7. CoherenceInv'
    BY <1>1, <1>10, <1>12, <1>14, <1>17, <1>20, <1>21, <1>22, <2>1, <2>2, <2>5, <2>6, AccessCall
  <2> QED
    BY <1>14, <1>23, <2>7
<1> QED
  BY <1>24, <1>25

\* A frame that holds the lock of its cache and sends nothing: nobody does.
LEMMA NoJobTop ==
    ASSUME LocksInv, NEW t \in Cores, stack[t] # <<>>, Top(t).pc \in Busy \ Sending
    PROVE  /\ \A j \in JS : j.cache # Top(t).cache
           /\ \A N : Replaced(JS, {Top(t).cache}, N) = JS \cup N
<1> DEFINE s == stack[t]
           n == Len(s)
<1>1. n \in Nat \ {0} /\ Top(t) = s[n]
  BY TopOK
<1>2. n \in 1 .. n /\ ~(n < n)
  BY <1>1
<1>3. HoldsBcc(s, n)
  BY <1>1, <1>2 DEF HoldsBcc, Waits, Busy, Sending
<1>4. \A j \in JS : j.cache # Top(t).cache
  <2> SUFFICES ASSUME NEW j \in JS, j.cache = Top(t).cache PROVE FALSE
    OBVIOUS
  <2>1. PICK u \in Cores : \E i \in 1 .. Len(stack[u]) : stack[u][i].pc \in Sending /\ j = Job(tag, stack[u], i)
    BY JobIff DEF JS
  <2>2. PICK i \in 1 .. Len(stack[u]) : stack[u][i].pc \in Sending /\ j = Job(tag, stack[u], i)
    BY <2>1
  <2>3. stack[u][i].cache = s[n].cache
    BY <1>1, <2>2, JobCache
  <2>4. HoldsBcc(stack[u], i)
    BY <2>2, SenderHolds
  <2>5. u = t /\ i = n
    BY <1>2, <1>3, <2>3, <2>4, OneHolder
  <2> QED
    BY <1>1, <2>2, <2>5
<1> QED
  BY <1>4 DEF Replaced

\* postinsert moves no line that anybody has.
LEMMA InsertView ==
    ASSUME LocksInv, CoherenceInv, NEW t \in Cores, AccessUp(t)
    PROVE  LET c == Top(t).cache
               l == Top(t).line
           IN
           /\ l \in Lines[c] /\ tag'[c][l] = Top(t).addr
           /\ Top(t).addr \in Served[c] /\ Top(t).flags = {} /\ ~Top(t).wb /\ Top(t).type \in Gets \cup Puts
           /\ Arrays(tag', bcc, tcc)
           /\ \A d \in Caches : d # c => tag'[d] = tag[d]
           /\ \A d \in Caches : \A x \in Slots :
                 /\ States(tag', bcc)[d][x] = ST[d][x]
                 /\ Sharers(tag', tcc)[d][x] = SH[d][x]
                 /\ x \in Exclusives(tag', tcc)[d] <=> x \in EX[d]
           /\ States(tag', bcc)[c][Top(t).addr] = bcc[c][l] /\ ST[c][Top(t).addr] = bcc[c][l]
<1> DEFINE f == Top(t)
           c == f.cache
           l == f.line
           a == f.addr
           h == tag'
<1>1. stack[t] # <<>> /\ f.pc \in {"insert", "access"} /\ h = Upd(tag, c, l, a)
  BY DEF AccessUp, At, Upd
<1>2. f \in Frames /\ FrameOK(f) /\ c \in Caches /\ a \in Addrs
  BY <1>1, TopOK
<1>3. l \in Lines[c] /\ bcc[c][l] \in MESIState /\ tcc[c][l] \in Entries /\ a \in Slots
  BY <1>1, <1>2 DEF FrameOK, LocksInv, LineInv, PerLine, Slots
<1>4. Own(ST, SH, tag, f) /\ Ready(ST, tag, f)
  BY <1>1, TopFrame
<1>5. a \in Served[c] /\ f.flags = {} /\ ~f.wb /\ f.type \in Gets \cup Puts
  BY <1>1, <1>4 DEF Own
<1>6. Arrays(tag, bcc, tcc)
  BY ArraysNow
<1>7. PerLine(tag, Slots)
  BY DEF LocksInv, LineInv, Slots
<1>8. PerLine(h, Slots) /\ \A d \in Caches : \A m \in Lines[d] : h[d][m] = IF d = c /\ m = l THEN a ELSE tag[d][m]
  BY <1>1, <1>3, <1>7, PerLineSet
<1>9. \A d \in Caches : d # c => h[d] = tag[d]
  BY <1>1, <1>7 DEF Upd, PerLine
<1> HIDE DEF h
<1>10. /\ Arrays(h, bcc, tcc)
       /\ \A d \in Caches : \A x \in Slots :
             /\ States(h, bcc)[d][x] = ST[d][x]
             /\ Sharers(h, tcc)[d][x] = SH[d][x]
             /\ x \in Exclusives(h, tcc)[d] <=> x \in EX[d]
  <2>1. CASE f.pc = "insert"
    <3>1. ST[c][tag[c][l]] = "I" /\ SH[c][tag[c][l]] = {} /\ \A m \in Lines[c] : tag[c][m] # a
      BY <1>4, <2>1 DEF Own, Ready, Adr
    <3>2. bcc[c][l] = "I" /\ tcc[c][l].sharers = {}
      BY <1>2, <1>3, <1>6, <3>1, ViewAt DEF ST, SH
    <3> HIDE DEF f, c, l, a
    <3> QED
      BY <1>2, <1>3, <1>5, <1>6, <1>8, <3>1, <3>2, ViewInsert DEF ST, SH, EX
  <2>2. CASE f.pc = "access"
    <3>1. tag[c][l] = a
      BY <1>4, <2>2 DEF Own
    <3>2. h = tag
      BY <1>1, <1>2, <1>3, <1>7, <3>1 DEF Upd, PerLine
    <3> QED
      BY <1>6, <3>2 DEF ST, SH, EX
  <2> QED
    BY <1>1, <2>1, <2>2
<1>11. h[c][l] = a
  BY <1>2, <1>3, <1>8
<1>12. States(h, bcc)[c][a] = bcc[c][l]
  BY <1>2, <1>3, <1>10, <1>11, ViewAt
<1>13. ST[c][a] = bcc[c][l]
  BY <1>2, <1>3, <1>10, <1>12
<1> QED
  BY <1>3, <1>5, <1>9, <1>10, <1>11, <1>12, <1>13 DEF h

\* What processAccess leaves of a state s that it does not have to ask for.
LEMMA SilentFacts ==
    ASSUME NEW f, f.type \in Gets \cup Puts, f.flags = {}, NEW s \in MESIState, NEW v,
           v = IF Misses(f.type, s) THEN FromMemory(f) ELSE Silent(f.type, s),
           f.type \in Puts => s # "I" /\ (f.type = "PUTX" => Exclusive(s))
    PROVE  /\ v \in MESIState \ {"I"} /\ (Exclusive(s) => Exclusive(v))
           /\ v = s \/ Misses(f.type, s) \/ Exclusive(s)
           /\ f.type \in {"GETX", "PUTX"} => v = "M"
BY DEF Misses, FromMemory, Silent, MESIState, Exclusive, Gets, Puts

LEMMA AccessUpCoherent ==
    ASSUME LocksInv, CoherenceInv, NEW t \in Cores, AccessUp(t)
    PROVE  CoherenceInv' /\ KeepsElse(t, ST', SH', tag') /\ Saved(t, ST', dirty')
<1> DEFINE f == Top(t)
           c == f.cache
           l == f.line
           a == f.addr
           s == bcc[c][l]
           p == Parent[c][a]
           n == Len(stack[t])
           g == Goto(f, AfterGet(f))
           e == CallFrame(p, a, f.type, s)
           k == Goto(f, NextPc(f))
           v == IF Misses(f.type, s) THEN FromMemory(f) ELSE Silent(f.type, s)
           calls == Misses(f.type, s) /\ p # Memory
<1>1. stack[t] # <<>> /\ f.pc \in {"insert", "access"} /\ tcc' = tcc
  BY DEF AccessUp, At
<1>2. /\ f \in Frames /\ FrameOK(f) /\ c \in Caches /\ a \in Addrs /\ n \in Nat \ {0} /\ StackType
      /\ a \in Slots /\ f.pc \in Busy /\ f.pc \in Busy \ Sending /\ f.pc # "inval"
  BY <1>1, TopOK DEF Slots, Busy, Sending
<1>3. /\ l \in Lines[c] /\ tag'[c][l] = a
      /\ a \in Served[c] /\ f.flags = {} /\ ~f.wb /\ f.type \in Gets \cup Puts
      /\ Arrays(tag', bcc, tcc)
      /\ \A d \in Caches : d # c => tag'[d] = tag[d]
      /\ \A d \in Caches : \A x \in Slots :
            /\ States(tag', bcc)[d][x] = ST[d][x]
            /\ Sharers(tag', tcc)[d][x] = SH[d][x]
            /\ x \in Exclusives(tag', tcc)[d] <=> x \in EX[d]
      /\ States(tag', bcc)[c][a] = s /\ ST[c][a] = s
  BY InsertView
<1>4. s \in MESIState /\ f.todo = {}
  BY <1>1, <1>2, <1>3 DEF FrameOK, LocksInv, LineInv, PerLine, Sending
<1>5. LocksInv'
  BY AccessUpInv
<1>6. TagInv(tag') /\ EntryInv(tcc') /\ EntryInv(tcc) /\ Rel(ST, SH, EX, JS)
  BY <1>1, <1>3 DEF Arrays, CoherenceInv
<1>7. (\A j \in JS : j.cache # c) /\ Replaced(JS, {c}, {}) = JS
  <2>1. stack[t] # <<>> /\ Top(t).pc \in Busy \ Sending
    BY <1>1, <1>2
  <2> QED
    BY <2>1, NoJobTop
<1>8. bccLock[c] = t /\ TagsElse(tag', {c})
  BY <1>1, <1>2, <1>3, TopLock DEF TagsElse
<1>9. n > 1 => /\ Link(ST, tag, Caller(t), f) /\ Caller(t).cache \in Caches /\ Caller(t).cache # c /\ ~Terminal(c)
               /\ ST[Caller(t).cache][a] \in Kept(f.type) /\ Parent[Caller(t).cache][a] = c
  <2> SUFFICES ASSUME n > 1
               PROVE  /\ Link(ST, tag, Caller(t), f) /\ Caller(t).cache \in Caches /\ Caller(t).cache # c /\ ~Terminal(c)
                      /\ ST[Caller(t).cache][a] \in Kept(f.type) /\ Parent[Caller(t).cache][a] = c
    OBVIOUS
  <2>1. Link(ST, tag, Caller(t), f) /\ Caller(t).cache \in Caches /\ Caller(t).cache # c /\ LinkOK(Caller(t), f)
    BY <1>1, TopFrame
  <2>2. ~Terminal(c)
    BY <1>2, <2>1, TerminalFacts DEF LinkOK
  <2>3. ChildMay(f) = Kept(f.type)
    BY <1>1 DEF ChildMay
  <2>4. ST[Caller(t).cache][a] \in ChildMay(f) /\ Parent[Caller(t).cache][a] = c
    BY <1>2, <2>1 DEF Link
  <2> QED
    BY <2>1, <2>2, <2>3, <2>4
<1>10. Terminal(c) => n = 1
  <2>1. n \in Nat \ {0}
    BY <1>2
  <2> HIDE DEF n
  <2>2. n # 1 => n > 1
    BY <2>1, MoreThanOne
  <2>3. Terminal(c) => ~(n > 1)
    BY <1>9
  <2> QED
    BY <2>2, <2>3
<1>11. f.type \in Puts => s # "I" /\ (f.type = "PUTX" => Exclusive(s))
  <2> SUFFICES ASSUME f.type \in Puts PROVE s # "I" /\ (f.type = "PUTX" => Exclusive(s))
    OBVIOUS
  <2>1. f.type \notin Gets
    BY DEF Gets, Puts
  <2>2. n > 1
    <3>1. n = 1 => f.type \in Gets
      BY <1>1, TopFrame
    <3>2. n \in Nat \ {0}
      BY <1>2
    <3> HIDE DEF n
    <3>3. n # 1 => n > 1
      BY <3>2, MoreThanOne
    <3> QED
      BY <2>1, <3>1, <3>3
  <2>3. ST[Caller(t).cache][a] # "I" /\ (f.type = "PUTX" => Exclusive(ST[Caller(t).cache][a]))
    BY <1>9, <2>2 DEF Kept, Puts, Exclusive
  <2> DEFINE d == Caller(t).cache
  <2>4. d \in Caches /\ Parent[d][a] = c /\ ST[d][a] # "I"
    BY <1>9, <2>2, <2>3
  <2>5. ST[c][a] # "I" /\ (Exclusive(ST[d][a]) => Exclusive(ST[c][a]))
    <3> HIDE DEF d, c, a
    <3> QED
      BY <1>2, <1>7, <2>4, ListedUp
  <2> QED
    BY <1>3, <2>3, <2>5
<1>12. CASE calls
  <2>1. Call(t, g, e) /\ bcc' = bcc
    BY <1>12 DEF AccessUp, CallFrame, AccessFrame, Carried
  <2>2. AfterGet(f) \in {"prefetch", "dir", "end"} /\ (AfterGet(f) = "end" => Terminal(c))
    BY <1>3 DEF AfterGet, NextPc
  <2>3. /\ g \in Frames /\ g.cache = c /\ g.pc \in {"prefetch", "dir", "end"} /\ (g.pc = "end" => Terminal(c))
        /\ g.line = l /\ g.todo = {} /\ g.addr = a /\ g.type = f.type /\ g.own = f.own /\ g.flags = {} /\ ~g.wb
    BY <1>2, <1>3, <1>4, <2>2, GotoFrame DEF PCs
  <2>4. f.type \in Gets /\ s \in Kept(f.type)
    BY <1>12 DEF Misses, Gets, Kept
  <2>5. e \in Frames /\ e.cache = p /\ e.pc = "tcc"
    <3>1. p # Memory /\ Parent[c][a] = p
      BY <1>12
    <3>2. PICK type \in Gets \cup Puts : type = f.type
      BY <1>3
    <3>3. LET m == CallFrame(Parent[c][a], a, type, s) IN m \in Frames /\ m.cache = Parent[c][a] /\ m.pc = "tcc"
      <4>1. c \in Caches /\ a \in Addrs /\ s \in MESIState
        BY <1>2, <1>4
      <4> HIDE DEF c, a, s
      <4> QED
        BY <3>1, <4>1, CallFrameOK
    <3> QED
      BY <3>2, <3>3
  <2>6. e.addr = a /\ e.type = f.type /\ e.init = s /\ e.own /\ e.flags = {} /\ ~e.wb
    BY DEF CallFrame, AccessFrame, Carried
  <2> HIDE DEF g, e
  <2>7. ST' = States(tag', bcc) /\ SH' = Sharers(tag', tcc) /\ EX' = Exclusives(tag', tcc)
    BY <1>1, <2>1 DEF ST, SH, EX
  <2>8. StackElse(stack', t) /\ Pushed(stack[t], stack'[t], g, e)
    BY <1>1, <1>2, <2>1, <2>3, <2>5, CallStack DEF SameOthers, StackElse
  <2>9. JS' = JS
    <3>1. g.pc \notin Sending /\ e.pc \notin Sending
      BY <2>3, <2>5 DEF Sending
    <3>2. Jobs(tag', stack') = Replaced(JS, {c}, {})
      BY <1>1, <1>2, <1>8, <2>8, <3>1, JobsCall
    <3> QED
      BY <1>7, <3>2 DEF JS
  <2>10. Rel(ST', SH', EX', JS')
    <3> DEFINE T == ST'
               G == SH'
               Y == EX'
    <3>1. \A d \in Caches : \A x \in Addrs : T[d][x] = ST[d][x] /\ G[d][x] = SH[d][x] /\ (x \in Y[d] <=> x \in EX[d])
      BY <1>3, <2>7 DEF Slots
    <3>2. \A j \in JS : j.cache \in Caches
      BY OneJob
    <3> HIDE DEF T, G, Y
    <3>3. Rel(T, G, Y, JS)
      BY <1>6, <3>1, <3>2, RelSame
    <3> QED
      BY <2>9, <3>3 DEF T, G, Y
  <2>11. KeepsElse(t, ST', SH', tag')
    BY <1>3, <2>7 DEF KeepsElse
  <2>12. Own(ST', SH', tag', g)
    BY <1>3, <2>3, <2>4 DEF Own, Sending
  <2>13. Own(ST', SH', tag', e)
    <3>1. a \in Served[p]
      BY <1>2, <1>3, <1>12, ServedFacts
    <3> QED
      BY <2>4, <2>5, <2>6, <3>1 DEF Own, Sending
  <2>14. Link(ST', tag', g, e)
    <3>1. Adr(tag', g) = a
      BY <2>3 DEF Adr
    <3>2. ST'[c][a] \in ChildMay(e)
      BY <1>3, <2>5, <2>6, <2>7 DEF ChildMay
    <3>3. f.type \notin Puts
      BY <2>4 DEF Gets, Puts
    <3> QED
      BY <1>3, <2>3, <2>4, <2>5, <2>6, <3>1, <3>2, <3>3 DEF Link
  <2>15. n > 1 => ST'[Caller(t).cache][a] \in ChildMay(g)
    <3> SUFFICES ASSUME n > 1 PROVE ST'[Caller(t).cache][a] \in ChildMay(g)
      OBVIOUS
    <3>1. g.pc \in {"prefetch", "dir"}
      BY <1>9, <2>3
    <3>2. ChildMay(g) = Kept(f.type)
      BY <2>3, <3>1 DEF ChildMay
    <3> QED
      BY <1>2, <1>3, <1>9, <2>7, <3>2
  <2>16. g.pc \in Busy
    BY <2>3 DEF Busy
  <2>17. CoherenceInv'
    BY <1>1, <1>2, <1>6, <2>1, <2>3, <2>5, <2>10, <2>11, <2>12, <2>13, <2>14, <2>15, <2>16, AccessCall
  <2>18. Saved(t, ST', dirty')
    BY <1>2, <1>3, <2>7 DEF Saved, Slots
  <2> QED
    BY <2>11, <2>17, <2>18
<1>13. CASE ~calls
  <2>1. SetTop(t, k) /\ bcc' = Upd(bcc, c, l, v)
    BY <1>1, <1>13 DEF AccessUp, Upd
  <2>2. NextPc(f) \in {"dir", "end"} /\ (NextPc(f) = "end" => Terminal(c))
    BY <1>3 DEF NextPc
  <2>3. /\ k \in Frames /\ k.cache = c /\ k.pc \in {"dir", "end"} /\ (k.pc = "end" => Terminal(c))
        /\ k.line = l /\ k.todo = {} /\ k.addr = a /\ k.type = f.type /\ k.own = f.own /\ k.flags = {} /\ ~k.wb
    BY <1>2, <1>3, <1>4, <2>2, GotoFrame DEF PCs
  <2>4. /\ v \in MESIState \ {"I"} /\ v \in MESIState /\ (Exclusive(s) => Exclusive(v))
        /\ v = s \/ p = Memory \/ Exclusive(s)
        /\ f.type \in {"GETX", "PUTX"} => v = "M"
    <3>1. f.type \in Gets \cup Puts /\ f.flags = {} /\ s \in MESIState
      BY <1>3, <1>4
    <3>2. /\ v \in MESIState \ {"I"} /\ (Exclusive(s) => Exclusive(v))
          /\ v = s \/ Misses(f.type, s) \/ Exclusive(s)
          /\ f.type \in {"GETX", "PUTX"} => v = "M"
      <4> HIDE DEF f, s
      <4> QED
        BY <1>11, <3>1, SilentFacts
    <3>3. Misses(f.type, s) => p = Memory
      BY <1>13
    <3> QED
      BY <3>2, <3>3
  <2> HIDE DEF k, v
  <2>5. \A d \in Caches : \A m \in Lines[d] : bcc'[d][m] = IF d = c /\ m = l THEN v ELSE bcc[d][m]
    BY <2>1, <2>4, PerLineSet DEF LocksInv, LineInv
  <2> DEFINE h == tag'
             b2 == bcc'
             S1 == States(h, bcc)
  <2>6. Arrays(h, b2, tcc)
    BY <1>1, <1>5, <1>6, ArraysThen
  <2>7. ST' = States(h, b2) /\ SH' = Sharers(h, tcc) /\ EX' = Exclusives(h, tcc)
    BY <1>1 DEF ST, SH, EX
  <2>8. SetAt(States(h, b2), S1, c, a, v) /\ States(h, b2)[c][a] = v
    <3>1. Arrays(h, bcc, tcc) /\ h[c][l] = a /\ b2[c][l] = v
      BY <1>2, <1>3, <2>5
    <3>2. \A d \in Caches : \A m \in Lines[d] : d # c \/ m # l => b2[d][m] = bcc[d][m] /\ tcc[d][m] = tcc[d][m]
      BY <2>5
    <3> HIDE DEF h, b2, c, l, a
    <3>3. SetAt(States(h, b2), S1, c, h[c][l], b2[c][l])
      BY <1>2, <1>3, <2>6, <3>1, <3>2, ViewSet
    <3>4. States(h, b2)[c][h[c][l]] = b2[c][l]
      BY <1>2, <1>3, <2>6, ViewAt
    <3> QED
      BY <3>1, <3>3, <3>4
  <2>9. StackElse(stack', t) /\ TopSet(stack[t], stack'[t], k)
    BY <1>1, <1>2, <2>1, <2>3, SetTopStack DEF SameOthers, StackElse
  <2>10. JS' = JS
    <3>1. k.pc \notin Sending
      BY <2>3 DEF Sending
    <3>2. Jobs(tag', stack') = Replaced(JS, {c}, {})
      BY <1>1, <1>2, <1>8, <2>9, <3>1, JobsTop
    <3> QED
      BY <1>7, <3>2 DEF JS
  <2>11. SetAt(ST', ST, c, a, v) /\ ST'[c][a] = v
    BY <1>2, <1>3, <2>7, <2>8 DEF SetAt, Slots
  <2>12. Rel(ST', SH', EX', JS')
    <3> DEFINE T == ST'
               G == SH'
               Y == EX'
    <3>1. \A d \in Caches : \A x \in Addrs : G[d][x] = SH[d][x] /\ (x \in Y[d] <=> x \in EX[d])
      BY <1>3, <2>7 DEF Slots
    <3>2. \A j \in JS : j.cache \in Caches
      BY OneJob
    <3>3. SetAt(T, ST, c, a, v)
      BY <2>11
    <3> HIDE DEF T, G, Y, s, c, a, p
    <3>4. Rel(T, SH, EX, JS)
      <4>1. CASE v = s
        <5>1. \A d \in Caches : \A x \in Addrs : T[d][x] = ST[d][x]
          BY <1>2, <1>3, <3>3, <4>1 DEF SetAt
        <5> QED
          BY <1>6, <3>2, <5>1, RelSame
      <4>2. CASE v # s
        <5>1. Parent[c][a] = Memory \/ Exclusive(ST[c][a])
          BY <1>3, <2>4, <4>2 DEF p
        <5>2. Exclusive(ST[c][a]) => Exclusive(v)
          BY <1>3, <2>4
        <5> QED
          BY <1>2, <1>6, <2>4, <3>3, <5>1, <5>2, UpgradeRel
      <4> QED
        BY <4>1, <4>2
    <3>5. Rel(T, G, Y, JS)
      BY <3>1, <3>2, <3>4, RelSame
    <3> QED
      BY <2>10, <3>5 DEF T, G, Y
  <2>13. KeepsElse(t, ST', SH', tag')
    <3>1. \A d \in Caches : d # c => h[d] = tag[d] /\ \A x \in Addrs : Sharers(h, tcc)[d][x] = SH[d][x]
      BY <1>3 DEF Slots
    <3>2. \A d \in Caches : \A x \in Addrs : d = c \/ States(h, b2)[d][x] = ST[d][x]
      BY <2>7, <2>11 DEF SetAt
    <3> HIDE DEF h, b2
    <3>3. KeepsElse(t, States(h, b2), Sharers(h, tcc), h)
      BY <2>6, <3>1, <3>2, ElseFrom
    <3> QED
      BY <2>7, <3>3 DEF h
  <2>14. Own(ST', SH', tag', k)
    BY <1>3, <2>3 DEF Own, Sending
  <2>15. Ready(ST', tag', k)
    <3>1. Adr(tag', k) = a
      BY <2>3 DEF Adr
    <3> QED
      BY <2>3, <2>4, <2>11, <3>1 DEF Ready
  <2>16. n > 1 => ST'[Caller(t).cache][a] \in ChildMay(k)
    <3> SUFFICES ASSUME n > 1 PROVE ST'[Caller(t).cache][a] \in ChildMay(k)
      OBVIOUS
    <3>1. k.pc = "dir"
      BY <1>9, <2>3
    <3>2. ChildMay(k) = Kept(f.type)
      BY <2>3, <3>1 DEF ChildMay
    <3>3. ST'[Caller(t).cache][a] = ST[Caller(t).cache][a]
      BY <1>2, <1>9, <2>11 DEF SetAt
    <3> QED
      BY <1>9, <3>2, <3>3
  <2>17. k.pc \in Busy
    BY <2>3 DEF Busy
  <2>18. CoherenceInv'
    BY <1>1, <1>2, <1>6, <2>1, <2>3, <2>12, <2>13, <2>14, <2>15, <2>16, <2>17, AccessTop
  <2>19. Saved(t, ST', dirty')
    <3>1. s = "M" => v = "M"
      BY DEF v, Misses, Silent
    <3>2. ST[c][a] = s /\ f.pc \notin Sending
      BY <1>2, <1>3
    <3> DEFINE T == ST'
    <3>3. SetAt(T, ST, c, a, v)
      BY <2>11
    <3> HIDE DEF T, c, a, s
    <3>4. Saved(t, T, dirty')
      BY <1>2, <3>1, <3>2, <3>3 DEF Saved, SetAt
    <3> QED
      BY <3>4 DEF T
  <2> QED
    BY <2>13, <2>18, <2>19
<1> QED
  BY <1>12, <1>13

\* The views when a line of c and one of its child d change.
LEMMA ViewTwo ==
    ASSUME NEW g, NEW b, NEW e, NEW b2, NEW e2, Arrays(g, b, e), Arrays(g, b2, e2),
           NEW c \in Caches, NEW l \in Lines[c], NEW d \in Caches, NEW m \in Lines[d], d # c,
           \A x \in Caches : \A k \in Lines[x] : x # c \/ k # l => e2[x][k] = e[x][k],
           \A x \in Caches : \A k \in Lines[x] : (x # c \/ k # l) /\ (x # d \/ k # m) => b2[x][k] = b[x][k]
    PROVE  /\ \A x \in Caches : \A y \in Addrs : States(g, b2)[x][y] =
                 IF x = d /\ y = g[d][m] THEN b2[d][m]
                 ELSE IF x = c /\ y = g[c][l] THEN b2[c][l] ELSE States(g, b)[x][y]
           /\ SetAt(Sharers(g, e2), Sharers(g, e), c, g[c][l], e2[c][l].sharers)
           /\ \A x \in Caches : \A y \in Addrs : y \in Exclusives(g, e2)[x] <=>
                 IF x = c /\ y = g[c][l] THEN isExclusive(e2[c][l]) ELSE y \in Exclusives(g, e)[x]
<1>1. Arrays(g, b, e2)
  BY DEF Arrays
<1>2. /\ SetAt(Sharers(g, e2), Sharers(g, e), c, g[c][l], e2[c][l].sharers)
      /\ \A x \in Caches : \A y \in Addrs : y \in Exclusives(g, e2)[x] <=>
                 IF x = c /\ y = g[c][l] THEN isExclusive(e2[c][l]) ELSE y \in Exclusives(g, e)[x]
  BY <1>1, ViewSet
<1>3. ASSUME NEW x \in Caches, NEW y \in Addrs
      PROVE  States(g, b2)[x][y] =
                 IF x = d /\ y = g[d][m] THEN b2[d][m]
                 ELSE IF x = c /\ y = g[c][l] THEN b2[c][l] ELSE States(g, b)[x][y]
  <2>1. CASE Has(g, x, y)
    <3>1. PICK k \in Lines[x] : g[x][k] = y
      BY <2>1 DEF Has
    <3>2. (x = c /\ y = g[c][l] => k = l) /\ (x = d /\ y = g[d][m] => k = m)
      BY <3>1, NoneFacts DEF Arrays, TagInv
    <3>3. States(g, b2)[x][y] = b2[x][k] /\ States(g, b)[x][y] = b[x][k]
      BY <3>1, ViewAt
    <3>4. ~(x = c /\ y = g[c][l]) /\ ~(x = d /\ y = g[d][m]) => (x # c \/ k # l) /\ (x # d \/ k # m)
      BY <3>1
    <3>5. CASE ~(x = c /\ y = g[c][l]) /\ ~(x = d /\ y = g[d][m])
      BY <3>3, <3>4, <3>5
    <3>6. CASE x = c /\ y = g[c][l]
      BY <3>2, <3>3, <3>6
    <3>7. CASE x = d /\ y = g[d][m]
      BY <3>2, <3>3, <3>7
    <3> QED
      BY <3>5, <3>6, <3>7
  <2>2. CASE ~Has(g, x, y)
    <3>1. ~(x = c /\ y = g[c][l]) /\ ~(x = d /\ y = g[d][m])
      BY <2>2 DEF Has
    <3>2. y \in Slots
      BY DEF Slots
    <3>3. States(g, b2)[x][y] = "I" /\ States(g, b)[x][y] = "I"
      BY <2>2, <3>2, ViewAt
    <3> QED
      BY <3>1, <3>3
  <2> QED
    BY <2>1, <2>2
<1> QED
  BY <1>2, <1>3

\* An entry without a sharer, and with another one.
LEMMA DropOK ==
    ASSUME NEW c \in Caches, NEW e \in Entries, EntryOK(e, c), NEW d \in e.sharers
    PROVE  /\ EntryOK(Drop(e, d), c) /\ ~isExclusive(Drop(e, d)) /\ Drop(e, d) \in Entries
           /\ Drop(e, d).sharers = e.sharers \ {d}
<1> DEFINE k == Drop(e, d)
<1>1. /\ k \in Entries /\ k.sharers = e.sharers \ {d}
      /\ k.numSharers = e.numSharers - 1 /\ k.exclusive = e.exclusive
  BY DropEntry
<1> HIDE DEF k
<1>2. IsFiniteSet(e.sharers) /\ e.numSharers \in Nat
  BY EntryFacts
<1>3. Cardinality(e.sharers \ {d}) = Cardinality(e.sharers) - 1
  BY <1>2, FS_RemoveElement
<1>4. EntryOK(k, c)
  BY <1>1, <1>2, <1>3 DEF EntryOK
<1>5. ~isExclusive(k)
  BY <1>1, <1>2 DEF isExclusive, EntryOK
<1> QED
  BY <1>1, <1>4, <1>5 DEF k

LEMMA WithSharerOK ==
    ASSUME NEW c \in Caches, NEW e \in Entries, EntryOK(e, c), NEW d \in Caches, d \in Range(Children[c]),
           d \notin e.sharers, NEW given \in {"S", "E", "M"}, given # "S" => e.sharers = {}
    PROVE  /\ EntryOK(WithSharer(e, d, given), c) /\ WithSharer(e, d, given) \in Entries
           /\ isExclusive(WithSharer(e, d, given)) <=> Exclusive(given)
           /\ WithSharer(e, d, given).sharers = e.sharers \cup {d}
<1> DEFINE k == WithSharer(e, d, given)
<1>1. IsFiniteSet(e.sharers) /\ e.numSharers \in Nat /\ (e.numSharers = 0 <=> e.sharers = {})
  BY EntryFacts
<1>2. Cardinality(e.sharers \cup {d}) = Cardinality(e.sharers) + 1
  BY <1>1, FS_AddElement
<1>3. /\ k.sharers = e.sharers \cup {d} /\ k.exclusive = (given # "S") /\ (given = "S" => ~k.exclusive)
      /\ k.numSharers = IF given = "E" THEN 1 ELSE e.numSharers + 1
  BY DEF WithSharer
<1>4. k \in Entries
  BY SharerEntry
<1> HIDE DEF k
<1>5. k.numSharers = e.numSharers + 1 /\ (given # "S" => k.numSharers = 1)
  BY <1>1, <1>3
<1>6. EntryOK(k, c)
  <2>1. k.sharers \subseteq Range(Children[c])
    BY <1>3 DEF EntryOK
  <2>2. k.numSharers = Cardinality(k.sharers)
    BY <1>1, <1>2, <1>3, <1>5 DEF EntryOK
  <2>3. k.numSharers > 1 => ~k.exclusive
    <3>1. k.numSharers > 1 => given = "S"
      BY <1>5
    <3> QED
      BY <1>3, <3>1
  <2> QED
    BY <2>1, <2>2, <2>3 DEF EntryOK
<1>7. isExclusive(k) <=> Exclusive(given)
  BY <1>3, <1>5 DEF isExclusive, Exclusive
<1> QED
  BY <1>3, <1>4, <1>6, <1>7 DEF k

\* An access that works on its line and its child's for the child.
LEMMA DirFacts ==
    ASSUME LocksInv, CoherenceInv, NEW t \in Cores, stack[t] # <<>>, Top(t).pc \in {"dir", "grant"}
    PROVE  LET f == Top(t)
               c == f.cache
               l == f.line
               a == f.addr
               d == Caller(t).cache
               m == Caller(t).line
               e == tcc[c][l]
           IN
           /\ Len(stack[t]) > 1 /\ f \in Frames /\ f.type \in Gets \cup Puts /\ f.own /\ f.flags = {} /\ a \in Served[c]
           /\ a \in Addrs /\ c \in Caches /\ l \in Lines[c] /\ tag[c][l] = a
           /\ d \in Caches /\ d # c /\ m \in Lines[d] /\ tag[d][m] = a /\ Parent[d][a] = c /\ d \in Range(Children[c])
           /\ bcc[c][l] = ST[c][a] /\ bcc[c][l] \in MESIState /\ ST[d][a] \in Kept(f.type)
           /\ e \in Entries /\ EntryOK(e, c) /\ e.sharers = SH[c][a] /\ (isExclusive(e) <=> a \in EX[c])
           /\ f.type = "GETS" => bcc[c][l] # "I"
           /\ f.type = "GETX" => bcc[c][l] = "M"
           /\ f.type \in Puts => SH[d][a] = {}
<1> DEFINE f == Top(t)
           c == f.cache
           l == f.line
           a == f.addr
           d == Caller(t).cache
           m == Caller(t).line
           e == tcc[c][l]
<1>1. f \in Frames /\ FrameOK(f) /\ a \in Addrs /\ c \in Caches
  BY TopOK
<1>2. Len(stack[t]) > 1 /\ d \in Caches /\ LinkOK(Caller(t), f) /\ l \in Lines[c]
  BY <1>1, CallerOK DEF FrameOK
<1>3. /\ Own(ST, SH, tag, f) /\ Ready(ST, tag, f) /\ Link(ST, tag, Caller(t), f)
      /\ Own(ST, SH, tag, Caller(t)) /\ d # c
  BY <1>2, TopFrame
<1>4. /\ f.type \in Gets \cup Puts /\ f.flags = {} /\ a \in Served[c] /\ tag[c][l] = a
  BY <1>3 DEF Own
<1>5. /\ f.own /\ m \in Lines[d] /\ tag[d][m] = a /\ Parent[d][a] = c /\ ST[d][a] \in ChildMay(f)
      /\ f.type \in Puts => Caller(t).pc = "insert"
  BY <1>3 DEF Link
<1>6. d \in Range(Children[c])
  BY <1>2 DEF LinkOK
<1>7. ST[d][a] \in Kept(f.type)
  BY <1>5 DEF ChildMay
<1>8. /\ bcc[c][l] = ST[c][a] /\ bcc[c][l] \in MESIState /\ e \in Entries /\ EntryOK(e, c)
      /\ e.sharers = SH[c][a] /\ (isExclusive(e) <=> a \in EX[c])
  <2>1. /\ ST[c][tag[c][l]] = bcc[c][l] /\ SH[c][tag[c][l]] = e.sharers
        /\ tag[c][l] \in EX[c] <=> isExclusive(e)
    BY <1>1, <1>2, ArraysNow, ViewAt DEF ST, SH, EX
  <2>2. bcc[c][l] \in MESIState /\ e \in Entries /\ EntryOK(e, c)
    BY <1>1, <1>2 DEF LocksInv, LineInv, PerLine, CoherenceInv, EntryInv
  <2> QED
    BY <1>4, <2>1, <2>2
<1>9. Adr(tag, f) = a
  BY DEF Adr
<1>10. (f.type = "GETS" => bcc[c][l] # "I") /\ (f.type = "GETX" => bcc[c][l] = "M")
  BY <1>3, <1>8, <1>9 DEF Ready
<1>11. f.type \in Puts => SH[d][a] = {}
  <2>1. f.type \in Puts => Adr(tag, Caller(t)) = a
    BY <1>5 DEF Adr
  <2>2. Caller(t).pc = "insert" => SH[d][Adr(tag, Caller(t))] = {}
    BY <1>3 DEF Own
  <2> QED
    BY <1>5, <2>1, <2>2
<1> QED
  BY <1>1, <1>2, <1>3, <1>4, <1>5, <1>6, <1>7, <1>8, <1>10, <1>11

LEMMA TakeLineCoherent ==
    ASSUME LocksInv, CoherenceInv, NEW t \in Cores, TakeLine(t)
    PROVE  CoherenceInv' /\ KeepsElse(t, ST', SH', tag') /\ Saved(t, ST', dirty')
<1> DEFINE f == Top(t)
           c == f.cache
           l == f.line
           a == f.addr
           d == Caller(t).cache
           m == Caller(t).line
           e == tcc[c][l]
           q == Drop(e, d)
           g == Goto(f, "end")
<1>1. /\ stack[t] # <<>> /\ f.pc = "dir" /\ f.type \in Puts /\ SetTop(t, g)
      /\ tcc' = Upd(tcc, c, l, q) /\ bcc' = Upd(bcc, d, m, "I") /\ tag' = tag
  BY DEF TakeLine, At, Upd
<1>2. /\ Len(stack[t]) > 1 /\ f \in Frames /\ f.type \in Gets \cup Puts /\ f.own /\ f.flags = {} /\ a \in Served[c]
      /\ a \in Addrs /\ c \in Caches /\ l \in Lines[c] /\ tag[c][l] = a
      /\ d \in Caches /\ d # c /\ m \in Lines[d] /\ tag[d][m] = a /\ Parent[d][a] = c
      /\ ST[d][a] \in Kept(f.type) /\ e \in Entries /\ EntryOK(e, c) /\ e.sharers = SH[c][a] /\ SH[d][a] = {}
  BY <1>1, DirFacts
<1>3. /\ FrameOK(f) /\ StackType /\ f.pc \in Busy \ Sending /\ f.pc \in Busy /\ f.pc # "inval"
  BY <1>1, TopOK DEF Busy, Sending
<1>4. TagInv(tag) /\ EntryInv(tcc) /\ Rel(ST, SH, EX, JS) /\ Arrays(tag, bcc, tcc)
  BY ArraysNow DEF CoherenceInv
<1>5. (\A j \in JS : j.cache # c) /\ Replaced(JS, {c}, {}) = JS
  <2>1. stack[t] # <<>> /\ Top(t).pc \in Busy \ Sending
    BY <1>1, <1>3
  <2> QED
    BY <2>1, NoJobTop
<1>6. bccLock[c] = t /\ TagsElse(tag', {c})
  BY <1>1, <1>3, TopLock DEF TagsElse
<1>7. ST[d][a] # "I" /\ f.type \notin Gets
  BY <1>1, <1>2 DEF Kept, Puts, Gets
<1>8. d \in SH[c][a]
  <2> DEFINE T == [x \in Caches |-> [y \in Addrs |-> IF x = d /\ y = a THEN "I" ELSE ST[x][y]]]
             G == [x \in Caches |-> [y \in Addrs |-> IF x = c /\ y = a THEN SH[c][a] \ {d} ELSE SH[x][y]]]
             Y == [x \in Caches |-> {y \in Addrs : y \in EX[x] /\ ~(x = c /\ y = a)}]
  <2>1. SetAt(T, ST, d, a, "I") /\ SetAt(G, SH, c, a, SH[c][a] \ {d})
    BY DEF SetAt
  <2>2. FlagAt(Y, EX, c, a, "I")
    BY DEF FlagAt, Exclusive
  <2> HIDE DEF T, G, Y, c, d, a
  <2>3. d \in SH[c][a] /\ Rel(T, G, Y, JS)
    BY <1>2, <1>4, <1>5, <1>7, <2>1, <2>2, TakeRel
  <2> QED
    BY <2>3
<1>9. /\ q \in Entries /\ EntryOK(q, c) /\ ~isExclusive(q) /\ q.sharers = SH[c][a] \ {d}
  BY <1>2, <1>8, DropOK
<1>10. /\ g \in Frames /\ g.cache = c /\ g.pc = "end" /\ g.addr = a /\ g.type = f.type /\ g.own = f.own /\ g.flags = {}
  BY <1>2, GotoFrame DEF PCs
<1> HIDE DEF g, q
<1>11. LocksInv'
  BY TakeLineInv
<1>12. \A x \in Caches : \A k \in Lines[x] : tcc'[x][k] = IF x = c /\ k = l THEN q ELSE tcc[x][k]
  BY <1>1, <1>2, <1>9, PerLineSet DEF LocksInv, LineInv
<1>13. \A x \in Caches : \A k \in Lines[x] : bcc'[x][k] = IF x = d /\ k = m THEN "I" ELSE bcc[x][k]
  <2>1. "I" \in MESIState
    BY DEF MESIState
  <2> QED
    BY <1>1, <1>2, <2>1, PerLineSet DEF LocksInv, LineInv
<1>14. TagInv(tag') /\ EntryInv(tcc')
  BY <1>1, <1>4, <1>9, <1>12 DEF EntryInv
<1> DEFINE b2 == bcc'
           e2 == tcc'
<1>15. Arrays(tag, b2, e2) /\ ST' = States(tag, b2) /\ SH' = Sharers(tag, e2) /\ EX' = Exclusives(tag, e2)
  BY <1>1, <1>11, <1>14, ArraysThen DEF ST, SH, EX
<1>16. SetAt(ST', ST, d, a, "I") /\ SetAt(SH', SH, c, a, SH[c][a] \ {d}) /\ FlagAt(EX', EX, c, a, "I")
  <2>1. e2[c][l] = q /\ b2[d][m] = "I"
        /\ (\A x \in Caches : \A k \in Lines[x] : x # c \/ k # l => e2[x][k] = tcc[x][k])
        /\ (\A x \in Caches : \A k \in Lines[x] : (x # c \/ k # l) /\ (x # d \/ k # m) => b2[x][k] = bcc[x][k])
        /\ b2[c][l] = bcc[c][l]
    BY <1>2, <1>12, <1>13
  <2> HIDE DEF b2, e2, c, l, d, m
  <2>2. /\ \A x \in Caches : \A y \in Addrs : States(tag, b2)[x][y] =
                 IF x = d /\ y = tag[d][m] THEN b2[d][m]
                 ELSE IF x = c /\ y = tag[c][l] THEN b2[c][l] ELSE States(tag, bcc)[x][y]
        /\ SetAt(Sharers(tag, e2), Sharers(tag, tcc), c, tag[c][l], e2[c][l].sharers)
        /\ \A x \in Caches : \A y \in Addrs : y \in Exclusives(tag, e2)[x] <=>
                 IF x = c /\ y = tag[c][l] THEN isExclusive(e2[c][l]) ELSE y \in Exclusives(tag, tcc)[x]
    BY <1>2, <1>4, <1>15, <2>1, ViewTwo
  <2>3. ST[c][tag[c][l]] = bcc[c][l]
    BY <1>2, <1>4, ViewAt DEF ST
  <2>4. SetAt(ST', ST, d, a, "I")
    BY <1>2, <1>15, <2>1, <2>2, <2>3 DEF ST, SetAt
  <2>5. SetAt(SH', SH, c, a, SH[c][a] \ {d})
    <3>1. e2[c][l].sharers = SH[c][a] \ {d}
      BY <1>9, <2>1
    <3>2. SetAt(SH', SH, c, tag[c][l], e2[c][l].sharers)
      BY <1>15, <2>2 DEF SH
    <3> QED
      BY <1>2, <3>1, <3>2
  <2>6. FlagAt(EX', EX, c, a, "I")
    BY <1>2, <1>9, <1>15, <2>1, <2>2 DEF EX, FlagAt, Exclusive
  <2> QED
    BY <2>4, <2>5, <2>6
<1>17. StackElse(stack', t) /\ TopSet(stack[t], stack'[t], g)
  BY <1>1, <1>3, <1>10, SetTopStack DEF SameOthers, StackElse
<1>18. JS' = JS
  <2>1. g.pc \notin Sending
    BY <1>10 DEF Sending
  <2>2. Jobs(tag', stack') = Replaced(JS, {c}, {})
    BY <1>1, <1>3, <1>6, <1>17, <2>1, JobsTop
  <2> QED
    BY <1>5, <2>2 DEF JS
<1>19. Rel(ST', SH', EX', JS')
  <2> DEFINE T == ST'
             G == SH'
             Y == EX'
  <2>1. SetAt(T, ST, d, a, "I") /\ SetAt(G, SH, c, a, SH[c][a] \ {d}) /\ FlagAt(Y, EX, c, a, "I")
    BY <1>16
  <2> HIDE DEF T, G, Y, c, d, a
  <2>2. Rel(T, G, Y, JS)
    BY <1>2, <1>4, <1>5, <1>7, <2>1, TakeRel
  <2> QED
    BY <1>18, <2>2 DEF T, G, Y
<1>20. KeepsElse(t, ST', SH', tag')
  <2>1. \A x \in Caches : x # c => tag[x] = tag[x] /\ \A y \in Addrs : Sharers(tag, e2)[x][y] = SH[x][y]
    BY <1>15, <1>16 DEF SetAt
  <2>2. \A x \in Caches : \A y \in Addrs : (x = d /\ y = a) \/ States(tag, b2)[x][y] = ST[x][y]
    BY <1>15, <1>16 DEF SetAt
  <2> HIDE DEF b2, e2
  <2>3. KeepsElse(t, States(tag, b2), Sharers(tag, e2), tag)
    BY <1>2, <1>15, <2>1, <2>2, ElseFrom
  <2> QED
    BY <1>1, <1>15, <2>3
<1>21. Own(ST', SH', tag', g)
  BY <1>2, <1>7, <1>10 DEF Own, Sending
<1>22. Ready(ST', tag', g)
  BY <1>7, <1>10 DEF Ready, Gets
<1>23. ST'[d][a] \in ChildMay(g)
  <2>1. ST'[d][a] = "I"
    BY <1>2, <1>16 DEF SetAt
  <2>2. "I" \in Given(f.type)
    BY <1>7 DEF Given, Gets
  <2> QED
    BY <1>10, <2>1, <2>2 DEF ChildMay
<1>24. g.pc \in Busy
  BY <1>10 DEF Busy
<1>25. Saved(t, ST', dirty')
  <2>1. ST[d][a] = "M" => ST[c][a] = "M"
    <3>1. ST[d][a] = "M" => f.type = "PUTX"
      BY <1>1, <1>2 DEF Kept, Puts
    <3>2. Ready(ST, tag, f) /\ Adr(tag, f) = a
      BY <1>1, TopFrame DEF Adr
    <3> QED
      BY <1>1, <3>1, <3>2 DEF Ready
  <2>2. f.pc \notin Sending
    BY <1>3
  <2> HIDE DEF c, d, a
  <2> QED
    BY <1>2, <1>16, <2>1, <2>2 DEF Saved, SetAt
<1>26. CoherenceInv'
  BY <1>1, <1>3, <1>10, <1>14, <1>19, <1>20, <1>21, <1>22, <1>23, <1>24, AccessTop
<1> QED
  BY <1>20, <1>25, <1>26


\* The child that is taken off the list because it upgrades.
Upgrader(t) == IF Top(t).type = "GETX" THEN {Caller(t).cache} ELSE {}
ToldType(t) == IF Top(t).type = "GETX" THEN "INV" ELSE "INVX"

\* The job of an access that has told others what they have to do.
LEMMA GrantJob ==
    ASSUME LocksInv, CoherenceInv, NEW t \in Cores, stack[t] # <<>>, Top(t).pc = "grant"
    PROVE  /\ Job(tag, stack[t], Len(stack[t])) \in JS
           /\ Job(tag, stack[t], Len(stack[t])).cache = Top(t).cache
           /\ Job(tag, stack[t], Len(stack[t])).addr = Top(t).addr
           /\ Job(tag, stack[t], Len(stack[t])).type = ToldType(t)
           /\ Job(tag, stack[t], Len(stack[t])).left = Top(t).todo
           /\ Job(tag, stack[t], Len(stack[t])).up = Upgrader(t)
<1> DEFINE s == stack[t]
           n == Len(s)
<1>1. n \in Nat \ {0} /\ Top(t) = s[n] /\ Caller(t) = s[n - 1]
  BY TopOK DEF Caller
<1>2. n \in 1 .. n /\ ~(n < n)
  BY <1>1
<1>3. Job(tag, s, n) \in JS
  BY <1>1, <1>2, SenderHolds, SenderFacts DEF Sending
<1>4. Adr(tag, s[n]) = s[n].addr /\ SendType(s[n]) = ToldType(t)
  BY <1>1 DEF Adr, SendType, ToldType
<1>5. /\ Job(tag, s, n).cache = s[n].cache /\ Job(tag, s, n).addr = s[n].addr /\ Job(tag, s, n).type = ToldType(t)
      /\ Job(tag, s, n).left = s[n].todo
      /\ Job(tag, s, n).up = Upgrader(t)
  BY <1>1, <1>2, <1>4 DEF Job, Upgrader
<1> QED
  BY <1>1, <1>3, <1>5

LEMMA OthersAre ==
    ASSUME LocksInv, CoherenceInv, NEW t \in Cores, stack[t] # <<>>,
           Top(t).pc \in {"dir", "grant"}, Top(t).type \in Gets
    PROVE  LET c == Top(t).cache
               a == Top(t).addr
           IN
           /\ Others(t) \in Entries /\ EntryOK(Others(t), c)
           /\ Others(t).sharers = SH[c][a] \ Upgrader(t)
           /\ isExclusive(Others(t)) <=> a \in EX[c]
           /\ SendType(Goto(Top(t), "grant")) = ToldType(t) /\ ToldType(t) \in InvTypes
           /\ ToTell(t) = IF ToldType(t) = "INV" \/ a \in EX[c] THEN SH[c][a] \ Upgrader(t) ELSE {}
<1> DEFINE f == Top(t)
           c == f.cache
           a == f.addr
           d == Caller(t).cache
           e == tcc[c][f.line]
<1>1. /\ c \in Caches /\ d \in Caches /\ a \in Addrs /\ Parent[d][a] = c /\ ST[d][a] \in Kept(f.type) /\ f \in Frames
      /\ e \in Entries /\ EntryOK(e, c) /\ e.sharers = SH[c][a] /\ (isExclusive(e) <=> a \in EX[c])
  BY DirFacts
<1>2. ASSUME f.type = "GETX" /\ d \in e.sharers
      PROVE  /\ Others(t) \in Entries /\ EntryOK(Others(t), c) /\ Others(t).sharers = SH[c][a] \ Upgrader(t)
             /\ isExclusive(Others(t)) <=> a \in EX[c]
  <2>1. Others(t) = Drop(e, d) /\ Upgrader(t) = {d}
    BY <1>2 DEF Others, Upgrader
  <2>2. ~Exclusive(ST[d][a])
    BY <1>1, <1>2 DEF Kept, Exclusive
  <2>3. a \notin EX[c]
    <3>1. CASE f.pc = "dir"
      <4>1. stack[t] # <<>> /\ Top(t).pc \in Busy \ Sending
        BY <3>1 DEF Busy, Sending
      <4>2. \A j \in JS : j.cache # c
        BY <4>1, NoJobTop
      <4>3. DownRel(ST, SH, EX, JS)
        BY DEF CoherenceInv, Rel
      <4> HIDE DEF c, a, d
      <4> QED
        BY <1>1, <1>2, <2>2, <4>2, <4>3 DEF DownRel
    <3>2. CASE f.pc = "grant"
      <4> DEFINE j == Job(tag, stack[t], Len(stack[t]))
      <4>1. j \in JS /\ j.cache = c /\ j.addr = a /\ j.up = {d}
        BY <2>1, <3>2, GrantJob
      <4> HIDE DEF j
      <4>2. ToldOK(ST, SH, EX, j)
        BY <1>1, <4>1 DEF CoherenceInv, Rel, ToldRel
      <4>3. d \notin SH[c][a]
        BY <4>1, <4>2 DEF ToldOK
      <4> QED
        BY <1>1, <1>2, <4>3
    <3> QED
      BY <3>1, <3>2
  <2> HIDE DEF c, a, d, e
  <2> QED
    BY <1>1, <1>2, <2>1, <2>3, DropOK
<1>3. ASSUME ~(f.type = "GETX" /\ d \in e.sharers)
      PROVE  /\ Others(t) \in Entries /\ EntryOK(Others(t), c) /\ Others(t).sharers = SH[c][a] \ Upgrader(t)
             /\ isExclusive(Others(t)) <=> a \in EX[c]
  <2>1. Others(t) = e /\ e.sharers \ Upgrader(t) = e.sharers
    BY <1>3 DEF Others, Upgrader
  <2> QED
    BY <1>1, <2>1
<1>4. SendType(Goto(f, "grant")) = ToldType(t) /\ ToldType(t) \in InvTypes
  <2>1. Goto(f, "grant").pc = "grant" /\ Goto(f, "grant").type = f.type
    BY <1>1 DEF Goto, Frames
  <2> QED
    BY <2>1 DEF SendType, ToldType, InvTypes
<1>5. /\ Others(t) \in Entries /\ EntryOK(Others(t), c) /\ Others(t).sharers = SH[c][a] \ Upgrader(t)
      /\ isExclusive(Others(t)) <=> a \in EX[c]
  BY <1>2, <1>3
<1>6. ToTell(t) = IF ToldType(t) = "INV" \/ a \in EX[c] THEN SH[c][a] \ Upgrader(t) ELSE {}
  <2>1. ToTell(t) = Targets(Others(t), c, ToldType(t))
    BY <1>4 DEF ToTell
  <2>2. /\ Targets(Others(t), c, "INV") = Others(t).sharers
        /\ Targets(Others(t), c, "INVX") = IF isExclusive(Others(t)) THEN Others(t).sharers ELSE {}
    BY <1>1, <1>5, TargetsAre
  <2>3. CASE ToldType(t) = "INV"
    BY <1>5, <2>1, <2>2, <2>3
  <2>4. CASE ToldType(t) # "INV"
    <3>1. ToldType(t) = "INVX"
      BY <2>4 DEF ToldType
    <3> QED
      BY <1>5, <2>1, <2>2, <2>4, <3>1
  <2> QED
    BY <2>3, <2>4
<1> QED
  BY <1>4, <1>5, <1>6

\* The relation once an access that serves a child has looked whom to tell.
LEMMA BegunRel ==
    ASSUME LocksInv, CoherenceInv, NEW t \in Cores, stack[t] # <<>>, Top(t).pc = "dir", Top(t).type \in Gets,
           NEW j, j.cache = Top(t).cache, j.addr = Top(t).addr, j.type = ToldType(t),
           j.left = ToTell(t), j.up = Upgrader(t),
           NEW G, SetAt(G, SH, Top(t).cache, Top(t).addr, SH[Top(t).cache][Top(t).addr] \ Upgrader(t)),
           NEW J2, J2 = JS \cup {j}
    PROVE  Rel(ST, G, EX, J2)
<1> DEFINE c == Top(t).cache
           a == Top(t).addr
           d == Caller(t).cache
<1>1. /\ c \in Caches /\ d \in Caches /\ a \in Addrs /\ Parent[d][a] = c /\ ST[d][a] \in Kept(Top(t).type)
  BY DirFacts
<1>2. ToldType(t) \in InvTypes /\ ToTell(t) = IF ToldType(t) = "INV" \/ a \in EX[c] THEN SH[c][a] \ Upgrader(t) ELSE {}
  BY OthersAre
<1>3. \A i \in JS : i.cache # c
  <2>1. Top(t).pc \in Busy \ Sending
    BY DEF Busy, Sending
  <2> QED
    BY <2>1, NoJobTop
<1>4. (j.up # {} => j.type = "INV") /\ \A x \in j.up : x \in Caches /\ Parent[x][a] = c /\ ST[x][a] \in {"I", "S"}
  BY <1>1 DEF Upgrader, ToldType, Kept
<1>5. G[c][a] = SH[c][a] \ j.up
  BY <1>1 DEF SetAt
<1>6. j.left = IF j.type = "INV" \/ a \in EX[c] THEN G[c][a] ELSE {}
  BY <1>2, <1>5
<1>7. SetAt(G, SH, c, a, SH[c][a] \ j.up) /\ j.cache = c /\ j.addr = a /\ j.type \in InvTypes /\ Rel(ST, SH, EX, JS)
  BY <1>2 DEF CoherenceInv
<1> HIDE DEF c, a, d
<1> QED
  BY <1>1, <1>3, <1>4, <1>6, <1>7, BeginRel

LEMMA TellOthersCoherent ==
    ASSUME LocksInv, CoherenceInv, NEW t \in Cores, TellOthers(t)
    PROVE  CoherenceInv'
<1> DEFINE f == Top(t)
           c == f.cache
           l == f.line
           a == f.addr
           d == Caller(t).cache
           s == stack[t]
           r == stack'[t]
           n == Len(s)
           e == Others(t)
           k == Goto(f, "grant")
           g == [k EXCEPT !.todo = ToTell(t)]
<1>1. /\ stack[t] # <<>> /\ f.pc = "dir" /\ f.type \in Gets /\ SetTop(t, g)
      /\ tcc' = Upd(tcc, c, l, e) /\ bcc' = bcc /\ tag' = tag
  BY DEF TellOthers, At, Upd
<1>2. /\ n > 1 /\ f \in Frames /\ f.own /\ f.flags = {} /\ a \in Served[c]
      /\ a \in Addrs /\ c \in Caches /\ l \in Lines[c] /\ tag[c][l] = a
      /\ d \in Caches /\ d # c /\ Parent[d][a] = c /\ bcc[c][l] = ST[c][a] /\ ST[d][a] \in Kept(f.type)
      /\ (f.type = "GETS" => bcc[c][l] # "I") /\ (f.type = "GETX" => bcc[c][l] = "M")
  BY <1>1, DirFacts
<1>3. /\ e \in Entries /\ EntryOK(e, c) /\ e.sharers = SH[c][a] \ Upgrader(t) /\ (isExclusive(e) <=> a \in EX[c])
      /\ ToldType(t) \in InvTypes
  BY <1>1, OthersAre
<1>4. /\ FrameOK(f) /\ StackType /\ f.pc \in Busy \ Sending /\ f.pc \in Busy /\ f.pc # "inval" /\ n \in Nat \ {0}
  BY <1>1, TopOK DEF Busy, Sending
<1>5. TagInv(tag) /\ EntryInv(tcc) /\ Rel(ST, SH, EX, JS) /\ Arrays(tag, bcc, tcc)
  BY ArraysNow DEF CoherenceInv
<1>6. \A N : Replaced(JS, {c}, N) = JS \cup N
  <2>1. stack[t] # <<>> /\ Top(t).pc \in Busy \ Sending
    BY <1>1, <1>4
  <2> QED
    BY <2>1, NoJobTop
<1>7. bccLock[c] = t /\ TagsElse(tag', {c})
  BY <1>1, <1>4, TopLock DEF TagsElse
<1>8. ToTell(t) \subseteq Caches /\ ~f.wb
  <2>1. ~f.wb
    BY <1>1, TopFrame DEF Own
  <2>2. ToTell(t) \subseteq Caches
    BY <1>2, TargetsFacts, LevelFacts DEF ToTell
  <2> QED
    BY <2>1, <2>2
<1>9. /\ g \in Frames /\ g.cache = c /\ g.pc = "grant" /\ g.addr = a /\ g.type = f.type /\ g.own = f.own
      /\ g.flags = {} /\ g.line = l /\ ~g.wb /\ g.todo = ToTell(t)
  <2>1. /\ k \in Frames /\ k.cache = c /\ k.pc = "grant" /\ k.addr = a /\ k.type = f.type /\ k.own = f.own
        /\ k.flags = {} /\ k.line = l /\ ~k.wb
    BY <1>2, <1>8, GotoFrame DEF PCs
  <2> HIDE DEF k
  <2> QED
    BY <1>8, <2>1 DEF Frames
<1> HIDE DEF g, e
<1>10. LocksInv'
  BY TellOthersInv
<1>11. \A x \in Caches : \A m \in Lines[x] : tcc'[x][m] = IF x = c /\ m = l THEN e ELSE tcc[x][m]
  BY <1>1, <1>2, <1>3, PerLineSet DEF LocksInv, LineInv
<1>12. TagInv(tag') /\ EntryInv(tcc')
  BY <1>1, <1>3, <1>5, <1>11 DEF EntryInv
<1> DEFINE e2 == tcc'
<1>13. Arrays(tag, bcc, e2) /\ ST' = ST /\ SH' = Sharers(tag, e2) /\ EX' = Exclusives(tag, e2)
  BY <1>1, <1>10, <1>12, ArraysThen DEF ST, SH, EX
<1>14. SetAt(SH', SH, c, a, SH[c][a] \ Upgrader(t)) /\ \A x \in Caches : \A y \in Addrs : y \in EX'[x] <=> y \in EX[x]
  <2>1. e2[c][l] = e /\ \A x \in Caches : \A m \in Lines[x] : x # c \/ m # l => e2[x][m] = tcc[x][m]
    BY <1>2, <1>11
  <2> HIDE DEF e2, c, l, a
  <2>2. /\ SetAt(Sharers(tag, e2), Sharers(tag, tcc), c, tag[c][l], e2[c][l].sharers)
        /\ \A x \in Caches : \A y \in Addrs : y \in Exclusives(tag, e2)[x] <=>
                 IF x = c /\ y = tag[c][l] THEN isExclusive(e2[c][l]) ELSE y \in Exclusives(tag, tcc)[x]
    BY <1>2, <1>5, <1>13, <2>1, ViewSet
  <2>3. SetAt(SH', SH, c, a, SH[c][a] \ Upgrader(t))
    BY <1>2, <1>3, <1>13, <2>1, <2>2 DEF SH
  <2> QED
    BY <1>2, <1>3, <1>13, <2>1, <2>2, <2>3 DEF EX
<1>15. StackElse(stack', t) /\ TopSet(s, r, g)
  BY <1>1, <1>4, <1>9, SetTopStack DEF SameOthers, StackElse
<1> DEFINE j == Job(tag, r, n)
<1>16. j.cache = c /\ j.addr = a /\ j.type = ToldType(t) /\ j.left = ToTell(t) /\ j.up = Upgrader(t)
  <2>1. n - 1 \in 1 .. n /\ n - 1 < n /\ ~(n < n)
    BY <1>2, <1>4
  <2>2. r[n] = g /\ r[n - 1] = s[n - 1] /\ Len(r) = n
    BY <1>15, <2>1 DEF TopSet
  <2>3. s[n - 1] = Caller(t)
    BY DEF Caller
  <2>4. Adr(tag, g) = a /\ SendType(g) = ToldType(t)
    BY <1>9 DEF Adr, SendType, ToldType
  <2> HIDE DEF n, s, r
  <2> QED
    BY <1>9, <2>1, <2>2, <2>3, <2>4 DEF Job, Upgrader, j
<1> HIDE DEF j
<1>17. JS' = JS \cup {j}
  <2>1. g.pc \in Sending
    BY <1>9 DEF Sending
  <2>2. Jobs(tag', stack') = Replaced(JS, {c}, {Job(tag', r, n)})
    BY <1>1, <1>4, <1>7, <1>15, <2>1, JobsTop
  <2> QED
    BY <1>1, <1>6, <2>2 DEF JS, j
<1>18. Rel(ST', SH', EX', JS')
  <2> DEFINE G == SH'
             Y == EX'
             J2 == JS'
  <2>1. SetAt(G, SH, c, a, SH[c][a] \ Upgrader(t)) /\ J2 = JS \cup {j}
    BY <1>14, <1>17
  <2>2. \A x \in Caches : \A y \in Addrs : y \in Y[x] <=> y \in EX[x]
    BY <1>14
  <2> HIDE DEF G, Y, J2
  <2>3. Rel(ST, G, EX, J2)
    BY <1>1, <1>16, <2>1, BegunRel
  <2>4. \A i \in J2 : i.cache \in Caches
    BY <1>2, <1>16, <2>1, OneJob
  <2>5. Rel(ST, G, Y, J2)
    BY <2>2, <2>3, <2>4, RelSame
  <2> QED
    BY <1>13, <2>5 DEF G, Y, J2
<1>19. KeepsElse(t, ST', SH', tag')
  <2>1. \A x \in Caches : x # c => tag[x] = tag[x] /\ \A y \in Addrs : Sharers(tag, e2)[x][y] = SH[x][y]
    BY <1>13, <1>14 DEF SetAt
  <2>2. \A x \in Caches : \A y \in Addrs : States(tag, bcc)[x][y] = ST[x][y]
    BY DEF ST
  <2> HIDE DEF e2
  <2>3. KeepsElse(t, States(tag, bcc), Sharers(tag, e2), tag)
    BY <1>2, <1>13, <2>1, <2>2, ElseFrom
  <2> QED
    BY <1>1, <1>13, <2>3 DEF ST
<1>20. Adr(tag', g) = a
  BY <1>9 DEF Adr
<1>21. Own(ST', SH', tag', g)
  BY <1>1, <1>2, <1>9 DEF Own, Sending
<1>22. Ready(ST', tag', g)
  BY <1>1, <1>2, <1>9, <1>13, <1>20 DEF Ready
<1>23. ST'[d][a] \in ChildMay(g)
  BY <1>2, <1>9, <1>13 DEF ChildMay
<1>24. g.pc \in Busy
  BY <1>9 DEF Busy
<1> QED
  BY <1>1, <1>4, <1>9, <1>12, <1>18, <1>19, <1>21, <1>22, <1>23, <1>24, AccessTop

\* There is nothing left to tell: the relation before the child gets its state,
\* with the job of the access that serves it.
LEMMA GrantReady ==
    ASSUME LocksInv, CoherenceInv, NEW t \in Cores, Grant(t)
    PROVE  \E j, G, J :
              /\ Rel(ST, G, EX, J) /\ j \in J
              /\ SetAt(G, SH, Top(t).cache, Top(t).addr, SH[Top(t).cache][Top(t).addr] \ Upgrader(t))
              /\ j.cache = Top(t).cache /\ j.addr = Top(t).addr /\ j.type = ToldType(t) /\ j.left = {} /\ j.up = Upgrader(t)
              /\ \A i \in J : i.cache = Top(t).cache => i = j
              /\ Replaced(J, {Top(t).cache}, {}) = Replaced(JS, {Top(t).cache}, {})
<1> DEFINE f == Top(t)
           c == f.cache
           a == f.addr
<1>1. stack[t] # <<>> /\ ((f.pc = "grant" /\ f.todo = {}) \/ (f.pc = "dir" /\ f.type \in Gets /\ ToTell(t) = {}))
  BY DEF Grant, At
<1>2. f.pc \in {"dir", "grant"} /\ c \in Caches /\ a \in Addrs /\ Rel(ST, SH, EX, JS)
  BY <1>1, DirFacts DEF CoherenceInv
<1>3. CASE f.pc = "grant" /\ f.todo = {}
  <2> DEFINE j == Job(tag, stack[t], Len(stack[t]))
  <2>1. j \in JS /\ j.cache = c /\ j.addr = a /\ j.type = ToldType(t) /\ j.left = {} /\ j.up = Upgrader(t)
    BY <1>1, <1>3, GrantJob
  <2> HIDE DEF j
  <2>2. \A i \in JS : i.cache = c => i = j
    BY <2>1, OneJob
  <2>3. ToldOK(ST, SH, EX, j)
    BY <1>2, <2>1 DEF Rel, ToldRel
  <2>4. SH[c][a] \ Upgrader(t) = SH[c][a]
    BY <2>1, <2>3 DEF ToldOK
  <2>5. SetAt(SH, SH, c, a, SH[c][a] \ Upgrader(t))
    BY <2>4 DEF SetAt
  <2> QED
    BY <1>2, <2>1, <2>2, <2>5
<1>4. CASE f.pc = "dir" /\ f.type \in Gets /\ ToTell(t) = {}
  <2> DEFINE j == [cache |-> c, addr |-> a, type |-> ToldType(t), left |-> {}, up |-> Upgrader(t)]
             G == [x \in Caches |-> [y \in Addrs |-> IF x = c /\ y = a THEN SH[c][a] \ Upgrader(t) ELSE SH[x][y]]]
             J == JS \cup {j}
  <2>1. j.cache = c /\ j.addr = a /\ j.type = ToldType(t) /\ j.left = {} /\ j.up = Upgrader(t)
    OBVIOUS
  <2>2. SetAt(G, SH, c, a, SH[c][a] \ Upgrader(t))
    BY DEF SetAt
  <2>3. J = JS \cup {j}
    OBVIOUS
  <2> HIDE DEF j, G, J
  <2>4. Rel(ST, G, EX, J)
    BY <1>1, <1>4, <2>1, <2>2, <2>3, BegunRel
  <2>5. \A i \in JS : i.cache # c
    <3>1. stack[t] # <<>> /\ Top(t).pc \in Busy \ Sending
      BY <1>1, <1>4 DEF Busy, Sending
    <3> QED
      BY <3>1, NoJobTop
  <2>6. (\A i \in J : i.cache = c => i = j) /\ j \in J
    BY <2>3, <2>5
  <2>7. Replaced(J, {c}, {}) = Replaced(JS, {c}, {})
    BY <2>1, <2>3 DEF Replaced
  <2> QED
    BY <2>1, <2>2, <2>4, <2>6, <2>7
<1> QED
  BY <1>1, <1>3, <1>4

\* The state that a child is given, and the entry and the state of its parent.
GrantTold(t) == Told(Others(t), ToldType(t))
GrantState(t) == bcc[Top(t).cache][Top(t).line]
GrantGiven(t) == Granted(GrantTold(t), Top(t), GrantState(t))
GrantWritten(t) == Written(Top(t), GrantState(t))
GrantEntry(t) == WithSharer(GrantTold(t), Caller(t).cache, GrantGiven(t))

LEMMA GrantStep ==
    ASSUME LocksInv, CoherenceInv, NEW t \in Cores, Grant(t)
    PROVE  LET c == Top(t).cache
               a == Top(t).addr
               d == Caller(t).cache
           IN
           /\ tcc' = Upd(tcc, c, Top(t).line, GrantEntry(t))
           /\ bcc' = Upd(Upd(bcc, c, Top(t).line, GrantWritten(t)), d, Caller(t).line, GrantGiven(t))
           /\ SetTop(t, Goto(Top(t), "end")) /\ tag' = tag
           /\ stack[t] # <<>> /\ Top(t).pc \in {"dir", "grant"} /\ Top(t).type \in Gets
<1> DEFINE f == Top(t)
<1>1. /\ stack[t] # <<>> /\ f.pc \in {"dir", "grant"} /\ (f.pc = "dir" => f.type \in Gets) /\ SetTop(t, Goto(f, "end"))
      /\ tag' = tag
  BY DEF Grant, At
<1>2. f.type \in Gets
  <2>1. f.pc = "grant" => f.type \in Gets
    BY <1>1, TopFrame DEF Own
  <2> QED
    BY <1>1, <2>1
<1>3. f.own /\ SendType(Goto(f, "grant")) = ToldType(t)
  BY <1>1, <1>2, DirFacts, OthersAre
<1>4. tcc' = Upd(tcc, f.cache, f.line, GrantEntry(t))
  BY <1>3 DEF Grant, Upd, GrantEntry, GrantGiven, GrantTold, GrantState
<1>5. bcc' = Upd(Upd(bcc, f.cache, f.line, GrantWritten(t)), Caller(t).cache, Caller(t).line, GrantGiven(t))
  BY <1>3 DEF Grant, Upd, GrantGiven, GrantTold, GrantState, GrantWritten
<1> QED
  BY <1>1, <1>2, <1>4, <1>5

\* The relation when a cache gives a child a state, and changes its own to w.
LEMMA GrantedRel ==
    ASSUME NEW S, NEW H, NEW X, NEW J, Rel(S, H, X, J), NEW p \in Caches, NEW a \in Addrs,
           NEW j \in J, j.cache = p, j.addr = a, j.left = {},
           \A i \in J : i.cache = p => i = j,
           NEW d \in Caches, Parent[d][a] = p, d # p, NEW given \in MESIState,
           \/ j.type = "INV" /\ j.up = {d} /\ given = "M"
           \/ j.type = "INVX" /\ S[d][a] = "I" /\ given \in {"S", "E"},
           S[p][a] # "I", Exclusive(given) => Exclusive(S[p][a]),
           j.type = "INVX" /\ given = "E" => H[p][a] = {},
           NEW w \in MESIState, w = S[p][a] \/ (w = "M" /\ S[p][a] = "E"),
           NEW T, \A x \in Caches : \A y \in Addrs :
                     T[x][y] = IF x = d /\ y = a THEN given ELSE IF x = p /\ y = a THEN w ELSE S[x][y],
           NEW list, list = IF j.type = "INV" THEN {d} ELSE H[p][a] \cup {d},
           NEW G, SetAt(G, H, p, a, list),
           NEW Y, FlagAt(Y, X, p, a, given),
           NEW J2, J2 = Replaced(J, {p}, {})
    PROVE  Rel(T, G, Y, J2)
<1> DEFINE U == [x \in Caches |-> [y \in Addrs |-> IF x = p /\ y = a THEN w ELSE S[x][y]]]
<1>1. SetAt(U, S, p, a, w) /\ U[p][a] = w /\ U[d][a] = S[d][a]
  BY DEF SetAt
<1> HIDE DEF U
<1>2. Rel(U, H, X, J)
  <2>1. CASE w = S[p][a]
    <3>1. \A c \in Caches : \A x \in Addrs : U[c][x] = S[c][x]
      BY <1>1, <2>1 DEF SetAt
    <3>2. \A i \in J : i.cache \in Caches
      BY DEF Rel, ToldRel
    <3> QED
      BY <3>1, <3>2, RelSame
  <2>2. CASE w = "M" /\ S[p][a] = "E"
    <3>1. w \in MESIState \ {"I"} /\ Exclusive(w) /\ Exclusive(S[p][a])
      BY <2>2 DEF Exclusive
    <3> QED
      BY <1>1, <3>1, UpgradeRel
  <2> QED
    BY <2>1, <2>2
<1>3. SetAt(T, U, d, a, given)
  BY <1>1 DEF SetAt
<1>4. U[p][a] # "I" /\ (Exclusive(given) => Exclusive(U[p][a]))
  BY <1>1 DEF Exclusive
<1>5. \/ j.type = "INV" /\ j.up = {d} /\ given = "M"
      \/ j.type = "INVX" /\ U[d][a] = "I" /\ given \in {"S", "E"}
  BY <1>1
<1>6. j.type = "INVX" /\ given = "E" => H[p][a] = {}
  OBVIOUS
<1> QED
  BY <1>2, <1>3, <1>4, <1>5, <1>6, GrantRel

\* What is given.
LEMMA GrantFacts ==
    ASSUME LocksInv, CoherenceInv, NEW t \in Cores, Grant(t),
           NEW j, NEW G, NEW J, Rel(ST, G, EX, J), j \in J,
           SetAt(G, SH, Top(t).cache, Top(t).addr, SH[Top(t).cache][Top(t).addr] \ Upgrader(t)),
           j.cache = Top(t).cache, j.addr = Top(t).addr, j.type = ToldType(t), j.left = {}, j.up = Upgrader(t)
    PROVE  LET f == Top(t)
               c == f.cache
               a == f.addr
               d == Caller(t).cache
               s == GrantState(t)
               given == GrantGiven(t)
               w == GrantWritten(t)
           IN
           /\ s = ST[c][a] /\ s # "I" /\ given \in {"S", "E", "M"}
           /\ \/ j.type = "INV" /\ j.up = {d} /\ given = "M"
              \/ j.type = "INVX" /\ ST[d][a] = "I" /\ given \in {"S", "E"}
           /\ given \in Given(f.type)
           /\ Exclusive(given) => Exclusive(s)
           /\ j.type = "INVX" /\ given = "E" => G[c][a] = {}
           /\ w \in MESIState /\ (w = s \/ (w = "M" /\ s = "E")) /\ (f.type = "GETX" => w = "M")
           /\ GrantEntry(t) \in Entries /\ EntryOK(GrantEntry(t), c)
           /\ isExclusive(GrantEntry(t)) <=> Exclusive(given)
           /\ GrantEntry(t).sharers = IF j.type = "INV" THEN {d} ELSE G[c][a] \cup {d}
<1> DEFINE f == Top(t)
           c == f.cache
           a == f.addr
           d == Caller(t).cache
           s == GrantState(t)
           given == GrantGiven(t)
           w == GrantWritten(t)
           o == GrantTold(t)
<1>1. stack[t] # <<>> /\ f.pc \in {"dir", "grant"} /\ f.type \in Gets
  BY GrantStep
<1>2. /\ f.own /\ f.flags = {} /\ c \in Caches /\ a \in Addrs /\ d \in Caches /\ d \in Range(Children[c])
      /\ Parent[d][a] = c /\ s = ST[c][a] /\ s \in MESIState /\ ST[d][a] \in Kept(f.type)
      /\ (f.type = "GETS" => s # "I") /\ (f.type = "GETX" => s = "M")
  BY <1>1, DirFacts DEF GrantState
<1>3. /\ Others(t) \in Entries /\ EntryOK(Others(t), c) /\ Others(t).sharers = SH[c][a] \ Upgrader(t)
      /\ ToldType(t) \in InvTypes
  BY <1>1, OthersAre
<1>4. /\ EntryOK(o, c) /\ o \in Entries /\ o.sharers = IF ToldType(t) = "INV" THEN {} ELSE Others(t).sharers
  <2> HIDE DEF c
  <2> QED
    BY <1>2, <1>3, ToldOKEntry DEF GrantTold
<1>5. Others(t).sharers = G[c][a]
  BY <1>2, <1>3 DEF SetAt
<1>6. ToldOK(ST, G, EX, j)
  BY <1>2 DEF Rel, ToldRel
<1>7. o.numSharers = 0 <=> o.sharers = {}
  <2> HIDE DEF c, o
  <2> QED
    BY <1>2, <1>4, EntryFacts
<1>8. CASE f.type = "GETX"
  <2>1. j.type = "INV" /\ j.up = {d} /\ given = "M" /\ w = "M" /\ s = "M" /\ o.sharers = {}
    BY <1>2, <1>4, <1>8 DEF ToldType, Upgrader, GrantGiven, Granted, GrantWritten, Written
  <2>2. /\ EntryOK(GrantEntry(t), c) /\ GrantEntry(t) \in Entries
        /\ isExclusive(GrantEntry(t)) <=> Exclusive(given)
        /\ GrantEntry(t).sharers = o.sharers \cup {d}
    <3>1. d \notin o.sharers /\ given \in {"S", "E", "M"} /\ (given # "S" => o.sharers = {})
      BY <2>1
    <3>2. GrantEntry(t) = WithSharer(o, d, given)
      BY DEF GrantEntry
    <3> HIDE DEF c, d, given, o
    <3> QED
      BY <1>2, <1>4, <3>1, <3>2, WithSharerOK
  <2>3. given \in Given(f.type) /\ Exclusive(s) /\ "M" \in MESIState
    BY <1>8, <2>1 DEF Given, Exclusive, MESIState
  <2> QED
    BY <1>2, <1>8, <2>1, <2>2, <2>3
<1>9. CASE f.type = "GETS"
  <2>1. j.type = "INVX" /\ j.up = {} /\ s # "I" /\ ST[d][a] = "I" /\ o.sharers = G[c][a]
    BY <1>2, <1>4, <1>5, <1>9 DEF ToldType, Upgrader, Kept
  <2>2. d \notin o.sharers
    BY <1>6, <2>1 DEF ToldOK
  <2>3. given = (IF o.numSharers = 0 /\ Exclusive(s) THEN "E" ELSE "S")
    BY <1>2, <1>9 DEF GrantGiven, Granted, GivesE, isEmpty
  <2>4. /\ given \in {"S", "E"} /\ given \in {"S", "E", "M"} /\ (given # "S" => o.sharers = {})
        /\ (Exclusive(given) => Exclusive(s))
    BY <1>7, <2>3 DEF Exclusive
  <2>5. /\ EntryOK(GrantEntry(t), c) /\ GrantEntry(t) \in Entries
        /\ isExclusive(GrantEntry(t)) <=> Exclusive(given)
        /\ GrantEntry(t).sharers = o.sharers \cup {d}
    <3>1. GrantEntry(t) = WithSharer(o, d, given)
      BY DEF GrantEntry
    <3> HIDE DEF c, d, given, o
    <3> QED
      BY <1>2, <1>4, <2>2, <2>4, <3>1, WithSharerOK
  <2>6. w \in MESIState /\ (w = s \/ (w = "M" /\ s = "E"))
    BY <1>2 DEF GrantWritten, Written, MESIState
  <2>7. given \in Given(f.type)
    BY <1>9, <2>4 DEF Given
  <2> QED
    BY <1>2, <1>9, <2>1, <2>4, <2>5, <2>6, <2>7
<1>10. f.type \in {"GETS", "GETX"}
  BY <1>1 DEF Gets
<1> QED
  BY <1>8, <1>9, <1>10

LEMMA GrantCoherent ==
    ASSUME LocksInv, CoherenceInv, NEW t \in Cores, Grant(t)
    PROVE  CoherenceInv' /\ KeepsElse(t, ST', SH', tag') /\ Saved(t, ST', dirty')
<1> DEFINE f == Top(t)
           c == f.cache
           l == f.line
           a == f.addr
           d == Caller(t).cache
           m == Caller(t).line
           s == GrantState(t)
           given == GrantGiven(t)
           w == GrantWritten(t)
           q == GrantEntry(t)
           g == Goto(f, "end")
<1>1. /\ tcc' = Upd(tcc, c, l, q) /\ bcc' = Upd(Upd(bcc, c, l, w), d, m, given)
      /\ SetTop(t, g) /\ tag' = tag /\ stack[t] # <<>> /\ f.pc \in {"dir", "grant"} /\ f.type \in Gets
  BY GrantStep
<1>2. /\ Len(stack[t]) > 1 /\ f \in Frames /\ f.own /\ f.flags = {} /\ a \in Served[c]
      /\ a \in Addrs /\ c \in Caches /\ l \in Lines[c] /\ tag[c][l] = a
      /\ d \in Caches /\ d # c /\ m \in Lines[d] /\ tag[d][m] = a /\ Parent[d][a] = c
  BY <1>1, DirFacts
<1>3. \E j, G, J :
              /\ Rel(ST, G, EX, J) /\ j \in J
              /\ SetAt(G, SH, c, a, SH[c][a] \ Upgrader(t))
              /\ j.cache = c /\ j.addr = a /\ j.type = ToldType(t) /\ j.left = {} /\ j.up = Upgrader(t)
              /\ \A i \in J : i.cache = c => i = j
              /\ Replaced(J, {c}, {}) = Replaced(JS, {c}, {})
  BY GrantReady
<1>4. PICK j, G, J :
              /\ Rel(ST, G, EX, J) /\ j \in J
              /\ SetAt(G, SH, c, a, SH[c][a] \ Upgrader(t))
              /\ j.cache = c /\ j.addr = a /\ j.type = ToldType(t) /\ j.left = {} /\ j.up = Upgrader(t)
              /\ \A i \in J : i.cache = c => i = j
              /\ Replaced(J, {c}, {}) = Replaced(JS, {c}, {})
  BY <1>3
<1> DEFINE list == IF j.type = "INV" THEN {d} ELSE G[c][a] \cup {d}
<1>5. /\ s = ST[c][a] /\ s # "I" /\ given \in {"S", "E", "M"}
      /\ \/ j.type = "INV" /\ j.up = {d} /\ given = "M"
         \/ j.type = "INVX" /\ ST[d][a] = "I" /\ given \in {"S", "E"}
      /\ given \in Given(f.type)
      /\ Exclusive(given) => Exclusive(s)
      /\ j.type = "INVX" /\ given = "E" => G[c][a] = {}
      /\ w \in MESIState /\ (w = s \/ (w = "M" /\ s = "E")) /\ (f.type = "GETX" => w = "M")
      /\ q \in Entries /\ EntryOK(q, c)
      /\ isExclusive(q) <=> Exclusive(given)
      /\ q.sharers = list
  BY <1>4, GrantFacts
<1>6. given \in MESIState /\ w # "I"
  BY <1>5 DEF MESIState
<1>7. /\ FrameOK(f) /\ StackType /\ f.pc \in Busy /\ f.pc # "inval" /\ f.todo \subseteq Caches
  BY <1>1, TopOK DEF Busy, Frames
<1>8. TagInv(tag) /\ EntryInv(tcc) /\ Arrays(tag, bcc, tcc)
  BY ArraysNow DEF CoherenceInv
<1>9. bccLock[c] = t /\ TagsElse(tag', {c})
  BY <1>1, <1>7, TopLock DEF TagsElse
<1>10. /\ g \in Frames /\ g.cache = c /\ g.pc = "end" /\ g.addr = a /\ g.type = f.type /\ g.own = f.own
       /\ g.flags = {} /\ g.line = l
  BY <1>2, GotoFrame DEF PCs
<1> HIDE DEF g, q, w, given, s, list
<1>11. LocksInv'
  BY GrantInv
<1>12. \A x \in Caches : \A k \in Lines[x] : tcc'[x][k] = IF x = c /\ k = l THEN q ELSE tcc[x][k]
  BY <1>1, <1>2, <1>5, PerLineSet DEF LocksInv, LineInv
<1>13. \A x \in Caches : \A k \in Lines[x] :
          bcc'[x][k] = IF x = d /\ k = m THEN given ELSE IF x = c /\ k = l THEN w ELSE bcc[x][k]
  <2> DEFINE b1 == Upd(bcc, c, l, w)
  <2>1. PerLine(b1, MESIState) /\ \A x \in Caches : \A k \in Lines[x] : b1[x][k] = IF x = c /\ k = l THEN w ELSE bcc[x][k]
    BY <1>5, PerLineSet DEF LocksInv, LineInv
  <2>2. bcc' = Upd(b1, d, m, given)
    BY <1>1
  <2> HIDE DEF b1
  <2>3. \A x \in Caches : \A k \in Lines[x] : bcc'[x][k] = IF x = d /\ k = m THEN given ELSE b1[x][k]
    BY <1>6, <2>1, <2>2, PerLineSet
  <2> QED
    BY <2>1, <2>3
<1>14. TagInv(tag') /\ EntryInv(tcc')
  BY <1>1, <1>5, <1>8, <1>12 DEF EntryInv
<1> DEFINE b2 == bcc'
           e2 == tcc'
<1>15. Arrays(tag, b2, e2) /\ ST' = States(tag, b2) /\ SH' = Sharers(tag, e2) /\ EX' = Exclusives(tag, e2)
  BY <1>1, <1>11, <1>14, ArraysThen DEF ST, SH, EX
<1>16. /\ \A x \in Caches : \A y \in Addrs :
             ST'[x][y] = IF x = d /\ y = a THEN given ELSE IF x = c /\ y = a THEN w ELSE ST[x][y]
       /\ SetAt(SH', SH, c, a, list) /\ FlagAt(EX', EX, c, a, given)
  <2>1. e2[c][l] = q /\ b2[d][m] = given /\ b2[c][l] = w
        /\ (\A x \in Caches : \A k \in Lines[x] : x # c \/ k # l => e2[x][k] = tcc[x][k])
        /\ (\A x \in Caches : \A k \in Lines[x] : (x # c \/ k # l) /\ (x # d \/ k # m) => b2[x][k] = bcc[x][k])
    BY <1>2, <1>12, <1>13
  <2> HIDE DEF b2, e2, c, l, d, m
  <2>2. /\ \A x \in Caches : \A y \in Addrs : States(tag, b2)[x][y] =
                 IF x = d /\ y = tag[d][m] THEN b2[d][m]
                 ELSE IF x = c /\ y = tag[c][l] THEN b2[c][l] ELSE States(tag, bcc)[x][y]
        /\ SetAt(Sharers(tag, e2), Sharers(tag, tcc), c, tag[c][l], e2[c][l].sharers)
        /\ \A x \in Caches : \A y \in Addrs : y \in Exclusives(tag, e2)[x] <=>
                 IF x = c /\ y = tag[c][l] THEN isExclusive(e2[c][l]) ELSE y \in Exclusives(tag, tcc)[x]
    BY <1>2, <1>8, <1>15, <2>1, ViewTwo
  <2>3. \A x \in Caches : \A y \in Addrs :
             ST'[x][y] = IF x = d /\ y = a THEN given ELSE IF x = c /\ y = a THEN w ELSE ST[x][y]
    BY <1>2, <1>15, <2>1, <2>2 DEF ST
  <2>4. SetAt(SH', SH, c, a, list)
    <3>1. e2[c][l].sharers = list
      BY <1>5, <2>1
    <3>2. SetAt(SH', SH, c, tag[c][l], e2[c][l].sharers)
      BY <1>15, <2>2 DEF SH
    <3> QED
      BY <1>2, <3>1, <3>2
  <2>5. FlagAt(EX', EX, c, a, given)
    BY <1>2, <1>5, <1>15, <2>1, <2>2 DEF EX, FlagAt
  <2> QED
    BY <2>3, <2>4, <2>5
<1>17. StackElse(stack', t) /\ TopSet(stack[t], stack'[t], g)
  BY <1>1, <1>7, <1>10, SetTopStack DEF SameOthers, StackElse
<1>18. JS' = Replaced(JS, {c}, {})
  <2>1. g.pc \notin Sending
    BY <1>10 DEF Sending
  <2>2. Jobs(tag', stack') = Replaced(JS, {c}, {})
    BY <1>1, <1>7, <1>9, <1>17, <2>1, JobsTop
  <2> QED
    BY <2>2 DEF JS
<1>19. Rel(ST', SH', EX', JS')
  <2> DEFINE T == ST'
             G2 == SH'
             Y == EX'
             J2 == JS'
  <2>1. /\ \A x \in Caches : \A y \in Addrs :
             T[x][y] = IF x = d /\ y = a THEN given ELSE IF x = c /\ y = a THEN w ELSE ST[x][y]
        /\ FlagAt(Y, EX, c, a, given) /\ J2 = Replaced(J, {c}, {})
    BY <1>4, <1>16, <1>18
  <2>2. SetAt(G2, G, c, a, list)
    BY <1>4, <1>16 DEF SetAt
  <2>3. list = IF j.type = "INV" THEN {d} ELSE G[c][a] \cup {d}
    BY DEF list
  <2> HIDE DEF T, G2, Y, J2, c, d, a
  <2>4. (Exclusive(given) => Exclusive(ST[c][a])) /\ ST[c][a] # "I" /\ (w = ST[c][a] \/ (w = "M" /\ ST[c][a] = "E"))
    BY <1>5
  <2>5. Rel(T, G2, Y, J2)
    BY <1>2, <1>4, <1>5, <1>6, <2>1, <2>2, <2>3, <2>4, GrantedRel
  <2> QED
    BY <2>5 DEF T, G2, Y, J2
<1>20. KeepsElse(t, ST', SH', tag')
  <2>1. \A x \in Caches : x # c => tag[x] = tag[x] /\ \A y \in Addrs : Sharers(tag, e2)[x][y] = SH[x][y]
    BY <1>15, <1>16 DEF SetAt
  <2>2. \A x \in Caches : \A y \in Addrs : x = c \/ (x = d /\ y = a) \/ States(tag, b2)[x][y] = ST[x][y]
    BY <1>15, <1>16
  <2> HIDE DEF b2, e2
  <2>3. KeepsElse(t, States(tag, b2), Sharers(tag, e2), tag)
    BY <1>2, <1>15, <2>1, <2>2, ElseFrom
  <2> QED
    BY <1>1, <1>15, <2>3
<1>21. Adr(tag', g) = a /\ ST'[c][a] = w /\ ST'[d][a] = given
  BY <1>2, <1>10, <1>16 DEF Adr
<1>22. Own(ST', SH', tag', g)
  BY <1>1, <1>2, <1>10 DEF Own, Sending
<1>23. Ready(ST', tag', g)
  BY <1>5, <1>6, <1>10, <1>21 DEF Ready
<1>24. ST'[d][a] \in ChildMay(g)
  BY <1>5, <1>10, <1>21 DEF ChildMay
<1>25. g.pc \in Busy
  BY <1>10 DEF Busy
<1>26. Saved(t, ST', dirty')
  <2>1. ST[d][a] # "M"
    <3>1. ST[d][a] \in Kept(f.type)
      BY <1>1, DirFacts
    <3> QED
      BY <1>1, <3>1 DEF Kept, Gets
  <2>2. ST[c][a] = "M" => w = "M"
    BY <1>5
  <2>3. f.pc \in Sending /\ f.wb => w = "M"
    <3>1. Own(ST, SH, tag, f) /\ Adr(tag, f) = a
      BY <1>1, TopFrame DEF Adr
    <3> SUFFICES ASSUME f.pc \in Sending, f.wb PROVE w = "M"
      OBVIOUS
    <3>2. Exclusive(s)
      BY <1>5, <3>1 DEF Own
    <3> QED
      BY <1>5, <3>2 DEF w, s, GrantWritten, Written, Exclusive
  <2>4. Adr(tag, f) = a
    BY <1>1 DEF Adr
  <2> DEFINE T == ST'
             D == dirty'
  <2>5. \A x \in Caches : \A y \in Addrs :
           T[x][y] = IF x = d /\ y = a THEN given ELSE IF x = c /\ y = a THEN w ELSE ST[x][y]
    BY <1>16
  <2> HIDE DEF T, D, c, d, a
  <2>6. Saved(t, T, D)
    BY <1>2, <2>1, <2>2, <2>3, <2>4, <2>5 DEF Saved
  <2> QED
    BY <2>6 DEF T, D
<1>27. CoherenceInv'
  BY <1>1, <1>7, <1>10, <1>14, <1>19, <1>20, <1>22, <1>23, <1>24, <1>25, AccessTop
<1> QED
  BY <1>20, <1>26, <1>27


\* The jobs, when a child that was told returns to the frame that told it.
LEMMA JobsReturn ==
    ASSUME LocksInv, NEW t \in Cores, stack[t] # <<>>, Len(stack[t]) > 1, Top(t).pc = "inval",
           NEW k, StackElse(k, t), NEW g, Popped(stack[t], k[t], g),
           g.pc = Caller(t).pc, g.cache = Caller(t).cache
    PROVE  Jobs(tag, k) = Replaced(JS, {Top(t).cache, Caller(t).cache}, {Job(tag, k[t], Len(stack[t]) - 1)})
<1> DEFINE s == stack[t]
           n == Len(s)
           p == n - 1
           r == k[t]
           D == {Top(t).cache, Caller(t).cache}
           N == {Job(tag, r, p)}
<1>1. n \in Nat \ {0} /\ n > 1 /\ Top(t) = s[n] /\ Caller(t) = s[p] /\ s[n].pc = "inval"
  BY TopOK DEF Caller
<1>2. Len(r) = p /\ r[p] = g /\ \A i \in 1 .. p : i < p => r[i] = s[i]
  BY DEF Popped
<1>3. n \in 1 .. n /\ p \in 1 .. n /\ p \in 1 .. p /\ p < n /\ ~(n < n) /\ p + 1 = n /\ p \in Nat
  BY <1>1
<1>4. s[p].pc \in Sending /\ HoldsBcc(s, p)
  <2>1. s[p + 1].pc = "inval"
    BY <1>1, <1>3
  <2> QED
    BY <1>3, <2>1, SenderHolds
<1>5. HoldsBcc(s, n)
  BY <1>1, <1>3, SenderHolds DEF Sending
<1>6. ASSUME NEW u \in Cores, NEW i \in 1 .. Len(stack[u]), stack[u][i].pc \in Sending, stack[u][i].cache \in D
      PROVE  u = t /\ i \in {n, p}
  <2>1. HoldsBcc(stack[u], i)
    BY <1>6, SenderHolds
  <2>2. CASE stack[u][i].cache = s[n].cache
    BY <1>3, <1>5, <2>1, <2>2, OneHolder
  <2>3. CASE stack[u][i].cache = s[p].cache
    BY <1>3, <1>4, <2>1, <2>3, OneHolder
  <2> QED
    BY <1>1, <1>6, <2>2, <2>3
<1>7. ASSUME NEW i \in 1 .. n, i < p, s[i].pc \in Sending
      PROVE  i \in 1 .. p /\ r[i] = s[i] /\ Job(tag, r, i) = Job(tag, s, i)
  <2>1. i \in 1 .. p /\ i + 1 \in 1 .. p /\ (i + 1 = p \/ i + 1 < p) /\ i < n
    BY <1>1, <1>7
  <2>2. r[i] = s[i]
    BY <1>2, <1>7, <2>1
  <2>3. r[i + 1].cache = s[i + 1].cache
    BY <1>1, <1>2, <2>1
  <2>4. s[i].pc = "grant" => r[i - 1].cache = s[i - 1].cache
    <3>1. s[i].pc = "grant" => i # 1
      BY TerminalFacts DEF LocksInv, ShapeInv, Shape, FrameOK
    <3>2. i # 1 => i - 1 \in 1 .. p /\ i - 1 < p
      BY <1>1, <1>7
    <3> QED
      BY <1>2, <3>1, <3>2
  <2>5. i < Len(r) /\ i < Len(s)
    BY <1>2, <1>7, <2>1
  <2> QED
    BY <2>1, <2>2, <2>3, <2>4, <2>5 DEF Job
<1>8. ASSUME NEW u \in Cores \ {t} PROVE k[u] = stack[u]
  BY DEF StackElse
<1>9. \A i \in 1 .. n : i = n \/ i = p \/ i < p
  BY <1>1
<1>10. \A i \in 1 .. p : i \in 1 .. n /\ (i = p \/ i < p) /\ i # n
  BY <1>1
<1> HIDE DEF n, p, s, r, D, N
<1>11. JobsStay(tag, stack, tag, k, D)
  <2> SUFFICES ASSUME NEW u \in Cores, NEW i \in 1 .. Len(stack[u]), stack[u][i].pc \in Sending, stack[u][i].cache \notin D
               PROVE  i \in 1 .. Len(k[u]) /\ k[u][i].pc \in Sending /\ Job(tag, k[u], i) = Job(tag, stack[u], i)
    BY DEF JobsStay
  <2>1. CASE u # t
    BY <1>8, <2>1
  <2>2. CASE u = t
    <3>1. i # n /\ i # p /\ i \in 1 .. n
      BY <1>1, <2>2 DEF D, s, n
    <3>2. i < p
      BY <1>9, <3>1
    <3> QED
      BY <1>2, <1>7, <2>2, <3>1, <3>2 DEF s, r
  <2> QED
    BY <2>1, <2>2
<1>12. JobsNew(tag, stack, tag, k, D, N)
  <2> SUFFICES ASSUME NEW u \in Cores, NEW i \in 1 .. Len(k[u]), k[u][i].pc \in Sending
               PROVE  \/ Job(tag, k[u], i) \in N
                      \/ /\ i \in 1 .. Len(stack[u]) /\ stack[u][i].pc \in Sending /\ stack[u][i].cache \notin D
                         /\ Job(tag, k[u], i) = Job(tag, stack[u], i)
    BY DEF JobsNew
  <2>1. CASE u # t
    <3>1. k[u] = stack[u]
      BY <1>8, <2>1
    <3> QED
      BY <1>6, <2>1, <3>1
  <2>2. CASE u = t
    <3>1. i \in 1 .. n /\ (i = p \/ i < p) /\ i # n
      BY <1>2, <1>10, <2>2 DEF r
    <3>2. CASE i = p
      BY <2>2, <3>2 DEF N, r
    <3>3. CASE i # p
      <4>1. i < p
        BY <3>1, <3>3
      <4>2. i \in 1 .. p /\ r[i] = s[i]
        BY <1>2, <2>2, <4>1 DEF r
      <4>3. s[i].pc \in Sending
        BY <2>2, <4>2 DEF r
      <4>4. Job(tag, r, i) = Job(tag, s, i)
        BY <1>7, <3>1, <4>1, <4>3
      <4>5. s[i].cache \notin D
        BY <1>6, <3>1, <3>3, <4>3 DEF s, n
      <4> QED
        BY <2>2, <3>1, <4>3, <4>4, <4>5 DEF s, r, n
    <3> QED
      BY <3>2, <3>3
  <2> QED
    BY <2>1, <2>2
<1>13. N \subseteq Jobs(tag, k)
  <2>1. r[p].pc \in Sending /\ p \in 1 .. Len(r)
    BY <1>1, <1>2, <1>3, <1>4
  <2> QED
    BY <2>1, JobIff DEF N, r
<1>14. Jobs(tag, k) = {j \in Jobs(tag, stack) : j.cache \notin D} \cup N
  BY <1>11, <1>12, <1>13, JobsChange
<1> QED
  BY <1>14 DEF JS, Replaced, D, N, n, p, s, r

\* What an invalidation that has told the children finds.
LEMMA InvalFacts ==
    ASSUME LocksInv, CoherenceInv, NEW t \in Cores, stack[t] # <<>>, Top(t).pc = "inval", Top(t).todo = {}
    PROVE  LET f == Top(t)
               c == f.cache
               d == Caller(t)
               a == f.addr
               n == Len(stack[t])
               j == Job(tag, stack[t], n)
               k == Job(tag, stack[t], n - 1)
           IN  /\ f \in Frames /\ FrameOK(f) /\ c \in Caches /\ a \in Addrs /\ f.type \in InvTypes
               /\ f.line \in Lines[c] /\ tag[c][f.line] = a
               /\ d.cache \in Caches /\ d.cache # c /\ Parent[c][a] = d.cache
               /\ d.pc \in Sending /\ Adr(tag, d) = a /\ SendType(d) = f.type /\ c \notin d.todo
               /\ ST[c][a] = bcc[c][f.line] /\ SH[c][a] = tcc[c][f.line].sharers
               /\ Writeback(f, bcc[c][f.line]) => Exclusive(ST[d.cache][a])
               /\ j \in JS /\ j.cache = c /\ j.addr = a /\ j.type = f.type /\ j.left = {} /\ j.up = {}
               /\ k \in JS /\ k.cache = d.cache /\ k.addr = a /\ k.type = f.type /\ k.left = d.todo \cup {c}
               /\ \A i \in JS : (i.cache = c => i = j) /\ (i.cache = d.cache => i = k)
<1> DEFINE f == Top(t)
           c == f.cache
           d == Caller(t)
           a == f.addr
           s == stack[t]
           n == Len(s)
           p == n - 1
           j == Job(tag, s, n)
           k == Job(tag, s, p)
<1>1. /\ f \in Frames /\ FrameOK(f) /\ c \in Caches /\ a \in Addrs /\ n \in Nat \ {0} /\ f = s[n] /\ f.type \in InvTypes
  BY TopOK DEF FrameOK
<1>2. /\ n > 1 /\ d = s[p] /\ d.cache \in Caches /\ LinkOK(d, f)
  BY CallerOK
<1>3. d.pc \in Sending
  BY <1>2 DEF LinkOK
<1>4. /\ Own(ST, SH, tag, f) /\ Link(ST, tag, d, f) /\ d.cache # c
  BY <1>2, TopFrame
<1>5. Adr(tag, f) = a /\ SendType(f) = f.type
  BY DEF Adr, SendType
<1>6. /\ f.line \in Lines[c] /\ tag[c][f.line] = a /\ ST[c][a] # "I" /\ (f.wb => Exclusive(ST[c][a]))
  BY <1>4, <1>5 DEF Own, Sending
<1>7. a = Adr(tag, d) /\ Parent[c][a] = d.cache /\ f.type = SendType(d) /\ c \notin d.todo
  BY <1>4 DEF Link
<1>8. Arrays(tag, bcc, tcc) /\ Rel(ST, SH, EX, JS)
  BY ArraysNow DEF CoherenceInv
<1>9. ST[c][a] = bcc[c][f.line] /\ SH[c][a] = tcc[c][f.line].sharers
  <2>1. ST[c][tag[c][f.line]] = bcc[c][f.line] /\ SH[c][tag[c][f.line]] = tcc[c][f.line].sharers
    BY <1>1, <1>6, <1>8, ViewAt DEF ST, SH
  <2> QED
    BY <1>6, <2>1
<1>10. Writeback(f, bcc[c][f.line]) => Exclusive(ST[d.cache][a])
  <2> SUFFICES ASSUME Writeback(f, bcc[c][f.line]) PROVE Exclusive(ST[d.cache][a])
    OBVIOUS
  <2>1. Exclusive(ST[c][a]) /\ ST[c][a] # "S"
    BY <1>6, <1>9 DEF Writeback, Exclusive
  <2>2. d.cache # Memory
    BY <1>2, ParentType
  <2>3. a \in EX[d.cache]
    BY <1>1, <1>6, <1>7, <1>8, <2>1, <2>2 DEF Rel, UpRel
  <2> QED
    BY <1>1, <1>2, <1>8, <2>3 DEF Rel, EntryRel
<1>11. n \in 1 .. n /\ p \in 1 .. n /\ p < n /\ ~(n < n) /\ p + 1 = n
  BY <1>1, <1>2
<1>12. j \in JS /\ j.cache = c /\ j.addr = a /\ j.type = f.type /\ j.left = {} /\ j.up = {}
  <2>1. j \in JS
    BY <1>1, <1>11, SenderFacts DEF Sending
  <2> QED
    BY <1>1, <1>5, <1>11, <2>1 DEF Job
<1>13. k \in JS /\ k.cache = d.cache /\ k.addr = a /\ k.type = f.type /\ k.left = d.todo \cup {c}
  <2>1. k \in JS
    BY <1>2, <1>3, <1>11, SenderFacts
  <2>2. k.left = s[p].todo \cup {s[p + 1].cache}
    BY <1>11 DEF Job
  <2>3. k.cache = d.cache /\ k.addr = a /\ k.type = f.type
    BY <1>2, <1>7 DEF Job
  <2> QED
    BY <1>1, <1>2, <1>11, <2>1, <2>2, <2>3
<1>14. \A i \in JS : (i.cache = c => i = j) /\ (i.cache = d.cache => i = k)
  <2> HIDE DEF j, k
  <2> QED
    BY <1>12, <1>13, OneJob
<1> QED
  BY <1>1, <1>2, <1>3, <1>4, <1>6, <1>7, <1>9, <1>10, <1>12, <1>13, <1>14

LEMMA FinishInvalidateCoherent ==
    ASSUME LocksInv, CoherenceInv, NEW t \in Cores, FinishInvalidate(t)
    PROVE  /\ CoherenceInv'
           /\ \A x \in Caches : \A y \in Slots :
                 ST'[x][y] = IF x = Top(t).cache /\ y = Top(t).addr THEN Invalidated(Top(t).type) ELSE ST[x][y]
<1> DEFINE f == Top(t)
           c == f.cache
           l == f.line
           a == f.addr
           d == Caller(t)
           s == stack[t]
           n == Len(s)
           p == n - 1
           w == d.wb \/ Writeback(f, bcc[c][l])
           g == [d EXCEPT !.wb = w]
           v == Invalidated(f.type)
           q == Told(tcc[c][l], f.type)
           r == stack'[t]
           j == Job(tag, s, n)
           k == Job(tag, s, p)
           m == Job(tag, r, p)
<1>1. /\ s # <<>> /\ f.pc = "inval" /\ f.todo = {} /\ tcc' = Upd(tcc, c, l, q) /\ bcc' = Upd(bcc, c, l, v)
      /\ stack' = [stack EXCEPT ![t] = Append(Front(Front(@)), g)]
      /\ (Terminal(c) => filterLock[c] = None) /\ tag' = tag
  BY DEF FinishInvalidate, At, Upd
<1>2. /\ f \in Frames /\ FrameOK(f) /\ c \in Caches /\ a \in Addrs /\ f.type \in InvTypes
      /\ l \in Lines[c] /\ tag[c][l] = a
      /\ d.cache \in Caches /\ d.cache # c /\ Parent[c][a] = d.cache
      /\ d.pc \in Sending /\ Adr(tag, d) = a /\ SendType(d) = f.type /\ c \notin d.todo
      /\ ST[c][a] = bcc[c][l] /\ SH[c][a] = tcc[c][l].sharers
      /\ (Writeback(f, bcc[c][l]) => Exclusive(ST[d.cache][a]))
      /\ j \in JS /\ j.cache = c /\ j.addr = a /\ j.type = f.type /\ j.left = {} /\ j.up = {}
      /\ k \in JS /\ k.cache = d.cache /\ k.addr = a /\ k.type = f.type /\ k.left = d.todo \cup {c}
      /\ \A i \in JS : (i.cache = c => i = j) /\ (i.cache = d.cache => i = k)
  BY <1>1, InvalFacts
<1>3. /\ n > 1 /\ n \in Nat /\ f = s[n] /\ d = s[p] /\ d \in Frames /\ FrameOK(d) /\ d.pc # "fill" /\ StackType
  BY <1>1, CallerOK, TopOK
<1>4. TagInv(tag) /\ EntryInv(tcc) /\ Rel(ST, SH, EX, JS) /\ Arrays(tag, bcc, tcc)
  BY ArraysNow DEF CoherenceInv
<1>5. w \in BOOLEAN
  BY <1>3 DEF Writeback, Frames
<1>6. w => d.wb \/ Exclusive(ST[d.cache][a])
  BY <1>2
<1> HIDE DEF w
<1>7. /\ g \in Frames /\ g.cache = d.cache /\ g.pc = d.pc /\ g.line = d.line /\ g.todo = d.todo /\ g.type = d.type
      /\ g.addr = d.addr /\ g.own = d.own /\ g.flags = d.flags /\ g.init = d.init /\ g.wb = w
  BY <1>3, <1>5 DEF Frames
<1> HIDE DEF g
<1>8. SameOthers(t) /\ Popped(s, r, g) /\ StackElse(stack', t)
  BY <1>1, <1>3, <1>7, ReturnStack DEF StackElse, SameOthers
<1>9. tcc[c][l] \in Entries /\ EntryOK(tcc[c][l], c)
  BY <1>2, <1>4 DEF LocksInv, LineInv, PerLine, EntryInv
<1>10. /\ q \in Entries /\ EntryOK(q, c) /\ ~isExclusive(q)
       /\ q.sharers = IF f.type = "INV" THEN {} ELSE SH[c][a]
  BY <1>2, <1>9, ToldOKEntry
<1>11. v \in MESIState /\ (v = IF f.type = "INV" THEN "I" ELSE "S")
  BY DEF Invalidated, MESIState
<1>12. LocksInv'
  BY FinishInvalidateInv
<1> DEFINE list == IF f.type = "INV" THEN {} ELSE SH[c][a]
<1> HIDE DEF q, v
<1>13. \A x \in Caches : \A y \in Lines[x] :
             /\ bcc'[x][y] = IF x = c /\ y = l THEN v ELSE bcc[x][y]
             /\ tcc'[x][y] = IF x = c /\ y = l THEN q ELSE tcc[x][y]
  BY <1>1, <1>2, <1>10, <1>11, PerLineSet DEF LocksInv, LineInv
<1>14. TagInv(tag') /\ EntryInv(tcc')
  BY <1>1, <1>4, <1>10, <1>13 DEF EntryInv
<1> DEFINE b2 == bcc'
           e2 == tcc'
<1>15. Arrays(tag, b2, e2) /\ ST' = States(tag, b2) /\ SH' = Sharers(tag, e2) /\ EX' = Exclusives(tag, e2)
  BY <1>1, <1>12, <1>14, ArraysThen DEF ST, SH, EX
<1>16. SetAt(ST', ST, c, a, v) /\ SetAt(SH', SH, c, a, list) /\ FlagAt(EX', EX, c, a, "I")
  <2>1. /\ b2[c][l] = v /\ e2[c][l] = q
        /\ \A x \in Caches : \A y \in Lines[x] : x # c \/ y # l => b2[x][y] = bcc[x][y] /\ e2[x][y] = tcc[x][y]
    BY <1>2, <1>13
  <2> HIDE DEF b2, e2, c, l, a, list
  <2>2. /\ SetAt(States(tag, b2), ST, c, tag[c][l], b2[c][l])
        /\ SetAt(Sharers(tag, e2), SH, c, tag[c][l], e2[c][l].sharers)
        /\ \A x \in Caches : \A y \in Addrs : y \in Exclusives(tag, e2)[x] <=>
                 IF x = c /\ y = tag[c][l] THEN isExclusive(e2[c][l]) ELSE y \in EX[x]
    BY <1>2, <1>4, <1>15, <2>1, ViewSet DEF ST, SH, EX
  <2>3. ~Exclusive("I")
    BY DEF Exclusive
  <2>4. q.sharers = list
    BY <1>10 DEF list
  <2> QED
    BY <1>2, <1>10, <1>15, <2>1, <2>2, <2>3, <2>4 DEF FlagAt
<1>17. JS' = Replaced(JS, {c, d.cache}, {m})
  <2> HIDE DEF m
  <2>1. Jobs(tag, stack') = Replaced(JS, {Top(t).cache, Caller(t).cache}, {Job(tag, stack'[t], Len(stack[t]) - 1)})
    BY <1>1, <1>3, <1>7, <1>8, JobsReturn
  <2> QED
    BY <1>1, <2>1 DEF JS, m
<1>18. m.cache = d.cache /\ m.addr = a /\ m.type = f.type /\ m.up = k.up /\ m.left = k.left \ {c}
  <2>1. Len(r) = p /\ r[p] = g /\ ~(p < p) /\ \A i \in 1 .. p : i < p => r[i] = s[i]
    BY <1>3, <1>8 DEF Popped
  <2>2. Adr(tag, g) = a /\ SendType(g) = f.type
    BY <1>2, <1>7 DEF Adr, SendType
  <2>3. m.cache = d.cache /\ m.addr = a /\ m.type = f.type /\ m.left = d.todo
    BY <1>7, <2>1, <2>2 DEF Job
  <2>4. m.up = k.up
    <3>1. d.pc = "grant" => r[p - 1].cache = s[p - 1].cache
      <4> SUFFICES ASSUME d.pc = "grant" PROVE r[p - 1].cache = s[p - 1].cache
        OBVIOUS
      <4>1. p \in Nat \ {0} /\ p \in 1 .. n
        BY <1>3
      <4>2. p = 1 => d.cache \in FirstLevel[t]
        BY <1>3, <4>1, FrameType
      <4>3. ~Terminal(d.cache)
        BY <1>3 DEF FrameOK
      <4> HIDE DEF p
      <4>4. p # 1
        BY <1>3, <4>2, <4>3, TerminalFacts
      <4>5. p - 1 \in 1 .. p /\ p - 1 < p
        BY <4>1, <4>4, MoreThanOne
      <4> QED
        BY <2>1, <4>5
    <3>2. m.up = IF g.pc = "grant" /\ g.type = "GETX" THEN {r[p - 1].cache} ELSE {}
      BY <2>1 DEF Job
    <3>3. k.up = IF d.pc = "grant" /\ d.type = "GETX" THEN {s[p - 1].cache} ELSE {}
      BY <1>3 DEF Job
    <3> QED
      BY <1>7, <3>1, <3>2, <3>3
  <2> QED
    BY <1>2, <2>3, <2>4
<1> HIDE DEF j, k, m
<1>19. Rel(ST', SH', EX', JS')
  <2> DEFINE T == ST'
             G == SH'
             Y == EX'
             J2 == JS'
             i == d.cache
  <2>1. /\ SetAt(T, ST, c, a, Invalidated(j.type)) /\ SetAt(G, SH, c, a, list) /\ FlagAt(Y, EX, c, a, "I")
        /\ J2 = Replaced(JS, {c, i}, {m})
    BY <1>2, <1>16, <1>17 DEF v
  <2>2. list = IF j.type = "INV" THEN {} ELSE SH[c][a]
    BY <1>2
  <2>3. /\ i \in Caches /\ Parent[c][a] = i /\ j \in JS /\ j.cache = c /\ j.addr = a /\ j.type \in InvTypes
        /\ j.left = {} /\ j.up = {} /\ k \in JS /\ k.cache = i /\ k.addr = a /\ k.type = j.type /\ c \in k.left
        /\ \A x \in JS : (x.cache = c => x = j) /\ (x.cache = i => x = k)
        /\ m.cache = i /\ m.addr = a /\ m.type = k.type /\ m.up = k.up /\ m.left = k.left \ {c}
        /\ c \in Caches /\ a \in Addrs
    BY <1>2, <1>18
  <2> HIDE DEF T, G, Y, J2, i, c, a, list
  <2>4. Rel(T, G, Y, J2)
    BY <1>4, <2>1, <2>2, <2>3, InvalRel
  <2> QED
    BY <2>4 DEF T, G, Y, J2
<1>20. /\ \A x \in Caches : \A y \in Slots : SH'[x][y] \subseteq SH[x][y]
       /\ \A x \in Caches : \A y \in Slots : ST'[x][y] = IF x = c /\ y = a THEN v ELSE ST[x][y]
  <2> SUFFICES ASSUME NEW x \in Caches, NEW y \in Slots
               PROVE  /\ SH'[x][y] \subseteq SH[x][y]
                      /\ ST'[x][y] = IF x = c /\ y = a THEN v ELSE ST[x][y]
    OBVIOUS
  <2>1. CASE y \in Addrs
    BY <1>16, <2>1 DEF SetAt
  <2>2. CASE y = None
    <3> HIDE DEF b2, e2, c, a
    <3>1. States(tag, b2)[x][None] = "I" /\ Sharers(tag, e2)[x][None] = {}
      BY <1>15, ViewAt
    <3>2. ST[x][None] = "I" /\ SH[x][None] = {}
      BY <1>4, ViewAt DEF ST, SH
    <3> QED
      BY <1>2, <1>15, <2>2, <3>1, <3>2, NoneFacts
  <2> QED
    BY <2>1, <2>2 DEF Slots
<1> DEFINE T == ST'
           G == SH'
<1>21. ASSUME NEW u \in Cores, NEW i \in 1 .. Len(stack[u]), u # t \/ i < n
       PROVE  FrameAt(T, G, tag, stack[u], i)
  <2>1. /\ \A x \in Caches : \A y \in Slots : G[x][y] \subseteq SH[x][y]
        /\ \A x \in Caches : \A y \in Slots :
              T[x][y] = IF x = Top(t).cache /\ y = Top(t).addr THEN Invalidated(Top(t).type) ELSE ST[x][y]
    BY <1>20 DEF v
  <2> HIDE DEF T, G
  <2> QED
    BY <1>1, <1>21, <2>1, InvalKeeps
<1>22. T[d.cache][a] = ST[d.cache][a]
  BY <1>2, <1>16 DEF SetAt
<1> HIDE DEF T, G
<1>23. /\ Own(T, G, tag, d) /\ Ready(T, tag, d) /\ (p = 1 => ~d.own /\ d.type \in Gets)
       /\ (p > 1 => Link(T, tag, s[p - 1], d))
  <2>1. p \in 1 .. n /\ p < n /\ p + 1 = n
    BY <1>3
  <2>2. FrameAt(T, G, tag, s, p)
    BY <1>21, <2>1
  <2>3. ~Waits(s, p)
    BY <1>1, <1>3, <2>1 DEF Waits
  <2> QED
    BY <1>3, <2>2, <2>3 DEF FrameAt
<1>24. Adr(tag, g) = Adr(tag, d) /\ ChildMay(g) = ChildMay(d)
  BY <1>7 DEF Adr, ChildMay
<1>25. Own(T, G, tag, g) /\ Ready(T, tag, g)
  <2>1. w => Exclusive(T[d.cache][a])
    BY <1>2, <1>6, <1>22, <1>23 DEF Own
  <2>2. d.pc \notin {"insert", "access", "prefetch", "dir"}
    BY <1>2 DEF Sending
  <2> QED
    BY <1>2, <1>7, <1>23, <1>24, <2>1, <2>2 DEF Own, Ready
<1>26. (p = 1 => ~g.own /\ g.type \in Gets) /\ (p > 1 => Link(T, tag, s[p - 1], g))
  <2>1. SendType(g) = SendType(d)
    BY <1>7 DEF SendType
  <2> QED
    BY <1>7, <1>23, <1>24, <2>1 DEF Link
<1>27. FramesInv(T, G, tag, r)
  <2>1. p - 1 = n - 2 /\ \A i \in 1 .. n : i < n - 1 => i < n
    BY <1>3
  <2>2. g.pc = "inval" <=> s[n - 1].pc = "inval"
    BY <1>3, <1>7
  <2>3. \A i \in 1 .. n : i < n - 1 => FrameAt(T, G, tag, s, i)
    BY <1>21, <2>1
  <2>4. (n - 1 = 1 => ~g.own /\ g.type \in Gets) /\ (n - 1 > 1 => Link(T, tag, s[n - 2], g))
    BY <1>26, <2>1
  <2> HIDE DEF s, r
  <2> QED
    BY <1>3, <1>8, <1>25, <2>2, <2>3, <2>4, FramesPop
<1>28. \A u \in Cores : FramesInv(ST', SH', tag', stack'[u])
  <2> SUFFICES ASSUME NEW u \in Cores PROVE FramesInv(T, G, tag, stack'[u])
    BY <1>1 DEF T, G
  <2>1. CASE u = t
    BY <1>27, <2>1
  <2>2. CASE u # t
    BY <1>8, <1>21, <2>2 DEF FramesInv, SameOthers
  <2> QED
    BY <2>1, <2>2
<1>29. CoherenceInv'
  BY <1>14, <1>19, <1>28 DEF CoherenceInv
<1> QED
  BY <1>20, <1>29 DEF v

LEMMA CoherenceInit == MesiInit => CoherenceInv
<1> SUFFICES ASSUME MesiInit PROVE CoherenceInv
  OBVIOUS
<1>1. \A c \in Caches : \A a \in Addrs : ~Has(tag, c, a)
  BY NoneFacts DEF MesiInit, Has
<1>2. \A c \in Caches : \A a \in Addrs : ST[c][a] = "I" /\ SH[c][a] = {} /\ a \notin EX[c]
  BY <1>1 DEF ST, SH, EX, States, Sharers, Exclusives, Slots
<1>3. JS = {}
  <2>1. ASSUME NEW j \in JS PROVE FALSE
    <3>1. PICK t \in Cores : \E i \in 1 .. Len(stack[t]) : stack[t][i].pc \in Sending /\ j = Job(tag, stack[t], i)
      BY JobIff DEF JS
    <3>2. PICK i \in 1 .. Len(stack[t]) : TRUE
      BY <3>1
    <3> QED
      BY <3>2, EmptyStack DEF MesiInit
  <2> QED
    BY <2>1
<1>4. Rel(ST, SH, EX, JS)
  BY <1>2, <1>3 DEF Rel, EntryRel, UpRel, DownRel, ToldRel, MESIState
<1>5. TagInv(tag)
  BY DEF TagInv, MesiInit
<1>6. EntryInv(tcc)
  <2>1. Cardinality({}) = 0
    BY FS_EmptySet
  <2>2. \A c \in Caches : EntryOK(EmptyEntry, c)
    BY <2>1 DEF EntryOK, EmptyEntry
  <2> QED
    BY <2>2 DEF EntryInv, MesiInit
<1>7. \A t \in Cores : FramesInv(ST, SH, tag, stack[t])
  BY EmptyStack DEF FramesInv, MesiInit
<1> QED
  BY <1>4, <1>5, <1>6, <1>7 DEF CoherenceInv

LEMMA CoherenceStep == LocksInv /\ CoherenceInv /\ [MesiNext]_mesiVars => CoherenceInv'
<1> SUFFICES ASSUME LocksInv, CoherenceInv, [MesiNext]_mesiVars PROVE CoherenceInv'
  OBVIOUS
<1>1. ASSUME NEW t \in Cores, Step(t) PROVE CoherenceInv'
  BY <1>1, LockTccCoherent, StartAccessCoherent, EvictCoherent, AccessUpCoherent, TakeLineCoherent,
     TellOthersCoherent, GrantCoherent, EndAccessCoherent, FillCoherent, StartInvalidateCoherent,
     FinishInvalidateCoherent DEF Step
<1>2. ASSUME NEW t \in Cores, NEW c \in FirstLevel[t], ContextSwitch(t, c) PROVE CoherenceInv'
  BY <1>2, ContextSwitchCoherent
<1>3. ASSUME NEW t \in Cores, NEW c \in FirstLevel[t], NEW a \in Addrs, NEW type \in Gets, Replace(t, c, a, type)
      PROVE  CoherenceInv'
  BY <1>3, ReplaceCoherent
<1>4. CASE UNCHANGED mesiVars
  BY <1>4 DEF mesiVars, CoherenceInv, ST, SH, EX, JS
<1> QED
  BY <1>1, <1>2, <1>3, <1>4 DEF MesiNext

\* The states, directory entries, invalidations and accesses in progress of the
\* hierarchy agree in every reachable state, in every interleaving of accesses
\* and invalidations (coherence_ctrls.h, coherence_ctrls.cpp).
THEOREM Coherence == MesiSpec => []CoherenceInv
<1>1. LocksInv /\ CoherenceInv /\ LocksInv' /\ [MesiNext]_mesiVars => CoherenceInv'
  BY CoherenceStep
<1> QED
  BY <1>1, LocksSafety, CoherenceInit, PTL DEF MesiSpec

-----------------------------------------------------------------------------
(* What follows from it.                                                   *)

\* The caches through which the accesses of cache c to address a climb.
Climbs(B, a) == \A x \in B : Parent[x][a] # Memory => Parent[x][a] \in B
Above(c, a) == {x \in Caches : \A B \in SUBSET Caches : c \in B /\ Climbs(B, a) => x \in B}

LEMMA AboveFacts ==
    ASSUME NEW c \in Caches, NEW a \in Addrs
    PROVE  /\ c \in Above(c, a) /\ Climbs(Above(c, a), a) /\ Above(c, a) \subseteq Caches
           /\ \A B \in SUBSET Caches : c \in B /\ Climbs(B, a) => Above(c, a) \subseteq B
           /\ \A x \in Above(c, a) : x # c => \E y \in Above(c, a) : Parent[y][a] = x
           /\ \E x \in Above(c, a) : Parent[x][a] = Memory
<1>1. c \in Above(c, a) /\ Above(c, a) \subseteq Caches
  BY DEF Above
<1>2. \A B \in SUBSET Caches : c \in B /\ Climbs(B, a) => Above(c, a) \subseteq B
  BY DEF Above
<1>3. Climbs(Above(c, a), a)
  <2> SUFFICES ASSUME NEW x \in Above(c, a), Parent[x][a] # Memory, NEW B \in SUBSET Caches, c \in B, Climbs(B, a)
               PROVE  Parent[x][a] \in B
    BY <1>1, ParentFacts DEF Climbs, Above
  <2> QED
    BY <1>2 DEF Climbs
<1>4. ASSUME NEW x \in Above(c, a), x # c PROVE \E y \in Above(c, a) : Parent[y][a] = x
  <2> SUFFICES ASSUME \A y \in Above(c, a) : Parent[y][a] # x PROVE FALSE
    OBVIOUS
  <2> DEFINE B == Above(c, a) \ {x}
  <2>1. c \in B /\ B \in SUBSET Caches
    BY <1>1, <1>4
  <2>2. Climbs(B, a)
    BY <1>3 DEF Climbs
  <2> HIDE DEF B
  <2>3. Above(c, a) \subseteq B
    BY <1>2, <2>1, <2>2
  <2> QED
    BY <2>3 DEF B
<1>5. \E x \in Above(c, a) : Parent[x][a] = Memory
  <2> DEFINE N == Cardinality(Caches)
             S == {N - Level[x] : x \in Above(c, a)}
  <2>1. N \in Nat /\ \A x \in Caches : Level[x] \in Nat /\ Level[x] <= N
    BY LevelFacts
  <2>2. S \in SUBSET Nat /\ S # {}
    <3>1. \A x \in Above(c, a) : N - Level[x] \in Nat
      BY <1>1, <2>1
    <3> QED
      BY <1>1, <3>1
  <2> HIDE DEF S
  <2>3. Min(S) \in S /\ \A y \in S : Min(S) <= y
    BY <2>2, NatMin
  <2>4. PICK x \in Above(c, a) : Min(S) = N - Level[x]
    BY <2>3 DEF S
  <2>5. \A y \in Above(c, a) : N - Level[x] <= N - Level[y]
    BY <2>3, <2>4 DEF S
  <2> HIDE DEF N
  <2>6. \A y \in Above(c, a) : Level[y] <= Level[x]
    BY <1>1, <2>1, <2>5
  <2>7. Parent[x][a] # Memory => Parent[x][a] \in Above(c, a) /\ Level[x] < Level[Parent[x][a]]
    BY <1>1, <1>3, ParentFacts, LevelFacts DEF Climbs
  <2>8. Parent[x][a] # Memory => Level[Parent[x][a]] \in Nat /\ Level[x] \in Nat
    BY <1>1, <2>1, <2>7
  <2> QED
    BY <2>6, <2>7, <2>8
<1> QED
  BY <1>1, <1>2, <1>3, <1>4, <1>5

\* Two first-level caches meet below a cache, where accesses come by two children.
LEMMA Meet ==
    ASSUME NEW c \in Caches, NEW d \in Caches, c # d, Terminal(c), Terminal(d), NEW a \in Addrs,
           a \in Served[c] \cap Served[d]
    PROVE  \E y \in Above(c, a) : \E z \in Above(d, a) :
              y # z /\ Parent[y][a] = Parent[z][a] /\ Parent[y][a] \in Caches
<1>1. ASSUME NEW b \in {c, d} PROVE \A x \in Above(b, a) : a \in Served[x]
  <2> DEFINE B == {x \in Caches : a \in Served[x]}
  <2>1. b \in B /\ B \in SUBSET Caches /\ Climbs(B, a)
    BY ServedFacts, ParentFacts DEF Climbs
  <2> HIDE DEF B
  <2>2. Above(b, a) \subseteq B
    BY <2>1, AboveFacts
  <2> QED
    BY <2>2 DEF B
<1> DEFINE W == Above(c, a) \cap Above(d, a)
           S == {Level[x] : x \in W}
<1>2. W # {} /\ W \subseteq Caches
  <2>1. PICK x \in Above(c, a) : Parent[x][a] = Memory
    BY AboveFacts
  <2>2. PICK y \in Above(d, a) : Parent[y][a] = Memory
    BY AboveFacts
  <2>3. x \in Caches /\ y \in Caches /\ a \in Served[x] \cap Served[y]
    BY <1>1, AboveFacts
  <2>4. x = y
    BY <2>1, <2>2, <2>3, ServedFacts
  <2> QED
    BY <2>4, AboveFacts
<1> HIDE DEF W
<1>3. S \in SUBSET Nat /\ S # {}
  BY <1>2, LevelFacts
<1> HIDE DEF S
<1>4. Min(S) \in S /\ \A y \in S : Min(S) <= y
  BY <1>3, NatMin
<1>5. PICK x \in W : Min(S) = Level[x]
  BY <1>4 DEF S
<1>6. \A y \in W : Level[x] <= Level[y]
  BY <1>4, <1>5 DEF S
<1>7. x \in Caches /\ x \in Above(c, a) /\ x \in Above(d, a)
  BY <1>2 DEF W
<1>8. \A y \in Caches : Parent[y][a] = x => Level[y] < Level[x] /\ ~Terminal(x) /\ Level[y] \in Nat /\ Level[x] \in Nat
  BY <1>7, ParentFacts, ParentType, LevelFacts
<1>9. x # c /\ x # d
  <2>1. x = c => c \in Above(d, a) /\ c # d
    BY <1>7
  <2>2. x = d => d \in Above(c, a) /\ c # d
    BY <1>7
  <2>3. \A b \in {c, d} : \A y \in Above(b, a) : y \in Caches
    BY AboveFacts
  <2> QED
    BY <1>8, <2>1, <2>2, <2>3, AboveFacts
<1>10. PICK y \in Above(c, a) : Parent[y][a] = x
  BY <1>7, <1>9, AboveFacts
<1>11. PICK z \in Above(d, a) : Parent[z][a] = x
  BY <1>7, <1>9, AboveFacts
<1>12. y \in Caches /\ y # z
  <2>1. y \in Caches
    BY AboveFacts
  <2>2. y = z => y \in W
    BY DEF W
  <2> QED
    BY <1>6, <1>8, <1>10, <2>1, <2>2
<1> QED
  BY <1>7, <1>10, <1>11, <1>12

LEMMA StateOfIs ==
    ASSUME LocksInv, CoherenceInv, NEW c \in Caches, NEW a \in Addrs
    PROVE  StateOf(c, a) = ST[c][a]
<1>1. Arrays(tag, bcc, tcc) /\ a \in Slots
  BY ArraysNow DEF Slots
<1>2. CASE ST[c][a] # "I"
  <2>1. Lookup(c, a) # {} /\ Line(c, a) \in Lines[c] /\ tag[c][Line(c, a)] = a
    BY <1>2, LineOf
  <2>2. ST[c][tag[c][Line(c, a)]] = bcc[c][Line(c, a)]
    BY <1>1, <2>1, ViewAt DEF ST
  <2> QED
    BY <2>1, <2>2 DEF StateOf
<1>3. CASE ST[c][a] = "I"
  <2>1. CASE Lookup(c, a) = {}
    BY <1>3, <2>1 DEF StateOf
  <2>2. CASE Lookup(c, a) # {}
    <3>1. Line(c, a) \in Lookup(c, a)
      BY <2>2 DEF Line
    <3>2. Line(c, a) \in Lines[c] /\ tag[c][Line(c, a)] = a
      BY <3>1 DEF Lookup
    <3>3. ST[c][tag[c][Line(c, a)]] = bcc[c][Line(c, a)]
      BY <1>1, <3>2, ViewAt DEF ST
    <3> QED
      BY <2>2, <3>2, <3>3 DEF StateOf
  <2> QED
    BY <2>1, <2>2
<1> QED
  BY <1>2, <1>3

\* A line is where it is served.
LEMMA HeldServed ==
    ASSUME LocksInv, CoherenceInv, NEW c \in Caches, NEW a \in Addrs, ST[c][a] # "I"
    PROVE  a \in Served[c]
<1>1. Line(c, a) \in Lines[c] /\ tag[c][Line(c, a)] = a
  BY LineOf
<1> QED
  BY <1>1, NoneFacts DEF CoherenceInv, TagInv

\* Inclusion: what a child has its parent has, and permits what the child may do.
LEMMA ParentHolds ==
    ASSUME LocksInv, CoherenceInv, NEW c \in Caches, NEW a \in Addrs, ST[c][a] # "I", Parent[c][a] # Memory
    PROVE  /\ ST[Parent[c][a]][a] # "I"
           /\ Exclusive(ST[c][a]) =>
                 /\ Exclusive(ST[Parent[c][a]][a])
                 /\ \A d \in Caches : Parent[d][a] = Parent[c][a] /\ ST[d][a] # "I" => d = c
<1> DEFINE p == Parent[c][a]
<1>1. p \in Caches
  BY ParentFacts
<1>2. EntryRel(ST, SH, EX) /\ UpRel(ST, SH, EX, JS) /\ ToldRel(ST, SH, EX, JS)
  BY DEF CoherenceInv, Rel
<1>3. ASSUME c \in SH[p][a] PROVE ST[p][a] # "I"
  BY <1>1, <1>2, <1>3 DEF EntryRel
<1>4. ASSUME NEW j \in JS, j.cache = p, j.addr = a, c \in j.up PROVE ST[p][a] # "I"
  <2>1. PICK t \in Cores : \E i \in 1 .. Len(stack[t]) : stack[t][i].pc \in Sending /\ j = Job(tag, stack[t], i)
    BY JobIff DEF JS
  <2>2. PICK i \in 1 .. Len(stack[t]) : stack[t][i].pc \in Sending /\ j = Job(tag, stack[t], i)
    BY <2>1
  <2> DEFINE f == stack[t][i]
  <2>3. f.pc = "grant" /\ f.type = "GETX" /\ f.cache = p /\ Adr(tag, f) = a
    BY <1>4, <2>2, JobFields
  <2>4. ~Waits(stack[t], i)
    BY <2>2, SenderHolds DEF HoldsBcc
  <2>5. Ready(ST, tag, f)
    BY <2>4, FrameInv
  <2> QED
    BY <2>3, <2>5 DEF Ready
<1>5. ST[p][a] # "I"
  BY <1>2, <1>3, <1>4 DEF UpRel
<1>6. ASSUME Exclusive(ST[c][a])
      PROVE  Exclusive(ST[p][a]) /\ \A d \in Caches : Parent[d][a] = p /\ ST[d][a] # "I" => d = c
  <2>1. c \in SH[p][a] /\ a \in EX[p]
    BY <1>2, <1>6 DEF UpRel, Exclusive
  <2>2. Exclusive(ST[p][a]) /\ SH[p][a] = {c}
    BY <1>1, <1>2, <2>1 DEF EntryRel
  <2>3. ASSUME NEW d \in Caches, Parent[d][a] = p, ST[d][a] # "I" PROVE d = c
    <3>1. CASE d \in SH[p][a]
      BY <2>2, <3>1
    <3>2. CASE d \notin SH[p][a]
      <4>1. PICK j \in JS : j.cache = p /\ j.addr = a /\ d \in j.up
        BY <1>2, <2>3, <3>2 DEF UpRel
      <4>2. ToldOK(ST, SH, EX, j)
        BY <1>2, <4>1 DEF ToldRel
      <4> QED
        BY <2>1, <2>3, <4>1, <4>2 DEF ToldOK
    <3> QED
      BY <3>1, <3>2
  <2> QED
    BY <2>2, <2>3
<1> QED
  BY <1>5, <1>6

LEMMA CoherentWriter == LocksInv /\ CoherenceInv => SingleWriter
<1> SUFFICES ASSUME LocksInv, CoherenceInv, NEW c \in Caches, NEW d \in Caches, NEW a \in Addrs,
                    Terminal(c), Terminal(d), c # d, Exclusive(ST[c][a]), ST[d][a] # "I"
             PROVE  FALSE
  BY StateOfIs DEF SingleWriter
<1>1. ST[c][a] # "I"
  BY DEF Exclusive
<1>2. \A x \in Above(c, a) : x \in Caches /\ ST[x][a] # "I" /\ Exclusive(ST[x][a])
  <2> DEFINE B == {x \in Caches : ST[x][a] # "I" /\ Exclusive(ST[x][a])}
  <2>1. c \in B /\ B \in SUBSET Caches /\ Climbs(B, a)
    BY <1>1, ParentHolds, ParentFacts DEF Climbs
  <2> HIDE DEF B
  <2>2. Above(c, a) \subseteq B
    BY <2>1, AboveFacts
  <2> QED
    BY <2>2 DEF B
<1>3. \A x \in Above(d, a) : x \in Caches /\ ST[x][a] # "I"
  <2> DEFINE B == {x \in Caches : ST[x][a] # "I"}
  <2>1. d \in B /\ B \in SUBSET Caches /\ Climbs(B, a)
    BY ParentHolds, ParentFacts DEF Climbs
  <2> HIDE DEF B
  <2>2. Above(d, a) \subseteq B
    BY <2>1, AboveFacts
  <2> QED
    BY <2>2 DEF B
<1>4. a \in Served[c] \cap Served[d]
  BY <1>1, HeldServed
<1>5. PICK y \in Above(c, a) : \E z \in Above(d, a) :
              y # z /\ Parent[y][a] = Parent[z][a] /\ Parent[y][a] \in Caches
  BY <1>4, Meet
<1>6. PICK z \in Above(d, a) : y # z /\ Parent[y][a] = Parent[z][a] /\ Parent[y][a] \in Caches
  BY <1>5
<1>7. Parent[y][a] # Memory
  BY <1>6, ParentType
<1> QED
  BY <1>2, <1>3, <1>6, <1>7, ParentHolds

\* A first-level cache that may write a line is the only first-level cache that
\* has it, in any hierarchy and any interleaving (sendInvalidates,
\* coherence_ctrls.cpp:213-247).
THEOREM WriterSafety == MesiSpec => []SingleWriter
<1> QED
  BY LocksSafety, Coherence, CoherentWriter, PTL

-----------------------------------------------------------------------------
(* Types, and the exactness of the directory.                              *)

FilterEntries == {e \in [rdAddr : Slots, wrAddr : Slots] : e.wrAddr \in {None, e.rdAddr}}
SideInv == filter \in [Caches -> FilterEntries] /\ dummy \in [Cores -> MESIState] /\ dirty \subseteq Addrs

LEMMA SideInit == MesiInit => SideInv
<1>1. NoFilter \in FilterEntries
  BY DEF NoFilter, FilterEntries, Slots
<1> QED
  BY <1>1 DEF MesiInit, SideInv, MESIState

LEMMA SideStep == LocksInv /\ SideInv /\ [MesiNext]_mesiVars => SideInv'
<1> SUFFICES ASSUME LocksInv, SideInv, [MesiNext]_mesiVars PROVE SideInv'
  OBVIOUS
<1>1. NoFilter \in FilterEntries
  BY DEF NoFilter, FilterEntries, Slots
<1>2. ASSUME NEW t \in Cores, stack[t] # <<>> PROVE Top(t) \in Frames /\ Top(t).addr \in Addrs /\ Top(t).cache \in Caches
  BY <1>2, TopOK
<1>3. ASSUME NEW t \in Cores, Fill(t) PROVE SideInv'
  <2> DEFINE f == Top(t)
             e == [rdAddr |-> f.addr, wrAddr |-> IF f.type = "GETX" THEN f.addr ELSE None]
  <2>1. f.addr \in Addrs /\ filter' = [filter EXCEPT ![f.cache] = e] /\ dummy' = dummy
        /\ dirty' = (IF f.type = "GETX" THEN dirty \cup {f.addr} ELSE dirty)
    BY <1>2, <1>3 DEF Fill, At
  <2>2. e \in FilterEntries
    BY <2>1 DEF FilterEntries, Slots
  <2> HIDE DEF e, f
  <2> QED
    BY <2>1, <2>2 DEF SideInv
<1>4. ASSUME NEW t \in Cores, FinishInvalidate(t) PROVE SideInv'
  <2> DEFINE f == Top(t)
             e == FilterCleared(filter[f.cache], f.addr, Process(t))
  <2>1. f.cache \in Caches /\ filter' = [filter EXCEPT ![f.cache] = e] /\ dummy' = dummy /\ dirty' = dirty
    BY <1>2, <1>4 DEF FinishInvalidate, At
  <2>2. e \in FilterEntries
    BY <1>1, <2>1 DEF FilterCleared, SideInv
  <2> HIDE DEF e, f
  <2> QED
    BY <2>1, <2>2 DEF SideInv
<1>5. ASSUME NEW t \in Cores, Grant(t) PROVE SideInv'
  <2> DEFINE f == Top(t)
             given == Granted(Told(Others(t), SendType(Goto(f, "grant"))), f, bcc[f.cache][f.line])
  <2>1. filter' = filter /\ dirty' = dirty /\ dummy' = IF f.own THEN dummy ELSE [dummy EXCEPT ![t] = given]
    BY <1>5 DEF Grant
  <2>2. given \in MESIState
    BY DEF Granted, MESIState
  <2> HIDE DEF given
  <2> QED
    BY <2>1, <2>2 DEF SideInv
<1>6. ASSUME NEW t \in Cores, Evict(t) PROVE SideInv'
  BY <1>6 DEF Evict, SideInv
<1>7. ASSUME NEW t \in Cores, NEW c \in FirstLevel[t], ContextSwitch(t, c) PROVE SideInv'
  BY <1>1, <1>7 DEF ContextSwitch, SideInv
<1>8. ASSUME UNCHANGED <<filter, dummy, dirty>> PROVE SideInv'
  BY <1>8 DEF SideInv
<1>9. ASSUME NEW t \in Cores, Step(t) PROVE SideInv'
  BY <1>3, <1>4, <1>5, <1>6, <1>8, <1>9
     DEF Step, LockTcc, StartAccess, AccessUp, TakeLine, TellOthers, EndAccess, StartInvalidate
<1>10. ASSUME NEW t \in Cores, NEW c \in FirstLevel[t], NEW a \in Addrs, NEW type \in Gets, Replace(t, c, a, type)
       PROVE  SideInv'
  BY <1>8, <1>10 DEF Replace
<1>11. CASE UNCHANGED mesiVars
  BY <1>8, <1>11 DEF mesiVars
<1> QED
  BY <1>7, <1>9, <1>10, <1>11 DEF MesiNext

LEMMA SideSafety == MesiSpec => []SideInv
<1>1. LocksInv /\ SideInv /\ LocksInv' /\ [MesiNext]_mesiVars => SideInv'
  BY SideStep
<1> QED
  BY <1>1, LocksSafety, SideInit, PTL DEF MesiSpec

\* A cache has no more children than its list has entries.
LEMMA ChildCount ==
    ASSUME NEW c \in Caches, NEW H \in SUBSET Range(Children[c])
    PROVE  Len(Children[c]) \in Nat /\ Cardinality(H) \in 0 .. Len(Children[c])
<1> DEFINE s == Children[c]
           n == Len(s)
<1>1. s \in Seq(Caches) /\ n \in Nat /\ s \in [1 .. n -> Range(s)]
  BY MesiAssumption, LenProperties DEF Range
<1>2. s \in Surjection(1 .. n, Range(s))
  BY <1>1 DEF Surjection, Range
<1>3. ExistsSurjection(1 .. n, Range(s))
  BY <1>2 DEF ExistsSurjection
<1>4. Cardinality(Range(s)) <= n
  <2> HIDE DEF n, s
  <2> QED
    BY <1>1, <1>3, FS_SurjCardinalityBound
<1>5. IsFiniteSet(Range(s))
  <2>1. Range(s) \subseteq Caches
    BY MesiAssumption DEF Range
  <2> QED
    BY <2>1, HierarchyAssumption, FS_Subset
<1>6. IsFiniteSet(H) /\ Cardinality(H) <= Cardinality(Range(s))
  BY <1>5, FS_Subset
<1>7. Cardinality(H) \in Nat /\ Cardinality(Range(s)) \in Nat
  BY <1>5, <1>6, FS_CardinalityType
<1> QED
  BY <1>1, <1>4, <1>6, <1>7

LEMMA CoherentTypes == LocksInv /\ CoherenceInv /\ SideInv => MesiTypeOK
<1> SUFFICES ASSUME LocksInv, CoherenceInv, SideInv PROVE MesiTypeOK
  OBVIOUS
<1>1. ASSUME NEW c \in Caches, NEW l \in Lines[c]
      PROVE  /\ tag[c][l] \in Addrs \cup {None} /\ bcc[c][l] \in MESIState
             /\ tcc[c][l].sharers \subseteq Range(Children[c])
             /\ tcc[c][l].numSharers \in 0 .. Len(Children[c])
             /\ tcc[c][l].exclusive \in BOOLEAN
  <2>1. tag[c][l] \in Addrs \cup {None} /\ bcc[c][l] \in MESIState /\ tcc[c][l] \in Entries
    BY DEF LocksInv, LineInv, PerLine
  <2>2. /\ tcc[c][l].sharers \subseteq Range(Children[c])
        /\ tcc[c][l].numSharers = Cardinality(tcc[c][l].sharers)
    BY DEF CoherenceInv, EntryInv, EntryOK
  <2>3. Cardinality(tcc[c][l].sharers) \in 0 .. Len(Children[c])
    BY <2>2, ChildCount
  <2> QED
    BY <2>1, <2>2, <2>3 DEF Entries
<1>2. \A t \in Cores : \A i \in DOMAIN stack[t] : stack[t][i] \in Frames
  BY DEF LocksInv, ShapeInv
<1>3. filter \in [Caches -> [rdAddr : Addrs \cup {None}, wrAddr : Addrs \cup {None}]]
      /\ dummy \in [Cores -> MESIState] /\ dirty \subseteq Addrs
  BY DEF SideInv, FilterEntries, Slots
<1>4. /\ bccLock \in [Caches -> Cores \cup {None}]
      /\ tccLock \in [Caches -> Cores \cup {None}]
      /\ filterLock \in [Caches -> Cores \cup {None}]
  BY DEF LocksInv, LockInv
<1> QED
  BY <1>1, <1>2, <1>3, <1>4 DEF MesiTypeOK

LEMMA CoherentDirectory == LocksInv /\ CoherenceInv /\ SideInv => DirectoryExact
<1> SUFFICES ASSUME LocksInv, CoherenceInv, SideInv, NEW p \in Caches, bccLock[p] = None
             PROVE  /\ \A l \in Lines[p] :
                          LET e == tcc[p][l]
                              a == tag[p][l]
                          IN  /\ e.numSharers = Cardinality(e.sharers)
                              /\ \A c \in e.sharers : StateOf(c, a) # "I"
                              /\ isExclusive(e) => Exclusive(bcc[p][l])
                              /\ e.sharers # {} => bcc[p][l] # "I"
                    /\ \A a \in Addrs : \A c \in Range(Children[p]) :
                          (Parent[c][a] = p /\ StateOf(c, a) # "I") =>
                              /\ Lookup(p, a) # {}
                              /\ c \in tcc[p][Line(p, a)].sharers
                              /\ Exclusive(StateOf(c, a)) <=> isExclusive(tcc[p][Line(p, a)])
  BY CoherentTypes DEF DirectoryExact
<1>1. Arrays(tag, bcc, tcc) /\ Rel(ST, SH, EX, JS)
  BY ArraysNow DEF CoherenceInv
<1>2. \A j \in JS : j.cache # p
  BY NoJob
<1>3. ASSUME NEW l \in Lines[p]
      PROVE  /\ tcc[p][l] \in Entries /\ EntryOK(tcc[p][l], p) /\ tag[p][l] \in Slots
             /\ ST[p][tag[p][l]] = bcc[p][l] /\ SH[p][tag[p][l]] = tcc[p][l].sharers
             /\ tag[p][l] \in EX[p] <=> isExclusive(tcc[p][l])
  BY <1>1, ViewAt DEF Arrays, PerLine, EntryInv, ST, SH, EX
<1>4. ASSUME NEW l \in Lines[p]
      PROVE  LET e == tcc[p][l]
                 a == tag[p][l]
             IN  /\ e.numSharers = Cardinality(e.sharers)
                 /\ \A c \in e.sharers : StateOf(c, a) # "I"
                 /\ isExclusive(e) => Exclusive(bcc[p][l])
                 /\ e.sharers # {} => bcc[p][l] # "I"
  <2> DEFINE e == tcc[p][l]
             a == tag[p][l]
  <2>1. e.numSharers = Cardinality(e.sharers)
    BY <1>3 DEF EntryOK
  <2>2. CASE a = None
    <3>1. e.sharers = {}
      BY <1>1, <2>2 DEF Arrays
    <3>2. ~isExclusive(e)
      BY <1>3, <3>1, EntryFacts
    <3> QED
      BY <2>1, <3>1, <3>2
  <2>3. CASE a # None
    <3>1. a \in Addrs
      BY <1>3, <2>3 DEF Slots
    <3>2. \A c \in e.sharers : c \in Caches /\ ST[p][a] # "I"
      BY <1>1, <1>3, <3>1 DEF Rel, EntryRel
    <3>3. \A c \in e.sharers : ST[c][a] # "I"
      BY <1>1, <1>2, <1>3, <3>1 DEF Rel, DownRel
    <3>4. isExclusive(e) => Exclusive(ST[p][a])
      BY <1>1, <1>3, <3>1 DEF Rel, EntryRel
    <3> QED
      BY <1>3, <2>1, <3>1, <3>2, <3>3, <3>4, StateOfIs
  <2> QED
    BY <2>2, <2>3
<1>5. ASSUME NEW a \in Addrs, NEW c \in Range(Children[p]), Parent[c][a] = p, StateOf(c, a) # "I"
      PROVE  /\ Lookup(p, a) # {}
             /\ c \in tcc[p][Line(p, a)].sharers
             /\ Exclusive(StateOf(c, a)) <=> isExclusive(tcc[p][Line(p, a)])
  <2>1. c \in Caches
    BY LevelFacts
  <2>2. StateOf(c, a) = ST[c][a]
    BY <2>1, StateOfIs
  <2>3. /\ c \in SH[p][a] /\ ST[p][a] # "I"
        /\ Exclusive(ST[c][a]) <=> a \in EX[p]
    BY <1>2, <1>5, <2>1, <2>2, ListedUp
  <2>4. Lookup(p, a) # {} /\ Line(p, a) \in Lines[p] /\ tag[p][Line(p, a)] = a
    BY <2>3, LineOf
  <2>5. SH[p][a] = tcc[p][Line(p, a)].sharers /\ (a \in EX[p] <=> isExclusive(tcc[p][Line(p, a)]))
    BY <1>3, <2>4
  <2> QED
    BY <2>2, <2>3, <2>4, <2>5
<1> QED
  BY <1>4, <1>5

\* The directory is exact wherever no access or invalidation is at work, and
\* numSharers counts the sharers, in any hierarchy (coherence_ctrls.h:180-198);
\* and every variable has its type.
THEOREM DirectorySafety == MesiSpec => []DirectoryExact
<1> QED
  BY LocksSafety, Coherence, SideSafety, CoherentDirectory, PTL

-----------------------------------------------------------------------------
(* The assertions of the controllers.                                      *)

\* CheckForMESIRace, and shouldAllocate for what goes on after it.
LEMMA RaceAsserts ==
    ASSUME LocksInv, CoherenceInv, NEW t \in Cores, stack[t] # <<>>, Top(t).pc = "bcc", bccLock[Top(t).cache] = None
    PROVE  LET f == Top(t)
               now == ChildState(t)
           IN  /\ now # f.init =>
                    /\ f.type # "GETS"
                    /\ f.type \in Puts => now \in {"I", "S"}
                    /\ f.type = "GETX" => f.init = "S" /\ now = "I"
               /\ f.type \in Puts /\ ~RaceSkips(f.type, now, f.init) => Lookup(f.cache, f.addr) # {}
<1> DEFINE f == Top(t)
           now == ChildState(t)
           d == Caller(t).cache
<1>1. /\ f.cache \in Caches /\ f.addr \in Addrs /\ Len(stack[t]) \in Nat \ {0}
      /\ Len(stack[t]) = 1 => f.type \in Gets /\ now = f.init
      /\ Len(stack[t]) > 1 => /\ now = ST[d][f.addr] /\ now \in ChildMay(f)
                              /\ Parent[d][f.addr] = f.cache /\ d \in Caches /\ f.init \in Kept(f.type)
  <2>1. Len(stack[t]) > 1 => f.init \in Kept(f.type) /\ d \in Caches
    BY TopFrame DEF Link
  <2> QED
    BY <2>1, TopOK, TopFrame, ChildStateIs
<1>2. \A m \in Nat \ {0} : m = 1 \/ m > 1
  OBVIOUS
<1>3. CASE Len(stack[t]) = 1
  BY <1>1, <1>3 DEF Gets, Puts
<1>4. CASE Len(stack[t]) > 1
  <2>1. /\ now \in {"I", f.init} \cup (IF f.type \in Puts THEN {"S"} ELSE {})
        /\ f.type = "GETS" => f.init = "I"
        /\ f.type = "GETX" => f.init \in {"I", "S"}
        /\ f.type \in Puts => f.init # "I"
    <3>1. now \in {"I", f.init} \cup (IF f.type \in Puts THEN {"S"} ELSE {})
      BY <1>1, <1>4 DEF ChildMay
    <3> QED
      BY <1>1, <1>4, <3>1 DEF Kept, Puts
  <2>2. now # "I" => Lookup(f.cache, f.addr) # {}
    <3> SUFFICES ASSUME now # "I" PROVE Lookup(f.cache, f.addr) # {}
      OBVIOUS
    <3>1. \A j \in JS : j.cache # f.cache
      BY <1>1, NoJob
    <3>2. ST[f.cache][f.addr] # "I"
      BY <1>1, <1>4, <3>1, ListedUp
    <3> QED
      BY <1>1, <3>2, LineOf
  <2>3. f.type \in Puts /\ ~RaceSkips(f.type, now, f.init) => now # "I"
    BY <2>1 DEF RaceSkips
  <2> HIDE DEF now, f
  <2>4. now # f.init => /\ f.type # "GETS"
                        /\ f.type \in Puts => now \in {"I", "S"}
                        /\ f.type = "GETX" => f.init = "S" /\ now = "I"
    BY <2>1 DEF Puts
  <2> QED
    BY <2>2, <2>3, <2>4 DEF now, f
<1> QED
  BY <1>1, <1>2, <1>3, <1>4

\* MESITopCC::processAccess.
LEMMA DirAsserts ==
    ASSUME LocksInv, CoherenceInv, NEW t \in Cores, stack[t] # <<>>, Top(t).pc = "dir"
    PROVE  LET f == Top(t)
               s == bcc[f.cache][f.line]
               e == tcc[f.cache][f.line]
               child == Caller(t).cache
           IN  /\ f.type = "GETS" => s # "I"
               /\ f.type = "GETX" => s = "M"
               /\ f.type = "PUTX" => isExclusive(e)
               /\ f.type \in Puts => child \in e.sharers
               /\ f.type = "GETS" /\ ~GivesE(e, s, f.flags) => child \notin e.sharers
               /\ f.type = "GETX" /\ child \in e.sharers => ~isExclusive(e)
<1> DEFINE f == Top(t)
           c == f.cache
           a == f.addr
           d == Caller(t).cache
           s == bcc[c][f.line]
           e == tcc[c][f.line]
<1>1. /\ f.type \in Gets \cup Puts /\ a \in Addrs /\ c \in Caches /\ d \in Caches /\ Parent[d][a] = c
      /\ ST[d][a] \in Kept(f.type) /\ e.sharers = SH[c][a] /\ (isExclusive(e) <=> a \in EX[c])
      /\ (f.type = "GETS" => s # "I") /\ (f.type = "GETX" => s = "M")
  BY DirFacts
<1>2. \A j \in JS : j.cache # c
  BY NoJobTop DEF Sending, Busy
<1>3. f.type \in Puts => d \in SH[c][a] /\ (f.type = "PUTX" => a \in EX[c])
  <2>1. f.type \in Puts => ST[d][a] # "I" /\ (f.type = "PUTX" => Exclusive(ST[d][a]))
    BY <1>1 DEF Kept, Puts, Exclusive
  <2> QED
    BY <1>1, <1>2, <2>1, ListedUp
<1>4. d \in SH[c][a] => ST[d][a] # "I" /\ (a \in EX[c] => Exclusive(ST[d][a]))
  BY <1>1, <1>2 DEF CoherenceInv, Rel, DownRel
<1>5. (f.type = "GETS" => ST[d][a] = "I") /\ (f.type = "GETX" => ~Exclusive(ST[d][a]))
  BY <1>1 DEF Kept, Exclusive
<1> QED
  BY <1>1, <1>3, <1>4, <1>5 DEF Puts

\* An access that finds the line of the address in the array.
LEMMA AccessAsserts ==
    ASSUME LocksInv, CoherenceInv, NEW t \in Cores, stack[t] # <<>>, Top(t).pc = "access"
    PROVE  LET f == Top(t)
               s == bcc[f.cache][f.line]
           IN  (f.type \in Puts => s # "I") /\ (f.type = "PUTX" => Exclusive(s))
<1> DEFINE f == Top(t)
           c == f.cache
           a == f.addr
           d == Caller(t).cache
           s == bcc[c][f.line]
<1> SUFFICES ASSUME f.type \in Puts PROVE s # "I" /\ (f.type = "PUTX" => Exclusive(s))
  BY DEF Puts
<1>1. c \in Caches /\ a \in Addrs /\ Len(stack[t]) \in Nat \ {0} /\ Len(stack[t]) # 1
  BY TopOK, TopFrame DEF Gets, Puts
<1>2. Len(stack[t]) > 1
  <2> DEFINE n == Len(stack[t])
  <2>1. n \in Nat \ {0} /\ n # 1
    BY <1>1
  <2> HIDE DEF n
  <2>2. n > 1
    BY <2>1, MoreThanOne
  <2> QED
    BY <2>2 DEF n
<1>3. Own(ST, SH, tag, f) /\ Link(ST, tag, Caller(t), f) /\ d \in Caches
  BY <1>2, TopFrame
<1>4. f.line \in Lines[c] /\ tag[c][f.line] = a
  BY <1>3 DEF Own
<1>5. Parent[d][a] = c /\ ST[d][a] \in Kept(f.type)
  BY <1>3 DEF Link, ChildMay
<1>6. ST[c][a] = s
  <2>1. ST[c][tag[c][f.line]] = s
    BY <1>1, <1>4, ArraysNow, ViewAt DEF ST
  <2> QED
    BY <1>4, <2>1
<1>7. ST[d][a] # "I" /\ (f.type = "PUTX" => Exclusive(ST[d][a]))
  BY <1>5 DEF Kept, Puts, Exclusive
<1>8. Parent[d][a] # Memory
  BY <1>1, <1>5, ParentType
<1> QED
  BY <1>1, <1>3, <1>5, <1>6, <1>7, <1>8, ParentHolds

LEMMA CoherentAsserts == LocksInv /\ CoherenceInv => ControllerAsserts
<1> SUFFICES ASSUME LocksInv, CoherenceInv, NEW t \in Cores, stack[t] # <<>> PROVE StepAsserts(t)
  BY DEF ControllerAsserts
<1> DEFINE f == Top(t)
           c == f.cache
           s == bcc[c][f.line]
           e == tcc[c][f.line]
           child == Caller(t).cache
<1>1. /\ FrameOK(f) /\ (f.todo # {} => f.pc \in Sending)
      /\ Own(ST, SH, tag, f) /\ Ready(ST, tag, f) /\ c \in Caches
  BY TopOK, TopFrame DEF FrameOK
<1>2. f.line \in Lines[c] => ST[c][tag[c][f.line]] = s
  BY <1>1, ArraysNow, ViewAt DEF ST
<1>3. f.todo # {} => LET now == StateOf(NextChild(f), SendAddr(f)) IN
                     now # "I" /\ (SendType(f) = "INVX" => Exclusive(now))
  BY SendFacts, StateOfIs
<1>4. f.pc = "bcc" /\ bccLock[c] = None =>
        LET now == ChildState(t) IN
               /\ now # f.init =>
                    /\ f.type # "GETS"
                    /\ f.type \in Puts => now \in {"I", "S"}
                    /\ f.type = "GETX" => f.init = "S" /\ now = "I"
               /\ f.type \in Puts /\ ~RaceSkips(f.type, now, f.init)
                    => Lookup(c, f.addr) # {}
  BY RaceAsserts
<1>5. f.pc = "evict" \/ f.pc = "insert" => f.line \in Lines[c] /\ Adr(tag, f) = tag[c][f.line]
  BY <1>1 DEF FrameOK, Adr
<1>6. f.pc = "evict" => (f.wb => Exclusive(s))
  BY <1>1, <1>2, <1>5 DEF Own, Sending
<1>7. f.pc = "insert" => s = "I"
  BY <1>1, <1>2, <1>5 DEF Ready
<1>8. f.pc = "access" => /\ f.type \in Puts => s # "I"
                         /\ f.type = "PUTX" => Exclusive(s)
  BY AccessAsserts
<1>9. f.pc = "dir" =>
               /\ f.type = "GETS" => s # "I"
               /\ f.type = "GETX" => s = "M"
               /\ f.type = "PUTX" => isExclusive(e)
               /\ f.type \in Puts => child \in e.sharers
               /\ f.type = "GETS" /\ ~GivesE(e, s, f.flags) => child \notin e.sharers
               /\ f.type = "GETX" /\ child \in e.sharers => ~isExclusive(e)
  BY DirAsserts
<1>10. f.pc = "grant" \/ (f.pc = "end" /\ f.type \in Gets) => f.line \in Lines[c] /\ tag[c][f.line] = f.addr /\ Adr(tag, f) = f.addr
  BY <1>1 DEF Own, Adr
<1>11. f.pc = "end" => (f.type = "GETS" => s # "I") /\ (f.type = "GETX" => s = "M")
  BY <1>1, <1>2, <1>10 DEF Ready, Gets
<1>12. f.pc = "grant" => (f.wb => Exclusive(s))
  BY <1>1, <1>2, <1>10 DEF Own, Sending
<1> QED
  <2> HIDE DEF s, e, child
  <2> QED
    BY <1>1, <1>3, <1>4, <1>6, <1>7, <1>8, <1>9, <1>11, <1>12 DEF StepAsserts, s, e, child

\* No assertion of the coherence controllers fails, in any hierarchy and any
\* interleaving: CheckForMESIRace leaves no other race to the code behind it
\* (coherence_ctrls.h:248-273, coherence_ctrls.cpp:45-210).
THEOREM AssertSafety == MesiSpec => []ControllerAsserts
<1> QED
  BY LocksSafety, Coherence, CoherentAsserts, PTL

-----------------------------------------------------------------------------
(* The filter arrays.                                                      *)

\* The first frame of an access stays in its cache until the access is over.
LEMMA FirstStays ==
    ASSUME StackType, NEW t \in Cores, stack[t] # <<>>, NEW f, f.cache = Top(t).cache, NEW g,
           SetTop(t, f) \/ Call(t, f, g)
    PROVE  SameOthers(t) /\ stack'[t] # <<>> /\ stack'[t][1].cache = stack[t][1].cache
<1> DEFINE s == stack[t]
           n == Len(s)
           S == Frames \cup {f, g}
           r == Append(Front(s), f)
           q == r \o <<g>>
<1>1. s \in Seq(Frames) /\ s # <<>> /\ Top(t) = s[n] /\ n \in Nat \ {0}
  BY TopFacts
<1>2. s \in Seq(S)
  BY <1>1, SeqMonotonic
<1>3. /\ n \in Nat \ {0} /\ Len(r) = n /\ r \in Seq(S)
      /\ \A i \in 1 .. n : r[i] = IF i = n THEN f ELSE s[i]
      /\ q \in Seq(S) /\ Len(q) = n + 1
      /\ \A i \in 1 .. n + 1 : q[i] = IF i = n + 1 THEN g ELSE IF i = n THEN f ELSE s[i]
  <2>1. s \in Seq(S) /\ s # <<>> /\ f \in S /\ g \in S
    BY <1>1, <1>2
  <2> HIDE DEF s, S
  <2> QED
    BY <2>1, SeqTop, SeqCall
<1>4. 1 \in 1 .. n /\ 1 \in 1 .. n + 1 /\ 1 # n + 1
  BY <1>1
<1>5. r # <<>> /\ r[1].cache = s[1].cache
  BY <1>1, <1>3, <1>4
<1>6. q # <<>> /\ q[1].cache = s[1].cache
  BY <1>1, <1>3, <1>4
<1>7. stack' = [stack EXCEPT ![t] = r] \/ stack' = [stack EXCEPT ![t] = q]
  BY DEF SetTop, Call
<1> HIDE DEF r, q
<1>8. SameOthers(t) /\ (stack'[t] = r \/ stack'[t] = q)
  BY <1>7 DEF StackType, SameOthers
<1> QED
  BY <1>5, <1>6, <1>8

\* A step of an access does not end it, but for the last one.
LEMMA AccessStays ==
    ASSUME LocksInv, CoherenceInv, NEW t \in Cores, Step(t), ~Fill(t)
    PROVE  SameOthers(t) /\ stack[t] # <<>> /\ stack'[t] # <<>> /\ stack'[t][1].cache = stack[t][1].cache
<1> DEFINE f == Top(t)
           s == stack[t]
           n == Len(s)
<1>1. s # <<>>
  BY DEF Step, LockTcc, StartAccess, Evict, AccessUp, TakeLine, TellOthers, Grant, EndAccess, Fill,
         StartInvalidate, FinishInvalidate, At
<1>2. StackType /\ f \in Frames /\ n \in Nat \ {0}
  BY <1>1, TopOK
<1> DEFINE Done == SameOthers(t) /\ stack'[t] # <<>> /\ stack'[t][1].cache = stack[t][1].cache
<1> SUFFICES Done
  BY <1>1
<1>3. /\ \A g : g.cache = f.cache /\ SetTop(t, g) => Done
      /\ \A g, e : g.cache = f.cache /\ Call(t, g, e) => Done
  BY <1>1, <1>2, FirstStays
<1>4. \A pc : Goto(f, pc).cache = f.cache
  BY <1>2 DEF Goto, Frames
<1> HIDE DEF Done, f
<1>5. CASE LockTcc(t) \/ TakeLine(t) \/ Grant(t)
  <2>1. PICK pc : SetTop(t, Goto(f, pc))
    BY <1>5 DEF LockTcc, TakeLine, Grant, f
  <2> QED
    BY <1>3, <1>4, <2>1
<1>6. CASE StartAccess(t)
  <2>1. \A type, l, pc, todo : Found(f, type, l, pc, todo).cache = f.cache
    BY FoundFields
  <2>2. \/ \E pc : SetTop(t, Goto(f, pc))
        \/ \E type, l, pc, todo : SetTop(t, Found(f, type, l, pc, todo))
    BY <1>6, StartAccessTop DEF f
  <2> QED
    BY <1>3, <1>4, <2>1, <2>2
<1>7. CASE Evict(t)
  <2> DEFINE k == Goto(f, "insert")
             g == [k EXCEPT !.wb = FALSE]
             e == AccessFrame(Parent[f.cache][tag[f.cache][f.line]], tag[f.cache][f.line], PutType(Evicted(f)), Evicted(f), TRUE, {})
  <2>1. k.cache = f.cache /\ k \in Frames
    BY <1>2, <1>4, GotoFrame DEF f, PCs
  <2> HIDE DEF k
  <2>2. g.cache = f.cache
    BY <2>1 DEF Frames
  <2>3. SetTop(t, g) \/ Call(t, g, e)
    BY <1>7 DEF Evict, f, k
  <2> HIDE DEF g, e
  <2> QED
    BY <1>3, <2>2, <2>3
<1>8. CASE AccessUp(t)
  <2>1. \/ \E pc : SetTop(t, Goto(f, pc))
        \/ \E pc, e : Call(t, Goto(f, pc), e)
    BY <1>8 DEF AccessUp, f
  <2> QED
    BY <1>3, <1>4, <2>1
<1>9. CASE TellOthers(t)
  <2> DEFINE k == Goto(f, "grant")
             g == [k EXCEPT !.todo = ToTell(t)]
  <2>1. k.cache = f.cache /\ k \in Frames
    BY <1>2, <1>4, GotoFrame DEF f, PCs
  <2> HIDE DEF k
  <2>2. g.cache = f.cache
    BY <2>1 DEF Frames
  <2>3. SetTop(t, g)
    BY <1>9 DEF TellOthers, f, k
  <2> HIDE DEF g
  <2> QED
    BY <1>3, <2>2, <2>3
<1>10. CASE StartInvalidate(t)
  <2> DEFINE d == NextChild(f)
             g == [f EXCEPT !.todo = @ \ {d}]
             e == InvFrame(d, SendAddr(f), SendType(f), Line(d, SendAddr(f)), Targets(tcc[d][Line(d, SendAddr(f))], d, SendType(f)))
  <2>1. g.cache = f.cache
    BY <1>2 DEF Frames, f
  <2>2. Call(t, g, e)
    BY <1>10 DEF StartInvalidate, f
  <2> HIDE DEF g, e
  <2> QED
    BY <1>3, <2>1, <2>2
<1>11. ASSUME NEW g, n > 1, Popped(s, stack'[t], g), g.cache = Caller(t).cache, SameOthers(t) PROVE Done
  <2>1. Caller(t) = s[n - 1] /\ n - 1 \in Nat \ {0} /\ (n - 1 = 1 \/ 1 < n - 1)
    <3>1. Caller(t) = s[n - 1]
      BY <1>1, <1>2, <1>11, TopFacts
    <3> HIDE DEF n
    <3> QED
      BY <1>2, <1>11, <3>1
  <2>2. /\ Len(stack'[t]) = n - 1 /\ stack'[t][n - 1] = g
        /\ \A i \in 1 .. n - 1 : i < n - 1 => stack'[t][i] = s[i]
    BY <1>11 DEF Popped
  <2>3. stack'[t] # <<>>
    BY <2>1, <2>2
  <2>4. stack'[t][1].cache = s[1].cache
    BY <1>11, <2>1, <2>2
  <2> QED
    BY <1>11, <2>3, <2>4 DEF Done
<1>12. CASE EndAccess(t)
  <2>1. CASE n = 1
    <3>1. SetTop(t, Goto(f, "fill"))
      BY <1>12, <2>1 DEF EndAccess, f
    <3> QED
      BY <1>3, <1>4, <3>1
  <2>2. CASE n # 1
    <3>1. n > 1
      BY <1>2, <2>2, MoreThanOne
    <3>2. stack' = [stack EXCEPT ![t] = Front(@)]
      BY <1>12, <2>2 DEF EndAccess
    <3>3. SameOthers(t) /\ Popped(s, stack'[t], Caller(t))
      BY <1>2, <3>1, <3>2, EndStack
    <3> QED
      BY <1>11, <3>1, <3>3
  <2> QED
    BY <2>1, <2>2
<1>13. CASE FinishInvalidate(t)
  <2> DEFINE w == Caller(t).wb \/ Writeback(f, bcc[f.cache][f.line])
             g == [Caller(t) EXCEPT !.wb = w]
  <2>1. f.pc = "inval" /\ stack' = [stack EXCEPT ![t] = Append(Front(Front(@)), g)]
    BY <1>13 DEF FinishInvalidate, At, f
  <2>2. n > 1 /\ Caller(t) \in Frames
    BY <1>1, <2>1, CallerOK DEF f
  <2>3. w \in BOOLEAN
    BY <1>2, <2>2 DEF Frames, Writeback, f
  <2> HIDE DEF w
  <2>4. g \in Frames /\ g.cache = Caller(t).cache
    BY <2>2, <2>3 DEF Frames
  <2> HIDE DEF g
  <2>5. SameOthers(t) /\ Popped(s, stack'[t], g)
    BY <1>2, <2>1, <2>2, <2>4, ReturnStack
  <2> QED
    BY <1>11, <2>2, <2>4, <2>5
<1> QED
  BY <1>5, <1>6, <1>7, <1>8, <1>9, <1>10, <1>12, <1>13 DEF Step

\* What the filter entry of a cache shows is a line that the cache has, but while
\* its core accesses it: the line fetched last is there anyway, when it matters.
Backed(t, c) ==
    filter[c].rdAddr # None /\ ~Accesses(t, c) =>
        /\ ST[c][filter[c].rdAddr] # "I"
        /\ filter[c].wrAddr # None => ST[c][filter[c].rdAddr] = "M"

\* What a step may do to it.
StaysBacked ==
    \A t \in Cores : \A c \in FirstLevel[t] :
        Backed(t, c) => Backed(t, c)' \/ (~Accesses(t, c) /\ ForeignInvalidation(c))

\* Only the core's own access is in a first-level cache, and as its first frame.
LEMMA FirstFrame ==
    ASSUME LocksInv, NEW t \in Cores, NEW i \in 1 .. Len(stack[t]), stack[t][i].pc # "inval",
           NEW u \in Cores, stack[t][i].cache \in FirstLevel[u]
    PROVE  i = 1 /\ t = u /\ Accesses(u, stack[t][i].cache)
<1>1. Terminal(stack[t][i].cache) /\ stack[t] # <<>> /\ Len(stack[t]) \in Nat
  BY FrameType, TerminalFacts
<1>2. i = 1
  <2> SUFFICES ASSUME i # 1 PROVE FALSE
    OBVIOUS
  <2>1. i > 1
    BY <1>1
  <2>2. i - 1 \in 1 .. Len(stack[t]) /\ LinkOK(stack[t][i - 1], stack[t][i])
    BY <2>1, FrameType
  <2>3. stack[t][i - 1].cache \in Caches
    BY <2>2, FrameType
  <2>4. stack[t][i - 1].cache \in Range(Children[stack[t][i].cache])
    BY <2>2 DEF LinkOK
  <2>5. stack[t][i].cache \in Caches
    BY FrameType
  <2> QED
    BY <1>1, <2>3, <2>4, <2>5, TerminalFacts
<1>3. stack[t][i].cache \in FirstLevel[t]
  BY <1>2, FrameType
<1> QED
  BY <1>1, <1>2, <1>3, TerminalFacts DEF Accesses

\* A step that changes the lines of a first-level cache only during an access to it.
LEMMA FilterKept ==
    ASSUME SideInv, filter' = filter,
           \A u \in Cores : \A d \in FirstLevel[u] :
              /\ Accesses(u, d) => Accesses(u, d)'
              /\ ~Accesses(u, d) => \A x \in Slots : ST'[d][x] = ST[d][x]
    PROVE  StaysBacked
<1> SUFFICES ASSUME NEW u \in Cores, NEW d \in FirstLevel[u], Backed(u, d)
             PROVE  filter[d].rdAddr # None /\ ~(Accesses(u, d)') =>
                        /\ ST'[d][filter[d].rdAddr] # "I"
                        /\ filter[d].wrAddr # None => ST'[d][filter[d].rdAddr] = "M"
  BY DEF StaysBacked, Backed
<1>1. filter[d].rdAddr \in Slots
  BY TerminalFacts DEF SideInv, FilterEntries
<1>2. filter[d].rdAddr # None /\ ~Accesses(u, d) =>
          /\ ST[d][filter[d].rdAddr] # "I"
          /\ filter[d].wrAddr # None => ST[d][filter[d].rdAddr] = "M"
  BY DEF Backed
<1> QED
  BY <1>1, <1>2

LEMMA AccessesStays ==
    ASSUME LocksInv, CoherenceInv, NEW t \in Cores, Step(t), ~Fill(t), NEW u \in Cores, NEW c
    PROVE  Accesses(u, c)' <=> Accesses(u, c)
<1>1. SameOthers(t) /\ stack[t] # <<>> /\ stack'[t] # <<>> /\ stack'[t][1].cache = stack[t][1].cache
  BY AccessStays
<1> QED
  BY <1>1 DEF SameOthers, Accesses

LEMMA FilterAccess ==
    ASSUME LocksInv, CoherenceInv, SideInv, NEW t \in Cores,
           Evict(t) \/ AccessUp(t) \/ TakeLine(t) \/ Grant(t)
    PROVE  StaysBacked
<1> DEFINE f == Top(t)
           n == Len(stack[t])
<1>1. Step(t) /\ ~Fill(t) /\ filter' = filter /\ stack[t] # <<>> /\ f.pc # "inval"
  BY DEF Step, Fill, Evict, AccessUp, TakeLine, Grant, At
<1>2. KeepsElse(t, ST', SH', tag')
  BY EvictCoherent, AccessUpCoherent, TakeLineCoherent, GrantCoherent
<1>3. n \in Nat \ {0} /\ f = stack[t][n]
  BY <1>1, TopOK
<1>4. ASSUME NEW u \in Cores, NEW d \in FirstLevel[u], ~Accesses(u, d)
      PROVE  d # f.cache /\ (n > 1 => d # Caller(t).cache)
  <2>1. d # f.cache
    <3>1. n \in 1 .. n
      BY <1>3
    <3> QED
      BY <1>1, <1>3, <1>4, <3>1, FirstFrame
  <2>2. n > 1 => d # Caller(t).cache
    <3> SUFFICES ASSUME n > 1 PROVE d # Caller(t).cache
      OBVIOUS
    <3>1. Caller(t) = stack[t][n - 1] /\ LinkOK(Caller(t), f)
      BY <1>1, TopFrame
    <3>2. Caller(t).pc # "inval"
      BY <1>1, <3>1 DEF LinkOK, Called
    <3>3. n - 1 \in 1 .. n
      BY <1>3
    <3> QED
      BY <1>4, <3>1, <3>2, <3>3, FirstFrame
  <2> QED
    BY <2>1, <2>2
<1>5. \A u \in Cores : \A d \in FirstLevel[u] :
         /\ Accesses(u, d) => Accesses(u, d)'
         /\ ~Accesses(u, d) => \A x \in Slots : ST'[d][x] = ST[d][x]
  <2> SUFFICES ASSUME NEW u \in Cores, NEW d \in FirstLevel[u]
               PROVE  /\ Accesses(u, d) => Accesses(u, d)'
                      /\ ~Accesses(u, d) => \A x \in Slots : ST'[d][x] = ST[d][x]
    OBVIOUS
  <2>1. d \in Caches
    BY TerminalFacts
  <2>2. Accesses(u, d) => Accesses(u, d)'
    BY <1>1, AccessesStays
  <2>3. ~Accesses(u, d) => \A x \in Slots : ST'[d][x] = ST[d][x]
    BY <1>2, <1>4, <2>1 DEF KeepsElse
  <2> QED
    BY <2>2, <2>3
<1> QED
  BY <1>1, <1>5, FilterKept

LEMMA FilterFill ==
    ASSUME LocksInv, CoherenceInv, SideInv, NEW t \in Cores, Fill(t)
    PROVE  StaysBacked
<1> DEFINE f == Top(t)
           c == f.cache
           a == f.addr
           e == [rdAddr |-> a, wrAddr |-> IF f.type = "GETX" THEN a ELSE None]
<1>1. /\ stack[t] # <<>> /\ f.pc = "fill" /\ UNCHANGED arrayVars /\ stack' = [stack EXCEPT ![t] = <<>>]
      /\ filter' = [filter EXCEPT ![c] = e]
  BY DEF Fill, At
<1>2. f \in Frames /\ StackType /\ Len(stack[t]) \in Nat \ {0} /\ f = stack[t][Len(stack[t])] /\ c \in Caches /\ a \in Addrs
  BY <1>1, TopOK
<1>3. Len(stack[t]) = 1 /\ c \in FirstLevel[t] /\ stack[t][1] = f
  <2>1. Len(stack[t]) \in 1 .. Len(stack[t])
    BY <1>2
  <2>2. Len(stack[t]) = 1
    BY <1>1, <1>2, <2>1 DEF LocksInv, ShapeInv, Shape
  <2> QED
    BY <1>2, <2>1, <2>2, FrameType
<1>4. SameOthers(t) /\ stack'[t] = <<>>
  BY <1>1, <1>2 DEF SameOthers, StackType
<1>5. ST' = ST
  BY <1>1 DEF ST, arrayVars
<1>6. ST[c][a] # "I" /\ (f.type = "GETX" => ST[c][a] = "M")
  <2>1. Ready(ST, tag, f) /\ Adr(tag, f) = a /\ f.type \in Gets
    BY <1>1, <1>3, TopFrame DEF Adr
  <2> QED
    BY <1>1, <2>1 DEF Ready, Gets
<1>7. filter'[c] = e /\ e.rdAddr = a /\ e.wrAddr = IF f.type = "GETX" THEN a ELSE None
  BY <1>1, <1>2 DEF SideInv
<1>8. \A d \in Caches : d # c => filter'[d] = filter[d]
  BY <1>1 DEF SideInv
<1> HIDE DEF e
<1> SUFFICES ASSUME NEW u \in Cores, NEW d \in FirstLevel[u], Backed(u, d)
             PROVE  filter'[d].rdAddr # None /\ ~(Accesses(u, d)') =>
                        /\ ST'[d][filter'[d].rdAddr] # "I"
                        /\ filter'[d].wrAddr # None => ST'[d][filter'[d].rdAddr] = "M"
  BY DEF StaysBacked, Backed
<1>9. d \in Caches
  BY TerminalFacts
<1>10. CASE d = c
  BY <1>5, <1>6, <1>7, <1>10
<1>11. CASE d # c
  <2>1. Accesses(u, d) => Accesses(u, d)'
    <3>1. CASE u = t
      BY <1>3, <1>11, <3>1 DEF Accesses
    <3>2. CASE u # t
      BY <1>4, <3>2 DEF Accesses, SameOthers
    <3> QED
      BY <3>1, <3>2
  <2>2. filter'[d] = filter[d]
    BY <1>8, <1>9, <1>11
  <2> QED
    BY <1>5, <2>1, <2>2 DEF Backed
<1> QED
  BY <1>10, <1>11

LEMMA FilterInvalidate ==
    ASSUME LocksInv, CoherenceInv, SideInv, NEW t \in Cores, FinishInvalidate(t)
    PROVE  StaysBacked
<1> DEFINE f == Top(t)
           c == f.cache
           a == f.addr
           e == FilterCleared(filter[c], a, Process(t))
<1>1. stack[t] # <<>> /\ filter' = [filter EXCEPT ![c] = e] /\ Step(t) /\ ~Fill(t)
  BY DEF FinishInvalidate, At, Step, Fill
<1>2. c \in Caches /\ a \in Addrs
  BY <1>1, TopOK
<1>3. \A x \in Caches : \A y \in Slots :
         ST'[x][y] = IF x = c /\ y = a THEN Invalidated(f.type) ELSE ST[x][y]
  BY FinishInvalidateCoherent
<1>4. filter'[c] = e /\ (\A d \in Caches : d # c => filter'[d] = filter[d])
  BY <1>1, <1>2 DEF SideInv
<1>5. filter[c].rdAddr = a /\ Process(t) = procMask[a] => e = NoFilter
  <2>1. filter[c].rdAddr = a => filter[c] # NoFilter
    BY <1>2, MesiAssumption DEF NoFilter
  <2> QED
    BY <2>1 DEF FilterCleared, Matches
<1>6. e \in {filter[c], NoFilter}
  BY DEF FilterCleared, Matches
<1>7. NoFilter.rdAddr = None
  BY DEF NoFilter
<1>8. ASSUME filter[c].rdAddr = a, Process(t) # procMask[a] PROVE ForeignInvalidation(c)
  BY <1>1, <1>8 DEF ForeignInvalidation
<1> HIDE DEF e, c, a
<1> SUFFICES ASSUME NEW u \in Cores, NEW d \in FirstLevel[u], Backed(u, d),
                    ~(~Accesses(u, d) /\ ForeignInvalidation(d)),
                    filter'[d].rdAddr # None, ~(Accesses(u, d)')
             PROVE  /\ ST'[d][filter'[d].rdAddr] # "I"
                    /\ filter'[d].wrAddr # None => ST'[d][filter'[d].rdAddr] = "M"
  BY DEF StaysBacked, Backed
<1>9. d \in Caches /\ filter[d].rdAddr \in Slots
  BY TerminalFacts DEF SideInv, FilterEntries
<1>10. ~Accesses(u, d)
  BY <1>1, AccessesStays
<1>11. filter'[d] = filter[d]
  BY <1>4, <1>6, <1>7, <1>9
<1>12. ~(d = c /\ filter[d].rdAddr = a)
  BY <1>4, <1>5, <1>7, <1>8, <1>10
<1>13. ST'[d][filter[d].rdAddr] = ST[d][filter[d].rdAddr]
  BY <1>3, <1>9, <1>12
<1> QED
  BY <1>10, <1>11, <1>13 DEF Backed

LEMMA FilterStep == LocksInv /\ CoherenceInv /\ SideInv /\ [MesiNext]_mesiVars => StaysBacked
<1> SUFFICES ASSUME LocksInv, CoherenceInv, SideInv, [MesiNext]_mesiVars PROVE StaysBacked
  OBVIOUS
<1>1. ASSUME UNCHANGED arrayVars PROVE ST' = ST
  BY <1>1 DEF ST, arrayVars
<1>2. ASSUME NEW t \in Cores,
             LockTcc(t) \/ StartAccess(t) \/ TellOthers(t) \/ EndAccess(t) \/ StartInvalidate(t)
      PROVE  StaysBacked
  <2>1. filter' = filter /\ tag' = tag /\ bcc' = bcc /\ Step(t) /\ ~Fill(t)
    <3>1. filter' = filter /\ tag' = tag /\ bcc' = bcc /\ Step(t)
      BY <1>2 DEF Step, LockTcc, StartAccess, TellOthers, EndAccess, StartInvalidate, arrayVars
    <3>2. ~Fill(t)
      <4>1. CASE ~StartInvalidate(t)
        BY <1>2, <4>1 DEF Fill, LockTcc, StartAccess, TellOthers, EndAccess, At
      <4>2. CASE StartInvalidate(t)
        <5>1. stack[t] # <<>> /\ Top(t).todo # {}
          BY <4>2 DEF StartInvalidate
        <5>2. Top(t).pc \in Sending
          BY <5>1, SendFacts
        <5> QED
          BY <5>2 DEF Fill, At, Sending
      <4> QED
        BY <4>1, <4>2
    <3> QED
      BY <3>1, <3>2
  <2>2. ST' = ST
    BY <2>1 DEF ST
  <2>3. \A u \in Cores : \A d \in FirstLevel[u] : Accesses(u, d)' <=> Accesses(u, d)
    BY <2>1, AccessesStays
  <2> QED
    BY <2>1, <2>2, <2>3, FilterKept
<1>3. ASSUME NEW t \in Cores, Step(t) PROVE StaysBacked
  BY <1>2, <1>3, FilterAccess, FilterFill, FilterInvalidate DEF Step
<1>4. ASSUME NEW t \in Cores, NEW c \in FirstLevel[t], ContextSwitch(t, c) PROVE StaysBacked
  <2>1. stack' = stack /\ ST' = ST /\ filter' = [filter EXCEPT ![c] = NoFilter]
    BY <1>1, <1>4 DEF ContextSwitch
  <2>2. c \in Caches /\ NoFilter.rdAddr = None
    BY TerminalFacts DEF NoFilter
  <2>3. filter'[c] = NoFilter /\ \A d \in Caches : d # c => filter'[d] = filter[d]
    BY <2>1, <2>2 DEF SideInv
  <2>4. \A u \in Cores : \A d : Accesses(u, d)' <=> Accesses(u, d)
    BY <2>1 DEF Accesses
  <2>5. \A u \in Cores : \A d \in FirstLevel[u] : d \in Caches
    BY TerminalFacts
  <2> QED
    BY <2>1, <2>2, <2>3, <2>4, <2>5 DEF StaysBacked, Backed
<1>5. ASSUME NEW t \in Cores, NEW c \in FirstLevel[t], NEW a \in Addrs, NEW type \in Gets, Replace(t, c, a, type)
      PROVE  StaysBacked
  <2>1. /\ ST' = ST /\ filter' = filter /\ stack[t] = <<>>
        /\ stack' = [stack EXCEPT ![t] = <<AccessFrame(c, a, type, "I", FALSE, ReqFlags(c))>>]
    BY <1>1, <1>5 DEF Replace
  <2>2. \A u \in Cores \ {t} : stack'[u] = stack[u]
    BY <2>1 DEF LocksInv, ShapeInv
  <2>3. \A u \in Cores : \A d : Accesses(u, d) => Accesses(u, d)'
    BY <2>1, <2>2 DEF Accesses
  <2> QED
    BY <2>1, <2>3, FilterKept
<1>6. CASE UNCHANGED mesiVars
  <2>1. stack' = stack /\ ST' = ST /\ filter' = filter
    BY <1>1, <1>6 DEF mesiVars, arrayVars
  <2> QED
    BY <2>1 DEF StaysBacked, Backed, Accesses
<1> QED
  BY <1>3, <1>4, <1>5, <1>6 DEF MesiNext

\* The line that an access has fetched is there until it gives its locks back.
BackedIsBacked == \A t \in Cores : \A c \in FirstLevel[t] : EntryBacked(t, c) <=> Backed(t, c)
LEMMA FilterHits == LocksInv /\ CoherenceInv /\ SideInv => BackedIsBacked
<1> SUFFICES ASSUME LocksInv, CoherenceInv, SideInv, NEW t \in Cores, NEW c \in FirstLevel[t]
             PROVE  EntryBacked(t, c) <=> Backed(t, c)
  BY DEF BackedIsBacked
<1>1. c \in Caches
  BY TerminalFacts
<1>2. ASSUME ~Accesses(t, c) PROVE EntryBacked(t, c) <=> Backed(t, c)
  <2>1. filter[c].rdAddr \in Slots /\ filter[c].wrAddr \in {None, filter[c].rdAddr}
    BY <1>1 DEF SideInv, FilterEntries
  <2>2. filter[c].rdAddr # None => StateOf(c, filter[c].rdAddr) = ST[c][filter[c].rdAddr]
    BY <1>1, <2>1, StateOfIs DEF Slots
  <2> QED
    BY <1>2, <2>1, <2>2 DEF EntryBacked, Backed
<1>3. ASSUME Accesses(t, c), At(t, "fill")
      PROVE  /\ StateOf(c, Top(t).addr) # "I"
             /\ Top(t).type = "GETX" => StateOf(c, Top(t).addr) = "M"
  <2> DEFINE f == Top(t)
  <2>0. stack[t] # <<>> /\ Top(t).pc = "fill" /\ stack[t][1].cache = c
    BY <1>3 DEF Accesses, At
  <2>1. Ready(ST, tag, f) /\ Own(ST, SH, tag, f) /\ Adr(tag, f) = f.addr /\ (Len(stack[t]) = 1 => f.type \in Gets)
    BY <2>0, TopFrame DEF Adr
  <2>2. f.addr \in Addrs /\ Len(stack[t]) \in Nat \ {0} /\ f = stack[t][Len(stack[t])]
    BY <2>0, TopOK
  <2>3. Len(stack[t]) = 1
    <3>1. Len(stack[t]) \in 1 .. Len(stack[t])
      BY <2>2
    <3> QED
      BY <2>0, <2>2, <3>1 DEF LocksInv, ShapeInv, Shape
  <2>4. f.cache = c
    BY <2>0, <2>2, <2>3
  <2>5. StateOf(c, f.addr) = ST[c][f.addr]
    BY <1>1, <2>2, StateOfIs
  <2> QED
    BY <2>0, <2>1, <2>3, <2>4, <2>5 DEF Ready, Gets
<1> QED
  BY <1>2, <1>3 DEF EntryBacked, Backed

\* Hits in the filter array, looked up without a lock (filter_cache.h:106,118),
\* stay hits in the cache through every step, but when another process's thread
\* makes room (155), and the line that replace() enters in it is still there: "we
\* have the new address guaranteed until we release the lock" (135).
THEOREM FilterSafety == MesiSpec => FilterHitsAreHits
<1>1. LocksInv /\ CoherenceInv /\ SideInv /\ [MesiNext]_mesiVars /\ BackedIsBacked /\ BackedIsBacked'
          => [\A t \in Cores : \A c \in FirstLevel[t] :
                 EntryBacked(t, c) => EntryBacked(t, c)' \/ (~Accesses(t, c) /\ ForeignInvalidation(c))]_mesiVars
  BY FilterStep DEF StaysBacked, BackedIsBacked
<1>2. MesiSpec => []BackedIsBacked
  BY LocksSafety, Coherence, SideSafety, FilterHits, PTL
<1> QED
  BY <1>1, <1>2, LocksSafety, Coherence, SideSafety, PTL DEF MesiSpec, FilterHitsAreHits

-----------------------------------------------------------------------------
(* The data written.                                                       *)

\* A line that is not in state M any more is on its way up.
Carries(g, f, a) == f.pc \in Sending /\ f.wb /\ Adr(g, f) = a
DirtyInv ==
    \A a \in dirty :
        \/ \E c \in Caches : ST[c][a] = "M"
        \/ \E t \in Cores : \E i \in 1 .. Len(stack[t]) : Carries(tag, stack[t][i], a)

\* A step that leaves the states alone, and the frames that carry data.
LEMMA DirtyKept ==
    ASSUME DirtyInv, ST' = ST, dirty' \subseteq dirty,
           \A t \in Cores : \A i \in 1 .. Len(stack[t]) : \A a \in Addrs : Carries(tag, stack[t][i], a) =>
               i \in 1 .. Len(stack'[t]) /\ Carries(tag', stack'[t][i], a),
           SideInv
    PROVE  DirtyInv'
<1> SUFFICES ASSUME NEW a \in dirty'
             PROVE  \/ \E c \in Caches : ST'[c][a] = "M"
                    \/ \E t \in Cores : \E i \in 1 .. Len(stack'[t]) : Carries(tag', stack'[t][i], a)
  BY DEF DirtyInv
<1>1. a \in dirty /\ a \in Addrs
  BY DEF SideInv
<1>2. CASE \E c \in Caches : ST[c][a] = "M"
  BY <1>2
<1>3. CASE \E t \in Cores : \E i \in 1 .. Len(stack[t]) : Carries(tag, stack[t][i], a)
  <2>1. PICK t \in Cores : \E i \in 1 .. Len(stack[t]) : Carries(tag, stack[t][i], a)
    BY <1>3
  <2>2. PICK i \in 1 .. Len(stack[t]) : Carries(tag, stack[t][i], a)
    BY <2>1
  <2>3. i \in 1 .. Len(stack'[t]) /\ Carries(tag', stack'[t][i], a)
    BY <1>1, <2>2
  <2> QED
    BY <2>3
<1> QED
  BY <1>1, <1>2, <1>3 DEF DirtyInv

\* A thread whose top frame sends nothing carries nothing.
LEMMA NothingCarried ==
    ASSUME LocksInv, NEW t \in Cores, stack[t] # <<>>, Top(t).pc \notin Sending
    PROVE  \A i \in 1 .. Len(stack[t]) : \A g, a : ~Carries(g, stack[t][i], a)
<1>1. Top(t).pc # "inval" /\ Len(stack[t]) \in Nat \ {0} /\ Top(t) = stack[t][Len(stack[t])]
  BY TopOK DEF Sending
<1>2. \A i \in 1 .. Len(stack[t]) : i < Len(stack[t]) \/ i = Len(stack[t])
  BY <1>1
<1> QED
  BY <1>1, <1>2, NoneBelow DEF Carries

LEMMA DirtyAccess ==
    ASSUME LocksInv, CoherenceInv, SideInv, DirtyInv, NEW t \in Cores,
           Evict(t) \/ AccessUp(t) \/ TakeLine(t) \/ Grant(t)
    PROVE  DirtyInv'
<1> DEFINE f == Top(t)
           n == Len(stack[t])
<1>1. stack[t] # <<>> /\ f.pc \in Busy /\ f.pc # "inval" /\ dirty' \subseteq dirty /\ Step(t) /\ ~Fill(t)
  BY DEF Evict, AccessUp, TakeLine, Grant, At, Busy, Step, Fill
<1>2. KeepsElse(t, ST', SH', tag') /\ Saved(t, ST', dirty')
  BY EvictCoherent, AccessUpCoherent, TakeLineCoherent, GrantCoherent
<1>3. n \in Nat \ {0} /\ f = stack[t][n] /\ f.cache \in Caches
  BY <1>1, TopOK
<1>4. SameOthers(t)
  BY <1>1, AccessStays
<1> SUFFICES ASSUME NEW a \in dirty'
             PROVE  \/ \E c \in Caches : ST'[c][a] = "M"
                    \/ \E u \in Cores : \E i \in 1 .. Len(stack'[u]) : Carries(tag', stack'[u][i], a)
  BY DEF DirtyInv
<1>5. a \in dirty /\ a \in Addrs
  BY <1>1 DEF SideInv
<1>6. CASE \E c \in Caches : ST[c][a] = "M"
  BY <1>2, <1>5, <1>6 DEF Saved
<1>7. CASE \E u \in Cores : \E i \in 1 .. Len(stack[u]) : Carries(tag, stack[u][i], a)
  <2>1. PICK u \in Cores : \E i \in 1 .. Len(stack[u]) : Carries(tag, stack[u][i], a)
    BY <1>7
  <2>2. PICK i \in 1 .. Len(stack[u]) : Carries(tag, stack[u][i], a)
    BY <2>1
  <2>3. CASE u = t
    <3>1. i < n \/ i = n
      BY <1>3, <2>2, <2>3
    <3>2. i = n
      BY <1>1, <2>2, <2>3, <3>1, NoneBelow DEF Carries
    <3>3. f.pc \in Sending /\ f.wb /\ Adr(tag, f) = a
      BY <1>3, <2>2, <2>3, <3>2 DEF Carries
    <3> QED
      BY <1>2, <1>5, <3>3 DEF Saved
  <2>4. CASE u # t
    <3> DEFINE g == stack[u][i]
    <3>1. g.cache \in Caches /\ g.pc \in Sending /\ g.wb /\ Adr(tag, g) = a
      BY <2>2, FrameType DEF Carries
    <3>2. bccLock[f.cache] = t
      BY <1>1, TopLock DEF Busy
    <3>3. g.cache # f.cache
      BY <1>3, <2>4, <3>1, <3>2, OtherSenders
    <3>4. tag'[g.cache] = tag[g.cache]
      BY <1>2, <3>1, <3>3 DEF KeepsElse
    <3>5. Adr(tag', g) = a
      BY <3>1, <3>4 DEF Adr
    <3>6. stack'[u] = stack[u]
      BY <1>4, <2>4 DEF SameOthers
    <3> QED
      BY <3>1, <3>5, <3>6 DEF Carries
  <2> QED
    BY <2>3, <2>4
<1> QED
  BY <1>5, <1>6, <1>7 DEF DirtyInv

LEMMA DirtyFill ==
    ASSUME LocksInv, CoherenceInv, SideInv, DirtyInv, NEW t \in Cores, Fill(t)
    PROVE  DirtyInv'
<1> DEFINE f == Top(t)
<1>1. /\ stack[t] # <<>> /\ f.pc = "fill" /\ UNCHANGED arrayVars /\ stack' = [stack EXCEPT ![t] = <<>>]
      /\ dirty' = IF f.type = "GETX" THEN dirty \cup {f.addr} ELSE dirty
  BY DEF Fill, At
<1>2. f.cache \in Caches
  BY <1>1, TopOK
<1>3. SameOthers(t) /\ ST' = ST /\ tag' = tag
  BY <1>1 DEF SameOthers, LocksInv, ShapeInv, ST, arrayVars
<1>4. f.type = "GETX" => ST[f.cache][f.addr] = "M"
  BY <1>1, TopFrame DEF Ready, Adr
<1> SUFFICES ASSUME NEW a \in dirty'
             PROVE  \/ \E c \in Caches : ST'[c][a] = "M"
                    \/ \E u \in Cores : \E i \in 1 .. Len(stack'[u]) : Carries(tag', stack'[u][i], a)
  BY DEF DirtyInv
<1>5. CASE a \notin dirty
  BY <1>1, <1>2, <1>3, <1>4, <1>5
<1>6. CASE \E c \in Caches : ST[c][a] = "M"
  BY <1>3, <1>6
<1>7. CASE \E u \in Cores : \E i \in 1 .. Len(stack[u]) : Carries(tag, stack[u][i], a)
  <2>1. PICK u \in Cores : \E i \in 1 .. Len(stack[u]) : Carries(tag, stack[u][i], a)
    BY <1>7
  <2>2. u # t
    BY <1>1, <2>1, NothingCarried DEF Sending
  <2> QED
    BY <1>3, <2>1, <2>2 DEF SameOthers
<1> QED
  BY <1>5, <1>6, <1>7 DEF DirtyInv

LEMMA DirtyInvalidate ==
    ASSUME LocksInv, CoherenceInv, SideInv, DirtyInv, NEW t \in Cores, FinishInvalidate(t)
    PROVE  DirtyInv'
<1> DEFINE f == Top(t)
           c == f.cache
           a == f.addr
           d == Caller(t)
           s == stack[t]
           n == Len(s)
           r == stack'[t]
           w == d.wb \/ Writeback(f, bcc[c][f.line])
           g == [d EXCEPT !.wb = w]
<1>1. /\ s # <<>> /\ f.pc = "inval" /\ f.todo = {} /\ tag' = tag /\ dirty' = dirty
      /\ stack' = [stack EXCEPT ![t] = Append(Front(Front(@)), g)]
  BY DEF FinishInvalidate, At
<1>2. /\ f \in Frames /\ a \in Addrs /\ c \in Caches /\ d.pc \in Sending /\ Adr(tag, d) = a /\ ST[c][a] = bcc[c][f.line]
  BY <1>1, InvalFacts
<1>3. n > 1 /\ n \in Nat /\ f = s[n] /\ d = s[n - 1] /\ d \in Frames /\ StackType
  BY <1>1, CallerOK, TopOK
<1>4. w \in BOOLEAN
  BY <1>2, <1>3 DEF Frames, Writeback
<1>5. (ST[c][a] = "M" => w) /\ (f.wb => w) /\ (d.wb => w)
  BY <1>2 DEF Writeback
<1> HIDE DEF w
<1>6. g \in Frames /\ g.cache = d.cache /\ g.pc = d.pc /\ g.line = d.line /\ g.addr = d.addr /\ g.wb = w
  BY <1>3, <1>4 DEF Frames
<1> HIDE DEF g
<1>7. SameOthers(t) /\ Popped(s, r, g)
  BY <1>1, <1>3, <1>6, ReturnStack
<1>8. n - 1 \in 1 .. Len(r) /\ r[n - 1] = g /\ \A i \in 1 .. n : i < n - 1 => i \in 1 .. Len(r) /\ r[i] = s[i]
  <2>1. Len(r) = n - 1 /\ r[n - 1] = g /\ \A i \in 1 .. n - 1 : i < n - 1 => r[i] = s[i]
    BY <1>7 DEF Popped
  <2> HIDE DEF n, r, s
  <2> QED
    BY <1>3, <2>1
<1>9. \A x \in Caches : \A y \in Slots :
         ST'[x][y] = IF x = c /\ y = a THEN Invalidated(f.type) ELSE ST[x][y]
  BY FinishInvalidateCoherent
<1>10. w => Carries(tag', g, a)
  BY <1>1, <1>2, <1>6 DEF Carries, Adr
<1> SUFFICES ASSUME NEW b \in dirty
             PROVE  \/ \E x \in Caches : ST'[x][b] = "M"
                    \/ \E u \in Cores : \E i \in 1 .. Len(stack'[u]) : Carries(tag', stack'[u][i], b)
  BY <1>1 DEF DirtyInv
<1>11. b \in Addrs /\ b \in Slots
  BY DEF SideInv, Slots
<1>12. ASSUME w, b = a PROVE \E u \in Cores : \E i \in 1 .. Len(stack'[u]) : Carries(tag', stack'[u][i], b)
  BY <1>8, <1>10, <1>12
<1>13. CASE \E x \in Caches : ST[x][b] = "M"
  <2>1. PICK x \in Caches : ST[x][b] = "M"
    BY <1>13
  <2>2. CASE x = c /\ b = a
    BY <1>5, <1>12, <2>1, <2>2
  <2>3. CASE ~(x = c /\ b = a)
    BY <1>9, <1>11, <2>1, <2>3
  <2> QED
    BY <2>2, <2>3
<1>14. CASE \E u \in Cores : \E i \in 1 .. Len(stack[u]) : Carries(tag, stack[u][i], b)
  <2>1. PICK u \in Cores : \E i \in 1 .. Len(stack[u]) : Carries(tag, stack[u][i], b)
    BY <1>14
  <2>2. PICK i \in 1 .. Len(stack[u]) : Carries(tag, stack[u][i], b)
    BY <2>1
  <2>3. CASE u # t
    <3>1. stack'[u] = stack[u]
      BY <1>7, <2>3 DEF SameOthers
    <3> QED
      BY <1>1, <2>2, <3>1
  <2>4. CASE u = t /\ i < n - 1
    <3>1. i \in 1 .. Len(r) /\ r[i] = s[i]
      BY <1>8, <2>2, <2>4
    <3> QED
      BY <1>1, <2>2, <2>4, <3>1
  <2>5. CASE u = t /\ i = n
    <3>1. f.wb /\ Adr(tag, f) = b
      BY <1>3, <2>2, <2>5 DEF Carries
    <3>2. b = a
      BY <1>1, <3>1 DEF Adr
    <3> QED
      BY <1>5, <1>12, <3>1, <3>2
  <2>6. CASE u = t /\ i = n - 1
    <3>1. d.wb /\ b = a
      BY <1>2, <1>3, <2>2, <2>6 DEF Carries
    <3> QED
      BY <1>5, <1>12, <3>1
  <2>7. u = t => i < n - 1 \/ i = n - 1 \/ i = n
    <3> SUFFICES ASSUME u = t PROVE i < n - 1 \/ i = n - 1 \/ i = n
      OBVIOUS
    <3>1. i \in 1 .. n
      BY <2>2
    <3> HIDE DEF n
    <3> QED
      BY <1>3, <3>1
  <2> QED
    BY <2>3, <2>4, <2>5, <2>6, <2>7
<1> QED
  BY <1>13, <1>14 DEF DirtyInv

LEMMA DirtySend ==
    ASSUME LocksInv, CoherenceInv, SideInv, DirtyInv, NEW t \in Cores, StartInvalidate(t)
    PROVE  DirtyInv'
<1> DEFINE f == Top(t)
           d == NextChild(f)
           l == Line(d, SendAddr(f))
           g == [f EXCEPT !.todo = @ \ {d}]
           e == InvFrame(d, SendAddr(f), SendType(f), l, Targets(tcc[d][l], d, SendType(f)))
           s == stack[t]
           n == Len(s)
           r == stack'[t]
<1>1. s # <<>> /\ tag' = tag /\ bcc' = bcc /\ dirty' = dirty /\ Call(t, g, e)
  BY DEF StartInvalidate, arrayVars
<1>2. f \in Frames /\ StackType /\ n \in Nat \ {0} /\ f = s[n]
  BY <1>1, TopOK
<1>3. g.pc = f.pc /\ g.wb = f.wb /\ g.cache = f.cache /\ g.line = f.line /\ g.addr = f.addr
  BY <1>2 DEF Frames
<1> HIDE DEF g, e
<1>4. SameOthers(t) /\ n + 1 = Len(r) /\ r[n] = g /\ \A i \in 1 .. n : i < n => r[i] = s[i]
  <2> DEFINE S == Frames \cup {g, e}
             q == Append(Front(s), g) \o <<e>>
  <2>1. s \in Seq(S) /\ s # <<>> /\ g \in S /\ e \in S
    BY <1>1, <1>2, SeqMonotonic DEF StackType
  <2>2. stack' = [stack EXCEPT ![t] = q]
    BY <1>1 DEF Call
  <2>3. /\ Len(q) = n + 1
        /\ \A i \in 1 .. n + 1 : q[i] = IF i = n + 1 THEN e ELSE IF i = n THEN g ELSE s[i]
    <3> HIDE DEF s, S
    <3> QED
      BY <2>1, SeqCall
  <2> HIDE DEF q
  <2>4. r = q /\ SameOthers(t)
    BY <1>2, <2>2 DEF StackType, SameOthers
  <2>5. n \in 1 .. n + 1 /\ n # n + 1 /\ \A i \in 1 .. n : i \in 1 .. n + 1 /\ i # n + 1
    BY <1>2
  <2> HIDE DEF r, n
  <2> QED
    BY <2>3, <2>4, <2>5
<1>5. ST' = ST
  BY <1>1 DEF ST
<1>6. ASSUME NEW u \in Cores, NEW i \in 1 .. Len(stack[u]), NEW a \in Addrs, Carries(tag, stack[u][i], a)
      PROVE  i \in 1 .. Len(stack'[u]) /\ Carries(tag', stack'[u][i], a)
  <2>1. CASE u # t
    BY <1>1, <1>4, <1>6, <2>1 DEF SameOthers
  <2>2. CASE u = t /\ i = n
    <3>1. i \in 1 .. Len(r)
      BY <1>2, <1>4, <2>2
    <3>2. Carries(tag', g, a)
      BY <1>1, <1>2, <1>3, <1>6, <2>2 DEF Carries, Adr
    <3> QED
      BY <1>4, <2>2, <3>1, <3>2
  <2>3. CASE u = t /\ i < n
    <3>1. i \in 1 .. Len(r)
      BY <1>2, <1>4, <2>3
    <3> QED
      BY <1>1, <1>4, <1>6, <2>3, <3>1
  <2>4. u = t => i = n \/ i < n
    BY <1>2
  <2> QED
    BY <2>1, <2>2, <2>3, <2>4
<1> QED
  BY <1>1, <1>5, <1>6, DirtyKept

LEMMA DirtyInit == MesiInit => DirtyInv
BY DEF MesiInit, DirtyInv

LEMMA DirtyStep == LocksInv /\ CoherenceInv /\ SideInv /\ DirtyInv /\ [MesiNext]_mesiVars => DirtyInv'
<1> SUFFICES ASSUME LocksInv, CoherenceInv, SideInv, DirtyInv, [MesiNext]_mesiVars PROVE DirtyInv'
  OBVIOUS
<1>1. ASSUME UNCHANGED arrayVars PROVE ST' = ST /\ tag' = tag
  BY <1>1 DEF ST, arrayVars
<1>2. ASSUME NEW t \in Cores, LockTcc(t) \/ StartAccess(t) \/ TellOthers(t) \/ EndAccess(t) PROVE DirtyInv'
  <2>1. tag' = tag /\ bcc' = bcc /\ dirty' = dirty /\ Step(t) /\ ~Fill(t) /\ stack[t] # <<>> /\ Top(t).pc \notin Sending
    BY <1>2 DEF Step, LockTcc, StartAccess, TellOthers, EndAccess, Fill, At, arrayVars, Sending
  <2>2. SameOthers(t) /\ ST' = ST
    BY <2>1, AccessStays DEF ST
  <2>3. \A u \in Cores : \A i \in 1 .. Len(stack[u]) : \A a \in Addrs : Carries(tag, stack[u][i], a) =>
            i \in 1 .. Len(stack'[u]) /\ Carries(tag', stack'[u][i], a)
    BY <2>1, <2>2, NothingCarried DEF SameOthers
  <2> QED
    BY <2>1, <2>2, <2>3, DirtyKept
<1>3. ASSUME NEW t \in Cores, Step(t) PROVE DirtyInv'
  BY <1>2, <1>3, DirtyAccess, DirtyFill, DirtySend, DirtyInvalidate DEF Step
<1>4. ASSUME stack' = stack, UNCHANGED arrayVars, dirty' = dirty PROVE DirtyInv'
  BY <1>1, <1>4 DEF DirtyInv
<1>5. ASSUME NEW t \in Cores, NEW c \in FirstLevel[t], ContextSwitch(t, c) PROVE DirtyInv'
  BY <1>4, <1>5 DEF ContextSwitch
<1>6. ASSUME NEW t \in Cores, NEW c \in FirstLevel[t], NEW a \in Addrs, NEW type \in Gets, Replace(t, c, a, type)
      PROVE  DirtyInv'
  <2>1. /\ ST' = ST /\ tag' = tag /\ dirty' = dirty /\ stack[t] = <<>>
        /\ stack' = [stack EXCEPT ![t] = <<AccessFrame(c, a, type, "I", FALSE, ReqFlags(c))>>]
    BY <1>1, <1>6 DEF Replace
  <2>2. \A u \in Cores \ {t} : stack'[u] = stack[u]
    BY <2>1 DEF LocksInv, ShapeInv
  <2>3. ~ \E i \in 1 .. Len(stack[t]) : TRUE
    BY <2>1, EmptyStack
  <2> QED
    BY <2>1, <2>2, <2>3, DirtyKept
<1>7. CASE UNCHANGED mesiVars
  BY <1>4, <1>7 DEF mesiVars, arrayVars
<1> QED
  BY <1>3, <1>5, <1>6, <1>7 DEF MesiNext

LEMMA DirtyThere == LocksInv /\ CoherenceInv /\ SideInv /\ DirtyInv => DirtyNotLost
<1> SUFFICES ASSUME LocksInv, CoherenceInv, SideInv, DirtyInv, NEW a \in dirty
             PROVE  \/ \E c \in Caches : StateOf(c, a) = "M"
                    \/ \E t \in Cores : \E i \in DOMAIN stack[t] :
                          stack[t][i].wb /\ SendAddr(stack[t][i]) = a
  BY DEF DirtyNotLost
<1>1. a \in Addrs
  BY DEF SideInv
<1>2. CASE \E c \in Caches : ST[c][a] = "M"
  BY <1>1, <1>2, StateOfIs
<1>3. CASE \E t \in Cores : \E i \in 1 .. Len(stack[t]) : Carries(tag, stack[t][i], a)
  <2>1. PICK t \in Cores : \E i \in 1 .. Len(stack[t]) : Carries(tag, stack[t][i], a)
    BY <1>3
  <2>2. PICK i \in 1 .. Len(stack[t]) : Carries(tag, stack[t][i], a)
    BY <2>1
  <2>3. DOMAIN stack[t] = 1 .. Len(stack[t])
    BY LenProperties DEF LocksInv, ShapeInv
  <2>4. Adr(tag, stack[t][i]) = SendAddr(stack[t][i])
    BY <2>2, SenderFacts DEF Carries
  <2> QED
    BY <2>2, <2>3, <2>4 DEF Carries
<1> QED
  BY <1>2, <1>3 DEF DirtyInv

\* Data stored and not yet written to memory is in some cache in state M, or on
\* its way up: an invalidation or an eviction in progress has its writeback flag
\* set (InvReq::writeback, coherence_ctrls.cpp).
THEOREM DirtySafety == MesiSpec => []DirtyNotLost
<1>1. LocksInv /\ CoherenceInv /\ SideInv /\ DirtyInv /\ LocksInv' /\ CoherenceInv' /\ SideInv' /\ [MesiNext]_mesiVars
          => DirtyInv'
  BY DirtyStep
<1>2. MesiSpec => []DirtyInv
  BY <1>1, LocksSafety, Coherence, SideSafety, DirtyInit, PTL DEF MesiSpec
<1> QED
  BY <1>2, LocksSafety, Coherence, SideSafety, DirtyThere, PTL

-----------------------------------------------------------------------------
(* The child's line, while its parent works.                               *)

LEMMA TopMoves ==
    ASSUME StackType, NEW t \in Cores, stack[t] # <<>>, NEW f, NEW g,
           (SetTop(t, f) /\ f.pc # Top(t).pc) \/ Call(t, f, g)
    PROVE  stack'[t] # stack[t]
<1> DEFINE s == stack[t]
           n == Len(s)
           S == Frames \cup {f, g}
           r == Append(Front(s), f)
           q == r \o <<g>>
<1>1. s \in Seq(Frames) /\ s # <<>> /\ Top(t) = s[n] /\ n \in Nat \ {0}
  BY TopFacts
<1>2. s \in Seq(S)
  BY <1>1, SeqMonotonic
<1>3. /\ Len(r) = n /\ Len(q) = n + 1
      /\ \A i \in 1 .. n : r[i] = IF i = n THEN f ELSE s[i]
  <2>1. s \in Seq(S) /\ s # <<>> /\ f \in S /\ g \in S
    BY <1>1, <1>2
  <2> HIDE DEF s, S
  <2> QED
    BY <2>1, SeqTop, SeqCall
<1>4. r[n] = f /\ Len(q) # n
  <2>1. n \in 1 .. n /\ n + 1 # n
    BY <1>1
  <2> HIDE DEF r, q
  <2> QED
    BY <1>3, <2>1
<1>5. (stack' = [stack EXCEPT ![t] = r] /\ f.pc # s[n].pc) \/ stack' = [stack EXCEPT ![t] = q]
  BY <1>1 DEF SetTop, Call
<1> HIDE DEF r, q
<1>6. (stack'[t] = r /\ f.pc # s[n].pc) \/ stack'[t] = q
  BY <1>5 DEF StackType
<1> QED
  BY <1>4, <1>6

\* A step of an access that writes states changes its stack.
LEMMA WriterMoves ==
    ASSUME LocksInv, CoherenceInv, NEW t \in Cores, Evict(t) \/ AccessUp(t) \/ TakeLine(t) \/ Grant(t)
    PROVE  stack'[t] # stack[t]
<1> DEFINE f == Top(t)
<1>1. stack[t] # <<>> /\ f.pc \in {"evict", "insert", "access", "dir", "grant"}
  BY DEF Evict, AccessUp, TakeLine, Grant, At
<1>2. StackType /\ f \in Frames
  BY <1>1, TopOK
<1>3. /\ \A g : SetTop(t, g) /\ g.pc # f.pc => stack'[t] # stack[t]
      /\ \A g, e : Call(t, g, e) => stack'[t] # stack[t]
  BY <1>1, <1>2, TopMoves
<1>4. \A pc : Goto(f, pc).pc = pc
  BY <1>2 DEF Goto, Frames
<1> HIDE DEF f
<1>5. CASE Evict(t)
  <2> DEFINE k == Goto(f, "insert")
             g == [k EXCEPT !.wb = FALSE]
  <2>1. k.pc = "insert" /\ k \in Frames
    BY <1>2, <1>4, GotoFrame DEF PCs
  <2> HIDE DEF k
  <2>2. g.pc = "insert"
    BY <2>1 DEF Frames
  <2>3. f.pc = "evict" /\ (SetTop(t, g) \/ \E e : Call(t, g, e))
    BY <1>5 DEF Evict, At, f, k
  <2> HIDE DEF g
  <2> QED
    BY <1>3, <2>2, <2>3
<1>6. CASE AccessUp(t)
  <2>1. f.pc \in {"insert", "access"} /\ NextPc(f) \in {"dir", "end"}
        /\ (SetTop(t, Goto(f, NextPc(f))) \/ \E g, e : Call(t, g, e))
    BY <1>6 DEF AccessUp, At, NextPc, f
  <2> QED
    BY <1>3, <1>4, <2>1
<1>7. CASE TakeLine(t) \/ Grant(t)
  <2>1. f.pc # "end" /\ SetTop(t, Goto(f, "end"))
    BY <1>7 DEF TakeLine, Grant, At, f
  <2> QED
    BY <1>3, <1>4, <2>1
<1> QED
  BY <1>5, <1>6, <1>7

\* An update of one line leaves every other line.
LEMMA OtherLines ==
    ASSUME NEW S, NEW g, PerLine(g, S), NEW c, NEW l, NEW v, NEW x \in Caches, NEW k \in Lines[x], x # c \/ k # l
    PROVE  Upd(g, c, l, v)[x][k] = g[x][k]
<1>1. DOMAIN g = Caches /\ g[x] \in [Lines[x] -> S]
  BY DEF PerLine
<1>2. CASE x # c
  BY <1>1, <1>2 DEF Upd
<1>3. CASE x = c
  BY <1>1, <1>3 DEF Upd
<1> QED
  BY <1>2, <1>3

\* A thread whose access holds the lock of its cache, and its child's line.
LEMMA ChildLine ==
    ASSUME LocksInv, CoherenceInv, NEW t \in Cores, stack[t] # <<>>, Top(t).own, bccLock[Top(t).cache] = t
    PROVE  LET f == Top(t)
               d == Caller(t)
           IN
           /\ f.pc # "inval" /\ Len(stack[t]) > 1 /\ d = stack[t][Len(stack[t]) - 1] /\ d.pc \in Called
           /\ f.cache \in Caches /\ d.cache \in Caches /\ d.line \in Lines[d.cache]
           /\ tag[d.cache][d.line] = f.addr /\ Parent[d.cache][f.addr] = f.cache
<1> DEFINE f == Top(t)
           d == Caller(t)
           n == Len(stack[t])
<1>1. f \in Frames /\ f.cache \in Caches /\ n \in Nat \ {0}
  BY TopOK, FrameType, TopFacts DEF LocksInv, ShapeInv, StackType
<1>2. /\ n > 1 /\ d = stack[t][n - 1] /\ Link(ST, tag, d, f) /\ LinkOK(d, f) /\ d.cache \in Caches
  <2>1. n # 1
    BY TopFrame
  <2>2. n > 1
    <3>1. n \in Nat \ {0}
      BY <1>1
    <3> HIDE DEF n
    <3> QED
      BY <2>1, <3>1
  <2>3. d = stack[t][n - 1] /\ Link(ST, tag, d, f) /\ LinkOK(d, f) /\ d.cache \in Caches
    BY <2>2, TopFrame
  <2> QED
    BY <2>2, <2>3
<1>3. f.pc # "inval"
  BY <1>2 DEF Link
<1> QED
  BY <1>1, <1>2, <1>3 DEF Link, LinkOK

\* Nobody else has an access at work in the cache of the child.
LEMMA ChildAlone ==
    ASSUME LocksInv, CoherenceInv, NEW t \in Cores, stack[t] # <<>>, Top(t).own, bccLock[Top(t).cache] = t,
           NEW u \in Cores, u # t, NEW i \in 1 .. Len(stack[u]), stack[u][i].pc \notin {"tcc", "inval"}
    PROVE  stack[u][i].cache # Caller(t).cache
<1> DEFINE n == Len(stack[t]) - 1
<1>1. Len(stack[t]) \in Nat /\ Len(stack[t]) > 1 /\ Caller(t) = stack[t][n] /\ stack[t][n].pc \in Called
  BY ChildLine, TopFacts DEF LocksInv, ShapeInv, StackType
<1>2. n \in 1 .. Len(stack[t]) /\ stack[t][n].pc \notin {"tcc", "inval"}
  BY <1>1 DEF Called
<1> HIDE DEF n
<1> QED
  BY <1>1, <1>2, OneAccess

\* A step of another thread leaves the child's line.
LEMMA ChildKept ==
    ASSUME LocksInv, CoherenceInv, NEW t \in Cores, stack[t] # <<>>, Top(t).own, bccLock[Top(t).cache] = t,
           NEW u \in Cores, u # t,
           Evict(u) \/ AccessUp(u) \/ TakeLine(u) \/ Grant(u) \/ FinishInvalidate(u)
    PROVE  bcc'[Caller(t).cache][Caller(t).line] = bcc[Caller(t).cache][Caller(t).line]
<1> DEFINE f == Top(u)
           x == Caller(t).cache
           k == Caller(t).line
           m == Len(stack[u])
<1>1. x \in Caches /\ k \in Lines[x]
  BY ChildLine
<1>2. stack[u] # <<>> /\ f.pc \in {"evict", "insert", "access", "dir", "grant", "inval"}
  BY DEF Evict, AccessUp, TakeLine, Grant, FinishInvalidate, At
<1>3. m \in Nat \ {0} /\ f = stack[u][m] /\ m \in 1 .. m
  BY <1>2, TopFacts DEF LocksInv, ShapeInv, StackType
<1>4. PerLine(bcc, MESIState)
  BY DEF LocksInv, LineInv
<1>5. f.pc # "inval" => f.cache # x
  BY <1>2, <1>3, ChildAlone
<1>6. CASE Evict(u) \/ AccessUp(u)
  <2>1. f.pc # "inval" /\ (bcc' = bcc \/ \E v : bcc' = Upd(bcc, f.cache, f.line, v))
    BY <1>6 DEF Evict, AccessUp, At, Upd
  <2>2. f.cache # x
    BY <1>5, <2>1
  <2>3. bcc'[x][k] = bcc[x][k]
    <3> HIDE DEF f, x, k
    <3> QED
      BY <1>1, <1>4, <2>1, <2>2, OtherLines
  <2> QED
    BY <2>3
<1>7. CASE TakeLine(u) \/ Grant(u)
  <2> DEFINE d == Caller(u)
             v == GrantWritten(u)
             w == GrantGiven(u)
  <2>1. f.pc \in {"dir", "grant"}
    BY <1>7 DEF TakeLine, Grant, At
  <2>2. m > 1 /\ d = stack[u][m - 1] /\ d.pc \in Called
    <3>1. m > 1
      BY <1>2, <2>1, DirFacts
    <3> QED
      BY <1>2, <2>1, <3>1, TopFrame DEF LinkOK
  <2>3. m - 1 \in 1 .. m /\ d.pc \notin {"tcc", "inval"}
    BY <1>3, <2>2 DEF Called
  <2>4. d.cache # x /\ f.cache # x
    BY <1>5, <2>1, <2>2, <2>3, ChildAlone
  <2>5. \/ bcc' = Upd(bcc, d.cache, d.line, "I")
        \/ bcc' = Upd(Upd(bcc, f.cache, f.line, v), d.cache, d.line, w)
    BY <1>7, GrantStep DEF TakeLine, Upd
  <2>6. bcc'[x] = bcc[x]
    <3> HIDE DEF f, x, d, v, w, m
    <3>1. \A b, c, l, y : DOMAIN b = Caches /\ c # x =>
             Upd(b, c, l, y)[x] = b[x] /\ DOMAIN Upd(b, c, l, y) = Caches
      BY <1>1 DEF Upd
    <3>2. DOMAIN bcc = Caches
      BY <1>4 DEF PerLine
    <3> QED
      BY <2>4, <2>5, <3>1, <3>2
  <2> QED
    BY <2>6
<1>8. CASE FinishInvalidate(u)
  <2> DEFINE d == Caller(u)
  <2>1. f.pc = "inval" /\ f.todo = {} /\ \E v : bcc' = Upd(bcc, f.cache, f.line, v)
    BY <1>8 DEF FinishInvalidate, At, Upd
  <2>2. tag[f.cache][f.line] = f.addr /\ Parent[f.cache][f.addr] = d.cache
    BY <1>2, <2>1, InvalFacts
  <2>3. m > 1 /\ d = stack[u][m - 1] /\ bccLock[d.cache] = u
    <3>1. m > 1
      BY <1>2, <1>3, <2>1, FrameType
    <3>2. d = stack[u][m - 1]
      BY <1>2, <3>1, TopFacts DEF LocksInv, ShapeInv, StackType
    <3>3. m - 1 \in 1 .. m /\ m - 1 < m /\ stack[u][(m - 1) + 1].pc = "inval"
      BY <1>3, <2>1, <3>1
    <3>4. HoldsBcc(stack[u], m - 1)
      BY <3>3, SenderHolds
    <3> QED
      BY <3>1, <3>2, <3>3, <3>4, HolderLock
  <2>4. x # f.cache \/ k # f.line
    <3> SUFFICES ASSUME x = f.cache, k = f.line PROVE FALSE
      OBVIOUS
    <3>1. tag[x][k] = Top(t).addr /\ Parent[x][Top(t).addr] = Top(t).cache
      BY ChildLine
    <3>2. d.cache = Top(t).cache
      BY <2>2, <3>1
    <3> QED
      BY <2>3, <3>2
  <2>5. bcc'[x][k] = bcc[x][k]
    <3> HIDE DEF f, x, k
    <3> QED
      BY <1>1, <1>4, <2>1, <2>4, OtherLines
  <2> QED
    BY <2>5
<1> QED
  BY <1>6, <1>7, <1>8

LEMMA ChildStep ==
    LocksInv /\ CoherenceInv /\ [MesiNext]_mesiVars =>
        \A t \in Cores :
            /\ stack[t] # <<>> /\ stack'[t] = stack[t]
            /\ Top(t).own /\ bccLock[Top(t).cache] = t
            => bcc'[Caller(t).cache][Caller(t).line] = bcc[Caller(t).cache][Caller(t).line]
<1> SUFFICES ASSUME LocksInv, CoherenceInv, [MesiNext]_mesiVars, NEW t \in Cores,
                    stack[t] # <<>>, stack'[t] = stack[t], Top(t).own, bccLock[Top(t).cache] = t
             PROVE  bcc'[Caller(t).cache][Caller(t).line] = bcc[Caller(t).cache][Caller(t).line]
  OBVIOUS
<1> DEFINE Writes(u) == Evict(u) \/ AccessUp(u) \/ TakeLine(u) \/ Grant(u) \/ FinishInvalidate(u)
<1>1. bcc' = bcc \/ \E u \in Cores : Writes(u)
  <2>1. CASE UNCHANGED mesiVars
    BY <2>1 DEF mesiVars, arrayVars
  <2>2. CASE MesiNext
    <3>1. PICK u \in Cores : \/ Step(u)
                             \/ \E c \in FirstLevel[u] :
                                   \/ ContextSwitch(u, c)
                                   \/ \E a \in Addrs, type \in Gets : Replace(u, c, a, type)
      BY <2>2 DEF MesiNext
    <3>2. CASE \E c \in FirstLevel[u] : ContextSwitch(u, c) \/ \E a \in Addrs, type \in Gets : Replace(u, c, a, type)
      BY <3>2 DEF ContextSwitch, Replace, arrayVars
    <3>3. CASE LockTcc(u) \/ StartAccess(u) \/ EndAccess(u) \/ Fill(u) \/ StartInvalidate(u)
      BY <3>3 DEF LockTcc, StartAccess, EndAccess, Fill, StartInvalidate, arrayVars
    <3>4. CASE TellOthers(u)
      BY <3>4 DEF TellOthers
    <3>5. CASE Writes(u)
      BY <3>5
    <3> QED
      BY <3>1, <3>2, <3>3, <3>4, <3>5 DEF Step
  <2> QED
    BY <2>1, <2>2
<1>2. ASSUME NEW u \in Cores, Writes(u) PROVE u # t
  <2> SUFFICES ASSUME u = t PROVE FALSE
    OBVIOUS
  <2>1. Top(t).pc # "inval"
    BY ChildLine
  <2>2. CASE FinishInvalidate(t)
    BY <2>1, <2>2 DEF FinishInvalidate, At
  <2>3. CASE Evict(t) \/ AccessUp(t) \/ TakeLine(t) \/ Grant(t)
    BY <2>3, WriterMoves
  <2> QED
    BY <1>2, <2>2, <2>3
<1> QED
  BY <1>1, <1>2, ChildKept

\* The child of an access that holds its parent's lock keeps the state of its
\* line until the access goes on (coherence_ctrls.h:320-321).
THEOREM ChildSafety == MesiSpec => ChildStable
<1>1. LocksInv /\ CoherenceInv /\ [MesiNext]_mesiVars =>
        [\A t \in Cores :
            (/\ stack[t] # <<>> /\ stack'[t] = stack[t]
             /\ Top(t).own /\ bccLock[Top(t).cache] = t)
              => bcc'[Caller(t).cache][Caller(t).line] = bcc[Caller(t).cache][Caller(t).line]]_mesiVars
  BY ChildStep
<1> QED
  BY <1>1, LocksSafety, Coherence, PTL DEF MesiSpec, ChildStable
=============================================================================
