----------------------------- MODULE VfsProofs -----------------------------
(* The file system for any paths, any number of descriptors and nodes, and *)
(* every size of files and of the first buffer.                            *)
EXTENDS Vfs, FiniteSetTheorems, WellFoundedInduction, TLAPS

----------------------------------------------------------------------------

(* Least and greatest numbers, and induction up to n by the least number   *)
(* outside a set.                                                          *)
LEMMA Least ==
  ASSUME NEW T, T \subseteq Nat, T # {}
  PROVE  \E x \in T : \A y \in T : x <= y
<1>1. PICK x \in T : \A y \in T : ~ (<<y, x>> \in OpToRel(<, Nat))
  BY ZenonT(30), NatLessThanWellFounded, WFMin
<1>2. \A y \in T : ~ (y < x)
  BY ZenonT(30), <1>1 DEF OpToRel
<1> QED
  BY <1>2

LEMMA UpTo ==
  ASSUME NEW n \in Nat, NEW S, 0 \in S, \A k \in 1 .. n : k - 1 \in S => k \in S
  PROVE  0 .. n \subseteq S
<1> DEFINE T == {k \in 0 .. n : k \notin S}
<1> SUFFICES ASSUME T # {} PROVE FALSE
  OBVIOUS
<1>1. PICK k \in T : \A j \in T : k <= j
  BY Least, T \subseteq Nat
<1>2. k \in 1 .. n /\ k - 1 \in 0 .. n /\ k - 1 \notin T
  BY <1>1
<1> QED
  BY <1>1, <1>2

LEMMA MinIs ==
  ASSUME NEW S, S \subseteq Nat, S # {}
  PROVE  Min(S) \in S /\ \A y \in S : Min(S) <= y
  BY ZenonT(30), Least DEF Min

LEMMA MaxIs ==
  ASSUME NEW n \in Nat, NEW S, S \subseteq 1 .. n, S # {}
  PROVE  Max(S) \in S /\ \A y \in S : Max(S) >= y
<1> DEFINE T == {d \in Nat : \E y \in S : d = n - y}
<1>0. \A y \in S : n - y \in T
  OBVIOUS
<1>1. T \subseteq Nat /\ T # {}
  BY ZenonT(30), <1>0
<1>2. PICK x \in T : \A y \in T : x <= y
  BY ZenonT(30), <1>1, Least
<1>3. PICK s \in S : x = n - s
  BY <1>2
<1>4. \A y \in S : n - s <= n - y
  BY <1>0, <1>2, <1>3
<1>5. \A y \in S : s >= y
  BY <1>4
<1> QED
  BY ZenonT(30), <1>5 DEF Max

(* A recursion along 0 .. n: f[k] is what step k makes of f[k - 1].        *)
Follows(f, n, a, step) == f = [k \in 0 .. n |-> IF k = 0 THEN a ELSE step[k][f[k - 1]]]

LEMMA Recursion ==
  ASSUME NEW n \in Nat, NEW V, NEW a \in V, NEW step \in [1 .. n -> [V -> V]]
  PROVE  \E f \in [0 .. n -> V] : Follows(f, n, a, step)
<1> DEFINE S == {i \in 0 .. n : \E f \in [0 .. i -> V] : Follows(f, i, a, step)}
<1>1. 0 \in S
  <2> DEFINE f == [k \in 0 .. 0 |-> a]
  <2>1. f \in [0 .. 0 -> V] /\ Follows(f, 0, a, step)
    BY DEF Follows
  <2> QED
    BY <2>1
<1>2. ASSUME NEW i \in 1 .. n, i - 1 \in S
      PROVE  i \in S
  <2>1. PICK g \in [0 .. i - 1 -> V] : Follows(g, i - 1, a, step)
    BY <1>2
  <2> DEFINE f == [k \in 0 .. i |-> IF k = i THEN step[i][g[i - 1]] ELSE g[k]]
  <2>2. step[i] \in [V -> V] /\ i - 1 \in 0 .. i - 1
    OBVIOUS
  <2>3. f \in [0 .. i -> V]
    BY SMTT(30), <2>1, <2>2
  <2>4. ASSUME NEW k \in 0 .. i
        PROVE  f[k] = IF k = 0 THEN a ELSE step[k][f[k - 1]]
    <3>1. CASE k = i
      <4>1. k # 0 /\ k - 1 \in 0 .. i /\ k - 1 # i
        BY <3>1
      <4> QED
        BY <3>1, <4>1
    <3>2. CASE k # i /\ k # 0
      <4>1. k \in 0 .. i - 1 /\ k - 1 \in 0 .. i /\ k - 1 # i
        BY <3>2
      <4>2. g[k] = step[k][g[k - 1]]
        BY <2>1, <3>2, <4>1 DEF Follows
      <4> QED
        BY <3>2, <4>1, <4>2
    <3>3. CASE k # i /\ k = 0
      <4>1. k \in 0 .. i - 1
        BY <3>3
      <4> QED
        BY <2>1, <3>3, <4>1 DEF Follows
    <3> QED
      BY <3>1, <3>2, <3>3
  <2>5. f = [k \in 0 .. i |-> f[k]]
    OBVIOUS
  <2> HIDE DEF f
  <2>6. Follows(f, i, a, step)
    BY ZenonT(30), <2>4, <2>5 DEF Follows
  <2> QED
    BY <2>3, <2>6
<1>3. 0 .. n \subseteq S
  BY <1>1, <1>2, UpTo, ZenonT(30)
<1> QED
  BY <1>3

----------------------------------------------------------------------------

(* What a name, a byte of a buffer and a node can be.                      *)
Names == STRING \cup {"/"}
Data == Bytes \cup {0}
NodeSet ==
  [name : Names, dir : BOOLEAN, parent : Nat, size : 0 .. MaxSize, payload : BOOLEAN,
   data : Seq(Data)]

(* A tree: parents are directories and older than their children, and no   *)
(* directory has two children of one name.                                 *)
NodesOK ==
  /\ nodes \in Seq(NodeSet) /\ Len(nodes) <= MaxNodes
  /\ root_node = (IF Len(nodes) = 0 THEN NULL ELSE 1)
  /\ \A n \in Nodes : nodes[n].size <= Len(nodes[n].data)
  /\ \A n \in Nodes : nodes[n].parent \in 0 .. n - 1
  /\ \A n \in Nodes \ {1} : nodes[n].parent # 0 /\ nodes[nodes[n].parent].dir
  /\ \A m, n \in Nodes : nodes[m].parent = nodes[n].parent /\ nodes[m].name = nodes[n].name => m = n

LEMMA NodeIs ==
  ASSUME NodesOK, NEW n \in Nodes
  PROVE  /\ nodes[n] \in NodeSet /\ nodes[n].data \in Seq(Data) /\ Len(nodes[n].data) \in Nat
         /\ nodes[n].size \in 0 .. MaxSize /\ nodes[n].name \in Names
         /\ nodes[n].dir \in BOOLEAN /\ nodes[n].payload \in BOOLEAN
<1>1. nodes[n] \in NodeSet
  BY DEF NodesOK, Nodes
<1> QED
  BY <1>1 DEF NodeSet

(* Where a path leads.                                                     *)
Found == {NULL} \cup Nodes

LEMMA LookupIs ==
  ASSUME NodesOK, NEW dir \in Nodes, NEW name
  PROVE  \/ /\ ramfs_lookup(dir, name) = NULL
            /\ nodes[dir].dir => \A c \in Nodes : ~(nodes[c].parent = dir /\ nodes[c].name = name)
         \/ /\ ramfs_lookup(dir, name) \in Nodes
            /\ nodes[ramfs_lookup(dir, name)].parent = dir
            /\ nodes[ramfs_lookup(dir, name)].name = name
<1> DEFINE hits == {c \in Nodes : nodes[c].parent = dir /\ nodes[c].name = name}
<1>0. Len(nodes) \in Nat /\ hits \subseteq 1 .. Len(nodes)
  BY DEF NodesOK, Nodes
<1>1. ramfs_lookup(dir, name) = IF ~nodes[dir].dir THEN NULL ELSE IF hits = {} THEN NULL ELSE Max(hits)
  BY DEF ramfs_lookup
<1>2. hits # {} => Max(hits) \in hits
  <2> HIDE DEF hits
  <2> QED
    BY ZenonT(30), <1>0, MaxIs
<1>3. CASE ~nodes[dir].dir
  BY <1>1, <1>3
<1>4. CASE nodes[dir].dir /\ hits = {}
  BY <1>1, <1>4
<1>5. CASE nodes[dir].dir /\ hits # {}
  BY <1>1, <1>2, <1>5
<1> QED
  BY <1>3, <1>4, <1>5

(* Name by name along the chunks of a path.                                *)
IsWay(f, chunks) ==
  f = [i \in 0 .. Len(chunks) |->
         IF i = 0 THEN root_node
         ELSE IF f[i - 1] = NULL THEN NULL
         ELSE ramfs_lookup(f[i - 1], chunks[i])]

LEMMA WayExists ==
  ASSUME NodesOK, NEW chunks \in Seq(STRING)
  PROVE  \E f \in [0 .. Len(chunks) -> Found] : IsWay(f, chunks)
<1> DEFINE n == Len(chunks)
           step == [i \in 1 .. n |->
                      [v \in Found |-> IF v = NULL THEN NULL ELSE ramfs_lookup(v, chunks[i])]]
<1>1. n \in Nat /\ root_node \in Found
  BY DEF NodesOK, Found, Nodes
<1>2. step \in [1 .. n -> [Found -> Found]]
  <2>1. \A i \in 1 .. n : \A v \in Found : v # NULL => ramfs_lookup(v, chunks[i]) \in Found
    BY LookupIs, ZenonT(30) DEF Found
  <2> QED
    BY <2>1 DEF Found
<1> HIDE DEF n
<1>3. PICK f \in [0 .. n -> Found] : Follows(f, n, root_node, step)
  BY ZenonT(30), <1>1, <1>2, Recursion
<1>4. ASSUME NEW i \in 0 .. n
      PROVE  f[i] = IF i = 0 THEN root_node
                    ELSE IF f[i - 1] = NULL THEN NULL
                    ELSE ramfs_lookup(f[i - 1], chunks[i])
  <2>1. CASE i = 0
    BY <1>3, <2>1 DEF Follows
  <2>2. CASE i # 0
    <3>1. i \in 1 .. n /\ i - 1 \in 0 .. n
      BY <1>1, <2>2
    <3>2. f[i] = step[i][f[i - 1]] /\ f[i - 1] \in Found
      BY ZenonT(30), <1>3, <2>2, <3>1 DEF Follows
    <3> QED
      BY <2>2, <3>1, <3>2
  <2> QED
    BY <2>1, <2>2
<1>5. f = [i \in 0 .. n |-> f[i]]
  BY <1>3
<1>6. IsWay(f, chunks)
  BY <1>4, <1>5, ZenonT(30) DEF IsWay, n
<1> QED
  BY <1>3, <1>6 DEF n

(* Two ways that read the same names arrive at the same node.              *)
Agree(c, d, m) ==
  /\ c \in Seq(STRING) /\ d \in Seq(STRING)
  /\ m \in Nat /\ m <= Len(c) /\ m <= Len(d)
  /\ \A i \in 1 .. m : c[i] = d[i]

LEMMA SameWay ==
  ASSUME NEW c, NEW d, NEW m, Agree(c, d, m), NEW f, NEW g, IsWay(f, c), IsWay(g, d)
  PROVE  f[m] = g[m]
<1> USE DEF Agree
<1> DEFINE S == {i \in 0 .. m : f[i] = g[i]}
<1>1. 0 \in S
  BY DEF IsWay
<1>2. ASSUME NEW i \in 1 .. m, i - 1 \in S
      PROVE  i \in S
  <2>1. i \in 0 .. Len(c) /\ i \in 0 .. Len(d) /\ i # 0 /\ f[i - 1] = g[i - 1]
    BY <1>2
  <2>2. f[i] = IF f[i - 1] = NULL THEN NULL ELSE ramfs_lookup(f[i - 1], c[i])
    BY <2>1 DEF IsWay
  <2>3. g[i] = IF g[i - 1] = NULL THEN NULL ELSE ramfs_lookup(g[i - 1], d[i])
    BY SMTT(30), <2>1 DEF IsWay
  <2> QED
    BY <2>1, <2>2, <2>3
<1>3. \A i \in 1 .. m : i - 1 \in S => i \in S
  BY <1>2
<1>4. S \subseteq {i \in 0 .. m : f[i] = g[i]}
  OBVIOUS
<1> HIDE DEF S
<1>5. 0 .. m \subseteq S
  BY ZenonT(30), <1>1, <1>3, UpTo
<1> QED
  BY <1>4, <1>5

LEMMA ResolveIs ==
  ASSUME NodesOK, NEW chunks \in Seq(STRING)
  PROVE  \E f \in [0 .. Len(chunks) -> Found] : IsWay(f, chunks) /\ Resolve(chunks) = f[Len(chunks)]
<1>1. PICK g \in [0 .. Len(chunks) -> Found] : IsWay(g, chunks)
  BY WayExists
<1> DEFINE f == CHOOSE h : IsWay(h, chunks)
<1>2. IsWay(f, chunks)
  BY <1>1
<1>3. Resolve(chunks) = f[Len(chunks)]
  BY DEF Resolve, IsWay
<1> HIDE DEF f
<1>4. f[Len(chunks)] = g[Len(chunks)]
  <2>1. Agree(chunks, chunks, Len(chunks))
    BY DEF Agree
  <2> QED
    BY ZenonT(30), <1>1, <1>2, <2>1, SameWay
<1> QED
  BY <1>1, <1>3, <1>4

LEMMA ResolveFound ==
  ASSUME NodesOK, NEW chunks \in Seq(STRING)
  PROVE  Resolve(chunks) \in Found
<1>1. PICK f \in [0 .. Len(chunks) -> Found] : Resolve(chunks) = f[Len(chunks)]
  BY ZenonT(30), ResolveIs
<1>2. Len(chunks) \in 0 .. Len(chunks)
  OBVIOUS
<1> QED
  BY ZenonT(30), <1>1, <1>2

(* The beginning of a sequence.                                            *)
LEMMA SubSeqIs ==
  ASSUME NEW s, NEW m \in Nat
  PROVE  SubSeq(s, 1, m) = [i \in 1 .. m |-> s[i]]
  OBVIOUS

(* One name more is one lookup more.                                       *)
LEMMA ResolveLast ==
  ASSUME NodesOK, NEW chunks \in Seq(STRING), Len(chunks) > 0,
         NEW front, front = SubSeq(chunks, 1, Len(chunks) - 1), Resolve(front) # NULL
  PROVE  Resolve(chunks) = ramfs_lookup(Resolve(front), chunks[Len(chunks)])
<1> DEFINE n == Len(chunks)
<1>0. n \in Nat /\ n - 1 \in Nat /\ n # 0 /\ n \in 0 .. n
  OBVIOUS
<1>1. /\ front \in Seq(STRING) /\ Len(front) = n - 1 /\ \A i \in 1 .. n - 1 : chunks[i] = front[i]
      /\ n - 1 <= Len(chunks) /\ n - 1 <= Len(front)
  <2>1. \A i \in 1 .. n - 1 : chunks[i] \in STRING
    OBVIOUS
  <2>2. front = [i \in 1 .. n - 1 |-> chunks[i]]
    BY <1>0, SubSeqIs
  <2> HIDE DEF n
  <2>3. front \in [1 .. n - 1 -> STRING]
    BY ZenonT(30), <2>1, <2>2
  <2>4. front \in Seq(STRING) /\ Len(front) = n - 1
    BY <1>0, <2>3
  <2> QED
    BY <1>0, <2>2, <2>4 DEF n
<1>2. PICK f : IsWay(f, chunks) /\ Resolve(chunks) = f[n]
  BY ResolveIs
<1>3. PICK g : IsWay(g, front) /\ Resolve(front) = g[n - 1]
  BY ZenonT(30), <1>1, ResolveIs
<1>4. f[n - 1] = g[n - 1]
  <2> DEFINE m == n - 1
  <2>1. Agree(chunks, front, m)
    BY <1>0, <1>1 DEF Agree
  <2> HIDE DEF m
  <2>2. f[m] = g[m]
    BY <1>2, <1>3, <2>1, SameWay
  <2> QED
    BY <2>2 DEF m
<1>5. f[n] = IF f[n - 1] = NULL THEN NULL ELSE ramfs_lookup(f[n - 1], chunks[n])
  BY ZenonT(30), <1>0, <1>2 DEF IsWay
<1> QED
  BY <1>2, <1>3, <1>4, <1>5

----------------------------------------------------------------------------

(* The capacities double, so within `needed' turns they reach it.          *)
LEMMA CapacityIs ==
  ASSUME NEW cap \in Nat, NEW needed \in Nat
  PROVE  NewCap(cap, needed) \in Nat /\ NewCap(cap, needed) >= needed
<1> DEFINE first == IF cap = 0 THEN MinCap ELSE cap
           IsCap(f) == f = [k \in 0 .. needed |-> IF k > 0 THEN 2 * f[k - 1] ELSE first]
           new_cap == CHOOSE f : IsCap(f)
           step == [k \in 1 .. needed |-> [v \in Nat |-> 2 * v]]
<1>0. first \in Nat \ {0}
  BY RamfsAssumption
<1>1. Capacities(cap, needed) = {new_cap[k] : k \in 0 .. needed}
  BY DEF Capacities
<1>2. PICK f \in [0 .. needed -> Nat] : Follows(f, needed, first, step)
  <2>1. step \in [1 .. needed -> [Nat -> Nat]]
    OBVIOUS
  <2> HIDE DEF step, first
  <2> QED
    BY ZenonT(30), <1>0, <2>1, Recursion
<1> HIDE DEF first
<1>3. IsCap(f)
  <2>1. ASSUME NEW k \in 0 .. needed
        PROVE  f[k] = IF k > 0 THEN 2 * f[k - 1] ELSE first
    <3>1. CASE k = 0
      BY <1>2, <3>1 DEF Follows
    <3>2. CASE k # 0
      <4>1. k \in 1 .. needed /\ k - 1 \in 0 .. needed /\ k > 0
        BY <3>2
      <4>2. f[k] = step[k][f[k - 1]] /\ f[k - 1] \in Nat
        BY ZenonT(30), <1>2, <3>2, <4>1 DEF Follows
      <4> QED
        BY <4>1, <4>2
    <3> QED
      BY <3>1, <3>2
  <2>2. f = [k \in 0 .. needed |-> f[k]]
    BY <1>2
  <2> QED
    BY <2>1, <2>2, ZenonT(30)
<1>4. IsCap(new_cap)
  BY ZenonT(30), <1>3
<1> HIDE DEF new_cap
<1> DEFINE S == {k \in 0 .. needed : new_cap[k] \in Nat /\ new_cap[k] > k}
<1>5. 0 \in S
  BY <1>0, <1>4
<1>6. ASSUME NEW k \in 1 .. needed, k - 1 \in S
      PROVE  k \in S
  <2>1. k \in 0 .. needed /\ k > 0 /\ new_cap[k - 1] \in Nat /\ new_cap[k - 1] > k - 1
    BY <1>6
  <2>2. new_cap[k] = 2 * new_cap[k - 1]
    BY <1>4, <2>1
  <2> QED
    BY <2>1, <2>2
<1>7. \A k \in 1 .. needed : k - 1 \in S => k \in S
  BY <1>6
<1>8. \A k \in S : new_cap[k] \in Nat /\ new_cap[k] > k
  OBVIOUS
<1> HIDE DEF S
<1>9. 0 .. needed \subseteq S
  BY ZenonT(30), <1>5, <1>7, UpTo
<1>10. \A k \in 0 .. needed : new_cap[k] \in Nat /\ new_cap[k] > k
  BY <1>8, <1>9
<1> DEFINE C == {c \in Capacities(cap, needed) : c >= needed}
<1>11. C \subseteq Nat
  BY <1>1, <1>10
<1>12. C # {}
  <2>1. new_cap[needed] \in Capacities(cap, needed) /\ new_cap[needed] >= needed
    BY <1>1, <1>10
  <2> QED
    BY <2>1
<1>13. \A c \in C : c \in Nat /\ c >= needed
  BY <1>11
<1> HIDE DEF C
<1>14. Min(C) \in C
  BY ZenonT(30), <1>11, <1>12, MinIs
<1> QED
  BY <1>13, <1>14 DEF NewCap, C

(* The buffer after ensure_capacity.                                       *)
LEMMA GrownIs ==
  ASSUME NodesOK, NEW n \in Nodes, NEW needed \in Nat
  PROVE  /\ Grown(n, needed) \in Seq(Data) /\ Len(Grown(n, needed)) >= needed
         /\ Len(Grown(n, needed)) >= Len(nodes[n].data)
         /\ \A i \in 1 .. Len(nodes[n].data) : Grown(n, needed)[i] = nodes[n].data[i]
         /\ \A i \in Len(nodes[n].data) + 1 .. Len(Grown(n, needed)) : Grown(n, needed)[i] = 0
<1> DEFINE data == nodes[n].data
           L == NewCap(Len(data), needed)
<1>1. data \in Seq(Data) /\ Len(data) \in Nat
  BY NodeIs
<1>2. L \in Nat /\ L >= needed
  BY ZenonT(30), <1>1, CapacityIs
<1>3. Grown(n, needed) = IF needed <= Len(data) THEN data
                         ELSE [i \in 1 .. L |-> IF i <= Len(data) THEN data[i] ELSE 0]
  BY DEF Grown
<1> HIDE DEF data, L
<1>4. CASE needed <= Len(data)
  BY <1>1, <1>3, <1>4 DEF data
<1>5. CASE needed > Len(data)
  <2> DEFINE G == [i \in 1 .. L |-> IF i <= Len(data) THEN data[i] ELSE 0]
  <2>1. G \in [1 .. L -> Data]
    BY <1>1 DEF Data
  <2>2. G \in Seq(Data) /\ Len(G) = L
    BY <1>2, <2>1
  <2>3. Grown(n, needed) = G
    BY <1>1, <1>3, <1>5
  <2> QED
    BY <1>1, <1>2, <1>5, <2>2, <2>3 DEF data
<1> QED
  BY <1>1, <1>4, <1>5

----------------------------------------------------------------------------

(* The callers' paths.                                                     *)
LEMMA PathIs ==
  ASSUME NEW path \in Paths
  PROVE  /\ path.abs \in BOOLEAN /\ path.chunks \in Seq(STRING) /\ path.leaf \in Nat
         /\ Len(path.chunks) \in Nat /\ path.leaf <= Len(path.chunks)
  BY VfsAssumption

(* The directory that resolve_parent finds, and the name it is asked for.  *)
LEMMA ParentIs ==
  ASSUME NodesOK, NEW path \in Paths, resolve_parent(path) # NULL
  PROVE  /\ resolve_parent(path) \in Nodes /\ Leaf(path) \in Names
         /\ path.leaf > 0
         /\ resolve_parent(path) = Resolve(SubSeq(path.chunks, 1, Len(path.chunks) - path.leaf))
<1>1. path.leaf > 0 /\ resolve_parent(path) = Resolve(SubSeq(path.chunks, 1, Len(path.chunks) - path.leaf))
  BY DEF resolve_parent
<1> DEFINE m == Len(path.chunks) - path.leaf
           front == SubSeq(path.chunks, 1, m)
<1>2. m \in Nat /\ m + 1 \in 1 .. Len(path.chunks) /\ m <= Len(path.chunks)
  BY <1>1, PathIs
<1>3. Leaf(path) \in Names
  BY <1>2, PathIs DEF Leaf, Names
<1>4. front \in Seq(STRING)
  <2>1. front = [i \in 1 .. m |-> path.chunks[i]] /\ \A i \in 1 .. m : path.chunks[i] \in STRING
    BY <1>2, PathIs, SubSeqIs
  <2> HIDE DEF m, front
  <2>2. front \in [1 .. m -> STRING]
    BY <2>1
  <2> QED
    BY <1>2, <2>2
<1> HIDE DEF front
<1>5. Resolve(front) \in Found
  BY <1>4, ResolveFound
<1> QED
  BY <1>1, <1>3, <1>5 DEF front, Found

(* A node is added in front of the children of its parent.                 *)
LEMMA CreateKeeps ==
  ASSUME NodesOK, NEW path \in Paths, NEW dir \in BOOLEAN, Create(path, dir), root_node' = root_node
  PROVE  NodesOK' /\ Nodes \subseteq Nodes' /\ Len(nodes') \in Nodes' /\ nodes'[Len(nodes')].size = 0
<1> DEFINE P == resolve_parent(path)
           name == Leaf(path)
           L == Len(nodes)
<1>1. P \in Nodes /\ name \in Names
  BY ParentIs DEF Create, CanCreate
<1>2. PICK payload \in BOOLEAN :
        nodes' = Append(nodes, alloc_node(name, dir, P, payload)) /\ nodes[P].dir
        /\ ramfs_lookup(P, name) = NULL /\ Len(nodes) < MaxNodes
  BY DEF Create, ramfs_create, MayCreate
<1> DEFINE new == alloc_node(name, dir, P, payload)
<1>3. new \in NodeSet /\ new.size = 0 /\ new.parent = P /\ new.name = name /\ Len(new.data) = 0
  <2>1. << >> \in Seq(Data) /\ 0 \in 0 .. MaxSize /\ P \in Nat /\ (payload /\ ~dir) \in BOOLEAN
    BY <1>1, RamfsAssumption DEF Nodes
  <2> HIDE DEF P, name
  <2> QED
    BY <1>1, <2>1 DEF alloc_node, NodeSet
<1>4. \A c \in Nodes : ~(nodes[c].parent = P /\ nodes[c].name = name)
  <2>1. NULL \notin Nodes
    BY DEF NULL, Nodes
  <2> HIDE DEF P, name
  <2> QED
    BY <1>1, <1>2, <2>1, LookupIs, ZenonT(30)
<1> HIDE DEF new, P, name
<1>5. /\ L \in Nat /\ nodes' \in Seq(NodeSet) /\ Len(nodes') = L + 1
      /\ nodes'[L + 1] = new /\ \A n \in 1 .. L : nodes'[n] = nodes[n]
  BY <1>2, <1>3 DEF NodesOK, new
<1>6. Nodes = 1 .. L /\ Nodes' = 1 .. L + 1 /\ L # 0
  BY <1>1, <1>5 DEF Nodes
<1> HIDE DEF L
<1>7. \A n \in Nodes' : n \in Nodes \/ n = L + 1
  BY <1>5, <1>6
<1>8. \A n \in Nodes' : nodes'[n].size <= Len(nodes'[n].data) /\ nodes'[n].parent \in 0 .. n - 1
  <2>1. ASSUME NEW n \in Nodes
        PROVE  nodes'[n].size <= Len(nodes'[n].data) /\ nodes'[n].parent \in 0 .. n - 1
    BY SMTT(30), <1>5, <1>6 DEF NodesOK
  <2>2. new.size <= Len(new.data) /\ P \in 0 .. L + 1 - 1
    BY <1>1, <1>3, <1>5, <1>6
  <2> QED
    BY SMTT(30), <1>3, <1>5, <1>7, <2>1, <2>2
<1>9. \A n \in Nodes' \ {1} : nodes'[n].parent # 0 /\ nodes'[nodes'[n].parent].dir
  <2>1. ASSUME NEW n \in Nodes \ {1}
        PROVE  nodes'[n].parent # 0 /\ nodes'[nodes'[n].parent].dir
    <3>1. nodes[n].parent \in Nodes /\ nodes[n].parent # 0 /\ nodes[nodes[n].parent].dir
      BY SMTT(30), <1>5, <1>6 DEF NodesOK
    <3> QED
      BY <1>5, <1>6, <3>1
  <2>2. P # 0 /\ nodes'[P].dir
    BY <1>1, <1>2, <1>5, <1>6 DEF P
  <2> QED
    BY <1>3, <1>5, <1>7, <2>1, <2>2
<1>10. ASSUME NEW m \in Nodes', NEW n \in Nodes',
              nodes'[m].parent = nodes'[n].parent, nodes'[m].name = nodes'[n].name
       PROVE  m = n
  <2>1. CASE m \in Nodes /\ n \in Nodes
    BY ZenonT(30), <1>5, <1>6, <1>10, <2>1 DEF NodesOK
  <2>2. CASE m \in Nodes /\ n = L + 1
    BY <1>3, <1>4, <1>5, <1>6, <1>10, <2>2
  <2>3. CASE m = L + 1 /\ n \in Nodes
    BY <1>3, <1>4, <1>5, <1>6, <1>10, <2>3
  <2> QED
    BY <1>7, <2>1, <2>2, <2>3
<1>11. Len(nodes') <= MaxNodes /\ root_node' = IF Len(nodes') = 0 THEN NULL ELSE 1
  BY <1>2, <1>5, <1>6, RamfsAssumption DEF NodesOK, L
<1>12. NodesOK'
  BY <1>5, <1>8, <1>9, <1>10, <1>11 DEF NodesOK
<1> QED
  BY <1>3, <1>5, <1>6, <1>12

(* One element of a sequence is replaced.                                  *)
Replaces(t, s, S, i, e) == s \in Seq(S) /\ i \in 1 .. Len(s) /\ e \in S /\ t = [s EXCEPT ![i] = e]

LEMMA SetIs ==
  ASSUME NEW S, NEW s, NEW i, NEW e, NEW t, Replaces(t, s, S, i, e)
  PROVE  /\ t \in Seq(S) /\ Len(t) = Len(s) /\ t[i] = e
         /\ \A k \in 1 .. Len(s) : k # i => t[k] = s[k]
<1> USE DEF Replaces
<1>1. s \in [1 .. Len(s) -> S] /\ Len(s) \in Nat
  OBVIOUS
<1>2. t \in [1 .. Len(s) -> S]
  BY <1>1
<1>3. t \in Seq(S) /\ Len(t) = Len(s)
  BY <1>1, <1>2
<1> QED
  BY <1>1, <1>3

(* A node gets another size and another buffer.                            *)
LEMMA UpdateKeeps ==
  ASSUME NodesOK, root_node' = root_node, NEW n \in Nodes, NEW size \in 0 .. MaxSize,
         NEW data \in Seq(Data), size <= Len(data), nodes' \in Seq(NodeSet),
         Len(nodes') = Len(nodes), \A k \in Nodes \ {n} : nodes'[k] = nodes[k],
         nodes'[n] = [nodes[n] EXCEPT !.size = size, !.data = data]
  PROVE  NodesOK' /\ Nodes' = Nodes
<1>1. Nodes' = Nodes
  BY DEF Nodes
<1>2. nodes'[n].size = size /\ nodes'[n].data = data
  BY NodeIs DEF NodeSet
<1>3. \A k \in Nodes : /\ nodes'[k].parent = nodes[k].parent /\ nodes'[k].name = nodes[k].name
                       /\ nodes'[k].dir = nodes[k].dir
  BY ZenonT(30), NodeIs DEF NodeSet
<1>4. \A k \in Nodes : nodes'[k].size <= Len(nodes'[k].data)
  BY ZenonT(30), <1>2 DEF NodesOK
<1>5. \A k \in Nodes : nodes'[k].parent \in 0 .. k - 1
  BY SMTT(30), <1>3 DEF NodesOK
<1>6. ASSUME NEW k \in Nodes \ {1}
      PROVE  nodes'[k].parent # 0 /\ nodes'[nodes'[k].parent].dir
  <2>1. nodes[k].parent \in Nodes /\ nodes[k].parent # 0 /\ nodes[nodes[k].parent].dir
    BY DEF NodesOK, Nodes
  <2> QED
    BY <1>3, <2>1
<1>7. \A k, m \in Nodes :
        nodes'[k].parent = nodes'[m].parent /\ nodes'[k].name = nodes'[m].name => k = m
  BY <1>3 DEF NodesOK
<1>8. Len(nodes') <= MaxNodes /\ root_node' = IF Len(nodes') = 0 THEN NULL ELSE 1
  BY DEF NodesOK
<1> QED
  BY <1>1, <1>4, <1>5, <1>6, <1>7, <1>8 DEF NodesOK

----------------------------------------------------------------------------

(* The descriptors, what is in use, and the callers.                       *)
FdEntry == [used : BOOLEAN, node : Nat, offset : 0 .. MaxSize]

TableOK ==
  /\ fd_table \in [Fds -> FdEntry]
  /\ \A fd \in Fds : fd_table[fd].used => fd_table[fd].node \in Nodes

Used == {fd \in Fds : fd_table[fd].used}

Holds == shell.at \in {"cat", "text", "newline", "close"}

CallersOK ==
  /\ shell \in [at : {"prompt", "cat", "text", "newline", "close", "ls"}, fd : Int, path : {NoPath} \cup Paths]
  /\ client \subseteq Fds
  /\ Holds => shell.fd \in Fds \ client
  /\ shell.at = "ls" => shell.path \in Paths
  /\ Used = client \cup (IF Holds THEN {shell.fd} ELSE {})

fsInv == NodesOK /\ TableOK /\ answer.ok \in BOOLEAN

(* What a call does to the set of descriptors in use: it keeps the set, or *)
(* takes one that was free and answers with it.                            *)
Takes ==
  \/ ~answer'.ok /\ Used' = Used
  \/ /\ answer'.ok /\ answer'.data[1] \in Fds \ Used
     /\ Used' = Used \cup {answer'.data[1]}

LEMMA EntryIs ==
  ASSUME TableOK, NEW fd \in Fds
  PROVE  /\ fd_table[fd] \in FdEntry /\ fd_table[fd].used \in BOOLEAN
         /\ fd_table[fd].offset \in 0 .. MaxSize /\ fd_table[fd].node \in Nat
<1>1. fd_table[fd] \in FdEntry
  BY DEF TableOK
<1> QED
  BY <1>1 DEF FdEntry

(* One entry of the table is replaced.                                     *)
LEMMA EntryKeeps ==
  ASSUME TableOK, Nodes \subseteq Nodes', NEW fd \in Fds, NEW e \in FdEntry,
         e.used => e.node \in Nodes', fd_table' = [fd_table EXCEPT ![fd] = e]
  PROVE  /\ TableOK'
         /\ Used' = IF e.used THEN Used \cup {fd} ELSE Used \ {fd}
<1>1. fd_table' \in [Fds -> FdEntry]
  BY DEF TableOK
<1>2. fd_table'[fd] = e /\ \A k \in Fds \ {fd} : fd_table'[k] = fd_table[k]
  BY DEF TableOK
<1>3. \A k \in Fds : fd_table'[k].used => fd_table'[k].node \in Nodes'
  BY <1>2 DEF TableOK
<1>4. TableOK'
  BY <1>1, <1>3 DEF TableOK
<1> QED
  BY <1>2, <1>4 DEF Used

(* The table stays as it is.                                               *)
LEMMA TableKeeps ==
  ASSUME TableOK, Nodes \subseteq Nodes', UNCHANGED fd_table
  PROVE  TableOK' /\ Used' = Used
  BY DEF TableOK, Used

LEMMA AllocIs ==
  ASSUME FreeFds # {}
  PROVE  alloc_fd \in Fds \ Used
<1>1. FreeFds \subseteq Nat
  BY ZenonT(30), VfsAssumption DEF FreeFds
<1>2. Min(FreeFds) \in FreeFds
  BY ZenonT(30), <1>1, MinIs
<1> QED
  BY <1>2 DEF alloc_fd, FreeFds, Used

LEMMA OpenedKeeps ==
  ASSUME TableOK, Nodes \subseteq Nodes', NEW node \in Nodes', NEW size \in 0 .. MaxSize, NEW flags,
         Opened(node, size, flags), NodesOK'
  PROVE  TableOK' /\ answer'.ok \in BOOLEAN /\ Takes
<1>1. CASE FreeFds = {}
  <2>1. answer'.ok = FALSE /\ UNCHANGED fd_table
    BY <1>1 DEF Opened, Fail
  <2> QED
    BY <2>1, TableKeeps, ZenonT(30) DEF Takes
<1>2. CASE FreeFds # {}
  <2> DEFINE o == IF "append" \in flags THEN size ELSE 0
             e == [used |-> TRUE, node |-> node, offset |-> o]
  <2>1. answer'.ok = TRUE /\ answer'.data[1] = alloc_fd /\ fd_table' = [fd_table EXCEPT ![alloc_fd] = e]
    BY <1>2 DEF Opened, Ok
  <2>2. e \in FdEntry /\ e.used = TRUE /\ e.node = node
    <3>1. node \in Nat /\ o \in 0 .. MaxSize
      BY RamfsAssumption DEF Nodes
    <3> QED
      BY <3>1 DEF FdEntry
  <2> HIDE DEF e
  <2>3. TableOK' /\ Used' = Used \cup {alloc_fd}
    BY ZenonT(30), <1>2, <2>1, <2>2, AllocIs, EntryKeeps
  <2> QED
    BY <1>2, <2>1, <2>3, AllocIs, ZenonT(30) DEF Takes
<1> QED
  BY <1>1, <1>2

----------------------------------------------------------------------------

(* vfs_open finds a node or makes one, and takes a descriptor for it.      *)
LEMMA OpenKeeps ==
  ASSUME fsInv, NEW path \in Paths, NEW flags, vfs_open(path, flags)
  PROVE  fsInv' /\ Takes
<1> DEFINE node == vfs_resolve(path)
<1>0. NodesOK /\ TableOK /\ node \in Found /\ root_node' = root_node
  BY PathIs, ResolveFound DEF fsInv, vfs_open, vfs_resolve
<1>1. CASE /\ node # NULL
           /\ Opened(node, nodes[node].size, flags)
           /\ nodes' = IF "trunc" \in flags /\ FreeFds # {}
                         THEN [nodes EXCEPT ![node].size = 0]
                         ELSE nodes
  <2> HIDE DEF node
  <2>1. node \in Nodes
    BY <1>0, <1>1 DEF Found
  <2>2. nodes[node].size \in 0 .. MaxSize
    BY <1>0, <2>1, NodeIs
  <2>3. NodesOK' /\ Nodes' = Nodes
    <3>1. CASE nodes' = nodes
      BY ZenonT(30), <1>0, <3>1 DEF NodesOK, Nodes
    <3>2. CASE nodes' = [nodes EXCEPT ![node].size = 0]
      <4> DEFINE data == nodes[node].data
                 new == [nodes[node] EXCEPT !.size = 0]
      <4>1. data \in Seq(Data) /\ 0 \in 0 .. MaxSize /\ 0 <= Len(data) /\ nodes[node] \in NodeSet
        BY <1>0, <2>1, NodeIs, RamfsAssumption
      <4>2. new \in NodeSet /\ new = [nodes[node] EXCEPT !.size = 0, !.data = data]
        BY ZenonT(30), <4>1 DEF NodeSet
      <4>3. nodes' = [nodes EXCEPT ![node] = new]
        BY <3>2
      <4> HIDE DEF new, data
      <4>4. nodes' \in Seq(NodeSet) /\ Len(nodes') = Len(nodes) /\ nodes'[node] = new
            /\ \A k \in Nodes \ {node} : nodes'[k] = nodes[k]
        <5>1. nodes \in Seq(NodeSet) /\ node \in 1 .. Len(nodes)
          BY <1>0, <2>1 DEF NodesOK, Nodes
        <5>2. /\ nodes' \in Seq(NodeSet) /\ Len(nodes') = Len(nodes) /\ nodes'[node] = new
              /\ \A k \in 1 .. Len(nodes) : k # node => nodes'[k] = nodes[k]
          <6>1. Replaces(nodes', nodes, NodeSet, node, new)
            BY <4>2, <4>3, <5>1 DEF Replaces
          <6> QED
            BY <6>1, SetIs
        <5> QED
          BY <5>2 DEF Nodes
      <4> QED
        BY ZenonT(30), <1>0, <2>1, <4>1, <4>2, <4>4, UpdateKeeps
    <3> QED
      BY <1>1, <3>1, <3>2
  <2> QED
    BY <1>0, <1>1, <2>1, <2>2, <2>3, OpenedKeeps DEF fsInv
<1>2. CASE node = NULL /\ Create(path, FALSE) /\ Opened(Len(nodes'), 0, flags)
  <2>1. NodesOK' /\ Nodes \subseteq Nodes' /\ Len(nodes') \in Nodes'
    BY ZenonT(30), <1>0, <1>2, CreateKeeps
  <2> QED
    BY <1>0, <1>2, <2>1, OpenedKeeps, RamfsAssumption DEF fsInv
<1>3. CASE node = NULL /\ answer' = Fail("open") /\ UNCHANGED <<nodes, fd_table>>
  <2>1. NodesOK' /\ Nodes' = Nodes /\ answer'.ok = FALSE
    BY <1>0, <1>3 DEF NodesOK, Nodes, Fail
  <2> QED
    BY <1>0, <1>3, <2>1, TableKeeps, ZenonT(30) DEF fsInv, Takes
<1> QED
  BY ZenonT(30), <1>1, <1>2, <1>3 DEF vfs_open

(* vfs_close frees the descriptor.                                         *)
LEMMA CloseKeeps ==
  ASSUME fsInv, NEW fd \in Fds, vfs_close(fd)
  PROVE  fsInv' /\ Used' = Used \ {fd}
<1>0. NodesOK' /\ Nodes' = Nodes /\ TableOK
  BY DEF fsInv, vfs_close, NodesOK, Nodes
<1>1. CASE fd_table' = [fd_table EXCEPT ![fd] = Closed] /\ answer' = Ok("close", <<0>>)
  <2>1. Closed \in FdEntry /\ Closed.used = FALSE /\ answer'.ok = TRUE
    BY <1>1, RamfsAssumption DEF Closed, FdEntry, Ok, NULL
  <2>2. TableOK' /\ Used' = Used \ {fd}
    BY ZenonT(30), <1>0, <1>1, <2>1, EntryKeeps
  <2> QED
    BY ZenonT(30), <1>0, <2>1, <2>2 DEF fsInv
<1>2. CASE ~fd_table[fd].used /\ answer' = Fail("close") /\ UNCHANGED fd_table
  <2>1. TableOK' /\ Used' = Used /\ answer'.ok = FALSE
    BY <1>0, <1>2, TableKeeps DEF Fail
  <2>2. fd \notin Used
    BY <1>2 DEF Used
  <2> QED
    BY ZenonT(30), <1>0, <2>1, <2>2 DEF fsInv
<1> QED
  BY SMTT(30), <1>1, <1>2 DEF vfs_close

(* The offset of a descriptor in use moves within the bound of a file.     *)
LEMMA AdvanceKeeps ==
  ASSUME TableOK, Nodes \subseteq Nodes', NEW fd \in Fds, NEW n, Advance(fd, n),
         fd_table[fd].offset + n \in 0 .. MaxSize
  PROVE  TableOK' /\ Used' = Used
<1> DEFINE e == [fd_table[fd] EXCEPT !.offset = fd_table[fd].offset + n]
<1>1. fd_table[fd] \in FdEntry
  BY EntryIs
<1>2. e \in FdEntry /\ e.used = fd_table[fd].used /\ e.node = fd_table[fd].node
  BY <1>1 DEF FdEntry
<1>3. fd_table' = [fd_table EXCEPT ![fd] = e]
  BY DEF Advance
<1>4. e.used => e.node \in Nodes'
  BY <1>2 DEF TableOK
<1> HIDE DEF e
<1>5. TableOK' /\ Used' = IF e.used THEN Used \cup {fd} ELSE Used \ {fd}
  BY ZenonT(30), <1>2, <1>3, <1>4, EntryKeeps
<1>6. Used' = Used
  BY <1>2, <1>5 DEF Used
<1> QED
  BY <1>5, <1>6

(* vfs_read stops at the end of the file.                                  *)
LEMMA ReadKeeps ==
  ASSUME fsInv, NEW fd \in Fds, vfs_read(fd, ReadSize)
  PROVE  fsInv' /\ Used' = Used
<1> DEFINE n == fd_table[fd].node
           off == fd_table[fd].offset
           data == ramfs_read(n, off, ReadSize)
<1>0. NodesOK /\ TableOK /\ NodesOK' /\ Nodes' = Nodes
  BY DEF fsInv, vfs_read, NodesOK, Nodes
<1>1. CASE fd_table[fd].used /\ answer' = Ok("read", data) /\ Advance(fd, Len(data))
  <2>1. n \in Nodes /\ off \in 0 .. MaxSize
    BY <1>0, <1>1, EntryIs DEF TableOK
  <2>2. nodes[n].size \in 0 .. MaxSize /\ nodes[n].data \in Seq(Data) /\ nodes[n].size <= Len(nodes[n].data)
    BY <1>0, <2>1, NodeIs DEF NodesOK
  <2>3. off + Len(data) \in 0 .. MaxSize
    <3> HIDE DEF n, off
    <3>1. CASE off >= nodes[n].size
      BY <2>1, <3>1, RamfsAssumption DEF ramfs_read
    <3>2. CASE off < nodes[n].size
      <4> DEFINE s == nodes[n].size
                 k == IF ReadSize > s - off THEN s - off ELSE ReadSize
      <4>0. s \in Nat /\ off \in Nat /\ off < s /\ s <= Len(nodes[n].data) /\ s <= MaxSize
        BY <2>1, <2>2, <3>2, RamfsAssumption
      <4>2. data = SubSeq(nodes[n].data, off + 1, off + k)
        <5>1. ~(off >= s)
          BY <4>0
        <5> QED
          BY <5>1, ZenonT(30) DEF ramfs_read
      <4> HIDE DEF s
      <4>1. k \in Nat /\ off + k <= s
        <5>1. ReadSize \in Nat
          BY VfsAssumption
        <5>2. CASE ReadSize > s - off
          BY <4>0, <5>2
        <5>3. CASE ~(ReadSize > s - off)
          BY <4>0, <5>1, <5>3
        <5> QED
          BY <5>2, <5>3
      <4> HIDE DEF k, data
      <4>3. Len(SubSeq(nodes[n].data, off + 1, off + k)) = k
        BY <2>2, <4>0, <4>1
      <4> QED
        BY SMTT(30), <4>0, <4>1, <4>2, <4>3, RamfsAssumption
    <3> QED
      BY <2>1, <2>2, <3>1, <3>2
  <2>4. answer'.ok = TRUE
    BY <1>1 DEF Ok
  <2> HIDE DEF data
  <2> QED
    BY ZenonT(30), <1>0, <1>1, <2>3, <2>4, AdvanceKeeps DEF fsInv
<1>2. CASE answer' = Fail("read") /\ UNCHANGED fd_table
  <2>1. answer'.ok = FALSE
    BY <1>2 DEF Fail
  <2> QED
    BY ZenonT(30), <1>0, <1>2, <2>1, TableKeeps DEF fsInv
<1> QED
  BY <1>1, <1>2 DEF vfs_read

(* vfs_write grows the buffer, copies the bytes and moves the size.        *)
LEMMA WriteKeeps ==
  ASSUME fsInv, NEW fd \in Fds, NEW b \in Bytes, vfs_write(fd, <<b>>)
  PROVE  fsInv' /\ Used' = Used
<1> DEFINE n == fd_table[fd].node
           off == fd_table[fd].offset
           end == off + Len(<<b>>)
<1>0. NodesOK /\ TableOK /\ root_node' = root_node
  BY DEF fsInv, vfs_write
<1>1. CASE /\ fd_table[fd].used /\ end <= MaxSize /\ ramfs_write(n, off, <<b>>)
           /\ Advance(fd, Len(<<b>>)) /\ answer' = Ok("write", <<Len(<<b>>)>>)
  <2>1. n \in Nodes /\ off \in 0 .. MaxSize /\ end = off + 1 /\ end \in 0 .. MaxSize
    BY <1>0, <1>1, EntryIs, RamfsAssumption DEF TableOK
  <2> DEFINE data == Grown(n, end)
             written == [i \in DOMAIN data |-> IF i \in off + 1 .. end THEN <<b>>[i - off] ELSE data[i]]
             size == IF end > nodes[n].size THEN end ELSE nodes[n].size
             new == [nodes[n] EXCEPT !.size = size, !.data = written]
  <2>2. nodes' = [nodes EXCEPT ![n] = new]
    <3>1. nodes[n] \in NodeSet
      BY <1>0, <2>1, NodeIs
    <3>2. nodes' = [nodes EXCEPT ![n].data = written, ![n].size = size]
      BY SMTT(30), <1>1, <2>1, <3>1 DEF ramfs_write, NodeSet
    <3> HIDE DEF written, size, n
    <3> QED
      BY ZenonT(30), <2>1, <3>1, <3>2 DEF NodeSet
  <2> HIDE DEF n, off, end
  <2>3. /\ nodes[n] \in NodeSet /\ nodes[n].size \in 0 .. MaxSize /\ nodes[n].size <= Len(nodes[n].data)
        /\ Len(nodes[n].data) \in Nat
    BY SMTT(30), <1>0, <2>1, NodeIs DEF NodesOK
  <2>4. data \in Seq(Data) /\ Len(data) >= end /\ Len(data) >= Len(nodes[n].data)
    BY <1>0, <2>1, GrownIs, RamfsAssumption
  <2> HIDE DEF data
  <2>5. written \in Seq(Data) /\ Len(written) = Len(data)
    <3>1. DOMAIN data = 1 .. Len(data) /\ Len(data) \in Nat /\ \A i \in 1 .. Len(data) : data[i] \in Data
      BY <2>4
    <3>2. \A i \in off + 1 .. end : <<b>>[i - off] \in Data
      <4>1. \A i \in off + 1 .. end : i - off = 1
        BY <2>1
      <4> QED
        BY <4>1 DEF Data
    <3>3. written \in [1 .. Len(data) -> Data]
      BY SMTT(30), <3>1, <3>2
    <3> HIDE DEF written
    <3> QED
      BY <3>1, <3>3
  <2> HIDE DEF written
  <2>6. size \in 0 .. MaxSize /\ size <= Len(written)
    BY <2>1, <2>3, <2>4, <2>5, RamfsAssumption
  <2> HIDE DEF size
  <2>7. new \in NodeSet
    BY ZenonT(30), <2>3, <2>5, <2>6 DEF NodeSet
  <2>8. NodesOK' /\ Nodes' = Nodes
    <3>1. Replaces(nodes', nodes, NodeSet, n, new)
      <4> HIDE DEF new
      <4> QED
        BY SMTT(30), <1>0, <2>1, <2>2, <2>7 DEF Replaces, NodesOK, Nodes
    <3>2. /\ nodes' \in Seq(NodeSet) /\ Len(nodes') = Len(nodes) /\ nodes'[n] = new
          /\ \A k \in 1 .. Len(nodes) : k # n => nodes'[k] = nodes[k]
      <4> HIDE DEF new
      <4> QED
        BY <3>1, SetIs
    <3>3. \A k \in Nodes \ {n} : nodes'[k] = nodes[k]
      BY <3>2 DEF Nodes
    <3> QED
      BY ZenonT(30), <1>0, <2>1, <2>5, <2>6, <3>2, <3>3, UpdateKeeps
  <2>9. answer'.ok = TRUE
    BY <1>1 DEF Ok
  <2>10. off + Len(<<b>>) \in 0 .. MaxSize
    BY <2>1 DEF end
  <2>11. TableOK' /\ Used' = Used
    <3>1. fd_table[fd].offset + Len(<<b>>) \in 0 .. MaxSize
      BY <2>10 DEF off
    <3> QED
      BY SMTT(30), <1>0, <1>1, <2>8, <3>1, AdvanceKeeps
  <2> QED
    BY ZenonT(30), <2>8, <2>9, <2>11 DEF fsInv
<1>2. CASE answer' = Fail("write") /\ UNCHANGED <<nodes, fd_table>>
  <2>1. answer'.ok = FALSE /\ NodesOK' /\ Nodes' = Nodes
    BY SMTT(30), <1>0, <1>2 DEF Fail, NodesOK, Nodes
  <2> QED
    BY ZenonT(30), <1>0, <1>2, <2>1, TableKeeps DEF fsInv
<1> QED
  BY <1>1, <1>2 DEF vfs_write

(* vfs_mkdir and vfs_create_file.                                          *)
LEMMA MakeKeeps ==
  ASSUME fsInv, NEW path \in Paths, NEW dir \in BOOLEAN, Make(path, dir)
  PROVE  fsInv' /\ Used' = Used
<1>0. NodesOK /\ TableOK /\ root_node' = root_node /\ UNCHANGED fd_table
  BY DEF fsInv, Make
<1>1. CASE Create(path, dir) /\ answer' = Ok("make", <<0>>)
  <2>1. NodesOK' /\ Nodes \subseteq Nodes' /\ answer'.ok = TRUE
    BY <1>0, <1>1, CreateKeeps DEF Ok
  <2> QED
    BY ZenonT(30), <1>0, <2>1, TableKeeps DEF fsInv
<1>2. CASE answer' = Fail("make") /\ UNCHANGED nodes
  <2>1. NodesOK' /\ Nodes' = Nodes /\ answer'.ok = FALSE
    BY <1>0, <1>2 DEF Fail, NodesOK, Nodes
  <2> QED
    BY ZenonT(30), <1>0, <2>1, TableKeeps DEF fsInv
<1> QED
  BY <1>1, <1>2 DEF Make

----------------------------------------------------------------------------

(* The callers' side of a call: the descriptors in use stay those that the *)
(* callers have.                                                           *)
LEMMA ShellOpens ==
  ASSUME CallersOK, shell = Prompt, Takes, UNCHANGED client, NEW place \in {"cat", "text"},
         shell' = IF answer'.ok THEN At(place, answer'.data[1]) ELSE Prompt
  PROVE  CallersOK'
<1>0. shell.at = "prompt" /\ Used = client /\ client \subseteq Fds
  BY DEF CallersOK, Holds, Prompt, At
<1>1. CASE ~answer'.ok /\ Used' = Used
  <2>1. shell' = shell
    BY SMTT(30), <1>1
  <2> QED
    BY <1>1, <2>1 DEF CallersOK, Holds
<1>2. CASE answer'.ok /\ answer'.data[1] \in Fds \ Used /\ Used' = Used \cup {answer'.data[1]}
  <2> DEFINE fd == answer'.data[1]
  <2>0. fd \in Int
    <3>1. \A k \in Fds : k \in Int
      BY VfsAssumption
    <3> QED
      BY <1>2, <3>1, ZenonT(30)
  <2>1. shell' = [at |-> place, fd |-> fd, path |-> NoPath] /\ fd \in Fds \ client /\ fd \in Int
    BY <1>0, <1>2, <2>0, ZenonT(30) DEF At
  <2>2. Used' = client \cup {fd}
    BY SMTT(30), <1>0, <1>2
  <2> HIDE DEF fd
  <2>3. Holds' /\ shell'.fd = fd /\ shell'.at # "ls"
    BY <2>1 DEF Holds
  <2>4. shell' \in [at : {"prompt", "cat", "text", "newline", "close", "ls"}, fd : Int, path : {NoPath} \cup Paths]
    BY <2>1
  <2> QED
    BY <1>0, <2>1, <2>2, <2>3, <2>4 DEF CallersOK
<1> QED
  BY <1>1, <1>2 DEF Takes

LEMMA ShellGoesOn ==
  ASSUME CallersOK, Holds, Used' = Used, UNCHANGED client,
         NEW place \in {"cat", "newline", "close"}, shell' = [shell EXCEPT !.at = place]
  PROVE  CallersOK'
<1>1. shell' \in [at : {"prompt", "cat", "text", "newline", "close", "ls"}, fd : Int, path : {NoPath} \cup Paths]
  BY DEF CallersOK
<1>2. shell'.at = place /\ shell'.fd = shell.fd
  BY DEF CallersOK
<1>3. Holds' /\ shell'.at # "ls"
  BY <1>2 DEF Holds
<1> QED
  BY <1>1, <1>2, <1>3 DEF CallersOK

LEMMA ShellReturnsIt ==
  ASSUME CallersOK, Holds, Used' = Used \ {shell.fd}, UNCHANGED client, shell' = Prompt
  PROVE  CallersOK'
<1>1. shell' \in [at : {"prompt", "cat", "text", "newline", "close", "ls"}, fd : Int, path : {NoPath} \cup Paths]
  BY DEF Prompt, At
<1>2. ~Holds' /\ shell'.at # "ls"
  BY DEF Prompt, At, Holds
<1> QED
  BY <1>1, <1>2 DEF CallersOK

LEMMA ShellLists ==
  ASSUME CallersOK, ~Holds, Used' = Used, UNCHANGED client,
         \/ shell' = Prompt \/ shell' = shell
         \/ \E fd \in Int, path \in Paths : shell' = [at |-> "ls", fd |-> fd, path |-> path]
  PROVE  CallersOK'
<1>1. shell' \in [at : {"prompt", "cat", "text", "newline", "close", "ls"}, fd : Int, path : {NoPath} \cup Paths]
  BY DEF Prompt, At, CallersOK
<1>2. ~Holds'
  BY DEF Prompt, At, Holds
<1>3. shell'.at = "ls" => shell'.path \in Paths
  BY DEF Prompt, At, CallersOK
<1> QED
  BY <1>1, <1>2, <1>3 DEF CallersOK

LEMMA ClientCalls ==
  ASSUME CallersOK, UNCHANGED shell,
         \/ UNCHANGED client /\ Used' = Used
         \/ \E fd \in Fds \ Used : client' = client \cup {fd} /\ Used' = Used \cup {fd}
         \/ \E fd \in Fds : /\ Holds => fd # shell.fd
                            /\ client' = client \ {fd} /\ Used' = Used \ {fd}
  PROVE  CallersOK'
<1>0. Holds' = Holds
  BY DEF Holds
<1>1. CASE UNCHANGED client /\ Used' = Used
  BY <1>0, <1>1 DEF CallersOK
<1>2. ASSUME NEW fd \in Fds \ Used, client' = client \cup {fd}, Used' = Used \cup {fd}
      PROVE  CallersOK'
  BY <1>0, <1>2 DEF CallersOK
<1>3. ASSUME NEW fd \in Fds, Holds => fd # shell.fd, client' = client \ {fd}, Used' = Used \ {fd}
      PROVE  CallersOK'
  BY <1>0, <1>3 DEF CallersOK
<1> QED
  BY <1>1, <1>2, <1>3

----------------------------------------------------------------------------

LEMMA VfsInit == Init => fsInv /\ CallersOK
<1> SUFFICES ASSUME Init PROVE fsInv /\ CallersOK
  OBVIOUS
<1>1. nodes = << >> /\ Len(nodes) = 0 /\ Nodes = {}
  BY DEF Init, Nodes
<1>2. NodesOK
  <2>1. nodes \in Seq(NodeSet) /\ Len(nodes) <= MaxNodes /\ root_node = IF Len(nodes) = 0 THEN NULL ELSE 1
    BY <1>1, RamfsAssumption DEF Init
  <2> QED
    BY <1>1, <2>1, ZenonT(30) DEF NodesOK
<1>3. Closed \in FdEntry /\ Closed.used = FALSE
  BY RamfsAssumption DEF Closed, FdEntry, NULL
<1>4. fd_table \in [Fds -> FdEntry] /\ \A fd \in Fds : fd_table[fd].used = FALSE
  BY <1>3 DEF Init
<1>5. TableOK /\ Used = {}
  BY <1>4 DEF TableOK, Used
<1>6. shell \in [at : {"prompt", "cat", "text", "newline", "close", "ls"}, fd : Int, path : {NoPath} \cup Paths]
      /\ ~Holds /\ shell.at # "ls"
  BY DEF Init, Prompt, At, Holds
<1>7. answer.ok \in BOOLEAN
  BY DEF Init, Fail
<1> QED
  BY <1>2, <1>5, <1>6, <1>7 DEF fsInv, CallersOK, Init

(* ramfs_init makes the root, the directory and the file in it.            *)
LEMMA FormatKeeps ==
  ASSUME fsInv, CallersOK, ramfs_init
  PROVE  fsInv' /\ CallersOK'
<1> DEFINE text == Default.text
           cap == NewCap(0, Len(text))
           data == [i \in 1 .. cap |-> IF i <= Len(text) THEN text[i] ELSE 0]
           root == alloc_node("/", TRUE, NULL, FALSE)
           bin == alloc_node(Default.dir, TRUE, 1, FALSE)
           file == [alloc_node(Default.file, FALSE, 2, TRUE) EXCEPT !.size = Len(text), !.data = data]
<1>1. nodes' = <<root, bin, file>> /\ root_node' = 1 /\ root_node = NULL
      /\ UNCHANGED <<fd_table, answer, shell, client>>
  BY DEF ramfs_init
<1>2. /\ Default.dir \in Names /\ Default.file \in Names /\ text \in Seq(Bytes)
      /\ Len(text) \in 0 .. MaxSize /\ MaxNodes >= 3 /\ MaxNodes \in Nat /\ MaxSize \in Nat
  BY VfsAssumption, RamfsAssumption DEF Names
<1>3. cap \in Nat /\ cap >= Len(text)
  <2>1. 0 \in Nat /\ Len(text) \in Nat
    BY <1>2
  <2> HIDE DEF text
  <2> QED
    BY <2>1, CapacityIs
<1>4. data \in Seq(Data) /\ Len(data) = cap
  <2>1. \A i \in 1 .. Len(text) : text[i] \in Data
    BY <1>2 DEF Data
  <2>2. data \in [1 .. cap -> Data]
    <3> HIDE DEF text, cap
    <3> QED
      BY <1>2, <1>3, <2>1 DEF Data
  <2> HIDE DEF data, cap
  <2> QED
    BY <1>3, <2>2
<1>5. /\ root \in NodeSet /\ root.parent = 0 /\ root.name = "/" /\ root.dir = TRUE
      /\ root.size = 0 /\ root.data = << >>
  <2>1. root = [name |-> "/", dir |-> TRUE, parent |-> 0, size |-> 0, payload |-> FALSE, data |-> << >>]
    BY ZenonT(30) DEF alloc_node, NULL
  <2>2. "/" \in Names /\ 0 \in Nat /\ 0 \in 0 .. MaxSize /\ << >> \in Seq(Data)
    BY <1>2 DEF Names
  <2> HIDE DEF root
  <2>3. root \in NodeSet
    BY <2>1, <2>2 DEF NodeSet
  <2> QED
    BY SMTT(30), <2>1, <2>3
<1>6. /\ bin \in NodeSet /\ bin.parent = 1 /\ bin.dir = TRUE /\ bin.size = 0 /\ bin.data = << >>
  BY <1>2 DEF alloc_node, NodeSet
<1>7. /\ file \in NodeSet /\ file.parent = 2 /\ file.size = Len(text) /\ file.data = data
  <2> HIDE DEF data, text
  <2> QED
    BY ZenonT(30), <1>2, <1>4 DEF alloc_node, NodeSet
<1> HIDE DEF root, bin, file, data, cap, text
<1>8. /\ nodes' \in Seq(NodeSet) /\ Len(nodes') = 3
      /\ nodes'[1] = root /\ nodes'[2] = bin /\ nodes'[3] = file
  BY <1>1, <1>5, <1>6, <1>7
<1>9. Nodes' = 1 .. 3 /\ Nodes' = {1, 2, 3} /\ Nodes = {}
  BY <1>1, <1>8 DEF Nodes, fsInv, NodesOK, NULL
<1>10. \A n \in Nodes' : nodes'[n].size <= Len(nodes'[n].data)
  <2>1. root.size <= Len(root.data) /\ bin.size <= Len(bin.data) /\ file.size <= Len(file.data)
    BY SMTT(30), <1>2, <1>3, <1>4, <1>5, <1>6, <1>7
  <2> QED
    BY <1>8, <1>9, <2>1, ZenonT(30)
<1>11. \A n \in Nodes' : nodes'[n].parent \in 0 .. n - 1
  BY SMTT(30), <1>5, <1>6, <1>7, <1>8, <1>9
<1>12. \A n \in Nodes' \ {1} : nodes'[n].parent # 0 /\ nodes'[nodes'[n].parent].dir
  BY SMTT(30), <1>5, <1>6, <1>7, <1>8, <1>9
<1>13. \A m, n \in Nodes' : nodes'[m].parent = nodes'[n].parent /\ nodes'[m].name = nodes'[n].name => m = n
  BY SMTT(30), <1>5, <1>6, <1>7, <1>8, <1>9
<1>14. NodesOK'
  <2>1. Len(nodes') <= MaxNodes /\ root_node' = IF Len(nodes') = 0 THEN NULL ELSE 1
    BY <1>1, <1>2, <1>8
  <2> QED
    BY <1>8, <1>10, <1>11, <1>12, <1>13, <2>1, ZenonT(30) DEF NodesOK
<1>15. TableOK' /\ Used' = Used /\ answer'.ok \in BOOLEAN
  BY SMTT(30), <1>1, <1>9, TableKeeps DEF fsInv
<1> QED
  BY <1>1, <1>14, <1>15, ClientCalls DEF fsInv

LEMMA VfsStep ==
  ASSUME fsInv, CallersOK, [Next]_vars
  PROVE  fsInv' /\ CallersOK'
<1>0. CASE UNCHANGED vars
  BY <1>0 DEF vars, fsVars, fsInv, CallersOK, NodesOK, TableOK, Nodes, Used, Holds
<1>1. CASE ramfs_init
  BY <1>1, FormatKeeps
<1>2. CASE CatRead
  <2>1. Holds /\ shell.fd \in Fds
    BY <1>2 DEF CatRead, Holds, CallersOK
  <2>2. fsInv' /\ Used' = Used
    BY <1>2, <2>1, ReadKeeps DEF CatRead
  <2>3. \E place \in {"cat", "close"} : shell' = [shell EXCEPT !.at = place]
    BY <1>2 DEF CatRead, CallersOK
  <2> QED
    BY SMTT(30), <1>2, <2>1, <2>2, <2>3, ShellGoesOn DEF CatRead
<1>3. CASE WriteText
  <2>1. Holds /\ shell.fd \in Fds
    BY <1>3 DEF WriteText, Holds, CallersOK
  <2>2. fsInv' /\ Used' = Used
    BY <1>3, <2>1, WriteKeeps DEF WriteText
  <2> QED
    BY <1>3, <2>1, <2>2, ShellGoesOn DEF WriteText
<1>4. CASE WriteNewline
  <2>1. Holds /\ shell.fd \in Fds /\ Newline \in Bytes
    BY <1>4, VfsAssumption DEF WriteNewline, Holds, CallersOK
  <2>2. fsInv' /\ Used' = Used
    BY <1>4, <2>1, WriteKeeps DEF WriteNewline
  <2> QED
    BY <1>4, <2>1, <2>2, ShellGoesOn DEF WriteNewline
<1>5. CASE ShellClose
  <2>1. Holds /\ shell.fd \in Fds
    BY <1>5 DEF ShellClose, Holds, CallersOK
  <2>2. fsInv' /\ Used' = Used \ {shell.fd}
    BY <1>5, <2>1, CloseKeeps DEF ShellClose
  <2> QED
    BY SMTT(30), <1>5, <2>1, <2>2, ShellReturnsIt DEF ShellClose
<1>6. CASE LsNext
  <2>1. ~Holds /\ shell.path \in Paths /\ shell.fd \in Int
    BY SMTT(30), <1>6 DEF LsNext, Holds, CallersOK
  <2>2. fsInv' /\ Used' = Used
    <3>1. UNCHANGED <<nodes, root_node, fd_table>> /\ answer'.ok \in BOOLEAN
      BY <1>6 DEF LsNext, vfs_readdir, Fail, Ok
    <3> QED
      BY <3>1 DEF fsInv, NodesOK, TableOK, Nodes, Used
  <2>3. shell' = Prompt \/ shell' = [at |-> "ls", fd |-> shell.fd + 1, path |-> shell.path]
    BY <1>6 DEF LsNext, CallersOK
  <2> QED
    BY <1>6, <2>1, <2>2, <2>3, ShellLists DEF LsNext
<1>7. ASSUME NEW path \in Paths, cmd_cat(path) PROVE fsInv' /\ CallersOK'
  <2>1. fsInv' /\ Takes
    BY <1>7, OpenKeeps DEF cmd_cat
  <2> QED
    BY <1>7, <2>1, ShellOpens DEF cmd_cat
<1>8. ASSUME NEW path \in Paths, cmd_write(path) PROVE fsInv' /\ CallersOK'
  <2>1. fsInv' /\ Takes
    BY <1>8, OpenKeeps DEF cmd_write
  <2> QED
    BY <1>8, <2>1, ShellOpens DEF cmd_write
<1>9. ASSUME NEW path \in Paths, cmd_ls(path) PROVE fsInv' /\ CallersOK'
  <2>1. ~Holds /\ UNCHANGED <<fsVars, client>> /\ shell' = [at |-> "ls", fd |-> 0, path |-> path]
    BY SMTT(30), <1>9 DEF cmd_ls, Holds, Prompt, At
  <2>2. fsInv' /\ Used' = Used
    BY <2>1 DEF fsVars, fsInv, NodesOK, TableOK, Nodes, Used
  <2> QED
    BY SMTT(30), <2>1, <2>2, ShellLists
<1>10. ASSUME NEW path \in Paths, NEW dir \in BOOLEAN, cmd_make(path, dir) PROVE fsInv' /\ CallersOK'
  <2>1. ~Holds /\ shell' = shell /\ client' = client
    BY <1>10 DEF cmd_make, Holds, Prompt, At
  <2>2. fsInv' /\ Used' = Used
    BY SMTT(30), <1>10, MakeKeeps DEF cmd_make
  <2> QED
    BY <2>1, <2>2, ShellLists
<1>11. CASE ClientOpen /\ UNCHANGED shell
  <2>1. fsInv' /\ Takes
    BY SMTT(30), <1>11, OpenKeeps DEF ClientOpen
  <2>2. CASE ~answer'.ok /\ Used' = Used
    BY SMTT(30), <1>11, <2>1, <2>2, ClientCalls DEF ClientOpen
  <2>3. CASE answer'.ok /\ answer'.data[1] \in Fds \ Used /\ Used' = Used \cup {answer'.data[1]}
    BY SMTT(30), <1>11, <2>1, <2>3, ClientCalls DEF ClientOpen
  <2> QED
    BY <2>1, <2>2, <2>3 DEF Takes
<1>12. CASE ClientCall /\ UNCHANGED shell
  <2>1. PICK fd \in Fds :
          /\ fd # shell.fd \/ shell.at = "ls"
          /\ \/ vfs_close(fd) /\ client' = client \ {fd}
             \/ vfs_read(fd, ReadSize) /\ UNCHANGED client
             \/ \E b \in Bytes : vfs_write(fd, <<b>>) /\ UNCHANGED client
    BY <1>12 DEF ClientCall
  <2>2. CASE vfs_close(fd) /\ client' = client \ {fd}
    <3>1. Holds => fd # shell.fd
      BY <2>1 DEF Holds
    <3>2. fsInv' /\ Used' = Used \ {fd}
      BY SMTT(30), <2>2, CloseKeeps
    <3> QED
      BY <1>12, <2>2, <3>1, <3>2, ClientCalls
  <2>3. CASE vfs_read(fd, ReadSize) /\ UNCHANGED client
    BY SMTT(30), <1>12, <2>3, ReadKeeps, ClientCalls
  <2>4. ASSUME NEW b \in Bytes, vfs_write(fd, <<b>>), UNCHANGED client PROVE fsInv' /\ CallersOK'
    BY <1>12, <2>4, WriteKeeps, ClientCalls
  <2> QED
    BY ZenonT(30), <2>1, <2>2, <2>3, <2>4
<1> QED
  BY SMTT(30), <1>0, <1>1, <1>2, <1>3, <1>4, <1>5, <1>6, <1>7, <1>8, <1>9, <1>10, <1>11, <1>12
     DEF Next, ShellStep, Command, Client

LEMMA VfsInvariant == Spec => [](fsInv /\ CallersOK)
<1>1. fsInv /\ CallersOK /\ [Next]_vars => (fsInv /\ CallersOK)'
  BY VfsStep
<1> QED
  BY <1>1, VfsInit, PTL DEF Spec

(* Whatever the sizes of tables, buffers and files, and whatever the two   *)
(* callers ask for, every variable stays in its range and no file is       *)
(* longer than its buffer (ramfs.c:70-116, vfs.c:26-31, 122-171).          *)
THEOREM VfsTypes == Spec => []TypeOK
<1>1. ASSUME fsInv, CallersOK PROVE TypeOK
  <2>1. NodesOK /\ TableOK
    BY <1>1 DEF fsInv
  <2>2. root_node \in {NULL, 1} /\ Len(nodes) <= MaxNodes
    BY <2>1 DEF NodesOK
  <2>3. ASSUME NEW n \in Nodes
        PROVE  /\ nodes[n].dir \in BOOLEAN /\ nodes[n].payload \in BOOLEAN
               /\ nodes[n].parent \in 0 .. n - 1
               /\ nodes[n].data \in Seq(Bytes \cup {0})
               /\ nodes[n].size \in 0 .. Len(nodes[n].data)
    <3>1. /\ nodes[n].data \in Seq(Data) /\ nodes[n].dir \in BOOLEAN /\ nodes[n].payload \in BOOLEAN
          /\ nodes[n].size \in 0 .. MaxSize /\ Len(nodes[n].data) \in Nat
      BY SMTT(30), <2>1, NodeIs
    <3>2. nodes[n].parent \in 0 .. n - 1 /\ nodes[n].size <= Len(nodes[n].data)
      BY <2>1 DEF NodesOK
    <3>3. nodes[n].size \in 0 .. Len(nodes[n].data)
      BY SMTT(30), <3>1, <3>2, RamfsAssumption
    <3> QED
      BY SMTT(30), <3>1, <3>2, <3>3 DEF Data
  <2>4. \A fd \in Fds : /\ fd_table[fd].offset \in 0 .. MaxSize
                        /\ fd_table[fd].used => fd_table[fd].node \in Nodes
    BY <2>1, EntryIs DEF TableOK
  <2>5. /\ answer.ok \in BOOLEAN /\ client \subseteq Fds
        /\ shell.at \in {"prompt", "cat", "text", "newline", "close", "ls"}
    BY <1>1 DEF fsInv, CallersOK
  <2> QED
    BY <2>2, <2>3, <2>4, <2>5 DEF TypeOK
<1> QED
  BY <1>1, VfsInvariant, PTL

(* However the commands of the shell and the calls of the kernel client    *)
(* interleave, a descriptor is in use exactly while one of them has it     *)
(* (vfs.c:26-31, 130-136, 145-150; shell.c:273-289, 339-349).              *)
THEOREM DescriptorsOwned == Spec => []DescriptorsReturned
<1>1. ASSUME CallersOK PROVE DescriptorsReturned
  <2>1. Holds = (shell.at \notin {"prompt", "ls"})
    BY <1>1 DEF CallersOK, Holds
  <2>2. Used = client \cup (IF Holds THEN {shell.fd} ELSE {})
    BY <1>1 DEF CallersOK
  <2> QED
    BY ZenonT(30), <2>1, <2>2 DEF DescriptorsReturned, Used
<1> QED
  BY <1>1, VfsInvariant, PTL

----------------------------------------------------------------------------

(* Younger siblings of a node, and the entry that ramfs_readdir counts.    *)
Newer(dir, c) == {d \in c + 1 .. Len(nodes) : nodes[d].parent = dir}

LEMMA NewerIs ==
  ASSUME NodesOK, NEW dir, NEW c \in Nodes
  PROVE  IsFiniteSet(Newer(dir, c)) /\ Cardinality(Newer(dir, c)) \in 0 .. Len(nodes)
<1>1. nodes \in Seq(NodeSet) /\ Len(nodes) \in Nat /\ Newer(dir, c) \subseteq 1 .. Len(nodes)
  BY DEF NodesOK, Nodes, Newer
<1>2. IsFiniteSet(1 .. Len(nodes)) /\ Cardinality(1 .. Len(nodes)) = Len(nodes)
  <2>1. /\ IsFiniteSet(1 .. Len(nodes))
        /\ Cardinality(1 .. Len(nodes)) = IF 1 > Len(nodes) THEN 0 ELSE Len(nodes) - 1 + 1
    BY SMTT(30), <1>1, FS_Interval
  <2> QED
    BY <1>1, <2>1
<1>3. IsFiniteSet(Newer(dir, c)) /\ Cardinality(Newer(dir, c)) <= Len(nodes)
  BY <1>1, <1>2, FS_Subset
<1> QED
  BY <1>1, <1>3, FS_CardinalityType

(* Of two children the older has more younger siblings.                    *)
LEMMA NewerCount ==
  ASSUME NodesOK, NEW dir, NEW c \in Nodes, NEW d \in Nodes, nodes[d].parent = dir, c < d
  PROVE  Cardinality(Newer(dir, d)) < Cardinality(Newer(dir, c))
<1>1. Newer(dir, d) \subseteq Newer(dir, c) /\ d \in Newer(dir, c) /\ d \notin Newer(dir, d)
  BY DEF Newer, Nodes, NodesOK
<1>2. Newer(dir, d) # Newer(dir, c) /\ IsFiniteSet(Newer(dir, c))
  BY <1>1, NewerIs
<1>3. Cardinality(Newer(dir, d)) \in Nat /\ Cardinality(Newer(dir, c)) \in Nat
  BY SMTT(30), NewerIs
<1>4. /\ Cardinality(Newer(dir, d)) <= Cardinality(Newer(dir, c))
      /\ Cardinality(Newer(dir, d)) # Cardinality(Newer(dir, c))
  BY SMTT(30), <1>1, <1>2, FS_Subset
<1> QED
  BY <1>3, <1>4

(* A directory lists every child of it.                                    *)
LEMMA ReaddirIs ==
  ASSUME NodesOK, NEW n \in Nodes, NEW dir, dir = nodes[n].parent, nodes[dir].dir
  PROVE  \E i \in 0 .. Len(nodes) : ramfs_readdir(dir, i) = n
<1> DEFINE i == Cardinality(Newer(dir, n))
           hits == {c \in Nodes : nodes[c].parent = dir /\ Cardinality(Newer(dir, c)) = i}
<1>1. i \in 0 .. Len(nodes)
  BY NewerIs
<1>2. ramfs_readdir(dir, i) = IF nodes[dir].dir /\ hits # {} THEN CHOOSE c \in hits : TRUE ELSE NULL
  BY ZenonT(30) DEF ramfs_readdir, Newer
<1>3. n \in hits
  BY SMTT(30)
<1>4. ASSUME NEW c \in hits
      PROVE  c = n
  <2>1. c \in Nodes /\ nodes[c].parent = dir /\ Cardinality(Newer(dir, c)) = i
    BY SMTT(30), <1>4
  <2>2. ~(c < n)
    <3>1. c < n => i < Cardinality(Newer(dir, c))
      BY SMTT(30), <2>1, NewerCount
    <3> HIDE DEF i
    <3> QED
      BY SMTT(30), <1>1, <2>1, <3>1 DEF NodesOK
  <2>3. ~(n < c)
    <3>1. n < c => Cardinality(Newer(dir, c)) < i
      BY <2>1, NewerCount
    <3> HIDE DEF i
    <3> QED
      BY SMTT(30), <1>1, <2>1, <3>1 DEF NodesOK
  <2> QED
    BY SMTT(30), <2>1, <2>2, <2>3 DEF Nodes
<1> HIDE DEF i
<1>5. hits = {n}
  BY <1>3, <1>4, ZenonT(30)
<1> HIDE DEF hits
<1>6. ramfs_readdir(dir, i) = n
  BY <1>2, <1>5
<1> QED
  BY SMTT(30), <1>1, <1>6

(* Whatever was created, by whichever caller, is found and listed under    *)
(* its name for good, no node hides another, and vfs_resolve and           *)
(* resolve_parent read a path of names that fit alike (vfs.c:39-51,        *)
(* 73-118; ramfs.c:118-153).                                               *)
THEOREM NodesFound == Spec => []CreatedIsFound
<1>1. ASSUME NodesOK PROVE CreatedIsFound
  <2>1. ASSUME NEW n \in Nodes \ {1}
        PROVE  /\ ramfs_lookup(nodes[n].parent, nodes[n].name) = n
               /\ \E i \in 0 .. Len(nodes) : ramfs_readdir(nodes[n].parent, i) = n
    <3> DEFINE parent == nodes[n].parent
               found == ramfs_lookup(parent, nodes[n].name)
    <3>1. parent \in Nodes /\ nodes[parent].dir
      BY SMTT(30), <1>1 DEF NodesOK, Nodes
    <3>2. found \in Nodes /\ nodes[found].parent = parent /\ nodes[found].name = nodes[n].name
      <4>1. n \in Nodes /\ nodes[n].parent = parent
        BY SMTT(30)
      <4> HIDE DEF parent
      <4> QED
        BY <1>1, <3>1, <4>1, LookupIs
    <3>3. found = n
      <4> HIDE DEF found
      <4> QED
        BY <1>1, <3>2 DEF NodesOK
    <3> QED
      BY SMTT(30), <1>1, <3>1, <3>3, ReaddirIs
  <2>2. ASSUME NEW path \in Paths, path.leaf = 1, resolve_parent(path) # NULL
        PROVE  vfs_resolve(path) = ramfs_lookup(resolve_parent(path), Leaf(path))
    <3> DEFINE chunks == path.chunks
               front == SubSeq(chunks, 1, Len(chunks) - 1)
    <3>1. chunks \in Seq(STRING) /\ Len(chunks) \in Nat /\ Len(chunks) > 0
      BY SMTT(30), <2>2, PathIs
    <3>2. resolve_parent(path) = Resolve(front)
      BY SMTT(30), <1>1, <2>2, ParentIs
    <3>3. Leaf(path) = chunks[Len(chunks)]
      BY <2>2, <3>1 DEF Leaf
    <3>4. Resolve(chunks) = ramfs_lookup(Resolve(front), chunks[Len(chunks)])
      <4> HIDE DEF chunks, front
      <4> QED
        BY ZenonT(30), <1>1, <2>2, <3>1, <3>2, ResolveLast DEF front
    <3> QED
      BY <3>2, <3>3, <3>4 DEF vfs_resolve
  <2> QED
    BY <2>1, <2>2, ZenonT(30) DEF CreatedIsFound
<1>2. fsInv => CreatedIsFound
  BY <1>1 DEF fsInv
<1> QED
  BY <1>2, VfsInvariant, PTL

=============================================================================
