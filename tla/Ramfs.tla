------------------------------- MODULE Ramfs -------------------------------
(* The RAM file system (kernel/fs/ramfs.c): nodes with a name and a parent *)
(* directory, and for a file a buffer from the heap that grows by doubling.*)
(* The inode number of a node is its place in `nodes`; as children are put *)
(* in front of the list of their directory, that list runs from the newest *)
(* node to the oldest.  The heap may refuse any allocation.                *)
EXTENDS Integers, Sequences, FiniteSets, FiniteSetsExt

CONSTANTS
  Bytes,     \* the values of a byte that callers write
  MinCap,    \* the first capacity of a buffer
  MaxSize,   \* bound on the size of a file
  MaxNodes   \* bound on the number of nodes

ASSUME RamfsAssumption ==
  /\ MinCap \in Nat \ {0}
  /\ MaxSize \in Nat
  /\ MaxNodes \in Nat

VARIABLE nodes   \* of [name, dir, parent, size, payload, data]

NULL == 0

Nodes == 1 .. Len(nodes)

(* alloc_node, linked into directory parent by ramfs_create.  Without the  *)
(* memory for the payload the node of a file is made all the same.         *)
alloc_node(name, dir, parent, payload) ==
  [name |-> name, dir |-> dir, parent |-> parent, size |-> 0,
   payload |-> payload /\ ~dir, data |-> << >>]

ramfs_lookup(dir, name) ==
  IF ~nodes[dir].dir THEN NULL
  ELSE LET hits == {c \in Nodes : nodes[c].parent = dir /\ nodes[c].name = name}
       IN  IF hits = {} THEN NULL ELSE Max(hits)

(* Entry number index of a directory, counted from 0: the child with that  *)
(* many newer siblings.                                                    *)
ramfs_readdir(dir, index) ==
  LET newer(c) == {d \in c + 1 .. Len(nodes) : nodes[d].parent = dir}
      hits == {c \in Nodes : nodes[c].parent = dir /\ Cardinality(newer(c)) = index}
  IN  IF nodes[dir].dir /\ hits # {} THEN CHOOSE c \in hits : TRUE ELSE NULL

(* ramfs_create may add a child called name.                               *)
CreatesAlways(parent, name) == nodes[parent].dir

MayCreate(parent, name) == nodes[parent].dir /\ ramfs_lookup(parent, name) = NULL

ramfs_create(parent, name, dir) ==
  /\ MayCreate(parent, name)
  /\ Len(nodes) < MaxNodes
  /\ \E payload \in BOOLEAN : nodes' = Append(nodes, alloc_node(name, dir, parent, payload))

----------------------------------------------------------------------------

(* The capacities that the loop of ensure_capacity goes through, and the   *)
(* one it arrives at.                                                      *)
Capacities(cap, needed) ==
  LET new_cap[k \in 0 .. needed] ==
        IF k > 0 THEN 2 * new_cap[k - 1] ELSE IF cap = 0 THEN MinCap ELSE cap
  IN  {new_cap[k] : k \in 0 .. needed}

NewCapShort(cap, needed) == Min({c \in Capacities(cap, needed) : c >= needed - 1})

NewCap(cap, needed) == Min({c \in Capacities(cap, needed) : c >= needed})

(* The buffer once it holds `needed' bytes: the old one whole, then zeros. *)
CopiesSizeOnly(n, needed) ==
  LET data == nodes[n].data IN
  IF needed <= Len(data) THEN data
  ELSE [i \in 1 .. NewCap(Len(data), needed) |-> IF i <= nodes[n].size THEN data[i] ELSE 0]

Grown(n, needed) ==
  LET data == nodes[n].data IN
  IF needed <= Len(data) THEN data
  ELSE [i \in 1 .. NewCap(Len(data), needed) |-> IF i <= Len(data) THEN data[i] ELSE 0]

(* The bytes that ramfs_read copies; its result is their number.           *)
ramfs_read(n, off, size) ==
  IF off >= nodes[n].size THEN << >>
  ELSE LET avail == nodes[n].size - off
       IN  SubSeq(nodes[n].data, off + 1, off + (IF size > avail THEN avail ELSE size))

(* Reads and writes of a directory, or of a file without payload, fail.    *)
HasPayload(n) == nodes[n].payload

(* ramfs_write when memory suffices; when it has to grow and cannot, the   *)
(* file stays as it is.                                                    *)
ramfs_write(n, off, buf) ==
  LET end == off + Len(buf)
      data == Grown(n, end)
  IN  nodes' = [nodes EXCEPT
        ![n].data = [i \in DOMAIN data |-> IF i \in off + 1 .. end THEN buf[i - off] ELSE data[i]],
        ![n].size = IF end > @ THEN end ELSE @]

NeedsMemory(n, end) == end > Len(nodes[n].data)

----------------------------------------------------------------------------

=============================================================================
