-------------------------------- MODULE Heap --------------------------------
(* The kernel heap (kernel/mm/heap.c): a singly linked list of blocks in   *)
(* one fixed region, first fit, split on allocation, merge on free.        *)
(* Memory is modelled by the block headers that can be read in it: `mem`   *)
(* maps an address to the header with a valid magic found there, the       *)
(* headers of blocks merged long ago included, until something overwrites  *)
(* them.  The calls are atomic here: one thread of control.                *)
EXTENDS Integers, Sequences, FiniteSets

CONSTANTS
  HeapInitial,   \* bytes in the heap
  SizeModulus,   \* size_t is computed modulo this
  Requests       \* sizes passed to kmalloc, kzalloc and krealloc

ASSUME HeapAssumption ==
  /\ HeapInitial \in Nat /\ SizeModulus \in Nat
  /\ HeapInitial % 8 = 0 /\ HeapInitial > 16 /\ HeapInitial < SizeModulus
  /\ Requests \subseteq 0 .. SizeModulus - 1

HEAP_START == 0
Null == -1
Header == 16    \* sizeof(heap_block_t)

VARIABLES
  mem,         \* the headers in memory: address -> [size, is_free, next]
  heap_used,
  held         \* pointers in the callers' hands -> size asked for

vars == <<mem, heap_used, held>>

Init ==
  /\ mem = [a \in {HEAP_START} |->
              [size |-> HeapInitial - Header, is_free |-> TRUE, next |-> Null]]
  /\ heap_used = Header
  /\ held = [p \in {} |-> 0]

----------------------------------------------------------------------------

(* Bytes first .. last are written: headers with a byte there are gone.    *)
Overwrite(m, first, last) ==
  [a \in {b \in DOMAIN m : b > last \/ b + Header - 1 < first} |-> m[a]]

(* A header is written at address a.                                       *)
Write(m, a, header) ==
  LET rest == Overwrite(m, a, a + Header - 1) IN
  [b \in DOMAIN rest \cup {a} |-> IF b = a THEN header ELSE rest[b]]

(* The blocks that a walk from heap_start along next sees when it goes on  *)
(* from every block outside `stop': those in every set that contains       *)
(* heap_start and is closed under such a step.  A block without its magic  *)
(* ends the walk.                                                          *)
Walk(m, stop) ==
  LET closed == {S \in SUBSET DOMAIN m :
                   /\ HEAP_START \in S
                   /\ \A b \in S \ stop : m[b].next \in DOMAIN m => m[b].next \in S}
  IN  {a \in DOMAIN m : \A S \in closed : a \in S}

Listed(m) == Walk(m, {})

(* First fit: where the walk stops.                                        *)
find_free_block(m, size) ==
  LET fits == {a \in DOMAIN m : m[a].is_free /\ m[a].size >= size}
      found == Walk(m, fits) \cap fits
  IN  IF found = {} THEN Null ELSE CHOOSE a \in found : TRUE

(* A header with another size and another link.                            *)
Linked(header, size, next) == [header EXCEPT !.size = size, !.next = next]

(* When the rest of a block is worth a block of its own.                   *)
SplitAlways(have, size) == have >= size + 8

SplitWorthwhile(have, size) == have >= size + Header + 16

(* The size left to the new block.                                         *)
RemainderWithHeader(have, size) == have - size

Remainder(have, size) == have - size - Header

split_block(m, block, size) ==
  LET new == block + Header + size
      b == m[block]
  IN  IF SplitWorthwhile(b.size, size)
        THEN Write([m EXCEPT ![block] = Linked(@, size, new)], new,
                   [size |-> Remainder(b.size, size), is_free |-> TRUE, next |-> b.next])
        ELSE m

(* One turn of the loop of merge_free_blocks.                              *)
MergeTurn(s) ==
  LET b == s.mem[s.current]
      n == s.mem[b.next]
  IN  IF b.next = Null
        THEN s
        ELSE IF b.is_free /\ n.is_free
               THEN [s EXCEPT !.mem[s.current] = Linked(@, b.size + Header + n.size, n.next)]
               ELSE [s EXCEPT !.current = b.next]

(* The loop ends within this many turns: each takes next at least a header *)
(* further.                                                                *)
Turns == HeapInitial \div Header

MergeLoop(m) ==
  LET loop[k \in 0 .. Turns] ==
        IF k = 0 THEN [mem |-> m, current |-> HEAP_START] ELSE MergeTurn(loop[k - 1])
  IN  loop

MergeNothing(m) == m

merge_free_blocks(m) == MergeLoop(m)[Turns].mem

(* (size + 7) & ~7, in size_t.                                             *)
AlignDown(size) == size - (size % 8)

Align(size) ==
  LET s == (size + 7) % SizeModulus IN s - (s % 8)

(* kmalloc on headers m with `used' bytes in use: the pointer and both.    *)
Kmalloc(m, used, size) ==
  LET aligned == Align(size)
      block == find_free_block(m, aligned)
      split == split_block(m, block, aligned)
  IN  IF size = 0 \/ block = Null
        THEN [ptr |-> Null, mem |-> m, used |-> used]
        ELSE [ptr  |-> block + Header,
              mem  |-> [split EXCEPT ![block].is_free = FALSE],
              used |-> used + Header + split[block].size]

(* Whether kfree turns the pointer to this block down.                     *)
RejectedByMagic(m, block) == block \notin DOMAIN m

Rejected(m, block) == block \notin DOMAIN m \/ m[block].is_free

KfreeCountsMerged(m, used, ptr) ==
  LET block == ptr - Header
      merged == merge_free_blocks([m EXCEPT ![block].is_free = TRUE])
  IN  IF Rejected(m, block)
        THEN [mem |-> m, used |-> used]
        ELSE [mem |-> merged, used |-> used - (Header + merged[block].size)]

Kfree(m, used, ptr) ==
  LET block == ptr - Header IN
  IF Rejected(m, block)
    THEN [mem |-> m, used |-> used]
    ELSE [mem  |-> merge_free_blocks([m EXCEPT ![block].is_free = TRUE]),
          used |-> used - (Header + m[block].size)]

----------------------------------------------------------------------------

Give(ptr, size) ==
  held' = IF ptr = Null
            THEN held
            ELSE [p \in DOMAIN held \cup {ptr} |-> IF p = ptr THEN size ELSE held[p]]

kmalloc(size) ==
  LET r == Kmalloc(mem, heap_used, size) IN
  /\ mem' = r.mem
  /\ heap_used' = r.used
  /\ Give(r.ptr, size)

(* Only sys_sbrk passes on a size it has not chosen itself, to kmalloc; no *)
(* other caller asks for a size that Align wraps around.                   *)
NoWrap(size) == size + 7 < SizeModulus

kzalloc(size) ==
  LET r == Kmalloc(mem, heap_used, size) IN
  /\ NoWrap(size)
  /\ mem' = IF r.ptr = Null THEN r.mem ELSE Overwrite(r.mem, r.ptr, r.ptr + size - 1)
  /\ heap_used' = r.used
  /\ Give(r.ptr, size)

kfree(ptr) ==
  LET r == Kfree(mem, heap_used, ptr) IN
  /\ mem' = r.mem
  /\ heap_used' = r.used
  /\ held' = [p \in DOMAIN held \ {ptr} |-> held[p]]

(* kfree of a pointer nobody holds: freed before, or never given out.      *)
(* kfree(NULL) returns at once: a stuttering step.                         *)
FreeUnowned(ptr) ==
  /\ ptr \notin DOMAIN held
  /\ kfree(ptr)

krealloc(ptr, size) ==
  LET block == mem[ptr - Header]
      r == Kmalloc(mem, heap_used, size)
      copied == Overwrite(r.mem, r.ptr, r.ptr + (IF block.size < size THEN block.size ELSE size) - 1)
      f == Kfree(copied, r.used, ptr)
  IN  /\ NoWrap(size)
      /\ \/ size = 0 /\ kfree(ptr)
         \/ /\ size > 0
            /\ block.size >= size
            /\ held' = [held EXCEPT ![ptr] = size]
            /\ UNCHANGED <<mem, heap_used>>
         \/ /\ block.size < size
            /\ r.ptr = Null
            /\ UNCHANGED vars
         \/ /\ block.size < size
            /\ r.ptr # Null
            /\ mem' = f.mem
            /\ heap_used' = f.used
            /\ held' = [p \in (DOMAIN held \ {ptr}) \cup {r.ptr} |->
                          IF p = r.ptr THEN size ELSE held[p]]

(* A caller fills the bytes it asked for.                                  *)
Fill(ptr) ==
  /\ NoWrap(held[ptr])
  /\ mem' = Overwrite(mem, ptr, ptr + held[ptr] - 1)
  /\ UNCHANGED <<heap_used, held>>

heap_get_stats ==
  [total_bytes |-> HeapInitial,
   used_bytes  |-> heap_used,
   free_bytes  |-> (HeapInitial - heap_used) % SizeModulus]

Next ==
  \/ \E size \in Requests : kmalloc(size) \/ kzalloc(size)
  \/ \E ptr \in DOMAIN held :
       kfree(ptr) \/ Fill(ptr) \/ \E size \in Requests : krealloc(ptr, size)
  \/ \E ptr \in {a + Header : a \in DOMAIN mem} : FreeUnowned(ptr)

Spec == Init /\ [][Next]_vars

----------------------------------------------------------------------------

(* What a walk along the list sees.                                        *)
View(m) == [a \in Listed(m) |-> m[a]]

InUse(m) == {a \in Listed(m) : ~m[a].is_free}

UsedBytes(m) == UNION {a .. a + Header + m[a].size - 1 : a \in InUse(m)}

(* Headers and pointers lie in the heap, sizes and links in their ranges,  *)
(* stale headers included.                                                 *)
TypeOK ==
  /\ DOMAIN mem \subseteq 0 .. HeapInitial - 1
  /\ \A a \in DOMAIN mem :
       mem[a] \in [size : 0 .. HeapInitial, is_free : BOOLEAN, next : Null .. HeapInitial - 1]
  /\ heap_used \in Nat
  /\ DOMAIN held \subseteq 1 .. HeapInitial
  /\ \A p \in DOMAIN held : held[p] \in Requests

(* The blocks of the list follow one another without a gap and fill the    *)
(* heap: none overlaps another, no byte is lost to it, whatever was split, *)
(* merged, reallocated or written by the owners (heap.c:79-108).           *)
Tiling ==
  /\ HEAP_START \in Listed(mem)
  /\ \A a \in Listed(mem) :
       LET end == a + Header + mem[a].size IN
         IF mem[a].next = Null THEN end = HeapInitial
                               ELSE mem[a].next = end /\ end \in DOMAIN mem

(* No two neighbours in the list are both free, so that freeing everything *)
(* gives back one block of the whole heap (heap.c:96-108, 187).            *)
Coalesced ==
  \A a \in Listed(mem) :
    mem[a].next # Null => ~(mem[a].is_free /\ mem[mem[a].next].is_free)

(* The blocks in use are those in the callers' hands, one for each, and    *)
(* have room for what was asked for, unless the size wrapped around in the *)
(* alignment (heap.c:119, 129-137, 183).                                   *)
OwnedBlocks ==
  /\ InUse(mem) = {p - Header : p \in DOMAIN held}
  /\ \A p \in DOMAIN held :
       NoWrap(held[p]) => mem[p - Header].size >= held[p]

(* heap_used counts the bytes of the blocks in use, their headers          *)
(* included, on top of the one header it starts from (heap.c:34, 134, 184).*)
Accounting == heap_used = Header + Cardinality(UsedBytes(mem))

(* A call that leaves the callers' pointers as they are (a failed          *)
(* allocation, a second kfree of a pointer, also of a block that was       *)
(* merged or reused meanwhile, a krealloc in place, a write) leaves the    *)
(* list and heap_used as they are (heap.c:169-180).                        *)
ListIsStable ==
  [][DOMAIN held' = DOMAIN held => View(mem') = View(mem) /\ heap_used' = heap_used]_vars

(* heap.h calls the last result of heap_get_stats "Free heap memory".      *)
(* Violated: heap_used starts at one header, so a full heap has used more  *)
(* than it has, and the difference wraps around.                           *)
FreeWithinTotal == heap_get_stats.free_bytes <= heap_get_stats.total_bytes

=============================================================================
