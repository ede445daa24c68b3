----------------------------- MODULE HeapProofs -----------------------------
(* The kernel heap for every size of the region and every request.         *)
EXTENDS Heap, FiniteSetTheorems, WellFoundedInduction, TLAPS

HeaderSet == [size : 0 .. HeapInitial, is_free : BOOLEAN, next : Null .. HeapInitial - 1]

Typed(m) == DOMAIN m \subseteq 0 .. HeapInitial - 1 /\ m \in [DOMAIN m -> HeaderSet]

(* Where the block at a ends.                                              *)
End(m, a) == a + Header + m[a].size

(* S is a list of blocks that tile the heap.                               *)
IsList(m, S) ==
  /\ S \subseteq DOMAIN m /\ HEAP_START \in S
  /\ \A a \in S : \/ m[a].next = Null /\ End(m, a) = HeapInitial
                  \/ m[a].next # Null /\ m[a].next = End(m, a) /\ End(m, a) \in S
  /\ \A a, b \in S : a < b => End(m, a) <= b

LEMMA Least ==
  ASSUME NEW T, T \subseteq Nat, T # {}
  PROVE  \E x \in T : \A y \in T : x <= y
<1>1. PICK x \in T : \A y \in T : ~ (<<y, x>> \in OpToRel(<, Nat))
  BY ZenonT(30), NatLessThanWellFounded, WFMin
<1>2. \A y \in T : ~ (y < x)
  BY ZenonT(30), <1>1 DEF OpToRel
<1> QED
  BY <1>2

LEMMA RequestIs == \A size \in Requests : size \in Nat /\ size \in 0 .. SizeModulus - 1
  BY HeapAssumption

(* A block's header and its end lie in the heap.                           *)
LEMMA InHeap ==
  ASSUME NEW m, Typed(m), NEW S, IsList(m, S), NEW a \in S
  PROVE  /\ a \in 0 .. HeapInitial - 1 /\ m[a].size \in Nat /\ End(m, a) \in a + 16 .. HeapInitial
         /\ m[a] \in HeaderSet /\ a \in DOMAIN m
<1>1. a \in DOMAIN m /\ a \in 0 .. HeapInitial - 1 /\ m[a] \in HeaderSet
  BY DEF Typed, IsList
<1>2. m[a].size \in Nat /\ m[a].next \in Null .. HeapInitial - 1
  BY <1>1, HeapAssumption DEF HeaderSet
<1>3. End(m, a) \in Nat /\ End(m, a) >= a + 16
  BY <1>1, <1>2 DEF End, Header
<1>4. End(m, a) <= HeapInitial
  BY <1>1, <1>2, <1>3, HeapAssumption DEF IsList
<1> QED
  BY <1>1, <1>2, <1>3, <1>4, HeapAssumption

(* A walk that stops nowhere sees the blocks of the list and no others.    *)
LEMMA ListIs ==
  ASSUME NEW m, Typed(m), NEW S, IsList(m, S)
  PROVE  Listed(m) = S
<1> DEFINE Closed(T) == /\ HEAP_START \in T
                        /\ \A b \in T \ {} : m[b].next \in DOMAIN m => m[b].next \in T
<1>1. Listed(m) = {a \in DOMAIN m : \A T \in {U \in SUBSET DOMAIN m : Closed(U)} : a \in T}
  BY DEF Listed, Walk
<1>2. S \in SUBSET DOMAIN m /\ Closed(S)
  <2>1. ASSUME NEW b \in S, m[b].next \in DOMAIN m PROVE m[b].next \in S
    <3>1. m[b].next # Null
      BY <2>1 DEF Typed, Null
    <3> QED
      BY <2>1, <3>1 DEF IsList
  <2> QED
    BY <2>1 DEF IsList
<1>3. ASSUME NEW b \in S, NEW T \in SUBSET DOMAIN m, Closed(T), b \notin T
      PROVE  FALSE
  <2>1. S \subseteq Nat /\ HEAP_START \in S \cap T /\ HEAP_START < b
    BY <1>3, InHeap, HeapAssumption DEF IsList, HEAP_START
  <2> DEFINE D == {d \in Nat : \E a \in S \cap T : a < b /\ d = b - a}
  <2>2. D # {}
    <3>1. b - HEAP_START \in Nat
      BY <2>1 DEF HEAP_START
    <3> QED
      BY ZenonT(30), <2>1, <3>1
  <2>3. PICK d \in D : \A e \in D : d <= e
    BY ZenonT(30), <2>2, Least
  <2>4. PICK a \in S \cap T : a < b /\ d = b - a
    BY <2>3
  <2>5. End(m, a) <= b /\ a \in Nat /\ b \in Nat /\ End(m, a) \in Nat /\ a < End(m, a) /\ b < HeapInitial
    <3>1. a \in 0 .. HeapInitial - 1 /\ End(m, a) \in a + 16 .. HeapInitial
      BY <2>4, InHeap
    <3>2. b \in 0 .. HeapInitial - 1
      BY InHeap
    <3>3. End(m, a) <= b
      BY <2>4 DEF IsList
    <3> QED
      BY <3>1, <3>2, <3>3, HeapAssumption
  <2>6. m[a].next = End(m, a) /\ End(m, a) \in S
    BY <2>4, <2>5, HeapAssumption DEF IsList
  <2>7. End(m, a) \in T
    BY <1>3, <2>4, <2>6 DEF IsList
  <2>8. End(m, a) < b /\ b - End(m, a) \in Nat /\ b - End(m, a) < d
    BY <1>3, <2>4, <2>5, <2>7
  <2>9. b - End(m, a) \in D
    BY <2>6, <2>7, <2>8
  <2> QED
    BY <2>3, <2>4, <2>5, <2>8, <2>9
<1> HIDE DEF Closed
<1>4. Listed(m) \subseteq S
  BY <1>1, <1>2
<1>5. S \subseteq Listed(m)
  BY <1>1, <1>2, <1>3
<1> QED
  BY <1>4, <1>5


(* The list tiles the heap, and headers that are not in it look free.      *)
IsHeap(m) ==
  /\ Typed(m)
  /\ IsList(m, Listed(m))
  /\ \A a \in DOMAIN m \ Listed(m) : m[a].is_free

LEMMA HeapIs ==
  ASSUME NEW m, Typed(m), NEW S, IsList(m, S), \A a \in DOMAIN m \ S : m[a].is_free
  PROVE  IsHeap(m) /\ Listed(m) = S
  BY ListIs DEF IsHeap

(* No two neighbours are free.                                             *)
Separate(m) ==
  \A a \in Listed(m) : m[a].next # Null => ~(m[a].is_free /\ m[m[a].next].is_free)

(* A walk along w sees what a walk along m sees.                           *)
SameList(w, m) == Listed(w) = Listed(m) /\ \A a \in Listed(m) : w[a] = m[a]

LEMMA SameFacts ==
  ASSUME NEW w, NEW m, SameList(w, m), IsList(m, Listed(m))
  PROVE  /\ View(w) = View(m) /\ InUse(w) = InUse(m) /\ UsedBytes(w) = UsedBytes(m)
         /\ Separate(m) => Separate(w)
<1>1. View(w) = View(m)
  BY DEF SameList, View
<1>2. InUse(w) = InUse(m)
  BY DEF SameList, InUse
<1>3. UsedBytes(w) = UsedBytes(m)
  <2>1. \A a \in InUse(m) : w[a] = m[a]
    BY DEF SameList, InUse
  <2> QED
    BY <1>2, <2>1 DEF UsedBytes
<1>4. ASSUME Separate(m) PROVE Separate(w)
  <2>1. ASSUME NEW a \in Listed(m), m[a].next # Null PROVE m[a].next \in Listed(m)
    BY <2>1 DEF IsList
  <2> QED
    BY <1>4, <2>1 DEF SameList, Separate
<1> QED
  BY <1>1, <1>2, <1>3, <1>4

(* Writes within a block's own bytes leave the list alone.                 *)
LEMMA OverwriteKeeps ==
  ASSUME NEW m, IsHeap(m), NEW a \in Listed(m), NEW first \in Int, NEW last \in Int,
         first >= a + Header, last < End(m, a)
  PROVE  IsHeap(Overwrite(m, first, last)) /\ SameList(Overwrite(m, first, last), m)
<1> DEFINE w == Overwrite(m, first, last)
           S == Listed(m)
<1>1. /\ DOMAIN w = {b \in DOMAIN m : b > last \/ b + Header - 1 < first}
      /\ \A b \in DOMAIN w : w[b] = m[b]
  BY DEF Overwrite
<1>2. Typed(m) /\ IsList(m, S)
  BY DEF IsHeap
<1>3. ASSUME NEW b \in S PROVE b \in DOMAIN w
  <2>1. /\ a \in Nat /\ b \in Nat /\ End(m, a) \in Nat /\ End(m, b) \in Nat /\ b \in DOMAIN m
        /\ b + 16 <= End(m, b)
    BY <1>2, InHeap, HeapAssumption
  <2>2. a < b => End(m, a) <= b
    BY <1>2 DEF IsList
  <2>3. b < a => End(m, b) <= a
    BY <1>2 DEF IsList
  <2> QED
    BY <1>1, <2>1, <2>2, <2>3 DEF Header
<1> HIDE DEF w
<1>4. Typed(w)
  <2>1. \A b \in DOMAIN w : b \in 0 .. HeapInitial - 1 /\ w[b] \in HeaderSet
    BY <1>1, <1>2 DEF Typed
  <2>2. w = [b \in DOMAIN w |-> w[b]]
    BY DEF w, Overwrite
  <2> QED
    BY <2>1, <2>2 DEF Typed
<1>5. \A b \in S : w[b] = m[b] /\ End(w, b) = End(m, b)
  BY <1>1, <1>3 DEF End
<1>6. IsList(w, S)
  BY <1>2, <1>3, <1>5 DEF IsList
<1>7. \A b \in DOMAIN w \ S : w[b].is_free
  BY <1>1 DEF IsHeap
<1>8. IsHeap(w) /\ Listed(w) = S
  BY <1>4, <1>6, <1>7, HeapIs
<1> QED
  BY <1>5, <1>8 DEF SameList, w


LEMMA Relink ==
  ASSUME NEW x \in HeaderSet, NEW size \in 0 .. HeapInitial, NEW next \in Null .. HeapInitial - 1
  PROVE  /\ Linked(x, size, next) \in HeaderSet
         /\ Linked(x, size, next).size = size /\ Linked(x, size, next).next = next
         /\ Linked(x, size, next).is_free <=> x.is_free
  BY ZenonT(30) DEF HeaderSet, Linked

(* kmalloc takes block a: m becomes w.                                     *)
Taken(m, a, size, w) ==
  /\ IsHeap(w) /\ a \notin InUse(m)
  /\ InUse(w) = InUse(m) \cup {a}
  /\ \A b \in InUse(m) : w[b] = m[b]
  /\ w[a].size \in Nat /\ w[a].size >= size /\ End(w, a) <= HeapInitial
  /\ Separate(m) => Separate(w)

(* A block that is taken whole.                                            *)
LEMMA TakeWhole ==
  ASSUME NEW m, IsHeap(m), NEW a \in Listed(m), m[a].is_free, NEW size \in Nat, m[a].size >= size
  PROVE  Taken(m, a, size, [m EXCEPT ![a].is_free = FALSE])
<1> DEFINE w == [m EXCEPT ![a].is_free = FALSE]
           S == Listed(m)
<1>1. Typed(m) /\ IsList(m, S) /\ a \in DOMAIN m /\ m[a] \in HeaderSet /\ m[a].size \in Nat
  BY InHeap DEF IsHeap
<1>2. /\ DOMAIN w = DOMAIN m /\ w[a] \in HeaderSet /\ ~w[a].is_free
      /\ w[a].size = m[a].size /\ w[a].next = m[a].next
      /\ \A b \in DOMAIN m \ {a} : w[b] = m[b]
  BY ZenonT(30), <1>1 DEF Typed, HeaderSet
<1> HIDE DEF w
<1>3. Typed(w)
  BY <1>1, <1>2 DEF Typed, w
<1>4. \A b \in S : w[b].size = m[b].size /\ w[b].next = m[b].next /\ End(w, b) = End(m, b)
  BY <1>1, <1>2 DEF End, IsList
<1>5. IsList(w, S)
  BY <1>1, <1>2, <1>4 DEF IsList
<1>6. \A b \in DOMAIN w \ S : w[b].is_free
  BY <1>2 DEF IsHeap
<1>7. IsHeap(w) /\ Listed(w) = S
  BY <1>3, <1>5, <1>6, HeapIs
<1>8. InUse(w) = InUse(m) \cup {a} /\ a \notin InUse(m) /\ \A b \in InUse(m) : w[b] = m[b]
  BY <1>1, <1>2, <1>7 DEF InUse, IsList
<1>9. ASSUME Separate(m) PROVE Separate(w)
  <2>1. ASSUME NEW b \in S, w[b].next # Null, w[b].is_free, w[w[b].next].is_free PROVE FALSE
    <3>1. b # a /\ b \in DOMAIN m /\ w[b] = m[b]
      BY <1>1, <1>2, <2>1 DEF IsList
    <3>2. m[b].next \in S /\ m[b].next # a
      BY <1>1, <1>2, <2>1, <3>1 DEF IsList
    <3>3. w[m[b].next] = m[m[b].next]
      BY <1>1, <1>2, <3>2 DEF IsList
    <3> QED
      BY <1>9, <2>1, <3>1, <3>3 DEF Separate
  <2> QED
    BY <1>7, <2>1 DEF Separate
<1>10. End(w, a) <= HeapInitial
  BY <1>1, <1>4, InHeap, HeapAssumption
<1> QED
  BY ZenonT(30), <1>1, <1>2, <1>7, <1>8, <1>9, <1>10 DEF Taken, w

(* A block that is split first.                                            *)
LEMMA TakeSplit ==
  ASSUME NEW m, IsHeap(m), NEW a \in Listed(m), m[a].is_free, NEW size \in Nat,
         m[a].size >= size + Header + 16
  PROVE  Taken(m, a, size, [split_block(m, a, size) EXCEPT ![a].is_free = FALSE])
<1> DEFINE s == split_block(m, a, size)
           w == [s EXCEPT ![a].is_free = FALSE]
           new == a + Header + size
           S == Listed(m)
           T == S \cup {new}
           h == Linked(m[a], size, new)
           rest == [size |-> m[a].size - size - Header, is_free |-> TRUE, next |-> m[a].next]
<1>1. /\ Typed(m) /\ IsList(m, S) /\ a \in DOMAIN m /\ m[a] \in HeaderSet /\ m[a].size \in Nat
      /\ a \in 0 .. HeapInitial - 1 /\ End(m, a) \in a + 16 .. HeapInitial
  BY InHeap DEF IsHeap
<1>2. /\ new \in a + 16 .. HeapInitial - 32 /\ new + 32 <= End(m, a)
      /\ End(m, a) = new + 16 + (m[a].size - size - Header)
      /\ rest \in HeaderSet
  BY <1>1, HeapAssumption DEF End, Header, HeaderSet, Null
<1>3. h \in HeaderSet /\ h.size = size /\ h.next = new
  <2>1. size \in 0 .. HeapInitial /\ new \in Null .. HeapInitial - 1
    BY <1>1, <1>2, HeapAssumption DEF Null, Header
  <2> QED
    BY <1>1, <2>1, Relink
<1>4. s = Write([m EXCEPT ![a] = h], new, rest)
  BY <1>1 DEF split_block, SplitWorthwhile, Remainder, Header, Typed, Linked
<1> HIDE DEF h, rest, s
<1>5. /\ DOMAIN s = {b \in DOMAIN m : b > new + 15 \/ b + 15 < new} \cup {new}
      /\ \A b \in DOMAIN s : s[b] = IF b = new THEN rest ELSE IF b = a THEN h ELSE m[b]
  <2> DEFINE m1 == [m EXCEPT ![a] = h]
             o == Overwrite(m1, new, new + 15)
  <2>1. DOMAIN m1 = DOMAIN m /\ \A b \in DOMAIN m : m1[b] = IF b = a THEN h ELSE m[b]
    BY <1>1 DEF Typed
  <2> HIDE DEF m1
  <2>2. /\ DOMAIN o = {b \in DOMAIN m : b > new + 15 \/ b + 15 < new}
        /\ \A b \in DOMAIN o : o[b] = m1[b]
    <3>1. \A b \in DOMAIN m : b + Header - 1 = b + 15
      BY <1>1 DEF Header, Typed
    <3> QED
      BY <2>1, <3>1 DEF Overwrite
  <2>3. new + Header - 1 = new + 15
    BY <1>2 DEF Header
  <2>4. s = [b \in DOMAIN o \cup {new} |-> IF b = new THEN rest ELSE o[b]]
    BY ZenonT(30), <1>4, <2>3 DEF Write, m1
  <2> HIDE DEF o
  <2> QED
    BY <2>1, <2>2, <2>4
<1>6. /\ a \in DOMAIN s /\ s[a] = h /\ a # new
      /\ h.size = size /\ h.next = new /\ rest.next = m[a].next /\ rest.is_free
      /\ rest.size = m[a].size - size - Header
  <2>1. /\ h.size = size /\ h.next = new /\ rest.next = m[a].next /\ rest.is_free
        /\ rest.size = m[a].size - size - Header
    BY <1>3 DEF rest
  <2>2. a + 15 < new
    BY <1>1, <1>2
  <2> QED
    BY <1>1, <1>2, <1>5, <2>1, <2>2
<1>7. /\ DOMAIN w = DOMAIN s /\ w[a] \in HeaderSet /\ ~w[a].is_free
      /\ w[a].size = size /\ w[a].next = new /\ w[new] = rest
      /\ \A b \in DOMAIN s \ {a, new} : w[b] = m[b] /\ b \in DOMAIN m
  BY ZenonT(30), <1>2, <1>3, <1>5, <1>6 DEF HeaderSet
<1>8. w = [b \in DOMAIN s |-> w[b]]
  BY ZenonT(30) DEF w
<1> HIDE DEF w
<1>9. Typed(w)
  <2>1. \A b \in DOMAIN w : b \in 0 .. HeapInitial - 1 /\ w[b] \in HeaderSet
    BY <1>1, <1>2, <1>5, <1>7, HeapAssumption DEF Typed
  <2> QED
    BY <1>7, <1>8, <2>1 DEF Typed
<1>10. ASSUME NEW b \in S, b # a
       PROVE  /\ b \in DOMAIN w /\ b # new /\ w[b] = m[b] /\ End(w, b) = End(m, b)
              /\ b < a => End(m, b) <= a
              /\ b > a => b >= End(m, a)
              /\ b \in Nat
  <2>1. b \in Nat /\ b \in DOMAIN m /\ b + 16 <= End(m, b) /\ End(m, b) \in Nat
    BY <1>1, InHeap, HeapAssumption
  <2>2. (a < b => End(m, a) <= b) /\ (b < a => End(m, b) <= a)
    BY <1>1 DEF IsList
  <2>3. b > new + 15 \/ b + 15 < new
    BY <1>1, <1>2, <1>10, <2>1, <2>2
  <2>4. b \in DOMAIN w /\ b # new
    BY <1>5, <1>7, <2>1, <2>3
  <2>5. w[b] = m[b]
    BY <1>7, <1>10, <2>4
  <2> QED
    BY <2>1, <2>2, <2>4, <2>5 DEF End
<1>11. End(w, a) = new /\ End(w, new) = End(m, a) /\ new \notin S
  <2>1. End(w, a) = new
    BY <1>7 DEF End
  <2>2. End(w, new) = End(m, a)
    BY <1>2, <1>6, <1>7 DEF End, Header
  <2>3. new \notin S
    BY <1>6, <1>10
  <2> QED
    BY <2>1, <2>2, <2>3
<1>12. IsList(w, T)
  <2>1. T \subseteq DOMAIN w /\ HEAP_START \in T
    BY <1>1, <1>5, <1>6, <1>7, <1>10 DEF IsList
  <2>2. ASSUME NEW b \in T
        PROVE  \/ w[b].next = Null /\ End(w, b) = HeapInitial
               \/ w[b].next # Null /\ w[b].next = End(w, b) /\ End(w, b) \in T
    <3>1. CASE b = a
      BY <1>1, <1>2, <1>7, <1>11, <3>1 DEF Null
    <3>2. CASE b = new
      BY <1>1, <1>6, <1>7, <1>11, <3>2 DEF IsList
    <3>3. CASE b # a /\ b # new
      BY <1>1, <1>10, <3>3 DEF IsList
    <3> QED
      BY <3>1, <3>2, <3>3
  <2>3. ASSUME NEW b \in T, NEW c \in T, b < c PROVE End(w, b) <= c
    <3>1. CASE b \in S \ {a} /\ c \in S \ {a}
      BY <1>1, <1>10, <2>3, <3>1 DEF IsList
    <3>2. CASE b = a
      BY <1>1, <1>2, <1>10, <1>11, <2>3, <3>2
    <3>3. CASE b = new
      BY <1>1, <1>2, <1>10, <1>11, <2>3, <3>3
    <3>4. CASE b \in S \ {a} /\ c = a
      BY <1>10, <2>3, <3>4
    <3>5. CASE b \in S \ {a} /\ c = new
      <4>1. b < a
        BY <1>1, <1>2, <1>10, <2>3, <3>5
      <4> QED
        BY <1>1, <1>2, <1>10, <3>5, <4>1, InHeap, HeapAssumption
    <3> QED
      BY <3>1, <3>2, <3>3, <3>4, <3>5
  <2> QED
    BY <2>1, <2>2, <2>3 DEF IsList
<1>13. \A b \in DOMAIN w \ T : w[b].is_free
  BY <1>7 DEF IsHeap
<1>14. IsHeap(w) /\ Listed(w) = T
  BY <1>9, <1>12, <1>13, HeapIs
<1>15. InUse(w) = InUse(m) \cup {a} /\ a \notin InUse(m) /\ \A b \in InUse(m) : w[b] = m[b]
  BY <1>6, <1>7, <1>10, <1>14 DEF InUse
<1>16. ASSUME Separate(m) PROVE Separate(w)
  <2>1. ASSUME NEW b \in T, w[b].next # Null, w[b].is_free, w[w[b].next].is_free PROVE FALSE
    <3>1. CASE b = new
      <4>1. w[b].next = m[a].next /\ m[a].next \in S /\ m[a].next # a /\ m[a].next # Null
        BY <1>1, <1>6, <1>7, <2>1, <3>1 DEF IsList
      <4>2. w[m[a].next] = m[m[a].next]
        BY <1>10, <4>1
      <4> QED
        BY <1>16, <2>1, <4>1, <4>2 DEF Separate
    <3>2. CASE b \in S
      <4>1. b # a /\ w[b] = m[b]
        BY <1>7, <1>10, <2>1, <3>2
      <4>2. m[b].next \in S /\ m[b].next # a /\ m[b].next # Null
        BY <1>1, <1>7, <2>1, <3>2, <4>1 DEF IsList
      <4>3. w[m[b].next] = m[m[b].next]
        BY <1>10, <4>2
      <4> QED
        BY <1>16, <2>1, <3>2, <4>1, <4>2, <4>3 DEF Separate
    <3> QED
      BY <3>1, <3>2
  <2> QED
    BY <1>14, <2>1 DEF Separate
<1> QED
  <2>1. w[a].size \in Nat /\ w[a].size >= size /\ End(w, a) <= HeapInitial
    BY <1>1, <1>2, <1>7, <1>11, HeapAssumption
  <2>2. Taken(m, a, size, w)
    BY <1>14, <1>15, <1>16, <2>1 DEF Taken
  <2> QED
    BY <2>2 DEF w, s


----------------------------------------------------------------------------

(* The loop of merge_free_blocks, started on m: what it keeps, and where   *)
(* it is after k turns.                                                    *)
Merging(m, s, k) ==
  /\ s = [mem |-> s.mem, current |-> s.current]
  /\ IsHeap(s.mem) /\ s.current \in Listed(s.mem)
  /\ InUse(s.mem) = InUse(m) /\ \A a \in InUse(m) : s.mem[a] = m[a]
  /\ \A a \in Listed(s.mem) :
       a < s.current => ~(s.mem[a].is_free /\ s.mem[s.mem[a].next].is_free)
  /\ s.mem[s.current].next = Null \/ s.mem[s.current].next >= 16 * (k + 1)

(* Two free neighbours, and the list w in which c has absorbed n.          *)
BothFree(m, c, n) ==
  /\ IsHeap(m) /\ c \in Listed(m)
  /\ m[c].next = n /\ n # Null
  /\ m[c].is_free /\ m[n].is_free

Absorbed(m, c, n, w) ==
  /\ IsHeap(w) /\ Listed(w) = Listed(m) \ {n} /\ c \in Listed(w)
  /\ \A a \in Listed(w) \ {c} : w[a] = m[a]
  /\ w[c].is_free /\ w[c].next = m[n].next

(* The block at c absorbs its free successor n.                            *)
LEMMA Absorb ==
  ASSUME NEW m, NEW c, NEW n, BothFree(m, c, n)
  PROVE  Absorbed(m, c, n, [m EXCEPT ![c] = Linked(@, @.size + Header + m[n].size, m[n].next)])
<1> DEFINE w == [m EXCEPT ![c] = Linked(@, @.size + Header + m[n].size, m[n].next)]
           S == Listed(m)
           T == S \ {n}
           h == Linked(m[c], m[c].size + Header + m[n].size, m[n].next)
<1> USE DEF BothFree
<1>1. /\ Typed(m) /\ IsList(m, S) /\ c \in DOMAIN m /\ m[c] \in HeaderSet /\ m[c].size \in Nat
      /\ c \in 0 .. HeapInitial - 1
  BY InHeap DEF IsHeap
<1>2. n \in S /\ n = End(m, c)
  BY <1>1 DEF IsList
<1>3. /\ n \in DOMAIN m /\ m[n] \in HeaderSet /\ m[n].size \in Nat
      /\ n \in 0 .. HeapInitial - 1 /\ End(m, n) \in n + 16 .. HeapInitial
  BY <1>1, <1>2, InHeap
<1>4. c < n /\ n = c + 16 + m[c].size /\ End(m, n) = c + 16 + (m[c].size + 16 + m[n].size)
  BY <1>1, <1>2, <1>3 DEF End, Header
<1>5. h \in HeaderSet /\ h.size = m[c].size + 16 + m[n].size /\ h.next = m[n].next /\ h.is_free
  <2>1. m[c].size + Header + m[n].size \in 0 .. HeapInitial /\ m[n].next \in Null .. HeapInitial - 1
    BY <1>1, <1>3, <1>4, HeapAssumption DEF Header, HeaderSet
  <2> QED
    BY <1>1, <2>1, Relink DEF Header
<1> HIDE DEF h
<1>6. DOMAIN w = DOMAIN m /\ w[c] = h /\ \A a \in DOMAIN m \ {c} : w[a] = m[a]
  BY <1>1 DEF Typed, h
<1>7. Typed(w)
  BY <1>1, <1>5, <1>6 DEF Typed, h
<1>8. End(w, c) = End(m, n) /\ \A a \in T \ {c} : End(w, a) = End(m, a) /\ w[a] = m[a]
  <2>1. End(w, c) = End(m, n)
    BY <1>1, <1>3, <1>4, <1>5, <1>6 DEF End, Header
  <2> QED
    BY <1>1, <1>6, <2>1 DEF End, IsList
<1>9. IsList(w, T)
  <2>1. T \subseteq DOMAIN w /\ HEAP_START \in T
    BY SMTT(30), <1>1, <1>2, <1>4, <1>6 DEF IsList, HEAP_START
  <2>2. ASSUME NEW a \in T
        PROVE  \/ w[a].next = Null /\ End(w, a) = HeapInitial
               \/ w[a].next # Null /\ w[a].next = End(w, a) /\ End(w, a) \in T
    <3>1. CASE a = c
      <4>1. End(m, n) # n
        BY <1>3
      <4> QED
        BY <1>1, <1>2, <1>5, <1>6, <1>8, <3>1, <4>1 DEF IsList
    <3>2. CASE a # c
      <4>1. /\ \/ m[a].next = Null /\ End(m, a) = HeapInitial
               \/ m[a].next # Null /\ m[a].next = End(m, a) /\ End(m, a) \in S
            /\ w[a] = m[a] /\ End(w, a) = End(m, a)
        BY ZenonT(30), <1>1, <1>8, <3>2 DEF IsList
      <4>2. End(m, a) # n
        <5>1. a \in Nat /\ End(m, a) \in Nat /\ a < End(m, a)
          BY <1>1, InHeap, HeapAssumption
        <5>2. (a < c => End(m, a) <= c) /\ (c < a => n <= a)
          BY <1>1, <1>2 DEF IsList
        <5> QED
          BY <1>1, <1>3, <1>4, <3>2, <5>1, <5>2
      <4> QED
        BY <4>1, <4>2
    <3> QED
      BY <3>1, <3>2
  <2>3. ASSUME NEW a \in T, NEW b \in T, a < b PROVE End(w, a) <= b
    <3>1. CASE a = c
      <4>1. n <= b /\ b \in Nat
        BY <1>1, <1>2, <2>3, <3>1, InHeap, HeapAssumption DEF IsList
      <4>2. n < b
        BY <1>3, <4>1
      <4> QED
        BY SMTT(30), <1>1, <1>2, <1>8, <3>1, <4>2 DEF IsList
    <3>2. CASE a # c
      BY ZenonT(30), <1>1, <1>8, <2>3, <3>2 DEF IsList
    <3> QED
      BY <3>1, <3>2
  <2> QED
    BY ZenonT(30), <2>1, <2>2, <2>3 DEF IsList
<1>10. \A a \in DOMAIN w \ T : w[a].is_free
  <2>1. \A a \in DOMAIN m \ S : m[a].is_free
    BY DEF IsHeap
  <2> QED
    BY <1>5, <1>6, <2>1
<1>11. IsHeap(w) /\ Listed(w) = T
  BY ZenonT(30), <1>7, <1>9, <1>10, HeapIs
<1>12. c \in T /\ \A a \in T \ {c} : w[a] = m[a]
  BY <1>1, <1>3, <1>4, <1>8
<1>13. w[c].is_free /\ w[c].next = m[n].next
  BY SMTT(30), <1>5, <1>6
<1> QED
  BY ZenonT(30), <1>11, <1>12, <1>13 DEF Absorbed


LEMMA Turn ==
  ASSUME NEW m, NEW s, NEW k \in Nat, Merging(m, s, k)
  PROVE  Merging(m, MergeTurn(s), k + 1)
<1> DEFINE v == s.mem
           c == s.current
           n == v[c].next
           S == Listed(v)
<1>1. /\ IsHeap(v) /\ Typed(v) /\ IsList(v, S) /\ c \in S /\ c \in DOMAIN v
      /\ v[c] \in HeaderSet /\ c \in 0 .. HeapInitial - 1
  BY InHeap DEF Merging, IsHeap
<1>2. /\ s = [mem |-> v, current |-> c]
      /\ InUse(v) = InUse(m) /\ \A a \in InUse(m) : v[a] = m[a]
      /\ \A a \in S : a < c => ~(v[a].is_free /\ v[v[a].next].is_free)
      /\ n = Null \/ n >= 16 * (k + 1)
  BY DEF Merging
<1>3. CASE n = Null
  <2>1. MergeTurn(s) = s
    BY <1>3 DEF MergeTurn
  <2> QED
    BY <1>1, <1>2, <1>3, <2>1 DEF Merging
<1>4. ASSUME n # Null
      PROVE  /\ n \in S /\ n = End(v, c) /\ n \in DOMAIN v /\ n \in Nat /\ c < n
             /\ v[n].next = Null \/ v[n].next >= 16 * (k + 2)
  <2>1. n \in S /\ n = End(v, c) /\ n >= 16 * (k + 1)
    BY <1>1, <1>2, <1>4 DEF IsList
  <2>2. n \in DOMAIN v /\ n \in Nat /\ End(v, n) >= n + 16 /\ End(v, c) >= c + 16
    BY <1>1, <2>1, InHeap, HeapAssumption
  <2>3. v[n].next = Null \/ v[n].next = End(v, n)
    BY <1>1, <2>1 DEF IsList
  <2>4. End(v, n) \in Nat /\ End(v, n) >= 16 * (k + 2)
    BY <1>1, <2>1, <2>2, InHeap
  <2>5. c < n
    BY SMTT(30), <1>1, <2>1, <2>2
  <2> QED
    BY <2>1, <2>2, <2>3, <2>4, <2>5
<1>5. CASE n # Null /\ v[c].is_free /\ v[n].is_free
  <2> DEFINE w == [v EXCEPT ![c] = Linked(@, @.size + Header + v[n].size, v[n].next)]
  <2>1. MergeTurn(s) = [mem |-> w, current |-> c]
    <3>1. MergeTurn(s) = [s EXCEPT !.mem[c] = Linked(@, @.size + Header + v[n].size, v[n].next)]
      BY <1>5 DEF MergeTurn
    <3>2. DOMAIN s = {"mem", "current"}
      BY ZenonT(30), <1>2
    <3> QED
      BY <1>2, <3>1, <3>2
  <2>2. /\ IsHeap(w) /\ Listed(w) = S \ {n} /\ c \in Listed(w)
        /\ \A a \in Listed(w) \ {c} : w[a] = v[a]
        /\ w[c].is_free /\ w[c].next = v[n].next
    <3>1. BothFree(v, c, n)
      BY <1>1, <1>5 DEF BothFree
    <3>2. Absorbed(v, c, n, w)
      BY <3>1, Absorb
    <3> QED
      BY ZenonT(30), <3>2 DEF Absorbed
  <2> HIDE DEF w
  <2>3. InUse(w) = InUse(m) /\ \A a \in InUse(m) : w[a] = m[a]
    <3>1. InUse(w) = InUse(v) /\ \A a \in InUse(v) : w[a] = v[a]
      BY <1>5, <2>2 DEF InUse
    <3> QED
      BY ZenonT(30), <1>2, <3>1
  <2>4. ASSUME NEW a \in Listed(w), a < c PROVE ~(w[a].is_free /\ w[w[a].next].is_free)
    <3>1. a \in S /\ a # c /\ w[a] = v[a]
      BY SMTT(30), <1>1, <2>2, <2>4
    <3>2. w[a].next # Null /\ v[a].next # n /\ v[a].next \in S /\ v[a].next <= c
      <4>1. End(v, a) <= c
        BY <1>1, <2>4, <3>1 DEF IsList
      <4>2. End(v, a) \in Nat /\ v[a].next = End(v, a) /\ End(v, a) \in S /\ v[a].next # Null
        BY SMTT(30), <1>1, <3>1, <4>1, InHeap, HeapAssumption DEF IsList
      <4> QED
        BY <1>1, <1>4, <1>5, <3>1, <4>1, <4>2
    <3>3. w[v[a].next].is_free => v[v[a].next].is_free
      BY ZenonT(30), <1>5, <2>2, <3>2
    <3> QED
      BY <1>2, <2>4, <3>1, <3>3
  <2>5. w[c].next = Null \/ w[c].next >= 16 * (k + 1 + 1)
    BY <1>4, <1>5, <2>2
  <2> DEFINE t == MergeTurn(s)
  <2>6. t.mem = w /\ t.current = c /\ t = [mem |-> t.mem, current |-> t.current] /\ c \in Listed(w)
    BY <2>1, <2>2
  <2> HIDE DEF t, v, c, n
  <2>7. Merging(m, t, k + 1)
    BY SMTT(30), <2>2, <2>3, <2>4, <2>5, <2>6 DEF Merging
  <2> QED
    BY <2>7 DEF t
<1>6. CASE n # Null /\ ~(v[c].is_free /\ v[n].is_free)
  <2>1. MergeTurn(s) = [mem |-> v, current |-> n]
    BY <1>1, <1>2, <1>6 DEF MergeTurn
  <2>2. ASSUME NEW a \in S, a < n PROVE ~(v[a].is_free /\ v[v[a].next].is_free)
    <3>1. a <= c
      <4>1. a \in Nat
        BY SMTT(30), <1>1, InHeap
      <4>2. c < a => n <= a
        BY <1>1, <1>4, <1>6 DEF IsList
      <4> QED
        BY <1>1, <1>4, <1>6, <2>2, <4>1, <4>2
    <3>2. a \in Nat /\ (a < c \/ a = c)
      BY SMTT(30), <1>1, <3>1, InHeap
    <3> QED
      BY ZenonT(30), <1>2, <1>6, <3>2
  <2>3. v[n].next = Null \/ v[n].next >= 16 * (k + 1 + 1)
    BY SMTT(30), <1>4, <1>6
  <2> DEFINE t == MergeTurn(s)
  <2>4. t.mem = v /\ t.current = n /\ t = [mem |-> t.mem, current |-> t.current] /\ n \in S
    BY <1>4, <1>6, <2>1
  <2> HIDE DEF t, v, c, n
  <2>5. Merging(m, t, k + 1)
    BY <1>1, <1>2, <2>2, <2>3, <2>4 DEF Merging
  <2> QED
    BY <2>5 DEF t
<1> QED
  BY <1>3, <1>5, <1>6


(* The loop of merge_free_blocks as a function of the turn.                *)
IsLoop(m, n, f) ==
  f = [k \in 0 .. n |-> IF k = 0 THEN [mem |-> m, current |-> HEAP_START] ELSE MergeTurn(f[k - 1])]

LEMMA LoopExists ==
  ASSUME NEW m, NEW n \in Nat
  PROVE  \E f : IsLoop(m, n, f)
<1> DEFINE A == [mem |-> m, current |-> HEAP_START]
           T == {i \in Nat : ~ \E f : IsLoop(m, i, f)}
<1> HIDE DEF A
<1>1. SUFFICES ASSUME T # {} PROVE FALSE
  OBVIOUS
<1>2. PICK i \in T : \A j \in T : i <= j
  BY ZenonT(30), <1>1, Least
<1>3. i # 0
  <2>1. IsLoop(m, 0, [k \in 0 .. 0 |-> A])
    BY DEF IsLoop, A
  <2> QED
    BY <1>2, <2>1
<1>4. i - 1 \in Nat /\ i - 1 \notin T
  BY <1>2, <1>3
<1>5. PICK g : IsLoop(m, i - 1, g)
  BY <1>4
<1> DEFINE f == [k \in 0 .. i |-> IF k = i THEN MergeTurn(g[i - 1]) ELSE g[k]]
<1>6. g = [k \in 0 .. i - 1 |-> IF k = 0 THEN A ELSE MergeTurn(g[k - 1])]
  BY <1>5 DEF IsLoop, A
<1>7. ASSUME NEW k \in 0 .. i
      PROVE  f[k] = IF k = 0 THEN A ELSE MergeTurn(f[k - 1])
  <2>1. CASE k = i
    <3>1. k - 1 \in 0 .. i /\ k - 1 # i /\ k # 0
      BY <1>2, <1>3, <2>1
    <3>2. f[k - 1] = g[i - 1] /\ f[k] = MergeTurn(g[i - 1])
      BY <2>1, <3>1
    <3> QED
      BY <3>1, <3>2
  <2>2. CASE k # i /\ k # 0
    <3>1. k \in 0 .. i - 1 /\ k - 1 \in 0 .. i /\ k - 1 # i
      BY <1>2, <2>2
    <3>2. f[k - 1] = g[k - 1] /\ f[k] = g[k]
      BY <2>2, <3>1
    <3>3. g[k] = MergeTurn(g[k - 1])
      BY <1>6, <2>2, <3>1
    <3> QED
      BY <2>2, <3>2, <3>3
  <2>3. CASE k # i /\ k = 0
    <3>1. k \in 0 .. i - 1 /\ f[k] = g[k]
      BY <1>2, <2>3
    <3> QED
      BY <1>6, <2>3, <3>1
  <2> QED
    BY <2>1, <2>2, <2>3
<1>8. IsLoop(m, i, f)
  <2>1. f = [k \in 0 .. i |-> f[k]]
    OBVIOUS
  <2> HIDE DEF f
  <2> QED
    BY ZenonT(30), <1>7, <2>1 DEF IsLoop, A
<1> QED
  BY <1>2, <1>8

LEMMA LoopIs ==
  ASSUME NEW m
  PROVE  /\ MergeLoop(m)[0] = [mem |-> m, current |-> HEAP_START]
         /\ \A k \in 1 .. Turns : MergeLoop(m)[k] = MergeTurn(MergeLoop(m)[k - 1])
<1>1. Turns \in Nat
  BY HeapAssumption DEF Turns, Header
<1>2. PICK f : IsLoop(m, Turns, f)
  BY <1>1, LoopExists
<1>3. MergeLoop(m) = CHOOSE g : IsLoop(m, Turns, g)
  BY DEF MergeLoop, IsLoop
<1>4. IsLoop(m, Turns, MergeLoop(m))
  BY <1>2, <1>3
<1> QED
  BY <1>1, <1>4 DEF IsLoop


(* w is m with its free neighbours merged.                                 *)
Merged(m, w) ==
  /\ IsHeap(w) /\ Separate(w)
  /\ InUse(w) = InUse(m) /\ \A a \in InUse(m) : w[a] = m[a]

LEMMA MergeAll ==
  ASSUME NEW m, IsHeap(m)
  PROVE  Merged(m, merge_free_blocks(m))
<1> DEFINE L == MergeLoop(m)
           T == {k \in Nat : k <= Turns /\ ~Merging(m, L[k], k)}
<1>1. Turns \in Nat /\ 16 * (Turns + 1) > HeapInitial
  BY HeapAssumption DEF Turns, Header
<1>2. Merging(m, L[0], 0)
  <2> DEFINE s == [mem |-> m, current |-> HEAP_START]
  <2>1. s.mem = m /\ s.current = 0 /\ s = [mem |-> s.mem, current |-> s.current]
    BY DEF HEAP_START
  <2>2. Typed(m) /\ IsList(m, Listed(m)) /\ 0 \in Listed(m)
    BY DEF IsHeap, IsList, HEAP_START
  <2>3. \A a \in Listed(m) : ~(a < 0)
    BY <2>2, InHeap
  <2>4. m[0].next = Null \/ m[0].next >= 16 * (0 + 1)
    <3>1. m[0].next = Null \/ m[0].next = End(m, 0)
      BY <2>2 DEF IsList
    <3>2. End(m, 0) \in Nat /\ End(m, 0) >= 16
      BY <2>2, InHeap, HeapAssumption
    <3> QED
      BY <3>1, <3>2
  <2> HIDE DEF s
  <2>5. Merging(m, s, 0)
    BY <2>1, <2>2, <2>3, <2>4 DEF Merging
  <2> QED
    BY <2>5, LoopIs DEF s
<1>3. T = {}
  <2>1. SUFFICES ASSUME T # {} PROVE FALSE
    OBVIOUS
  <2>2. PICK k \in T : \A j \in T : k <= j
    BY ZenonT(30), <2>1, Least
  <2>3. k \in Nat /\ k <= Turns /\ ~Merging(m, L[k], k) /\ k # 0
    BY <1>2, <2>2
  <2>4. k - 1 \in Nat /\ k \in 1 .. Turns /\ Merging(m, L[k - 1], k - 1)
    BY <1>1, <2>2, <2>3
  <2>5. Merging(m, MergeTurn(L[k - 1]), k - 1 + 1)
    BY <2>4, Turn
  <2>6. L[k] = MergeTurn(L[k - 1])
    BY ZenonT(30), <2>4, LoopIs
  <2>7. k - 1 + 1 = k
    BY <2>3
  <2> QED
    BY <2>3, <2>5, <2>6, <2>7
<1> DEFINE s == L[Turns]
           w == s.mem
<1>4. Merging(m, s, Turns)
  BY <1>1, <1>3
<1> HIDE DEF L, s
<1>5. IsHeap(w) /\ s.current \in Listed(w) /\ Typed(w) /\ IsList(w, Listed(w))
  BY <1>4 DEF Merging, IsHeap
<1>6. w[s.current].next = Null
  <2>1. w[s.current].next \in Null .. HeapInitial - 1
    BY <1>5, InHeap DEF HeaderSet
  <2>2. w[s.current].next = Null \/ w[s.current].next >= 16 * (Turns + 1)
    BY <1>4 DEF Merging
  <2> QED
    BY <1>1, <2>1, <2>2, HeapAssumption DEF Null
<1>7. Separate(w)
  <2>1. ASSUME NEW a \in Listed(w), w[a].next # Null PROVE a < s.current
    <3>1. s.current # a /\ a \in Nat /\ s.current \in Nat
      BY <1>5, <1>6, <2>1, InHeap
    <3>2. End(w, s.current) = HeapInitial
      BY <1>5, <1>6 DEF IsList
    <3>3. s.current < a => HeapInitial <= a
      BY <1>5, <3>2 DEF IsList
    <3>4. a < HeapInitial
      BY <1>5, InHeap, HeapAssumption
    <3> QED
      BY <3>1, <3>3, <3>4, HeapAssumption
  <2>2. \A a \in Listed(w) : a < s.current => ~(w[a].is_free /\ w[w[a].next].is_free)
    BY <1>4 DEF Merging
  <2> QED
    BY <2>1, <2>2 DEF Separate
<1>8. InUse(w) = InUse(m) /\ \A a \in InUse(m) : w[a] = m[a]
  BY <1>4 DEF Merging
<1>9. Merged(m, w)
  BY <1>5, <1>7, <1>8 DEF Merged
<1> QED
  BY <1>9 DEF merge_free_blocks, s, L

----------------------------------------------------------------------------

(* kfree returns block a: m becomes w.                                     *)
Freed(m, a, w) ==
  /\ IsHeap(w) /\ Separate(w)
  /\ InUse(w) = InUse(m) \ {a}
  /\ \A b \in InUse(w) : w[b] = m[b]

LEMMA KfreeInUse ==
  ASSUME NEW m, IsHeap(m), NEW used, NEW ptr, ptr - Header \in InUse(m)
  PROVE  /\ Freed(m, ptr - Header, Kfree(m, used, ptr).mem)
         /\ Kfree(m, used, ptr).used = used - (Header + m[ptr - Header].size)
<1> DEFINE a == ptr - Header
           w == [m EXCEPT ![a].is_free = TRUE]
           S == Listed(m)
<1>1. /\ Typed(m) /\ IsList(m, S) /\ a \in S /\ a \in DOMAIN m /\ m[a] \in HeaderSet
      /\ ~m[a].is_free
  BY InHeap DEF IsHeap, InUse
<1>2. /\ DOMAIN w = DOMAIN m /\ w[a] \in HeaderSet /\ w[a].is_free
      /\ w[a].size = m[a].size /\ w[a].next = m[a].next
      /\ \A b \in DOMAIN m \ {a} : w[b] = m[b]
  BY ZenonT(30), <1>1 DEF Typed, HeaderSet
<1>3. Kfree(m, used, ptr) = [mem |-> merge_free_blocks(w), used |-> used - (Header + m[a].size)]
  BY <1>1 DEF Kfree, Rejected
<1> HIDE DEF w, a
<1>4. Typed(w)
  BY <1>1, <1>2 DEF Typed, w
<1>5. \A b \in S : w[b].size = m[b].size /\ w[b].next = m[b].next /\ End(w, b) = End(m, b)
  BY <1>1, <1>2 DEF End, IsList
<1>6. IsList(w, S)
  BY <1>1, <1>2, <1>5 DEF IsList
<1>7. \A b \in DOMAIN w \ S : w[b].is_free
  BY <1>2 DEF IsHeap
<1>8. IsHeap(w) /\ Listed(w) = S
  BY <1>4, <1>6, <1>7, HeapIs
<1>9. InUse(w) = InUse(m) \ {a} /\ \A b \in InUse(w) : w[b] = m[b]
  BY <1>1, <1>2, <1>8 DEF InUse, IsList
<1>10. Merged(w, merge_free_blocks(w))
  BY <1>8, MergeAll
<1>11. Freed(m, a, merge_free_blocks(w))
  BY <1>9, <1>10 DEF Freed, Merged
<1> QED
  BY <1>3, <1>11 DEF a

(* A pointer to no block in use is turned down, whatever header is there.  *)
LEMMA KfreeOther ==
  ASSUME NEW m, IsHeap(m), NEW used, NEW ptr, ptr - Header \notin InUse(m)
  PROVE  Kfree(m, used, ptr) = [mem |-> m, used |-> used]
<1>1. Rejected(m, ptr - Header)
  BY DEF Rejected, IsHeap, InUse
<1> QED
  BY <1>1 DEF Kfree


(* kmalloc of `size' with result r: nothing, or a block taken.             *)
Allocated(m, used, size, r) ==
  \/ r.ptr = Null /\ r.mem = m /\ r.used = used
  \/ \E a \in Listed(m) :
       /\ size > 0
       /\ r.ptr = a + Header
       /\ Taken(m, a, Align(size), r.mem)
       /\ r.used = used + Header + r.mem[a].size

LEMMA AlignIs ==
  ASSUME NEW size \in 0 .. SizeModulus - 1
  PROVE  Align(size) \in Nat /\ (NoWrap(size) => Align(size) >= size)
<1> DEFINE s == (size + 7) % SizeModulus
<1>1. SizeModulus \in Nat /\ SizeModulus > 0
  BY HeapAssumption
<1>2. s \in Nat /\ (size + 7 < SizeModulus => s = size + 7)
  BY <1>1
<1>3. Align(size) = s - (s % 8)
  BY DEF Align
<1> HIDE DEF s
<1>4. s - (s % 8) \in Nat /\ s - (s % 8) >= s - 7
  BY <1>2
<1> QED
  BY <1>2, <1>3, <1>4 DEF NoWrap

(* find_free_block returns a free block of the list that is large enough.  *)
LEMMA FirstFit ==
  ASSUME NEW m, NEW size, find_free_block(m, size) # Null
  PROVE  LET a == find_free_block(m, size) IN a \in Listed(m) /\ m[a].is_free /\ m[a].size >= size
<1> DEFINE fits == {a \in DOMAIN m : m[a].is_free /\ m[a].size >= size}
           found == Walk(m, fits) \cap fits
<1>1. found # {} /\ find_free_block(m, size) \in found
  BY DEF find_free_block
<1>2. Walk(m, fits) \subseteq Listed(m)
  BY DEF Walk, Listed
<1> QED
  BY <1>1, <1>2

LEMMA KmallocIs ==
  ASSUME NEW m, IsHeap(m), NEW used, NEW size \in 0 .. SizeModulus - 1
  PROVE  Allocated(m, used, size, Kmalloc(m, used, size))
<1> DEFINE n == Align(size)
           a == find_free_block(m, n)
           split == split_block(m, a, n)
           w == [split EXCEPT ![a].is_free = FALSE]
           r == Kmalloc(m, used, size)
<1>1. CASE size = 0 \/ a = Null
  <2>1. r = [ptr |-> Null, mem |-> m, used |-> used]
    BY <1>1 DEF Kmalloc
  <2> QED
    BY <2>1 DEF Allocated
<1>2. CASE size # 0 /\ a # Null
  <2>1. r = [ptr |-> a + Header, mem |-> w, used |-> used + Header + split[a].size]
    BY <1>2 DEF Kmalloc
  <2>2. a \in Listed(m) /\ m[a].is_free /\ m[a].size >= n /\ n \in Nat
    <3>1. n \in Nat
      BY AlignIs
    <3> HIDE DEF n
    <3> QED
      BY <1>2, <3>1, FirstFit
  <2>3. Taken(m, a, n, w)
    <3>1. CASE m[a].size >= n + Header + 16
      <4> HIDE DEF a, n
      <4> QED
        BY <2>2, <3>1, TakeSplit
    <3>2. CASE ~(m[a].size >= n + Header + 16)
      <4>1. split = m
        BY <3>2 DEF split_block, SplitWorthwhile
      <4> HIDE DEF a, n, split
      <4> QED
        BY <2>2, <4>1, TakeWhole
    <3> QED
      BY <3>1, <3>2
  <2>4. w[a].size = split[a].size
    <3> HIDE DEF split, a
    <3>1. a \in DOMAIN split /\ w[a] \in HeaderSet
      BY <2>3 DEF Taken, IsHeap, IsList, InUse, Typed
    <3> DEFINE h == split[a]
    <3>2. w[a] = [h EXCEPT !.is_free = FALSE]
      BY <3>1
    <3> HIDE DEF h, w
    <3>3. "size" \in DOMAIN h
      BY <3>1, <3>2 DEF HeaderSet
    <3>4. w[a].size = h.size
      BY <3>2, <3>3
    <3> QED
      BY <3>4 DEF h
  <2> HIDE DEF a, n, w, split
  <2>5. r.ptr = a + Header /\ r.mem = w /\ r.used = used + Header + w[a].size /\ size > 0
    BY <1>2, <2>1, <2>4
  <2> QED
    BY <2>2, <2>3, <2>5 DEF Allocated, n
<1> QED
  BY <1>1, <1>2


----------------------------------------------------------------------------

(* w has the blocks in use of m and one more, a.                           *)
OneMore(m, a, w) ==
  /\ IsHeap(m) /\ IsHeap(w)
  /\ a \in InUse(w) /\ InUse(m) = InUse(w) \ {a}
  /\ \A b \in InUse(m) : w[b] = m[b]

(* Its bytes are counted once: blocks do not overlap.                      *)
LEMMA Bytes ==
  ASSUME NEW m, NEW a, NEW w, OneMore(m, a, w)
  PROVE  /\ Cardinality(UsedBytes(m)) \in Nat
         /\ Cardinality(UsedBytes(w)) = Cardinality(UsedBytes(m)) + Header + w[a].size
<1> DEFINE I(x, b) == b .. b + Header + x[b].size - 1
           S == Listed(w)
<1>1. /\ IsHeap(m) /\ IsHeap(w) /\ a \in InUse(w) /\ InUse(m) = InUse(w) \ {a}
      /\ \A b \in InUse(m) : w[b] = m[b]
  BY DEF OneMore
<1>2. Typed(w) /\ IsList(w, S) /\ InUse(w) \subseteq S
  BY <1>1 DEF IsHeap, InUse
<1>3. \A b \in S : /\ b \in Nat /\ w[b].size \in Nat /\ End(w, b) \in Nat
                   /\ End(w, b) = b + 16 + w[b].size /\ End(w, b) <= HeapInitial
  BY <1>2, InHeap, HeapAssumption DEF End, Header
<1>4. \A b \in InUse(m) : I(m, b) = I(w, b)
  BY <1>1
<1>5. UsedBytes(m) = UNION {I(w, b) : b \in InUse(m)} /\ UsedBytes(w) = UNION {I(w, b) : b \in InUse(w)}
  BY ZenonT(30), <1>4 DEF UsedBytes
<1>6. UsedBytes(w) = UsedBytes(m) \cup I(w, a)
  <2> HIDE DEF I
  <2> QED
    BY <1>1, <1>5
<1>7. UsedBytes(m) \cap I(w, a) = {}
  <2>1. ASSUME NEW b \in InUse(m), NEW x \in I(w, b), x \in I(w, a) PROVE FALSE
    <3>1. b \in S /\ a \in S /\ b # a /\ b \in Nat /\ a \in Nat
      BY <1>1, <1>2, <1>3
    <3>2. b < a => End(w, b) <= a
      BY <1>2, <3>1 DEF IsList
    <3>3. a < b => End(w, a) <= b
      BY <1>2, <3>1 DEF IsList
    <3>4. x \in Int /\ x >= b /\ x < End(w, b) /\ x >= a /\ x < End(w, a)
      BY <1>3, <2>1, <3>1 DEF Header
    <3> QED
      BY <1>3, <3>1, <3>2, <3>3, <3>4
  <2> HIDE DEF I
  <2> QED
    BY <1>5, <2>1
<1>8. IsFiniteSet(UsedBytes(m))
  <2>1. IsFiniteSet(0 .. HeapInitial)
    BY FS_Interval, HeapAssumption
  <2>2. \A b \in InUse(m) : I(w, b) \subseteq 0 .. HeapInitial
    BY <1>1, <1>2, <1>3, HeapAssumption DEF Header
  <2> HIDE DEF I
  <2>3. UsedBytes(m) \subseteq 0 .. HeapInitial
    BY <1>5, <2>2
  <2> QED
    BY ZenonT(30), <2>1, <2>3, FS_Subset
<1>9. IsFiniteSet(I(w, a)) /\ Cardinality(I(w, a)) = Header + w[a].size
  <2> DEFINE last == a + Header + w[a].size - 1
  <2>1. a \in Nat /\ w[a].size \in Nat /\ last \in Int /\ last >= a /\ last - a + 1 = Header + w[a].size
    BY <1>1, <1>2, <1>3 DEF Header
  <2> HIDE DEF last
  <2>2. IsFiniteSet(a .. last) /\ Cardinality(a .. last) = last - a + 1
    <3>1. a \in Int /\ ~(a > last)
      BY <2>1
    <3>2. IsFiniteSet(a .. last) /\ Cardinality(a .. last) = IF a > last THEN 0 ELSE last - a + 1
      BY <2>1, <3>1, FS_Interval, ZenonT(30)
    <3> QED
      BY <3>1, <3>2
  <2> QED
    BY <2>1, <2>2 DEF last
<1>10. Cardinality(UsedBytes(m)) \in Nat
  BY <1>8, FS_CardinalityType
<1> HIDE DEF I
<1>11. Cardinality(UsedBytes(w)) =
         Cardinality(UsedBytes(m)) + Cardinality(I(w, a)) - Cardinality({})
  BY SMTT(30), <1>6, <1>7, <1>8, <1>9, FS_Union
<1>12. Cardinality({}) = 0 /\ w[a].size \in Nat
  BY <1>1, <1>2, <1>3, FS_EmptySet
<1> QED
  BY <1>9, <1>10, <1>11, <1>12 DEF Header

(* A heap, its count and the pointers its callers hold.                    *)
Good(m, used, h) ==
  /\ IsHeap(m) /\ Separate(m)
  /\ used = Header + Cardinality(UsedBytes(m)) /\ used \in Nat
  /\ DOMAIN h \subseteq 1 .. HeapInitial
  /\ InUse(m) = {p - Header : p \in DOMAIN h}
  /\ \A p \in DOMAIN h : h[p] \in Requests /\ (NoWrap(h[p]) => m[p - Header].size >= h[p])

LEMMA GoodWrite ==
  ASSUME NEW m, NEW used, NEW h, Good(m, used, h), NEW w, IsHeap(w), SameList(w, m)
  PROVE  Good(w, used, h)
<1>1. InUse(w) = InUse(m) /\ UsedBytes(w) = UsedBytes(m) /\ Separate(w)
  BY SameFacts DEF Good, IsHeap
<1>2. \A a \in InUse(m) : w[a] = m[a]
  BY DEF SameList, InUse
<1>3. \A p \in DOMAIN h : w[p - Header] = m[p - Header]
  BY <1>2 DEF Good
<1> QED
  BY SMTT(30), <1>1, <1>3 DEF Good


LEMMA GoodAlloc ==
  ASSUME NEW m, NEW used, NEW h, Good(m, used, h), NEW size \in Requests,
         NEW a \in Listed(m), NEW w, Taken(m, a, Align(size), w),
         NEW g, g = [p \in DOMAIN h \cup {a + Header} |-> IF p = a + Header THEN size ELSE h[p]]
  PROVE  /\ Good(w, used + Header + w[a].size, g)
         /\ a + Header \notin DOMAIN h
         /\ NoWrap(size) => w[a].size >= size
<1>1. /\ IsHeap(m) /\ Separate(m) /\ used = Header + Cardinality(UsedBytes(m)) /\ used \in Nat
      /\ DOMAIN h \subseteq 1 .. HeapInitial /\ InUse(m) = {p - Header : p \in DOMAIN h}
      /\ \A p \in DOMAIN h : h[p] \in Requests /\ (NoWrap(h[p]) => m[p - Header].size >= h[p])
  BY SMTT(30) DEF Good
<1>2. /\ IsHeap(w) /\ a \notin InUse(m) /\ InUse(w) = InUse(m) \cup {a}
      /\ \A b \in InUse(m) : w[b] = m[b]
      /\ w[a].size \in Nat /\ w[a].size >= Align(size) /\ End(w, a) <= HeapInitial
      /\ Separate(w)
  BY SMTT(30), <1>1 DEF Taken
<1>3. a \in Nat /\ a + 16 <= HeapInitial
  BY <1>1, InHeap, HeapAssumption DEF IsHeap
<1>4. size \in 0 .. SizeModulus - 1 /\ size \in Nat
  BY SMTT(30), RequestIs
<1>5. NoWrap(size) => w[a].size >= size
  BY <1>2, <1>4, AlignIs
<1> DEFINE ptr == a + Header
<1>p. ptr - Header = a /\ ptr \in 1 .. HeapInitial /\ DOMAIN g = DOMAIN h \cup {ptr}
  BY <1>3, HeapAssumption DEF Header
<1> HIDE DEF ptr
<1>6. ptr \notin DOMAIN h
  <2>1. ASSUME ptr \in DOMAIN h PROVE FALSE
    <3>1. \A p \in DOMAIN h : p - Header \in InUse(m)
      BY SMTT(30), <1>1
    <3> QED
      BY SMTT(30), <1>p, <1>2, <2>1, <3>1
  <2> QED
    BY SMTT(30), <2>1
<1>7. OneMore(m, a, w)
  BY SMTT(30), <1>1, <1>2 DEF OneMore
<1>8. /\ Cardinality(UsedBytes(m)) \in Nat
      /\ Cardinality(UsedBytes(w)) = Cardinality(UsedBytes(m)) + Header + w[a].size
  BY SMTT(30), <1>7, Bytes
<1>9. /\ used + Header + w[a].size = Header + Cardinality(UsedBytes(w))
      /\ used + Header + w[a].size \in Nat
  BY SMTT(30), <1>1, <1>2, <1>8 DEF Header
<1>10. DOMAIN g = DOMAIN h \cup {ptr} /\ DOMAIN g \subseteq 1 .. HeapInitial
  BY <1>p, <1>1
<1>11. InUse(w) = {p - Header : p \in DOMAIN g}
  <2>2. ASSUME NEW b \in InUse(w) PROVE \E p \in DOMAIN g : b = p - Header
    BY ZenonT(30), <1>p, <1>1, <1>2, <1>10, <2>2
  <2>3. ASSUME NEW p \in DOMAIN g PROVE p - Header \in InUse(w)
    <3>1. p \in DOMAIN h => p - Header \in InUse(m)
      BY SMTT(30), <1>1
    <3> QED
      BY SMTT(30), <1>p, <1>2, <1>10, <3>1
  <2> QED
    BY <2>2, <2>3
<1>12. ASSUME NEW p \in DOMAIN g
       PROVE  g[p] \in Requests /\ (NoWrap(g[p]) => w[p - Header].size >= g[p])
  <2>1. CASE p = ptr
    <3>1. g[p] = size /\ p - Header = a
      BY <1>p, <2>1 DEF ptr
    <3> QED
      BY <1>5, <3>1
  <2>2. CASE p \in DOMAIN h
    <3>1. g[p] = h[p] /\ p - Header \in InUse(m)
      BY <1>1, <1>6, <2>2 DEF ptr
    <3>2. w[p - Header] = m[p - Header]
      BY ZenonT(30), <1>2, <3>1
    <3> QED
      BY ZenonT(30), <1>1, <2>2, <3>1, <3>2
  <2> QED
    BY <1>10, <2>1, <2>2
<1>13. Good(w, used + Header + w[a].size, g)
  BY ZenonT(30), <1>2, <1>9, <1>10, <1>11, <1>12 DEF Good
<1> QED
  BY SMTT(30), <1>5, <1>6, <1>13 DEF ptr

LEMMA GoodFree ==
  ASSUME NEW m, NEW used, NEW h, Good(m, used, h), NEW ptr \in DOMAIN h,
         NEW w, Freed(m, ptr - Header, w),
         NEW g, g = [p \in DOMAIN h \ {ptr} |-> h[p]]
  PROVE  Good(w, used - (Header + m[ptr - Header].size), g)
<1> DEFINE a == ptr - Header
<1>1. /\ IsHeap(m) /\ used = Header + Cardinality(UsedBytes(m)) /\ used \in Nat
      /\ DOMAIN h \subseteq 1 .. HeapInitial /\ InUse(m) = {p - Header : p \in DOMAIN h}
      /\ \A p \in DOMAIN h : h[p] \in Requests /\ (NoWrap(h[p]) => m[p - Header].size >= h[p])
  BY DEF Good
<1>2. /\ IsHeap(w) /\ Separate(w) /\ InUse(w) = InUse(m) \ {a}
      /\ \A b \in InUse(w) : w[b] = m[b]
  BY SMTT(30) DEF Freed
<1>3. a \in InUse(m) /\ m[a].size \in Nat
  <2>1. a \in InUse(m)
    BY SMTT(30), <1>1
  <2> QED
    BY SMTT(30), <1>1, <2>1, InHeap DEF IsHeap, InUse
<1>4. OneMore(w, a, m)
  BY SMTT(30), <1>1, <1>2, <1>3 DEF OneMore
<1>5. /\ Cardinality(UsedBytes(w)) \in Nat
      /\ Cardinality(UsedBytes(m)) = Cardinality(UsedBytes(w)) + Header + m[a].size
  BY SMTT(30), <1>4, Bytes
<1> HIDE DEF a
<1>6. /\ used - (Header + m[a].size) = Header + Cardinality(UsedBytes(w))
      /\ used - (Header + m[a].size) \in Nat
  BY <1>1, <1>3, <1>5 DEF Header
<1>7. DOMAIN g = DOMAIN h \ {ptr} /\ DOMAIN g \subseteq 1 .. HeapInitial
  BY <1>1
<1>8. InUse(w) = {p - Header : p \in DOMAIN g}
  <2>1. \A p \in DOMAIN h : p - Header = a => p = ptr
    BY <1>1 DEF Header, a
  <2> QED
    BY <1>1, <1>2, <1>7, <2>1 DEF a
<1>9. ASSUME NEW p \in DOMAIN g
      PROVE  g[p] \in Requests /\ (NoWrap(g[p]) => w[p - Header].size >= g[p])
  <2>1. g[p] = h[p] /\ p \in DOMAIN h /\ w[p - Header] = m[p - Header]
    BY ZenonT(30), <1>2, <1>7, <1>8
  <2> QED
    BY <1>1, <2>1
<1>10. Good(w, used - (Header + m[a].size), g)
  BY ZenonT(30), <1>2, <1>6, <1>7, <1>8, <1>9 DEF Good
<1> QED
  BY SMTT(30), <1>10 DEF a


(* The callers' pointers after kmalloc has given them one more.            *)
With(h, ptr, size) == [p \in DOMAIN h \cup {ptr} |-> IF p = ptr THEN size ELSE h[p]]

(* What its caller knows of the result r of kmalloc.                       *)
Result(m, used, h, size, r) ==
  \/ r.ptr = Null /\ r.mem = m /\ r.used = used
  \/ /\ r.ptr # Null /\ r.ptr \in Nat /\ r.ptr \notin DOMAIN h
     /\ Good(r.mem, r.used, With(h, r.ptr, size))
     /\ r.ptr - Header \in Listed(r.mem) /\ r.mem[r.ptr - Header].size \in Nat
     /\ NoWrap(size) => r.mem[r.ptr - Header].size >= size

LEMMA KmallocGood ==
  ASSUME NEW m, NEW used, NEW h, Good(m, used, h), NEW size \in Requests
  PROVE  Result(m, used, h, size, Kmalloc(m, used, size))
<1> DEFINE r == Kmalloc(m, used, size)
<1>1. Allocated(m, used, size, r)
  BY KmallocIs, RequestIs DEF Good
<1> HIDE DEF r
<1>2. CASE r.ptr = Null /\ r.mem = m /\ r.used = used
  BY ZenonT(30), <1>2 DEF Result, r
<1>3. CASE \E a \in Listed(m) : /\ r.ptr = a + Header
                                /\ Taken(m, a, Align(size), r.mem)
                                /\ r.used = used + Header + r.mem[a].size
  <2>1. PICK a \in Listed(m) : /\ r.ptr = a + Header
                               /\ Taken(m, a, Align(size), r.mem)
                               /\ r.used = used + Header + r.mem[a].size
    BY <1>3
  <2> DEFINE g == With(h, r.ptr, size)
  <2>2. g = [p \in DOMAIN h \cup {a + Header} |-> IF p = a + Header THEN size ELSE h[p]]
    BY <2>1 DEF With
  <2> HIDE DEF g
  <2>3. /\ Good(r.mem, used + Header + r.mem[a].size, g)
        /\ a + Header \notin DOMAIN h
        /\ NoWrap(size) => r.mem[a].size >= size
    BY SMTT(30), <2>1, <2>2, GoodAlloc
  <2>4. a \in Nat
    BY InHeap DEF Good, IsHeap
  <2>5. r.ptr - Header = a /\ r.ptr \in Nat /\ r.ptr # Null
    BY SMTT(30), <2>1, <2>4 DEF Header, Null
  <2>6. a \in Listed(r.mem) /\ r.mem[a].size \in Nat
    BY <2>1 DEF Taken, InUse
  <2> QED
    BY ZenonT(30), <2>1, <2>3, <2>5, <2>6 DEF Result, g, r
<1> QED
  BY SMTT(30), <1>1, <1>2, <1>3 DEF Allocated

(* Bytes of a block that are written.                                      *)
LEMMA WriteGood ==
  ASSUME NEW m, NEW used, NEW h, Good(m, used, h), NEW ptr \in Nat, NEW n \in Nat,
         ptr - Header \in Listed(m), n <= m[ptr - Header].size
  PROVE  /\ Good(Overwrite(m, ptr, ptr + n - 1), used, h)
         /\ SameList(Overwrite(m, ptr, ptr + n - 1), m)
<1> DEFINE a == ptr - Header
           last == ptr + n - 1
<1>1. IsHeap(m) /\ a \in Listed(m) /\ Typed(m) /\ IsList(m, Listed(m))
  BY DEF Good, IsHeap
<1>2. m[a].size \in Nat /\ End(m, a) = ptr + m[a].size
  BY <1>1, InHeap DEF End, Header
<1>3. last \in Int /\ ptr >= a + Header /\ last < End(m, a)
  BY <1>2 DEF Header
<1> HIDE DEF a, last
<1>4. IsHeap(Overwrite(m, ptr, last)) /\ SameList(Overwrite(m, ptr, last), m)
  BY <1>1, <1>3, OverwriteKeeps
<1>5. Good(Overwrite(m, ptr, last), used, h)
  BY <1>4, GoodWrite
<1> QED
  BY <1>4, <1>5 DEF last

----------------------------------------------------------------------------

(* The inductive invariant.                                                *)
heapInv == Good(mem, heap_used, held)

(* What ListIsStable says of a step.                                       *)
Stable == DOMAIN held' = DOMAIN held => View(mem') = View(mem) /\ heap_used' = heap_used

LEMMA kmallocStep ==
  ASSUME heapInv, NEW size \in Requests, kmalloc(size)
  PROVE  heapInv' /\ Stable
<1> DEFINE r == Kmalloc(mem, heap_used, size)
<1>1. mem' = r.mem /\ heap_used' = r.used /\ Give(r.ptr, size)
  BY DEF kmalloc
<1>2. Result(mem, heap_used, held, size, r)
  BY KmallocGood DEF heapInv
<1> HIDE DEF r
<1>3. CASE r.ptr = Null
  <2>1. mem' = mem /\ heap_used' = heap_used /\ held' = held
    BY <1>1, <1>2, <1>3 DEF Result, Give
  <2> QED
    BY <2>1 DEF heapInv, Stable
<1>4. CASE r.ptr # Null
  <2>1. held' = With(held, r.ptr, size)
    BY <1>1, <1>4 DEF Give, With
  <2>2. r.ptr \notin DOMAIN held /\ Good(r.mem, r.used, With(held, r.ptr, size))
    BY <1>2, <1>4 DEF Result
  <2>3. heapInv'
    BY <1>1, <2>1, <2>2 DEF heapInv
  <2>4. r.ptr \in DOMAIN held'
    BY <2>1 DEF With
  <2> QED
    BY <2>2, <2>3, <2>4 DEF Stable
<1> QED
  BY <1>3, <1>4


LEMMA kzallocStep ==
  ASSUME heapInv, NEW size \in Requests, kzalloc(size)
  PROVE  heapInv' /\ Stable
<1> DEFINE r == Kmalloc(mem, heap_used, size)
           w == Overwrite(r.mem, r.ptr, r.ptr + size - 1)
<1>1. /\ mem' = (IF r.ptr = Null THEN r.mem ELSE w) /\ heap_used' = r.used
      /\ Give(r.ptr, size) /\ NoWrap(size)
  BY DEF kzalloc
<1>2. Result(mem, heap_used, held, size, r)
  BY KmallocGood DEF heapInv
<1> HIDE DEF r
<1>3. CASE r.ptr = Null
  <2>1. mem' = mem /\ heap_used' = heap_used /\ held' = held
    BY ZenonT(30), <1>1, <1>2, <1>3 DEF Result, Give
  <2> QED
    BY <2>1 DEF heapInv, Stable
<1>4. CASE r.ptr # Null
  <2>1. held' = With(held, r.ptr, size) /\ mem' = w
    BY ZenonT(30), <1>1, <1>4 DEF Give, With
  <2>2. /\ r.ptr \notin DOMAIN held /\ Good(r.mem, r.used, With(held, r.ptr, size))
        /\ r.ptr \in Nat /\ r.ptr - Header \in Listed(r.mem)
        /\ size <= r.mem[r.ptr - Header].size /\ size \in Nat
    BY <1>1, <1>2, <1>4, RequestIs DEF Result
  <2>3. Good(w, r.used, With(held, r.ptr, size))
    BY <2>2, WriteGood
  <2>4. heapInv'
    BY <1>1, <2>1, <2>3 DEF heapInv
  <2>5. r.ptr \in DOMAIN held'
    BY <2>1 DEF With
  <2> QED
    BY <2>2, <2>4, <2>5 DEF Stable
<1> QED
  BY <1>3, <1>4

(* kfree of a pointer that is held.                                        *)
LEMMA kfreeStep ==
  ASSUME heapInv, NEW ptr \in DOMAIN held, kfree(ptr)
  PROVE  heapInv' /\ Stable
<1> DEFINE r == Kfree(mem, heap_used, ptr)
<1>1. /\ mem' = r.mem /\ heap_used' = r.used
      /\ held' = [p \in DOMAIN held \ {ptr} |-> held[p]]
  BY DEF kfree
<1>2. IsHeap(mem) /\ ptr - Header \in InUse(mem)
  BY DEF heapInv, Good
<1>3. Freed(mem, ptr - Header, r.mem) /\ r.used = heap_used - (Header + mem[ptr - Header].size)
  BY <1>2, KfreeInUse
<1> HIDE DEF r
<1>4. Good(r.mem, heap_used - (Header + mem[ptr - Header].size), held')
  BY <1>1, <1>3, GoodFree DEF heapInv
<1>5. heapInv'
  BY <1>1, <1>3, <1>4 DEF heapInv
<1>6. ptr \notin DOMAIN held'
  BY <1>1
<1> QED
  BY <1>5, <1>6 DEF Stable

(* kfree of any other address.                                             *)
LEMMA FreeUnownedStep ==
  ASSUME heapInv, NEW a \in DOMAIN mem, FreeUnowned(a + Header)
  PROVE  heapInv' /\ Stable
<1> DEFINE ptr == a + Header
<1>1. ptr \in Int /\ ptr - Header = a
  BY DEF heapInv, Good, IsHeap, Typed, Header
<1> HIDE DEF ptr
<1>2. ptr \notin DOMAIN held /\ kfree(ptr)
  BY DEF FreeUnowned, ptr
<1>3. IsHeap(mem) /\ DOMAIN held \subseteq 1 .. HeapInitial
      /\ InUse(mem) = {p - Header : p \in DOMAIN held}
  BY DEF heapInv, Good
<1>4. a \notin InUse(mem)
  <2>1. SUFFICES ASSUME NEW p \in DOMAIN held, a = p - Header PROVE FALSE
    BY <1>3
  <2>2. p = ptr
    BY <1>1, <1>3, <2>1 DEF Header
  <2> QED
    BY <1>2, <2>2
<1>5. Kfree(mem, heap_used, ptr) = [mem |-> mem, used |-> heap_used]
  BY <1>1, <1>3, <1>4, KfreeOther
<1>6. /\ mem' = mem /\ heap_used' = heap_used
      /\ held' = [p \in DOMAIN held \ {ptr} |-> held[p]]
  BY <1>2, <1>5 DEF kfree
<1>7. DOMAIN held' = DOMAIN held /\ \A p \in DOMAIN held : held'[p] = held[p]
  BY <1>2, <1>6
<1>8. Good(mem, heap_used, held')
  BY <1>7 DEF heapInv, Good
<1> QED
  BY <1>6, <1>8 DEF heapInv, Stable

(* A caller writes to its block.                                           *)
LEMMA FillStep ==
  ASSUME heapInv, NEW ptr \in DOMAIN held, Fill(ptr)
  PROVE  heapInv' /\ Stable
<1> DEFINE w == Overwrite(mem, ptr, ptr + held[ptr] - 1)
<1>1. NoWrap(held[ptr]) /\ mem' = w /\ heap_used' = heap_used /\ held' = held
  BY DEF Fill
<1>2. /\ ptr \in Nat /\ ptr - Header \in Listed(mem) /\ held[ptr] \in Nat
      /\ held[ptr] <= mem[ptr - Header].size /\ mem[ptr - Header].size \in Nat
  <2>1. /\ ptr \in Nat /\ ptr - Header \in InUse(mem) /\ held[ptr] \in Requests
        /\ mem[ptr - Header].size >= held[ptr]
    BY <1>1, HeapAssumption DEF heapInv, Good
  <2>2. ptr - Header \in Listed(mem)
    BY SMTT(30), <2>1 DEF InUse
  <2>3. mem[ptr - Header].size \in Nat
    BY <2>2, InHeap DEF heapInv, Good, IsHeap
  <2>4. held[ptr] \in Nat
    BY <2>1, RequestIs
  <2> QED
    BY SMTT(30), <2>1, <2>2, <2>3, <2>4
<1>3. Good(w, heap_used, held) /\ SameList(w, mem)
  BY ZenonT(30), <1>2, WriteGood DEF heapInv
<1> HIDE DEF w
<1>4. View(w) = View(mem)
  BY ZenonT(30), <1>3, SameFacts DEF heapInv, Good, IsHeap
<1> QED
  BY <1>1, <1>3, <1>4 DEF heapInv, Stable


LEMMA kreallocStep ==
  ASSUME heapInv, NEW ptr \in DOMAIN held, NEW size \in Requests, krealloc(ptr, size)
  PROVE  heapInv' /\ Stable
<1> DEFINE block == mem[ptr - Header]
           r == Kmalloc(mem, heap_used, size)
           count == IF block.size < size THEN block.size ELSE size
           copied == Overwrite(r.mem, r.ptr, r.ptr + count - 1)
           f == Kfree(copied, r.used, ptr)
<1>1. /\ NoWrap(size)
      /\ \/ size = 0 /\ kfree(ptr)
         \/ /\ size > 0 /\ block.size >= size
            /\ held' = [held EXCEPT ![ptr] = size] /\ mem' = mem /\ heap_used' = heap_used
         \/ mem' = mem /\ heap_used' = heap_used /\ held' = held
         \/ /\ block.size < size /\ r.ptr # Null
            /\ mem' = f.mem /\ heap_used' = f.used
            /\ held' = [p \in (DOMAIN held \ {ptr}) \cup {r.ptr} |->
                          IF p = r.ptr THEN size ELSE held[p]]
  BY DEF krealloc, vars
<1>2. CASE size = 0 /\ kfree(ptr)
  BY <1>2, kfreeStep
<1>3. CASE /\ size > 0 /\ block.size >= size
           /\ held' = [held EXCEPT ![ptr] = size] /\ mem' = mem /\ heap_used' = heap_used
  <2>1. /\ DOMAIN held' = DOMAIN held /\ held'[ptr] = size
        /\ \A p \in DOMAIN held \ {ptr} : held'[p] = held[p]
    BY <1>3
  <2>2. ASSUME NEW p \in DOMAIN held
        PROVE  held'[p] \in Requests /\ (NoWrap(held'[p]) => mem[p - Header].size >= held'[p])
    <3>1. CASE p = ptr
      BY <1>3, <2>1, <3>1
    <3>2. CASE p # ptr
      BY SMTT(30), <2>1, <3>2 DEF heapInv, Good
    <3> QED
      BY <3>1, <3>2
  <2>3. Good(mem, heap_used, held')
    BY <2>1, <2>2 DEF heapInv, Good
  <2> QED
    BY <1>3, <2>3 DEF heapInv, Stable
<1>4. CASE mem' = mem /\ heap_used' = heap_used /\ held' = held
  BY <1>4 DEF heapInv, Stable
<1>5. CASE /\ block.size < size /\ r.ptr # Null
           /\ mem' = f.mem /\ heap_used' = f.used
           /\ held' = [p \in (DOMAIN held \ {ptr}) \cup {r.ptr} |->
                         IF p = r.ptr THEN size ELSE held[p]]
  <2> DEFINE h == With(held, r.ptr, size)
  <2>1. Result(mem, heap_used, held, size, r)
    BY ZenonT(30), KmallocGood DEF heapInv
  <2>2. block.size \in Nat /\ size \in Nat /\ count = block.size
    <3>1. ptr - Header \in Listed(mem)
      BY ZenonT(30) DEF heapInv, Good, InUse
    <3>2. block.size \in Nat
      BY ZenonT(30), <3>1, InHeap DEF heapInv, Good, IsHeap
    <3> QED
      BY <1>5, <3>2, RequestIs
  <2> HIDE DEF r, block, count
  <2>3. /\ r.ptr \in Nat /\ r.ptr \notin DOMAIN held /\ Good(r.mem, r.used, h)
        /\ r.ptr - Header \in Listed(r.mem) /\ count \in Nat
        /\ count <= r.mem[r.ptr - Header].size
    BY SMTT(30), <1>1, <1>5, <2>1, <2>2 DEF Result
  <2> HIDE DEF h
  <2>4. Good(copied, r.used, h)
    BY <2>3, WriteGood
  <2> HIDE DEF copied
  <2>5. DOMAIN h = DOMAIN held \cup {r.ptr} /\ ptr \in DOMAIN h /\ ptr # r.ptr
    BY ZenonT(30), <2>3 DEF h, With
  <2>6. IsHeap(copied) /\ ptr - Header \in InUse(copied)
    BY ZenonT(30), <2>4, <2>5 DEF Good
  <2>7. /\ Freed(copied, ptr - Header, f.mem)
        /\ f.used = r.used - (Header + copied[ptr - Header].size)
    BY SMTT(30), <2>6, KfreeInUse
  <2> HIDE DEF f
  <2>8. held' = [p \in DOMAIN h \ {ptr} |-> h[p]]
    <3>1. DOMAIN h \ {ptr} = (DOMAIN held \ {ptr}) \cup {r.ptr}
      BY <2>5
    <3>2. \A p \in DOMAIN h : h[p] = IF p = r.ptr THEN size ELSE held[p]
      BY DEF h, With
    <3> QED
      BY <1>5, <3>1, <3>2
  <2>9. Good(f.mem, r.used - (Header + copied[ptr - Header].size), held')
    BY ZenonT(30), <2>4, <2>5, <2>7, <2>8, GoodFree
  <2>10. heapInv'
    BY SMTT(30), <1>5, <2>7, <2>9 DEF heapInv
  <2>11. r.ptr \in DOMAIN held'
    BY <1>5
  <2> QED
    BY <2>3, <2>10, <2>11 DEF Stable
<1> QED
  BY ZenonT(30), <1>1, <1>2, <1>3, <1>4, <1>5

LEMMA heapStep ==
  ASSUME heapInv, [Next]_vars
  PROVE  heapInv' /\ Stable
<1>1. CASE UNCHANGED vars
  BY SMTT(30), <1>1 DEF heapInv, Stable, vars
<1>2. CASE Next
  BY SMTT(30), <1>2, kmallocStep, kzallocStep, kfreeStep, FillStep, kreallocStep, FreeUnownedStep DEF Next
<1> QED
  BY <1>1, <1>2


LEMMA heapInit ==
  ASSUME Init
  PROVE  heapInv
<1> DEFINE first == [size |-> HeapInitial - Header, is_free |-> TRUE, next |-> Null]
<1>1. /\ first \in HeaderSet /\ first.size = HeapInitial - 16
      /\ first.next = Null /\ first.is_free
  BY HeapAssumption DEF HeaderSet, Header, Null
<1>2. mem = [a \in {0} |-> first] /\ heap_used = 16 /\ held = [p \in {} |-> 0]
  BY DEF Init, HEAP_START, Header
<1> HIDE DEF first
<1>3. Typed(mem) /\ DOMAIN mem = {0} /\ mem[0] = first
  BY <1>1, <1>2, HeapAssumption DEF Typed
<1>4. End(mem, 0) = HeapInitial
  BY <1>1, <1>3, HeapAssumption DEF End, Header
<1>5. IsList(mem, {0})
  BY <1>1, <1>3, <1>4 DEF IsList, HEAP_START
<1>6. IsHeap(mem) /\ Listed(mem) = {0}
  BY <1>3, <1>5, HeapIs
<1>7. InUse(mem) = {} /\ Separate(mem)
  BY <1>1, <1>3, <1>6 DEF InUse, Separate
<1>8. UsedBytes(mem) = {}
  BY <1>7 DEF UsedBytes
<1>9. Cardinality(UsedBytes(mem)) = 0
  BY <1>8, FS_EmptySet
<1>10. heap_used = Header + Cardinality(UsedBytes(mem)) /\ heap_used \in Nat
  BY <1>2, <1>9 DEF Header
<1>11. DOMAIN held = {}
  BY <1>2
<1> QED
  BY SMTT(30), <1>6, <1>7, <1>10, <1>11 DEF heapInv, Good

(* The list of the heap stays well formed through every call               *)
(* (heap.c:20-236).                                                        *)
THEOREM HeapInvariant == Spec => []heapInv
<1>1. heapInv /\ [Next]_vars => heapInv'
  BY heapStep
<1> QED
  BY heapInit, <1>1, PTL DEF Spec

(* Headers and pointers stay in the heap, and heap_used is never negative: *)
(* kfree takes off no more than kmalloc put on (heap.c:134, 184).          *)
THEOREM HeapTypes == Spec => []TypeOK
<1>1. heapInv => TypeOK
  <2> SUFFICES ASSUME heapInv PROVE TypeOK
    OBVIOUS
  <2>1. Typed(mem) /\ heap_used \in Nat /\ DOMAIN held \subseteq 1 .. HeapInitial
        /\ \A p \in DOMAIN held : held[p] \in Requests
    BY SMTT(30) DEF heapInv, Good, IsHeap
  <2> QED
    BY <2>1 DEF TypeOK, Typed, HeaderSet
<1> QED
  BY <1>1, HeapInvariant, PTL

(* The blocks of the list fill the heap without gap or overlap, however    *)
(* they were split and merged (heap.c:79-108).                             *)
THEOREM BlocksTile == Spec => []Tiling
<1>1. heapInv => Tiling
  <2> SUFFICES ASSUME heapInv PROVE Tiling
    OBVIOUS
  <2>1. IsList(mem, Listed(mem))
    BY ZenonT(30) DEF heapInv, Good, IsHeap
  <2> QED
    BY <2>1 DEF Tiling, IsList, End
<1> QED
  BY <1>1, HeapInvariant, PTL

(* Two free blocks are never neighbours: one pass of merge_free_blocks     *)
(* after each kfree is enough (heap.c:96-108, 187).                        *)
THEOREM FreeBlocksMerged == Spec => []Coalesced
<1>1. heapInv => Coalesced
  BY DEF heapInv, Good, Separate, Coalesced
<1> QED
  BY <1>1, HeapInvariant, PTL

(* The blocks in use are those the callers hold, each with room for what   *)
(* was asked for (heap.c:119, 129-137, 183).                               *)
THEOREM BlocksOwned == Spec => []OwnedBlocks
<1>1. heapInv => OwnedBlocks
  BY ZenonT(30) DEF heapInv, Good, OwnedBlocks
<1> QED
  BY <1>1, HeapInvariant, PTL

(* heap_used is the number of bytes in blocks in use, and one header       *)
(* (heap.c:34, 134, 184).                                                  *)
THEOREM UsedCounted == Spec => []Accounting
<1>1. heapInv => Accounting
  BY DEF heapInv, Good, Accounting
<1> QED
  BY <1>1, HeapInvariant, PTL

(* A call that gives out and takes back no pointer leaves the list and the *)
(* count alone: a failed allocation, a second kfree, a krealloc in place,  *)
(* a write by an owner (heap.c:169-180).                                   *)
THEOREM HeapStable == Spec => ListIsStable
<1>1. heapInv /\ [Next]_vars =>
        [DOMAIN held' = DOMAIN held => View(mem') = View(mem) /\ heap_used' = heap_used]_vars
  BY heapStep DEF Stable
<1> QED
  BY <1>1, HeapInvariant, PTL DEF Spec, ListIsStable

=============================================================================
