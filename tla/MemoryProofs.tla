---------------------------- MODULE MemoryProofs ---------------------------
(* What the stores of vmm.c do to the page tables, for every size of       *)
(* tables and directory (a new table, a page's entry, a directory entry's  *)
(* flag), and the physical memory manager: type correctness, the           *)
(* accounting of pmm.c, the exclusive ownership and the origin of frames,  *)
(* the kernel's own frames and what a failure means, for every frame size, *)
(* word size, kernel size and memory map without overlaps.                 *)
EXTENDS Vmm, FiniteSetTheorems, TLAPS

Dir == 0 .. TablesPerDir - 1
Offsets == 0 .. PagesPerTable - 1
AllPages == 0 .. TablesPerDir * PagesPerTable - 1
EntrySet == [frame : Nat, flags : SUBSET Flags]

(* A page number and its two indices.                                      *)
LEMMA PageParts ==
  ASSUME NEW v \in Nat
  PROVE  /\ VMM_PD_INDEX(v) \in Nat /\ VMM_PT_INDEX(v) \in Offsets
         /\ v = VMM_PD_INDEX(v) * PagesPerTable + VMM_PT_INDEX(v)
<1>1. PagesPerTable \in Nat \ {0}
  BY VmmAssumption
<1>2. PICK q \in Nat, r \in 0 .. PagesPerTable - 1 :
        v = q * PagesPerTable + r /\ v \div PagesPerTable = q /\ v % PagesPerTable = r
  BY <1>1
<1> QED
  BY <1>2 DEF VMM_PD_INDEX, VMM_PT_INDEX, Offsets

LEMMA PageIndex ==
  ASSUME NEW n \in Nat, NEW v \in Nat
  PROVE  v < n * PagesPerTable <=> VMM_PD_INDEX(v) < n
<1> DEFINE P == PagesPerTable
           q == VMM_PD_INDEX(v)
           r == VMM_PT_INDEX(v)
<1>1. P \in Nat \ {0} /\ q \in Nat /\ r \in 0 .. P - 1 /\ v = q * P + r
  BY VmmAssumption, PageParts DEF Offsets
<1> HIDE DEF P, q, r
<1>2. ASSUME q < n PROVE v < n * P
  <2>1. PICK k \in Nat : n = q + 1 + k
    BY <1>1, <1>2
  <2>2. n * P = q * P + P + k * P /\ k * P \in Nat
    BY <1>1, <2>1
  <2> QED
    BY <1>1, <2>2
<1>3. ASSUME n <= q PROVE n * P <= v
  <2>1. PICK k \in Nat : q = n + k
    BY <1>1, <1>3
  <2>2. q * P = n * P + k * P /\ k * P \in Nat
    BY <1>1, <2>1
  <2> QED
    BY <1>1, <2>2
<1>4. n * P \in Nat /\ v \in Nat
  BY <1>1
<1> QED
  BY <1>1, <1>2, <1>3, <1>4 DEF P, q

LEMMA PageInDir ==
  ASSUME NEW v \in AllPages
  PROVE  /\ v \in Nat /\ VMM_PD_INDEX(v) \in Dir /\ VMM_PT_INDEX(v) \in Offsets
<1>1. TablesPerDir \in Nat /\ v \in Nat /\ v < TablesPerDir * PagesPerTable
  BY VmmAssumption DEF AllPages
<1>2. VMM_PD_INDEX(v) < TablesPerDir
  BY <1>1, PageIndex
<1> QED
  BY <1>1, <1>2, PageParts DEF Dir

LEMMA SamePage ==
  ASSUME NEW v \in AllPages, NEW w \in AllPages,
         VMM_PD_INDEX(v) = VMM_PD_INDEX(w), VMM_PT_INDEX(v) = VMM_PT_INDEX(w)
  PROVE  v = w
  BY PageInDir, PageParts

----------------------------------------------------------------------------

(* The directory dir and the tables tabs fit together: what is present has *)
(* a table of its own, and a page that ring 3 may use lies in a table that *)
(* ring 3 may use, so that marking a directory entry opens no other page.  *)
Structure(dir, tabs) ==
  /\ dir \in [Dir -> EntrySet]
  /\ \A f \in DOMAIN tabs : tabs[f] \in [Offsets -> EntrySet]
  /\ \A i \in Dir : Present(dir[i]) => dir[i].frame \in DOMAIN tabs
  /\ \A i, j \in Dir :
       Present(dir[i]) /\ Present(dir[j]) /\ i # j => dir[i].frame # dir[j].frame
  /\ \A i \in Dir : Present(dir[i]) =>
       \A j \in Offsets :
         "user" \in tabs[dir[i].frame][j].flags => "user" \in dir[i].flags

(* The entry of page w in them, and what the MMU makes of it.              *)
PteIn(dir, tabs, w) ==
  IF Present(dir[VMM_PD_INDEX(w)]) THEN tabs[dir[VMM_PD_INDEX(w)].frame][VMM_PT_INDEX(w)] ELSE Zero

WalkIn(dir, tabs, w) ==
  LET e == PteIn(dir, tabs, w) IN
  Entry(e.frame, {flag \in e.flags : flag = "user" => flag \in dir[VMM_PD_INDEX(w)].flags})

LEMMA PteHere ==
  ASSUME NEW w
  PROVE  /\ Pte(w) = PteIn(page_directory, tables, w)
         /\ Walk(w) = WalkIn(page_directory, tables, w)
  BY DEF Pte, PteIn, Table, Walk, WalkIn

(* In a structure the flags of the page's entry alone decide.              *)
LEMMA WalkIsPte ==
  ASSUME NEW dir, NEW tabs, Structure(dir, tabs), NEW w \in AllPages
  PROVE  /\ PteIn(dir, tabs, w) \in EntrySet
         /\ WalkIn(dir, tabs, w) = PteIn(dir, tabs, w)
<1> DEFINE i == VMM_PD_INDEX(w)
           j == VMM_PT_INDEX(w)
           e == PteIn(dir, tabs, w)
<1>1. i \in Dir /\ j \in Offsets
  BY PageInDir
<1>2. Zero \in EntrySet /\ Zero.flags = {}
  BY DEF Zero, Entry, EntrySet
<1>3. e \in EntrySet /\ ("user" \in e.flags => "user" \in dir[i].flags)
  BY <1>1, <1>2 DEF Structure, PteIn
<1>4. WalkIn(dir, tabs, w) = Entry(e.frame, {flag \in e.flags : flag = "user" => flag \in dir[i].flags})
  BY DEF WalkIn
<1> HIDE DEF e, i
<1>5. {flag \in e.flags : flag = "user" => flag \in dir[i].flags} = e.flags
  BY <1>3
<1>6. Entry(e.frame, e.flags) = e
  BY <1>3 DEF EntrySet, Entry
<1> QED
  BY <1>3, <1>4, <1>5, <1>6 DEF e

(* A table in frame f for index i, which had none.                         *)
IsNewTable(dir, tabs, i, f, content, dir2, tabs2) ==
  /\ Structure(dir, tabs) /\ i \in Dir /\ ~Present(dir[i])
  /\ f \in Nat /\ \A k \in Dir : Present(dir[k]) => dir[k].frame # f
  /\ content \in [Offsets -> EntrySet] /\ \A j \in Offsets : "user" \notin content[j].flags
  /\ dir2 = [dir EXCEPT ![i] = Entry(f, {"present", "writable"})]
  /\ tabs2 = [g \in DOMAIN tabs \cup {f} |-> IF g = f THEN content ELSE tabs[g]]

TableAdded(dir, tabs, i, f, content, dir2, tabs2) ==
  /\ Structure(dir2, tabs2) /\ dir2[i].frame = f
  /\ \A k \in Dir : Present(dir2[k]) <=> k = i \/ Present(dir[k])
  /\ \A k \in Dir \ {i} : dir2[k] = dir[k]
  /\ \A w \in AllPages :
       PteIn(dir2, tabs2, w) =
         IF VMM_PD_INDEX(w) = i THEN content[VMM_PT_INDEX(w)] ELSE PteIn(dir, tabs, w)

LEMMA NewTable ==
  ASSUME NEW dir, NEW tabs, NEW i, NEW f, NEW content, NEW dir2, NEW tabs2,
         IsNewTable(dir, tabs, i, f, content, dir2, tabs2)
  PROVE  TableAdded(dir, tabs, i, f, content, dir2, tabs2)
<1> DEFINE new == Entry(f, {"present", "writable"})
<1>0. /\ Structure(dir, tabs) /\ i \in Dir /\ ~Present(dir[i])
      /\ f \in Nat /\ \A k \in Dir : Present(dir[k]) => dir[k].frame # f
      /\ content \in [Offsets -> EntrySet] /\ \A j \in Offsets : "user" \notin content[j].flags
  BY DEF IsNewTable
<1> USE <1>0
<1>1. new \in EntrySet /\ Present(new) /\ new.frame = f
  BY DEF Entry, EntrySet, Flags, Present
<1>2. dir2 \in [Dir -> EntrySet] /\ dir2[i] = new /\ \A k \in Dir \ {i} : dir2[k] = dir[k]
  BY <1>1 DEF Structure, IsNewTable
<1> HIDE DEF new
<1>3. /\ DOMAIN tabs2 = DOMAIN tabs \cup {f} /\ tabs2[f] = content
      /\ \A g \in DOMAIN tabs : g # f => tabs2[g] = tabs[g]
  BY DEF IsNewTable
<1>4. \A k \in Dir \ {i} : Present(dir[k]) => dir2[k].frame \in DOMAIN tabs /\ dir2[k].frame # f
  BY <1>2 DEF Structure
<1>5. \A k \in Dir : Present(dir2[k]) <=> k = i \/ Present(dir[k])
  BY <1>1, <1>2
<1>6. \A g \in DOMAIN tabs2 : tabs2[g] \in [Offsets -> EntrySet]
  BY <1>3 DEF Structure
<1>7. \A k, m \in Dir :
        Present(dir2[k]) /\ Present(dir2[m]) /\ k # m => dir2[k].frame # dir2[m].frame
  BY <1>1, <1>2, <1>4, <1>5 DEF Structure
<1>8. ASSUME NEW k \in Dir, Present(dir2[k]), NEW j \in Offsets,
             "user" \in tabs2[dir2[k].frame][j].flags
      PROVE  "user" \in dir2[k].flags
  <2>1. CASE k = i
    BY <1>1, <1>2, <1>3, <1>8, <2>1
  <2>2. CASE k # i
    BY <1>2, <1>3, <1>4, <1>5, <1>8, <2>2 DEF Structure
  <2> QED
    BY <2>1, <2>2
<1>9. \A k \in Dir : Present(dir2[k]) => dir2[k].frame \in DOMAIN tabs2
  BY <1>1, <1>2, <1>3, <1>4, <1>5
<1>10. Structure(dir2, tabs2)
  BY <1>2, <1>6, <1>7, <1>8, <1>9 DEF Structure
<1>11. ASSUME NEW w \in AllPages
       PROVE  PteIn(dir2, tabs2, w) =
                IF VMM_PD_INDEX(w) = i THEN content[VMM_PT_INDEX(w)] ELSE PteIn(dir, tabs, w)
  <2>1. VMM_PD_INDEX(w) \in Dir
    BY PageInDir
  <2>2. CASE VMM_PD_INDEX(w) = i
    BY <1>1, <1>2, <1>3, <2>2 DEF PteIn
  <2>3. CASE VMM_PD_INDEX(w) # i
    BY <1>2, <1>3, <1>4, <1>5, <2>1, <2>3 DEF PteIn
  <2> QED
    BY <2>2, <2>3
<1> QED
  BY <1>1, <1>2, <1>5, <1>10, <1>11 DEF TableAdded

(* The directory entry of page v gets the flags X, and its page entry is e.*)
IsFlagged(dir, i, X, dir2) ==
  X \subseteq {"user"} /\ dir2 = [dir EXCEPT ![i].flags = @ \cup X]

IsChanged(dir, tabs, v, X, e, dir2, tabs2) ==
  LET i == VMM_PD_INDEX(v) IN
  /\ Structure(dir, tabs) /\ v \in AllPages /\ Present(dir[i])
  /\ e \in EntrySet /\ ("user" \in e.flags => "user" \in dir[i].flags \cup X)
  /\ IsFlagged(dir, i, X, dir2)
  /\ tabs2 = [tabs EXCEPT ![dir[i].frame][VMM_PT_INDEX(v)] = e]

PageChanged(dir, tabs, v, e, dir2, tabs2) ==
  /\ Structure(dir2, tabs2) /\ DOMAIN tabs2 = DOMAIN tabs
  /\ \A k \in Dir : dir2[k].frame = dir[k].frame /\ (Present(dir2[k]) <=> Present(dir[k]))
  /\ PteIn(dir2, tabs2, v) = e
  /\ \A w \in AllPages \ {v} : PteIn(dir2, tabs2, w) = PteIn(dir, tabs, w)

LEMMA EntryChange ==
  ASSUME NEW dir, NEW tabs, NEW v, NEW X, NEW e, NEW dir2, NEW tabs2,
         IsChanged(dir, tabs, v, X, e, dir2, tabs2)
  PROVE  PageChanged(dir, tabs, v, e, dir2, tabs2)
<1> DEFINE i == VMM_PD_INDEX(v)
           j == VMM_PT_INDEX(v)
           pt == dir[i].frame
<1> v \in AllPages /\ e \in EntrySet /\ Structure(dir, tabs)
  BY DEF IsChanged
<1>0. /\ X \subseteq {"user"} /\ dir2 = [dir EXCEPT ![i].flags = @ \cup X]
      /\ tabs2 = [tabs EXCEPT ![pt][j] = e]
      /\ Present(dir[i]) /\ ("user" \in e.flags => "user" \in dir[i].flags \cup X)
  BY DEF IsFlagged, IsChanged
<1>1. i \in Dir /\ j \in Offsets
  BY PageInDir
<1> HIDE DEF i
<1>2. /\ dir2 \in [Dir -> EntrySet]
      /\ \A k \in Dir \ {i} : dir2[k] = dir[k]
      /\ dir2[i].frame = dir[i].frame /\ dir2[i].flags = dir[i].flags \cup X
  <2>1. dir \in [Dir -> EntrySet] /\ dir[i] \in EntrySet
    BY <1>1 DEF Structure
  <2>2. [dir[i] EXCEPT !.flags = @ \cup X] \in EntrySet
    BY <1>0, <2>1 DEF EntrySet, Flags
  <2> QED
    BY <1>0, <1>1, <2>1, <2>2 DEF EntrySet
<1>3. pt \in DOMAIN tabs /\ tabs[pt] \in [Offsets -> EntrySet]
  BY <1>0, <1>1 DEF Structure
<1> HIDE DEF j, pt
<1>4. /\ DOMAIN tabs2 = DOMAIN tabs
      /\ tabs2[pt] = [tabs[pt] EXCEPT ![j] = e]
      /\ \A g \in DOMAIN tabs : g # pt => tabs2[g] = tabs[g]
  BY <1>0, <1>3
<1>5. tabs2[pt] \in [Offsets -> EntrySet] /\ tabs2[pt][j] = e
      /\ \A k \in Offsets \ {j} : tabs2[pt][k] = tabs[pt][k]
  BY <1>1, <1>3, <1>4
<1>6. \A k \in Dir : dir2[k].frame = dir[k].frame /\ (Present(dir2[k]) <=> Present(dir[k]))
  <2>1. "present" \in dir[i].flags \cup X <=> "present" \in dir[i].flags
    BY <1>0
  <2> QED
    BY <1>2, <2>1 DEF Present
<1>7. \A g \in DOMAIN tabs2 : tabs2[g] \in [Offsets -> EntrySet]
  BY <1>4, <1>5 DEF Structure
<1>8. ASSUME NEW k \in Dir, Present(dir2[k]), NEW m \in Offsets,
             "user" \in tabs2[dir2[k].frame][m].flags
      PROVE  "user" \in dir2[k].flags
  <2>0. Present(dir[k]) /\ dir2[k].frame = dir[k].frame /\ dir[k].frame \in DOMAIN tabs
    BY <1>6, <1>8 DEF Structure
  <2>1. CASE k # i
    <3>1. dir[k].frame # pt
      BY <1>0, <1>1, <2>0, <2>1 DEF Structure, pt
    <3> QED
      BY SMTT(30), <1>2, <1>4, <1>8, <2>0, <2>1, <3>1 DEF Structure
  <2>2. CASE k = i /\ m = j
    BY SMTT(30), <1>0, <1>2, <1>5, <1>8, <2>0, <2>2 DEF pt
  <2>3. CASE k = i /\ m # j
    <3>1. "user" \in tabs[pt][m].flags
      BY SMTT(30), <1>5, <1>8, <2>0, <2>3 DEF pt
    <3> QED
      BY SMTT(30), <1>2, <2>0, <2>3, <3>1 DEF Structure, pt
  <2> QED
    BY SMTT(30), <2>1, <2>2, <2>3
<1>9. Structure(dir2, tabs2)
  BY <1>2, <1>4, <1>6, <1>7, <1>8 DEF Structure
<1>10. PteIn(dir2, tabs2, v) = e
  BY ZenonT(30), <1>0, <1>1, <1>5, <1>6 DEF PteIn, i, j, pt
<1>11. ASSUME NEW w \in AllPages \ {v}
       PROVE  PteIn(dir2, tabs2, w) = PteIn(dir, tabs, w)
  <2>1. VMM_PD_INDEX(w) \in Dir /\ VMM_PT_INDEX(w) \in Offsets
    BY SMTT(30), PageInDir
  <2>2. CASE VMM_PD_INDEX(w) = i
    <3>1. VMM_PT_INDEX(w) # j
      BY <2>2, SamePage DEF i, j
    <3> QED
      BY <1>5, <1>6, <2>1, <2>2, <3>1 DEF PteIn, pt
  <2>3. CASE VMM_PD_INDEX(w) # i
    <3>1. Present(dir[VMM_PD_INDEX(w)]) =>
            dir[VMM_PD_INDEX(w)].frame # pt /\ dir[VMM_PD_INDEX(w)].frame \in DOMAIN tabs
      BY <1>0, <1>1, <2>1, <2>3 DEF Structure, pt
    <3> QED
      BY <1>4, <1>6, <2>1, <2>3, <3>1 DEF PteIn
  <2> QED
    BY <2>2, <2>3
<1> QED
  BY <1>4, <1>6, <1>9, <1>10, <1>11 DEF PageChanged

(* Directory entry i gets the flags X, and no page changes.                *)
PagesSame(dir, tabs, dir2) ==
  /\ Structure(dir2, tabs)
  /\ \A k \in Dir : dir2[k].frame = dir[k].frame /\ (Present(dir2[k]) <=> Present(dir[k]))
  /\ \A w \in AllPages : PteIn(dir2, tabs, w) = PteIn(dir, tabs, w)

LEMMA FlagChange ==
  ASSUME NEW dir, NEW tabs, Structure(dir, tabs), NEW i \in Dir, NEW X,
         NEW dir2, IsFlagged(dir, i, X, dir2)
  PROVE  PagesSame(dir, tabs, dir2)
<1>1. /\ dir2 \in [Dir -> EntrySet]
      /\ \A k \in Dir \ {i} : dir2[k] = dir[k]
      /\ dir2[i].frame = dir[i].frame /\ dir2[i].flags = dir[i].flags \cup X
  <2>1. dir \in [Dir -> EntrySet] /\ dir[i] \in EntrySet
    BY DEF Structure
  <2>2. [dir[i] EXCEPT !.flags = @ \cup X] \in EntrySet
    BY <2>1 DEF EntrySet, Flags, IsFlagged
  <2> QED
    BY <2>1, <2>2 DEF EntrySet, IsFlagged
<1>2. \A k \in Dir : dir2[k].frame = dir[k].frame /\ (Present(dir2[k]) <=> Present(dir[k]))
  <2>1. "present" \in dir[i].flags \cup X <=> "present" \in dir[i].flags
    BY DEF IsFlagged
  <2> QED
    BY <1>1, <2>1 DEF Present
<1>3. \A k \in Dir : "user" \in dir[k].flags => "user" \in dir2[k].flags
  BY <1>1
<1>4. ASSUME NEW k \in Dir, Present(dir2[k]), NEW j \in Offsets,
             "user" \in tabs[dir2[k].frame][j].flags
      PROVE  "user" \in dir2[k].flags
  <2>1. Present(dir[k]) /\ "user" \in tabs[dir[k].frame][j].flags
    BY <1>2, <1>4
  <2> QED
    BY <1>3, <2>1 DEF Structure
<1>5. \A k, m \in Dir :
        Present(dir2[k]) /\ Present(dir2[m]) /\ k # m => dir2[k].frame # dir2[m].frame
  BY <1>2 DEF Structure
<1>6. \A k \in Dir : Present(dir2[k]) => dir2[k].frame \in DOMAIN tabs
  BY <1>2 DEF Structure
<1>7. \A f \in DOMAIN tabs : tabs[f] \in [Offsets -> EntrySet]
  BY DEF Structure
<1>8. Structure(dir2, tabs)
  BY <1>1, <1>4, <1>5, <1>6, <1>7 DEF Structure
<1>9. ASSUME NEW w \in AllPages
      PROVE  PteIn(dir2, tabs, w) = PteIn(dir, tabs, w)
  <2>1. VMM_PD_INDEX(w) \in Dir
    BY PageInDir
  <2>2. dir2[VMM_PD_INDEX(w)].frame = dir[VMM_PD_INDEX(w)].frame
    BY <1>2, <2>1
  <2>3. Present(dir2[VMM_PD_INDEX(w)]) <=> Present(dir[VMM_PD_INDEX(w)])
    BY <1>2, <2>1
  <2>4. CASE Present(dir[VMM_PD_INDEX(w)])
    BY ONLY <2>2, <2>3, <2>4 DEF PteIn
  <2>5. CASE ~Present(dir[VMM_PD_INDEX(w)])
    BY ONLY <2>3, <2>5 DEF PteIn
  <2> QED
    BY <2>4, <2>5
<1> QED
  BY <1>2, <1>8, <1>9 DEF PagesSame

----------------------------------------------------------------------------

(* Entry i of the current directory names a page table.                    *)
HasTable(i) == Present(page_directory[i])

(* A page's entry in the next state, by the next directory and tables.     *)
LEMMA PteNext ==
  ASSUME NEW w
  PROVE  /\ Pte(w)' = PteIn(page_directory', tables', w)
         /\ Walk(w)' = WalkIn(page_directory', tables', w)
  BY DEF Pte, PteIn, Table, Walk, WalkIn

(* The pages of callers and of the card are pages of the directory.        *)
LEMMA PagesExist == Pages \subseteq AllPages /\ BarPages \subseteq AllPages
  BY VmmAssumption DEF AllPages

(* The TLB holds pages that callers name, as the tables have them.         *)
tlbOK == DOMAIN tlb \subseteq Pages /\ TlbCoherent

(* What stays in the TLB is still right when its pages are unchanged.      *)
LEMMA TlbKept ==
  ASSUME Structure(page_directory, tables), Structure(page_directory', tables'), tlbOK,
         DOMAIN tlb' \subseteq DOMAIN tlb,
         \A w \in DOMAIN tlb' : tlb'[w] = tlb[w] /\ Pte(w)' = Pte(w)
  PROVE  tlbOK'
<1>1. ASSUME NEW w \in DOMAIN tlb'
      PROVE  vmm_is_mapped(w)' /\ tlb'[w] = Walk(w)'
  <2>1. w \in AllPages /\ vmm_is_mapped(w) /\ tlb[w] = Walk(w)
    BY PagesExist DEF tlbOK, TlbCoherent
  <2>2. Walk(w) = Pte(w)
    BY SMTT(30), <2>1, WalkIsPte, PteHere
  <2>3. Walk(w)' = Pte(w)'
    BY <2>1, WalkIsPte, PteNext
  <2> QED
    BY <2>1, <2>2, <2>3 DEF vmm_is_mapped
<1> QED
  BY <1>1 DEF tlbOK, TlbCoherent

(* The second half of vmm_map, from any directory and tables.              *)
PageSet(v, p, flags, dir, tabs) ==
  /\ Structure(page_directory', tables') /\ DOMAIN tables' = DOMAIN tabs
  /\ \A k \in Dir : /\ page_directory'[k].frame = dir[k].frame
                    /\ HasTable(k)' <=> Present(dir[k])
  /\ DOMAIN tlb' \subseteq DOMAIN tlb
  /\ \A w \in DOMAIN tlb' : tlb'[w] = tlb[w]
  /\ \A w \in AllPages :
       \/ Pte(w)' = PteIn(dir, tabs, w)
       \/ w = v /\ w \notin DOMAIN tlb' /\ Pte(w)' = Entry(p, flags)
  /\ \/ boot' = boot /\ Pte(v)' = Entry(p, flags)
     \/ boot' = "fault" /\ ~Reachable(dir[VMM_PD_INDEX(v)].frame)

LEMMA SetPageFacts ==
  ASSUME NEW dir, NEW tabs, Structure(dir, tabs), NEW v \in AllPages, NEW p \in Nat,
         NEW flags \in {{"present", "writable"}, Flags},
         Present(dir[VMM_PD_INDEX(v)]), SetPage(v, p, flags, dir, tabs)
  PROVE  PageSet(v, p, flags, dir, tabs)
<1> DEFINE i == VMM_PD_INDEX(v)
           X == flags \cap {"user"}
<1>0. i \in Dir /\ X \subseteq {"user"}
  BY PageInDir
<1>1. page_directory' = [dir EXCEPT ![i].flags = @ \cup X]
  BY DEF SetPage
<1>2. CASE /\ tables' = [tabs EXCEPT ![dir[i].frame][VMM_PT_INDEX(v)] = Entry(p, flags)]
           /\ vmm_flush_tlb(v) /\ UNCHANGED boot
  <2>1. Entry(p, flags) \in EntrySet /\ Entry(p, flags).flags = flags
    BY DEF Entry, EntrySet, Flags
  <2>2. /\ Structure(page_directory', tables') /\ DOMAIN tables' = DOMAIN tabs
        /\ \A k \in Dir : /\ page_directory'[k].frame = dir[k].frame
                          /\ Present(page_directory'[k]) <=> Present(dir[k])
        /\ PteIn(page_directory', tables', v) = Entry(p, flags)
        /\ \A w \in AllPages \ {v} : PteIn(page_directory', tables', w) = PteIn(dir, tabs, w)
    <3>1. "user" \in Entry(p, flags).flags => "user" \in dir[i].flags \cup X
      BY <2>1
    <3>2. IsFlagged(dir, i, X, page_directory')
      BY <1>0, <1>1 DEF IsFlagged
    <3> DEFINE e == Entry(p, flags)
    <3>3. e \in EntrySet
      BY <2>1
    <3> HIDE DEF X, e
    <3>4. IsChanged(dir, tabs, v, X, e, page_directory', tables')
      BY <1>2, <3>1, <3>2, <3>3 DEF e, IsChanged
    <3>5. /\ Structure(page_directory', tables') /\ DOMAIN tables' = DOMAIN tabs
          /\ \A k \in Dir : /\ page_directory'[k].frame = dir[k].frame
                            /\ Present(page_directory'[k]) <=> Present(dir[k])
          /\ PteIn(page_directory', tables', v) = e
          /\ \A w \in AllPages \ {v} : PteIn(page_directory', tables', w) = PteIn(dir, tabs, w)
      BY <3>4, EntryChange DEF PageChanged
    <3> QED
      BY <3>5 DEF e
  <2>3. DOMAIN tlb' = DOMAIN tlb \ {v} /\ \A w \in DOMAIN tlb' : tlb'[w] = tlb[w]
    BY <1>2 DEF vmm_flush_tlb
  <2> QED
    BY <1>2, <2>2, <2>3, PteNext, ZenonT(30) DEF HasTable, PageSet
<1>3. CASE ~Reachable(dir[i].frame) /\ tables' = tabs /\ page_fault_handler
  <2>1. /\ Structure(page_directory', tables')
        /\ \A k \in Dir : /\ page_directory'[k].frame = dir[k].frame
                          /\ Present(page_directory'[k]) <=> Present(dir[k])
        /\ \A w \in AllPages : PteIn(page_directory', tables', w) = PteIn(dir, tabs, w)
    <3>1. IsFlagged(dir, i, X, page_directory')
      BY <1>0, <1>1 DEF IsFlagged
    <3> HIDE DEF X
    <3>2. PagesSame(dir, tabs, page_directory')
      BY <1>0, <3>1, FlagChange
    <3> QED
      BY <1>3, <3>2 DEF PagesSame
  <2> QED
    BY <1>3, <2>1, PteNext DEF HasTable, page_fault_handler, PageSet
<1> QED
  BY <1>2, <1>3 DEF SetPage

----------------------------------------------------------------------------

(* FramesUpTo and BitmapBytes stay in Nat.                                 *)
LEMMA DivNat ==
  ASSUME NEW a \in Nat, NEW b \in Nat \ {0}
  PROVE  a \div b \in Nat
  OBVIOUS

LEMMA FramesUpToNat ==
  ASSUME NEW a \in Nat
  PROVE  FramesUpTo(a) \in Nat
<1>1. a \div FrameSize \in Nat
  BY DivNat, PmmAssumption
<1> QED
  BY <1>1 DEF FramesUpTo

LEMMA FramesFinite ==
  ASSUME total_frames \in Nat
  PROVE  IsFiniteSet(Frames) /\ Cardinality(Frames) = total_frames
  BY FS_Interval DEF Frames

(* find_free_frame stays below total_frames.                               *)
LEMMA SearchedFrames ==
  ASSUME total_frames \in Nat
  PROVE  Searched \subseteq Frames
<1>1. WordBits * (total_frames \div WordBits) <= total_frames
  BY PmmAssumption
<1> QED
  BY <1>1, DivNat, PmmAssumption DEF Searched, Frames

(* The bitmap after setting or clearing the bits F, counted.               *)
LEMMA CountSet ==
  ASSUME NEW S, IsFiniteSet(S), NEW F, IsFiniteSet(F), F \cap S = {}
  PROVE  IsFiniteSet(S \cup F) /\ Cardinality(S \cup F) = Cardinality(S) + Cardinality(F)
<1>1. Cardinality(S \cap F) = 0 /\ Cardinality(S) \in Nat /\ Cardinality(F) \in Nat
  BY Zenon, FS_EmptySet, FS_CardinalityType, S \cap F = {}
<1>2. /\ IsFiniteSet(S \cup F)
      /\ Cardinality(S \cup F) = Cardinality(S) + Cardinality(F) - Cardinality(S \cap F)
  BY FS_Union
<1> QED
  BY <1>1, <1>2

LEMMA CountClear ==
  ASSUME NEW S, IsFiniteSet(S), NEW F, F \subseteq S
  PROVE  IsFiniteSet(S \ F) /\ Cardinality(S \ F) = Cardinality(S) - Cardinality(F)
<1>1. S \cap F = F
  OBVIOUS
<1> QED
  BY ZenonT(30), ZenonT(90), <1>1, FS_Difference

(* What the loops of pmm_init rely on: nothing is held or reserved yet,    *)
(* and the regions still to be cleared are marked used.                    *)
Clearing ==
  /\ phase \in {"off", "scan"} => used = {} /\ total_frames = 0
  /\ phase \in {"scan", "clear"} => map \in MemoryMaps
  /\ phase = "clear" =>
       /\ reserved = {}
       /\ \A f \in Frames : held[f] = 0
       /\ \A i \in entry .. Len(map) :
            map[i].available => Region(map[i]) \cap Frames \subseteq used

Counted == used_frames = Cardinality(used)

(* Exclusive; nobody holds frame 0, since its address is taken for a       *)
(* failure; and the one reserved frame that can lose its bit is frame 0.   *)
Owned ==
  \A f \in Frames :
    /\ held[f] > 0 => held[f] = 1 /\ f \in used /\ f \notin reserved /\ f # 0
    /\ f \in reserved /\ f \notin used => f = 0

PmmInv == TypeOK /\ Clearing /\ Counted /\ Owned

LEMMA InitInv == Init => PmmInv
<1> SUFFICES ASSUME Init PROVE PmmInv
  OBVIOUS
<1>1. Frames = {}
  BY DEF Init, Frames
<1>2. TypeOK
  BY <1>1 DEF Init, TypeOK, NoCall, Null
<1>3. Clearing
  BY <1>1 DEF Init, Clearing
<1>4. Counted
  BY FS_EmptySet DEF Init, Counted
<1>5. Owned
  BY <1>1 DEF Owned
<1> QED
  BY <1>2, <1>3, <1>4, <1>5 DEF PmmInv


(* The loops of pmm_init.                                                  *)
LEMMA ScanStep ==
  ASSUME PmmInv, NoMemoryMap \/ ReadMap \/ ScanEntry
  PROVE  PmmInv'
<1>t. TypeOK /\ Clearing /\ Counted /\ Owned
  BY DEF PmmInv
<1>1. UNCHANGED <<total_frames, used_frames, used, held, reserved, ret, zero>> /\ Frames' = Frames
  BY DEF NoMemoryMap, ReadMap, ScanEntry, Frames
<1>2. Counted' /\ Owned'
  BY SMTT(30), <1>t, <1>1 DEF Counted, Owned
<1>3. CASE NoMemoryMap
  BY SMTT(30), <1>t, <1>1, <1>2, <1>3 DEF NoMemoryMap, TypeOK, Clearing, PmmInv
<1>4. CASE ReadMap
  <2>1. map' \in MemoryMaps /\ map' \in Seq(Entries) /\ phase' = "scan" /\ entry' = entry
        /\ phase = "off" /\ UNCHANGED <<total_memory, highest_address>>
    BY SMTT(30), <1>4, PmmAssumption DEF ReadMap
  <2> QED
    BY SMTT(30), <1>t, <1>1, <1>2, <2>1 DEF TypeOK, Clearing, PmmInv
<1>5. CASE ScanEntry
  <2>1. map[entry].addr \in Nat /\ map[entry].len \in Nat
    <3>1. entry \in 1 .. Len(map) /\ map \in Seq(Entries)
      BY SMTT(30), SMTT(90), <1>t, <1>5 DEF ScanEntry, TypeOK
    <3>2. map[entry] \in Entries
      BY SMTT(30), <3>1
    <3> QED
      BY SMTT(30), <3>2 DEF Entries
  <2>2. total_memory' \in Nat /\ highest_address' \in Nat /\ entry' \in Nat \ {0}
        /\ phase = "scan" /\ UNCHANGED <<phase, map>>
    BY SMTT(30), SMTT(90), <1>t, <1>5, <2>1 DEF ScanEntry, TypeOK
  <2> QED
    BY <1>t, <1>1, <1>2, <2>2 DEF TypeOK, Clearing, PmmInv
<1> QED
  BY <1>3, <1>4, <1>5

LEMMA MarkAllUsedStep ==
  ASSUME PmmInv, MarkAllUsed
  PROVE  PmmInv'
<1>t. TypeOK /\ Clearing /\ Counted /\ Owned
  BY DEF PmmInv
<1>1. total_frames' \in Nat
  BY <1>t, FramesUpToNat DEF MarkAllUsed, TypeOK
<1>2. /\ used' = Frames' /\ used_frames' = total_frames' /\ phase = "scan" /\ phase' = "clear"
      /\ held' = [f \in Frames' |-> 0] /\ entry' = 1
      /\ UNCHANGED <<map, total_memory, highest_address, reserved, ret, zero>>
  BY DEF MarkAllUsed, Frames
<1>3. reserved = {}
  BY <1>t, <1>2 DEF TypeOK, Clearing, Frames
<1>4. Counted'
  BY <1>1, <1>2, FS_Interval DEF Counted, Frames
<1>5. TypeOK'
  BY SMTT(30), <1>t, <1>1, <1>2, <1>3 DEF TypeOK
<1>6. Clearing'
  BY <1>t, <1>2, <1>3 DEF Clearing
<1>7. Owned'
  BY <1>2, <1>3 DEF Owned
<1> QED
  BY <1>4, <1>5, <1>6, <1>7 DEF PmmInv

LEMMA ClearEntryStep ==
  ASSUME PmmInv, ClearEntry
  PROVE  PmmInv'
<1>t. TypeOK /\ Clearing /\ Counted /\ Owned
  BY DEF PmmInv
<1> DEFINE region == Region(map[entry]) \cap Frames
<1>0. /\ phase = "clear" /\ entry \in 1 .. Len(map) /\ map \in MemoryMaps
      /\ map \in Seq(Entries) /\ Len(map) \in Nat
      /\ entry' = entry + 1 /\ Frames' = Frames
      /\ UNCHANGED <<phase, map, total_memory, highest_address, total_frames,
                     held, reserved, ret, zero>>
  BY <1>t DEF ClearEntry, TypeOK, Clearing, Frames
<1>1. /\ used' \subseteq used
      /\ used \ used' \subseteq Frames
      /\ \A f \in used \ used' : map[entry].available /\ f \in Region(map[entry])
  BY DEF ClearEntry
<1>2. Counted' /\ used_frames' \in Int
  <2>1. CASE ~map[entry].available
    BY <1>t, <2>1 DEF ClearEntry, Counted, TypeOK
  <2>2. CASE map[entry].available
    <3>1. region \subseteq used
      BY <1>t, <1>0, <2>2 DEF Clearing
    <3>2. IsFiniteSet(used)
      BY <1>t, FramesFinite, FS_Subset DEF TypeOK
    <3>3. Cardinality(used \ region) = Cardinality(used) - Cardinality(region)
      BY <3>1, <3>2, CountClear
    <3>4. used' = used \ region /\ used_frames' = used_frames - Cardinality(region)
      BY <2>2 DEF ClearEntry
    <3>5. Cardinality(region) \in Nat
      BY SMTT(30), <3>1, <3>2, FS_Subset, FS_CardinalityType
    <3> QED
      BY SMTT(30), <1>t, <3>3, <3>4, <3>5 DEF Counted, TypeOK
  <2> QED
    BY SMTT(30), <2>1, <2>2
<1>3. TypeOK'
  BY SMTT(30), <1>t, <1>0, <1>1, <1>2 DEF TypeOK
<1>4. ASSUME NEW i \in entry' .. Len(map), map[i].available
      PROVE  Region(map[i]) \cap Frames \subseteq used'
  <2>1. i \in entry .. Len(map) /\ i \in 1 .. Len(map) /\ i # entry
    BY <1>0
  <2>2. Region(map[i]) \cap Frames \subseteq used
    BY <1>t, <1>0, <1>4, <2>1 DEF Clearing
  <2>3. map[entry].available => Region(map[i]) \cap Region(map[entry]) = {}
    BY Zenon, <1>0, <1>4, <2>1, PmmAssumption
  <2> QED
    BY <1>1, <2>2, <2>3
<1>5. Clearing'
  BY SMTT(30), <1>t, <1>0, <1>4 DEF Clearing
<1>6. Owned'
  BY <1>t, <1>0 DEF Owned, Clearing
<1> QED
  BY SMTT(30), <1>2, <1>3, <1>5, <1>6 DEF PmmInv


(* pmm_reserve_frame over the frames F, none of which is held.             *)
LEMMA ReserveStep ==
  ASSUME PmmInv, NEW F, Reserve(F), \A f \in F \cap Frames : held[f] = 0,
         phase' = "ready", UNCHANGED <<map, entry, total_memory, highest_address, total_frames,
                                       held, zero>>,
         ret' \in {ret, NoCall}
  PROVE  PmmInv'
<1>t. TypeOK /\ Clearing /\ Counted /\ Owned
  BY DEF PmmInv
<1> DEFINE new == NewlyReserved(F)
<1>0. Frames' = Frames
  BY DEF Frames
<1>1. /\ used' = used \cup new /\ used_frames' = used_frames + Cardinality(new)
      /\ reserved' = reserved \cup (F \cap Frames)
      /\ new \subseteq Frames /\ new \cap used = {} /\ F \cap Frames \subseteq used \cup new
  BY DEF Reserve, NewlyReserved
<1>2. IsFiniteSet(used) /\ IsFiniteSet(new)
  BY SMTT(30), <1>t, <1>1, FramesFinite, FS_Subset DEF TypeOK
<1>3. Cardinality(used \cup new) = Cardinality(used) + Cardinality(new)
  BY SMTT(30), <1>1, <1>2, CountSet
<1>4. Cardinality(new) \in Nat
  BY SMTT(30), <1>2, FS_CardinalityType
<1>5. Counted' /\ used_frames' \in Int
  BY SMTT(30), <1>t, <1>1, <1>3, <1>4 DEF Counted, TypeOK
<1>6. TypeOK'
  BY SMTT(30), <1>t, <1>0, <1>1, <1>5 DEF TypeOK, NoCall, Null
<1>7. Clearing'
  BY SMTT(30) DEF Clearing
<1>8. Owned'
  BY <1>t, <1>0, <1>1 DEF Owned
<1> QED
  BY <1>5, <1>6, <1>7, <1>8 DEF PmmInv

(* An allocation of the free frames s .. s + n - 1.                        *)
LEMMA AllocStep ==
  ASSUME PmmInv, phase = "ready", NEW s \in Nat, NEW n \in Nat \ {0},
         NEW call \in {"alloc_frame", "alloc_frames"},
         s .. s + n - 1 \subseteq Frames \ used,
         used' = used \cup (s .. s + n - 1), used_frames' = used_frames + n,
         Returned(call, s, n), UNCHANGED <<initVars, reserved>>
  PROVE  PmmInv'
<1>t. TypeOK /\ Clearing /\ Counted /\ Owned
  BY DEF PmmInv
<1> DEFINE run == s .. s + n - 1
<1>0. Frames' = Frames /\ UNCHANGED <<phase, map, entry, total_memory, highest_address, total_frames>>
  BY DEF Frames, initVars
<1>1. IsFiniteSet(used) /\ IsFiniteSet(run) /\ Cardinality(run) = n
  <2>1. IsFiniteSet(used)
    BY <1>t, FramesFinite, FS_Subset DEF TypeOK
  <2>2. IsFiniteSet(run) /\ Cardinality(run) = n
    BY FS_Interval
  <2> QED
    BY SMTT(30), <2>1, <2>2
<1>2. Counted' /\ used_frames' \in Int
  <2>1. Cardinality(used \cup run) = Cardinality(used) + Cardinality(run)
    <3> HIDE DEF run
    <3>1. run \cap used = {}
      BY DEF run
    <3> QED
      BY <1>1, <3>1, CountSet
  <2> QED
    BY SMTT(30), <1>t, <1>1, <2>1 DEF Counted, TypeOK
<1>3. /\ s * FrameSize \in Nat
      /\ s * FrameSize # 0 => s # 0
  BY SMTT(30), PmmAssumption
<1>4. \/ held' = held
      \/ /\ s # 0
         /\ held' = [f \in Frames |-> IF f \in run THEN held[f] + 1 ELSE held[f]]
  BY <1>t, <1>3 DEF Returned, TypeOK
<1>5. held' \in [Frames -> Nat]
  <2>1. held \in [Frames -> Nat]
    BY <1>t DEF TypeOK
  <2>2. \A f \in Frames : (IF f \in run THEN held[f] + 1 ELSE held[f]) \in Nat
    BY SMTT(30), <2>1
  <2> HIDE DEF run
  <2> QED
    BY <1>4, <2>1, <2>2
<1>6. ret' \in [call : {"none", "alloc_frame", "alloc_frames"}, addr : Nat \cup {Null}]
  BY SMTT(30), <1>3 DEF Returned
<1>7. zero' \in {"none", "returned", "freed"}
  BY SMTT(30), <1>t DEF Returned, TypeOK
<1>8. TypeOK'
  BY SMTT(30), <1>t, <1>0, <1>2, <1>5, <1>6, <1>7 DEF TypeOK
<1>9. Clearing'
  BY <1>0 DEF Clearing
<1>10. Owned'
  <2> SUFFICES ASSUME NEW f \in Frames
               PROVE  /\ held'[f] > 0 => held'[f] = 1 /\ f \in used' /\ f \notin reserved /\ f # 0
                      /\ f \in reserved /\ f \notin used' => f = 0
    BY SMTT(30), <1>0 DEF Owned, initVars
  <2>1. CASE f \notin run
    BY SMTT(30), <1>t, <1>4, <2>1 DEF Owned
  <2>2. CASE f \in run
    <3>1. f \notin used /\ held[f] = 0 /\ f \in used'
      BY <1>t, <2>2 DEF Owned, TypeOK
    <3>2. held'[f] > 0 => s # 0 /\ held'[f] = 1
      BY <1>4, <2>2, <3>1
    <3>3. s # 0 => f # 0
      BY SMTT(30), <2>2
    <3> QED
      BY SMTT(30), <1>t, <3>1, <3>2, <3>3 DEF Owned
  <2> QED
    BY SMTT(30), <2>1, <2>2
<1> QED
  BY <1>2, <1>8, <1>9, <1>10 DEF PmmInv


(* A call that returns 0 without touching the bitmap.                      *)
LEMMA FailStep ==
  ASSUME PmmInv, phase = "ready", NEW n, NEW call \in {"alloc_frame", "alloc_frames"},
         Returned(call, 0, n), UNCHANGED <<used, used_frames, initVars, reserved>>
  PROVE  PmmInv'
<1>t. TypeOK /\ Clearing /\ Counted /\ Owned
  BY DEF PmmInv
<1>0. Frames' = Frames /\ UNCHANGED <<phase, map, entry, total_memory, highest_address, total_frames>>
  BY DEF Frames, initVars
<1>1. 0 * FrameSize = 0
  BY SMTT(30), PmmAssumption
<1>2. held' = held /\ ret' = [call |-> call, addr |-> 0]
      /\ zero' \in {"none", "returned", "freed"}
  BY SMTT(30), <1>t, <1>1 DEF Returned, TypeOK
<1>3. TypeOK'
  BY SMTT(30), <1>t, <1>0, <1>2 DEF TypeOK
<1> QED
  BY <1>t, <1>0, <1>2, <1>3 DEF Clearing, Counted, Owned, PmmInv

(* pmm_free_frame over the frames F, which leaves the owners held'.        *)
LEMMA FreeStep ==
  ASSUME PmmInv, phase = "ready", NEW F, Free(F), held' \in [Frames -> Nat],
         zero' \in {"none", "returned", "freed"},
         \A f \in Frames \ F : held'[f] = held[f],
         \A f \in F \cap Frames : held'[f] = 0 /\ (f \in reserved => f = 0 \/ f \notin used)
  PROVE  PmmInv'
<1>t. TypeOK /\ Clearing /\ Counted /\ Owned
  BY DEF PmmInv
<1>0. /\ Frames' = Frames /\ ret' = NoCall
      /\ UNCHANGED <<phase, map, entry, total_memory, highest_address, total_frames, reserved>>
  BY DEF Free, Frames, initVars
<1>1. /\ used' = used \ Cleared(F) /\ used_frames' = used_frames - Cardinality(Cleared(F))
      /\ Cleared(F) \subseteq used /\ Cleared(F) = F \cap Frames \cap used
  BY DEF Free, Cleared
<1>2. IsFiniteSet(used)
  BY SMTT(30), SMTT(90), <1>t, FramesFinite, FS_Subset DEF TypeOK
<1>3. Cardinality(used \ Cleared(F)) = Cardinality(used) - Cardinality(Cleared(F))
  BY ZenonT(30), SMTT(90), <1>1, <1>2, CountClear
<1>4. Cardinality(Cleared(F)) \in Nat
  BY ZenonT(30), SMTT(90), <1>1, <1>2, FS_Subset, FS_CardinalityType
<1>5. Counted' /\ used_frames' \in Int
  BY SMTT(30), SMTT(90), <1>t, <1>1, <1>3, <1>4 DEF Counted, TypeOK
<1>6. TypeOK'
  BY ZenonT(30), SMTT(90), <1>t, <1>0, <1>1, <1>5 DEF TypeOK, NoCall, Null
<1>7. Clearing'
  BY SMTT(30), <1>0 DEF Clearing
<1>8. Owned'
  <2> SUFFICES ASSUME NEW f \in Frames
               PROVE  /\ held'[f] > 0 => held'[f] = 1 /\ f \in used' /\ f \notin reserved /\ f # 0
                      /\ f \in reserved /\ f \notin used' => f = 0
    BY ZenonT(30), <1>0 DEF Owned
  <2>1. CASE f \in F
    BY SMTT(30), <1>t, <1>1, <2>1 DEF Owned
  <2>2. CASE f \notin F
    BY <1>t, <1>1, <2>2 DEF Owned
  <2> QED
    BY SMTT(30), <2>1, <2>2
<1> QED
  BY <1>5, <1>6, <1>7, <1>8 DEF PmmInv

(* Every step preserves the invariant.                                     *)
LEMMA InvStep == PmmInv /\ [Next]_vars => PmmInv'
<1> SUFFICES ASSUME PmmInv, [Next]_vars PROVE PmmInv'
  OBVIOUS
<1>t. TypeOK /\ Clearing /\ Counted /\ Owned
  BY DEF PmmInv
<1>1. CASE NoMemoryMap \/ ReadMap \/ ScanEntry
  BY <1>1, ScanStep
<1>2. CASE MarkAllUsed
  BY <1>2, MarkAllUsedStep
<1>3. CASE ClearEntry
  BY ZenonT(30), <1>3, ClearEntryStep
<1>4. CASE ReserveKernel
  <2>1. \A f \in Frames : held[f] = 0
    BY <1>4, <1>t DEF ReserveKernel, Clearing
  <2> QED
    BY <1>4, <2>1, ReserveStep DEF ReserveKernel
<1>5. CASE pmm_alloc_frame
  <2>1. ASSUME NEW f \in Searched, Found(f), used' = used \cup {f},
               used_frames' = used_frames + 1, Returned("alloc_frame", f, 1)
        PROVE  PmmInv'
    <3>1. f \in Nat /\ f .. f + 1 - 1 = {f} /\ f \notin used
      BY <2>1 DEF Searched, Found
    <3>2. f \in Frames
      BY <1>t, SearchedFrames DEF TypeOK
    <3> QED
      BY <1>5, <2>1, <3>1, <3>2, AllocStep DEF pmm_alloc_frame
  <2>2. CASE Returned("alloc_frame", 0, 1) /\ UNCHANGED <<used, used_frames>>
    BY SMTT(30), SMTT(90), <1>5, <2>2, FailStep DEF pmm_alloc_frame
  <2> QED
    BY SMTT(30), SMTT(90), <1>5, <2>1, <2>2 DEF pmm_alloc_frame
<1>6. ASSUME NEW n \in 0 .. MaxRun, pmm_alloc_frames(n)
      PROVE  PmmInv'
  <2>0. n \in Nat
    BY SMTT(30), PmmAssumption
  <2>1. ASSUME NEW s \in Frames, n > 0, FreeRun(s, n), used' = used \cup (s .. s + n - 1),
               used_frames' = used_frames + n, Returned("alloc_frames", s, n)
        PROVE  PmmInv'
    <3>1. s \in Nat /\ n \in Nat \ {0}
      BY SMTT(30), <2>0, <2>1, <1>t DEF Frames, TypeOK
    <3>2. s .. s + n - 1 \subseteq Frames \ used
      BY SMTT(30), <2>1, <3>1, <1>t DEF FreeRun, Frames, TypeOK
    <3> QED
      BY SMTT(30), SMTT(90), <1>6, <2>1, <3>1, <3>2, AllocStep DEF pmm_alloc_frames
  <2>2. CASE Returned("alloc_frames", 0, n) /\ UNCHANGED <<used, used_frames>>
    BY SMTT(30), <1>6, <2>2, FailStep DEF pmm_alloc_frames
  <2> QED
    BY <1>6, <2>1, <2>2 DEF pmm_alloc_frames
<1>7. ASSUME NEW s \in 0 .. total_frames, NEW n \in 1 .. MaxRun, pmm_free_frames(s, n)
      PROVE  PmmInv'
  <2> DEFINE F == s .. s + n - 1
  <2>1. /\ phase = "ready" /\ zero' = zero
        /\ \A f \in F : MayFree(f)
        /\ held' = [f \in Frames |-> IF f \in F /\ held[f] > 0 THEN held[f] - 1 ELSE held[f]]
    BY <1>7, <1>t DEF pmm_free_frames, TypeOK
  <2>f. Free(F)
    BY <1>7 DEF pmm_free_frames
  <2>h. held \in [Frames -> Nat]
    BY <1>t DEF TypeOK
  <2> HIDE DEF F
  <2>2. /\ \A f \in Frames \ F : held'[f] = held[f]
        /\ \A f \in Frames : held'[f] \in Nat
    BY <2>1, <2>h
  <2>3. held' \in [Frames -> Nat]
    BY <2>1, <2>2
  <2>4. ASSUME NEW f \in F \cap Frames
        PROVE  held'[f] = 0 /\ (f \in reserved => f = 0 \/ f \notin used)
    <3>1. held[f] \in Nat /\ (f \in used => held[f] > 0)
      BY SMTT(30), <2>1, <2>h DEF MayFree
    <3>2. held[f] = 0 \/ (held[f] = 1 /\ f \notin reserved)
      BY <1>t, <3>1 DEF Owned
    <3>3. held'[f] = 0
      BY <2>1, <3>2
    <3> QED
      BY SMTT(30), SMTT(90), <3>1, <3>2, <3>3
  <2>5. zero' \in {"none", "returned", "freed"}
    BY SMTT(30), <1>t, <2>1 DEF TypeOK
  <2> QED
    BY SMTT(30), SMTT(90), <2>1, <2>f, <2>2, <2>3, <2>4, <2>5, FreeStep
<1>8. CASE FreeFailed
  <2>1. phase = "ready" /\ Free({0}) /\ held' = held /\ zero' = "freed"
    BY <1>8 DEF FreeFailed
  <2>2. \A f \in {0} \cap Frames : held'[f] = 0 /\ (f \in reserved => f = 0 \/ f \notin used)
    BY <1>t, <2>1 DEF Owned, TypeOK
  <2> QED
    BY <1>t, <2>1, <2>2, FreeStep DEF TypeOK
<1>9. ASSUME NEW start, NEW end, pmm_reserve_region(start, end)
      PROVE  PmmInv'
  BY <1>9, ReserveStep DEF pmm_reserve_region, initVars
<1>10. ASSUME NEW f, pmm_reserve_frame(f)
       PROVE  PmmInv'
  BY ZenonT(30), SMTT(90), <1>10, ReserveStep DEF pmm_reserve_frame, initVars
<1>11. CASE UNCHANGED vars
  <2>1. /\ Frames' = Frames
        /\ UNCHANGED <<phase, map, entry, total_memory, highest_address, total_frames,
                       used_frames, used, held, reserved, ret, zero>>
    BY <1>11 DEF vars, initVars, Frames
  <2> QED
    BY <1>t, <2>1 DEF TypeOK, Clearing, Counted, Owned, PmmInv
<1> QED
  BY SMTT(30), SMTT(90), <1>1, <1>2, <1>3, <1>4, <1>5, <1>6, <1>7, <1>8, <1>9, <1>10, <1>11 DEF Next

LEMMA PmmInvariant == Spec => []PmmInv
  BY InitInv, InvStep, PTL DEF Spec

(* The state of the manager stays well typed: no bit past the last frame   *)
(* is ever set.                                                            *)
THEOREM TypeCorrect == Spec => []TypeOK
<1>1. PmmInv => TypeOK
  BY SMTT(30) DEF PmmInv
<1> QED
  BY <1>1, PmmInvariant, PTL

(* The statistics of pmm_get_stats count the bits of the bitmap, after any *)
(* sequence of calls.                                                      *)
THEOREM StatsCorrect == Spec => []StatsMatchBitmap
<1>1. PmmInv => StatsMatchBitmap
  <2> SUFFICES ASSUME PmmInv PROVE StatsMatchBitmap
    OBVIOUS
  <2>1. total_frames \in Nat /\ used \subseteq Frames /\ used_frames = Cardinality(used)
    BY DEF PmmInv, TypeOK, Counted
  <2>2. {f \in Frames : ~pmm_is_frame_allocated(f)} = Frames \ used
    BY <2>1 DEF pmm_is_frame_allocated, Frames
  <2>3. Cardinality(Frames \ used) = total_frames - used_frames
    BY SMTT(30), <2>1, FramesFinite, CountClear
  <2> QED
    BY <2>2, <2>3 DEF StatsMatchBitmap, pmm_get_stats
<1> QED
  BY <1>1, PmmInvariant, PTL

(* A frame never has two owners, is marked used while it has one, and is   *)
(* not a reserved one.                                                     *)
THEOREM FramesExclusive == Spec => []Exclusive
<1>1. PmmInv => Exclusive
  BY DEF PmmInv, Owned, Exclusive
<1> QED
  BY <1>1, PmmInvariant, PTL


----------------------------------------------------------------------------

(* Where frames come from, and what becomes of the reserved ones.          *)

(* A nonempty set of naturals has a least element.                         *)
LEMMA Least ==
  ASSUME NEW T, T \subseteq Nat, T # {}
  PROVE  \E x \in T : \A y \in T : x <= y
<1>1. PICK x \in T : \A y \in T : ~ (<<y, x>> \in OpToRel(<, Nat))
  BY ZenonT(30), NatLessThanWellFounded, WFMin
<1>2. \A y \in T : ~ (y < x)
  BY ZenonT(30), <1>1 DEF OpToRel
<1> QED
  BY <1>2

(* find_free_frame misses no free frame of the words it looks at.          *)
LEMMA NoneFound ==
  ASSUME total_frames \in Nat, \A f \in Searched : ~Found(f)
  PROVE  Searched \subseteq used
<1> SUFFICES ASSUME Searched \ used # {} PROVE FALSE
  OBVIOUS
<1>0. Searched \subseteq Nat
  BY DEF Searched
<1>1. PICK f \in Searched \ used : \A g \in Searched \ used : f <= g
  BY ZenonT(30), <1>0, Least
<1>2. \A g \in 0 .. f - 1 : g \in Searched
  <2>1. WordBits * (total_frames \div WordBits) \in Nat
    BY DivNat, PmmAssumption
  <2> QED
    BY <2>1 DEF Searched
<1>3. \A g \in 0 .. f - 1 : g \in used
  BY SMTT(30), <1>0, <1>1, <1>2
<1> QED
  BY <1>1, <1>3 DEF Found

(* The frames that pmm_init clears lie in available memory.                *)
Available(f) == \E i \in 1 .. Len(map) : map[i].available /\ f \in Region(map[i])

(* The frames of the kernel image and of the bitmap.                       *)
KernelFrame(f) == f * FrameSize < KernelEnd + BitmapBytes

(* A frame that is free or held is available, except frame 0, which a free *)
(* of a failed result makes free.                                          *)
FromMap == \A f \in Frames : f \notin used \/ held[f] > 0 => f = 0 \/ Available(f)

(* The kernel's frames and frame 0 are reserved from the end of pmm_init   *)
(* on, and only a free of a failed result clears the bit of frame 0.       *)
Kept ==
  /\ phase = "ready" => \A f \in Frames : f = 0 \/ KernelFrame(f) => f \in reserved
  /\ 0 \in reserved /\ 0 \notin used => zero = "freed"

(* Before the first call nothing was returned.                             *)
Answered == (phase # "ready" => ret = NoCall) /\ FailsOnlyWhenSearchedFull

SourceInv == PmmInv /\ FromMap /\ Kept /\ Answered

LEMMA SourceInit == Init => SourceInv
<1> SUFFICES ASSUME Init PROVE SourceInv
  OBVIOUS
<1>1. Frames = {} /\ reserved = {} /\ ret = NoCall /\ phase = "off"
  BY SMTT(30) DEF Init, Frames
<1> QED
  BY <1>1, InitInv
  DEF SourceInv, FromMap, Kept, Answered, FailsOnlyWhenSearchedFull, NoCall, Null


LEMMA ScanSource ==
  ASSUME SourceInv, NoMemoryMap \/ ReadMap \/ ScanEntry
  PROVE  SourceInv'
<1>1. PmmInv'
  BY SMTT(30), ScanStep DEF SourceInv
<1>2. /\ phase \in {"off", "scan"}
      /\ UNCHANGED <<total_frames, used, reserved, ret>>
  BY SMTT(30) DEF NoMemoryMap, ReadMap, ScanEntry
<1>3. Frames = {} /\ Frames' = {} /\ reserved = {}
  BY <1>2 DEF SourceInv, PmmInv, TypeOK, Clearing, Frames
<1>4. ret' = NoCall
  BY SMTT(30), <1>2 DEF SourceInv, Answered
<1> QED
  BY <1>1, <1>2, <1>3, <1>4
  DEF SourceInv, FromMap, Kept, Answered, FailsOnlyWhenSearchedFull, NoCall, Null

LEMMA MarkSource ==
  ASSUME SourceInv, MarkAllUsed
  PROVE  SourceInv'
<1>1. PmmInv'
  BY MarkAllUsedStep DEF SourceInv
<1>2. /\ used' = Frames' /\ held' = [f \in Frames' |-> 0]
      /\ phase = "scan" /\ phase' = "clear" /\ UNCHANGED <<reserved, ret>>
  BY SMTT(30) DEF MarkAllUsed, Frames
<1>3. reserved = {}
  BY <1>2 DEF SourceInv, PmmInv, TypeOK, Clearing, Frames
<1>4. ret' = NoCall
  BY <1>2 DEF SourceInv, Answered
<1>5. FromMap'
  BY SMTT(30), <1>2 DEF FromMap
<1> QED
  BY <1>1, <1>2, <1>3, <1>4, <1>5
  DEF SourceInv, Kept, Answered, FailsOnlyWhenSearchedFull, NoCall, Null

LEMMA ClearSource ==
  ASSUME SourceInv, ClearEntry
  PROVE  SourceInv'
<1>1. PmmInv'
  BY ClearEntryStep DEF SourceInv
<1>2. /\ phase = "clear" /\ entry \in Nat \ {0} /\ entry <= Len(map) /\ Len(map) \in Nat
      /\ Frames' = Frames
      /\ UNCHANGED <<phase, map, held, reserved, ret>>
  BY DEF ClearEntry, SourceInv, PmmInv, TypeOK, Frames
<1>3. \A f \in used \ used' : map[entry].available /\ f \in Region(map[entry])
  BY DEF ClearEntry
<1>4. reserved = {} /\ \A f \in Frames : held[f] = 0
  BY <1>2 DEF SourceInv, PmmInv, Clearing
<1>5. \A f \in used \ used' : Available(f)
  BY <1>2, <1>3 DEF Available
<1>6. \A f : Available(f)' <=> Available(f)
  BY <1>2 DEF Available
<1>7. FromMap'
  BY <1>2, <1>4, <1>5, <1>6 DEF SourceInv, FromMap
<1>8. ret' = NoCall
  BY SMTT(30), <1>2 DEF SourceInv, Answered
<1> QED
  BY SMTT(30), <1>1, <1>2, <1>4, <1>7, <1>8
  DEF SourceInv, Kept, Answered, FailsOnlyWhenSearchedFull, NoCall, Null

(* A step after pmm_init that changes neither map nor kernel.              *)
LEMMA SameKernel ==
  ASSUME UNCHANGED <<map, total_frames>>
  PROVE  /\ Frames' = Frames /\ Searched' = Searched
         /\ \A f : Available(f)' <=> Available(f)
         /\ \A f : KernelFrame(f)' <=> KernelFrame(f)
  BY SMTT(30) DEF Frames, Searched, Available, KernelFrame, BitmapBytes

(* pmm_reserve_frame over the frames F.                                    *)
LEMMA ReserveSource ==
  ASSUME SourceInv, PmmInv', NEW F, Reserve(F), UNCHANGED <<map, total_frames, held, zero>>,
         phase = "ready" \/ \A f \in Frames : f = 0 \/ KernelFrame(f) => f \in F,
         phase' = "ready", ret' = NoCall
  PROVE  SourceInv'
<1>1. /\ Frames' = Frames /\ \A f : Available(f)' <=> Available(f)
      /\ \A f : KernelFrame(f)' <=> KernelFrame(f)
  BY SMTT(30), SameKernel
<1>2. /\ used \subseteq used' /\ F \cap Frames \subseteq used'
      /\ reserved' = reserved \cup (F \cap Frames)
  BY DEF Reserve, NewlyReserved
<1>3. FromMap'
  BY SMTT(30), <1>1, <1>2 DEF SourceInv, FromMap
<1>4. Kept'
  BY <1>1, <1>2 DEF SourceInv, Kept
<1> QED
  BY <1>3, <1>4 DEF SourceInv, Answered, FailsOnlyWhenSearchedFull, NoCall, Null

(* The span that pmm_init reserves has every byte of kernel and bitmap.    *)
LEMMA KernelSpan ==
  ASSUME total_frames \in Nat, NEW f \in Frames, f = 0 \/ KernelFrame(f)
  PROVE  f \in Span(0, KernelEnd + BitmapBytes)
<1> DEFINE end == KernelEnd + BitmapBytes
<1>1. end \in Nat
  <2>1. total_frames \div WordBits \in Nat
    BY DivNat, PmmAssumption
  <2>2. (total_frames \div WordBits + (IF total_frames % WordBits # 0 THEN 1 ELSE 0)) \in Nat
    BY <2>1
  <2>3. BitmapBytes \in Nat
    BY <2>2, PmmAssumption DEF BitmapBytes
  <2> QED
    BY <2>3, PmmAssumption
<1>2. f \in Nat /\ FrameSize \in Nat \ {0} /\ 0 \div FrameSize = 0
  BY PmmAssumption DEF Frames
<1>3. f = 0 \/ f * FrameSize < end
  BY DEF KernelFrame
<1> HIDE DEF end
<1>4. f <= end \div FrameSize
  <2>1. PICK q \in Nat, r \in 0 .. FrameSize - 1 : end = q * FrameSize + r /\ end \div FrameSize = q
    BY <1>1, <1>2
  <2>2. f = 0 \/ f * FrameSize < (q + 1) * FrameSize
    BY <1>2, <1>3, <2>1
  <2>3. f < q + 1
    BY <1>2, <2>2
  <2> QED
    BY <1>2, <2>1, <2>3
<1>5. end \div FrameSize \in Nat
  BY <1>1, <1>2, DivNat
<1> QED
  BY SMTT(30), <1>2, <1>4, <1>5 DEF Span, FramesUpTo, end


(* An allocation that takes the frames s .. s + n - 1, none of them in use.*)
LEMMA AllocSource ==
  ASSUME SourceInv, PmmInv', phase = "ready", NEW s \in Nat, NEW n \in Nat \ {0}, NEW call,
         s .. s + n - 1 \subseteq Frames \ used,
         used' = used \cup (s .. s + n - 1), Returned(call, s, n),
         UNCHANGED <<initVars, reserved>>
  PROVE  SourceInv'
<1>0. UNCHANGED <<phase, map, total_frames>>
  BY DEF initVars
<1>1. /\ Frames' = Frames /\ \A f : Available(f)' <=> Available(f)
      /\ \A f : KernelFrame(f)' <=> KernelFrame(f)
  BY ZenonT(30), <1>0, SameKernel
<1>2. \A f \in Frames : held'[f] > 0 => held[f] > 0 \/ f \notin used
  BY ZenonT(30) DEF SourceInv, PmmInv, TypeOK, Returned
<1>3. FromMap'
  BY SMTT(30), <1>1, <1>2 DEF SourceInv, FromMap
<1>4. zero = "freed" => zero' = "freed"
  BY DEF Returned
<1>5. Kept'
  BY SMTT(30), <1>0, <1>1, <1>4 DEF SourceInv, Kept
<1>6. ASSUME s * FrameSize = 0 PROVE zero' = "freed"
  <2>1. s = 0
    BY <1>6, PmmAssumption
  <2>2. 0 \in Frames /\ 0 \notin used
    BY <2>1
  <2> QED
    BY <1>4, <2>2 DEF SourceInv, Kept
<1>7. ret'.addr = s * FrameSize
  BY SMTT(30) DEF Returned
<1>8. Answered'
  BY <1>0, <1>6, <1>7 DEF Answered, FailsOnlyWhenSearchedFull
<1> QED
  BY <1>3, <1>5, <1>8 DEF SourceInv

(* A call that returns 0 and leaves the bitmap alone.                      *)
LEMMA FailSource ==
  ASSUME SourceInv, PmmInv', phase = "ready", NEW n, NEW call, Returned(call, 0, n),
         call = "alloc_frame" => Searched \subseteq used,
         UNCHANGED <<used, initVars, reserved>>
  PROVE  SourceInv'
<1>0. UNCHANGED <<phase, map, total_frames>>
  BY DEF initVars
<1>1. /\ Frames' = Frames /\ Searched' = Searched /\ \A f : Available(f)' <=> Available(f)
      /\ \A f : KernelFrame(f)' <=> KernelFrame(f)
  BY <1>0, SameKernel
<1>2. 0 * FrameSize = 0
  BY SMTT(30), PmmAssumption
<1>3. held' = held /\ ret' = [call |-> call, addr |-> 0] /\ (zero = "freed" => zero' = "freed")
  BY SMTT(30), <1>2 DEF Returned
<1>4. FromMap'
  BY SMTT(30), <1>1, <1>3 DEF SourceInv, FromMap
<1>5. Kept'
  BY SMTT(30), <1>0, <1>1, <1>3 DEF SourceInv, Kept
<1>6. Answered'
  BY SMTT(30), <1>0, <1>1, <1>3 DEF Answered, FailsOnlyWhenSearchedFull
<1> QED
  BY <1>4, <1>5, <1>6 DEF SourceInv

(* pmm_free_frame over the frames F: a frame that it clears was held, or   *)
(* is frame 0 after a failed call.                                         *)
LEMMA FreeSource ==
  ASSUME SourceInv, PmmInv', phase = "ready", NEW F, Free(F),
         \A f \in Frames : held'[f] > 0 => held[f] > 0,
         \A f \in Cleared(F) : held[f] > 0 \/ (f = 0 /\ zero' = "freed"),
         zero = "freed" => zero' = "freed"
  PROVE  SourceInv'
<1>0. UNCHANGED <<phase, map, total_frames, reserved>> /\ ret' = NoCall
  BY DEF Free, initVars
<1>1. /\ Frames' = Frames /\ \A f : Available(f)' <=> Available(f)
      /\ \A f : KernelFrame(f)' <=> KernelFrame(f)
  BY SMTT(30), <1>0, SameKernel
<1>2. used' = used \ Cleared(F) /\ Cleared(F) \subseteq Frames
  BY DEF Free, Cleared
<1>3. FromMap'
  BY SMTT(30), <1>1, <1>2 DEF SourceInv, FromMap
<1>4. 0 \in Cleared(F) => zero' = "freed"
  BY <1>2 DEF SourceInv, PmmInv, Owned
<1>5. Kept'
  BY ZenonT(30), <1>0, <1>1, <1>2, <1>4 DEF SourceInv, Kept
<1> QED
  BY SMTT(30), <1>0, <1>3, <1>5 DEF SourceInv, Answered, FailsOnlyWhenSearchedFull, NoCall, Null

LEMMA SourceStep == SourceInv /\ [Next]_vars => SourceInv'
<1> SUFFICES ASSUME SourceInv, [Next]_vars PROVE SourceInv'
  OBVIOUS
<1>p. PmmInv' /\ TypeOK /\ Owned
  BY ZenonT(30), InvStep DEF SourceInv, PmmInv
<1>1. CASE NoMemoryMap \/ ReadMap \/ ScanEntry
  BY <1>1, ScanSource
<1>2. CASE MarkAllUsed
  BY <1>2, MarkSource
<1>3. CASE ClearEntry
  BY <1>3, ClearSource
<1>4. CASE ReserveKernel
  <2>1. \A f \in Frames : f = 0 \/ KernelFrame(f) => f \in Span(0, KernelEnd + BitmapBytes)
    BY <1>p, KernelSpan DEF TypeOK
  <2>2. ret' = NoCall
    BY SMTT(30), <1>4 DEF ReserveKernel, SourceInv, Answered
  <2> QED
    BY SMTT(30), <1>4, <1>p, <2>1, <2>2, ReserveSource DEF ReserveKernel
<1>5. CASE pmm_alloc_frame
  <2>1. ASSUME NEW f \in Searched, Found(f), used' = used \cup {f}, Returned("alloc_frame", f, 1)
        PROVE  SourceInv'
    <3>1. f \in Nat /\ f .. f + 1 - 1 = {f} /\ f \notin used
      BY <2>1 DEF Searched, Found
    <3>2. f \in Frames
      BY SMTT(30), <1>p, SearchedFrames DEF TypeOK
    <3> QED
      BY SMTT(30), <1>5, <1>p, <2>1, <3>1, <3>2, AllocSource DEF pmm_alloc_frame
  <2>2. CASE /\ \A f \in Searched : ~Found(f)
             /\ Returned("alloc_frame", 0, 1) /\ UNCHANGED <<used, used_frames>>
    <3>1. Searched \subseteq used
      BY <1>p, <2>2, NoneFound DEF TypeOK
    <3> QED
      BY SMTT(30), <1>5, <1>p, <2>2, <3>1, FailSource DEF pmm_alloc_frame
  <2> QED
    BY SMTT(30), <1>5, <2>1, <2>2 DEF pmm_alloc_frame
<1>6. ASSUME NEW n \in 0 .. MaxRun, pmm_alloc_frames(n)
      PROVE  SourceInv'
  <2>0. n \in Nat
    BY PmmAssumption
  <2>1. ASSUME NEW s \in Frames, n > 0, FreeRun(s, n), used' = used \cup (s .. s + n - 1),
               Returned("alloc_frames", s, n)
        PROVE  SourceInv'
    <3>1. s \in Nat /\ n \in Nat \ {0}
      BY SMTT(30), <2>0, <2>1, <1>p DEF Frames, TypeOK
    <3>2. s .. s + n - 1 \subseteq Frames \ used
      BY SMTT(30), <2>1, <3>1, <1>p DEF FreeRun, Frames, TypeOK
    <3> QED
      BY SMTT(30), <1>6, <1>p, <2>1, <3>1, <3>2, AllocSource DEF pmm_alloc_frames
  <2>2. CASE Returned("alloc_frames", 0, n) /\ UNCHANGED <<used, used_frames>>
    BY SMTT(30), <1>6, <1>p, <2>2, FailSource DEF pmm_alloc_frames
  <2> QED
    BY ZenonT(30), <1>6, <2>1, <2>2 DEF pmm_alloc_frames
<1>7. ASSUME NEW s \in 0 .. total_frames, NEW n \in 1 .. MaxRun, pmm_free_frames(s, n)
      PROVE  SourceInv'
  <2> DEFINE F == s .. s + n - 1
  <2>1. phase = "ready" /\ Free(F) /\ zero' = zero /\ \A f \in F : MayFree(f)
    BY SMTT(30), <1>7 DEF pmm_free_frames
  <2>2. \A f \in Frames : held'[f] > 0 => held[f] > 0
    BY <1>7, <1>p DEF pmm_free_frames, TypeOK
  <2> HIDE DEF F
  <2>3. \A f \in Cleared(F) : held[f] > 0
    BY <2>1 DEF Cleared, MayFree
  <2> QED
    BY SMTT(30), <1>p, <2>1, <2>2, <2>3, FreeSource
<1>8. CASE FreeFailed
  <2>1. phase = "ready" /\ Free({0}) /\ held' = held /\ zero' = "freed"
    BY <1>8 DEF FreeFailed
  <2>2. \A f \in Cleared({0}) : f = 0
    BY ZenonT(30) DEF Cleared
  <2> QED
    BY <1>p, <2>1, <2>2, FreeSource
<1>9. ASSUME NEW start, NEW end, pmm_reserve_region(start, end)
      PROVE  SourceInv'
  BY ZenonT(30), <1>9, <1>p, ReserveSource DEF pmm_reserve_region, initVars
<1>10. ASSUME NEW f, pmm_reserve_frame(f)
       PROVE  SourceInv'
  BY ZenonT(30), <1>10, <1>p, ReserveSource DEF pmm_reserve_frame, initVars
<1>11. CASE UNCHANGED vars
  <2>1. UNCHANGED <<phase, map, total_frames, used, held, reserved, ret, zero>>
    BY ZenonT(30), <1>11 DEF vars, initVars
  <2> QED
    BY <1>p, <2>1, SameKernel
    DEF SourceInv, FromMap, Kept, Answered, FailsOnlyWhenSearchedFull
<1> QED
  BY SMTT(30), SMTT(90), <1>1, <1>2, <1>3, <1>4, <1>5, <1>6, <1>7, <1>8, <1>9, <1>10, <1>11 DEF Next

LEMMA SourceInvariant == Spec => []SourceInv
  BY SourceInit, SourceStep, PTL DEF Spec

(* The frames of the kernel image and of the bitmap stay reserved and      *)
(* marked used, frame 0 excepted after a free of a failed result.          *)
THEOREM KernelStays == Spec => []KernelKept
<1>1. SourceInv => KernelKept
  BY ZenonT(30) DEF SourceInv, PmmInv, Owned, Kept, KernelKept, KernelFrame
<1> QED
  BY <1>1, SourceInvariant, PTL

(* What callers get lies in available memory up to its last byte: the      *)
(* rounding of regions in pmm_init is on the safe side.                    *)
THEOREM AvailableOnly == Spec => []OnlyAvailable
<1>1. SourceInv => OnlyAvailable
  <2> SUFFICES ASSUME SourceInv, NEW f \in Frames, held[f] > 0
               PROVE  \E i \in 1 .. Len(map) :
                        /\ map[i].available
                        /\ map[i].addr < (f + 1) * FrameSize
                        /\ (f + 1) * FrameSize <= map[i].addr + map[i].len
    BY DEF OnlyAvailable
  <2>1. Available(f)
    BY DEF SourceInv, PmmInv, Owned, FromMap
  <2>2. PICK i \in 1 .. Len(map) : map[i].available /\ f \in Region(map[i])
    BY <2>1 DEF Available
  <2> DEFINE a == map[i].addr
             e == map[i].addr + map[i].len
  <2>3. map[i] \in Entries
    BY SMTT(30) DEF SourceInv, PmmInv, TypeOK
  <2>4. a \in Nat /\ e \in Nat /\ f \in Nat /\ FrameSize \in Nat \ {0}
    BY SMTT(30), <2>3, PmmAssumption DEF Entries, Frames
  <2>5. f >= a \div FrameSize /\ f + 1 <= e \div FrameSize
    BY <2>2, <2>4 DEF Region
  <2> HIDE DEF a, e
  <2>6. a < (f + 1) * FrameSize
    <3>1. PICK q \in Nat, r \in 0 .. FrameSize - 1 : a = q * FrameSize + r /\ a \div FrameSize = q
      BY <2>4
    <3>2. q * FrameSize <= f * FrameSize
      BY SMTT(30), <2>4, <2>5, <3>1
    <3> QED
      BY <2>4, <3>1, <3>2
  <2>7. (f + 1) * FrameSize <= e
    <3>1. PICK q \in Nat, r \in 0 .. FrameSize - 1 : e = q * FrameSize + r /\ e \div FrameSize = q
      BY <2>4
    <3>2. (f + 1) * FrameSize <= q * FrameSize
      BY SMTT(30), <2>4, <2>5, <3>1
    <3> QED
      BY <2>4, <3>1, <3>2
  <2> QED
    BY SMTT(30), <2>2, <2>6, <2>7 DEF a, e
<1> QED
  BY <1>1, SourceInvariant, PTL

(* pmm_alloc_frame fails only when every frame it looks at is in use, as   *)
(* long as nobody freed a failed result.                                   *)
THEOREM FailsWhenSearchedFull == Spec => []FailsOnlyWhenSearchedFull
<1>1. SourceInv => FailsOnlyWhenSearchedFull
  BY DEF SourceInv, Answered
<1> QED
  BY <1>1, SourceInvariant, PTL

=============================================================================
