----------------------------- MODULE MapProofs -----------------------------
(* vmm_map, vmm_unmap and vmm_set_user keep the invariant of the virtual   *)
(* memory manager.                                                         *)
EXTENDS MemoryProofs

(* A table's frame belongs to the VMM, and all frames below are taken.     *)
TableOwned ==
  /\ DOMAIN tables \subseteq Frames
  /\ \A i \in Dir : HasTable(i) =>
       LET f == page_directory[i].frame IN
         held[f] > 0 /\ \A g \in Searched : g < f => g \in used

(* Page w lies at its own physical address.                                *)
Identity(w) == Pte(w).frame = w /\ {"present", "writable"} \subseteq Pte(w).flags

(* How far the boot has come: the tables made so far map their pages onto  *)
(* themselves, and keep doing so once paging is on.                        *)
Booting ==
  /\ boot \in {"pmm", "tables", "bar", "running", "failed", "fault"}
  /\ boot = "pmm" =>
       page_tables = 0 /\ DOMAIN tables = {} /\ \A f \in Frames : held[f] = 0
  /\ boot # "pmm" => phase = "ready"
  /\ boot \in {"pmm", "tables"} =>
       /\ DOMAIN tlb = {}
       /\ page_tables \in Nat
       /\ \A i \in Dir : HasTable(i) <=> i < page_tables
       /\ \A w \in AllPages : VMM_PD_INDEX(w) < page_tables => Identity(w)
  /\ boot \in {"bar", "running"} =>
       /\ identity_end = num_pde * TableSpan
       /\ \A w \in AllPages : VMM_PD_INDEX(w) < num_pde => Identity(w)

vmInv ==
  PmmInv /\ Structure(page_directory, tables) /\ TableOwned /\ tlbOK /\ Booting

LEMMA vmInitInv == vmInit => vmInv
<1> SUFFICES ASSUME vmInit PROVE vmInv
  OBVIOUS
<1>1. PmmInv
  BY InitInv DEF vmInit
<1>2. /\ boot = "pmm" /\ page_directory = [i \in Dir |-> Zero] /\ DOMAIN tables = {}
      /\ DOMAIN tlb = {} /\ page_tables = 0 /\ Frames = {}
  BY DEF vmInit, Init, Frames, Dir
<1>3. Zero \in EntrySet /\ ~Present(Zero)
  BY DEF Zero, Entry, EntrySet, Present, Flags
<1>4. \A i \in Dir : ~HasTable(i)
  BY <1>2, <1>3 DEF HasTable
<1>5. Structure(page_directory, tables)
  BY <1>2, <1>3 DEF Structure
<1>6. \A w \in AllPages : ~ (VMM_PD_INDEX(w) < 0)
  BY PageInDir DEF Dir
<1>7. Booting
  BY <1>2, <1>4, <1>6 DEF Booting, Dir
<1> QED
  BY <1>1, <1>2, <1>4, <1>5, <1>7 DEF vmInv, TableOwned, tlbOK, TlbCoherent

(* What the VMM needs to know of pmm_alloc_frame.                          *)
LEMMA AllocFacts ==
  ASSUME PmmInv, pmm_alloc_frame
  PROVE  /\ PmmInv' /\ phase' = "ready" /\ total_memory' = total_memory
         /\ Frames' = Frames /\ Searched' = Searched /\ used \subseteq used'
         /\ \A f \in Frames : held[f] > 0 => held'[f] > 0
         /\ ret'.addr # 0 =>
              LET f == ret'.addr \div FrameSize IN
                /\ f \in Frames /\ f \in Nat /\ held[f] = 0 /\ held'[f] > 0
                /\ \A g \in Searched : g < f => g \in used'
<1>t. TypeOK /\ Owned
  BY DEF PmmInv
<1>1. PmmInv'
  BY InvStep DEF Next
<1>2. /\ phase' = "ready" /\ total_memory' = total_memory /\ total_frames' = total_frames
      /\ used \subseteq used'
  BY DEF pmm_alloc_frame, initVars
<1>3. Frames' = Frames /\ Searched' = Searched
  BY <1>2 DEF Frames, Searched
<1>4. ASSUME NEW f \in Searched, Found(f), used' = used \cup {f}, Returned("alloc_frame", f, 1)
      PROVE  /\ \A g \in Frames : held[g] > 0 => held'[g] > 0
             /\ ret'.addr # 0 =>
                  /\ ret'.addr \div FrameSize = f /\ f \in Frames /\ f \in Nat
                  /\ held[f] = 0 /\ held'[f] > 0 /\ \A g \in Searched : g < f => g \in used'
  <2>1. f \in Nat /\ f \in Frames /\ f \notin used
    BY <1>4, <1>t, SearchedFrames DEF Searched, Found, TypeOK
  <2>2. held \in [Frames -> Nat] /\ held[f] = 0
    BY <1>t, <2>1 DEF TypeOK, Owned
  <2>3. ret'.addr = f * FrameSize /\ (f * FrameSize) \div FrameSize = f
    BY <1>4, <2>1, PmmAssumption DEF Returned
  <2>4. \/ f * FrameSize = 0 /\ held' = held
        \/ /\ f * FrameSize # 0
           /\ held' = [g \in Frames |-> IF g \in f .. f + 1 - 1 THEN held[g] + 1 ELSE held[g]]
    BY <1>4, <2>2 DEF Returned
  <2>5. f \in f .. f + 1 - 1
    BY <2>1
  <2>6. f * FrameSize # 0 => held'[f] = 1
    BY <2>1, <2>2, <2>4, <2>5
  <2>7. \A g \in Frames : held[g] > 0 => held'[g] > 0
    BY <2>2, <2>4
  <2>8. \A g \in Searched : g < f => g \in used'
    BY <1>4, <2>1 DEF Found, Searched
  <2> QED
    BY SMTT(30), <2>1, <2>2, <2>3, <2>6, <2>7, <2>8
<1>5. CASE Returned("alloc_frame", 0, 1) /\ UNCHANGED <<used, used_frames>>
  <2>1. ret'.addr = 0 /\ held' = held
    BY <1>5, PmmAssumption DEF Returned
  <2> QED
    BY SMTT(30), <1>1, <1>2, <1>3, <2>1
<1> QED
  BY <1>1, <1>2, <1>3, <1>4, <1>5 DEF pmm_alloc_frame


----------------------------------------------------------------------------

(* The frames of the VMM stay its own, and no frame is freed.              *)
PmmGrows ==
  /\ PmmInv' /\ phase' = "ready" /\ total_memory' = total_memory
  /\ Frames' = Frames /\ Searched' = Searched /\ used \subseteq used'
  /\ \A f \in Frames : held[f] > 0 => held'[f] > 0

LEMMA AllocGrows ==
  ASSUME PmmInv, pmm_alloc_frame
  PROVE  PmmGrows
  BY AllocFacts DEF PmmGrows

LEMMA PmmSame ==
  ASSUME PmmInv, phase = "ready", UNCHANGED pmmVars
  PROVE  PmmGrows
<1>1. PmmInv'
  BY InvStep DEF pmmVars
<1>2. UNCHANGED <<phase, total_memory, total_frames, used, held>>
  BY DEF pmmVars, vars, initVars
<1> QED
  BY <1>1, <1>2 DEF PmmGrows, Frames, Searched

LEMMA SameNumPde ==
  ASSUME PmmGrows
  PROVE  num_pde' = num_pde
  BY DEF PmmGrows, num_pde, mem_bytes

(* Tables that were there keep their frames.                               *)
LEMMA OwnedKept ==
  ASSUME Structure(page_directory, tables), TableOwned, PmmGrows, DOMAIN tables' \subseteq Frames,
         \A i \in Dir : HasTable(i)' =>
           \/ HasTable(i) /\ page_directory'[i].frame = page_directory[i].frame
           \/ LET f == page_directory'[i].frame IN
                held'[f] > 0 /\ \A g \in Searched : g < f => g \in used'
  PROVE  TableOwned'
<1>1. Frames' = Frames /\ Searched' = Searched /\ used \subseteq used'
      /\ \A f \in Frames : held[f] > 0 => held'[f] > 0
  BY DEF PmmGrows
<1>2. ASSUME NEW i \in Dir, HasTable(i)'
      PROVE  LET f == page_directory'[i].frame IN
               held'[f] > 0 /\ \A g \in Searched : g < f => g \in used'
  <2>1. CASE HasTable(i) /\ page_directory'[i].frame = page_directory[i].frame
    <3>1. page_directory[i].frame \in Frames
      BY <2>1 DEF Structure, HasTable, TableOwned
    <3> QED
      BY <1>1, <2>1, <3>1 DEF TableOwned
  <2> QED
    BY <1>2, <2>1
<1> QED
  BY <1>1, <1>2 DEF TableOwned

(* vmm_map: p may differ from v only outside the identity map.             *)
MayMap(v, p) == v \in AllPages /\ p \in Nat /\ (p = v \/ ~ (VMM_PD_INDEX(v) < num_pde))

(* What every change of single pages leaves in place.                      *)
PagesKept ==
  /\ PmmGrows /\ Structure(page_directory', tables') /\ TableOwned' /\ tlbOK'
  /\ boot' \in {boot, "fault"}
  /\ \A w \in AllPages : VMM_PD_INDEX(w) < num_pde /\ Identity(w) => Identity(w)'

(* How a call of vmm_map for page v ends: v is mapped, or there was no     *)
(* frame for its table, or that frame pt is beyond the kernel's reach.     *)
MapEnds(v) ==
  /\ \A w \in AllPages : vmm_is_mapped(w) => vmm_is_mapped(w)'
  /\ \/ boot' = boot /\ vmm_is_mapped(v)'
     \/ boot' = boot /\ pmm_alloc_frame /\ ret'.addr = 0
     \/ /\ boot' = "fault"
        /\ \E pt \in Nat : ~Reachable(pt) /\ \A g \in Searched : g < pt => g \in used'

LEMMA MapOld ==
  ASSUME vmInv, phase = "ready", NEW v, NEW p, MayMap(v, p),
         NEW flags \in {{"present", "writable"}, Flags},
         HasTable(VMM_PD_INDEX(v)), SetPage(v, p, flags, page_directory, tables),
         UNCHANGED pmmVars
  PROVE  PagesKept /\ MapEnds(v)
<1>0. PmmInv /\ Structure(page_directory, tables) /\ TableOwned /\ tlbOK
  BY DEF vmInv
<1>1. PmmGrows
  BY <1>0, PmmSame
<1>2. v \in AllPages /\ p \in Nat
  BY DEF MayMap
<1>s. PageSet(v, p, flags, page_directory, tables)
  BY ZenonT(30), <1>0, <1>2, SetPageFacts DEF HasTable
<1>3. /\ Structure(page_directory', tables') /\ DOMAIN tables' = DOMAIN tables
      /\ \A k \in Dir : /\ page_directory'[k].frame = page_directory[k].frame
                        /\ HasTable(k)' <=> Present(page_directory[k])
      /\ DOMAIN tlb' \subseteq DOMAIN tlb
      /\ \A w \in DOMAIN tlb' : tlb'[w] = tlb[w]
      /\ \A w \in AllPages :
           \/ Pte(w)' = PteIn(page_directory, tables, w)
           \/ w = v /\ w \notin DOMAIN tlb' /\ Pte(w)' = Entry(p, flags)
      /\ \/ boot' = boot /\ Pte(v)' = Entry(p, flags)
         \/ boot' = "fault" /\ ~Reachable(page_directory[VMM_PD_INDEX(v)].frame)
  BY SMTT(30), <1>s DEF PageSet
<1>4. TableOwned'
  <2>1. DOMAIN tables' \subseteq Frames
    BY SMTT(30), <1>0, <1>3 DEF TableOwned
  <2>2. \A k \in Dir : HasTable(k)' =>
          HasTable(k) /\ page_directory'[k].frame = page_directory[k].frame
    BY <1>3 DEF HasTable
  <2> QED
    BY SMTT(30), <1>0, <1>1, <2>1, <2>2, OwnedKept
<1>5. \A w \in AllPages : \/ Pte(w)' = Pte(w)
                          \/ w = v /\ w \notin DOMAIN tlb' /\ Pte(w)' = Entry(p, flags)
  BY SMTT(30), <1>3, PteHere
<1>6. tlbOK'
  <2>1. \A w \in DOMAIN tlb' : w \in AllPages /\ Pte(w)' = Pte(w)
    BY ZenonT(30), <1>0, <1>3, <1>5, PagesExist DEF tlbOK
  <2> QED
    BY <1>0, <1>3, <2>1, TlbKept
<1>7. ASSUME NEW w \in AllPages, VMM_PD_INDEX(w) < num_pde, Identity(w)
      PROVE  Identity(w)'
  <2>1. CASE Pte(w)' = Pte(w)
    BY <1>7, <2>1 DEF Identity
  <2>2. CASE w = v /\ Pte(w)' = Entry(p, flags)
    BY <1>7, <2>2 DEF Identity, Entry, MayMap, Flags
  <2> QED
    BY SMTT(30), <1>5, <2>1, <2>2
<1>8. Present(Entry(p, flags))
  BY DEF Present, Entry, Flags
<1>9. \A w \in AllPages : vmm_is_mapped(w) => vmm_is_mapped(w)'
  BY <1>5, <1>8 DEF vmm_is_mapped
<1>10. LET pt == page_directory[VMM_PD_INDEX(v)].frame IN
         pt \in Nat /\ \A g \in Searched : g < pt => g \in used'
  BY ZenonT(30), <1>0, <1>1, <1>2, PageInDir DEF TableOwned, Structure, EntrySet, PmmGrows
<1>11. MapEnds(v)
  BY ZenonT(30), <1>3, <1>8, <1>9, <1>10 DEF MapEnds, vmm_is_mapped
<1> QED
  BY ZenonT(30), <1>1, <1>3, <1>4, <1>6, <1>7, <1>11 DEF PagesKept

(* A new table in the frame that pmm_alloc_frame returned.                 *)
OwnTable(f, tabs) ==
  /\ f \in Frames /\ held'[f] > 0 /\ \A g \in Searched : g < f => g \in used'
  /\ DOMAIN tabs \subseteq Frames

LEMMA FreshTable ==
  ASSUME vmInv, NEW i \in Dir, ~HasTable(i), pmm_alloc_frame, ret'.addr # 0,
         NEW f, f = ret'.addr \div FrameSize,
         NEW content \in [Offsets -> EntrySet], \A j \in Offsets : "user" \notin content[j].flags
  PROVE  /\ IsNewTable(page_directory, tables, i, f, content, DirWith(i, f), TablesWith(f, content))
         /\ OwnTable(f, TablesWith(f, content))
<1>0. PmmInv /\ Structure(page_directory, tables) /\ TableOwned
  BY DEF vmInv
<1>1. /\ f \in Frames /\ f \in Nat /\ held[f] = 0 /\ held'[f] > 0
      /\ \A g \in Searched : g < f => g \in used'
  BY SMTT(30), <1>0, AllocFacts
<1>2. \A k \in Dir : Present(page_directory[k]) => page_directory[k].frame # f
  BY <1>0, <1>1 DEF TableOwned, HasTable
<1>3. IsNewTable(page_directory, tables, i, f, content, DirWith(i, f), TablesWith(f, content))
  BY ZenonT(30), <1>0, <1>1, <1>2 DEF IsNewTable, HasTable, DirWith, TablesWith
<1>4. DOMAIN TablesWith(f, content) \subseteq Frames
  BY <1>0, <1>1 DEF TablesWith, TableOwned
<1> QED
  BY <1>1, <1>3, <1>4 DEF OwnTable

(* Tables that were there keep their frames, and a new one is in frame f.  *)
LEMMA NewOwned ==
  ASSUME Structure(page_directory, tables), TableOwned, PmmGrows, NEW i, NEW f,
         OwnTable(f, tables'), page_directory'[i].frame = f,
         \A k \in Dir \ {i} : /\ page_directory'[k].frame = page_directory[k].frame
                              /\ HasTable(k)' => HasTable(k)
  PROVE  TableOwned'
<1>1. DOMAIN tables' \subseteq Frames
  BY DEF OwnTable
<1>2. ASSUME NEW k \in Dir, HasTable(k)'
      PROVE  \/ HasTable(k) /\ page_directory'[k].frame = page_directory[k].frame
             \/ LET g == page_directory'[k].frame IN
                  held'[g] > 0 /\ \A h \in Searched : h < g => h \in used'
  <2>1. CASE k = i
    BY <2>1 DEF OwnTable
  <2>2. CASE k # i
    <3>1. k \in Dir \ {i}
      BY <2>2
    <3> QED
      BY <1>2, <3>1, ZenonT(30)
  <2> QED
    BY SMTT(30), <2>1, <2>2
<1> QED
  BY ZenonT(30), <1>1, <1>2, OwnedKept

(* vmm_map for a page v without a table: dir and tabs have the new one.    *)
NewPageSet(v, p, flags, f, content, dir, tabs) ==
  /\ TableAdded(page_directory, tables, VMM_PD_INDEX(v), f, content, dir, tabs)
  /\ OwnTable(f, tabs)
  /\ PageSet(v, p, flags, dir, tabs)

LEMMA NewPageKept ==
  ASSUME NEW v \in AllPages, NEW p, NEW flags \in {{"present", "writable"}, Flags},
         NEW f, NEW content, NEW dir, NEW tabs, ~HasTable(VMM_PD_INDEX(v)),
         NewPageSet(v, p, flags, f, content, dir, tabs),
         Structure(page_directory, tables), TableOwned, tlbOK, PmmGrows
  PROVE  PagesKept /\ MapEnds(v)
<1> DEFINE i == VMM_PD_INDEX(v)
<1>1. i \in Dir /\ f \in Nat
  BY PageInDir DEF NewPageSet, OwnTable, Frames
<1>2. /\ dir[i].frame = f
      /\ \A k \in Dir \ {i} : dir[k] = page_directory[k]
  BY DEF NewPageSet, TableAdded
<1>3. \A w \in AllPages : VMM_PD_INDEX(w) # i => PteIn(dir, tabs, w) = PteIn(page_directory, tables, w)
  BY SMTT(30) DEF NewPageSet, TableAdded
<1>4. Structure(page_directory', tables') /\ DOMAIN tables' = DOMAIN tabs
  BY DEF NewPageSet, PageSet
<1>5. \A k \in Dir : page_directory'[k].frame = dir[k].frame /\ (HasTable(k)' <=> Present(dir[k]))
  BY ZenonT(30) DEF NewPageSet, PageSet
<1>6. DOMAIN tlb' \subseteq DOMAIN tlb /\ \A w \in DOMAIN tlb' : tlb'[w] = tlb[w]
  BY DEF NewPageSet, PageSet
<1>7. \A w \in AllPages : w # v => Pte(w)' = PteIn(dir, tabs, w)
  BY ZenonT(30) DEF NewPageSet, PageSet
<1>8. \/ boot' = boot /\ Pte(v)' = Entry(p, flags)
      \/ boot' = "fault" /\ ~Reachable(f)
  BY <1>2 DEF NewPageSet, PageSet
<1>9. OwnTable(f, tabs)
  BY ZenonT(30) DEF NewPageSet
<1> HIDE DEF i
<1>10. TableOwned'
  <2>1. OwnTable(f, tables')
    BY ZenonT(30), <1>4, <1>9 DEF OwnTable
  <2>2. page_directory'[i].frame = f
    BY ZenonT(30), <1>1, <1>2, <1>5
  <2>3. \A k \in Dir \ {i} : /\ page_directory'[k].frame = page_directory[k].frame
                             /\ HasTable(k)' => HasTable(k)
    BY <1>2, <1>5 DEF HasTable
  <2> QED
    BY SMTT(30), <2>1, <2>2, <2>3, NewOwned
<1>11. ASSUME NEW w \in AllPages, vmm_is_mapped(w)
       PROVE  Pte(w)' = Pte(w)
  <2>1. HasTable(VMM_PD_INDEX(w))
    BY <1>11 DEF vmm_is_mapped, Pte, HasTable, Present, Zero, Entry
  <2>2. VMM_PD_INDEX(w) # i /\ w # v
    BY <2>1 DEF i
  <2> QED
    BY ZenonT(30), <1>3, <1>7, <2>2, PteHere
<1>12. tlbOK'
  <2>1. \A w \in DOMAIN tlb' : w \in AllPages /\ vmm_is_mapped(w)
    BY <1>6, PagesExist DEF tlbOK, TlbCoherent
  <2>2. \A w \in DOMAIN tlb' : Pte(w)' = Pte(w)
    BY SMTT(30), <1>11, <2>1
  <2> QED
    BY SMTT(30), <1>4, <1>6, <2>2, TlbKept
<1>13. \A w \in AllPages : Identity(w) => Identity(w)'
  <2>1. \A w : Identity(w) => vmm_is_mapped(w)
    BY DEF Identity, vmm_is_mapped, Present
  <2> QED
    BY SMTT(30), <1>11, <2>1 DEF Identity
<1>14. \A w \in AllPages : vmm_is_mapped(w) => vmm_is_mapped(w)'
  BY <1>11 DEF vmm_is_mapped
<1>15. Present(Entry(p, flags))
  BY DEF Present, Entry, Flags
<1>16. \A g \in Searched : g < f => g \in used'
  BY <1>9 DEF OwnTable
<1>17. MapEnds(v)
  BY ZenonT(30), <1>1, <1>8, <1>14, <1>15, <1>16 DEF MapEnds, vmm_is_mapped
<1>18. PagesKept
  BY ZenonT(30), <1>4, <1>8, <1>10, <1>12, <1>13 DEF PagesKept
<1> QED
  BY <1>17, <1>18

(* The frame that pmm_alloc_frame returned, as the table of page v.        *)
LEMMA NewPageIs ==
  ASSUME vmInv, NEW v \in AllPages, NEW p \in Nat, NEW flags \in {{"present", "writable"}, Flags},
         ~HasTable(VMM_PD_INDEX(v)), pmm_alloc_frame, ret'.addr # 0,
         NEW f, f = ret'.addr \div FrameSize,
         SetPage(v, p, flags, DirWith(VMM_PD_INDEX(v), f),
                 TablesWith(f, [j \in 0 .. PagesPerTable - 1 |-> Zero]))
  PROVE  \E content : NewPageSet(v, p, flags, f, content, DirWith(VMM_PD_INDEX(v), f),
                                 TablesWith(f, content))
<1> DEFINE i == VMM_PD_INDEX(v)
           content == [j \in 0 .. PagesPerTable - 1 |-> Zero]
           dir == DirWith(i, f)
           tabs == TablesWith(f, content)
<1>1. content \in [Offsets -> EntrySet] /\ \A j \in Offsets : "user" \notin content[j].flags
  BY DEF Offsets, EntrySet, Zero, Entry
<1>2. SetPage(v, p, flags, dir, tabs) /\ i \in Dir
  BY PageInDir, ZenonT(30)
<1> SUFFICES NewPageSet(v, p, flags, f, content, dir, tabs)
  BY ZenonT(30)
<1> HIDE DEF content
<1>3. IsNewTable(page_directory, tables, i, f, content, dir, tabs) /\ OwnTable(f, tabs)
  BY SMTT(30), <1>1, <1>2, FreshTable
<1> HIDE DEF dir, tabs, i
<1>4. TableAdded(page_directory, tables, i, f, content, dir, tabs)
  BY SMTT(30), <1>3, NewTable
<1>5. Structure(dir, tabs) /\ dir[i].frame = f /\ Present(dir[i])
  BY SMTT(30), <1>2, <1>4 DEF TableAdded, i
<1>6. PageSet(v, p, flags, dir, tabs)
  BY ZenonT(30), <1>2, <1>5, SetPageFacts DEF i
<1> QED
  BY SMTT(30), <1>3, <1>4, <1>6 DEF NewPageSet, i

LEMMA MapNew ==
  ASSUME vmInv, NEW v, NEW p, MayMap(v, p),
         NEW flags \in {{"present", "writable"}, Flags},
         ~HasTable(VMM_PD_INDEX(v)), MapNewTable(v, p, flags)
  PROVE  PagesKept /\ MapEnds(v)
<1>0. PmmInv /\ Structure(page_directory, tables) /\ TableOwned /\ tlbOK /\ pmm_alloc_frame
  BY DEF vmInv, MapNewTable
<1>1. PmmGrows
  BY <1>0, AllocGrows
<1>2. v \in AllPages /\ p \in Nat /\ VMM_PD_INDEX(v) \in Dir
  BY PageInDir DEF MayMap
<1>3. CASE /\ UNCHANGED <<dirVars, tlb>>
           /\ \/ boot' = boot /\ ret'.addr = 0
              \/ boot' = "fault" /\ ret'.addr # 0 /\ ~Reachable(ret'.addr \div FrameSize)
  <2>1. UNCHANGED <<page_directory, tables, tlb>>
    BY ZenonT(30), <1>3 DEF dirVars
  <2>2. \A w : Pte(w)' = Pte(w) /\ (Identity(w)' <=> Identity(w))
    BY SMTT(30), <2>1 DEF Pte, Table, Identity
  <2>3. DOMAIN tables' \subseteq Frames /\ \A k \in Dir : HasTable(k)' =>
          HasTable(k) /\ page_directory'[k].frame = page_directory[k].frame
    BY SMTT(30), <1>0, <2>1 DEF HasTable, TableOwned
  <2>4. TableOwned'
    BY SMTT(30), <1>0, <1>1, <2>3, OwnedKept
  <2>5. tlbOK'
    BY SMTT(30), <1>0, <2>1, <2>2, TlbKept
  <2>6. \A w \in AllPages : vmm_is_mapped(w) => vmm_is_mapped(w)'
    BY <2>2 DEF vmm_is_mapped
  <2>7. ret'.addr # 0 => LET pt == ret'.addr \div FrameSize IN
          pt \in Nat /\ \A g \in Searched : g < pt => g \in used'
    BY <1>0, AllocFacts
  <2>8. MapEnds(v)
    BY SMTT(30), <1>0, <1>3, <2>6, <2>7 DEF MapEnds
  <2> QED
    BY ZenonT(30), <1>0, <1>1, <1>3, <2>1, <2>2, <2>4, <2>5, <2>8 DEF PagesKept
<1>4. ASSUME ret'.addr # 0, NEW f, f = ret'.addr \div FrameSize,
             SetPage(v, p, flags, DirWith(VMM_PD_INDEX(v), f),
                     TablesWith(f, [j \in 0 .. PagesPerTable - 1 |-> Zero]))
      PROVE  PagesKept /\ MapEnds(v)
  <2>1. PICK content : NewPageSet(v, p, flags, f, content, DirWith(VMM_PD_INDEX(v), f),
                                  TablesWith(f, content))
    BY ZenonT(30), <1>0, <1>2, <1>4, NewPageIs
  <2> QED
    BY ZenonT(30), <1>0, <1>1, <1>2, <2>1, NewPageKept
<1> QED
  BY ZenonT(30), <1>3, <1>4 DEF MapNewTable, page_fault_handler, OutOfFrames


----------------------------------------------------------------------------

LEMMA NumPde ==
  ASSUME TypeOK
  PROVE  num_pde \in Nat \ {0} /\ num_pde <= TablesPerDir /\ TableSpan \in Nat \ {0}
<1>1. /\ TablesPerDir \in Nat /\ TablesPerDir >= 1 /\ PagesPerTable \in Nat /\ PagesPerTable >= 1
      /\ FrameSize \in Nat /\ FrameSize >= 1 /\ total_memory \in Nat
  BY VmmAssumption, PmmAssumption DEF TypeOK
<1>2. TableSpan \in Nat \ {0} /\ Span32 \in Nat \ {0}
  <2>1. ASSUME NEW a \in Nat \ {0}, NEW b \in Nat \ {0} PROVE a * b \in Nat \ {0}
    BY <2>1
  <2> QED
    BY <1>1, <2>1 DEF TableSpan, Span32
<1>3. mem_bytes \in Nat
  BY <1>1, <1>2 DEF mem_bytes
<1> DEFINE s == mem_bytes + TableSpan - 1
           n == (s % Span32) \div TableSpan
<1>4. s \in Nat
  BY <1>2, <1>3
<1> HIDE DEF s
<1>5. s % Span32 \in Nat
  BY <1>2, <1>4
<1>6. n \in Nat
  BY SMTT(30), <1>2, <1>5, DivNat
<1>7. num_pde = (LET m == IF n > TablesPerDir THEN TablesPerDir ELSE n IN IF m = 0 THEN 1 ELSE m)
  BY DEF num_pde, s
<1> HIDE DEF n
<1> QED
  BY SMTT(30), <1>1, <1>2, <1>6, <1>7

(* Once paging is on, a step that keeps the pages keeps the invariant.     *)
LEMMA PagesKeptInv ==
  ASSUME vmInv, boot \in {"bar", "running"}, PagesKept, identity_end' = identity_end
  PROVE  vmInv'
<1>1. PmmGrows /\ num_pde' = num_pde
  BY SameNumPde DEF PagesKept
<1>2. boot' \in {"bar", "running", "fault"} /\ phase' = "ready" /\ PmmInv'
  BY <1>1 DEF PagesKept, PmmGrows
<1>3. /\ identity_end' = num_pde' * TableSpan
      /\ \A w \in AllPages : VMM_PD_INDEX(w) < num_pde' => Identity(w)'
  BY <1>1 DEF vmInv, Booting, PagesKept
<1>4. Booting'
  BY SMTT(30), <1>2, <1>3 DEF Booting
<1> QED
  BY <1>2, <1>4 DEF vmInv, PagesKept

LEMMA MapStep ==
  ASSUME vmInv, boot \in {"bar", "running"}, NEW v, NEW p, MayMap(v, p),
         NEW flags \in {{"present", "writable"}, Flags}, vmm_map(v, p, flags)
  PROVE  vmInv' /\ MapEnds(v)
<1>1. phase = "ready" /\ identity_end' = identity_end
  BY DEF vmInv, Booting, vmm_map
<1>2. CASE ~HasTable(VMM_PD_INDEX(v)) /\ MapNewTable(v, p, flags)
  BY SMTT(30), <1>1, <1>2, MapNew, PagesKeptInv
<1>3. CASE /\ HasTable(VMM_PD_INDEX(v)) /\ SetPage(v, p, flags, page_directory, tables)
           /\ UNCHANGED pmmVars
  BY SMTT(30), <1>1, <1>3, MapOld, PagesKeptInv
<1> QED
  BY SMTT(30), <1>2, <1>3 DEF vmm_map, HasTable

(* A page at or above stats.identity_end is none of the identity map.      *)
LEMMA AboveIdentity ==
  ASSUME vmInv, boot \in {"bar", "running"}, NEW v \in AllPages, v * FrameSize >= identity_end
  PROVE  ~ (VMM_PD_INDEX(v) < num_pde)
<1>1. num_pde \in Nat /\ identity_end = num_pde * TableSpan
  BY NumPde DEF vmInv, PmmInv, Booting
<1>2. v \in Nat /\ FrameSize \in Nat \ {0} /\ PagesPerTable \in Nat
  BY SMTT(30), PageInDir, PmmAssumption, VmmAssumption
<1> DEFINE n == num_pde * PagesPerTable
<1>3. n \in Nat /\ identity_end = n * FrameSize
  BY <1>1, <1>2 DEF TableSpan
<1>4. (v < n) <=> VMM_PD_INDEX(v) < num_pde
  BY SMTT(30), <1>1, <1>2, PageIndex
<1> HIDE DEF n
<1>5. ASSUME v < n PROVE v * FrameSize < n * FrameSize
  <2>1. PICK k \in Nat : n = v + 1 + k
    BY SMTT(30), <1>2, <1>3, <1>5
  <2>2. n * FrameSize = v * FrameSize + FrameSize + k * FrameSize /\ k * FrameSize \in Nat
    BY <1>2, <2>1
  <2> QED
    BY <1>2, <2>2
<1>6. v * FrameSize \in Nat /\ n * FrameSize \in Nat
  BY SMTT(30), <1>2, <1>3
<1> QED
  BY SMTT(30), <1>3, <1>4, <1>5, <1>6

(* One page entry, its directory entry's user flag, or neither changes.    *)
LEMMA ChangeKept ==
  ASSUME vmInv, phase = "ready", UNCHANGED pmmVars,
         Structure(page_directory', tables'), DOMAIN tables' = DOMAIN tables,
         \A k \in Dir : /\ page_directory'[k].frame = page_directory[k].frame
                        /\ HasTable(k)' <=> HasTable(k),
         DOMAIN tlb' \subseteq DOMAIN tlb,
         \A w \in DOMAIN tlb' : tlb'[w] = tlb[w] /\ Pte(w)' = Pte(w),
         \A w \in AllPages : VMM_PD_INDEX(w) < num_pde /\ Identity(w) => Identity(w)',
         boot' \in {boot, "fault"}
  PROVE  PagesKept
<1>0. PmmInv /\ Structure(page_directory, tables) /\ TableOwned /\ tlbOK
  BY DEF vmInv
<1>1. PmmGrows
  BY ZenonT(30), <1>0, PmmSame
<1>2. TableOwned'
  <2>1. DOMAIN tables' \subseteq Frames
    BY SMTT(30), <1>0 DEF TableOwned
  <2> QED
    BY ZenonT(30), <1>0, <1>1, <2>1, OwnedKept
<1>3. tlbOK'
  BY SMTT(30), <1>0, TlbKept
<1> QED
  BY ZenonT(30), <1>1, <1>2, <1>3 DEF PagesKept

LEMMA UnmapStep ==
  ASSUME vmInv, NEW v \in Pages, vmm_unmap(v)
  PROVE  vmInv'
<1>0. /\ Structure(page_directory, tables) /\ phase = "ready" /\ v \in AllPages
      /\ boot = "running" /\ tlbOK /\ DOMAIN tlb \subseteq AllPages
  BY SMTT(30), PagesExist DEF vmInv, Booting, vmm_unmap, tlbOK
<1>1. /\ UNCHANGED <<pmmVars, page_directory, identity_end>> /\ HasTable(VMM_PD_INDEX(v))
      /\ v * FrameSize >= identity_end
  BY DEF vmm_unmap, HasTable
<1>2. ~ (VMM_PD_INDEX(v) < num_pde)
  BY SMTT(30), <1>0, <1>1, AboveIdentity
<1>3. CASE /\ tables' = [tables EXCEPT ![Table(v)][VMM_PT_INDEX(v)] = Zero]
           /\ vmm_flush_tlb(v) /\ UNCHANGED boot
  <2>1. Zero \in EntrySet /\ "user" \notin Zero.flags
    BY DEF Zero, Entry, EntrySet
  <2>2. IsFlagged(page_directory, VMM_PD_INDEX(v), {}, page_directory')
    <3>1. page_directory \in [Dir -> EntrySet] /\ VMM_PD_INDEX(v) \in Dir
      BY <1>0, PageInDir DEF Structure
    <3> DEFINE i == VMM_PD_INDEX(v)
    <3> HIDE DEF i
    <3>2. ASSUME i \in Dir PROVE page_directory = [page_directory EXCEPT ![i].flags = @ \cup {}]
      <4>1. [page_directory[i] EXCEPT !.flags = @ \cup {}] = page_directory[i]
        BY ZenonT(30), <3>1, <3>2 DEF EntrySet
      <4> QED
        BY <3>1, <4>1
    <3> QED
      BY ZenonT(30), <1>1, <3>1, <3>2 DEF IsFlagged, i
  <2>3. IsChanged(page_directory, tables, v, {}, Zero, page_directory', tables')
    BY ZenonT(30), <1>0, <1>1, <1>3, <2>1, <2>2 DEF IsChanged, HasTable, Table
  <2>4. /\ Structure(page_directory', tables') /\ DOMAIN tables' = DOMAIN tables
        /\ \A w \in AllPages \ {v} :
             PteIn(page_directory', tables', w) = PteIn(page_directory, tables, w)
    BY SMTT(30), <2>3, EntryChange DEF PageChanged
  <2>5. \A w \in AllPages \ {v} : Pte(w)' = Pte(w)
    BY SMTT(30), <2>4, PteHere, PteNext
  <2>6. /\ DOMAIN tlb' = DOMAIN tlb \ {v}
        /\ \A w \in DOMAIN tlb' : tlb'[w] = tlb[w] /\ Pte(w)' = Pte(w)
    BY ZenonT(30), <1>0, <1>3, <2>5 DEF vmm_flush_tlb
  <2>7. \A w \in AllPages : VMM_PD_INDEX(w) < num_pde /\ Identity(w) => Identity(w)'
    BY <1>2, <2>5 DEF Identity
  <2>8. \A k \in Dir : /\ page_directory'[k].frame = page_directory[k].frame
                       /\ HasTable(k)' <=> HasTable(k)
    BY ZenonT(30), <1>1 DEF HasTable
  <2>9. PagesKept
    BY ZenonT(30), <1>0, <1>1, <1>3, <2>4, <2>6, <2>7, <2>8, ChangeKept
  <2> QED
    BY ZenonT(30), <1>0, <1>1, <2>9, PagesKeptInv
<1>4. CASE page_fault_handler /\ UNCHANGED tables
  <2>1. UNCHANGED <<page_directory, tables, tlb>> /\ boot' = "fault"
    BY ZenonT(30), <1>1, <1>4 DEF page_fault_handler
  <2>2. \A w : Pte(w)' = Pte(w) /\ (Identity(w)' <=> Identity(w))
    BY <2>1 DEF Pte, Table, Identity
  <2>3. \A k \in Dir : /\ page_directory'[k].frame = page_directory[k].frame
                       /\ HasTable(k)' <=> HasTable(k)
    BY ZenonT(30), <2>1 DEF HasTable
  <2>4. PagesKept
    BY ZenonT(30), <1>0, <1>1, <2>1, <2>2, <2>3, ChangeKept
  <2> QED
    BY SMTT(30), <1>0, <1>1, <2>4, PagesKeptInv
<1> QED
  BY SMTT(30), <1>3, <1>4 DEF vmm_unmap


LEMMA SetUserStep ==
  ASSUME vmInv, NEW v \in Pages, vmm_set_user(v)
  PROVE  vmInv'
<1> DEFINE i == VMM_PD_INDEX(v)
           X == {"user"}
<1>0. /\ Structure(page_directory, tables) /\ phase = "ready" /\ v \in AllPages
      /\ boot = "running" /\ tlbOK /\ DOMAIN tlb \subseteq AllPages /\ i \in Dir
  BY SMTT(30), PagesExist, PageInDir DEF vmInv, Booting, vmm_set_user, tlbOK
<1>1. /\ UNCHANGED pmmVars /\ identity_end' = identity_end /\ HasTable(i)
      /\ IsFlagged(page_directory, i, X, page_directory')
  BY DEF vmm_set_user, HasTable, IsFlagged, statVars
<1>2. CASE /\ tables' = [tables EXCEPT ![Table(v)][VMM_PT_INDEX(v)].flags = @ \cup X]
           /\ vmm_flush_tlb(v) /\ UNCHANGED boot
  <2> DEFINE j == VMM_PT_INDEX(v)
             pt == page_directory[i].frame
             e == Entry(Pte(v).frame, Pte(v).flags \cup X)
  <2>1. j \in Offsets /\ pt \in DOMAIN tables /\ tables[pt] \in [Offsets -> EntrySet]
    BY ZenonT(30), <1>0, <1>1, PageInDir DEF Structure, HasTable
  <2>2. Pte(v) = tables[pt][j] /\ Table(v) = pt /\ tables[pt][j] \in EntrySet
    BY ZenonT(30), <1>1, <2>1 DEF Pte, HasTable, Table
  <2>3. e \in EntrySet /\ e.flags = Pte(v).flags \cup X /\ e.frame = Pte(v).frame
    BY ZenonT(30), <2>2 DEF Entry, EntrySet, Flags
  <2>4. tables' = [tables EXCEPT ![pt][j] = e]
    <3> HIDE DEF j, pt, X
    <3>1. [tables[pt][j] EXCEPT !.flags = @ \cup X] = e
      BY SMTT(30), <2>2 DEF Entry, EntrySet
    <3> HIDE DEF e
    <3> QED
      BY ZenonT(30), <1>2, <2>1, <2>2, <3>1 DEF j
  <2> HIDE DEF e
  <2>5. "user" \in e.flags => "user" \in page_directory[i].flags \cup X
    OBVIOUS
  <2> HIDE DEF X
  <2>6. IsChanged(page_directory, tables, v, X, e, page_directory', tables')
    BY ZenonT(30), <1>0, <1>1, <2>3, <2>4, <2>5 DEF IsChanged, HasTable
  <2>7. /\ Structure(page_directory', tables') /\ DOMAIN tables' = DOMAIN tables
        /\ \A k \in Dir : /\ page_directory'[k].frame = page_directory[k].frame
                          /\ Present(page_directory'[k]) <=> Present(page_directory[k])
        /\ PteIn(page_directory', tables', v) = e
        /\ \A w \in AllPages \ {v} :
             PteIn(page_directory', tables', w) = PteIn(page_directory, tables, w)
    BY SMTT(30), <2>6, EntryChange DEF PageChanged
  <2>8. Pte(v)' = e /\ \A w \in AllPages \ {v} : Pte(w)' = Pte(w)
    BY SMTT(30), <2>7, PteHere, PteNext
  <2>9. /\ DOMAIN tlb' = DOMAIN tlb \ {v}
        /\ \A w \in DOMAIN tlb' : tlb'[w] = tlb[w] /\ Pte(w)' = Pte(w)
    BY ZenonT(30), <1>0, <1>2, <2>8 DEF vmm_flush_tlb
  <2>10. \A w \in AllPages : VMM_PD_INDEX(w) < num_pde /\ Identity(w) => Identity(w)'
    BY SMTT(30), <2>3, <2>8 DEF Identity
  <2>11. \A k \in Dir : /\ page_directory'[k].frame = page_directory[k].frame
                        /\ HasTable(k)' <=> HasTable(k)
    BY <2>7 DEF HasTable
  <2>12. PagesKept
    BY ZenonT(30), <1>0, <1>1, <1>2, <2>7, <2>9, <2>10, <2>11, ChangeKept
  <2> QED
    BY ZenonT(30), <1>0, <1>1, <2>12, PagesKeptInv
<1>3. CASE UNCHANGED <<tables, tlb>> /\ boot' \in {boot, "fault"}
  <2>1. UNCHANGED <<tables, tlb>>
    BY <1>3
  <2> HIDE DEF X
  <2>2. /\ Structure(page_directory', tables)
        /\ \A k \in Dir : /\ page_directory'[k].frame = page_directory[k].frame
                          /\ Present(page_directory'[k]) <=> Present(page_directory[k])
        /\ \A w \in AllPages : PteIn(page_directory', tables, w) = PteIn(page_directory, tables, w)
    <3>1. PagesSame(page_directory, tables, page_directory')
      BY ZenonT(30), <1>0, <1>1, FlagChange
    <3> QED
      BY <3>1 DEF PagesSame
  <2>3. \A w \in AllPages : Pte(w)' = Pte(w)
    BY ZenonT(30), <2>1, <2>2, PteHere, PteNext
  <2>4. \A w \in AllPages : VMM_PD_INDEX(w) < num_pde /\ Identity(w) => Identity(w)'
    BY SMTT(30), <2>3 DEF Identity
  <2>5. \A k \in Dir : /\ page_directory'[k].frame = page_directory[k].frame
                       /\ HasTable(k)' <=> HasTable(k)
    BY <2>2 DEF HasTable
  <2>6. \A w \in DOMAIN tlb' : tlb'[w] = tlb[w] /\ Pte(w)' = Pte(w)
    BY ZenonT(30), <1>0, <2>1, <2>3
  <2>7. PagesKept
    BY ZenonT(30), <1>0, <1>1, <1>3, <2>1, <2>2, <2>4, <2>5, <2>6, ChangeKept
  <2> QED
    BY SMTT(30), <1>0, <1>1, <2>7, PagesKeptInv
<1> QED
  BY SMTT(30), <1>2, <1>3 DEF vmm_set_user, page_fault_handler

=============================================================================
