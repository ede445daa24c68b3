----------------------------- MODULE VmmProofs -----------------------------
(* The virtual memory manager for every size of frames, tables and         *)
(* directory, every memory map and every place of heap and card.           *)
EXTENDS MapProofs

(* Nothing but the TLB and the place of the boot changes.                  *)
LEMMA SameMemory ==
  ASSUME vmInv, UNCHANGED <<pmmVars, dirVars>>
  PROVE  /\ PmmInv' /\ Structure(page_directory', tables') /\ TableOwned'
         /\ num_pde' = num_pde /\ phase' = phase /\ Frames' = Frames /\ held' = held
         /\ DOMAIN tables' = DOMAIN tables
         /\ \A w : Pte(w)' = Pte(w) /\ Walk(w)' = Walk(w) /\ (Identity(w)' <=> Identity(w))
         /\ \A i : HasTable(i)' <=> HasTable(i)
<1>1. UNCHANGED <<page_directory, tables, phase, total_memory, total_frames, used, held>>
  BY DEF dirVars, pmmVars, vars, initVars
<1>2. PmmInv'
  BY InvStep DEF vmInv, pmmVars
<1>3. Frames' = Frames /\ Searched' = Searched /\ num_pde' = num_pde
  BY <1>1 DEF Frames, Searched, num_pde, mem_bytes
<1>4. \A w : Pte(w)' = Pte(w)
  BY <1>1 DEF Pte, Table
<1>5. \A w : Walk(w)' = Walk(w)
  BY ZenonT(30), <1>1, <1>4 DEF Walk
<1>6. TableOwned'
  BY <1>1, <1>3 DEF vmInv, TableOwned, HasTable
<1> QED
  BY ZenonT(30), <1>1, <1>2, <1>3, <1>4, <1>5, <1>6 DEF vmInv, Identity, HasTable

LEMMA TlbStep ==
  ASSUME vmInv, (\E v \in Pages : TlbFill(v)) \/ vmm_flush_tlb_all
  PROVE  vmInv'
<1>0. boot \in {"bar", "running"} /\ UNCHANGED <<pmmVars, dirVars>> /\ boot' = boot /\ identity_end' = identity_end
  BY ZenonT(30) DEF TlbFill, vmm_flush_tlb_all, statVars
<1>1. tlbOK /\ Booting
  BY DEF vmInv
<1>2. /\ PmmInv' /\ Structure(page_directory', tables') /\ TableOwned'
      /\ num_pde' = num_pde /\ phase' = phase
      /\ \A w : Pte(w)' = Pte(w) /\ Walk(w)' = Walk(w) /\ (Identity(w)' <=> Identity(w))
  BY <1>0, SameMemory
<1>3. tlbOK'
  <2>1. CASE vmm_flush_tlb_all
    BY <2>1 DEF vmm_flush_tlb_all, tlbOK, TlbCoherent
  <2>2. ASSUME NEW v \in Pages, TlbFill(v)
        PROVE  tlbOK'
    <3>1. /\ DOMAIN tlb' = DOMAIN tlb \cup {v} /\ vmm_is_mapped(v)
          /\ \A w \in DOMAIN tlb' : tlb'[w] = IF w = v THEN Walk(v) ELSE tlb[w]
      BY <2>2 DEF TlbFill
    <3>2. \A w \in DOMAIN tlb' : vmm_is_mapped(w) /\ tlb'[w] = Walk(w)
      BY <1>1, <3>1 DEF tlbOK, TlbCoherent
    <3>3. \A w \in DOMAIN tlb' : vmm_is_mapped(w)' /\ tlb'[w] = Walk(w)'
      BY ZenonT(30), <1>2, <3>2 DEF vmm_is_mapped
    <3> QED
      BY <1>1, <3>1, <3>3 DEF tlbOK, TlbCoherent
  <2> QED
    BY <2>1, <2>2
<1>4. Booting'
  BY <1>0, <1>1, <1>2 DEF Booting
<1> QED
  BY <1>2, <1>3, <1>4 DEF vmInv

LEMMA CardStep ==
  ASSUME vmInv, UseBar \/ NoCard
  PROVE  vmInv'
<1>0. /\ boot = "bar" /\ UNCHANGED <<pmmVars, dirVars>> /\ boot' \in {"running", "fault"}
      /\ identity_end' = identity_end /\ tlb' = tlb
  BY DEF UseBar, NoCard, statVars, page_fault_handler
<1>1. tlbOK /\ Booting
  BY DEF vmInv
<1>2. /\ PmmInv' /\ Structure(page_directory', tables') /\ TableOwned'
      /\ num_pde' = num_pde /\ phase' = phase
      /\ \A w : Pte(w)' = Pte(w) /\ Walk(w)' = Walk(w) /\ (Identity(w)' <=> Identity(w))
  BY <1>0, SameMemory
<1>3. tlbOK'
  BY ZenonT(30), <1>0, <1>1, <1>2 DEF tlbOK, TlbCoherent, vmm_is_mapped
<1>4. Booting'
  BY <1>0, <1>1, <1>2 DEF Booting
<1> QED
  BY <1>2, <1>3, <1>4 DEF vmInv

(* The identity map is complete when paging is turned on.                  *)
LEMMA EnableStep ==
  ASSUME vmInv, EnablePaging
  PROVE  vmInv'
<1>0. /\ boot = "tables" /\ UNCHANGED <<pmmVars, dirVars>> /\ boot' = "bar" /\ tlb' = tlb
      /\ page_tables = num_pde /\ identity_end' = num_pde * TableSpan
  BY DEF EnablePaging
<1>1. tlbOK /\ Booting
  BY SMTT(30) DEF vmInv
<1>2. /\ PmmInv' /\ Structure(page_directory', tables') /\ TableOwned'
      /\ num_pde' = num_pde /\ phase' = phase
      /\ \A w : Pte(w)' = Pte(w) /\ Walk(w)' = Walk(w) /\ (Identity(w)' <=> Identity(w))
  BY ZenonT(30), <1>0, SameMemory
<1>3. tlbOK'
  BY ZenonT(30), <1>0, <1>1, <1>2 DEF tlbOK, TlbCoherent, vmm_is_mapped
<1>4. Booting'
  BY ZenonT(30), <1>0, <1>1, <1>2 DEF Booting
<1> QED
  BY <1>2, <1>3, <1>4 DEF vmInv


(* One more table of the identity map.                                     *)
LEMMA InitTableStep ==
  ASSUME vmInv, InitTable
  PROVE  vmInv'
<1>0. /\ PmmInv /\ Structure(page_directory, tables) /\ TableOwned /\ tlbOK /\ Booting
      /\ TypeOK
  BY DEF vmInv, PmmInv
<1>1. /\ boot = "tables" /\ page_tables < num_pde /\ pmm_alloc_frame /\ tlb' = tlb
      /\ page_tables \in Nat /\ DOMAIN tlb = {}
  BY <1>0 DEF InitTable, Booting
<1>2. PmmGrows /\ PmmInv' /\ phase' = "ready"
  BY <1>0, <1>1, AllocGrows DEF PmmGrows
<1>3. tlbOK'
  BY <1>1 DEF tlbOK, TlbCoherent
<1>4. CASE boot' = "failed" /\ UNCHANGED dirVars
  <2>1. UNCHANGED <<page_directory, tables>>
    BY SMTT(30), <1>4 DEF dirVars
  <2>2. DOMAIN tables' \subseteq Frames /\ \A k \in Dir : HasTable(k)' =>
          HasTable(k) /\ page_directory'[k].frame = page_directory[k].frame
    BY SMTT(30), <1>0, <2>1 DEF HasTable, TableOwned
  <2>3. TableOwned'
    BY ZenonT(30), <1>0, <1>2, <2>2, OwnedKept
  <2>4. Booting'
    BY <1>2, <1>4 DEF Booting
  <2> QED
    BY SMTT(30), <1>0, <1>2, <1>3, <2>1, <2>3, <2>4 DEF vmInv
<1>5. ASSUME ret'.addr # 0, NEW f, f = ret'.addr \div FrameSize,
             page_directory' = DirWith(page_tables, f),
             tables' = TablesWith(f, [j \in 0 .. PagesPerTable - 1 |-> IdentityEntry(page_tables, j)]),
             page_tables' = page_tables + 1, boot' = boot
      PROVE  vmInv'
  <2> DEFINE i == page_tables
             content == [j \in 0 .. PagesPerTable - 1 |-> IdentityEntry(i, j)]
  <2>1. i \in Dir /\ ~HasTable(i)
    BY SMTT(30), <1>0, <1>1, NumPde, VmmAssumption DEF Dir, Booting
  <2>2. \A j \in Offsets : content[j] = Entry(i * PagesPerTable + j, {"present", "writable"})
    BY DEF Offsets, IdentityEntry
  <2>3. \A j \in Offsets : content[j] \in EntrySet /\ "user" \notin content[j].flags
    <3> SUFFICES ASSUME NEW j \in Offsets
                 PROVE  content[j] \in EntrySet /\ "user" \notin content[j].flags
      OBVIOUS
    <3>1. i * PagesPerTable + j \in Nat
      BY <1>1, VmmAssumption DEF Offsets
    <3>2. content[j] = Entry(i * PagesPerTable + j, {"present", "writable"})
      BY <2>2
    <3> HIDE DEF content, i
    <3> QED
      BY SMTT(30), <3>1, <3>2 DEF Entry, EntrySet, Flags
  <2>4. content \in [Offsets -> EntrySet]
    BY <2>3 DEF Offsets
  <2>s. page_directory' = DirWith(i, f) /\ tables' = TablesWith(f, content)
    BY <1>5
  <2> HIDE DEF content
  <2>5. /\ IsNewTable(page_directory, tables, i, f, content, page_directory', tables')
        /\ OwnTable(f, tables')
    BY ZenonT(30), <1>1, <1>5, <2>1, <2>3, <2>4, <2>s, FreshTable
  <2> HIDE DEF i
  <2>t. TableAdded(page_directory, tables, i, f, content, page_directory', tables')
    BY <2>5, NewTable
  <2>6. /\ Structure(page_directory', tables') /\ page_directory'[i].frame = f
        /\ \A k \in Dir : HasTable(k)' <=> k = i \/ HasTable(k)
        /\ \A k \in Dir \ {i} : page_directory'[k] = page_directory[k]
    BY SMTT(30), <2>t DEF TableAdded, HasTable
  <2>p. \A w \in AllPages :
          Pte(w)' = IF VMM_PD_INDEX(w) = i THEN content[VMM_PT_INDEX(w)] ELSE Pte(w)
    BY ZenonT(30), <2>t, PteHere, PteNext DEF TableAdded
  <2>7. TableOwned'
    <3>1. \A k \in Dir \ {i} : /\ page_directory'[k].frame = page_directory[k].frame
                               /\ HasTable(k)' => HasTable(k)
      BY SMTT(30), <2>6
    <3> QED
      BY ZenonT(30), <1>0, <1>2, <2>5, <2>6, <3>1, NewOwned
  <2>8. \A k \in Dir : HasTable(k)' <=> k < page_tables'
    <3>1. \A k \in Dir : HasTable(k) <=> k < page_tables
      BY <1>0, <1>1 DEF Booting
    <3>2. i = page_tables /\ page_tables' = page_tables + 1 /\ page_tables \in Nat
      BY <1>1, <1>5 DEF i
    <3> QED
      BY SMTT(30), <2>6, <3>1, <3>2 DEF Dir
  <2>9. ASSUME NEW w \in AllPages, VMM_PD_INDEX(w) < page_tables'
        PROVE  Identity(w)'
    <3>1. /\ w \in Nat /\ VMM_PD_INDEX(w) \in Nat /\ VMM_PT_INDEX(w) \in Offsets
          /\ w = VMM_PD_INDEX(w) * PagesPerTable + VMM_PT_INDEX(w)
      BY PageInDir, PageParts
    <3>2. CASE VMM_PD_INDEX(w) = i
      <4>1. Pte(w)' = Entry(w, {"present", "writable"})
        BY ZenonT(30), <2>2, <2>p, <3>1, <3>2
      <4> QED
        BY <4>1 DEF Identity, Entry
    <3>3. CASE VMM_PD_INDEX(w) # i
      <4>1. Pte(w)' = Pte(w)
        BY SMTT(30), <2>p, <3>3
      <4>2. VMM_PD_INDEX(w) < page_tables
        BY SMTT(30), <1>1, <1>5, <2>9, <3>1, <3>3 DEF i
      <4>3. Identity(w)
        BY ZenonT(30), <1>0, <1>1, <4>2 DEF Booting
      <4> QED
        BY <4>1, <4>3 DEF Identity
    <3> QED
      BY <3>2, <3>3
  <2>10. Booting'
    BY SMTT(30), <1>1, <1>2, <1>5, <2>8, <2>9 DEF Booting
  <2> QED
    BY ZenonT(30), <1>2, <1>3, <2>6, <2>7, <2>10 DEF vmInv
<1> QED
  BY <1>4, <1>5 DEF InitTable, OutOfFrames

(* Before the VMM has any table the PMM's own steps cannot harm it.        *)
LEMMA NoTables ==
  ASSUME vmInv, boot = "pmm", PmmInv', UNCHANGED <<dirVars, page_tables, tlb>>,
         \A f \in Frames' : held'[f] = 0,
         boot' = "pmm" \/ (boot' = "tables" /\ phase' = "ready")
  PROVE  vmInv'
<1>1. UNCHANGED <<page_directory, tables>>
  BY DEF dirVars
<1>2. /\ Structure(page_directory, tables) /\ page_tables = 0 /\ DOMAIN tables = {}
      /\ DOMAIN tlb = {} /\ \A i \in Dir : ~HasTable(i)
  BY SMTT(30) DEF vmInv, Booting, Dir
<1>3. TableOwned' /\ tlbOK'
  BY <1>1, <1>2 DEF TableOwned, HasTable, tlbOK, TlbCoherent
<1>4. \A w \in AllPages : ~ (VMM_PD_INDEX(w) < 0)
  BY PageInDir DEF Dir
<1>5. /\ page_tables' = 0 /\ DOMAIN tables' = {} /\ DOMAIN tlb' = {}
      /\ \A i \in Dir : ~HasTable(i)'
  BY <1>1, <1>2 DEF HasTable
<1>6. Booting'
  BY SMTT(30), <1>4, <1>5 DEF Booting, Dir
<1> QED
  BY SMTT(30), <1>1, <1>2, <1>3, <1>6 DEF vmInv

LEMMA PmmInitStep ==
  ASSUME vmInv, PmmInit
  PROVE  vmInv'
<1>0. /\ PmmInv /\ TypeOK /\ boot = "pmm" /\ \A f \in Frames : held[f] = 0
      /\ UNCHANGED <<dirVars, page_tables, tlb>> /\ boot' = "pmm"
  BY DEF vmInv, PmmInv, Booting, PmmInit, statVars
<1>1. PmmInv'
  BY <1>0, InvStep DEF PmmInit, Next
<1>2. CASE held' = held /\ total_frames' = total_frames
  <2>1. \A f \in Frames' : held'[f] = 0
    BY ZenonT(30), <1>0, <1>2 DEF Frames
  <2> QED
    BY ZenonT(30), <1>0, <1>1, <2>1, NoTables
<1>3. CASE MarkAllUsed
  <2>1. \A f \in Frames' : held'[f] = 0
    BY <1>3 DEF MarkAllUsed, Frames
  <2> QED
    BY SMTT(30), <1>0, <1>1, <2>1, NoTables
<1> QED
  BY <1>2, <1>3 DEF PmmInit, NoMemoryMap, ReadMap, ScanEntry, ClearEntry, ReserveKernel

LEMMA SelfTestStep ==
  ASSUME vmInv, SelfTest
  PROVE  vmInv'
<1>0. /\ PmmInv /\ TypeOK /\ Owned /\ boot = "pmm" /\ \A f \in Frames : held[f] = 0
      /\ phase = "ready" /\ boot' = "tables" /\ UNCHANGED <<held, dirVars, page_tables, tlb>>
  BY DEF vmInv, PmmInv, Booting, SelfTest, statVars
<1>1. PICK F \in {{0}, {}} : Free(F)
  BY DEF SelfTest
<1>2. zero' \in {"none", "returned", "freed"}
  BY <1>0 DEF SelfTest, TypeOK
<1>3. held' \in [Frames -> Nat] /\ \A f \in Frames : held'[f] = held[f]
  BY <1>0 DEF TypeOK
<1>4. \A f \in F \cap Frames : held'[f] = 0 /\ (f \in reserved => f = 0 \/ f \notin used)
  BY <1>0, <1>1
<1>5. PmmInv'
  BY ZenonT(30), <1>0, <1>1, <1>2, <1>3, <1>4, FreeStep
<1>6. Frames' = Frames /\ phase' = "ready"
  BY <1>0, <1>1 DEF Free, initVars, Frames
<1>7. \A f \in Frames' : held'[f] = 0
  BY <1>0, <1>6
<1> QED
  BY ZenonT(30), <1>0, <1>5, <1>6, <1>7, NoTables

(* Every step preserves the invariant.                                     *)
LEMMA vmStep == vmInv /\ [vmNext]_vmVars => vmInv'
<1> SUFFICES ASSUME vmInv, [vmNext]_vmVars PROVE vmInv'
  OBVIOUS
<1>1. CASE MapBar
  <2>1. PICK v \in BarPages : vmm_map(v, v, {"present", "writable"})
    BY <1>1 DEF MapBar
  <2>2. MayMap(v, v) /\ boot = "bar"
    BY ZenonT(30), <1>1, PagesExist, PageInDir DEF MapBar, MayMap
  <2> QED
    BY SMTT(30), <2>1, <2>2, MapStep
<1>2. CASE Map
  <2>1. PICK v \in Pages, p \in Pages, flags \in {{"present", "writable"}, Flags} :
          (p = v \/ v * FrameSize >= identity_end) /\ vmm_map(v, p, flags)
    BY <1>2 DEF Map
  <2>2. v \in AllPages /\ p \in Nat /\ boot = "running"
    BY <1>2, PagesExist, PageInDir DEF Map
  <2>3. MayMap(v, p)
    BY ZenonT(30), <2>1, <2>2, AboveIdentity DEF MayMap
  <2> QED
    BY ZenonT(30), <2>1, <2>2, <2>3, MapStep
<1>3. CASE UNCHANGED vmVars
  <2>1. /\ UNCHANGED <<pmmVars, dirVars>> /\ UNCHANGED <<boot, tlb, page_tables, identity_end>>
    BY SMTT(30), <1>3 DEF vmVars, statVars
  <2>2. /\ PmmInv' /\ Structure(page_directory', tables') /\ TableOwned'
        /\ num_pde' = num_pde /\ phase' = phase /\ Frames' = Frames /\ held' = held
        /\ DOMAIN tables' = DOMAIN tables
        /\ \A w : Pte(w)' = Pte(w) /\ Walk(w)' = Walk(w) /\ (Identity(w)' <=> Identity(w))
        /\ \A i : HasTable(i)' <=> HasTable(i)
    BY ZenonT(30), <2>1, SameMemory
  <2>3. tlbOK'
    BY ZenonT(30), <2>1, <2>2 DEF vmInv, tlbOK, TlbCoherent, vmm_is_mapped
  <2>4. Booting'
    BY <2>1, <2>2 DEF vmInv, Booting
  <2> QED
    BY <2>2, <2>3, <2>4 DEF vmInv
<1> QED
  BY ZenonT(30), <1>1, <1>2, <1>3, PmmInitStep, SelfTestStep, InitTableStep, EnableStep, CardStep, UnmapStep,
     SetUserStep, TlbStep DEF vmNext

LEMMA vmInvariant == vmSpec => []vmInv
  BY vmInitInv, vmStep, PTL DEF vmSpec


(* What the MMU remembers of a page is what the page tables say, for every *)
(* order of vmm_map, vmm_unmap, vmm_set_user and the MMU's own loads: the  *)
(* flushes of single pages are enough (vmm.c:163-170, 185-189, 230-240).   *)
THEOREM TlbNeverStale == vmSpec => []TlbCoherent
<1>1. vmInv => TlbCoherent
  BY DEF vmInv, tlbOK
<1> QED
  BY <1>1, vmInvariant, PTL

(* No two directory entries share a table, and a table's frame is used,    *)
(* not reserved and held once, by the VMM (vmm.c:98-112, 153-158).         *)
THEOREM TablesOwnFrames == vmSpec => []TablesApart
<1>1. ASSUME vmInv PROVE TablesApart
  <2>1. DOMAIN page_directory = Dir /\ Owned /\ DOMAIN tables \subseteq Frames
    BY ZenonT(30), <1>1 DEF vmInv, PmmInv, Structure, TableOwned
  <2>2. ASSUME NEW i \in Dir, Present(page_directory[i])
        PROVE  LET f == page_directory[i].frame IN
                 /\ f \in used /\ f \notin reserved /\ held[f] = 1
                 /\ \A g \in Searched : g < f => g \in used
    <3>1. page_directory[i].frame \in Frames
      BY ZenonT(30), <1>1, <2>1, <2>2 DEF vmInv, Structure
    <3> QED
      BY ZenonT(30), <1>1, <2>1, <2>2, <3>1 DEF vmInv, TableOwned, HasTable, Owned
  <2>3. \A i, j \in Dir : Present(page_directory[i]) /\ Present(page_directory[j]) /\ i # j =>
          page_directory[i].frame # page_directory[j].frame
    BY ZenonT(30), <1>1 DEF vmInv, Structure
  <2> QED
    BY ZenonT(30), <2>1, <2>2, <2>3 DEF TablesApart
<1> QED
  BY <1>1, vmInvariant, PTL

(* Paging on, every page below stats.identity_end is mapped onto itself,   *)
(* writable (vmm.c:5-8, 107-117, 166-167, 185).                            *)
THEOREM IdentityStays == vmSpec => []IdentityKept
<1>1. ASSUME vmInv PROVE IdentityKept
  <2> SUFFICES ASSUME boot \in {"bar", "running"}, NEW v \in 0 .. identity_end \div FrameSize - 1
               PROVE  /\ vmm_is_mapped(v) /\ vmm_get_physical(v) = v
                      /\ "writable" \in Pte(v).flags
    BY DEF IdentityKept
  <2>1. /\ num_pde \in Nat /\ num_pde <= TablesPerDir /\ TablesPerDir \in Nat
        /\ identity_end = num_pde * TableSpan
    BY SMTT(30), <1>1, NumPde, VmmAssumption DEF vmInv, PmmInv, Booting
  <2>2. FrameSize \in Nat \ {0} /\ PagesPerTable \in Nat
    BY PmmAssumption, VmmAssumption
  <2> DEFINE n == num_pde * PagesPerTable
  <2>3. n \in Nat /\ identity_end = n * FrameSize
    BY <2>1, <2>2 DEF TableSpan
  <2>4. v \in Nat /\ v < n
    <3> HIDE DEF n
    <3>1. (n * FrameSize) \div FrameSize = n
      BY SMTT(30), <2>2, <2>3
    <3> QED
      BY <2>3, <3>1
  <2>5. VMM_PD_INDEX(v) < num_pde /\ VMM_PD_INDEX(v) \in Nat
    BY SMTT(30), <2>1, <2>4, PageIndex, PageParts
  <2>6. v < TablesPerDir * PagesPerTable
    BY SMTT(30), <2>1, <2>4, <2>5, PageIndex
  <2>7. v \in AllPages
    BY SMTT(30), <2>1, <2>2, <2>4, <2>6 DEF AllPages
  <2>8. Identity(v)
    BY SMTT(30), <1>1, <2>5, <2>7 DEF vmInv, Booting
  <2> QED
    BY <2>8 DEF Identity, vmm_get_physical, vmm_is_mapped, Present
<1> QED
  BY <1>1, vmInvariant, PTL

----------------------------------------------------------------------------

(* When the VMM gives up.  Freeing a failed result makes frame 0 free, so  *)
(* the next allocation, the first of vmm_init, finds it and fails: paging  *)
(* is never turned on.                                                     *)
Surrender ==
  /\ boot = "pmm" => zero = "none"
  /\ boot \in {"pmm", "tables"} => bar = 0
  /\ boot = "tables" /\ zero = "freed" => page_tables = 0 /\ 0 \notin used
  /\ boot \in {"bar", "running"} => zero # "freed"
  /\ boot = "bar" =>
       \A w \in BarPages : w < bar => vmm_is_mapped(w) \/ Searched \subseteq used
  /\ HaltsOnlyWhenExhausted

haltInv == vmInv /\ SourceInv /\ Surrender

(* The kernel reaches every frame below the end of the identity map.       *)
LEMMA ReachesBelow ==
  ASSUME vmInv, boot \in {"bar", "running"}, NEW pt \in Nat, NEW f \in Nat,
         pt <= f, f * FrameSize < identity_end
  PROVE  Reachable(pt)
<1>1. /\ num_pde \in Nat /\ num_pde <= TablesPerDir /\ TablesPerDir \in Nat
      /\ identity_end = num_pde * TableSpan
  BY SMTT(30), NumPde, VmmAssumption DEF vmInv, PmmInv, Booting
<1>2. FrameSize \in Nat \ {0} /\ PagesPerTable \in Nat
  BY PmmAssumption, VmmAssumption
<1> DEFINE n == num_pde * PagesPerTable
<1>3. n \in Nat /\ identity_end = n * FrameSize
  BY SMTT(30), <1>1, <1>2 DEF TableSpan
<1>4. pt < n
  <2> HIDE DEF n
  <2> SUFFICES ASSUME n <= f PROVE FALSE
    BY <1>3
  <2>1. PICK k \in Nat : f = n + k
    BY <1>3
  <2>2. f * FrameSize = n * FrameSize + k * FrameSize /\ k * FrameSize \in Nat
    BY SMTT(30), <1>2, <1>3, <2>1
  <2>3. n * FrameSize \in Nat
    BY SMTT(30), <1>2, <1>3
  <2> QED
    BY SMTT(30), <1>3, <2>2, <2>3
<1>5. VMM_PD_INDEX(pt) < num_pde /\ VMM_PD_INDEX(pt) \in Nat
  BY SMTT(30), <1>1, <1>4, PageIndex, PageParts
<1>6. pt < TablesPerDir * PagesPerTable
  BY SMTT(30), <1>1, <1>5, PageIndex
<1>7. pt \in AllPages
  BY SMTT(30), <1>1, <1>2, <1>6 DEF AllPages
<1>8. Identity(pt)
  BY SMTT(30), <1>5, <1>7 DEF vmInv, Booting
<1> QED
  BY SMTT(30), <1>6, <1>8 DEF Reachable, Identity, vmm_is_mapped, Present

(* A fault at a frame out of reach: all memory within reach is taken.      *)
LEMMA FaultMeansFull ==
  ASSUME vmInv, boot \in {"bar", "running"}, PmmGrows, identity_end' = identity_end,
         \E pt \in Nat : ~Reachable(pt) /\ \A g \in Searched : g < pt => g \in used'
  PROVE  \A f \in Searched' : f * FrameSize < identity_end' => f \in used'
<1>1. PICK pt \in Nat : ~Reachable(pt) /\ \A g \in Searched : g < pt => g \in used'
  OBVIOUS
<1>2. Searched' = Searched /\ Searched \subseteq Nat
  BY DEF PmmGrows, Searched
<1> QED
  BY SMTT(30), <1>1, <1>2, ReachesBelow

(* A failed pmm_alloc_frame, unless a failed result was freed.             *)
LEMMA AllocFailed ==
  ASSUME SourceInv', PmmInv, pmm_alloc_frame, ret'.addr = 0
  PROVE  Searched' \subseteq used' \/ zero' = "freed"
<1>1. PICK f : Returned("alloc_frame", f, 1)
  BY DEF pmm_alloc_frame
<1>2. ret' = [call |-> "alloc_frame", addr |-> 0]
  BY <1>1 DEF Returned
<1> QED
  BY <1>2 DEF SourceInv, Answered, FailsOnlyWhenSearchedFull

LEMMA ZeroKept ==
  ASSUME pmm_alloc_frame
  PROVE  zero' = "freed" <=> zero = "freed"
<1>1. PICK f : Returned("alloc_frame", f, 1)
  BY DEF pmm_alloc_frame
<1> QED
  BY <1>1 DEF Returned

(* The PMM's own invariant survives every step of the VMM.                 *)
LEMMA SourceKept ==
  ASSUME haltInv, vmInv', [vmNext]_vmVars
  PROVE  SourceInv'
<1>0. vmInv /\ SourceInv /\ PmmInv'
  BY DEF haltInv, vmInv
<1>1. CASE [Next]_vars
  BY SMTT(30), <1>0, <1>1, SourceStep
<1>2. CASE SelfTest
  <2>1. /\ phase = "ready" /\ held' = held
        /\ \/ Free({0}) /\ zero' = "freed"
           \/ Free({}) /\ zero' = zero
    BY <1>2 DEF SelfTest
  <2>2. CASE Free({0}) /\ zero' = "freed"
    <3>1. \A f \in Cleared({0}) : f = 0
      BY DEF Cleared
    <3> QED
      BY ZenonT(30), <1>0, <2>1, <2>2, <3>1, FreeSource
  <2>3. CASE Free({}) /\ zero' = zero
    <3>1. Cleared({}) = {}
      BY DEF Cleared
    <3> QED
      BY SMTT(30), <1>0, <2>1, <2>3, <3>1, FreeSource
  <2> QED
    BY <2>1, <2>2, <2>3
<1>3. CASE UNCHANGED pmmVars
  BY <1>1, <1>3 DEF pmmVars
<1>4. CASE pmm_alloc_frame
  BY <1>1, <1>4 DEF Next
<1>5. CASE PmmInit
  BY SMTT(30), <1>1, <1>5 DEF PmmInit, Next
<1>6. CASE InitTable
  BY <1>4, <1>6 DEF InitTable
<1>7. CASE MapBar \/ Map
  <2>1. pmm_alloc_frame \/ UNCHANGED pmmVars
    BY <1>7 DEF MapBar, Map, vmm_map, MapNewTable
  <2> QED
    BY ZenonT(30), <1>3, <1>4, <2>1
<1>8. CASE EnablePaging \/ UseBar \/ NoCard \/ vmm_flush_tlb_all
  BY ZenonT(30), <1>3, <1>8 DEF EnablePaging, UseBar, NoCard, vmm_flush_tlb_all
<1>9. CASE \E v \in Pages : vmm_unmap(v) \/ vmm_set_user(v) \/ TlbFill(v)
  BY SMTT(30), <1>3, <1>9 DEF vmm_unmap, vmm_set_user, TlbFill
<1>10. CASE UNCHANGED vmVars
  BY <1>3, <1>10 DEF vmVars
<1> QED
  BY ZenonT(30), <1>2, <1>5, <1>6, <1>7, <1>8, <1>9, <1>10 DEF vmNext


LEMMA BootSurrender ==
  ASSUME haltInv, PmmInit \/ SelfTest \/ EnablePaging
  PROVE  Surrender'
<1>0. vmInv /\ Surrender /\ TypeOK
  BY DEF haltInv, vmInv, PmmInv
<1>1. CASE PmmInit
  <2>1. boot' = "pmm" /\ bar' = bar /\ zero' = zero /\ boot = "pmm"
    BY ZenonT(30), <1>1 DEF PmmInit, NoMemoryMap, ReadMap, ScanEntry, MarkAllUsed, ClearEntry, ReserveKernel
  <2> QED
    BY ZenonT(30), <1>0, <2>1 DEF Surrender, HaltsOnlyWhenExhausted
<1>2. CASE SelfTest
  <2>1. /\ boot = "pmm" /\ boot' = "tables" /\ bar' = bar /\ page_tables' = page_tables
        /\ \/ Free({0}) /\ zero' = "freed"
           \/ zero' = zero
    BY SMTT(30), <1>2 DEF SelfTest, statVars
  <2>2. bar = 0 /\ zero = "none" /\ page_tables = 0
    BY SMTT(30), <1>0, <2>1 DEF Surrender, vmInv, Booting
  <2>3. Free({0}) => 0 \notin used'
    BY <1>0 DEF Free, Cleared, TypeOK
  <2> QED
    BY ZenonT(30), <2>1, <2>2, <2>3 DEF Surrender, HaltsOnlyWhenExhausted
<1>3. CASE EnablePaging
  <2>1. /\ boot = "tables" /\ boot' = "bar" /\ page_tables = num_pde /\ UNCHANGED pmmVars
        /\ bar' = bar
    BY <1>3 DEF EnablePaging
  <2>2. zero # "freed" /\ bar = 0
    BY ZenonT(30), <1>0, <2>1, NumPde DEF Surrender
  <2>3. zero' = zero
    BY <2>1 DEF pmmVars, vars
  <2>4. \A w \in BarPages : ~ (w < 0)
    BY SMTT(30), VmmAssumption
  <2> QED
    BY ZenonT(30), <2>1, <2>2, <2>3, <2>4 DEF Surrender, HaltsOnlyWhenExhausted
<1> QED
  BY SMTT(30), <1>1, <1>2, <1>3

LEMMA TableSurrender ==
  ASSUME haltInv, SourceInv', InitTable
  PROVE  Surrender'
<1>0. vmInv /\ Surrender /\ PmmInv /\ boot = "tables" /\ pmm_alloc_frame /\ bar' = bar /\ bar = 0
  BY DEF haltInv, vmInv, InitTable, Surrender
<1>1. zero' = "freed" <=> zero = "freed"
  BY ZenonT(30), <1>0, ZeroKept
<1>2. CASE boot' = "failed" /\ ret'.addr = 0
  <2>1. Searched' \subseteq used' \/ zero' = "freed"
    BY ZenonT(30), <1>0, <1>2, AllocFailed
  <2> QED
    BY <1>2, <2>1 DEF Surrender, HaltsOnlyWhenExhausted
<1>3. CASE boot' = boot /\ ret'.addr # 0
  <2>1. zero # "freed"
    <3> SUFFICES ASSUME 0 \notin used PROVE FALSE
      BY <1>0 DEF Surrender
    <3>1. PICK f : Returned("alloc_frame", f, 1) /\ (f = 0 \/ (f \in Searched /\ Found(f)))
      BY <1>0 DEF pmm_alloc_frame
    <3>2. f = 0
      BY SMTT(30), <3>1 DEF Found, Searched
    <3>3. ret'.addr = 0
      BY SMTT(30), <3>1, <3>2, PmmAssumption DEF Returned
    <3> QED
      BY <1>3, <3>3
  <2> QED
    BY ZenonT(30), <1>0, <1>1, <1>3, <2>1 DEF Surrender, HaltsOnlyWhenExhausted
<1> QED
  BY ZenonT(30), <1>2, <1>3 DEF InitTable, OutOfFrames

(* A call of vmm_map, by the driver or later.                              *)
LEMMA MapSurrender ==
  ASSUME haltInv, SourceInv', boot \in {"bar", "running"}, NEW v, NEW p, MayMap(v, p),
         NEW flags \in {{"present", "writable"}, Flags}, vmm_map(v, p, flags)
  PROVE  /\ zero' # "freed" /\ boot' \in {boot, "fault"} /\ HaltsOnlyWhenExhausted'
         /\ \A w \in AllPages : vmm_is_mapped(w) => vmm_is_mapped(w)'
         /\ boot' = "fault" \/ vmm_is_mapped(v)' \/ Searched' \subseteq used'
         /\ Searched' = Searched /\ used \subseteq used'
<1>0. vmInv /\ Surrender /\ PmmInv /\ zero # "freed" /\ phase = "ready"
  BY DEF haltInv, vmInv, Surrender, Booting
<1>1. MapEnds(v) /\ identity_end' = identity_end
  BY ZenonT(30), <1>0, MapStep DEF vmm_map
<1>2. pmm_alloc_frame \/ UNCHANGED pmmVars
  BY DEF vmm_map, MapNewTable
<1>3. PmmGrows /\ zero' # "freed"
  <2>1. CASE pmm_alloc_frame
    BY ZenonT(30), <1>0, <2>1, AllocGrows, ZeroKept
  <2>2. CASE UNCHANGED pmmVars
    <3>1. zero' = zero
      BY <2>2 DEF pmmVars, vars
    <3> QED
      BY ZenonT(30), <1>0, <2>2, <3>1, PmmSame
  <2> QED
    BY ZenonT(30), <1>2, <2>1, <2>2
<1>4. boot' = boot /\ pmm_alloc_frame /\ ret'.addr = 0 => Searched' \subseteq used'
  BY ZenonT(30), <1>0, <1>3, AllocFailed
<1>5. boot' = "fault" => \A f \in Searched' : f * FrameSize < identity_end' => f \in used'
  BY ZenonT(30), <1>0, <1>1, <1>3, FaultMeansFull DEF MapEnds
<1>6. boot' \in {boot, "fault"}
  BY <1>1 DEF MapEnds
<1>7. HaltsOnlyWhenExhausted'
  BY <1>5, <1>6 DEF HaltsOnlyWhenExhausted
<1>8. \A w \in AllPages : vmm_is_mapped(w) => vmm_is_mapped(w)'
  BY <1>1 DEF MapEnds
<1>9. boot' = "fault" \/ vmm_is_mapped(v)' \/ Searched' \subseteq used'
  BY ZenonT(30), <1>1, <1>4 DEF MapEnds
<1> QED
  BY ZenonT(30), <1>3, <1>6, <1>7, <1>8, <1>9 DEF PmmGrows

LEMMA BarSurrender ==
  ASSUME haltInv, SourceInv', MapBar
  PROVE  Surrender'
<1>1. PICK v \in BarPages : /\ vmm_map(v, v, {"present", "writable"}) /\ bar' = v + 1
                            /\ \A w \in BarPages : w < v => w < bar
  BY DEF MapBar
<1>2. MayMap(v, v) /\ boot = "bar" /\ Surrender
  BY ZenonT(30), PagesExist, PageInDir DEF MapBar, MayMap, haltInv
<1>3. /\ zero' # "freed" /\ boot' \in {boot, "fault"} /\ HaltsOnlyWhenExhausted'
      /\ \A w \in AllPages : vmm_is_mapped(w) => vmm_is_mapped(w)'
      /\ boot' = "fault" \/ vmm_is_mapped(v)' \/ Searched' \subseteq used'
      /\ Searched' = Searched /\ used \subseteq used'
  BY SMTT(30), <1>1, <1>2, MapSurrender
<1>4. ASSUME boot' = "bar", NEW w \in BarPages, w < bar'
      PROVE  vmm_is_mapped(w)' \/ Searched' \subseteq used'
  <2>1. CASE w = v
    BY ZenonT(30), <1>3, <1>4, <2>1
  <2>2. CASE w # v
    <3>1. w < v
      BY SMTT(30), <1>1, <1>4, <2>2, VmmAssumption
    <3>2. vmm_is_mapped(w) \/ Searched \subseteq used
      BY ZenonT(30), <1>1, <1>2, <3>1 DEF Surrender
    <3> QED
      BY ZenonT(30), <1>3, <3>2, PagesExist
  <2> QED
    BY <2>1, <2>2
<1> QED
  BY <1>2, <1>3, <1>4 DEF Surrender


LEMMA RunningSurrender ==
  ASSUME haltInv, SourceInv', Map \/ \E v \in Pages : vmm_unmap(v) \/ vmm_set_user(v)
  PROVE  Surrender'
<1>0. vmInv /\ Surrender /\ PmmInv /\ boot = "running" /\ zero # "freed" /\ phase = "ready"
  BY DEF haltInv, vmInv, Surrender, Booting, Map, vmm_unmap, vmm_set_user
<1>1. CASE Map
  <2>1. PICK v \in Pages, p \in Pages, flags \in {{"present", "writable"}, Flags} :
          (p = v \/ v * FrameSize >= identity_end) /\ vmm_map(v, p, flags)
    BY <1>1 DEF Map
  <2>2. v \in AllPages /\ p \in Nat
    BY PagesExist, PageInDir
  <2>3. MayMap(v, p)
    BY ZenonT(30), <1>0, <2>1, <2>2, AboveIdentity DEF MayMap
  <2>4. zero' # "freed" /\ boot' \in {boot, "fault"} /\ HaltsOnlyWhenExhausted'
    BY ZenonT(30), <1>0, <2>1, <2>3, MapSurrender
  <2> QED
    BY SMTT(30), <1>0, <2>4 DEF Surrender
<1>2. ASSUME NEW v \in Pages, vmm_unmap(v) \/ vmm_set_user(v)
      PROVE  Surrender'
  <2>1. /\ UNCHANGED pmmVars /\ identity_end' = identity_end /\ HasTable(VMM_PD_INDEX(v))
        /\ boot' = boot \/ (boot' = "fault" /\ ~Reachable(Table(v)))
    BY <1>2 DEF vmm_unmap, vmm_set_user, statVars, HasTable, page_fault_handler
  <2>2. zero' = zero
    BY <2>1 DEF pmmVars, vars
  <2>3. PmmGrows
    BY ZenonT(30), <1>0, <2>1, PmmSame
  <2>4. VMM_PD_INDEX(v) \in Dir
    BY ZenonT(30), PagesExist, PageInDir
  <2>5. Table(v) \in Nat /\ \A g \in Searched : g < Table(v) => g \in used'
    BY ZenonT(30), <1>0, <2>1, <2>3, <2>4 DEF vmInv, TableOwned, Structure, EntrySet, PmmGrows, Table
  <2>6. boot' = "fault" => \A f \in Searched' : f * FrameSize < identity_end' => f \in used'
    BY ZenonT(30), <1>0, <2>1, <2>3, <2>5, FaultMeansFull
  <2>7. HaltsOnlyWhenExhausted'
    BY ZenonT(30), <1>0, <2>1, <2>6 DEF HaltsOnlyWhenExhausted
  <2> QED
    BY ZenonT(30), <1>0, <2>1, <2>2, <2>7 DEF Surrender
<1> QED
  BY ZenonT(30), <1>1, <1>2

LEMMA QuietSurrender ==
  ASSUME haltInv,
         \/ UseBar \/ NoCard \/ vmm_flush_tlb_all
         \/ \E v \in Pages : TlbFill(v)
         \/ UNCHANGED vmVars
  PROVE  Surrender'
<1>0. vmInv /\ Surrender
  BY DEF haltInv
<1>1. /\ UNCHANGED <<pmmVars, dirVars>> /\ bar' = bar
      /\ page_tables' = page_tables /\ identity_end' = identity_end
  BY ZenonT(30) DEF UseBar, NoCard, vmm_flush_tlb_all, TlbFill, vmVars, statVars
<1>2. zero' = zero /\ used' = used /\ total_frames' = total_frames
  BY <1>1 DEF pmmVars, vars, initVars
<1>3. Searched' = Searched
  BY <1>2 DEF Searched
<1>4. \A w : vmm_is_mapped(w)' <=> vmm_is_mapped(w)
  BY ZenonT(30), <1>0, <1>1, SameMemory DEF vmm_is_mapped
<1>5. CASE boot' = boot
  BY ZenonT(30), <1>0, <1>1, <1>2, <1>3, <1>4, <1>5 DEF Surrender, HaltsOnlyWhenExhausted
<1>6. CASE boot = "bar" /\ boot' = "running"
  BY ZenonT(30), <1>0, <1>2, <1>6 DEF Surrender, HaltsOnlyWhenExhausted
<1>7. CASE UseBar /\ boot' = "fault" /\ \E v \in BarPages : ~vmm_is_mapped(v)
  <2>1. Searched \subseteq used
    BY SMTT(30), <1>0, <1>7 DEF Surrender, UseBar
  <2> QED
    BY ZenonT(30), <1>2, <1>3, <1>7, <2>1 DEF Surrender, HaltsOnlyWhenExhausted
<1> QED
  BY ZenonT(30), <1>5, <1>6, <1>7 DEF UseBar, NoCard, vmm_flush_tlb_all, TlbFill, vmVars, page_fault_handler

LEMMA haltStep == haltInv /\ [vmNext]_vmVars => haltInv'
<1> SUFFICES ASSUME haltInv, [vmNext]_vmVars PROVE haltInv'
  OBVIOUS
<1>1. vmInv'
  BY vmStep DEF haltInv
<1>2. SourceInv'
  BY <1>1, SourceKept
<1>3. Surrender'
  BY ZenonT(30), <1>2, BootSurrender, TableSurrender, BarSurrender, RunningSurrender, QuietSurrender DEF vmNext
<1> QED
  BY SMTT(30), <1>1, <1>2, <1>3 DEF haltInv

LEMMA haltInit == vmInit => haltInv
<1> SUFFICES ASSUME vmInit PROVE haltInv
  OBVIOUS
<1>1. boot = "pmm" /\ bar = 0 /\ zero = "none"
  BY DEF vmInit, Init
<1>2. Surrender
  BY <1>1 DEF Surrender, HaltsOnlyWhenExhausted
<1> QED
  BY SMTT(30), <1>2, vmInitInv, SourceInit DEF haltInv, vmInit

(* vmm_init gives up only without a frame left or after a failed result    *)
(* was freed, and no call ends in a page fault while a frame within the    *)
(* identity map is free (vmm.c:39-66, 99-103, 154-156; e1000.c:218-224).   *)
THEOREM HaltsWhenExhausted == vmSpec => []HaltsOnlyWhenExhausted
<1>1. haltInv => HaltsOnlyWhenExhausted
  BY DEF haltInv, Surrender
<1>2. vmSpec => []haltInv
  BY haltInit, haltStep, PTL DEF vmSpec
<1> QED
  BY <1>1, <1>2, PTL

----------------------------------------------------------------------------

(* The indices of the directory that have a table.                         *)
Tabled == {i \in Dir : HasTable(i)}

(* The counters and the loop of e1000_init stay in their ranges.           *)
InRange ==
  /\ mapped_pages \in Nat
  /\ identity_end \in 0 .. Span32
  /\ bar \in 0 .. TablesPerDir * PagesPerTable

(* stats counts the tables that the directory names, and a directory entry *)
(* holds 0 or the frame of a table.                                        *)
Stats ==
  /\ \A i \in Dir : page_directory[i].frame \in {0} \cup DOMAIN tables
  /\ page_tables = Cardinality(Tabled)
  /\ InRange

typeInv == vmInv /\ Stats

(* A step leaves the tables in their places, or adds one for index i.      *)
TablesSame ==
  /\ page_tables' = page_tables
  /\ DOMAIN tables \subseteq DOMAIN tables'
  /\ \A k \in Dir : /\ page_directory'[k].frame = page_directory[k].frame
                    /\ HasTable(k)' <=> HasTable(k)

OneMore(i) ==
  /\ i \in Dir /\ ~HasTable(i) /\ HasTable(i)'
  /\ page_tables' = page_tables + 1
  /\ DOMAIN tables \subseteq DOMAIN tables'
  /\ page_directory'[i].frame \in DOMAIN tables'
  /\ \A k \in Dir \ {i} : /\ page_directory'[k].frame = page_directory[k].frame
                          /\ HasTable(k)' <=> HasTable(k)

(* At most every index of the directory has a table.                       *)
LEMMA TabledFinite ==
  /\ IsFiniteSet(Tabled) /\ Cardinality(Tabled) \in 0 .. TablesPerDir
<1>1. IsFiniteSet(Dir) /\ Cardinality(Dir) = TablesPerDir
  <2>1. 0 \in Int /\ TablesPerDir - 1 \in Int /\ 0 <= TablesPerDir - 1
    BY VmmAssumption
  <2>2. IsFiniteSet(Dir) /\ Cardinality(Dir) = TablesPerDir - 1 - 0 + 1
    BY SMTT(30), <2>1, FS_Interval DEF Dir
  <2> QED
    BY SMTT(30), <2>2, VmmAssumption
<1>2. Tabled \subseteq Dir
  BY DEF Tabled
<1>3. IsFiniteSet(Tabled) /\ Cardinality(Tabled) <= Cardinality(Dir)
  BY SMTT(30), <1>1, <1>2, FS_Subset
<1>4. Cardinality(Tabled) \in Nat
  BY SMTT(30), <1>3, FS_CardinalityType
<1> QED
  BY SMTT(30), <1>1, <1>3, <1>4, VmmAssumption

LEMMA StatsKept ==
  ASSUME Stats, TablesSame \/ \E i : OneMore(i), InRange'
  PROVE  Stats'
<1>1. CASE TablesSame
  <2>1. Tabled' = Tabled
    BY <1>1, ZenonT(30) DEF Tabled, TablesSame
  <2>2. page_tables' = Cardinality(Tabled')
    BY <1>1, <2>1 DEF Stats, TablesSame
  <2>3. \A k \in Dir : page_directory'[k].frame \in {0} \cup DOMAIN tables'
    BY <1>1, ZenonT(30) DEF Stats, TablesSame
  <2> QED
    BY <2>2, <2>3 DEF Stats
<1>2. ASSUME NEW i, OneMore(i)
      PROVE  Stats'
  <2>1. Tabled' = Tabled \cup {i} /\ i \notin Tabled
    BY <1>2, ZenonT(30) DEF Tabled, OneMore
  <2>2. Cardinality(Tabled \cup {i}) = Cardinality(Tabled) + 1
    BY SMTT(30), <2>1, TabledFinite, FS_AddElement
  <2>3. page_tables' = Cardinality(Tabled')
    BY ZenonT(30), <1>2, <2>1, <2>2 DEF Stats, OneMore
  <2>4. \A k \in Dir : page_directory'[k].frame \in {0} \cup DOMAIN tables'
    BY <1>2, ZenonT(30) DEF Stats, OneMore
  <2> QED
    BY <2>3, <2>4 DEF Stats
<1> QED
  BY SMTT(30), <1>1, <1>2

(* vmm_map adds a table where there was none.                              *)
LEMMA MapTables ==
  ASSUME vmInv, NEW v, NEW p, MayMap(v, p), NEW flags \in {{"present", "writable"}, Flags},
         vmm_map(v, p, flags)
  PROVE  TablesSame \/ \E i : OneMore(i)
<1> DEFINE i == VMM_PD_INDEX(v)
<1>0. v \in AllPages /\ p \in Nat /\ i \in Dir /\ Structure(page_directory, tables)
  BY PageInDir DEF MayMap, vmInv
<1>1. CASE HasTable(i) /\ SetPage(v, p, flags, page_directory, tables) /\ page_tables' = page_tables
  <2>1. PageSet(v, p, flags, page_directory, tables)
    BY SMTT(30), <1>0, <1>1, SetPageFacts DEF HasTable
  <2> QED
    BY <1>1, <2>1, ZenonT(30) DEF PageSet, TablesSame, HasTable
<1>2. CASE UNCHANGED <<dirVars, page_tables>>
  BY <1>2 DEF dirVars, TablesSame, HasTable
<1>3. ASSUME ~HasTable(i), pmm_alloc_frame, ret'.addr # 0, page_tables' = page_tables + 1,
             NEW f, f = ret'.addr \div FrameSize,
             SetPage(v, p, flags, DirWith(i, f),
                     TablesWith(f, [j \in 0 .. PagesPerTable - 1 |-> Zero]))
      PROVE  OneMore(i)
  <2>1. PICK content : NewPageSet(v, p, flags, f, content, DirWith(i, f), TablesWith(f, content))
    BY ZenonT(30), <1>0, <1>3, NewPageIs
  <2> DEFINE dir == DirWith(i, f)
             tabs == TablesWith(f, content)
  <2>2. DOMAIN tabs = DOMAIN tables \cup {f}
    BY DEF TablesWith
  <2>3. TableAdded(page_directory, tables, i, f, content, dir, tabs) /\ PageSet(v, p, flags, dir, tabs)
    BY <2>1, ZenonT(30) DEF NewPageSet
  <2> HIDE DEF dir, tabs, i
  <2>4. /\ dir[i].frame = f
        /\ \A k \in Dir : Present(dir[k]) <=> k = i \/ Present(page_directory[k])
        /\ \A k \in Dir \ {i} : dir[k] = page_directory[k]
    BY <2>3 DEF TableAdded
  <2>5. /\ DOMAIN tables' = DOMAIN tabs
        /\ \A k \in Dir : page_directory'[k].frame = dir[k].frame /\ (HasTable(k)' <=> Present(dir[k]))
    BY <2>3, ZenonT(30) DEF PageSet
  <2> QED
    BY <1>0, <1>3, <2>2, <2>4, <2>5, ZenonT(30) DEF OneMore, HasTable
<1> QED
  BY <1>1, <1>2, <1>3, ZenonT(30) DEF vmm_map, MapNewTable, OutOfFrames, HasTable

(* vmm_init adds table page_tables.                                        *)
LEMMA InitTables ==
  ASSUME vmInv, InitTable
  PROVE  TablesSame \/ \E i : OneMore(i)
<1> DEFINE i == page_tables
           f == ret'.addr \div FrameSize
           content == [j \in 0 .. PagesPerTable - 1 |-> IdentityEntry(i, j)]
<1>1. i \in Dir /\ ~HasTable(i) /\ pmm_alloc_frame /\ i \in Nat
  <2>1. boot = "tables" /\ i < num_pde /\ pmm_alloc_frame /\ TypeOK
    BY DEF InitTable, vmInv, PmmInv
  <2>2. i \in Nat /\ \A k \in Dir : HasTable(k) <=> k < i
    BY <2>1 DEF vmInv, Booting
  <2>3. i \in Dir
    BY SMTT(30), <2>1, <2>2, NumPde, VmmAssumption DEF Dir
  <2> QED
    BY SMTT(30), <2>1, <2>2, <2>3
<1>2. CASE UNCHANGED <<dirVars, page_tables>>
  BY <1>2 DEF dirVars, TablesSame, HasTable
<1>3. CASE /\ ret'.addr # 0 /\ page_tables' = page_tables + 1
           /\ page_directory' = DirWith(i, f) /\ tables' = TablesWith(f, content)
  <2>1. content \in [Offsets -> EntrySet] /\ \A j \in Offsets : "user" \notin content[j].flags
    <3>1. ASSUME NEW j \in Offsets
          PROVE  IdentityEntry(i, j) \in EntrySet /\ "user" \notin IdentityEntry(i, j).flags
      <4>1. i * PagesPerTable + j \in Nat
        BY SMTT(30), <1>1, VmmAssumption DEF Offsets
      <4> QED
        BY <4>1 DEF IdentityEntry, Entry, EntrySet, Flags
    <3> QED
      BY <3>1 DEF Offsets
  <2>2. DOMAIN tables' = DOMAIN tables \cup {f}
    BY SMTT(30), <1>3 DEF TablesWith
  <2> HIDE DEF f, content, i
  <2>3. IsNewTable(page_directory, tables, i, f, content, page_directory', tables')
    BY SMTT(30), <1>1, <1>3, <2>1, FreshTable DEF f
  <2>4. TableAdded(page_directory, tables, i, f, content, page_directory', tables')
    BY <2>3, NewTable
  <2> QED
    BY <1>1, <1>3, <2>2, <2>4, ZenonT(30) DEF TableAdded, OneMore, HasTable
<1> QED
  BY <1>2, <1>3, ZenonT(30) DEF InitTable, OutOfFrames

(* The identity map ends within the addresses of 32 bits.                  *)
LEMMA IdentityEnds ==
  ASSUME TypeOK
  PROVE  num_pde * TableSpan \in 0 .. Span32 /\ num_pde * PagesPerTable \in Nat
<1>1. num_pde \in Nat /\ num_pde <= TablesPerDir /\ TableSpan \in Nat
  BY NumPde
<1>2. Span32 = TablesPerDir * TableSpan
  BY VmmAssumption, PmmAssumption DEF Span32, TableSpan
<1>3. ASSUME NEW a \in Nat, NEW b \in Nat, NEW c \in Nat, a <= b
      PROVE  a * c \in 0 .. b * c
  BY <1>3
<1> QED
  BY SMTT(30), <1>1, <1>2, <1>3, VmmAssumption

(* vmm_unmap and vmm_set_user touch no table's place.                      *)
LEMMA PageTables ==
  ASSUME vmInv, NEW v \in Pages, vmm_unmap(v) \/ vmm_set_user(v)
  PROVE  TablesSame
<1>1. CASE vmm_unmap(v)
  <2>1. DOMAIN tables' = DOMAIN tables /\ UNCHANGED <<page_directory, page_tables>>
    BY <1>1 DEF vmm_unmap
  <2> QED
    BY SMTT(30), <2>1 DEF TablesSame, HasTable
<1>2. CASE vmm_set_user(v)
  <2> DEFINE i == VMM_PD_INDEX(v)
  <2>1. /\ DOMAIN tables' = DOMAIN tables /\ page_tables' = page_tables
        /\ IsFlagged(page_directory, i, {"user"}, page_directory')
    BY <1>2 DEF vmm_set_user, IsFlagged, statVars
  <2>2. i \in Dir /\ Structure(page_directory, tables)
    BY SMTT(30), PagesExist, PageInDir DEF vmInv
  <2> HIDE DEF i
  <2>3. PagesSame(page_directory, tables, page_directory')
    BY SMTT(30), <2>1, <2>2, FlagChange
  <2> QED
    BY <2>1, <2>3, ZenonT(30) DEF PagesSame, TablesSame, HasTable
<1> QED
  BY SMTT(30), <1>1, <1>2

LEMMA StatsStep ==
  ASSUME typeInv, [vmNext]_vmVars
  PROVE  Stats'
<1>0. vmInv /\ Stats /\ TypeOK /\ InRange
  BY DEF typeInv, Stats, vmInv, PmmInv
<1>1. CASE MapBar
  <2>1. PICK v \in BarPages : vmm_map(v, v, {"present", "writable"}) /\ bar' = v + 1
    BY <1>1 DEF MapBar
  <2>2. MayMap(v, v)
    BY ZenonT(30), PagesExist, PageInDir DEF MayMap
  <2>3. TablesSame \/ \E i : OneMore(i)
    BY SMTT(30), <1>0, <2>1, <2>2, MapTables
  <2>4. identity_end' = identity_end /\ mapped_pages' \in {mapped_pages, mapped_pages + 1}
    BY ZenonT(30), <2>1 DEF vmm_map, MapNewTable, SetPage
  <2>5. v + 1 \in 0 .. TablesPerDir * PagesPerTable
    BY SMTT(30), VmmAssumption
  <2>6. InRange'
    BY SMTT(30), <1>0, <2>1, <2>4, <2>5 DEF InRange
  <2> QED
    BY SMTT(30), <1>0, <2>3, <2>6, StatsKept
<1>2. CASE Map
  <2>1. PICK v \in Pages, p \in Pages, flags \in {{"present", "writable"}, Flags} :
          (p = v \/ v * FrameSize >= identity_end) /\ vmm_map(v, p, flags)
    BY <1>2 DEF Map
  <2>2. v \in AllPages /\ p \in Nat /\ boot = "running" /\ bar' = bar
    BY SMTT(30), <1>2, PagesExist, PageInDir DEF Map
  <2>3. MayMap(v, p)
    BY ZenonT(30), <1>0, <2>1, <2>2, AboveIdentity DEF MayMap
  <2>4. TablesSame \/ \E i : OneMore(i)
    BY SMTT(30), <1>0, <2>1, <2>3, MapTables
  <2>5. identity_end' = identity_end /\ mapped_pages' \in {mapped_pages, mapped_pages + 1}
    BY ZenonT(30), <2>1 DEF vmm_map, MapNewTable, SetPage
  <2>6. InRange'
    BY SMTT(30), <1>0, <2>2, <2>5 DEF InRange
  <2> QED
    BY SMTT(30), <1>0, <2>4, <2>6, StatsKept
<1>3. CASE InitTable
  <2>1. InRange'
    BY SMTT(30), <1>0, <1>3 DEF InitTable, InRange
  <2> QED
    BY SMTT(30), <1>0, <1>3, <2>1, InitTables, StatsKept
<1>4. CASE EnablePaging
  <2>1. TablesSame
    BY SMTT(30), <1>4 DEF EnablePaging, dirVars, TablesSame, HasTable
  <2>2. InRange'
    BY SMTT(30), <1>0, <1>4, IdentityEnds DEF EnablePaging, InRange
  <2> QED
    BY SMTT(30), <1>0, <2>1, <2>2, StatsKept
<1>5. CASE \E v \in Pages : vmm_unmap(v) \/ vmm_set_user(v)
  <2>1. PICK v \in Pages : vmm_unmap(v) \/ vmm_set_user(v)
    BY <1>5
  <2>2. TablesSame
    BY SMTT(30), <1>0, <2>1, PageTables
  <2>3. /\ identity_end' = identity_end /\ bar' = bar
        /\ \/ mapped_pages' = mapped_pages
           \/ mapped_pages > 0 /\ mapped_pages' = mapped_pages - 1
    BY SMTT(30), <2>1 DEF vmm_unmap, vmm_set_user, statVars
  <2>4. InRange'
    BY SMTT(30), <1>0, <2>3 DEF InRange
  <2> QED
    BY SMTT(30), <1>0, <2>2, <2>4, StatsKept
<1>6. ASSUME UNCHANGED <<dirVars, statVars, bar>>
      PROVE  Stats'
  <2>1. UNCHANGED <<page_directory, tables, page_tables, mapped_pages, identity_end, bar>>
    BY SMTT(30), <1>6 DEF dirVars, statVars
  <2>2. TablesSame /\ InRange'
    BY <1>0, <2>1 DEF TablesSame, HasTable, InRange
  <2> QED
    BY SMTT(30), <1>0, <2>2, StatsKept
<1>7. CASE PmmInit \/ SelfTest \/ UseBar \/ NoCard \/ vmm_flush_tlb_all
  BY <1>6, <1>7, ZenonT(30) DEF PmmInit, SelfTest, UseBar, NoCard, vmm_flush_tlb_all
<1>8. CASE \E v \in Pages : TlbFill(v)
  BY <1>6, <1>8, ZenonT(30) DEF TlbFill
<1>9. CASE UNCHANGED vmVars
  BY <1>6, <1>9, ZenonT(30) DEF vmVars
<1> QED
  BY <1>1, <1>2, <1>3, <1>4, <1>5, <1>7, <1>8, <1>9, ZenonT(30) DEF vmNext

LEMMA StatsInit == vmInit => Stats
<1> SUFFICES ASSUME vmInit PROVE Stats
  OBVIOUS
<1>1. /\ page_directory = [i \in Dir |-> Zero] /\ page_tables = 0 /\ mapped_pages = 0
      /\ identity_end = 0 /\ bar = 0
  BY DEF vmInit, Dir
<1>2. Zero.frame = 0 /\ ~Present(Zero)
  BY DEF Zero, Entry, Present
<1>3. Tabled = {}
  BY <1>1, <1>2 DEF Tabled, HasTable
<1>4. Cardinality(Tabled) = 0
  BY SMTT(30), <1>3, FS_EmptySet
<1>5. Span32 \in Nat /\ TablesPerDir * PagesPerTable \in Nat
  BY VmmAssumption, PmmAssumption DEF Span32
<1> QED
  BY SMTT(30), <1>1, <1>2, <1>4, <1>5 DEF Stats, InRange

(* Every variable of the virtual memory manager stays in its range, for    *)
(* any number of tables and pages: stats.page_tables counts the tables the *)
(* directory names and so never exceeds TABLES_PER_DIR, identity_end never *)
(* wraps past 4 GiB, every present entry of the directory names a frame    *)
(* that was filled as a page table, and the MMU holds well-formed entries  *)
(* of known pages only (vmm.c:86-89, 97-117, 152-170).                     *)
THEOREM VmmTypes == vmSpec => []vmTypeOK
<1>1. vmInit => typeInv
  BY vmInitInv, StatsInit DEF typeInv
<1>2. typeInv /\ [vmNext]_vmVars => typeInv'
  BY vmStep, StatsStep DEF typeInv
<1>3. ASSUME typeInv PROVE vmTypeOK
  <2>0. Structure(page_directory, tables) /\ TableOwned /\ tlbOK /\ Booting /\ Stats /\ InRange
    BY SMTT(30), <1>3 DEF typeInv, vmInv, Stats
  <2>1. boot \in {"pmm", "tables", "bar", "running", "failed", "fault"} /\ DOMAIN tables \subseteq Frames
    BY <2>0 DEF Booting, TableOwned
  <2>2. /\ \A g \in DOMAIN tables :
             tables[g] \in [0 .. PagesPerTable - 1 -> [frame : Nat, flags : SUBSET Flags]]
        /\ \A i \in 0 .. TablesPerDir - 1 :
             Present(page_directory[i]) => page_directory[i].frame \in DOMAIN tables
    BY <2>0, ZenonT(30) DEF Structure, Offsets, EntrySet, Dir
  <2>3. page_directory \in
          [0 .. TablesPerDir - 1 -> [frame : {0} \cup DOMAIN tables, flags : SUBSET Flags]]
    <3>1. page_directory \in [Dir -> EntrySet]
      BY SMTT(30), <2>0 DEF Structure
    <3>2. \A i \in Dir : page_directory[i].frame \in {0} \cup DOMAIN tables
      BY SMTT(30), <2>0 DEF Stats
    <3>3. ASSUME NEW i \in Dir
          PROVE  page_directory[i] \in [frame : {0} \cup DOMAIN tables, flags : SUBSET Flags]
      <4>1. page_directory[i] \in [frame : Nat, flags : SUBSET Flags]
        BY SMTT(30), <3>1 DEF EntrySet
      <4> QED
        BY <3>2, <4>1
    <3> QED
      BY SMTT(30), <3>1, <3>3 DEF Dir
  <2>4. page_tables \in 0 .. TablesPerDir
    BY SMTT(30), <2>0, TabledFinite DEF Stats
  <2>5. ASSUME NEW v \in DOMAIN tlb
        PROVE  v \in Pages /\ tlb[v] \in [frame : Nat, flags : SUBSET Flags]
    <3>1. v \in Pages /\ v \in AllPages /\ tlb[v] = Walk(v)
      BY SMTT(30), <2>0, PagesExist DEF tlbOK, TlbCoherent
    <3>2. Walk(v) \in EntrySet
      BY <2>0, <3>1, WalkIsPte, PteHere
    <3> QED
      BY SMTT(30), <3>1, <3>2 DEF EntrySet
  <2> QED
    BY <2>0, <2>1, <2>2, <2>3, <2>4, <2>5, ZenonT(30) DEF vmTypeOK, InRange
<1> QED
  BY <1>1, <1>2, <1>3, PTL DEF vmSpec

=============================================================================
