-------------------------------- MODULE Vmm --------------------------------
(* The virtual memory manager (kernel/mm/vmm.c) on top of the frames of    *)
(* Pmm: vmm_init builds the identity map and turns paging on, e1000_init   *)
(* maps the registers of the network card, then vmm_map, vmm_unmap and     *)
(* vmm_set_user change single pages.  An address is a page number here;    *)
(* PAGE_SIZE is FrameSize.  The code reaches a page table through the      *)
(* identity map, so every access to one is itself translated; the MMU      *)
(* keeps translations in its TLB until they are flushed.                   *)
EXTENDS Pmm

CONSTANTS
  TablesPerDir,   \* TABLES_PER_DIR
  PagesPerTable,  \* PAGES_PER_TABLE
  HeapFrames,     \* the frames from HEAP_START on that hold the heap
  BarPages,       \* the pages of the network card's registers
  Pages,          \* the pages that callers name
  MaxMapped       \* bound on the pages counted beyond the identity map

ASSUME VmmAssumption ==
  /\ TablesPerDir \in Nat \ {0}
  /\ PagesPerTable \in Nat \ {0}
  /\ HeapFrames \subseteq Nat
  /\ BarPages \subseteq 0 .. TablesPerDir * PagesPerTable - 1
  /\ Pages \subseteq 0 .. TablesPerDir * PagesPerTable - 1
  /\ MaxMapped \in Nat

VARIABLES
  boot,            \* "pmm", "tables", "bar", "running"; "failed" or "fault"
  page_directory,  \* for every index an entry: a frame and its flags
  tables,          \* the contents of the frames that were made page tables
  page_tables, mapped_pages, identity_end,  \* stats
  tlb,             \* the translations that the MMU holds
  bar              \* loop of e1000_init: the first page not mapped yet

pmmVars == vars
dirVars == <<page_directory, tables>>
statVars == <<page_tables, mapped_pages, identity_end>>
vmVars == <<pmmVars, boot, dirVars, statVars, tlb, bar>>

Flags == {"present", "writable", "user"}
Entry(frame, flags) == [frame |-> frame, flags |-> flags]
Zero == Entry(0, {})
Present(e) == "present" \in e.flags

VMM_PD_INDEX(v) == v \div PagesPerTable
VMM_PT_INDEX(v) == v % PagesPerTable

vmInit ==
  /\ Init
  /\ boot = "pmm"
  /\ page_directory = [i \in 0 .. TablesPerDir - 1 |-> Zero]
  /\ tables = [f \in {} |-> Zero]
  /\ page_tables = 0 /\ mapped_pages = 0 /\ identity_end = 0
  /\ tlb = [v \in {} |-> Zero]
  /\ bar = 0

----------------------------------------------------------------------------

(* The table and the entry that translate page v, Zero where there is no   *)
(* table.                                                                  *)
Table(v) == page_directory[VMM_PD_INDEX(v)].frame
Pte(v) ==
  IF Present(page_directory[VMM_PD_INDEX(v)]) THEN tables[Table(v)][VMM_PT_INDEX(v)] ELSE Zero

vmm_is_mapped(v) == Present(Pte(v))

vmm_get_physical(v) == IF vmm_is_mapped(v) THEN Pte(v).frame ELSE 0

(* What the MMU makes of page v: ring 3 needs the user flag in the entries *)
(* of both levels.                                                         *)
Walk(v) ==
  Entry(Pte(v).frame,
        {flag \in Pte(v).flags :
           flag = "user" => flag \in page_directory[VMM_PD_INDEX(v)].flags})

(* The kernel can read and write frame f at its own address.               *)
Reachable(f) == f < TablesPerDir * PagesPerTable /\ vmm_is_mapped(f)

(* The MMU may load the translation of a mapped page at any time.          *)
TlbFill(v) ==
  /\ boot \in {"bar", "running"}
  /\ vmm_is_mapped(v)
  /\ tlb' = [w \in DOMAIN tlb \cup {v} |-> IF w = v THEN Walk(v) ELSE tlb[w]]
  /\ UNCHANGED <<pmmVars, boot, dirVars, statVars, bar>>

NoFlush(v) == UNCHANGED tlb

vmm_flush_tlb(v) == tlb' = [w \in DOMAIN tlb \ {v} |-> tlb[w]]

vmm_flush_tlb_all ==
  /\ boot = "running"
  /\ tlb' = [w \in {} |-> Zero]
  /\ UNCHANGED <<pmmVars, boot, dirVars, statVars, bar>>

(* An access to an unmapped page: page_fault_handler reports it and halts. *)
page_fault_handler ==
  /\ boot' = "fault"
  /\ UNCHANGED tlb

----------------------------------------------------------------------------

(* kernel_main tests the PMM between pmm_init and vmm_init: it allocates   *)
(* two frames, frees the first, allocates a third and frees the last two.  *)
(* Where an allocation fails, 0 is freed.                                  *)
SelfTest ==
  /\ boot = "pmm"
  /\ phase = "ready"
  /\ boot' = "tables"
  /\ LET short == Cardinality(Searched \ used) < 2 IN
       /\ Free(IF short THEN {0} ELSE {})
       /\ zero' = (IF short THEN "freed" ELSE zero)
  /\ UNCHANGED <<held, dirVars, statVars, tlb, bar>>

(* The number of page tables of the identity map, in uint32_t.             *)
Span32 == TablesPerDir * PagesPerTable * FrameSize
TableSpan == PagesPerTable * FrameSize

mem_bytes == IF total_memory > Span32 - 1 THEN Span32 - 1 ELSE total_memory

NumPdeUnbounded == (total_memory + TableSpan - 1) \div TableSpan

num_pde ==
  LET n == ((mem_bytes + TableSpan - 1) % Span32) \div TableSpan
      m == IF n > TablesPerDir THEN TablesPerDir ELSE n
  IN  IF m = 0 THEN 1 ELSE m

IgnoresTable(i, j) == Entry(j, {"present", "writable"})

IdentityEntry(i, j) == Entry(i * PagesPerTable + j, {"present", "writable"})

(* The result of pmm_alloc_frame, tested by its two callers.               *)
NeverFailed(pt_phys) == FALSE

OutOfFrames(pt_phys) == pt_phys = 0

(* The directory and the tables once frame f, filled with content, is the  *)
(* table of index i.                                                       *)
DirWith(i, f) == [page_directory EXCEPT ![i] = Entry(f, {"present", "writable"})]
TablesWith(f, content) ==
  [g \in DOMAIN tables \cup {f} |-> IF g = f THEN content ELSE tables[g]]

(* One iteration of vmm_init; paging is off.  Out of frames it returns -1  *)
(* and kernel_main halts.                                                  *)
InitTable ==
  /\ boot = "tables"
  /\ page_tables < num_pde
  /\ pmm_alloc_frame
  /\ LET i == page_tables
         pt_phys == ret'.addr
     IN  \/ /\ OutOfFrames(pt_phys)
            /\ boot' = "failed"
            /\ UNCHANGED <<dirVars, page_tables>>
         \/ /\ ~OutOfFrames(pt_phys)
            /\ page_directory' = DirWith(i, pt_phys \div FrameSize)
            /\ tables' = TablesWith(pt_phys \div FrameSize,
                                    [j \in 0 .. PagesPerTable - 1 |-> IdentityEntry(i, j)])
            /\ page_tables' = page_tables + 1
            /\ UNCHANGED boot
  /\ UNCHANGED <<mapped_pages, identity_end, tlb, bar>>

EnablePaging ==
  /\ boot = "tables"
  /\ page_tables = num_pde
  /\ boot' = "bar"
  /\ mapped_pages' = num_pde * PagesPerTable
  /\ identity_end' = num_pde * TableSpan
  /\ UNCHANGED <<pmmVars, dirVars, page_tables, tlb, bar>>

----------------------------------------------------------------------------

(* The second half of vmm_map, with the directory dir and the tables tabs  *)
(* in which page v has a table.                                            *)
SetPage(v, p, flags, dir, tabs) ==
  LET i == VMM_PD_INDEX(v)
      pt == dir[i].frame
  IN  /\ page_directory' = [dir EXCEPT ![i].flags = @ \cup (flags \cap {"user"})]
      /\ \/ /\ Reachable(pt)
            /\ tables' = [tabs EXCEPT ![pt][VMM_PT_INDEX(v)] = Entry(p, flags)]
            /\ mapped_pages' = mapped_pages + 1
            /\ vmm_flush_tlb(v)
            /\ UNCHANGED boot
         \/ /\ ~Reachable(pt)
            /\ tables' = tabs
            /\ page_fault_handler
            /\ UNCHANGED mapped_pages

(* The first half, for a page without a table.                             *)
MapNewTable(v, p, flags) ==
  /\ pmm_alloc_frame
  /\ LET pt == ret'.addr \div FrameSize IN
       \/ /\ OutOfFrames(ret'.addr)
          /\ UNCHANGED <<dirVars, page_tables, mapped_pages, tlb, boot>>
       \/ /\ ~OutOfFrames(ret'.addr)
          /\ ~Reachable(pt)
          /\ page_fault_handler
          /\ UNCHANGED <<dirVars, page_tables, mapped_pages>>
       \/ /\ ~OutOfFrames(ret'.addr)
          /\ Reachable(pt)
          /\ page_tables' = page_tables + 1
          /\ SetPage(v, p, flags, DirWith(VMM_PD_INDEX(v), pt),
                     TablesWith(pt, [j \in 0 .. PagesPerTable - 1 |-> Zero]))

vmm_map(v, p, flags) ==
  /\ mapped_pages < identity_end \div FrameSize + MaxMapped
  /\ \/ /\ ~Present(page_directory[VMM_PD_INDEX(v)])
        /\ MapNewTable(v, p, flags)
     \/ /\ Present(page_directory[VMM_PD_INDEX(v)])
        /\ SetPage(v, p, flags, page_directory, tables)
        /\ UNCHANGED <<pmmVars, page_tables>>
  /\ UNCHANGED identity_end

(* e1000_init maps the card's registers onto themselves, page by page, and *)
(* ignores what vmm_map returns; then it uses them.                        *)
MapBar ==
  /\ boot = "bar"
  /\ \E v \in BarPages :
       /\ \A w \in BarPages : w < v => w < bar
       /\ v >= bar
       /\ vmm_map(v, v, {"present", "writable"})
       /\ bar' = v + 1

UseBar ==
  /\ boot = "bar"
  /\ \A v \in BarPages : v < bar
  /\ \/ /\ \A v \in BarPages : vmm_is_mapped(v)
        /\ boot' = "running"
        /\ UNCHANGED tlb
     \/ /\ \E v \in BarPages : ~vmm_is_mapped(v)
        /\ page_fault_handler
  /\ UNCHANGED <<pmmVars, dirVars, statVars, bar>>

(* No card on the PCI bus.                                                 *)
NoCard ==
  /\ boot = "bar"
  /\ bar = 0
  /\ boot' = "running"
  /\ UNCHANGED <<pmmVars, dirVars, statVars, tlb, bar>>

----------------------------------------------------------------------------

(* What callers may map afterwards: a page onto itself, or one that is     *)
(* neither memory nor identity-mapped onto any frame.  They unmap only     *)
(* pages outside the identity map.                                         *)
Map ==
  /\ boot = "running"
  /\ \E v \in Pages, p \in Pages, flags \in {{"present", "writable"}, Flags} :
       /\ p = v \/ (v >= total_frames /\ v * FrameSize >= identity_end)
       /\ vmm_map(v, p, flags)
  /\ UNCHANGED bar

vmm_unmap(v) ==
  /\ boot = "running"
  /\ v * FrameSize >= identity_end
  /\ Present(page_directory[VMM_PD_INDEX(v)])
  /\ \/ /\ Reachable(Table(v))
        /\ vmm_is_mapped(v)
        /\ tables' = [tables EXCEPT ![Table(v)][VMM_PT_INDEX(v)] = Zero]
        /\ mapped_pages' = (IF mapped_pages > 0 THEN mapped_pages - 1 ELSE mapped_pages)
        /\ vmm_flush_tlb(v)
        /\ UNCHANGED boot
     \/ /\ ~Reachable(Table(v))
        /\ page_fault_handler
        /\ UNCHANGED <<tables, mapped_pages>>
  /\ UNCHANGED <<pmmVars, page_directory, page_tables, identity_end, bar>>

(* The directory entry is marked before the page's own is looked at.       *)
vmm_set_user(v) ==
  LET i == VMM_PD_INDEX(v) IN
  /\ boot = "running"
  /\ Present(page_directory[i])
  /\ page_directory' = [page_directory EXCEPT ![i].flags = @ \cup {"user"}]
  /\ \/ /\ Reachable(Table(v))
        /\ vmm_is_mapped(v)
        /\ tables' = [tables EXCEPT ![Table(v)][VMM_PT_INDEX(v)].flags = @ \cup {"user"}]
        /\ vmm_flush_tlb(v)
        /\ UNCHANGED boot
     \/ /\ Reachable(Table(v))
        /\ ~vmm_is_mapped(v)
        /\ UNCHANGED <<tables, tlb, boot>>
     \/ /\ ~Reachable(Table(v))
        /\ page_fault_handler
        /\ UNCHANGED tables
  /\ UNCHANGED <<pmmVars, statVars, bar>>

(* pmm_init, then the steps above.                                         *)
PmmInit ==
  /\ boot = "pmm"
  /\ NoMemoryMap \/ ReadMap \/ ScanEntry \/ MarkAllUsed \/ ClearEntry \/ ReserveKernel
  /\ UNCHANGED <<boot, dirVars, statVars, tlb, bar>>

vmNext ==
  \/ PmmInit
  \/ SelfTest
  \/ InitTable
  \/ EnablePaging
  \/ MapBar
  \/ UseBar
  \/ NoCard
  \/ Map
  \/ \E v \in Pages : vmm_unmap(v) \/ vmm_set_user(v) \/ TlbFill(v)
  \/ vmm_flush_tlb_all

vmSpec == vmInit /\ [][vmNext]_vmVars

----------------------------------------------------------------------------

(* Every variable stays in its range, and every entry of the directory     *)
(* that is present names a frame that was filled as a page table           *)
(* (vmm.c:86-89, 97-114, 152-160).                                         *)
vmTypeOK ==
  /\ boot \in {"pmm", "tables", "bar", "running", "failed", "fault"}
  /\ DOMAIN tables \subseteq Frames
  /\ \A f \in DOMAIN tables :
       tables[f] \in [0 .. PagesPerTable - 1 -> [frame : Nat, flags : SUBSET Flags]]
  /\ page_directory \in
       [0 .. TablesPerDir - 1 -> [frame : {0} \cup DOMAIN tables, flags : SUBSET Flags]]
  /\ \A i \in 0 .. TablesPerDir - 1 :
       Present(page_directory[i]) => page_directory[i].frame \in DOMAIN tables
  /\ page_tables \in 0 .. TablesPerDir
  /\ mapped_pages \in Nat /\ identity_end \in 0 .. Span32
  /\ DOMAIN tlb \subseteq Pages \cup BarPages
  /\ \A v \in DOMAIN tlb : tlb[v] \in [frame : Nat, flags : SUBSET Flags]
  /\ bar \in 0 .. TablesPerDir * PagesPerTable

(* From the moment paging is on, the kernel finds every address below      *)
(* stats.identity_end, so its code, data and page tables there, at its own *)
(* physical place and writable, whatever is mapped, unmapped and marked    *)
(* later (vmm.c:5-8, 107-117, 166-167, 185).                               *)
IdentityKept ==
  boot \in {"bar", "running"} =>
    \A v \in 0 .. identity_end \div FrameSize - 1 :
      /\ vmm_is_mapped(v)
      /\ vmm_get_physical(v) = v
      /\ "writable" \in Pte(v).flags

(* What the MMU remembers of a page is what the page tables say now, ring  *)
(* 3's rights included: vmm_map, vmm_unmap and vmm_set_user flush the page *)
(* they change, and marking a directory entry for ring 3, also on the path *)
(* of vmm_set_user that returns -1 without a flush, opens no page whose    *)
(* translation is held (vmm.c:163-170, 185-189, 230-240).                  *)
TlbCoherent == \A v \in DOMAIN tlb : vmm_is_mapped(v) /\ tlb[v] = Walk(v)

(* Two entries of the directory never share a table, a table's frame is    *)
(* the VMM's own and none of the kernel's, and it is one of the heap's     *)
(* frames, which the PMM does not know to be in use, only if every frame   *)
(* below the heap was taken (vmm.c:98-112, 153-158; heap.c:30-33).         *)
TablesApart ==
  LET tabled == {i \in DOMAIN page_directory : Present(page_directory[i])} IN
  /\ \A i, j \in tabled : i # j => page_directory[i].frame # page_directory[j].frame
  /\ \A i \in tabled :
       LET f == page_directory[i].frame IN
         /\ f \in used /\ f \notin reserved /\ held[f] = 1
         /\ f \in HeapFrames => \A g \in Searched : g < f => g \in used

(* vmm_init gives up only when the PMM has no frame left, and no call of   *)
(* the VMM or of e1000_init, which ignores the result of vmm_map, ends in  *)
(* a page fault while a frame of the identity-mapped memory is free        *)
(* (vmm.c:39-66, 99-103, 154-156; e1000.c:218-224).                        *)
HaltsOnlyWhenExhausted ==
  /\ boot = "failed" => Searched \subseteq used \/ zero = "freed"
  /\ boot = "fault" => \A f \in Searched : f * FrameSize < identity_end => f \in used

=============================================================================
