# A TLA+ verification project for Matryoshka OS

Matryoshka OS is a small 32-bit x86 kernel: one CPU, preemptive round-robin
tasks in ring 0 and ring 3, no locks. This directory holds TLA+ models of its
parts, TLC configurations that check them on small instances, and TLAPS proofs
for every value of the constants. All paths below are relative to `src/`, and
`PROJECT.json` names for every definition the lines it models.

    tlc -config Scheduler.cfg Scheduler      # one run; the others in the table below
    tlapm SchedulerProofs.tla                # the proofs of a module

## 1. Inventory

How the parts meet: `kernel_main` (kernel.c) initialises everything in a fixed
order, enables interrupts (kernel.c:317), then starts paging and the tasks and
ends in the shell as task 0. Every entry of the IDT is an interrupt gate, so a
handler runs with IF = 0 until its `iret`; everything else, task 0 and the
ring-0 tasks included, can be preempted between any two instructions. Shared
state (task table, heap list, frame bitmap, key buffer, cursor, descriptors) is
protected by nothing but that.

| Component | State | Operations | Meets | What makes it correct |
|---|---|---|---|---|
| Task scheduler (`kernel/proc/task.c`) | `tasks[]`, `current`, `count`, `need_reschedule` | `task_init`, `task_create`, `task_create_user`, `task_yield`, `task_exit`, `task_request_reschedule`, `task_schedule_if_needed` | called at the end of every interrupt; takes stacks from the heap | the frame a switch loads is the one the task left; each task on its own stack; one task RUNNING; exit is final; nobody starves |
| Interrupt path, TSS (`isr.asm`, `idt.c`, `gdt.c`) | frames on the kernel stacks, `tss.esp0` | `isr_common_stub`, `isr_handler`, `tss_set_esp0` | every other part | ESP0 names the running task's stack whenever ring 3 runs |
| System calls (`syscall.c`) | none | INT 0x80 table: exit, write, read, yield, getpid, sbrk, uptime | scheduler, heap, keyboard, timer | nested INT 0x81 unwinds; a waiting `sys_read` gives the CPU away |
| Physical memory manager (`mm/pmm.c`) | bitmap, `total_frames`, `used_frames` | `pmm_init`, allocate/free one or several, reserve, query | page tables, self-test | counters match the bitmap; a frame has one owner; kernel and bitmap stay reserved; only available memory is given out |
| Kernel heap (`mm/heap.c`) | block list in a fixed region, `heap_used` | `kmalloc`, `kzalloc`, `kfree`, `krealloc`, `heap_get_stats` | tasks, file system, `sys_sbrk` | blocks tile the region; free neighbours are merged; double frees are harmless; the accounting is exact |
| Virtual memory manager (`mm/vmm.c`) | page directory and tables, `stats` | `vmm_init`, `vmm_map`, `vmm_unmap`, `vmm_set_user`, queries, flushes, fault handler | PMM, tasks, network driver | the identity map stays; the TLB agrees with the tables; tables have frames of their own; the kernel halts only without frames |
| Keyboard (`drivers/keyboard.c`) | ring buffer, modifiers | IRQ 1 handler, `keyboard_getchar`, `keyboard_has_input` | scheduler (yield while empty), shell, `sys_read` | a bounded FIFO: keys come out once and in order, a full buffer drops new ones; the modifiers follow the keys |
| Timer (`drivers/timer.c`) | `timer_ticks`, 64 bits | IRQ 0 handler, uptime, sleeps | scheduler | reads are not torn; sleeps last as long as asked |
| VFS and ramfs (`fs/`) | descriptors; nodes and file buffers | open, close, read, write, mkdir, create, readdir | heap, shell | reads return what was written; what was created is found; no descriptor is lost |
| E1000, network (`drivers/e1000.c`, `net/net.c`) | descriptor rings; addresses | `e1000_init`, send, receive; `net_init`, `net_poll` | the card; a ring-0 task polls | the card and the driver never use one receive descriptor at once; what goes out is what was built; requests are answered |
| VGA (`drivers/vga.c`) | cursor | `vga_putchar`, `vga_puts`, clear, scroll | everybody prints | the cursor stays on the screen |
| PIC (`pic.c`) | masks | remap, EOI, enable, disable | IRQ handlers | EOI before a switch |
| Shell (`shell.c`) | line buffer, one descriptor at a time | line editing, commands | keyboard, console, VFS | the line fits; every command returns and closes what it opened |
| Boot, serial, PCI, string | - | start-up, port I/O, byte loops | | |

What is hard here: preemption at any instruction of task 0 (task creation, heap
calls, printing) with no locks; nested software interrupts; stacks chosen by the
hardware through ESP0; allocation failure half-way; arithmetic at the ends of
ranges; callers that free twice or free the 0 of a failed call.
`PROJECT.json` lists these hazards at their lines.

## 2. Modules

**`Scheduler`** models `task.c` with the interrupt path that drives it. One
action is one whole interrupt (handlers run with IF = 0): `TimerIrq`,
`DeviceIrq`, the INT 0x81 of `task_yield` and of `task_exit`, and the system
calls that matter to scheduling. `task_exit` and the two creation functions are
cut into the stores that a tick can separate. A kernel stack is named by its
slot; `saved[s]` is the frame on stack `s`, abstracted to the thread and the
place it continues at; loading a frame that is not there leads to `Fault`. The
two frames of an INT 0x81 inside an INT 0x80 are one continuation (`sysread`,
`syshlt`). The variable `raced` is history: a slot was dispatched while its
creation was still under way. The safety properties speak of the time before
that; the three violation runs show what can happen afterwards, one window of the
creation each. The stores of a creation are
in source order; `tasks[]` is not volatile, so a compiler may reorder them,
which this model does not show.

**`Pmm`** models `pmm.c`: the bitmap is the set `used`; `pmm_init` takes one step
per iteration of its two loops over the memory map, so that its accounting can be
proved without induction over the map. `held` counts owners of a frame. Callers
free what they hold, free again what is free, free beyond memory, and free the 0
of a failed allocation as kernel.c:191 does. **`MCPmm`** holds three maps.

**`Heap`** models `heap.c`: `mem` maps addresses to the headers with a valid magic
that can be read there. Headers of merged blocks stay until something overwrites
them, so a stale pointer meets what it would meet in memory. Owners fill
their bytes (`Fill`). Sizes are computed modulo `SizeModulus`. Calls are atomic.
The two loops over the list are written so that they can be reasoned about:
`Walk` is the set of blocks that a walk along `next` visits, the least one closed
under its steps, and `MergeLoop` is the loop of `merge_free_blocks` turn by turn
(`MergeTurn`), for as many turns as the heap has room for headers.

**`Vmm`** extends `Pmm` and models `vmm.c` from boot on: `pmm_init`, the frame test
of `kernel_main`, `vmm_init` table by table, the mapping of the card's registers,
then any sequence of `vmm_map`, `vmm_unmap`, `vmm_set_user` and flushes. An address
is a page number. The code reaches a page table at its physical address, so
each access to one is translated by the tables themselves (`Reachable`), and a
failure is `page_fault_handler`, which halts. The MMU is external: `Walk` is its page
walk, and `tlb` may load any mapped page at any time. Callers map a page onto
itself, as the driver does with the card's registers, or map one outside memory and
identity map, and unmap only outside it; this is what `IdentityKept` asks of them. **`MCVmm`** holds eight maps.

**`Keyboard`** models `keyboard.c`: IRQ 1 takes one byte and is one step;
`keyboard_getchar` in a ring-0 thread is cut at each access to a volatile index
(read `kb_head`, compare with `kb_tail`, load, advance). One key of each kind stands
for the scancode tables. **`Rings`** defines what a ring of slots contains.
**`BoundedQueue`** is the abstract specification of a ring: a FIFO that drops what
arrives when it is full. It makes its promise to readers that do not overlap;
`torn` is history and records that `kb_tail` moved under a reader that relied on it.
**`Console`** is the write position of `vga.c`, with `vga_putchar` in three steps.
**`Terminal`** composes keyboard and console with the shell's line editing (task 0,
preemptible between all these steps) and a ring-3 task in `sys_read` and
`sys_write` (one step each, IF = 0).

**`Ramfs`** models nodes and growing buffers, with a heap that may refuse any
allocation; **`Vfs`** descriptors, both forms of path resolution, and two callers: the
shell's `cat`, `ls`, `write`, `mkdir`, `touch`, one call per step, and a second kernel
caller with any calls on its own descriptors. A path is a sequence of chunks of
at most 63 characters, so that over-long names are cut where the code cuts them.
**`Files`** is the abstract specification: objects under paths, descriptors with
offsets, nothing of nodes, lists and capacities. **`MCVfs`** gives paths.

**`E1000`** models the driver's two rings and the card as a process of its own, which
receives (or loses) frames, reads descriptors and buffers when it sends, and
writes back the status, all at its own pace. **`Net`** adds the boot steps, with an
EEPROM that may time out, and the polling task: `e1000_receive` cut between copy
and release, the two handlers, and `e1000_send` with its wait that may be given
up. A frame is its kind, its addressee and its sender; hosts send
well-formed frames. **`MCNet`** gives frames.

**`SchedulerProofs`**, **`MemoryProofs`**, **`MapProofs`**, **`VmmProofs`**,
**`HeapProofs`**, **`TerminalProofs`**, **`VfsProofs`**, **`NetProofs`**: the proofs (section 5).

## 3. Runs

| Run | Config | Shows |
|---|---|---|
| scheduler | `Scheduler.cfg` | with four slots: the switch path resumes the right frame (`RunsCurrent`, `FramesIntact`) on the right stack (`OwnStack`), one task RUNNING, exit is final, no READY task starves |
| scheduler_fault | `SchedulerFault.cfg` | violated, `NoFault`: a tick between `count++` (task.c:88) and the store of `esp` dispatches a slot without a frame |
| scheduler_revive | `SchedulerRevive.cfg` | violated, `NeverReturns`: a task that exits before its creation stores READY (task.c:129, 199) is revived |
| scheduler_esp0 | `SchedulerEsp0.cfg` | violated, `Esp0Updated`: a user task dispatched before `kernel_stack_top` is stored runs with another ESP0 |
| pmm | `Pmm.cfg` | statistics match the bitmap, one owner per frame, the kernel's frames stay reserved, frames lie in available memory, a failure means that every searched frame is in use |
| pmm_tail | `PmmFull.cfg` | violated, `FailsOnlyWhenFull`: frames of an incomplete last word are never found (pmm.c:53), although pmm.h says 0 means out of memory |
| heap | `Heap.cfg` | blocks tile the heap, free neighbours are merged, blocks in use are exactly the callers', accounting is exact, double frees and failed calls change nothing |
| heap_stats | `HeapStats.cfg` | violated, `FreeWithinTotal`: a full heap reports almost 2^32 free bytes |
| terminal | `Terminal.cfg` | the key ring refines `BoundedQueue` (`ImplementsQueue`), a buffered character is read (`BufferedIsRead`), modifiers follow the keys, a preempted `vga_putchar` stores at most one cell past the screen and the position comes back |
| vmm | `Vmm.cfg` | the identity map stays, the TLB is never stale, tables are apart from each other, from the kernel and, while lower frames are free, from the heap; the kernel halts only when frames are exhausted |
| fs | `Vfs.cfg` | nodes and buffers refine `Files`, descriptors are returned, what was created is found, every shell command ends |
| net | `Net.cfg` | the receive ring refines `BoundedQueue`, frames go out as built, no send is counted that did not happen, accepted requests are answered unless a send was given up |

Bounds. *Scheduler*: `MaxTasks = 4` gives the boot thread and three tasks, enough
for a running, a waiting, a terminated and a half-built slot at once, in all
combinations of ring 0 and ring 3; the fault needs two slots. The code has 64;
the proofs cover that. *Pmm*: frames of 2 bytes and words of 4 bits keep every
rounding case (unaligned ends, a last word of two frames, a hole) in maps of at
most 11 frames; runs of up to 3 frames cross a hole. *Heap*: 104 bytes hold up to
four blocks with headers of 16; the requests are zero, the smallest size, sizes that
split a block, fit one exactly or fail, and one whose alignment wraps around.
*Terminal*: a ring of three slots is full with two characters, three key events
overrun it or press and release a modifier around a key; a screen of 2 x 2 cells wraps
and scrolls at once; a line buffer of 2 is full after one character. One shell
thread and one ring-3 task are the readers the system has. *Vmm*: one-byte frames and
3 tables of 8 pages; the maps range from no free frame over a hole that puts
free frames outside the identity map to more memory than a 32-bit word counts;
`MaxMapped = 4` pages beyond the identity map. *Vfs*: two descriptors, so that both
callers compete for the last one; four nodes, three of them from `ramfs_init`;
files of two bytes in buffers that double once. *Net*: receive and send rings of three
and two descriptors are lapped by the five frames that arrive.

Deadlock is checked in every run but `vmm` and `net`, which may stop: after a halt (an
exhausted boot, a page fault) and on a machine without card or link. `Halted`
keeps the CPU in the halt loops of `Scheduler`.

Fairness. `WF(TimerIrq)`: the PIT is periodic (timer.c:33-75) and a pending tick is
taken once IF = 1. `WF(SysReadRetry)`: a thread in the wait loop of
`keyboard_getchar` executes its next instruction. `NoStarvation` rests on these two.
Nothing is assumed about task creation: a tick that preempts one always reaches the
half-built slot before task 0 again, so no useful promise about it can be made.
`WF(ShellStep)` in `Terminal` and `Vfs` and `WF(NetTask)` in `Net`: these threads are
always ready, and `NoStarvation` gives them their turns. `WF(Irq1)`: the PIC keeps
a pending interrupt until it is taken. `WF(Transmit)`: the card sends what lies
between its indices; nothing is assumed about how soon, so that a time-out can
still come first. No fairness is assumed of keys, arriving frames, ring-3 tasks or
the second caller of the VFS.

## 4. Findings

1. A slot is visible to `find_next_ready` from `count++` on, with its zeroed state
   reading READY and `esp` 0 (task.c:88). Storing `TASK_READY` last, with a state
   for empty slots, or creating with interrupts off closes the window.
2. The creation's last store makes a slot READY whose task may have run and exited
   already (task.c:129, 199).
3. Between the stores of `esp` and `kernel_stack_top` a user task can be dispatched
   with a stale ESP0 (task.c:195-198, 238). The same repair closes all three.
4. `find_free_frame` ignores the frames of an incomplete last word.
5. `heap_used` starts at one header, so `heap_get_stats` wraps on a full heap.

## 5. Proofs

`SchedulerProofs` (for every `MaxTasks`, assumed only positive):

* `TypeCorrect`: `Spec => []TypeOK`, also after a race.
* `SwitchSafety`: `RunsCurrent`, `OwnStack`, `FramesIntact` and `OneRunning`.
* `TerminatedForEver`: `Spec => ExitIsFinal`.

None of these is inductive alone. `TypeInv` adds `BootThread` to `TypeOK`: the
boot stack holds the boot thread and nobody else (ESP0 never names it, no other task
is resumed from it, only its thread is in a creation), which survives a race and keeps
`count` and `current` in range. `SafeInv == ~raced => Safe` adds three parts:
`RunningOK` (what the running thread, its stack and ESP0 have to do with each
other), `WaitingOK` (the frame of every waiting task lies on its own stack and
continues at a place that fits it) and `CreatingOK` (what a half-built slot has so
far, per place of the creation). A switch moves one task from `RunningOK` to
`WaitingOK` and one back, which is why both are needed at once.

`MemoryProofs`, second part (`Pmm`, for every frame, word and kernel size; assumed: sizes positive, the
available regions of a map do not overlap in frames):

* `TypeCorrect`, `StatsCorrect` (`StatsMatchBitmap`), `FramesExclusive`
  (`Exclusive`);
* `KernelStays` (`KernelKept`), `AvailableOnly` (`OnlyAvailable`),
  `FailsWhenSearchedFull` (`FailsOnlyWhenSearchedFull`).

The invariant is `TypeOK /\ Clearing /\ Counted /\ Owned`. `Counted` says
`used_frames = Cardinality(used)`; during the second loop of `pmm_init` it needs
`Clearing`, that the frames of the entries still to come are all marked used,
which is where the assumption on overlaps enters. `Owned` adds to `Exclusive` that nobody holds
frame 0, so that freeing the 0 of a failed call cannot take a frame from its owner, and
that frame 0 is the only reserved frame that can lose its bit.

The second group needs `SourceInv`, which adds `FromMap` (a frame that is free or
held lies in an available entry, frame 0 excepted), `Kept` (the kernel's frames and
frame 0 are reserved, and frame 0 loses its bit only to the free of a failed
result) and `Answered` (before the first call nothing was returned). That a failed
search means a full bitmap rests on a least free frame: `Least` takes it from the
well-foundedness of the naturals.

`MemoryProofs`, first part, `MapProofs` and `VmmProofs` (`Vmm`, for every size of frames, tables and
directory, every map, and any place of heap and card registers; assumed in addition:
the sizes are positive, the pages that callers name exist):

* `TlbNeverStale` (`TlbCoherent`), `TablesOwnFrames` (`TablesApart`), `IdentityStays`
  (`IdentityKept`), `HaltsWhenExhausted` (`HaltsOnlyWhenExhausted`), `VmmTypes`
  (`vmTypeOK`).

`vmInv` puts four parts on top of `PmmInv`. `Structure`: the tables of two entries
differ, and a page open to ring 3 lies under a directory entry open to ring 3. So
the page's own entry decides what the MMU makes of it (`WalkIsPte`), and marking a
directory entry without a flush cannot make the TLB stale. `TableOwned`: a table's
frame is held, so the frame of a new table is none of theirs, and all frames below it
are taken. `tlbOK` is `TlbCoherent` with the domain of the TLB. `Booting` says how
far the identity map has come and that it is kept. The lemmas `NewTable`,
`EntryChange` and `FlagChange` say what each kind of store does to every page's
entry; the actions use only them. They are in `MemoryProofs`; `MapProofs` has the
steps of `vmm_map`, `vmm_unmap` and `vmm_set_user`, and `VmmProofs` the boot, the
card, the TLB and the theorems. For `HaltsWhenExhausted`, `Surrender` says that paging
is never turned on after a failed result was freed: frame 0 is then free, is found
first, and its address is taken for a failure. A table out of the kernel's reach
then means that all memory within reach was taken before it. For `VmmTypes`, `Stats`
says that `page_tables` is the number of directory indices that have a table, which
bounds it by `TABLES_PER_DIR`: a step keeps the tables where they are (`TablesSame`) or
adds one at an index that had none (`OneMore`).

`HeapProofs` (for every heap size that is a multiple of 8 and larger than a header,
every modulus of `size_t` above it and any requests, those that wrap around in the
alignment included):

* `HeapTypes` (`TypeOK`), `BlocksTile` (`Tiling`), `FreeBlocksMerged` (`Coalesced`),
  `BlocksOwned` (`OwnedBlocks`), `UsedCounted` (`Accounting`);
* `HeapStable` (`ListIsStable`), an action property.

The properties hold together or not at all, so one invariant, `heapInv`, carries them:
the list tiles the heap, no two neighbours are free, the blocks in use are the callers'
and `heap_used` counts their bytes. `IsHeap` adds what makes it inductive: every
header that can be read in memory, stale ones included, is typed, and those that are
not in the list look free, which is why a second `kfree` of an old pointer is always
turned down. The list is a set of blocks with `IsList`, which `ListIs` shows to be what
a walk sees. An argument along the list is one by a least counterexample among its
addresses (`Least`). The loop of `merge_free_blocks` has the invariant `Merging`: the
blocks in use are untouched, nothing before `current` can be merged, and after `k` turns
the next block lies at least `k + 1` headers into the heap, so that the bound `Turns`
on the loop is shown to be large enough.

Two drivers keep a ring, and `TerminalProofs` and `NetProofs` both begin with the lemmas
on rings of every size, each for its own driver: adding at the write index appends to
`Contents` (`RingPut`) and taking at the read index removes its head (`RingTake`),
wherever the indices are.

`TerminalProofs` (the keyboard and the terminal, for every ring, line and screen size, any
number of ring-0 readers and any keys; assumed: the sizes are positive, the tab
distance divides the width, the prefix 0xE0 is the code of no key):

* `KeyboardIsQueue`, `TerminalQueue` (`ImplementsQueue`): a refinement. The
  invariant `kbInv` adds to the types that, as long as `torn` is false, a reader that
  will not look at the indices again is right: the ring is not empty, and the
  character it loaded is the oldest.
* `ModifiersAreHeld`, `TerminalModifiers` (`ModifiersFollowKeys`). `modInv` says in
  addition what the bytes still on their way will do, the second byte of an
  extended key included.
* `KeyboardTypes`, `TerminalTypes` (`TypeOK`), also after an overlap of readers.
* `CursorOnScreen` (`CursorHeals`), `StoresAtMostOnePast` (`StoresOnScreen`).
  `termInv` says for each step of the shell's `vga_putchar` how far the position
  may be off the screen when another one starts from it.

Every step of `Terminal` is a step of `Keyboard` or leaves the keyboard alone
(`KeyboardPart`), so the keyboard's theorems carry over to the composition.

`NetProofs` (for every size of both rings and any frames; assumed: each ring
has at least two descriptors, the two reply buffers exist, the bound on the frames that
arrive is a number):

* `ReceiveRing` (`RingIsQueue`): a refinement. `rxInv` says that `RDT` stays one
  behind `rx_cur`, that exactly the occupied descriptors have their status set, and
  that a copied frame is still the oldest until it is released.
* `CountedWereSent` (`CountsOnlySent`), `WireIsMeant` (`SentAsMeant`). `txInv` relates
  the send that is waited for to its descriptor and to the card's index, and says
  which words of the address are known at which step of the boot.

* `NetTypes` (`TypeOK`). `countInv` counts the frames on their way: those in the
  receive ring with those read are no more than have arrived, and those the card
  still has to send, with those sent and the one being handled, are no more than
  were read. The second bound also gives the last part of `CountsOnlySent`.

`VfsProofs` (`Vfs` over `Ramfs`, for any number of descriptors and nodes, any paths and
open flags, and every bound on the size of a file; assumed: a first buffer is not
empty, the file that `ramfs_init` writes and the three nodes it makes are within the
bounds, a path has at least the chunks that stand after its last slash):

* `VfsTypes` (`TypeOK`), `DescriptorsOwned` (`DescriptorsReturned`), `NodesFound`
  (`CreatedIsFound`).

The invariant has three parts. `NodesOK` says that the nodes are a tree: parents are
directories and older than their children, no two children of a directory have the
same name, no file is longer than its buffer. `TableOK` says that a descriptor in use
names a node, `CallersOK` which descriptors the shell and the other caller have.
`vfs_open` takes a descriptor that was free or answers with a failure (`Takes`), every
other call keeps the set in use or removes its own descriptor from it. `NodesFound`
follows from `NodesOK` alone: the name is unique, so `ramfs_lookup` finds it; of two
children the older has more younger siblings, so `ramfs_readdir` counts to each one;
and two resolutions that read the same names arrive at the same node (`SameWay`). The
last is an induction along a path and `CapacityIs`, that the doubling of
`ensure_capacity` reaches the size it needs, one along the turns of its loop. Both
loops are recursive functions; `Recursion` shows that such a function exists and
`UpTo` is the induction, by the least number outside a set.

Only model-checked: liveness (`NoStarvation`, `BufferedIsRead`, `ShellReturns`,
`RequestsAnswered`), which this prover does not do, and that `Vfs` implements `Files`,
whose mapping needs the path of every node to be unique to it, a recursion up the
tree.

## 6. Met while modelling, without a run of their own

Consequences of the code that a reader of the properties should know. The first
six are behaviours of the models; the properties are stated so as to allow them.

* For memory within 4 MB of 4 GB the number of page tables wraps around and the
  identity map is one table (vmm.c:86); map `Large` of `MCVmm`.
* The PMM does not know of the heap (heap.c:32); with every lower frame taken, a page
  table lies in it (`TablesApart` says only then).
* `vmm_map` over a mapped page counts it again (vmm.c:168). `mapped_pages` is only
  printed.
* A name of more than 63 characters is several components to `vfs_resolve` and a cut
  one to `resolve_parent` (vfs.c:39-51, 73-118), so it can be created and not found.
* `O_TRUNC` leaves the bytes, which a later write behind the end uncovers, and no
  call checks the flags a descriptor was opened with (vfs.c:122-171).
* After as many abandoned sends as the ring has descriptors, `TDT` meets `TDH` and the
  card takes the ring for empty (e1000.c:297-318). The status that `e1000_send`
  waits for is not volatile, so an optimising compiler may read it once.
* `timer_sleep_ms` multiplies before it divides and overflows from about 12 hours on
  (timer.c:112); the callers sleep at most a second.

## 7. Not modelled, and why

* The timer's count and sleeps. A sleeping task halts in a loop and stays ready, so to
  `Scheduler` it is a task that computes. The torn read of the 64-bit count needs
  2^32 ticks, 497 days at 100 Hz.
* Preemption inside `kmalloc`, `kfree` and the VFS calls. Cutting the list walks at
  every store multiplies the states of `Heap` beyond what can be checked; the
  hazard is listed in `PROJECT.json` without a property.
* Where in its page a heap block lies, hence which bytes of a user stack the pages
  marked by `task_create_user` cover (task.c:150).
* Reordering of plain stores by the compiler: `Scheduler` takes the stores of a
  creation in source order.
* Checksums, byte order and lengths of network frames; `net_set_ip`, which has no
  caller. These are computations on bytes, without an interleaving.
* The cells, colours and hardware cursor of the console, the commands of the shell
  that only print, the wording and layout of output.
* PIC, serial port and PCI enumeration: port I/O. The order of end-of-interrupt and
  switch is fixed by `isr_handler`, one step of `Scheduler`.
* The contents of GDT and IDT entries, the Multiboot parser (its result is the memory
  map of `Pmm`), string helpers, and `context.asm`, which nothing calls.
