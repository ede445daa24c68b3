-------------------------------- MODULE Pmm --------------------------------
(* The physical memory manager (kernel/mm/pmm.c): one bit per frame, set   *)
(* while the frame is in use, built from the boot loader's memory map.     *)
(* The bitmap is the set `used`.  The callers are modelled by what they    *)
(* hold: they free frames they were given, free a frame twice while it is  *)
(* still free, and free the 0 that a failed allocation returned, as the    *)
(* self-test of kernel.c does.                                             *)
EXTENDS Integers, Sequences, FiniteSets

CONSTANTS
  FrameSize,   \* PMM_FRAME_SIZE
  WordBits,    \* bits in one word of frame_bitmap
  WordBytes,   \* bytes in such a word
  KernelEnd,   \* address of _kernel_end, where the bitmap is placed
  MemoryMaps,  \* memory maps: sequences of [addr, len, available]
  MaxRun       \* bound on the count of a multi-frame call

Null == -1

(* The frames pmm_init clears for one entry of the memory map.             *)
RegionRoundedUp(e) ==
  (e.addr \div FrameSize) .. ((e.addr + e.len + FrameSize - 1) \div FrameSize - 1)

Region(e) == (e.addr \div FrameSize) .. ((e.addr + e.len) \div FrameSize - 1)

(* A boot loader's map lists memory that does not overlap.                 *)
Entries == [addr : Nat, len : Nat, available : BOOLEAN]

ASSUME PmmAssumption ==
  /\ FrameSize \in Nat \ {0}
  /\ WordBits \in Nat \ {0}
  /\ WordBytes \in Nat \ {0}
  /\ KernelEnd \in Nat
  /\ MaxRun \in Nat
  /\ \A m \in MemoryMaps :
       /\ m \in Seq(Entries)
       /\ \A i, j \in 1 .. Len(m) :
            i # j /\ m[i].available /\ m[j].available =>
              Region(m[i]) \cap Region(m[j]) = {}

VARIABLES
  phase,            \* pmm_init: "off", "scan", "clear"; then "ready"
  map,              \* the memory map of this boot
  entry,            \* index of the loop over the map
  total_memory, highest_address, total_frames, used_frames,
  used,             \* the set bits of frame_bitmap below total_frames
  held,             \* for every frame, how many callers own it
  reserved,         \* frames set aside by pmm_reserve_*
  ret,              \* the last call and the address it returned
  zero              \* the 0 of failed calls: "none", "returned" or "freed"

initVars == <<phase, map, entry, total_memory, highest_address, total_frames>>
vars == <<initVars, used_frames, used, held, reserved, ret, zero>>

Frames == 0 .. total_frames - 1

NoCall == [call |-> "none", addr |-> Null]

Init ==
  /\ phase = "off"
  /\ map = << >>
  /\ entry = 1
  /\ total_memory = 0
  /\ highest_address = 0
  /\ total_frames = 0
  /\ used_frames = 0
  /\ used = {}
  /\ held = [f \in {} |-> 0]
  /\ reserved = {}
  /\ ret = NoCall
  /\ zero = "none"

----------------------------------------------------------------------------

(* pmm_init, which runs to its end before anything else: one step per      *)
(* iteration of its two loops over the memory map.                         *)

(* No Multiboot information or no memory map: nothing is set up.           *)
NoMemoryMap ==
  /\ phase = "off"
  /\ phase' = "ready"
  /\ UNCHANGED <<map, entry, total_memory, highest_address, total_frames,
                 used_frames, used, held, reserved, ret, zero>>

ReadMap ==
  /\ phase = "off"
  /\ map' \in MemoryMaps
  /\ phase' = "scan"
  /\ UNCHANGED <<entry, total_memory, highest_address, total_frames,
                 used_frames, used, held, reserved, ret, zero>>

ScanEntry ==
  /\ phase = "scan"
  /\ entry <= Len(map)
  /\ LET e == map[entry]
         end_addr == e.addr + e.len
     IN  IF e.available
           THEN /\ total_memory' = total_memory + e.len
                /\ highest_address' =
                     IF end_addr > highest_address THEN end_addr ELSE highest_address
           ELSE UNCHANGED <<total_memory, highest_address>>
  /\ entry' = entry + 1
  /\ UNCHANGED <<phase, map, total_frames, used_frames, used, held, reserved, ret, zero>>

(* Size the bitmap and mark every frame used.                              *)
FramesUpTo(a) == a \div FrameSize + (IF a % FrameSize # 0 THEN 1 ELSE 0)

MarkAllUsed ==
  /\ phase = "scan"
  /\ entry > Len(map)
  /\ phase' = "clear"
  /\ entry' = 1
  /\ total_frames' = FramesUpTo(highest_address)
  /\ used' = 0 .. total_frames' - 1
  /\ used_frames' = total_frames'
  /\ held' = [f \in used' |-> 0]
  /\ UNCHANGED <<map, total_memory, highest_address, reserved, ret, zero>>

ClearEntry ==
  /\ phase = "clear"
  /\ entry <= Len(map)
  /\ LET e == map[entry]
         region == Region(e) \cap Frames
     IN  IF e.available
           THEN /\ used' = used \ region
                /\ used_frames' = used_frames - Cardinality(region)
           ELSE UNCHANGED <<used, used_frames>>
  /\ entry' = entry + 1
  /\ UNCHANGED <<phase, map, total_memory, highest_address, total_frames,
                 held, reserved, ret, zero>>

(* The frames pmm_reserve_region(start, end) walks over, `frame <=         *)
(* end_frame' included.                                                    *)
SpanRoundedDown(start, end) == (start \div FrameSize) .. (end \div FrameSize - 1)

Span(start, end) == (start \div FrameSize) .. FramesUpTo(end)

(* pmm_reserve_frame on every frame of F: the bits it sets.                *)
NewPastTheEnd(F) == F \ used

NewlyReserved(F) == (F \cap Frames) \ used

Reserve(F) ==
  /\ used' = used \cup NewlyReserved(F)
  /\ used_frames' = used_frames + Cardinality(NewlyReserved(F))
  /\ reserved' = reserved \cup (F \cap Frames)

BitmapBytes ==
  WordBytes * (total_frames \div WordBits + (IF total_frames % WordBits # 0 THEN 1 ELSE 0))

ReserveKernel ==
  /\ phase = "clear"
  /\ entry > Len(map)
  /\ phase' = "ready"
  /\ Reserve(Span(0, KernelEnd + BitmapBytes))
  /\ UNCHANGED <<map, entry, total_memory, highest_address, total_frames, held, ret, zero>>

----------------------------------------------------------------------------

(* The frames find_free_frame looks at: those of the whole words.          *)
Searched == 0 .. WordBits * (total_frames \div WordBits) - 1

(* The address of frame s is returned, or 0 (s = 0) for a failure.  A      *)
(* caller that gets 0 takes it for a failure; any other address makes it   *)
(* the owner of the n frames there.                                        *)
Returned(call, s, n) ==
  /\ ret' = [call |-> call, addr |-> s * FrameSize]
  /\ \/ /\ s * FrameSize = 0
        /\ zero' = (IF zero = "none" THEN "returned" ELSE zero)
        /\ UNCHANGED held
     \/ /\ s * FrameSize # 0
        /\ held' = [f \in DOMAIN held |->
                      IF f \in s .. s + n - 1 THEN held[f] + 1 ELSE held[f]]
        /\ UNCHANGED zero

(* f is the frame find_free_frame returns.                                 *)
FoundBeforeLastWord(f) ==
  /\ f \in Searched \ used
  /\ f + WordBits \in Searched
  /\ \A g \in 0 .. f - 1 : g \in used

KeepsLastHit(f) ==
  /\ f \in Searched \ used
  /\ \A g \in Searched : g > f => g \in used

Found(f) ==
  /\ f \in Searched \ used
  /\ \A g \in 0 .. f - 1 : g \in used

pmm_alloc_frame ==
  /\ phase = "ready"
  /\ \/ \E f \in Searched :
          /\ Found(f)
          /\ used' = used \cup {f}
          /\ used_frames' = used_frames + 1
          /\ Returned("alloc_frame", f, 1)
     \/ /\ \A f \in Searched : ~Found(f)
        /\ Returned("alloc_frame", 0, 1)
        /\ UNCHANGED <<used, used_frames>>
  /\ UNCHANGED <<initVars, reserved>>

(* The n frames from s on are the first run that pmm_alloc_frames finds.   *)
FreeRunNoReset(s, n) ==
  s + n <= total_frames /\ s \notin used /\ s + n - 1 \notin used

FreeRun(s, n) ==
  s + n <= total_frames /\ \A f \in s .. s + n - 1 : f \notin used

pmm_alloc_frames(n) ==
  /\ phase = "ready"
  /\ \/ \E s \in Frames :
          /\ n > 0
          /\ FreeRun(s, n)
          /\ \A r \in 0 .. s - 1 : ~FreeRun(r, n)
          /\ used' = used \cup (s .. s + n - 1)
          /\ used_frames' = used_frames + n
          /\ Returned("alloc_frames", s, n)
     \/ /\ n = 0 \/ \A s \in Frames : ~FreeRun(s, n)
        /\ Returned("alloc_frames", 0, n)
        /\ UNCHANGED <<used, used_frames>>
  /\ UNCHANGED <<initVars, reserved>>

----------------------------------------------------------------------------

(* Of the frames F that a caller frees, the ones pmm_free_frame clears.    *)
ClearedUnchecked(F) == F \cap Frames

Cleared(F) == F \cap Frames \cap used

Free(F) ==
  /\ used' = used \ Cleared(F)
  /\ used_frames' = used_frames - Cardinality(Cleared(F))
  /\ ret' = NoCall
  /\ UNCHANGED <<initVars, reserved>>

(* What a caller may pass: a frame it holds, one that is free already (a   *)
(* double free) or one past the end of memory.                             *)
MayFree(f) == f \in Frames /\ f \in used => held[f] > 0

(* pmm_free_frames, and pmm_free_frame, its single step.                   *)
pmm_free_frames(s, n) ==
  /\ phase = "ready"
  /\ \A f \in s .. s + n - 1 : MayFree(f)
  /\ Free(s .. s + n - 1)
  /\ held' = [f \in DOMAIN held |->
                IF f \in s .. s + n - 1 /\ held[f] > 0 THEN held[f] - 1 ELSE held[f]]
  /\ UNCHANGED zero

(* pmm_free_frame(0) with the 0 of a failed call.                          *)
FreeFailed ==
  /\ phase = "ready"
  /\ zero # "none"
  /\ zero' = "freed"
  /\ Free({0})
  /\ UNCHANGED held

(* pmm_reserve_frame for a frame nobody holds, pmm_reserve_region.         *)
pmm_reserve_region(start, end) ==
  /\ phase = "ready"
  /\ \A f \in Span(start, end) \cap Frames : held[f] = 0
  /\ Reserve(Span(start, end))
  /\ ret' = NoCall
  /\ UNCHANGED <<initVars, held, zero>>

pmm_reserve_frame(f) ==
  /\ phase = "ready"
  /\ f \in Frames => held[f] = 0
  /\ Reserve({f})
  /\ ret' = NoCall
  /\ UNCHANGED <<initVars, held, zero>>

pmm_is_frame_allocated(f) == f >= total_frames \/ f \in used

pmm_get_stats ==
  [total_frames |-> total_frames,
   used_frames  |-> used_frames,
   free_frames  |-> total_frames - used_frames]

Next ==
  \/ NoMemoryMap
  \/ ReadMap
  \/ ScanEntry
  \/ MarkAllUsed
  \/ ClearEntry
  \/ ReserveKernel
  \/ pmm_alloc_frame
  \/ \E n \in 0 .. MaxRun : pmm_alloc_frames(n)
  \/ \E s \in 0 .. total_frames, n \in 1 .. MaxRun : pmm_free_frames(s, n)
  \/ FreeFailed
  \/ \E end \in 0 .. total_frames * FrameSize : \E start \in 0 .. end :
       pmm_reserve_region(start, end)
  \/ \E f \in 0 .. total_frames : pmm_reserve_frame(f)

Spec == Init /\ [][Next]_vars

----------------------------------------------------------------------------

(* Every variable stays in its range; only bits of frames that exist are   *)
(* set (pmm.c:202, 256, 277).                                              *)
TypeOK ==
  /\ phase \in {"off", "scan", "clear", "ready"}
  /\ map \in Seq(Entries)
  /\ entry \in Nat \ {0}
  /\ total_memory \in Nat /\ highest_address \in Nat
  /\ total_frames \in Nat /\ used_frames \in Int
  /\ used \subseteq Frames
  /\ held \in [Frames -> Nat]
  /\ reserved \subseteq Frames
  /\ ret \in [call : {"none", "alloc_frame", "alloc_frames"}, addr : Nat \cup {Null}]
  /\ zero \in {"none", "returned", "freed"}

(* The number of free frames that pmm_get_stats reports is the number of   *)
(* frames pmm_is_frame_allocated says are not allocated, after any         *)
(* sequence of calls: double frees, reservations of used frames and the    *)
(* loops of pmm_init all keep used_frames in step (pmm.c:118-137, 157,     *)
(* 181-184, 206-211, 260-263).                                             *)
StatsMatchBitmap ==
  pmm_get_stats.free_frames =
    Cardinality({f \in Frames : ~pmm_is_frame_allocated(f)})

(* A frame has one owner at most, stays marked used while it has one, and  *)
(* is never one of the reserved frames, which hold the kernel image and    *)
(* the bitmap: also not after a caller freed the 0 of a failed call and so *)
(* cleared the bit of frame 0 (pmm.c:52-65, 166-212; kernel.c:191).        *)
Exclusive ==
  \A f \in Frames : held[f] > 0 => held[f] = 1 /\ f \in used /\ f \notin reserved

(* The frames with a byte of the kernel image or of the bitmap are         *)
(* reserved once pmm_init is done and stay marked used, frame 0 excepted   *)
(* after FreeFailed (pmm.c:143-144, 270-279).                              *)
KernelKept ==
  phase = "ready" =>
    \A f \in Frames :
      f * FrameSize < KernelEnd + BitmapBytes =>
        /\ f \in reserved
        /\ f \in used \/ (f = 0 /\ zero = "freed")

(* A frame in the hands of a caller lies in available memory up to its     *)
(* last byte (pmm.c:130-138).                                              *)
OnlyAvailable ==
  \A f \in Frames : held[f] > 0 =>
    \E i \in 1 .. Len(map) :
      /\ map[i].available
      /\ map[i].addr < (f + 1) * FrameSize
      /\ (f + 1) * FrameSize <= map[i].addr + map[i].len

(* pmm_alloc_frame fails only when every frame it looks at is in use,      *)
(* unless the 0 of a failed call was freed: then it can find frame 0, and  *)
(* its address is taken for a failure (pmm.c:52-65, 150-161).              *)
FailsOnlyWhenSearchedFull ==
  ret = [call |-> "alloc_frame", addr |-> 0] => Searched \subseteq used \/ zero = "freed"

(* pmm.h: pmm_alloc_frame returns 0 "if out of memory".  Violated: the     *)
(* frames of a last, incomplete word are free and never found              *)
(* (pmm.c:53).                                                             *)
FailsOnlyWhenFull ==
  ret = [call |-> "alloc_frame", addr |-> 0] /\ zero # "freed" =>
    pmm_get_stats.free_frames = 0

=============================================================================
