------------------------------- MODULE MCVmm -------------------------------
(* Instances of Vmm: one-byte frames, 3 tables of 8 pages, so a machine    *)
(* word counts to 24 and the identity map grows in steps of 8.             *)
EXTENDS Vmm

Available(addr, len) == [addr |-> addr, len |-> len, available |-> TRUE]

(* One table for the identity map; the kernel leaves frames 3 to 7.        *)
Small == << Available(0, 8) >>

(* Two tables, the second in the heap's frame.                             *)
Medium == << Available(0, 16) >>

(* A hole: frames 16 to 23 lie beyond the identity map.                    *)
Holes == << Available(0, 6), Available(16, 8) >>

(* More memory than a word counts: the identity map is one table.          *)
Large == << Available(0, 32) >>

(* Two free frames: for one table of the identity map and one more, or for *)
(* its two tables, the rest lying in an incomplete word of the bitmap.     *)
Tight == << Available(0, 4), Available(7, 1) >>
LastWord == << Available(0, 6), Available(8, 7) >>

(* One free frame, and none.                                               *)
Scarce == << Available(0, 3), Available(7, 1) >>
Full == << Available(0, 3) >>

Maps == {Small, Medium, Holes, Large, Tight, LastWord, Scarce, Full}

=============================================================================
