------------------------------- MODULE MCPmm -------------------------------
(* Instances of Pmm: frames of 2 bytes, words of 4 bits.                   *)
EXTENDS Pmm

(* Unaligned ends, a hole, and a last word of two frames.                  *)
Holes ==
  << [addr |-> 0,  len |-> 7, available |-> TRUE],
     [addr |-> 7,  len |-> 3, available |-> FALSE],
     [addr |-> 10, len |-> 11, available |-> TRUE] >>

(* Two words, all available.                                               *)
Whole == << [addr |-> 0, len |-> 16, available |-> TRUE] >>

(* Nothing but the kernel: no allocation succeeds.                         *)
Tiny == << [addr |-> 0, len |-> 9, available |-> TRUE] >>

Maps == {Holes, Whole, Tiny}

=============================================================================
