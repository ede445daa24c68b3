------------------------------- MODULE Rings -------------------------------
(* A ring of N slots with an index to write to and one to read from, as    *)
(* the keyboard driver and the network driver keep them: what it holds,    *)
(* oldest first.  It holds at most N - 1 items; the indices are equal when *)
(* it is empty.                                                            *)
EXTENDS Integers, Sequences

Wrap(N, i) == IF i < N THEN i ELSE i - N

Held(N, head, tail) == IF tail <= head THEN head - tail ELSE head - tail + N

Contents(N, head, tail, slots) ==
  [i \in 1 .. Held(N, head, tail) |-> slots[Wrap(N, tail + i - 1)]]

=============================================================================
