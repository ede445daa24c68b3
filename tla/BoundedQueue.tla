---------------------------- MODULE BoundedQueue ----------------------------
(***************************************************************************)
(* What the keyboard buffer promises to its readers, and the receive ring  *)
(* of the network card to its driver: a first-in first-out queue of at     *)
(* most Capacity items, in which one that arrives when it is full is       *)
(* dropped and no other is lost, duplicated, reordered or invented.  The   *)
(* promise is made to readers that do not overlap: from the first overlap  *)
(* on, anything goes.                                                      *)
(***************************************************************************)
EXTENDS Naturals, Sequences

CONSTANTS Capacity, Chars

VARIABLES
  queue,      \* what waits
  last,       \* the item handed out last
  parity,     \* flips with every arrival, so that a dropped one is a step
  overlap     \* two readers overlapped

vars == <<queue, last, parity, overlap>>

Init ==
  /\ queue = << >>
  /\ last \in Chars
  /\ parity = 0
  /\ overlap = FALSE

Arrive(c) ==
  /\ queue' = IF Len(queue) < Capacity THEN Append(queue, c) ELSE queue
  /\ parity' = 1 - parity
  /\ UNCHANGED <<last, overlap>>

Take ==
  /\ queue # << >>
  /\ last' = Head(queue)
  /\ queue' = Tail(queue)
  /\ UNCHANGED <<parity, overlap>>

Misuse ==
  /\ overlap' = TRUE
  /\ queue' \in Seq(Chars)
  /\ last' \in Chars
  /\ parity' \in {0, 1}

Next ==
  \/ \E c \in Chars : Arrive(c)
  \/ Take
  \/ Misuse

Spec == Init /\ [][Next]_vars
============================================================================
