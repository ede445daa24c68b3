--------------------------- MODULE TerminalProofs ---------------------------
(* The keyboard ring for every buffer size and any number of readers, and  *)
(* the terminal for every screen and line size.                            *)
EXTENDS Terminal, TLAPS

(* The slot after another one: the remainder of the code is Wrap.          *)
LEMMA NextSlot ==
  ASSUME NEW N \in Nat \ {0}, NEW a \in 0 .. N - 1
  PROVE  (a + 1) % N = Wrap(N, a + 1) /\ Wrap(N, a + 1) \in 0 .. N - 1
<1>1. PICK q \in Int, r \in 0 .. N - 1 : a + 1 = N * q + r /\ r = (a + 1) % N
  OBVIOUS
<1>2. q >= 2 => N * q >= 2 * N
  OBVIOUS
<1>3. q < 0 => N * q <= -N
  OBVIOUS
<1>4. q \in {0, 1}
  BY <1>1, <1>2, <1>3
<1>5. CASE q = 0
  BY <1>1, <1>5 DEF Wrap
<1>6. CASE q = 1
  BY <1>1, <1>6 DEF Wrap
<1> QED
  BY <1>4, <1>5, <1>6

(* A ring of N slots with items of S.                                      *)
IsRing(N, S, h, t, b) ==
  N \in Nat \ {0} /\ b \in [0 .. N - 1 -> S] /\ h \in 0 .. N - 1 /\ t \in 0 .. N - 1

(* What a ring holds: at most N - 1 items, nothing when the indices are    *)
(* equal, N - 1 when the next slot to write to is the next to read from.   *)
LEMMA RingType ==
  ASSUME NEW N, NEW S, NEW h, NEW t, NEW b, IsRing(N, S, h, t, b)
  PROVE  /\ Held(N, h, t) \in 0 .. N - 1 /\ (Held(N, h, t) = 0 <=> h = t)
         /\ Held(N, h, t) = N - 1 <=> Wrap(N, h + 1) = t
         /\ \A i \in 1 .. N : Wrap(N, t + i - 1) \in 0 .. N - 1
         /\ Contents(N, h, t, b) \in Seq(S)
         /\ Len(Contents(N, h, t, b)) = Held(N, h, t)
         /\ Contents(N, h, t, b) = << >> <=> h = t
<1>1. N \in Nat \ {0} /\ b \in [0 .. N - 1 -> S] /\ h \in 0 .. N - 1 /\ t \in 0 .. N - 1
  BY DEF IsRing
<1>2. /\ Held(N, h, t) \in 0 .. N - 1 /\ (Held(N, h, t) = 0 <=> h = t)
      /\ Held(N, h, t) = N - 1 <=> Wrap(N, h + 1) = t
      /\ \A i \in 1 .. N : Wrap(N, t + i - 1) \in 0 .. N - 1
  BY <1>1 DEF Held, Wrap
<1>3. Contents(N, h, t, b) \in Seq(S) /\ Len(Contents(N, h, t, b)) = Held(N, h, t)
  <2>1. PICK n \in 0 .. N - 1 : n = Held(N, h, t)
    BY <1>2
  <2>2. \A i \in 1 .. n : i \in 1 .. N
    BY <1>1
  <2>3. \A i \in 1 .. n : b[Wrap(N, t + i - 1)] \in S
    BY <1>1, <1>2, <2>2, Zenon
  <2>4. Contents(N, h, t, b) \in [1 .. n -> S]
    BY <2>1, <2>3, Zenon DEF Contents
  <2> QED
    BY <2>1, <2>4
<1>4. Contents(N, h, t, b) = << >> <=> Len(Contents(N, h, t, b)) = 0
  BY <1>3
<1> QED
  BY <1>2, <1>3, <1>4

(* c is put at h of a ring that is not full: bb are the slots after it.    *)
IsPut(N, S, h, t, b, c, bb) ==
  IsRing(N, S, h, t, b) /\ c \in S /\ Wrap(N, h + 1) # t /\ bb = [b EXCEPT ![h] = c]

(* A put into a ring that is not full adds one item at the end.            *)
LEMMA RingPut ==
  ASSUME NEW N, NEW S, NEW h, NEW t, NEW b, NEW c, NEW bb, IsPut(N, S, h, t, b, c, bb)
  PROVE  Contents(N, Wrap(N, h + 1), t, bb) = Append(Contents(N, h, t, b), c)
<1>1. /\ N \in Nat \ {0} /\ b \in [0 .. N - 1 -> S] /\ h \in 0 .. N - 1 /\ t \in 0 .. N - 1
      /\ c \in S /\ Wrap(N, h + 1) # t /\ bb = [b EXCEPT ![h] = c]
  BY DEF IsPut, IsRing
<1> DEFINE n == Held(N, h, t)
           before == Contents(N, h, t, b)
           after == Contents(N, Wrap(N, h + 1), t, bb)
<1>2. /\ n \in 0 .. N - 1 /\ Held(N, Wrap(N, h + 1), t) = n + 1
      /\ \A i \in 1 .. n : Wrap(N, t + i - 1) # h /\ Wrap(N, t + i - 1) \in 0 .. N - 1
      /\ Wrap(N, t + (n + 1) - 1) = h
  BY <1>1 DEF Held, Wrap
<1>3. before \in Seq(S) /\ Len(before) = n
  BY RingType DEF IsPut
<1>4. IsRing(N, S, Wrap(N, h + 1), t, bb)
  BY <1>1 DEF IsRing, Wrap
<1>5. after \in Seq(S) /\ Len(after) = n + 1
  BY <1>2, <1>4, RingType
<1>6. \A i \in 1 .. n : before[i] = b[Wrap(N, t + i - 1)]
  BY DEF Contents
<1>7. \A i \in 1 .. n + 1 : after[i] = bb[Wrap(N, t + i - 1)]
  BY <1>2 DEF Contents
<1> HIDE DEF n, before, after
<1>8. after[n + 1] = c
  BY <1>1, <1>2, <1>7
<1>9. \A i \in 1 .. n : after[i] = before[i]
  <2> SUFFICES ASSUME NEW i \in 1 .. n PROVE after[i] = before[i]
    OBVIOUS
  <2>1. i \in 1 .. n + 1
    BY <1>2
  <2>2. PICK k \in 0 .. N - 1 : k = Wrap(N, t + i - 1) /\ k # h
    BY <1>2
  <2>3. bb[k] = b[k]
    BY <1>1, <2>2
  <2> QED
    BY <1>6, <1>7, <2>1, <2>2, <2>3
<1>10. after = Append(before, c)
  <2>0. c \in S /\ n \in Nat
    BY <1>1, <1>2
  <2>1. /\ Append(before, c) \in Seq(S) /\ Len(Append(before, c)) = n + 1
        /\ \A i \in 1 .. n : Append(before, c)[i] = before[i]
        /\ Append(before, c)[n + 1] = c
    BY <1>3, <2>0
  <2>2. \A i \in 1 .. n + 1 : after[i] = Append(before, c)[i]
    BY <1>2, <1>8, <1>9, <2>1
  <2> QED
    BY <1>5, <2>1, <2>2
<1> QED
  BY <1>10 DEF before, after

(* A take from a ring that is not empty returns the first item and leaves  *)
(* the others.                                                             *)
LEMMA RingTake ==
  ASSUME NEW N, NEW S, NEW h, NEW t, NEW b, IsRing(N, S, h, t, b), h # t
  PROVE  /\ Head(Contents(N, h, t, b)) = b[t]
         /\ Contents(N, h, Wrap(N, t + 1), b) = Tail(Contents(N, h, t, b))
<1>1. N \in Nat \ {0} /\ b \in [0 .. N - 1 -> S] /\ h \in 0 .. N - 1 /\ t \in 0 .. N - 1
  BY DEF IsRing
<1> DEFINE n == Held(N, h, t)
           g == Wrap(N, t + 1)
           before == Contents(N, h, t, b)
           after == Contents(N, h, g, b)
<1>2. /\ n \in 1 .. N - 1 /\ Held(N, h, g) = n - 1
      /\ \A i \in 1 .. n - 1 : Wrap(N, g + i - 1) = Wrap(N, t + (i + 1) - 1)
      /\ Wrap(N, t + 1 - 1) = t
  BY <1>1 DEF Held, Wrap
<1>3. before \in Seq(S) /\ Len(before) = n
  BY RingType
<1>4. IsRing(N, S, h, g, b)
  BY <1>1 DEF IsRing, Wrap
<1>5. after \in Seq(S) /\ Len(after) = n - 1
  BY <1>2, <1>4, RingType
<1>6. \A i \in 1 .. n : before[i] = b[Wrap(N, t + i - 1)]
  BY DEF Contents
<1>7. \A i \in 1 .. n - 1 : after[i] = b[Wrap(N, g + i - 1)]
  BY <1>2 DEF Contents
<1> HIDE DEF n, g, before, after
<1>8. before[1] = b[t] /\ \A i \in 1 .. n - 1 : after[i] = before[i + 1]
  BY <1>2, <1>6, <1>7
<1>9. Head(before) = b[t] /\ after = Tail(before)
  BY <1>2, <1>3, <1>5, <1>8
<1> QED
  BY <1>9 DEF before, after, g

(* What a reader that no other one disturbed knows of the ring: it is not  *)
(* empty once it compared unequal or will, and the character it loaded is  *)
(* still the oldest.                                                       *)
Undisturbed(r) ==
  /\ at[r] \in {"load", "advance"} => kb_head # kb_tail
  /\ at[r] = "advance" => char[r] = kb_buffer[kb_tail]
  /\ at[r] = "cmp" /\ seen[r] # kb_tail => kb_head # kb_tail

kbInv == kbTypeOK /\ (~torn => \A r \in Threads : Undisturbed(r))

LEMMA InitInv == kbInit => kbInv
<1> SUFFICES ASSUME kbInit PROVE kbInv
  OBVIOUS
<1>1. 0 \in Slot /\ Nul \in Chars
  BY SizeAssumption DEF Slot, Chars
<1>2. kbTypeOK
  BY <1>1 DEF kbInit, kbTypeOK
<1>3. \A r \in Threads : at[r] = "out"
  BY DEF kbInit
<1>4. \A r \in Threads : Undisturbed(r)
  BY <1>3 DEF Undisturbed
<1> QED
  BY <1>2, <1>4 DEF kbInv

(* A byte yields modifiers and characters of the known kinds.              *)
LEMMA ByteType ==
  ASSUME kbTypeOK, NEW b
  PROVE  /\ NewModifiers(b) \subseteq HeldKeys \cup {"caps"}
         /\ Translated(b) \in Chars
<1>1. NewModifiers(b) \subseteq HeldKeys \cup {"caps"}
  BY DEF kbTypeOK, NewModifiers
<1>2. sc_normal \in [CharKeys -> Chars] /\ sc_shifted \in [CharKeys -> Chars]
  BY DEF sc_normal, sc_shifted, CharKeys, Chars, Nul
<1>3. \A c \in Chars : toggle_case(c) \in Chars
  BY DEF toggle_case, Chars, Nul
<1>4. Nul \in Chars
  BY DEF Chars
<1>5. Translated(b) \in Chars
  BY <1>2, <1>3, <1>4 DEF Translated
<1> QED
  BY <1>1, <1>5

(* The next index is in the ring.                                          *)
LEMMA NextIndex ==
  ASSUME NEW i \in Slot
  PROVE  (i + 1) % Size \in Slot /\ (i + 1) % Size = Wrap(Size, i + 1)
<1>1. Size \in Nat \ {0} /\ i \in 0 .. Size - 1 /\ Slot = 0 .. Size - 1
  BY SizeAssumption DEF Slot
<1> QED
  BY <1>1, NextSlot

(* The ring is one to which the facts on rings apply.                      *)
LEMMA KeyRing ==
  ASSUME kbTypeOK
  PROVE  /\ IsRing(Size, Chars, kb_head, kb_tail, kb_buffer)
         /\ kb_head \in 0 .. Size - 1 /\ kb_tail \in 0 .. Size - 1
         /\ Buffered = Contents(Size, kb_head, kb_tail, kb_buffer)
         /\ Buffered \in Seq(Chars) /\ Len(Buffered) \in 0 .. Size - 1
         /\ Len(Buffered) = Size - 1 <=> Wrap(Size, kb_head + 1) = kb_tail
         /\ Buffered = << >> <=> kb_head = kb_tail
<1>1. IsRing(Size, Chars, kb_head, kb_tail, kb_buffer)
  BY SizeAssumption DEF kbTypeOK, Slot, IsRing
<1>2. Buffered = Contents(Size, kb_head, kb_tail, kb_buffer)
  BY DEF Buffered
<1>3. PICK n : /\ n = Held(Size, kb_head, kb_tail) /\ n \in 0 .. Size - 1
               /\ n = Size - 1 <=> Wrap(Size, kb_head + 1) = kb_tail
  BY <1>1, RingType
<1>4. Buffered \in Seq(Chars) /\ Len(Buffered) = n /\ (Buffered = << >> <=> kb_head = kb_tail)
  BY <1>1, <1>2, <1>3, RingType
<1>5. kb_head \in 0 .. Size - 1 /\ kb_tail \in 0 .. Size - 1
  BY <1>1 DEF IsRing
<1> QED
  BY <1>1, <1>2, <1>3, <1>4, <1>5

(* A step that leaves the ring, the character returned last, the parity    *)
(* and torn alone is none of the queue.                                    *)
LEMMA Stutter ==
  ASSUME UNCHANGED <<ring, last, parity, torn>>
  PROVE  UNCHANGED Queue!vars /\ UNCHANGED <<kb_buffer, kb_head, kb_tail, last, parity, torn>>
  BY DEF ring, Queue!vars, Buffered

(* IRQ1 is an arrival, or no step of the queue.                            *)
LEMMA IrqStep ==
  ASSUME kbInv, keyboard_irq_handler
  PROVE  kbInv' /\ [Queue!Next]_Queue!vars
<1>t. kbTypeOK
  BY DEF kbInv
<1>u. UNCHANGED <<kb_tail, at, seen, char, last, torn>>
  BY DEF keyboard_irq_handler, readers
<1> DEFINE b == Head(port)
           c == Translated(b)
<1>1. /\ extended_pending' \in BOOLEAN
      /\ modifiers' \subseteq HeldKeys \cup {"caps"}
      /\ c \in Chars
      /\ \/ UNCHANGED <<kb_buffer, kb_head, parity>>
         \/ buf_put(c) /\ parity' = 1 - parity
  <2>1. NewModifiers(b) \subseteq HeldKeys \cup {"caps"} /\ c \in Chars
    BY <1>t, ByteType
  <2>2. /\ extended_pending' = (b = E0)
        /\ modifiers' = IF Skipped(b) THEN modifiers ELSE NewModifiers(b)
        /\ IF Skipped(b) \/ c = Nul
             THEN UNCHANGED <<kb_buffer, kb_head, parity>>
             ELSE buf_put(c) /\ parity' = 1 - parity
    BY DEF keyboard_irq_handler
  <2>3. modifiers \subseteq HeldKeys \cup {"caps"}
    BY <1>t DEF kbTypeOK
  <2> HIDE DEF b, c
  <2> QED
    BY <2>1, <2>2, <2>3
<1> HIDE DEF b, c
<1>2. CASE UNCHANGED <<kb_buffer, kb_head, parity>>
  <2>1. kbTypeOK'
    BY <1>t, <1>u, <1>1, <1>2 DEF kbTypeOK
  <2>2. kbInv'
    BY <1>u, <1>2, <2>1 DEF kbInv, Undisturbed
  <2>3. UNCHANGED Queue!vars
    BY <1>u, <1>2, Stutter DEF ring
  <2> QED
    BY <2>2, <2>3
<1>3. CASE buf_put(c) /\ parity' = 1 - parity /\ (kb_head + 1) % Size = kb_tail
  <2>1. UNCHANGED <<kb_buffer, kb_head>>
    BY <1>3 DEF buf_put
  <2>p. parity' \in {0, 1}
    BY <1>t, <1>3 DEF kbTypeOK
  <2>2. kbTypeOK'
    BY <1>t, <1>u, <1>1, <2>1, <2>p DEF kbTypeOK
  <2>3. kbInv'
    BY <1>u, <2>1, <2>2 DEF kbInv, Undisturbed
  <2>4. Len(Buffered) = Size - 1
    BY <1>t, <1>3, KeyRing, NextIndex DEF kbTypeOK
  <2>5. ~(Len(Buffered) < Size - 1)
    BY <2>4, SizeAssumption
  <2>6. Buffered' = Buffered
    BY <1>u, <2>1 DEF Buffered
  <2>7. Queue!Arrive(c)
    BY <1>u, <1>3, <2>5, <2>6 DEF Queue!Arrive
  <2> QED
    BY <1>1, <2>3, <2>7 DEF Queue!Next
<1>4. CASE buf_put(c) /\ parity' = 1 - parity /\ (kb_head + 1) % Size # kb_tail
  <2>1. kb_buffer' = [kb_buffer EXCEPT ![kb_head] = c] /\ kb_head' = (kb_head + 1) % Size
    BY <1>4 DEF buf_put
  <2>p. parity' \in {0, 1}
    BY <1>t, <1>4 DEF kbTypeOK
  <2>h. kb_head' \in Slot
    BY <1>t, <2>1, NextIndex DEF kbTypeOK
  <2>b. kb_buffer' \in [Slot -> Chars]
    BY <1>t, <1>1, <2>1 DEF kbTypeOK
  <2>2. kbTypeOK'
    BY <1>t, <1>u, <1>1, <2>p, <2>h, <2>b DEF kbTypeOK
  <2>3. kb_head' # kb_tail'
    BY <1>u, <1>4, <2>1
  <2>4. kb_head # kb_tail => kb_buffer'[kb_tail] = kb_buffer[kb_tail]
    BY <1>t, <2>1 DEF kbTypeOK
  <2>5. ASSUME ~torn, NEW r \in Threads PROVE Undisturbed(r)'
    <3>1. Undisturbed(r)
      BY <2>5 DEF kbInv
    <3> QED
      BY <1>u, <2>3, <2>4, <3>1 DEF Undisturbed
  <2>6. kbInv'
    BY <1>u, <2>2, <2>5 DEF kbInv
  <2>7. Wrap(Size, kb_head + 1) = kb_head' /\ Wrap(Size, kb_head + 1) # kb_tail
    BY <1>t, <1>4, <2>1, NextIndex DEF kbTypeOK
  <2>8. Len(Buffered) < Size - 1
    <3>1. Len(Buffered) \in 0 .. Size - 1 /\ Len(Buffered) # Size - 1
      BY <1>t, <2>7, KeyRing
    <3> QED
      BY <3>1, SizeAssumption
  <2>9. Buffered' = Append(Buffered, c)
    <3>1. IsPut(Size, Chars, kb_head, kb_tail, kb_buffer, c, kb_buffer')
      BY <1>t, <1>1, <2>1, <2>7, KeyRing DEF IsPut
    <3> QED
      BY <1>u, <2>7, <3>1, RingPut DEF Buffered
  <2>10. Queue!Arrive(c)
    BY <1>u, <1>4, <2>8, <2>9 DEF Queue!Arrive
  <2> QED
    BY <1>1, <2>6, <2>10 DEF Queue!Next
<1> QED
  BY <1>1, <1>2, <1>3, <1>4


(* A read that leaves the ring alone: only the reader moves.               *)
LEMMA GetcharStepInv ==
  ASSUME kbInv, NEW r \in Threads, GetcharStep(r)
  PROVE  kbInv' /\ [Queue!Next]_Queue!vars
<1>t. kbTypeOK
  BY DEF kbInv
<1>0. 0 \in Slot
  BY SizeAssumption DEF Slot
<1>u. UNCHANGED <<modifiers, extended_pending, ring, last, parity, torn>>
  BY DEF GetcharStep, ReadHead, Compare, Load
<1>v. /\ UNCHANGED <<modifiers, extended_pending, kb_buffer, kb_head, kb_tail, last, parity, torn>>
      /\ UNCHANGED Queue!vars
  BY <1>u, Stutter
<1>1. kb_buffer[kb_tail] \in Chars
  BY <1>t DEF kbTypeOK
<1>2. /\ at' \in [Threads -> {"out", "cmp", "load", "advance"}]
      /\ seen' \in [Threads -> Slot]
      /\ char' \in [Threads -> Chars]
      /\ \A q \in Threads \ {r} : at'[q] = at[q] /\ seen'[q] = seen[q] /\ char'[q] = char[q]
  <2>1. CASE ReadHead(r)
    BY <1>t, <2>1 DEF ReadHead, kbTypeOK
  <2>2. CASE Compare(r)
    BY <1>t, <1>0, <2>2 DEF Compare, kbTypeOK
  <2>3. CASE Load(r)
    BY <1>t, <1>1, <2>3 DEF Load, kbTypeOK
  <2> QED
    BY <2>1, <2>2, <2>3 DEF GetcharStep
<1>3. kbTypeOK'
  BY <1>t, <1>v, <1>2 DEF kbTypeOK
<1>4. ASSUME ~torn, NEW q \in Threads PROVE Undisturbed(q)'
  <2>1. Undisturbed(q) /\ Undisturbed(r)
    BY <1>4 DEF kbInv
  <2>2. CASE q # r
    BY <1>v, <1>2, <2>1, <2>2 DEF Undisturbed
  <2>3. CASE q = r /\ ReadHead(r)
    <3>1. at'[r] = "cmp" /\ seen'[r] = kb_head
      BY <1>t, <2>3 DEF ReadHead, kbTypeOK
    <3> QED
      BY <1>v, <2>3, <3>1 DEF Undisturbed
  <2>4. CASE q = r /\ Compare(r)
    <3>1. at[r] = "cmp" /\ at'[r] = IF seen[r] = kb_tail THEN "out" ELSE "load"
      BY <1>t, <2>4 DEF Compare, LooksEmpty, kbTypeOK
    <3> QED
      BY <1>v, <2>1, <2>4, <3>1 DEF Undisturbed
  <2>5. CASE q = r /\ Load(r)
    <3>1. at[r] = "load" /\ at'[r] = "advance" /\ char'[r] = kb_buffer[kb_tail]
      BY <1>t, <2>5 DEF Load, kbTypeOK
    <3> QED
      BY <1>v, <2>1, <2>5, <3>1 DEF Undisturbed
  <2> QED
    BY <2>2, <2>3, <2>4, <2>5 DEF GetcharStep
<1> QED
  BY <1>v, <1>3, <1>4 DEF kbInv

(* Advancing kb_tail takes the oldest character, unless a reader that      *)
(* relied on kb_tail is overtaken.                                         *)
LEMMA ReturnStep ==
  ASSUME kbInv, NEW c \in Chars, NEW others \in SUBSET Threads, Return(c, others),
         UNCHANGED <<modifiers, extended_pending, kb_buffer, kb_head, seen, parity>>,
         at' \in [Threads -> {"out", "cmp", "load", "advance"}],
         char' \in [Threads -> Chars],
         \A q \in others : at'[q] = at[q],
         \A q \in Threads \ others : at'[q] = "out",
         ~torn => kb_head # kb_tail /\ c = kb_buffer[kb_tail]
  PROVE  kbInv' /\ [Queue!Next]_Queue!vars
<1>t. kbTypeOK
  BY DEF kbInv
<1>1. kb_tail' = (kb_tail + 1) % Size /\ last' = c /\ torn' = (torn \/ \E r \in others : Relies(r))
  BY DEF Return
<1>2. kb_tail' \in Slot
  BY <1>t, <1>1, NextIndex DEF kbTypeOK
<1>3. torn' \in BOOLEAN
  BY <1>1, Zenon DEF kbTypeOK
<1>4. kbTypeOK'
  BY <1>t, <1>1, <1>2, <1>3 DEF kbTypeOK
<1>5. CASE torn'
  <2>1. Buffered' \in Seq(Chars)
    <3>1. IsRing(Size, Chars, kb_head', kb_tail', kb_buffer')
      BY <1>4, SizeAssumption DEF kbTypeOK, Slot, IsRing
    <3> QED
      BY <3>1, RingType DEF Buffered
  <2> QED
    BY <1>4, <1>5, <2>1 DEF kbInv, kbTypeOK, Queue!Next, Queue!Misuse
<1>6. CASE ~torn'
  <2>1. ~torn /\ \A q \in others : ~Relies(q)
    BY <1>1, <1>6
  <2>2. \A q \in Threads : Undisturbed(q)'
    BY <1>t, <2>1 DEF Undisturbed, Relies, kbTypeOK
  <2>3. kbInv'
    BY <1>4, <2>2 DEF kbInv
  <2>4. IsRing(Size, Chars, kb_head, kb_tail, kb_buffer) /\ kb_head # kb_tail
        /\ kb_tail' = Wrap(Size, kb_tail + 1) /\ Buffered # << >>
    BY <1>t, <1>1, <2>1, KeyRing, NextIndex DEF kbTypeOK
  <2>5. /\ Head(Contents(Size, kb_head, kb_tail, kb_buffer)) = kb_buffer[kb_tail]
        /\ Contents(Size, kb_head, Wrap(Size, kb_tail + 1), kb_buffer)
             = Tail(Contents(Size, kb_head, kb_tail, kb_buffer))
    BY <2>4, RingTake
  <2>7. Buffered # << >> /\ last' = Head(Buffered) /\ Buffered' = Tail(Buffered)
    BY <1>1, <2>1, <2>4, <2>5 DEF Buffered
  <2>8. torn' = torn
    BY <1>6, <2>1, <1>t, <1>4 DEF kbTypeOK
  <2> QED
    BY <2>3, <2>7, <2>8 DEF Queue!Next, Queue!Take
<1> QED
  BY <1>5, <1>6


(* Every step keeps the invariant and is a step of the queue or none.      *)
LEMMA KeyboardStep ==
  ASSUME kbInv, [kbNext]_kbVars
  PROVE  kbInv' /\ [Queue!Next]_Queue!vars
<1>t. kbTypeOK
  BY DEF kbInv
<1>1. CASE \E k \in Keys, released \in BOOLEAN : KeyEvent(k, released)
  <2>1. /\ UNCHANGED <<modifiers, extended_pending, readers, last, parity, torn>>
        /\ UNCHANGED <<ring, last, parity, torn>>
    BY <1>1 DEF KeyEvent
  <2> QED
    BY <2>1, Stutter DEF kbInv, kbTypeOK, Undisturbed, readers
<1>2. CASE keyboard_irq_handler
  BY <1>2, IrqStep
<1>3. ASSUME NEW r \in Threads, GetcharStep(r) PROVE kbInv' /\ [Queue!Next]_Queue!vars
  BY <1>3, GetcharStepInv
<1>4. ASSUME NEW r \in Threads, Advance(r) PROVE kbInv' /\ [Queue!Next]_Queue!vars
  <2>1. char[r] \in Chars /\ Threads \ {r} \in SUBSET Threads /\ Nul \in Chars
    BY <1>t DEF kbTypeOK, Chars
  <2>2. /\ at' \in [Threads -> {"out", "cmp", "load", "advance"}]
        /\ char' \in [Threads -> Chars]
        /\ \A q \in Threads \ {r} : at'[q] = at[q]
        /\ \A q \in Threads \ (Threads \ {r}) : at'[q] = "out"
    BY <1>4, <1>t, <2>1 DEF Advance, kbTypeOK
  <2>3. ~torn => kb_head # kb_tail /\ char[r] = kb_buffer[kb_tail]
    BY <1>4 DEF kbInv, Undisturbed, Advance
  <2>4. /\ Return(char[r], Threads \ {r})
        /\ UNCHANGED <<modifiers, extended_pending, kb_buffer, kb_head, seen, parity>>
    BY <1>4 DEF Advance
  <2> QED
    BY <2>1, <2>2, <2>3, <2>4, ReturnStep
<1>5. CASE SysGetchar
  <2>1. kb_buffer[kb_tail] \in Chars /\ Threads \in SUBSET Threads
    BY <1>t DEF kbTypeOK
  <2>2. /\ Return(kb_buffer[kb_tail], Threads) /\ kb_head # kb_tail
        /\ UNCHANGED <<modifiers, extended_pending, kb_buffer, kb_head, seen, parity>>
        /\ UNCHANGED <<at, char>>
    BY <1>5 DEF SysGetchar, readers
  <2>3. /\ at' \in [Threads -> {"out", "cmp", "load", "advance"}]
        /\ char' \in [Threads -> Chars]
    BY <1>t, <2>2 DEF kbTypeOK
  <2> QED
    BY <2>1, <2>2, <2>3, ReturnStep
<1>6. CASE UNCHANGED kbVars
  <2>1. /\ UNCHANGED <<modifiers, extended_pending, readers, last, parity, torn>>
        /\ UNCHANGED <<ring, last, parity, torn>>
    BY <1>6 DEF kbVars
  <2> QED
    BY <2>1, Stutter DEF kbInv, kbTypeOK, Undisturbed, readers
<1> QED
  BY <1>1, <1>2, <1>3, <1>4, <1>5, <1>6 DEF kbNext

(* The indices stay inside the ring, whoever reads it and however the      *)
(* reads and IRQ1 interleave (keyboard.c:54-60, 166-177).                  *)
THEOREM KeyboardTypes == kbSpec => []kbTypeOK
<1>1. kbInv => kbTypeOK
  BY DEF kbInv
<1> QED
  BY <1>1, InitInv, KeyboardStep, PTL DEF kbSpec

(* The keyboard ring is a first-in first-out queue of KB_BUFFER_SIZE - 1   *)
(* characters that drops only what finds it full, for every buffer size    *)
(* and any number of readers, as long as no two of them overlap            *)
(* (keyboard.c:54-60, 166-177).                                            *)
THEOREM KeyboardIsQueue == kbSpec => ImplementsQueue
<1>1. kbInit => Queue!Init
  <2> SUFFICES ASSUME kbInit PROVE Queue!Init
    OBVIOUS
  <2>1. kbTypeOK /\ kb_head = kb_tail /\ last \in Chars /\ parity = 0 /\ torn = FALSE
    BY InitInv DEF kbInv, kbInit, Chars
  <2>3. Buffered = << >>
    BY <2>1, KeyRing
  <2> QED
    BY <2>1, <2>3 DEF Queue!Init
<1>2. kbInv /\ [kbNext]_kbVars => [Queue!Next]_Queue!vars
  BY KeyboardStep
<1>3. kbInv /\ [kbNext]_kbVars => kbInv'
  BY KeyboardStep
<1> QED
  BY <1>1, <1>2, <1>3, InitInv, PTL DEF kbSpec, ImplementsQueue, Queue!Spec


(* The modifiers say which of the keys in s are down.                      *)
Follow(s) == (modifiers \ {"caps"}) \ s = (held \cap HeldKeys) \ s

(* Where IRQ1 can be in what the keyboard sent: it has read everything, or *)
(* nothing of one key event, or the prefix of an extended one.  Until it   *)
(* has read the byte of a key, that key may differ.                        *)
AllRead == port = << >> /\ extended_pending = FALSE /\ Follow({})
NothingRead(k, rel) ==
  /\ port = Codes(k, rel) /\ extended_pending = FALSE
  /\ IF rel THEN k \notin held ELSE k \in held
  /\ Follow({k})
PrefixRead(rel) ==
  /\ port = <<[key |-> "ctrl", released |-> rel]>>
  /\ extended_pending = TRUE /\ Follow({})

modInv ==
  \/ AllRead
  \/ \E k \in Keys, rel \in BOOLEAN : NothingRead(k, rel)
  \/ \E rel \in BOOLEAN : PrefixRead(rel)

LEMMA ModifierStep ==
  ASSUME kbInv, modInv, [kbNext]_kbVars
  PROVE  modInv'
<1>m. modifiers \subseteq HeldKeys \cup {"caps"}
  BY DEF kbInv, kbTypeOK
<1>1. ASSUME NEW k \in Keys, NEW rel \in BOOLEAN, KeyEvent(k, rel) PROVE modInv'
  <2>1. port = << >> /\ Codes(k, rel) # << >>
    BY <1>1 DEF KeyEvent, Codes
  <2>2. AllRead
    <3>1. \A q \in Keys, x \in BOOLEAN : Codes(q, x) # << >>
      BY DEF Codes
    <3> QED
      BY <2>1, <3>1 DEF modInv, NothingRead, PrefixRead
  <2>3. /\ port' = Codes(k, rel) /\ modifiers' = modifiers /\ extended_pending' = extended_pending
        /\ held' = IF rel THEN held \ {k} ELSE held \cup {k}
    BY <1>1 DEF KeyEvent
  <2>4. NothingRead(k, rel)'
    BY <2>2, <2>3 DEF NothingRead, AllRead, Follow
  <2> QED
    BY <2>4 DEF modInv
<1>2. CASE keyboard_irq_handler
  <2> DEFINE b == Head(port)
  <2>1. /\ port # << >> /\ port' = Tail(port) /\ held' = held
        /\ extended_pending' = (b = E0)
        /\ modifiers' = IF b = E0 \/ extended_pending THEN modifiers ELSE NewModifiers(b)
    BY <1>2 DEF keyboard_irq_handler, Skipped
  <2>2. ~AllRead
    BY <2>1 DEF AllRead
  <2>3. ASSUME NEW rel \in BOOLEAN, PrefixRead(rel) PROVE modInv'
    <3>1. b = [key |-> "ctrl", released |-> rel] /\ port' = << >> /\ extended_pending = TRUE
      BY <2>1, <2>3 DEF PrefixRead
    <3>2. b # E0
      BY <3>1 DEF E0
    <3> HIDE DEF b
    <3>3. AllRead'
      BY <2>1, <2>3, <3>1, <3>2 DEF AllRead, PrefixRead, Follow
    <3> QED
      BY <3>3 DEF modInv
  <2>4. ASSUME NEW k \in Keys, NEW rel \in BOOLEAN, NothingRead(k, rel), k = "rctrl"
        PROVE  modInv'
    <3>1. port = <<E0, [key |-> "ctrl", released |-> rel]>>
      BY <2>4 DEF NothingRead, Codes
    <3>2. b = E0 /\ port' = <<[key |-> "ctrl", released |-> rel]>>
      BY <2>1, <3>1
    <3> HIDE DEF b
    <3>3. Follow({}) /\ modifiers' = modifiers /\ extended_pending' = TRUE
      BY <1>m, <2>1, <2>4, <3>2 DEF NothingRead, Follow, HeldKeys
    <3>4. PrefixRead(rel)'
      BY <2>1, <3>2, <3>3 DEF PrefixRead, Follow
    <3> QED
      BY <3>4 DEF modInv
  <2>5. ASSUME NEW k \in Keys, NEW rel \in BOOLEAN, NothingRead(k, rel), k # "rctrl"
        PROVE  modInv'
    <3>1. port = <<[key |-> k, released |-> rel]>>
      BY <2>5 DEF NothingRead, Codes
    <3>2. b = [key |-> k, released |-> rel] /\ port' = << >>
      BY <2>1, <3>1
    <3>3. b # E0 /\ b.key = k /\ b.released = rel
      BY <3>2, KeysAssumption DEF E0
    <3> HIDE DEF b
    <3>4. modifiers' = NewModifiers(b) /\ extended_pending' = FALSE
      BY <2>1, <2>5, <3>3 DEF NothingRead
    <3>5. Follow({})'
      <4>1. /\ Follow({k}) /\ held' = held
            /\ IF rel THEN k \notin held ELSE k \in held
        BY <2>1, <2>5 DEF NothingRead
      <4>2. CASE k \in HeldKeys
        <5>1. k # "caps"
          BY <4>2 DEF HeldKeys
        <5>2. modifiers' = IF rel THEN modifiers \ {k} ELSE modifiers \cup {k}
          BY <3>3, <3>4, <4>2 DEF NewModifiers
        <5> QED
          BY <4>1, <4>2, <5>1, <5>2 DEF Follow
      <4>3. CASE k \notin HeldKeys
        <5>1. modifiers' \ {"caps"} = modifiers \ {"caps"}
          BY <3>3, <3>4, <4>3 DEF NewModifiers
        <5>2. k \notin modifiers \ {"caps"}
          BY <1>m, <4>3
        <5> QED
          BY <4>1, <4>3, <5>1, <5>2 DEF Follow
      <4> QED
        BY <4>2, <4>3
    <3>6. AllRead'
      BY <3>2, <3>4, <3>5 DEF AllRead
    <3> QED
      BY <3>6 DEF modInv
  <2> QED
    BY <2>2, <2>3, <2>4, <2>5 DEF modInv
<1>3. ASSUME UNCHANGED <<modifiers, extended_pending, port, held>> PROVE modInv'
  BY <1>3 DEF modInv, AllRead, NothingRead, PrefixRead, Follow
<1>4. ASSUME NEW r \in Threads, GetcharStep(r) \/ Advance(r) PROVE modInv'
  BY <1>3, <1>4 DEF GetcharStep, ReadHead, Compare, Load, Advance, device
<1>5. CASE SysGetchar
  BY <1>3, <1>5 DEF SysGetchar, device
<1>6. CASE UNCHANGED kbVars
  BY <1>3, <1>6 DEF kbVars, device
<1> QED
  BY <1>1, <1>2, <1>4, <1>5, <1>6 DEF kbNext

(* Once IRQ1 has read everything the keyboard sent, the modifiers are the  *)
(* keys that are down, and no extended key is taken for one of them,       *)
(* whichever keys there are (keyboard.c:80-120).                           *)
THEOREM ModifiersAreHeld == kbSpec => []ModifiersFollowKeys
<1>1. kbInit => modInv
  BY DEF kbInit, modInv, AllRead, Follow
<1>2. modInv => ModifiersFollowKeys
  <2> SUFFICES ASSUME modInv, port = << >> PROVE modifiers \ {"caps"} = held \cap HeldKeys
    BY DEF ModifiersFollowKeys
  <2>1. \A q \in Keys, x \in BOOLEAN : Codes(q, x) # << >>
    BY DEF Codes
  <2>2. AllRead
    BY <2>1 DEF modInv, NothingRead, PrefixRead
  <2> QED
    BY <2>2 DEF AllRead, Follow
<1> QED
  BY <1>1, <1>2, InitInv, KeyboardStep, ModifierStep, PTL DEF kbSpec

----------------------------------------------------------------------------

LEMMA ShellIsThread == Shell \in Threads
  BY ShellAssumption DEF Shell

(* A step of the terminal is one of the keyboard driver or leaves it       *)
(* alone.                                                                  *)
LEMMA KeyboardPart ==
  ASSUME [Next]_vars
  PROVE  [kbNext]_kbVars
<1>1. CASE Press
  BY <1>1 DEF Press, kbNext
<1>2. CASE Irq1
  BY <1>2 DEF Irq1, kbNext
<1>3. CASE ShellStep
  BY <1>3, ShellIsThread DEF ShellStep, ShellGetchar, shell_readline, shell_execute,
     PutChar, PutWrap, PutScroll, kbNext
<1>4. CASE SysReadWait \/ sys_write
  BY <1>4 DEF SysReadWait, sys_write
<1>5. CASE sys_read
  BY <1>5 DEF sys_read, kbNext
<1>6. CASE UNCHANGED vars
  BY <1>6 DEF vars
<1> QED
  BY <1>1, <1>2, <1>3, <1>4, <1>5, <1>6 DEF Next

(* The shell and the system calls use the keyboard driver only through its *)
(* operations, so whatever they do the ring stays a queue for readers that *)
(* do not overlap (shell.c:462-490; syscall.c:61-69).                      *)
THEOREM TerminalQueue == Spec => ImplementsQueue
<1>1. Init => kbInit
  BY DEF Init
<1>2. Spec => kbSpec
  BY <1>1, KeyboardPart, PTL DEF Spec, kbSpec
<1> QED
  BY <1>2, KeyboardIsQueue, PTL

(* The terminal keeps the modifiers in step with the keys, as the driver   *)
(* alone does (keyboard.c:80-120).                                         *)
THEOREM TerminalModifiers == Spec => []ModifiersFollowKeys
<1>1. Init => kbInit
  BY DEF Init
<1>2. Spec => kbSpec
  BY <1>1, KeyboardPart, PTL DEF Spec, kbSpec
<1> QED
  BY <1>2, ModifiersAreHeld, PTL

----------------------------------------------------------------------------

(* What the shell prints: never a tab.                                     *)
Output == Chars \cup {"prompt", "text", "sp"}

(* The write position between the steps of vga_putchar: past the end of a  *)
(* line before the wrap, at the start of the line below the screen before  *)
(* the scroll, never both.                                                 *)
Position ==
  /\ cursor \in [x : 0 .. Width, y : 0 .. Height]
  /\ cursor.x = Width => putting = "wrap" /\ cursor.y < Height
  /\ cursor.y = Height => putting \in {"wrap", "scroll"} /\ cursor.x = 0

termInv ==
  /\ TypeOK
  /\ out \in Seq(Output) /\ (putting # "char" => out # << >>)
  /\ Position

(* A whole vga_putchar ends on the screen, from wherever another one was   *)
(* interrupted.                                                            *)
LEMMA PutOnScreen ==
  ASSUME NEW p \in [x : 0 .. Width, y : 0 .. Height], NEW c
  PROVE  Put(p, c) \in [x : 0 .. Width - 1, y : 0 .. Height - 1]
<1>0. Width \in Nat \ {0} /\ Height \in Nat \ {0} /\ TabStop \in Nat \ {0}
  BY ScreenAssumption
<1>1. Written(p, c) \in [x : Nat, y : Nat]
  <2>1. ((p.x + TabStop) \div TabStop) * TabStop \in Nat
    <3>1. p.x + TabStop \in Nat
      BY <1>0
    <3>2. (p.x + TabStop) \div TabStop \in Nat
      BY <1>0, <3>1
    <3> QED
      BY <1>0, <3>2
  <2>2. CASE c = "tab"
    BY <1>0, <2>1, <2>2 DEF Written
  <2>3. CASE c # "tab"
    BY <1>0, <2>3 DEF Written
  <2> QED
    BY <2>2, <2>3
<1>2. \A q \in [x : Nat, y : Nat] : Wrapped(q) \in [x : 0 .. Width - 1, y : Nat]
  BY <1>0 DEF Wrapped
<1>3. \A q \in [x : 0 .. Width - 1, y : Nat] :
        Scrolled(q) \in [x : 0 .. Width - 1, y : 0 .. Height - 1]
  BY <1>0 DEF Scrolled
<1> QED
  BY <1>1, <1>2, <1>3 DEF Put


LEMMA TermInit == Init => termInv
<1> SUFFICES ASSUME Init PROVE termInv
  OBVIOUS
<1>1. kbTypeOK
  BY InitInv DEF Init, kbInv
<1>2. TypeOK
  BY <1>1, ShellAssumption DEF Init, TypeOK
<1>3. out \in Seq(Output) /\ putting = "char"
  BY DEF Init, Prompt, Output
<1>4. Position
  BY ScreenAssumption DEF Init, Position, Home
<1> QED
  BY <1>2, <1>3, <1>4 DEF termInv

(* A step that leaves the position and putting alone.                      *)
LEMMA SamePosition ==
  ASSUME Position, UNCHANGED <<cursor, putting>>
  PROVE  Position'
  BY DEF Position

LEMMA ReadlineStep ==
  ASSUME termInv, kbTypeOK', shell_readline
  PROVE  termInv'
<1>1. char[Shell] \in Chars
  BY ShellIsThread DEF termInv, TypeOK, kbTypeOK
<1>2. /\ line_len' \in 0 .. LineMax - 1
      /\ mode' \in {"read", "execute"}
      /\ out' \in Seq(Output)
  <2>1. line_len \in 0 .. LineMax - 1 /\ mode \in {"read", "execute"} /\ out \in Seq(Output)
    BY DEF termInv, TypeOK
  <2>2. CASE line_len' = line_len /\ UNCHANGED <<mode, out>>
    BY <2>1, <2>2
  <2>3. CASE line_len' = line_len /\ out' = <<"nl">> /\ mode' = "execute"
    BY <2>1, <2>3 DEF Output, Chars
  <2>4. CASE line_len > 0 /\ line_len' = line_len - 1 /\ out' = <<"bs", "sp", "bs">> /\ mode' = mode
    BY <2>1, <2>4, ShellAssumption DEF Output, Chars
  <2>5. CASE RoomFor(char[Shell]) /\ line_len' = line_len + 1 /\ out' = <<char[Shell]>> /\ mode' = mode
    BY <1>1, <2>1, <2>5, ShellAssumption DEF Output, RoomFor
  <2> QED
    BY <2>2, <2>3, <2>4, <2>5 DEF shell_readline
<1>3. UNCHANGED <<cursor, putting, user>> /\ putting = "char"
  BY DEF shell_readline, termInv, TypeOK
<1>4. TypeOK'
  BY <1>2, <1>3 DEF termInv, TypeOK
<1> QED
  BY <1>2, <1>3, <1>4, SamePosition DEF termInv

(* Each step of vga_putchar.                                               *)
LEMMA PutStep ==
  ASSUME termInv, kbTypeOK', PutChar \/ PutWrap \/ PutScroll
  PROVE  termInv'
<1>0. Width \in Nat \ {0} /\ Height \in Nat \ {0}
  BY ScreenAssumption
<1>1. out \in Seq(Output) /\ Position
  BY DEF termInv
<1>2. putting' \in {"char", "wrap", "scroll"} /\ UNCHANGED <<mode, line_len, user>>
  BY DEF PutChar, PutWrap, PutScroll
<1>3. TypeOK'
  BY <1>2 DEF termInv, TypeOK
<1>4. CASE PutChar
  <2>1. Head(out) \in Output
    BY <1>1, <1>4 DEF PutChar
  <2>2. Head(out) \notin {"tab", "cr"}
    BY <2>1 DEF Output, Chars, Nul
  <2>3. /\ cursor \in [x : 0 .. Width, y : 0 .. Height]
        /\ cursor.x < Width /\ cursor.y < Height
    BY <1>0, <1>1, <1>4 DEF PutChar, Position
  <2>4. cursor' = Written(cursor, Head(out)) /\ putting' = "wrap" /\ out' = out /\ out # << >>
    BY <1>4 DEF PutChar
  <2>5. Position'
    <3>1. CASE Head(out) = "nl"
      BY <1>0, <2>3, <2>4, <3>1 DEF Position, Written
    <3>2. CASE Head(out) = "bs"
      BY <1>0, <2>3, <2>4, <3>2 DEF Position, Written
    <3>3. CASE Head(out) \notin {"nl", "bs"}
      BY <1>0, <2>2, <2>3, <2>4, <3>3 DEF Position, Written
    <3> QED
      BY <3>1, <3>2, <3>3
  <2> QED
    BY <1>1, <1>3, <2>4, <2>5 DEF termInv
<1>5. CASE PutWrap
  <2>1. /\ cursor' = Wrapped(cursor) /\ putting = "wrap" /\ putting' = "scroll"
        /\ out' = out /\ out # << >>
    BY <1>5 DEF PutWrap, termInv
  <2>2. Position'
    BY <1>0, <1>1, <2>1 DEF Position, Wrapped
  <2> QED
    BY <1>1, <1>3, <2>1, <2>2 DEF termInv
<1>6. CASE PutScroll
  <2>1. cursor' = Scrolled(cursor) /\ putting = "scroll" /\ putting' = "char" /\ out' = Tail(out)
    BY <1>6 DEF PutScroll
  <2>2. Position'
    BY <1>0, <1>1, <2>1 DEF Position, Scrolled
  <2>3. Tail(out) \in Seq(Output)
    BY <1>1, <2>1 DEF termInv
  <2> QED
    BY <1>3, <2>1, <2>2, <2>3 DEF termInv
<1> QED
  BY <1>4, <1>5, <1>6

LEMMA TermStep ==
  ASSUME termInv, kbInv, [Next]_vars
  PROVE  termInv' /\ kbInv'
<1>k. kbInv'
  BY KeyboardPart, KeyboardStep
<1>t. kbTypeOK'
  BY <1>k DEF kbInv
<1>0. Width \in Nat \ {0} /\ Height \in Nat \ {0}
  BY ScreenAssumption
<1>1. ASSUME UNCHANGED <<cursor, shellVars>>, user' \in {"ring3", "waiting"} PROVE termInv'
  BY <1>1, <1>t, SamePosition DEF termInv, TypeOK, shellVars
<1>2. CASE Press \/ Irq1 \/ ShellGetchar \/ SysReadWait \/ sys_read \/ UNCHANGED vars
  BY <1>k, <1>1, <1>2 DEF Press, Irq1, ShellGetchar, SysReadWait, sys_read, vars, termInv, TypeOK
<1>3. CASE shell_readline
  BY <1>3, <1>k, <1>t, ReadlineStep
<1>4. CASE shell_execute
  <2>1. /\ mode' = "read" /\ line_len' = 0 /\ UNCHANGED <<putting, user>> /\ putting = "char"
        /\ out' = Prompt \/ out' = <<"text">> \o Prompt
        /\ cursor' = cursor \/ cursor' = Home
    BY <1>4 DEF shell_execute, termInv, TypeOK
  <2>2. out' \in Seq(Output)
    <3>1. <<"text">> \in Seq(Output) /\ Prompt \in Seq(Output)
      BY DEF Prompt, Output
    <3>2. <<"text">> \o Prompt \in Seq(Output)
      BY <3>1
    <3> QED
      BY <2>1, <3>1, <3>2
  <2>3. Position'
    BY <1>0, <2>1 DEF termInv, Position, Home
  <2>4. TypeOK'
    BY <1>t, <2>1, ShellAssumption DEF termInv, TypeOK
  <2> QED
    BY <1>k, <2>1, <2>2, <2>3, <2>4 DEF termInv
<1>5. CASE PutChar \/ PutWrap \/ PutScroll
  BY <1>5, <1>k, <1>t, PutStep
<1>6. CASE sys_write
  <2>1. PICK c : cursor' = Put(cursor, c) /\ UNCHANGED <<shellVars, user>>
    BY <1>6 DEF sys_write
  <2>2. cursor \in [x : 0 .. Width, y : 0 .. Height]
    BY DEF termInv, Position
  <2>3. cursor' \in [x : 0 .. Width - 1, y : 0 .. Height - 1]
    BY <2>1, <2>2, PutOnScreen
  <2>4. Position'
    BY <1>0, <2>3 DEF Position
  <2>5. TypeOK'
    BY <1>t, <2>1 DEF termInv, TypeOK, shellVars
  <2> QED
    BY <1>k, <2>1, <2>4, <2>5 DEF termInv, shellVars
<1> QED
  BY <1>k, <1>2, <1>3, <1>4, <1>5, <1>6 DEF Next, ShellStep

(* The variables stay in their ranges: no line outgrows its buffer         *)
(* (shell.c:476, 489) and no index leaves the keyboard ring.               *)
THEOREM TerminalTypes == Spec => []TypeOK
<1>1. Init => termInv /\ kbInv
  BY TermInit, InitInv DEF Init
<1>2. termInv => TypeOK
  BY DEF termInv
<1> QED
  BY <1>1, <1>2, TermStep, PTL DEF Spec

(* Between two characters of the shell the write position is on the        *)
(* screen, on every screen whose width is a number of tab stops, although  *)
(* the shell is preempted inside vga_putchar (vga.c:89-120).               *)
THEOREM CursorOnScreen == Spec => []CursorHeals
<1>1. Init => termInv /\ kbInv
  BY TermInit, InitInv DEF Init
<1>2. termInv => CursorHeals
  BY ScreenAssumption DEF termInv, Position, CursorHeals, OnScreen
<1> QED
  BY <1>1, <1>2, TermStep, PTL DEF Spec

(* A preempted vga_putchar lets another one store at most one cell behind  *)
(* the screen (vga.c:103-104).                                             *)
THEOREM StoresAtMostOnePast == Spec => []StoresOnScreen
<1>1. Init => termInv /\ kbInv
  BY TermInit, InitInv DEF Init
<1>2. termInv => StoresOnScreen
  <2> SUFFICES ASSUME termInv PROVE StoresOnScreen
    OBVIOUS
  <2>0. Width \in Nat \ {0} /\ Height \in Nat \ {0}
    BY ScreenAssumption
  <2>1. /\ cursor.x \in 0 .. Width /\ cursor.y \in 0 .. Height
        /\ cursor.x = Width => putting # "char" /\ cursor.y < Height
        /\ cursor.y = Height => putting # "char" /\ cursor.x = 0
    BY DEF termInv, Position
  <2>2. CASE cursor.y = Height
    <3>1. Cell(cursor) = Height * Width
      BY <2>0, <2>1, <2>2 DEF Cell
    <3> QED
      BY <2>0, <2>1, <2>2, <3>1 DEF StoresOnScreen
  <2>3. CASE cursor.y < Height
    <3>0. Height - cursor.y - 1 \in Nat /\ Height = cursor.y + 1 + (Height - cursor.y - 1)
      BY <2>0, <2>1, <2>3
    <3>1. PICK d \in Nat : Height = cursor.y + 1 + d
      BY <3>0
    <3>2. Width * Height = cursor.y * Width + Width + d * Width /\ d * Width \in Nat
      BY <2>0, <2>1, <3>1
    <3>3. cursor.y * Width \in Nat
      BY <2>0, <2>1
    <3>4. PICK e \in Nat, f \in Nat : e = cursor.y * Width /\ f = d * Width
      BY <3>2, <3>3
    <3>5. Cell(cursor) = e + cursor.x /\ Width * Height = e + Width + f
      BY <3>2, <3>4 DEF Cell
    <3>6. CASE cursor.x = Width
      BY <2>0, <2>1, <3>4, <3>5, <3>6 DEF StoresOnScreen
    <3>7. CASE cursor.x < Width
      <4>1. Cell(cursor) < Width * Height
        BY <2>0, <2>1, <3>4, <3>5, <3>7
      <4> QED
        BY <2>0, <2>1, <3>4, <3>5, <4>1 DEF StoresOnScreen
    <3> QED
      BY <2>0, <2>1, <3>6, <3>7
  <2> QED
    BY <2>0, <2>1, <2>2, <2>3
<1> QED
  BY <1>1, <1>2, TermStep, PTL DEF Spec

=============================================================================
