----------------------------- MODULE NetProofs ------------------------------
(* The network card's rings for every size and any frames.                 *)
EXTENDS Net, TLAPS

(* The slots around another one: what the remainder of the code yields.    *)
LEMMA NextSlot ==
  ASSUME NEW N \in Nat \ {0}, NEW a \in 0 .. N - 1
  PROVE  /\ (a + 1) % N \in 0 .. N - 1 /\ (a + 1) % N = Wrap(N, a + 1)
         /\ (a + 1) % N = IF a = N - 1 THEN 0 ELSE a + 1
<1>1. PICK q \in Int, r \in 0 .. N - 1 : a + 1 = N * q + r /\ r = (a + 1) % N
  OBVIOUS
<1>2. q >= 2 => N * q >= 2 * N
  OBVIOUS
<1>3. q < 0 => N * q <= -N
  OBVIOUS
<1>4. q \in {0, 1}
  BY <1>1, <1>2, <1>3
<1>5. CASE q = 0
  BY <1>1, <1>5 DEF Wrap
<1>6. CASE q = 1
  BY <1>1, <1>6 DEF Wrap
<1> QED
  BY <1>4, <1>5, <1>6

LEMMA SlotBefore ==
  ASSUME NEW N \in Nat \ {0}, NEW a \in 0 .. N - 1
  PROVE  (a - 1) % N \in 0 .. N - 1 /\ (a - 1) % N = IF a = 0 THEN N - 1 ELSE a - 1
<1>1. PICK q \in Int, r \in 0 .. N - 1 : a - 1 = N * q + r /\ r = (a - 1) % N
  <2>1. PICK d \in Int : d = a - 1
    OBVIOUS
  <2>2. d = N * (d \div N) + (d % N) /\ d % N \in 0 .. N - 1 /\ d \div N \in Int
    OBVIOUS
  <2> QED
    BY ZenonT(30), <2>1, <2>2
<1>2. q <= -2 => N * q <= -(2 * N)
  OBVIOUS
<1>3. q > 0 => N * q >= N
  OBVIOUS
<1>4. q \in {0, -1}
  BY <1>1, <1>2, <1>3
<1>5. CASE q = 0
  BY <1>1, <1>5
<1>6. CASE q = -1
  BY <1>1, <1>6
<1> QED
  BY <1>4, <1>5, <1>6

(* A ring of N slots with items of S.                                      *)
IsRing(N, S, h, t, b) ==
  N \in Nat \ {0} /\ b \in [0 .. N - 1 -> S] /\ h \in 0 .. N - 1 /\ t \in 0 .. N - 1

(* What a ring holds: at most N - 1 items, nothing when the indices are    *)
(* equal, N - 1 when the next slot to write to is the next to read from.   *)
LEMMA RingType ==
  ASSUME NEW N, NEW S, NEW h, NEW t, NEW b, IsRing(N, S, h, t, b)
  PROVE  /\ Held(N, h, t) \in 0 .. N - 1 /\ (Held(N, h, t) = 0 <=> h = t)
         /\ Held(N, h, t) = N - 1 <=> Wrap(N, h + 1) = t
         /\ \A i \in 1 .. N : Wrap(N, t + i - 1) \in 0 .. N - 1
         /\ Contents(N, h, t, b) \in Seq(S)
         /\ Len(Contents(N, h, t, b)) = Held(N, h, t)
         /\ Contents(N, h, t, b) = << >> <=> h = t
<1>1. N \in Nat \ {0} /\ b \in [0 .. N - 1 -> S] /\ h \in 0 .. N - 1 /\ t \in 0 .. N - 1
  BY DEF IsRing
<1>2. /\ Held(N, h, t) \in 0 .. N - 1 /\ (Held(N, h, t) = 0 <=> h = t)
      /\ Held(N, h, t) = N - 1 <=> Wrap(N, h + 1) = t
      /\ \A i \in 1 .. N : Wrap(N, t + i - 1) \in 0 .. N - 1
  BY <1>1 DEF Held, Wrap
<1>3. Contents(N, h, t, b) \in Seq(S) /\ Len(Contents(N, h, t, b)) = Held(N, h, t)
  <2>1. PICK n \in 0 .. N - 1 : n = Held(N, h, t)
    BY <1>2
  <2>2. \A i \in 1 .. n : i \in 1 .. N
    BY <1>1
  <2>3. \A i \in 1 .. n : b[Wrap(N, t + i - 1)] \in S
    BY <1>1, <1>2, <2>2, Zenon
  <2>4. Contents(N, h, t, b) \in [1 .. n -> S]
    BY <2>1, <2>3, Zenon DEF Contents
  <2> QED
    BY <2>1, <2>4
<1>4. Contents(N, h, t, b) = << >> <=> Len(Contents(N, h, t, b)) = 0
  BY <1>3
<1> QED
  BY <1>2, <1>3, <1>4

(* c is put at h of a ring that is not full: bb are the slots after it.    *)
IsPut(N, S, h, t, b, c, bb) ==
  IsRing(N, S, h, t, b) /\ c \in S /\ Wrap(N, h + 1) # t /\ bb = [b EXCEPT ![h] = c]

(* A put into a ring that is not full adds one item at the end.            *)
LEMMA RingPut ==
  ASSUME NEW N, NEW S, NEW h, NEW t, NEW b, NEW c, NEW bb, IsPut(N, S, h, t, b, c, bb)
  PROVE  Contents(N, Wrap(N, h + 1), t, bb) = Append(Contents(N, h, t, b), c)
<1>1. /\ N \in Nat \ {0} /\ b \in [0 .. N - 1 -> S] /\ h \in 0 .. N - 1 /\ t \in 0 .. N - 1
      /\ c \in S /\ Wrap(N, h + 1) # t /\ bb = [b EXCEPT ![h] = c]
  BY DEF IsPut, IsRing
<1> DEFINE n == Held(N, h, t)
           before == Contents(N, h, t, b)
           after == Contents(N, Wrap(N, h + 1), t, bb)
<1>2. /\ n \in 0 .. N - 1 /\ Held(N, Wrap(N, h + 1), t) = n + 1
      /\ \A i \in 1 .. n : Wrap(N, t + i - 1) # h /\ Wrap(N, t + i - 1) \in 0 .. N - 1
      /\ Wrap(N, t + (n + 1) - 1) = h
  BY <1>1 DEF Held, Wrap
<1>3. before \in Seq(S) /\ Len(before) = n
  BY RingType DEF IsPut
<1>4. IsRing(N, S, Wrap(N, h + 1), t, bb)
  BY <1>1 DEF IsRing, Wrap
<1>5. after \in Seq(S) /\ Len(after) = n + 1
  BY <1>2, <1>4, RingType
<1>6. \A i \in 1 .. n : before[i] = b[Wrap(N, t + i - 1)]
  BY DEF Contents
<1>7. \A i \in 1 .. n + 1 : after[i] = bb[Wrap(N, t + i - 1)]
  BY <1>2 DEF Contents
<1> HIDE DEF n, before, after
<1>8. after[n + 1] = c
  BY <1>1, <1>2, <1>7
<1>9. \A i \in 1 .. n : after[i] = before[i]
  <2> SUFFICES ASSUME NEW i \in 1 .. n PROVE after[i] = before[i]
    OBVIOUS
  <2>1. i \in 1 .. n + 1
    BY <1>2
  <2>2. PICK k \in 0 .. N - 1 : k = Wrap(N, t + i - 1) /\ k # h
    BY <1>2
  <2>3. bb[k] = b[k]
    BY <1>1, <2>2
  <2> QED
    BY <1>6, <1>7, <2>1, <2>2, <2>3
<1>10. after = Append(before, c)
  <2>0. c \in S /\ n \in Nat
    BY <1>1, <1>2
  <2>1. /\ Append(before, c) \in Seq(S) /\ Len(Append(before, c)) = n + 1
        /\ \A i \in 1 .. n : Append(before, c)[i] = before[i]
        /\ Append(before, c)[n + 1] = c
    BY <1>3, <2>0
  <2>2. \A i \in 1 .. n + 1 : after[i] = Append(before, c)[i]
    BY <1>2, <1>8, <1>9, <2>1
  <2> QED
    BY <1>5, <2>1, <2>2
<1> QED
  BY <1>10 DEF before, after

(* A take from a ring that is not empty returns the first item and leaves  *)
(* the others.                                                             *)
LEMMA RingTake ==
  ASSUME NEW N, NEW S, NEW h, NEW t, NEW b, IsRing(N, S, h, t, b), h # t
  PROVE  /\ Head(Contents(N, h, t, b)) = b[t]
         /\ Contents(N, h, Wrap(N, t + 1), b) = Tail(Contents(N, h, t, b))
<1>1. N \in Nat \ {0} /\ b \in [0 .. N - 1 -> S] /\ h \in 0 .. N - 1 /\ t \in 0 .. N - 1
  BY DEF IsRing
<1> DEFINE n == Held(N, h, t)
           g == Wrap(N, t + 1)
           before == Contents(N, h, t, b)
           after == Contents(N, h, g, b)
<1>2. /\ n \in 1 .. N - 1 /\ Held(N, h, g) = n - 1
      /\ \A i \in 1 .. n - 1 : Wrap(N, g + i - 1) = Wrap(N, t + (i + 1) - 1)
      /\ Wrap(N, t + 1 - 1) = t
  BY <1>1 DEF Held, Wrap
<1>3. before \in Seq(S) /\ Len(before) = n
  BY RingType
<1>4. IsRing(N, S, h, g, b)
  BY <1>1 DEF IsRing, Wrap
<1>5. after \in Seq(S) /\ Len(after) = n - 1
  BY <1>2, <1>4, RingType
<1>6. \A i \in 1 .. n : before[i] = b[Wrap(N, t + i - 1)]
  BY DEF Contents
<1>7. \A i \in 1 .. n - 1 : after[i] = b[Wrap(N, g + i - 1)]
  BY <1>2 DEF Contents
<1> HIDE DEF n, g, before, after
<1>8. before[1] = b[t] /\ \A i \in 1 .. n - 1 : after[i] = before[i + 1]
  BY <1>2, <1>6, <1>7
<1>9. Head(before) = b[t] /\ after = Tail(before)
  BY <1>2, <1>3, <1>5, <1>8
<1> QED
  BY <1>9 DEF before, after, g

Slots == [i \in RxSlots |-> rx_descs[i].frame]
Filled == Frames \cup {Nothing}

(* The descriptors the card has filled and the driver has not released.    *)
Occupied(i) ==
  IF rx_cur <= RDH THEN rx_cur <= i /\ i < RDH ELSE rx_cur <= i \/ i < RDH

Before(i) == IF i = 0 THEN NumRx - 1 ELSE i - 1

rxTypeOK ==
  /\ rx_descs \in [RxSlots -> [dd : BOOLEAN, frame : Filled]]
  /\ rx_cur \in RxSlots /\ RDH \in RxSlots /\ RDT \in RxSlots
  /\ buf \in Filled /\ polled \in Filled
  /\ enabled \in BOOLEAN /\ parity \in {0, 1}

(* The card's tail is one behind the driver, the status of a descriptor    *)
(* says whether it is filled, and the frame the driver has copied is still *)
(* the oldest.                                                             *)
rxInv ==
  /\ rxTypeOK
  /\ at \in Running \cup {"net_init", "link"} => enabled
  /\ IF enabled THEN RDT = Before(rx_cur) ELSE rx_cur = 0 /\ RDH = 0
  /\ \A i \in RxSlots : rx_descs[i].dd <=> Occupied(i)
  /\ at = "release" => rx_cur # RDH /\ buf = rx_descs[rx_cur].frame

LEMMA RxInit == Init => rxInv /\ Rx!Init
<1> SUFFICES ASSUME Init PROVE rxInv /\ Rx!Init
  OBVIOUS
<1>0. NumRx \in Nat \ {0, 1} /\ 0 \in RxSlots
  BY RingAssumption DEF RxSlots
<1>1. /\ rx_descs = [i \in RxSlots |-> [dd |-> FALSE, frame |-> Nothing]]
      /\ rx_cur = 0 /\ RDH = 0 /\ RDT = 0 /\ enabled = FALSE /\ parity = 0
      /\ at = "mac1" /\ buf = Nothing /\ polled = Nothing
  BY DEF Init, e1000Init
<1>2. rxTypeOK
  BY ZenonT(30), <1>0, <1>1 DEF rxTypeOK, Filled
<1>3. rxInv
  BY <1>0, <1>1, <1>2 DEF rxInv, Occupied, Running, RxSlots
<1>4. IsRing(NumRx, Filled, RDH, rx_cur, Slots)
  BY <1>0, <1>1, <1>2 DEF IsRing, Slots, rxTypeOK, RxSlots, Filled
<1>5. Waiting = << >>
  BY <1>1, <1>4, RingType DEF Waiting, Slots
<1> QED
  BY <1>1, <1>3, <1>5 DEF Rx!Init

(* A step that leaves the receive ring and its reader alone.               *)
rxState == <<rx_descs, rx_cur, RDH, RDT, polled, parity>>

LEMMA RxUnchanged ==
  ASSUME UNCHANGED rxState
  PROVE  UNCHANGED Rx!vars /\ UNCHANGED <<rx_descs, rx_cur, RDH, RDT, polled, parity>>
  BY DEF rxState, Rx!vars, Waiting

LEMMA RxKept ==
  ASSUME rxInv, UNCHANGED rxState, UNCHANGED <<enabled, buf>>,
         at' \in Running \cup {"net_init", "link"} => enabled, at' = "release" => at = "release"
  PROVE  rxInv' /\ [Rx!Next]_Rx!vars
<1>1. UNCHANGED <<rx_descs, rx_cur, RDH, RDT, polled, parity>> /\ UNCHANGED Rx!vars
  BY RxUnchanged
<1>2. rxTypeOK'
  BY <1>1 DEF rxInv, rxTypeOK
<1> QED
  BY <1>1, <1>2 DEF rxInv, Occupied, Before


LEMMA RxRing ==
  ASSUME rxInv
  PROVE  /\ NumRx \in Nat \ {0, 1} /\ RxSlots = 0 .. NumRx - 1
         /\ rx_cur \in RxSlots /\ RDH \in RxSlots /\ RDT \in RxSlots
         /\ IsRing(NumRx, Filled, RDH, rx_cur, Slots)
         /\ Waiting = Contents(NumRx, RDH, rx_cur, Slots)
         /\ Waiting \in Seq(Filled) /\ Len(Waiting) \in 0 .. NumRx - 1
         /\ Len(Waiting) = NumRx - 1 <=> Wrap(NumRx, RDH + 1) = rx_cur
         /\ Waiting = << >> <=> RDH = rx_cur
<1>1. NumRx \in Nat \ {0, 1} /\ RxSlots = 0 .. NumRx - 1
  BY RingAssumption DEF RxSlots
<1>2. rx_cur \in RxSlots /\ RDH \in RxSlots /\ RDT \in RxSlots
  BY DEF rxInv, rxTypeOK
<1>3. Slots \in [RxSlots -> Filled]
  BY DEF rxInv, rxTypeOK, Slots
<1>4. IsRing(NumRx, Filled, RDH, rx_cur, Slots)
  BY <1>1, <1>2, <1>3 DEF IsRing
<1>5. Waiting = Contents(NumRx, RDH, rx_cur, Slots)
  BY DEF Waiting, Slots
<1>6. PICK n : /\ n = Held(NumRx, RDH, rx_cur) /\ n \in 0 .. NumRx - 1
               /\ n = NumRx - 1 <=> Wrap(NumRx, RDH + 1) = rx_cur
  BY <1>4, RingType
<1>7. Waiting \in Seq(Filled) /\ Len(Waiting) = n /\ (Waiting = << >> <=> RDH = rx_cur)
  BY <1>4, <1>5, <1>6, RingType
<1> QED
  BY <1>1, <1>2, <1>4, <1>5, <1>6, <1>7

(* The index behind i.                                                     *)
LEMMA RxNext ==
  ASSUME NEW i \in RxSlots
  PROVE  /\ (i + 1) % NumRx \in RxSlots /\ (i + 1) % NumRx = Wrap(NumRx, i + 1)
         /\ (i + 1) % NumRx = IF i = NumRx - 1 THEN 0 ELSE i + 1
<1>1. NumRx \in Nat \ {0} /\ RxSlots = 0 .. NumRx - 1
  BY RingAssumption DEF RxSlots
<1> QED
  BY ZenonT(30), <1>1, NextSlot

(* A frame that arrives joins the queue, or finds it full.                 *)
LEMMA ArriveRx ==
  ASSUME rxInv, NEW f \in Frames, Arrive(f)
  PROVE  rxInv' /\ [Rx!Next]_Rx!vars
<1>t. rxTypeOK
  BY DEF rxInv
<1>r. /\ NumRx \in Nat \ {0, 1} /\ RxSlots = 0 .. NumRx - 1
      /\ rx_cur \in RxSlots /\ RDH \in RxSlots /\ RDT \in RxSlots
  BY RxRing
<1>1. /\ enabled /\ parity' = 1 - parity
      /\ UNCHANGED <<rx_cur, RDT, enabled, at, buf, polled>>
  BY DEF Arrive, NicReceive, taskVars
<1>2. RDT = Before(rx_cur) /\ parity' \in {0, 1} /\ f \in Filled
  BY <1>1, <1>t DEF rxInv, rxTypeOK, Filled
<1>3. PICK g \in RxSlots : /\ g = (RDH + 1) % NumRx /\ g = Wrap(NumRx, RDH + 1)
                           /\ g = IF RDH = NumRx - 1 THEN 0 ELSE RDH + 1
  BY <1>r, RxNext
<1>4. CASE RDH = RDT
  <2>1. UNCHANGED <<rx_descs, RDH>>
    BY <1>4 DEF Arrive, NicReceive
  <2>2. rxTypeOK'
    BY <1>t, <1>1, <1>2, <2>1 DEF rxTypeOK
  <2>3. rxInv'
    BY <1>1, <2>1, <2>2 DEF rxInv, Occupied, Before
  <2>4. g = rx_cur
    BY <1>r, <1>2, <1>3, <1>4 DEF Before
  <2>5. Len(Waiting) = NumRx - 1
    BY <1>3, <2>4, RxRing
  <2>6. ~(Len(Waiting) < NumRx - 1)
    BY <1>r, <2>5
  <2>7. Waiting' = Waiting
    BY <1>1, <2>1 DEF Waiting
  <2>8. Rx!Arrive(f)
    BY <1>1, <2>6, <2>7 DEF Rx!Arrive
  <2> QED
    BY <1>2, <2>3, <2>8 DEF Rx!Next, Filled
<1>5. CASE RDH # RDT
  <2>1. /\ rx_descs' = [rx_descs EXCEPT ![RDH] = [dd |-> TRUE, frame |-> f]]
        /\ RDH' = g
    BY <1>3, <1>5 DEF Arrive, NicReceive
  <2>2. rxTypeOK'
    <3>1. rx_descs' \in [RxSlots -> [dd : BOOLEAN, frame : Filled]]
      BY <1>t, <1>2, <2>1 DEF rxTypeOK
    <3> QED
      BY <1>t, <1>1, <1>2, <1>3, <2>1, <3>1 DEF rxTypeOK
  <2>3. g # rx_cur
    BY <1>r, <1>2, <1>3, <1>5 DEF Before
  <2>4. \A i \in RxSlots : Occupied(i)' <=> (Occupied(i) \/ i = RDH)
    BY <1>r, <1>1, <1>3, <2>1, <2>3 DEF Occupied
  <2>5. \A i \in RxSlots : rx_descs'[i] = IF i = RDH THEN [dd |-> TRUE, frame |-> f] ELSE rx_descs[i]
    BY <1>t, <2>1 DEF rxTypeOK
  <2>6. \A i \in RxSlots : rx_descs'[i].dd <=> Occupied(i)'
    BY <2>4, <2>5 DEF rxInv
  <2>7. at = "release" => rx_cur # g /\ buf = rx_descs'[rx_cur].frame
    BY <1>r, <2>3, <2>5 DEF rxInv
  <2>8. rxInv'
    BY <1>1, <2>1, <2>2, <2>6, <2>7 DEF rxInv, Before
  <2>9. Len(Waiting) \in 0 .. NumRx - 1 /\ Len(Waiting) # NumRx - 1
    BY <1>3, <2>3, RxRing
  <2>10. Len(Waiting) < NumRx - 1
    BY <1>r, <2>9
  <2>11. Slots' = [Slots EXCEPT ![RDH] = f]
    <3>1. \A i \in RxSlots : rx_descs'[i].frame = IF i = RDH THEN f ELSE rx_descs[i].frame
      BY <2>5
    <3> QED
      BY ZenonT(30), <1>r, <3>1 DEF Slots
  <2>12. PICK ss : ss = Slots' /\ IsPut(NumRx, Filled, RDH, rx_cur, Slots, f, ss)
    BY ZenonT(30), <1>2, <1>3, <2>3, <2>11, RxRing DEF IsPut
  <2>13. Contents(NumRx, g, rx_cur, Slots') = Append(Waiting, f)
    <3>1. Contents(NumRx, Wrap(NumRx, RDH + 1), rx_cur, ss)
            = Append(Contents(NumRx, RDH, rx_cur, Slots), f)
      BY <2>12, RingPut
    <3> QED
      BY ZenonT(30), <1>3, <2>12, <3>1, RxRing
  <2>14. Waiting' = Append(Waiting, f)
    BY ZenonT(30), <1>1, <2>1, <2>13 DEF Waiting, Slots
  <2>15. Rx!Arrive(f)
    BY <1>1, <2>10, <2>14 DEF Rx!Arrive
  <2> QED
    BY <1>2, <2>8, <2>15 DEF Rx!Next, Filled
<1> QED
  BY <1>4, <1>5


(* The driver takes the oldest frame: first the copy, then the release.    *)
LEMMA CopyRx ==
  ASSUME rxInv, PollCopy
  PROVE  rxInv' /\ [Rx!Next]_Rx!vars
<1>r. /\ NumRx \in Nat \ {0, 1} /\ RxSlots = 0 .. NumRx - 1
      /\ rx_cur \in RxSlots /\ RDH \in RxSlots
  BY RxRing
<1>1. /\ UNCHANGED rxState /\ UNCHANGED enabled /\ at = "poll"
      /\ at' = "release" /\ buf' = rx_descs[rx_cur].frame /\ rx_descs[rx_cur].dd
  BY DEF PollCopy, Received, e1000Vars, rxVars, cardVars, rxState
<1>2. UNCHANGED <<rx_descs, rx_cur, RDH, RDT, polled, parity>> /\ UNCHANGED Rx!vars
  BY <1>1, RxUnchanged
<1>3. rx_cur # RDH
  BY <1>r, <1>1 DEF rxInv, Occupied
<1>4. buf' \in Filled /\ enabled
  BY <1>r, <1>1 DEF rxInv, rxTypeOK, Running
<1>5. rxTypeOK'
  BY <1>1, <1>2, <1>4 DEF rxInv, rxTypeOK
<1> QED
  BY <1>1, <1>2, <1>3, <1>4, <1>5 DEF rxInv, Occupied, Before

LEMMA ReleaseStep ==
  ASSUME rxInv, PollRelease
  PROVE  rxInv' /\ [Rx!Next]_Rx!vars
<1>t. rxTypeOK
  BY DEF rxInv
<1>r. /\ NumRx \in Nat \ {0, 1} /\ RxSlots = 0 .. NumRx - 1
      /\ rx_cur \in RxSlots /\ RDH \in RxSlots /\ RDT \in RxSlots
  BY RxRing
<1>1. /\ at = "release" /\ at' = "handle" /\ polled' = buf
      /\ UNCHANGED <<RDH, parity, enabled, buf>>
      /\ rx_descs' = [rx_descs EXCEPT ![rx_cur].dd = FALSE]
      /\ rx_cur' = (rx_cur + 1) % NumRx /\ RDT' = rx_cur
  BY DEF PollRelease, ReleaseRx, NewTail, cardVars
<1>2. rx_cur # RDH /\ buf = rx_descs[rx_cur].frame /\ enabled
  BY <1>1 DEF rxInv, Running
<1>3. PICK g \in RxSlots : g = rx_cur' /\ g = IF rx_cur = NumRx - 1 THEN 0 ELSE rx_cur + 1
  BY <1>r, <1>1, RxNext
<1>4. \A i \in RxSlots : /\ rx_descs'[i].frame = rx_descs[i].frame
                         /\ rx_descs'[i].dd = IF i = rx_cur THEN FALSE ELSE rx_descs[i].dd
  BY <1>t, <1>1 DEF rxTypeOK
<1>5. rxTypeOK'
  <2>1. rx_descs' \in [RxSlots -> [dd : BOOLEAN, frame : Filled]]
    BY ZenonT(30), <1>t, <1>1 DEF rxTypeOK
  <2> QED
    BY <1>t, <1>1, <1>3, <1>r, <2>1 DEF rxTypeOK
<1>6. RDT' = Before(rx_cur')
  BY <1>r, <1>1, <1>3 DEF Before
<1>7. \A i \in RxSlots : Occupied(i)' <=> (Occupied(i) /\ i # rx_cur)
  BY <1>r, <1>1, <1>2, <1>3 DEF Occupied
<1>8. \A i \in RxSlots : rx_descs'[i].dd <=> Occupied(i)'
  BY ZenonT(30), <1>4, <1>7 DEF rxInv
<1>9. rxInv'
  <2>1. IF enabled' THEN RDT' = Before(rx_cur') ELSE rx_cur' = RDH'
    BY <1>1, <1>2, <1>6
  <2> QED
    BY <1>1, <1>2, <1>5, <1>8, <2>1 DEF rxInv, Before
<1>10. Slots' = Slots
  BY ZenonT(30), <1>4 DEF Slots
<1>11. /\ Head(Contents(NumRx, RDH, rx_cur, Slots)) = Slots[rx_cur]
       /\ Contents(NumRx, RDH, Wrap(NumRx, rx_cur + 1), Slots)
            = Tail(Contents(NumRx, RDH, rx_cur, Slots))
  <2>1. IsRing(NumRx, Filled, RDH, rx_cur, Slots)
    BY RxRing
  <2> QED
    BY <1>2, <2>1, RingTake
<1>12. Contents(NumRx, RDH, rx_cur, Slots) # << >>
  BY <1>2, RxRing
<1>13. Slots[rx_cur] = buf
  BY <1>r, <1>2 DEF Slots
<1>14. /\ Waiting = Contents(NumRx, RDH, rx_cur, Slots)
       /\ Waiting' = Contents(NumRx, RDH, Wrap(NumRx, rx_cur + 1), Slots)
  BY ZenonT(30), <1>r, <1>1, <1>10, RxNext DEF Waiting, Slots
<1>15. Rx!Take
  BY <1>1, <1>11, <1>12, <1>13, <1>14 DEF Rx!Take
<1> QED
  BY <1>9, <1>15 DEF Rx!Next

(* Every step keeps the invariant and is one of the queue or none.         *)
LEMMA RxStep ==
  ASSUME rxInv, [Next]_vars
  PROVE  rxInv' /\ [Rx!Next]_Rx!vars
<1>1. CASE NoCard \/ net_init \/ StartTask
  <2>1. UNCHANGED rxState /\ UNCHANGED <<enabled, buf>>
    BY <1>1 DEF NoCard, net_init, StartTask, e1000Vars, rxVars, cardVars, rxState
  <2>2. at' \in Running \cup {"net_init", "link"} => enabled
    BY <1>1 DEF NoCard, net_init, StartTask, Running, rxInv
  <2> QED
    BY <1>1, <2>1, <2>2, RxKept DEF NoCard, net_init, StartTask
<1>2. CASE ReadMac
  <2>1. /\ UNCHANGED rxState /\ UNCHANGED <<enabled, buf>>
        /\ at' \in {"mac2", "mac3", "rings"}
    BY <1>2 DEF ReadMac, ReadWord, EepromTimeout, rxVars, cardVars, rxState
  <2> QED
    BY <2>1, RxKept DEF Running
<1>3. CASE e1000_init
  <2>1. /\ UNCHANGED <<rx_descs, rx_cur, RDH, polled, parity, buf>>
        /\ ~enabled /\ enabled' = TRUE /\ RDT' = NumRx - 1 /\ at' = "net_init"
    BY <1>3 DEF e1000_init, InitRings, cardVars
  <2>2. rx_cur = 0 /\ NumRx - 1 \in RxSlots /\ UNCHANGED Rx!vars
    BY <2>1, RxRing DEF rxInv, Rx!vars, Waiting
  <2>3. rxTypeOK'
    BY <2>1, <2>2 DEF rxInv, rxTypeOK
  <2>4. RDT' = Before(rx_cur')
    BY <2>1, <2>2 DEF Before
  <2>5. \A i \in RxSlots : rx_descs'[i].dd <=> Occupied(i)'
    BY <2>1 DEF rxInv, Occupied
  <2>6. rxInv'
    BY <2>1, <2>3, <2>4, <2>5 DEF rxInv, Before
  <2> QED
    BY <2>2, <2>6
<1>4. CASE PollNothing \/ UNCHANGED vars
  <2>1. UNCHANGED rxState /\ UNCHANGED <<enabled, buf, at>>
    BY <1>4 DEF PollNothing, vars, e1000Vars, taskVars, rxVars, cardVars, rxState
  <2>2. at' \in Running \cup {"net_init", "link"} => enabled
    BY <2>1 DEF rxInv
  <2> QED
    BY <2>1, <2>2, RxKept
<1>5. CASE Ignore \/ Handle \/ Return
  <2>1. /\ UNCHANGED rxState /\ UNCHANGED <<enabled, buf>>
        /\ at \in Running /\ at' \in {"poll", "wait"}
    BY <1>5 DEF Ignore, Handle, Return, StartSend, SendDone, SendTimeout,
       e1000Vars, rxVars, cardVars, rxState, Running
  <2>2. enabled
    BY <2>1 DEF rxInv
  <2> QED
    BY ZenonT(30), <2>1, <2>2, RxKept
<1>6. CASE Transmit
  <2>1. UNCHANGED rxState /\ UNCHANGED <<enabled, buf, at>>
    BY <1>6 DEF Transmit, NicSend, taskVars, rxVars, rxState
  <2>2. at' \in Running \cup {"net_init", "link"} => enabled
    BY <2>1 DEF rxInv
  <2> QED
    BY <2>1, <2>2, RxKept
<1>7. CASE \E f \in Frames : Arrive(f)
  BY <1>7, ArriveRx
<1> QED
  BY <1>1, <1>2, <1>3, <1>4, <1>5, <1>6, <1>7, CopyRx, ReleaseStep DEF Next, NetTask

(* For every ring size and any frames, the receive ring is a queue: the    *)
(* card never overwrites a frame the driver has not copied, and net_poll   *)
(* gets the frames that found room in the order of their arrival           *)
(* (e1000.c:160-176, 320-337).                                             *)
THEOREM ReceiveRing == Spec => RingIsQueue
<1>1. rxInv /\ [Next]_vars => rxInv' /\ [Rx!Next]_Rx!vars
  BY RxStep
<1> QED
  BY <1>1, RxInit, PTL DEF Spec, RingIsQueue, Rx!Spec


----------------------------------------------------------------------------

(* What the task sends, or nothing.                                        *)
Messages ==
  [kind : {"arp_reply", "echo_reply"}, to : {f.from : f \in Filled}, src : [Words -> BOOLEAN]]
    \cup {Nothing}

FromUs(m) == \A w \in Words : m.src[w]

txTypeOK ==
  /\ tx_descs \in [TxSlots -> [dd : BOOLEAN, buffer : Buffers \cup {Nothing}, meant : Messages]]
  /\ tx_cur \in TxSlots /\ TDH \in TxSlots /\ TDT = tx_cur
  /\ mem \in [Buffers -> Messages]
  /\ mac_addr \in [Words -> BOOLEAN] /\ our_mac \in [Words -> BOOLEAN]
  /\ abandoned \in BOOLEAN
  /\ stat_tx \in Nat /\ sent \in Nat

(* The words of the address that are known at each point of the boot.      *)
MacKnown ==
  /\ at = "mac2" => mac_addr[1]
  /\ at = "mac3" => mac_addr[1] /\ mac_addr[2]
  /\ at \in {"rings", "net_init"} => \A w \in Words : mac_addr[w]
  /\ at \in Running \cup {"link"} => \A w \in Words : our_mac[w]

(* While the driver waits for the card to send, the status it waits for is *)
(* not set by an earlier send.                                             *)
Counted == stat_tx <= sent /\ (at = "wait" /\ tx_descs[old].dd => stat_tx < sent)

(* Until a send is given up, the card has at most one descriptor to send:  *)
(* the one that the driver waits for, whose buffer is as it was filled.    *)
Pending ==
  IF at = "wait" /\ ~tx_descs[old].dd
    THEN /\ TDH = old
         /\ mem[tx_descs[old].buffer] = tx_descs[old].meant
         /\ FromUs(tx_descs[old].meant)
    ELSE TDH = TDT

txInv ==
  /\ txTypeOK
  /\ MacKnown
  /\ Counted
  /\ ~abandoned => Pending
  /\ SentAsMeant

LEMMA TxInit == Init => txInv
<1> SUFFICES ASSUME Init PROVE txInv
  OBVIOUS
<1>0. NumTx \in Nat \ {0, 1} /\ 0 \in TxSlots
  BY RingAssumption DEF TxSlots
<1>1. /\ mac_addr = [w \in Words |-> FALSE] /\ our_mac = [w \in Words |-> FALSE]
      /\ tx_descs = [i \in TxSlots |-> [dd |-> FALSE, buffer |-> Nothing, meant |-> Nothing]]
      /\ tx_cur = 0 /\ TDH = 0 /\ TDT = 0 /\ stat_tx = 0 /\ sent = 0
      /\ mem = [b \in Buffers |-> Nothing] /\ abandoned = FALSE /\ at = "mac1"
      /\ wire.meant = Nothing
  BY DEF Init, e1000Init
<1>2. txTypeOK
  BY ZenonT(30), <1>0, <1>1 DEF txTypeOK, Messages
<1> QED
  BY <1>1, <1>2 DEF txInv, MacKnown, Counted, Pending, SentAsMeant, Running

(* old is the descriptor before tx_cur, and not tx_cur itself.             *)
LEMMA OldSlot ==
  ASSUME tx_cur \in TxSlots
  PROVE  /\ old \in TxSlots /\ old # tx_cur /\ (old + 1) % NumTx = tx_cur
         /\ NextTx \in TxSlots /\ (NextTx - 1) % NumTx = tx_cur
<1>0. NumTx \in Nat \ {0, 1} /\ NumTx \in Nat \ {0} /\ TxSlots = 0 .. NumTx - 1
      /\ 1 \in 0 .. NumTx - 1
  BY RingAssumption DEF TxSlots
<1>1. \A i \in TxSlots : (i - 1) % NumTx \in TxSlots
                         /\ (i - 1) % NumTx = IF i = 0 THEN NumTx - 1 ELSE i - 1
  BY ZenonT(30), <1>0, SlotBefore
<1>2. \A i \in TxSlots : (i + 1) % NumTx \in TxSlots
                         /\ (i + 1) % NumTx = IF i = NumTx - 1 THEN 0 ELSE i + 1
  BY ZenonT(30), <1>0, NextSlot
<1>3. PICK o \in TxSlots : o = old /\ o = IF tx_cur = 0 THEN NumTx - 1 ELSE tx_cur - 1
  BY <1>1 DEF old
<1>4. PICK n \in TxSlots : n = NextTx /\ n = IF tx_cur = NumTx - 1 THEN 0 ELSE tx_cur + 1
  BY <1>2 DEF NextTx
<1>5. o # tx_cur /\ (o + 1) % NumTx = tx_cur
  BY <1>0, <1>2, <1>3
<1>6. (n - 1) % NumTx = tx_cur
  BY <1>0, <1>1, <1>4
<1> QED
  BY <1>3, <1>4, <1>5, <1>6

(* A step that leaves the sending side alone.                              *)
txState == <<tx_descs, tx_cur, TDH, TDT, mem, abandoned, stat_tx, sent, wire>>

LEMMA TxKept ==
  ASSUME txInv, UNCHANGED txState, at' # "wait" \/ at = "wait",
         at = "wait" => at' = "wait",
         mac_addr' \in [Words -> BOOLEAN], our_mac' \in [Words -> BOOLEAN], MacKnown'
  PROVE  txInv'
<1>1. UNCHANGED <<tx_descs, tx_cur, TDH, TDT, mem, abandoned, stat_tx, sent, wire>>
  BY DEF txState
<1>2. old' = old
  BY <1>1 DEF old
<1>3. txTypeOK'
  BY <1>1 DEF txInv, txTypeOK
<1>4. Counted'
  BY <1>1, <1>2 DEF txInv, Counted
<1>5. ~abandoned' => Pending'
  BY <1>1, <1>2 DEF txInv, Pending
<1>6. SentAsMeant'
  BY <1>1 DEF txInv, SentAsMeant
<1> QED
  BY <1>3, <1>4, <1>5, <1>6 DEF txInv


(* A reply is handed to the card: one descriptor, not yet sent.            *)
LEMMA HandleTx ==
  ASSUME txInv, buf \in Filled, Handle
  PROVE  txInv'
<1>t. txTypeOK
  BY DEF txInv
<1> DEFINE b == ReplyBuffer(buf)
           m == Reply(buf)
<1>0. b \in Buffers
  BY NetAssumption DEF ReplyBuffer
<1>1. /\ at = "handle" /\ at' = "wait"
      /\ mem' = [mem EXCEPT ![b] = m]
      /\ tx_descs' = [tx_descs EXCEPT ![tx_cur] = [dd |-> FALSE, buffer |-> b, meant |-> mem'[b]]]
      /\ tx_cur' = NextTx /\ TDT' = NextTx
      /\ UNCHANGED <<mac_addr, our_mac, stat_tx, TDH, sent, wire, abandoned>>
  BY DEF Handle, StartSend, TxDesc, cardVars
<1>2. (\A w \in Words : our_mac[w]) /\ our_mac \in [Words -> BOOLEAN]
  BY <1>1, <1>t DEF txInv, MacKnown, Running, txTypeOK
<1>3. m \in Messages /\ FromUs(m)
  <2>1. m \in [kind : {"arp_reply", "echo_reply"}, to : {f.from : f \in Filled},
               src : [Words -> BOOLEAN]] /\ m.src = our_mac
    BY <1>2 DEF Reply, handle_arp, handle_icmp
  <2> HIDE DEF m
  <2> QED
    BY <1>2, <2>1 DEF Messages, FromUs
<1> HIDE DEF b, m
<1>4. mem' \in [Buffers -> Messages] /\ mem'[b] = m
  BY ZenonT(30), <1>0, <1>1, <1>3, <1>t DEF txTypeOK
<1>5. old' = tx_cur /\ NextTx \in TxSlots /\ tx_cur \in TxSlots
  BY <1>1, <1>t, OldSlot DEF txTypeOK, old
<1>6. tx_descs' \in [TxSlots -> [dd : BOOLEAN, buffer : Buffers \cup {Nothing}, meant : Messages]]
      /\ tx_descs'[old'] = [dd |-> FALSE, buffer |-> b, meant |-> m]
  BY ZenonT(30), <1>0, <1>1, <1>3, <1>4, <1>5, <1>t DEF txTypeOK
<1>7. txTypeOK'
  BY <1>1, <1>4, <1>5, <1>6, <1>t DEF txTypeOK
<1>8. MacKnown'
  BY ZenonT(30), <1>1, <1>2 DEF MacKnown
<1>9. Counted'
  <2>1. stat_tx' <= sent'
    BY ZenonT(30), <1>1 DEF txInv, Counted
  <2>2. ~tx_descs'[old'].dd
    BY <1>6
  <2> QED
    BY ZenonT(30), <2>1, <2>2 DEF Counted
<1>10. ~abandoned' => Pending'
  <2>1. ~abandoned => TDH = TDT /\ TDT = tx_cur
    BY ZenonT(30), <1>1, <1>t DEF txInv, Pending, txTypeOK
  <2> QED
    BY ZenonT(30), <1>1, <1>3, <1>4, <1>5, <1>6, <2>1 DEF Pending
<1>11. SentAsMeant'
  BY <1>1 DEF txInv, SentAsMeant
<1> QED
  BY <1>7, <1>8, <1>9, <1>10, <1>11 DEF txInv

(* e1000_send returns: the card is done, or the driver gives up.           *)
LEMMA ReturnTx ==
  ASSUME txInv, Return
  PROVE  txInv'
<1>t. txTypeOK
  BY DEF txInv
<1>o. old \in TxSlots /\ tx_descs[old].dd \in BOOLEAN
  BY <1>t, OldSlot DEF txTypeOK
<1>1. /\ at = "wait" /\ at' = "poll"
      /\ UNCHANGED <<mac_addr, our_mac, tx_descs, tx_cur, TDH, TDT, sent, wire>>
      /\ mem' = [mem EXCEPT !["stack"] = Nothing]
      /\ \/ tx_descs[old].dd /\ stat_tx' = stat_tx + 1 /\ abandoned' = abandoned
         \/ stat_tx' = stat_tx /\ abandoned' = (abandoned \/ ~tx_descs[old].dd)
  BY DEF Return, SendDone, SendTimeout, txVars, cardVars
<1>2. stat_tx' \in Nat /\ stat_tx' <= sent
  BY <1>1, <1>t DEF txInv, Counted, txTypeOK
<1>3. abandoned' \in BOOLEAN
  BY ZenonT(30), <1>1, <1>o, <1>t DEF txTypeOK
<1>4. mem' \in [Buffers -> Messages]
  BY ZenonT(30), <1>1, <1>t DEF txTypeOK, Messages
<1>5. txTypeOK'
  BY <1>1, <1>2, <1>3, <1>4, <1>t DEF txTypeOK
<1>6. MacKnown' /\ Counted'
  BY <1>1, <1>2 DEF txInv, MacKnown, Counted, Running
<1>7. ~abandoned' => ~abandoned /\ tx_descs[old].dd
  BY ZenonT(30), <1>1, <1>o, <1>t DEF txTypeOK
<1>8. ~abandoned' => Pending'
  BY <1>1, <1>7 DEF txInv, Pending
<1>9. SentAsMeant'
  BY <1>1, <1>7 DEF txInv, SentAsMeant
<1> QED
  BY <1>5, <1>6, <1>8, <1>9 DEF txInv

(* The card sends the descriptor at its head.                              *)
LEMMA TransmitTx ==
  ASSUME txInv, Transmit
  PROVE  txInv'
<1>t. txTypeOK
  BY DEF txInv
<1>o. old \in TxSlots /\ old # tx_cur /\ (old + 1) % NumTx = tx_cur
  BY <1>t, OldSlot DEF txTypeOK
<1>1. /\ TDH # TDT /\ sent' = sent + 1
      /\ wire' = [frame |-> mem[tx_descs[TDH].buffer], meant |-> tx_descs[TDH].meant]
      /\ tx_descs' = [tx_descs EXCEPT ![TDH].dd = TRUE]
      /\ TDH' = (TDH + 1) % NumTx
      /\ UNCHANGED <<mac_addr, our_mac, tx_cur, TDT, stat_tx, mem, at, abandoned>>
  BY DEF Transmit, NicSend, taskVars
<1>2. old' = old
  BY <1>1 DEF old
<1>3. TDH' \in TxSlots
  BY <1>1, <1>t, NextSlot, RingAssumption DEF txTypeOK, TxSlots
<1>4. tx_descs' \in [TxSlots -> [dd : BOOLEAN, buffer : Buffers \cup {Nothing}, meant : Messages]]
  BY ZenonT(30), <1>1, <1>t DEF txTypeOK
<1>5. txTypeOK'
  BY <1>1, <1>3, <1>4, <1>t DEF txTypeOK
<1>6. MacKnown' /\ Counted'
  BY <1>1, <1>5, <1>t DEF txInv, MacKnown, Counted, txTypeOK
<1>7. ASSUME ~abandoned
      PROVE  /\ at = "wait" /\ TDH = old
             /\ mem[tx_descs[old].buffer] = tx_descs[old].meant /\ FromUs(tx_descs[old].meant)
  BY <1>1, <1>7 DEF txInv, Pending
<1>8. ~abandoned' => Pending'
  <2>1. ASSUME ~abandoned PROVE tx_descs'[old].dd /\ TDH' = TDT'
    BY <1>1, <1>7, <1>o, <1>t, <2>1 DEF txTypeOK
  <2> QED
    BY <1>1, <1>2, <2>1 DEF Pending
<1>9. SentAsMeant'
  <2>1. ASSUME ~abandoned PROVE wire'.frame = wire'.meant /\ FromUs(wire'.frame)
    BY <1>1, <1>7, <2>1
  <2> QED
    BY <1>1, <2>1 DEF SentAsMeant, FromUs
<1> QED
  BY <1>5, <1>6, <1>8, <1>9 DEF txInv


LEMMA TxStep ==
  ASSUME rxInv, txInv, [Next]_vars
  PROVE  txInv'
<1>t. txTypeOK /\ MacKnown
  BY DEF txInv
<1>m. mac_addr \in [Words -> BOOLEAN] /\ our_mac \in [Words -> BOOLEAN]
  BY <1>t DEF txTypeOK
<1>1. ASSUME UNCHANGED txState, UNCHANGED <<mac_addr, our_mac>>,
             at' = at \/ (at \in Running \ {"wait"} /\ at' \in Running \ {"wait"})
      PROVE  txInv'
  <2>1. MacKnown'
    BY <1>t, <1>1 DEF MacKnown, Running
  <2> QED
    BY <1>1, <1>m, <2>1, TxKept
<1>2. CASE NoCard \/ net_init \/ StartTask \/ e1000_init
  <2>1. /\ UNCHANGED txState /\ UNCHANGED mac_addr
        /\ at \notin Running /\ at' # "wait"
        /\ our_mac' \in [Words -> BOOLEAN]
    BY ZenonT(30), <1>2, <1>m DEF NoCard, net_init, StartTask, e1000_init, InitRings,
       e1000Vars, rxVars, txVars, cardVars, txState, Running
  <2>2. MacKnown'
    BY <1>2, <1>t, <2>1 DEF NoCard, net_init, StartTask, e1000_init, MacKnown, e1000Vars, Running
  <2> QED
    BY ZenonT(30), <1>m, <2>1, <2>2, TxKept DEF Running
<1>3. CASE ReadMac
  <2>1. /\ UNCHANGED txState /\ UNCHANGED our_mac
        /\ \/ at = "mac1" /\ mac_addr' = [mac_addr EXCEPT ![1] = TRUE] /\ at' = "mac2"
           \/ at = "mac2" /\ mac_addr' = [mac_addr EXCEPT ![2] = TRUE] /\ at' = "mac3"
           \/ at = "mac3" /\ mac_addr' = [mac_addr EXCEPT ![3] = TRUE] /\ at' = "rings"
           \/ /\ at \in {"mac1", "mac2", "mac3"} /\ at' = "rings"
              /\ mac_addr' = [w \in Words |-> TRUE]
    BY <1>3 DEF ReadMac, ReadWord, EepromTimeout, read_mac_ral, rxVars, txVars, cardVars, txState
  <2>2. mac_addr' \in [Words -> BOOLEAN]
    BY ZenonT(30), <1>m, <2>1
  <2>3. MacKnown'
    BY <1>m, <1>t, <2>1 DEF MacKnown, Running, Words
  <2> QED
    BY ZenonT(30), <1>m, <2>1, <2>2, <2>3, TxKept
<1>4. CASE PollNothing \/ UNCHANGED vars \/ \E f \in Frames : Arrive(f)
  <2>1. UNCHANGED txState /\ UNCHANGED <<mac_addr, our_mac, at>>
    BY <1>4 DEF PollNothing, Arrive, NicReceive, vars, e1000Vars, taskVars, rxVars, txVars,
       cardVars, txState
  <2> QED
    BY ZenonT(30), <1>1, <2>1
<1>5. CASE PollCopy \/ PollRelease \/ Ignore
  <2>1. /\ UNCHANGED txState /\ UNCHANGED <<mac_addr, our_mac>>
        /\ at \in Running \ {"wait"} /\ at' \in Running \ {"wait"}
    BY <1>5 DEF PollCopy, PollRelease, ReleaseRx, Ignore, e1000Vars, rxVars, txVars,
       cardVars, txState, Running
  <2> QED
    BY <1>1, <2>1
<1>6. CASE Handle
  BY <1>6, HandleTx DEF rxInv, rxTypeOK
<1> QED
  BY <1>2, <1>3, <1>4, <1>5, <1>6, ReturnTx, TransmitTx DEF Next, NetTask

----------------------------------------------------------------------------

(* How many descriptors the driver has yet to release, and the card to     *)
(* send.                                                                   *)
RxDistance == IF rx_cur <= RDH THEN RDH - rx_cur ELSE RDH - rx_cur + NumRx
TxDistance == IF TDH <= TDT THEN TDT - TDH ELSE TDT - TDH + NumTx

(* A frame is counted when it is released and answered at most once; what  *)
(* laps the transmit ring is lost, never sent again.                       *)
countInv ==
  /\ at \in {"mac1", "mac2", "mac3", "rings", "net_init", "link", "off"} \cup Running
  /\ \A i \in RxSlots : rx_descs[i].dd => rx_descs[i].frame \in Frames
  /\ stat_rx \in Nat /\ arrivals \in 0 .. MaxFrames
  /\ stat_rx + RxDistance <= arrivals
  /\ sent + TxDistance + (IF at = "handle" THEN 1 ELSE 0) <= stat_rx

LEMMA CountInit == Init => countInv
<1> SUFFICES ASSUME Init PROVE countInv
  OBVIOUS
<1>1. /\ at = "mac1" /\ stat_rx = 0 /\ arrivals = 0 /\ sent = 0
      /\ rx_cur = 0 /\ RDH = 0 /\ TDH = 0 /\ TDT = 0
      /\ \A i \in RxSlots : ~rx_descs[i].dd
  BY DEF Init, e1000Init
<1> QED
  BY <1>1, NetAssumption DEF countInv, RxDistance, TxDistance

(* A step that moves neither ring.                                         *)
LEMMA CountKept ==
  ASSUME countInv, sent \in Nat, UNCHANGED <<rx_descs, rx_cur, RDH, TDH, TDT, stat_rx, arrivals, sent>>,
         at' \in {"mac2", "mac3", "rings", "net_init", "link", "off", "poll", "release"} \/ at' = at,
         rx_cur \in RxSlots, RDH \in RxSlots, TDH \in TxSlots, TDT \in TxSlots
  PROVE  countInv'
<1>1. RxDistance' = RxDistance /\ TxDistance' = TxDistance
  BY DEF RxDistance, TxDistance
<1>2. RxDistance \in Int /\ TxDistance \in Int
  BY RingAssumption DEF RxDistance, TxDistance, RxSlots, TxSlots
<1>3. at' \in {"mac1", "mac2", "mac3", "rings", "net_init", "link", "off"} \cup Running
  BY DEF countInv, Running
<1>4. sent + TxDistance + (IF at' = "handle" THEN 1 ELSE 0) <= stat_rx
  BY <1>2 DEF countInv
<1> QED
  BY <1>1, <1>3, <1>4 DEF countInv

LEMMA Slack ==
  ASSUME NEW s \in Nat, NEW x \in Int, NEW d \in Int, NEW r \in Nat, d <= x + 1
  PROVE  /\ s + x <= r => s + d <= r + 1
         /\ s + x + 1 <= r => s + d + 0 <= r
  OBVIOUS

LEMMA CountStep ==
  ASSUME rxInv, txInv, countInv, [Next]_vars
  PROVE  countInv'
<1>t. /\ NumRx \in Nat \ {0, 1} /\ NumTx \in Nat \ {0, 1}
      /\ RxSlots = 0 .. NumRx - 1 /\ TxSlots = 0 .. NumTx - 1
      /\ rx_cur \in RxSlots /\ RDH \in RxSlots /\ RDT \in RxSlots
      /\ tx_cur \in TxSlots /\ TDH \in TxSlots /\ TDT = tx_cur /\ TDT \in TxSlots
      /\ sent \in Nat /\ stat_rx \in Nat /\ arrivals \in 0 .. MaxFrames /\ MaxFrames \in Nat
  BY RingAssumption, NetAssumption DEF RxSlots, TxSlots, rxInv, rxTypeOK, txInv, txTypeOK, countInv
<1>d. /\ RxDistance \in Int /\ TxDistance \in Nat /\ TxDistance \in Int
      /\ sent \in Nat /\ stat_rx \in Nat /\ arrivals \in Nat
  BY <1>t DEF RxDistance, TxDistance
<1>c. PICK n \in {0, 1} : /\ n = (IF at = "handle" THEN 1 ELSE 0)
                          /\ stat_rx + RxDistance <= arrivals /\ sent + TxDistance + n <= stat_rx
  BY DEF countInv
<1>1. CASE NoCard \/ net_init \/ StartTask \/ e1000_init \/ ReadMac
  <2>1. /\ UNCHANGED <<rx_descs, rx_cur, RDH, TDH, TDT, stat_rx, arrivals, sent>>
        /\ at' \in {"mac2", "mac3", "rings", "net_init", "link", "off", "poll"}
    BY ZenonT(30), <1>1 DEF NoCard, net_init, StartTask, e1000_init, InitRings, ReadMac, ReadWord, EepromTimeout,
       e1000Vars, rxVars, txVars, cardVars
  <2> QED
    BY ZenonT(30), <1>t, <2>1, CountKept
<1>2. CASE PollNothing \/ PollCopy \/ Ignore \/ Return \/ UNCHANGED vars
  <2>1. /\ UNCHANGED <<rx_descs, rx_cur, RDH, TDH, TDT, stat_rx, arrivals, sent>>
        /\ at' \in {"poll", "release"} \/ at' = at
    BY <1>2 DEF PollNothing, PollCopy, Ignore, Return, vars, taskVars, e1000Vars, rxVars, txVars, cardVars
  <2> QED
    BY ZenonT(30), <1>t, <2>1, CountKept
<1>3. CASE PollRelease
  <2>1. /\ at = "release" /\ at' = "handle" /\ stat_rx' = stat_rx + 1
        /\ rx_descs' = [rx_descs EXCEPT ![rx_cur].dd = FALSE]
        /\ rx_cur' = (rx_cur + 1) % NumRx
        /\ UNCHANGED <<RDH, TDH, TDT, arrivals, sent>>
    BY <1>3 DEF PollRelease, ReleaseRx, txVars, cardVars
  <2>2. rx_cur # RDH /\ rx_cur' = IF rx_cur = NumRx - 1 THEN 0 ELSE rx_cur + 1
    BY <1>t, <2>1, RxNext DEF rxInv
  <2>3. RxDistance' = RxDistance - 1 /\ TxDistance' = TxDistance
    <3>1. TxDistance' = TxDistance
      BY <2>1 DEF TxDistance
    <3>2. PICK c \in RxSlots : c = rx_cur' /\ c = IF rx_cur = NumRx - 1 THEN 0 ELSE rx_cur + 1
      BY <1>t, <2>2
    <3>3. RxDistance' = IF c <= RDH THEN RDH - c ELSE RDH - c + NumRx
      BY <2>1, <3>2 DEF RxDistance
    <3>4. RxDistance' = RxDistance - 1
      BY <1>t, <2>2, <3>2, <3>3 DEF RxDistance
    <3> QED
      BY <3>1, <3>4
  <2>4. \A i \in RxSlots : rx_descs'[i].dd => rx_descs'[i].frame \in Frames
    BY <2>1 DEF countInv, rxInv, rxTypeOK
  <2>5. /\ stat_rx' + RxDistance' <= arrivals'
        /\ sent' + TxDistance' + (IF at' = "handle" THEN 1 ELSE 0) <= stat_rx'
    <3>1. /\ sent' = sent /\ stat_rx' = stat_rx + 1 /\ arrivals' = arrivals
          /\ RxDistance' = RxDistance - 1 /\ TxDistance' = TxDistance
      BY <2>1, <2>3
    <3>2. (IF at' = "handle" THEN 1 ELSE 0) = 1 /\ n = 0
      BY <1>c, <2>1
    <3> QED
      BY <1>c, <1>d, <3>1, <3>2
  <2>6. at' \in {"mac1", "mac2", "mac3", "rings", "net_init", "link", "off"} \cup Running
    BY ZenonT(30), <2>1 DEF Running
  <2>7. stat_rx' \in Nat
    BY <1>d, <2>1
  <2>8. arrivals' \in 0 .. MaxFrames
    BY ZenonT(30), <1>t, <2>1
  <2> QED
    BY ZenonT(30), <2>4, <2>5, <2>6, <2>7, <2>8 DEF countInv
<1>4. CASE Handle
  <2>1. /\ at = "handle" /\ at' = "wait" /\ TDT' = (tx_cur + 1) % NumTx
        /\ UNCHANGED <<rx_descs, rx_cur, RDH, TDH, stat_rx, arrivals, sent>>
    BY <1>4 DEF Handle, StartSend, NextTx, rxVars, cardVars
  <2>2. TDT' = IF TDT = NumTx - 1 THEN 0 ELSE TDT + 1
    BY ZenonT(30), <1>t, <2>1, NextSlot
  <2>3. RxDistance' = RxDistance /\ TxDistance' <= TxDistance + 1 /\ TxDistance' \in Int
    BY <1>t, <2>1, <2>2 DEF RxDistance, TxDistance
  <2>4. sent' + TxDistance' + (IF at' = "handle" THEN 1 ELSE 0) <= stat_rx'
    <3>1. sent' = sent /\ stat_rx' = stat_rx
      BY <2>1
    <3>2. (IF at' = "handle" THEN 1 ELSE 0) = 0 /\ sent + TxDistance + 1 <= stat_rx
      BY <1>c, <2>1
    <3>3. PICK d \in Int : d = TxDistance' /\ d <= TxDistance + 1
      BY <2>3
    <3>4. sent + d + 0 <= stat_rx
      BY ZenonT(30), <1>d, <3>2, <3>3, Slack
    <3> QED
      BY <3>1, <3>2, <3>3, <3>4
  <2> QED
    BY ZenonT(30), <1>t, <2>1, <2>3, <2>4 DEF countInv, Running
<1>5. CASE Transmit
  <2>1. /\ TDH # TDT /\ sent' = sent + 1 /\ TDH' = (TDH + 1) % NumTx
        /\ UNCHANGED <<rx_descs, rx_cur, RDH, TDT, stat_rx, arrivals, at>>
    BY <1>5 DEF Transmit, NicSend, rxVars, taskVars
  <2>2. TDH' = IF TDH = NumTx - 1 THEN 0 ELSE TDH + 1
    BY ZenonT(30), <1>t, <2>1, NextSlot
  <2>3. RxDistance' = RxDistance /\ TxDistance' = TxDistance - 1
    BY <1>t, <2>1, <2>2 DEF RxDistance, TxDistance
  <2>4. sent' + TxDistance' + (IF at' = "handle" THEN 1 ELSE 0) <= stat_rx'
    <3>1. sent' = sent + 1 /\ stat_rx' = stat_rx
      BY <2>1
    <3>2. (IF at' = "handle" THEN 1 ELSE 0) = n /\ n \in Nat /\ TxDistance' = TxDistance - 1
      BY <1>c, <2>1, <2>3
    <3>3. sent + TxDistance + n <= stat_rx
      BY <1>c
    <3>4. (sent + 1) + (TxDistance - 1) + n <= stat_rx
      BY SMTT(30), <1>d, <3>2, <3>3
    <3> QED
      BY <3>1, <3>2, <3>4
  <2> QED
    BY <1>t, <2>1, <2>3, <2>4 DEF countInv
<1>6. ASSUME NEW f \in Frames, Arrive(f) PROVE countInv'
  <2>1. /\ arrivals < MaxFrames /\ arrivals' = arrivals + 1 /\ enabled
        /\ UNCHANGED <<rx_cur, TDH, TDT, stat_rx, sent, at>>
        /\ \/ /\ RDH # RDT /\ RDH' = (RDH + 1) % NumRx
              /\ rx_descs' = [rx_descs EXCEPT ![RDH] = [dd |-> TRUE, frame |-> f]]
           \/ UNCHANGED <<RDH, rx_descs>>
    BY <1>6 DEF Arrive, NicReceive, txVars, taskVars
  <2>2. RDT = Before(rx_cur)
    BY <2>1 DEF rxInv
  <2>3. (RDH + 1) % NumRx = IF RDH = NumRx - 1 THEN 0 ELSE RDH + 1
    BY <1>t, RxNext
  <2>4. TxDistance' = TxDistance /\ RxDistance' <= RxDistance + 1 /\ RxDistance' \in Int
    <3>1. TxDistance' = TxDistance
      BY ZenonT(30), <2>1 DEF TxDistance
    <3>2. PICK h \in Nat : h = RDH' /\ (h = RDH \/ (RDH # RDT /\ h = IF RDH = NumRx - 1 THEN 0 ELSE RDH + 1))
      BY <1>t, <2>1, <2>3
    <3>3. RxDistance' = IF rx_cur <= h THEN h - rx_cur ELSE h - rx_cur + NumRx
      BY ZenonT(30), <2>1, <3>2 DEF RxDistance
    <3> QED
      BY <1>t, <2>2, <3>1, <3>2, <3>3 DEF RxDistance, Before
  <2>5. \A i \in RxSlots : rx_descs'[i].dd => rx_descs'[i].frame \in Frames
    <3>1. \A i \in RxSlots : rx_descs[i].dd => rx_descs[i].frame \in Frames
      BY DEF countInv
    <3>2. CASE UNCHANGED rx_descs
      BY ZenonT(30), <3>1, <3>2
    <3>3. CASE rx_descs' = [rx_descs EXCEPT ![RDH] = [dd |-> TRUE, frame |-> f]]
      <4>1. DOMAIN rx_descs = RxSlots
        BY DEF rxInv, rxTypeOK
      <4>2. \A i \in RxSlots : rx_descs'[i] = IF i = RDH THEN [dd |-> TRUE, frame |-> f] ELSE rx_descs[i]
        BY <3>3, <4>1
      <4> QED
        BY <3>1, <4>2
    <3> QED
      BY <2>1, <3>2, <3>3
  <2>6. arrivals' \in 0 .. MaxFrames /\ stat_rx' + RxDistance' <= arrivals'
    <3>1. arrivals' = arrivals + 1 /\ stat_rx' = stat_rx /\ arrivals < MaxFrames
      BY <2>1
    <3>2. PICK d \in Int : d = RxDistance' /\ d <= RxDistance + 1
      BY <2>4
    <3>3. stat_rx + d <= arrivals + 1
      BY ZenonT(30), <1>c, <1>d, <3>2, Slack
    <3>4. arrivals + 1 \in 0 .. MaxFrames
      BY <1>t, <3>1
    <3> QED
      BY <3>1, <3>2, <3>3, <3>4
  <2> QED
    BY ZenonT(30), <1>t, <2>1, <2>4, <2>5, <2>6 DEF countInv
<1> QED
  BY ZenonT(30), <1>1, <1>2, <1>3, <1>4, <1>5, <1>6 DEF Next, NetTask

LEMMA NetInvariant == Spec => [](rxInv /\ txInv /\ countInv)
<1>1. rxInv /\ txInv /\ countInv /\ [Next]_vars => (rxInv /\ txInv /\ countInv)'
  BY RxStep, TxStep, CountStep
<1> QED
  BY <1>1, RxInit, TxInit, CountInit, PTL DEF Spec

LEMMA CountBounds ==
  ASSUME rxInv, txInv, countInv
  PROVE  CountsOnlySent /\ {stat_rx, stat_tx, sent, arrivals} \subseteq 0 .. MaxFrames
<1>1. RxDistance \in Nat /\ TxDistance \in Nat
  BY RingAssumption DEF RxDistance, TxDistance, RxSlots, TxSlots, rxInv, rxTypeOK, txInv, txTypeOK
<1>2. /\ stat_rx \in Nat /\ stat_tx \in Nat /\ sent \in Nat /\ stat_tx <= sent
      /\ arrivals \in 0 .. MaxFrames /\ MaxFrames \in Nat
  BY NetAssumption DEF txInv, txTypeOK, Counted, countInv
<1>3. stat_rx <= arrivals /\ sent <= stat_rx
  BY <1>1, <1>2 DEF countInv
<1> QED
  BY <1>2, <1>3 DEF CountsOnlySent

(* Whatever the ring sizes and the frames, and whichever sends are given   *)
(* up, the driver counts no frame that the card did not send, and the card *)
(* sends no more frames than the driver received, nor the driver more than *)
(* arrived (e1000.c:303-316, 328-334).                                     *)
THEOREM CountedWereSent == Spec => []CountsOnlySent
  BY CountBounds, NetInvariant, PTL

(* Until a send is given up too early, every frame on the wire is the one  *)
(* that the handler built, and has the card's whole address as its source  *)
(* (e1000.c:132-156, 297-318; net.c:42-60, 84-110).                        *)
THEOREM WireIsMeant == Spec => []SentAsMeant
<1>1. txInv => SentAsMeant
  BY DEF txInv
<1> QED
  BY <1>1, RxInit, RxStep, TxInit, TxStep, PTL DEF Spec

(* Every variable of driver, card and task stays in its range, and the     *)
(* receive tail one behind the driver (e1000.c:160-192, 297-337).          *)
THEOREM NetTypes == Spec => []TypeOK
<1>1. ASSUME rxInv, txInv, countInv PROVE TypeOK
  <2>1. /\ NumRx \in Nat \ {0, 1} /\ RxSlots = 0 .. NumRx - 1
        /\ rx_cur \in RxSlots /\ RDH \in RxSlots /\ RDT \in RxSlots
        /\ {tx_cur, TDH, TDT} \subseteq TxSlots /\ {buf, polled} \subseteq Filled
        /\ {mac_addr, our_mac} \subseteq [Words -> BOOLEAN] /\ abandoned \in BOOLEAN
    BY <1>1, RxRing DEF rxInv, rxTypeOK, txInv, txTypeOK
  <2>2. enabled => RDT = (rx_cur - 1) % NumRx
    <3>1. ASSUME enabled PROVE RDT = Before(rx_cur)
      BY <1>1, <3>1 DEF rxInv
    <3>2. (rx_cur - 1) % NumRx = IF rx_cur = 0 THEN NumRx - 1 ELSE rx_cur - 1
      BY ZenonT(30), <2>1, SlotBefore
    <3> QED
      BY <2>1, <3>1, <3>2 DEF Before
  <2>3. \A i \in TxSlots : tx_descs[i].buffer \in Buffers \cup {Nothing}
    BY ZenonT(30), <1>1 DEF txInv, txTypeOK
  <2>4. {stat_rx, stat_tx, sent, arrivals} \subseteq 0 .. MaxFrames
    BY <1>1, CountBounds
  <2> QED
    BY ZenonT(30), <1>1, <2>1, <2>2, <2>3, <2>4 DEF TypeOK, countInv, Filled
<1> QED
  BY <1>1, NetInvariant, PTL

=============================================================================
