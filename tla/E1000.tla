------------------------------- MODULE E1000 -------------------------------
(* The network card and its driver (kernel/drivers/e1000.c): a ring of     *)
(* receive descriptors, a ring of transmit descriptors, and the card, a    *)
(* process of its own that fills and sends what its registers give it and  *)
(* reads a transmit buffer only when it sends it.  The driver is called by *)
(* one task.  A buffer is a name for memory; the card's address is three   *)
(* words.                                                                  *)
EXTENDS Rings

CONSTANTS
  NumRx,     \* E1000_NUM_RX_DESC
  NumTx,     \* E1000_NUM_TX_DESC
  Frames,    \* frames that hosts send
  Buffers,   \* memory that frames are sent from
  Nothing    \* what is in memory that holds no frame

ASSUME RingAssumption == NumRx \in Nat \ {0, 1} /\ NumTx \in Nat \ {0, 1}

VARIABLES
  mac_addr,                     \* for each word: was it read from the card?
  rx_descs, tx_descs,           \* [dd, frame] and [dd, buffer, meant]
  rx_cur, tx_cur, stat_rx, stat_tx,
  RDH, RDT, TDH, TDT,           \* the card's registers
  enabled,                      \* RCTL_EN and TCTL_EN are set
  mem,                          \* what each buffer holds
  wire,                         \* the last frame sent: [frame, meant]
  sent,                         \* how many were
  parity                        \* flips with every frame that arrives

rxVars == <<rx_descs, rx_cur, RDT, stat_rx>>
txVars == <<tx_descs, tx_cur, TDT>>
cardVars == <<RDH, TDH, wire, sent, parity>>
e1000Vars == <<mac_addr, rxVars, txVars, stat_tx, cardVars, enabled, mem>>

RxSlots == 0 .. NumRx - 1
TxSlots == 0 .. NumTx - 1
Words == 1 .. 3

e1000Init ==
  /\ mac_addr = [w \in Words |-> FALSE]
  /\ rx_descs = [i \in RxSlots |-> [dd |-> FALSE, frame |-> Nothing]]
  /\ tx_descs = [i \in TxSlots |-> [dd |-> FALSE, buffer |-> Nothing, meant |-> Nothing]]
  /\ rx_cur = 0 /\ tx_cur = 0 /\ stat_rx = 0 /\ stat_tx = 0
  /\ RDH = 0 /\ RDT = 0 /\ TDH = 0 /\ TDT = 0
  /\ enabled = FALSE
  /\ mem = [b \in Buffers |-> Nothing]
  /\ wire = [frame |-> Nothing, meant |-> Nothing]
  /\ sent = 0
  /\ parity = 0

----------------------------------------------------------------------------

(* The card: a frame that arrives is stored if a descriptor is left, and   *)
(* lost if not.                                                            *)
NicReceive(f) ==
  /\ enabled
  /\ parity' = 1 - parity
  /\ \/ /\ RDH # RDT
        /\ rx_descs' = [rx_descs EXCEPT ![RDH] = [dd |-> TRUE, frame |-> f]]
        /\ RDH' = (RDH + 1) % NumRx
     \/ /\ RDH = RDT
        /\ UNCHANGED <<rx_descs, RDH>>
  /\ UNCHANGED <<mac_addr, rx_cur, RDT, stat_rx, txVars, stat_tx, TDH, wire, sent, enabled, mem>>

NicSend ==
  /\ enabled
  /\ TDH # TDT
  /\ wire' = [frame |-> mem[tx_descs[TDH].buffer], meant |-> tx_descs[TDH].meant]
  /\ sent' = sent + 1
  /\ tx_descs' = [tx_descs EXCEPT ![TDH].dd = TRUE]
  /\ TDH' = (TDH + 1) % NumTx
  /\ UNCHANGED <<mac_addr, rxVars, tx_cur, TDT, stat_tx, RDH, parity, enabled, mem>>

----------------------------------------------------------------------------

(* read_mac_eeprom reads word after word; one that the card does not       *)
(* deliver in time ends it, and read_mac_ral takes the whole address from  *)
(* the registers instead.                                                  *)
ReadWord(w) ==
  /\ mac_addr' = [mac_addr EXCEPT ![w] = TRUE]
  /\ UNCHANGED <<rxVars, txVars, stat_tx, cardVars, enabled, mem>>

KeepsWhatCame == UNCHANGED mac_addr

read_mac_ral == mac_addr' = [w \in Words |-> TRUE]

EepromTimeout ==
  /\ read_mac_ral
  /\ UNCHANGED <<rxVars, txVars, stat_tx, cardVars, enabled, mem>>

(* init_rx, init_tx and the rest of e1000_init, which runs once: what they *)
(* clear is clear.                                                         *)
InitRings ==
  /\ ~enabled
  /\ enabled' = TRUE
  /\ RDT' = NumRx - 1
  /\ UNCHANGED <<mac_addr, rx_descs, rx_cur, stat_rx, txVars, stat_tx, cardVars, mem>>

(* e1000_receive, first half: there is a frame, and it is copied.          *)
Received == rx_descs[rx_cur].dd

(* Second half: the descriptor goes back to the card.                      *)
TailAtCur == (rx_cur + 1) % NumRx

NewTail == rx_cur

ReleaseRx ==
  /\ rx_descs' = [rx_descs EXCEPT ![rx_cur].dd = FALSE]
  /\ rx_cur' = (rx_cur + 1) % NumRx
  /\ RDT' = NewTail
  /\ stat_rx' = stat_rx + 1
  /\ UNCHANGED <<mac_addr, txVars, stat_tx, cardVars, enabled, mem>>

(* e1000_send, first half: a descriptor for buffer b, handed to the card.  *)
KeepsStatus(b) == [dd |-> tx_descs[tx_cur].dd, buffer |-> b, meant |-> mem'[b]]

TxDesc(b) == [dd |-> FALSE, buffer |-> b, meant |-> mem'[b]]

NoWrap == tx_cur + 1

NextTx == (tx_cur + 1) % NumTx

StartSend(b) ==
  /\ tx_descs' = [tx_descs EXCEPT ![tx_cur] = TxDesc(b)]
  /\ tx_cur' = NextTx
  /\ TDT' = NextTx
  /\ UNCHANGED <<mac_addr, rxVars, stat_tx, cardVars, enabled>>

(* Second half: the busy-wait ends when the card is done or when its       *)
(* counter runs out.  The descriptors are not volatile, so the compiler    *)
(* may read the status once: the wait can be of any length.                *)
old == (tx_cur - 1) % NumTx

SendDone ==
  /\ tx_descs[old].dd
  /\ stat_tx' = stat_tx + 1

SendTimeout == UNCHANGED stat_tx

=============================================================================
