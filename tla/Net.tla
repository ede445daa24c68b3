-------------------------------- MODULE Net --------------------------------
(* The network stack (kernel/net/net.c) over E1000: boot reads the card's  *)
(* address, sets up the rings and starts the polling task if the link is   *)
(* up (kernel.c); the task answers ARP requests and pings, one frame at a  *)
(* time.  A frame is its kind, the address it is for and the host it comes *)
(* from; hosts send well-formed frames.                                    *)
EXTENDS E1000

CONSTANT MaxFrames   \* bound on the frames that arrive

ASSUME NetAssumption == {"stack", "static"} \subseteq Buffers /\ MaxFrames \in Nat

VARIABLES
  at,          \* where kernel_main, later the net task, is
  our_mac,     \* net_init's copy of mac_addr
  buf,         \* the buffer of net_poll
  polled,      \* the frame that e1000_receive returned last
  abandoned,   \* a send was given up before the card was done with it
  asked,       \* hosts whose accepted request was not answered yet
  arrivals     \* frames that arrived

taskVars == <<at, our_mac, buf, polled, abandoned>>
vars == <<e1000Vars, taskVars, asked, arrivals>>

Us == "us"
Running == {"poll", "release", "handle", "wait"}

Init ==
  /\ e1000Init
  /\ at = "mac1"
  /\ our_mac = [w \in Words |-> FALSE]
  /\ buf = Nothing
  /\ polled = Nothing
  /\ abandoned = FALSE
  /\ asked = {}
  /\ arrivals = 0

----------------------------------------------------------------------------

(* kernel_main: e1000_init, net_init, and later the task.                  *)

(* No card: e1000_init fails and e1000_link_up says no.                    *)
NoCard ==
  /\ at = "mac1"
  /\ at' = "off"
  /\ UNCHANGED <<e1000Vars, our_mac, buf, polled, abandoned, asked, arrivals>>

ReadMac ==
  /\ \/ at = "mac1" /\ ReadWord(1) /\ at' = "mac2"
     \/ at = "mac2" /\ ReadWord(2) /\ at' = "mac3"
     \/ at = "mac3" /\ ReadWord(3) /\ at' = "rings"
     \/ at \in {"mac1", "mac2", "mac3"} /\ EepromTimeout /\ at' = "rings"
  /\ UNCHANGED <<our_mac, buf, polled, abandoned, asked, arrivals>>

e1000_init ==
  /\ at = "rings"
  /\ InitRings
  /\ at' = "net_init"
  /\ UNCHANGED <<our_mac, buf, polled, abandoned, asked, arrivals>>

net_init ==
  /\ at = "net_init"
  /\ our_mac' = mac_addr
  /\ at' = "link"
  /\ UNCHANGED <<e1000Vars, buf, polled, abandoned, asked, arrivals>>

(* The link is looked at once.                                             *)
StartTask ==
  /\ at = "link"
  /\ at' \in {"poll", "off"}
  /\ UNCHANGED <<e1000Vars, our_mac, buf, polled, abandoned, asked, arrivals>>

----------------------------------------------------------------------------

(* net_task: net_poll over and over.                                       *)
PollNothing ==
  /\ at = "poll"
  /\ ~Received
  /\ UNCHANGED vars

PollCopy ==
  /\ at = "poll"
  /\ Received
  /\ buf' = rx_descs[rx_cur].frame
  /\ at' = "release"
  /\ UNCHANGED <<e1000Vars, our_mac, polled, abandoned, asked, arrivals>>

PollRelease ==
  /\ at = "release"
  /\ ReleaseRx
  /\ polled' = buf
  /\ at' = "handle"
  /\ UNCHANGED <<our_mac, buf, abandoned, asked, arrivals>>

(* The requests that handle_arp and handle_ip answer, and from where: the  *)
(* reply to ARP lies on the stack, the one to a ping in a static buffer.   *)
Answered(f) == f.kind \in {"arp_request", "echo_request"} /\ f.to = Us

ReplyBuffer(f) == IF f.kind = "arp_request" THEN "stack" ELSE "static"

handle_arp(f) == [kind |-> "arp_reply", to |-> f.from, src |-> our_mac]

KeepsDestination(f) == [kind |-> "echo_reply", to |-> f.to, src |-> our_mac]

handle_icmp(f) == [kind |-> "echo_reply", to |-> f.from, src |-> our_mac]

Reply(f) == IF f.kind = "arp_request" THEN handle_arp(f) ELSE handle_icmp(f)

Ignore ==
  /\ at = "handle"
  /\ ~Answered(buf)
  /\ at' = "poll"
  /\ UNCHANGED <<e1000Vars, our_mac, buf, polled, abandoned, asked, arrivals>>

Handle ==
  /\ at = "handle"
  /\ Answered(buf)
  /\ mem' = [mem EXCEPT ![ReplyBuffer(buf)] = Reply(buf)]
  /\ StartSend(ReplyBuffer(buf))
  /\ at' = "wait"
  /\ UNCHANGED <<our_mac, buf, polled, abandoned, asked, arrivals>>

(* e1000_send is back; its result is not looked at.  With the return of    *)
(* handle_arp the stack is free for other uses.                            *)
Return ==
  /\ at = "wait"
  /\ \/ SendDone /\ UNCHANGED abandoned
     \/ SendTimeout /\ abandoned' = (abandoned \/ ~tx_descs[old].dd)
  /\ mem' = [mem EXCEPT !["stack"] = Nothing]
  /\ at' = "poll"
  /\ UNCHANGED <<mac_addr, rxVars, txVars, cardVars, enabled, our_mac, buf, polled,
                 asked, arrivals>>

NetTask == PollNothing \/ PollCopy \/ PollRelease \/ Ignore \/ Handle \/ Return

----------------------------------------------------------------------------

(* The card's steps, with the hosts on the other side.                     *)
Arrive(f) ==
  /\ arrivals < MaxFrames
  /\ NicReceive(f)
  /\ arrivals' = arrivals + 1
  /\ asked' = IF RDH # RDT /\ Answered(f) THEN asked \cup {f.from} ELSE asked
  /\ UNCHANGED taskVars

Transmit ==
  /\ NicSend
  /\ asked' = IF wire'.frame = Nothing THEN asked ELSE asked \ {wire'.frame.to}
  /\ UNCHANGED <<taskVars, arrivals>>

Next ==
  \/ NoCard
  \/ ReadMac
  \/ e1000_init
  \/ net_init
  \/ StartTask
  \/ NetTask
  \/ \E f \in Frames : Arrive(f)
  \/ Transmit

(* The net task gets its turns from the round-robin scheduler; the card    *)
(* sends what it was given.                                                *)
Spec == Init /\ [][Next]_vars /\ WF_vars(NetTask) /\ WF_vars(Transmit)

----------------------------------------------------------------------------

(* Every variable stays in its range; the two sides of the receive ring    *)
(* never meet (e1000.c:160-192, 297-337).                                  *)
TypeOK ==
  /\ at \in {"mac1", "mac2", "mac3", "rings", "net_init", "link", "off"} \cup Running
  /\ {mac_addr, our_mac} \subseteq [Words -> BOOLEAN]
  /\ \A i \in RxSlots : rx_descs[i].dd => rx_descs[i].frame \in Frames
  /\ \A i \in TxSlots : tx_descs[i].buffer \in Buffers \cup {Nothing}
  /\ {rx_cur, RDH, RDT} \subseteq RxSlots /\ {tx_cur, TDH, TDT} \subseteq TxSlots
  /\ enabled => RDT = (rx_cur - 1) % NumRx
  /\ {buf, polled} \subseteq Frames \cup {Nothing}
  /\ abandoned \in BOOLEAN
  /\ {stat_rx, stat_tx, sent, arrivals} \subseteq 0 .. MaxFrames

(* The frames that wait in the ring, oldest first.                         *)
Waiting == Contents(NumRx, RDH, rx_cur, [i \in RxSlots |-> rx_descs[i].frame])

Rx == INSTANCE BoundedQueue WITH
        Capacity <- NumRx - 1, Chars <- Frames \cup {Nothing}, queue <- Waiting,
        last <- polled, overlap <- FALSE

(* The receive ring is a queue that loses a frame only when it is full and *)
(* never an accepted one: the card does not overwrite a frame that the     *)
(* driver has not copied, however the two interleave, and net_poll gets    *)
(* the frames in the order in which they arrived (e1000.c:160-176,         *)
(* 320-337).                                                               *)
RingIsQueue == Rx!Spec

(* As long as no send was given up while the card still had it to do, what *)
(* goes out is what the handler built, with the card's whole address as    *)
(* its source, although reply buffers are reused and the address may have  *)
(* come from either place (e1000.c:132-156, 297-318; net.c:42-60, 84-110). *)
SentAsMeant ==
  ~abandoned /\ wire.meant # Nothing =>
    /\ wire.frame = wire.meant
    /\ \A w \in Words : wire.frame.src[w]

(* The driver counts no frame that the card did not send: the status it    *)
(* waits for is never one left from an earlier lap of the ring             *)
(* (e1000.c:305-316).  And the card sends nothing twice, though sends that *)
(* were given up may lap its ring: there is a frame counted as received    *)
(* for each one sent, and one that arrived for each of those               *)
(* (e1000.c:303-310, 328-334).                                             *)
CountsOnlySent == stat_tx <= sent /\ sent <= stat_rx /\ stat_rx <= arrivals

(* A host whose request was accepted gets its answer, if the task runs and *)
(* no send was given up too early (net.c:146-163; e1000.c:297-337;         *)
(* kernel.c:81-86).                                                        *)
RequestsAnswered ==
  \A h \in {f.from : f \in Frames} :
    h \in asked /\ at \in Running ~> h \notin asked \/ abandoned

=============================================================================
