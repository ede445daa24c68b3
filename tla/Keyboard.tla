------------------------------ MODULE Keyboard ------------------------------
(***************************************************************************)
(* The PS/2 keyboard driver: kernel/drivers/keyboard.c.  IRQ1 decodes one  *)
(* byte per interrupt and puts characters into a ring; the shell thread    *)
(* and ring-3 tasks take them out with keyboard_getchar.                   *)
(*                                                                         *)
(* IRQ1 and a system call run with IF = 0, so each is one step.  In a      *)
(* ring-0 thread keyboard_getchar can be interrupted and preempted between *)
(* any two of its accesses to the volatile indices, and is cut there: it   *)
(* reads kb_head, compares it with kb_tail, loads the character at         *)
(* kb_tail, and re-reads kb_tail to advance it.                            *)
(*                                                                         *)
(* The scancode tables are abstracted to one key of each kind: a letter, a *)
(* key whose shifted character is no letter, Enter, Backspace and a key    *)
(* without a character.                                                    *)
(***************************************************************************)
EXTENDS Rings

CONSTANTS
  Size,         \* KB_BUFFER_SIZE (keyboard.h)
  Threads,      \* ring-0 threads that call keyboard_getchar
  Keys          \* the keys that are pressed

ASSUME SizeAssumption == Size \in Nat \ {0}
ASSUME KeysAssumption == "E0" \notin Keys      \* 0xE0 is the code of no key

VARIABLES
  modifiers, extended_pending, kb_buffer, kb_head, kb_tail,
  at,         \* where each thread is in keyboard_getchar
  seen,       \* the kb_head it compared
  char,       \* the character it loaded
  last,       \* history: the character keyboard_getchar returned last
  parity,     \* history: flips with every call of buf_put
  torn,       \* history: kb_tail moved under a reader that relied on it
  port,       \* the bytes the keyboard has sent and IRQ1 has not yet read
  held        \* the keys that are physically down

ring == <<kb_buffer, kb_head, kb_tail>>
readers == <<at, seen, char>>
device == <<port, held>>
kbVars == <<modifiers, extended_pending, ring, readers, last, parity, torn, device>>

Nul == "nul"
Chars == {Nul, "a", "A", "1", "!", "nl", "bs"}
Slot == 0 .. Size - 1

(* The modifier keys; KB_MOD_* are named after them.                       *)
HeldKeys == {"lshift", "rshift", "ctrl", "alt"}

(* The two bytes of an extended key: the prefix and the code of the key of *)
(* the same name without prefix.  rctrl stands for all of them.            *)
E0 == [key |-> "E0", released |-> FALSE]
Codes(k, released) ==
  IF k = "rctrl" THEN <<E0, [key |-> "ctrl", released |-> released]>>
                 ELSE <<[key |-> k, released |-> released]>>

sc_normal == [letter |-> "a", digit |-> "1", enter |-> "nl", bksp |-> "bs", f1 |-> Nul]
sc_shifted == [letter |-> "A", digit |-> "!", enter |-> "nl", bksp |-> "bs", f1 |-> Nul]
CharKeys == DOMAIN sc_normal

is_alpha(c) == c \in {"a", "A"}
toggle_case(c) == IF c = "a" THEN "A" ELSE IF c = "A" THEN "a" ELSE c

(* keyboard_init, at the end of which no key is down.                      *)
kbInit ==
  /\ modifiers = {}
  /\ extended_pending = FALSE
  /\ kb_buffer = [i \in Slot |-> Nul]
  /\ kb_head = 0
  /\ kb_tail = 0
  /\ at = [r \in Threads |-> "out"]
  /\ seen = [r \in Threads |-> 0]
  /\ char = [r \in Threads |-> Nul]
  /\ last = Nul
  /\ parity = 0
  /\ torn = FALSE
  /\ port = << >>
  /\ held = {}

----------------------------------------------------------------------------

(* The keyboard sends the bytes of a key that goes down, repeats or goes   *)
(* up.  The controller holds them until IRQ1 has read them.                *)
KeyEvent(k, released) ==
  /\ port = << >>
  /\ released => k \in held
  /\ port' = Codes(k, released)
  /\ held' = IF released THEN held \ {k} ELSE held \cup {k}
  /\ UNCHANGED <<modifiers, extended_pending, ring, readers, last, parity, torn>>

(* What a byte that is not part of an extended key does to the modifiers:  *)
(* the held ones follow press and release, Caps Lock toggles on press.     *)
NewModifiers(b) ==
  IF b.key \in HeldKeys
    THEN IF b.released THEN modifiers \ {b.key} ELSE modifiers \cup {b.key}
  ELSE IF b.key = "caps" /\ ~b.released
    THEN (modifiers \cup {"caps"}) \ (modifiers \cap {"caps"})
  ELSE modifiers

(* The character of such a byte, Nul when there is none to buffer.         *)
Translated(b) ==
  IF b.key \notin CharKeys \/ b.released
    THEN Nul
    ELSE LET shift == modifiers \cap {"lshift", "rshift"} # {}
             c == IF shift THEN sc_shifted[b.key] ELSE sc_normal[b.key]
         IN  IF is_alpha(c) /\ "caps" \in modifiers THEN toggle_case(c) ELSE c

(* buf_put, which drops the character when the ring is full.               *)
OverwritesWhenFull(c) ==
  /\ kb_buffer' = [kb_buffer EXCEPT ![kb_head] = c]
  /\ kb_head' = (kb_head + 1) % Size

buf_put(c) ==
  LET next == (kb_head + 1) % Size IN
  IF next = kb_tail
    THEN UNCHANGED <<kb_buffer, kb_head>>
    ELSE /\ kb_buffer' = [kb_buffer EXCEPT ![kb_head] = c]
         /\ kb_head' = next

(* A byte to skip: an E0 prefix or the byte behind one.                    *)
SkipsPrefixOnly(b) == b = E0

Skipped(b) == b = E0 \/ extended_pending

(* IRQ1.                                                                   *)
keyboard_irq_handler ==
  /\ port # << >>
  /\ LET b == Head(port) IN
     /\ port' = Tail(port)
     /\ extended_pending' = (b = E0)
     /\ modifiers' = IF Skipped(b) THEN modifiers ELSE NewModifiers(b)
     /\ IF Skipped(b) \/ Translated(b) = Nul
          THEN UNCHANGED <<kb_buffer, kb_head, parity>>
          ELSE buf_put(Translated(b)) /\ parity' = 1 - parity
  /\ UNCHANGED <<kb_tail, readers, last, torn, held>>

----------------------------------------------------------------------------

(* A thread that will not look at the indices again before it uses what it *)
(* concluded from them: the ring was not empty.                            *)
Relies(r) == at[r] \in {"load", "advance"} \/ (at[r] = "cmp" /\ seen[r] # kb_head)

(* kb_tail = (kb_tail + 1) % KB_BUFFER_SIZE, with c returned, while the    *)
(* threads in others may be inside keyboard_getchar.                       *)
Return(c, others) ==
  /\ kb_tail' = (kb_tail + 1) % Size
  /\ last' = c
  /\ torn' = (torn \/ \E r \in others : Relies(r))

(* keyboard_getchar in a thread: evaluate kb_head == kb_tail.  An empty    *)
(* ring calls wait_func, which yields, and starts over.                    *)
ReadHead(r) ==
  /\ at[r] = "out"
  /\ at' = [at EXCEPT ![r] = "cmp"]
  /\ seen' = [seen EXCEPT ![r] = kb_head]
  /\ UNCHANGED <<modifiers, extended_pending, ring, char, last, parity, torn, device>>

OneIsEmpty(r) == seen[r] = kb_tail \/ seen[r] = (kb_tail + 1) % Size

LooksEmpty(r) == seen[r] = kb_tail

Compare(r) ==
  /\ at[r] = "cmp"
  /\ at' = [at EXCEPT ![r] = IF LooksEmpty(r) THEN "out" ELSE "load"]
  /\ seen' = [seen EXCEPT ![r] = 0]
  /\ UNCHANGED <<modifiers, extended_pending, ring, char, last, parity, torn, device>>

Load(r) ==
  /\ at[r] = "load"
  /\ at' = [at EXCEPT ![r] = "advance"]
  /\ char' = [char EXCEPT ![r] = kb_buffer[kb_tail]]
  /\ UNCHANGED <<modifiers, extended_pending, ring, seen, last, parity, torn, device>>

Advance(r) ==
  /\ at[r] = "advance"
  /\ Return(char[r], Threads \ {r})
  /\ at' = [at EXCEPT ![r] = "out"]
  /\ char' = [char EXCEPT ![r] = Nul]
  /\ UNCHANGED <<modifiers, extended_pending, kb_buffer, kb_head, seen, parity, device>>

(* keyboard_getchar inside INT 0x80 once the ring is not empty; until then *)
(* the handler yields in its loop.                                         *)
SysGetchar ==
  /\ kb_head # kb_tail
  /\ Return(kb_buffer[kb_tail], Threads)
  /\ UNCHANGED <<modifiers, extended_pending, kb_buffer, kb_head, readers, parity, device>>

GetcharStep(r) == ReadHead(r) \/ Compare(r) \/ Load(r)

kbNext ==
  \/ \E k \in Keys, released \in BOOLEAN : KeyEvent(k, released)
  \/ keyboard_irq_handler
  \/ \E r \in Threads : GetcharStep(r) \/ Advance(r)
  \/ SysGetchar

kbSpec == kbInit /\ [][kbNext]_kbVars

----------------------------------------------------------------------------

(* The variables stay in their ranges, overlapping readers or not: the     *)
(* indices inside the ring (keyboard.c:55, 175).                           *)
kbTypeOK ==
  /\ modifiers \subseteq HeldKeys \cup {"caps"}
  /\ extended_pending \in BOOLEAN
  /\ kb_buffer \in [Slot -> Chars]
  /\ kb_head \in Slot
  /\ kb_tail \in Slot
  /\ at \in [Threads -> {"out", "cmp", "load", "advance"}]
  /\ seen \in [Threads -> Slot]
  /\ char \in [Threads -> Chars]
  /\ last \in Chars
  /\ parity \in {0, 1}
  /\ torn \in BOOLEAN

(* The characters in the ring, oldest first.                               *)
Buffered == Contents(Size, kb_head, kb_tail, kb_buffer)

Queue == INSTANCE BoundedQueue WITH
  Capacity <- Size - 1, queue <- Buffered, overlap <- torn

(* The ring is a queue of KB_BUFFER_SIZE - 1 characters for readers that   *)
(* do not overlap, although IRQ1 may come between any two accesses of      *)
(* keyboard_getchar (keyboard.c:54-60, 166-177): no character is lost      *)
(* except to a full ring, none is returned twice or out of order.          *)
ImplementsQueue == Queue!Spec

(* Once IRQ1 has read everything the keyboard sent, the modifiers say      *)
(* which shift, ctrl and alt keys are down, and no extended key (right     *)
(* ctrl) is mistaken for one of them (keyboard.c:80-120).                  *)
ModifiersFollowKeys == port = << >> => modifiers \ {"caps"} = held \cap HeldKeys
============================================================================
