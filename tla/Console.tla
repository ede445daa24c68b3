------------------------------ MODULE Console ------------------------------
(***************************************************************************)
(* The write position of the text console: kernel/drivers/vga.c.  The      *)
(* cells themselves, their colours and the hardware cursor are output only *)
(* and are left out; what is kept is where each character is stored.       *)
(* vga_putchar takes three steps, each of which reads the position afresh: *)
(* the character itself, the line wrap, the scroll.                        *)
(***************************************************************************)
EXTENDS Integers

CONSTANTS
  Width,      \* VGA_WIDTH (vga.h)
  Height,     \* VGA_HEIGHT (vga.h)
  TabStop     \* 8, the tab distance in vga_putchar

ASSUME ScreenAssumption ==
  /\ Width \in Nat \ {0}
  /\ Height \in Nat \ {0}
  /\ TabStop \in Nat \ {0}
  /\ Width % TabStop = 0

VARIABLE cursor     \* [x |-> vga_cursor_x, y |-> vga_cursor_y]

Home == [x |-> 0, y |-> 0]

(* The cell a printed character is stored in.                              *)
Cell(p) == p.y * Width + p.x

(* The if-chain at the start of vga_putchar.                               *)
Written(p, c) ==
  CASE c = "nl"  -> [x |-> 0, y |-> p.y + 1]
    [] c = "cr"  -> [p EXCEPT !.x = 0]
    [] c = "tab" -> [p EXCEPT !.x = ((p.x + TabStop) \div TabStop) * TabStop]
    [] c = "bs"  -> [p EXCEPT !.x = IF p.x > 0 THEN p.x - 1 ELSE 0]
    [] OTHER     -> [p EXCEPT !.x = p.x + 1]

(* The line wrap.                                                          *)
WrapsLate(p) == IF p.x > Width THEN [x |-> 0, y |-> p.y + 1] ELSE p

Wrapped(p) == IF p.x >= Width THEN [x |-> 0, y |-> p.y + 1] ELSE p

(* The scroll, which leaves the position on the last line.                 *)
ScrollsOneLineUp(p) == IF p.y > Height THEN [p EXCEPT !.y = p.y - 1] ELSE p

Scrolled(p) == IF p.y >= Height THEN [p EXCEPT !.y = Height - 1] ELSE p

(* The whole of vga_putchar.                                               *)
Put(p, c) == Scrolled(Wrapped(Written(p, c)))

OnScreen(p) == p.x \in 0 .. Width - 1 /\ p.y \in 0 .. Height - 1
============================================================================
