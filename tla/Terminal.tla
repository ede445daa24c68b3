------------------------------ MODULE Terminal ------------------------------
(***************************************************************************)
(* The terminal: the shell thread (kernel/shell.c) reads lines from the    *)
(* keyboard driver and echoes them to the console, while a ring-3 task     *)
(* uses the same keyboard and the same console through sys_read and        *)
(* sys_write (kernel/syscall/syscall.c).  At this stage the demo tasks     *)
(* have returned and net_task prints nothing, so these are the users of    *)
(* both.                                                                   *)
(*                                                                         *)
(* The shell can be preempted between any two steps; a system call is one  *)
(* step, except that sys_read waits in its loop.                           *)
(***************************************************************************)
EXTENDS Keyboard, Console

CONSTANTS
  LineMax,      \* CMD_MAX (shell.c)
  MaxEvents     \* bound: key events

ASSUME ShellAssumption == Threads # {} /\ LineMax \in Nat \ {0}

VARIABLES
  mode,       \* the shell is in shell_readline or has a line to execute
  line_len,
  out,        \* what the shell still has to print
  putting,    \* the step of vga_putchar it has reached
  user,       \* the ring-3 task: running, or waiting in sys_read
  events

shellVars == <<mode, line_len, out, putting>>
vars == <<kbVars, cursor, shellVars, user, events>>

Shell == CHOOSE r \in Threads : TRUE
Prompt == <<"prompt">>

(* shell_run, about to print its prompt.                                   *)
Init ==
  /\ kbInit
  /\ cursor = Home
  /\ mode = "read"
  /\ line_len = 0
  /\ out = Prompt
  /\ putting = "char"
  /\ user = "ring3"
  /\ events = 0

----------------------------------------------------------------------------

Press ==
  /\ events < MaxEvents
  /\ events' = events + 1
  /\ \E k \in Keys, released \in BOOLEAN : KeyEvent(k, released)
  /\ UNCHANGED <<cursor, shellVars, user>>

Irq1 ==
  /\ keyboard_irq_handler
  /\ UNCHANGED <<cursor, shellVars, user, events>>

----------------------------------------------------------------------------

(* keyboard_getchar called by shell_readline.                              *)
ShellGetchar ==
  /\ mode = "read"
  /\ out = << >>
  /\ GetcharStep(Shell)
  /\ UNCHANGED <<cursor, shellVars, user, events>>

Printable(c) == c \in {"a", "A", "1", "!"}

RoomForTheNul(c) == line_len < LineMax

RoomFor(c) == line_len < LineMax - 1

(* The rest of the loop of shell_readline for the character it got: Enter  *)
(* ends the line, Backspace takes a character back, a printable one is     *)
(* stored if the line has room, everything else is ignored.                *)
shell_readline ==
  /\ mode = "read"
  /\ out = << >>
  /\ Advance(Shell)
  /\ LET c == char[Shell] IN
     \/ /\ c = "nl"
        /\ out' = <<"nl">>
        /\ mode' = "execute"
        /\ UNCHANGED line_len
     \/ /\ c = "bs" /\ line_len > 0
        /\ line_len' = line_len - 1
        /\ out' = <<"bs", "sp", "bs">>
        /\ UNCHANGED mode
     \/ /\ Printable(c) /\ RoomFor(c)
        /\ line_len' = line_len + 1
        /\ out' = <<c>>
        /\ UNCHANGED mode
     \/ /\ ~ (c = "nl" \/ (c = "bs" /\ line_len > 0) \/ (Printable(c) /\ RoomFor(c)))
        /\ UNCHANGED <<mode, line_len, out>>
  /\ UNCHANGED <<cursor, putting, user, events>>

(* shell_execute, and the return to shell_prompt and shell_readline.  An   *)
(* empty line does nothing, clear resets the console, any other line       *)
(* prints something.                                                       *)
shell_execute ==
  /\ mode = "execute"
  /\ out = << >>
  /\ \/ line_len = 0 /\ out' = Prompt /\ UNCHANGED cursor
     \/ line_len > 0 /\ out' = <<"text">> \o Prompt /\ UNCHANGED cursor
     \/ line_len > 0 /\ out' = Prompt /\ cursor' = Home
  /\ mode' = "read"
  /\ line_len' = 0
  /\ UNCHANGED <<kbVars, putting, user, events>>

(* vga_putchar called by the shell.                                        *)
PutChar ==
  /\ out # << >>
  /\ putting = "char"
  /\ cursor' = Written(cursor, Head(out))
  /\ putting' = "wrap"
  /\ UNCHANGED <<kbVars, mode, line_len, out, user, events>>

PutWrap ==
  /\ putting = "wrap"
  /\ cursor' = Wrapped(cursor)
  /\ putting' = "scroll"
  /\ UNCHANGED <<kbVars, mode, line_len, out, user, events>>

PutScroll ==
  /\ putting = "scroll"
  /\ cursor' = Scrolled(cursor)
  /\ putting' = "char"
  /\ out' = Tail(out)
  /\ UNCHANGED <<kbVars, mode, line_len, user, events>>

----------------------------------------------------------------------------

(* sys_read with fd 0: wait while the ring is empty, else take one         *)
(* character.                                                              *)
SysReadWait ==
  /\ user = "ring3"
  /\ kb_head = kb_tail
  /\ user' = "waiting"
  /\ UNCHANGED <<kbVars, cursor, shellVars, events>>

sys_read ==
  /\ SysGetchar
  /\ user' = "ring3"
  /\ UNCHANGED <<cursor, shellVars, events>>

(* One character of a sys_write with fd 1.                                 *)
sys_write ==
  /\ user = "ring3"
  /\ \E c \in {"text", "nl", "cr", "tab", "bs"} : cursor' = Put(cursor, c)
  /\ UNCHANGED <<kbVars, shellVars, user, events>>

----------------------------------------------------------------------------

ShellStep ==
  \/ ShellGetchar
  \/ shell_readline
  \/ shell_execute
  \/ PutChar
  \/ PutWrap
  \/ PutScroll

Next == Press \/ Irq1 \/ ShellStep \/ SysReadWait \/ sys_read \/ sys_write

(* The scheduler starves no ready thread (NoStarvation in Scheduler), the  *)
(* shell is always ready, and the PIC delivers a pending IRQ1.             *)
Spec == Init /\ [][Next]_vars /\ WF_vars(ShellStep) /\ WF_vars(Irq1)

----------------------------------------------------------------------------

(* The variables stay in their ranges; in particular line_len leaves room  *)
(* for the terminating nul (shell.c:476, 489) and no overlap of readers    *)
(* takes an index out of the ring.                                         *)
TypeOK ==
  /\ kbTypeOK
  /\ mode \in {"read", "execute"}
  /\ line_len \in 0 .. LineMax - 1
  /\ putting \in {"char", "wrap", "scroll"}
  /\ user \in {"ring3", "waiting"}

(* Between two characters of the shell the write position is on the        *)
(* screen, whatever sys_write did while the shell was preempted inside     *)
(* vga_putchar (vga.c:109-118).                                            *)
CursorHeals == putting = "char" => OnScreen(cursor)

(* The cell the next character would be stored in is on the screen, or the *)
(* one behind it while the shell is preempted inside vga_putchar: that is  *)
(* where a sys_write may store (vga.c:103-104).                            *)
StoresOnScreen ==
  Cell(cursor) < Width * Height + (IF putting = "char" THEN 0 ELSE 1)

(* A buffered character does not stay unread: the shell waiting in         *)
(* keyboard_getchar sees it (keyboard.c:167-172), even if another reader   *)
(* takes characters in between.                                            *)
BufferedIsRead ==
  \A i \in Slot : (kb_tail = i /\ kb_head # i) ~> (kb_tail # i)
============================================================================
