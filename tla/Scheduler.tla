----------------------------- MODULE Scheduler -----------------------------
(***************************************************************************)
(* The preemptive round-robin scheduler: kernel/proc/task.c together with  *)
(* the interrupt path that drives it (isr_common_stub, isr_handler, the    *)
(* timer IRQ, INT 0x80 and INT 0x81) and the TSS field ESP0.               *)
(*                                                                         *)
(* There is one CPU.  Every gate is an interrupt gate, so an interrupt     *)
(* handler runs with IF = 0 from the push of its frame to its iret: one    *)
(* action is one whole interrupt.  Everything else is preemptible, so      *)
(* task_exit and the two creation functions are cut into the stores that   *)
(* an interrupt can separate.                                              *)
(*                                                                         *)
(* A kernel stack is named by the slot it was allocated for (slots are     *)
(* never reused, and slot 0 owns the boot stack).  saved[s] is the         *)
(* interrupt frame that lies on stack s, or NoFrame once it was popped or  *)
(* overwritten.  A frame is abstracted to the thread it resumes and the    *)
(* place where that thread continues.  INT 0x81 issued inside an INT 0x80  *)
(* handler leaves two frames on the stack: the continuation "sysread" or   *)
(* "syshlt" of the inner one stands for both.                              *)
(***************************************************************************)
EXTENDS Integers, FiniteSets

CONSTANT MaxTasks        \* MAX_TASKS (task.h)

ASSUME MaxTasksAssumption == MaxTasks \in Nat \ {0}

VARIABLES
  state,            \* tasks[].state
  esp,              \* tasks[].esp: the stack whose frame resumes the task
  ktop,             \* tasks[].kernel_stack_top: a stack, Null for task 0
  current,          \* current
  count,            \* count
  need_reschedule,  \* need_reschedule
  esp0,             \* tss.esp0: the stack a ring 3 -> 0 transition uses
  saved,            \* the interrupt frame on each kernel stack
  cpu,              \* what the CPU executes: thread, place, kernel stack
  creating,         \* id in the creation function task 0 is in, or Null
  userKind,         \* that function is task_create_user
  raced             \* history: a slot was dispatched before it was complete

schedVars == <<state, esp, ktop, current, count, need_reschedule, esp0, saved>>
createVars == <<creating, userKind>>
vars == <<schedVars, cpu, createVars, raced>>

TaskStates == {"READY", "RUNNING", "TERMINATED"}   \* task_state_t

Slots == 0 .. MaxTasks - 1
Null  == -1
Stacks == Slots \cup {Null}

(* Where a thread can be.  "run": ring-0 thread code; "exit": task_exit    *)
(* between marking the slot and INT 0x81; "hlt": the final loop of         *)
(* task_exit; "user": ring 3; "sysread": keyboard_getchar inside INT 0x80; *)
(* "syshlt": the final loop of task_exit inside INT 0x80; the c_ places    *)
(* are in task_create and task_create_user.                                *)
CreatePlaces == {"c_kmalloc", "c_esp", "c_ktop", "c_state"}
ThreadPlaces == {"run", "exit", "hlt", "user", "sysread", "syshlt"} \cup CreatePlaces

Context == [task : Slots, pc : ThreadPlaces]
NoFrame == [task |-> Null, pc |-> "none"]

Fault == [task |-> Null, pc |-> "fault", stk |-> Null]

(* EFLAGS.IF of the running thread: a syscall handler runs with IF = 0 and *)
(* the frame of an INT 0x81 inside it restores IF = 0.                     *)
InterruptsOn == cpu.pc \in ThreadPlaces \ {"sysread", "syshlt"}

(* The stack on which the CPU pushes an interrupt frame.                   *)
EntryStack == IF cpu.pc = "user" THEN esp0 ELSE cpu.stk

----------------------------------------------------------------------------

(* find_next_ready: scan the slots cyclically from current + 1, skip       *)
(* current itself, fall back to current.                                   *)
ScanFromZero(t) == t

ScanDistance(t) == IF t > current THEN t - current ELSE t - current + count

Runnable(st) == {t \in 0 .. count - 1 : t # current /\ st[t] \in {"READY", "RUNNING"}}

find_next_ready(st) ==
  IF Runnable(st) = {}
    THEN current
    ELSE CHOOSE t \in Runnable(st) :
           \A u \in Runnable(st) : ScanDistance(t) <= ScanDistance(u)

(* task_init leaves this state.  A tick between its last two stores leaves *)
(* need_reschedule set.                                                    *)
Init ==
  /\ state = [t \in Slots |-> IF t = 0 THEN "RUNNING" ELSE "READY"]
  /\ esp = [t \in Slots |-> Null]
  /\ ktop = [t \in Slots |-> Null]
  /\ current = 0
  /\ count = 1
  /\ need_reschedule \in BOOLEAN
  /\ esp0 = Null
  /\ saved = [s \in Slots |-> NoFrame]
  /\ cpu = [task |-> 0, pc |-> "run", stk |-> 0]
  /\ creating = Null
  /\ userKind = FALSE
  /\ raced = FALSE

----------------------------------------------------------------------------

(* The end of isr_common_stub: load the frame found on stack s and iret.   *)
(* A frame that is not there sends the CPU to an arbitrary place.          *)
Resume(mem, s) ==
  IF s = Null \/ mem[s] = NoFrame
    THEN /\ cpu' = Fault
         /\ saved' = mem
    ELSE /\ cpu' = [task |-> mem[s].task, pc |-> mem[s].pc,
                    stk  |-> IF mem[s].pc = "user" THEN Null ELSE s]
         /\ saved' = [mem EXCEPT ![s] = NoFrame]

(* What the switch makes of the outgoing task's state: only RUNNING        *)
(* becomes READY, TERMINATED stays.                                        *)
DemoteAlways(s) == "READY"

DemoteNever(s) == s

Demoted(s) == IF s = "RUNNING" THEN "READY" ELSE s

(* tss_set_esp0, called unless the incoming task has no kernel_stack_top.  *)
Esp0OfOutgoing(next) == IF ktop[current] # Null THEN ktop[current] ELSE esp0

Esp0Never(next) == esp0

NextEsp0(next) == IF ktop[next] # Null THEN ktop[next] ELSE esp0

(* tasks[current].esp = esp.                                               *)
SavedToIncoming(next, s) == [esp EXCEPT ![next] = s]

SavedEsp(next, s) == [esp EXCEPT ![current] = s]

(* task_schedule_if_needed, called with the frame on stack s and the task  *)
(* states st that the handler left.                                        *)
task_schedule_if_needed(s, mem, st, request) ==
  LET next == find_next_ready(st) IN
  /\ need_reschedule' = FALSE
  /\ \/ /\ ~ (need_reschedule \/ request) \/ next = current
        /\ state' = st
        /\ Resume(mem, s)
        /\ UNCHANGED <<esp, current, esp0, raced>>
     \/ /\ need_reschedule \/ request
        /\ next # current
        /\ esp' = SavedEsp(next, s)
        /\ state' = [st EXCEPT ![current] = Demoted(@), ![next] = "RUNNING"]
        /\ current' = next
        /\ esp0' = NextEsp0(next)
        /\ raced' = (raced \/ next = creating)
        /\ Resume(mem, esp[next])

(* One interrupt: push a frame that continues the running thread at pc,    *)
(* run a handler that leaves the task states st and may request a switch,  *)
(* then the scheduler.  With ESP0 still 0 the push itself goes astray.     *)
Interrupt(s, pc, st, request) ==
  \/ /\ s = Null
     /\ cpu' = Fault
     /\ UNCHANGED <<schedVars, raced>>
  \/ /\ s # Null
     /\ task_schedule_if_needed(s, [saved EXCEPT ![s] = [task |-> cpu.task, pc |-> pc]],
                                st, request)
     /\ UNCHANGED <<ktop, count>>

(* IRQ0: timer_irq_handler requests a reschedule.                          *)
TimerIrq ==
  /\ InterruptsOn
  /\ Interrupt(EntryStack, cpu.pc, state, TRUE)
  /\ UNCHANGED createVars

(* Any other IRQ: its handler touches no scheduler state.                  *)
DeviceIrq ==
  /\ InterruptsOn
  /\ Interrupt(EntryStack, cpu.pc, state, FALSE)
  /\ UNCHANGED createVars

----------------------------------------------------------------------------

(* task_yield called by a ring-0 thread (net_task, keyboard_getchar).      *)
task_yield ==
  /\ cpu.pc = "run"
  /\ Interrupt(cpu.stk, "run", state, TRUE)
  /\ UNCHANGED createVars

(* task_exit, reached when the entry function of a ring-0 thread returns.  *)
(* The boot thread never returns.                                          *)
task_exit ==
  /\ cpu.pc = "run"
  /\ cpu.task # 0
  /\ state' = [state EXCEPT ![current] = "TERMINATED"]
  /\ cpu' = [cpu EXCEPT !.pc = "exit"]
  /\ UNCHANGED <<esp, ktop, current, count, need_reschedule, esp0, saved, createVars, raced>>

(* The INT 0x81 of task_exit.                                              *)
TaskExitYield ==
  /\ cpu.pc = "exit"
  /\ Interrupt(cpu.stk, "hlt", state, TRUE)
  /\ UNCHANGED createVars

----------------------------------------------------------------------------

(* INT 0x80 from ring 3.                                                   *)

sys_yield ==
  /\ cpu.pc = "user"
  /\ Interrupt(esp0, "user", state, TRUE)
  /\ UNCHANGED createVars

(* sys_exit: task_exit and its INT 0x81 inside the handler.                *)
sys_exit ==
  /\ cpu.pc = "user"
  /\ Interrupt(esp0, "syshlt", [state EXCEPT ![current] = "TERMINATED"], TRUE)
  /\ UNCHANGED createVars

(* sys_read with an empty keyboard buffer: INT 0x81 inside the handler.    *)
SysReadWait ==
  /\ cpu.pc = "user"
  /\ Interrupt(esp0, "sysread", state, TRUE)
  /\ UNCHANGED createVars

(* The loop of keyboard_getchar after such a wait: still no key, or a key. *)
SysReadRetry ==
  /\ cpu.pc = "sysread"
  /\ \/ Interrupt(cpu.stk, "sysread", state, TRUE)
     \/ Interrupt(cpu.stk, "user", state, FALSE)
  /\ UNCHANGED createVars

(* Every other system call, and an unknown number.                         *)
SysOther ==
  /\ cpu.pc = "user"
  /\ Interrupt(esp0, "user", state, FALSE)
  /\ UNCHANGED createVars

----------------------------------------------------------------------------

(* task_create and task_create_user, called by the boot thread.            *)

RoomForOneTooMany == count <= MaxTasks

RoomForATask == count < MaxTasks

(* The bound check and id = count++, which publishes the slot.             *)
CreateBegin(user) ==
  /\ cpu.pc = "run"
  /\ cpu.task = 0
  /\ RoomForATask
  /\ creating' = count
  /\ count' = count + 1
  /\ userKind' = user
  /\ cpu' = [cpu EXCEPT !.pc = "c_kmalloc"]
  /\ UNCHANGED <<state, esp, ktop, current, need_reschedule, esp0, saved, raced>>

(* A stack allocation failed: count--, return -1.                          *)
CreateFail ==
  /\ cpu.pc = "c_kmalloc"
  /\ count' = count - 1
  /\ creating' = Null
  /\ cpu' = [cpu EXCEPT !.pc = "run"]
  /\ UNCHANGED <<state, esp, ktop, current, need_reschedule, esp0, saved, userKind, raced>>

(* The stacks are there: build the first frame on the kernel stack.        *)
CreateFrame ==
  /\ cpu.pc = "c_kmalloc"
  /\ saved' = [saved EXCEPT ![creating] =
                 [task |-> creating, pc |-> IF userKind THEN "user" ELSE "run"]]
  /\ cpu' = [cpu EXCEPT !.pc = "c_esp"]
  /\ UNCHANGED <<state, esp, ktop, current, count, need_reschedule, esp0, createVars, raced>>

CreateEsp ==
  /\ cpu.pc = "c_esp"
  /\ esp' = [esp EXCEPT ![creating] = creating]
  /\ cpu' = [cpu EXCEPT !.pc = "c_ktop"]
  /\ UNCHANGED <<state, ktop, current, count, need_reschedule, esp0, saved, createVars, raced>>

CreateKtop ==
  /\ cpu.pc = "c_ktop"
  /\ ktop' = [ktop EXCEPT ![creating] = creating]
  /\ cpu' = [cpu EXCEPT !.pc = "c_state"]
  /\ UNCHANGED <<state, esp, current, count, need_reschedule, esp0, saved, createVars, raced>>

CreateState ==
  /\ cpu.pc = "c_state"
  /\ state' = [state EXCEPT ![creating] = "READY"]
  /\ creating' = Null
  /\ cpu' = [cpu EXCEPT !.pc = "run"]
  /\ UNCHANGED <<esp, ktop, current, count, need_reschedule, esp0, saved, userKind, raced>>

CreateStep == CreateFail \/ CreateFrame \/ CreateEsp \/ CreateKtop \/ CreateState

----------------------------------------------------------------------------

(* The CPU stopped for good: an exception handler's loop, or HLT with      *)
(* IF = 0.                                                                 *)
Halted ==
  /\ cpu.pc \in {"fault", "syshlt"}
  /\ UNCHANGED vars

Next ==
  \/ TimerIrq
  \/ DeviceIrq
  \/ task_yield
  \/ task_exit
  \/ TaskExitYield
  \/ sys_yield
  \/ sys_exit
  \/ SysReadWait
  \/ SysReadRetry
  \/ SysOther
  \/ \E user \in BOOLEAN : CreateBegin(user)
  \/ CreateStep
  \/ Halted

Spec == Init /\ [][Next]_vars

(* The PIT ticks for ever and a pending tick is taken as soon as IF = 1.   *)
(* A thread that waits in a syscall handler runs on whenever it has the    *)
(* CPU.                                                                    *)
Fairness ==
  /\ WF_vars(TimerIrq)
  /\ WF_vars(SysReadRetry)

FairSpec == Spec /\ Fairness

----------------------------------------------------------------------------

(* Every variable stays in its range, also after a half-built slot was     *)
(* dispatched; in particular count never passes MAX_TASKS nor drops to 0   *)
(* on the failure path of a creation (task.c:86-90, 137-147).              *)
TypeOK ==
  /\ state \in [Slots -> TaskStates]
  /\ esp \in [Slots -> Stacks]
  /\ ktop \in [Slots -> Stacks]
  /\ count \in 1 .. MaxTasks
  /\ current \in Slots
  /\ need_reschedule \in BOOLEAN
  /\ esp0 \in Stacks
  /\ saved \in [Slots -> Context \cup {NoFrame}]
  /\ cpu \in [task : Slots, pc : ThreadPlaces, stk : Stacks] \cup {Fault}
  /\ creating \in Stacks
  /\ userKind \in BOOLEAN
  /\ raced \in BOOLEAN

(* As long as no half-built slot was dispatched, the CPU executes the task *)
(* that current names, and neither an exception loop nor the loop at the   *)
(* end of task_exit: every frame the interrupt path loads (isr.asm:110) is *)
(* the one that task left.                                                 *)
RunsCurrent ==
  ~raced => /\ cpu.task = current
            /\ cpu.pc \notin {"fault", "hlt", "syshlt"}

(* Until then the next interrupt frame goes onto the running task's own    *)
(* kernel stack, whether it comes from ring 0 or, through TSS.ESP0, from   *)
(* ring 3, although a switch to task 0 leaves ESP0 alone (task.c:237-239). *)
OwnStack == ~raced => EntryStack = current

(* The frame at a task's saved ESP is its own.                             *)
FrameWaits(t) ==
  /\ esp[t] # Null
  /\ saved[esp[t]].task = t

(* Until then every complete task that is not running and not terminated   *)
(* has its own frame waiting at its saved ESP (task.c:125, 230).           *)
FramesIntact ==
  ~raced => \A t \in Slots \ {current, creating} :
              t < count /\ state[t] = "READY" => FrameWaits(t)

(* Until then exactly the current task is RUNNING, and it is TERMINATED    *)
(* only between the two steps of task_exit (task.c:212, 231-235).          *)
OneRunning ==
  ~raced => /\ \A t \in Slots \ {current} : state[t] # "RUNNING"
            /\ state[current] # "READY"
            /\ state[current] = "TERMINATED" => cpu.pc = "exit"

(* What a step owes to terminated tasks.                                   *)
StaysTerminated ==
  \A t \in Slots : state[t] = "TERMINATED" =>
    /\ state'[t] = "TERMINATED"
    /\ t # current => current' # t

(* A terminated task is never revived and, once switched away from, never  *)
(* gets the CPU back, even when a tick lands between the two steps of its  *)
(* task_exit (task.c:211-215, 231).                                        *)
ExitIsFinal == [][~raced' => StaysTerminated]_vars

(* A complete task that is READY gets the CPU: round robin starves nobody, *)
(* whatever the others do (task.c:43-53).                                  *)
NoStarvation ==
  \A t \in Slots :
    (t < count /\ t # creating /\ state[t] = "READY" /\ ~raced) ~> (current = t \/ raced)

(* "Build a fake ISR frame (ring 0) so isr_common_stub can "return" into   *)
(* this task the first time it is scheduled" (task.c:93-94): the interrupt *)
(* path never loads a frame that is not there.                             *)
NoFault == cpu.pc # "fault"

(* "task_exit() marks TERMINATED, yields, never returns"                   *)
(* (PROJECT_STATUS.md:156): no thread gets to the loop behind the yield.   *)
(* Violated: a new task can run and exit before task_create stores READY   *)
(* into its slot (task.c:129, 199), which revives it.                      *)
NeverReturns == cpu.pc \notin {"hlt", "syshlt"}

(* "ESP0 updated on every task switch" (PROJECT_STATUS.md:119), which is   *)
(* what ring 3 needs.  Violated: a user task dispatched before its         *)
(* kernel_stack_top is stored (task.c:195-196, 238) runs on whatever stack *)
(* ESP0 named before.                                                      *)
Esp0Updated == cpu.pc = "user" => esp0 = current
============================================================================
