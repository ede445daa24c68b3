-------------------------- MODULE SchedulerProofs --------------------------
(***************************************************************************)
(* Proofs about the scheduler for every number of task slots.  A leaf that *)
(* names its backend names it twice: a second, longer try.                 *)
(***************************************************************************)
EXTENDS Scheduler, WellFoundedInduction, TLAPS

(* A non-empty set of naturals has a least element.                        *)
LEMMA LeastNatural ==
  ASSUME NEW T, T \subseteq Nat, T # {}
  PROVE  \E x \in T : \A y \in T : x <= y
<1> DEFINE R == OpToRel(<, Nat)
<1>1. IsWellFoundedOn(R, Nat)
  BY Zenon, NatLessThanWellFounded
<1> HIDE DEF R
<1>2. \E x \in T : \A y \in T : ~ (<<y, x>> \in R)
  BY Zenon, <1>1, WFMin
<1>3. \A x, y \in Nat : y < x => <<y, x>> \in R
  BY DEF R, OpToRel
<1>4. PICK x \in T : \A y \in T : ~ (<<y, x>> \in R)
  BY <1>2
<1>5. \A y \in T : x <= y
  <2> TAKE y \in T
  <2>1. x \in Nat /\ y \in Nat
    OBVIOUS
  <2>2. ~ (y < x)
    BY Zenon, <1>3, <1>4, <2>1
  <2> QED
    BY <2>1, <2>2
<1> QED
  BY <1>5

(* What the scan of find_next_ready returns: current when nothing else can *)
(* run, otherwise a published runnable slot other than current.            *)
LEMMA FindNextReady ==
  ASSUME current \in Nat, count \in Nat, current < count, NEW st
  PROVE  /\ Runnable(st) = {} => find_next_ready(st) = current
         /\ Runnable(st) # {} => find_next_ready(st) \in Runnable(st)
<1>1. CASE Runnable(st) = {}
  BY <1>1 DEF find_next_ready
<1>2. CASE Runnable(st) # {}
  <2> DEFINE D == {ScanDistance(t) : t \in Runnable(st)}
  <2>1. \A t \in Runnable(st) : ScanDistance(t) \in Nat
    BY DEF Runnable, ScanDistance
  <2>2. D \subseteq Nat /\ D # {}
    BY <1>2, <2>1
  <2>3. PICK d \in D : \A e \in D : d <= e
    BY Zenon, <2>2, LeastNatural
  <2>4. PICK t \in Runnable(st) : d = ScanDistance(t)
    BY <2>3
  <2>5. \A u \in Runnable(st) : ScanDistance(t) <= ScanDistance(u)
    BY <2>3, <2>4
  <2>6. \E x \in Runnable(st) : \A u \in Runnable(st) : ScanDistance(x) <= ScanDistance(u)
    BY <2>4, <2>5
  <2> QED
    BY <1>2, <2>6 DEF find_next_ready
<1> QED
  BY <1>1, <1>2
----------------------------------------------------------------------------

(* The boot stack holds the boot thread and nobody else: TSS.ESP0 never    *)
(* points to it and no other task is resumed from it.  This survives the   *)
(* dispatch of a half-built slot and keeps count and current in range.     *)
BootThread ==
  /\ current < count
  /\ esp0 # 0
  /\ creating # 0
  /\ \A t \in Slots : /\ ktop[t] # 0
                      /\ esp[t] = 0 => t = 0
                      /\ saved[t].task = 0 => t = 0 /\ saved[t].pc \notin {"user", "sysread"}
                      /\ saved[t].pc \in CreatePlaces => saved[t].task = 0
  /\ cpu.stk = 0 => current = 0 /\ saved[0] = NoFrame
  /\ cpu.task = 0 => cpu.stk = 0 /\ cpu.pc \notin {"user", "sysread"}
  /\ cpu.pc \in CreatePlaces => cpu.task = 0
  /\ cpu.pc = "user" => cpu.stk = Null
  /\ cpu.pc = "c_kmalloc" \/ saved[0].pc = "c_kmalloc" => count >= 2

TypeInv == TypeOK /\ BootThread

LEMMA TypeInit == Init => TypeInv
<1> SUFFICES ASSUME Init PROVE TypeInv
  OBVIOUS
<1> USE MaxTasksAssumption DEF Init, Slots, Stacks, Null
<1>1. TypeOK
  <2>1. saved \in [Slots -> Context \cup {NoFrame}]
    OBVIOUS
  <2>2. cpu \in [task : Slots, pc : ThreadPlaces, stk : Stacks]
    BY DEF ThreadPlaces
  <2>3. need_reschedule \in BOOLEAN /\ userKind \in BOOLEAN /\ raced \in BOOLEAN
    OBVIOUS
  <2>4. state \in [Slots -> TaskStates] /\ esp \in [Slots -> Stacks] /\ ktop \in [Slots -> Stacks]
    BY DEF TaskStates
  <2>5. count \in 1 .. MaxTasks /\ current \in Slots /\ esp0 \in Stacks /\ creating \in Stacks
    OBVIOUS
  <2> QED
    BY <2>1, <2>2, <2>3, <2>4, <2>5, Zenon DEF TypeOK
<1>2. BootThread
  BY DEF BootThread, NoFrame, CreatePlaces
<1> QED
  BY <1>1, <1>2 DEF TypeInv

(* Loading a frame from stack s of the memory mem keeps the types.         *)
LEMMA ResumeType ==
  ASSUME NEW mem \in [Slots -> Context \cup {NoFrame}], NEW s \in Stacks, Resume(mem, s)
  PROVE  /\ cpu' \in [task : Slots, pc : ThreadPlaces, stk : Stacks] \cup {Fault}
         /\ saved' \in [Slots -> Context \cup {NoFrame}]
         /\ \A t \in Slots : saved'[t] = mem[t] \/ saved'[t] = NoFrame
         /\ cpu'.stk # Null => cpu'.stk = s /\ saved'[s] = NoFrame
         /\ cpu' = Fault \/ (/\ s # Null
                           /\ cpu'.task = mem[s].task
                           /\ cpu'.pc = mem[s].pc
                           /\ cpu'.stk = IF mem[s].pc = "user" THEN Null ELSE s)
<1>1. CASE s = Null \/ mem[s] = NoFrame
  BY <1>1 DEF Resume, Fault
<1>2. CASE ~ (s = Null \/ mem[s] = NoFrame)
  <2>1. s \in Slots /\ mem[s] \in Context
    BY <1>2 DEF Stacks
  <2>2. mem[s].task \in Slots /\ mem[s].pc \in ThreadPlaces
    BY <2>1 DEF Context
  <2>3. /\ cpu' = [task |-> mem[s].task, pc |-> mem[s].pc,
                  stk |-> IF mem[s].pc = "user" THEN Null ELSE s]
        /\ saved' = [mem EXCEPT ![s] = NoFrame]
    BY <1>2 DEF Resume
  <2>4. cpu' \in [task : Slots, pc : ThreadPlaces, stk : Stacks]
    BY <2>1, <2>2, <2>3 DEF Stacks
  <2>5. saved' \in [Slots -> Context \cup {NoFrame}]
    BY <2>1, <2>3
  <2> QED
    BY <2>1, <2>3, <2>4, <2>5, <1>2
<1> QED
  BY <1>1, <1>2

(* One interrupt keeps the types and the boot stack private.               *)
LEMMA InterruptType ==
  ASSUME TypeInv, NEW s, s = EntryStack, cpu.pc \in ThreadPlaces,
         NEW pc \in ThreadPlaces, pc \in CreatePlaces => pc = cpu.pc,
         cpu.task = 0 => pc \notin {"user", "sysread"},
         NEW st \in [Slots -> TaskStates], NEW request,
         Interrupt(s, pc, st, request), UNCHANGED createVars
  PROVE  TypeInv'
<1> DEFINE frame == [task |-> cpu.task, pc |-> pc]
           mem == [saved EXCEPT ![s] = frame]
<1>t. TypeOK /\ BootThread
  BY DEF TypeInv
<1>c. cpu \in [task : Slots, pc : ThreadPlaces, stk : Stacks]
  BY <1>t DEF TypeOK, Fault, ThreadPlaces, CreatePlaces
<1>s. s \in Stacks /\ (s = 0 => cpu.stk = 0) /\ (cpu.task = 0 => s = 0)
  BY <1>t, <1>c DEF TypeOK, BootThread, EntryStack, Null
<1>u. creating' = creating /\ userKind' = userKind
  BY DEF createVars
<1>1. CASE s = Null
  <2>1. cpu' = Fault /\ UNCHANGED <<schedVars, raced>>
    BY <1>1 DEF Interrupt
  <2>2. TypeOK'
    BY <1>t, <1>u, <2>1 DEF TypeOK, schedVars
  <2>3. BootThread'
    BY <1>t, <1>u, <2>1 DEF BootThread, schedVars, Fault, CreatePlaces, Null
  <2> QED
    BY <2>2, <2>3 DEF TypeInv
<1>2. CASE s # Null
  <2>1. s \in Slots
    BY <1>s, <1>2 DEF Stacks
  <2>2. mem \in [Slots -> Context \cup {NoFrame}]
    <3>1. frame \in Context
      BY <1>c DEF Context
    <3> QED
      BY <1>t, <2>1, <3>1 DEF TypeOK
  <2>3. task_schedule_if_needed(s, mem, st, request) /\ ktop' = ktop /\ count' = count
    BY <1>2 DEF Interrupt
  <2>m. \A t \in Slots : /\ mem[t].task = 0 => t = 0 /\ mem[t].pc \notin {"user", "sysread"}
                         /\ mem[t].pc \in CreatePlaces => mem[t].task = 0
                         /\ mem[t].pc = "c_kmalloc" => count >= 2
    <3> TAKE t \in Slots
    <3>1. CASE t = s
      BY <1>t, <1>s, <2>1, <3>1 DEF TypeOK, BootThread, CreatePlaces
    <3>2. CASE t # s
      <4>1. mem[t] = saved[t]
        BY <1>t, <3>2 DEF TypeOK
      <4> QED
        BY <1>t, <4>1 DEF BootThread, CreatePlaces
    <3> QED
      BY <3>1, <3>2
  <2> DEFINE next == find_next_ready(st)
  <2>n. next \in Slots /\ next < count
    <3>1. current \in Nat /\ count \in Nat /\ current < count /\ count <= MaxTasks
      BY <1>t, MaxTasksAssumption DEF TypeOK, BootThread, Slots
    <3>2. next = current \/ next \in Runnable(st)
      BY <3>1, FindNextReady
    <3> QED
      BY <3>1, <3>2, MaxTasksAssumption DEF Runnable, Slots
  <2> HIDE DEF next
  <2>4. CASE /\ state' = st
             /\ Resume(mem, s)
             /\ UNCHANGED <<esp, current, esp0, raced>>
    <3>1. /\ cpu' \in [task : Slots, pc : ThreadPlaces, stk : Stacks] \cup {Fault}
          /\ saved' \in [Slots -> Context \cup {NoFrame}]
          /\ \A t \in Slots : saved'[t] = mem[t] \/ saved'[t] = NoFrame
          /\ cpu'.stk # Null => cpu'.stk = s /\ saved'[s] = NoFrame
          /\ cpu' = Fault \/ (/\ s # Null
                            /\ cpu'.task = mem[s].task
                            /\ cpu'.pc = mem[s].pc
                            /\ cpu'.stk = IF mem[s].pc = "user" THEN Null ELSE s)
      BY ZenonT(30), ZenonT(90), <1>s, <2>2, <2>4, ResumeType
    <3>2. TypeOK'
      BY Zenon, <1>t, <1>u, <2>3, <2>4, <3>1 DEF TypeOK, task_schedule_if_needed
    <3>3. \A t \in Slots : /\ saved'[t].task = 0 => t = 0 /\ saved'[t].pc \notin {"user", "sysread"}
                           /\ saved'[t].pc \in CreatePlaces => saved'[t].task = 0
                           /\ saved'[t].pc = "c_kmalloc" => count >= 2
      BY <2>m, <3>1 DEF NoFrame, CreatePlaces, Null
    <3>4. /\ cpu'.stk = 0 => current = 0 /\ saved'[0] = NoFrame
          /\ cpu'.task = 0 => cpu'.stk = 0 /\ cpu'.pc \notin {"user", "sysread"}
          /\ cpu'.pc \in CreatePlaces => cpu'.task = 0
          /\ cpu'.pc = "user" => cpu'.stk = Null
          /\ cpu'.pc = "c_kmalloc" => count >= 2
      BY <1>t, <1>s, <2>1, <2>m, <3>1 DEF BootThread, Fault, CreatePlaces, Null
    <3>5. BootThread'
      BY <1>t, <1>u, <2>1, <2>3, <2>4, <3>3, <3>4 DEF BootThread, TypeOK, Slots
    <3> QED
      BY <3>2, <3>5 DEF TypeInv
  <2>5. CASE /\ next # current
             /\ esp' = SavedEsp(next, s)
             /\ state' = [st EXCEPT ![current] = Demoted(@), ![next] = "RUNNING"]
             /\ current' = next
             /\ esp0' = NextEsp0(next)
             /\ raced' = (raced \/ next = creating)
             /\ Resume(mem, esp[next])
    <3>e. esp[next] \in Stacks /\ ktop[next] \in Stacks \ {0}
      BY SMTT(30), SMTT(90), <1>t, <2>n DEF TypeOK, BootThread
    <3>1. /\ cpu' \in [task : Slots, pc : ThreadPlaces, stk : Stacks] \cup {Fault}
          /\ saved' \in [Slots -> Context \cup {NoFrame}]
          /\ \A t \in Slots : saved'[t] = mem[t] \/ saved'[t] = NoFrame
          /\ cpu'.stk # Null => cpu'.stk = esp[next] /\ saved'[esp[next]] = NoFrame
          /\ cpu' = Fault \/ (/\ esp[next] # Null
                            /\ cpu'.task = mem[esp[next]].task
                            /\ cpu'.pc = mem[esp[next]].pc
                            /\ cpu'.stk = IF mem[esp[next]].pc = "user" THEN Null ELSE esp[next])
      BY Zenon, <3>e, <2>2, <2>5, ResumeType
    <3>2. TypeOK'
      BY ZenonT(30), ZenonT(90), <1>t, <1>u, <1>s, <2>n, <2>3, <2>5, <3>e, <3>1
         DEF TypeOK, task_schedule_if_needed, SavedEsp, NextEsp0, Demoted, TaskStates
    <3>3. \A t \in Slots : /\ saved'[t].task = 0 => t = 0 /\ saved'[t].pc \notin {"user", "sysread"}
                           /\ saved'[t].pc \in CreatePlaces => saved'[t].task = 0
                           /\ saved'[t].pc = "c_kmalloc" => count >= 2
      BY <2>m, <3>1 DEF NoFrame, CreatePlaces, Null
    <3>4. /\ cpu'.stk = 0 => next = 0 /\ saved'[0] = NoFrame
          /\ cpu'.task = 0 => cpu'.stk = 0 /\ cpu'.pc \notin {"user", "sysread"}
          /\ cpu'.pc \in CreatePlaces => cpu'.task = 0
          /\ cpu'.pc = "user" => cpu'.stk = Null
          /\ cpu'.pc = "c_kmalloc" => count >= 2
      BY <1>t, <2>n, <2>m, <3>e, <3>1 DEF BootThread, Fault, CreatePlaces, Null, Stacks
    <3>5. esp0' # 0 /\ \A t \in Slots : esp'[t] = 0 => t = 0
      BY SMTT(30), SMTT(90), <1>t, <1>s, <2>1, <2>5, <3>e DEF TypeOK, BootThread, SavedEsp, NextEsp0
    <3>6. BootThread'
      BY <1>t, <1>u, <2>n, <2>3, <2>5, <3>3, <3>4, <3>5 DEF BootThread, TypeOK, Slots
    <3> QED
      BY <3>2, <3>6 DEF TypeInv
  <2> QED
    BY <2>3, <2>4, <2>5 DEF task_schedule_if_needed, next
<1> QED
  BY <1>1, <1>2


(* The steps of the creation functions.                                    *)
LEMMA CreateType ==
  ASSUME TypeInv, CreateStep \/ \E user \in BOOLEAN : CreateBegin(user)
  PROVE  TypeInv'
<1>t. TypeOK /\ BootThread
  BY DEF TypeInv
<1> USE DEF Null, Slots, Stacks
<1>1. ASSUME NEW user \in BOOLEAN, CreateBegin(user)
      PROVE  TypeInv'
  <2>1. cpu' \in [task : Slots, pc : ThreadPlaces, stk : Stacks]
    BY <1>t, <1>1 DEF CreateBegin, TypeOK, Fault, ThreadPlaces, CreatePlaces
  <2>2. count' \in 1 .. MaxTasks /\ creating' \in Stacks \ {0} /\ count' >= 2 /\ current < count'
    BY <1>t, <1>1, MaxTasksAssumption DEF CreateBegin, RoomForATask, TypeOK, BootThread
  <2>3. userKind' \in BOOLEAN
    BY <1>1 DEF CreateBegin
  <2>4. TypeOK'
    BY <1>t, <1>1, <2>1, <2>2, <2>3 DEF CreateBegin, TypeOK
  <2>5. cpu'.task = cpu.task /\ cpu'.pc = "c_kmalloc" /\ cpu'.stk = cpu.stk
    BY <1>t, <1>1 DEF CreateBegin, TypeOK, Fault
  <2>6. BootThread'
    BY <1>t, <1>1, <2>2, <2>5 DEF CreateBegin, BootThread, CreatePlaces
  <2> QED
    BY <2>4, <2>6 DEF TypeInv
<1>2. ASSUME CreateStep
      PROVE  TypeInv'
  <2>c. /\ cpu \in [task : Slots, pc : ThreadPlaces, stk : Stacks]
        /\ cpu.pc \in CreatePlaces
        /\ cpu.task = 0 /\ cpu.stk = 0 /\ current = 0 /\ saved[0] = NoFrame
    BY <1>t, <1>2 DEF TypeOK, BootThread, Fault, CreateStep, CreateFail, CreateFrame,
                      CreateEsp, CreateKtop, CreateState, CreatePlaces
  <2>d. PICK p \in {"run", "c_esp", "c_ktop", "c_state"} : cpu' = [cpu EXCEPT !.pc = p]
    BY <1>2 DEF CreateStep, CreateFail, CreateFrame, CreateEsp, CreateKtop, CreateState
  <2>e. /\ cpu' \in [task : Slots, pc : ThreadPlaces, stk : Stacks]
        /\ cpu'.task = 0 /\ cpu'.stk = 0 /\ cpu'.pc = p
    BY <2>c, <2>d DEF ThreadPlaces, CreatePlaces
  <2>f. UNCHANGED <<current, need_reschedule, esp0, raced, userKind>>
    BY <1>2 DEF CreateStep, CreateFail, CreateFrame, CreateEsp, CreateKtop, CreateState, createVars
  <2>g. /\ count' \in 1 .. MaxTasks
        /\ current' < count'
        /\ creating' \in Stacks \ {0}
    BY <1>t, <1>2, <2>c, <2>f, MaxTasksAssumption
       DEF CreateStep, CreateFail, CreateFrame, CreateEsp, CreateKtop, CreateState, createVars,
           TypeOK, BootThread
  <2>h. state' \in [Slots -> TaskStates]
    BY <1>t, <1>2 DEF CreateStep, CreateFail, CreateFrame, CreateEsp, CreateKtop, CreateState,
                      TypeOK, TaskStates
  <2>n. creating \in Stacks /\ creating # 0
    BY <1>t DEF TypeOK, BootThread
  <2>i. /\ esp' \in [Slots -> Stacks]
        /\ \A t \in Slots : esp'[t] = 0 => t = 0
    <3>1. esp \in [Slots -> Stacks] /\ \A t \in Slots : esp[t] = 0 => t = 0
      BY <1>t DEF TypeOK, BootThread
    <3>2. esp' = esp \/ esp' = [esp EXCEPT ![creating] = creating]
      BY <1>2 DEF CreateStep, CreateFail, CreateFrame, CreateEsp, CreateKtop, CreateState
    <3> QED
      BY Zenon, <2>n, <3>1, <3>2
  <2>j. /\ ktop' \in [Slots -> Stacks]
        /\ \A t \in Slots : ktop'[t] # 0
    <3>1. ktop \in [Slots -> Stacks] /\ \A t \in Slots : ktop[t] # 0
      BY <1>t DEF TypeOK, BootThread
    <3>2. ktop' = ktop \/ ktop' = [ktop EXCEPT ![creating] = creating]
      BY <1>2 DEF CreateStep, CreateFail, CreateFrame, CreateEsp, CreateKtop, CreateState
    <3> QED
      BY Zenon, <2>n, <3>1, <3>2
  <2>k. /\ saved' \in [Slots -> Context \cup {NoFrame}]
        /\ \A t \in Slots : /\ saved'[t].task = 0 => t = 0 /\ saved'[t].pc \notin {"user", "sysread"}
                            /\ saved'[t].pc \in CreatePlaces => saved'[t].task = 0
        /\ saved'[0] = NoFrame
    <3>1. CASE CreateFrame
      <4> DEFINE f == [task |-> creating, pc |-> IF userKind THEN "user" ELSE "run"]
      <4>1. saved' = [saved EXCEPT ![creating] = f]
        BY <3>1 DEF CreateFrame
      <4>2. creating \in Slots => f \in Context
        BY DEF Context, ThreadPlaces
      <4>3. f.pc \notin CreatePlaces /\ f.task # 0
        BY <2>n DEF CreatePlaces
      <4> HIDE DEF f
      <4>4. saved \in [Slots -> Context \cup {NoFrame}] /\ 0 \in Slots
        BY <1>t, MaxTasksAssumption DEF TypeOK
      <4>5. \A t \in Slots : saved'[t] = IF t = creating THEN f ELSE saved[t]
        BY <4>1, <4>4
      <4>6. saved' \in [Slots -> Context \cup {NoFrame}]
        BY Zenon, <4>1, <4>2, <4>4
      <4> QED
        BY <1>t, <2>c, <2>n, <4>3, <4>4, <4>5, <4>6 DEF BootThread
    <3>2. CASE saved' = saved
      BY <1>t, <2>c, <3>2 DEF TypeOK, BootThread
    <3> QED
      BY <1>2, <3>1, <3>2 DEF CreateStep, CreateFail, CreateEsp, CreateKtop, CreateState
  <2>l. TypeOK'
    BY <1>t, <2>e, <2>f, <2>g, <2>h, <2>i, <2>j, <2>k DEF TypeOK
  <2>m. BootThread'
    BY <1>t, <2>c, <2>e, <2>f, <2>g, <2>i, <2>j, <2>k DEF BootThread, NoFrame, CreatePlaces
  <2> QED
    BY <2>l, <2>m DEF TypeInv
<1> QED
  BY <1>1, <1>2

LEMMA TypeStep == TypeInv /\ [Next]_vars => TypeInv'
<1> SUFFICES ASSUME TypeInv, [Next]_vars PROVE TypeInv'
  OBVIOUS
<1>t. TypeOK /\ BootThread
  BY DEF TypeInv
<1>e. [state EXCEPT ![current] = "TERMINATED"] \in [Slots -> TaskStates]
  BY <1>t DEF TypeOK, TaskStates
<1>s. state \in [Slots -> TaskStates]
  BY <1>t DEF TypeOK
<1>p. cpu.pc \in ThreadPlaces => /\ cpu.pc \in CreatePlaces => cpu.task = 0
                                 /\ cpu.task = 0 => cpu.pc \notin {"user", "sysread"}
  BY <1>t DEF BootThread
<1>1. CASE TimerIrq
  BY Zenon, <1>1, <1>s, <1>p, InterruptType DEF TimerIrq, InterruptsOn
<1>2. CASE DeviceIrq
  BY Zenon, <1>2, <1>s, <1>p, InterruptType DEF DeviceIrq, InterruptsOn
<1>3. CASE task_yield
  BY Zenon, <1>3, <1>s, <1>p, InterruptType DEF task_yield, EntryStack, ThreadPlaces, CreatePlaces
<1>4. CASE task_exit
  <2>1. cpu \in [task : Slots, pc : ThreadPlaces, stk : Stacks]
    BY <1>4, <1>t DEF task_exit, TypeOK, Fault
  <2>2. /\ cpu' \in [task : Slots, pc : ThreadPlaces, stk : Stacks]
        /\ cpu'.task = cpu.task /\ cpu'.pc = "exit" /\ cpu'.stk = cpu.stk
    BY <1>4, <2>1 DEF task_exit, ThreadPlaces
  <2>3. TypeOK'
    BY <1>4, <1>t, <1>e, <2>2 DEF task_exit, TypeOK, createVars
  <2>4. BootThread'
    BY <1>4, <1>t, <2>2 DEF task_exit, BootThread, createVars, CreatePlaces
  <2> QED
    BY <2>3, <2>4 DEF TypeInv
<1>5. CASE TaskExitYield
  BY Zenon, <1>5, <1>s, <1>p, InterruptType DEF TaskExitYield, EntryStack, ThreadPlaces, CreatePlaces
<1>6. CASE sys_yield
  BY Zenon, <1>6, <1>s, <1>p, InterruptType DEF sys_yield, EntryStack, ThreadPlaces, CreatePlaces
<1>7. CASE sys_exit
  BY Zenon, <1>7, <1>e, <1>p, InterruptType DEF sys_exit, EntryStack, ThreadPlaces, CreatePlaces
<1>8. CASE SysReadWait
  BY Zenon, <1>8, <1>s, <1>p, InterruptType DEF SysReadWait, EntryStack, ThreadPlaces, CreatePlaces
<1>9. CASE SysReadRetry
  BY Zenon, <1>9, <1>s, <1>p, InterruptType DEF SysReadRetry, EntryStack, ThreadPlaces, CreatePlaces
<1>10. CASE SysOther
  BY Zenon, <1>10, <1>s, <1>p, InterruptType DEF SysOther, EntryStack, ThreadPlaces, CreatePlaces
<1>11. CASE CreateStep \/ \E user \in BOOLEAN : CreateBegin(user)
  BY <1>11, CreateType
<1>12. CASE UNCHANGED vars
  BY <1>12, <1>t DEF TypeInv, TypeOK, BootThread, vars, schedVars, createVars
<1> QED
  BY <1>1, <1>2, <1>3, <1>4, <1>5, <1>6, <1>7, <1>8, <1>9, <1>10, <1>11, <1>12
     DEF Next, Halted

(* Every reachable state is well typed, and count and current stay in      *)
(* range, for every MAX_TASKS, whatever the interrupts do to a creation.   *)
THEOREM TypeCorrect == Spec => []TypeOK
<1>1. TypeInv => TypeOK
  BY DEF TypeInv
<1> QED
  BY <1>1, TypeInit, TypeStep, PTL DEF Spec


----------------------------------------------------------------------------

(* Where a live task t can be: only the boot thread creates tasks, and a   *)
(* thread that is, or will be back, in ring 3 has its kernel_stack_top.    *)
GoodPlace(t, pc) ==
  /\ pc \in IF t = 0 THEN {"run"} \cup CreatePlaces ELSE {"run", "user", "sysread"}
  /\ pc \in {"user", "sysread"} => ktop[t] = t

(* Where the boot thread is, running or not.                               *)
BootPlace == IF current = 0 THEN cpu.pc ELSE saved[0].pc

RunningOK ==
  /\ cpu.task = current
  /\ EntryStack = current
  /\ cpu.pc \in {"user", "sysread"} => esp0 = current
  /\ \/ state[current] = "RUNNING" /\ GoodPlace(current, cpu.pc)
     \/ state[current] = "TERMINATED" /\ cpu.pc = "exit" /\ current # 0

WaitingOK ==
  \A t \in Slots \ {current} :
    /\ state[t] # "RUNNING"
    /\ t = 0 => state[t] # "TERMINATED"
    /\ t < count /\ t # creating /\ state[t] = "READY" =>
         esp[t] = t /\ saved[t].task = t /\ GoodPlace(t, saved[t].pc)

CreatingOK ==
  /\ current # creating
  /\ \A t \in Slots : t >= count => state[t] = "READY"
  /\ creating = Null => BootPlace \notin CreatePlaces
  /\ creating # Null =>
       /\ BootPlace \in CreatePlaces
       /\ creating = count - 1
       /\ state[creating] = "READY"
       /\ BootPlace # "c_kmalloc" =>
            saved[creating] = [task |-> creating, pc |-> IF userKind THEN "user" ELSE "run"]
       /\ BootPlace \in {"c_ktop", "c_state"} => esp[creating] = creating
       /\ BootPlace = "c_state" => ktop[creating] = creating

(* The scheduler's inductive invariant until a half-built slot is          *)
(* dispatched.                                                             *)
Safe == RunningOK /\ WaitingOK /\ CreatingOK

SafeInv == ~raced => Safe

(* It implies the properties stated in Scheduler.                          *)
LEMMA SafeImplies ==
  TypeInv /\ SafeInv => RunsCurrent /\ OwnStack /\ FramesIntact /\ OneRunning
<1> SUFFICES ASSUME TypeInv, ~raced, Safe
             PROVE  RunsCurrent /\ OwnStack /\ FramesIntact /\ OneRunning
  BY DEF SafeInv, RunsCurrent, OwnStack, FramesIntact, OneRunning
<1>1. RunsCurrent
  BY DEF RunsCurrent, Safe, RunningOK, GoodPlace, CreatePlaces
<1>2. OwnStack
  BY DEF OwnStack, Safe, RunningOK
<1>3. FramesIntact
  BY DEF FramesIntact, FrameWaits, Safe, WaitingOK, Slots, Null
<1>4. OneRunning
  BY DEF OneRunning, Safe, RunningOK, WaitingOK
<1> QED
  BY <1>1, <1>2, <1>3, <1>4

LEMMA SafeInit == Init => SafeInv
<1> SUFFICES ASSUME Init PROVE Safe
  BY DEF SafeInv
<1> USE MaxTasksAssumption DEF Init, Slots, Null, CreatePlaces
<1>1. RunningOK
  BY DEF RunningOK, EntryStack, GoodPlace
<1>2. WaitingOK
  BY DEF WaitingOK
<1>3. CreatingOK
  BY SMTT(30), SMTT(90) DEF CreatingOK, BootPlace
<1> QED
  BY <1>1, <1>2, <1>3 DEF Safe


(* Returning into a frame that is there.                                   *)
LEMMA ResumeFrame ==
  ASSUME NEW mem, NEW s, NEW f, Resume(mem, s), s # Null, mem[s] = f, f # NoFrame
  PROVE  /\ cpu' = [task |-> f.task, pc |-> f.pc, stk |-> IF f.pc = "user" THEN Null ELSE s]
         /\ saved' = [mem EXCEPT ![s] = NoFrame]
  BY Zenon DEF Resume

(* One interrupt taken by a thread that continues at pc, with the task     *)
(* states st its handler left: either the thread lives and pc is a good    *)
(* place for it, or it is terminated and the handler switches away (or was *)
(* interrupted inside task_exit).                                          *)
LEMMA InterruptSafe ==
  ASSUME TypeInv, Safe, ~raced', NEW s, s = current,
         NEW pc, NEW request, NEW st \in [Slots -> TaskStates],
         \A t \in Slots \ {current} : st[t] = state[t],
         \/ /\ st[current] = "RUNNING"
            /\ state[current] = "RUNNING"
            /\ GoodPlace(current, pc)
            /\ current = 0 => pc = cpu.pc
            /\ pc \in {"user", "sysread"} => esp0 = current
         \/ /\ st[current] = "TERMINATED"
            /\ current # 0
            /\ request \/ pc = "exit",
         Interrupt(s, pc, st, request), UNCHANGED createVars
  PROVE  Safe' /\ StaysTerminated
<1> DEFINE frame == [task |-> cpu.task, pc |-> pc]
           mem == [saved EXCEPT ![current] = frame]
           next == find_next_ready(st)
<1>t. TypeOK /\ BootThread
  BY DEF TypeInv
<1>a. /\ current \in Slots /\ current # Null /\ current < count /\ current \in Nat /\ count \in Nat
      /\ count <= MaxTasks
  BY <1>t, MaxTasksAssumption DEF TypeOK, BootThread, Slots, Null
<1>b. cpu.task = current /\ frame.task = current /\ frame.pc = pc
  BY DEF Safe, RunningOK
<1>u. creating' = creating /\ userKind' = userKind
  BY DEF createVars
<1>1. task_schedule_if_needed(current, mem, st, request) /\ ktop' = ktop /\ count' = count
  BY <1>a DEF Interrupt
<1>m. /\ mem[current] = frame
      /\ \A t \in Slots : t # current => mem[t] = saved[t]
      /\ mem[current] # NoFrame
  BY <1>t, <1>a, <1>b DEF TypeOK, NoFrame
<1>n. next = current \/ next \in Runnable(st)
  BY <1>a, FindNextReady
<1>2. CASE /\ ~ (need_reschedule \/ request) \/ next = current
           /\ state' = st
           /\ Resume(mem, current)
           /\ UNCHANGED <<esp, current, esp0, raced>>
  <2>1. /\ cpu' = [task |-> current, pc |-> pc, stk |-> IF pc = "user" THEN Null ELSE current]
        /\ \A t \in Slots : t # current => saved'[t] = saved[t]
    BY <1>t, <1>2, <1>a, <1>b, <1>m DEF Resume, TypeOK
  <2>2. st[current] = "TERMINATED" => pc = "exit"
    <3> SUFFICES ASSUME st[current] = "TERMINATED", next = current, current # 0
                 PROVE  FALSE
      BY <1>2
    <3>1. 0 \in Slots \ {current} /\ state[0] \in TaskStates
      BY <1>t, MaxTasksAssumption DEF Slots, TypeOK
    <3>2. st[0] \in {"READY", "RUNNING"}
      BY <3>1 DEF Safe, WaitingOK, TaskStates
    <3>3. 0 \in Runnable(st)
      BY <1>a, <3>1, <3>2 DEF Runnable
    <3>4. next \in Runnable(st)
      BY SMTT(30), SMTT(90), <1>a, <3>3, FindNextReady
    <3> QED
      BY <3>4 DEF Runnable
  <2>3. RunningOK'
    BY SMTT(30), SMTT(90), <1>2, <1>1, <1>a, <2>1, <2>2 DEF RunningOK, EntryStack, GoodPlace, Safe
  <2>4. WaitingOK'
    BY SMTT(30), SMTT(90), <1>2, <1>1, <1>u, <2>1 DEF Safe, WaitingOK, GoodPlace
  <2>5. BootPlace' = BootPlace
    <3>1. 0 \in Slots
      BY SMTT(30), SMTT(90), MaxTasksAssumption DEF Slots
    <3>2. CASE current = 0
      BY SMTT(30), SMTT(90), <3>2, <1>2, <1>a, <2>1 DEF BootPlace
    <3>3. CASE current # 0
      <4>1. current' = current /\ saved'[0] = saved[0]
        BY SMTT(30), SMTT(90), <3>1, <3>3, <1>2, <2>1
      <4> QED
        BY SMTT(30), SMTT(90), <3>3, <4>1 DEF BootPlace
    <3> QED
      BY <3>2, <3>3
  <2>6. CreatingOK'
    <3>1. \A t \in Slots : t >= count => t # current
      BY <1>a DEF Slots
    <3>2. creating # Null => creating \in Slots /\ creating # current
      BY <1>t DEF TypeOK, Stacks, Safe, CreatingOK
    <3> QED
      BY <1>1, <1>2, <1>u, <2>1, <2>5, <3>1, <3>2 DEF Safe, CreatingOK
  <2>7. StaysTerminated
    BY SMTT(30), SMTT(90), <1>2, <1>a DEF StaysTerminated
  <2> QED
    BY SMTT(30), SMTT(90), <2>3, <2>4, <2>6, <2>7 DEF Safe
<1>3. CASE /\ next # current
           /\ esp' = SavedEsp(next, current)
           /\ state' = [st EXCEPT ![current] = Demoted(@), ![next] = "RUNNING"]
           /\ current' = next
           /\ esp0' = NextEsp0(next)
           /\ raced' = (raced \/ next = creating)
           /\ Resume(mem, esp[next])
  <2>1. next \in Slots /\ next \in Nat /\ next < count /\ next # current /\ next # creating
    <3> HIDE DEF next
    <3>1. next # creating
      <4>1. raced' = (raced \/ next = creating) /\ ~raced'
        BY SMTT(30), SMTT(90), <1>3
      <4> QED
        BY <4>1, ZenonT(30), ZenonT(90)
    <3>2. next \in Runnable(st) /\ next # current
      BY SMTT(30), SMTT(90), <1>3, <1>n
    <3> QED
      BY <1>a, <3>1, <3>2, MaxTasksAssumption DEF Runnable, Slots
  <2>2. st[next] = state[next] /\ state[next] = "READY"
    BY SMTT(30), SMTT(90), <1>3, <1>n, <2>1 DEF Runnable, Safe, WaitingOK
  <2>3. esp[next] = next /\ saved[next].task = next /\ GoodPlace(next, saved[next].pc)
    BY SMTT(30), SMTT(90), <2>1, <2>2 DEF Safe, WaitingOK
  <2>4. mem[next] = saved[next] /\ next # Null /\ saved[next] # NoFrame
    BY SMTT(30), SMTT(90), <1>m, <2>1, <2>3 DEF NoFrame, Null
  <2>5. /\ cpu' = [task |-> next, pc |-> saved[next].pc,
                  stk |-> IF saved[next].pc = "user" THEN Null ELSE next]
        /\ saved' = [mem EXCEPT ![next] = NoFrame]
    <3>1. Resume(mem, next)
      BY <1>3, <2>3
    <3> HIDE DEF mem, next, frame
    <3>2. /\ cpu' = [task |-> saved[next].task, pc |-> saved[next].pc,
                    stk |-> IF saved[next].pc = "user" THEN Null ELSE next]
          /\ saved' = [mem EXCEPT ![next] = NoFrame]
      BY Zenon, <2>4, <3>1, ResumeFrame
    <3> QED
      BY Zenon, <2>3, <3>2
  <2>6. /\ saved'[current] = frame
        /\ \A t \in Slots : t # current /\ t # next => saved'[t] = saved[t]
    BY <1>t, <1>a, <1>m, <2>1, <2>5 DEF TypeOK
  <2>7. /\ state'[next] = "RUNNING"
        /\ state'[current] = Demoted(st[current])
        /\ \A t \in Slots : t # current /\ t # next => state'[t] = state[t]
    BY <1>3, <1>a, <2>1
  <2>8. /\ esp'[current] = current
        /\ \A t \in Slots : t # current => esp'[t] = esp[t]
    BY <1>3, <1>t, <1>a DEF SavedEsp, TypeOK
  <2>9. RunningOK'
    <3>1. cpu'.pc \in {"user", "sysread"} => esp0' = next
      BY ZenonT(30), ZenonT(90), <1>3, <2>3, <2>4, <2>5 DEF GoodPlace, NextEsp0
    <3> QED
      BY ZenonT(30), ZenonT(90), <1>1, <1>3, <2>3, <2>5, <2>7, <3>1 DEF RunningOK, EntryStack, GoodPlace
  <2>10. WaitingOK'
    <3> SUFFICES ASSUME NEW t \in Slots, t # next
                 PROVE  /\ state'[t] # "RUNNING"
                        /\ t = 0 => state'[t] # "TERMINATED"
                        /\ t < count /\ t # creating /\ state'[t] = "READY" =>
                             esp'[t] = t /\ saved'[t].task = t /\ GoodPlace(t, saved'[t].pc)
      BY SMTT(30), SMTT(90), <1>1, <1>3, <1>u DEF WaitingOK, GoodPlace
    <3>1. CASE t = current
      BY ZenonT(30), ZenonT(90), <3>1, <1>b, <2>6, <2>7, <2>8 DEF Demoted
    <3>2. CASE t # current
      <4>1. state'[t] = state[t] /\ esp'[t] = esp[t] /\ saved'[t] = saved[t]
        BY <3>2, <2>6, <2>7, <2>8
      <4>2. /\ state[t] # "RUNNING"
            /\ t = 0 => state[t] # "TERMINATED"
            /\ t < count /\ t # creating /\ state[t] = "READY" =>
                 esp[t] = t /\ saved[t].task = t /\ GoodPlace(t, saved[t].pc)
        BY <3>2 DEF Safe, WaitingOK
      <4> QED
        BY <4>1, <4>2
    <3> QED
      BY <3>1, <3>2
  <2>11. BootPlace' = BootPlace
    <3>1. 0 \in Slots
      BY MaxTasksAssumption DEF Slots
    <3>2. CASE current = 0
      BY SMTT(30), SMTT(90), <3>2, <1>3, <1>b, <2>6 DEF BootPlace
    <3>3. CASE current # 0 /\ next = 0
      <4>1. current' = 0 /\ cpu'.pc = saved[0].pc
        BY SMTT(30), SMTT(90), <3>3, <1>3, <2>5
      <4> QED
        BY SMTT(30), SMTT(90), <3>3, <4>1 DEF BootPlace
    <3>4. CASE current # 0 /\ next # 0
      <4>1. current' # 0 /\ saved'[0] = saved[0]
        BY SMTT(30), SMTT(90), <3>1, <3>4, <1>3, <2>6
      <4> QED
        BY SMTT(30), SMTT(90), <3>4, <4>1 DEF BootPlace
    <3> QED
      BY SMTT(30), SMTT(90), <3>2, <3>3, <3>4
  <2>12. CreatingOK'
    <3>1. \A t \in Slots : t >= count => t # current /\ t # next
      BY SMTT(30), SMTT(90), <1>a, <2>1 DEF Slots
    <3>2. creating # Null => creating \in Slots /\ creating # current
      BY <1>t DEF TypeOK, Stacks, Safe, CreatingOK
    <3> QED
      BY ZenonT(30), ZenonT(90), <1>1, <1>3, <1>u, <2>1, <2>6, <2>7, <2>8, <2>11, <3>1, <3>2
         DEF Safe, CreatingOK
  <2>13. StaysTerminated
    BY <1>3, <1>a, <2>2, <2>7 DEF StaysTerminated, Demoted
  <2> QED
    BY <2>9, <2>10, <2>12, <2>13 DEF Safe
<1> QED
  BY SMTT(30), SMTT(90), <1>1, <1>2, <1>3 DEF task_schedule_if_needed


(* The steps of the creation functions preserve the invariant.             *)
LEMMA CreateSafe ==
  ASSUME TypeInv, Safe, CreateStep \/ \E user \in BOOLEAN : CreateBegin(user)
  PROVE  Safe' /\ StaysTerminated
<1>t. TypeOK /\ BootThread
  BY DEF TypeInv
<1>a. /\ cpu.task = 0 /\ cpu.pc \in {"run"} \cup CreatePlaces
      /\ cpu.stk = 0 /\ current = 0 /\ 0 \in Slots
      /\ cpu \in [task : Slots, pc : ThreadPlaces, stk : Stacks]
  BY <1>t, MaxTasksAssumption
     DEF TypeOK, BootThread, Fault, CreateStep, CreateFail, CreateFrame,
         CreateEsp, CreateKtop, CreateState, CreatePlaces, CreateBegin, Slots
<1>b. BootPlace = cpu.pc /\ state[0] = "RUNNING"
  BY <1>a DEF BootPlace, Safe, RunningOK
<1>c. count \in Nat /\ count >= 1 /\ count <= MaxTasks /\ state \in [Slots -> TaskStates]
  BY <1>t, MaxTasksAssumption DEF TypeOK
<1>d. UNCHANGED <<current, esp0>>
  BY DEF CreateStep, CreateFail, CreateFrame, CreateEsp, CreateKtop, CreateState, CreateBegin
<1>p. PICK p \in {"run"} \cup CreatePlaces : cpu' = [cpu EXCEPT !.pc = p]
  BY DEF CreateStep, CreateFail, CreateFrame, CreateEsp, CreateKtop, CreateState, CreateBegin,
         CreatePlaces
<1>q. cpu'.task = 0 /\ cpu'.stk = 0 /\ cpu'.pc = p
  BY <1>a, <1>p
<1>e. RunningOK' <=> state'[0] = "RUNNING"
  BY <1>a, <1>d, <1>p, <1>q DEF RunningOK, EntryStack, GoodPlace, CreatePlaces
<1>f. BootPlace' = p
  BY <1>a, <1>d, <1>q DEF BootPlace
<1>1. ASSUME NEW user \in BOOLEAN, CreateBegin(user)
      PROVE  Safe' /\ StaysTerminated
  <2>0. p = "c_kmalloc"
    BY <1>1, <1>a, <1>q DEF CreateBegin
  <2>1. /\ creating = Null /\ creating' = count /\ count' = count + 1 /\ count < MaxTasks
        /\ UNCHANGED <<state, esp, ktop, saved>>
    BY SMTT(30), SMTT(90), <1>1, <1>b DEF CreateBegin, RoomForATask, Safe, CreatingOK, CreatePlaces
  <2>2. WaitingOK'
    BY SMTT(30), SMTT(90), <1>a, <1>c, <1>d, <2>1 DEF Safe, WaitingOK, GoodPlace, Slots, Null
  <2>3. CreatingOK'
    <3>1. /\ count \in Slots /\ count # Null /\ current # count
          /\ \A t \in Slots : t >= count => state[t] = "READY"
      <4>1. \A t \in Slots : t >= count => state[t] = "READY"
        BY DEF Safe, CreatingOK
      <4>2. count \in Slots /\ count # Null /\ current # count
        BY <1>a, <1>c, <2>1, MaxTasksAssumption DEF Slots, Null
      <4> QED
        BY SMTT(30), SMTT(90), <4>1, <4>2
    <3>2. state[count] = "READY"
      BY <1>c, <3>1
    <3>3. \A t \in Slots : t >= count' => state'[t] = "READY"
      BY <1>c, <2>1, <3>1 DEF Slots
    <3>4. BootPlace' = "c_kmalloc" /\ creating' = count' - 1
      BY <1>c, <1>f, <2>0, <2>1
    <3> QED
      BY <1>d, <2>1, <3>1, <3>2, <3>3, <3>4 DEF CreatingOK, CreatePlaces
  <2> QED
    BY <1>b, <1>e, <1>d, <2>1, <2>2, <2>3 DEF Safe, StaysTerminated
<1>2. ASSUME CreateStep
      PROVE  Safe' /\ StaysTerminated
  <2>1. /\ cpu.pc \in CreatePlaces /\ creating # Null /\ creating = count - 1
        /\ creating \in Slots /\ creating # 0 /\ state[creating] = "READY"
    <3>1. cpu.pc \in CreatePlaces
      BY <1>2 DEF CreateStep, CreateFail, CreateFrame, CreateEsp, CreateKtop, CreateState,
                  CreatePlaces
    <3> QED
      BY <1>t, <1>b, <3>1 DEF Safe, CreatingOK, TypeOK, BootThread, Stacks
  <2>2. CASE CreateFail
    <3>1. /\ count' = count - 1 /\ creating' = Null /\ p = "run"
          /\ UNCHANGED <<state, esp, ktop, saved, userKind>>
      BY SMTT(30), SMTT(90), <2>2, <1>q, <1>a DEF CreateFail
    <3>2. WaitingOK'
      BY SMTT(30), SMTT(90), <1>a, <1>c, <1>d, <2>1, <3>1 DEF Safe, WaitingOK, GoodPlace, Slots
    <3>3. CreatingOK'
      BY SMTT(30), SMTT(90), <1>a, <1>c, <1>d, <1>f, <2>1, <3>1
         DEF Safe, CreatingOK, Slots, Null, CreatePlaces
    <3> QED
      BY <1>b, <1>e, <1>d, <3>1, <3>2, <3>3 DEF Safe, StaysTerminated
  <2>3. CASE CreateFrame
    <3>1. /\ p = "c_esp" /\ UNCHANGED <<state, esp, ktop, count, creating, userKind>>
          /\ saved'[creating] = [task |-> creating, pc |-> IF userKind THEN "user" ELSE "run"]
          /\ \A t \in Slots : t # creating => saved'[t] = saved[t]
      BY SMTT(30), SMTT(90), <2>3, <1>t, <1>q, <1>a, <2>1 DEF CreateFrame, createVars, TypeOK
    <3>2. WaitingOK'
      BY SMTT(30), SMTT(90), <1>d, <2>1, <3>1 DEF Safe, WaitingOK, GoodPlace
    <3>3. CreatingOK'
      BY <1>d, <1>f, <2>1, <3>1 DEF Safe, CreatingOK, CreatePlaces
    <3> QED
      BY <1>b, <1>e, <1>d, <3>1, <3>2, <3>3 DEF Safe, StaysTerminated
  <2>4. CASE CreateEsp
    <3>1. /\ cpu.pc = "c_esp" /\ p = "c_ktop"
          /\ UNCHANGED <<state, saved, ktop, count, creating, userKind>>
          /\ esp'[creating] = creating
          /\ \A t \in Slots : t # creating => esp'[t] = esp[t]
      BY SMTT(30), SMTT(90), <2>4, <1>t, <1>q, <1>a, <2>1 DEF CreateEsp, createVars, TypeOK
    <3>2. WaitingOK'
      BY SMTT(30), SMTT(90), <1>d, <2>1, <3>1 DEF Safe, WaitingOK, GoodPlace
    <3>3. CreatingOK'
      BY <1>b, <1>d, <1>f, <2>1, <3>1 DEF Safe, CreatingOK, CreatePlaces
    <3> QED
      BY <1>b, <1>e, <1>d, <3>1, <3>2, <3>3 DEF Safe, StaysTerminated
  <2>5. CASE CreateKtop
    <3>1. /\ cpu.pc = "c_ktop" /\ p = "c_state"
          /\ UNCHANGED <<state, saved, esp, count, creating, userKind>>
          /\ ktop'[creating] = creating
          /\ \A t \in Slots : t # creating => ktop'[t] = ktop[t]
      BY SMTT(30), SMTT(90), <2>5, <1>t, <1>q, <1>a, <2>1 DEF CreateKtop, createVars, TypeOK
    <3>2. WaitingOK'
      BY SMTT(30), SMTT(90), <1>d, <2>1, <3>1 DEF Safe, WaitingOK, GoodPlace
    <3>3. CreatingOK'
      BY <1>b, <1>d, <1>f, <2>1, <3>1 DEF Safe, CreatingOK, CreatePlaces
    <3> QED
      BY <1>b, <1>e, <1>d, <3>1, <3>2, <3>3 DEF Safe, StaysTerminated
  <2>6. CASE CreateState
    <3>1. /\ cpu.pc = "c_state" /\ p = "run" /\ creating' = Null /\ state' = state
          /\ UNCHANGED <<saved, esp, ktop, count>>
      BY SMTT(30), SMTT(90), <2>6, <1>c, <1>q, <1>a, <2>1 DEF CreateState
    <3>2. /\ saved[creating].task = creating /\ saved[creating].pc \in {"run", "user"}
          /\ esp[creating] = creating /\ ktop[creating] = creating
      BY SMTT(30), SMTT(90), <1>b, <2>1, <3>1 DEF Safe, CreatingOK, CreatePlaces
    <3>3. WaitingOK'
      <4> SUFFICES ASSUME NEW t \in Slots \ {current},
                          t < count, state[t] = "READY"
                   PROVE  esp[t] = t /\ saved[t].task = t /\ GoodPlace(t, saved[t].pc)
        BY SMTT(30), SMTT(90), <1>d, <3>1 DEF Safe, WaitingOK, GoodPlace
      <4>1. CASE t = creating
        BY SMTT(30), SMTT(90), <2>1, <3>2, <4>1 DEF GoodPlace
      <4>2. CASE t # creating
        BY SMTT(30), SMTT(90), <4>2 DEF Safe, WaitingOK
      <4> QED
        BY SMTT(30), SMTT(90), <4>1, <4>2
    <3>4. CreatingOK'
      BY <1>a, <1>d, <1>f, <3>1 DEF Safe, CreatingOK, CreatePlaces, Null
    <3> QED
      BY <1>b, <1>e, <1>d, <3>1, <3>3, <3>4 DEF Safe, StaysTerminated
  <2> QED
    BY SMTT(30), SMTT(90), <1>2, <2>2, <2>3, <2>4, <2>5, <2>6 DEF CreateStep
<1> QED
  BY <1>1, <1>2


(* Every step preserves the invariant, as long as no slot under            *)
(* construction has been dispatched; and until then a terminated task      *)
(* stays terminated and is not dispatched.                                 *)
LEMMA SafeStep ==
  TypeInv /\ SafeInv /\ [Next]_vars /\ ~raced' => Safe' /\ StaysTerminated
<1> SUFFICES ASSUME TypeInv, SafeInv, [Next]_vars, ~raced'
             PROVE  Safe' /\ StaysTerminated
  OBVIOUS
<1>t. TypeOK /\ BootThread
  BY DEF TypeInv
<1>s. /\ state \in [Slots -> TaskStates] /\ current \in Slots
      /\ [state EXCEPT ![current] = "TERMINATED"] \in [Slots -> TaskStates]
  BY SMTT(30), SMTT(90), <1>t DEF TypeOK, TaskStates
<1>i. ASSUME NEW s, NEW pc, NEW request, NEW st, Interrupt(s, pc, st, request)
      PROVE  ~raced
  <2>1. CASE raced' = raced
    BY <2>1
  <2>2. CASE raced' = (raced \/ find_next_ready(st) = creating)
    BY <2>2, Zenon
  <2> QED
    BY <1>i, <2>1, <2>2 DEF Interrupt, task_schedule_if_needed
<1>r. ~raced
  <2>1. CASE raced' = raced
    BY <2>1
  <2>2. CASE \E s, pc, st, request : Interrupt(s, pc, st, request)
    BY <2>2, <1>i
  <2> QED
    BY Zenon, <2>1, <2>2
       DEF Next, TimerIrq, DeviceIrq, task_yield, task_exit, TaskExitYield, sys_yield, sys_exit,
           SysReadWait, SysReadRetry, SysOther, CreateStep, CreateBegin, CreateFail,
           CreateFrame, CreateEsp, CreateKtop, CreateState, Halted, vars
<1>f. Safe
  BY <1>r DEF SafeInv
<1>g. /\ cpu.task = current /\ EntryStack = current
      /\ cpu.pc \in {"user", "sysread"} => esp0 = current
      /\ \/ state[current] = "RUNNING" /\ GoodPlace(current, cpu.pc)
         \/ state[current] = "TERMINATED" /\ cpu.pc = "exit" /\ current # 0
  BY <1>f DEF Safe, RunningOK
<1>h. cpu.pc \in {"user", "sysread"} =>
        /\ current # 0 /\ ktop[current] = current /\ state[current] = "RUNNING"
  BY <1>g DEF GoodPlace, CreatePlaces
<1>1. CASE TimerIrq
  <2>1. Interrupt(EntryStack, cpu.pc, state, TRUE) /\ UNCHANGED createVars
    BY Zenon, <1>1 DEF TimerIrq
  <2> QED
    BY Zenon, <1>f, <1>g, <1>s, <2>1, InterruptSafe
<1>2. CASE DeviceIrq
  <2>1. Interrupt(EntryStack, cpu.pc, state, FALSE) /\ UNCHANGED createVars
    BY Zenon, <1>2 DEF DeviceIrq
  <2> QED
    BY Zenon, <1>f, <1>g, <1>s, <2>1, InterruptSafe
<1>3. CASE task_yield
  <2>1. cpu.pc = "run" /\ Interrupt(EntryStack, "run", state, TRUE) /\ UNCHANGED createVars
    BY Zenon, <1>3 DEF task_yield, EntryStack
  <2> QED
    BY Zenon, <1>f, <1>g, <1>s, <2>1, InterruptSafe
<1>4. CASE task_exit
  <2>0. /\ cpu.pc = "run" /\ current # 0 /\ state[current] = "RUNNING"
        /\ state' = [state EXCEPT ![current] = "TERMINATED"]
        /\ cpu' = [cpu EXCEPT !.pc = "exit"]
        /\ UNCHANGED <<esp, ktop, current, count, esp0, saved, creating, userKind>>
    BY <1>4, <1>g DEF task_exit, createVars
  <2>1. cpu \in [task : Slots, pc : ThreadPlaces, stk : Stacks]
    BY <2>0, <1>t DEF TypeOK, Fault
  <2>2. cpu'.task = cpu.task /\ cpu'.pc = "exit" /\ cpu'.stk = cpu.stk
    BY <2>0, <2>1
  <2>3. /\ state'[current] = "TERMINATED"
        /\ \A t \in Slots \ {current} : state'[t] = state[t]
    BY <2>0, <1>s
  <2>4. RunningOK'
    BY <1>g, <2>0, <2>2, <2>3 DEF RunningOK, EntryStack
  <2>5. WaitingOK'
    BY <1>f, <2>0, <2>3 DEF Safe, WaitingOK, GoodPlace
  <2>6. BootPlace' = BootPlace
    BY <2>0 DEF BootPlace
  <2>c. \A t \in Slots : t >= count => state[t] = "READY" /\ t # current
    BY <1>f, <2>0 DEF Safe, CreatingOK
  <2>7. creating # Null => creating \in Slots /\ creating # current
    BY <1>f, <1>t DEF Safe, CreatingOK, TypeOK, Stacks
  <2>8. CreatingOK'
    BY <1>f, <2>0, <2>3, <2>6, <2>7, <2>c DEF Safe, CreatingOK
  <2>9. StaysTerminated
    BY <2>0, <2>3 DEF StaysTerminated
  <2> QED
    BY <2>4, <2>5, <2>8, <2>9 DEF Safe
<1>5. CASE TaskExitYield
  <2>1. cpu.pc = "exit" /\ Interrupt(EntryStack, "hlt", state, TRUE) /\ UNCHANGED createVars
    BY ZenonT(30), ZenonT(90), <1>5 DEF TaskExitYield, EntryStack
  <2>2. state[current] = "TERMINATED" /\ current # 0
    BY <1>g, <2>1 DEF GoodPlace, CreatePlaces
  <2> QED
    BY Zenon, <1>f, <1>g, <1>s, <2>1, <2>2, InterruptSafe
<1>6. CASE sys_yield
  <2>1. cpu.pc = "user" /\ Interrupt(esp0, "user", state, TRUE) /\ UNCHANGED createVars
    BY Zenon, <1>6 DEF sys_yield
  <2> QED
    BY Zenon, <1>f, <1>g, <1>h, <1>s, <2>1, InterruptSafe
<1>7. CASE sys_exit
  <2>1. /\ cpu.pc = "user" /\ UNCHANGED createVars
        /\ Interrupt(esp0, "syshlt", [state EXCEPT ![current] = "TERMINATED"], TRUE)
    BY Zenon, <1>7 DEF sys_exit
  <2>2. /\ [state EXCEPT ![current] = "TERMINATED"][current] = "TERMINATED"
        /\ \A t \in Slots \ {current} :
             [state EXCEPT ![current] = "TERMINATED"][t] = state[t]
    BY <1>s
  <2> QED
    BY Zenon, <1>f, <1>g, <1>h, <1>s, <2>1, <2>2, InterruptSafe
<1>8. CASE SysReadWait
  <2>1. cpu.pc = "user" /\ Interrupt(esp0, "sysread", state, TRUE) /\ UNCHANGED createVars
    BY Zenon, <1>8 DEF SysReadWait
  <2>2. GoodPlace(current, "sysread")
    BY <1>h, <2>1 DEF GoodPlace
  <2> QED
    BY Zenon, <1>f, <1>g, <1>h, <1>s, <2>1, <2>2, InterruptSafe
<1>9. CASE SysReadRetry
  <2>1. /\ cpu.pc = "sysread" /\ UNCHANGED createVars
        /\ \/ Interrupt(EntryStack, "sysread", state, TRUE)
           \/ Interrupt(EntryStack, "user", state, FALSE)
    BY Zenon, <1>9 DEF SysReadRetry, EntryStack
  <2>2. GoodPlace(current, "sysread") /\ GoodPlace(current, "user")
    BY <1>h, <2>1 DEF GoodPlace
  <2> QED
    BY Zenon, <1>f, <1>g, <1>h, <1>s, <2>1, <2>2, InterruptSafe
<1>10. CASE SysOther
  <2>1. cpu.pc = "user" /\ Interrupt(esp0, "user", state, FALSE) /\ UNCHANGED createVars
    BY ZenonT(30), ZenonT(90), <1>10 DEF SysOther
  <2> QED
    BY Zenon, <1>f, <1>g, <1>h, <1>s, <2>1, InterruptSafe
<1>11. CASE CreateStep \/ \E user \in BOOLEAN : CreateBegin(user)
  BY <1>11, <1>f, CreateSafe
<1>12. CASE UNCHANGED vars
  <2>1. Safe'
    BY <1>12, <1>f DEF Safe, RunningOK, WaitingOK, CreatingOK, GoodPlace, BootPlace,
                       EntryStack, vars, schedVars, createVars
  <2> QED
    BY <1>12, <2>1 DEF StaysTerminated, vars, schedVars
<1> QED
  BY <1>1, <1>2, <1>3, <1>4, <1>5, <1>6, <1>7, <1>8, <1>9, <1>10, <1>11, <1>12
     DEF Next, Halted

(* The invariant holds in every reachable state.                           *)
LEMMA SafeInvariant == Spec => [](TypeInv /\ SafeInv)
<1>1. TypeInv /\ SafeInv /\ [Next]_vars => TypeInv' /\ SafeInv'
  BY TypeStep, SafeStep DEF SafeInv
<1> QED
  BY <1>1, TypeInit, SafeInit, PTL DEF Spec

(* For every MAX_TASKS, until a half-built slot is dispatched: the thread  *)
(* on the CPU is the one task_current() names and uses its own kernel      *)
(* stack, exactly it is RUNNING, and every other ready slot has an intact  *)
(* saved frame of its own thread for isr_common_stub to return into.       *)
THEOREM SwitchSafety == Spec => [](RunsCurrent /\ OwnStack /\ FramesIntact /\ OneRunning)
  BY SafeInvariant, SafeImplies, PTL

(* For every MAX_TASKS, until a half-built slot is dispatched: task_exit   *)
(* and sys_exit are final, no later step changes the state of a terminated *)
(* task or switches to it.                                                 *)
THEOREM TerminatedForEver == Spec => ExitIsFinal
<1>1. TypeInv /\ SafeInv /\ [Next]_vars => [~raced' => StaysTerminated]_vars
  BY SafeStep
<1> QED
  BY <1>1, SafeInvariant, PTL DEF Spec, ExitIsFinal

=============================================================================
