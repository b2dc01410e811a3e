------------------------- MODULE ProcessStackProofs -------------------------
(***************************************************************************)
(* Stacks, where process_create runs with interrupts off (every system     *)
(* call that creates a process, and the ring 0 callers that wrap it in     *)
(* cpu_irq_save): "create" is not among the operations that ticks          *)
(* interrupt.                                                              *)
(***************************************************************************)
EXTENDS ProcessProofs

Alive(x) == x \notin {"FREE", "ZOMBIE"}

(* StackSafe is not inductive by itself.  A slot being filled is still     *)
(* FREE, so nothing in the table says its stack is taken: OneCreator does. *)
BlocksOwned == \A s \in Slots : stack_base[s] \in heap \cup {BOOT}

MainIntact == stack_base[MAIN] = BOOT /\ ring[MAIN] = 0 /\ Alive(state[MAIN])

OneCreator ==
  \A k \in Slots :
    /\ cont[k] \in CreatePoints => k = current /\ ring[k] = 3
    /\ cont[k] \in SlotPoints => state[ptr[k]] = "FREE"
    /\ cont[k] \in {"create_pid", "create_fill", "create_ready"} =>
         stack_base[ptr[k]] \in heap /\ esp[ptr[k]] = stack_base[ptr[k]]

StackInv == SchedInv /\ StackSafe /\ BlocksOwned /\ MainIntact /\ OneCreator

(* A switch puts the CPU on the stack of the process it picks and saves    *)
(* the other's stack pointer where its PCB says its stack is.              *)
LEMMA YieldStacks ==
  ASSUME StackInv, NEW st \in [Slots -> States], YieldFrom(st),
         \A s \in Slots : Alive(st[s]) => Alive(state[s])
  PROVE  /\ \A s \in Slots : Alive(state'[s]) => Alive(st[s])
         /\ Alive(st[current'])
         /\ cpu' = stack_base[current']
         /\ \A s \in Slots : Alive(st[s]) /\ s # current' => esp'[s] = stack_base[s]
         /\ Alive(st[MAIN]) => Alive(state'[MAIN])
<1> USE DEF StackInv, SchedInv, TypeOK, StackSafe, MainIntact, Alive
<1>1. PICK g \in Guarded(st) : \E n \in Candidates(g) : SwitchTo(g, n)
  BY DEF YieldFrom
<1>2. PICK n \in Candidates(g) : SwitchTo(g, n)
  BY <1>1
<1>3. /\ g \in [Slots -> States]
      /\ \A s \in Slots : Alive(g[s]) => Alive(st[s])
      /\ Alive(st[MAIN]) => Alive(g[MAIN])
  BY <1>1, SystemSlots DEF Guarded, States, MAIN
<1>4. n \in Slots /\ g[n] \in {"READY", "RUNNING"}
  BY DEF Candidates, Runnable
<1>5. CASE n = current
  BY <1>2, <1>3, <1>4, <1>5 DEF SwitchTo, cpuvars
<1>6. CASE n # current
  <2>1. /\ state' = [g EXCEPT ![current] = IF @ = "RUNNING" THEN "READY" ELSE @,
                             ![n] = "RUNNING"]
        /\ current' = n /\ cpu' = esp[n]
        /\ esp' = [esp EXCEPT ![current] = cpu]
    BY <1>2, <1>6 DEF SwitchTo
  <2>2. /\ \A s \in Slots : Alive(state'[s]) => Alive(st[s])
        /\ Alive(st[MAIN]) => Alive(state'[MAIN])
    BY <1>3, <1>4, <2>1, SystemSlots DEF MAIN
  <2>3. cpu' = stack_base[current'] /\ Alive(st[current'])
    BY <1>3, <1>4, <1>6, <2>1
  <2>4. \A s \in Slots : Alive(st[s]) /\ s # current' => esp'[s] = stack_base[s]
    BY <1>4, <1>6, <2>1
  <2> QED
    BY <2>1, <2>2, <2>3, <2>4
<1> QED
  BY <1>5, <1>6

LEMMA InitStack ==
  ASSUME Init
  PROVE  StackInv
<1>1. SchedInv
  BY InitSched
<1>2. StackSafe
  BY SystemSlots DEF Init, StackSafe, IDLE, MAIN, PROG, BOOT
<1>3. BlocksOwned /\ MainIntact /\ OneCreator
  BY SystemSlots DEF Init, BlocksOwned, MainIntact, OneCreator, CreatePoints, SlotPoints, Alive,
     IDLE, MAIN, PROG, BOOT
<1> QED
  BY <1>1, <1>2, <1>3 DEF StackInv

(* While somebody creates, the CPU is theirs: nobody else is in the middle *)
(* of process_create and no tick comes.                                    *)
LEMMA NoCreator ==
  ASSUME StackInv, cont[current] \notin CreatePoints
  PROVE  \A k \in Slots : cont[k] \notin CreatePoints
BY DEF StackInv, OneCreator

LEMMA YieldKeepsStacks ==
  ASSUME StackInv, YieldFrom(state), cont[current] \notin CreatePoints,
         UNCHANGED <<stacks, cont, ptr>>
  PROVE  StackSafe' /\ BlocksOwned' /\ MainIntact' /\ OneCreator'
<1> USE DEF StackInv, SchedInv, TypeOK, Alive, stacks
<1>1. /\ \A s \in Slots : Alive(state'[s]) => Alive(state[s])
      /\ Alive(state[current'])
      /\ cpu' = stack_base[current']
      /\ \A s \in Slots : Alive(state[s]) /\ s # current' => esp'[s] = stack_base[s]
      /\ Alive(state[MAIN]) => Alive(state'[MAIN])
  BY YieldStacks
<1>2. current' \in Slots
  BY YieldType
<1>3. StackSafe'
  BY <1>1, <1>2 DEF StackSafe
<1>4. OneCreator'
  BY NoCreator DEF OneCreator, CreatePoints, SlotPoints
<1> QED
  BY <1>1, <1>3, <1>4 DEF BlocksOwned, MainIntact

LEMMA TickKeepsStacks ==
  ASSUME StackInv, Tick
  PROVE  StackSafe' /\ BlocksOwned' /\ MainIntact' /\ OneCreator'
<1> USE DEF StackInv, SchedInv, TypeOK, Alive
<1>1. PICK st \in Charged :
        /\ heap' = heap \ {stack_base[s] : s \in Reapable(Woken(st))}
        /\ stack_base' = [s \in Slots |->
             IF s \in Reapable(Woken(st)) THEN BOOT ELSE stack_base[s]]
        /\ \/ /\ Reaped(Woken(st))[current] = "RUNNING"
              /\ state' = Reaped(Woken(st)) /\ UNCHANGED cpuvars
           \/ YieldFrom(Reaped(Woken(st)))
  BY DEF Tick
<1> DEFINE after == Reaped(Woken(st))
           dead  == Reapable(Woken(st))
<1>2. /\ after \in [Slots -> States]
      /\ \A s \in Slots : Alive(after[s]) => Alive(state[s]) /\ s \notin dead
      /\ Alive(after[MAIN])
  BY SystemSlots DEF Charged, Woken, Reaped, Reapable, States, MainIntact, System, MAIN
<1> HIDE DEF after, dead
<1>3. /\ \A s \in Slots : Alive(state'[s]) => Alive(after[s])
      /\ current' \in Slots /\ Alive(after[current'])
      /\ cpu' = stack_base[current']
      /\ \A s \in Slots : Alive(after[s]) /\ s # current' => esp'[s] = stack_base[s]
      /\ Alive(state'[MAIN])
  <2>1. CASE after[current] = "RUNNING" /\ state' = after /\ UNCHANGED cpuvars
    BY <1>2, <2>1 DEF StackSafe, cpuvars
  <2>2. CASE YieldFrom(after)
    BY <1>2, <2>2, YieldStacks, YieldType
  <2> QED
    BY <1>1, <2>1, <2>2 DEF after
<1>4. \A s \in Slots : Alive(after[s]) =>
        /\ stack_base'[s] = stack_base[s]
        /\ s # MAIN => stack_base'[s] \in heap'
  <2> SUFFICES ASSUME NEW s \in Slots, Alive(after[s])
               PROVE  /\ stack_base'[s] = stack_base[s]
                      /\ s # MAIN => stack_base'[s] \in heap'
    OBVIOUS
  <2>1. stack_base'[s] = stack_base[s]
    BY <1>1, <1>2 DEF dead
  <2>2. ASSUME s # MAIN PROVE stack_base[s] \in heap /\ stack_base[s] # BOOT
    BY <1>2, <2>2 DEF StackSafe, BOOT, Blocks
  <2>3. ASSUME s # MAIN, NEW t \in dead PROVE stack_base[t] # stack_base[s]
    BY <1>2, <2>2, <2>3 DEF StackSafe, dead, Reapable
  <2> QED
    BY <1>1, <2>1, <2>2, <2>3 DEF dead
<1>5. \A s \in Slots : stack_base'[s] \in heap' \cup {BOOT}
  BY <1>1 DEF BlocksOwned, StackSafe, dead, Reapable
<1>6. \A s, t \in Slots :
        stack_base'[s] = stack_base'[t] /\ s # t => stack_base'[s] = BOOT
  BY <1>1 DEF StackSafe
<1>7. StackSafe'
  BY <1>3, <1>4, <1>6 DEF StackSafe
<1>8. MainIntact'
  BY <1>1, <1>3, SystemSlots DEF MainIntact, MAIN, Tick
<1>9. OneCreator'
  <2>1. cont[current] \notin CreatePoints
    BY DEF Tick, IrqsOn, OneCreator, CreatePoints, SlotPoints
  <2> QED
    BY <2>1, NoCreator DEF OneCreator, CreatePoints, SlotPoints, Tick, locals
<1> QED
  BY <1>5, <1>7, <1>8, <1>9 DEF BlocksOwned

LEMMA StepStack ==
  ASSUME "create" \notin Ring0Ops, StackInv, [Next]_vars
  PROVE  StackInv'
<1>0. SchedInv'
  BY StepSched DEF StackInv
<1> SUFFICES StackSafe' /\ BlocksOwned' /\ MainIntact' /\ OneCreator'
  BY <1>0 DEF StackInv
<1> USE SystemSlots DEF StackInv, SchedInv, TypeOK, Alive, MAIN,
        StackSafe, BlocksOwned, MainIntact, OneCreator, PointersApart, CreatePoints, SlotPoints,
        Goto, Return, GoToSleep, ids, stacks, cpuvars, locals, logvars
<1>1. CASE CreateBegin
  BY <1>1 DEF CreateBegin, MayStart
<1>2. CASE CreateWipe
  BY <1>2, SMTT(30) DEF CreateWipe
<1>3. CASE CreateAlloc
  BY <1>3, SMTT(30) DEF CreateAlloc
<1>4. CASE CreateNoMemory
  BY <1>4 DEF CreateNoMemory
<1>5. CASE CreatePid
  BY <1>5 DEF CreatePid
<1>6. CASE CreateFill
  BY <1>6 DEF CreateFill
<1>7. CASE CreateReady
  BY <1>7 DEF CreateReady
<1>8. CASE ExitBegin
  BY <1>8 DEF ExitBegin, System, MayStart
<1>9. CASE ExitEnded
  BY <1>9 DEF ExitEnded
<1>10. CASE KillBegin
  BY <1>10 DEF KillBegin, MayStart
<1>11. CASE KillMark
  BY <1>11 DEF KillMark, System
<1>12. CASE KillEnded
  BY <1>12 DEF KillEnded
<1>13. CASE SleepBegin
  BY <1>13 DEF SleepBegin
<1>14. CASE SleepEnd
  BY <1>14 DEF SleepEnd
<1>15. ASSUME NEW sel, WaitRound(sel), cont[current] \notin CreatePoints,
              UNCHANGED <<ids, next_pid, stacks, cpuvars>>
       PROVE  StackSafe' /\ BlocksOwned' /\ MainIntact' /\ OneCreator'
  BY <1>15, WaitEffect
<1>16. CASE WaitBegin
  BY <1>15, <1>16 DEF WaitBegin
<1>17. CASE WaitLoop
  BY <1>15, <1>17 DEF WaitLoop
<1>18. CASE SetSubreaper
  BY <1>18 DEF SetSubreaper
<1>19. CASE YieldAway
  BY <1>19, YieldKeepsStacks DEF YieldAway
<1>20. CASE SchedYield
  BY <1>20, YieldKeepsStacks DEF SchedYield
<1>21. CASE Tick
  BY <1>21, TickKeepsStacks
<1>22. CASE UNCHANGED vars
  BY <1>22 DEF vars
<1>23. CASE CreateQuota
  BY <1>23 DEF CreateQuota
<1>24. CASE CreateFind
  BY <1>24 DEF CreateFind, IsFirstFree, Free
<1>25. CASE SetUid
  BY <1>25 DEF SetUid
<1>26. CASE SessionSwitch
  BY <1>26 DEF SessionSwitch
<1> QED
  BY <1>1, <1>2, <1>3, <1>4, <1>5, <1>6, <1>7, <1>8, <1>9, <1>10, <1>11, <1>12, <1>13,
     <1>14, <1>16, <1>17, <1>18, <1>19, <1>20, <1>21, <1>22, <1>23, <1>24,
     <1>25, <1>26 DEF Next, KernelStep

(* If no tick can fall into process_create, the CPU is always on the stack *)
(* of the running process and everybody who can still run has a stack of   *)
(* its own: whatever ring 0 code does with exit and kill, and however the  *)
(* kernel retires processes.                                               *)
THEOREM StacksAreSafe ==
  ASSUME "create" \notin Ring0Ops
  PROVE  Spec => []StackSafe
<1>1. Init => StackInv
  BY InitStack
<1>2. StackInv /\ [Next]_vars => StackInv'
  BY StepStack
<1>3. StackInv => StackSafe
  BY DEF StackInv
<1> QED
  BY <1>1, <1>2, <1>3, PTL DEF Spec
=============================================================================
