--------------------------- MODULE ProcessProofs ---------------------------
(***************************************************************************)
(* Theorems about module Process, for a table, a heap and a PID range of   *)
(* any size.                                                               *)
(***************************************************************************)
EXTENDS Process, WellFoundedInduction, TLAPS

(* new_parent_for returns PID 1 or the PID of a slot in use that is a      *)
(* living child_subreaper.                                                 *)
LEMMA HeirIsAlive ==
  ASSUME NEW d \in Slots
  PROVE  NewParentFor(d) = 1 \/ IsHeir(NewParentFor(d))
<1> DEFINE up    == Ancestor(d)
           Found == {k \in 0 .. MaxProcesses - 1 : IsHeir(up[k])}
           Least(k) == k \in Found /\ \A j \in Found : k <= j
<1>1. CASE Found = {}
  BY <1>1 DEF NewParentFor
<1>2. CASE Found # {}
  <2>1. Found \subseteq Nat
    BY ProcessAssumption
  <2>2. \E k \in Found : \A j \in Found : ~ (<<j, k>> \in OpToRel(<, Nat))
    BY <1>2, <2>1, NatLessThanWellFounded, WFMin
  <2>3. PICK k \in Found : \A j \in Found : ~ (j < k)
    BY <2>1, <2>2, Zenon DEF OpToRel
  <2>4. \A j \in Found : k <= j
    BY <2>1, <2>3
  <2>5. IsHeir(up[CHOOSE i \in Found : \A j \in Found : i <= j])
    <3>1. (CHOOSE i \in Found : \A j \in Found : i <= j) \in Found
      BY <2>4
    <3> QED
      BY <3>1
  <2>6. NewParentFor(d) = up[CHOOSE i \in Found : \A j \in Found : i <= j]
    BY <1>2 DEF NewParentFor
  <2> QED
    BY <2>5, <2>6
<1> QED
  BY <1>1, <1>2

-----------------------------------------------------------------------------
(* Types. *)

LEMMA HeirType ==
  ASSUME TypeOK, NEW d \in Slots
  PROVE  NewParentFor(d) \in Nat
<1>1. CASE NewParentFor(d) = 1
  BY <1>1
<1>2. CASE IsHeir(NewParentFor(d))
  BY <1>2 DEF IsHeir, SlotsOf, TypeOK
<1> QED
  BY <1>1, <1>2, HeirIsAlive

LEMMA ReparentedType ==
  ASSUME TypeOK, NEW d \in Slots
  PROVE  Reparented(d) \in [Slots -> Nat]
BY HeirType DEF Reparented, TypeOK

(* The states scheduler_yield starts from, and what it leaves. *)
LEMMA YieldType ==
  ASSUME TypeOK, NEW st \in [Slots -> States], YieldFrom(st)
  PROVE  /\ state' \in [Slots -> States]
         /\ current' \in Slots
         /\ cpu' \in Blocks \cup {BOOT}
         /\ esp' \in [Slots -> Blocks \cup {BOOT}]
<1>1. PICK g \in Guarded(st) : \E n \in Candidates(g) : SwitchTo(g, n)
  BY DEF YieldFrom
<1>2. PICK n \in Candidates(g) : SwitchTo(g, n)
  BY <1>1
<1>3. g \in [Slots -> States]
  BY <1>1 DEF Guarded, TypeOK, States
<1>4. n \in Slots
  BY DEF Candidates, Runnable
<1> QED
  BY <1>2, <1>3, <1>4, SMTT(30) DEF SwitchTo, cpuvars, TypeOK, States

LEMMA TickStates ==
  ASSUME TypeOK, NEW st \in Charged
  PROVE  /\ st \in [Slots -> States]
         /\ Reaped(Woken(st)) \in [Slots -> States]
BY DEF Charged, Woken, Reaped, Reapable, TypeOK, States

(* The first assignments of the table are well typed. *)
LEMMA InitType ==
  ASSUME Init
  PROVE  TypeOK
<1> USE ProcessAssumption DEF Init, Slots, MAIN, IDLE, PROG, BOOT, Blocks, ROOT, Uids
<1>1. state \in [Slots -> States]
  BY DEF States
<1>2. pid \in [Slots -> Nat] /\ ppid \in [Slots -> Nat]
  OBVIOUS
<1>3. uid \in [Slots -> Uids] /\ ring \in [Slots -> {0, 3}]
  OBVIOUS
<1>4. stack_base \in [Slots -> Blocks \cup {BOOT}] /\ esp = stack_base
  OBVIOUS
<1>5. heap \subseteq Blocks /\ cpu \in Blocks \cup {BOOT} /\ current \in Slots
  OBVIOUS
<1>6. cont \in [Slots -> Points]
  BY DEF Points
<1>7. /\ child_subreaper \in [Slots -> BOOLEAN]
      /\ sleep_ticks \in [Slots -> 0 .. MaxSleep]
      /\ next_pid \in Nat /\ ptr \in [Slots -> Slots] /\ reg \in [Slots -> Nat]
  OBVIOUS
<1> HIDE ProcessAssumption DEF Init, Slots, MAIN, IDLE, PROG, BOOT, Blocks, ROOT, Uids
<1> QED
  BY <1>1, <1>2, <1>3, <1>4, <1>5, <1>6, <1>7 DEF TypeOK

LEMMA SystemSlots == 0 \in Slots /\ 1 \in Slots /\ 2 \in Slots /\ 1 \in 0 .. MaxSleep
BY ProcessAssumption DEF Slots

(* What a round of wait4 does to the table: it returns, or it naps. *)
LEMMA WaitEffect ==
  ASSUME NEW sel, WaitRound(sel)
  PROVE  \/ Return /\ UNCHANGED <<state, sleep_ticks>>
         \/ /\ GoToSleep(1, "wait")
            /\ reg' = [reg EXCEPT ![current] = sel]
            /\ UNCHANGED ptr
BY DEF WaitRound

LEMMA StepType ==
  ASSUME TypeOK, [Next]_vars
  PROVE  TypeOK'
<1> USE DEF TypeOK, Goto, Return, GoToSleep, ids, stacks, cpuvars, locals, logvars
<1>1. CASE CreateBegin
  BY <1>1 DEF CreateBegin, Points
<1>2. CASE CreateWipe
  BY <1>2, ProcessAssumption DEF CreateWipe, Points, States, Uids, ROOT
<1>3. CASE CreateAlloc
  BY <1>3 DEF CreateAlloc, Points
<1>4. CASE CreateNoMemory
  BY <1>4, SystemSlots DEF CreateNoMemory, Points
<1>5. CASE CreatePid
  BY <1>5 DEF CreatePid, Points
<1>6. CASE CreateFill
  BY <1>6 DEF CreateFill, Points
<1>7. CASE CreateReady
  BY <1>7, SystemSlots DEF CreateReady, Points, States
<1>8. CASE ExitBegin
  BY <1>8 DEF ExitBegin, Points, States
<1>9. CASE ExitEnded
  BY <1>9, ReparentedType DEF ExitEnded, Points
<1>10. CASE KillBegin
  BY <1>10 DEF KillBegin, Points
<1>11. CASE KillMark
  BY <1>11 DEF KillMark, Points, States
<1>12. CASE KillEnded
  BY <1>12, ReparentedType, SystemSlots DEF KillEnded, Points
<1>13. CASE SleepBegin
  BY <1>13 DEF SleepBegin, Points, States
<1>14. CASE SleepEnd
  BY <1>14 DEF SleepEnd, Points
<1>15. ASSUME NEW sel \in Nat, WaitRound(sel), UNCHANGED <<ids, next_pid, stacks, cpuvars>>
       PROVE  TypeOK'
  <2>1. CASE Return /\ UNCHANGED <<state, sleep_ticks>>
    BY <1>15, <2>1, SystemSlots DEF Points
  <2>2. CASE /\ GoToSleep(1, "wait")
             /\ reg' = [reg EXCEPT ![current] = sel]
             /\ UNCHANGED ptr
    BY <1>15, <2>2, SystemSlots DEF Points, States
  <2> QED
    BY <1>15, <2>1, <2>2, WaitEffect
<1>16. CASE WaitBegin
  BY <1>15, <1>16, ProcessAssumption DEF WaitBegin
<1>17. CASE WaitLoop
  BY <1>15, <1>17 DEF WaitLoop
<1>18. CASE SetSubreaper
  BY <1>18 DEF SetSubreaper
<1>19. CASE YieldAway
  BY <1>19, YieldType DEF YieldAway
<1>20. CASE SchedYield
  BY <1>20, YieldType DEF SchedYield
<1>21. CASE Tick
  <2>1. PICK st \in Charged :
          /\ sleep_ticks' = CountDown(st)
          /\ heap' = heap \ {stack_base[s] : s \in Reapable(Woken(st))}
          /\ stack_base' = [s \in Slots |->
               IF s \in Reapable(Woken(st)) THEN BOOT ELSE stack_base[s]]
          /\ \/ state' = Reaped(Woken(st)) /\ UNCHANGED cpuvars
             \/ YieldFrom(Reaped(Woken(st)))
    BY <1>21 DEF Tick
  <2>2. /\ state' \in [Slots -> States]
        /\ current' \in Slots
        /\ cpu' \in Blocks \cup {BOOT}
        /\ esp' \in [Slots -> Blocks \cup {BOOT}]
    BY <2>1, TickStates, YieldType
  <2>3. sleep_ticks' \in [Slots -> 0 .. MaxSleep]
    BY <2>1, ProcessAssumption DEF CountDown
  <2>4. heap' \subseteq Blocks /\ stack_base' \in [Slots -> Blocks \cup {BOOT}]
    BY <2>1
  <2> QED
    BY <1>21, <2>2, <2>3, <2>4 DEF Tick
<1>22. CASE UNCHANGED vars
  BY <1>22 DEF vars
<1>23. CASE CreateQuota
  BY <1>23, SystemSlots DEF CreateQuota, Points
<1>24. CASE CreateFind
  BY <1>24, SystemSlots DEF CreateFind, Points
<1>25. CASE SetUid
  BY <1>25 DEF SetUid
<1>26. CASE SessionSwitch
  BY <1>26 DEF SessionSwitch
<1> QED
  BY <1>1, <1>2, <1>3, <1>4, <1>5, <1>6, <1>7, <1>8, <1>9, <1>10, <1>11, <1>12, <1>13,
     <1>14, <1>16, <1>17, <1>18, <1>19, <1>20, <1>21, <1>22, <1>23, <1>24,
     <1>25, <1>26 DEF Next, KernelStep

(* Every field of the table, and the locals of every thread inside an      *)
(* operation, keep their types, whichever operations ring 0 performs.      *)
THEOREM TypeCorrect == Spec => []TypeOK
<1>1. Init => TypeOK
  BY InitType
<1>2. TypeOK /\ [Next]_vars => TypeOK'
  BY StepType
<1> QED
  BY <1>1, <1>2, PTL DEF Spec

-----------------------------------------------------------------------------
(* The scheduler's bookkeeping.  SchedulerSound is not inductive: a thread *)
(* inside process_create or process_kill holds a pointer into the table,   *)
(* and idle, on whom "there is always a choice" rests, is retired as soon  *)
(* as the CPU is not on its stack.                                         *)

SlotPoints == {"create_wipe", "create_alloc", "create_pid", "create_fill", "create_ready"}
CreatePoints == {"create_quota", "create_find"} \cup SlotPoints

IdleIntact ==
  /\ cont[IDLE] = "run" /\ ring[IDLE] = 0
  /\ stack_base[IDLE] = 1 /\ esp[IDLE] = 1
  /\ current = IDLE => cpu = 1

PointersApart ==
  \A k \in Slots :
    /\ cont[k] \in SlotPoints => ptr[k] \notin {k, IDLE}
    /\ cont[k] = "kill_mark" => ptr[k] \notin System

SchedInv == TypeOK /\ SchedulerSound /\ IdleIntact /\ PointersApart

(* A switch from any table that is sound for the running process leaves a  *)
(* sound one, and idle's saved stack pointer untouched.                    *)
LEMMA YieldSound ==
  ASSUME SchedInv, NEW st \in [Slots -> States], YieldFrom(st),
         \A s \in Slots : st[s] = "RUNNING" => s = current,
         st[IDLE] \in {"READY", "RUNNING"}
  PROVE  /\ SchedulerSound'
         /\ esp'[IDLE] = 1 /\ (current' = IDLE => cpu' = 1)
<1> USE DEF SchedInv, TypeOK, IdleIntact
<1>1. PICK g \in Guarded(st) : \E n \in Candidates(g) : SwitchTo(g, n)
  BY DEF YieldFrom
<1>2. PICK n \in Candidates(g) : SwitchTo(g, n)
  BY <1>1
<1>3. /\ g \in [Slots -> States]
      /\ \A s \in Slots : g[s] = "RUNNING" => s = current
      /\ g[IDLE] \in {"READY", "RUNNING"}
  BY <1>1, SystemSlots DEF Guarded, States, System, BOOT, IDLE
<1>4. n \in Slots /\ g[n] \in {"READY", "RUNNING"}
  BY DEF Candidates, Runnable
<1>5. CASE n = current
  BY <1>2, <1>3, <1>4, <1>5 DEF SwitchTo, cpuvars, SchedulerSound, Live
<1>6. CASE n # current
  <2>1. /\ state' = [g EXCEPT ![current] = IF @ = "RUNNING" THEN "READY" ELSE @,
                             ![n] = "RUNNING"]
        /\ current' = n /\ cpu' = esp[n]
        /\ esp' = [esp EXCEPT ![current] = cpu]
    BY <1>2, <1>6 DEF SwitchTo
  <2>2. SchedulerSound'
    BY <1>3, <1>4, <1>6, <2>1, SystemSlots DEF SchedulerSound, Live, IDLE
  <2>3. esp'[IDLE] = 1 /\ (current' = IDLE => cpu' = 1)
    BY <2>1, SystemSlots DEF IDLE
  <2> QED
    BY <2>2, <2>3
<1> QED
  BY <1>5, <1>6

(* wake_sleepers, the CPU limit and the reaper keep the running process's  *)
(* slot and idle.                                                          *)
LEMMA TickSound ==
  ASSUME SchedInv, NEW st \in Charged
  PROVE  /\ \A s \in Slots : Reaped(Woken(st))[s] = "RUNNING" => s = current
         /\ Reaped(Woken(st))[IDLE] \in {"READY", "RUNNING"}
         /\ Reaped(Woken(st))[current] # "FREE"
         /\ IDLE \notin Reapable(Woken(st))
<1> USE SystemSlots DEF SchedInv, TypeOK, SchedulerSound, Live, IDLE
<1>1. /\ st \in [Slots -> States]
      /\ \A s \in Slots : st[s] = "RUNNING" => s = current
      /\ st[IDLE] \in {"READY", "RUNNING"} /\ st[current] # "FREE"
  BY DEF Charged, States, System
<1>2. /\ Woken(st) \in [Slots -> States]
      /\ \A s \in Slots : Woken(st)[s] = "RUNNING" => s = current
      /\ Woken(st)[IDLE] \in {"READY", "RUNNING"} /\ Woken(st)[current] # "FREE"
  BY <1>1 DEF Woken, States
<1> QED
  BY <1>2 DEF Reaped, Reapable

LEMMA InitSched ==
  ASSUME Init
  PROVE  SchedInv
<1>1. TypeOK
  BY InitType
<1>2. SchedulerSound
  BY SystemSlots DEF Init, SchedulerSound, Live, IDLE, MAIN, PROG
<1>3. IdleIntact /\ PointersApart
  BY SystemSlots DEF Init, IdleIntact, PointersApart, IDLE, MAIN, PROG, SlotPoints
<1> QED
  BY <1>1, <1>2, <1>3 DEF SchedInv

LEMMA StepSched ==
  ASSUME SchedInv, [Next]_vars
  PROVE  SchedInv'
<1>0. TypeOK'
  BY StepType DEF SchedInv
<1> SUFFICES SchedulerSound' /\ IdleIntact' /\ PointersApart'
  BY <1>0 DEF SchedInv
<1> USE SystemSlots DEF SchedInv, TypeOK, SchedulerSound, IdleIntact, PointersApart, Live,
        IDLE, SlotPoints, Goto, Return, GoToSleep,
        ids, stacks, cpuvars, locals, logvars
<1>1. CASE CreateBegin
  BY <1>1 DEF CreateBegin, MayStart
<1>2. CASE CreateWipe
  BY <1>2 DEF CreateWipe
<1>3. CASE CreateAlloc
  BY <1>3, SMTT(30) DEF CreateAlloc
<1>4. CASE CreateNoMemory
  BY <1>4 DEF CreateNoMemory
<1>5. CASE CreatePid
  BY <1>5 DEF CreatePid
<1>6. CASE CreateFill
  BY <1>6 DEF CreateFill
<1>7. CASE CreateReady
  BY <1>7 DEF CreateReady
<1>8. CASE ExitBegin
  BY <1>8 DEF ExitBegin, System
<1>9. CASE ExitEnded
  BY <1>9 DEF ExitEnded
<1>10. CASE KillBegin
  BY <1>10, SMTT(30) DEF KillBegin, MayStart, KillAllowed
<1>11. CASE KillMark
  BY <1>11 DEF KillMark, System
<1>12. CASE KillEnded
  BY <1>12 DEF KillEnded
<1>13. CASE SleepBegin
  BY <1>13 DEF SleepBegin
<1>14. CASE SleepEnd
  BY <1>14 DEF SleepEnd
<1>15. ASSUME NEW sel, WaitRound(sel), current # IDLE,
              UNCHANGED <<ids, next_pid, stacks, cpuvars>>
       PROVE  SchedulerSound' /\ IdleIntact' /\ PointersApart'
  BY SMTT(30), <1>15, WaitEffect
<1>16. CASE WaitBegin
  BY <1>15, <1>16, SMTT(30) DEF WaitBegin
<1>17. CASE WaitLoop
  BY <1>15, <1>17 DEF WaitLoop
<1>18. CASE SetSubreaper
  BY <1>18 DEF SetSubreaper
<1>19. CASE YieldAway
  BY <1>19, YieldSound DEF YieldAway
<1>20. CASE SchedYield
  BY <1>20, YieldSound DEF SchedYield
<1>21. CASE Tick
  <2>1. PICK st \in Charged :
          /\ stack_base' = [s \in Slots |->
               IF s \in Reapable(Woken(st)) THEN BOOT ELSE stack_base[s]]
          /\ \/ state' = Reaped(Woken(st)) /\ UNCHANGED cpuvars
             \/ YieldFrom(Reaped(Woken(st)))
    BY <1>21 DEF Tick
  <2>2. /\ SchedulerSound'
        /\ esp'[IDLE] = 1 /\ (current' = IDLE => cpu' = 1)
    <3>1. CASE state' = Reaped(Woken(st)) /\ UNCHANGED cpuvars
      BY <3>1, TickSound
    <3>2. CASE YieldFrom(Reaped(Woken(st)))
      BY <3>2, TickSound, TickStates, YieldSound
    <3> QED
      BY <2>1, <3>1, <3>2
  <2>3. stack_base'[IDLE] = 1
    BY <2>1, TickSound
  <2> QED
    BY <1>21, <2>2, <2>3 DEF Tick
<1>22. CASE UNCHANGED vars
  BY <1>22 DEF vars
<1>23. CASE CreateQuota
  BY <1>23 DEF CreateQuota
<1>24. CASE CreateFind
  BY <1>24 DEF CreateFind, IsFirstFree, Free
<1>25. CASE SetUid
  BY <1>25 DEF SetUid
<1>26. CASE SessionSwitch
  BY <1>26 DEF SessionSwitch
<1> QED
  BY <1>1, <1>2, <1>3, <1>4, <1>5, <1>6, <1>7, <1>8, <1>9, <1>10, <1>11, <1>12, <1>13,
     <1>14, <1>16, <1>17, <1>18, <1>19, <1>20, <1>21, <1>22, <1>23, <1>24,
     <1>25, <1>26 DEF Next, KernelStep

(* Only the process on the CPU is RUNNING, its slot is never given away    *)
(* under it, and idle can always be picked: for every table size and       *)
(* whatever ring 0 code does with interrupts on.                           *)
THEOREM SchedulerIsSound == Spec => []SchedulerSound
<1>1. Init => SchedInv
  BY InitSched
<1>2. SchedInv /\ [Next]_vars => SchedInv'
  BY StepSched
<1>3. SchedInv => SchedulerSound
  BY DEF SchedInv
<1> QED
  BY <1>1, <1>2, <1>3, PTL DEF Spec
=============================================================================
