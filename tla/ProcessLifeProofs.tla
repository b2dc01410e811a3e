-------------------------- MODULE ProcessLifeProofs --------------------------
(***************************************************************************)
(* Life cycle and PIDs, where no tick can fall into process_create or      *)
(* process_kill.                                                           *)
(***************************************************************************)
EXTENDS ProcessStackProofs

KillPoints == {"kill_mark", "kill_ended"}

(* The running process has ended only inside process_exit_with, and the    *)
(* pointer a killer holds still names the process it looked up.            *)
Settled ==
  /\ state[current] = "ZOMBIE" => cont[current] \in {"exit_ended", "dead"}
  /\ \A k \in Slots :
       /\ cont[k] \in KillPoints => k = current /\ ring[k] = 3 /\ ptr[k] # k
       /\ cont[k] = "kill_mark" => state[ptr[k]] # "FREE"
       /\ cont[k] = "kill_ended" => state[ptr[k]] = "ZOMBIE"

LifeInv == StackInv /\ Settled

(* What a switch does to the table: nobody is brought back to life.        *)
LEMMA YieldLife ==
  ASSUME LifeInv, NEW st \in [Slots -> States], YieldFrom(st)
  PROVE  /\ \A s \in Slots :
              /\ Alive(state'[s]) => Alive(st[s])
              /\ st[s] = "ZOMBIE" => state'[s] = "ZOMBIE"
              /\ state'[s] = "FREE" => st[s] = "FREE"
              /\ st[s] = "FREE" /\ s # current => state'[s] = "FREE"
              /\ Alive(st[s]) /\ s # current => Alive(state'[s])
         /\ state'[current'] \in {"READY", "RUNNING"}
<1> USE DEF LifeInv, StackInv, SchedInv, TypeOK, Alive
<1>1. PICK g \in Guarded(st) : \E n \in Candidates(g) : SwitchTo(g, n)
  BY DEF YieldFrom
<1>2. PICK n \in Candidates(g) : SwitchTo(g, n)
  BY <1>1
<1>3. /\ g \in [Slots -> States]
      /\ g = st \/ g = [st EXCEPT ![current] = "ZOMBIE"]
  BY <1>1 DEF Guarded, States
<1>4. n \in Slots /\ g[n] \in {"READY", "RUNNING"}
  BY DEF Candidates, Runnable
<1>5. CASE n = current
  BY <1>2, <1>3, <1>4, <1>5 DEF SwitchTo, cpuvars
<1>6. CASE n # current
  <2>1. /\ state' = [g EXCEPT ![current] = IF @ = "RUNNING" THEN "READY" ELSE @,
                             ![n] = "RUNNING"]
        /\ current' = n
    BY <1>2, <1>6 DEF SwitchTo
  <2> QED
    BY <1>3, <1>4, <1>6, <2>1
<1> QED
  BY <1>5, <1>6

LEMMA TickTable ==
  ASSUME LifeInv, NEW st \in Charged
  PROVE  \A s \in Slots :
           /\ Alive(Reaped(Woken(st))[s]) => Alive(state[s])
           /\ state[s] = "FREE" => Reaped(Woken(st))[s] = "FREE"
           /\ Reaped(Woken(st))[s] = "FREE" => state[s] \in {"FREE", "ZOMBIE"}
           /\ s = current => Reaped(Woken(st))[s] # "FREE"
           /\ s # current /\ Alive(state[s]) => Alive(Reaped(Woken(st))[s])
BY DEF LifeInv, StackInv, SchedInv, TypeOK, SchedulerSound, Live, Alive,
       Charged, Woken, Reaped, Reapable, States

LEMMA InitLife ==
  ASSUME Init
  PROVE  LifeInv
<1>1. StackInv
  BY InitStack
<1>2. Settled
  BY SystemSlots DEF Init, Settled, KillPoints, MAIN, PROG
<1> QED
  BY <1>1, <1>2 DEF LifeInv

(* Outside process_kill nobody holds a pointer to kill. *)
LEMMA NoKiller ==
  ASSUME LifeInv, cont[current] \notin KillPoints
  PROVE  \A k \in Slots : cont[k] \notin KillPoints
BY DEF LifeInv, Settled

LEMMA StepLife ==
  ASSUME "create" \notin Ring0Ops, "kill" \notin Ring0Ops, LifeInv, [Next]_vars
  PROVE  LifeInv' /\ (LifeStep \/ UNCHANGED vars)
<1>0. StackInv'
  BY StepStack DEF LifeInv
<1> SUFFICES Settled' /\ LifeStep
  BY <1>0 DEF LifeInv
<1> USE SystemSlots DEF LifeInv, StackInv, SchedInv, TypeOK, SchedulerSound, Live, Alive,
        OneCreator, PointersApart, CreatePoints, SlotPoints, KillPoints, Settled, LifeStep,
        Goto, Return, GoToSleep, ids, stacks, cpuvars, locals, logvars
<1>1. CASE CreateBegin
  BY <1>1 DEF CreateBegin, MayStart
<1>2. CASE CreateWipe
  BY <1>2 DEF CreateWipe
<1>3. CASE CreateAlloc
  BY <1>3 DEF CreateAlloc
<1>4. CASE CreateNoMemory
  BY <1>4 DEF CreateNoMemory
<1>5. CASE CreatePid
  BY <1>5 DEF CreatePid
<1>6. CASE CreateFill
  BY <1>6 DEF CreateFill
<1>7. CASE CreateReady
  BY <1>7 DEF CreateReady
<1>8. CASE ExitBegin
  BY <1>8 DEF ExitBegin, MayStart
<1>9. CASE ExitEnded
  BY <1>9 DEF ExitEnded
<1>10. CASE KillBegin
  BY <1>10 DEF KillBegin, MayStart
<1>11. CASE KillMark
  BY <1>11 DEF KillMark
<1>12. CASE KillEnded
  BY <1>12 DEF KillEnded
<1>13. CASE SleepBegin
  BY <1>13 DEF SleepBegin
<1>14. CASE SleepEnd
  BY <1>14 DEF SleepEnd
<1>15. ASSUME NEW sel, WaitRound(sel), cont[current] \in {"run", "wait"},
              UNCHANGED <<ids, next_pid, stacks, cpuvars>>
       PROVE  Settled' /\ LifeStep
  BY <1>15, WaitEffect
<1>16. CASE WaitBegin
  BY <1>15, <1>16 DEF WaitBegin
<1>17. CASE WaitLoop
  BY <1>15, <1>17 DEF WaitLoop
<1>18. CASE SetSubreaper
  BY <1>18 DEF SetSubreaper
<1>19. CASE YieldAway
  <2>1. Settled'
    BY <1>19, YieldLife, NoKiller DEF YieldAway
  <2>2. LifeStep
    BY <1>19, YieldLife, SMTT(30) DEF YieldAway
  <2> QED
    BY <2>1, <2>2
<1>20. CASE SchedYield
  <2>1. Settled'
    BY <1>20, YieldLife, NoKiller DEF SchedYield
  <2>2. LifeStep
    BY <1>20, YieldLife, SMTT(30) DEF SchedYield
  <2> QED
    BY <2>1, <2>2
<1>21. CASE Tick
  <2>1. PICK st \in Charged :
          \/ /\ Reaped(Woken(st))[current] = "RUNNING"
             /\ state' = Reaped(Woken(st)) /\ UNCHANGED cpuvars
          \/ YieldFrom(Reaped(Woken(st)))
    BY <1>21 DEF Tick
  <2>2. cont[current] \notin KillPoints
    BY <1>21, SMTT(30) DEF Tick, IrqsOn
  <2>3. /\ Reaped(Woken(st)) \in [Slots -> States]
        /\ state' \in [Slots -> States]
    BY <1>0, TickStates
  <2>4. CASE /\ Reaped(Woken(st))[current] = "RUNNING"
             /\ state' = Reaped(Woken(st)) /\ UNCHANGED cpuvars
    <3>1. LifeStep
      BY <2>3, <2>4, TickTable, SMTT(30) DEF States
    <3>2. \A k \in Slots : cont'[k] \notin KillPoints
      BY <1>21, <2>2, NoKiller DEF Tick
    <3>3. state'[current'] # "ZOMBIE"
      BY <2>4
    <3> QED
      BY <3>1, <3>2, <3>3
  <2>5. CASE YieldFrom(Reaped(Woken(st)))
    <3>1. Settled'
      BY <1>21, <2>2, <2>3, <2>5, YieldLife, NoKiller DEF Tick
    <3>2. LifeStep
      BY <2>3, <2>5, YieldLife, TickTable DEF States
    <3> QED
      BY <3>1, <3>2
  <2> QED
    BY <2>1, <2>4, <2>5
<1>22. CASE UNCHANGED vars
  BY <1>22 DEF vars
<1>23. CASE CreateQuota
  BY <1>23 DEF CreateQuota
<1>24. CASE CreateFind
  BY <1>24 DEF CreateFind
<1>25. CASE SetUid
  BY <1>25 DEF SetUid
<1>26. CASE SessionSwitch
  BY <1>26 DEF SessionSwitch
<1> QED
  BY <1>1, <1>2, <1>3, <1>4, <1>5, <1>6, <1>7, <1>8, <1>9, <1>10, <1>11, <1>12, <1>13,
     <1>14, <1>16, <1>17, <1>18, <1>19, <1>20, <1>21, <1>22, <1>23, <1>24,
     <1>25, <1>26 DEF Next, KernelStep

(* The life of a process is the one process.h draws, for every table size, *)
(* as long as creating and killing are not interrupted: however a process  *)
(* is retired, only the reaper frees a slot and nobody comes back.         *)
THEOREM LifeCycleHolds ==
  ASSUME "create" \notin Ring0Ops, "kill" \notin Ring0Ops
  PROVE  Spec => LifeCycle
<1>1. Init => LifeInv
  BY InitLife
<1>2. LifeInv /\ [Next]_vars => LifeInv' /\ [LifeStep]_vars
  BY StepLife
<1> QED
  BY <1>1, <1>2, PTL DEF Spec, LifeCycle

-----------------------------------------------------------------------------
(* PIDs.  The counter is read before it is stored, and the new PID is in   *)
(* the table before its slot is in use.                                    *)

Counter ==
  /\ next_pid >= 1
  /\ \A k \in Slots :
       /\ cont[k] = "create_fill" => reg[k] = next_pid
       /\ cont[k] = "create_ready" =>
            /\ pid[ptr[k]] = next_pid - 1 /\ next_pid - 1 >= 1
            /\ \A t \in Slots : Live(t) => pid[t] < next_pid - 1

PidInv == LifeInv /\ PidsUnique /\ Counter

LEMMA InitPid ==
  ASSUME Init
  PROVE  PidInv
<1>1. LifeInv
  BY InitLife
<1>2. PidsUnique
  BY DEF Init, PidsUnique, PidNamesOne, Live, Slots, MAIN, PROG
<1>3. Counter
  BY DEF Init, Counter
<1> QED
  BY <1>1, <1>2, <1>3 DEF PidInv

(* A step that leaves the PIDs alone and brings nobody into the table.     *)
LEMMA SamePids ==
  ASSUME PidInv, \A s \in Slots : Live(s)' => Live(s), UNCHANGED <<pid, next_pid>>,
         \A k \in Slots : cont'[k] \in {"create_fill", "create_ready"} =>
           cont'[k] = cont[k] /\ reg'[k] = reg[k] /\ ptr'[k] = ptr[k]
  PROVE  PidsUnique' /\ Counter'
BY DEF PidInv, PidsUnique, PidNamesOne, Counter

LEMMA StepPid ==
  ASSUME "create" \notin Ring0Ops, "kill" \notin Ring0Ops, PidInv, [Next]_vars
  PROVE  PidInv'
<1>0. LifeInv' /\ (LifeStep \/ UNCHANGED vars)
  BY StepLife DEF PidInv
<1> SUFFICES PidsUnique' /\ Counter'
  BY <1>0 DEF PidInv
<1>a. TypeOK /\ OneCreator /\ Settled /\ SchedulerSound /\ PointersApart
  BY DEF PidInv, LifeInv, StackInv, SchedInv
<1>b. LifeStep
  BY <1>0 DEF LifeStep, vars
<1> USE <1>a, SystemSlots DEF TypeOK, Live, Goto, Return, GoToSleep,
        ids, stacks, cpuvars, locals, logvars
<1>1. CASE CreateBegin
  BY <1>1, SamePids DEF CreateBegin
<1>2. CASE CreateWipe
  BY <1>2 DEF CreateWipe, OneCreator, CreatePoints, SlotPoints, PidInv, PidsUnique, PidNamesOne, Counter
<1>3. CASE CreateAlloc
  BY <1>3, SamePids DEF CreateAlloc
<1>4. CASE CreateNoMemory
  BY <1>4, SamePids DEF CreateNoMemory
<1>5. CASE CreatePid
  BY <1>5 DEF CreatePid, OneCreator, CreatePoints, SlotPoints, PidInv, PidsUnique, PidNamesOne, Counter
<1>6. CASE CreateFill
  BY <1>6, SMTT(30) DEF CreateFill, OneCreator, CreatePoints, SlotPoints, PidInv, PidsUnique, PidNamesOne, Counter
<1>7. CASE CreateReady
  BY <1>7, SMTT(30) DEF CreateReady, OneCreator, CreatePoints, SlotPoints, PidInv, PidsUnique, PidNamesOne, Counter
<1>8. CASE ExitBegin
  BY <1>8, SamePids DEF ExitBegin, SchedulerSound
<1>9. CASE ExitEnded
  BY <1>9, SamePids DEF ExitEnded
<1>10. CASE KillBegin
  BY <1>10, SamePids DEF KillBegin
<1>11. CASE KillMark
  BY <1>11, SamePids DEF KillMark, Settled
<1>12. CASE KillEnded
  BY <1>12, SamePids DEF KillEnded
<1>13. CASE SleepBegin
  BY <1>13, SamePids DEF SleepBegin, SchedulerSound
<1>14. CASE SleepEnd
  BY <1>14, SamePids DEF SleepEnd
<1>15. ASSUME NEW sel, WaitRound(sel), UNCHANGED <<ids, next_pid, stacks, cpuvars>>
       PROVE  PidsUnique' /\ Counter'
  BY <1>15, WaitEffect, SamePids DEF SchedulerSound
<1>16. CASE WaitBegin
  BY <1>15, <1>16 DEF WaitBegin
<1>17. CASE WaitLoop
  BY <1>15, <1>17 DEF WaitLoop
<1>18. CASE SetSubreaper
  BY <1>18, SamePids DEF SetSubreaper
<1>19. CASE UNCHANGED <<ids, next_pid, cont, locals>> /\ LifeStep
                /\ (\A s \in Slots : state[s] = "FREE" => state'[s] # "READY")
  BY <1>19, SamePids DEF LifeStep
<1>20. CASE YieldAway
  <2>1. \A s \in Slots : state[s] = "FREE" => state'[s] # "READY"
    BY <1>20, YieldLife DEF YieldAway, PidInv, Alive
  <2> QED
    BY <1>b, <1>19, <1>20, <2>1 DEF YieldAway
<1>21. CASE SchedYield
  <2>1. \A s \in Slots : state[s] = "FREE" => state'[s] # "READY"
    BY <1>21, YieldLife DEF SchedYield, PidInv, Alive
  <2> QED
    BY <1>b, <1>19, <1>21, <2>1 DEF SchedYield
<1>22. CASE Tick
  <2>1. PICK st \in Charged :
          \/ state' = Reaped(Woken(st))
          \/ YieldFrom(Reaped(Woken(st)))
    BY <1>22 DEF Tick
  <2>2. Reaped(Woken(st)) \in [Slots -> States]
    BY TickStates
  <2>3. \A s \in Slots : state[s] = "FREE" => state'[s] # "READY"
    BY <2>1, <2>2, YieldLife, TickTable DEF PidInv, Alive
  <2> QED
    BY <1>b, <1>19, <1>22, <2>3 DEF Tick
<1>23. CASE UNCHANGED vars
  BY <1>23, SamePids DEF vars
<1>24. CASE CreateQuota
  BY <1>24, SamePids DEF CreateQuota
<1>25. CASE CreateFind
  BY <1>25, SamePids DEF CreateFind
<1>26. CASE SetUid
  BY <1>26, SamePids DEF SetUid
<1>27. CASE SessionSwitch
  BY <1>27, SamePids DEF SessionSwitch
<1> QED
  BY <1>1, <1>2, <1>3, <1>4, <1>5, <1>6, <1>7, <1>8, <1>9, <1>10, <1>11, <1>12, <1>13,
     <1>14, <1>16, <1>17, <1>18, <1>20, <1>21, <1>22, <1>23, <1>24,
     <1>25, <1>26, <1>27 DEF Next, KernelStep

(* A PID never names two processes, however many there are, as long as     *)
(* creating and killing are not interrupted.                               *)
THEOREM PidsAreUnique ==
  ASSUME "create" \notin Ring0Ops, "kill" \notin Ring0Ops
  PROVE  Spec => []PidsUnique
<1>1. Init => PidInv
  BY InitPid
<1>2. PidInv /\ [Next]_vars => PidInv'
  BY StepPid
<1>3. PidInv => PidsUnique
  BY DEF PidInv
<1> QED
  BY <1>1, <1>2, <1>3, PTL DEF Spec

=============================================================================
