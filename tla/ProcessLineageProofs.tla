------------------------ MODULE ProcessLineageProofs ------------------------
(***************************************************************************)
(* Parents, where no tick can fall into process_create, process_kill or    *)
(* process_exit_with.  A process whose parent has ended is adopted before  *)
(* the parent leaves the table.                                            *)
(***************************************************************************)
EXTENDS ProcessLifeProofs

EndsNow(p) ==
  \/ cont[current] = "exit_ended" /\ p = current
  \/ cont[current] = "kill_ended" /\ p = ptr[current]

HasParent ==
  \A c \in Slots \ System : Alive(state[c]) =>
    \E p \in Slots : /\ Live(p) /\ pid[p] = ppid[c]
                     /\ Alive(state[p]) \/ EndsNow(p)

Family ==
  /\ pid[IDLE] = 1
  /\ \A k \in Slots :
       /\ cont[k] = "exit_ended" => k = current /\ ring[k] = 3 /\ state[k] = "ZOMBIE"
       /\ cont[k] = "create_ready" => ppid[ptr[k]] = pid[k]

LineInv == PidInv /\ HasParent /\ Family

(* With nobody retired on the way, the scheduler ends nobody's life: the   *)
(* stack guard never fires, because the CPU is on the right stack.         *)
LEMMA YieldAlive ==
  ASSUME Retire = {}, StackInv, NEW st \in [Slots -> States], YieldFrom(st)
  PROVE  \A s \in Slots : Alive(state'[s]) <=> Alive(st[s])
<1> USE DEF StackInv, SchedInv, TypeOK, Alive
<1>1. PICK g \in Guarded(st) : \E n \in Candidates(g) : SwitchTo(g, n)
  BY DEF YieldFrom
<1>2. PICK n \in Candidates(g) : SwitchTo(g, n)
  BY <1>1
<1>3. g = st
  BY <1>1 DEF Guarded, StackSafe
<1>4. n \in Slots /\ g[n] \in {"READY", "RUNNING"}
  BY DEF Candidates, Runnable
<1> QED
  BY <1>2, <1>3, <1>4 DEF SwitchTo, cpuvars

LEMMA TickAlive ==
  ASSUME Retire = {}, StackInv, Tick
  PROVE  \A s \in Slots : Alive(state'[s]) <=> Alive(state[s])
<1>1. PICK st \in Charged :
        \/ state' = Reaped(Woken(st))
        \/ YieldFrom(Reaped(Woken(st)))
  BY DEF Tick
<1>2. \A s \in Slots : Alive(Reaped(Woken(st))[s]) <=> Alive(state[s])
  BY DEF Charged, Woken, Reaped, Reapable, Alive, StackInv, SchedInv, TypeOK
<1>3. Reaped(Woken(st)) \in [Slots -> States]
  BY TickStates DEF StackInv, SchedInv
<1> QED
  BY <1>1, <1>2, <1>3, YieldAlive

LEMMA InitLine ==
  ASSUME Init
  PROVE  LineInv
<1>1. PidInv
  BY InitPid
<1>2. HasParent
  <2> SUFFICES ASSUME NEW c \in Slots \ System, Alive(state[c])
               PROVE  /\ Live(MAIN) /\ pid[MAIN] = ppid[c] /\ Alive(state[MAIN])
    BY SystemSlots DEF HasParent, MAIN
  <2>1. c = PROG
    BY DEF Init, System, Alive, Slots, IDLE, MAIN, PROG
  <2> QED
    BY <2>1, SystemSlots DEF Init, Live, Alive, MAIN, PROG
<1>3. Family
  BY SystemSlots DEF Init, Family, IDLE, PROG
<1> QED
  BY <1>1, <1>2, <1>3 DEF LineInv

(* process_ended for p: every child of p gets a parent that lives.         *)
LEMMA Adopted ==
  ASSUME LineInv, NEW p \in Slots, ~ Alive(state[p]), EndsNow(p),
         ppid' = Reparented(p), UNCHANGED <<state, pid>>
  PROVE  HasParent'
<1> USE DEF LineInv, PidInv, LifeInv, StackInv, SchedInv, TypeOK
<1> SUFFICES ASSUME NEW c \in Slots \ System, Alive(state[c])
             PROVE  \E q \in Slots : Live(q) /\ pid[q] = ppid'[c] /\ Alive(state[q])
  BY DEF HasParent, Live
<1>1. c # p /\ state[c] # "FREE"
  BY DEF Alive
<1>2. CASE ppid[c] = pid[p]
  <2>1. ppid'[c] = NewParentFor(p)
    BY <1>1, <1>2 DEF Reparented
  <2>2. CASE NewParentFor(p) = 1
    BY <2>1, <2>2, SystemSlots DEF Family, SchedulerSound, Alive, Live, IDLE
  <2>3. CASE IsHeir(NewParentFor(p))
    BY <2>1, <2>3 DEF IsHeir, SlotsOf, Alive, Live
  <2> QED
    BY <2>2, <2>3, HeirIsAlive
<1>3. CASE ppid[c] # pid[p]
  <2>1. PICK q \in Slots : /\ Live(q) /\ pid[q] = ppid[c]
                           /\ Alive(state[q]) \/ EndsNow(q)
    BY DEF HasParent
  <2>2. Alive(state[q])
    BY <1>3, <2>1 DEF EndsNow
  <2>3. ppid'[c] = ppid[c]
    BY <1>3 DEF Reparented
  <2> QED
    BY <2>1, <2>2, <2>3
<1> QED
  BY <1>2, <1>3

(* A step after which the same processes live, with the same parents.      *)
LEMMA SameFamily ==
  ASSUME LineInv, UNCHANGED <<pid, ppid>>, \A q \in Slots : ~ EndsNow(q),
         \A s \in Slots : Alive(state'[s]) <=> Alive(state[s])
  PROVE  HasParent'
BY DEF LineInv, HasParent, Live, Alive

LEMMA StepLine ==
  ASSUME Ring0Ops \subseteq {"su"}, Retire = {}, LineInv, [Next]_vars
  PROVE  LineInv'
<1>0. PidInv'
  BY StepPid DEF LineInv
<1> SUFFICES HasParent' /\ Family'
  BY <1>0 DEF LineInv
<1>a. /\ TypeOK /\ StackInv /\ OneCreator /\ Settled /\ SchedulerSound /\ PointersApart
      /\ MainIntact
  BY DEF LineInv, PidInv, LifeInv, StackInv, SchedInv
<1> USE <1>a, SystemSlots DEF TypeOK, Live, Alive, Goto, Return, GoToSleep,
        ids, stacks, cpuvars, locals, logvars
<1>1. CASE CreateBegin
  <2>1. HasParent'
    BY <1>1, SameFamily DEF CreateBegin, MayStart, EndsNow
  <2>2. Family'
    BY <1>1, SMTT(30) DEF CreateBegin, LineInv, Family
  <2> QED
    BY <2>1, <2>2
<1>2. CASE CreateWipe
  BY <1>2, SMTT(30) DEF CreateWipe, LineInv, HasParent, EndsNow, Family, OneCreator, CreatePoints, SlotPoints,
     PointersApart
<1>3. CASE CreateAlloc
  <2>1. HasParent'
    BY <1>3, SameFamily DEF CreateAlloc, EndsNow
  <2>2. Family'
    BY <1>3, SMTT(30) DEF CreateAlloc, LineInv, Family
  <2> QED
    BY <2>1, <2>2
<1>4. CASE CreateNoMemory
  <2>1. HasParent'
    BY <1>4, SameFamily DEF CreateNoMemory, EndsNow
  <2>2. Family'
    BY <1>4 DEF CreateNoMemory, LineInv, Family
  <2> QED
    BY <2>1, <2>2
<1>5. CASE CreatePid
  <2>1. HasParent'
    BY <1>5, SameFamily DEF CreatePid, EndsNow
  <2>2. Family'
    BY <1>5 DEF CreatePid, LineInv, Family
  <2> QED
    BY <2>1, <2>2
<1>6. CASE CreateFill
  BY <1>6, SMTT(30) DEF CreateFill, LineInv, HasParent, EndsNow, Family, OneCreator, CreatePoints, SlotPoints,
     PointersApart
<1>7. CASE CreateReady
  BY <1>7, SMTT(30) DEF CreateReady, LineInv, HasParent, EndsNow, Family, OneCreator, CreatePoints, SlotPoints,
     PointersApart, Settled, SchedulerSound
<1>8. CASE ExitBegin
  <2>1. HasParent'
    BY <1>8, SMTT(30) DEF ExitBegin, MayStart, LineInv, HasParent, EndsNow
  <2>2. Family'
    BY <1>8 DEF ExitBegin, MayStart, LineInv, Family
  <2> QED
    BY <2>1, <2>2
<1>9. CASE ExitEnded
  <2>1. EndsNow(current) /\ ~ Alive(state[current])
    BY <1>9 DEF ExitEnded, EndsNow, LineInv, Family
  <2>2. HasParent'
    BY <1>9, <2>1, Adopted DEF ExitEnded
  <2>3. Family'
    BY <1>9 DEF ExitEnded, LineInv, Family, OneCreator, CreatePoints, SlotPoints
  <2> QED
    BY <2>2, <2>3
<1>10. CASE KillBegin
  <2>1. HasParent'
    BY <1>10, SameFamily DEF KillBegin, MayStart, EndsNow
  <2>2. Family'
    BY <1>10 DEF KillBegin, LineInv, Family
  <2> QED
    BY <2>1, <2>2
<1>11. CASE KillMark
  <2>1. HasParent'
    BY <1>11, SMTT(30) DEF KillMark, LineInv, HasParent, EndsNow, Settled, KillPoints
  <2>2. Family'
    BY <1>11 DEF KillMark, LineInv, Family
  <2> QED
    BY <2>1, <2>2
<1>12. CASE KillEnded
  <2>1. EndsNow(ptr[current]) /\ ~ Alive(state[ptr[current]])
    BY <1>12 DEF KillEnded, EndsNow, Settled
  <2>2. HasParent'
    BY <1>12, <2>1, Adopted DEF KillEnded
  <2>3. Family'
    BY <1>12 DEF KillEnded, LineInv, Family, OneCreator, CreatePoints, SlotPoints
  <2> QED
    BY <2>2, <2>3
<1>13. CASE SleepBegin
  <2>1. HasParent'
    BY <1>13, SameFamily, SMTT(30) DEF SleepBegin, EndsNow, SchedulerSound, Settled
  <2>2. Family'
    BY <1>13 DEF SleepBegin, LineInv, Family
  <2> QED
    BY <2>1, <2>2
<1>14. CASE SleepEnd
  <2>1. HasParent'
    BY <1>14, SameFamily DEF SleepEnd, EndsNow
  <2>2. Family'
    BY <1>14 DEF SleepEnd, LineInv, Family
  <2> QED
    BY <2>1, <2>2
<1>15. ASSUME NEW sel, WaitRound(sel), cont[current] \in {"run", "wait"},
              UNCHANGED <<ids, next_pid, stacks, cpuvars>>
       PROVE  HasParent' /\ Family'
  <2>1. HasParent'
    BY <1>15, WaitEffect, SameFamily, SMTT(30) DEF EndsNow, SchedulerSound, Settled
  <2>2. Family'
    BY <1>15, WaitEffect, SMTT(30) DEF LineInv, Family
  <2> QED
    BY <2>1, <2>2
<1>16. CASE WaitBegin
  BY <1>15, <1>16 DEF WaitBegin
<1>17. CASE WaitLoop
  BY <1>15, <1>17 DEF WaitLoop
<1>18. CASE SetSubreaper
  BY <1>18 DEF SetSubreaper, LineInv, HasParent, EndsNow, Family
<1>19. ASSUME cont[current] \notin {"exit_ended", "kill_ended", "create_ready"},
              UNCHANGED <<ids, cont, locals>>,
              \A s \in Slots : Alive(state'[s]) <=> Alive(state[s])
       PROVE  HasParent' /\ Family'
  <2>1. HasParent'
    BY <1>19, SameFamily DEF EndsNow
  <2>2. \A k \in Slots : cont[k] \notin {"exit_ended", "create_ready"}
    BY <1>19 DEF LineInv, Family, OneCreator, CreatePoints, SlotPoints
  <2>3. Family'
    BY <1>19, <2>2 DEF LineInv, Family
  <2> QED
    BY <2>1, <2>3
<1>20. CASE YieldAway
  BY <1>19, <1>20, YieldAlive DEF YieldAway
<1>21. CASE SchedYield
  BY <1>19, <1>21, YieldAlive DEF SchedYield
<1>22. CASE Tick
  <2>1. cont[current] \notin {"exit_ended", "kill_ended", "create_ready"}
    BY <1>22, SMTT(30) DEF Tick, IrqsOn, LineInv, Family, Settled, KillPoints, OneCreator, CreatePoints, SlotPoints
  <2> QED
    BY <1>19, <1>22, <2>1, TickAlive DEF Tick
<1>23. CASE UNCHANGED vars
  BY <1>23, SMTT(30) DEF vars, LineInv, HasParent, EndsNow, Family
<1>24. CASE CreateQuota
  <2>1. HasParent'
    BY <1>24, SameFamily DEF CreateQuota, EndsNow
  <2>2. Family'
    BY <1>24, SMTT(30) DEF CreateQuota, LineInv, Family
  <2> QED
    BY <2>1, <2>2
<1>25. CASE CreateFind
  <2>1. HasParent'
    BY <1>25, SameFamily DEF CreateFind, EndsNow
  <2>2. Family'
    BY <1>25, SMTT(30) DEF CreateFind, LineInv, Family
  <2> QED
    BY <2>1, <2>2
<1>26. CASE SetUid
  BY <1>26 DEF SetUid, LineInv, HasParent, EndsNow, Family
<1>27. CASE SessionSwitch
  BY <1>27 DEF SessionSwitch, LineInv, HasParent, EndsNow, Family
<1> QED
  BY <1>1, <1>2, <1>3, <1>4, <1>5, <1>6, <1>7, <1>8, <1>9, <1>10, <1>11, <1>12, <1>13,
     <1>14, <1>16, <1>17, <1>18, <1>20, <1>21, <1>22, <1>23, <1>24,
     <1>25, <1>26, <1>27 DEF Next, KernelStep

(* "nobody is left fatherless": for system calls, with processes that end  *)
(* only by exit and kill, every process has a parent in the table, however *)
(* many processes there are and whoever is a child_subreaper.              *)
THEOREM NobodyIsFatherless ==
  ASSUME Ring0Ops \subseteq {"su"}, Retire = {}
  PROVE  Spec => []NobodyFatherless
<1>1. Init => LineInv
  BY InitLine
<1>2. LineInv /\ [Next]_vars => LineInv'
  BY StepLine
<1>3. LineInv => NobodyFatherless
  BY DEF LineInv, HasParent, NobodyFatherless, Alive, Live, SlotsOf
<1> QED
  BY <1>1, <1>2, <1>3, PTL DEF Spec
=============================================================================
