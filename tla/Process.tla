------------------------------ MODULE Process ------------------------------
(***************************************************************************)
(* The process table of UzOS and the scheduler's mechanism: process_create,*)
(* process_kill, process_exit_with, process_ended (core/process), the      *)
(* timer tick with its reaper, the task switch (core/scheduler), sleep()   *)
(* and the wait4() / exit-log pair (core/exitlog).                         *)
(*                                                                         *)
(* There is one CPU.  Interrupts are what interleaves: a system call from  *)
(* ring 3 enters through an interrupt gate and runs with interrupts OFF,   *)
(* while ring 0 code (the shell in kernel_main, its commands, daemons) runs*)
(* with them ON, so a timer tick may fall between any two of its steps.    *)
(* Each slot carries the point its thread has reached (cont) and the       *)
(* locals that live on its stack (ptr, reg); a tick is a step of the whole *)
(* handler and is disabled while the running thread has interrupts off.    *)
(*                                                                         *)
(* Which READY process the tick or a yield picks is left open here, except *)
(* that idle runs only when nobody else can: module Priority has the       *)
(* ranks.  Pending signals are module Signal's business.                   *)
(***************************************************************************)
EXTENDS Naturals, FiniteSets, Sequences, SequencesExt

CONSTANTS
  MaxProcesses,     \* MAX_PROCESSES (64): slots in the table
  PidLimit,         \* PID_LIMIT: PIDs stop here
  StackBlocks,      \* how many PROCESS_STACK_SIZE blocks the heap can hold
  ExitlogSize,      \* EXITLOG_SIZE (32)
  MaxPerUser,       \* slot_quota rule 1
  ReservedForRoot,  \* slot_quota rule 2
  Users,            \* the uids of normal users
  MaxSleep,         \* longest sleep asked for, in ticks
  Ring0Ops,         \* operations ring 0 code performs, interrupts on
  Retire            \* how the kernel retires a running process by itself

Ops == {"create", "exit", "kill", "su"}

ASSUME ProcessAssumption ==
  /\ MaxProcesses \in Nat /\ MaxProcesses >= 3
  /\ PidLimit \in Nat /\ PidLimit > 4
  /\ StackBlocks \in Nat /\ StackBlocks >= 2
  /\ ExitlogSize \in Nat \ {0}
  /\ MaxPerUser \in Nat /\ ReservedForRoot \in Nat
  /\ Users \subseteq Nat \ {0}
  /\ MaxSleep \in Nat \ {0}
  /\ Ring0Ops \subseteq Ops
  /\ Retire \subseteq {"rlimit", "overflow"}

Slots  == 0 .. MaxProcesses - 1
IDLE   == 0                     \* idle_task: slot 0, PID 1
MAIN   == 1                     \* kernel_main, the shell: slot 1, PID 2
System == {IDLE, MAIN}          \* is_system

Blocks == 1 .. StackBlocks      \* heap blocks that can be a stack
BOOT   == 0                     \* stack_base 0: the boot stack, never freed

ROOT   == 0
Uids   == {ROOT} \cup Users

States == {"FREE", "READY", "RUNNING", "SLEEPING", "ZOMBIE"}

(* Where a thread is: "run" is ring 3 code, or ring 0 code between two     *)
(* operations; the others are points inside the operations below.          *)
Points == {"run", "create_quota", "create_find", "create_wipe", "create_alloc",
           "create_pid", "create_fill", "create_ready", "exit_ended", "dead",
           "kill_mark", "kill_ended", "sleep", "wait"}

VARIABLES
  state, pid, ppid, uid, ring, stack_base, esp,   \* fields of table[slot]
  child_subreaper, sleep_ticks,
  next_pid,
  current,      \* the slot on the CPU
  cpu,          \* the block the CPU's stack pointer is in
  heap,         \* blocks kmalloc has handed out
  cont,         \* point each slot's thread has reached
  ptr,          \* the process_t * its operation holds
  reg,          \* a value it has read and not used yet
  exitlog,      \* exit records, oldest first
  reported      \* PIDs some wait has returned (history)

ids     == <<pid, ppid, uid, child_subreaper>>
stacks  == <<heap, stack_base, ring>>
cpuvars == <<current, cpu, esp>>
locals  == <<ptr, reg>>
logvars == <<exitlog, reported>>
vars    == <<state, sleep_ticks, ids, next_pid, stacks, cpuvars,
             cont, locals, logvars>>

-----------------------------------------------------------------------------
(* Helpers of core/process. *)

Free(st)     == {s \in Slots : st[s] = "FREE"}
Runnable(st) == {s \in Slots : st[s] \in {"READY", "RUNNING"}}

(* process_get_by_pid: the slots in use that carry this PID. *)
SlotsOf(p) == {s \in Slots : state[s] # "FREE" /\ pid[s] = p}

(* find_free_slot: the first one. *)
IsFirstFree(s) == s \in Free(state) /\ \A t \in Free(state) : s <= t

(* slot_quota and RLIMIT_NPROC (its default is the size of the table). *)
OwnedBy(u) == {s \in Slots : state[s] # "FREE" /\ uid[s] = u}

(* Mutant of QuotaAllows: <= for <. *)
QuotaOffByOne(u) ==
  u # ROOT => /\ Cardinality(OwnedBy(u)) <= MaxPerUser
              /\ Cardinality(Free(state)) > ReservedForRoot

QuotaAllows(u) ==
  u # ROOT => /\ Cardinality(OwnedBy(u)) < MaxPerUser
              /\ Cardinality(Free(state)) > ReservedForRoot

(* Mutant of KillAllowed: rule "never a system process" dropped. *)
KillAnybody(s, t) == uid[s] = ROOT \/ uid[s] = uid[t]

(* kill_guard: never a system process; root any, a user its own. *)
KillAllowed(s, t) == t \notin System /\ (uid[s] = ROOT \/ uid[s] = uid[t])

(* new_parent_for: walk up from the dead process's parent to the first    *)
(* living child_subreaper; PID 1 when there is none.                      *)
IsHeir(p) == \E s \in SlotsOf(p) : child_subreaper[s] /\ state[s] # "ZOMBIE"
Ancestor(dead) ==
  LET up[k \in 0 .. MaxProcesses] ==
        IF k = 0 THEN ppid[dead]
        ELSE IF SlotsOf(up[k - 1]) = {} THEN 0
        ELSE ppid[CHOOSE s \in SlotsOf(up[k - 1]) : TRUE]
  IN  up
NewParentFor(dead) ==
  LET up    == Ancestor(dead)
      Found == {k \in 0 .. MaxProcesses - 1 : IsHeir(up[k])}
  IN  IF Found = {} THEN 1
      ELSE up[CHOOSE k \in Found : \A j \in Found : k <= j]

(* Mutant of Reparented: sleeping children are passed over. *)
ReparentAwake(p) ==
  [c \in Slots |-> IF state[c] \in {"READY", "RUNNING"} /\ c # p /\ ppid[c] = pid[p]
                   THEN NewParentFor(p) ELSE ppid[c]]

(* process_ended: the children of p go to the heir.  (The signals it also *)
(* sends, pdeathsig, SIGCONT to tracees and SIGCHLD, are module Signal's.)*)
Reparented(p) ==
  [c \in Slots |-> IF state[c] # "FREE" /\ c # p /\ ppid[c] = pid[p]
                   THEN NewParentFor(p) ELSE ppid[c]]

-----------------------------------------------------------------------------
(* The scheduler's mechanism. *)

(* Interrupts are on: ring 0 code, or a ring 3 program outside a call. *)
IrqsOn == ring[current] = 0 \/ cont[current] = "run"

(* priority_pick_next, without the ranks: idle ranks below everybody. *)
Candidates(st) ==
  IF Runnable(st) \ {IDLE} # {} THEN Runnable(st) \ {IDLE} ELSE Runnable(st)

(* stack_guard on the running process: retired when the CPU is not on the *)
(* stack the PCB names, or has run off its end.                           *)
Guarded(st) ==
  LET gone == [st EXCEPT ![current] = "ZOMBIE"]
  IN  IF stack_base[current] = BOOT THEN {st}
      ELSE IF stack_base[current] # cpu THEN {gone}
      ELSE IF "overflow" \in Retire /\ current \notin System THEN {st, gone}
      ELSE {st}

(* Mutants of SwitchTo: the process that leaves stays RUNNING; its stack   *)
(* pointer is saved after "current = next".                               *)
SwitchKeepsRunning(st, n) ==
  IF n = current
  THEN state' = st /\ UNCHANGED cpuvars
  ELSE /\ state' = [st EXCEPT ![n] = "RUNNING"]
       /\ current' = n
       /\ esp' = [esp EXCEPT ![current] = cpu]
       /\ cpu' = esp[n]
SwitchSavesLate(st, n) ==
  IF n = current
  THEN state' = st /\ UNCHANGED cpuvars
  ELSE /\ state' = [st EXCEPT ![current] = IF @ = "RUNNING" THEN "READY" ELSE @,
                              ![n] = "RUNNING"]
       /\ current' = n
       /\ esp' = [esp EXCEPT ![n] = cpu]
       /\ cpu' = esp[n]

(* scheduler_yield after the guard: switch to n, or go on if n is current.*)
SwitchTo(st, n) ==
  IF n = current
  THEN state' = st /\ UNCHANGED cpuvars
  ELSE /\ state' = [st EXCEPT ![current] = IF @ = "RUNNING" THEN "READY" ELSE @,
                              ![n] = "RUNNING"]
       /\ current' = n
       /\ esp' = [esp EXCEPT ![current] = cpu]
       /\ cpu' = esp[n]

YieldFrom(st) ==
  \E g \in Guarded(st) : \E n \in Candidates(g) : SwitchTo(g, n)

-----------------------------------------------------------------------------
(* State after boot: scheduler_init and scheduler_start have run, and the  *)
(* shell has started one program, in ring 0 or in ring 3.                  *)

PROG == 2

Init ==
  /\ state = [s \in Slots |-> IF s = MAIN THEN "RUNNING"
                              ELSE IF s <= PROG THEN "READY" ELSE "FREE"]
  /\ pid  = [s \in Slots |-> IF s <= PROG THEN s + 1 ELSE 0]
  /\ ppid = [s \in Slots |-> IF s = PROG THEN 2 ELSE 0]
  /\ \E u \in Uids : uid = [s \in Slots |-> IF s \in {MAIN, PROG} THEN u ELSE ROOT]
  /\ \E r \in {0, 3} : ring = [s \in Slots |-> IF s = PROG THEN r ELSE 0]
  /\ stack_base = [s \in Slots |-> IF s = IDLE THEN 1
                                   ELSE IF s = PROG THEN 2 ELSE BOOT]
  /\ esp = stack_base
  /\ child_subreaper = [s \in Slots |-> FALSE]
  /\ sleep_ticks = [s \in Slots |-> 0]
  /\ next_pid = 4
  /\ current = MAIN
  /\ cpu = BOOT
  /\ heap = {1, 2}
  /\ cont = [s \in Slots |-> "run"]
  /\ ptr = [s \in Slots |-> 0]
  /\ reg = [s \in Slots |-> 0]
  /\ exitlog = <<>>
  /\ reported = {}

(* The running thread starts operation op: a system call, or ring 0 code. *)
MayStart(op) ==
  /\ cont[current] = "run" /\ current # IDLE
  /\ ring[current] = 3 \/ op \in Ring0Ops

Goto(point) == cont' = [cont EXCEPT ![current] = point]

(* The operation returns: its locals are gone. *)
Return ==
  /\ Goto("run")
  /\ ptr' = [ptr EXCEPT ![current] = 0]
  /\ reg' = [reg EXCEPT ![current] = 0]

-----------------------------------------------------------------------------
(* process_create, on behalf of the user of the creator.  Three checks,    *)
(* each of what it sees at its own moment; the slot stays FREE until the   *)
(* very last assignment.                                                   *)

CreateBegin ==
  /\ MayStart("create")
  /\ next_pid < PidLimit
  /\ Goto("create_quota")
  /\ UNCHANGED <<state, sleep_ticks, ids, next_pid, stacks, cpuvars, locals, logvars>>

CreateQuota ==
  /\ cont[current] = "create_quota"
  /\ \/ QuotaAllows(uid[current]) /\ Goto("create_find") /\ UNCHANGED locals
     \/ ~QuotaAllows(uid[current]) /\ Return
  /\ UNCHANGED <<state, sleep_ticks, ids, next_pid, stacks, cpuvars, logvars>>

CreateFind ==
  /\ cont[current] = "create_find"
  /\ \/ /\ \E s \in Slots : IsFirstFree(s) /\ ptr' = [ptr EXCEPT ![current] = s]
        /\ Goto("create_wipe") /\ UNCHANGED reg
     \/ Free(state) = {} /\ Return
  /\ UNCHANGED <<state, sleep_ticks, ids, next_pid, stacks, cpuvars, logvars>>

(* pcb_wipe: the whole PCB becomes zero. *)
CreateWipe ==
  LET s == ptr[current] IN
  /\ cont[current] = "create_wipe"
  /\ state' = [state EXCEPT ![s] = "FREE"]
  /\ pid' = [pid EXCEPT ![s] = 0]
  /\ ppid' = [ppid EXCEPT ![s] = 0]
  /\ uid' = [uid EXCEPT ![s] = ROOT]
  /\ child_subreaper' = [child_subreaper EXCEPT ![s] = FALSE]
  /\ sleep_ticks' = [sleep_ticks EXCEPT ![s] = 0]
  /\ stack_base' = [stack_base EXCEPT ![s] = BOOT]
  /\ esp' = [esp EXCEPT ![s] = BOOT]
  /\ Goto("create_alloc")
  /\ UNCHANGED <<next_pid, heap, ring, current, cpu, locals, logvars>>

(* kmalloc walks the heap from its start; the new thread starts at the    *)
(* top of its block, in ring 0 or on its way to ring 3.                   *)
CreateAlloc ==
  LET s == ptr[current] IN
  /\ cont[current] = "create_alloc"
  /\ \E b \in Blocks \ heap, r \in {0, 3} :
       /\ \A a \in Blocks \ heap : b <= a
       /\ ring[current] = 3 => r = 3
       /\ heap' = heap \cup {b}
       /\ stack_base' = [stack_base EXCEPT ![s] = b]
       /\ esp' = [esp EXCEPT ![s] = b]
       /\ ring' = [ring EXCEPT ![s] = r]
  /\ cont' = [cont EXCEPT ![s] = "run", ![current] = "create_pid"]
  /\ UNCHANGED <<state, sleep_ticks, ids, next_pid, current, cpu, locals, logvars>>

(* The rest of the kernel shares the heap: kmalloc may fail at any time. *)
CreateNoMemory ==
  /\ cont[current] = "create_alloc"
  /\ Return
  /\ UNCHANGED <<state, sleep_ticks, ids, next_pid, stacks, cpuvars, logvars>>

(* next_pid++ is a load, then a store. *)
CreatePid ==
  /\ cont[current] = "create_pid"
  /\ reg' = [reg EXCEPT ![current] = next_pid]
  /\ Goto("create_fill")
  /\ UNCHANGED <<state, sleep_ticks, ids, next_pid, stacks, cpuvars, ptr, logvars>>

(* Mutant of CreateFill: the PID counter is not advanced. *)
FillKeepsCounter ==
  LET s == ptr[current] IN
  /\ cont[current] = "create_fill"
  /\ pid' = [pid EXCEPT ![s] = reg[current]]
  /\ uid' = [uid EXCEPT ![s] = uid[current]]
  /\ ppid' = [ppid EXCEPT ![s] = pid[current]]
  /\ Goto("create_ready")
  /\ UNCHANGED <<state, sleep_ticks, child_subreaper, next_pid, stacks, cpuvars,
                 locals, logvars>>

CreateFill ==
  LET s == ptr[current] IN
  /\ cont[current] = "create_fill"
  /\ next_pid' = reg[current] + 1
  /\ pid' = [pid EXCEPT ![s] = reg[current]]
  /\ uid' = [uid EXCEPT ![s] = uid[current]]
  /\ ppid' = [ppid EXCEPT ![s] = pid[current]]
  /\ Goto("create_ready")
  /\ UNCHANGED <<state, sleep_ticks, child_subreaper, stacks, cpuvars, locals, logvars>>

CreateReady ==
  /\ cont[current] = "create_ready"
  /\ state' = [state EXCEPT ![ptr[current]] = "READY"]
  /\ Return
  /\ UNCHANGED <<sleep_ticks, ids, next_pid, stacks, cpuvars, logvars>>

-----------------------------------------------------------------------------
(* process_exit_with (exit, a deadly signal, the entry function returned) *)
(* and process_kill.                                                      *)

ExitBegin ==
  /\ MayStart("exit") /\ current \notin System
  /\ state' = [state EXCEPT ![current] = "ZOMBIE"]
  /\ Goto("exit_ended")
  /\ UNCHANGED <<sleep_ticks, ids, next_pid, stacks, cpuvars, locals, logvars>>

ExitEnded ==
  /\ cont[current] = "exit_ended"
  /\ ppid' = Reparented(current)
  /\ Goto("dead")
  /\ UNCHANGED <<state, sleep_ticks, pid, uid, child_subreaper, next_pid, stacks,
                 cpuvars, locals, logvars>>

KillBegin ==
  /\ MayStart("kill")
  /\ \E t \in Slots \ {current} :
       /\ state[t] # "FREE" /\ KillAllowed(current, t)
       /\ ptr' = [ptr EXCEPT ![current] = t]
  /\ Goto("kill_mark")
  /\ UNCHANGED <<state, sleep_ticks, ids, next_pid, stacks, cpuvars, reg, logvars>>

KillMark ==
  /\ cont[current] = "kill_mark"
  /\ state' = [state EXCEPT ![ptr[current]] = "ZOMBIE"]
  /\ Goto("kill_ended")
  /\ UNCHANGED <<sleep_ticks, ids, next_pid, stacks, cpuvars, locals, logvars>>

KillEnded ==
  /\ cont[current] = "kill_ended"
  /\ ppid' = Reparented(ptr[current])
  /\ Return
  /\ UNCHANGED <<state, sleep_ticks, pid, uid, child_subreaper, next_pid, stacks,
                 cpuvars, logvars>>

-----------------------------------------------------------------------------
(* sys_sleep, sys_wait4, prctl(PR_SET_CHILD_SUBREAPER), sched_yield. *)

GoToSleep(n, point) ==
  /\ sleep_ticks' = [sleep_ticks EXCEPT ![current] = n]
  /\ state' = [state EXCEPT ![current] = "SLEEPING"]
  /\ Goto(point)

SleepBegin ==
  /\ cont[current] = "run" /\ current # IDLE
  /\ \E n \in 1 .. MaxSleep : GoToSleep(n, "sleep")
  /\ UNCHANGED <<ids, next_pid, stacks, cpuvars, locals, logvars>>

SleepEnd ==
  /\ cont[current] = "sleep" /\ state[current] # "SLEEPING"
  /\ Goto("run")
  /\ UNCHANGED <<state, sleep_ticks, ids, next_pid, stacks, cpuvars, locals, logvars>>

(* What wait4(sel) may report: sel 0 stands for -1, any child. *)
Records(sel) ==
  {i \in DOMAIN exitlog : exitlog[i].ppid = pid[current] /\ sel \in {0, exitlog[i].pid}}

(* Mutant of Children: free slots, whose ppid is stale, are counted too. *)
ChildrenEver(sel) ==
  {c \in Slots : ppid[c] = pid[current] /\ sel \in {0, pid[c]}}

Children(sel) ==
  {c \in Slots : state[c] # "FREE" /\ ppid[c] = pid[current] /\ sel \in {0, pid[c]}}

(* child_only: a named PID must be, or have been, the caller's child. *)
WaitAllowed(sel) == sel = 0 \/ Children(sel) # {} \/ Records(sel) # {}

(* Mutant of WaitRound: the record is read but stays in the log. *)
WaitPeeks(sel) ==
  \/ \E i \in Records(sel) :
       /\ \A j \in Records(sel) : i <= j
       /\ reported' = reported \cup {exitlog[i].pid}
       /\ Return /\ UNCHANGED <<state, sleep_ticks, exitlog>>
  \/ /\ Records(sel) = {} /\ Children(sel) = {}
     /\ Return /\ UNCHANGED <<state, sleep_ticks, logvars>>
  \/ /\ Records(sel) = {} /\ Children(sel) # {}
     /\ GoToSleep(1, "wait")
     /\ reg' = [reg EXCEPT ![current] = sel]
     /\ UNCHANGED <<ptr, logvars>>

(* One round of the loop, entered with the call or after a nap. *)
WaitRound(sel) ==
  \/ \E i \in Records(sel) :
       /\ \A j \in Records(sel) : i <= j
       /\ reported' = reported \cup {exitlog[i].pid}
       /\ exitlog' = RemoveAt(exitlog, i)
       /\ Return /\ UNCHANGED <<state, sleep_ticks>>
  \/ /\ Records(sel) = {} /\ Children(sel) = {}                 \* ECHILD
     /\ Return /\ UNCHANGED <<state, sleep_ticks, logvars>>
  \/ /\ Records(sel) = {} /\ Children(sel) # {}                 \* nap: POLL_MS
     /\ GoToSleep(1, "wait")
     /\ reg' = [reg EXCEPT ![current] = sel]
     /\ UNCHANGED <<ptr, logvars>>

WaitBegin ==
  /\ cont[current] = "run" /\ ring[current] = 3
  /\ \E sel \in 0 .. PidLimit - 1 : WaitAllowed(sel) /\ WaitRound(sel)
  /\ UNCHANGED <<ids, next_pid, stacks, cpuvars>>

WaitLoop ==
  /\ cont[current] = "wait" /\ state[current] # "SLEEPING"
  /\ WaitRound(reg[current])
  /\ UNCHANGED <<ids, next_pid, stacks, cpuvars>>

SetSubreaper ==
  /\ cont[current] = "run" /\ ring[current] = 3
  /\ \E v \in BOOLEAN : child_subreaper' = [child_subreaper EXCEPT ![current] = v]
  /\ UNCHANGED <<state, sleep_ticks, pid, ppid, uid, next_pid, stacks, cpuvars,
                 cont, locals, logvars>>

(* setuid: only root may change its uid. *)
SetUid ==
  /\ cont[current] = "run" /\ ring[current] = 3
  /\ uid[current] = ROOT
  /\ \E u \in Uids : uid' = [uid EXCEPT ![current] = u]
  /\ UNCHANGED <<state, sleep_ticks, pid, ppid, child_subreaper, next_pid, stacks,
                 cpuvars, cont, locals, logvars>>

(* session_switch: after a login or su the shell belongs to another user. *)
SessionSwitch ==
  /\ MayStart("su") /\ current = MAIN
  /\ \E u \in Uids : uid' = [uid EXCEPT ![MAIN] = u]
  /\ UNCHANGED <<state, sleep_ticks, pid, ppid, child_subreaper, next_pid, stacks,
                 cpuvars, cont, locals, logvars>>

(* scheduler_yield from inside the kernel: the caller sleeps or has ended. *)
YieldAway ==
  /\ \/ cont[current] \in {"sleep", "wait"} /\ state[current] = "SLEEPING"
     \/ cont[current] = "dead"
  /\ YieldFrom(state)
  /\ UNCHANGED <<sleep_ticks, ids, next_pid, stacks, cont, locals, logvars>>

(* sched_yield, and ring 0 code that gives up its turn. *)
SchedYield ==
  /\ cont[current] = "run" /\ current # IDLE
  /\ YieldFrom(state)
  /\ UNCHANGED <<sleep_ticks, ids, next_pid, stacks, cont, locals, logvars>>

-----------------------------------------------------------------------------
(* The timer interrupt: RLIMIT_CPU, wake_sleepers, the reaper, and then a *)
(* switch if the turn is over (or the running process is not RUNNING).    *)

Charged ==
  IF "rlimit" \in Retire /\ current \notin System
  THEN {state, [state EXCEPT ![current] = "ZOMBIE"]} ELSE {state}

(* Mutant of Woken: a zombie whose count has run out is woken as well. *)
WokenZombies(st) ==
  [s \in Slots |-> IF st[s] \in {"SLEEPING", "ZOMBIE"} /\ sleep_ticks[s] = 1
                   THEN "READY" ELSE st[s]]

(* wake_sleepers *)
Woken(st) ==
  [s \in Slots |-> IF st[s] = "SLEEPING" /\ sleep_ticks[s] <= 1 THEN "READY" ELSE st[s]]

(* Mutant of CountDown: everybody's count goes down, sleeping or not. *)
CountDownAll(st) ==
  [s \in Slots |-> IF sleep_ticks[s] > 0 \/ st[s] = "RUNNING"
                   THEN sleep_ticks[s] - 1 ELSE sleep_ticks[s]]

CountDown(st) ==
  [s \in Slots |-> IF st[s] = "SLEEPING" /\ sleep_ticks[s] > 0
                   THEN sleep_ticks[s] - 1 ELSE sleep_ticks[s]]

(* Mutant of Reapable: a zombie waits until its parent has gone. *)
ReapableParentless(st) ==
  {s \in Slots : st[s] = "ZOMBIE" /\ s # current /\ SlotsOf(ppid[s]) = {}}

(* def_reap_zombies *)
Reapable(st) == {s \in Slots : st[s] = "ZOMBIE" /\ s # current}
Reaped(st)   == [s \in Slots |-> IF s \in Reapable(st) THEN "FREE" ELSE st[s]]

(* exitlog_add for each of them in table order; the oldest record goes    *)
(* when the log is full.                                                  *)
LogWith(dead) ==
  LET order == SetToSortSeq(dead, <)
      all   == exitlog \o [i \in DOMAIN order |->
                             [pid |-> pid[order[i]], ppid |-> ppid[order[i]]]]
  IN  IF Len(all) <= ExitlogSize THEN all
      ELSE SubSeq(all, Len(all) - ExitlogSize + 1, Len(all))

Tick ==
  /\ IrqsOn
  /\ \E st \in Charged :
       LET dead  == Reapable(Woken(st))
           after == Reaped(Woken(st))
       IN  /\ sleep_ticks' = CountDown(st)
           /\ heap' = heap \ {stack_base[s] : s \in dead}
           /\ stack_base' = [s \in Slots |-> IF s \in dead THEN BOOT ELSE stack_base[s]]
           /\ exitlog' = LogWith(dead)
           /\ \/ after[current] = "RUNNING" /\ state' = after /\ UNCHANGED cpuvars
              \/ YieldFrom(after)
  /\ UNCHANGED <<ids, next_pid, ring, cont, locals, reported>>

-----------------------------------------------------------------------------
(* Steps of an operation already under way. *)
KernelStep ==
  \/ CreateQuota \/ CreateFind \/ CreateWipe \/ CreateAlloc \/ CreateNoMemory
  \/ CreatePid \/ CreateFill \/ CreateReady
  \/ ExitEnded \/ KillMark \/ KillEnded \/ SleepEnd \/ WaitLoop

Next ==
  \/ CreateBegin \/ ExitBegin \/ KillBegin \/ SleepBegin \/ WaitBegin \/ SetSubreaper
  \/ SetUid \/ SessionSwitch
  \/ KernelStep \/ YieldAway \/ SchedYield \/ Tick

Spec == Init /\ [][Next]_vars

(* What the machine guarantees: code under way goes on; a pending timer    *)
(* interrupt is taken once interrupts are on (the PIC keeps it latched);   *)
(* and a process that can run again and again is picked (Priority's aging).*)
Picks(s) == current # s /\ current' = s /\ (Tick \/ YieldAway \/ SchedYield)
Fairness ==
  /\ WF_vars(KernelStep) /\ WF_vars(YieldAway)
  /\ SF_vars(Tick)
  /\ \A s \in Slots : SF_vars(Picks(s))
FairSpec == Spec /\ Fairness

-----------------------------------------------------------------------------
Live(s) == state[s] # "FREE"

TypeOK ==
  /\ state \in [Slots -> States]
  /\ pid \in [Slots -> Nat] /\ ppid \in [Slots -> Nat]
  /\ uid \in [Slots -> Uids] /\ ring \in [Slots -> {0, 3}]
  /\ stack_base \in [Slots -> Blocks \cup {BOOT}]
  /\ esp \in [Slots -> Blocks \cup {BOOT}]
  /\ child_subreaper \in [Slots -> BOOLEAN]
  /\ sleep_ticks \in [Slots -> 0 .. MaxSleep]
  /\ next_pid \in Nat
  /\ current \in Slots
  /\ cpu \in Blocks \cup {BOOT}
  /\ heap \subseteq Blocks
  /\ cont \in [Slots -> Points]
  /\ ptr \in [Slots -> Slots] /\ reg \in [Slots -> Nat]

(* The scheduler's bookkeeping agrees with the CPU: only the process on   *)
(* the CPU is RUNNING, its slot is never given away under it, and idle    *)
(* can always be picked ("so the scheduler always has a choice").         *)
SchedulerSound ==
  /\ \A s \in Slots : state[s] = "RUNNING" => s = current
  /\ Live(current)
  /\ state[IDLE] \in {"READY", "RUNNING"}

(* The CPU stands on the stack of the running process, every process that *)
(* can still run resumes on a stack of its own that the heap has not      *)
(* taken back, and no two slots own the same block.                       *)
StackSafe ==
  /\ cpu = stack_base[current]
  /\ \A s \in Slots : state[s] \notin {"FREE", "ZOMBIE"} \/ s = current =>
       /\ s # MAIN => stack_base[s] \in heap
       /\ s # current => esp[s] = stack_base[s]
  /\ \A s, t \in Slots : stack_base[s] = stack_base[t] /\ s # t => stack_base[s] = BOOT

(* "a PID never names two processes" (def_pid_bounds.c): no two slots in  *)
(* use share a PID.                                                       *)
PidNamesOne == \A s, t \in Slots : Live(s) /\ Live(t) /\ pid[s] = pid[t] => s = t

(* Nor will they: the counter is ahead of every PID in use.               *)
PidsUnique ==
  /\ PidNamesOne
  /\ \A s \in Slots : Live(s) => pid[s] \in 1 .. next_pid - 1

(* Each child is reported once: a finished process has one exit record    *)
(* until its parent takes it, and none afterwards.                        *)
ReportedOnce ==
  /\ Len(exitlog) <= ExitlogSize
  /\ \A i, j \in DOMAIN exitlog : exitlog[i].pid = exitlog[j].pid => i = j
  /\ \A i \in DOMAIN exitlog :
       exitlog[i].pid \notin reported \cup {pid[s] : s \in {t \in Slots : Live(t)}}

(* "nobody is left fatherless" (process.c:179): the parent a process      *)
(* names exists, or the thread that ended the parent is about to call     *)
(* process_ended for it.                                                  *)
NobodyFatherless ==
  \A c \in Slots : state[c] \notin {"FREE", "ZOMBIE"} /\ c \notin System =>
    \/ SlotsOf(ppid[c]) # {}
    \/ \E k \in Slots : /\ Live(k) /\ cont[k] = "kill_ended"
                         /\ pid[ptr[k]] = ppid[c]

(* def_slot_quota.c: "a normal user may own at most MAX_PER_USER           *)
(* processes".  Users also come to own processes by setuid and su, which   *)
(* ask for no quota; so it is when a slot is given to a normal user that   *)
(* the rule holds, the new process included, although it was checked       *)
(* several steps before and for the creator as it was then.                *)
QuotaStep ==
  \A s \in Slots : state[s] = "FREE" /\ state'[s] = "READY" /\ uid[s] # ROOT =>
    Cardinality({t \in Slots : state'[t] # "FREE" /\ uid[t] = uid[s]}) <= MaxPerUser
QuotaKept == [][QuotaStep]_vars

(* The life of a process (process.h): a slot is given out FREE -> READY,  *)
(* leaves the living only as a ZOMBIE, and a ZOMBIE is only ever freed.   *)
LifeStep ==
  \A s \in Slots : state'[s] # state[s] =>
    /\ state[s] = "FREE" => state'[s] = "READY"
    /\ state'[s] = "FREE" => state[s] = "ZOMBIE"
    /\ state[s] = "ZOMBIE" => state'[s] = "FREE"
LifeCycle == [][LifeStep]_vars

(* A process that ended gives its slot back (def_reaper.c), whoever it    *)
(* was, whatever its parent does and however busy the others are.         *)
ZombieReaped == \A s \in Slots : state[s] = "ZOMBIE" ~> state[s] = "FREE"

(* wait4 does not wait for nobody: a caller none of whose children lives  *)
(* is not left in the loop for good.                                      *)
Orphaned(s) ==
  /\ cont[s] = "wait" /\ state[s] \notin {"FREE", "ZOMBIE"}
  /\ \A c \in Slots : state[c] \notin {"FREE", "ZOMBIE"} => ppid[c] # pid[s]
NoStuckWait == \A s \in Slots : []<>~Orphaned(s)

=============================================================================
