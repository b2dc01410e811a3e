------------------------------ MODULE Priority ------------------------------
(* cpu_management/core/priority and core/policy: which process gets the    *)
(* CPU, and when.  Module Process has the mechanism of a switch and leaves *)
(* the choice open; here the choice is exact (ranks, round robin, slices,  *)
(* aging, real-time throttling) and a process only runs, sleeps and wakes. *)
EXTENDS Integers, FiniteSets

CONSTANTS
  MaxProcesses,     \* MAX_PROCESSES; slot 0 is the idle task, 1 kernel_main
  PriorityMax,      \* PRIORITY_MAX
  AgingTicks,       \* AGING_TICKS
  RRSliceTicks,     \* RR_SLICE_TICKS
  RtPercent,        \* RT_RUNTIME_PERCENT
  Worlds,           \* what may be the case: kinds[p], the policy, rt_priority and
                    \* nice values p may have; savers, the values of "the profile
                    \* is POWER_SAVER"; hz, timer_frequency(); slice,
                    \* CPU_SLICE_TICKS; cap, where waited_ticks stops counting
  Uid,              \* Uid[p]: the owner of p, 0 is root
  RlimitNice,       \* RLIMIT_NICE of every process
  RlimitRtprio,     \* RLIMIT_RTPRIO of every process
  Ring0,            \* the processes that run kernel code, interrupts on
  MaxSleep          \* longest sleep asked for, in ticks

ASSUME PriorityAssumption ==
  /\ MaxProcesses \in Nat \ {0, 1} /\ MaxSleep \in Nat \ {0}
  /\ PriorityMax \in 1 .. 9 /\ AgingTicks \in Nat \ {0}
  /\ RRSliceTicks \in Nat \ {0} /\ RtPercent \in 0 .. 100
  /\ RlimitNice \in Nat /\ RlimitRtprio \in Nat

Slots == 0 .. MaxProcesses - 1
IDLE  == 0
MAIN  == 1
System == {IDLE, MAIN}
Policies == {"OTHER", "FIFO", "RR", "BATCH", "IDLE"}
KindType == [policy : Policies, rt : 0 .. 99, nice : -20 .. 19]

ASSUME WorldAssumption ==
  /\ Uid \in [Slots -> Nat] /\ Ring0 \subseteq Slots
  /\ \A w \in Worlds :
       /\ w.kinds \in [Slots -> SUBSET KindType] /\ \A p \in Slots : w.kinds[p] # {}
       /\ \A p \in Slots : \A k \in w.kinds[p] :
            IF k.policy \in {"FIFO", "RR"} THEN k.rt \in 1 .. 99 ELSE k.rt = 0
       /\ \A p \in System : w.kinds[p] = {[policy |-> "OTHER", rt |-> 0, nice |-> 0]}
       /\ w.savers \subseteq BOOLEAN /\ FALSE \in w.savers
       /\ w.hz \in Nat \ {0, 1} /\ w.slice \in Nat \ {0}
       /\ w.cap \in Nat /\ w.cap >= PriorityMax * AgingTicks

VARIABLES
  world,            \* one of Worlds, for good
  current,          \* the process the CPU runs
  state,            \* per slot: READY, RUNNING or SLEEPING
  sleep_ticks,      \* per slot: ticks left of the sleep
  kind,             \* per slot: policy, rt_priority, nice
  slice_left,       \* per slot: ticks left of its turn
  waited_ticks,     \* per slot: ticks READY without the CPU
  rt_period_ticks,  \* ticks of the current second
  rt_used_ticks,    \* of them charged to real-time processes
  rt_throttled,     \* real-time counts as normal until the second is over
  saver,            \* power_profile() is POWER_SAVER
  rt_ran,           \* history: ticks of this second a real-time process had
  starved           \* history: ticks since a normal process had the CPU while
                    \* one wanted it (up to 2 * Hz)

throttle == <<rt_period_ticks, rt_used_ticks, rt_throttled>>
history  == <<rt_ran, starved>>
vars == <<world, current, state, sleep_ticks, kind, slice_left, waited_ticks, throttle, saver,
          history>>

Kinds == world.kinds
Savers == world.savers
Hz == world.hz
CpuSliceTicks == world.slice
WaitCap == world.cap

-----------------------------------------------------------------------------
(* Levels and ranks. *)

RealTime(p) == kind[p].policy \in {"FIFO", "RR"}
Normal(p) == p # IDLE /\ kind[p].policy \in {"OTHER", "BATCH"}
Lesser(a, b) == IF a <= b THEN a ELSE b

LevelOfNice(nice) == ((19 - nice) * PriorityMax) \div 40 + 1

(* The idle task is level 0, everybody else follows its nice value. *)
Level(p) == IF p = IDLE THEN 0 ELSE LevelOfNice(kind[p].nice)

(* Mutant of Aged: waiting raises nobody. *)
NeverAged(base, waited) == base

(* def_aging: one level per AgingTicks of waiting, the idle task never. *)
Aged(base, waited) ==
  IF base <= 0 THEN base ELSE Lesser(base + waited \div AgingTicks, PriorityMax)

Rank(p, waited, throttled) ==
  IF RealTime(p) /\ ~throttled THEN 100 + kind[p].rt
  ELSE IF kind[p].policy = "IDLE" THEN 5
  ELSE Aged(Level(p), waited) * 10

Runnable(st) == {p \in Slots : st[p] \in {"READY", "RUNNING"}}

(* Mutant of Choose: a later equal replaces the earlier one. *)
ChooseLast(st, waited, throttled) ==
  LET best[i \in 0 .. MaxProcesses] ==
        IF i = 0 THEN -1
        ELSE LET p == (current + i) % MaxProcesses
                 b == best[i - 1]
             IN  IF /\ p \in Runnable(st)
                    /\ b = -1 \/ Rank(p, waited[p], throttled) >= Rank(b, waited[b], throttled)
                 THEN p ELSE b
  IN  best[MaxProcesses]

(* The loop of choose: from the slot after current round to current, a     *)
(* strictly better rank replaces the best so far.                          *)
Choose(st, waited, throttled) ==
  LET best[i \in 0 .. MaxProcesses] ==
        IF i = 0 THEN -1
        ELSE LET p == (current + i) % MaxProcesses
                 b == best[i - 1]
             IN  IF /\ p \in Runnable(st)
                    /\ b = -1 \/ Rank(p, waited[p], throttled) > Rank(b, waited[b], throttled)
                 THEN p ELSE b
  IN  best[MaxProcesses]

(* policy_slice_ticks with power_slice_ticks; 0 is a turn without end. *)
SliceTicks(p, throttled) ==
  IF RealTime(p) /\ ~throttled
  THEN IF kind[p].policy = "FIFO" THEN 0 ELSE RRSliceTicks
  ELSE IF saver THEN 2 * CpuSliceTicks ELSE CpuSliceTicks

-----------------------------------------------------------------------------
(* The running process is not the idle task and may make a call. *)
Awake == current # IDLE /\ state[current] # "SLEEPING"

(* scheduler_yield with priority_pick_next and priority_start_turn. *)
Yield(st, slices, waited, throttled) ==
  \E n \in {Choose(st, waited, throttled)} :
    /\ current' = n
    /\ state' = IF n = current THEN st
                ELSE [st EXCEPT ![current] = IF @ = "RUNNING" THEN "READY" ELSE @,
                                ![n] = "RUNNING"]
    /\ slice_left' = [slices EXCEPT ![n] = SliceTicks(n, throttled)]
    /\ waited_ticks' = [waited EXCEPT ![n] = 0]

(* sched_yield, and the loop of sys_sleep. *)
SchedYield ==
  /\ current # IDLE
  /\ Yield(state, slice_left, waited_ticks, rt_throttled)
  /\ starved' = IF Normal(current') THEN 0 ELSE starved
  /\ UNCHANGED <<world, sleep_ticks, kind, throttle, saver, rt_ran>>

(* sys_sleep up to its loop.  In a system call interrupts are off and the  *)
(* yield follows; in kernel code a tick may come first.                    *)
Sleep ==
  /\ Awake
  /\ \E n \in 1 .. MaxSleep : sleep_ticks' = [sleep_ticks EXCEPT ![current] = n]
  /\ state' = [state EXCEPT ![current] = "SLEEPING"]
  /\ UNCHANGED <<world, current, kind, slice_left, waited_ticks, throttle, saver, history>>

-----------------------------------------------------------------------------
(* The timer tick: wake_sleepers, then priority_tick. *)

Woken ==
  [p \in Slots |-> IF state[p] = "SLEEPING" /\ sleep_ticks[p] <= 1 THEN "READY" ELSE state[p]]
CountDown ==
  [p \in Slots |-> IF state[p] = "SLEEPING" /\ sleep_ticks[p] > 0
                   THEN sleep_ticks[p] - 1 ELSE sleep_ticks[p]]

Budget == (Hz * RtPercent) \div 100
NewSecond == rt_period_ticks + 1 >= Hz

(* Mutant of RtUsed: SCHED_RR is not charged. *)
RtUsedFifo ==
  IF Woken[current] = "RUNNING" /\ kind[current].policy = "FIFO" /\ ~rt_throttled
  THEN rt_used_ticks + 1 ELSE rt_used_ticks

(* rt_throttle_tick *)
RtUsed ==
  IF Woken[current] = "RUNNING" /\ RealTime(current) /\ ~rt_throttled
  THEN rt_used_ticks + 1 ELSE rt_used_ticks
ThrottleStarts == ~NewSecond /\ ~rt_throttled /\ RtUsed >= Budget
Throttled == ~NewSecond /\ (rt_throttled \/ ThrottleStarts)
RtThrottleTick ==
  /\ rt_period_ticks' = IF NewSecond THEN 0 ELSE rt_period_ticks + 1
  /\ rt_used_ticks' = IF NewSecond THEN 0 ELSE RtUsed
  /\ rt_throttled' = Throttled

(* turn_over: the slice it leaves, and whether current must go. *)
TimedTurn == /\ ~ThrottleStarts /\ Woken[current] = "RUNNING"
             /\ SliceTicks(current, Throttled) # 0

(* Mutant of SliceAfter: the guard against counting below 0 is dropped. *)
SliceWraps == IF TimedTurn THEN slice_left[current] - 1 ELSE slice_left[current]

SliceAfter ==
  IF TimedTurn /\ slice_left[current] > 0 THEN slice_left[current] - 1 ELSE slice_left[current]
RankNow(p) == Rank(p, waited_ticks[p], Throttled)

(* Mutants of SomeoneBetter: an equal is better; nobody ever is. *)
SomeoneAsGood ==
  LET n == Choose(Woken, waited_ticks, Throttled)
  IN  kind[n].policy # "BATCH" /\ RankNow(n) >= RankNow(current)
NobodyBetter == FALSE

SomeoneBetter ==
  LET n == Choose(Woken, waited_ticks, Throttled)
  IN  kind[n].policy # "BATCH" /\ RankNow(n) > RankNow(current)
TurnOver ==
  \/ ThrottleStarts
  \/ Woken[current] # "RUNNING"
  \/ TimedTurn /\ SliceAfter = 0
  \/ SomeoneBetter

(* Everybody READY but current and the next one waited a tick longer. *)
Waited(next) ==
  [p \in Slots |-> IF p \notin {current, next} /\ Woken[p] = "READY"
                   THEN Lesser(waited_ticks[p] + 1, WaitCap) ELSE waited_ticks[p]]

(* The history of a tick and of a switch between ticks. *)
Recorded ==
  /\ rt_ran' = IF NewSecond THEN 0
               ELSE IF RealTime(current) /\ ~rt_throttled THEN rt_ran + 1 ELSE rt_ran
  /\ starved' = IF Normal(current) \/ Normal(current') THEN 0
                ELSE IF \E p \in Slots : Normal(p) /\ state[p] = "READY"
                THEN Lesser(starved + 1, 2 * Hz) ELSE 0

Tick ==
  /\ state[current] = "SLEEPING" => current \in Ring0
  /\ sleep_ticks' = CountDown
  /\ RtThrottleTick
  /\ LET slices == [slice_left EXCEPT ![current] = SliceAfter]
     IN  IF TurnOver
         THEN \E waited \in {Waited(Choose(Woken, waited_ticks, Throttled))} :
                Yield(Woken, slices, waited, Throttled)
         ELSE /\ state' = Woken
              /\ slice_left' = slices
              /\ waited_ticks' = Waited(current)
              /\ UNCHANGED current
  /\ Recorded
  /\ UNCHANGED <<world, kind, saver>>

-----------------------------------------------------------------------------
(* setpriority, sched_setscheduler, sched_setparam and sched_setattr by    *)
(* the running process, under the rules of priority_bounds; powerprofile.  *)

NiceAllowed(c, t, nice) ==
  /\ t \notin System
  /\ \/ Uid[c] = 0
     \/ /\ Uid[c] = Uid[t]
        /\ nice >= kind[t].nice \/ (RlimitNice <= 40 /\ nice >= 20 - RlimitNice)
PolicyAllowed(c, t, k) ==
  /\ t \notin System
  /\ \/ Uid[c] = 0
     \/ Uid[c] = Uid[t] /\ (k.policy \in {"FIFO", "RR"} => k.rt <= RlimitRtprio)

SetNice(t) ==
  /\ \E k \in Kinds[t] : /\ k.nice # kind[t].nice
                         /\ NiceAllowed(current, t, k.nice)
                         /\ kind' = [kind EXCEPT ![t].nice = k.nice]
  /\ UNCHANGED <<world, current, state, sleep_ticks, slice_left, waited_ticks, throttle, saver,
                 history>>

(* setpriority(PRIO_USER): every process of the user that may be changed. *)
SetNiceOfUser(u) ==
  /\ \E n \in {k.nice : k \in UNION {Kinds[p] : p \in {q \in Slots \ System : Uid[q] = u}}} :
       kind' = [t \in Slots |-> IF Uid[t] = u /\ NiceAllowed(current, t, n)
                               THEN [kind[t] EXCEPT !.nice = n] ELSE kind[t]]
  /\ kind' # kind
  /\ UNCHANGED <<world, current, state, sleep_ticks, slice_left, waited_ticks, throttle, saver,
                 history>>

SetPolicy(t) ==
  /\ \E k \in Kinds[t] :
       /\ PolicyAllowed(current, t, k)
       /\ kind' = [kind EXCEPT ![t].policy = k.policy, ![t].rt = k.rt]
  /\ kind' # kind
  /\ UNCHANGED <<world, current, state, sleep_ticks, slice_left, waited_ticks, throttle, saver,
                 history>>

(* Both halves are checked first; a real-time policy keeps the nice value. *)
SetAttr(t) ==
  /\ \E k \in Kinds[t] :
       LET nice == IF k.policy \in {"FIFO", "RR"} THEN kind[t].nice ELSE k.nice
       IN  /\ PolicyAllowed(current, t, k) /\ NiceAllowed(current, t, nice)
           /\ kind' = [kind EXCEPT ![t] = [k EXCEPT !.nice = nice]]
  /\ kind' # kind
  /\ UNCHANGED <<world, current, state, sleep_ticks, slice_left, waited_ticks, throttle, saver,
                 history>>

SetProfile ==
  /\ saver' \in Savers \ {saver}
  /\ UNCHANGED <<world, current, state, sleep_ticks, kind, slice_left, waited_ticks, throttle,
                 history>>

-----------------------------------------------------------------------------
Init ==
  /\ world \in Worlds
  /\ current = MAIN
  /\ state = [p \in Slots |-> IF p = current THEN "RUNNING" ELSE "READY"]
  /\ sleep_ticks = [p \in Slots |-> 0]
  /\ kind \in {f \in [Slots -> UNION {Kinds[p] : p \in Slots}] : \A p \in Slots : f[p] \in Kinds[p]}
  /\ saver = FALSE
  /\ slice_left = [p \in Slots |-> IF p = MAIN THEN CpuSliceTicks ELSE 0]
  /\ waited_ticks = [p \in Slots |-> 0]
  /\ rt_period_ticks = 0 /\ rt_used_ticks = 0 /\ rt_throttled = FALSE
  /\ rt_ran = 0 /\ starved = 0

Next ==
  \/ Tick
  \/ SchedYield
  \/ Sleep
  \/ \E t \in Slots : Awake /\ SetNice(t)
  \/ \E t \in Slots : Awake /\ SetNiceOfUser(Uid[t])
  \/ \E t \in Slots : Awake /\ SetPolicy(t)
  \/ \E t \in Slots : Awake /\ SetAttr(t)
  \/ Awake /\ SetProfile

Spec == Init /\ [][Next]_vars
(* The timer never stops, and a process that has marked itself asleep      *)
(* yields: interrupts are off or the loop goes on.                         *)
FairSpec == Spec /\ WF_vars(Tick) /\ WF_vars(~Awake /\ SchedYield)

-----------------------------------------------------------------------------
TypeOK ==
  /\ current \in Slots
  /\ state \in [Slots -> {"READY", "RUNNING", "SLEEPING"}]
  /\ sleep_ticks \in [Slots -> 0 .. MaxSleep]
  /\ kind \in [Slots -> KindType]
  /\ slice_left \in [Slots -> Nat] /\ waited_ticks \in [Slots -> 0 .. WaitCap]
  /\ rt_period_ticks \in 0 .. Hz - 1 /\ rt_used_ticks \in 0 .. Hz - 1
  /\ rt_throttled \in BOOLEAN /\ saver \in BOOLEAN
  /\ rt_ran \in Nat /\ starved \in 0 .. 2 * Hz

(* Rules 1 and 2 of priority.h: the loop of choose returns a runnable      *)
(* process that nobody outranks, and of the equals the first after the     *)
(* running one, the running one last: the round robin.                     *)
ChoiceIsBest ==
  LET RankOf(p) == Rank(p, waited_ticks[p], rt_throttled)
      Turn(p) == (p - current - 1) % MaxProcesses
      n == Choose(state, waited_ticks, rt_throttled)
  IN  /\ n \in Runnable(state)
      /\ \A p \in Runnable(state) \ {n} :
           RankOf(p) < RankOf(n) \/ (RankOf(p) = RankOf(n) /\ Turn(n) < Turn(p))

TimerTick == rt_period_ticks' # rt_period_ticks

(* Rule 4 of priority.h: "if a better process becomes READY, it takes the  *)
(* CPU at once".  turn_over asks only the best of all: a tick leaves the   *)
(* CPU with a process that a better one outranks only where the best is a  *)
(* SCHED_BATCH process, which waits for the turn to end and hides whoever  *)
(* it outranks.  Nothing hides a real-time process.                        *)
BetterTakesOver ==
  [][TimerTick /\ current' = current /\ Woken[current] = "RUNNING" =>
       \A p \in Runnable(Woken) :
         RankNow(p) > RankNow(current) =>
           \E b \in Runnable(Woken) :
             /\ kind[b].policy = "BATCH" /\ RankNow(b) >= RankNow(p)
             /\ RankNow(b) < 100]_vars

(* policy.h: a SCHED_FIFO turn lasts "until it sleeps or ends": a tick     *)
(* takes the CPU from an unthrottled FIFO process only for a process of    *)
(* higher rank, never for an equal.                                        *)
FifoKeepsCpu ==
  [][TimerTick /\ Woken[current] = "RUNNING" /\ kind[current].policy = "FIFO"
     /\ ~rt_throttled' /\ current' # current => RankNow(current') > RankNow(current)]_vars

(* priority.c: "Count real-time ticks; at 95% of a second, throttle until  *)
(* it is over": unthrottled, real-time has at most its budget of a second. *)
(* It holds while real-time processes are programs in ring 3.              *)
RtBudget == rt_ran <= Budget

(* policy.h: real-time processes get at most 95% of each second, "the last *)
(* 5% go to the normal ones": no second passes in which a normal process   *)
(* wants the CPU from the first tick to the last and none gets it.         *)
LastFivePercent == starved < 2 * Hz

(* def_aging.c: "after 600 ms it ties the hog and the round robin gives it *)
(* a turn".  Where all processes are normal nobody waits longer than the   *)
(* climb to the top level and one turn of everybody else.                  *)
LongestSlice == IF TRUE \in Savers THEN 2 * CpuSliceTicks ELSE CpuSliceTicks
WaitBound == (PriorityMax - 1) * AgingTicks + (MaxProcesses - 2) * LongestSlice
AllNormal == \A p \in Slots : \A k \in Kinds[p] : k.policy \in {"OTHER", "BATCH"}
AgingBound == AllNormal => \A p \in Slots \ {IDLE} : waited_ticks[p] <= WaitBound

(* def_aging.c: "Nobody waits forever": a normal process that is READY     *)
(* gets the CPU.                                                           *)
NobodyWaitsForever ==
  \A p \in Slots \ {IDLE} :
    (Normal(p) /\ state[p] = "READY") ~> (current = p \/ ~Normal(p))
=============================================================================
