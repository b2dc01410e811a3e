# UzOS in TLA+

TLA+ models of the UzOS kernel, model-checked with TLC and partly proved with
TLAPS. `PROJECT.json` lists the components, the runs, the mutants, the theorems,
and for every definition the source lines it models.

## 1. The machine, and what interleaves

UzOS is a 32-bit x86 kernel for one CPU. Every gate of the IDT is an interrupt
gate (`src/arch/x86/idt/idt.c`), so an interrupt handler or a system call from
ring 3 runs with interrupts off from its first instruction to its last, except
where it calls `scheduler_yield`. Ring 0 processes (the shell in `kernel_main`,
its commands, the daemons) run the same kernel functions with interrupts *on*:
a timer tick, and with it any other process, may come between any two of their
instructions unless the function uses `cpu_irq_save`. This is the source of
nearly all concurrency in UzOS, and the models keep it: an operation is one
atomic action where the code has interrupts off, and a chain of actions where
ring 0 code may be interrupted.

## 2. Inventory

For each part: what it keeps, what changes it, what it works with, what makes it
hard, and what should hold. *Modelled* parts name their module, the others the
planned one.

| Part (source) | State | Operations | Works with | What is hard | Should hold | Module |
|---|---|---|---|---|---|---|
| Process table, switch, reaper (`process_management/core/process`, `core/scheduler`, `zombie_leak/defence/reaper`) | 64 slots: state, pid, ppid, stack; `next_pid`; current | create, kill, exit, ended, tick, yield, sleep, reap | heap, priority, signals, descriptors | ring 0 callers are interrupted in mid-operation; stacks freed from an interrupt | one RUNNING process; nobody runs on a freed stack; PIDs unique; nobody fatherless | **Process** |
| wait and the exit log (`core/exitlog`, `wait4`, `waitpid`) | ring of exit records | add at reaping, take | process table | log overflow, re-parenting between exit and wait | each child reported once; no wait for nobody | **Process** |
| Ranks, slices, aging, real-time throttle (`cpu_management/core/priority`, `core/policy`, `core/power`, `starvation/defence/aging`, `priority_bounds`) | per process policy, nice, slice, waiting time; throttle clock | tick, pick, setpriority, sched_set* , power profile | scheduler | rank changes with time; throttling in mid-turn; round robin under preemption | best rank runs; real-time keeps its budget; bounded waiting | **Priority** |
| Signals (`core/signal`) | pending set, mask, queue, handlers, timers | send, deliver, return, stop, continue, tick | processes, faults, terminal | blocked, ignored and stopped at once; pool full; nested frames | none lost, none delivered while blocked, SIGKILL always wins | Signal |
| fork, clone, vfork, exec, exit_group (`cpu_management/core/task`, `core/usertask`) | thread group, address space use, inherited attributes | fork, vfork, clone, execve, exit_group | process table, memory, descriptors | the parent of a vfork sleeps until exec or exit of the child | shared things are freed by the last one only | Family |
| Commands that start a child (`commands/nice/run_child.c` and six copies) | static `next_line`, child pointer | start, wait, interrupt | process table, signals | two starters; the child ends while its pointer is used | each child runs its own line; signals go to the child | RunChild |
| Ramdisk and vfs (`filesystem_management/core`) | inodes, names, link and open counts, parents | create, delete, link, symlink, move, exchange, resize | descriptors, users | deletion of open files, hard links, moves of directories | counts exact; no cycle; a node lives while named or open | Files |
| Descriptors (`io_management`) | per process table, offsets | open, read, write, seek, close | vfs, sockets | limits; ring 0 opens with interrupts on | open counts equal the descriptors that exist | Files |
| Kernel heap (`memory_management/core/kheap`) | block list | kmalloc, kfree | everything | split and merge at the edges | blocks disjoint, cover the heap, no two free neighbours | Memory |
| Frames, page tables, user regions (`pmm`, `vmm`, `umem`) | bitmap, tables, region list | alloc, free, map, unmap, sbrk, mmap | processes | failure half-way; one global region list | one owner per frame; failure changes nothing | Memory |
| Packets, interfaces, lo (`network_management/core/packet`, `netdev`, `loopback`) | pool, backlog, drain flag | alloc, free, receive, transmit | all layers | receive inside receive on lo; pool empty | packets conserved; order kept | NetStack |
| ARP, IPv4, fragments, routes, ICMP, UDP, DHCP, DNS | caches and tables with timers | receive, send, tick | packets, sockets | lost, repeated, reordered frames; late answers; full tables | datagrams whole; waiting packets sent or freed | NetStack |
| TCP (`tcp.c`, `tcp_timer.c`) | connections: sequence numbers, buffers, timers | connect, listen, accept, send, recv, close, segment, tick | IPv4, sockets | loss, repetition, reordering; simultaneous open and close; retries against late acknowledgments | a byte stream: every byte once, in order; both ends get to CLOSED | **Tcp** |
| Sockets, poll, epoll (`socket.c`, `poll.c`, `epoll.c`) | slots, one waiter each, receive queue | create, nap, wake, close | TCP, UDP, unix, processes, vfs | wake-ups against naps, several waiters, killed waiters | a sleeper is woken or its slice ends; slots freed once | Socket |
| AF_UNIX (`unix.c`) | ends, peers, listener queue, rings | bind, connect, accept, send, recv, shutdown, close | sockets | close of either side at any moment, reconnecting | peers agree; all bytes, then end of stream | Unix |
| Keyboard, mouse, audit log | rings, decoder position, counters | interrupt, take, log | timer, shell | one producer and several takers; lost bytes; a full ring | order kept, counters add up | Rings |
| Users, sessions, permissions (`user_management`) | user table, `next_uid`, the shell's uid | add, delete, login, chmod | files, capabilities | a uid given again | a uid never names two users | Files |
| Timer, PIC, RTC, speaker, screen, fonts, windows | hardware registers, pixels | interrupt, draw | – | hardware | – | – |
| Capabilities, integrity, registry, watchdog, attack and defence lab | tables fixed at boot | check, list | – | demonstrations | – | a defence inside an operation is modelled with the operation |
| Shell, ui, commands, lib, boot | one line of input, text | parse, print | – | sequential | – | – |

## 3. Plan

| Step | Modules | Composition and abstraction | Runs (bounds) | Theorems |
|---|---|---|---|---|
| done | `Process` | abstract heap of stack blocks; open choice of the next process | 5 (4–5 slots) | six, see below |
| done | `Priority` | the choice made exact; processes only run and sleep | 4 (4 slots, 3 levels, seconds of 2 or 4 ticks) | planned: type, `ChoiceIsBest`, `RtBudget`, `FifoKeepsCpu` |
| done | `Tcp` | two ends over a lossy network, or two programs over lo | 3 (two slots per host, windows of two bytes, one loss or repetition) | planned: `PendingExact`, `FlightFits` |
| next | `Stream` | the byte stream a connection promises, which `Tcp` implements | in the run of `Tcp` | delivered is a prefix of sent |
| next | `Files` | vfs, ramdisk and descriptors together | 1 (4 inodes, 2 processes, 2 descriptors) | counts exact, no cycle |
| then | `Memory` | heap, frames and user regions; its heap implements the abstract heap of `Process` | 1 (heap of 8 units, 4 frames) | blocks partition the heap; one owner per frame |
| then | `Signal` with `RunChild` | signals over a reduced process table | 1 (2 processes, 3 signals) | SIGKILL cannot be blocked |
| then | `Socket`, `Unix`, `NetStack`, `Rings` | sockets over an abstract protocol; packets through all layers | 1–2 | packets conserved |

A run asks one question of its own. The runs that show a disagreement with a
comment make room when a component needs one: what they show stays in the
hazards.

## 4. Module Process

`process.c`, `scheduler.c`, the reaper, `exitlog.c`, `sys_sleep.c`, `sys_wait4.c`.

**State.** One function per field of `process_t` (`state`, `pid`, `ppid`, `uid`,
`ring`, `stack_base`, `esp`, `sleep_ticks`, `child_subreaper`), `next_pid`,
`current`, the block the stack pointer of the CPU is in (`cpu`), the set of
blocks handed out (`heap`), the exit log. `cont[s]` is the point the thread of
slot `s` has reached inside a kernel function, `ptr[s]` and `reg[s]` are the
locals it holds there. `reported` is a history variable.

**Actions.** `CreateBegin` … `CreateReady` are the stores of `process_create` in
order (check the PID counter, check the quotas, find the slot, wipe, allocate,
read `next_pid`, fill, READY), `ExitBegin`/`ExitEnded` those of `process_exit_with`, `KillBegin`/
`KillMark`/`KillEnded` those of `process_kill`. `SleepBegin`/`SleepEnd`,
`WaitBegin`/`WaitLoop`, `SetSubreaper`, `SetUid`, `SchedYield` are system calls;
`SessionSwitch` is what `su`, `login` and `logout` do to the shell's own uid;
`YieldAway` is the yield at the end of exit and in the sleeping loops. `Tick` is
the whole of `scheduler_tick`: RLIMIT_CPU and the stack guard, waking, reaping
with the exit log, then staying or switching. `IrqsOn` disables `Tick` while a
ring 3 process is inside a system call. `Ring0Ops` says which operations ring 0
code performs; `Retire` whether the kernel ends a process by itself.

**Abstractions.** Which process is chosen is open, except that idle runs only
when nobody else can. A stack is one heap block. Signals (and with them the state
STOPPED), threads (`CLONE_THREAD`), process groups and `process_hangup` are left
out. A command that changes the shell's uid is run by the shell itself, not by a
child of it. Exit statuses are dropped: no property looks at
them.

**Runs.**
* `process_syscalls` – system calls against ticks on five slots, two exit
  records: `TypeOK`, `SchedulerSound`, `StackSafe`, `PidsUnique`, `ReportedOnce`,
  `NobodyFatherless`, `LifeCycle` (824,294 states).
* `process_ring0` – exit, kill and su by ring 0 code with interrupts on, setuid,
  processes retired by the kernel, a user at the quota: `SchedulerSound`,
  `StackSafe`, `QuotaKept` (324,100 states). "A normal user may own at most
  MAX_PER_USER processes" is not an invariant of UzOS: a root process that calls
  setuid, and a shell that logs somebody in, add to a user's processes without
  asking. What holds, and what `QuotaKept` says, is that `process_create` never
  gives a slot to a user who is at the quota when the slot is given.
* `process_live` – fair behaviours: `ZombieReaped`, `NoStuckWait`.
* `process_create_race` (violation) – two ring 0 creators leave two live
  processes with one PID (`PidNamesOne`, the first half of `PidsUnique`): one is
  interrupted with the slot it found, the other fills that slot, begins another
  process and reads `next_pid`, which the first then reads too.
* `process_retire` (violation) – a process ended by RLIMIT_CPU never passes
  through `process_ended`, so its children stay fatherless.

**Bounds.** Four slots are idle, `kernel_main` and two more: a parent and a
child; five give a grandchild, or two racing creators and the slots they fill.
`PidLimit` 5 or 6 bounds the processes created in a run and lets the counter
reach its end; `StackBlocks` 3 or 4 lets `kmalloc` fail; an exit log of 1 or 2
overflows. Everybody is root where `Users` is empty; the run with a user has
`MaxPerUser` 2, which the shell and its program already reach. The fair run keeps
to four slots, five being too many states for it: a parent has one child at a
time there, so it does not show a parent in `wait4` whose child's record is pushed
out of the log by another's. In `process_syscalls` and `process_ring0` creators
have interrupts off; what a ring 0 creator, or a ring 0 kill, breaks is in the
notes of the hazards.

**Fairness.** Weak for code under way (`KernelStep`, `YieldAway`): the CPU goes
on. Strong for `Tick`: the PIC keeps a tick latched while interrupts are off.
Strong for picking each process that is runnable again and again: this is what
aging gives, and holds only where no real-time process runs. `AgingBound` of
`Priority` shows it for normal processes, `priority_periodic` shows that a
real-time loop breaks it.

## 5. Module Priority

`priority.c`, `policy.c`, `power.c`, aging, `priority_bounds`, and the callers
that change nice and policy.

**State.** `kind` (policy, real-time priority, nice), `slice_left`,
`waited_ticks` per slot, the throttle clock (`rt_period_ticks`, `rt_used_ticks`,
`rt_throttled`), the power profile; `rt_ran` and `starved` are histories.

**Actions.** `Tick` is `wake_sleepers` and the whole of `priority_tick`: count
real-time use, throttle, count the slice, compare with the best candidate, age
the waiting ones, switch. `SchedYield`, `Sleep`, `SetNice`, `SetNiceOfUser`,
`SetPolicy`, `SetAttr` and `SetProfile` are the calls. `Choose` is the loop of
`choose()`, `Rank` is `rank_of`, `Aged` the defence.

**Runs.**
* `priority` – a behaviour begins by choosing a world (`Worlds`): normal and
  batch processes under both power profiles, or FIFO, RR, SCHED_IDLE and
  SCHED_BATCH programs (524,420 states). `TypeOK`; `ChoiceIsBest` (the loop
  against its definition: best rank, first in turn order); `AgingBound` (where all
  are normal nobody waits longer than the climb to the top level and one turn of
  everybody else); `RtBudget`; `FifoKeepsCpu`; `BetterTakesOver`. Rule 4 of
  `priority.h`, "if a better process becomes READY, it takes the CPU at once", does
  not hold literally: `turn_over` looks only at the winner of `choose()`, and if
  that is a SCHED_BATCH process, which never preempts, it hides the better ones
  below it as well. `BetterTakesOver` says that this is the only exception and that
  it never hides a real-time process.
* `priority_two_fifo` (violation) – two FIFO loops take the "last 5%" as well.
* `priority_periodic` (violation, fair) – a FIFO process and a loop at the top
  level together keep `kernel_main` off the CPU for ever.
* `priority_ring0` (violation) – `RtBudget` with a FIFO process in ring 0, as
  `chrt` makes one of a shell command: a sleep that ends before its yield leaves it
  READY and current, and from then on no tick is charged to it.

**Bounds.** Levels 1–3 instead of 1–7, one level per tick of waiting, turns of
1 or 2 ticks, a second of 2 or 4 ticks with 50% for real-time (95% of 4 ticks
would be all of it). Every relation the code tests (a slice ending, a budget
used up, a tie after aging, a second beginning in mid-turn) happens many times.
In the normal world `WaitCap` is above `WaitBound`, so `AgingBound` is not cut off
by it. `kernel_main` runs with interrupts on (`Ring0`): its sleep can end before it
has yielded. The real-time processes are ring 3 programs, except in
`priority_ring0`.

**Fairness.** `FairSpec`: the timer never stops, and a process that marked itself
asleep reaches its yield.

## 6. Module Tcp

`tcp.c`, `tcp_timer.c`, `sock_tcp.c`, the drain loop of `netdev.c`, and the
defences in the path of a segment (`seq_window_check`, `rst_window_check`,
`rfc1337`, `syn_cookies`, `conn_quota`, `persist_timeout`).

**State.** `conns` is the table of `tcp_conn_t`; `wire` is a set of segments
between two machines, `backlog` and `draining` are those of `netdev.c`. Both ends
run the same code, so one table holds the slots of both hosts (`Home`). A byte is
the pair of its stream (the ISN of the sender) and its position: a property can
tell where it came from. `written` and `arrived` are histories.

**Atomicity.** System calls (`netdev_lock`), the card's interrupt and the tick run
with interrupts off and are atomic on a wire. On lo they are not: sending is
receiving, so a send returns after the answer, the answer to the answer and so on
were handled. `todo` is what the running code has still to do, `outer` what the
call that waits for `drain` has still to do; `OutputData`/`OutputEnd` (one turn
of the loop of `tcp_output`), `ConnectArm`, `FreeAborted`, `CloseChildren` and
`CloseChild` are the code after a send.

**Actions.** `Bind`, `Listen`, `Connect`, `Accept`, `Send`, `Recv`, `Shutdown`,
`Close` are the calls of a stream socket. `Arrive` is `tcp_receive`: `Refuse`,
`ListenArrives` (`NewChild`, `CookieChild`), `SynSentArrives`, `SegmentArrives`.
`Clock(s)` is the work of `tcp_tick` for one slot, `Elapse` the end of the time
over which challenge ACKs are counted, `IcmpError` is `tcp_icmp_error`, `Lose` the
network.

**Abstractions.** Time is a choice: a clock that is armed may strike. So rounds
are not measured. One Mss for all. A cookie is a number no other ISN gives. The
answer `scan_detect` suppresses is a lost segment. A socket whose connection has
ended is not made to listen. It may connect again, and `Connect` then keeps the
old buffers, flags, retries and probes as `tcp_connect` does; the worlds of the runs have no ISN
left for that once bytes were exchanged. With a fourth ISN `FlightFits` fails:
what `FlightFits` and `EndAfterAll` show is therefore about the first connection of
a socket.

**Runs.** A behaviour begins by choosing a world (`Worlds`), so one run covers
several scenarios:
* `tcp` – `OneByte` (a byte, one loss or repetition, one strike of a clock at any
  time), `TwoBytes` (segments that overtake or are sent again), `Crossing`
  (simultaneous open), `Cookies` (two clients, one place in the listen queue) and
  `Loop` (two programs on lo, with half-close and a failing accept): `TypeOK`,
  `StreamInOrder`, `EndAfterAll`, `AckedArrived`, `FlightFits`, `ClockRuns`,
  `PendingExact`.
* `tcp_orphans` – fair behaviours on lo, with programs that half-close and never
  read, or read and never half-close: `OrphanFreed`. Without the limit of
  `challenge_ack` two full windows answer each other for ever inside one call.
* `tcp_idle` (violation) – an idle connection over lo dies with ETIMEDOUT.

**Bounds.** Sequence numbers are modulo 32 and the first stream starts at 30, so
it wraps. Windows, segments and streams of two bytes make full, half-full and
shut windows; two segments on the wire suffice for reordering. The limits are one
retry and one probe. They are reached on lo; on a wire there is one strike of a
clock, enough for a retransmission but not to give up. `isns`, `faults` and `strikes`
bound the connections, the mishaps and, off lo, the strikes; on lo the retry
limits alone bound the clocks, as liveness needs. A world may come to its end, so
these runs do not check for deadlock.

**Fairness.** Weak for the kernel that goes on with a call, a drain or a segment.
Strong for the clock of every slot: ticks keep coming, and a connection re-arms
its clock only finitely often between two strikes because a stream is finite.
Programs owe nothing.

## 7. What is proved

The theorems hold for every table size, heap, log, quota, set of users and sleep length; the
assumptions are `ProcessAssumption`. No theorem is about liveness: TLC alone
checks `ZombieReaped` and `NoStuckWait`.

| Theorem | States | Extra hypothesis |
|---|---|---|
| `TypeCorrect` (`ProcessProofs`) | `[]TypeOK` | none |
| `SchedulerIsSound` (`ProcessProofs`) | `[]SchedulerSound` | none: it survives racing creators |
| `StacksAreSafe` (`ProcessStackProofs`) | `[]StackSafe` | ring 0 never creates with interrupts on |
| `LifeCycleHolds` (`ProcessLifeProofs`) | `LifeCycle` | nor kills |
| `PidsAreUnique` (`ProcessLifeProofs`) | `[]PidsUnique` | the same |
| `NobodyIsFatherless` (`ProcessLineageProofs`) | `[]NobodyFatherless` | no ring 0 operation but su, no retirement |

The hypotheses are not for convenience: `process_create_race` and
`process_retire` are counterexamples without them (for killing see the hazards).

**The argument.** Each invariant is strengthened by what a thread inside an
operation knows:
* `SchedInv` adds `IdleIntact` (idle has its slot, its stack and no operation
  under way) and `PointersApart` (a creator's pointer is neither itself nor idle,
  a killer's is no system slot). Without them a wipe or a kill could hit the running process.
* `StackInv` adds `BlocksOwned` (every stack is a block of the heap or the boot
  stack), `MainIntact` and `OneCreator` (at most one thread is inside
  `process_create`, and the slot it has found is FREE). It is what makes a freshly allocated
  stack different from all others.
* `LifeInv` adds `Settled`: a killer that is about to store ZOMBIE has a live
  target, since it cannot have been interrupted.
* `PidInv` adds `Counter`: the PID a creator has read is still the counter.
* `LineInv` adds `HasParent` and `Family`: the heir `new_parent_for` returns is
  alive (`HeirIsAlive` by the walk over ancestors), so re-parenting never points
  at somebody who ended.

`StepX` lemmas have one step per action; `YieldX` and `TickX` lemmas carry what
a switch and a tick do to the table.

## 8. Findings

* `process_create_race`: `process_create` picks its slot and reads `next_pid`
  without `cpu_irq_save`; "a PID never names two processes" fails for ring 0
  callers.
* `process_retire`: `rlimit_check_cpu` sets ZOMBIE without `process_ended`;
  "nobody is left fatherless" fails.
* `priority_two_fifo`: a throttled real-time process competes by its nice value
  and is not charged; "the last 5% go to the normal ones" fails.
* `priority_periodic`: the round robin restarts after whoever ran last; "Nobody
  waits forever" fails.
* `priority_ring0`: `rt_throttle_tick` charges only a RUNNING process, and a ring 0
  process can be current and READY; "real-time processes get at most 95% of each
  second" fails.
* `tcp_idle`: `tcp_connect` arms the clock after the send; on lo the handshake is
  over by then, so the clock of an established, idle connection runs until
  ETIMEDOUT, though nothing is unacknowledged.

## 9. Only model-checked

* Liveness under fairness: `ZombieReaped`, `NoStuckWait`, and the violation of
  `NobodyWaitsForever`.
* `ReportedOnce` and `QuotaKept` of `Process`.
* Everything about `Priority` and `Tcp`, `OrphanFreed` included.

## 10. Not modelled, and why

* Parts of the plan in section 3 that have no module yet; `PROJECT.json` lists
  each one as `not_modelled` with its planned module, and their hazards with a
  note.
* Screen, fonts, windows, speaker, RTC, PCI and the network card driver: what
  they do is in hardware registers and pixels.
* The attack programs and the defence lab: demonstrations, fixed tables. A
  defence that takes part in an operation is modelled with the operation.
* Shell, commands, text formatting, boot code and library string functions:
  sequential, without state that outlives a call.
