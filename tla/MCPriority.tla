----------------------------- MODULE MCPriority -----------------------------
(* Instances of Priority: the idle task, kernel_main and two processes,    *)
(* one of root and one of a user.                                          *)
EXTENDS Priority

Kind(p, rt, n) == [policy |-> p, rt |-> rt, nice |-> n]
Mid == Kind("OTHER", 0, 0)
Table(two, three) ==
  [p \in 0 .. 3 |-> IF p = 2 THEN two ELSE IF p = 3 THEN three ELSE {Mid}]

(* Normal processes that change their level and to SCHED_BATCH. *)
NormalKinds ==
  Table({Kind("OTHER", 0, 19), Kind("OTHER", 0, -20)},
        {Kind("OTHER", 0, 19), Kind("BATCH", 0, -20)})

(* Real-time processes of equal and of different priority, SCHED_IDLE and  *)
(* SCHED_BATCH.                                                            *)
RtKinds ==
  Table({Kind("FIFO", 20, 0), Kind("RR", 10, 0)},
        {Kind("FIFO", 10, -20), Kind("IDLE", 0, -20),
         Kind("BATCH", 0, -20)})

(* Two FIFO loops of different priority. *)
TwoFifoKinds == Table({Kind("FIFO", 20, -20)}, {Kind("FIFO", 10, -20)})

(* A FIFO process in slot 2 and a loop at the highest level in slot 3. *)
PeriodicKinds == Table({Kind("FIFO", 10, 0)}, {Kind("OTHER", 0, -20)})

(* A second and a slice that make the wait long, or the second. *)
NormalWorld == [kinds |-> NormalKinds, savers |-> {FALSE, TRUE}, hz |-> 2, slice |-> 1, cap |-> 7]
RtWorld     == [kinds |-> RtKinds, savers |-> {FALSE}, hz |-> 4, slice |-> 2, cap |-> 3]

BothWorlds    == {NormalWorld, RtWorld}
TwoFifoWorld  == {[RtWorld EXCEPT !.kinds = TwoFifoKinds]}
PeriodicWorld == {[RtWorld EXCEPT !.kinds = PeriodicKinds]}

Owners == [p \in 0 .. 3 |-> IF p = 3 THEN 1 ELSE 0]
=============================================================================
