-------------------------------- MODULE Tcp --------------------------------
(***************************************************************************)
(* TCP of UzOS: the connection table, the state machine and the clocks of  *)
(* core/tcp (tcp.c, tcp_timer.c), with the calls sockets make (sock_tcp.c) *)
(* and the defences that sit in the path of a segment.                     *)
(*                                                                         *)
(* Every entry (a system call under netdev_lock, the card's interrupt, the *)
(* network tick) runs with interrupts off, so it is atomic, with one       *)
(* exception the code itself points out.  On lo "sending is receiving":    *)
(* netdev_receive() drains its backlog at once unless it is draining       *)
(* already, so a segment sent by a call or by the tick is answered, and    *)
(* the answer is handled, before the send returns.  What the code that     *)
(* runs has still to do is todo; what a call has to do after the drain it  *)
(* is waiting for is outer.                                                *)
(*                                                                         *)
(* On the wire segments are lost, repeated and reordered.  Time is         *)
(* abstract: a clock that is running may strike at any moment.  A byte is  *)
(* the pair of the stream it belongs to (the ISN of its sender) and its    *)
(* position there.                                                         *)
(***************************************************************************)
EXTENDS Integers, FiniteSets, Sequences, SequencesExt

CONSTANTS
  Addrs,            \* endpoints <<host, port>>
  Home,             \* the host of every slot of a connection table
  Quota,            \* TCP_USER_MAX: connections one user may own
  Modulus,          \* 2^32: sequence numbers are counted modulo this
  Mss,              \* the largest segment both ends accept
  BufSize,          \* TCP_BUF_SIZE
  SynRetries,       \* TCP_SYN_RETRIES
  DataRetries,      \* TCP_DATA_RETRIES
  MaxProbes,        \* PERSIST_MAX_PROBES
  ChallengeAcks,    \* CHALLENGE_ACKS
  Isns,             \* bound: the ISNs that def_isn() gives, in order
  NetCap,           \* bound: segments on the wire (more: no packet buffer)
  Worlds            \* what the programs do and where the two ends are

Slots == DOMAIN Home

(* lo: both ends are on this machine.  servers listen, clients[a] are the  *)
(* endpoints a connects to, reuse is SO_REUSEADDR, bytes[a] is how much    *)
(* the programs at a write into one stream; calls are the things besides   *)
(* that may happen: a program reads, half-closes, accept() finds no free   *)
(* socket, the network reports an error.  isns, faults and strikes bound   *)
(* the connections made, the segments the wire loses or repeats and, off   *)
(* lo, the times a clock runs out.                                         *)
ASSUME TcpAssumption ==
  /\ Slots \subseteq Nat \ {0}
  /\ Modulus \in Nat /\ Modulus >= 2
  /\ {Mss, BufSize, ChallengeAcks} \subseteq Nat \ {0}
  /\ {Quota, SynRetries, DataRetries, MaxProbes, NetCap} \subseteq Nat
  /\ Isns \in Seq(0 .. Modulus - 1)
  /\ \A w \in Worlds :
       /\ w.lo \in BOOLEAN /\ w.reuse \in BOOLEAN
       /\ w.servers \subseteq Addrs
       /\ w.clients \in [Addrs -> SUBSET Addrs]
       /\ w.backlog \in Nat \ {0}
       /\ w.bytes \in [Addrs -> Nat]
       /\ w.isns \in 0 .. Len(Isns) /\ {w.faults, w.strikes} \subseteq Nat
       /\ w.calls \subseteq {"recv", "shutdown", "fail", "icmp"}

VARIABLES
  world,            \* the element of Worlds this behaviour is about
  conns,            \* conns[]
  wire,             \* segments between two machines
  backlog,          \* frames lo has queued (netdev.c)
  draining,         \* netdev.c: the backlog is being passed up
  todo,             \* what the code that runs now has still to do
  outer,            \* what the call that waits for drain() has still to do
  isn,              \* how many ISNs were given out
  faults,           \* how many segments the wire may still lose or repeat
  strikes,          \* how many times a clock may still run out
  written,          \* history: bytes written into each stream
  arrived           \* history: bytes of each stream that arrived in order

network == <<wire, backlog, draining, todo, outer>>
history == <<written, arrived>>
budget == <<isn, faults, strikes>>
vars == <<world, conns, network, budget, history>>

SeqNos == 0 .. Modulus - 1
NONE   == 0                     \* no slot, no listener
NoAddr == <<"", 0>>             \* not bound, not connected
States == {"CLOSED", "LISTEN", "SYN_SENT", "SYN_RECEIVED", "ESTABLISHED",
           "FIN_WAIT_1", "FIN_WAIT_2", "CLOSE_WAIT", "CLOSING", "LAST_ACK",
           "TIME_WAIT"}
Opening == {"SYN_SENT", "SYN_RECEIVED"}
Errors  == {"OK", "ECONNREFUSED", "ECONNRESET", "ETIMEDOUT", "EHOSTUNREACH"}

(* A slot after memset(0). *)
Blank ==
  [used |-> FALSE, state |-> "CLOSED", sock |-> FALSE, local |-> NoAddr, remote |-> NoAddr,
   iss |-> 0, snd_una |-> 0, snd_nxt |-> 0, snd_wnd |-> 0, sndbuf |-> <<>>,
   fin_wanted |-> FALSE, fin_sent |-> FALSE,
   irs |-> 0, rcv_nxt |-> 0, rcvbuf |-> <<>>, taken |-> 0, fin_received |-> FALSE,
   rtx |-> FALSE, retries |-> 0, probes |-> 0, challenges |-> 0,
   listener |-> NONE, pending |-> 0, error |-> "OK"]

SlotsOf(a) == {s \in Slots : world.lo \/ Home[s] = a[1]}
Used(s)    == conns[s].used

-----------------------------------------------------------------------------
(* Sequence numbers: uint32_t arithmetic, compared by signed difference.   *)

Plus(x, n)  == (x + n) % Modulus
Minus(x, y) == (x - y) % Modulus
Diff(x, y)  == LET d == Minus(x, y) IN IF 2 * d >= Modulus THEN d - Modulus ELSE d
SEQ_LT(x, y)  == Diff(x, y) < 0
SEQ_LEQ(x, y) == Diff(x, y) <= 0
SEQ_GT(x, y)  == Diff(x, y) > 0
SEQ_GEQ(x, y) == Diff(x, y) >= 0

Min2(x, y) == IF x < y THEN x ELSE y

(* def_syn_cookie_make: a keyed hash of the addresses and the client's ISN *)
(* that no other ISN gives.                                                *)
Cookie(seq) == Plus(seq, Modulus \div 2)
IsCookie(ack, seq) == Minus(seq, 1) \in Range(Isns) /\ Minus(ack, 1) = Cookie(Minus(seq, 1))

(* A stream is named by the ISN of its sender. *)
Streams == Range(Isns) \cup {Cookie(n) : n \in Range(Isns)}

InWindow(seq, seglen, rcv_nxt, wnd) ==
  LET first == Diff(seq, rcv_nxt)
      last  == Diff(Plus(seq, seglen - 1), rcv_nxt)
      Fits(d) == d >= 0 /\ d < wnd
  IN  IF seglen = 0
      THEN IF wnd = 0 THEN seq = rcv_nxt ELSE Fits(first)
      ELSE wnd # 0 /\ (Fits(first) \/ Fits(last))

Flight(r) == Minus(r.snd_nxt, r.snd_una)
(* Mutant of Window: a full ring still announces one byte. *)
WindowNeverShut(r) == BufSize + 1 - Len(r.rcvbuf)
Window(r) == BufSize - Len(r.rcvbuf)

-----------------------------------------------------------------------------
(* Sending.  A segment that finds no packet buffer is lost.                *)

Segment(r, flags, seq, data) ==
  [src |-> r.local, dst |-> r.remote, flags |-> flags, seq |-> seq,
   ack |-> IF "ACK" \in flags THEN r.rcv_nxt ELSE 0, wnd |-> Window(r), data |-> data]

Ack(r) == <<Segment(r, {"ACK"}, r.snd_nxt, <<>>)>>
Abort(r) == <<Segment(r, {"RST", "ACK"}, r.snd_nxt, <<>>)>>

(* The answers that belong to no connection. *)
Bare(m, flags, seq, ack, wnd) ==
  <<[src |-> m.dst, dst |-> m.src, flags |-> flags, seq |-> seq, ack |-> ack,
     wnd |-> wnd, data |-> <<>>]>>

SegLen(m) == Len(m.data) + Cardinality(m.flags \cap {"SYN", "FIN"})

(* refuse; the silence of scan_detect is a loss like any other. *)
Refusal(m) ==
  IF "RST" \in m.flags THEN <<>>
  ELSE IF "ACK" \in m.flags THEN Bare(m, {"RST"}, m.ack, 0, 0)
  ELSE Bare(m, {"RST", "ACK"}, 0, Plus(m.seq, SegLen(m)), 0)

(* The end of an atomic stretch of code: the table becomes table, out (at  *)
(* most one segment) is sent, rest is still to be done.  w and q are the   *)
(* wire and the backlog without the segment being handled.                 *)
Do(w, q, table, out, rest) ==
  /\ conns' = table
  /\ wire' = IF world.lo \/ Cardinality(w \cup Range(out)) > NetCap THEN w
             ELSE w \cup Range(out)
  /\ backlog' = IF world.lo THEN q \o out ELSE q
  /\ IF world.lo /\ ~draining /\ out # <<>>
     THEN draining' = TRUE /\ todo' = <<>> /\ outer' = rest
     ELSE todo' = rest /\ UNCHANGED <<draining, outer>>

Idle == todo = <<>> /\ ~draining

Call(table, out, rest) == Idle /\ Do(wire, backlog, table, out, rest)

-----------------------------------------------------------------------------
(* Connections.                                                            *)

With(s, r) == [conns EXCEPT ![s] = r]

FreedKeepsPending(table, s) == [table EXCEPT ![s] = Blank]
Freed(table, s) ==
  LET l == table[s].listener
  IN  [i \in Slots |-> IF i = s THEN Blank
                       ELSE IF i = l THEN [table[i] EXCEPT !.pending = @ - 1]
                       ELSE table[i]]

Finished(table, s, error) ==
  IF table[s].sock
  THEN [table EXCEPT ![s] = [@ EXCEPT !.state = "CLOSED", !.error = error, !.rtx = FALSE]]
  ELSE Freed(table, s)

(* tcp_new with the quota of conn_quota: a free slot, or nothing. *)
NewSlot(a) ==
  LET free  == {s \in SlotsOf(a) : ~Used(s)}
      owned == Cardinality(SlotsOf(a) \ free)
  IN  IF free = {} \/ owned >= Quota THEN {} ELSE {CHOOSE s \in free : \A i \in free : s <= i}

Armed(r) == [r EXCEPT !.rtx = TRUE]

(* tcp_output looks at the state once, then sends while it can; on lo the  *)
(* connection may have changed since the last segment.  Output(r, s) is    *)
(* what the call has to do for the connection r in slot s.                 *)
CanOutput(r) == r.state \in {"ESTABLISHED", "CLOSE_WAIT", "FIN_WAIT_1", "LAST_ACK", "CLOSING"}

Unsent(r) == Minus(Len(r.sndbuf), Flight(r))
Room(r)   == IF r.snd_wnd > Flight(r) THEN r.snd_wnd - Flight(r) ELSE 0

Output(r, s) == IF CanOutput(r) /\ ~r.fin_sent /\ (Unsent(r) # 0 \/ r.fin_wanted)
                THEN <<"more", s>> ELSE <<>>

PortConflict(a) ==
  \E s \in SlotsOf(a) : /\ Used(s) /\ conns[s].local = a
                        /\ ~(world.reuse /\ conns[s].state \notin {"LISTEN", "CLOSED"})

(* socket() and bind(): conn_of and tcp_bind. *)
Bind(a) ==
  /\ a \in world.servers \/ world.clients[a] # {}
  /\ isn < world.isns /\ ~PortConflict(a)
  /\ \E s \in NewSlot(a) :
       Call(With(s, [Blank EXCEPT !.used = TRUE, !.sock = TRUE, !.local = a]), <<>>, <<>>)
  /\ UNCHANGED <<world, budget, history>>

(* A program listens on a fresh socket. *)
Listen(s) ==
  /\ conns[s].sock /\ conns[s].state = "CLOSED" /\ conns[s].local \in world.servers
  /\ conns[s].remote = NoAddr
  /\ Call(With(s, [conns[s] EXCEPT !.state = "LISTEN"]), <<>>, <<>>)
  /\ UNCHANGED <<world, budget, history>>

(* tcp_connect: nothing but these fields is set anew. *)
Connect(s) ==
  /\ conns[s].sock /\ conns[s].state = "CLOSED" /\ isn < world.isns
  /\ \E b \in world.clients[conns[s].local] :
       LET r == [conns[s] EXCEPT !.state = "SYN_SENT", !.remote = b,
                                 !.iss = Isns[isn + 1], !.snd_una = Isns[isn + 1],
                                 !.snd_nxt = Plus(Isns[isn + 1], 1)]
       IN  Call(With(s, r), <<Segment(r, {"SYN"}, r.iss, <<>>)>>, <<"arm", s>>)
  /\ isn' = isn + 1
  /\ UNCHANGED <<world, faults, strikes, history>>

(* tcp_close of a connection that is up: bytes nobody read make it a RST.  *)
Leave(table, s) ==
  LET r == [table[s] EXCEPT !.fin_wanted = TRUE] IN
  IF r.rcvbuf # <<>> THEN Call(table, Abort(r), <<"free", s>>)
  ELSE Call([table EXCEPT ![s] = r], <<>>, Output(r, s))

(* tcp_accept and the rest of tcp_sock_accept; no socket left: the child   *)
(* is closed again.                                                        *)
Ready(l) == {s \in Slots : /\ conns[s].listener = l /\ Used(s)
                           /\ conns[s].state \in {"ESTABLISHED", "CLOSE_WAIT"}}

Accept(l) ==
  /\ conns[l].sock /\ conns[l].state = "LISTEN" /\ Ready(l) # {}
  /\ \E s \in Ready(l) :
       /\ \A i \in Ready(l) : s <= i
       /\ LET table == [conns EXCEPT ![l].pending = @ - 1, ![s].listener = NONE]
          IN  \/ Call([table EXCEPT ![s].sock = TRUE], <<>>, <<>>)
              \/ /\ "fail" \in world.calls
                 /\ Leave(table, s)
  /\ UNCHANGED <<world, budget, history>>

Open(s) == conns[s].state \in {"ESTABLISHED", "CLOSE_WAIT"}

(* tcp_send: as much as the buffer takes, then tcp_output. *)
Send(s) ==
  LET r == conns[s] IN
  /\ r.sock /\ Open(s) /\ ~r.fin_wanted
  /\ \E n \in 1 .. Min2(BufSize - Len(r.sndbuf), world.bytes[r.local] - written[r.iss]) :
       /\ LET t == [r EXCEPT !.sndbuf = @ \o [i \in 1 .. n |-> <<r.iss, written[r.iss] + i>>]]
          IN  Call(With(s, t), <<>>, Output(t, s))
       /\ written' = [written EXCEPT ![r.iss] = @ + n]
  /\ UNCHANGED <<world, budget, arrived>>

(* tcp_recv: bytes leave the ring; a window that was almost shut and is    *)
(* open again is announced.                                                *)
Recv(s) ==
  LET r == conns[s] IN
  /\ "recv" \in world.calls /\ r.sock
  /\ \E n \in 1 .. Len(r.rcvbuf) :
       LET t == [r EXCEPT !.rcvbuf = SubSeq(@, n + 1, Len(@)), !.taken = @ + n]
           announce == /\ Window(r) < Mss /\ Window(t) >= Mss
                       /\ r.state \in {"ESTABLISHED", "FIN_WAIT_1", "FIN_WAIT_2"}
       IN  Call(With(s, t), IF announce THEN Ack(t) ELSE <<>>, <<>>)
  /\ UNCHANGED <<world, budget, history>>

Shutdown(s) ==
  LET r == [conns[s] EXCEPT !.fin_wanted = TRUE] IN
  /\ "shutdown" \in world.calls /\ r.sock /\ Open(s)
  /\ Call(With(s, r), <<>>, Output(r, s))
  /\ UNCHANGED <<world, budget, history>>

(* tcp_close. *)
Close(s) ==
  LET r == [conns[s] EXCEPT !.sock = FALSE] IN
  /\ conns[s].sock
  /\ \/ /\ r.state = "LISTEN"
        /\ Call(With(s, r), <<>>, <<"abort", s, 1>>)
     \/ /\ r.state \in {"CLOSED", "SYN_SENT"}
        /\ Call(Freed(conns, s), <<>>, <<>>)
     \/ /\ Open(s) \/ r.state = "SYN_RECEIVED"
        /\ Leave(With(s, r), s)
     \/ /\ r.state \in {"FIN_WAIT_1", "FIN_WAIT_2", "CLOSING", "LAST_ACK", "TIME_WAIT"}
        /\ Call(With(s, r), <<>>, <<>>)
  /\ UNCHANGED <<world, budget, history>>

-----------------------------------------------------------------------------
(* What is left of a call or a handler.                                    *)

Continue(op, table, out, rest) ==
  /\ todo # <<>> /\ todo[1] = op
  /\ Do(wire, backlog, table, out, rest)
  /\ UNCHANGED <<world, budget, history>>

(* One turn of the loop: a segment of new data. *)
OutputData ==
  \E s \in Slots :
    LET r == conns[s]
        n == Min2(Min2(Unsent(r), Room(r)), Mss)
        t == Armed([r EXCEPT !.snd_nxt = Plus(@, n)])
    IN  /\ todo = <<"more", s>>
        /\ ~r.fin_sent /\ Unsent(r) # 0 /\ Room(r) # 0
        /\ Continue("more", With(s, t),
                    <<Segment(t, {"ACK"}, r.snd_nxt, SubSeq(r.sndbuf, Flight(r) + 1, Flight(r) + n))>>,
                    <<"more", s>>)

(* The loop ends: the window is shut (the clock will probe it), or the FIN *)
(* goes out, or there is nothing to do.                                    *)
OutputEnd ==
  \E s \in Slots :
    LET r == conns[s]
        t == Armed([r EXCEPT !.snd_nxt = Plus(@, 1), !.fin_sent = TRUE,
                             !.state = CASE @ = "ESTABLISHED" -> "FIN_WAIT_1"
                                         [] @ = "CLOSE_WAIT"  -> "LAST_ACK"
                                         [] OTHER -> @])
    IN  /\ todo = <<"more", s>>
        /\ \/ /\ ~r.fin_sent /\ Unsent(r) # 0 /\ Room(r) = 0
              /\ Continue("more", With(s, Armed(r)), <<>>, <<>>)
           \/ /\ ~r.fin_sent /\ Unsent(r) = 0 /\ r.fin_wanted
              /\ Continue("more", With(s, t), <<Segment(t, {"FIN", "ACK"}, r.snd_nxt, <<>>)>>, <<>>)
           \/ /\ r.fin_sent \/ (Unsent(r) = 0 /\ ~r.fin_wanted)
              /\ Continue("more", conns, <<>>, <<>>)

(* arm_timer at the end of tcp_connect. *)
ConnectArm ==
  \E s \in Slots : todo = <<"arm", s>> /\ Continue("arm", With(s, Armed(conns[s])), <<>>, <<>>)

(* tcp_close after its RST. *)
FreeAborted ==
  \E s \in Slots : todo = <<"free", s>> /\ Continue("free", Freed(conns, s), <<>>, <<>>)

(* tcp_close of a listener: a walk over the table, a RST for every child,  *)
(* which is then free; then the listener itself.                           *)
CloseChildren ==
  \E l \in Slots :
    LET children == {s \in Slots : s >= todo[3] /\ Used(s) /\ conns[s].listener = l} IN
    /\ Len(todo) = 3 /\ todo[1] = "abort" /\ todo[2] = l
    /\ IF children = {}
       THEN Continue("abort", Freed(conns, l), <<>>, <<>>)
       ELSE \E s \in children :
              /\ \A i \in children : s <= i
              /\ Continue("abort", conns, Abort(conns[s]), <<"child", s, l>>)

CloseChild ==
  \E s, l \in Slots :
    /\ todo = <<"child", s, l>>
    /\ Continue("child", With(s, Blank), <<>>, <<"abort", l, s + 1>>)

Resume == \/ OutputData \/ OutputEnd \/ ConnectArm
          \/ FreeAborted \/ CloseChildren \/ CloseChild

-----------------------------------------------------------------------------
(* Receiving.                                                              *)

(* A segment that arrives: from the wire it may come again later. *)
Took(m, table, out, rest) ==
  \/ /\ ~world.lo /\ Idle
     /\ \/ faults' = faults /\ Do(wire \ {m}, backlog, table, out, rest)
        \/ faults > 0 /\ faults' = faults - 1 /\ Do(wire, backlog, table, out, rest)
  \/ /\ world.lo /\ draining /\ todo = <<>>
     /\ faults' = faults /\ Do(wire, Tail(backlog), table, out, rest)

Arriving == IF world.lo THEN {m \in Range(backlog) : m = Head(backlog)} ELSE wire

(* lookup: the exact connection beats the listener. *)
Exact(m) == {s \in SlotsOf(m.dst) : /\ Used(s) /\ conns[s].local = m.dst /\ conns[s].remote = m.src
                                    /\ conns[s].state \notin {"LISTEN", "CLOSED"}}
Listeners(m) == {s \in SlotsOf(m.dst) : Used(s) /\ conns[s].local = m.dst /\ conns[s].state = "LISTEN"}
Lookup(m) == IF Exact(m) # {} THEN CHOOSE s \in Exact(m) : \A i \in Exact(m) : s <= i
             ELSE IF Listeners(m) # {} THEN CHOOSE s \in Listeners(m) : \A i \in Listeners(m) : s >= i
             ELSE NONE

Refuse(m) ==
  /\ Lookup(m) = NONE
  /\ Took(m, conns, Refusal(m), <<>>)
  /\ UNCHANGED <<isn, history>>

ChallengeAlways(m, s) ==
  Took(m, conns, Ack(conns[s]), <<>>) /\ UNCHANGED <<isn, history>>
(* challenge_ack: at most ChallengeAcks until the time is over (Elapse). *)
Challenge(m, s) ==
  LET r == conns[s] IN
  /\ Took(m, With(s, [r EXCEPT !.challenges = Min2(@ + 1, ChallengeAcks)]),
          IF r.challenges < ChallengeAcks THEN Ack(r) ELSE <<>>, <<>>)
  /\ UNCHANGED <<isn, history>>

Ignore(m) == Took(m, conns, <<>>, <<>>) /\ UNCHANGED <<isn, history>>

(* take_ack on the connection r (LAST_ACK's end is in Synchronized). *)
IsNewAck(r, m) == SEQ_GT(m.ack, r.snd_una) /\ SEQ_LEQ(m.ack, r.snd_nxt)
FinAckedByData(r, m) == IsNewAck(r, m) /\ r.fin_sent
FinAcked(r, m) == IsNewAck(r, m) /\ r.fin_sent /\ m.ack = r.snd_nxt

StillUnackedNever(r, m) == FALSE
StillUnacked(r, m) == m.ack # r.snd_nxt

TakeAck(r, m) ==
  LET acked == Minus(m.ack, r.snd_una) - (IF FinAcked(r, m) THEN 1 ELSE 0)
      data  == Min2(acked, Len(r.sndbuf))
      t == IF ~IsNewAck(r, m) THEN r
           ELSE [r EXCEPT !.sndbuf = SubSeq(@, data + 1, Len(@)), !.snd_una = m.ack,
                          !.retries = 0, !.rtx = StillUnacked(r, m),
                          !.state = IF ~FinAcked(r, m) THEN @
                                    ELSE CASE @ = "FIN_WAIT_1" -> "FIN_WAIT_2"
                                           [] @ = "CLOSING" -> "TIME_WAIT"
                                           [] OTHER -> @]
  IN  IF SEQ_GEQ(m.ack, t.snd_una)
      THEN [t EXCEPT !.snd_wnd = m.wnd, !.probes = IF m.wnd # 0 THEN 0 ELSE @]
      ELSE t

TakeDataAgain(r, m) ==
  LET n == IF SEQ_LEQ(m.seq, r.rcv_nxt) THEN Min2(Len(m.data), Window(r)) ELSE 0
  IN  [conn  |-> [r EXCEPT !.rcvbuf = @ \o SubSeq(m.data, 1, n), !.rcv_nxt = Plus(@, n)],
       whole |-> SEQ_LEQ(m.seq, r.rcv_nxt)]
(* take_data: what is in order and fits.  whole: the end was reached. *)
TakeData(r, m) ==
  LET old  == IF SEQ_LT(m.seq, r.rcv_nxt) THEN Minus(r.rcv_nxt, m.seq) ELSE 0
      left == Len(m.data) - old
      n    == IF left > 0 /\ SEQ_LEQ(m.seq, r.rcv_nxt) THEN Min2(left, Window(r)) ELSE 0
  IN  [conn  |-> [r EXCEPT !.rcvbuf = @ \o SubSeq(m.data, old + 1, old + n),
                           !.rcv_nxt = Plus(@, n)],
       whole |-> SEQ_LEQ(m.seq, r.rcv_nxt) /\ n = left]

TakesData(r, m) == m.data # <<>> /\ r.state \in {"ESTABLISHED", "FIN_WAIT_1", "FIN_WAIT_2"}

TakeFin(r) ==
  [r EXCEPT !.rcv_nxt = Plus(@, 1), !.fin_received = TRUE,
            !.state = CASE @ = "ESTABLISHED" -> "CLOSE_WAIT"
                        [] @ = "FIN_WAIT_1"  -> "CLOSING"
                        [] @ = "FIN_WAIT_2"  -> "TIME_WAIT"
                        [] OTHER -> @]

TakesFinEarly(r, d, m) == "FIN" \in m.flags /\ d.whole /\ ~r.fin_received
TakesFin(r, d, m) ==
  /\ "FIN" \in m.flags /\ d.whole /\ ~r.fin_received
  /\ Plus(m.seq, Len(m.data)) = d.conn.rcv_nxt

(* The second half of segment(), from take_ack on: an acceptable segment   *)
(* for the connection in slot s of table.                                  *)
Synchronized(table, s, m) ==
  \E r \in {TakeAck(table[s], m)} :
  \E d \in {IF TakesData(r, m) THEN TakeData(r, m) ELSE [conn |-> r, whole |-> TRUE]} :
  \E t \in {IF TakesFin(r, d, m) THEN TakeFin(d.conn) ELSE d.conn} :
  LET fin == TakesFin(r, d, m)
      orphan == /\ m.data # <<>> /\ ~r.sock /\ r.listener = NONE
                /\ r.state \notin {"ESTABLISHED", "CLOSE_WAIT"}
      After(x) == [table EXCEPT ![s] = x]
  IN  \/ /\ r.state = "LAST_ACK" /\ FinAcked(table[s], m)
         /\ Took(m, Finished(After(r), s, "OK"), <<>>, <<>>)
         /\ UNCHANGED history
      \/ /\ ~(r.state = "LAST_ACK" /\ FinAcked(table[s], m)) /\ orphan
         /\ Took(m, Freed(table, s), Abort(r), <<>>)
         /\ UNCHANGED history
      \/ /\ ~(r.state = "LAST_ACK" /\ FinAcked(table[s], m)) /\ ~orphan
         /\ Took(m, After(t), IF fin \/ TakesData(r, m) THEN Ack(t) ELSE <<>>, Output(t, s))
         /\ arrived' = [arrived EXCEPT ![t.irs] = IF t.taken + Len(t.rcvbuf) > @
                                                  THEN t.taken + Len(t.rcvbuf) ELSE @]
         /\ UNCHANGED written

(* segment(): a segment for a connection after the handshake. *)
Usable(r, m) == InWindow(m.seq, SegLen(m), r.rcv_nxt, Window(r))

SegmentReset(s, m) ==
  LET r == conns[s] IN
  IF r.state = "TIME_WAIT" THEN Ignore(m)
  ELSE IF m.seq # r.rcv_nxt THEN Challenge(m, s)
  ELSE /\ Took(m, IF r.state = "SYN_RECEIVED" /\ r.listener # NONE THEN Freed(conns, s)
                  ELSE Finished(conns, s, IF r.state = "SYN_RECEIVED" THEN "ECONNREFUSED"
                                          ELSE "ECONNRESET"), <<>>, <<>>)
       /\ UNCHANGED <<isn, history>>

SegmentAck(s, m) ==
  LET r == conns[s] IN
  \/ /\ r.state = "SYN_RECEIVED" /\ m.ack # Plus(r.iss, 1)
     /\ Took(m, conns, Bare(m, {"RST"}, m.ack, 0, 0), <<>>)
     /\ UNCHANGED <<isn, history>>
  \/ /\ r.state = "SYN_RECEIVED" /\ m.ack = Plus(r.iss, 1)
     /\ Synchronized(With(s, [r EXCEPT !.snd_una = m.ack, !.rtx = FALSE, !.retries = 0,
                                       !.state = "ESTABLISHED"]), s, m)
     /\ UNCHANGED isn
  \/ /\ r.state # "SYN_RECEIVED"
     /\ Synchronized(conns, s, m)
     /\ UNCHANGED isn

SegmentArrives(m) ==
  LET s == Lookup(m) IN
  /\ s # NONE /\ conns[s].state \notin {"LISTEN", "SYN_SENT"}
  /\ IF ~Usable(conns[s], m) THEN IF "RST" \in m.flags THEN Ignore(m) ELSE Challenge(m, s)
     ELSE IF "RST" \in m.flags THEN SegmentReset(s, m)
     ELSE IF "SYN" \in m.flags THEN Challenge(m, s)
     ELSE IF "ACK" \notin m.flags THEN Ignore(m)
     ELSE SegmentAck(s, m)

(* syn_sent: the answer to our SYN, or a SYN that crossed it. *)
SynSentArrives(m) ==
  LET s == Lookup(m)
      r == conns[s]
      acks   == "ACK" \in m.flags
      ack_ok == acks /\ m.ack = Plus(r.iss, 1)
      met == [r EXCEPT !.irs = m.seq, !.rcv_nxt = Plus(m.seq, 1), !.snd_wnd = m.wnd]
      up  == [met EXCEPT !.snd_una = m.ack, !.rtx = FALSE, !.retries = 0, !.state = "ESTABLISHED"]
      both == [met EXCEPT !.state = "SYN_RECEIVED"]
  IN  /\ s # NONE /\ r.state = "SYN_SENT"
      /\ \/ /\ acks /\ ~ack_ok
            /\ Took(m, conns, IF "RST" \in m.flags THEN <<>> ELSE Bare(m, {"RST"}, m.ack, 0, 0), <<>>)
         \/ /\ acks => ack_ok
            /\ "RST" \in m.flags
            /\ Took(m, IF ack_ok THEN Finished(conns, s, "ECONNREFUSED") ELSE conns, <<>>, <<>>)
         \/ /\ ack_ok /\ m.flags \cap {"RST", "SYN"} = {}
            /\ Took(m, conns, <<>>, <<>>)
         \/ /\ ack_ok /\ "SYN" \in m.flags
            /\ Took(m, With(s, up), Ack(up), <<>>)
         \/ /\ m.flags = {"SYN"}
            /\ Took(m, With(s, both), <<Segment(both, {"SYN", "ACK"}, r.iss, <<>>)>>, <<>>)
      /\ UNCHANGED <<isn, history>>

-----------------------------------------------------------------------------
(* A listener.                                                             *)

Child(l, m, iss, irs) ==
  [Blank EXCEPT !.used = TRUE, !.local = m.dst, !.remote = m.src, !.listener = l,
                !.irs = irs, !.rcv_nxt = Plus(irs, 1), !.iss = iss, !.snd_una = iss,
                !.snd_nxt = Plus(iss, 1), !.snd_wnd = m.wnd, !.state = "SYN_RECEIVED"]

Adopted(l, s, r) == [conns EXCEPT ![s] = r, ![l].pending = @ + 1]

(* new_child: a SYN; a full queue answers with a cookie and remembers      *)
(* nothing, a full table drops it.                                         *)
NewChild(l, m) ==
  \/ /\ conns[l].pending >= world.backlog
     /\ Took(m, conns, Bare(m, {"SYN", "ACK"}, Cookie(m.seq), Plus(m.seq, 1), BufSize), <<>>)
     /\ UNCHANGED <<isn, history>>
  \/ /\ conns[l].pending < world.backlog /\ NewSlot(m.dst) = {}
     /\ Ignore(m)
  \/ /\ conns[l].pending < world.backlog /\ isn < world.isns
     /\ \E s \in NewSlot(m.dst) :
          LET r == Child(l, m, Isns[isn + 1], m.seq) IN
          Took(m, Adopted(l, s, Armed(r)), <<Segment(r, {"SYN", "ACK"}, r.iss, <<>>)>>, <<>>)
     /\ isn' = isn + 1
     /\ UNCHANGED history

(* cookie_child: an ACK to a listener.  A cookie of ours, not too old and  *)
(* with a slot for it, is a connection at once; anything else is refused.  *)
CookieChild(l, m) ==
  \/ /\ Took(m, conns, Refusal(m), <<>>)
     /\ UNCHANGED <<isn, history>>
  \/ /\ IsCookie(m.ack, m.seq)
     /\ \E s \in NewSlot(m.dst) :
          LET r == [Child(l, m, Minus(m.ack, 1), Minus(m.seq, 1)) EXCEPT
                      !.snd_una = m.ack, !.state = "ESTABLISHED"]
          IN  IF m.data # <<>> \/ "FIN" \in m.flags
              THEN Synchronized(Adopted(l, s, r), s, m)
              ELSE Took(m, Adopted(l, s, r), <<>>, <<>>) /\ UNCHANGED history
     /\ UNCHANGED isn

ListenArrives(m) ==
  LET l == Lookup(m) IN
  /\ l # NONE /\ conns[l].state = "LISTEN"
  /\ IF "RST" \in m.flags THEN Ignore(m)
     ELSE IF "ACK" \in m.flags THEN CookieChild(l, m)
     ELSE "SYN" \in m.flags /\ NewChild(l, m)

-----------------------------------------------------------------------------
(* tcp_tick: the clocks, each of which may have run out.                   *)

GivesUp(r) == r.retries > IF r.state \in Opening THEN SynRetries ELSE DataRetries

GoBackAfterFin(r) == [r EXCEPT !.snd_nxt = r.snd_una]
GoBack(r) == [r EXCEPT !.snd_nxt = r.snd_una, !.fin_sent = FALSE]

(* retransmit: one more try, or the end.  The counters of tries keep their *)
(* value when it is the end.                                               *)
Retransmit(s) ==
  LET r == [conns[s] EXCEPT !.retries = @ + 1]
      probing == r.snd_una = r.snd_nxt /\ r.sndbuf # <<>> /\ r.snd_wnd = 0
      probe == [r EXCEPT !.probes = @ + 1]
      back  == GoBack(r)
  IN  IF GivesUp(r) THEN Call(Finished(With(s, r), s, "ETIMEDOUT"), <<>>, <<>>)
      ELSE CASE r.state = "SYN_SENT" ->
                  Call(With(s, r), <<Segment(r, {"SYN"}, r.iss, <<>>)>>, <<>>)
             [] r.state = "SYN_RECEIVED" ->
                  Call(With(s, r), <<Segment(r, {"SYN", "ACK"}, r.iss, <<>>)>>, <<>>)
             [] r.state \notin Opening /\ probing ->
                  IF probe.probes > MaxProbes
                  THEN Call(Finished(With(s, probe), s, "ETIMEDOUT"), <<>>, <<>>)
                  ELSE Call(With(s, probe), <<Segment(r, {"ACK"}, r.snd_nxt, SubSeq(r.sndbuf, 1, 1))>>, <<>>)
             [] r.state \notin Opening /\ ~probing ->
                  Call(With(s, back), <<>>, Output(back, s))

Clock(s) ==
  LET r == conns[s] IN
  /\ r.used
  /\ \/ /\ r.state = "TIME_WAIT"
        /\ Call(Finished(conns, s, "OK"), <<>>, <<>>)
     \/ /\ r.state = "FIN_WAIT_2" /\ ~r.sock
        /\ Call(Freed(conns, s), <<>>, <<>>)
     \/ /\ r.rtx
        /\ Retransmit(s)
  /\ \/ world.lo /\ strikes' = strikes
     \/ strikes > 0 /\ strikes' = strikes - 1
  /\ UNCHANGED <<world, isn, faults, history>>

(* NET_TICK_MS have passed since challenge_since. *)
Elapse(s) ==
  /\ conns[s].challenges > 0
  /\ Call(With(s, [conns[s] EXCEPT !.challenges = 0]), <<>>, <<>>)
  /\ UNCHANGED <<world, budget, history>>

(* tcp_icmp_error: the network says a SYN cannot be delivered. *)
IcmpError(s) ==
  /\ "icmp" \in world.calls /\ conns[s].state = "SYN_SENT"
  /\ Call(Finished(conns, s, "EHOSTUNREACH"), <<>>, <<>>)
  /\ UNCHANGED <<world, budget, history>>

-----------------------------------------------------------------------------
(* The backlog of lo is empty: drain() and the send that ran it return.    *)
Drained ==
  /\ draining /\ todo = <<>> /\ backlog = <<>>
  /\ draining' = FALSE /\ todo' = outer /\ outer' = <<>>
  /\ UNCHANGED <<world, conns, wire, backlog, budget, history>>

Lose ==
  /\ Idle /\ faults > 0 /\ faults' = faults - 1
  /\ \E m \in wire : wire' = wire \ {m}
  /\ UNCHANGED <<world, conns, backlog, draining, todo, outer, isn, strikes, history>>

Arrive ==
  /\ \E m \in Arriving : Refuse(m) \/ ListenArrives(m) \/ SynSentArrives(m) \/ SegmentArrives(m)
  /\ UNCHANGED <<world, strikes>>

Program ==
  \/ \E a \in Addrs : Bind(a)
  \/ \E s \in Slots : \/ Listen(s) \/ Connect(s) \/ Accept(s) \/ Send(s)
                      \/ Recv(s) \/ Shutdown(s) \/ Close(s)

Init ==
  /\ world \in Worlds
  /\ conns = [s \in Slots |-> Blank]
  /\ wire = {} /\ backlog = <<>> /\ draining = FALSE
  /\ todo = <<>> /\ outer = <<>>
  /\ isn = 0 /\ faults = world.faults /\ strikes = world.strikes
  /\ written = [n \in Streams |-> 0] /\ arrived = [n \in Streams |-> 0]

Next ==
  \/ Program \/ Resume \/ Arrive \/ Drained \/ Lose
  \/ \E s \in Slots : Clock(s) \/ Elapse(s) \/ IcmpError(s)

Spec == Init /\ [][Next]_vars

(* The kernel goes on with what it is doing and drains lo; the tick comes  *)
(* again and again.  Programs need not do anything.                        *)
Fairness ==
  /\ WF_vars(Resume \/ Arrive \/ Drained)
  /\ \A s \in Slots : SF_vars(Clock(s))

FairSpec == Spec /\ Fairness

-----------------------------------------------------------------------------
(* Every field keeps its range: buffers never hold more than TCP_BUF_SIZE  *)
(* bytes, the pending count of a listener never goes below zero.           *)
TypeOK ==
  /\ \A s \in Slots :
       LET r == conns[s] IN
       /\ r.state \in States /\ r.error \in Errors
       /\ {r.snd_una, r.snd_nxt, r.rcv_nxt} \subseteq SeqNos
       /\ {r.local, r.remote} \subseteq Addrs \cup {NoAddr} /\ r.listener \in Slots \cup {NONE}
       /\ Len(r.sndbuf) <= BufSize /\ Len(r.rcvbuf) <= BufSize /\ r.pending \in Nat
       /\ {r.retries, r.probes} \subseteq Nat
  /\ \A m \in wire : m.wnd \in 0 .. BufSize /\ Len(m.data) <= Mss
  /\ Cardinality(wire) <= NetCap /\ draining \in BOOLEAN

(* "A reliable, ordered stream of bytes" (tcp.h): what waits in a receive  *)
(* ring continues what the program has read, byte by byte, and all of it   *)
(* is of the stream of this connection's peer, whatever segments were lost,*)
(* repeated or reordered.                                                  *)
StreamInOrder ==
  \A s \in Slots : \A i \in 1 .. Len(conns[s].rcvbuf) :
    conns[s].rcvbuf[i] = <<conns[s].irs, conns[s].taken + i>>

(* On the first connection of a socket, tcp_recv returns 0 ("end of the    *)
(* stream") only after every byte the peer ever wrote: when the FIN is     *)
(* taken nothing is missing before it.  (tcp_connect resets neither the    *)
(* ring nor fin_received, so nothing is said of a second one.)             *)
EndAfterAll ==
  \A s \in Slots : conns[s].fin_received =>
    conns[s].taken + Len(conns[s].rcvbuf) = written[conns[s].irs]

(* Bytes leave the send buffer only when the peer has them, and a          *)
(* connection whose FIN was acknowledged (FIN_WAIT_2, TIME_WAIT) has       *)
(* nothing left to send: a late or repeated ACK never drops a byte, also   *)
(* after retransmit() went back and forgot the FIN.                        *)
AckedArrived ==
  \A s \in Slots :
    LET r == conns[s] IN
    r.used /\ r.state \notin {"CLOSED", "LISTEN"} =>
      /\ written[r.iss] - Len(r.sndbuf) <= arrived[r.iss]
      /\ r.state \in {"FIN_WAIT_2", "TIME_WAIT"} => r.sndbuf = <<>>

(* snd_len - flight is computed in uint32_t: before the FIN, what is in    *)
(* flight is part of the buffer, and after it exactly one more.            *)
FlightFits ==
  \A s \in Slots :
    LET r == conns[s] IN
    r.used /\ r.state \notin Opening \cup {"CLOSED", "LISTEN"} =>
      /\ ~r.fin_sent => Flight(r) <= Len(r.sndbuf)
      /\ r.fin_sent /\ r.state \notin {"FIN_WAIT_2", "TIME_WAIT"} => Flight(r) = Len(r.sndbuf) + 1

Outstanding(r) ==
  \/ r.state \in Opening
  \/ CanOutput(r) /\ (r.sndbuf # <<>> \/ r.fin_wanted)

(* A connection that still has something to get to its peer has its clock  *)
(* running: otherwise one lost segment would stop it for ever.             *)
ClockRuns ==
  Idle => \A s \in Slots : Outstanding(conns[s]) => conns[s].rtx

(* A listener's pending count, which decides between a queue place and a   *)
(* SYN cookie, is the number of its children, however they end.            *)
PendingExact ==
  Idle => \A l \in Slots : conns[l].state = "LISTEN" =>
    conns[l].pending = Cardinality({s \in Slots : Used(s) /\ conns[s].listener = l})

(* tcp_timer.c: the connection dies with ETIMEDOUT after too many tries to *)
(* send what is not acknowledged; so only if there is such a thing.        *)
DiesOnlyUnacknowledged ==
  [][\A s \in Slots : conns[s].state = "ESTABLISHED" /\ conns'[s].error = "ETIMEDOUT"
       => Outstanding(conns[s])]_vars

Orphan(s) == Used(s) /\ ~conns[s].sock /\ conns[s].listener = NONE

(* "Closing the socket hands the connection back to TCP, which finishes it *)
(* (FIN, TIME_WAIT) on its own" (sock_tcp.c): a slot of the table whose    *)
(* socket is gone is free again some time, whatever the other end does.    *)
OrphanFreed == \A s \in Slots : Orphan(s) ~> ~Orphan(s)
=============================================================================
