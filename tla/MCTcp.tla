------------------------------- MODULE MCTcp -------------------------------
(* Tcp for TLC: a host "a" with two client ports and a host "b", each with *)
(* a table of two slots; on lo all slots are one table.                    *)
EXTENDS Tcp

A1 == <<"a", 1>>
A2 == <<"a", 2>>
B1 == <<"b", 1>>

MCAddrs  == {A1, A2, B1}
MCHome   == <<"a", "a", "b", "b">>
MCHomeLo == <<"lo", "lo", "lo">>
MCIsns   == <<30, 4, 9>>          \* the first stream wraps around 32

Nobody == [x \in MCAddrs |-> {}]
ToB    == [Nobody EXCEPT ![A1] = {B1}]
FromTo == [ToB EXCEPT ![A2] = {B1}]
Both   == [ToB EXCEPT ![B1] = {A1}]

World(lo, calls, isns, bad, ticks, servers, clients, a1, b1) ==
  [lo |-> lo, calls |-> calls, isns |-> isns, faults |-> bad, strikes |-> ticks, reuse |-> lo,
   servers |-> servers, clients |-> clients, backlog |-> 1,
   bytes |-> [Nobody EXCEPT ![A1] = a1, ![A2] = 0, ![B1] = b1]]

(* A byte and a segment lost or repeated; two bytes and segments that      *)
(* overtake (the later one is then dropped) or are sent again.             *)
OneByte  == World(FALSE, {"recv"}, 2, 1, 1, {B1}, ToB, 1, 0)
TwoBytes == World(FALSE, {"recv"}, 2, 0, 1, {B1}, ToB, 2, 0)
Crossing == World(FALSE, {"recv", "icmp"}, 2, 1, 1, {}, Both, 0, 0)
Cookies  == World(FALSE, {"recv"}, 3, 0, 0, {B1}, FromTo, 0, 0)
Loop     == World(TRUE, {"recv", "shutdown", "fail"}, 2, 0, 0, {B1}, ToB, 2, 0)
Half     == World(TRUE, {"shutdown"}, 2, 0, 0, {B1}, ToB, 2, 1)
Reply    == World(TRUE, {"recv"}, 2, 0, 0, {B1}, ToB, 2, 1)

MCWorlds == {OneByte, TwoBytes, Crossing, Cookies, Loop}
MCLoop   == {Loop}
MCLive   == {Half, Reply}
=============================================================================
