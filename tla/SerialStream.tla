---------------------------- MODULE SerialStream ----------------------------
(***************************************************************************)
(* What the serial transport promises to its two users: a reliable stream  *)
(* of packets each way, between one incarnation of each end.  A user may   *)
(* start over at any time; the packets of its earlier streams are then     *)
(* lost or arrive at a peer that has not started over, but never mix with  *)
(* those of a later one.                                                   *)
(***************************************************************************)
EXTENDS Integers, Sequences

CONSTANTS
  Endpoint, Peer,
  Done     \* Done[e]: packets of e received before the behaviour starts

VARIABLES
  log,   \* log[e][k]: how many packets e has offered in its k-th incarnation
  got    \* got[e]: the packets e has received in its present incarnation

Init ==
  /\ log = [e \in Endpoint |-> <<Done[e]>>]
  /\ got = [e \in Endpoint |-> [n \in 1..Done[Peer[e]] |-> [ep |-> 1, n |-> n]]]

Offer(e) == \E k \in 1..4 :
  /\ log' = [log EXCEPT ![e][Len(log[e])] = @ + k]
  /\ UNCHANGED got

\* The next packet of the stream e is receiving, or the first of any stream of the peer.
Receive(e) == \E ep \in 1..Len(log[Peer[e]]) :
  LET n == Len(got[e]) + 1 IN
  /\ got[e] # <<>> => got[e][1].ep = ep
  /\ n <= log[Peer[e]][ep]
  /\ got' = [got EXCEPT ![e] = Append(@, [ep |-> ep, n |-> n])]
  /\ UNCHANGED log

StartOver(e) ==
  /\ log' = [log EXCEPT ![e] = Append(@, 0)]
  /\ got' = [got EXCEPT ![e] = <<>>]

Next == \E e \in Endpoint : Offer(e) \/ Receive(e) \/ StartOver(e)

Spec == Init /\ [][Next]_<<log, got>>
=============================================================================
