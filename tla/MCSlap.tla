------------------------------- MODULE MCSlap -------------------------------
(* Small instances of Slap: two endpoints a and b. *)
EXTENDS Slap
CONSTANTS a, b
Ends == {a, b}
Other == [e \in {a, b} |-> IF e = a THEN b ELSE a]
Pair(x, y) == [e \in {a, b} |-> IF e = a THEN x ELSE y]
Zero == Pair(0, 0)
One  == Pair(1, 1)
Two  == Pair(2, 2)
TwoOne == Pair(2, 1)
NoneTwo == Pair(0, 2)
Three == Pair(3, 3)
Four == Pair(4, 4)
ThreeNone == Pair(3, 0)
SixNone == Pair(6, 0)
TenNone == Pair(10, 0)

\* Bound of some runs on the application: every read ends with a packet.
ReadsWhole == \A e \in Endpoint :
  AJ_SerialRecv(e) => rxRecv[e] = <<>> \/ delivered' # delivered

\* Fairness of the runs, with no more than each of them needs: of the timers, only that
\* one which is set passes in some round.  A resend may come at any time.
Reads(e) == AJ_SerialRecv(e) /\ delivered' # delivered
FairData ==
  /\ InitUp /\ [][Next /\ ReadsWhole]_vars
  /\ \A e \in Endpoint : Scheduled(e)
  /\ SF_vars(ResendPackets(a)) /\ SF_vars(SendAck(b)) /\ SF_vars(Reads(b))
  /\ Arrives(a, {<<"DATA", n>> : n \in 1..Budget[a]}) /\ Arrives(b, {<<"ACK">>})

\* In FairLink a link packet is due again only after the one before has been sent and
\* processed: CONN_TIMEOUT and NEGO_TIMEOUT are many times the length of a frame.
FrameIsOver(e) == txQueue[e] = <<>> /\ txBuf[e] = <<>> /\ rxBuf[Peer[e]] = <<>>
FairLink ==
  /\ Init /\ [][Next /\ \A e \in Endpoint : SendLinkPacket(e) => FrameIsOver(e)]_vars
  /\ \A e \in Endpoint : Scheduled(e) /\ SF_vars(FillTxBuffers(e)) /\ SF_vars(SendLinkPacket(e))
  /\ \A e \in Endpoint : Arrives(e, {<<"CTRL", k>> : k \in {"CONN", "ACPT", "NEGO", "NRSP"}})
=============================================================================
