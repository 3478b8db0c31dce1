----------------------------- MODULE LinkWatch -----------------------------
(***************************************************************************)
(* The watch over the connection, src/aj_link_timeout.c.  It is told of    *)
(* every message the main loop handles, and asked each time it reads none. *)
(***************************************************************************)
EXTENDS ServiceState

MAX_LINK_PING_PACKETS == 3

\* Mutant: the probes that have timed out are still counted after a message.
AJ_NotifyLinkActive_Counts ==
  /\ watch' = [watch EXCEPT !.linkTimer = FALSE]
  /\ probes' = 0 /\ stale' = FALSE

AJ_NotifyLinkActive ==
  /\ watch' = NoWatch(watch.on)
  /\ probes' = 0 /\ stale' = FALSE

\* AJ_SendLinkProbeReq: the status is not used.
SendLinkProbeReq ==
  /\ probes' = IF probes < MaxProbes THEN probes + 1 ELSE probes
  /\ probed' = (probed \/ net = "up")

(***************************************************************************)
(* AJ_BusLinkStateProc.  The link timeout, or the interval of the probes,  *)
(* has passed or not when it is asked.  A service whose configuration has  *)
(* no link timeout, which AJ_SetBusLinkTimeout refuses, is not watched.    *)
(***************************************************************************)
WatchIsOff ==
  /\ ~watch.on
  /\ UNCHANGED <<watch, probed, probes, stale>>

WatchStarts ==
  /\ watch.on /\ ~watch.linkTimer
  /\ watch' = [watch EXCEPT !.linkTimer = TRUE]
  /\ UNCHANGED <<probed, probes, stale>>

WatchWaits ==
  /\ watch.on /\ watch.linkTimer
  /\ UNCHANGED <<watch, probed, probes, stale>>

FirstProbe ==
  /\ watch.on /\ watch.linkTimer /\ ~watch.pingTimer
  /\ watch' = [watch EXCEPT !.pingTimer = TRUE]
  /\ SendLinkProbeReq /\ UNCHANGED stale

\* Mutant: one probe more before the link is given up.
NextProbe_OffByOne ==
  /\ watch.on /\ watch.linkTimer /\ watch.pingTimer /\ watch.timedOut + 1 <= MAX_LINK_PING_PACKETS
  /\ watch' = [watch EXCEPT !.timedOut = @ + 1]
  /\ SendLinkProbeReq /\ UNCHANGED stale

\* Mutant: a probe that has timed out is not counted.
NextProbe_Uncounted ==
  /\ watch.on /\ watch.linkTimer /\ watch.pingTimer /\ watch.timedOut + 1 < MAX_LINK_PING_PACKETS
  /\ SendLinkProbeReq /\ UNCHANGED <<watch, stale>>

NextProbe ==
  /\ watch.on /\ watch.linkTimer /\ watch.pingTimer /\ watch.timedOut + 1 < MAX_LINK_PING_PACKETS
  /\ watch' = [watch EXCEPT !.timedOut = @ + 1]
  /\ SendLinkProbeReq /\ UNCHANGED stale

WatchGoesOn == WatchIsOff \/ WatchStarts \/ WatchWaits \/ FirstProbe \/ NextProbe

\* AJ_ERR_LINK_TIMEOUT.
LinkTimeout ==
  /\ watch.on /\ watch.linkTimer /\ watch.pingTimer /\ watch.timedOut + 1 >= MAX_LINK_PING_PACKETS
  /\ watch' = NoWatch(watch.on)
  /\ stale' = FALSE /\ UNCHANGED probes
=============================================================================
