---------------------------- MODULE ServiceState ----------------------------
(***************************************************************************)
(* The state of a service that is connected to a routing node: the bus     *)
(* attachment, the reply contexts of src/aj_introspect.c, the link watcher *)
(* of src/aj_link_timeout.c, the announcement flag of src/aj_about.c, and  *)
(* the node with the two directions of the connection.                     *)
(***************************************************************************)
EXTENDS Integers, Sequences, FiniteSets

CONSTANTS
  NumReplyContexts,  \* AJ_NUM_REPLY_CONTEXTS
  MaxCalls,          \* bound on the serial numbers of method calls in use at a time
  MayRefuse,         \* steps of a service the node may refuse in a disposition code
  MaxOnWay           \* bound on the messages on their way from the node

\* Connecting takes six calls: HELLO, two ADD_MATCH, BIND, REQUEST and ADVERTISE.
ASSUME ServiceAssumption ==
  /\ NumReplyContexts \in Nat \ {0}
  /\ MaxCalls \in Nat /\ MaxCalls >= 6 /\ MaxOnWay \in Nat \ {0}
  /\ MayRefuse \subseteq {"BIND", "REQUEST", "ADVERTISE"}

VARIABLES
  pc,          \* where the thread is
  serial,      \* bus->serial, counted for the method calls of connecting and starting
  ctx,         \* replyContexts
  aboutPort,   \* whether bus->aboutPort has been set
  doAnnounce,  \* of aj_about.c
  watch,       \* busLinkWatcher, and whether busLinkTimeout is set
  net,         \* the connection: up, silently dead, or closed
  asked,       \* calls the node has not answered
  toBus,       \* messages on their way from the node
  node,        \* what the node has done for this connection
  probed,      \* whether a probe waits to be acknowledged by the node
  left,        \* history: whether this connection began with contexts of an earlier one
  fate,        \* history: what has become of each call of this connection
  probes,      \* history: probes sent on this connection since the watcher was cleared
  stale        \* history: whether the watcher still holds what it had seen of the last connection

attachVars == <<serial, ctx>>
aboutVars  == <<aboutPort, doAnnounce>>
nodeVars   == <<net, asked, toBus, node, probed>>
histVars   == <<left, fate, probes, stale>>
vars == <<pc, attachVars, aboutVars, watch, nodeVars, histVars>>

\* Where the thread reads messages: in AJ_Authenticate for the answer to Hello and for that
\* to AddMatch, in AJ_StartService, in AJ_RunAllJoynService.  At "bind" AJ_FindBusAndConnect
\* has returned, at "down" it is to be called, as it is at "failed", where AJ_StartService
\* has returned without AJ_Disconnect.
Reading == {"hello", "match", "start", "run"}
Place == Reading \cup {"down", "failed", "bind"}

Slot == 1..NumReplyContexts
Kind == {"HELLO", "ADD_MATCH", "BIND", "REQUEST", "ADVERTISE", "APP"}
Call == [serial : 1..MaxCalls, kind : Kind]
Free == [serial |-> 0, kind |-> "none"]

\* Messages of the node.  A reply of type BAD has the wrong signature or is not encrypted
\* as its interface requires.  A call of type STRAY matches
\* no registered object.
Reply == [type : {"RET", "ERR", "BAD"}, serial : 1..MaxCalls]
Request == {[type |-> t] : t \in {"SIG", "CALL", "STRAY"}}
Signal == [type |-> "SIG"]
NodeMsg == Reply \cup Request

\* What the node has done for a connection: the steps of a service, done or refused.
Fact == {"bound", "named", "advertised", "unbound", "unnamed", "unadvertised", "announced"}

MaxProbes == 4   \* bound of the history variable probes, beyond the three the code sends

NoWatch(on) == [on |-> on, linkTimer |-> FALSE, pingTimer |-> FALSE, timedOut |-> 0]
AllFree == [i \in Slot |-> Free]
NoFate  == [s \in 1..MaxCalls |-> "none"]
=============================================================================
