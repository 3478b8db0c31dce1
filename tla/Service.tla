------------------------------ MODULE Service ------------------------------
(***************************************************************************)
(* A service that connects to a routing node and serves it:                *)
(* AJ_RunAllJoynService and AJ_StartService of src/aj_helper.c, with       *)
(* AJ_FindBusAndConnect, AJ_Authenticate and AJ_Disconnect of              *)
(* src/aj_connect.c, AJ_BusHandleBusMessage of src/aj_bus.c, and the       *)
(* announcement of src/aj_about.c.  Every step of the thread is what it    *)
(* does with one result of AJ_UnmarshalMsg.  The node is not in the        *)
(* repository.                                                             *)
(***************************************************************************)
EXTENDS ReplyContexts, LinkWatch

watchVars == <<watch, probes, stale>>

(***************************************************************************)
(* How a step ends: the thread reads on, makes a call, or disconnects.     *)
(* facts is what the node then has done for this connection.               *)
(***************************************************************************)
Stay(r, facts) ==
  /\ ctx' = r.ctx /\ fate' = r.fate /\ toBus' = r.rest /\ node' = facts
  /\ UNCHANGED <<pc, serial, left, asked, net>>

Dropped(f) == [s \in 1..MaxCalls |-> IF f[s] = "open" THEN "ended" ELSE f[s]]
Hangup == asked' = {} /\ toBus' = <<>> /\ node' = {} /\ net' = "broken"

\* Mutant: method calls outlive the connection.
AJ_Disconnect_KeepsCalls(r) ==
  pc' = "down" /\ ctx' = r.ctx /\ fate' = Dropped(r.fate) /\ Hangup /\ UNCHANGED <<serial, left>>

\* AJ_Disconnect with AJ_ReleaseReplyContexts.  The port to announce and the link watcher stay
\* as they are.
AJ_Disconnect(r) ==
  pc' = "down" /\ ctx' = AllFree /\ fate' = Dropped(r.fate) /\ Hangup /\ UNCHANGED <<serial, left>>

\* A call is made and the thread goes on at place; without a reply context, or when the
\* call cannot be sent, it gives up the connection.
CallThen(r, kind, place, facts) ==
  \/ /\ HasFree(r.ctx)
     /\ MakeCall(r.ctx, r.fate, serial, kind) /\ serial' = serial + 1
     /\ pc' = place /\ toBus' = r.rest /\ node' = facts /\ UNCHANGED <<left, net>>
  \/ /\ ~HasFree(r.ctx) \/ FALSE \in Sends
     /\ AJ_Disconnect(r)

(***************************************************************************)
(* Messages the library handles itself.                                    *)
(***************************************************************************)
\* The status of AJ_BusHandleBusMessage, whose reply to a call is sent or not.
BusStatus(r, sent) ==
  CASE IsError(r) /\ r.kind \in {"ADD_MATCH", "ADVERTISE"} -> "FAILURE"
    [] r.type = "CALL" /\ ~sent -> "WRITE"
    [] OTHER -> "OK"

\* Whether AJ_AboutAnnounce is called at the end of AJ_BusHandleBusMessage.  A closed message
\* is left alone, and a call for the properties of About returns early.
Announces(r, sent) ==
  {r.type # "none" /\ BusStatus(r, sent) = "OK"} \cup (IF r.type = "CALL" THEN {FALSE} ELSE {})

FactsAfter(announces) ==
  IF announces /\ doAnnounce /\ aboutPort /\ net = "up" THEN node \cup {"announced"} ELSE node

(***************************************************************************)
(* AJ_FindBusAndConnect.  What comes before Hello (discovery, the network  *)
(* connection, the SASL lines) succeeds, or nothing has happened.  Contexts *)
(* that no AJ_Disconnect has released are still in use.                    *)
(***************************************************************************)
Connect ==
  /\ pc \in {"down", "failed"}
  /\ left' = (pc = "failed" /\ ctx # AllFree /\ HasFree(ctx))
  /\ aboutPort' = FALSE
  /\ net' = "up" /\ toBus' = <<>> /\ node' = {} /\ probed' = FALSE
  /\ probes' = 0 /\ stale' = (watch # NoWatch(watch.on))
  /\ serial' = 2
  /\ IF ~HasFree(ctx)
     THEN ctx' = AllFree /\ asked' = {} /\ fate' = NoFate /\ pc' = "down"
     ELSE /\ pc' = "hello"
          /\ ctx' = AJ_AllocReplyContext(ctx, 1, "HELLO")
          /\ asked' = {[serial |-> 1, kind |-> "HELLO"]}
          /\ fate' = [NoFate EXCEPT ![1] = "open"]
  /\ UNCHANGED <<doAnnounce, watch>>

\* AJ_Authenticate, the answer to Hello.  If it is an error, the status becomes AJ_ERR_TIMEOUT
\* and is overwritten by that of the AddMatch call.
HelloAnswer(r) ==
  /\ pc = "hello"
  /\ IF r.status = "OK" THEN CallThen(r, "ADD_MATCH", "match", node) ELSE AJ_Disconnect(r)
  /\ UNCHANGED <<aboutVars, watchVars, probed>>

\* AJ_Authenticate, the loop that waits for the answer to AddMatch until three seconds are
\* over.  Its status is that of the last message read.  AJ_FindBusAndConnect then makes the
\* same call again.
MatchAnswer(r, over) ==
  LET found   == r.status = "OK" /\ r.kind = "ADD_MATCH"
      handled == r.status = "OK" /\ r.kind # "ADD_MATCH"
  IN
  \E sent \in Sends : \E announces \in IF handled THEN Announces(r, sent) ELSE {FALSE} :
    LET facts == FactsAfter(announces) IN
    /\ pc = "match"
    /\ CASE found \/ (over /\ r.status = "OK") -> CallThen(r, "ADD_MATCH", "bind", facts)
         [] over /\ r.status # "OK"            -> AJ_Disconnect(r)
         [] ~over /\ ~found                    -> Stay(r, facts)
    /\ doAnnounce' = (doAnnounce /\ ~announces)
    /\ UNCHANGED <<aboutPort, watchVars, probed>>

(***************************************************************************)
(* AJ_StartService.                                                        *)
(***************************************************************************)
BindPort ==
  /\ pc = "bind"
  /\ CallThen([Result("OK", "none", "none") EXCEPT !.rest = toBus], "BIND", "start", node)
  /\ UNCHANGED <<aboutVars, watchVars, probed>>

\* The steps a service takes on the node, in order.
Steps == <<"BIND", "REQUEST", "ADVERTISE">>

\* AJ_AboutInit.  When the announcement cannot be sent AJ_StartService returns its status
\* without AJ_Disconnect, and the next round of AJ_RunAllJoynService connects again.
AJ_AboutInit(r) ==
  \E sent \in Sends :
    /\ pc' = IF sent THEN "run" ELSE "failed"
    /\ node' = IF sent /\ net = "up" THEN node \cup {"announced"} ELSE node
    /\ ctx' = r.ctx /\ toBus' = r.rest /\ fate' = r.fate
    /\ aboutPort' = TRUE /\ doAnnounce' = FALSE
    /\ UNCHANGED <<serial, left, asked, net>>

\* Mutant: an error is taken for the answer.
StepDone_AnyAnswer(r, i) == r.status = "OK" /\ r.kind = Steps[i]

StepDone(r, i) == r.status = "OK" /\ r.kind = Steps[i] /\ ~IsError(r)

StepAnswer(r) ==
  /\ pc = "start"
  /\ \/ /\ \E i \in 1..2 : StepDone(r, i) /\ CallThen(r, Steps[i + 1], "start", node)
        /\ UNCHANGED aboutVars
     \/ /\ StepDone(r, 3)
        /\ AJ_AboutInit(r)
  /\ UNCHANGED <<watchVars, probed>>

StartMessage(r) ==
  LET step    == \E i \in 1..3 : r.status = "OK" /\ r.kind = Steps[i]
      handled == r.status = "OK" /\ ~step
  IN
  \E sent \in Sends : \E announces \in IF handled THEN Announces(r, sent) ELSE {FALSE} :
    LET goesOn == r.status = "NO_MATCH" \/ (handled /\ BusStatus(r, sent) = "OK") IN
    /\ pc = "start" /\ ~\E i \in 1..3 : StepDone(r, i)
    /\ IF goesOn THEN Stay(r, FactsAfter(announces)) ELSE AJ_Disconnect(r)
    /\ doAnnounce' = (doAnnounce /\ ~announces)
    /\ UNCHANGED <<aboutPort, watchVars, probed>>

(***************************************************************************)
(* AJ_RunAllJoynService.                                                   *)
(***************************************************************************)
\* The application's handler of a message, whose status is not used here; and
\* AJ_BusReplyAcceptSession.
UserHandles(r) ==
  /\ r.type # "none"
  /\ Stay(r, node) /\ UNCHANGED doAnnounce

BusHandles(r) ==
  \E sent \in Sends : \E announces \in Announces(r, sent) :
    /\ Stay(r, FactsAfter(announces))
    /\ doAnnounce' = (doAnnounce /\ ~announces)

HandleMessage(r) ==
  /\ r.status = "OK"
  /\ UserHandles(r) \/ BusHandles(r)
  /\ AJ_NotifyLinkActive /\ UNCHANGED probed

SkipMessage(r) ==
  /\ r.status \in {"NO_MATCH", "SIGNATURE", "WRITE"}
  /\ Stay(r, node)
  /\ UNCHANGED <<doAnnounce, watchVars, probed>>

NoMessage(r) ==
  /\ r.status = "TIMEOUT"
  /\ \/ WatchGoesOn /\ Stay(r, node)
     \/ LinkTimeout /\ AJ_Disconnect(r) /\ UNCHANGED probed
  /\ UNCHANGED doAnnounce

LoseConnection(r) ==
  /\ r.status = "READ"
  /\ AJ_Disconnect(r)
  /\ UNCHANGED <<doAnnounce, watchVars, probed>>

ServeMessage(r) ==
  /\ pc = "run"
  /\ HandleMessage(r) \/ SkipMessage(r) \/ NoMessage(r) \/ LoseConnection(r)
  /\ UNCHANGED aboutPort

\* Method calls of the application, from its handlers and timers, any number of them: a
\* serial number that nothing refers to any more stands for the next one.
AppSerial == {s \in 7..MaxCalls :
  /\ FindReplyContext(ctx, s) = {}
  /\ \A c \in asked : c.serial # s
  /\ \A i \in 1..Len(toBus) : toBus[i].type \in {"RET", "ERR", "BAD"} => toBus[i].serial # s}

AppCalls ==
  /\ pc = "run" /\ HasFree(ctx)
  /\ \E s \in AppSerial : MakeCall(ctx, fate, s, "APP")
  /\ UNCHANGED <<pc, serial, left, aboutVars, watchVars, net, toBus, node, probed>>

AJ_AboutSetShouldAnnounce ==
  /\ pc = "run" /\ doAnnounce' = TRUE
  /\ UNCHANGED <<pc, attachVars, aboutPort, watch, nodeVars, histVars>>

(***************************************************************************)
(* The node and the connection.                                            *)
(***************************************************************************)
NodeOnly == UNCHANGED <<pc, attachVars, aboutVars, watch, histVars>>
FactOf == [BIND |-> "bound", REQUEST |-> "named", ADVERTISE |-> "advertised"]
RefusalOf == [BIND |-> "unbound", REQUEST |-> "unnamed", ADVERTISE |-> "unadvertised"]

Room == Len(toBus) < MaxOnWay

\* The reply to a step says in its disposition code whether the node has done it.
NodeAnswers ==
  /\ net = "up" /\ Room
  /\ \E c \in asked, type \in {"RET", "ERR", "BAD"} :
       /\ type = "BAD" => c.kind = "APP"
       /\ toBus' = Append(toBus, [type |-> type, serial |-> c.serial])
       /\ \E said \in {FactOf} \cup (IF c.kind \in MayRefuse THEN {RefusalOf} ELSE {}) :
            node' = IF type = "RET" /\ c.kind \in DOMAIN said
                    THEN node \cup {said[c.kind]} ELSE node
       /\ asked' = asked \ {c}
  /\ UNCHANGED <<net, probed>> /\ NodeOnly

NodeForgets ==
  /\ \E c \in asked : asked' = asked \ {c}
  /\ UNCHANGED <<net, toBus, node, probed>> /\ NodeOnly

\* The node knows the service when it has answered Hello.
Known == net = "up" /\ pc \in {"match", "bind", "start", "run"}

NodeSends ==
  /\ Known /\ Room
  /\ \E m \in Request : toBus' = Append(toBus, m)
  /\ UNCHANGED <<net, asked, node, probed>> /\ NodeOnly

NodeAcksProbe ==
  /\ Known /\ Room /\ probed
  /\ probed' = FALSE /\ toBus' = Append(toBus, Signal)
  /\ UNCHANGED <<net, asked, node>> /\ NodeOnly

\* The node stops without a word: what is on its way still arrives.
GoesSilent ==
  /\ net = "up" /\ pc # "down"
  /\ net' = "silent" /\ asked' = {} /\ probed' = FALSE
  /\ UNCHANGED <<toBus, node>> /\ NodeOnly

Breaks ==
  /\ net # "broken" /\ pc # "down"
  /\ net' = "broken" /\ asked' = {} /\ probed' = FALSE
  /\ toBus' \in {toBus, <<>>}
  /\ UNCHANGED node /\ NodeOnly

(***************************************************************************)
(* The specification.                                                      *)
(***************************************************************************)
Init ==
  /\ pc = "down" /\ serial = 1 /\ ctx = AllFree
  /\ aboutPort = FALSE /\ doAnnounce = TRUE /\ watch \in {NoWatch(on) : on \in BOOLEAN}
  /\ net = "broken" /\ asked = {} /\ toBus = <<>> /\ node = {} /\ probed = FALSE
  /\ left = FALSE /\ fate = NoFate /\ probes = 0 /\ stale = FALSE

Use(r) ==
  \/ HelloAnswer(r) \/ (\E over \in BOOLEAN : MatchAnswer(r, over))
  \/ StepAnswer(r) \/ StartMessage(r) \/ ServeMessage(r)

\* The thread reads a message, is told of a method call that timed out, or reads nothing.
Reads    == \E r \in AJ_UnmarshalMsg : r.type # "INT" /\ r.status # "TIMEOUT" /\ Use(r)
TimesOut == \E r \in AJ_UnmarshalMsg : r.type = "INT" /\ Use(r)
Waits    == \E r \in AJ_UnmarshalMsg : r.status = "TIMEOUT" /\ Use(r)

Thread == Connect \/ BindPort \/ Reads \/ TimesOut \/ Waits
Application == AppCalls \/ AJ_AboutSetShouldAnnounce
Node == NodeAnswers \/ NodeForgets \/ NodeSends \/ NodeAcksProbe \/ GoesSilent \/ Breaks
Next == Thread \/ Application \/ Node

Spec == Init /\ [][Next]_vars

\* The thread runs; intervals of the link watcher pass; and the time of a method call passes
\* while nothing is there to be read.
Fairness == WF_vars(BindPort) /\ WF_vars(Reads) /\ WF_vars(Waits) /\ WF_vars(TimesOut)
FairSpec == Spec /\ Fairness

(***************************************************************************)
(* Properties.                                                             *)
(***************************************************************************)
\* The variables have their types; nothing is on its way when there is no connection.
TypeOK ==
  /\ pc \in Place /\ serial \in 1..7
  /\ ctx \in [Slot -> Call \cup {Free}]
  /\ aboutPort \in BOOLEAN /\ doAnnounce \in BOOLEAN
  /\ watch \in [on : BOOLEAN, linkTimer : BOOLEAN, pingTimer : BOOLEAN,
               timedOut : 0..(MAX_LINK_PING_PACKETS - 1)]
  /\ net \in {"up", "silent", "broken"} /\ asked \subseteq Call
  /\ toBus \in Seq(NodeMsg) /\ (pc = "down" => toBus = <<>>)
  /\ node \subseteq Fact
  /\ probed \in BOOLEAN /\ left \in BOOLEAN
  /\ fate \in [1..MaxCalls -> {"none", "open", "ended", "ended twice"}]
  /\ probes \in 0..MaxProbes /\ stale \in BOOLEAN

\* Method calls and reply contexts: the contexts in use are those of the calls of this
\* connection that have neither been answered nor timed out, one each.  Whatever ends a call
\* (its reply, an error, its own timeout, the loss of the connection) returns its context.
\* The one exception is a connection that follows an AJ_StartService that has failed after its
\* last step: no AJ_Disconnect has released what that one left.
Open == {s \in 1..MaxCalls : fate[s] = "open"}
ContextsAreOpenCalls ==
  ~left =>
    /\ \A i \in Slot : ctx[i] # Free => ctx[i].serial \in Open
    /\ \A s \in Open : Cardinality(FindReplyContext(ctx, s)) = 1

\* Method calls: a reply that arrives after the call has timed out is not taken for another
\* answer, and a call that was answered does not time out, in any connection but those.
CallEndsOnce == ~left => \A s \in 1..MaxCalls : fate[s] # "ended twice"

\* AJ_StartService and AJ_RunAllJoynService: a service that runs has had each of its three
\* steps answered by the node on the connection it runs on, and is announced, after any
\* number of errors, lost connections, failed starts and late replies.  So it has bound its
\* port, owns its name and is advertised, but for what the node refused in the disposition
\* code of a reply, which AJ_StartService does not look at.
RunsAdvertised ==
  /\ pc = "run" => \A k \in DOMAIN FactOf : FactOf[k] \in node \/ RefusalOf[k] \in node
  /\ pc = "run" /\ net = "up" => "announced" \in node

\* AJ_BusLinkStateProc: in a connection in which the watcher started clear, a link is declared dead after
\* three probes have been sent since the last message was handled, and none sooner.
DeclaredDead == pc = "run" /\ pc' = "down" /\ net # "broken"
DeadAfterProbes == [][DeclaredDead /\ ~stale => probes = MAX_LINK_PING_PACKETS]_vars

\* The main loop and the link watcher: with a link timeout, a node that has gone silent is
\* found out, unless the application makes method calls for ever, whose timeouts count as
\* messages.
DeadLinkFound ==
  []<><<AppCalls>>_vars \/ ((pc = "run" /\ net = "silent" /\ watch.on) ~> pc = "down")

\* AJ_TimedOutMethodCall: every method call ends and returns its context, whether or not the
\* node answers, unless messages are read for ever (no time passes without one), the
\* application makes calls for ever (another context may always be found first), or a start
\* has failed after its last step and no routing node is found to connect to.
CallsEnd ==
  \/ []<><<Reads \/ AppCalls>>_vars
  \/ \A i \in Slot : []<>(ctx[i] = Free \/ pc = "failed")
=============================================================================
