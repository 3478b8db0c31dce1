--------------------------- MODULE ReplyContexts ---------------------------
(***************************************************************************)
(* Method calls and their replies: the table of reply contexts at the end  *)
(* of src/aj_introspect.c, and AJ_UnmarshalMsg and AJ_MarshalMethodCall of *)
(* src/aj_msg.c as far as they use it.  A time that has been set may have  *)
(* passed whenever the code looks.                                         *)
(***************************************************************************)
EXTENDS ServiceState

\* FindReplyContext: the slots that hold a serial number; the code takes the first.
FindReplyContext(c, s) == {i \in Slot : c[i].serial = s}
First(S) == CHOOSE i \in S : \A j \in S : i <= j

\* AJ_AllocReplyContext, for the call with serial number s.
AJ_AllocReplyContext(c, s, kind) ==
  [c EXCEPT ![First(FindReplyContext(c, 0))] = [serial |-> s, kind |-> kind]]

HasFree(c) == FindReplyContext(c, 0) # {}

\* Mutant: the context of a call that timed out stays in use.
Release_Keeps(c, i, type) == IF type = "INT" THEN c ELSE [c EXCEPT ![i] = Free]

\* A context is released when its reply has been identified or its time has passed.
Release(c, i, type) == [c EXCEPT ![i] = Free]

(***************************************************************************)
(* What AJ_UnmarshalMsg returns: a status and the message, which is a      *)
(* reply to a call of a kind, or a call or a signal of the node; and what  *)
(* is left: the reply contexts, the fate of the calls, the messages to     *)
(* come.  An internal error message has type INT; a rejected call has been *)
(* answered and closed, which leaves no message (type "none").             *)
(***************************************************************************)
Result(status, type, kind) ==
  [status |-> status, type |-> type, kind |-> kind, ctx |-> ctx, fate |-> fate,
   rest |-> IF toBus = <<>> THEN toBus ELSE Tail(toBus)]

Ended(status, type, i) ==
  [Result(status, type, ctx[i].kind) EXCEPT
     !.ctx = Release(ctx, i, type),
     !.fate = [fate EXCEPT ![ctx[i].serial] = IF @ = "open" THEN "ended" ELSE "ended twice"]]

\* On a closed connection a send fails or not.
Sends == IF net = "broken" THEN BOOLEAN ELSE {TRUE}

\* AJ_IdentifyMessage.  A call that matches no object is rejected at once.
AJ_IdentifyMessage(m) ==
  CASE m.type \in {"SIG", "CALL"} -> {Result("OK", m.type, "none")}
    [] m.type = "STRAY" ->
         {Result(IF sent THEN "OK" ELSE "WRITE", "none", "none") : sent \in Sends}
    [] m.type \in {"RET", "ERR", "BAD"} ->
         LET found == FindReplyContext(ctx, m.serial) IN
         IF found = {} THEN {Result("NO_MATCH", m.type, "none")}
         ELSE IF m.type = "BAD" THEN {Ended("SIGNATURE", "BAD", First(found))}
         ELSE {Ended("OK", m.type, First(found))}

\* Mutant: only the first context is looked at.
AJ_TimedOutMethodCall_First ==
  {Ended("OK", "INT", i) : i \in {j \in {1} : ctx[j].serial # 0}}

\* AJ_TimedOutMethodCall: any context in use may be the first whose time has passed.
AJ_TimedOutMethodCall ==
  {Ended("OK", "INT", i) : i \in {j \in Slot : ctx[j].serial # 0}}

\* The results AJ_UnmarshalMsg may have: the next message or, only when there is none and
\* its own timeout has passed, an internal error for a method call that timed out.
AJ_UnmarshalMsg ==
  IF toBus # <<>> THEN AJ_IdentifyMessage(Head(toBus))
  ELSE IF net = "broken" THEN {Result("READ", "none", "none")}
  ELSE AJ_TimedOutMethodCall \cup {Result("TIMEOUT", "none", "none")}

\* Whether the message is an error: an answer of the node, or the internal one.
IsError(r) == r.type \in {"ERR", "INT"}

\* AJ_MarshalMethodCall and AJ_DeliverMsg, with serial number s, from the contexts c and the
\* fates f.
MakeCall(c, f, s, kind) ==
  /\ ctx' = AJ_AllocReplyContext(c, s, kind)
  /\ fate' = [f EXCEPT ![s] = "open"]
  /\ asked' = IF net = "up" THEN asked \cup {[serial |-> s, kind |-> kind]} ELSE asked
=============================================================================
