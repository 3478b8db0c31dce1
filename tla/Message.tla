------------------------------ MODULE Message ------------------------------
(***************************************************************************)
(* Two devices send each other method calls, replies, errors and signals:  *)
(* src/aj_msg.c and src/aj_introspect.c as an application uses them, with  *)
(* introspection and properties as src/aj_bus.c handles them.  What a      *)
(* device delivers arrives at the other as it is and in order; the routing *)
(* node between them is not in the repository.                             *)
(*                                                                         *)
(* An application does what its script says, and handles one message at a  *)
(* time as AJ_RunAllJoynService does: it reads what it likes of it, may    *)
(* reply, and closes it.                                                   *)
(***************************************************************************)
EXTENDS Marshal, Unmarshal, Introspect, FiniteSets
LOCAL INSTANCE SequencesExt

CONSTANTS
  Device,          \* two devices
  Name,            \* the unique name of each
  Cases,           \* [order, keyed, script]: their byte orders, whether they have session keys
                   \* and each other's group key, and what each application does on its own
  ObjectLists,     \* the object lists of each device
  Replies,         \* what the application replies to a call, by signature: the body
  Values,          \* the value of a property, by signature: an argument
  IntrospectId     \* the identifiers of the Introspect methods of the standard objects

ASSUME MessageAssumption ==
  /\ Cardinality(Device) = 2
  /\ \A c \in Cases : c.order \in [Device -> {AJ_LITTLE_ENDIAN, AJ_BIG_ENDIAN}]

VARIABLES
  order,    \* HOST_ENDIANESS of each device
  keyed,    \* whether the devices have keys for each other
  lists,    \* objectLists of each device
  script,   \* what each application has still to do on its own
  ctx,      \* replyContexts of each device: the calls that wait for a reply
  serial,   \* the next serial number of each device
  rx,       \* what each device receives and reads
  coming,   \* history: the messages on their way to each device, as they were meant
  current   \* history: the message each device is reading, as it was meant; or none

vars == <<order, keyed, lists, script, ctx, serial, rx, coming, current>>

Other(d) == CHOOSE e \in Device : e # d
CallsOf(d) == [s \in {c.serial : c \in ctx[d]} |-> (CHOOSE c \in ctx[d] : c.serial = s).id]

(***************************************************************************)
(* What an application has to say.  A body is a sequence of calls of the   *)
(* marshaler; about is the member whose security applies to it.            *)
(***************************************************************************)
AJ_ErrServiceUnknown    == <<117>>
AJ_ErrSecurityViolation == <<120>>
AJ_ErrRejected          == <<114>>

Saying(type, id, to, flags, body) ==
  [type |-> type, id |-> id, to |-> to, flags |-> flags, answers |-> <<>>, error |-> <<>>,
   about |-> id, body |-> body, below |-> <<>>]
Answer(type, r, error, body) ==
  [Saying(type, r.id, r.sender,
          IF HasFlag(r.flags, AJ_FLAG_ENCRYPTED) THEN AJ_FLAG_ENCRYPTED ELSE 0, body)
     EXCEPT !.answers = <<r.serial>>, !.error = error]

\* AJ_MarshalPropertyArgs.
AJ_MarshalPropertyArgs(w, L, propId, m) ==
  LET secured(x) == IF SecureId(L, propId) THEN [x EXCEPT !.buf[3] = Byte(SetFlag(@[1], AJ_FLAG_ENCRYPTED))] ELSE x
      iface(x) == [AJ_MarshalArgs(x, <<AJ_ARG_STRING>>, <<IfaceOf(L, propId).name>>) EXCEPT !.status = "OK"]
      prop(x) == AJ_MarshalArg(x, Arg(AJ_ARG_STRING, MemberOf(L, propId).name))
      value(x) == IF m.id.member = AJ_PROP_SET THEN AJ_MarshalVariant(x, MemberOf(L, propId).sig) ELSE x
  IN Then(prop(iface(secured(w))), value)

\* One call of the marshaler.
Tell(w, L, m, step) ==
  CASE step.op = "arg"      -> AJ_MarshalArg(w, step.arg)
    [] step.op = "open"     -> AJ_MarshalContainer(w, step.typ)
    [] step.op = "close"    -> AJ_MarshalCloseContainer(w)
    [] step.op = "variant"  -> AJ_MarshalVariant(w, step.sig)
    [] step.op = "args"     -> AJ_MarshalArgs(w, step.sig, step.vals)
    [] step.op = "property" -> AJ_MarshalPropertyArgs(w, L, step.id, m)

\* The header fields MarshalMsg writes, those without a value left out.
Fields(d, m, init) ==
  LET field(id, val) == IF val = <<>> THEN <<>> ELSE <<[id |-> id, val |-> val]>>
  IN field(AJ_HDR_OBJ_PATH, init.path) \o field(AJ_HDR_INTERFACE, init.iface)
     \o field(AJ_HDR_MEMBER, init.member) \o field(AJ_HDR_ERROR_NAME, m.error)
     \o field(AJ_HDR_REPLY_SERIAL, m.answers) \o field(AJ_HDR_DESTINATION, m.to)
     \o field(AJ_HDR_SENDER, Name[d])
     \o (IF m.type = AJ_MSG_ERROR THEN <<>> ELSE <<[id |-> AJ_HDR_SIGNATURE, val |-> init.sig]>>)

\* AJ_MarshalMethodCall, AJ_MarshalSignal, AJ_MarshalReplyMsg and AJ_MarshalErrorMsg, as MarshalMsg
\* does them, with a serial number n.
Begun(d, m, init, n) ==
  IF init.status # "OK" THEN Fail(NewMessage(order[d]), init.status)
  ELSE MarshalMsg(order[d], m.type, IF init.secure THEN SetFlag(m.flags, AJ_FLAG_ENCRYPTED) ELSE m.flags,
                  n, Fields(d, m, init), init.sig)
Compose(d, m, n) == Begun(d, m, AJ_InitMessageFromMsgId(lists[d], m.id, m.type), n)

\* The message with its arguments.
Said(d, m, n) ==
  FoldLeft(LAMBDA w, step : Then(w, LAMBDA x : Tell(x, lists[d], m, step)), Compose(d, m, n), m.body)

\* A signal that is not addressed is encrypted with the sender's own group key.
Delivered(w, m) == Then(w, LAMBDA x : AJ_DeliverMsg(x, keyed \/ m.to = <<>>))

\* AJ_MarshalStatusMsg.
StatusMsg(d, r, status, n) ==
  LET error == CASE status = "NO_MATCH" -> AJ_ErrServiceUnknown
                 [] status = "SECURITY" -> AJ_ErrSecurityViolation
                 [] OTHER -> AJ_ErrRejected
      clear(w) == IF status = "SECURITY" THEN [w EXCEPT !.buf[3] = Byte(0)] ELSE w
  IN Then(Compose(d, Answer(AJ_MSG_ERROR, r, error, <<>>), n), clear)

(***************************************************************************)
(* What a member requires, and what a path is above of, said without the   *)
(* code's operators; and a message as it was meant.                        *)
(***************************************************************************)
ObjectsIn(L) == UNION {{L[l][n] : n \in DOMAIN L[l]} : l \in DOMAIN L}
Below(path, o) == o = path \/ IsPrefix((IF path = Root THEN path ELSE Append(path, Slash)), o)
Protected(L, id) ==
  LET o == ObjectOf(L, id)
      above == {q \in ObjectsIn(L) : Below(q.path, o.path) /\ "IS_PROXY" \notin q.flags}
  IN IfaceOf(L, id).mark = "$"
     \/ (IfaceOf(L, id).mark # "#" /\ \E q \in above \cup {o} : "SECURE" \in q.flags)
NameBelow(path, o) ==
  LET start == IF path = Root THEN 2 ELSE Len(path) + 2
      ends == {j \in start..Len(o) : (j = Len(o) \/ o[j + 1] = Slash) /\ \A i \in start..j : o[i] # Slash}
  IN IF Below(path, o) THEN {SubSeq(o, start, j) : j \in ends} ELSE {}
NamesBelow(L, path) ==
  UNION {NameBelow(path, o.path) : o \in {o \in ObjectsIn(L) : o.flags \cap NotShown = {}}}

Meant(d, m, w, call) ==
  LET init == AJ_InitMessageFromMsgId(lists[d], m.id, m.type)
  IN [type |-> m.type, id |-> init.id, path |-> init.path, iface |-> init.iface, member |-> init.member,
      sig |-> init.sig, answers |-> m.answers, call |-> call, told |-> w.told, wire |-> w.sent,
      sealed |-> w.sealed, below |-> m.below,
      secret |-> w.told # <<>> /\ m.about # InvalidMsgId /\ Protected(lists[d], m.about)]
Nothing == [type |-> 0, id |-> InvalidMsgId, told |-> <<>>, wire |-> <<>>, sealed |-> <<>>, below |-> <<>>,
            secret |-> FALSE]
Posted(q, d, m, w, call) ==
  IF w.status = "OK" THEN [q EXCEPT ![Other(d)] = Append(@, Meant(d, m, w, call))] ELSE q

(***************************************************************************)
(* What an application does on its own.                                    *)
(***************************************************************************)
HasNext(d, op) == script[d] # <<>> /\ Head(script[d]).op = op
Done(d) == script' = [script EXCEPT ![d] = Tail(@)]

\* A method call or a signal.  An argument that cannot be marshaled releases the reply context.
Send(d) ==
  /\ HasNext(d, "send") /\ Done(d)
  /\ LET m == Head(script[d]).msg
         waits == m.type = AJ_MSG_METHOD_CALL /\ ~HasFlag(m.flags, AJ_FLAG_NO_REPLY_EXPECTED)
     IN \E w \in {Said(d, m, serial[d])} : \E x \in {Delivered(w, m)} :
          /\ ctx' = IF waits /\ w.status = "OK"
                    THEN [ctx EXCEPT ![d] = @ \cup {[serial |-> serial[d], id |-> m.id]}] ELSE ctx
          /\ serial' = IF w.buf = <<>> THEN serial ELSE [serial EXCEPT ![d] = @ + 1]
          /\ rx' = [rx EXCEPT ![Other(d)].net = @ \o x.sent]
          /\ coming' = Posted(coming, d, m, x, InvalidMsgId)
  /\ UNCHANGED <<order, keyed, lists, current>>

SetObjectFlags(d) ==
  /\ HasNext(d, "flags") /\ Done(d)
  /\ LET s == Head(script[d]) IN lists' = [lists EXCEPT ![d] = AJ_SetObjectFlags(@, s.path, s.set, s.clear)]
  /\ UNCHANGED <<order, keyed, ctx, serial, rx, coming, current>>

SetProxyObjectPath(d) ==
  /\ HasNext(d, "proxy") /\ Done(d)
  /\ LET s == Head(script[d]) IN lists' = [lists EXCEPT ![d] = AJ_SetProxyObjectPath(@, s.n, s.path)]
  /\ UNCHANGED <<order, keyed, ctx, serial, rx, coming, current>>

(***************************************************************************)
(* A message arrives.                                                      *)
(***************************************************************************)
\* A reply that has been unmarshaled releases the reply context, whatever it is found to be.
Released(d, r) ==
  IF r.status = "OK" /\ r.type \in {AJ_MSG_METHOD_RET, AJ_MSG_ERROR}
  THEN [ctx EXCEPT ![d] = {c \in @ : c.serial # r.replySerial}] ELSE ctx

Receive(d) ==
  /\ coming[d] # <<>> /\ ~rx[d].open
  /\ \E e \in {Head(coming[d])} : \E r \in {AJ_UnmarshalMsg(rx[d], e.sealed, keyed)} :
     \E x \in {Then(r, LAMBDA y : AJ_IdentifyMessage(lists[d], CallsOf(d), y))} :
       /\ ctx' = Released(d, r)
       /\ \/ /\ x.status = "OK"
             /\ rx' = [rx EXCEPT ![d] = x]
             /\ current' = [current EXCEPT ![d] = e]
             /\ coming' = [coming EXCEPT ![d] = Tail(@)]
             /\ UNCHANGED serial
          \/ /\ r.status = "OK" /\ Rejects(x)
             /\ \E m \in {Answer(AJ_MSG_ERROR, x, AJ_ErrRejected, <<>>)} :
                \E w \in {Delivered(StatusMsg(d, x, x.status, serial[d]), m)} :
                  /\ rx' = [rx EXCEPT ![d] = AJ_CloseMsg(x), ![Other(d)].net = @ \o w.sent]
                  /\ coming' = Posted([coming EXCEPT ![d] = Tail(@)], d, m, w, e.id)
             /\ serial' = [serial EXCEPT ![d] = @ + 1]
             /\ UNCHANGED current
          \/ /\ x.status # "OK" /\ ~(r.status = "OK" /\ Rejects(x))
             /\ rx' = [rx EXCEPT ![d] = IF x.open THEN AJ_CloseMsg(x) ELSE x]
             /\ coming' = [coming EXCEPT ![d] = Tail(@)]
             /\ UNCHANGED <<serial, current>>
  /\ UNCHANGED <<order, keyed, lists, script>>

(***************************************************************************)
(* The application reads it.                                               *)
(***************************************************************************)
IsIntrospect(r) == r.id \in IntrospectId
IsPropertyCall(r) ==
  r.type = AJ_MSG_METHOD_CALL /\ r.iface = PropertiesIface /\ r.id.member \in {AJ_PROP_GET, AJ_PROP_SET}
\* What a device does that has left its buffer is not defined.
Opened(d) == rx[d].open /\ Inside(rx[d])
Reading(d) == Opened(d) /\ rx[d].status = "OK" /\ ~IsIntrospect(rx[d]) /\ ~IsPropertyCall(rx[d])
ReadsArgs(d) == Reading(d) /\ ~rx[d].raw
Reads(d, r) == rx' = [rx EXCEPT ![d] = r]
Only(d) == UNCHANGED <<order, keyed, lists, script, ctx, serial, coming, current>>

AtClose(r) ==
  r.var = <<>> /\ r.outer # <<>>
  /\ (AtEndOfArray(r) \/ Top(r.outer).sig[1] \in {AJ_STRUCT_CLOSE, AJ_DICT_ENTRY_CLOSE})
MoreArgs(r) == ~AtClose(r) /\ AJ_NextArgSig(r) # <<>>

\* The next argument, if it is not to be entered.
ReadArg(d) ==
  /\ ReadsArgs(d) /\ MoreArgs(rx[d])
  /\ \/ IsBasicType(AJ_NextArgSig(rx[d])[1]) \/ AJ_NextArgSig(rx[d])[1] = AJ_ARG_VARIANT
     \/ AJ_NextArgSig(rx[d])[1] = AJ_ARG_ARRAY /\ IsScalarType(AJ_NextArgSig(rx[d])[2])
  /\ Reads(d, AJ_UnmarshalArg(rx[d])) /\ Only(d)

\* A container is entered, or left: an array also before its end.
ReadContainer(d) ==
  /\ ReadsArgs(d) /\ MoreArgs(rx[d]) /\ AJ_IsContainerType(AJ_NextArgSig(rx[d])[1])
  /\ Reads(d, AJ_UnmarshalContainer(rx[d], AJ_NextArgSig(rx[d])[1])) /\ Only(d)

CloseContainer(d) ==
  /\ ReadsArgs(d) /\ rx[d].outer # <<>> /\ rx[d].var = <<>>
  /\ AtClose(rx[d]) \/ Top(rx[d].outer).typ = AJ_ARG_ARRAY
  /\ Reads(d, AJ_UnmarshalCloseContainer(rx[d])) /\ Only(d)

\* All arguments by their signature, with the types the variants should have.
ReadAll(d) ==
  /\ ReadsArgs(d) /\ rx[d].heard = <<>> /\ rx[d].sig # <<>> /\ rx[d].off = 0
  /\ LET variants == SelectSeq(current[d].told, LAMBDA t : t.typ = AJ_ARG_VARIANT)
     IN Reads(d, AJ_UnmarshalArgs(rx[d], rx[d].sig, [i \in DOMAIN variants |-> variants[i].val]))
  /\ Only(d)

\* How much of what was told an argument is.
Unit(tokens) ==
  LET depth(n) == Len(SelectSeq(SubSeq(tokens, 1, n), LAMBDA t : t.op = "open"))
                  - Len(SelectSeq(SubSeq(tokens, 1, n), LAMBDA t : t.op = "close"))
      whole == {n \in DOMAIN tokens : depth(n) = 0 /\ tokens[n].typ # AJ_ARG_VARIANT}
  IN CHOOSE n \in whole : \A k \in whole : n <= k
Skipped(r, told) ==
  LET passed == Len(r.heard) + Unit(From(told, Len(r.heard)))
  IN Then(AJ_SkipArg(r), LAMBDA x : [x EXCEPT !.heard = SubSeq(told, 1, passed)])

Skip(d) ==
  /\ ReadsArgs(d) /\ MoreArgs(rx[d]) /\ rx[d].var = <<>>
  /\ Reads(d, Skipped(rx[d], current[d].told)) /\ Only(d)

\* Between two arguments the application may start again.
Reset(d) ==
  /\ ReadsArgs(d) /\ rx[d].outer = <<>> /\ rx[d].var = <<>> /\ rx[d].heard # <<>>
  /\ Reads(d, [AJ_ResetArgs(rx[d]) EXCEPT !.heard = <<>>]) /\ Only(d)

\* The bytes as they are, some or all.
ReadRaw(d) ==
  /\ Reading(d) /\ rx[d].heard = <<>> /\ rx[d].body > 0
  /\ rx[d].raw \/ rx[d].sig # <<>>
  /\ \E n \in {5, rx[d].body} : n <= rx[d].body /\ Reads(d, AJ_UnmarshalRaw(rx[d], n))
  /\ Only(d)

Close(d) ==
  /\ Opened(d)
  /\ rx' = [rx EXCEPT ![d] = AJ_CloseMsg(@)]
  /\ current' = [current EXCEPT ![d] = Nothing]
  /\ UNCHANGED <<order, keyed, lists, script, ctx, serial, coming>>

(***************************************************************************)
(* It is answered, and closed.                                             *)
(***************************************************************************)
Responds(d, r, m, w, n) ==
  /\ rx' = [rx EXCEPT ![d] = AJ_CloseMsg(r), ![Other(d)].net = @ \o w.sent]
  /\ coming' = Posted(coming, d, m, w, current[d].id)
  /\ current' = [current EXCEPT ![d] = Nothing]
  /\ serial' = [serial EXCEPT ![d] = n]
  /\ UNCHANGED <<order, keyed, lists, script, ctx>>
IsCall(d) == Opened(d) /\ rx[d].type = AJ_MSG_METHOD_CALL
Wanted(d) == IsCall(d) /\ ~HasFlag(rx[d].flags, AJ_FLAG_NO_REPLY_EXPECTED)

\* The application's handler replies, or the call is rejected.
Reply(d) ==
  /\ Wanted(d) /\ Reading(d)
  /\ LET sig == ComposeSignature(MemberOf(lists[d], rx[d].id), "out")
     IN \E m \in {Answer(AJ_MSG_METHOD_RET, rx[d], <<>>, Replies[sig]),
                  Answer(AJ_MSG_ERROR, rx[d], AJ_ErrRejected, <<>>)} :
        \E w \in {Delivered(Said(d, m, serial[d]), m)} : Responds(d, rx[d], m, w, serial[d] + 1)

\* AJ_HandleIntrospectRequest.  The reply is delivered in parts; one that would have to be
\* encrypted is not delivered.
IntrospectReply(d, m, xml) ==
  LET size(w) == AJ_MarshalRaw(w, Number(order[d], Len(xml), 4))
      text(w) == AJ_MarshalRaw(w, Bytes(xml))
      nul(w) == [AJ_MarshalRaw(w, Zeros(1)) EXCEPT !.told = <<Token("value", AJ_ARG_STRING, xml)>>]
  IN Then(Then(Then(AJ_DeliverMsgPartial(Compose(d, m, serial[d]), Len(xml) + 5), size), text), nul)

HandleIntrospect(d) ==
  /\ IsCall(d) /\ IsIntrospect(rx[d])
  /\ \/ \E obj \in Introspected(lists[d], rx[d].path) :
        \E m \in {[Answer(AJ_MSG_METHOD_RET, rx[d], <<>>, <<>>)
                     EXCEPT !.below = <<NamesBelow(lists[d], rx[d].path)>>]} :
        \E w \in {Delivered(IntrospectReply(d, m, GenXML(lists[d], obj)), m)} :
          Responds(d, rx[d], m, w, serial[d] + 1)
     \/ /\ Introspected(lists[d], rx[d].path) = {}
        /\ \E m \in {Answer(AJ_MSG_ERROR, rx[d], AJ_ErrServiceUnknown, <<>>)} :
             Responds(d, rx[d], m, Delivered(Said(d, m, serial[d]), m), serial[d] + 1)

\* Mutant: a secure property is accessed in the clear.
AJ_UnmarshalPropertyArgs_Open(L, r) ==
  IF r.status # "OK" THEN [AJ_IdentifyProperty(L, r.id, <<>>, <<>>) EXCEPT !.status = r.status]
  ELSE AJ_IdentifyProperty(L, r.id, r.args[1], r.args[2])

\* AJ_UnmarshalPropertyArgs, once the two names have been read.
AJ_UnmarshalPropertyArgs(L, r) ==
  LET bare(p) == p.secure /\ ~HasFlag(r.flags, AJ_FLAG_ENCRYPTED)
      checked(p) == IF bare(p) THEN Fail(p, "SECURITY") ELSE p
  IN IF r.status # "OK" THEN [AJ_IdentifyProperty(L, r.id, <<>>, <<>>) EXCEPT !.status = r.status]
     ELSE Then(AJ_IdentifyProperty(L, r.id, r.args[1], r.args[2]), checked)

\* PropAccess.  What it composes if the object has been disabled meanwhile is not defined.
GetProperty(d, r, p) ==
  \E m \in {[Answer(AJ_MSG_METHOD_RET, r, <<>>, <<[op |-> "variant", sig |-> p.sig],
                                                  [op |-> "arg", arg |-> Values[p.sig]]>>)
               EXCEPT !.about = p.propId]} :
  \E w \in {Delivered(Said(d, m, serial[d]), m)} : Responds(d, r, m, w, serial[d] + 1)
SetProperty(d, r, p) ==
  \E m \in {Answer(AJ_MSG_METHOD_RET, r, <<>>, <<>>)} :
  \E w \in {Delivered(Compose(d, m, serial[d]), m)} : Responds(d, r, m, w, serial[d] + 1)
RefuseProperty(d, r, status, n) ==
  \E m \in {Answer(AJ_MSG_ERROR, r, AJ_ErrRejected, <<>>)} :
  \E w \in {Delivered(StatusMsg(d, r, status, n), m)} : Responds(d, r, m, w, n + 1)

PropAccess(d) ==
  /\ IsPropertyCall(rx[d]) /\ IsCall(d) /\ UnpackMsgId(lists[d], rx[d].id) = "OK"
  /\ \E r \in {AJ_UnmarshalArgs(rx[d], <<AJ_ARG_STRING, AJ_ARG_STRING>>, <<>>)} :
     \E p \in {AJ_UnmarshalPropertyArgs(lists[d], r)} :
       IF p.status # "OK" THEN RefuseProperty(d, r, p.status, serial[d])
       ELSE IF r.id.member = AJ_PROP_GET THEN GetProperty(d, r, p)
       ELSE \E v \in {AJ_UnmarshalArg(r)} :
              IF v.arg.val = p.sig THEN SetProperty(d, AJ_UnmarshalArg(v), p)
              ELSE RefuseProperty(d, v, "SIGNATURE", serial[d] + 1)

-----------------------------------------------------------------------------
Init ==
  /\ \E c \in Cases : order = c.order /\ keyed = c.keyed /\ script = c.script
  /\ lists = ObjectLists
  /\ ctx = [d \in Device |-> {}]
  /\ serial = [d \in Device |-> 1]
  /\ rx = [d \in Device |-> NewReader(order[d])]
  /\ coming = [d \in Device |-> <<>>]
  /\ current = [d \in Device |-> Nothing]

Next ==
  \E d \in Device :
    \/ Send(d) \/ SetObjectFlags(d) \/ SetProxyObjectPath(d) \/ Receive(d)
    \/ ReadArg(d) \/ ReadContainer(d) \/ CloseContainer(d) \/ ReadAll(d) \/ Skip(d) \/ Reset(d)
    \/ ReadRaw(d) \/ Close(d) \/ Reply(d) \/ HandleIntrospect(d) \/ PropAccess(d)

Spec == Init /\ [][Next]_vars
-----------------------------------------------------------------------------
(***************************************************************************)
(* Properties.                                                             *)
(***************************************************************************)
\* The buffer never overflows, nor is it written or read beyond what has been received, unless the
\* body has been spoilt: by the conversion of an array of numbers wider than a byte that does not
\* end it, or the buffer, or by AJ_ResetArgs after an array of the other byte order was skipped.
\* What is left of the body is never more than there is.
TypeOK ==
  \A d \in Device :
    /\ Len(rx[d].buf) <= BufSize /\ rx[d].rd >= 0
    /\ Inside(rx[d]) \/ rx[d].spoilt
    /\ rx[d].body \in 0..rx[d].bodyLen
    /\ rx[d].open => rx[d].type \in 1..4 /\ rx[d].id # InvalidMsgId
    /\ \A c \in ctx[d] : c.serial \in 1..(serial[d] - 1)

\* What the application reads is what the other one said, value by value and bracket by bracket,
\* and no more and no less (AJ_MarshalArg and AJ_UnmarshalArg), in whatever way it reads, skips
\* and starts again, and whatever the byte orders, as long as the body has not been spoilt (see
\* TypeOK); so are the bytes it reads as they are.
ReadIsWritten ==
  \A d \in Device :
    LET r == rx[d]
        e == current[d]
        hdr == Len(e.wire) - r.bodyLen
    IN r.open /\ r.status = "OK" /\ ~r.spoilt =>
         /\ IsPrefix(r.heard, e.told)
         /\ r.off = Len(r.sig) /\ ~r.raw /\ r.outer = <<>> /\ r.var = <<>> => r.heard = e.told
         /\ e.wire[1] = Byte(r.order) => IsPrefix(r.rawHeard, From(e.wire, hdr))

\* After the rest of the body of the message that is being read, the messages that are still to
\* come follow, whole: no operation on a message, and no failure of one, leaves the reader in the
\* middle of another (AJ_CloseMsg, AJ_SkipArg, AJ_UnmarshalRaw), unless it has left its buffer.
FramingKept ==
  \A d \in Device : Inside(rx[d]) =>
    From(From(rx[d].buf, rx[d].rd) \o rx[d].net, rx[d].body)
      = FlattenSeq([n \in DOMAIN coming[d] |-> coming[d][n].wire])

\* The arguments of a secure member, and the value of a secure property, are encrypted, on the
\* way to the object and back (SecurityApplies, PropAccess).
NotInTheClear ==
  \A d \in Device :
    /\ \A n \in DOMAIN coming[d] : coming[d][n].secret => coming[d][n].sealed # <<>>
    /\ current[d].secret => current[d].sealed # <<>>

\* An introspection reply names each child that is shown exactly once: those of which objects,
\* or only the objects below them, are registered (ChildPath, FirstInstance).
ChildrenIn(xml) ==
  LET tags == {i \in DOMAIN xml : xml[i] \in NodeTag..ChildTag}
      end(i) == CHOOSE j \in tags : j > i /\ \A k \in tags : k > i => j <= k
  IN [i \in {i \in tags : xml[i] = ChildTag} |-> SubSeq(xml, i + 1, end(i) - 1)]
ChildrenListed ==
  \A d \in Device : \A n \in DOMAIN coming[d] :
    LET e == coming[d][n]
        children == ChildrenIn(e.told[1].val)
    IN e.below # <<>> =>
         /\ {children[i] : i \in DOMAIN children} = e.below[1]
         /\ Cardinality(DOMAIN children) = Cardinality(e.below[1])

\* A call or signal is handed to the application if and only if an object that is enabled has the
\* member and the signature it was sent with, and it was encrypted if the member is secure, with a
\* key that is known; it gets the identifier of that member.  A reply is handed over if and only if
\* it answers a call that waits for it, with the same conditions, under the identifier of the reply
\* to that call (AJ_IdentifyMessage).
Denotes(L, e, id) ==
  LET o == ObjectOf(L, id)
      m == MemberOf(L, id)
  IN /\ "DISABLED" \notin o.flags /\ IfaceOf(L, id).name = e.iface /\ m.name = e.member
     /\ o.path = e.path \/ o.path = (IF e.type = AJ_MSG_SIGNAL THEN AnySignal ELSE AnyMethod)
     /\ m.type = IF e.type = AJ_MSG_SIGNAL THEN "SIGNAL" ELSE "METHOD"
     /\ ComposeSignature(m, IF e.type = AJ_MSG_SIGNAL THEN "out" ELSE "in") = e.sig
Ids(L) == {id \in {MsgId(l, o, i, m) : l \in 1..3, o \in 1..8, i \in 1..4, m \in 1..6} : InRange(L, id)}
Answers(d, e, id) ==
  /\ [serial |-> e.answers[1], id |-> id] \in ctx[d] /\ id = e.call
  /\ "DISABLED" \notin ObjectOf(lists[d], id).flags
  /\ e.type = AJ_MSG_ERROR \/ ComposeSignature(MemberOf(lists[d], id), "out") = e.sig
MayBe(d, e) ==
  {id \in Ids(lists[d]) : /\ IF e.answers = <<>> THEN Denotes(lists[d], e, id) ELSE Answers(d, e, id)
                          /\ Protected(lists[d], id) => e.sealed # <<>>
                          /\ e.sealed # <<>> => keyed}
Understood ==
  [][\A d \in Device : Len(coming'[d]) < Len(coming[d]) =>
       LET e == Head(coming[d])
           ids == {IF e.answers = <<>> THEN id ELSE AJ_REPLY_ID(id) : id \in MayBe(d, e)}
       IN IF rx'[d].open THEN rx'[d].id \in ids ELSE ids = {}]_vars
=============================================================================
