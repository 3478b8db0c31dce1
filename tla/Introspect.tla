----------------------------- MODULE Introspect -----------------------------
(***************************************************************************)
(* Objects, interfaces and members, and how a message is matched with      *)
(* them: src/aj_introspect.c.  The object lists L are three sequences of   *)
(* objects: the standard ones, those of the application and its proxies.   *)
(*                                                                         *)
(* An object has a path, flags and interfaces; an interface has the mark   *)
(* its description begins with ("$", "#" or none), a name and members; a   *)
(* member has a type, a name and arguments, each with a direction and a    *)
(* signature, and a property an access character and a signature.  A       *)
(* message is any record with the fields of AJ_Message that are used here. *)
(***************************************************************************)
EXTENDS Wire
LOCAL INSTANCE SequencesExt

CONSTANT PropertiesIface   \* the name of the interface of Get and Set

Slash == 47
Star == 42
Root == <<Slash>>
AnyMethod == <<63>>   \* the object path "?"
AnySignal == <<33>>   \* the object path "!"
WRITE_ONLY == 60
READ_WRITE == 61
READ_ONLY  == 62
MaxSignature == 31    \* msgSignature in AJ_InitMessageFromMsgId

(***************************************************************************)
(* The object lists.                                                       *)
(***************************************************************************)
\* AJ_InitObjectIterator and AJ_NextObject: the places <<list, n>> of the objects without any
\* of some flags.  Of an object in the list of proxies only one flag is looked at.
FlagsAt(L, l, n) == IF l = 3 THEN L[l][n].flags \cap {"IS_PROXY"} ELSE L[l][n].flags
Places(L) == FlattenSeq([l \in DOMAIN L |-> [n \in DOMAIN L[l] |-> <<l, n>>]])
Objects(L, without) == SelectSeq(Places(L), LAMBDA p : FlagsAt(L, p[1], p[2]) \cap without = {})
ObjectAt(L, p) == L[p[1]][p[2]]
NotShown == {"HIDDEN", "DISABLED", "IS_PROXY"}

\* ChildPath: the name of the child of a path through which another path goes, if any.
ChildPath(parent, path) ==
  LET p == IF parent = Root THEN <<>> ELSE parent
      rest == From(path, Len(p) + 1)
      ends == {i \in DOMAIN rest : rest[i] = Slash}
      end == IF ends = {} THEN Len(rest) ELSE (CHOOSE i \in ends : \A j \in ends : i <= j) - 1
  IN IF IsPrefix(Append(p, Slash), path) THEN SubSeq(rest, 1, end) ELSE <<>>

\* FirstInstance: of the objects shown, the first that makes a name a child of a path.
FirstInstance(L, path, child) ==
  SelectSeq(Objects(L, NotShown), LAMBDA p : ChildPath(path, ObjectAt(L, p).path) = child)[1]

\* Mutant: the objects below a secure object are not.
SecurityApplies_Own(L, mark, obj) == mark # "#" /\ (mark = "$" \/ "SECURE" \in obj.flags)

SecurityApplies(L, mark, obj) ==
  /\ mark # "#"
  /\ \/ mark = "$" \/ "SECURE" \in obj.flags
     \/ \E n \in DOMAIN Objects(L, {"IS_PROXY"}) :
          LET above == ObjectAt(L, Objects(L, {"IS_PROXY"})[n])
          IN "SECURE" \in above.flags /\ ChildPath(above.path, obj.path) # <<>>

\* AJ_SetObjectFlags, for an object of the application and all below it.
AJ_SetObjectFlags(L, path, set, clear) ==
  LET concerned(o) == o.path = path \/ ChildPath(path, o.path) # <<>>
  IN [L EXCEPT ![2] = [n \in DOMAIN @ |-> IF concerned(@[n])
                                          THEN [@[n] EXCEPT !.flags = (@ \ clear) \cup set] ELSE @[n]]]

\* AJ_SetProxyObjectPath.
AJ_SetProxyObjectPath(L, n, path) == [L EXCEPT ![3][n].path = path]

(***************************************************************************)
(* Signatures of members.                                                  *)
(***************************************************************************)
\* ComposeSignature, for the arguments of a direction.
ComposeSignature(member, direction) ==
  IF member.type = "PROPERTY" THEN member.sig
  ELSE FlattenSeq([i \in DOMAIN SelectSeq(member.args, LAMBDA a : a.dir = direction) |->
                     SelectSeq(member.args, LAMBDA a : a.dir = direction)[i].sig])

DirectionOf(type) == IF type = AJ_MSG_METHOD_CALL THEN "in" ELSE "out"

\* Mutant: the direction is that of a call.
CheckSignature_In(member, msg) == msg.sig = ComposeSignature(member, "in")

CheckSignature(member, msg) ==
  (msg.sig # <<>> /\ msg.sig[1] = Star) \/ msg.sig = ComposeSignature(member, DirectionOf(msg.type))

(***************************************************************************)
(* Which member a message is for.                                          *)
(***************************************************************************)
MatchPath(path, msg) ==
  \/ path = AnyMethod /\ msg.type = AJ_MSG_METHOD_CALL
  \/ path = AnySignal /\ msg.type = AJ_MSG_SIGNAL
  \/ path = msg.path

MatchMember(member, msg) ==
  /\ member.type = IF msg.type = AJ_MSG_METHOD_CALL THEN "METHOD" ELSE "SIGNAL"
  /\ member.name = msg.member

\* FindInterface: the index of an interface by its name, 0 if there is none.
FindInterface(ifaces, name) ==
  LET found == {i \in DOMAIN ifaces : ifaces[i].name = name}
  IN IF found = {} THEN 0 ELSE CHOOSE i \in found : \A j \in found : i <= j

Candidates(L, msg) ==
  LET of(p) == LET o == ObjectAt(L, p)
                   i == FindInterface(o.ifaces, msg.iface)
               IN IF "DISABLED" \in o.flags \/ ~MatchPath(o.path, msg) \/ i = 0 THEN <<>>
                  ELSE [m \in DOMAIN o.ifaces[i].members |-> MsgId(p[1], p[2], i, m)]
  IN FlattenSeq([n \in DOMAIN Places(L) |-> of(Places(L)[n])])

ObjectOf(L, id) == L[id.list][id.obj]
IfaceOf(L, id) == ObjectOf(L, id).ifaces[id.iface]
MemberOf(L, id) == IfaceOf(L, id).members[id.member]
SecureId(L, id) == SecurityApplies(L, IfaceOf(L, id).mark, ObjectOf(L, id))

\* AJ_LookupMessageId: the first member that matches decides.
AJ_LookupMessageId(L, msg) ==
  LET matching == SelectSeq(Candidates(L, msg), LAMBDA id : MatchMember(MemberOf(L, id), msg))
  IN IF matching = <<>> THEN [status |-> "NO_MATCH", id |-> InvalidMsgId, secure |-> FALSE]
     ELSE [status |-> IF CheckSignature(MemberOf(L, matching[1]), msg) THEN "OK" ELSE "SIGNATURE",
           id |-> matching[1], secure |-> SecureId(L, matching[1])]

\* UnpackMsgId: "INVALID" if there is no such member or its object is disabled.
InRange(L, id) ==
  /\ id.list \in DOMAIN L /\ id.obj \in DOMAIN L[id.list]
  /\ id.iface \in DOMAIN ObjectOf(L, id).ifaces /\ id.member \in DOMAIN IfaceOf(L, id).members
UnpackMsgId(L, id) ==
  IF InRange(L, id) /\ "DISABLED" \notin ObjectOf(L, id).flags THEN "OK" ELSE "INVALID"

(***************************************************************************)
(* What the identifier of a message says of it when it is composed.        *)
(***************************************************************************)
\* AJ_InitMessageFromMsgId, for a call or a signal: its path, interface, member and signature.
InitCall(L, id, type) ==
  LET o == ObjectOf(L, id)
      path == IF o.path = <<Star>> THEN Root ELSE o.path
  IN [status |-> IF path = <<>> \/ path[1] # Slash THEN "OBJECT_PATH" ELSE "OK", id |-> id,
      secure |-> SecureId(L, id), path |-> path, iface |-> IfaceOf(L, id).name,
      member |-> MemberOf(L, id).name, sig |-> ComposeSignature(MemberOf(L, id), DirectionOf(type))]

\* The same for a reply or an error.
InitReply(L, id, type) ==
  LET known == id # InvalidMsgId
  IN [status |-> "OK", id |-> AJ_REPLY_ID(id), secure |-> known /\ SecureId(L, id), path |-> <<>>,
      iface |-> <<>>, member |-> <<>>,
      sig |-> IF type = AJ_MSG_ERROR THEN <<>> ELSE ComposeSignature(MemberOf(L, id), "out")]

AJ_InitMessageFromMsgId(L, id, type) ==
  LET failed == UnpackMsgId(L, id) # "OK" /\ ~(type = AJ_MSG_ERROR /\ id = InvalidMsgId)
      r == IF type \in {AJ_MSG_METHOD_RET, AJ_MSG_ERROR} THEN InitReply(L, id, type)
           ELSE InitCall(L, id, type)
  IN CASE failed -> [status |-> "INVALID"]
       [] ~failed /\ Len(r.sig) > MaxSignature -> [status |-> "RESOURCES"]
       [] OTHER -> r

(***************************************************************************)
(* What a message that has arrived is.  C has the calls that wait for a    *)
(* reply: the identifier of each by its serial number.                     *)
(***************************************************************************)
CheckReturnSignature(L, msg, id) ==
  CASE UnpackMsgId(L, id) # "OK" -> "INVALID"
    [] UnpackMsgId(L, id) = "OK" /\ SecureId(L, id) /\ ~HasFlag(msg.flags, AJ_FLAG_ENCRYPTED) -> "SECURITY"
    [] OTHER -> IF msg.type = AJ_MSG_ERROR \/ CheckSignature(MemberOf(L, id), msg) THEN "OK"
                ELSE "SIGNATURE"

IdentifyCall(L, msg) ==
  LET found == AJ_LookupMessageId(L, msg)
      bare == found.secure /\ ~HasFlag(msg.flags, AJ_FLAG_ENCRYPTED)
  IN [msg EXCEPT !.id = found.id,
                 !.status = IF found.status = "OK" /\ bare THEN "SECURITY" ELSE found.status]

IdentifyReply(L, C, msg) ==
  LET status == CheckReturnSignature(L, msg, C[msg.replySerial])
  IN IF msg.replySerial \notin DOMAIN C THEN Fail(msg, "NO_MATCH")
     ELSE [msg EXCEPT !.status = status,
                      !.id = IF status = "OK" THEN AJ_REPLY_ID(C[msg.replySerial]) ELSE @]

\* AJ_IdentifyMessage, but for the error it sends when it rejects a call.
AJ_IdentifyMessage(L, C, msg) ==
  IF msg.type \in {AJ_MSG_METHOD_CALL, AJ_MSG_SIGNAL} THEN IdentifyCall(L, msg)
  ELSE IdentifyReply(L, C, msg)

Rejects(msg) ==
  msg.status # "OK" /\ msg.type = AJ_MSG_METHOD_CALL /\ ~HasFlag(msg.flags, AJ_FLAG_NO_REPLY_EXPECTED)

(***************************************************************************)
(* Properties.                                                             *)
(***************************************************************************)
AJ_PROP_GET == 1
AJ_PROP_SET == 2

\* MatchProp.  The name is compared with the beginning of the encoding.
MatchProp(member, prop, op) ==
  LET encoding == member.name \o <<member.access>> \o member.sig
      rest == From(encoding, Len(prop))
  IN CASE member.type # "PROPERTY" \/ ~IsPrefix(prop, encoding) -> [status |-> "NO_MATCH"]
       [] member.type = "PROPERTY" /\ IsPrefix(prop, encoding) /\ rest # <<>>
          /\ <<op, rest[1]>> \in {<<AJ_PROP_GET, WRITE_ONLY>>, <<AJ_PROP_SET, READ_ONLY>>} ->
            [status |-> "DISALLOWED"]
       [] OTHER -> [status |-> "OK", sig |-> From(rest, 1)]

\* AJ_IdentifyProperty: of the object an identifier names.  If the interface is not known the
\* status is OK and the property is not valid.  For a property of the interface of Get and Set
\* themselves it would read a third string, where Get has nothing and Set a variant.
AJ_IdentifyProperty(L, id, iface, prop) ==
  LET o == ObjectOf(L, id)
      i == FindInterface(o.ifaces, iface)
      match(m) == MatchProp(o.ifaces[i].members[m], prop, id.member)
      matching == {m \in DOMAIN o.ifaces[i].members : match(m).status # "NO_MATCH"}
      first == CHOOSE m \in matching : \A n \in matching : m <= n
      r == [status |-> "OK", propId |-> InvalidMsgId, sig |-> <<>>, secure |-> FALSE]
      known == [r EXCEPT !.secure = SecurityApplies(L, o.ifaces[i].mark, o)]
      third == IF id.member = AJ_PROP_GET THEN "END_OF_DATA" ELSE "UNMARSHAL"
  IN CASE i = 0 -> r
       [] i # 0 /\ iface = PropertiesIface /\ ~known.secure -> Fail(r, third)
       [] i # 0 /\ (iface # PropertiesIface \/ known.secure) /\ matching = {} -> Fail(known, "NO_MATCH")
       [] i # 0 /\ matching # {} /\ match(first).status # "OK" -> Fail(known, match(first).status)
       [] OTHER -> [known EXCEPT !.propId = MsgId(id.list, id.obj, i, first), !.sig = match(first).sig]

(***************************************************************************)
(* Introspection.  The XML is a sequence of characters: one for each kind  *)
(* of tag, followed by what is named.                                      *)
(***************************************************************************)
NodeTag == 1
EndTag == 2
SecureTag == 3
IfaceTag == 4
MemberTag == 5
ChildTag == 6

\* ExpandInterfaces, for one interface.
ExpandInterface(iface) ==
  LET arg(a) == a.sig \o <<IF a.dir = "in" THEN WRITE_ONLY ELSE READ_ONLY>>
      args(m) == IF m.type = "PROPERTY" THEN m.sig \o <<m.access>>
                 ELSE FlattenSeq([i \in DOMAIN m.args |-> arg(m.args[i])])
      member(m) == <<MemberTag>> \o m.name \o args(m)
  IN <<IfaceTag>> \o iface.name \o FlattenSeq([i \in DOMAIN iface.members |-> member(iface.members[i])])

\* The names of the children of a path, each at the first object that shows it.
ChildNames_All(L, path) ==
  LET name(p) == ChildPath(path, ObjectAt(L, p).path)
      firsts == SelectSeq(Objects(L, NotShown), LAMBDA p : name(p) # <<>>)
  IN [n \in DOMAIN firsts |-> name(firsts[n])]

ChildNames(L, path) ==
  LET name(p) == ChildPath(path, ObjectAt(L, p).path)
      firsts == SelectSeq(Objects(L, NotShown),
                          LAMBDA p : name(p) # <<>> /\ FirstInstance(L, path, name(p)) = p)
  IN [n \in DOMAIN firsts |-> name(firsts[n])]

\* GenXML, for an object that is shown.
GenXML(L, obj) ==
  LET secure == IF SecurityApplies(L, "", obj) THEN <<SecureTag>> ELSE <<>>
      names == ChildNames(L, obj.path)
  IN <<NodeTag>> \o obj.path \o secure
     \o FlattenSeq([i \in DOMAIN obj.ifaces |-> ExpandInterface(obj.ifaces[i])])
     \o FlattenSeq([n \in DOMAIN names |-> <<ChildTag>> \o names[n]]) \o <<EndTag>>

\* What AJ_HandleIntrospectRequest introspects: the first object shown that has the path or is
\* below it; if it is below, an object made up for the path.
Introspected(L, path) ==
  LET found == SelectSeq(Objects(L, NotShown),
                         LAMBDA p : ObjectAt(L, p).path = path \/ ChildPath(path, ObjectAt(L, p).path) # <<>>)
      virtualObject == [path |-> path, flags |-> {}, ifaces |-> <<>>]
  IN CASE found = <<>> -> {}
       [] found # <<>> /\ ObjectAt(L, found[1]).path = path -> {ObjectAt(L, found[1])}
       [] OTHER -> {virtualObject}
=============================================================================
