----------------------------- MODULE PeerProofs -----------------------------
(***************************************************************************)
(* Theorems about Peer for any number of devices, suites, names, attempts  *)
(* and connections: its types, that an attempt has one answer, who has     *)
(* made a secret, and with whom a handshake succeeds.                      *)
(***************************************************************************)
EXTENDS Peer, WellFoundedInduction, FiniteSetTheorems, SequenceTheorems, TLAPS

Kinds == {"ExchangeGUIDs", "ExchangeSuites", "KeyExchange", "KeyAuthentication",
          "GenSessionKey", "ExchangeGroupKeys"}

Status == {"OK", "SECURITY", "TIMEOUT", "RESOURCES"}

\* A sequence of anything, as the transcripts and the queues of messages are.
IsList(s) == \E n \in Nat : s = [i \in 1..n |-> s[i]]

\* Suites that both devices have.
Shared(e, p) == {suite \in {PSK, ECDSA, NULL} : Offers(e, suite) /\ Offers(p, suite)}

\* A key of an exchange names the device that made it.
KeyOf(e) == {e} \X Nat

(***************************************************************************)
(* The invariant of a device e in the state d.                             *)
(***************************************************************************)
DeviceFields ==
  {"cb", "peerName", "peerGuid", "state", "suite", "suites", "mastersecret", "hash", "me",
   "conn", "n", "key", "nonce", "map", "secret", "calls", "attempts", "answers"}

MappingFields ==
  {"uniqueName", "serviceName", "guid", "sessionKey", "keyRole", "groupKey"}

\* A mapping is free, or of a unique name and the GUID of its device, which is another.
MappingOK(e, x) ==
  /\ DOMAIN x = MappingFields
  /\ x.serviceName \in Device \union {None}
  /\ \/ x.uniqueName = None /\ x.serviceName = None /\ x.guid = None
     \/ x.uniqueName \in UniqueName /\ x.guid = x.uniqueName[1] /\ x.guid # e

MapOK(e, map) ==
  /\ map = [i \in 1..NumNames |-> map[i]]
  /\ \A i \in 1..NumNames : MappingOK(e, map[i])

FieldsOK(e, d) ==
  /\ DOMAIN d = DeviceFields
  /\ d.me = e /\ d.conn \in Connections /\ d.n \in Nat
  /\ d.peerName \in Device \union {None}
  /\ d.peerGuid \in 0..NumNames
  /\ d.state \in {"NONE", "EXCHANGED", "SUCCESS"}
  /\ MapOK(e, d.map)

\* Each attempt has one answer at most, and that of the callback that is still to come has none.
AnswersOK(d) ==
  /\ d.attempts \in Seq(Device) /\ d.answers \in Seq(Seq(Status))
  /\ Len(d.answers) = Len(d.attempts) /\ d.cb \in 0..Len(d.attempts)
  /\ \A i \in 1..Len(d.answers) :
       Len(d.answers[i]) <= 1 /\ (d.cb = i => d.answers[i] = <<>>)

CallsOK(d) ==
  /\ IsFiniteSet(d.calls) /\ Cardinality(d.calls) <= AJ_NUM_REPLY_CONTEXTS
  /\ \A c \in d.calls : c.kind \in Kinds

\* The secrets stored are of friends, and the key pair is the device's own.
SecretsOK(e, d) ==
  /\ d.suite # NoSuite => d.key \in KeyOf(e)
  /\ DOMAIN d.secret = Device
  /\ \A p \in Device : d.secret[p] = {} \/ Earlier(d.secret[p], e, p)

Made(secret, e, p) == \E k, l \in secret : secret = {k, l} /\ k[1] = e /\ l[1] = p

\* What there is of a handshake is with its peer.
WithPeer(e, d, p) ==
  /\ d.suites \subseteq Shared(e, p)
  /\ d.suite # NoSuite => d.suite \in Shared(e, p)
  /\ d.mastersecret # {} => Made(d.mastersecret, e, p)
  /\ d.state = "SUCCESS" => Friends(e, p)

HandshakeOK(e, d) ==
  /\ d.peerGuid = 0 =>
       d.state = "NONE" /\ d.suite = NoSuite /\ d.suites = {} /\ d.mastersecret = {}
  /\ d.state = "EXCHANGED" => d.suite # NoSuite
  /\ d.state # "NONE" => d.mastersecret # {}
  /\ d.peerGuid # 0 /\ PeerOf(d) # None => WithPeer(e, d, PeerOf(d))

\* A transcript that ends with the client's message without certificates has the device's own
\* pre-shared key in it.
HashOK(e, d) ==
  /\ IsList(d.hash)
  /\ d.suite = PSK /\ Len(d.hash) >= 3 /\ d.hash[Len(d.hash)] = <<>> =>
       d.hash[Len(d.hash) - 2] = Psk[e]

DevOK(e, d) ==
  FieldsOK(e, d) /\ AnswersOK(d) /\ CallsOK(d) /\ SecretsOK(e, d) /\ HandshakeOK(e, d) /\ HashOK(e, d)

(***************************************************************************)
(* The invariant of a message from device p to device q.                   *)
(***************************************************************************)
\* The verifier of the suite with a pre-shared key covers the sender's own: the client's
\* transcript ends with it, the server's with it and the client's message.
VerifierOK(type, body, p) ==
  LET text == body.verifier[3] IN
  /\ IsList(text)
  /\ type = "call" => Len(text) >= 1 /\ text[Len(text)] = Psk[p]
  /\ type = "reply" => /\ Len(text) >= 3 /\ text[Len(text)] = <<>>
                       /\ text[Len(text) - 2] = Psk[p]

BodyOK(type, kind, body, p, q) ==
  /\ kind = "ExchangeGUIDs" => body = p
  /\ kind = "ExchangeSuites" => \A suite \in body : Offers(p, suite)
  /\ kind = "KeyExchange" => body.key \in KeyOf(p) /\ body.suite \in Shared(p, q)
  /\ kind = "KeyAuthentication" =>
       /\ body.certs = (IF body.suite = ECDSA THEN Chain[p] ELSE <<>>)
       /\ body.suite = PSK => VerifierOK(type, body, p)

MsgOK(m, q) ==
  /\ m.from \in UniqueName /\ m.from[1] # q
  /\ \/ m.type = "lost"
     \/ /\ m.type \in {"call", "reply", "error"} /\ m.kind \in Kinds
        /\ m.type # "error" => BodyOK(m.type, m.kind, m.body, m.from[1], q)

\* What a handler makes of a device in order, and what it sends.
Good(e, h) ==
  /\ DevOK(e, h.d)
  /\ \/ h.out = <<>>
     \/ \E m : h.out = <<m>> /\ m.to \in UniqueName /\ MsgOK(m, m.to[1])

\* The messages the router has for e.
InboxOK(e, messages) == IsList(messages) /\ \A i \in 1..Len(messages) : MsgOK(messages[i], e)

PeerInv ==
  /\ scene \in Scenes
  /\ DOMAIN dev = Device /\ \A e \in Device : DevOK(e, dev[e])
  /\ DOMAIN inbox = Device /\ \A e \in Device : InboxOK(e, inbox[e])

-----------------------------------------------------------------------------
\* Lists.

\* A list is a sequence of its elements.
LEMMA ListFacts ==
  ASSUME NEW s, IsList(s)
  PROVE  /\ Len(s) \in Nat /\ DOMAIN s = 1..Len(s) /\ s = [i \in 1..Len(s) |-> s[i]]
         /\ \A S : (\A i \in 1..Len(s) : s[i] \in S) => s \in Seq(S)
<1>1. PICK n \in Nat : s = [i \in 1..n |-> s[i]]
  BY DEF IsList
<1>2. ASSUME NEW S, \A i \in 1..n : s[i] \in S PROVE s \in Seq(S)
  BY <1>1, <1>2, IsASeq
<1>3. s \in Seq({s[i] : i \in 1..n})
  BY <1>2
<1>4. Len(s) = n
  BY <1>1, <1>3, LenProperties
<1> QED
  BY <1>1, <1>2, <1>4

\* A sequence is a list.
LEMMA SeqIsList ==
  ASSUME NEW S, NEW s \in Seq(S)
  PROVE  IsList(s)
BY LenProperties DEF IsList

\* Concatenation of lists.
LEMMA ListConcat ==
  ASSUME NEW s, NEW t, IsList(s), IsList(t)
  PROVE  /\ IsList(s \o t) /\ Len(s \o t) = Len(s) + Len(t)
         /\ \A i \in 1..Len(s) : (s \o t)[i] = s[i]
         /\ \A i \in 1..Len(t) : (s \o t)[Len(s) + i] = t[i]
<1> DEFINE S == {s[i] : i \in 1..Len(s)} \union {t[i] : i \in 1..Len(t)}
<1>1. s \in Seq(S) /\ t \in Seq(S) /\ Len(s) \in Nat /\ Len(t) \in Nat
  <2>1. (\A i \in 1..Len(s) : s[i] \in S) /\ (\A i \in 1..Len(t) : t[i] \in S)
    OBVIOUS
  <2> HIDE DEF S
  <2> QED
    BY <2>1, ListFacts
<1> HIDE DEF S
<1>2. /\ s \o t \in Seq(S) /\ Len(s \o t) = Len(s) + Len(t)
      /\ \A i \in 1..(Len(s) + Len(t)) : (s \o t)[i] = IF i <= Len(s) THEN s[i] ELSE t[i - Len(s)]
  BY <1>1, ConcatProperties
<1>3. IsList(s \o t)
  BY <1>2, SeqIsList
<1>4. \A i \in 1..Len(s) : i \in 1..(Len(s) + Len(t)) /\ i <= Len(s)
  BY <1>1
<1>5. \A i \in 1..Len(t) : /\ Len(s) + i \in 1..(Len(s) + Len(t)) /\ ~(Len(s) + i <= Len(s))
                           /\ Len(s) + i - Len(s) = i
  BY <1>1
<1> QED
  BY <1>2, <1>3, <1>4, <1>5

\* The rest of a list.
LEMMA ListTail ==
  ASSUME NEW s, IsList(s), s # <<>>
  PROVE  /\ IsList(Tail(s)) /\ Len(s) \in Nat /\ Len(s) >= 1 /\ Head(s) = s[1]
         /\ Len(Tail(s)) = Len(s) - 1 /\ \A i \in 1..Len(Tail(s)) : Tail(s)[i] = s[i + 1]
<1> DEFINE S == {s[i] : i \in 1..Len(s)}
<1>1. s \in Seq(S)
  BY ListFacts
<1> HIDE DEF S
<1>2. /\ Head(s) \in S /\ Tail(s) \in Seq(S) /\ Len(Tail(s)) = Len(s) - 1
      /\ \A i \in 1..Len(Tail(s)) : Tail(s)[i] = s[i + 1]
  BY <1>1, HeadTailProperties
<1>3. Head(s) = s[1] /\ Len(s) \in Nat /\ Len(s) # 0
  BY <1>1, EmptySeq, LenProperties
<1>4. IsList(Tail(s))
  BY <1>2, SeqIsList
<1> QED
  BY <1>2, <1>3, <1>4

\* Short lists.
LEMMA ShortLists ==
  /\ IsList(<<>>) /\ Len(<<>>) = 0
  /\ \A a : IsList(<<a>>) /\ Len(<<a>>) = 1 /\ <<a>>[1] = a /\ <<a>> # <<>>
  /\ \A a, b : /\ IsList(<<a, b>>) /\ Len(<<a, b>>) = 2 /\ <<a, b>>[1] = a /\ <<a, b>>[2] = b
               /\ <<a, b>> # <<>>
<1>1. <<>> \in Seq({})
  OBVIOUS
<1>2. ASSUME NEW a PROVE IsList(<<a>>) /\ Len(<<a>>) = 1
  <2>1. <<a>> \in Seq({a})
    OBVIOUS
  <2> QED
    BY <2>1, SeqIsList
<1>3. ASSUME NEW a, NEW b PROVE IsList(<<a, b>>) /\ Len(<<a, b>>) = 2
  <2>1. <<a, b>> \in Seq({a, b})
    OBVIOUS
  <2> QED
    BY <2>1, SeqIsList
<1> QED
  BY <1>1, <1>2, <1>3, SeqIsList

-----------------------------------------------------------------------------
\* The map of names.

\* LookupName finds a slot of that name, if there is one.
LEMMA Found ==
  ASSUME NEW e, NEW map, MapOK(e, map), NEW name
  PROVE  /\ LookupName(map, name) \in 0..NumNames
         /\ LookupName(map, name) # 0 =>
              /\ LookupName(map, name) \in 1..NumNames
              /\ Names(map[LookupName(map, name)], name)
         /\ \A i \in 1..NumNames : Names(map[i], name) => LookupName(map, name) # 0
<1> DEFINE named == {i \in DOMAIN map : Names(map[i], name)}
<1>1. DOMAIN map = 1..NumNames /\ NumNames \in Nat
  BY NameMapAssumption DEF MapOK
<1>2. named \subseteq 1..NumNames /\ \A i \in named : Names(map[i], name)
  BY <1>1
<1>3. ASSUME named # {} PROVE \E i \in named : \A j \in named : i <= j
  <2> DEFINE less == OpToRel(<, Nat)
  <2>1. named \subseteq Nat
    BY <1>1, <1>2
  <2>2. \A i, j \in Nat : <<i, j>> \in less <=> i < j
    BY DEF OpToRel
  <2>3. IsWellFoundedOn(less, Nat)
    BY NatLessThanWellFounded
  <2> HIDE DEF less, named
  <2>4. PICK i \in named : \A j \in named : <<j, i>> \notin less
    BY <1>3, <2>1, <2>3, WFMin, Zenon
  <2>5. \A j \in named : i <= j
    <3> SUFFICES ASSUME NEW j \in named PROVE i <= j
      OBVIOUS
    <3>1. i \in Nat /\ j \in Nat
      BY <2>1
    <3>2. ~(j < i)
      BY <2>2, <2>4, <3>1, Zenon
    <3> QED
      BY <3>1, <3>2
  <2> QED
    BY <2>5
<1>4. LookupName(map, name) = IF named = {} THEN 0 ELSE CHOOSE i \in named : \A j \in named : i <= j
  BY DEF LookupName
<1>5. \A i \in 1..NumNames : Names(map[i], name) => i \in named
  BY <1>1
<1> HIDE DEF named
<1>6. CASE named = {}
  <2>1. LookupName(map, name) = 0
    BY <1>4, <1>6
  <2> QED
    BY <1>1, <1>5, <1>6, <2>1
<1>7. CASE named # {}
  <2>1. LookupName(map, name) \in named
    BY <1>3, <1>4, <1>7
  <2>2. LookupName(map, name) \in 1..NumNames /\ Names(map[LookupName(map, name)], name)
    BY <1>2, <2>1
  <2>3. LookupName(map, name) \in 0..NumNames /\ LookupName(map, name) # 0
    BY <1>1, <2>2
  <2> QED
    BY <2>2, <2>3
<1> QED
  BY <1>6, <1>7

\* A unique name is never a well-known one, and never empty.
LEMMA UniqueNames ==
  /\ \A name \in UniqueName : name \notin Device /\ name # None /\ name[1] \in Device
  /\ \A p \in Device : p # None
  /\ \A p \in Device, c \in Connections : <<p, c>> \in UniqueName /\ <<p, c>>[1] = p
<1>1. \A name \in UniqueName : name # None /\ name[1] \in Device
  BY DEF UniqueName, None
<1> QED
  BY <1>1, PeerAssumption DEF UniqueName

\* The mapping found for a unique name is that of its device.
LEMMA FoundPeer ==
  ASSUME NEW e, NEW map, MapOK(e, map), NEW name \in UniqueName, LookupName(map, name) # 0
  PROVE  /\ LookupName(map, name) \in 1..NumNames
         /\ map[LookupName(map, name)].uniqueName = name
         /\ map[LookupName(map, name)].guid = name[1]
<1> DEFINE slot == LookupName(map, name)
<1>1. slot \in 1..NumNames /\ Names(map[slot], name) /\ MappingOK(e, map[slot])
  BY Found DEF MapOK
<1>2. name \notin Device /\ name # None
  BY UniqueNames
<1>3. map[slot].uniqueName = name
  BY <1>1, <1>2 DEF Names, MappingOK
<1> QED
  BY <1>1, <1>2, <1>3 DEF MappingOK

\* A mapping is replaced by another.
LEMMA MapChanges ==
  ASSUME NEW e, NEW map, MapOK(e, map), NEW slot \in 1..NumNames, NEW x, MappingOK(e, x)
  PROVE  MapOK(e, [map EXCEPT ![slot] = x])
BY DEF MapOK

LEMMA NoNamesOK == \A e : MapOK(e, NoNames)
BY DEF MapOK, NoNames, MappingOK, NoMapping, MappingFields

\* AJ_GUID_AddNameMapping, of a peer's unique name, after which it is found.
LEMMA AddOK ==
  ASSUME NEW e, NEW map, MapOK(e, map), NEW from \in UniqueName, from[1] # e,
         NEW serviceName \in Device \union {None}
  PROVE  /\ MapOK(e, AJ_GUID_AddNameMapping(map, from[1], from, serviceName))
         /\ SlotFor(map, from) # 0 =>
              LookupName(AJ_GUID_AddNameMapping(map, from[1], from, serviceName), from) # 0
<1> DEFINE slot == SlotFor(map, from)
           new == AJ_GUID_AddNameMapping(map, from[1], from, serviceName)
<1>1. CASE slot = 0
  BY <1>1 DEF AJ_GUID_AddNameMapping
<1>2. CASE slot # 0
  <2>1. slot \in 1..NumNames
    BY <1>2, Found DEF SlotFor
  <2>2. DOMAIN map[slot] = MappingFields
    BY <2>1 DEF MapOK, MappingOK
  <2>3. new = [map EXCEPT ![slot] = [map[slot] EXCEPT !.guid = from[1], !.uniqueName = from,
                                                      !.serviceName = serviceName]]
    BY <1>2, <2>1 DEF AJ_GUID_AddNameMapping, MapOK
  <2> DEFINE x == [map[slot] EXCEPT !.guid = from[1], !.uniqueName = from, !.serviceName = serviceName]
  <2>4. DOMAIN x = MappingFields /\ x.guid = from[1] /\ x.uniqueName = from /\ x.serviceName = serviceName
    BY <2>2 DEF MappingFields
  <2> HIDE DEF x
  <2>5. MappingOK(e, x)
    BY <2>4 DEF MappingOK
  <2>6. MapOK(e, new)
    BY <2>1, <2>3, <2>5, MapChanges DEF x
  <2>7. new[slot] = x
    BY <2>1, <2>3 DEF x, MapOK
  <2>8. LookupName(new, from) # 0
    BY <2>1, <2>4, <2>6, <2>7, Found DEF Names
  <2> QED
    BY <2>6, <2>8
<1> QED
  BY <1>1, <1>2

\* AJ_GUID_DeleteNameMapping.
LEMMA DeleteOK ==
  ASSUME NEW e, NEW map, MapOK(e, map), NEW name
  PROVE  /\ MapOK(e, AJ_GUID_DeleteNameMapping(map, name))
         /\ \A i \in 1..NumNames : AJ_GUID_DeleteNameMapping(map, name)[i].guid \in {map[i].guid, None}
<1> DEFINE slot == LookupName(map, name)
<1>1. MappingOK(e, NoMapping) /\ NoMapping.guid = None
  BY DEF MappingOK, NoMapping, MappingFields
<1>2. slot # 0 => slot \in 1..NumNames
  BY Found
<1>3. CASE slot = 0
  BY <1>3 DEF AJ_GUID_DeleteNameMapping
<1>4. CASE slot # 0
  <2>1. AJ_GUID_DeleteNameMapping(map, name) = [map EXCEPT ![slot] = NoMapping]
    BY <1>4 DEF AJ_GUID_DeleteNameMapping
  <2> HIDE DEF slot
  <2> QED
    BY <1>1, <1>2, <1>4, <2>1, MapChanges DEF MapOK
<1> QED
  BY <1>3, <1>4

\* The keys of a mapping are set: the names stay.
LEMMA KeysSet ==
  ASSUME NEW e, NEW map, MapOK(e, map), NEW name, NEW key, NEW role
  PROVE  /\ MapOK(e, AJ_SetSessionKey(map, name, key, role)) /\ MapOK(e, AJ_SetGroupKey(map, name, key))
         /\ \A i \in 1..NumNames : /\ AJ_SetSessionKey(map, name, key, role)[i].guid = map[i].guid
                                   /\ AJ_SetGroupKey(map, name, key)[i].guid = map[i].guid
<1> DEFINE slot == LookupName(map, name)
<1>1. CASE slot = 0
  BY <1>1 DEF AJ_SetSessionKey, AJ_SetGroupKey
<1>2. CASE slot # 0
  <2>1. slot \in 1..NumNames
    BY <1>2, Found
  <2>2. MappingOK(e, map[slot]) /\ DOMAIN map = 1..NumNames
    BY <2>1 DEF MapOK
  <2> DEFINE x == [map[slot] EXCEPT !.sessionKey = key, !.keyRole = role]
             y == [map[slot] EXCEPT !.groupKey = key]
  <2>3. /\ AJ_SetSessionKey(map, name, key, role) = [map EXCEPT ![slot] = x]
        /\ AJ_SetGroupKey(map, name, key) = [map EXCEPT ![slot] = y]
    BY <1>2, <2>1, <2>2 DEF AJ_SetSessionKey, AJ_SetGroupKey
  <2>4. /\ DOMAIN x = MappingFields /\ DOMAIN y = MappingFields
        /\ x.guid = map[slot].guid /\ x.uniqueName = map[slot].uniqueName
        /\ x.serviceName = map[slot].serviceName
        /\ y.guid = map[slot].guid /\ y.uniqueName = map[slot].uniqueName
        /\ y.serviceName = map[slot].serviceName
    BY <2>2 DEF MappingOK, MappingFields
  <2> HIDE DEF slot, x, y
  <2>5. MappingOK(e, x) /\ MappingOK(e, y)
    BY <2>2, <2>4 DEF MappingOK
  <2>6. /\ MapOK(e, [map EXCEPT ![slot] = x]) /\ MapOK(e, [map EXCEPT ![slot] = y])
    BY <2>1, <2>5, MapChanges
  <2>7. \A i \in 1..NumNames : /\ [map EXCEPT ![slot] = x][i].guid = map[i].guid
                               /\ [map EXCEPT ![slot] = y][i].guid = map[i].guid
    BY <2>1, <2>2, <2>4
  <2> QED
    BY <2>3, <2>6, <2>7
<1> QED
  BY <1>1, <1>2

-----------------------------------------------------------------------------
\* The device between handlers.

\* A device without a handshake.
LEMMA IdleOK ==
  ASSUME NEW e \in Device, NEW d, DevOK(e, d), NEW c, DOMAIN c = DeviceFields,
         c.me = e, c.conn \in Connections, c.n \in Nat,
         c.peerName = None, c.peerGuid = 0, c.state = "NONE", c.suite = NoSuite, c.suites = {},
         c.mastersecret = {}, c.hash = <<>>, MapOK(e, c.map), c.secret = d.secret,
         CallsOK(c), AnswersOK(c)
  PROVE  DevOK(e, c)
<1>1. FieldsOK(e, c)
  BY NameMapAssumption DEF FieldsOK
<1>2. SecretsOK(e, c)
  BY DEF DevOK, SecretsOK
<1>3. HandshakeOK(e, c)
  BY DEF HandshakeOK
<1>4. HashOK(e, c)
  BY ShortLists DEF HashOK
<1> QED
  BY <1>1, <1>2, <1>3, <1>4 DEF DevOK

\* An answer for the attempt whose callback is to come.
LEMMA AnswerAttempt ==
  ASSUME NEW d, AnswersOK(d), NEW status \in Status, NEW c, c.attempts = d.attempts, c.cb = 0,
         c.answers = d.answers \/
         (d.cb # 0 /\ c.answers = [d.answers EXCEPT ![d.cb] = Append(d.answers[d.cb], status)])
  PROVE  AnswersOK(c)
<1>1. /\ d.attempts \in Seq(Device) /\ d.answers \in Seq(Seq(Status))
      /\ Len(d.answers) = Len(d.attempts) /\ d.cb \in 0..Len(d.attempts)
      /\ Len(d.attempts) \in Nat
  BY LenProperties DEF AnswersOK
<1>2. CASE c.answers = d.answers
  <2>1. \A i \in 1..Len(d.answers) : Len(d.answers[i]) <= 1 /\ i # 0
    BY <1>1 DEF AnswersOK
  <2> QED
    BY <1>1, <1>2, <2>1 DEF AnswersOK
<1>3. CASE d.cb # 0 /\ c.answers = [d.answers EXCEPT ![d.cb] = Append(d.answers[d.cb], status)]
  <2>1. d.cb \in 1..Len(d.answers)
    BY <1>1, <1>3
  <2>2. d.answers[d.cb] = <<>>
    BY <2>1 DEF AnswersOK
  <2> DEFINE a == Append(d.answers[d.cb], status)
  <2>3. a \in Seq(Status) /\ Len(a) = 1
    BY <2>2, AppendProperties, EmptySeq
  <2> HIDE DEF a
  <2>4. /\ c.answers \in Seq(Seq(Status)) /\ Len(c.answers) = Len(d.answers)
        /\ \A i \in 1..Len(d.answers) : c.answers[i] = IF i = d.cb THEN a ELSE d.answers[i]
    <3>1. c.answers = [d.answers EXCEPT ![d.cb] = a]
      BY <1>3 DEF a
    <3> DEFINE S == Seq(Status)
    <3>2. d.answers \in Seq(S) /\ a \in S
      BY <1>1, <2>3
    <3> HIDE DEF S
    <3>3. /\ c.answers \in Seq(S) /\ Len(c.answers) = Len(d.answers)
          /\ \A i \in 1..Len(d.answers) : c.answers[i] = IF i = d.cb THEN a ELSE d.answers[i]
      BY <2>1, <3>1, <3>2, ExceptSeq
    <3> QED
      BY <3>3 DEF S
  <2>5. ASSUME NEW i \in 1..Len(c.answers) PROVE Len(c.answers[i]) <= 1 /\ i # 0
    <3>1. i \in 1..Len(d.answers)
      BY <2>4
    <3>2. i # 0 /\ Len(d.answers[i]) <= 1
      <4>1. Len(d.answers[i]) <= 1
        BY <3>1 DEF AnswersOK
      <4> QED
        BY <4>1
    <3>3. c.answers[i] = a \/ c.answers[i] = d.answers[i]
      BY <2>4, <3>1
    <3> QED
      BY <2>3, <3>2, <3>3
  <2> QED
    BY <1>1, <2>4, <2>5 DEF AnswersOK
<1> QED
  BY <1>2, <1>3

\* AJ_ClearAuthContext and HandshakeComplete.
LEMMA CompleteOK ==
  ASSUME NEW e \in Device, NEW d, DevOK(e, d), NEW status \in Status
  PROVE  /\ DevOK(e, AJ_ClearAuthContext(d)) /\ AJ_ClearAuthContext(d).peerGuid = 0
         /\ DevOK(e, HandshakeComplete(d, status)) /\ HandshakeComplete(d, status).peerGuid = 0
<1>1. DOMAIN d = DeviceFields /\ AnswersOK(d) /\ FieldsOK(e, d) /\ CallsOK(d)
  BY DEF DevOK, FieldsOK
<1> DEFINE b == IF d.cb = 0 THEN d ELSE [d EXCEPT !.answers[d.cb] = Append(@, status)]
<1>2. /\ DOMAIN b = DeviceFields
      /\ \A f \in DeviceFields \ {"answers"} : b[f] = d[f]
      /\ b.answers = d.answers \/
         (d.cb # 0 /\ b.answers = [d.answers EXCEPT ![d.cb] = Append(d.answers[d.cb], status)])
  BY <1>1 DEF DeviceFields
<1>3. HandshakeComplete(d, status) = AJ_ClearAuthContext(b)
  BY DEF HandshakeComplete
<1> HIDE DEF b
<1>4. ASSUME NEW a, DOMAIN a = DeviceFields, \A f \in DeviceFields \ {"answers"} : a[f] = d[f],
             \/ a.answers = d.answers
             \/ d.cb # 0 /\ a.answers = [d.answers EXCEPT ![d.cb] = Append(d.answers[d.cb], status)]
      PROVE  DevOK(e, AJ_ClearAuthContext(a)) /\ AJ_ClearAuthContext(a).peerGuid = 0
  <2> DEFINE c == AJ_ClearAuthContext(a)
  <2>1. /\ DOMAIN c = DeviceFields /\ c.cb = 0 /\ c.peerName = None /\ c.peerGuid = 0
        /\ c.state = "NONE" /\ c.suite = NoSuite /\ c.suites = {} /\ c.mastersecret = {} /\ c.hash = <<>>
    BY <1>4 DEF AJ_ClearAuthContext, DeviceFields
  <2>2. /\ c.me = d.me /\ c.conn = d.conn /\ c.n = d.n /\ c.map = d.map /\ c.secret = d.secret
        /\ c.calls = d.calls /\ c.attempts = d.attempts /\ c.answers = a.answers
    BY <1>4 DEF AJ_ClearAuthContext, DeviceFields
  <2> HIDE DEF c
  <2>3. AnswersOK(c)
    <3>1. c.attempts = d.attempts /\ c.cb = 0
      BY <2>1, <2>2
    <3>2. \/ c.answers = d.answers
          \/ d.cb # 0 /\ c.answers = [d.answers EXCEPT ![d.cb] = Append(d.answers[d.cb], status)]
      BY <1>4, <2>2
    <3> QED
      BY <1>1, <3>1, <3>2, AnswerAttempt
  <2>4. CallsOK(c)
    BY <1>1, <2>2 DEF CallsOK
  <2> QED
    BY <1>1, <2>1, <2>2, <2>3, <2>4, IdleOK DEF FieldsOK, c
<1> QED
  BY <1>1, <1>2, <1>3, <1>4

\* What HandshakeTimeout leaves: no handshake, unless one is in progress.
LEMMA TimeoutOK ==
  ASSUME NEW e \in Device, NEW d, DevOK(e, d), NEW late
  PROVE  /\ DevOK(e, AfterTimeout(d, late))
         /\ ~InProgress(d, late) => AfterTimeout(d, late).peerGuid = 0
<1>1. "TIMEOUT" \in Status
  BY DEF Status
<1>2. /\ DevOK(e, HandshakeComplete(d, "TIMEOUT"))
      /\ HandshakeComplete(d, "TIMEOUT").peerGuid = 0
  BY <1>1, CompleteOK
<1> QED
  BY <1>2 DEF AfterTimeout, InProgress

\* A change that is none of the handshake's.
LEMMA SameHandshake ==
  ASSUME NEW e \in Device, NEW d, DevOK(e, d), NEW c, DOMAIN c = DeviceFields,
         \A f \in DeviceFields \ {"n", "nonce", "map", "calls"} : c[f] = d[f],
         c.n \in Nat, MapOK(e, c.map), CallsOK(c),
         d.peerGuid # 0 => c.map[d.peerGuid].guid \in {d.map[d.peerGuid].guid, None}
  PROVE  DevOK(e, c)
<1>1. /\ c.cb = d.cb /\ c.peerName = d.peerName /\ c.peerGuid = d.peerGuid /\ c.state = d.state
      /\ c.suite = d.suite /\ c.suites = d.suites /\ c.mastersecret = d.mastersecret
      /\ c.hash = d.hash /\ c.me = d.me /\ c.conn = d.conn /\ c.key = d.key /\ c.secret = d.secret
      /\ c.attempts = d.attempts /\ c.answers = d.answers
  BY DEF DeviceFields
<1>2. FieldsOK(e, c)
  BY <1>1 DEF DevOK, FieldsOK
<1>3. AnswersOK(c)
  BY <1>1 DEF DevOK, AnswersOK
<1>4. SecretsOK(e, c)
  BY <1>1 DEF DevOK, SecretsOK
<1>5. HashOK(e, c)
  BY <1>1 DEF DevOK, HashOK
<1>6. HandshakeOK(e, c)
  BY <1>1 DEF DevOK, HandshakeOK, WithPeer, PeerOf
<1> QED
  BY <1>2, <1>3, <1>4, <1>5, <1>6 DEF DevOK

-----------------------------------------------------------------------------
\* What handlers are made of.

\* The calls awaiting a reply.
LEMMA CallsChange ==
  ASSUME NEW d, CallsOK(d)
  PROVE  /\ \A kind \in Kinds : \A id : Cardinality(d.calls) < AJ_NUM_REPLY_CONTEXTS =>
              /\ IsFiniteSet(d.calls \union {[id |-> id, kind |-> kind]})
              /\ Cardinality(d.calls \union {[id |-> id, kind |-> kind]}) <= AJ_NUM_REPLY_CONTEXTS
              /\ \A c \in d.calls \union {[id |-> id, kind |-> kind]} : c.kind \in Kinds
         /\ \A S : /\ IsFiniteSet(d.calls \ S)
                   /\ Cardinality(d.calls \ S) <= AJ_NUM_REPLY_CONTEXTS
                   /\ \A c \in d.calls \ S : c.kind \in Kinds
<1>1. IsFiniteSet(d.calls) /\ Cardinality(d.calls) \in Nat /\ Cardinality(d.calls) <= 2
  BY FS_CardinalityType DEF CallsOK, AJ_NUM_REPLY_CONTEXTS
<1>2. ASSUME NEW kind \in Kinds, NEW id, Cardinality(d.calls) < AJ_NUM_REPLY_CONTEXTS
      PROVE  /\ IsFiniteSet(d.calls \union {[id |-> id, kind |-> kind]})
             /\ Cardinality(d.calls \union {[id |-> id, kind |-> kind]}) <= AJ_NUM_REPLY_CONTEXTS
             /\ \A c \in d.calls \union {[id |-> id, kind |-> kind]} : c.kind \in Kinds
  <2> DEFINE new == [id |-> id, kind |-> kind]
  <2>1. /\ IsFiniteSet(d.calls \union {new})
        /\ \/ Cardinality(d.calls \union {new}) = Cardinality(d.calls)
           \/ Cardinality(d.calls \union {new}) = Cardinality(d.calls) + 1
    BY <1>1, FS_AddElement
  <2>2. new.kind = kind
    OBVIOUS
  <2> HIDE DEF new
  <2>3. Cardinality(d.calls \union {new}) <= 2
    BY <1>1, <1>2, <2>1 DEF AJ_NUM_REPLY_CONTEXTS
  <2>4. \A c \in d.calls \union {new} : c.kind \in Kinds
    BY <2>2 DEF CallsOK
  <2> QED
    BY <2>1, <2>3, <2>4 DEF new, AJ_NUM_REPLY_CONTEXTS
<1>3. ASSUME NEW S
      PROVE  /\ IsFiniteSet(d.calls \ S) /\ Cardinality(d.calls \ S) <= AJ_NUM_REPLY_CONTEXTS
             /\ \A c \in d.calls \ S : c.kind \in Kinds
  <2>1. IsFiniteSet(d.calls \ S) /\ Cardinality(d.calls \ S) <= Cardinality(d.calls)
    BY <1>1, FS_Subset
  <2>2. Cardinality(d.calls \ S) \in Nat
    BY <2>1, FS_CardinalityType
  <2> QED
    BY <1>1, <2>1, <2>2 DEF CallsOK, AJ_NUM_REPLY_CONTEXTS
<1> QED
  BY <1>2, <1>3

\* A call leaves the handshake as it is.
LEMMA CallDev ==
  ASSUME NEW e \in Device, NEW d, DevOK(e, d), NEW kind \in Kinds, NEW to, NEW seal, NEW body
  PROVE  DevOK(e, Call(d, kind, to, seal, body).d)
<1> DEFINE c == Call(d, kind, to, seal, body).d
           new == [id |-> d.n + 1, kind |-> kind]
<1>1. DOMAIN d = DeviceFields /\ d.n \in Nat /\ MapOK(e, d.map) /\ CallsOK(d)
  BY DEF DevOK, FieldsOK
<1>2. c = [d EXCEPT !.n = @ + 1, !.calls = IF Cardinality(@) < AJ_NUM_REPLY_CONTEXTS
                                           THEN @ \union {new} ELSE @]
  BY DEF Call, Does
<1> HIDE DEF c, new
<1>3. /\ DOMAIN c = DeviceFields /\ \A f \in DeviceFields \ {"n", "calls"} : c[f] = d[f]
      /\ c.n = d.n + 1 /\ c.map = d.map
      /\ c.calls = IF Cardinality(d.calls) < AJ_NUM_REPLY_CONTEXTS THEN d.calls \union {new} ELSE d.calls
  BY <1>1, <1>2 DEF DeviceFields
<1>4. CallsOK(c)
  <2>1. CASE Cardinality(d.calls) < AJ_NUM_REPLY_CONTEXTS
    <3>1. c.calls = d.calls \union {new}
      BY <1>3, <2>1
    <3>2. /\ IsFiniteSet(d.calls \union {new})
          /\ Cardinality(d.calls \union {new}) <= AJ_NUM_REPLY_CONTEXTS
          /\ \A x \in d.calls \union {new} : x.kind \in Kinds
      BY <1>1, <2>1, CallsChange DEF new
    <3> QED
      BY <3>1, <3>2 DEF CallsOK
  <2>2. CASE ~(Cardinality(d.calls) < AJ_NUM_REPLY_CONTEXTS)
    BY <1>1, <1>3, <2>2 DEF CallsOK
  <2> QED
    BY <2>1, <2>2
<1>5. DevOK(e, c)
  BY <1>1, <1>3, <1>4, SameHandshake
<1> QED
  BY <1>5 DEF c

LEMMA CallOK ==
  ASSUME NEW e \in Device, NEW d, DevOK(e, d), NEW kind \in Kinds, NEW to \in UniqueName,
         to[1] # e, NEW seal, NEW body, BodyOK("call", kind, body, e, to[1])
  PROVE  Good(e, Call(d, kind, to, seal, body))
<1> DEFINE m == [type |-> "call", kind |-> kind, id |-> d.n + 1, from |-> Me(d), to |-> to,
                 seal |-> seal, body |-> body]
<1>1. Call(d, kind, to, seal, body).out = <<m>>
  BY DEF Call, Does
<1>2. Me(d) \in UniqueName /\ Me(d)[1] = e
  BY UniqueNames DEF DevOK, FieldsOK, Me
<1>3. MsgOK(m, to[1]) /\ m.to = to
  BY <1>2 DEF MsgOK
<1> QED
  BY <1>1, <1>3, CallDev DEF Good

\* A reply, or an error, to the call m.
LEMMA AnswerOK ==
  ASSUME NEW e \in Device, NEW d, DevOK(e, d), NEW m, MsgOK(m, e), m.kind \in Kinds,
         NEW type \in {"reply", "error"}, NEW body,
         type = "reply" => BodyOK("reply", m.kind, body, e, m.from[1])
  PROVE  Good(e, Answer(d, m, type, body))
<1> DEFINE seal == IF m.seal = None THEN None ELSE AJ_GetSessionKey(d.map, m.from)
           a == [type |-> type, kind |-> m.kind, id |-> m.id, from |-> Me(d), to |-> m.from,
                 seal |-> seal, body |-> body]
<1>1. Answer(d, m, type, body).out = <<a>> /\ Answer(d, m, type, body).d = d
  BY DEF Answer, Does
<1>2. Me(d) \in UniqueName /\ Me(d)[1] = e /\ m.from \in UniqueName /\ m.from[1] # e
  BY UniqueNames DEF DevOK, FieldsOK, Me, MsgOK
<1> HIDE DEF seal
<1>3. MsgOK(a, m.from[1]) /\ a.to = m.from
  BY <1>2 DEF MsgOK
<1> QED
  BY <1>1, <1>2, <1>3 DEF Good

\* No answer at all.
LEMMA DoesOK ==
  ASSUME NEW e \in Device, NEW d, DevOK(e, d)
  PROVE  Good(e, Does(d, <<>>))
BY DEF Good, Does

\* The ways of failing.
LEMMA FailsOK ==
  ASSUME NEW e \in Device, NEW d, DevOK(e, d)
  PROVE  /\ \A status \in Status : Good(e, Fails(d, status))
         /\ \A m, error : MsgOK(m, e) /\ m.kind \in Kinds => Good(e, Error(d, m, error))
         /\ \A m : MsgOK(m, e) /\ m.kind \in Kinds => Good(e, Refuses(d, m))
         /\ \A m : Good(e, Failed(d, m))
<1>1. \A status \in Status : Good(e, Fails(d, status))
  BY CompleteOK, DoesOK DEF Fails
<1>2. \A m, error, c : MsgOK(m, e) /\ m.kind \in Kinds /\ DevOK(e, c) => Good(e, Error(c, m, error))
  BY AnswerOK DEF Error
<1>3. "SECURITY" \in Status
  BY DEF Status
<1>4. DevOK(e, HandshakeComplete(d, "SECURITY"))
  BY <1>3, CompleteOK
<1>5. \A m : MsgOK(m, e) /\ m.kind \in Kinds => Good(e, Refuses(d, m))
  BY <1>2, <1>4 DEF Refuses
<1>6. \A m : Good(e, Failed(d, m))
  <2>1. Good(e, Fails(d, "SECURITY")) /\ Good(e, Does(d, <<>>))
    BY <1>1, <1>3, DoesOK
  <2> QED
    BY <2>1 DEF Failed
<1> QED
  BY <1>1, <1>2, <1>5, <1>6

\* The peer of a handshake that is valid for a message is its sender.
LEMMA ValidPeer ==
  ASSUME NEW e \in Device, NEW d, DevOK(e, d), NEW m, MsgOK(m, e), NEW late,
         HandshakeValid(d, m.from, late)
  PROVE  /\ d.peerGuid \in 1..NumNames /\ PeerOf(d) = m.from[1]
         /\ m.from[1] \in Device /\ m.from[1] # e /\ m.from[1] # None /\ m.from \in UniqueName
         /\ WithPeer(e, d, m.from[1])
<1>1. MapOK(e, d.map) /\ m.from \in UniqueName /\ d.peerGuid # 0 /\ LookupName(d.map, m.from) = d.peerGuid
  BY DEF DevOK, FieldsOK, MsgOK, HandshakeValid, InProgress
<1>2. d.peerGuid \in 1..NumNames /\ PeerOf(d) = m.from[1]
  BY <1>1, FoundPeer DEF PeerOf
<1>3. m.from[1] \in Device /\ m.from[1] # None /\ m.from[1] # e
  BY <1>1, UniqueNames DEF MsgOK
<1>4. WithPeer(e, d, m.from[1])
  BY <1>1, <1>2, <1>3 DEF DevOK, HandshakeOK
<1> QED
  BY <1>1, <1>2, <1>3, <1>4

\* SaveMasterSecret.
LEMMA SaveOK ==
  ASSUME NEW e \in Device, NEW d, DevOK(e, d), NEW full, d.state = "SUCCESS", d.peerGuid # 0,
         PeerOf(d) \in Device, PeerOf(d) # e
  PROVE  DevOK(e, SaveMasterSecret(d, full))
<1> DEFINE p == PeerOf(d)
           c == [d EXCEPT !.secret[p] = d.mastersecret]
<1>1. /\ FieldsOK(e, d) /\ AnswersOK(d) /\ CallsOK(d) /\ SecretsOK(e, d) /\ HandshakeOK(e, d)
      /\ HashOK(e, d) /\ DOMAIN d = DeviceFields
  BY DEF DevOK, FieldsOK
<1>2. p # None /\ d.mastersecret # {} /\ WithPeer(e, d, p)
  BY <1>1, UniqueNames DEF HandshakeOK
<1>3. Earlier(d.mastersecret, e, p)
  BY <1>2 DEF WithPeer, Made, Earlier
<1>4. /\ DOMAIN c = DeviceFields /\ \A f \in DeviceFields \ {"secret"} : c[f] = d[f]
      /\ c.secret = [d.secret EXCEPT ![p] = d.mastersecret]
  BY <1>1 DEF DeviceFields
<1> HIDE DEF c, p
<1>5. /\ c.cb = d.cb /\ c.peerName = d.peerName /\ c.peerGuid = d.peerGuid /\ c.state = d.state
      /\ c.suite = d.suite /\ c.suites = d.suites /\ c.mastersecret = d.mastersecret
      /\ c.hash = d.hash /\ c.me = d.me /\ c.conn = d.conn /\ c.key = d.key /\ c.n = d.n
      /\ c.map = d.map /\ c.calls = d.calls /\ c.attempts = d.attempts /\ c.answers = d.answers
  BY <1>4 DEF DeviceFields
<1>6. SecretsOK(e, c)
  BY <1>1, <1>3, <1>4, <1>5 DEF SecretsOK
<1>7. FieldsOK(e, c) /\ AnswersOK(c) /\ CallsOK(c) /\ HashOK(e, c)
  BY <1>1, <1>4, <1>5 DEF FieldsOK, AnswersOK, CallsOK, HashOK
<1>8. HandshakeOK(e, c)
  BY <1>1, <1>5 DEF HandshakeOK, WithPeer, PeerOf
<1>9. DevOK(e, c)
  BY <1>6, <1>7, <1>8 DEF DevOK
<1> QED
  BY <1>9 DEF SaveMasterSecret, c, p

-----------------------------------------------------------------------------
\* Changes of a handshake.

\* A step of a handshake with the peer it has.
LEMMA NewHandshake ==
  ASSUME NEW e \in Device, NEW d, DevOK(e, d), d.peerGuid # 0, NEW c, DOMAIN c = DeviceFields,
         \A f \in DeviceFields \ {"n", "nonce", "key", "state", "suite", "suites", "mastersecret", "hash"} :
           c[f] = d[f],
         c.n \in Nat, c.state \in {"NONE", "EXCHANGED", "SUCCESS"},
         c.suite # NoSuite => c.key \in KeyOf(e),
         c.state = "EXCHANGED" => c.suite # NoSuite, c.state # "NONE" => c.mastersecret # {},
         WithPeer(e, c, PeerOf(d)), HashOK(e, c)
  PROVE  DevOK(e, c) /\ PeerOf(c) = PeerOf(d) /\ c.peerGuid = d.peerGuid /\ c.me = e
<1>1. /\ c.cb = d.cb /\ c.peerName = d.peerName /\ c.peerGuid = d.peerGuid
      /\ c.me = d.me /\ c.conn = d.conn /\ c.secret = d.secret /\ c.map = d.map /\ c.calls = d.calls
      /\ c.attempts = d.attempts /\ c.answers = d.answers
  BY DEF DeviceFields
<1>2. FieldsOK(e, c) /\ c.me = e
  BY <1>1 DEF DevOK, FieldsOK
<1>3. AnswersOK(c) /\ CallsOK(c)
  BY <1>1 DEF DevOK, AnswersOK, CallsOK
<1>4. SecretsOK(e, c)
  BY <1>1 DEF DevOK, SecretsOK
<1>5. PeerOf(c) = PeerOf(d)
  BY <1>1 DEF PeerOf
<1>6. HandshakeOK(e, c)
  BY <1>1, <1>5 DEF HandshakeOK
<1> QED
  BY <1>1, <1>2, <1>3, <1>4, <1>5, <1>6 DEF DevOK

\* The suites two devices share.
LEMMA SharedFacts ==
  ASSUME NEW e \in Device, NEW p \in Device
  PROVE  /\ Shared(e, p) = Shared(p, e) /\ NoSuite \notin Shared(e, p)
         /\ \A d, suites : d.me = e /\ (\A suite \in suites : Offers(p, suite)) =>
              Common(d, suites) \subseteq Shared(e, p)
         /\ \A d, suites : d.me = e => \A suite \in Common(d, suites) : Offers(e, suite)
         /\ \A d : d.me = e => \A suite \in {Suites[d.me][i] : i \in 1..Len(Suites[d.me])} : Offers(e, suite)
<1>1. Shared(e, p) = Shared(p, e) /\ NoSuite \notin Shared(e, p)
  BY DEF Shared, NoSuite, PSK, ECDSA, NULL
<1>2. \A i \in 1..Len(Suites[e]) : Suites[e][i] \in {PSK, ECDSA, NULL}
  BY KeyAuthAssumption, ElementOfSeq
<1>3. \A d, suites : d.me = e => \A suite \in Common(d, suites) : Offers(e, suite) /\ suite \in suites
                                                               /\ suite \in {PSK, ECDSA, NULL}
  BY <1>2 DEF Common, Offers
<1> QED
  BY <1>1, <1>3 DEF Shared, Offers

\* A key is not empty.
LEMMA KeyNotEmpty ==
  ASSUME NEW p, NEW key \in KeyOf(p)
  PROVE  key # <<>> /\ key[1] = p
<1>1. PICK n \in Nat : key = <<p, n>>
  BY DEF KeyOf
<1> QED
  BY <1>1, ShortLists

\* A transcript ends with what was added to it.
LEMMA HashEnds ==
  ASSUME NEW h, IsList(h), NEW u, IsList(u)
  PROVE  /\ IsList(h \o u)
         /\ Len(u) >= 1 => (h \o u)[Len(h \o u)] = u[Len(u)]
<1>1. IsList(h \o u) /\ Len(h \o u) = Len(h) + Len(u)
  BY ListConcat
<1>2. \A i \in 1..Len(u) : (h \o u)[Len(h) + i] = u[i]
  BY ListConcat
<1>3. Len(u) \in Nat /\ Len(h) \in Nat
  BY ListFacts
<1>4. Len(u) >= 1 => Len(u) \in 1..Len(u)
  BY <1>3
<1> QED
  BY <1>1, <1>2, <1>4

\* A transcript that ends with a key does not end with the client's message.
LEMMA HashKey ==
  ASSUME NEW e, NEW c, IsList(c.hash), c.hash[Len(c.hash)] # <<>>
  PROVE  HashOK(e, c)
BY DEF HashOK

\* The first of a set of numbers.
LEMMA LeastNumber ==
  ASSUME NEW S \in SUBSET Nat, S # {}
  PROVE  \E i \in S : \A j \in S : i <= j
<1> DEFINE less == OpToRel(<, Nat)
<1>1. \A i, j \in Nat : <<i, j>> \in less <=> i < j
  BY DEF OpToRel
<1>2. IsWellFoundedOn(less, Nat)
  BY NatLessThanWellFounded
<1> HIDE DEF less
<1>3. PICK i \in S : \A j \in S : <<j, i>> \notin less
  BY <1>2, WFMin, Zenon
<1>4. \A j \in S : i <= j
  <2> SUFFICES ASSUME NEW j \in S PROVE i <= j
    OBVIOUS
  <2>1. i \in Nat /\ j \in Nat
    OBVIOUS
  <2>2. ~(j < i)
    BY <1>1, <1>3, <2>1, Zenon
  <2> QED
    BY <2>1, <2>2
<1> QED
  BY <1>4

\* The mapping of a new handshake, which a stored secret completes.
LEMMA BeginsOK ==
  ASSUME NEW e \in Device, NEW d, DevOK(e, d), d.peerGuid = 0,
         NEW from \in UniqueName, from[1] # e, NEW serviceName \in Device \union {None},
         SlotFor(d.map, from) # 0
  PROVE  DevOK(e, Begins(d, from[1], from, serviceName))
<1> DEFINE p == from[1]
           map == AJ_GUID_AddNameMapping(d.map, p, from, serviceName)
           slot == LookupName(map, from)
           stored == d.secret[p]
           c == Begins(d, p, from, serviceName)
<1>1. /\ FieldsOK(e, d) /\ AnswersOK(d) /\ CallsOK(d) /\ SecretsOK(e, d) /\ HandshakeOK(e, d)
      /\ HashOK(e, d) /\ DOMAIN d = DeviceFields /\ MapOK(e, d.map) /\ p \in Device
  BY UniqueNames DEF DevOK, FieldsOK
<1>2. MapOK(e, map) /\ slot # 0
  BY <1>1, AddOK
<1>3. slot \in 1..NumNames /\ map[slot].guid = p
  BY <1>2, FoundPeer
<1>4. /\ d.state = "NONE" /\ d.suite = NoSuite /\ d.suites = {} /\ d.mastersecret = {}
      /\ stored = {} \/ Earlier(stored, e, p)
  BY <1>1 DEF HandshakeOK, SecretsOK
<1>5. /\ DOMAIN c = DeviceFields
      /\ \A f \in DeviceFields \ {"map", "peerGuid", "state", "mastersecret"} : c[f] = d[f]
      /\ c.map = map /\ c.peerGuid = slot
      /\ c.state = (IF stored # {} THEN "SUCCESS" ELSE d.state)
      /\ c.mastersecret = (IF stored # {} THEN stored ELSE d.mastersecret)
  BY <1>1 DEF DeviceFields, Begins
<1> HIDE DEF c, slot, map, stored, p
<1>6. /\ c.cb = d.cb /\ c.peerName = d.peerName /\ c.suite = d.suite /\ c.suites = d.suites
      /\ c.hash = d.hash /\ c.me = d.me /\ c.conn = d.conn /\ c.key = d.key /\ c.n = d.n
      /\ c.secret = d.secret /\ c.calls = d.calls /\ c.attempts = d.attempts /\ c.answers = d.answers
  BY <1>5 DEF DeviceFields
<1>7. FieldsOK(e, c)
  <2>1. slot \in 0..NumNames
    BY <1>3, NameMapAssumption
  <2> QED
    BY <1>1, <1>2, <1>5, <1>6, <2>1 DEF FieldsOK
<1>8. AnswersOK(c) /\ CallsOK(c) /\ SecretsOK(e, c) /\ HashOK(e, c)
  BY <1>1, <1>5, <1>6 DEF AnswersOK, CallsOK, SecretsOK, HashOK
<1>9. PeerOf(c) = p
  BY <1>3, <1>5 DEF PeerOf
<1>10. WithPeer(e, c, p)
  BY <1>4, <1>5, <1>6 DEF WithPeer, Earlier, Made
<1>11. HandshakeOK(e, c)
  BY <1>2, <1>4, <1>5, <1>6, <1>9, <1>10 DEF HandshakeOK, Earlier
<1>12. DevOK(e, c)
  BY <1>7, <1>8, <1>11 DEF DevOK
<1> QED
  BY <1>12 DEF c, p

-----------------------------------------------------------------------------
\* The steps a handshake takes of itself.

\* GenSessionKey.
LEMMA GenSessionKeyOK ==
  ASSUME NEW e \in Device, NEW d, DevOK(e, d), NEW to \in UniqueName, to[1] # e
  PROVE  Good(e, GenSessionKey(d, to))
<1> DEFINE nonce == <<d.me, d.n + 1>>
           c == [d EXCEPT !.nonce = nonce, !.n = @ + 1]
           body == [guid |-> d.me, peer |-> PeerOf(d), nonce |-> nonce]
<1>1. DOMAIN d = DeviceFields /\ d.n \in Nat /\ MapOK(e, d.map) /\ CallsOK(d)
  BY DEF DevOK, FieldsOK
<1>2. /\ DOMAIN c = DeviceFields /\ \A f \in DeviceFields \ {"n", "nonce"} : c[f] = d[f]
      /\ c.n = d.n + 1 /\ c.map = d.map /\ c.calls = d.calls
  BY <1>1 DEF DeviceFields
<1>3. GenSessionKey(d, to) = IF d.state # "SUCCESS" THEN Fails(d, "SECURITY")
                             ELSE Call(c, "GenSessionKey", to, None, body)
  BY DEF GenSessionKey
<1> HIDE DEF c, body
<1>4. CallsOK(c)
  BY <1>1, <1>2 DEF CallsOK
<1>5. DevOK(e, c)
  BY <1>1, <1>2, <1>4, SameHandshake
<1>6. BodyOK("call", "GenSessionKey", body, e, to[1]) /\ "GenSessionKey" \in Kinds
  BY DEF BodyOK, Kinds
<1>7. Good(e, Call(c, "GenSessionKey", to, None, body))
  BY <1>5, <1>6, CallOK
<1>8. Good(e, Fails(d, "SECURITY"))
  BY FailsOK DEF Status
<1> QED
  BY <1>3, <1>7, <1>8

\* ExchangeSuites.
LEMMA ExchangeSuitesOK ==
  ASSUME NEW e \in Device, NEW d, DevOK(e, d), NEW to \in UniqueName, to[1] # e
  PROVE  Good(e, ExchangeSuites(d, to))
<1> DEFINE suites == {Suites[d.me][i] : i \in 1..Len(Suites[d.me])}
           c == [d EXCEPT !.hash = <<>>]
<1>1. DOMAIN d = DeviceFields /\ d.me = e
  BY DEF DevOK, FieldsOK
<1>2. /\ DOMAIN c = DeviceFields /\ \A f \in DeviceFields \ {"hash"} : c[f] = d[f]
      /\ c.hash = <<>>
  BY <1>1 DEF DeviceFields
<1>3. \A suite \in suites : Offers(e, suite)
  BY <1>1 DEF Offers
<1>4. ExchangeSuites(d, to) = IF suites = {} THEN Fails(d, "SECURITY")
                              ELSE Call(c, "ExchangeSuites", to, None, suites)
  BY DEF ExchangeSuites
<1> HIDE DEF c, suites
<1>5. DevOK(e, c)
  <2>1. /\ c.cb = d.cb /\ c.peerName = d.peerName /\ c.peerGuid = d.peerGuid /\ c.state = d.state
        /\ c.suite = d.suite /\ c.suites = d.suites /\ c.mastersecret = d.mastersecret
        /\ c.secret = d.secret /\ c.me = d.me /\ c.conn = d.conn /\ c.key = d.key /\ c.n = d.n
        /\ c.map = d.map /\ c.calls = d.calls /\ c.attempts = d.attempts /\ c.answers = d.answers
    BY <1>2 DEF DeviceFields
  <2>2. FieldsOK(e, c) /\ AnswersOK(c) /\ CallsOK(c) /\ SecretsOK(e, c)
    BY <1>2, <2>1 DEF DevOK, FieldsOK, AnswersOK, CallsOK, SecretsOK
  <2>3. HandshakeOK(e, c)
    BY <2>1 DEF DevOK, HandshakeOK, WithPeer, PeerOf
  <2>4. HashOK(e, c)
    BY <1>2, ShortLists DEF HashOK
  <2> QED
    BY <2>2, <2>3, <2>4 DEF DevOK
<1>6. BodyOK("call", "ExchangeSuites", suites, e, to[1]) /\ "ExchangeSuites" \in Kinds
  BY <1>3 DEF BodyOK, Kinds
<1>7. Good(e, Call(c, "ExchangeSuites", to, None, suites))
  BY <1>5, <1>6, CallOK
<1>8. Good(e, Fails(d, "SECURITY"))
  BY FailsOK DEF Status
<1> QED
  BY <1>4, <1>7, <1>8

\* KeyExchange, with the first of the suites that both have.
LEMMA KeyExchangeOK ==
  ASSUME NEW e \in Device, NEW d, DevOK(e, d), d.peerGuid # 0, NEW to \in UniqueName, to[1] # e,
         PeerOf(d) = to[1], d.suites # {}
  PROVE  Good(e, KeyExchange(d, to))
<1> DEFINE p == to[1]
           first == CHOOSE i \in 1..Len(Suites[d.me]) :
                      /\ Suites[d.me][i] \in d.suites
                      /\ \A j \in 1..(i - 1) : Suites[d.me][j] \notin d.suites
           suite == Suites[d.me][first]
           c == ECDHE_Marshal(ECDHE_Init([d EXCEPT !.suite = suite, !.suites = @ \ {suite},
                                                   !.hash = <<>>]))
           body == [suite |-> suite, key |-> c.key]
<1>1. /\ DOMAIN d = DeviceFields /\ d.me = e /\ d.n \in Nat /\ p \in Device /\ p # None
      /\ d.state \in {"NONE", "EXCHANGED", "SUCCESS"}
  BY UniqueNames DEF DevOK, FieldsOK
<1>2. WithPeer(e, d, p) /\ d.suites \subseteq Shared(e, p)
      /\ (d.state # "NONE" => d.mastersecret # {})
  BY <1>1 DEF DevOK, HandshakeOK, WithPeer
<1>3. suite \in d.suites
  <2> DEFINE S == {i \in 1..Len(Suites[d.me]) : Suites[d.me][i] \in d.suites}
  <2>1. Len(Suites[e]) \in Nat
    BY KeyAuthAssumption, LenProperties
  <2>2. S # {}
    BY <1>1, <1>2 DEF Shared, Offers
  <2>3. S \in SUBSET Nat
    BY <1>1, <2>1
  <2>4. PICK i \in S : \A j \in S : i <= j
    BY <2>2, <2>3, LeastNumber
  <2>5. /\ i \in 1..Len(Suites[d.me]) /\ Suites[d.me][i] \in d.suites
        /\ \A j \in 1..(i - 1) : Suites[d.me][j] \notin d.suites
    <3>1. i \in 1..Len(Suites[d.me]) /\ Suites[d.me][i] \in d.suites
      OBVIOUS
    <3>2. ASSUME NEW j \in 1..(i - 1), Suites[d.me][j] \in d.suites PROVE FALSE
      <4>1. j \in 1..Len(Suites[d.me]) /\ j < i /\ j \in Nat /\ i \in Nat
        BY <1>1, <2>1, <3>1
      <4>2. j \in S
        BY <3>2, <4>1
      <4> QED
        BY <2>4, <4>1, <4>2
    <3> QED
      BY <3>1, <3>2
  <2> QED
    BY <2>5
<1>4. /\ DOMAIN c = DeviceFields
      /\ \A f \in DeviceFields \ {"n", "key", "suite", "suites", "hash"} : c[f] = d[f]
      /\ c.suite = suite /\ c.suites = d.suites \ {suite} /\ c.n = d.n + 1
      /\ c.key = <<e, d.n + 1>> /\ c.hash = <<>> \o <<suite, c.key>>
  BY <1>1 DEF DeviceFields, ECDHE_Init, ECDHE_Marshal, Update
<1>5. KeyExchange(d, to) = Call(c, "KeyExchange", to, None, body)
  BY DEF KeyExchange
<1>6. body.suite = suite /\ body.key = c.key
  OBVIOUS
<1> HIDE DEF body, c, suite, p
<1>7. c.key \in KeyOf(e) /\ c.state = d.state /\ c.mastersecret = d.mastersecret
  BY <1>1, <1>4 DEF KeyOf, DeviceFields
<1>8. HashOK(e, c)
  <2> DEFINE h == <<>>
             u == <<suite, c.key>>
  <2>1. IsList(h) /\ IsList(u) /\ Len(u) = 2 /\ u[2] = c.key
    BY ShortLists
  <2>2. c.hash = h \o u /\ c.key # <<>>
    BY <1>4, <1>7, KeyNotEmpty
  <2> HIDE DEF h, u
  <2>3. IsList(h \o u) /\ (Len(u) >= 1 => (h \o u)[Len(h \o u)] = u[Len(u)])
    BY <2>1, HashEnds, Zenon
  <2>4. Len(u) >= 1
    BY <2>1
  <2>5. IsList(h \o u) /\ (h \o u)[Len(h \o u)] = c.key
    BY <2>1, <2>3, <2>4, Zenon
  <2> QED
    BY <2>2, <2>5, HashKey, Zenon
<1>9. suite \in Shared(e, p) /\ suite # NoSuite
  BY <1>1, <1>2, <1>3, SharedFacts
<1>10. WithPeer(e, c, PeerOf(d))
  <2>1. WithPeer(e, c, p)
    BY <1>2, <1>4, <1>7, <1>9 DEF WithPeer
  <2> QED
    BY <2>1 DEF p
<1>11. DevOK(e, c)
  BY <1>1, <1>2, <1>4, <1>7, <1>8, <1>9, <1>10, NewHandshake
<1>12. BodyOK("call", "KeyExchange", body, e, to[1]) /\ "KeyExchange" \in Kinds
  BY <1>6, <1>7, <1>9 DEF BodyOK, Kinds, p
<1> QED
  BY <1>5, <1>11, <1>12, CallOK

-----------------------------------------------------------------------------
\* The transcript with the client's message.

\* What is in the transcript with the pre-shared key, and after the client's message.
LEMMA AfterClientFacts ==
  ASSUME NEW e \in Device, NEW d, DOMAIN d = DeviceFields, d.me = e, IsList(d.hash), NEW certs
  PROVE  /\ DOMAIN AfterClient(d, certs) = DeviceFields
         /\ \A f \in DeviceFields \ {"hash"} : AfterClient(d, certs)[f] = d[f]
         /\ IsList(WithPsk(d).hash) /\ IsList(AfterClient(d, certs).hash)
         /\ d.suite = PSK =>
              /\ Len(WithPsk(d).hash) >= 1 /\ WithPsk(d).hash[Len(WithPsk(d).hash)] = Psk[e]
              /\ Len(AfterClient(d, certs).hash) >= 3
              /\ AfterClient(d, certs).hash[Len(AfterClient(d, certs).hash)] = certs
              /\ AfterClient(d, certs).hash[Len(AfterClient(d, certs).hash) - 2] = Psk[e]
<1> DEFINE h == d.hash
           u == <<Psk[e]>>
           w == WithPsk(d)
           v == <<ClientFinished(d), certs>>
           c == AfterClient(d, certs)
           t == w.hash
<1>1. /\ DOMAIN w = DeviceFields /\ \A f \in DeviceFields \ {"hash"} : w[f] = d[f]
      /\ w.hash = IF d.suite = PSK THEN h \o u ELSE h
  BY DEF DeviceFields, WithPsk, Update
<1>2. c = [w EXCEPT !.hash = @ \o v]
  BY DEF AfterClient, Update
<1>3. IsList(u) /\ Len(u) = 1 /\ u[1] = Psk[e]
  BY ShortLists
<1>4. IsList(v) /\ Len(v) = 2 /\ v[2] = certs
  BY ShortLists
<1> HIDE DEF c, w, v, u, h
<1>5. /\ DOMAIN c = DeviceFields /\ \A f \in DeviceFields \ {"hash"} : c[f] = d[f]
      /\ c.hash = t \o v
  BY <1>1, <1>2 DEF DeviceFields
<1>6. IsList(h)
  BY DEF h
<1>7. IsList(h \o u) /\ Len(u) >= 1 /\ (h \o u)[Len(h \o u)] = Psk[e]
  <2>1. Len(u) >= 1
    BY <1>3
  <2>2. IsList(h \o u) /\ (Len(u) >= 1 => (h \o u)[Len(h \o u)] = u[Len(u)])
    BY <1>3, <1>6, HashEnds, Zenon
  <2> QED
    BY <1>3, <2>1, <2>2, Zenon
<1>8. Len(h \o u) >= 1
  <2>1. Len(h \o u) = Len(h) + Len(u) /\ Len(h) \in Nat
    BY <1>3, <1>6, ListConcat, ListFacts, Zenon
  <2> QED
    BY <1>3, <2>1
<1>9. IsList(t)
  BY <1>1, <1>6, <1>7
<1>10. d.suite = PSK => Len(t) >= 1 /\ t[Len(t)] = Psk[e]
  BY <1>1, <1>7, <1>8
<1> HIDE DEF t
<1>11. IsList(t \o v) /\ (t \o v)[Len(t \o v)] = certs
  <2>1. Len(v) >= 1
    BY <1>4
  <2>2. IsList(t \o v) /\ (Len(v) >= 1 => (t \o v)[Len(t \o v)] = v[Len(v)])
    BY <1>4, <1>9, HashEnds, Zenon
  <2> QED
    BY <1>4, <2>1, <2>2, Zenon
<1>12. /\ Len(t \o v) = Len(t) + Len(v) /\ Len(t) \in Nat
       /\ \A i \in 1..Len(t) : (t \o v)[i] = t[i]
  <2>1. Len(t \o v) = Len(t) + Len(v)
    BY <1>4, <1>9, ListConcat
  <2>2. \A i \in 1..Len(t) : (t \o v)[i] = t[i]
    BY <1>4, <1>9, ListConcat
  <2>3. Len(t) \in Nat
    BY <1>9, ListFacts
  <2> QED
    BY <2>1, <2>2, <2>3
<1>13. Len(t) >= 1 => /\ Len(t \o v) >= 3 /\ Len(t \o v) - 2 = Len(t)
                      /\ (t \o v)[Len(t)] = t[Len(t)]
  <2>1. Len(t) >= 1 => Len(t \o v) >= 3 /\ Len(t \o v) - 2 = Len(t) /\ Len(t) \in 1..Len(t)
    BY <1>4, <1>12
  <2> QED
    BY <1>12, <2>1, Zenon
<1>14. d.suite = PSK => /\ Len(t \o v) >= 3 /\ (t \o v)[Len(t \o v)] = certs
                        /\ (t \o v)[Len(t \o v) - 2] = Psk[e]
  BY <1>10, <1>11, <1>13
<1>15. /\ DOMAIN c = DeviceFields /\ (\A f \in DeviceFields \ {"hash"} : c[f] = d[f])
       /\ IsList(t) /\ IsList(c.hash)
       /\ d.suite = PSK => /\ Len(t) >= 1 /\ t[Len(t)] = Psk[e]
                           /\ Len(c.hash) >= 3 /\ c.hash[Len(c.hash)] = certs
                           /\ c.hash[Len(c.hash) - 2] = Psk[e]
  BY <1>5, <1>9, <1>10, <1>11, <1>14
<1> QED
  BY <1>15 DEF t, c, w

\* Of the device in a handshake.
LEMMA InHandshake ==
  ASSUME NEW e \in Device, NEW d, DevOK(e, d)
  PROVE  /\ DOMAIN d = DeviceFields /\ d.me = e /\ d.n \in Nat /\ MapOK(e, d.map) /\ CallsOK(d)
         /\ d.state \in {"NONE", "EXCHANGED", "SUCCESS"}
         /\ d.suite # NoSuite => d.key \in KeyOf(e)
         /\ d.state = "EXCHANGED" => d.suite # NoSuite
         /\ d.state # "NONE" => d.mastersecret # {}
         /\ IsList(d.hash) /\ HashOK(e, d)
BY DEF DevOK, FieldsOK, SecretsOK, HandshakeOK, HashOK

\* The client's message is in the transcript.
LEMMA AfterClientOK ==
  ASSUME NEW e \in Device, NEW d, DevOK(e, d), d.peerGuid # 0, WithPeer(e, d, PeerOf(d)), NEW certs
  PROVE  /\ DevOK(e, AfterClient(d, certs)) /\ PeerOf(AfterClient(d, certs)) = PeerOf(d)
         /\ AfterClient(d, certs).peerGuid = d.peerGuid
<1> DEFINE c == AfterClient(d, certs)
<1>1. /\ DOMAIN d = DeviceFields /\ d.me = e /\ d.n \in Nat /\ IsList(d.hash)
      /\ d.state \in {"NONE", "EXCHANGED", "SUCCESS"}
      /\ d.suite # NoSuite => d.key \in KeyOf(e)
      /\ d.state = "EXCHANGED" => d.suite # NoSuite
      /\ d.state # "NONE" => d.mastersecret # {}
  BY InHandshake
<1>2. DOMAIN c = DeviceFields /\ \A f \in DeviceFields \ {"hash"} : c[f] = d[f]
  BY <1>1, AfterClientFacts
<1>3. /\ IsList(c.hash)
      /\ d.suite = PSK => Len(c.hash) >= 3 /\ c.hash[Len(c.hash) - 2] = Psk[e]
  BY <1>1, AfterClientFacts
<1> HIDE DEF c
<1>4. /\ c.n = d.n /\ c.state = d.state /\ c.suite = d.suite /\ c.suites = d.suites /\ c.key = d.key
      /\ c.mastersecret = d.mastersecret
  BY <1>2 DEF DeviceFields
<1>5. HashOK(e, c)
  BY <1>3, <1>4 DEF HashOK
<1>6. WithPeer(e, c, PeerOf(d))
  BY <1>4 DEF WithPeer
<1>7. DevOK(e, c) /\ PeerOf(c) = PeerOf(d) /\ c.peerGuid = d.peerGuid
  BY <1>1, <1>2, <1>4, <1>5, <1>6, NewHandshake
<1> QED
  BY <1>7 DEF c

\* A verifier is the text it was computed from.
LEMMA VerifierFacts ==
  \A label, c : ComputeVerifier(label, c)[3] = c.hash
BY DEF ComputeVerifier

\* What is sent of a key authentication.
LEMMA AuthMessageOK ==
  ASSUME NEW e \in Device, NEW q, NEW d, d.me = e, NEW c, c.me = e, c.suite = d.suite, NEW text,
         NEW type, d.suite = PSK => VerifierOK(type, AuthMessage(c, text), e)
  PROVE  BodyOK(type, "KeyAuthentication", AuthMessage(c, text), e, q)
<1>1. /\ AuthMessage(c, text).suite = c.suite
      /\ AuthMessage(c, text).certs = (IF c.suite = ECDSA THEN Chain[e] ELSE <<>>)
  BY DEF AuthMessage, Certificates
<1> QED
  BY <1>1 DEF BodyOK

\* KeyAuthentication.
LEMMA KeyAuthenticationOK ==
  ASSUME NEW e \in Device, NEW d, DevOK(e, d), d.peerGuid # 0, WithPeer(e, d, PeerOf(d)),
         NEW to \in UniqueName, to[1] # e
  PROVE  Good(e, KeyAuthentication(d, to))
<1> DEFINE c == AfterClient(d, Certificates(d))
           text == ClientFinished(d)
           body == AuthMessage(d, text)
<1>1. DOMAIN d = DeviceFields /\ d.me = e /\ IsList(d.hash)
  BY InHandshake
<1>2. DevOK(e, c)
  BY AfterClientOK
<1>3. body.verifier = text /\ text[3] = WithPsk(d).hash
  BY VerifierFacts DEF AuthMessage, ClientFinished
<1>4. d.suite = PSK => VerifierOK("call", body, e)
  <2>1. /\ IsList(WithPsk(d).hash)
        /\ d.suite = PSK => Len(WithPsk(d).hash) >= 1 /\ WithPsk(d).hash[Len(WithPsk(d).hash)] = Psk[e]
    BY <1>1, AfterClientFacts
  <2> HIDE DEF body, text
  <2> QED
    BY <1>3, <2>1 DEF VerifierOK
<1>5. BodyOK("call", "KeyAuthentication", body, e, to[1]) /\ "KeyAuthentication" \in Kinds
  <2>1. "KeyAuthentication" \in Kinds
    BY DEF Kinds
  <2> HIDE DEF text
  <2> QED
    BY <1>1, <1>4, <2>1, AuthMessageOK
<1>6. KeyAuthentication(d, to) = IF ~InitAuth(d) THEN Fails(d, "SECURITY")
                                 ELSE Call(c, "KeyAuthentication", to, None, body)
  BY DEF KeyAuthentication
<1> HIDE DEF c, body
<1>7. Good(e, Call(c, "KeyAuthentication", to, None, body))
  BY <1>2, <1>5, CallOK
<1>8. Good(e, Fails(d, "SECURITY"))
  BY FailsOK DEF Status
<1> QED
  BY <1>6, <1>7, <1>8

\* A peer whose message is accepted is one to succeed with: its verifier covers its own
\* pre-shared key as well as the device's, and its certificates are its own.
LEMMA AcceptsFriends ==
  ASSUME NEW e \in Device, NEW d, d.me = e, NEW p \in Device, WithPeer(e, d, p), d.suite # NoSuite,
         NEW m, NEW text, NEW type, BodyOK(type, "KeyAuthentication", m, p, e),
         Unmarshal(d, m, text),
         d.suite = PSK /\ VerifierOK(type, m, p) => Psk[e] = Psk[p]
  PROVE  Friends(e, p)
<1>1. d.suite \in Shared(e, p)
  BY DEF WithPeer
<1>2. d.suite \in {PSK, ECDSA, NULL} /\ Offers(e, d.suite) /\ Offers(p, d.suite)
  BY <1>1 DEF Shared
<1>3. m.suite = d.suite /\ (d.suite = PSK => VerifierOK(type, m, p))
  BY DEF Unmarshal, BodyOK
<1>4. d.suite = PSK => Psk[e] = Psk[p]
  BY <1>3
<1>5. ASSUME d.suite = ECDSA PROVE Approves(e, p)
  <2>1. ChainTrusted(d, m.certs)
    BY <1>5 DEF Unmarshal
  <2>2. m.certs = Chain[p]
    BY <1>3, <1>5 DEF BodyOK
  <2>3. Len(m.certs) \in 1..2 /\ \E i \in 1..Len(m.certs) : m.certs[i] \in Trusted[e]
    BY <2>1 DEF ChainTrusted
  <2>4. Len(Chain[p]) \in 1..2 /\ \E i \in 1..Len(Chain[p]) : Chain[p][i] \in Trusted[e]
    BY <2>2, <2>3, Zenon
  <2>5. \A n \in 1..2 : n <= 2
    OBVIOUS
  <2> QED
    BY <2>4, <2>5, Zenon DEF Approves
<1> QED
  BY <1>2, <1>4, <1>5 DEF Friends

-----------------------------------------------------------------------------
\* The handlers of the calls.

\* A message of no valid handshake.
LEMMA InvalidOK ==
  ASSUME NEW e \in Device, NEW d, DevOK(e, d), NEW m, NEW late
  PROVE  /\ Good(e, Does(AfterTimeout(d, late), <<>>))
         /\ MsgOK(m, e) /\ m.kind \in Kinds => Good(e, Error(AfterTimeout(d, late), m, "Resources"))
<1>1. DevOK(e, AfterTimeout(d, late))
  BY TimeoutOK
<1> QED
  BY <1>1, DoesOK, FailsOK

\* The keys of a mapping change, and no more than the nonce with them.
LEMMA KeysOK ==
  ASSUME NEW e \in Device, NEW d, DevOK(e, d), NEW c, DOMAIN c = DeviceFields,
         \A f \in DeviceFields \ {"n", "nonce", "map"} : c[f] = d[f], c.n \in Nat,
         NEW name, NEW key, NEW role,
         c.map = AJ_SetSessionKey(d.map, name, key, role) \/ c.map = AJ_SetGroupKey(d.map, name, key)
  PROVE  DevOK(e, c)
<1>1. MapOK(e, d.map) /\ CallsOK(d) /\ d.peerGuid \in 0..NumNames /\ NumNames \in Nat
  BY NameMapAssumption DEF DevOK, FieldsOK
<1>2. MapOK(e, c.map) /\ \A i \in 1..NumNames : c.map[i].guid = d.map[i].guid
  <2> DEFINE map1 == AJ_SetSessionKey(d.map, name, key, role)
             map2 == AJ_SetGroupKey(d.map, name, key)
  <2>1. /\ MapOK(e, map1) /\ MapOK(e, map2)
        /\ \A i \in 1..NumNames : map1[i].guid = d.map[i].guid /\ map2[i].guid = d.map[i].guid
    BY <1>1, KeysSet
  <2>2. c.map = map1 \/ c.map = map2
    OBVIOUS
  <2> HIDE DEF map1, map2
  <2> QED
    BY <2>1, <2>2
<1>3. c.calls = d.calls
  BY DEF DeviceFields
<1>4. CallsOK(c)
  BY <1>1, <1>3 DEF CallsOK
<1>5. d.peerGuid # 0 => c.map[d.peerGuid].guid = d.map[d.peerGuid].guid
  BY <1>1, <1>2
<1> QED
  BY <1>2, <1>4, <1>5, SameHandshake

LEMMA HandleGenSessionKeyOK ==
  ASSUME NEW e \in Device, NEW d, DevOK(e, d), NEW m, MsgOK(m, e), m.kind = "GenSessionKey", NEW chance
  PROVE  Good(e, AJ_PeerHandleGenSessionKey(d, m, chance))
<1> DEFINE nonce == <<d.me, d.n + 1>>
           key == KeyGen(d, m.body.nonce, nonce)
           map == AJ_SetSessionKey(d.map, m.from, key, AJ_ROLE_KEY_RESPONDER)
           c == [d EXCEPT !.nonce = nonce, !.n = @ + 1, !.map = map]
           body == [nonce |-> nonce, verifier |-> key]
<1>1. DOMAIN d = DeviceFields /\ d.n \in Nat
  BY InHandshake
<1>2. m.kind \in Kinds
  BY DEF Kinds
<1> HIDE DEF nonce, key, map
<1>3. /\ DOMAIN c = DeviceFields /\ \A f \in DeviceFields \ {"n", "nonce", "map"} : c[f] = d[f]
      /\ c.n = d.n + 1 /\ c.map = map
  BY <1>1 DEF DeviceFields
<1>4. AJ_PeerHandleGenSessionKey(d, m, chance) =
        IF ~HandshakeValid(d, m.from, chance.late)
        THEN Error(AfterTimeout(d, chance.late), m, "Resources")
        ELSE IF d.state # "SUCCESS" THEN Error(d, m, "Rejected")
        ELSE IF m.body.peer # d.me THEN Refuses(d, m)
        ELSE Answer(c, m, "reply", body)
  BY DEF AJ_PeerHandleGenSessionKey, nonce, key, map
<1> HIDE DEF c, body
<1>5. DevOK(e, c)
  BY <1>1, <1>3, KeysOK DEF map
<1>6. BodyOK("reply", m.kind, body, e, m.from[1])
  BY DEF BodyOK
<1>7. Good(e, Answer(c, m, "reply", body))
  BY <1>2, <1>5, <1>6, AnswerOK
<1>8. Good(e, Error(AfterTimeout(d, chance.late), m, "Resources"))
  BY <1>2, InvalidOK
<1>9. Good(e, Error(d, m, "Rejected")) /\ Good(e, Refuses(d, m))
  BY <1>2, FailsOK
<1> QED
  BY <1>4, <1>7, <1>8, <1>9

LEMMA HandleExchangeSuitesOK ==
  ASSUME NEW e \in Device, NEW d, DevOK(e, d), NEW m, MsgOK(m, e), m.type = "call",
         m.kind = "ExchangeSuites", NEW chance
  PROVE  Good(e, AJ_PeerHandleExchangeSuites(d, m, chance))
<1> DEFINE common == Common(d, m.body)
           c == [d EXCEPT !.suites = common, !.hash = <<>>]
<1>1. /\ DOMAIN d = DeviceFields /\ d.me = e /\ d.n \in Nat
      /\ d.state \in {"NONE", "EXCHANGED", "SUCCESS"}
      /\ d.suite # NoSuite => d.key \in KeyOf(e)
      /\ d.state = "EXCHANGED" => d.suite # NoSuite
      /\ d.state # "NONE" => d.mastersecret # {}
  BY InHandshake
<1>2. m.kind \in Kinds
  BY DEF Kinds
<1>3. Good(e, Error(AfterTimeout(d, chance.late), m, "Resources")) /\ Good(e, Refuses(d, m))
  BY <1>2, InvalidOK, FailsOK
<1> HIDE DEF common
<1>4. /\ DOMAIN c = DeviceFields /\ \A f \in DeviceFields \ {"suites", "hash"} : c[f] = d[f]
      /\ c.suites = common /\ c.hash = <<>>
  BY <1>1 DEF DeviceFields
<1>5. AJ_PeerHandleExchangeSuites(d, m, chance) =
        IF ~HandshakeValid(d, m.from, chance.late)
        THEN Error(AfterTimeout(d, chance.late), m, "Resources")
        ELSE IF common = {} THEN Refuses(d, m)
        ELSE Answer(c, m, "reply", common)
  BY DEF AJ_PeerHandleExchangeSuites, common
<1> HIDE DEF c
<1>6. ASSUME HandshakeValid(d, m.from, chance.late) PROVE Good(e, Answer(c, m, "reply", common))
  <2>1. /\ d.peerGuid # 0 /\ PeerOf(d) = m.from[1] /\ m.from[1] \in Device
        /\ WithPeer(e, d, m.from[1])
    BY <1>6, ValidPeer
  <2>2. \A suite \in m.body : Offers(m.from[1], suite)
    BY DEF MsgOK, BodyOK
  <2>3. common \subseteq Shared(e, m.from[1]) /\ \A suite \in common : Offers(e, suite)
    BY <1>1, <2>1, <2>2, SharedFacts DEF common
  <2>4. /\ c.n = d.n /\ c.state = d.state /\ c.suite = d.suite /\ c.key = d.key
        /\ c.mastersecret = d.mastersecret
    BY <1>4 DEF DeviceFields
  <2>5. WithPeer(e, c, PeerOf(d))
    BY <1>4, <2>1, <2>3, <2>4 DEF WithPeer
  <2>6. HashOK(e, c)
    BY <1>4, ShortLists DEF HashOK
  <2>7. DevOK(e, c)
    BY <1>1, <1>4, <2>1, <2>4, <2>5, <2>6, NewHandshake
  <2>8. BodyOK("reply", m.kind, common, e, m.from[1])
    BY <2>3 DEF BodyOK
  <2> QED
    BY <1>2, <2>7, <2>8, AnswerOK
<1> QED
  BY <1>3, <1>5, <1>6

LEMMA HandleKeyExchangeOK ==
  ASSUME NEW e \in Device, NEW d, DevOK(e, d), NEW m, MsgOK(m, e), m.type = "call",
         m.kind = "KeyExchange", NEW chance
  PROVE  Good(e, AJ_PeerHandleKeyExchange(d, m, chance))
<1> DEFINE suite == m.body.suite
           theirs == m.body.key
           r == ECDHE_Marshal(ECDHE_Unmarshal(ECDHE_Init([d EXCEPT !.suite = suite]), suite, theirs))
           c == [r EXCEPT !.state = "EXCHANGED"]
           mine == <<d.me, d.n + 1>>
           body == [suite |-> r.suite, key |-> r.key]
<1>1. /\ DOMAIN d = DeviceFields /\ d.me = e /\ d.n \in Nat /\ IsList(d.hash)
  BY InHandshake
<1>2. m.kind \in Kinds
  BY DEF Kinds
<1>3. Good(e, Error(AfterTimeout(d, chance.late), m, "Resources"))
  BY <1>2, InvalidOK
<1>4. AJ_PeerHandleKeyExchange(d, m, chance) =
        IF ~HandshakeValid(d, m.from, chance.late)
        THEN Error(AfterTimeout(d, chance.late), m, "Resources")
        ELSE Answer(c, m, "reply", body)
  BY DEF AJ_PeerHandleKeyExchange
<1> HIDE DEF suite, theirs
<1>5. /\ DOMAIN r = DeviceFields
      /\ \A f \in DeviceFields \ {"n", "key", "suite", "mastersecret", "hash"} : r[f] = d[f]
      /\ r.suite = suite /\ r.n = d.n + 1 /\ r.key = mine /\ r.mastersecret = {mine, theirs}
      /\ r.hash = (d.hash \o <<suite, theirs>>) \o <<suite, mine>>
  BY <1>1 DEF DeviceFields, ECDHE_Marshal, ECDHE_Unmarshal, ECDHE_Init, Update
<1> HIDE DEF r, mine
<1>6. /\ DOMAIN c = DeviceFields
      /\ \A f \in DeviceFields \ {"n", "key", "state", "suite", "mastersecret", "hash"} : c[f] = d[f]
      /\ c.suite = suite /\ c.n = d.n + 1 /\ c.key = mine /\ c.mastersecret = {mine, theirs}
      /\ c.hash = (d.hash \o <<suite, theirs>>) \o <<suite, mine>> /\ c.state = "EXCHANGED"
  BY <1>5 DEF DeviceFields
<1>7. body.suite = suite /\ body.key = mine
  BY <1>5
<1> HIDE DEF c, body
<1>8. ASSUME HandshakeValid(d, m.from, chance.late) PROVE Good(e, Answer(c, m, "reply", body))
  <2> DEFINE p == m.from[1]
  <2>1. /\ d.peerGuid # 0 /\ PeerOf(d) = p /\ p \in Device /\ WithPeer(e, d, p)
    BY <1>8, ValidPeer
  <2>2. theirs \in KeyOf(p) /\ suite \in Shared(p, e)
    BY DEF MsgOK, BodyOK, suite, theirs
  <2>3. suite \in Shared(e, p) /\ suite # NoSuite
    BY <2>1, <2>2, SharedFacts
  <2>4. mine \in KeyOf(e) /\ mine[1] = e /\ mine # <<>> /\ theirs[1] = p
    <3>1. mine \in KeyOf(e)
      BY <1>1 DEF mine, KeyOf
    <3> QED
      BY <2>2, <3>1, KeyNotEmpty
  <2> HIDE DEF p
  <2>5. WithPeer(e, c, PeerOf(d))
    <3>1. c.suites = d.suites
      BY <1>6 DEF DeviceFields
    <3>2. Made(c.mastersecret, e, p)
      BY <1>6, <2>4 DEF Made
    <3> QED
      BY <1>6, <2>1, <2>3, <3>1, <3>2 DEF WithPeer
  <2>6. HashOK(e, c)
    <3> DEFINE h == d.hash
               t == <<suite, theirs>>
               u == <<suite, mine>>
    <3>1. IsList(h) /\ IsList(t) /\ IsList(u) /\ Len(u) = 2 /\ u[2] = mine
      BY <1>1, ShortLists
    <3>2. c.hash = (h \o t) \o u
      BY <1>6
    <3> HIDE DEF h, t, u
    <3> DEFINE k == h \o t
    <3>3. IsList(k) /\ c.hash = k \o u
      BY <3>1, <3>2, HashEnds, Zenon
    <3> HIDE DEF k
    <3>4. IsList(k \o u) /\ (Len(u) >= 1 => (k \o u)[Len(k \o u)] = u[Len(u)])
      BY <3>1, <3>3, HashEnds, Zenon
    <3>5. Len(u) >= 1
      BY <3>1
    <3>6. IsList(k \o u) /\ (k \o u)[Len(k \o u)] = mine
      BY <3>1, <3>4, <3>5, Zenon
    <3>7. IsList(c.hash) /\ c.hash[Len(c.hash)] = mine
      BY <3>3, <3>6
    <3>8. c.hash[Len(c.hash)] # <<>>
      BY <2>4, <3>7, Zenon
    <3> QED
      BY <3>7, <3>8, HashKey, Zenon
  <2>7. c.mastersecret # {}
    BY <1>6
  <2>8. DevOK(e, c)
    <3>1. \A f \in DeviceFields \ {"n", "nonce", "key", "state", "suite", "suites", "mastersecret", "hash"} :
            c[f] = d[f]
      BY <1>6
    <3>2. /\ c.n \in Nat /\ c.state \in {"NONE", "EXCHANGED", "SUCCESS"} /\ c.suite # NoSuite
          /\ c.key \in KeyOf(e)
      BY <1>1, <1>6, <2>3, <2>4
    <3> QED
      BY <1>6, <2>1, <2>5, <2>6, <2>7, <3>1, <3>2, NewHandshake
  <2>9. BodyOK("reply", m.kind, body, e, m.from[1])
    BY <1>7, <2>3, <2>4 DEF BodyOK, p
  <2> QED
    BY <1>2, <2>8, <2>9, AnswerOK
<1> QED
  BY <1>3, <1>4, <1>8

\* Success of a handshake with a friend, and the secret stored of it.
LEMMA SucceedsOK ==
  ASSUME NEW e \in Device, NEW d, DevOK(e, d), d.peerGuid # 0, PeerOf(d) \in Device, PeerOf(d) # e,
         WithPeer(e, d, PeerOf(d)), d.state = "EXCHANGED", Friends(e, PeerOf(d)), NEW full
  PROVE  DevOK(e, SaveMasterSecret([d EXCEPT !.state = "SUCCESS"], full))
<1> DEFINE c == [d EXCEPT !.state = "SUCCESS"]
<1>1. /\ DOMAIN d = DeviceFields /\ d.me = e /\ d.n \in Nat
      /\ d.suite # NoSuite => d.key \in KeyOf(e)
      /\ d.mastersecret # {} /\ HashOK(e, d)
  BY InHandshake
<1>2. /\ DOMAIN c = DeviceFields /\ \A f \in DeviceFields \ {"state"} : c[f] = d[f]
      /\ c.state = "SUCCESS"
  BY <1>1 DEF DeviceFields
<1> HIDE DEF c
<1>3. /\ c.n = d.n /\ c.suite = d.suite /\ c.suites = d.suites /\ c.key = d.key /\ c.hash = d.hash
      /\ c.mastersecret = d.mastersecret
  BY <1>2 DEF DeviceFields
<1>4. WithPeer(e, c, PeerOf(d)) /\ HashOK(e, c)
  BY <1>1, <1>2, <1>3 DEF WithPeer, HashOK
<1>5. DevOK(e, c) /\ PeerOf(c) = PeerOf(d) /\ c.peerGuid = d.peerGuid
  BY <1>1, <1>2, <1>3, <1>4, NewHandshake
<1>6. DevOK(e, SaveMasterSecret(c, full))
  BY <1>2, <1>5, SaveOK
<1> QED
  BY <1>6 DEF c

LEMMA HandleKeyAuthenticationOK ==
  ASSUME NEW e \in Device, NEW d, DevOK(e, d), NEW m, MsgOK(m, e), m.type = "call",
         m.kind = "KeyAuthentication", NEW chance
  PROVE  Good(e, AJ_PeerHandleKeyAuthentication(d, m, chance))
<1> DEFINE c == AfterClient(d, m.body.certs)
           done == SaveMasterSecret([c EXCEPT !.state = "SUCCESS"], chance.full)
           mine == ClientFinished(d)
           text == ServerFinished(c)
           body == AuthMessage(c, text)
           valid == HandshakeValid(d, m.from, chance.late)
           accepts == d.state = "EXCHANGED" /\ Unmarshal(d, m.body, mine)
<1>1. DOMAIN d = DeviceFields /\ d.me = e /\ IsList(d.hash) /\ (d.state = "EXCHANGED" => d.suite # NoSuite)
  BY InHandshake
<1>2. m.kind \in Kinds
  BY DEF Kinds
<1>3. Good(e, Error(AfterTimeout(d, chance.late), m, "Resources")) /\ Good(e, Refuses(d, m))
  BY <1>2, InvalidOK, FailsOK
<1>4. /\ DOMAIN c = DeviceFields /\ \A f \in DeviceFields \ {"hash"} : c[f] = d[f]
      /\ IsList(WithPsk(d).hash) /\ IsList(c.hash)
      /\ d.suite = PSK =>
           /\ Len(WithPsk(d).hash) >= 1 /\ WithPsk(d).hash[Len(WithPsk(d).hash)] = Psk[e]
           /\ Len(c.hash) >= 3 /\ c.hash[Len(c.hash)] = m.body.certs
           /\ c.hash[Len(c.hash) - 2] = Psk[e]
  BY <1>1, AfterClientFacts
<1>5. \/ AJ_PeerHandleKeyAuthentication(d, m, chance) = Error(AfterTimeout(d, chance.late), m, "Resources")
      \/ AJ_PeerHandleKeyAuthentication(d, m, chance) = Refuses(d, m)
      \/ /\ valid /\ accepts
         /\ \/ AJ_PeerHandleKeyAuthentication(d, m, chance) = Does(done, <<>>)
            \/ AJ_PeerHandleKeyAuthentication(d, m, chance) = Answer(done, m, "reply", body)
  BY DEF AJ_PeerHandleKeyAuthentication
<1>6. mine[3] = WithPsk(d).hash /\ text[3] = c.hash /\ body.verifier = text
  BY VerifierFacts DEF AuthMessage, ClientFinished, ServerFinished
<1> HIDE DEF c, mine, text, body
<1>7. c.me = e /\ c.suite = d.suite /\ c.state = d.state
  BY <1>1, <1>4 DEF DeviceFields
<1>8. ASSUME valid, accepts PROVE Good(e, Does(done, <<>>)) /\ Good(e, Answer(done, m, "reply", body))
  <2> DEFINE p == m.from[1]
  <2>1. /\ d.peerGuid # 0 /\ PeerOf(d) = p /\ p \in Device /\ p # e /\ WithPeer(e, d, p)
    BY <1>8, ValidPeer
  <2>2. BodyOK("call", "KeyAuthentication", m.body, p, e)
    BY DEF MsgOK
  <2>3. m.body.suite = d.suite /\ m.body.verifier = mine /\ d.suite # NoSuite
    BY <1>1, <1>8 DEF Unmarshal
  <2> HIDE DEF p
  <2>4. ASSUME d.suite = PSK, VerifierOK("call", m.body, p) PROVE Psk[e] = Psk[p]
    <3>1. m.body.verifier[3] = WithPsk(d).hash
      BY <1>6, <2>3
    <3>2. WithPsk(d).hash[Len(WithPsk(d).hash)] = Psk[p]
      BY <2>4, <3>1 DEF VerifierOK
    <3> QED
      BY <1>4, <2>4, <3>2
  <2>5. Friends(e, p)
    <3>1. Unmarshal(d, m.body, mine)
      BY <1>8
    <3> QED
      BY <1>1, <2>1, <2>2, <2>3, <2>4, <3>1, AcceptsFriends
  <2>6. DevOK(e, c) /\ PeerOf(c) = p /\ c.peerGuid # 0
    BY <2>1, AfterClientOK DEF c
  <2>7. WithPeer(e, c, p)
    BY <2>1, <2>6, UniqueNames DEF DevOK, HandshakeOK
  <2>8. DevOK(e, done)
    BY <1>7, <1>8, <2>1, <2>5, <2>6, <2>7, SucceedsOK
  <2>9. d.suite = PSK => VerifierOK("reply", body, e)
    <3>1. d.suite = PSK => m.body.certs = <<>>
      BY <2>2, <2>3 DEF BodyOK, PSK, ECDSA
    <3>2. body.verifier[3] = c.hash
      BY <1>6
    <3> QED
      BY <1>4, <3>1, <3>2 DEF VerifierOK
  <2>10. BodyOK("reply", m.kind, body, e, m.from[1])
    <3>1. BodyOK("reply", "KeyAuthentication", AuthMessage(c, text), e, m.from[1])
      BY <1>7, <2>9, AuthMessageOK DEF body
    <3> QED
      BY <3>1 DEF body
  <2> HIDE DEF done
  <2> QED
    BY <1>2, <2>8, <2>10, AnswerOK, DoesOK
<1> QED
  BY <1>3, <1>5, <1>8

LEMMA HandleExchangeGroupKeysOK ==
  ASSUME NEW e \in Device, NEW d, DevOK(e, d), NEW m, MsgOK(m, e), m.kind = "ExchangeGroupKeys", NEW chance
  PROVE  Good(e, AJ_PeerHandleExchangeGroupKeys(d, m, chance))
<1> DEFINE map == AJ_SetGroupKey(d.map, m.from, m.body)
           c == [d EXCEPT !.map = map]
<1>1. DOMAIN d = DeviceFields /\ d.n \in Nat
  BY InHandshake
<1>2. m.kind \in Kinds /\ "OK" \in Status
  BY DEF Kinds, Status
<1> HIDE DEF map
<1>3. DOMAIN c = DeviceFields /\ (\A f \in DeviceFields \ {"map"} : c[f] = d[f]) /\ c.map = map
  BY <1>1 DEF DeviceFields
<1>4. AJ_PeerHandleExchangeGroupKeys(d, m, chance) =
        IF ~HandshakeValid(d, m.from, chance.late) THEN Does(AfterTimeout(d, chance.late), <<>>)
        ELSE Answer(HandshakeComplete(c, "OK"), m, "reply", d.me)
  BY DEF AJ_PeerHandleExchangeGroupKeys, map
<1> HIDE DEF c
<1>5. c.n = d.n
  BY <1>3 DEF DeviceFields
<1>6. DevOK(e, c)
  BY <1>1, <1>3, <1>5, KeysOK DEF map
<1>7. DevOK(e, HandshakeComplete(c, "OK"))
  BY <1>2, <1>6, CompleteOK
<1>8. BodyOK("reply", m.kind, d.me, e, m.from[1])
  BY DEF BodyOK
<1>9. Good(e, Answer(HandshakeComplete(c, "OK"), m, "reply", d.me))
  BY <1>2, <1>7, <1>8, AnswerOK
<1>10. Good(e, Does(AfterTimeout(d, chance.late), <<>>))
  BY InvalidOK
<1> QED
  BY <1>4, <1>9, <1>10

LEMMA HandleExchangeGUIDsOK ==
  ASSUME NEW e \in Device, NEW d, DevOK(e, d), NEW m, MsgOK(m, e), m.type = "call",
         m.kind = "ExchangeGUIDs", NEW chance
  PROVE  Good(e, AJ_PeerHandleExchangeGUIDs(d, m, chance))
<1> DEFINE c == AJ_ClearAuthContext(AfterTimeout(d, chance.late))
<1>1. m.kind \in Kinds /\ "RESOURCES" \in Status /\ d.me = e
  BY InHandshake DEF Kinds, Status
<1>2. DevOK(e, c) /\ c.peerGuid = 0
  <2>1. "OK" \in Status
    BY DEF Status
  <2> QED
    BY <2>1, TimeoutOK, CompleteOK
<1>3. m.from \in UniqueName /\ m.from[1] # e /\ m.body = m.from[1]
  BY DEF MsgOK, BodyOK
<1>4. AJ_PeerHandleExchangeGUIDs(d, m, chance) =
        IF InProgress(d, chance.late) THEN Error(d, m, "Resources")
        ELSE IF SlotFor(c.map, m.from) = 0 THEN Error(HandshakeComplete(c, "RESOURCES"), m, "Resources")
        ELSE Answer(Begins(c, m.body, m.from, None), m, "reply", d.me)
  BY DEF AJ_PeerHandleExchangeGUIDs
<1> HIDE DEF c
<1>5. Good(e, Error(d, m, "Resources"))
  BY <1>1, FailsOK
<1>6. Good(e, Error(HandshakeComplete(c, "RESOURCES"), m, "Resources"))
  <2>1. DevOK(e, HandshakeComplete(c, "RESOURCES"))
    BY <1>1, <1>2, CompleteOK
  <2> QED
    BY <1>1, <2>1, FailsOK
<1>7. ASSUME SlotFor(c.map, m.from) # 0
      PROVE  Good(e, Answer(Begins(c, m.body, m.from, None), m, "reply", d.me))
  <2>1. DevOK(e, Begins(c, m.body, m.from, None))
    <3>1. None \in Device \union {None}
      OBVIOUS
    <3>2. DevOK(e, Begins(c, m.from[1], m.from, None))
      BY <1>2, <1>3, <1>7, <3>1, BeginsOK
    <3> QED
      BY <1>3, <3>2
  <2>2. BodyOK("reply", m.kind, d.me, e, m.from[1])
    BY <1>1 DEF BodyOK
  <2> QED
    BY <1>1, <2>1, <2>2, AnswerOK
<1> QED
  BY <1>4, <1>5, <1>6, <1>7

-----------------------------------------------------------------------------
\* The handlers of the replies.

LEMMA HandleExchangeGUIDsReplyOK ==
  ASSUME NEW e \in Device, NEW d, DevOK(e, d), NEW m, MsgOK(m, e), m.type = "reply",
         m.kind = "ExchangeGUIDs", NEW chance
  PROVE  Good(e, AJ_PeerHandleExchangeGUIDsReply(d, m, chance))
<1> DEFINE c == AfterTimeout(d, chance.late)
           b == Begins(c, m.body, m.from, c.peerName)
<1>1. m.from \in UniqueName /\ m.from[1] # e /\ m.body = m.from[1]
  BY DEF MsgOK, BodyOK
<1>2. DevOK(e, c) /\ (~InProgress(d, chance.late) => c.peerGuid = 0)
  BY TimeoutOK
<1>3. /\ m.type # "error"
      /\ AJ_PeerHandleExchangeGUIDsReply(d, m, chance) =
        IF m.type = "error" THEN Failed(d, m)
        ELSE IF InProgress(d, chance.late) THEN Does(d, <<>>)
        ELSE IF SlotFor(c.map, m.from) = 0 THEN Fails(c, "RESOURCES")
        ELSE IF d.secret[m.body] # {} THEN GenSessionKey(b, m.from)
        ELSE ExchangeSuites(b, m.from)
  BY DEF AJ_PeerHandleExchangeGUIDsReply
<1>4. Good(e, Fails(c, "RESOURCES"))
  <2>1. "RESOURCES" \in Status
    BY DEF Status
  <2> QED
    BY <1>2, <2>1, FailsOK
<1> HIDE DEF c
<1>5. ASSUME ~InProgress(d, chance.late), SlotFor(c.map, m.from) # 0 PROVE DevOK(e, b)
  <2>1. c.peerName \in Device \union {None}
    BY <1>2 DEF DevOK, FieldsOK
  <2>2. DevOK(e, Begins(c, m.from[1], m.from, c.peerName))
    BY <1>1, <1>2, <1>5, <2>1, BeginsOK
  <2> QED
    BY <1>1, <2>2
<1> HIDE DEF b
<1>6. ASSUME ~InProgress(d, chance.late), SlotFor(c.map, m.from) # 0
      PROVE  Good(e, GenSessionKey(b, m.from)) /\ Good(e, ExchangeSuites(b, m.from))
  BY <1>1, <1>5, <1>6, GenSessionKeyOK, ExchangeSuitesOK
<1>7. Good(e, Does(d, <<>>))
  BY DoesOK
<1> QED
  BY <1>3, <1>4, <1>6, <1>7

LEMMA HandleExchangeSuitesReplyOK ==
  ASSUME NEW e \in Device, NEW d, DevOK(e, d), NEW m, MsgOK(m, e), m.type = "reply",
         m.kind = "ExchangeSuites", NEW chance
  PROVE  Good(e, AJ_PeerHandleExchangeSuitesReply(d, m, chance))
<1> DEFINE common == Common(d, m.body)
           c == [d EXCEPT !.suites = common]
<1>1. /\ DOMAIN d = DeviceFields /\ d.me = e /\ d.n \in Nat
      /\ d.state \in {"NONE", "EXCHANGED", "SUCCESS"}
      /\ d.suite # NoSuite => d.key \in KeyOf(e)
      /\ d.state = "EXCHANGED" => d.suite # NoSuite
      /\ d.state # "NONE" => d.mastersecret # {}
      /\ HashOK(e, d)
  BY InHandshake
<1>2. Good(e, Does(AfterTimeout(d, chance.late), <<>>)) /\ Good(e, Fails(d, "SECURITY"))
  BY InvalidOK, FailsOK DEF Status
<1> HIDE DEF common
<1>3. /\ DOMAIN c = DeviceFields /\ \A f \in DeviceFields \ {"suites"} : c[f] = d[f]
      /\ c.suites = common
  BY <1>1 DEF DeviceFields
<1>4. /\ m.type # "error"
      /\ AJ_PeerHandleExchangeSuitesReply(d, m, chance) =
        IF m.type = "error" THEN Failed(d, m)
        ELSE IF ~HandshakeValid(d, m.from, chance.late) THEN Does(AfterTimeout(d, chance.late), <<>>)
        ELSE IF common = {} THEN Fails(d, "SECURITY")
        ELSE KeyExchange(c, m.from)
  BY DEF AJ_PeerHandleExchangeSuitesReply, common
<1> HIDE DEF c
<1>5. ASSUME HandshakeValid(d, m.from, chance.late), common # {} PROVE Good(e, KeyExchange(c, m.from))
  <2>1. /\ d.peerGuid # 0 /\ PeerOf(d) = m.from[1] /\ m.from[1] \in Device /\ m.from[1] # e
        /\ m.from \in UniqueName /\ WithPeer(e, d, m.from[1])
    BY <1>5, ValidPeer
  <2>2. \A suite \in m.body : Offers(m.from[1], suite)
    BY DEF MsgOK, BodyOK
  <2>3. common \subseteq Shared(e, m.from[1])
    BY <1>1, <2>1, <2>2, SharedFacts DEF common
  <2>4. /\ c.n = d.n /\ c.state = d.state /\ c.suite = d.suite /\ c.key = d.key
        /\ c.mastersecret = d.mastersecret /\ c.hash = d.hash
    BY <1>3 DEF DeviceFields
  <2>5. WithPeer(e, c, PeerOf(d))
    BY <1>3, <2>1, <2>3, <2>4 DEF WithPeer
  <2>6. HashOK(e, c)
    BY <1>1, <2>4 DEF HashOK
  <2>7. DevOK(e, c) /\ PeerOf(c) = PeerOf(d) /\ c.peerGuid = d.peerGuid
    BY <1>1, <1>3, <2>1, <2>4, <2>5, <2>6, NewHandshake
  <2> QED
    BY <1>3, <1>5, <2>1, <2>7, KeyExchangeOK
<1> QED
  BY <1>2, <1>4, <1>5

LEMMA HandleKeyExchangeReplyOK ==
  ASSUME NEW e \in Device, NEW d, DevOK(e, d), NEW m, MsgOK(m, e), m.type = "reply",
         m.kind = "KeyExchange", NEW chance
  PROVE  Good(e, AJ_PeerHandleKeyExchangeReply(d, m, chance))
<1> DEFINE suite == m.body.suite
           theirs == m.body.key
           c == [ECDHE_Unmarshal(d, suite, theirs) EXCEPT !.state = "EXCHANGED"]
<1>1. /\ DOMAIN d = DeviceFields /\ d.me = e /\ d.n \in Nat /\ IsList(d.hash)
      /\ d.suite # NoSuite => d.key \in KeyOf(e)
  BY InHandshake
<1>2. Good(e, Does(AfterTimeout(d, chance.late), <<>>)) /\ Good(e, Fails(d, "SECURITY"))
  BY InvalidOK, FailsOK DEF Status
<1>3. /\ m.type # "error"
      /\ AJ_PeerHandleKeyExchangeReply(d, m, chance) =
        IF m.type = "error" THEN Failed(d, m)
        ELSE IF ~HandshakeValid(d, m.from, chance.late) THEN Does(AfterTimeout(d, chance.late), <<>>)
        ELSE IF d.suite = NoSuite THEN Fails(d, "SECURITY")
        ELSE KeyAuthentication(c, m.from)
  BY DEF AJ_PeerHandleKeyExchangeReply
<1> HIDE DEF suite, theirs
<1>4. /\ DOMAIN c = DeviceFields
      /\ \A f \in DeviceFields \ {"state", "mastersecret", "hash"} : c[f] = d[f]
      /\ c.state = "EXCHANGED" /\ c.mastersecret = {d.key, theirs}
      /\ c.hash = d.hash \o <<suite, theirs>>
  BY <1>1 DEF DeviceFields, ECDHE_Unmarshal, Update
<1> HIDE DEF c
<1>5. ASSUME HandshakeValid(d, m.from, chance.late), d.suite # NoSuite
      PROVE  Good(e, KeyAuthentication(c, m.from))
  <2> DEFINE p == m.from[1]
  <2>1. /\ d.peerGuid # 0 /\ PeerOf(d) = p /\ p \in Device /\ p # e /\ m.from \in UniqueName
        /\ WithPeer(e, d, p)
    BY <1>5, ValidPeer
  <2>2. theirs \in KeyOf(p)
    BY DEF MsgOK, BodyOK, theirs
  <2>3. d.key \in KeyOf(e) /\ d.key[1] = e /\ theirs[1] = p /\ theirs # <<>>
    BY <1>1, <1>5, <2>2, KeyNotEmpty
  <2>4. c.n = d.n /\ c.suite = d.suite /\ c.suites = d.suites /\ c.key = d.key
    BY <1>4 DEF DeviceFields
  <2> HIDE DEF p
  <2>5. WithPeer(e, c, PeerOf(d))
    <3>1. Made(c.mastersecret, e, p)
      BY <1>4, <2>3 DEF Made
    <3> QED
      BY <1>4, <2>1, <2>4, <3>1 DEF WithPeer
  <2>6. HashOK(e, c)
    <3> DEFINE h == d.hash
               u == <<suite, theirs>>
    <3>1. IsList(h) /\ IsList(u) /\ Len(u) = 2 /\ u[2] = theirs
      BY <1>1, ShortLists
    <3>2. c.hash = h \o u
      BY <1>4
    <3> HIDE DEF h, u
    <3>3. IsList(h \o u) /\ (Len(u) >= 1 => (h \o u)[Len(h \o u)] = u[Len(u)])
      BY <3>1, HashEnds, Zenon
    <3>4. Len(u) >= 1
      BY <3>1
    <3>5. IsList(h \o u) /\ (h \o u)[Len(h \o u)] = theirs
      BY <3>1, <3>3, <3>4, Zenon
    <3>6. IsList(c.hash) /\ c.hash[Len(c.hash)] = theirs
      BY <3>2, <3>5
    <3>7. c.hash[Len(c.hash)] # <<>>
      BY <2>3, <3>6, Zenon
    <3> QED
      BY <3>6, <3>7, HashKey, Zenon
  <2>7. DevOK(e, c) /\ PeerOf(c) = PeerOf(d) /\ c.peerGuid = d.peerGuid
    <3>1. /\ DOMAIN c = DeviceFields
          /\ \A f \in DeviceFields \ {"n", "nonce", "key", "state", "suite", "suites", "mastersecret", "hash"} :
               c[f] = d[f]
      BY <1>4
    <3>2. c.n \in Nat /\ c.state = "EXCHANGED" /\ c.suite # NoSuite
      BY <1>1, <1>4, <1>5, <2>4
    <3>3. c.key \in KeyOf(e) /\ c.mastersecret # {}
      BY <1>4, <2>3, <2>4
    <3> QED
      BY <2>1, <2>5, <2>6, <3>1, <3>2, <3>3, NewHandshake
  <2>8. WithPeer(e, c, PeerOf(c)) /\ c.peerGuid # 0
    BY <2>1, <2>5, <2>7
  <2> QED
    BY <2>1, <2>7, <2>8, KeyAuthenticationOK DEF p
<1> QED
  BY <1>2, <1>3, <1>5

LEMMA HandleKeyAuthenticationReplyOK ==
  ASSUME NEW e \in Device, NEW d, DevOK(e, d), NEW m, MsgOK(m, e), m.type = "reply",
         m.kind = "KeyAuthentication", NEW chance
  PROVE  Good(e, AJ_PeerHandleKeyAuthenticationReply(d, m, chance))
<1> DEFINE text == ServerFinished(d)
           c == SaveMasterSecret([d EXCEPT !.state = "SUCCESS"], chance.full)
<1>1. DOMAIN d = DeviceFields /\ d.me = e /\ (d.state = "EXCHANGED" => d.suite # NoSuite)
  BY InHandshake
<1>2. Good(e, Does(AfterTimeout(d, chance.late), <<>>)) /\ Good(e, Fails(d, "SECURITY"))
  BY InvalidOK, FailsOK DEF Status
<1>3. /\ m.type # "error"
      /\ AJ_PeerHandleKeyAuthenticationReply(d, m, chance) =
        IF m.type = "error" THEN Failed(d, m)
        ELSE IF ~HandshakeValid(d, m.from, chance.late) THEN Does(AfterTimeout(d, chance.late), <<>>)
        ELSE IF d.state # "EXCHANGED" \/ ~Unmarshal(d, m.body, text) THEN Fails(d, "SECURITY")
        ELSE GenSessionKey(c, m.from)
  BY DEF AJ_PeerHandleKeyAuthenticationReply
<1>4. text[3] = d.hash
  BY VerifierFacts DEF ServerFinished
<1> HIDE DEF text
<1>5. ASSUME HandshakeValid(d, m.from, chance.late), d.state = "EXCHANGED", Unmarshal(d, m.body, text)
      PROVE  Good(e, GenSessionKey(c, m.from))
  <2> DEFINE p == m.from[1]
  <2>1. /\ d.peerGuid # 0 /\ PeerOf(d) = p /\ p \in Device /\ p # e /\ m.from \in UniqueName
        /\ WithPeer(e, d, p)
    BY <1>5, ValidPeer
  <2>2. BodyOK("reply", "KeyAuthentication", m.body, p, e)
    BY DEF MsgOK
  <2>3. m.body.verifier = text /\ d.suite # NoSuite
    BY <1>1, <1>5 DEF Unmarshal
  <2> HIDE DEF p
  <2>4. ASSUME d.suite = PSK, VerifierOK("reply", m.body, p) PROVE Psk[e] = Psk[p]
    <3>1. m.body.verifier[3] = d.hash
      BY <1>4, <2>3
    <3>2. Len(d.hash) >= 3 /\ d.hash[Len(d.hash)] = <<>> /\ d.hash[Len(d.hash) - 2] = Psk[p]
      BY <2>4, <3>1 DEF VerifierOK
    <3>3. d.hash[Len(d.hash) - 2] = Psk[e]
      <4>1. d.suite = PSK /\ Len(d.hash) >= 3 /\ d.hash[Len(d.hash)] = <<>> => d.hash[Len(d.hash) - 2] = Psk[e]
        BY DEF DevOK, HashOK
      <4> QED
        BY <2>4, <3>2, <4>1, Zenon
    <3> QED
      BY <3>2, <3>3
  <2>5. Friends(e, p)
    BY <1>1, <1>5, <2>1, <2>2, <2>3, <2>4, AcceptsFriends
  <2>6. DevOK(e, c)
    BY <1>5, <2>1, <2>5, SucceedsOK
  <2> HIDE DEF c
  <2> QED
    BY <2>1, <2>6, GenSessionKeyOK DEF p
<1> QED
  BY <1>2, <1>3, <1>5

LEMMA HandleGenSessionKeyReplyOK ==
  ASSUME NEW e \in Device, NEW d, DevOK(e, d), NEW m, MsgOK(m, e), m.type = "reply",
         m.kind = "GenSessionKey", NEW chance
  PROVE  Good(e, AJ_PeerHandleGenSessionKeyReply(d, m, chance))
<1> DEFINE key == KeyGen(d, d.nonce, m.body.nonce)
           map == AJ_SetSessionKey(d.map, m.from, key, AJ_ROLE_KEY_INITIATOR)
           c == [d EXCEPT !.map = map]
           seal == AJ_GetSessionKey(c.map, m.from)
<1>1. DOMAIN d = DeviceFields /\ d.n \in Nat /\ d.me = e
  BY InHandshake
<1>2. Good(e, Does(AfterTimeout(d, chance.late), <<>>))
  BY InvalidOK
<1> HIDE DEF key, map
<1>3. DOMAIN c = DeviceFields /\ (\A f \in DeviceFields \ {"map"} : c[f] = d[f]) /\ c.map = map
  BY <1>1 DEF DeviceFields
<1>4. /\ m.type # "error"
      /\ AJ_PeerHandleGenSessionKeyReply(d, m, chance) =
        IF m.type = "error" THEN IF m.body = "Rejected" THEN ExchangeSuites(d, m.from) ELSE Failed(d, m)
        ELSE IF ~HandshakeValid(d, m.from, chance.late) THEN Does(AfterTimeout(d, chance.late), <<>>)
        ELSE IF m.body.verifier # key THEN Fails(c, "SECURITY")
        ELSE Call(c, "ExchangeGroupKeys", m.from, seal, d.me)
  BY DEF AJ_PeerHandleGenSessionKeyReply, key, map
<1> HIDE DEF c
<1>5. c.n = d.n
  BY <1>3 DEF DeviceFields
<1>6. DevOK(e, c)
  BY <1>1, <1>3, <1>5, KeysOK DEF map
<1>7. Good(e, Fails(c, "SECURITY"))
  BY <1>6, FailsOK DEF Status
<1>8. Good(e, Call(c, "ExchangeGroupKeys", m.from, seal, d.me))
  <2>1. m.from \in UniqueName /\ m.from[1] # e
    BY DEF MsgOK
  <2>2. BodyOK("call", "ExchangeGroupKeys", d.me, e, m.from[1]) /\ "ExchangeGroupKeys" \in Kinds
    BY DEF BodyOK, Kinds
  <2> QED
    BY <1>6, <2>1, <2>2, CallOK
<1> QED
  BY <1>2, <1>4, <1>7, <1>8

\* Whatever the message is, as its type is not looked at.
LEMMA HandleExchangeGroupKeysReplyOK ==
  ASSUME NEW e \in Device, NEW d, DevOK(e, d), NEW m, NEW chance
  PROVE  Good(e, AJ_PeerHandleExchangeGroupKeysReply(d, m, chance))
<1> DEFINE map == AJ_SetGroupKey(d.map, m.from, m.body)
           c == [d EXCEPT !.map = map]
<1>1. DOMAIN d = DeviceFields /\ d.n \in Nat
  BY InHandshake
<1> HIDE DEF map
<1>2. DOMAIN c = DeviceFields /\ (\A f \in DeviceFields \ {"map"} : c[f] = d[f]) /\ c.map = map
  BY <1>1 DEF DeviceFields
<1>3. AJ_PeerHandleExchangeGroupKeysReply(d, m, chance) =
        IF ~HandshakeValid(d, m.from, chance.late) THEN Does(AfterTimeout(d, chance.late), <<>>)
        ELSE Fails(c, "OK")
  BY DEF AJ_PeerHandleExchangeGroupKeysReply, map
<1> HIDE DEF c
<1>4. c.n = d.n
  BY <1>2 DEF DeviceFields
<1>5. DevOK(e, c)
  BY <1>1, <1>2, <1>4, KeysOK DEF map
<1>6. "OK" \in Status
  BY DEF Status
<1>7. Good(e, Fails(c, "OK"))
  BY <1>5, <1>6, FailsOK
<1>8. Good(e, Does(AfterTimeout(d, chance.late), <<>>))
  BY InvalidOK
<1> QED
  BY <1>3, <1>7, <1>8

\* An error: one of the peer, or the device's own that the call has timed out.
LEMMA HandleErrorOK ==
  ASSUME NEW e \in Device, NEW d, DevOK(e, d), NEW m, m.type = "error", m.kind \in Kinds,
         m.body = "Timeout" \/ (m.from \in UniqueName /\ m.from[1] # e), NEW chance
  PROVE  Good(e, HandleReply(d, m, chance))
<1>1. Good(e, Failed(d, m))
  BY FailsOK
<1>2. CASE m.kind = "GenSessionKey"
  <2>1. ASSUME m.body = "Rejected" PROVE Good(e, ExchangeSuites(d, m.from))
    <3>1. m.from \in UniqueName /\ m.from[1] # e
      BY <2>1
    <3> QED
      BY <3>1, ExchangeSuitesOK
  <2>2. Good(e, AJ_PeerHandleGenSessionKeyReply(d, m, chance))
    BY <1>1, <2>1 DEF AJ_PeerHandleGenSessionKeyReply
  <2> QED
    BY <1>2, <2>2 DEF HandleReply
<1>3. CASE m.kind = "ExchangeGroupKeys"
  <2>1. Good(e, AJ_PeerHandleExchangeGroupKeysReply(d, m, chance))
    BY HandleExchangeGroupKeysReplyOK
  <2> QED
    BY <1>3, <2>1 DEF HandleReply
<1>4. CASE m.kind = "ExchangeGUIDs"
  BY <1>1, <1>4 DEF HandleReply, AJ_PeerHandleExchangeGUIDsReply
<1>5. CASE m.kind = "ExchangeSuites"
  BY <1>1, <1>5 DEF HandleReply, AJ_PeerHandleExchangeSuitesReply
<1>6. CASE m.kind = "KeyExchange"
  BY <1>1, <1>6 DEF HandleReply, AJ_PeerHandleKeyExchangeReply
<1>7. CASE m.kind = "KeyAuthentication"
  BY <1>1, <1>7 DEF HandleReply, AJ_PeerHandleKeyAuthenticationReply
<1> QED
  BY <1>2, <1>3, <1>4, <1>5, <1>6, <1>7 DEF Kinds

LEMMA HandleReplyOK ==
  ASSUME NEW e \in Device, NEW d, DevOK(e, d), NEW m, MsgOK(m, e), m.type = "reply", NEW chance
  PROVE  Good(e, HandleReply(d, m, chance))
<1>1. m.kind \in Kinds
  BY DEF MsgOK
<1>2. CASE m.kind = "ExchangeGUIDs"
  BY <1>2, HandleExchangeGUIDsReplyOK DEF HandleReply
<1>3. CASE m.kind = "ExchangeSuites"
  BY <1>3, HandleExchangeSuitesReplyOK DEF HandleReply
<1>4. CASE m.kind = "KeyExchange"
  BY <1>4, HandleKeyExchangeReplyOK DEF HandleReply
<1>5. CASE m.kind = "KeyAuthentication"
  BY <1>5, HandleKeyAuthenticationReplyOK DEF HandleReply
<1>6. CASE m.kind = "GenSessionKey"
  BY <1>6, HandleGenSessionKeyReplyOK DEF HandleReply
<1>7. CASE m.kind = "ExchangeGroupKeys"
  BY <1>7, HandleExchangeGroupKeysReplyOK DEF HandleReply
<1> QED
  BY <1>1, <1>2, <1>3, <1>4, <1>5, <1>6, <1>7 DEF Kinds

LEMMA HandleCallOK ==
  ASSUME NEW e \in Device, NEW d, DevOK(e, d), NEW m, MsgOK(m, e), m.type = "call", NEW chance
  PROVE  Good(e, HandleCall(d, m, chance))
<1>1. m.kind \in Kinds
  BY DEF MsgOK
<1>2. CASE m.kind = "ExchangeGUIDs"
  BY <1>2, HandleExchangeGUIDsOK DEF HandleCall
<1>3. CASE m.kind = "ExchangeSuites"
  BY <1>3, HandleExchangeSuitesOK DEF HandleCall
<1>4. CASE m.kind = "KeyExchange"
  BY <1>4, HandleKeyExchangeOK DEF HandleCall
<1>5. CASE m.kind = "KeyAuthentication"
  BY <1>5, HandleKeyAuthenticationOK DEF HandleCall
<1>6. CASE m.kind = "GenSessionKey"
  BY <1>6, HandleGenSessionKeyOK DEF HandleCall
<1>7. CASE m.kind = "ExchangeGroupKeys"
  BY <1>7, HandleExchangeGroupKeysOK DEF HandleCall
<1> QED
  BY <1>1, <1>2, <1>3, <1>4, <1>5, <1>6, <1>7 DEF Kinds

\* A call that is no longer waiting.
LEMMA AnsweredCall ==
  ASSUME NEW e \in Device, NEW d, DevOK(e, d), NEW S
  PROVE  DevOK(e, [d EXCEPT !.calls = @ \ S])
<1> DEFINE calls == d.calls \ S
           c == [d EXCEPT !.calls = calls]
<1>1. DOMAIN d = DeviceFields /\ d.n \in Nat /\ MapOK(e, d.map) /\ CallsOK(d)
  BY InHandshake
<1>2. IsFiniteSet(calls) /\ Cardinality(calls) <= AJ_NUM_REPLY_CONTEXTS /\ \A x \in calls : x.kind \in Kinds
  BY <1>1, CallsChange
<1>3. [d EXCEPT !.calls = @ \ S] = c
  OBVIOUS
<1> HIDE DEF calls
<1>4. DOMAIN c = DeviceFields /\ (\A f \in DeviceFields \ {"calls"} : c[f] = d[f]) /\ c.calls = calls
  BY <1>1 DEF DeviceFields
<1> HIDE DEF c
<1>5. c.n = d.n /\ c.map = d.map
  BY <1>4 DEF DeviceFields
<1>6. CallsOK(c)
  BY <1>2, <1>4 DEF CallsOK
<1>7. DevOK(e, c)
  BY <1>1, <1>4, <1>5, <1>6, SameHandshake
<1> QED
  BY <1>3, <1>7

\* The name of a peer is gone.
LEMMA LostOK ==
  ASSUME NEW e \in Device, NEW d, DevOK(e, d), NEW name
  PROVE  Good(e, Does([d EXCEPT !.map = AJ_GUID_DeleteNameMapping(@, name)], <<>>))
<1> DEFINE map == AJ_GUID_DeleteNameMapping(d.map, name)
           c == [d EXCEPT !.map = map]
<1>1. DOMAIN d = DeviceFields /\ d.n \in Nat /\ MapOK(e, d.map) /\ CallsOK(d)
  BY InHandshake
<1>2. MapOK(e, map) /\ \A i \in 1..NumNames : map[i].guid \in {d.map[i].guid, None}
  BY <1>1, DeleteOK
<1>3. [d EXCEPT !.map = AJ_GUID_DeleteNameMapping(@, name)] = c
  OBVIOUS
<1> HIDE DEF map
<1>4. DOMAIN c = DeviceFields /\ (\A f \in DeviceFields \ {"map"} : c[f] = d[f]) /\ c.map = map
  BY <1>1 DEF DeviceFields
<1> HIDE DEF c
<1>5. c.n = d.n /\ c.calls = d.calls
  BY <1>4 DEF DeviceFields
<1>6. CallsOK(c)
  BY <1>1, <1>5 DEF CallsOK
<1>7. d.peerGuid # 0 => d.peerGuid \in 1..NumNames
  BY NameMapAssumption DEF DevOK, FieldsOK
<1>8. DevOK(e, c)
  BY <1>1, <1>2, <1>4, <1>5, <1>6, <1>7, SameHandshake
<1> QED
  BY <1>3, <1>8, DoesOK

\* Whatever the router delivers.
LEMMA HandleOK ==
  ASSUME NEW e \in Device, NEW d, DevOK(e, d), NEW m, MsgOK(m, e), NEW chance
  PROVE  Good(e, Handle(d, m, chance))
<1> DEFINE opened == m.seal = None \/ DecryptMessage(d.map, m.from, m.seal)
           c == [d EXCEPT !.calls = @ \ Waiting(d, m)]
<1>1. m.type \in {"lost", "call", "reply", "error"}
  BY DEF MsgOK
<1>2. Good(e, Does(d, <<>>))
  BY DoesOK
<1>3. CASE m.type = "lost"
  BY <1>3, LostOK DEF Handle
<1>4. CASE m.type = "call"
  <2>1. Handle(d, m, chance) \in {HandleCall(d, m, chance), Does(d, <<>>)}
    BY <1>4 DEF Handle
  <2>2. Good(e, HandleCall(d, m, chance))
    BY <1>4, HandleCallOK
  <2> QED
    BY <1>2, <2>1, <2>2
<1>5. CASE m.type \in {"reply", "error"}
  <2>1. Handle(d, m, chance) \in {HandleReply(c, m, chance), Does(d, <<>>)}
    BY <1>5 DEF Handle
  <2>2. DevOK(e, c)
    BY AnsweredCall
  <2> HIDE DEF c
  <2>3. CASE m.type = "reply"
    BY <1>2, <2>1, <2>2, <2>3, HandleReplyOK
  <2>4. CASE m.type = "error"
    <3>1. m.from \in UniqueName /\ m.from[1] # e /\ m.kind \in Kinds
      BY <2>4 DEF MsgOK
    <3> QED
      BY <1>2, <2>1, <2>2, <2>4, <3>1, HandleErrorOK
  <2> QED
    BY <1>5, <2>3, <2>4
<1> QED
  BY <1>1, <1>3, <1>4, <1>5

-----------------------------------------------------------------------------
\* The router and the steps.

\* Messages are taken from an inbox and put into it.
LEMMA InboxChanges ==
  ASSUME NEW p, NEW s, InboxOK(p, s)
  PROVE  /\ InboxOK(p, <<>>)
         /\ s # <<>> => InboxOK(p, Tail(s)) /\ MsgOK(Head(s), p)
         /\ \A t : InboxOK(p, t) => InboxOK(p, s \o t)
         /\ \A m : MsgOK(m, p) => InboxOK(p, <<m>>) /\ InboxOK(p, Append(s, m))
<1>1. InboxOK(p, <<>>)
  BY ShortLists DEF InboxOK
<1>2. ASSUME s # <<>> PROVE InboxOK(p, Tail(s)) /\ MsgOK(Head(s), p)
  <2>1. /\ IsList(Tail(s)) /\ Len(s) \in Nat /\ Len(s) >= 1 /\ Head(s) = s[1]
        /\ Len(Tail(s)) = Len(s) - 1 /\ \A i \in 1..Len(Tail(s)) : Tail(s)[i] = s[i + 1]
    BY <1>2, ListTail DEF InboxOK
  <2>2. MsgOK(Head(s), p)
    <3>1. 1 \in 1..Len(s)
      BY <2>1
    <3> QED
      BY <2>1, <3>1 DEF InboxOK
  <2>3. ASSUME NEW i \in 1..Len(Tail(s)) PROVE MsgOK(Tail(s)[i], p)
    <3>1. i + 1 \in 1..Len(s) /\ Tail(s)[i] = s[i + 1]
      BY <2>1
    <3> QED
      BY <3>1 DEF InboxOK
  <2> QED
    BY <2>1, <2>2, <2>3 DEF InboxOK
<1>3. ASSUME NEW t, InboxOK(p, t) PROVE InboxOK(p, s \o t)
  <2>1. /\ IsList(s \o t) /\ Len(s \o t) = Len(s) + Len(t)
        /\ \A i \in 1..Len(s) : (s \o t)[i] = s[i]
        /\ \A i \in 1..Len(t) : (s \o t)[Len(s) + i] = t[i]
    BY <1>3, ListConcat DEF InboxOK
  <2>2. Len(s) \in Nat /\ Len(t) \in Nat
    BY <1>3, ListFacts DEF InboxOK
  <2>3. ASSUME NEW i \in 1..Len(s \o t) PROVE MsgOK((s \o t)[i], p)
    <3>1. CASE i \in 1..Len(s)
      <4>1. (s \o t)[i] = s[i] /\ MsgOK(s[i], p)
        BY <2>1, <3>1 DEF InboxOK
      <4> QED
        BY <4>1
    <3>2. CASE i \notin 1..Len(s)
      <4> DEFINE j == i - Len(s)
      <4>1. j \in 1..Len(t) /\ Len(s) + j = i
        BY <2>1, <2>2, <3>2
      <4> HIDE DEF j
      <4>2. (s \o t)[Len(s) + j] = t[j] /\ MsgOK(t[j], p)
        BY <1>3, <2>1, <4>1 DEF InboxOK
      <4> QED
        BY <4>1, <4>2
    <3> QED
      BY <3>1, <3>2
  <2> QED
    BY <2>1, <2>3 DEF InboxOK
<1>4. ASSUME NEW m, MsgOK(m, p) PROVE InboxOK(p, <<m>>) /\ InboxOK(p, Append(s, m))
  <2> DEFINE t == <<m>>
  <2>1. IsList(t) /\ Len(t) = 1 /\ t[1] = m
    BY ShortLists
  <2>2. Append(s, m) = s \o t
    <3> DEFINE S == {s[i] : i \in 1..Len(s)} \union {m}
    <3>1. s \in Seq(S) /\ m \in S
      <4>1. \A i \in 1..Len(s) : s[i] \in S
        OBVIOUS
      <4>2. m \in S
        OBVIOUS
      <4> HIDE DEF S
      <4> QED
        BY <4>1, <4>2, ListFacts DEF InboxOK
    <3> HIDE DEF S
    <3> QED
      BY <3>1, AppendIsConcat
  <2> HIDE DEF t
  <2>3. InboxOK(p, t)
    BY <1>4, <2>1 DEF InboxOK
  <2>4. InboxOK(p, s \o t)
    BY <1>3, <2>3
  <2> QED
    BY <2>2, <2>3, <2>4 DEF t
<1> QED
  BY <1>1, <1>2, <1>3, <1>4

\* What a handler sends reaches the device it is for.
LEMMA SendsOK ==
  ASSUME PeerInv, NEW e \in Device, NEW h, Good(e, h), Sends(e, h), UNCHANGED scene
  PROVE  PeerInv'
<1>1. /\ DOMAIN dev = Device /\ DOMAIN inbox = Device /\ scene \in Scenes
      /\ \A p \in Device : DevOK(p, dev[p]) /\ InboxOK(p, inbox[p])
  BY DEF PeerInv
<1>2. dev' = [dev EXCEPT ![e] = h.d] /\ DevOK(e, h.d)
  BY DEF Sends, Good
<1>3. DOMAIN dev' = Device /\ \A p \in Device : DevOK(p, dev'[p])
  BY <1>1, <1>2
<1>4. ASSUME NEW p \in Device PROVE InboxOK(p, inbox'[p])
  <2> DEFINE kept == IF p = e /\ inbox[e] # <<>> THEN Tail(inbox[e]) ELSE inbox[p]
             new  == IF h.out # <<>> /\ Reaches(h.out[1], p) THEN h.out ELSE <<>>
  <2>1. inbox'[p] = kept \o new
    BY DEF Sends
  <2>2. InboxOK(p, kept)
    BY <1>1, InboxChanges
  <2>3. InboxOK(p, new)
    <3>1. CASE h.out # <<>> /\ Reaches(h.out[1], p)
      <4>1. PICK m : h.out = <<m>> /\ m.to \in UniqueName /\ MsgOK(m, m.to[1])
        BY <3>1 DEF Good
      <4>2. m.to = p \/ m.to = Me(dev[p])
        BY <3>1, <4>1 DEF Reaches
      <4>3. m.to # p
        BY <4>1, UniqueNames
      <4>4. m.to[1] = p
        BY <1>1, <4>2, <4>3 DEF Me, DevOK, FieldsOK
      <4>5. MsgOK(m, p)
        BY <4>1, <4>4
      <4>6. InboxOK(p, <<m>>)
        BY <1>1, <4>5, InboxChanges
      <4> QED
        BY <3>1, <4>1, <4>6
    <3>2. CASE ~(h.out # <<>> /\ Reaches(h.out[1], p))
      BY <1>1, <3>2, InboxChanges
    <3> QED
      BY <3>1, <3>2
  <2> HIDE DEF kept, new
  <2>4. InboxOK(p, kept \o new)
    BY <2>2, <2>3, InboxChanges
  <2> QED
    BY <2>1, <2>4
<1>5. DOMAIN inbox' = Device
  BY DEF Sends
<1> QED
  BY <1>1, <1>3, <1>4, <1>5 DEF PeerInv

LEMMA ReceiveOK ==
  ASSUME PeerInv, NEW e \in Device, NEW chance, Receive(e, chance), UNCHANGED scene
  PROVE  PeerInv'
<1> DEFINE h == Handle(dev[e], Head(inbox[e]), chance)
<1>1. DevOK(e, dev[e]) /\ MsgOK(Head(inbox[e]), e)
  BY InboxChanges DEF PeerInv, Receive
<1>2. Good(e, h)
  BY <1>1, HandleOK
<1>3. Sends(e, h)
  BY DEF Receive
<1> HIDE DEF h
<1> QED
  BY <1>2, <1>3, SendsOK

LEMMA CallTimesOutOK ==
  ASSUME PeerInv, NEW e \in Device, NEW chance, CallTimesOut(e, chance), UNCHANGED scene
  PROVE  PeerInv'
<1>1. DevOK(e, dev[e])
  BY DEF PeerInv
<1> DEFINE error(c) == [type |-> "error", kind |-> c.kind, id |-> c.id, from |-> Me(dev[e]),
                        seal |-> None, body |-> "Timeout"]
           left(c) == [dev[e] EXCEPT !.calls = @ \ {c}]
<1>2. PICK c \in dev[e].calls : Sends(e, HandleReply(left(c), error(c), chance))
  BY DEF CallTimesOut
<1> DEFINE m == error(c)
           d == left(c)
           h == HandleReply(d, m, chance)
<1>3. DevOK(e, d)
  BY <1>1, AnsweredCall
<1>4. m.type = "error" /\ m.kind \in Kinds /\ m.body = "Timeout"
  BY <1>1, <1>2 DEF DevOK, CallsOK
<1>5. Sends(e, h)
  BY <1>2
<1> HIDE DEF m, d
<1>6. Good(e, h)
  BY <1>3, <1>4, HandleErrorOK
<1> HIDE DEF h
<1> QED
  BY <1>5, <1>6, SendsOK

\* A device without a handshake begins an attempt.
LEMMA AttemptOK ==
  ASSUME NEW e \in Device, NEW d, DevOK(e, d), d.peerGuid = 0, NEW p \in Device
  PROVE  DevOK(e, [d EXCEPT !.cb = Len(d.attempts) + 1, !.peerName = p,
                            !.attempts = Append(@, p), !.answers = Append(@, <<>>)])
<1> DEFINE attempts == Append(d.attempts, p)
           answers == Append(d.answers, <<>>)
           cb == Len(d.attempts) + 1
           c == [d EXCEPT !.cb = cb, !.peerName = p, !.attempts = attempts, !.answers = answers]
<1>1. /\ FieldsOK(e, d) /\ AnswersOK(d) /\ CallsOK(d) /\ SecretsOK(e, d) /\ HandshakeOK(e, d)
      /\ HashOK(e, d) /\ DOMAIN d = DeviceFields
  BY DEF DevOK, FieldsOK
<1>2. [d EXCEPT !.cb = Len(d.attempts) + 1, !.peerName = p,
                !.attempts = Append(@, p), !.answers = Append(@, <<>>)] = c
  OBVIOUS
<1>3. /\ attempts \in Seq(Device) /\ Len(attempts) = Len(d.attempts) + 1
      /\ answers \in Seq(Seq(Status)) /\ Len(answers) = Len(d.answers) + 1
      /\ answers[Len(d.answers) + 1] = <<>>
      /\ \A i \in 1..Len(d.answers) : answers[i] = d.answers[i]
  <2>1. d.attempts \in Seq(Device) /\ d.answers \in Seq(Seq(Status)) /\ <<>> \in Seq(Status)
    BY <1>1, EmptySeq DEF AnswersOK
  <2> QED
    BY <2>1, AppendProperties
<1>4. Len(d.answers) = Len(d.attempts) /\ Len(d.attempts) \in Nat
  BY <1>1, LenProperties DEF AnswersOK
<1> HIDE DEF attempts, answers, cb
<1>5. /\ DOMAIN c = DeviceFields
      /\ \A f \in DeviceFields \ {"cb", "peerName", "attempts", "answers"} : c[f] = d[f]
      /\ c.cb = cb /\ c.peerName = p /\ c.attempts = attempts /\ c.answers = answers
  BY <1>1 DEF DeviceFields
<1> HIDE DEF c
<1>6. /\ c.peerGuid = d.peerGuid /\ c.state = d.state /\ c.suite = d.suite /\ c.suites = d.suites
      /\ c.mastersecret = d.mastersecret /\ c.hash = d.hash /\ c.me = d.me /\ c.conn = d.conn
      /\ c.key = d.key /\ c.n = d.n /\ c.map = d.map /\ c.secret = d.secret /\ c.calls = d.calls
  BY <1>5 DEF DeviceFields
<1>7. FieldsOK(e, c)
  BY <1>1, <1>5, <1>6 DEF FieldsOK
<1>8. AnswersOK(c)
  <2>1. cb \in 0..Len(attempts) /\ Len(answers) = Len(attempts)
    BY <1>3, <1>4 DEF cb
  <2>2. ASSUME NEW i \in 1..Len(answers)
        PROVE  Len(answers[i]) <= 1 /\ (cb = i => answers[i] = <<>>)
    <3>1. CASE i = Len(d.answers) + 1
      BY <1>3, <3>1, EmptySeq
    <3>2. CASE i # Len(d.answers) + 1
      <4>1. i \in 1..Len(d.answers) /\ i # cb
        BY <1>3, <1>4, <3>2 DEF cb
      <4>2. answers[i] = d.answers[i] /\ Len(d.answers[i]) <= 1
        BY <1>1, <1>3, <4>1 DEF AnswersOK
      <4> QED
        BY <4>1, <4>2
    <3> QED
      BY <3>1, <3>2
  <2> QED
    BY <1>3, <1>5, <2>1, <2>2 DEF AnswersOK
<1>9. CallsOK(c) /\ SecretsOK(e, c) /\ HashOK(e, c)
  BY <1>1, <1>6 DEF CallsOK, SecretsOK, HashOK
<1>10. HandshakeOK(e, c)
  BY <1>1, <1>6 DEF HandshakeOK
<1>11. DevOK(e, c)
  BY <1>7, <1>8, <1>9, <1>10 DEF DevOK
<1> QED
  BY <1>2, <1>11

LEMMA AuthenticateOK ==
  ASSUME PeerInv, NEW e \in Device, NEW p \in Device, NEW chance,
         AJ_PeerAuthenticate(e, p, chance), UNCHANGED scene
  PROVE  PeerInv'
<1>1. /\ DOMAIN dev = Device /\ DOMAIN inbox = Device /\ scene \in Scenes
      /\ \A q \in Device : DevOK(q, dev[q]) /\ InboxOK(q, inbox[q])
  BY DEF PeerInv
<1>2. e # p
  BY <1>1, PeerAssumption DEF AJ_PeerAuthenticate
<1> DEFINE d == AJ_ClearAuthContext(AfterTimeout(dev[e], chance.late))
           c == [d EXCEPT !.cb = Len(d.attempts) + 1, !.peerName = p,
                          !.attempts = Append(@, p), !.answers = Append(@, <<>>)]
           sent == Call(c, "ExchangeGUIDs", p, None, e)
           m == [type |-> "call", kind |-> "ExchangeGUIDs", id |-> c.n + 1, from |-> Me(c),
                 to |-> p, seal |-> None, body |-> e]
<1>3. DevOK(e, d) /\ d.peerGuid = 0
  <2>1. "OK" \in Status
    BY DEF Status
  <2> QED
    BY <1>1, <2>1, TimeoutOK, CompleteOK
<1>4. dev' = [dev EXCEPT ![e] = sent.d] /\ inbox' = [inbox EXCEPT ![p] = @ \o sent.out]
  BY DEF AJ_PeerAuthenticate
<1>5. sent.out = <<m>>
  BY DEF Call, Does
<1> HIDE DEF d
<1>6. DevOK(e, c)
  BY <1>3, AttemptOK
<1> HIDE DEF c
<1>7. DevOK(e, sent.d)
  <2>1. "ExchangeGUIDs" \in Kinds
    BY DEF Kinds
  <2> QED
    BY <1>6, <2>1, CallDev
<1>8. MsgOK(m, p)
  <2>1. Me(c) \in UniqueName /\ Me(c)[1] = e
    BY <1>6, UniqueNames DEF DevOK, FieldsOK, Me
  <2> QED
    BY <1>2, <2>1 DEF MsgOK, Kinds, BodyOK
<1> HIDE DEF sent, m
<1>9. InboxOK(p, <<m>>)
  BY <1>1, <1>8, InboxChanges
<1>10. InboxOK(p, inbox[p] \o <<m>>)
  BY <1>1, <1>9, InboxChanges
<1>11. DOMAIN inbox' = Device /\ \A q \in Device : InboxOK(q, inbox'[q])
  <2>1. inbox' = [inbox EXCEPT ![p] = inbox[p] \o <<m>>]
    BY <1>4, <1>5
  <2> QED
    BY <1>1, <1>10, <2>1
<1>12. DOMAIN dev' = Device /\ \A q \in Device : DevOK(q, dev'[q])
  BY <1>1, <1>4, <1>7
<1> QED
  BY <1>1, <1>11, <1>12 DEF PeerInv

LEMMA ReconnectOK ==
  ASSUME PeerInv, NEW e \in Device, Reconnect(e), UNCHANGED scene
  PROVE  PeerInv'
<1>1. /\ DOMAIN dev = Device /\ DOMAIN inbox = Device /\ scene \in Scenes
      /\ \A q \in Device : DevOK(q, dev[q]) /\ InboxOK(q, inbox[q])
  BY DEF PeerInv
<1> DEFINE d == dev[e]
           cleared == AJ_ClearAuthContext(d)
           c == [cleared EXCEPT !.conn = @ + 1, !.calls = {}, !.map = NoNames]
           m == [type |-> "lost", kind |-> "lost", id |-> 0, from |-> Me(d), seal |-> None, body |-> None]
<1>2. /\ d.conn < scene.connections /\ dev' = [dev EXCEPT ![e] = c]
      /\ inbox' = [p \in Device |-> IF p = e \/ p \notin scene.on THEN <<>> ELSE Append(inbox[p], m)]
  BY DEF Reconnect
<1>3. DevOK(e, d) /\ DOMAIN d = DeviceFields /\ d.conn \in Connections /\ d.me = e /\ d.n \in Nat /\ AnswersOK(d)
  BY <1>1 DEF DevOK, FieldsOK
<1> HIDE DEF d
<1>5. /\ DOMAIN cleared = DeviceFields /\ cleared.cb = 0 /\ cleared.peerName = None
      /\ cleared.peerGuid = 0 /\ cleared.state = "NONE" /\ cleared.suite = NoSuite
      /\ cleared.suites = {} /\ cleared.mastersecret = {} /\ cleared.hash = <<>>
  BY <1>3 DEF AJ_ClearAuthContext, DeviceFields
<1>6. /\ cleared.me = d.me /\ cleared.conn = d.conn /\ cleared.n = d.n
      /\ cleared.secret = d.secret /\ cleared.attempts = d.attempts /\ cleared.answers = d.answers
  BY <1>3 DEF AJ_ClearAuthContext, DeviceFields
<1> HIDE DEF cleared
<1>7. /\ DOMAIN c = DeviceFields /\ c.cb = 0 /\ c.peerName = None
      /\ c.peerGuid = 0 /\ c.state = "NONE" /\ c.suite = NoSuite
      /\ c.suites = {} /\ c.mastersecret = {} /\ c.hash = <<>>
      /\ c.me = e /\ c.conn = d.conn + 1 /\ c.n = d.n
      /\ c.secret = d.secret /\ c.attempts = d.attempts /\ c.answers = d.answers
      /\ c.calls = {} /\ c.map = NoNames
  BY <1>3, <1>5, <1>6 DEF DeviceFields
<1> HIDE DEF c
<1>8. d.conn + 1 \in Connections
  <2>1. scene.connections \in Nat \ {0}
    BY <1>1, PeerAssumption
  <2>2. PICK s \in Scenes : d.conn \in 1..s.connections
    BY <1>3 DEF Connections
  <2>3. s.connections \in Nat
    BY PeerAssumption
  <2>4. d.conn + 1 \in 1..scene.connections
    BY <1>2, <2>1, <2>2, <2>3
  <2> QED
    BY <1>1, <2>4 DEF Connections
<1>9. AnswersOK(c)
  BY <1>3, <1>7 DEF AnswersOK
<1>10. CallsOK(c) /\ MapOK(e, c.map)
  BY <1>7, NoNamesOK, FS_EmptySet DEF CallsOK, AJ_NUM_REPLY_CONTEXTS
<1>11. DevOK(e, c)
  BY <1>3, <1>7, <1>8, <1>9, <1>10, IdleOK
<1>12. DOMAIN dev' = Device /\ \A q \in Device : DevOK(q, dev'[q])
  BY <1>1, <1>2, <1>11
<1>13. ASSUME NEW p \in Device PROVE InboxOK(p, inbox'[p])
  <2>1. CASE p = e \/ p \notin scene.on
    BY <1>1, <1>2, <2>1, InboxChanges
  <2>2. CASE ~(p = e \/ p \notin scene.on)
    <3>1. MsgOK(m, p)
      <4>1. Me(d) \in UniqueName /\ Me(d)[1] = e
        BY <1>3, UniqueNames DEF Me
      <4> QED
        BY <2>2, <4>1 DEF MsgOK
    <3> HIDE DEF m
    <3>2. InboxOK(p, Append(inbox[p], m))
      BY <1>1, <3>1, InboxChanges
    <3> QED
      BY <1>2, <2>2, <3>2
  <2> QED
    BY <2>1, <2>2
<1>14. DOMAIN inbox' = Device
  BY <1>2
<1> QED
  BY <1>1, <1>12, <1>13, <1>14 DEF PeerInv

LEMMA ForgetOK ==
  ASSUME PeerInv, NEW e \in Device, NEW p \in Device, Forget(e, p), UNCHANGED scene
  PROVE  PeerInv'
<1> DEFINE d == dev[e]
           secret == [d.secret EXCEPT ![p] = {}]
           c == [d EXCEPT !.secret = secret]
<1>1. /\ DOMAIN dev = Device /\ DOMAIN inbox = Device /\ scene \in Scenes
      /\ \A q \in Device : DevOK(q, dev[q]) /\ InboxOK(q, inbox[q])
  BY DEF PeerInv
<1>2. /\ FieldsOK(e, d) /\ AnswersOK(d) /\ CallsOK(d) /\ SecretsOK(e, d) /\ HandshakeOK(e, d)
      /\ HashOK(e, d) /\ DOMAIN d = DeviceFields
  BY <1>1 DEF DevOK, FieldsOK
<1>3. dev' = [dev EXCEPT ![e] = c] /\ inbox' = inbox
  BY <1>1, <1>2 DEF Forget, DeviceFields
<1>4. DOMAIN secret = Device /\ \A q \in Device : secret[q] = {} \/ secret[q] = d.secret[q]
  BY <1>2 DEF SecretsOK
<1> HIDE DEF secret, d
<1>5. /\ DOMAIN c = DeviceFields /\ \A f \in DeviceFields \ {"secret"} : c[f] = d[f]
      /\ c.secret = secret
  BY <1>2 DEF DeviceFields
<1> HIDE DEF c
<1>6. /\ c.cb = d.cb /\ c.peerName = d.peerName /\ c.peerGuid = d.peerGuid /\ c.state = d.state
      /\ c.suite = d.suite /\ c.suites = d.suites /\ c.mastersecret = d.mastersecret
      /\ c.hash = d.hash /\ c.me = d.me /\ c.conn = d.conn /\ c.key = d.key /\ c.n = d.n
      /\ c.map = d.map /\ c.calls = d.calls /\ c.attempts = d.attempts /\ c.answers = d.answers
  BY <1>5 DEF DeviceFields
<1>7. SecretsOK(e, c)
  BY <1>2, <1>4, <1>5, <1>6 DEF SecretsOK
<1>8. FieldsOK(e, c) /\ AnswersOK(c) /\ CallsOK(c) /\ HashOK(e, c)
  BY <1>2, <1>5, <1>6 DEF FieldsOK, AnswersOK, CallsOK, HashOK
<1>9. HandshakeOK(e, c)
  BY <1>2, <1>6 DEF HandshakeOK, WithPeer, PeerOf
<1>10. DevOK(e, c)
  BY <1>7, <1>8, <1>9 DEF DevOK
<1> QED
  BY <1>1, <1>3, <1>10 DEF PeerInv

\* The beginning.
LEMMA InitOK ==
  ASSUME Init
  PROVE  PeerInv
<1>1. scene \in Scenes /\ inbox = [e \in Device |-> <<>>]
  BY DEF Init
<1>2. PICK f \in scene.secrets : dev = [e \in Device |-> InitDevice(e, f[e])]
  BY DEF Init
<1>3. 1 \in Connections
  <2>1. scene.connections \in Nat \ {0}
    BY <1>1, PeerAssumption
  <2>2. 1 \in 1..scene.connections
    BY <2>1
  <2> QED
    BY <1>1, <2>2 DEF Connections
<1>4. ASSUME NEW e \in Device PROVE DevOK(e, dev[e])
  <2> DEFINE d == InitDevice(e, f[e])
  <2>1. /\ DOMAIN d = DeviceFields /\ d.cb = 0 /\ d.peerName = None /\ d.peerGuid = 0
        /\ d.state = "NONE" /\ d.suite = NoSuite /\ d.suites = {} /\ d.mastersecret = {}
        /\ d.hash = <<>> /\ d.me = e /\ d.conn = 1 /\ d.n = 0 /\ d.map = NoNames
        /\ d.secret = f[e] /\ d.calls = {} /\ d.attempts = <<>> /\ d.answers = <<>>
    BY DEF InitDevice, DeviceFields
  <2> HIDE DEF d
  <2>2. FieldsOK(e, d)
    BY <1>3, <2>1, NoNamesOK, NameMapAssumption DEF FieldsOK
  <2>3. AnswersOK(d)
    BY <2>1, EmptySeq DEF AnswersOK
  <2>4. CallsOK(d)
    BY <2>1, FS_EmptySet DEF CallsOK, AJ_NUM_REPLY_CONTEXTS
  <2>5. SecretsOK(e, d)
    <3>1. DOMAIN f[e] = Device /\ \A p \in Device : f[e][p] = {} \/ Earlier(f[e][p], e, p)
      BY <1>1, <1>2, PeerAssumption
    <3> QED
      BY <2>1, <3>1 DEF SecretsOK
  <2>6. HandshakeOK(e, d)
    BY <2>1 DEF HandshakeOK
  <2>7. HashOK(e, d)
    BY <2>1, ShortLists DEF HashOK
  <2>8. DevOK(e, d)
    BY <2>2, <2>3, <2>4, <2>5, <2>6, <2>7 DEF DevOK
  <2> QED
    BY <1>2, <2>8 DEF d
<1>5. \A e \in Device : InboxOK(e, inbox[e])
  BY <1>1, ShortLists DEF InboxOK
<1> QED
  BY <1>1, <1>2, <1>4, <1>5 DEF PeerInv

\* Every step.
LEMMA NextOK ==
  ASSUME PeerInv, [Next]_vars
  PROVE  PeerInv'
<1>1. scene.on \subseteq Device
  BY PeerAssumption DEF PeerInv
<1>2. CASE UNCHANGED vars
  BY <1>2 DEF PeerInv, vars, DevOK, InboxOK
<1>3. CASE Next
  <2>1. UNCHANGED scene
    BY <1>3 DEF Next
  <2>2. PICK e \in Device :
          \/ \E chance : Receive(e, chance)
          \/ \E chance : CallTimesOut(e, chance)
          \/ \E chance : \E p \in Device : AJ_PeerAuthenticate(e, p, chance)
          \/ Reconnect(e)
          \/ \E p \in Device : Forget(e, p)
    BY <1>1, <1>3, Zenon DEF Next
  <2>3. CASE \E chance : Receive(e, chance)
    BY <2>1, <2>3, ReceiveOK
  <2>4. CASE \E chance : CallTimesOut(e, chance)
    BY <2>1, <2>4, CallTimesOutOK
  <2>5. CASE \E chance : \E p \in Device : AJ_PeerAuthenticate(e, p, chance)
    BY <2>1, <2>5, AuthenticateOK
  <2>6. CASE Reconnect(e)
    BY <2>1, <2>6, ReconnectOK
  <2>7. CASE \E p \in Device : Forget(e, p)
    BY <2>1, <2>7, ForgetOK
  <2> QED
    BY <2>2, <2>3, <2>4, <2>5, <2>6, <2>7
<1> QED
  BY <1>2, <1>3

-----------------------------------------------------------------------------
\* The theorems.

\* The invariant holds whatever the devices, their suites, keys and certificates are.
THEOREM PeerAlways == Spec => []PeerInv
<1>1. Init => PeerInv
  BY InitOK
<1>2. PeerInv /\ [Next]_vars => PeerInv'
  BY NextOK
<1> QED
  BY <1>1, <1>2, PTL DEF Spec

\* The devices of a secret.
LEMMA MadeFacts ==
  ASSUME NEW secret, NEW e, NEW p, Made(secret, e, p)
  PROVE  /\ {k[1] : k \in secret} = {e, p}
         /\ e # p => Cardinality(secret) = 2
<1>1. PICK k \in secret, l \in secret : secret = {k, l} /\ k[1] = e /\ l[1] = p
  BY DEF Made
<1>2. {x[1] : x \in secret} = {e, p}
  BY <1>1
<1>3. ASSUME e # p PROVE Cardinality(secret) = 2
  <2>1. k # l
    BY <1>1, <1>3
  <2>2. IsFiniteSet({l}) /\ Cardinality({l}) = 1
    BY FS_Singleton
  <2>3. Cardinality({l} \union {k}) = Cardinality({l}) + 1
    BY <2>1, <2>2, FS_AddElement
  <2>4. {l} \union {k} = secret
    BY <1>1
  <2> QED
    BY <2>2, <2>3, <2>4
<1> QED
  BY <1>2, <1>3

\* No more calls wait than there are reply contexts, the peer of a handshake is a slot of the
\* map, and a handshake under way has its suite (AJ_AllocReplyContext, authContext and
\* handshakeContext of aj_peer.c), for any number of devices, names and attempts.
THEOREM PeerTypes == Spec => []TypeOK
<1>1. ASSUME PeerInv, NEW e \in Device
      PROVE  LET d == dev[e] IN
               /\ d.cb \in 0..Len(d.attempts) /\ Len(d.answers) = Len(d.attempts)
               /\ Cardinality(d.calls) <= AJ_NUM_REPLY_CONTEXTS
               /\ d.peerGuid \in 0..NumNames /\ Len(d.map) = NumNames
               /\ d.state \in {"NONE", "EXCHANGED", "SUCCESS"}
               /\ d.state = "EXCHANGED" => d.suite # NoSuite /\ d.peerGuid # 0
               /\ d.state # "NONE" => d.mastersecret # {}
               /\ \A p \in Device : d.secret[p] = {} \/ Cardinality(d.secret[p]) = 2
  <2> DEFINE d == dev[e]
  <2>1. /\ FieldsOK(e, d) /\ AnswersOK(d) /\ CallsOK(d) /\ SecretsOK(e, d) /\ HandshakeOK(e, d)
    BY <1>1 DEF PeerInv, DevOK
  <2> HIDE DEF d
  <2>2. Len(d.map) = NumNames
    <3>1. d.map = [i \in 1..NumNames |-> d.map[i]] /\ NumNames \in Nat
      BY <2>1, NameMapAssumption DEF FieldsOK, MapOK
    <3> DEFINE S == {d.map[i] : i \in 1..NumNames}
    <3>2. \A i \in 1..NumNames : d.map[i] \in S
      OBVIOUS
    <3> HIDE DEF S
    <3>3. d.map \in Seq(S)
      BY <3>1, <3>2, IsASeq
    <3> QED
      BY <3>1, <3>3, LenProperties
  <2>3. d.cb \in 0..Len(d.attempts) /\ Len(d.answers) = Len(d.attempts)
    BY <2>1 DEF AnswersOK
  <2>4. Cardinality(d.calls) <= AJ_NUM_REPLY_CONTEXTS
    BY <2>1 DEF CallsOK
  <2>5. d.peerGuid \in 0..NumNames /\ d.state \in {"NONE", "EXCHANGED", "SUCCESS"}
    BY <2>1 DEF FieldsOK
  <2>6. /\ d.state = "EXCHANGED" => d.suite # NoSuite /\ d.peerGuid # 0
        /\ d.state # "NONE" => d.mastersecret # {}
    BY <2>1 DEF HandshakeOK
  <2>7. ASSUME NEW p \in Device, d.secret[p] # {} PROVE Cardinality(d.secret[p]) = 2
    <3>1. Made(d.secret[p], e, p) /\ e # p
      BY <2>1, <2>7 DEF SecretsOK, Earlier, Made
    <3> QED
      BY <3>1, MadeFacts
  <2> QED
    BY <2>2, <2>3, <2>4, <2>5, <2>6, <2>7 DEF d
<1>2. PeerInv => TypeOK
  BY <1>1 DEF TypeOK
<1> QED
  BY <1>2, PeerAlways, PTL

\* HandshakeComplete is called by the steps that fail and again by their callers: an attempt of
\* AJ_PeerAuthenticate is called back at most once all the same, over any number of attempts and
\* losses.  (That it is called back at all does not hold: its callback may be forgotten.)
THEOREM AnsweredAtMostOnce == Spec => []OneAnswer
<1>1. PeerInv => OneAnswer
  BY DEF PeerInv, DevOK, AnswersOK, OneAnswer
<1> QED
  BY <1>1, PeerAlways, PTL

\* The context of a handshake is static and of either role: what it holds, and what
\* SaveMasterSecret stores, was made by the device and the peer of the handshake.
THEOREM SecretsMadeByBoth == Spec => []MadeByBoth
<1>1. ASSUME PeerInv, NEW e \in Device
      PROVE  LET d == dev[e] IN
               /\ d.peerGuid # 0 /\ d.mastersecret # {} /\ PeerOf(d) # None =>
                    {k[1] : k \in d.mastersecret} = {e, PeerOf(d)}
               /\ \A p \in Device : d.secret[p] # {} => {k[1] : k \in d.secret[p]} = {e, p}
  <2> DEFINE d == dev[e]
  <2>1. SecretsOK(e, d) /\ HandshakeOK(e, d)
    BY <1>1 DEF PeerInv, DevOK
  <2> HIDE DEF d
  <2>2. ASSUME d.peerGuid # 0, d.mastersecret # {}, PeerOf(d) # None
        PROVE  {k[1] : k \in d.mastersecret} = {e, PeerOf(d)}
    <3>1. Made(d.mastersecret, e, PeerOf(d))
      BY <2>1, <2>2 DEF HandshakeOK, WithPeer
    <3> QED
      BY <3>1, MadeFacts
  <2>3. ASSUME NEW p \in Device, d.secret[p] # {} PROVE {k[1] : k \in d.secret[p]} = {e, p}
    <3>1. Made(d.secret[p], e, p)
      BY <2>1, <2>3 DEF SecretsOK, Earlier, Made
    <3> QED
      BY <3>1, MadeFacts
  <2> QED
    BY <2>2, <2>3 DEF d
<1>2. PeerInv => MadeByBoth
  BY <1>1 DEF MadeByBoth
<1> QED
  BY <1>2, PeerAlways, PTL

\* Unmarshal of aj_keyauthentication.c accepts a peer only of a suite that both have, and only
\* with its pre-shared key in the transcript or a chain that the listener approves: no order of
\* messages, losses and attempts makes a handshake succeed with another.
THEOREM SucceedsWithFriends == Spec => []OnlyFriends
<1>1. PeerInv => OnlyFriends
  BY DEF PeerInv, DevOK, HandshakeOK, WithPeer, SecretsOK, Earlier, OnlyFriends
<1> QED
  BY <1>1, PeerAlways, PTL

=============================================================================
