--------------------------- MODULE PeerKeyProofs ---------------------------
(***************************************************************************)
(* Whenever an attempt to authenticate succeeds, the two ends agree about  *)
(* their keys, for any devices, names, attempts and connections, if an     *)
(* application waits for the calls of an attempt before it makes the next. *)
(* The invariant KeysInv follows the calls and answers of an attempt       *)
(* through the queues of both devices.                                     *)
(***************************************************************************)
EXTENDS PeerProofs

(***************************************************************************)
(* The invariant of the devices and the queues between them, when an       *)
(* application waits for the calls of an attempt before the next.          *)
(***************************************************************************)
Messages(s) == {s[i] : i \in 1..Len(s)}
Before(s, m, l) == \E i, j \in 1..Len(s) : i < j /\ s[i] = m /\ s[j] = l

IsAnswer(m) == m.type \in {"reply", "error"}
IsCall(m, e) == m.type = "call" /\ m.from[1] = e
\* What the one that called acts upon: the peer is not just busy.
Loud(m) == m.type = "reply" \/ (m.type = "error" /\ m.body # "Resources")

\* That the connection of that name is gone is still to be read.
Lost(s, name) == \E l \in Messages(s) : l.type = "lost" /\ l.from = name

\* Two messages of a device are read in the order of its connections and calls.
InOrder(s) ==
  \A m, l \in Messages(s) : Before(s, m, l) /\ m.from[1] = l.from[1] =>
    /\ m.from[2] <= l.from[2]
    /\ m.type = "lost" => m.from[2] < l.from[2]
    /\ m.type = "call" /\ l.type = "call" => m.id < l.id

\* A message m for q is of a device that is there, of the connection it has or of one whose end
\* q has still to read, and of a call that was made; an answer is of a call made before those
\* still to be read.
MessageOK(q, m) == LET d == dev[m.from[1]] IN
  /\ m.from[1] \in scene.on
  /\ m.from[2] <= d.conn
  /\ m.type = "lost" => m.from[2] < d.conn
  /\ m.from[2] < d.conn => Lost(inbox[q], m.from)
  /\ m.type = "call" => m.id \in 1..d.n
  /\ IsAnswer(m) => /\ m.id \in 1..dev[q].n
                    /\ \A l \in Messages(inbox[m.from[1]]) : IsCall(l, q) => m.id < l.id
  /\ m.type # "lost" /\ m.kind = "ExchangeGroupKeys" =>
       m.type # "error" /\ m.seal # None /\ m.body = m.from[1]

\* A map has one name of a device.
OneEach(map) ==
  \A s, t \in 1..NumNames : map[s].guid = map[t].guid => s = t \/ map[s].guid = None

\* A mapping x of q is of the connection its device has, or of one whose end q has still to read,
\* and no message of an earlier one comes.
SlotOK(q, x) ==
  /\ x.serviceName \in {None, x.guid} /\ x.keyRole \in 0..2
  /\ x.uniqueName # None =>
       /\ x.uniqueName[2] <= dev[x.guid].conn
       /\ x.uniqueName[2] < dev[x.guid].conn => Lost(inbox[q], x.uniqueName)
       /\ \A m \in Messages(inbox[q]) : m.from[1] = x.guid => x.uniqueName[2] <= m.from[2]

NamesOK(q) == OneEach(dev[q].map) /\ \A s \in 1..NumNames : SlotOK(q, dev[q].map[s])

\* The peer of the attempt whose callback is to come.
Wanted(e) == dev[e].attempts[dev[e].cb]

\* An attempt is with the peer that was asked for, has one call open, and what is under way of
\* that call is between the two.
WaitsOK(e) == LET d == dev[e] IN
  /\ d.cb = 0 => d.peerName = None
  /\ d.cb # 0 =>
       /\ d.peerName = Wanted(e) /\ <<e, Wanted(e)>> \in scene.wanted
       /\ d.peerGuid # 0 /\ PeerOf(d) # None =>
            PeerOf(d) = Wanted(e) /\ d.map[d.peerGuid].serviceName = Wanted(e)
       /\ \A c, b \in d.calls : c = b
       /\ \A c \in d.calls :
            /\ c.id \in 1..d.n /\ (c.kind = "ExchangeGUIDs" <=> d.peerGuid = 0)
            /\ \A q \in scene.on : \A m \in Messages(inbox[q]) : IsCall(m, e) =>
                 m.id <= c.id /\ (m.id = c.id => q = Wanted(e) /\ m.kind = c.kind)
            /\ \A m \in Messages(inbox[e]) : IsAnswer(m) /\ m.id = c.id =>
                 m.from[1] = Wanted(e) /\ m.kind = c.kind

\* A device that is in a handshake of its own does not answer one of the peer's: what it said
\* before is read before its own first call, and the peer's calls after it are first ones.
QuietOK(e) == LET d == dev[e] p == Wanted(e) IN d.cb # 0 =>
  /\ d.peerGuid # 0 =>
       /\ \A m \in Messages(inbox[p]) : ~(m.from[1] = e /\ Loud(m))
       /\ \A m \in Messages(inbox[e]) : IsCall(m, p) => m.kind = "ExchangeGUIDs"
  /\ d.peerGuid = 0 => \A c \in d.calls :
       /\ \A m \in Messages(inbox[p]) : m.from[1] = e /\ Loud(m) =>
            /\ \E l \in Messages(inbox[p]) : IsCall(l, e) /\ l.id = c.id
            /\ \A l \in Messages(inbox[p]) : IsCall(l, e) /\ l.id = c.id => ~Before(inbox[p], l, m)
       /\ \A m, l \in Messages(inbox[e]) :
            Before(inbox[e], m, l) /\ IsAnswer(m) /\ m.id = c.id /\ IsCall(l, p) =>
              l.kind = "ExchangeGUIDs"

\* When the answer to the last call is on its way, the peer has the keys it says.
ConfirmedOK(e) == LET d == dev[e] p == Wanted(e) IN d.cb # 0 /\ d.peerGuid # 0 =>
  \A c \in d.calls : \A m \in Messages(inbox[e]) :
    m.type = "reply" /\ m.kind = "ExchangeGroupKeys" /\ m.id = c.id /\ m.from = Me(dev[p]) =>
      LET s == LookupName(dev[p].map, Me(d)) IN
      /\ s # 0 /\ dev[p].map[s].groupKey = e
      /\ m.seal = <<dev[p].map[s].sessionKey, dev[p].map[s].keyRole>>

OrderInv == \A q \in scene.on : InOrder(inbox[q]) /\ \A m \in Messages(inbox[q]) : MessageOK(q, m)
NamesInv == \A q \in scene.on : NamesOK(q)
WaitsInv == \A e \in scene.on : WaitsOK(e)
QuietInv == \A e \in scene.on : QuietOK(e)
ConfirmedInv == \A e \in scene.on : ConfirmedOK(e)
KeysInv == OrderInv /\ NamesInv /\ WaitsInv /\ QuietInv /\ ConfirmedInv

(***************************************************************************)
(* What a handler of the message m makes of the device d.                  *)
(***************************************************************************)
\* The peer is the one of the handshake, whatever the time is.
Valid(d, m) == d.peerGuid # 0 /\ PeerOf(d) # None /\ LookupName(d.map, m.from) = d.peerGuid

\* The device c is d, but for the map and what is of no concern here: the exchange and its keys.
Like(c, d, map) ==
  /\ DOMAIN c = DeviceFields /\ c.map = map
  /\ c.me = d.me /\ c.conn = d.conn /\ c.calls = d.calls /\ c.attempts = d.attempts
  /\ c.n \in Nat /\ d.n \in Nat /\ c.n >= d.n

Answered(c, d, status) == d.cb # 0 /\ c.answers = [d.answers EXCEPT ![d.cb] = Append(@, status)]

Same(c, d, map) ==
  /\ Like(c, d, map)
  /\ c.cb = d.cb /\ c.peerName = d.peerName /\ c.peerGuid = d.peerGuid /\ c.answers = d.answers

\* There is no attempt any more, and it did not succeed.
Over(c, d, map) ==
  /\ Like(c, d, map)
  /\ c.cb = 0 /\ c.peerName = None /\ c.peerGuid = 0
  /\ c.answers = d.answers \/ \E status : status # "OK" /\ Answered(c, d, status)

Stands(c, d, map) == Same(c, d, map) \/ Over(c, d, map)

\* What the message does to the map.
Mapped(d, m, map) ==
  \/ m.type # "lost" /\ map = d.map
  \/ m.type = "lost" /\ map = AJ_GUID_DeleteNameMapping(d.map, m.from)
  \/ /\ m.type \in {"call", "reply"}
     /\ \/ /\ m.kind = "ExchangeGUIDs"
           /\ \E name : /\ name = None \/ (m.type = "reply" /\ name = d.peerName)
                        /\ map = AJ_GUID_AddNameMapping(d.map, m.from[1], m.from, name)
        \/ /\ m.kind = "GenSessionKey"
           /\ \E key, role : role \in 0..2 /\ map = AJ_SetSessionKey(d.map, m.from, key, role)
        \/ m.kind = "ExchangeGroupKeys" /\ map = AJ_SetGroupKey(d.map, m.from, m.body)

\* The handshake succeeds.
Completes(c, d, m) ==
  /\ m.kind = "ExchangeGroupKeys" /\ m.type \in {"call", "reply"} /\ Valid(d, m)
  /\ c.map = AJ_SetGroupKey(d.map, m.from, m.body)

\* The attempt ends, or goes on with the peer it has, or finds its peer.
Attempts(h, d, m) == LET c == h.d IN
  /\ c.cb = 0 => c.peerName = None \/ (d.cb = 0 /\ c.peerName = d.peerName)
  /\ c.cb # 0 =>
       /\ c.cb = d.cb /\ c.peerName = d.peerName /\ c.answers = d.answers
       /\ \/ /\ c.peerGuid = d.peerGuid /\ (m.kind = "ExchangeGUIDs" => c.map = d.map \/ m.type = "lost")
             /\ m.kind = "ExchangeGUIDs" /\ IsAnswer(m) => h.out = <<>>
          \/ /\ d.peerGuid = 0 /\ m.type = "reply" /\ m.kind = "ExchangeGUIDs"
             /\ SlotFor(d.map, m.from) # 0
             /\ c.map = AJ_GUID_AddNameMapping(d.map, m.from[1], m.from, d.peerName)
             /\ c.peerGuid = LookupName(c.map, m.from) /\ h.out # <<>>
       /\ m.type = "call" /\ (\E a : h.out = <<a>> /\ Loud(a)) =>
            Valid(d, m) /\ m.kind # "ExchangeGUIDs"

\* The answer to the attempt.
Ends(c, d, m) ==
  \/ c.answers = d.answers
  \/ c.cb = 0 /\ \E status : Answered(c, d, status) /\ (status = "OK" => Completes(c, d, m))

\* What is sent: nothing, the answer to the call m, or the next call after the answer m.
SendsAnswer(h, d, m) == LET c == h.d IN
  /\ m.type = "call" /\ c.calls = d.calls
  /\ \E a : /\ h.out = <<a>> /\ IsAnswer(a) /\ a.kind = m.kind /\ a.id = m.id
            /\ a.from = Me(d) /\ a.to = m.from
            /\ m.kind = "ExchangeGroupKeys" =>
                 /\ a.type = "reply" /\ a.body = d.me /\ Completes(c, d, m)
                 /\ a.seal = IF m.seal = None THEN None ELSE AJ_GetSessionKey(c.map, m.from)

SendsCall(h, d, m) == LET c == h.d IN
  /\ IsAnswer(m) /\ Loud(m) /\ c.n > d.n
  /\ \E a : /\ h.out = <<a>> /\ a.type = "call" /\ a.kind # "ExchangeGUIDs" /\ a.id = c.n
            /\ a.from = Me(d) /\ a.to = m.from
            /\ a.kind = "ExchangeGroupKeys" => a.seal # None /\ a.body = d.me
            /\ c.calls \in {d.calls, d.calls \union {[id |-> a.id, kind |-> a.kind]}}

Handled(h, d, m) == LET c == h.d IN
  /\ DOMAIN c = DeviceFields /\ c.me = d.me /\ c.conn = d.conn /\ c.attempts = d.attempts
  /\ c.n \in Nat /\ c.n >= d.n
  /\ Mapped(d, m, c.map) /\ Attempts(h, d, m) /\ Ends(c, d, m)
  /\ (h.out = <<>> /\ c.calls = d.calls) \/ SendsAnswer(h, d, m) \/ SendsCall(h, d, m)

-----------------------------------------------------------------------------
\* HandshakeComplete with another status than success.
LEMMA Completed ==
  ASSUME NEW d, DOMAIN d = DeviceFields, d.n \in Nat, NEW status
  PROVE  LET c == HandshakeComplete(d, status) IN
         /\ Like(c, d, d.map) /\ c.cb = 0 /\ c.peerName = None /\ c.peerGuid = 0
         /\ c.answers = d.answers \/ Answered(c, d, status)
<1> DEFINE b == IF d.cb = 0 THEN d ELSE [d EXCEPT !.answers[d.cb] = Append(@, status)]
           c == HandshakeComplete(d, status)
<1>1. /\ DOMAIN b = DeviceFields
      /\ \A f \in DeviceFields \ {"answers"} : b[f] = d[f]
      /\ b.answers = d.answers \/
         (d.cb # 0 /\ b.answers = [d.answers EXCEPT ![d.cb] = Append(d.answers[d.cb], status)])
  BY DEF DeviceFields
<1>2. c = AJ_ClearAuthContext(b)
  BY DEF HandshakeComplete
<1> HIDE DEF b, c
<1>3. /\ DOMAIN c = DeviceFields /\ c.cb = 0 /\ c.peerName = None /\ c.peerGuid = 0
      /\ c.me = b.me /\ c.conn = b.conn /\ c.calls = b.calls /\ c.attempts = b.attempts
      /\ c.n = b.n /\ c.map = b.map /\ c.answers = b.answers
  BY <1>1, <1>2 DEF AJ_ClearAuthContext, DeviceFields
<1>4. /\ b.me = d.me /\ b.conn = d.conn /\ b.calls = d.calls /\ b.attempts = d.attempts
      /\ b.n = d.n /\ b.map = d.map
  BY <1>1 DEF DeviceFields
<1> QED
  BY <1>1, <1>3, <1>4 DEF Like, Answered, c

\* Completing with a failure ends the attempt, if there is one, without success.
LEMMA CompletedOver ==
  ASSUME NEW d, NEW c, NEW map, Same(c, d, map), NEW status, status # "OK"
  PROVE  Over(HandshakeComplete(c, status), d, map)
<1>1. DOMAIN c = DeviceFields /\ c.n \in Nat /\ c.map = map
  BY DEF Same, Like
<1> DEFINE x == HandshakeComplete(c, status)
<1>2. /\ Like(x, c, map) /\ x.cb = 0 /\ x.peerName = None /\ x.peerGuid = 0
      /\ x.answers = c.answers \/ Answered(x, c, status)
  BY <1>1, Completed
<1> HIDE DEF x
<1>3. Like(x, d, map)
  BY <1>2 DEF Same, Like
<1>4. x.answers = d.answers \/ Answered(x, d, status)
  BY <1>2 DEF Same, Answered
<1> QED
  BY <1>2, <1>3, <1>4 DEF Over, x

\* Completing again, as a caller of a failing step does, changes nothing of that.
LEMMA OverAgain ==
  ASSUME NEW d, NEW c, NEW map, Over(c, d, map), NEW status
  PROVE  Over(HandshakeComplete(c, status), d, map)
<1>1. DOMAIN c = DeviceFields /\ c.n \in Nat /\ c.map = map /\ c.cb = 0
  BY DEF Over, Like
<1> DEFINE x == HandshakeComplete(c, status)
<1>2. /\ Like(x, c, map) /\ x.cb = 0 /\ x.peerName = None /\ x.peerGuid = 0
      /\ x.answers = c.answers \/ Answered(x, c, status)
  BY <1>1, Completed
<1> HIDE DEF x
<1>3. Like(x, d, map)
  BY <1>2 DEF Over, Like
<1>4. x.answers = c.answers
  BY <1>1, <1>2 DEF Answered
<1>5. x.answers = d.answers \/ \E s : s # "OK" /\ Answered(x, d, s)
  BY <1>4 DEF Over, Answered
<1> QED
  BY <1>2, <1>3, <1>5 DEF Over, x

\* HandshakeTimeout.
LEMMA TimedOutStands ==
  ASSUME NEW d, DOMAIN d = DeviceFields, d.n \in Nat, NEW late
  PROVE  /\ Stands(AfterTimeout(d, late), d, d.map)
         /\ ~InProgress(d, late) /\ Same(AfterTimeout(d, late), d, d.map) => d.peerGuid = 0
<1>1. Same(d, d, d.map)
  BY DEF Same, Like
<1>2. CASE d.peerGuid # 0 /\ TimedOut(d, late)
  BY <1>1, <1>2, CompletedOver DEF AfterTimeout, Stands, Over, Same
<1>3. CASE ~(d.peerGuid # 0 /\ TimedOut(d, late))
  BY <1>1, <1>3 DEF AfterTimeout, Stands, InProgress
<1> QED
  BY <1>2, <1>3

\* A handshake that the code takes for valid is one with the peer of the message.
LEMMA ValidHandshake ==
  ASSUME NEW d, NEW m, NEW late, HandshakeValid(d, m.from, late)
  PROVE  Valid(d, m)
BY DEF HandshakeValid, InProgress, TimedOut, Valid

\* A handler that says nothing.
LEMMA StandsHandled ==
  ASSUME NEW d, NEW m, NEW c, NEW map, Stands(c, d, map), Mapped(d, m, map),
         m.kind = "ExchangeGUIDs" => Over(c, d, map) \/ map = d.map
  PROVE  Handled(Does(c, <<>>), d, m)
<1> DEFINE h == Does(c, <<>>)
<1>1. h.d = c /\ h.out = <<>>
  BY DEF Does
<1> HIDE DEF h
<1>2. /\ Like(c, d, map) /\ Ends(c, d, m)
      /\ \/ c.cb = 0 /\ c.peerName = None
         \/ /\ c.cb = d.cb /\ c.peerName = d.peerName /\ c.answers = d.answers
            /\ c.peerGuid = d.peerGuid /\ (m.kind = "ExchangeGUIDs" => c.map = d.map)
  BY DEF Stands, Same, Over, Ends, Like
<1>3. Attempts(h, d, m)
  BY <1>1, <1>2, ShortLists DEF Attempts
<1> QED
  BY <1>1, <1>2, <1>3 DEF Handled, Like, h

\* The error a call is answered with.
LEMMA ErrorHandled ==
  ASSUME NEW d, NEW m, m.type = "call", m.kind # "ExchangeGroupKeys", NEW c, Stands(c, d, d.map),
         NEW error, error = "Resources" \/ c.cb = 0 \/ (Valid(d, m) /\ m.kind # "ExchangeGUIDs")
  PROVE  Handled(Error(c, m, error), d, m)
<1> DEFINE h == Error(c, m, error)
           seal == IF m.seal = None THEN None ELSE AJ_GetSessionKey(c.map, m.from)
           a == [type |-> "error", kind |-> m.kind, id |-> m.id, from |-> Me(c), to |-> m.from,
                 seal |-> seal, body |-> error]
<1>1. h.d = c /\ h.out = <<a>>
  BY DEF Does, Error, Answer
<1>2. /\ Like(c, d, d.map) /\ Ends(c, d, m)
      /\ \/ c.cb = 0 /\ c.peerName = None
         \/ /\ c.cb = d.cb /\ c.peerName = d.peerName /\ c.answers = d.answers
            /\ c.peerGuid = d.peerGuid
  BY DEF Stands, Same, Over, Ends, Like
<1>3. a.type = "error" /\ a.kind = m.kind /\ a.id = m.id /\ a.from = Me(d) /\ a.to = m.from /\ a.body = error
  BY <1>2 DEF Like, Me
<1> HIDE DEF h, a
<1>4. \A b : h.out = <<b>> => b = a
  BY <1>1
<1>5. Attempts(h, d, m)
  BY <1>1, <1>2, <1>3, <1>4 DEF Attempts, Loud, IsAnswer, Like
<1>6. SendsAnswer(h, d, m)
  BY <1>1, <1>2, <1>3 DEF SendsAnswer, IsAnswer, Like
<1> QED
  BY <1>1, <1>2, <1>5, <1>6 DEF Handled, Like, Mapped, h

\* The reply to a call of the handshake.
LEMMA ReplyHandled ==
  ASSUME NEW d, NEW m, m.type = "call", m.kind \notin {"ExchangeGUIDs", "ExchangeGroupKeys"},
         Valid(d, m), NEW c, NEW map, Same(c, d, map), Mapped(d, m, map), NEW body
  PROVE  Handled(Answer(c, m, "reply", body), d, m)
<1> DEFINE h == Answer(c, m, "reply", body)
           seal == IF m.seal = None THEN None ELSE AJ_GetSessionKey(c.map, m.from)
           a == [type |-> "reply", kind |-> m.kind, id |-> m.id, from |-> Me(c), to |-> m.from,
                 seal |-> seal, body |-> body]
<1>1. h.d = c /\ h.out = <<a>>
  BY DEF Does, Answer
<1>2. /\ Like(c, d, map) /\ Ends(c, d, m)
      /\ c.cb = d.cb /\ c.peerName = d.peerName /\ c.answers = d.answers /\ c.peerGuid = d.peerGuid
  BY DEF Same, Ends
<1>3. a.type = "reply" /\ a.kind = m.kind /\ a.id = m.id /\ a.from = Me(d) /\ a.to = m.from
  BY <1>2 DEF Like, Me
<1> HIDE DEF h, a
<1>4. Attempts(h, d, m)
  BY <1>1, <1>2 DEF Attempts
<1>5. SendsAnswer(h, d, m)
  BY <1>1, <1>2, <1>3 DEF SendsAnswer, IsAnswer, Like
<1> QED
  BY <1>1, <1>2, <1>4, <1>5 DEF Handled, Like, h

\* The device before the next call of its handshake, after the answer m.
Ready(c, d, m) ==
  /\ Like(c, d, c.map) /\ Mapped(d, m, c.map) /\ IsAnswer(m) /\ Loud(m)
  /\ c.cb = 0 => c.peerName = None \/ (d.cb = 0 /\ c.peerName = d.peerName)
  /\ c.cb # 0 =>
       /\ c.cb = d.cb /\ c.peerName = d.peerName /\ c.answers = d.answers
       /\ \/ c.peerGuid = d.peerGuid /\ m.kind # "ExchangeGUIDs"
          \/ /\ d.peerGuid = 0 /\ m.type = "reply" /\ m.kind = "ExchangeGUIDs"
             /\ SlotFor(d.map, m.from) # 0
             /\ c.map = AJ_GUID_AddNameMapping(d.map, m.from[1], m.from, d.peerName)
             /\ c.peerGuid = LookupName(c.map, m.from)
  /\ c.answers = d.answers \/ \E status : status # "OK" /\ c.cb = 0 /\ Answered(c, d, status)

\* What is ready to go on stays so if only the exchange changes.
LEMMA ReadySame ==
  ASSUME NEW d, NEW m, NEW c, Ready(c, d, m), NEW x, Same(x, c, c.map)
  PROVE  Ready(x, d, m)
<1>1. Like(x, d, x.map) /\ x.map = c.map
  BY DEF Same, Like, Ready
<1>2. /\ x.cb = c.cb /\ x.peerName = c.peerName /\ x.peerGuid = c.peerGuid /\ x.answers = c.answers
  BY DEF Same
<1>3. x.answers = d.answers \/ \E status : status # "OK" /\ x.cb = 0 /\ Answered(x, d, status)
  BY <1>2 DEF Ready, Answered
<1> QED
  BY <1>1, <1>2, <1>3 DEF Ready

\* The attempt fails, after the answer was taken in.
LEMMA ReadyFails ==
  ASSUME NEW d, NEW m, NEW c, Ready(c, d, m), NEW status, status # "OK"
  PROVE  Handled(Fails(c, status), d, m)
<1> DEFINE x == HandshakeComplete(c, status)
           h == Fails(c, status)
<1>1. DOMAIN c = DeviceFields /\ c.n \in Nat
  BY DEF Ready, Like
<1>2. /\ Like(x, c, c.map) /\ x.cb = 0 /\ x.peerName = None /\ x.peerGuid = 0
      /\ x.answers = c.answers \/ Answered(x, c, status)
  BY <1>1, Completed
<1>3. h.d = x /\ h.out = <<>>
  BY DEF Fails, Does
<1> HIDE DEF x, h
<1>4. Like(x, d, c.map) /\ x.map = c.map
  BY <1>2 DEF Ready, Like
<1>5. x.answers = d.answers \/ \E s : s # "OK" /\ Answered(x, d, s)
  <2>1. CASE x.answers = c.answers
    BY <2>1 DEF Ready, Answered
  <2>2. CASE Answered(x, c, status)
    <3>1. c.cb # 0 /\ c.answers = d.answers /\ c.cb = d.cb
      BY <2>2 DEF Ready, Answered
    <3>2. Answered(x, d, status)
      BY <2>2, <3>1 DEF Answered
    <3> QED
      BY <3>2
  <2> QED
    BY <1>2, <2>1, <2>2
<1>6. Ends(x, d, m)
  BY <1>2, <1>5 DEF Ends
<1>7. Attempts(h, d, m)
  BY <1>2, <1>3 DEF Attempts
<1> QED
  BY <1>3, <1>4, <1>6, <1>7 DEF Handled, Like, Ready, h

\* The attempt goes on with its next call.
LEMMA ReadyCall ==
  ASSUME NEW d, NEW m, NEW c, Ready(c, d, m), NEW kind, kind # "ExchangeGUIDs", NEW seal, NEW body,
         kind = "ExchangeGroupKeys" => seal # None /\ body = d.me
  PROVE  Handled(Call(c, kind, m.from, seal, body), d, m)
<1> DEFINE h == Call(c, kind, m.from, seal, body)
           x == h.d
           a == [type |-> "call", kind |-> kind, id |-> c.n + 1, from |-> Me(c), to |-> m.from,
                 seal |-> seal, body |-> body]
           new == [id |-> c.n + 1, kind |-> kind]
<1>1. DOMAIN c = DeviceFields /\ c.n \in Nat
  BY DEF Ready, Like
<1>2. /\ x = [c EXCEPT !.n = @ + 1, !.calls = IF Cardinality(@) < AJ_NUM_REPLY_CONTEXTS
                                              THEN @ \union {new} ELSE @]
      /\ h.out = <<a>>
  BY DEF Call, Does
<1> HIDE DEF x, new, h
<1>3. /\ DOMAIN x = DeviceFields /\ \A f \in DeviceFields \ {"n", "calls"} : x[f] = c[f]
      /\ x.n = c.n + 1 /\ x.calls \in {c.calls, c.calls \union {new}}
  BY <1>1, <1>2 DEF DeviceFields
<1>4. /\ x.cb = c.cb /\ x.peerName = c.peerName /\ x.peerGuid = c.peerGuid /\ x.answers = c.answers
      /\ x.map = c.map /\ x.me = c.me /\ x.conn = c.conn /\ x.attempts = c.attempts
  BY <1>3 DEF DeviceFields
<1>5. Like(c, d, c.map)
  BY DEF Ready
<1>6. /\ a.type = "call" /\ a.kind = kind /\ a.id = x.n /\ a.from = Me(d) /\ a.to = m.from
      /\ a.seal = seal /\ a.body = body /\ new = [id |-> a.id, kind |-> a.kind]
  BY <1>3, <1>5 DEF Like, Me, new
<1> HIDE DEF a
<1>7. x.n \in Nat /\ x.n > d.n
  BY <1>1, <1>3, <1>5 DEF Like
<1>8. h.d = x
  BY DEF x
<1>9. SendsCall(h, d, m)
  <2>1. x.calls \in {d.calls, d.calls \union {[id |-> a.id, kind |-> a.kind]}}
    BY <1>3, <1>5, <1>6 DEF Like
  <2> QED
    BY <1>2, <1>6, <1>7, <1>8, <2>1 DEF SendsCall, Ready
<1>10. Attempts(h, d, m)
  <2>1. x.cb # 0 => x.cb = d.cb /\ x.peerName = d.peerName /\ x.answers = d.answers
    BY <1>4 DEF Ready
  <2>2. x.cb # 0 => \/ x.peerGuid = d.peerGuid /\ m.kind # "ExchangeGUIDs"
                    \/ /\ d.peerGuid = 0 /\ m.type = "reply" /\ m.kind = "ExchangeGUIDs"
                       /\ SlotFor(d.map, m.from) # 0
                       /\ x.map = AJ_GUID_AddNameMapping(d.map, m.from[1], m.from, d.peerName)
                       /\ x.peerGuid = LookupName(x.map, m.from)
    BY <1>4 DEF Ready
  <2>3. x.cb = 0 => x.peerName = None \/ (d.cb = 0 /\ x.peerName = d.peerName)
    BY <1>4 DEF Ready
  <2>4. m.type # "call"
    BY DEF Ready, IsAnswer
  <2>5. h.out # <<>>
    BY <1>2, ShortLists
  <2> QED
    BY <1>8, <2>1, <2>2, <2>3, <2>4, <2>5 DEF Attempts
<1>11. Ends(x, d, m)
  BY <1>4 DEF Ready, Ends, Answered
<1>12. Mapped(d, m, x.map) /\ x.me = d.me /\ x.conn = d.conn /\ x.attempts = d.attempts /\ x.n >= d.n
  BY <1>4, <1>5, <1>7 DEF Ready, Like
<1> QED
  BY <1>3, <1>7, <1>8, <1>9, <1>10, <1>11, <1>12 DEF Handled, h

-----------------------------------------------------------------------------
\* The map.

\* The names that are found are those of the slots.
LEMMA SameNames ==
  ASSUME NEW map, DOMAIN map = 1..NumNames, NEW new, DOMAIN new = 1..NumNames,
         \A i \in 1..NumNames : /\ new[i].uniqueName = map[i].uniqueName
                                /\ new[i].serviceName = map[i].serviceName
  PROVE  \A name : LookupName(new, name) = LookupName(map, name)
<1> SUFFICES ASSUME NEW name PROVE LookupName(new, name) = LookupName(map, name)
  OBVIOUS
<1> DEFINE S == {i \in DOMAIN new : Names(new[i], name)}
           T == {i \in DOMAIN map : Names(map[i], name)}
<1>1. S = T
  BY DEF Names
<1>2. LookupName(new, name) = IF S = {} THEN 0 ELSE CHOOSE i \in S : \A j \in S : i <= j
  BY DEF LookupName
<1>3. LookupName(map, name) = IF T = {} THEN 0 ELSE CHOOSE i \in T : \A j \in T : i <= j
  BY DEF LookupName
<1> HIDE DEF S, T
<1> QED
  BY <1>1, <1>2, <1>3

\* The keys of a mapping are set, and all else stays.
LEMMA KeysSetNames ==
  ASSUME NEW e, NEW map, MapOK(e, map), NEW name, NEW key, NEW role
  PROVE  LET slot == LookupName(map, name)
             one == AJ_SetSessionKey(map, name, key, role)
             two == AJ_SetGroupKey(map, name, key)
         IN /\ \A x : LookupName(one, x) = LookupName(map, x) /\ LookupName(two, x) = LookupName(map, x)
            /\ \A i \in 1..NumNames :
                 /\ one[i].uniqueName = map[i].uniqueName /\ one[i].serviceName = map[i].serviceName
                 /\ one[i].guid = map[i].guid
                 /\ two[i].uniqueName = map[i].uniqueName /\ two[i].serviceName = map[i].serviceName
                 /\ two[i].guid = map[i].guid /\ two[i].keyRole = map[i].keyRole
                 /\ two[i].sessionKey = map[i].sessionKey
                 /\ one[i].keyRole \in {map[i].keyRole, role}
                 /\ i # slot => one[i] = map[i] /\ two[i] = map[i]
            /\ slot # 0 => two[slot].groupKey = key
<1> DEFINE slot == LookupName(map, name)
           one == AJ_SetSessionKey(map, name, key, role)
           two == AJ_SetGroupKey(map, name, key)
<1>1. DOMAIN map = 1..NumNames /\ \A i \in 1..NumNames : DOMAIN map[i] = MappingFields
  BY DEF MapOK, MappingOK
<1>2. slot # 0 => slot \in 1..NumNames
  BY Found
<1>3. CASE slot = 0
  <2>1. one = map /\ two = map
    BY <1>3 DEF AJ_SetSessionKey, AJ_SetGroupKey
  <2> QED
    BY <1>1, <1>3, <2>1
<1>4. CASE slot # 0
  <2> DEFINE x == [map[slot] EXCEPT !.sessionKey = key, !.keyRole = role]
             y == [map[slot] EXCEPT !.groupKey = key]
  <2>1. one = [map EXCEPT ![slot] = x] /\ two = [map EXCEPT ![slot] = y]
    BY <1>1, <1>2, <1>4 DEF AJ_SetSessionKey, AJ_SetGroupKey
  <2>2. /\ x.guid = map[slot].guid /\ x.uniqueName = map[slot].uniqueName
        /\ x.serviceName = map[slot].serviceName /\ x.keyRole = role
        /\ y.guid = map[slot].guid /\ y.uniqueName = map[slot].uniqueName
        /\ y.serviceName = map[slot].serviceName /\ y.keyRole = map[slot].keyRole
        /\ y.sessionKey = map[slot].sessionKey /\ y.groupKey = key
    BY <1>1, <1>2, <1>4 DEF MappingFields
  <2> HIDE DEF one, two, slot, x, y
  <2>3. /\ DOMAIN one = 1..NumNames /\ DOMAIN two = 1..NumNames
        /\ \A i \in 1..NumNames : one[i] = (IF i = slot THEN x ELSE map[i])
        /\ \A i \in 1..NumNames : two[i] = (IF i = slot THEN y ELSE map[i])
    <3>1. slot \in 1..NumNames
      BY <1>2, <1>4
    <3>2. DOMAIN map = 1..NumNames
      BY <1>1
    <3> QED
      BY <2>1, <3>1, <3>2
  <2>4. \A i \in 1..NumNames :
          /\ one[i].uniqueName = map[i].uniqueName /\ one[i].serviceName = map[i].serviceName
          /\ one[i].guid = map[i].guid
          /\ two[i].uniqueName = map[i].uniqueName /\ two[i].serviceName = map[i].serviceName
          /\ two[i].guid = map[i].guid /\ two[i].keyRole = map[i].keyRole
          /\ two[i].sessionKey = map[i].sessionKey
          /\ one[i].keyRole \in {map[i].keyRole, role}
          /\ i # slot => one[i] = map[i] /\ two[i] = map[i]
    BY <2>2, <2>3
  <2>5. \A z : LookupName(one, z) = LookupName(map, z) /\ LookupName(two, z) = LookupName(map, z)
    <3>1. \A i \in 1..NumNames : /\ one[i].uniqueName = map[i].uniqueName
                                 /\ one[i].serviceName = map[i].serviceName
      BY <2>4
    <3>2. \A i \in 1..NumNames : /\ two[i].uniqueName = map[i].uniqueName
                                 /\ two[i].serviceName = map[i].serviceName
      BY <2>4
    <3>3. \A z : LookupName(one, z) = LookupName(map, z)
      BY <1>1, <2>3, <3>1, SameNames
    <3>4. \A z : LookupName(two, z) = LookupName(map, z)
      BY <1>1, <2>3, <3>2, SameNames
    <3> QED
      BY <3>3, <3>4
  <2>6. two[slot].groupKey = key
    BY <1>2, <1>4, <2>2, <2>3
  <2> QED
    BY <2>4, <2>5, <2>6 DEF one, two, slot
<1> QED
  BY <1>3, <1>4

\* The group key alone.
LEMMA GroupKeySetNames ==
  ASSUME NEW e, NEW map, MapOK(e, map), NEW name, NEW key
  PROVE  LET slot == LookupName(map, name)
             new == AJ_SetGroupKey(map, name, key)
         IN /\ \A x : LookupName(new, x) = LookupName(map, x)
            /\ \A i \in 1..NumNames :
                 /\ new[i].uniqueName = map[i].uniqueName /\ new[i].serviceName = map[i].serviceName
                 /\ new[i].guid = map[i].guid /\ new[i].keyRole = map[i].keyRole
                 /\ new[i].sessionKey = map[i].sessionKey
                 /\ i # slot => new[i] = map[i]
            /\ slot # 0 => new[slot].groupKey = key
<1>1. PICK one : one = AJ_SetSessionKey(map, name, key, 0)
  OBVIOUS
<1> QED
  BY <1>1, KeysSetNames

-----------------------------------------------------------------------------
\* The handlers.

\* A change of the exchange and its keys is of no concern to the attempt.
LEMMA SameFacts ==
  ASSUME NEW d, DOMAIN d = DeviceFields, d.n \in Nat
  PROVE  /\ Same(d, d, d.map)
         /\ \A m : m.type # "lost" => Mapped(d, m, d.map)
         /\ \A x : /\ DOMAIN x = DeviceFields /\ x.n \in Nat /\ x.n >= d.n
                   /\ \A f \in DeviceFields \ {"n", "nonce", "key", "state", "suite", "suites",
                                               "mastersecret", "hash", "secret"} : x[f] = d[f]
                   => Same(x, d, d.map)
<1>1. ASSUME NEW x, DOMAIN x = DeviceFields, x.n \in Nat, x.n >= d.n,
             \A f \in DeviceFields \ {"n", "nonce", "key", "state", "suite", "suites",
                                      "mastersecret", "hash", "secret"} : x[f] = d[f]
      PROVE  Same(x, d, d.map)
  BY <1>1 DEF Same, Like, DeviceFields
<1> QED
  BY <1>1 DEF Same, Like, Mapped

\* A call that breaks the protocol is answered with an error and ends the attempt.
LEMMA RefusesHandled ==
  ASSUME NEW d, DOMAIN d = DeviceFields, d.n \in Nat, NEW m, m.type = "call",
         m.kind # "ExchangeGroupKeys"
  PROVE  Handled(Refuses(d, m), d, m)
<1>1. Over(HandshakeComplete(d, "SECURITY"), d, d.map)
  BY SameFacts, CompletedOver
<1> QED
  BY <1>1, ErrorHandled DEF Refuses, Stands, Over

\* A message of no valid handshake: nothing is done, or the call is answered with busy.
LEMMA NotValidHandled ==
  ASSUME NEW d, DOMAIN d = DeviceFields, d.n \in Nat, NEW m, m.type # "lost", NEW late
  PROVE  /\ Handled(Does(AfterTimeout(d, late), <<>>), d, m)
         /\ m.type = "call" /\ m.kind # "ExchangeGroupKeys" =>
              Handled(Error(AfterTimeout(d, late), m, "Resources"), d, m)
<1>1. Stands(AfterTimeout(d, late), d, d.map)
  BY TimedOutStands
<1> QED
  BY <1>1, SameFacts, StandsHandled, ErrorHandled

\* The responder's session key goes to the mapping of the one that called.
LEMMA GenSessionKeyHandled ==
  ASSUME NEW d, DOMAIN d = DeviceFields, d.n \in Nat, NEW m, m.type = "call",
         m.kind = "GenSessionKey", NEW chance
  PROVE  Handled(AJ_PeerHandleGenSessionKey(d, m, chance), d, m)
<1> DEFINE nonce == <<d.me, d.n + 1>>
           key == KeyGen(d, m.body.nonce, nonce)
           map == AJ_SetSessionKey(d.map, m.from, key, AJ_ROLE_KEY_RESPONDER)
           c == [d EXCEPT !.nonce = nonce, !.n = @ + 1, !.map = map]
           body == [nonce |-> nonce, verifier |-> key]
           valid == HandshakeValid(d, m.from, chance.late)
           handled == AJ_PeerHandleGenSessionKey(d, m, chance)
<1>1. handled =
        IF ~valid THEN Error(AfterTimeout(d, chance.late), m, "Resources")
        ELSE IF d.state # "SUCCESS" THEN Error(d, m, "Rejected")
        ELSE IF m.body.peer # d.me THEN Refuses(d, m)
        ELSE Answer(c, m, "reply", body)
  BY DEF AJ_PeerHandleGenSessionKey, DeviceFields
<1>2. Same(c, d, map)
  BY DEF Same, Like, DeviceFields
<1>3. Mapped(d, m, map)
  <2>1. AJ_ROLE_KEY_RESPONDER \in 0..2
    BY DEF AJ_ROLE_KEY_RESPONDER
  <2> QED
    BY <2>1 DEF Mapped
<1> HIDE DEF nonce, key, map, c, body, handled
<1>4. valid => Valid(d, m)
  BY ValidHandshake
<1>5. valid => Handled(Answer(c, m, "reply", body), d, m)
  BY <1>2, <1>3, <1>4, ReplyHandled
<1>6. valid => Handled(Error(d, m, "Rejected"), d, m)
  BY <1>4, SameFacts, ErrorHandled DEF Stands
<1>7. Handled(Refuses(d, m), d, m)
  BY RefusesHandled
<1>8. Handled(Error(AfterTimeout(d, chance.late), m, "Resources"), d, m)
  BY NotValidHandled
<1> QED
  BY <1>1, <1>5, <1>6, <1>7, <1>8 DEF handled

\* The suites: the exchange changes only.
LEMMA ExchangeSuitesHandled ==
  ASSUME NEW d, DOMAIN d = DeviceFields, d.n \in Nat, NEW m, m.type = "call",
         m.kind = "ExchangeSuites", NEW chance
  PROVE  Handled(AJ_PeerHandleExchangeSuites(d, m, chance), d, m)
<1> DEFINE common == Common(d, m.body)
           c == [d EXCEPT !.suites = common, !.hash = <<>>]
<1>1. Same(c, d, d.map)
  BY DEF Same, Like, DeviceFields
<1> HIDE DEF common, c
<1>2. HandshakeValid(d, m.from, chance.late) => Handled(Answer(c, m, "reply", common), d, m)
  BY <1>1, SameFacts, ValidHandshake, ReplyHandled
<1> QED
  BY <1>2, RefusesHandled, NotValidHandled DEF AJ_PeerHandleExchangeSuites, common, c

\* The key exchange: the exchange changes only, or the attempt ends.
LEMMA KeyExchangeHandled ==
  ASSUME NEW d, DOMAIN d = DeviceFields, d.n \in Nat, NEW m, m.type = "call",
         m.kind = "KeyExchange", NEW chance
  PROVE  Handled(AJ_PeerHandleKeyExchange(d, m, chance), d, m)
<1> DEFINE c == ECDHE_Init([d EXCEPT !.suite = m.body.suite])
           r == ECDHE_Marshal(ECDHE_Unmarshal(c, m.body.suite, m.body.key))
           x == [r EXCEPT !.state = "EXCHANGED"]
           body == [suite |-> r.suite, key |-> r.key]
<1>1. DOMAIN c = DeviceFields /\ c.n = d.n + 1
      /\ \A f \in DeviceFields \ {"n", "key", "suite"} : c[f] = d[f]
  BY DEF ECDHE_Init, DeviceFields
<1> HIDE DEF c
<1>2. /\ DOMAIN x = DeviceFields
      /\ \A f \in DeviceFields \ {"hash", "mastersecret", "state"} : x[f] = c[f]
  BY <1>1 DEF ECDHE_Marshal, ECDHE_Unmarshal, Update, DeviceFields
<1> HIDE DEF x, body
<1>3. x.n = d.n + 1
  BY <1>1, <1>2 DEF DeviceFields
<1>4. Same(x, d, d.map)
  <2>1. \A f \in DeviceFields \ {"n", "nonce", "key", "state", "suite", "suites",
                                 "mastersecret", "hash", "secret"} : x[f] = d[f]
    BY <1>1, <1>2
  <2> QED
    BY <1>2, <1>3, <2>1, SameFacts
<1>5. HandshakeValid(d, m.from, chance.late) => Handled(Answer(x, m, "reply", body), d, m)
  BY <1>4, SameFacts, ValidHandshake, ReplyHandled
<1> QED
  BY <1>5, NotValidHandled DEF AJ_PeerHandleKeyExchange, c, x, body

\* What the key authentication leaves.
LEMMA AfterClientSame ==
  ASSUME NEW d, DOMAIN d = DeviceFields, d.n \in Nat, NEW certs
  PROVE  Same(AfterClient(d, certs), d, d.map)
<1> DEFINE w == WithPsk(d)
           c == AfterClient(d, certs)
<1>1. DOMAIN w = DeviceFields /\ \A f \in DeviceFields \ {"hash"} : w[f] = d[f]
  BY DEF WithPsk, Update, DeviceFields
<1>2. c = Update(w, <<ClientFinished(d), certs>>)
  BY DEF AfterClient
<1> HIDE DEF w, c
<1>3. DOMAIN c = DeviceFields /\ \A f \in DeviceFields \ {"hash"} : c[f] = w[f]
  BY <1>1, <1>2 DEF Update, DeviceFields
<1>4. c.n = d.n
  BY <1>1, <1>3 DEF DeviceFields
<1>5. Same(c, d, d.map)
  BY <1>1, <1>3, <1>4, SameFacts
<1> QED
  BY <1>5 DEF c

\* What is of no concern, twice.
LEMMA SameAgain ==
  ASSUME NEW d, NEW c, NEW map, Same(c, d, map), NEW x, Same(x, c, map)
  PROVE  Same(x, d, map)
BY DEF Same, Like

\* Saving the secret changes neither the attempt nor the map.
LEMMA SaveSame ==
  ASSUME NEW d, DOMAIN d = DeviceFields, d.n \in Nat, NEW full
  PROVE  Same(SaveMasterSecret([d EXCEPT !.state = "SUCCESS"], full), d, d.map)
<1> DEFINE c == [d EXCEPT !.state = "SUCCESS"]
           x == SaveMasterSecret(c, full)
<1>1. DOMAIN c = DeviceFields /\ \A f \in DeviceFields \ {"state"} : c[f] = d[f]
  BY DEF DeviceFields
<1> HIDE DEF c
<1>2. DOMAIN x = DeviceFields /\ \A f \in DeviceFields \ {"secret"} : x[f] = c[f]
  BY <1>1 DEF SaveMasterSecret, DeviceFields
<1> HIDE DEF x
<1>3. x.n = d.n
  BY <1>1, <1>2 DEF DeviceFields
<1>4. Same(x, d, d.map)
  BY <1>1, <1>2, <1>3, SameFacts
<1> QED
  BY <1>4 DEF x, c

\* The verifier: the secret is saved, or the attempt ends.
LEMMA KeyAuthenticationHandled ==
  ASSUME NEW d, DOMAIN d = DeviceFields, d.n \in Nat, NEW m, m.type = "call",
         m.kind = "KeyAuthentication", NEW chance
  PROVE  Handled(AJ_PeerHandleKeyAuthentication(d, m, chance), d, m)
<1> DEFINE c == AfterClient(d, m.body.certs)
           done == SaveMasterSecret([c EXCEPT !.state = "SUCCESS"], chance.full)
           body == AuthMessage(c, ServerFinished(c))
           fails == d.state # "EXCHANGED" \/ ~InitAuth(d) \/ ~Unmarshal(d, m.body, ClientFinished(d))
           full == d.suite \in Lasting /\ chance.full
<1>1. Same(c, d, d.map)
  BY AfterClientSame
<1>2. DOMAIN c = DeviceFields /\ c.n \in Nat /\ c.map = d.map
  BY <1>1 DEF Same, Like
<1> HIDE DEF c
<1>3. Same(done, d, d.map)
  BY <1>1, <1>2, SaveSame, SameAgain
<1>4. AJ_PeerHandleKeyAuthentication(d, m, chance) =
        IF ~HandshakeValid(d, m.from, chance.late)
        THEN Error(AfterTimeout(d, chance.late), m, "Resources")
        ELSE IF fails THEN Refuses(d, m)
        ELSE IF full THEN Does(done, <<>>) ELSE Answer(done, m, "reply", body)
  BY DEF AJ_PeerHandleKeyAuthentication, c
<1> HIDE DEF done, body, fails, full
<1>5. HandshakeValid(d, m.from, chance.late) => Handled(Answer(done, m, "reply", body), d, m)
  BY <1>3, SameFacts, ValidHandshake, ReplyHandled
<1>6. Handled(Does(done, <<>>), d, m)
  BY <1>3, SameFacts, StandsHandled DEF Stands
<1> QED
  BY <1>4, <1>5, <1>6, RefusesHandled, NotValidHandled

\* The first call: a mapping of the caller's name.
LEMMA ExchangeGUIDsHandled ==
  ASSUME NEW d, DOMAIN d = DeviceFields, d.n \in Nat, NEW m, m.type = "call",
         m.kind = "ExchangeGUIDs", m.body = m.from[1], NEW chance
  PROVE  Handled(AJ_PeerHandleExchangeGUIDs(d, m, chance), d, m)
<1> DEFINE t == AfterTimeout(d, chance.late)
           c == AJ_ClearAuthContext(t)
           b == Begins(c, m.body, m.from, None)
           seal == IF m.seal = None THEN None ELSE AJ_GetSessionKey(b.map, m.from)
           a == [type |-> "reply", kind |-> m.kind, id |-> m.id, from |-> Me(b), to |-> m.from,
                 seal |-> seal, body |-> d.me]
           h == Answer(b, m, "reply", d.me)
           map == AJ_GUID_AddNameMapping(d.map, m.from[1], m.from, None)
<1>1. Stands(t, d, d.map)
  BY TimedOutStands
<1>2. DOMAIN t = DeviceFields /\ t.n \in Nat /\ Like(t, d, d.map)
      /\ (t.answers = d.answers \/ \E status : status # "OK" /\ Answered(t, d, status))
  BY <1>1 DEF Stands, Same, Over, Like
<1> HIDE DEF t
<1>3. /\ DOMAIN c = DeviceFields /\ c.cb = 0 /\ c.peerName = None /\ c.peerGuid = 0
      /\ c.me = t.me /\ c.conn = t.conn /\ c.calls = t.calls /\ c.attempts = t.attempts
      /\ c.n = t.n /\ c.map = t.map /\ c.answers = t.answers
  BY <1>2 DEF AJ_ClearAuthContext, DeviceFields
<1> HIDE DEF c
<1>4. Over(c, d, d.map)
  BY <1>2, <1>3 DEF Over, Like, Answered
<1>5. AJ_PeerHandleExchangeGUIDs(d, m, chance) =
        IF InProgress(d, chance.late) THEN Error(d, m, "Resources")
        ELSE IF SlotFor(c.map, m.from) = 0 THEN Error(HandshakeComplete(c, "RESOURCES"), m, "Resources")
        ELSE h
  BY DEF AJ_PeerHandleExchangeGUIDs, c, t
<1>6. Handled(Error(d, m, "Resources"), d, m)
  BY SameFacts, ErrorHandled DEF Stands
<1>7. Handled(Error(HandshakeComplete(c, "RESOURCES"), m, "Resources"), d, m)
  BY <1>4, OverAgain, ErrorHandled DEF Stands
<1>8. /\ DOMAIN b = DeviceFields /\ b.map = map
      /\ b.cb = 0 /\ b.peerName = None /\ b.me = d.me /\ b.conn = d.conn /\ b.calls = d.calls
      /\ b.attempts = d.attempts /\ b.n = c.n /\ b.answers = c.answers
  BY <1>2, <1>3 DEF Begins, Like, DeviceFields
<1> HIDE DEF b
<1>9. h.d = b /\ h.out = <<a>>
  BY DEF Answer, Does
<1>10. a.type = "reply" /\ a.kind = m.kind /\ a.id = m.id /\ a.from = Me(d) /\ a.to = m.from
  BY <1>8 DEF Me
<1> HIDE DEF h, a
<1>11. Mapped(d, m, b.map)
  BY <1>8 DEF Mapped
<1>12. Attempts(h, d, m)
  BY <1>8, <1>9 DEF Attempts
<1>13. Ends(b, d, m)
  BY <1>4, <1>8, ZenonT(60) DEF Ends, Over, Answered
<1>14. SendsAnswer(h, d, m)
  BY <1>8, <1>9, <1>10 DEF SendsAnswer, IsAnswer
<1>15. b.n \in Nat /\ b.n >= d.n
  BY <1>4, <1>8 DEF Over, Like
<1>16. Handled(h, d, m)
  BY <1>8, <1>9, <1>11, <1>12, <1>13, <1>14, <1>15 DEF Handled
<1> QED
  BY <1>5, <1>6, <1>7, <1>16

\* The handshake completes: the group key is set, and the attempt, if there is one, succeeds.
LEMMA GroupKeySet ==
  ASSUME NEW d, DOMAIN d = DeviceFields, d.n \in Nat, NEW m, m.kind = "ExchangeGroupKeys",
         m.type \in {"call", "reply"}, Valid(d, m)
  PROVE  LET c == HandshakeComplete([d EXCEPT !.map = AJ_SetGroupKey(@, m.from, m.body)], "OK") IN
         /\ Like(c, d, AJ_SetGroupKey(d.map, m.from, m.body)) /\ c.cb = 0 /\ c.peerName = None
         /\ Mapped(d, m, c.map) /\ Completes(c, d, m) /\ Ends(c, d, m)
<1> DEFINE map == AJ_SetGroupKey(d.map, m.from, m.body)
           b == [d EXCEPT !.map = map]
           c == HandshakeComplete(b, "OK")
<1>1. Same(b, d, map)
  BY DEF Same, Like, DeviceFields
<1>2. b = [d EXCEPT !.map = AJ_SetGroupKey(@, m.from, m.body)]
  BY DEF DeviceFields
<1>3. DOMAIN b = DeviceFields /\ b.n \in Nat /\ b.map = map
  BY <1>1 DEF Same, Like
<1> HIDE DEF b
<1>4. /\ Like(c, b, b.map) /\ c.cb = 0 /\ c.peerName = None
      /\ c.answers = b.answers \/ Answered(c, b, "OK")
  BY <1>3, Completed
<1> HIDE DEF c
<1>5. Like(c, d, map)
  BY <1>1, <1>3, <1>4 DEF Same, Like
<1>6. c.answers = d.answers \/ Answered(c, d, "OK")
  BY <1>1, <1>4 DEF Same, Answered
<1>7. Completes(c, d, m)
  BY <1>5 DEF Completes, Like
<1>8. Ends(c, d, m)
  BY <1>4, <1>6, <1>7 DEF Ends
<1>9. Mapped(d, m, c.map)
  BY <1>7 DEF Completes, Mapped
<1> HIDE DEF map
<1>10. Like(c, d, map) /\ c.cb = 0 /\ c.peerName = None /\ Mapped(d, m, c.map) /\ Completes(c, d, m) /\ Ends(c, d, m)
  BY <1>4, <1>5, <1>7, <1>8, <1>9
<1> QED
  BY <1>2, <1>10 DEF map, c

\* The last call: the caller's group key, and success.
LEMMA ExchangeGroupKeysHandled ==
  ASSUME NEW d, DOMAIN d = DeviceFields, d.n \in Nat, NEW m, m.type = "call",
         m.kind = "ExchangeGroupKeys", NEW chance
  PROVE  Handled(AJ_PeerHandleExchangeGroupKeys(d, m, chance), d, m)
<1> DEFINE c == HandshakeComplete([d EXCEPT !.map = AJ_SetGroupKey(@, m.from, m.body)], "OK")
           seal == IF m.seal = None THEN None ELSE AJ_GetSessionKey(c.map, m.from)
           a == [type |-> "reply", kind |-> m.kind, id |-> m.id, from |-> Me(c), to |-> m.from,
                 seal |-> seal, body |-> d.me]
           h == Answer(c, m, "reply", d.me)
<1>1. AJ_PeerHandleExchangeGroupKeys(d, m, chance) =
        IF ~HandshakeValid(d, m.from, chance.late) THEN Does(AfterTimeout(d, chance.late), <<>>) ELSE h
  BY DEF AJ_PeerHandleExchangeGroupKeys
<1>2. h.d = c /\ h.out = <<a>>
  BY DEF Answer, Does
<1> HIDE DEF h
<1>3. ASSUME HandshakeValid(d, m.from, chance.late) PROVE Handled(h, d, m)
  <2>1. /\ Like(c, d, AJ_SetGroupKey(d.map, m.from, m.body)) /\ c.cb = 0 /\ c.peerName = None
        /\ Mapped(d, m, c.map) /\ Completes(c, d, m) /\ Ends(c, d, m)
    BY <1>3, ValidHandshake, GroupKeySet
  <2> HIDE DEF c
  <2>2. a.type = "reply" /\ a.kind = m.kind /\ a.id = m.id /\ a.from = Me(d) /\ a.to = m.from
        /\ a.body = d.me /\ a.seal = seal
    BY <2>1 DEF Like, Me
  <2> HIDE DEF a
  <2>3. Attempts(h, d, m)
    BY <1>2, <2>1 DEF Attempts
  <2>4. SendsAnswer(h, d, m)
    BY <1>2, <2>1, <2>2 DEF SendsAnswer, IsAnswer, Like
  <2> QED
    BY <1>2, <2>1, <2>3, <2>4 DEF Handled, Like
<1> QED
  BY <1>1, <1>3, NotValidHandled

\* The last answer: the peer's group key, and success.
LEMMA ExchangeGroupKeysReplyHandled ==
  ASSUME NEW d, DOMAIN d = DeviceFields, d.n \in Nat, NEW m, m.type \in {"reply", "error"},
         m.kind = "ExchangeGroupKeys", NEW chance,
         m.type = "error" => ~HandshakeValid(d, m.from, chance.late)
  PROVE  Handled(AJ_PeerHandleExchangeGroupKeysReply(d, m, chance), d, m)
<1> DEFINE c == HandshakeComplete([d EXCEPT !.map = AJ_SetGroupKey(@, m.from, m.body)], "OK")
           h == Does(c, <<>>)
<1>1. AJ_PeerHandleExchangeGroupKeysReply(d, m, chance) =
        IF ~HandshakeValid(d, m.from, chance.late) THEN Does(AfterTimeout(d, chance.late), <<>>) ELSE h
  BY DEF AJ_PeerHandleExchangeGroupKeysReply, Fails
<1>2. h.d = c /\ h.out = <<>>
  BY DEF Does
<1> HIDE DEF h
<1>3. ASSUME HandshakeValid(d, m.from, chance.late) PROVE Handled(h, d, m)
  <2>1. /\ Like(c, d, AJ_SetGroupKey(d.map, m.from, m.body)) /\ c.cb = 0 /\ c.peerName = None
        /\ Mapped(d, m, c.map) /\ Completes(c, d, m) /\ Ends(c, d, m)
    BY <1>3, ValidHandshake, GroupKeySet
  <2> HIDE DEF c
  <2>2. Attempts(h, d, m)
    BY <1>2, <2>1 DEF Attempts
  <2> QED
    BY <1>2, <2>1, <2>2 DEF Handled, Like
<1> QED
  BY <1>1, <1>3, NotValidHandled

\* The next call of a handshake, or its failure.
LEMMA NextCallHandled ==
  ASSUME NEW d, NEW m, NEW c, Ready(c, d, m)
  PROVE  /\ Handled(GenSessionKey(c, m.from), d, m) /\ Handled(ExchangeSuites(c, m.from), d, m)
         /\ Handled(KeyExchange(c, m.from), d, m) /\ Handled(KeyAuthentication(c, m.from), d, m)
<1>1. DOMAIN c = DeviceFields /\ c.n \in Nat
  BY DEF Ready, Like
<1>2. \A kind, seal, body : kind \notin {"ExchangeGUIDs", "ExchangeGroupKeys"} =>
        \A x : Same(x, c, c.map) => Handled(Call(x, kind, m.from, seal, body), d, m)
  BY ReadySame, ReadyCall
<1>3. Handled(Fails(c, "SECURITY"), d, m)
  BY ReadyFails
<1>4. Handled(GenSessionKey(c, m.from), d, m)
  <2> DEFINE nonce == <<c.me, c.n + 1>>
             x == [c EXCEPT !.nonce = nonce, !.n = @ + 1]
             body == [guid |-> c.me, peer |-> PeerOf(c), nonce |-> nonce]
  <2>1. Same(x, c, c.map)
    <3>1. DOMAIN x = DeviceFields /\ x.n = c.n + 1 /\ \A f \in DeviceFields \ {"n", "nonce"} : x[f] = c[f]
      BY <1>1 DEF DeviceFields
    <3> HIDE DEF x
    <3>2. x.n \in Nat /\ x.n >= c.n
      BY <1>1, <3>1
    <3>3. \A f \in DeviceFields \ {"n", "nonce", "key", "state", "suite", "suites",
                                   "mastersecret", "hash", "secret"} : x[f] = c[f]
      BY <3>1
    <3> QED
      BY <1>1, <3>1, <3>2, <3>3, SameFacts
  <2>2. GenSessionKey(c, m.from) =
          IF c.state # "SUCCESS" THEN Fails(c, "SECURITY") ELSE Call(x, "GenSessionKey", m.from, None, body)
    BY DEF GenSessionKey
  <2> HIDE DEF x, body
  <2> QED
    BY <1>2, <1>3, <2>1, <2>2
<1>5. Handled(ExchangeSuites(c, m.from), d, m)
  <2> DEFINE suites == {Suites[c.me][i] : i \in 1..Len(Suites[c.me])}
             x == [c EXCEPT !.hash = <<>>]
  <2>1. Same(x, c, c.map)
    BY <1>1 DEF Same, Like, DeviceFields
  <2>2. ExchangeSuites(c, m.from) =
          IF suites = {} THEN Fails(c, "SECURITY") ELSE Call(x, "ExchangeSuites", m.from, None, suites)
    BY DEF ExchangeSuites
  <2> HIDE DEF x, suites
  <2> QED
    BY <1>2, <1>3, <2>1, <2>2
<1>6. Handled(KeyExchange(c, m.from), d, m)
  <2> DEFINE first == CHOOSE i \in 1..Len(Suites[c.me]) :
                        /\ Suites[c.me][i] \in c.suites
                        /\ \A j \in 1..(i - 1) : Suites[c.me][j] \notin c.suites
             suite == Suites[c.me][first]
             b == ECDHE_Init([c EXCEPT !.suite = suite, !.suites = @ \ {suite}, !.hash = <<>>])
             x == ECDHE_Marshal(b)
             body == [suite |-> suite, key |-> x.key]
  <2>1. KeyExchange(c, m.from) = Call(x, "KeyExchange", m.from, None, body)
    BY DEF KeyExchange
  <2> HIDE DEF suite
  <2>2. DOMAIN b = DeviceFields /\ b.n = c.n + 1
        /\ \A f \in DeviceFields \ {"n", "key", "suite", "suites", "hash"} : b[f] = c[f]
    BY <1>1 DEF ECDHE_Init, DeviceFields
  <2> HIDE DEF b
  <2>3. DOMAIN x = DeviceFields /\ \A f \in DeviceFields \ {"hash"} : x[f] = b[f]
    BY <2>2 DEF ECDHE_Marshal, Update, DeviceFields
  <2> HIDE DEF x, body
  <2>4. x.n = c.n + 1
    BY <2>2, <2>3 DEF DeviceFields
  <2>5. \A f \in DeviceFields \ {"n", "nonce", "key", "state", "suite", "suites",
                                 "mastersecret", "hash", "secret"} : x[f] = c[f]
    BY <2>2, <2>3
  <2>6. Same(x, c, c.map)
    BY <1>1, <2>3, <2>4, <2>5, SameFacts
  <2> QED
    BY <1>2, <2>1, <2>6
<1>7. Handled(KeyAuthentication(c, m.from), d, m)
  <2> DEFINE x == AfterClient(c, Certificates(c))
             body == AuthMessage(c, ClientFinished(c))
  <2>1. Same(x, c, c.map)
    BY <1>1, AfterClientSame
  <2>2. KeyAuthentication(c, m.from) =
          IF ~InitAuth(c) THEN Fails(c, "SECURITY") ELSE Call(x, "KeyAuthentication", m.from, None, body)
    BY DEF KeyAuthentication
  <2> HIDE DEF x, body
  <2> QED
    BY <1>2, <1>3, <2>1, <2>2
<1> QED
  BY <1>4, <1>5, <1>6, <1>7

\* The device as it is, when the reply is of the handshake that is in progress.
LEMMA ReadyToGo ==
  ASSUME NEW d, DOMAIN d = DeviceFields, d.n \in Nat, NEW m, IsAnswer(m), Loud(m),
         m.kind # "ExchangeGUIDs"
  PROVE  Ready(d, d, m)
BY DEF Ready, Like, Mapped, IsAnswer

\* An error in reply to a call.
LEMMA FailedHandled ==
  ASSUME NEW d, DOMAIN d = DeviceFields, d.n \in Nat, NEW m, m.type # "lost"
  PROVE  Handled(Failed(d, m), d, m)
<1>1. Over(HandshakeComplete(d, "SECURITY"), d, d.map)
  BY SameFacts, CompletedOver
<1>2. Handled(Does(HandshakeComplete(d, "SECURITY"), <<>>), d, m)
  BY <1>1, SameFacts, StandsHandled DEF Stands
<1>3. Handled(Does(d, <<>>), d, m)
  BY SameFacts, StandsHandled DEF Stands
<1> QED
  BY <1>2, <1>3 DEF Failed, Fails

\* The answer with the suites: the key exchange goes on, or the attempt fails.
LEMMA ExchangeSuitesReplyHandled ==
  ASSUME NEW d, DOMAIN d = DeviceFields, d.n \in Nat, NEW m, m.type \in {"reply", "error"},
         m.kind = "ExchangeSuites", NEW chance
  PROVE  Handled(AJ_PeerHandleExchangeSuitesReply(d, m, chance), d, m)
<1> DEFINE common == Common(d, m.body)
           c == [d EXCEPT !.suites = common]
<1>1. Same(c, d, d.map)
  BY DEF Same, Like, DeviceFields
<1> HIDE DEF common, c
<1>2. ASSUME m.type = "reply"
      PROVE  Handled(Fails(d, "SECURITY"), d, m) /\ Handled(KeyExchange(c, m.from), d, m)
  <2>1. Ready(d, d, m)
    BY <1>2, ReadyToGo DEF IsAnswer, Loud
  <2> QED
    BY <1>1, <2>1, ReadySame, ReadyFails, NextCallHandled
<1> QED
  BY <1>2, FailedHandled, NotValidHandled DEF AJ_PeerHandleExchangeSuitesReply, common, c

\* The answer of the key exchange: the verifier is sent, or the attempt fails.
LEMMA KeyExchangeReplyHandled ==
  ASSUME NEW d, DOMAIN d = DeviceFields, d.n \in Nat, NEW m, m.type \in {"reply", "error"},
         m.kind = "KeyExchange", NEW chance
  PROVE  Handled(AJ_PeerHandleKeyExchangeReply(d, m, chance), d, m)
<1> DEFINE c == [ECDHE_Unmarshal(d, m.body.suite, m.body.key) EXCEPT !.state = "EXCHANGED"]
<1>1. Same(c, d, d.map)
  <2>1. DOMAIN c = DeviceFields /\ \A f \in DeviceFields \ {"hash", "mastersecret", "state"} : c[f] = d[f]
    BY DEF ECDHE_Unmarshal, Update, DeviceFields
  <2> HIDE DEF c
  <2>2. c.n = d.n
    BY <2>1 DEF DeviceFields
  <2> QED
    BY <2>1, <2>2, SameFacts
<1> HIDE DEF c
<1>2. ASSUME m.type = "reply"
      PROVE  Handled(Fails(d, "SECURITY"), d, m) /\ Handled(KeyAuthentication(c, m.from), d, m)
  <2>1. Ready(d, d, m)
    BY <1>2, ReadyToGo DEF IsAnswer, Loud
  <2> QED
    BY <1>1, <2>1, ReadySame, ReadyFails, NextCallHandled
<1> QED
  BY <1>2, FailedHandled, NotValidHandled DEF AJ_PeerHandleKeyExchangeReply, c

\* The peer's verifier: the session key is asked for, or the attempt fails.
LEMMA KeyAuthenticationReplyHandled ==
  ASSUME NEW d, DOMAIN d = DeviceFields, d.n \in Nat, NEW m, m.type \in {"reply", "error"},
         m.kind = "KeyAuthentication", NEW chance
  PROVE  Handled(AJ_PeerHandleKeyAuthenticationReply(d, m, chance), d, m)
<1> DEFINE c == SaveMasterSecret([d EXCEPT !.state = "SUCCESS"], chance.full)
           fails == d.state # "EXCHANGED" \/ ~Unmarshal(d, m.body, ServerFinished(d))
<1>1. Same(c, d, d.map)
  BY SaveSame
<1>2. AJ_PeerHandleKeyAuthenticationReply(d, m, chance) =
        IF m.type = "error" THEN Failed(d, m)
        ELSE IF ~HandshakeValid(d, m.from, chance.late) THEN Does(AfterTimeout(d, chance.late), <<>>)
        ELSE IF fails THEN Fails(d, "SECURITY") ELSE GenSessionKey(c, m.from)
  BY DEF AJ_PeerHandleKeyAuthenticationReply
<1> HIDE DEF fails, c
<1>3. ASSUME m.type = "reply"
      PROVE  Handled(Fails(d, "SECURITY"), d, m) /\ Handled(GenSessionKey(c, m.from), d, m)
  <2>1. Ready(d, d, m)
    BY <1>3, ReadyToGo DEF IsAnswer, Loud
  <2> QED
    BY <1>1, <2>1, ReadySame, ReadyFails, NextCallHandled
<1> QED
  BY <1>2, <1>3, FailedHandled, NotValidHandled

\* The initiator's session key goes to the mapping of the peer, and its group key is sent.
LEMMA GenSessionKeyReplyHandled ==
  ASSUME NEW d, DOMAIN d = DeviceFields, d.n \in Nat, NEW m, m.type \in {"reply", "error"},
         m.kind = "GenSessionKey", NEW chance, NEW e, MapOK(e, d.map)
  PROVE  Handled(AJ_PeerHandleGenSessionKeyReply(d, m, chance), d, m)
<1> DEFINE key == KeyGen(d, d.nonce, m.body.nonce)
           map == AJ_SetSessionKey(d.map, m.from, key, AJ_ROLE_KEY_INITIATOR)
           c == [d EXCEPT !.map = map]
           seal == AJ_GetSessionKey(c.map, m.from)
           valid == HandshakeValid(d, m.from, chance.late)
<1>1. AJ_PeerHandleGenSessionKeyReply(d, m, chance) =
        IF m.type = "error" THEN
          IF m.body = "Rejected" THEN ExchangeSuites(d, m.from) ELSE Failed(d, m)
        ELSE IF ~valid THEN Does(AfterTimeout(d, chance.late), <<>>)
        ELSE IF m.body.verifier # key THEN Fails(c, "SECURITY")
        ELSE Call(c, "ExchangeGroupKeys", m.from, seal, d.me)
  BY DEF AJ_PeerHandleGenSessionKeyReply, DeviceFields
<1>2. Same(c, d, map)
  BY DEF Same, Like, DeviceFields
<1>3. Mapped(d, m, map) \/ m.type = "error"
  <2>1. AJ_ROLE_KEY_INITIATOR \in 0..2
    BY DEF AJ_ROLE_KEY_INITIATOR
  <2> QED
    BY <2>1 DEF Mapped
<1>4. c.map = map
  BY <1>2 DEF Same, Like
<1> HIDE DEF c
<1>5. ASSUME m.type = "error", m.body = "Rejected" PROVE Handled(ExchangeSuites(d, m.from), d, m)
  <2>1. Ready(d, d, m)
    BY <1>5, ReadyToGo DEF IsAnswer, Loud
  <2> QED
    BY <2>1, NextCallHandled
<1>6. ASSUME m.type = "reply", valid
      PROVE  /\ Handled(Fails(c, "SECURITY"), d, m)
             /\ Handled(Call(c, "ExchangeGroupKeys", m.from, seal, d.me), d, m)
  <2>1. Ready(c, d, m)
    BY <1>2, <1>3, <1>4, <1>6 DEF Ready, IsAnswer, Loud, Same
  <2>2. seal # None
    <3>1. LookupName(d.map, m.from) # 0
      BY <1>6 DEF HandshakeValid, InProgress
    <3>2. LookupName(map, m.from) # 0
      BY <3>1, KeysSetNames
    <3> QED
      BY <1>4, <3>2 DEF AJ_GetSessionKey, None
  <2> QED
    BY <2>1, <2>2, ReadyFails, ReadyCall
<1> QED
  BY <1>1, <1>5, <1>6, FailedHandled, NotValidHandled

\* The first answer: the attempt finds its peer in the map.
LEMMA ExchangeGUIDsReplyHandled ==
  ASSUME NEW d, DOMAIN d = DeviceFields, d.n \in Nat, NEW m, m.type \in {"reply", "error"},
         m.kind = "ExchangeGUIDs", m.type = "reply" => m.body = m.from[1], NEW chance
  PROVE  Handled(AJ_PeerHandleExchangeGUIDsReply(d, m, chance), d, m)
<1> DEFINE c == AfterTimeout(d, chance.late)
           b == Begins(c, m.body, m.from, c.peerName)
           map == AJ_GUID_AddNameMapping(d.map, m.from[1], m.from, c.peerName)
<1>1. Stands(c, d, d.map) /\ (~InProgress(d, chance.late) /\ Same(c, d, d.map) => d.peerGuid = 0)
  BY TimedOutStands
<1>2. /\ DOMAIN c = DeviceFields /\ c.n \in Nat /\ Like(c, d, d.map) /\ c.map = d.map
      /\ c.peerName \in {None, d.peerName}
  BY <1>1 DEF Stands, Same, Over, Like
<1>3. AJ_PeerHandleExchangeGUIDsReply(d, m, chance) =
        IF m.type = "error" THEN Failed(d, m)
        ELSE IF InProgress(d, chance.late) THEN Does(d, <<>>)
        ELSE IF SlotFor(c.map, m.from) = 0 THEN Fails(c, "RESOURCES")
        ELSE IF d.secret[m.body] # {} THEN GenSessionKey(b, m.from)
        ELSE ExchangeSuites(b, m.from)
  BY DEF AJ_PeerHandleExchangeGUIDsReply
<1> HIDE DEF c
<1>4. Handled(Does(d, <<>>), d, m)
  BY SameFacts, StandsHandled DEF Stands
<1>5. Handled(Fails(c, "RESOURCES"), d, m)
  <2>1. Over(HandshakeComplete(c, "RESOURCES"), d, d.map)
    BY <1>1, OverAgain, CompletedOver DEF Stands
  <2> QED
    BY <2>1, SameFacts, StandsHandled DEF Fails, Stands
<1>6. ASSUME m.type = "reply", ~InProgress(d, chance.late), SlotFor(c.map, m.from) # 0
      PROVE  Ready(b, d, m)
  <2>1. /\ DOMAIN b = DeviceFields /\ b.map = map /\ b.peerGuid = LookupName(map, m.from)
        /\ b.cb = c.cb /\ b.peerName = c.peerName /\ b.me = c.me /\ b.conn = c.conn /\ b.calls = c.calls
        /\ b.attempts = c.attempts /\ b.n = c.n /\ b.answers = c.answers
    BY <1>2, <1>6 DEF Begins, DeviceFields
  <2> HIDE DEF b
  <2>2. Like(b, d, b.map)
    BY <1>2, <2>1 DEF Like
  <2>3. Mapped(d, m, b.map)
    BY <1>2, <1>6, <2>1 DEF Mapped
  <2> HIDE DEF map
  <2>4. CASE Same(c, d, d.map)
    <3>1. /\ b.cb = d.cb /\ b.peerName = d.peerName /\ b.answers = d.answers /\ d.peerGuid = 0
          /\ c.peerName = d.peerName
      BY <1>1, <1>6, <2>1, <2>4 DEF Same
    <3> QED
      BY <1>2, <1>6, <2>1, <2>2, <2>3, <3>1 DEF Ready, IsAnswer, Loud, map
  <2>5. CASE Over(c, d, d.map)
    <3>1. b.cb = 0 /\ b.peerName = None
      BY <2>1, <2>5 DEF Over
    <3>2. b.answers = d.answers \/ \E status : status # "OK" /\ b.cb = 0 /\ Answered(b, d, status)
      BY <2>1, <2>5, <3>1, ZenonT(60) DEF Over, Answered
    <3> QED
      BY <1>6, <2>2, <2>3, <3>1, <3>2 DEF Ready, IsAnswer, Loud
  <2> QED
    BY <1>1, <2>4, <2>5 DEF Stands
<1> HIDE DEF b
<1> QED
  BY <1>3, <1>4, <1>5, <1>6, FailedHandled, NextCallHandled

\* A call, whichever it is.
LEMMA HandleCallHandled ==
  ASSUME NEW e \in Device, NEW d, DevOK(e, d), NEW m, MsgOK(m, e), m.type = "call", NEW chance
  PROVE  Handled(HandleCall(d, m, chance), d, m)
<1>1. DOMAIN d = DeviceFields /\ d.n \in Nat
  BY InHandshake
<1>2. m.kind \in Kinds /\ (m.kind = "ExchangeGUIDs" => m.body = m.from[1])
  BY DEF MsgOK, BodyOK
<1>3. CASE m.kind = "ExchangeGUIDs"
  BY <1>1, <1>2, <1>3, ExchangeGUIDsHandled DEF HandleCall
<1>4. CASE m.kind = "ExchangeSuites"
  BY <1>1, <1>4, ExchangeSuitesHandled DEF HandleCall
<1>5. CASE m.kind = "KeyExchange"
  BY <1>1, <1>5, KeyExchangeHandled DEF HandleCall
<1>6. CASE m.kind = "KeyAuthentication"
  BY <1>1, <1>6, KeyAuthenticationHandled DEF HandleCall
<1>7. CASE m.kind = "GenSessionKey"
  BY <1>1, <1>7, GenSessionKeyHandled DEF HandleCall
<1>8. CASE m.kind = "ExchangeGroupKeys"
  BY <1>1, <1>8, ExchangeGroupKeysHandled DEF HandleCall
<1> QED
  BY <1>2, <1>3, <1>4, <1>5, <1>6, <1>7, <1>8 DEF Kinds

\* An answer, whichever it is.
LEMMA HandleReplyHandled ==
  ASSUME NEW e \in Device, NEW d, DevOK(e, d), NEW m, m.type \in {"reply", "error"}, m.kind \in Kinds,
         m.type = "reply" => MsgOK(m, e), NEW chance,
         m.type = "error" /\ m.kind = "ExchangeGroupKeys" => ~HandshakeValid(d, m.from, chance.late)
  PROVE  Handled(HandleReply(d, m, chance), d, m)
<1>1. DOMAIN d = DeviceFields /\ d.n \in Nat /\ MapOK(e, d.map)
  BY InHandshake
<1>2. m.type = "reply" /\ m.kind = "ExchangeGUIDs" => m.body = m.from[1]
  BY DEF MsgOK, BodyOK
<1>3. CASE m.kind = "ExchangeGUIDs"
  BY <1>1, <1>2, <1>3, ExchangeGUIDsReplyHandled DEF HandleReply
<1>4. CASE m.kind = "ExchangeSuites"
  BY <1>1, <1>4, ExchangeSuitesReplyHandled DEF HandleReply
<1>5. CASE m.kind = "KeyExchange"
  BY <1>1, <1>5, KeyExchangeReplyHandled DEF HandleReply
<1>6. CASE m.kind = "KeyAuthentication"
  BY <1>1, <1>6, KeyAuthenticationReplyHandled DEF HandleReply
<1>7. CASE m.kind = "GenSessionKey"
  BY <1>1, <1>7, GenSessionKeyReplyHandled DEF HandleReply
<1>8. CASE m.kind = "ExchangeGroupKeys"
  BY <1>1, <1>8, ExchangeGroupKeysReplyHandled DEF HandleReply
<1> QED
  BY <1>3, <1>4, <1>5, <1>6, <1>7, <1>8 DEF Kinds

\* The device without the calls that m answers.
Unwaited(d, m) == [d EXCEPT !.calls = @ \ Waiting(d, m)]

\* The seal of m is the one for messages of its sender.
Unsealed(d, m) == m.seal = None \/ DecryptMessage(d.map, m.from, m.seal)

\* What a device makes of the first message of its queue.
LEMMA HandleHandled ==
  ASSUME NEW e \in Device, NEW d, DevOK(e, d), NEW m, MsgOK(m, e), NEW chance,
         m.kind = "ExchangeGroupKeys" => m.type # "error"
  PROVE  LET h == Handle(d, m, chance) IN
         \/ IsAnswer(m) /\ Waiting(d, m) # {} /\ Unsealed(d, m) /\ Handled(h, Unwaited(d, m), m)
         \/ IsAnswer(m) /\ h = Does(d, <<>>)
         \/ ~IsAnswer(m) /\ Handled(h, d, m)
<1> DEFINE c == Unwaited(d, m)
           h == Handle(d, m, chance)
           lost == [d EXCEPT !.map = AJ_GUID_DeleteNameMapping(@, m.from)]
           map == AJ_GUID_DeleteNameMapping(d.map, m.from)
<1>1. DOMAIN d = DeviceFields /\ d.n \in Nat
  BY InHandshake
<1>2. h = CASE m.type = "lost" -> Does(lost, <<>>)
            [] m.type = "call" /\ Unsealed(d, m) -> HandleCall(d, m, chance)
            [] IsAnswer(m) /\ Waiting(d, m) # {} /\ Unsealed(d, m) -> HandleReply(c, m, chance)
            [] OTHER -> Does(d, <<>>)
  BY DEF Handle, Unsealed, Unwaited, IsAnswer
<1>3. m.type \in {"lost", "call", "reply", "error"}
  BY DEF MsgOK
<1>4. m.type # "lost" => Handled(Does(d, <<>>), d, m)
  BY <1>1, SameFacts, StandsHandled DEF Stands
<1> HIDE DEF c, h
<1>5. CASE m.type = "lost"
  <2>1. Same(lost, d, map) /\ lost.map = map
    BY <1>1 DEF Same, Like, DeviceFields
  <2> DEFINE g == Does(lost, <<>>)
  <2>2. g.d = lost /\ g.out = <<>>
    BY DEF Does
  <2> HIDE DEF lost, g
  <2>3. Attempts(g, d, m)
    BY <1>5, <2>1, <2>2 DEF Attempts, Same
  <2>4. Handled(g, d, m)
    BY <1>5, <2>1, <2>2, <2>3 DEF Handled, Same, Like, Mapped, Ends
  <2> QED
    BY <1>2, <1>5, <2>4 DEF IsAnswer, g, h
<1>6. CASE m.type = "call"
  BY <1>2, <1>4, <1>6, HandleCallHandled DEF IsAnswer, h
<1>7. CASE IsAnswer(m)
  <2>1. DevOK(e, c)
    BY AnsweredCall DEF c, Unwaited
  <2>2. m.kind \in Kinds
    BY <1>7 DEF MsgOK, IsAnswer
  <2>3. ASSUME Waiting(d, m) # {}, Unsealed(d, m) PROVE Handled(h, c, m)
    <3>1. h = HandleReply(c, m, chance)
      BY <1>2, <1>7, <2>3 DEF IsAnswer
    <3>2. m.type = "error" /\ m.kind = "ExchangeGroupKeys" => ~HandshakeValid(c, m.from, chance.late)
      OBVIOUS
    <3>3. m.type \in {"reply", "error"}
      BY <1>7 DEF IsAnswer
    <3> QED
      BY <2>1, <2>2, <3>1, <3>2, <3>3, HandleReplyHandled
  <2>4. ~(Waiting(d, m) # {} /\ Unsealed(d, m)) => h = Does(d, <<>>)
    BY <1>2, <1>7 DEF IsAnswer
  <2> QED
    BY <1>7, <2>3, <2>4 DEF c, h
<1> QED
  BY <1>3, <1>5, <1>6, <1>7 DEF IsAnswer

-----------------------------------------------------------------------------
\* Queues.

\* The order of a queue, when its first message is taken and when one is put behind.
LEMMA QueueFacts ==
  ASSUME NEW s, IsList(s)
  PROVE  /\ \A x, y : Before(s, x, y) => x \in Messages(s) /\ y \in Messages(s)
         /\ s # <<>> =>
              /\ Head(s) \in Messages(s)
              /\ \A x \in Messages(Tail(s)) : x \in Messages(s) /\ Before(s, Head(s), x)
              /\ \A x \in Messages(s) : x = Head(s) \/ x \in Messages(Tail(s))
              /\ \A x, y : Before(Tail(s), x, y) => Before(s, x, y)
         /\ \A r : /\ Messages(s \o <<r>>) = Messages(s) \union {r}
                   /\ \A x, y : Before(s \o <<r>>, x, y) =>
                        Before(s, x, y) \/ (x \in Messages(s) /\ y = r)
<1>1. Len(s) \in Nat
  BY ListFacts
<1>2. ASSUME s # <<>>
      PROVE  /\ Head(s) \in Messages(s)
             /\ \A x \in Messages(Tail(s)) : x \in Messages(s) /\ Before(s, Head(s), x)
             /\ \A x \in Messages(s) : x = Head(s) \/ x \in Messages(Tail(s))
             /\ \A x, y : Before(Tail(s), x, y) => Before(s, x, y)
  <2> DEFINE t == Tail(s)
  <2>1. /\ Len(s) >= 1 /\ Head(s) = s[1] /\ Len(t) = Len(s) - 1
        /\ \A i \in 1..Len(t) : t[i] = s[i + 1]
    BY <1>2, ListTail
  <2> HIDE DEF t
  <2>2. 1 \in 1..Len(s) /\ \A i \in 1..Len(t) : i + 1 \in 1..Len(s) /\ 1 < i + 1
    BY <1>1, <2>1
  <2>3. \A x \in Messages(t) : x \in Messages(s) /\ Before(s, Head(s), x)
    <3> SUFFICES ASSUME NEW x \in Messages(t) PROVE x \in Messages(s) /\ Before(s, Head(s), x)
      OBVIOUS
    <3>1. PICK i \in 1..Len(t) : x = t[i]
      BY DEF Messages
    <3>2. x = s[i + 1] /\ i + 1 \in 1..Len(s) /\ 1 \in 1..Len(s) /\ 1 < i + 1
      BY <2>1, <2>2, <3>1
    <3> QED
      BY <2>1, <3>2 DEF Messages, Before
  <2>4. \A x \in Messages(s) : x = Head(s) \/ x \in Messages(t)
    <3> SUFFICES ASSUME NEW x \in Messages(s), x # Head(s) PROVE x \in Messages(t)
      OBVIOUS
    <3>1. PICK i \in 1..Len(s) : x = s[i]
      BY DEF Messages
    <3>2. i # 1
      BY <2>1, <3>1
    <3>3. i - 1 \in 1..Len(t) /\ i - 1 + 1 = i
      BY <1>1, <2>1, <3>2
    <3>4. t[i - 1] = x
      BY <2>1, <3>1, <3>3
    <3> QED
      BY <3>3, <3>4 DEF Messages
  <2>5. \A x, y : Before(t, x, y) => Before(s, x, y)
    <3> SUFFICES ASSUME NEW x, NEW y, Before(t, x, y) PROVE Before(s, x, y)
      OBVIOUS
    <3>1. PICK i \in 1..Len(t), j \in 1..Len(t) : i < j /\ t[i] = x /\ t[j] = y
      BY DEF Before
    <3>2. s[i + 1] = x /\ s[j + 1] = y /\ i + 1 < j + 1
      BY <2>1, <3>1
    <3> QED
      BY <2>2, <3>2 DEF Before
  <2> QED
    BY <2>1, <2>2, <2>3, <2>4, <2>5 DEF Messages, t
<1>3. ASSUME NEW r
      PROVE  /\ Messages(s \o <<r>>) = Messages(s) \union {r}
             /\ \A x, y : Before(s \o <<r>>, x, y) =>
                  Before(s, x, y) \/ (x \in Messages(s) /\ y = r)
  <2> DEFINE t == s \o <<r>>
  <2>1. Len(t) = Len(s) + 1 /\ (\A i \in 1..Len(s) : t[i] = s[i]) /\ t[Len(s) + 1] = r
    <3>1. IsList(<<r>>) /\ Len(<<r>>) = 1 /\ <<r>>[1] = r /\ 1 \in 1..1
      BY ShortLists
    <3> QED
      BY <3>1, ListConcat
  <2> HIDE DEF t
  <2>2. \A i \in 1..Len(t) : i \in 1..Len(s) \/ i = Len(s) + 1
    BY <1>1, <2>1
  <2>3. (\A i \in 1..Len(s) : i \in 1..Len(t)) /\ Len(s) + 1 \in 1..Len(t)
    BY <1>1, <2>1
  <2>4. Messages(t) = Messages(s) \union {r}
    BY <2>1, <2>2, <2>3 DEF Messages
  <2>5. \A x, y : Before(t, x, y) => Before(s, x, y) \/ (x \in Messages(s) /\ y = r)
    <3> SUFFICES ASSUME NEW x, NEW y, Before(t, x, y) PROVE Before(s, x, y) \/ (x \in Messages(s) /\ y = r)
      OBVIOUS
    <3>1. PICK i \in 1..Len(t), j \in 1..Len(t) : i < j /\ t[i] = x /\ t[j] = y
      BY DEF Before
    <3>2. i \in 1..Len(s)
      BY <1>1, <2>1, <3>1
    <3>3. CASE j \in 1..Len(s)
      BY <2>1, <3>1, <3>2, <3>3 DEF Before
    <3>4. CASE j = Len(s) + 1
      BY <2>1, <3>1, <3>2, <3>4 DEF Messages
    <3> QED
      BY <2>2, <3>3, <3>4
  <2> QED
    BY <2>4, <2>5 DEF t
<1>4. \A x, y : Before(s, x, y) => x \in Messages(s) /\ y \in Messages(s)
  BY DEF Messages, Before
<1> QED
  BY <1>2, <1>3, <1>4

\* Nothing is in an empty queue.
LEMMA EmptyQueue == Messages(<<>>) = {} /\ \A x, y : ~Before(<<>>, x, y)
BY ShortLists DEF Messages, Before

-----------------------------------------------------------------------------
\* Steps.

\* Device e reads its first message.
Reads(e) == LET m == Head(inbox[e]) IN
  /\ inbox[e] # <<>> /\ m \in Messages(inbox[e])
  /\ \A x \in Messages(inbox'[e]) : Before(inbox[e], m, x)
  /\ \A x \in Messages(inbox[e]) : x = m \/ x \in Messages(inbox'[e])

\* What e, which becomes c, may send to q: that it is gone, a call, or the answer to one.
MaySend(e, c, q, x) == LET m == Head(inbox[e]) IN
  /\ x.from = Me(dev[e])
  /\ \/ x.type = "lost" /\ c.conn = dev[e].conn + 1
     \/ /\ x.type = "call" /\ c.conn = dev[e].conn /\ x.id = c.n /\ c.n > dev[e].n
        /\ x.kind # "ExchangeGUIDs" => Reads(e) /\ IsAnswer(m) /\ Loud(m) /\ m.from = Me(dev[q])
     \/ /\ Reads(e) /\ m.type = "call" /\ m.from = Me(dev[q]) /\ c.conn = dev[e].conn
        /\ IsAnswer(x) /\ x.kind = m.kind /\ x.id = m.id
        /\ x.kind = "ExchangeGroupKeys" =>
             LET s == LookupName(c.map, Me(dev[q])) IN
             /\ s # 0 /\ c.map[s].groupKey = q
             /\ x.seal = <<c.map[s].sessionKey, c.map[s].keyRole>>
  /\ x.type # "lost" /\ x.kind = "ExchangeGroupKeys" => x.type # "error" /\ x.seal # None /\ x.body = e

\* What e does with its messages and its map: it reads one, or none, or connects again.
Turns(e, c, sent) == LET m == Head(inbox[e]) IN
  \/ /\ Reads(e) /\ c.conn = dev[e].conn /\ Mapped(dev[e], m, c.map)
     /\ IsAnswer(m) /\ c.map # dev[e].map => Waiting(dev[e], m) # {}
  \/ /\ Messages(inbox'[e]) = Messages(inbox[e]) /\ c.conn = dev[e].conn /\ c.map = dev[e].map
  \/ /\ Messages(inbox'[e]) = {} /\ c.conn = dev[e].conn + 1 /\ c.map = NoNames
     /\ \A q \in scene.on : q # e => \E l \in sent[q] : l.type = "lost" /\ l.from = Me(dev[e])

\* Device e becomes c and sends the messages sent[q] to q.
Moves(e, c, sent) ==
  /\ scene' = scene /\ dev' = [dev EXCEPT ![e] = c]
  /\ c.me = e /\ c.n \in Nat /\ c.n >= dev[e].n
  /\ Turns(e, c, sent) /\ sent[e] = {} /\ Messages(inbox'[e]) \subseteq Messages(inbox[e])
  /\ \A q \in scene.on :
       /\ q # e => Messages(inbox'[q]) = Messages(inbox[q]) \union sent[q]
       /\ \A x, y : Before(inbox'[q], x, y) =>
            Before(inbox[q], x, y) \/ (x \in Messages(inbox[q]) /\ y \in sent[q])
       /\ \A x \in sent[q] : MaySend(e, c, q, x)

\* Of the messages to a device of the scene.
LEMMA MessageFacts ==
  ASSUME PeerInv, NEW q \in Device, NEW m \in Messages(inbox[q])
  PROVE  /\ MsgOK(m, q) /\ m.from \in UniqueName /\ m.from[1] \in Device /\ m.from[1] # q
         /\ m.from = <<m.from[1], m.from[2]>> /\ m.from[2] \in Connections
<1>1. MsgOK(m, q)
  BY DEF PeerInv, InboxOK, Messages
<1> QED
  BY <1>1 DEF MsgOK, UniqueName

\* What PeerInv says of the devices and their connections.
LEMMA DeviceFacts ==
  ASSUME PeerInv
  PROVE  /\ scene.on \subseteq Device /\ scene.wanted \subseteq scene.on \X scene.on
         /\ \A w \in scene.wanted : w[1] # w[2]
         /\ DOMAIN dev = Device /\ Connections \subseteq Nat
         /\ \A e \in Device : /\ DevOK(e, dev[e]) /\ dev[e].n \in Nat /\ dev[e].conn \in Connections
                              /\ Me(dev[e]) = <<e, dev[e].conn>> /\ dev[e].me = e
                              /\ Me(dev[e])[1] = e /\ Me(dev[e])[2] = dev[e].conn
                              /\ dev[e].conn \in Nat
<1>1. scene \in Scenes /\ DOMAIN dev = Device /\ \A e \in Device : DevOK(e, dev[e])
  BY DEF PeerInv
<1>2. Connections \subseteq Nat
  <2>1. \A s \in Scenes : 1..s.connections \subseteq Nat
    BY PeerAssumption
  <2> QED
    BY <2>1 DEF Connections
<1>3. ASSUME NEW e \in Device
      PROVE  /\ DevOK(e, dev[e]) /\ dev[e].n \in Nat /\ dev[e].conn \in Connections
             /\ Me(dev[e]) = <<e, dev[e].conn>> /\ dev[e].me = e
             /\ Me(dev[e])[1] = e /\ Me(dev[e])[2] = dev[e].conn
             /\ dev[e].conn \in Nat
  BY <1>1, <1>2 DEF DevOK, FieldsOK, Me
<1> QED
  BY <1>1, <1>2, <1>3, PeerAssumption

\* A message that is still to be read after a step was there before it, or is sent by it.
LEMMA OldOrSent ==
  ASSUME NEW e, NEW c, NEW sent, Moves(e, c, sent), NEW q \in scene.on, NEW x \in Messages(inbox'[q])
  PROVE  x \in Messages(inbox[q]) \/ x \in sent[q]
BY DEF Moves

\* That a connection is lost is read before what comes from a later one only.
LEMMA LostStays ==
  ASSUME NEW e \in scene.on, NEW c, NEW sent, Moves(e, c, sent),
         NEW q \in scene.on, NEW name, Lost(inbox[q], name)
  PROVE  \/ Lost(inbox'[q], name)
         \/ q = e /\ Messages(inbox'[q]) = {} /\ c.map = NoNames
         \/ /\ q = e /\ Reads(e) /\ Head(inbox[e]).type = "lost" /\ Head(inbox[e]).from = name
            /\ c.map = AJ_GUID_DeleteNameMapping(dev[e].map, name)
<1>1. PICK l \in Messages(inbox[q]) : l.type = "lost" /\ l.from = name
  BY DEF Lost
<1>2. CASE l \in Messages(inbox'[q])
  BY <1>1, <1>2 DEF Lost
<1>3. CASE l \notin Messages(inbox'[q])
  <2>1. q = e
    BY <1>3 DEF Moves
  <2>2. CASE Reads(e) /\ Mapped(dev[e], Head(inbox[e]), c.map)
    <3>1. l = Head(inbox[e])
      BY <1>3, <2>1, <2>2 DEF Reads
    <3>2. c.map = AJ_GUID_DeleteNameMapping(dev[e].map, name)
      BY <1>1, <2>2, <3>1 DEF Mapped
    <3> QED
      BY <1>1, <2>1, <2>2, <3>1, <3>2
  <2>3. CASE Messages(inbox'[e]) = {} /\ c.map = NoNames
    BY <2>1, <2>3
  <2> QED
    BY <1>3, <2>1, <2>2, <2>3 DEF Moves, Turns
<1> QED
  BY <1>2, <1>3

\* The order of messages is kept.
LEMMA OrderKept ==
  ASSUME PeerInv, OrderInv, NEW e \in scene.on, NEW c, NEW sent, Moves(e, c, sent)
  PROVE  OrderInv'
<1>1. /\ scene.on \subseteq Device /\ DOMAIN dev = Device /\ Connections \subseteq Nat
      /\ \A q \in Device : /\ dev[q].n \in Nat /\ dev[q].conn \in Nat /\ dev[q].me = q
                           /\ Me(dev[q]) = <<q, dev[q].conn>>
                           /\ Me(dev[q])[1] = q /\ Me(dev[q])[2] = dev[q].conn
  BY DeviceFacts
<1>2. /\ scene' = scene /\ dev' = [dev EXCEPT ![e] = c] /\ c.n \in Nat /\ c.n >= dev[e].n
      /\ c.conn = dev[e].conn \/ c.conn = dev[e].conn + 1
      /\ sent[e] = {}
  BY DEF Moves, Turns
<1>3. \A q \in Device : /\ q # e => dev'[q] = dev[q]
                        /\ dev'[q].n \in Nat /\ dev'[q].n >= dev[q].n
                        /\ dev'[q].conn \in Nat /\ dev'[q].conn >= dev[q].conn
  BY <1>1, <1>2
<1>4. dev'[e] = c
  BY <1>1, <1>2
<1>5. \A q \in scene.on : InOrder(inbox[q]) /\ \A m \in Messages(inbox[q]) : MessageOK(q, m)
  BY DEF OrderInv
<1>6. ASSUME NEW q \in scene.on PROVE InOrder(inbox'[q])
  <2> SUFFICES ASSUME NEW m \in Messages(inbox'[q]), NEW l \in Messages(inbox'[q]),
                      Before(inbox'[q], m, l), m.from[1] = l.from[1]
               PROVE  /\ m.from[2] <= l.from[2]
                      /\ m.type = "lost" => m.from[2] < l.from[2]
                      /\ m.type = "call" /\ l.type = "call" => m.id < l.id
    BY DEF InOrder
  <2>1. Before(inbox[q], m, l) \/ (m \in Messages(inbox[q]) /\ l \in sent[q])
    BY DEF Moves
  <2>2. CASE Before(inbox[q], m, l)
    <3>1. m \in Messages(inbox[q]) /\ l \in Messages(inbox[q])
      BY <2>2 DEF Before, Messages
    <3> QED
      BY <1>5, <2>2, <3>1 DEF InOrder
  <2>3. CASE m \in Messages(inbox[q]) /\ l \in sent[q]
    <3>1. MaySend(e, c, q, l) /\ MessageOK(q, m)
      BY <1>5, <2>3 DEF Moves
    <3>2. l.from[1] = e /\ l.from[2] = dev[e].conn
      BY <1>1, <3>1 DEF MaySend
    <3>3. m.from[2] <= dev[e].conn /\ (m.type = "lost" => m.from[2] < dev[e].conn)
          /\ (m.type = "call" => m.id \in 1..dev[e].n)
      BY <3>1, <3>2 DEF MessageOK
    <3>4. ASSUME m.type = "call", l.type = "call" PROVE m.id < l.id
      <4>1. l.id = c.n /\ c.n > dev[e].n
        BY <3>1, <3>4 DEF MaySend, IsAnswer
      <4> QED
        BY <1>1, <1>2, <3>3, <3>4, <4>1
    <3> QED
      BY <3>2, <3>3, <3>4
  <2> QED
    BY <2>1, <2>2, <2>3
<1>7. ASSUME NEW q \in scene.on, NEW m \in Messages(inbox'[q]) PROVE MessageOK(q, m)'
  <2> DEFINE f == m.from[1]
  <2>1. m \in Messages(inbox[q]) \/ m \in sent[q]
    BY <1>7, OldOrSent
  <2>2. CASE m \in Messages(inbox[q])
    <3>1. MsgOK(m, q) /\ f \in Device /\ f # q /\ m.from = <<f, m.from[2]>> /\ m.from[2] \in Nat
      BY <1>1, <2>2, MessageFacts
    <3>2. MessageOK(q, m)
      BY <1>5, <2>2
    <3> HIDE DEF f
    <3>0. f \in scene.on'
      BY <1>2, <3>2 DEF MessageOK, f
    <3>3. m.from[2] <= dev'[f].conn /\ (m.type = "lost" => m.from[2] < dev'[f].conn)
      BY <1>1, <1>3, <3>1, <3>2 DEF MessageOK, f
    <3>4. m.type = "call" => m.id \in 1..dev'[f].n
      BY <1>1, <1>3, <3>1, <3>2 DEF MessageOK, f
    <3>5. ASSUME m.from[2] < dev'[f].conn PROVE Lost(inbox'[q], m.from)
      <4>1. CASE m.from[2] < dev[f].conn
        <5>1. Lost(inbox[q], m.from)
          BY <3>2, <4>1 DEF MessageOK, f
        <5>2. ASSUME q = e, Messages(inbox'[q]) = {} PROVE FALSE
          BY <1>7, <5>2
        <5>3. ASSUME q = e, Reads(e), Head(inbox[e]).type = "lost", Head(inbox[e]).from = m.from
              PROVE  FALSE
          <6>1. Before(inbox[q], Head(inbox[e]), m) /\ Head(inbox[e]) \in Messages(inbox[q])
            BY <1>7, <5>3 DEF Reads
          <6>2. Head(inbox[e]).from[2] < m.from[2]
            BY <1>5, <2>2, <5>3, <6>1 DEF InOrder
          <6> QED
            BY <3>1, <5>3, <6>2
        <5> QED
          BY <5>1, <5>2, <5>3, LostStays, ZenonT(60)
      <4>2. CASE ~(m.from[2] < dev[f].conn)
        <5>1. f = e /\ c.conn = dev[e].conn + 1 /\ m.from[2] = dev[e].conn
          <6>1. m.from[2] <= dev[f].conn
            BY <3>2 DEF MessageOK, f
          <6>2. f = e
            BY <1>1, <1>3, <3>1, <3>5, <4>2, <6>1
          <6> QED
            BY <1>1, <1>2, <1>4, <3>1, <3>5, <4>2, <6>1, <6>2
        <5>2. m.from = Me(dev[e])
          BY <1>1, <3>1, <5>1
        <5>3. PICK l \in sent[q] : l.type = "lost" /\ l.from = Me(dev[e])
          BY <1>1, <3>1, <5>1 DEF Moves, Turns
        <5>4. l \in Messages(inbox'[q])
          BY <3>1, <5>1, <5>3 DEF Moves
        <5> QED
          BY <5>2, <5>3, <5>4 DEF Lost
      <4> QED
        BY <4>1, <4>2
    <3>6. ASSUME IsAnswer(m)
          PROVE  /\ m.id \in 1..dev'[q].n
                 /\ \A l \in Messages(inbox'[f]) : IsCall(l, q) => m.id < l.id
      <4>1. m.id \in 1..dev[q].n /\ \A l \in Messages(inbox[f]) : IsCall(l, q) => m.id < l.id
        BY <3>2, <3>6 DEF MessageOK, f
      <4>2. ASSUME NEW l \in Messages(inbox'[f]), IsCall(l, q) PROVE m.id < l.id
        <5>1. CASE l \in Messages(inbox[f])
          BY <4>1, <4>2, <5>1
        <5>2. CASE l \notin Messages(inbox[f])
          <6>1. f \in scene.on
            BY <3>2 DEF MessageOK, f
          <6>2. l \in sent[f] /\ MaySend(e, c, f, l)
            BY <4>2, <5>2, <6>1, OldOrSent DEF Moves
          <6>3. q = e /\ l.id = c.n /\ c.n > dev[e].n
            BY <1>1, <4>2, <6>2 DEF MaySend, IsCall, IsAnswer
          <6>4. m.id \in 1..dev[q].n
            BY <4>1
          <6> QED
            BY <1>1, <1>2, <6>3, <6>4
        <5> QED
          BY <5>1, <5>2
      <4> QED
        BY <1>1, <1>3, <4>1, <4>2
    <3>7. m.type # "lost" /\ m.kind = "ExchangeGroupKeys" =>
            m.type # "error" /\ m.seal # None /\ m.body = m.from[1]
      BY <3>2 DEF MessageOK
    <3> QED
      BY <3>0, <3>3, <3>4, <3>5, <3>6, <3>7 DEF MessageOK, f
  <2>3. CASE m \in sent[q]
    <3>1. MaySend(e, c, q, m) /\ q # e
      BY <1>2, <2>3 DEF Moves
    <3>2. f = e /\ m.from = Me(dev[e]) /\ m.from[2] = dev[e].conn
      BY <1>1, <3>1 DEF MaySend
    <3> HIDE DEF f
    <3>3. m.from[2] <= c.conn /\ (m.type = "lost" => m.from[2] < c.conn)
      BY <1>1, <1>2, <3>1, <3>2 DEF MaySend, IsAnswer
    <3>4. m.type = "call" => m.id \in 1..c.n
      BY <1>1, <1>2, <3>1 DEF MaySend, IsAnswer
    <3>5. ASSUME m.from[2] < c.conn PROVE Lost(inbox'[q], m.from)
      <4>1. m.type = "lost"
        BY <1>1, <1>2, <3>1, <3>2, <3>5 DEF MaySend
      <4> QED
        BY <1>7, <4>1 DEF Lost
    <3>6. ASSUME IsAnswer(m)
          PROVE  /\ m.id \in 1..dev'[q].n
                 /\ \A l \in Messages(inbox'[e]) : IsCall(l, q) => m.id < l.id
      <4> DEFINE x == Head(inbox[e])
      <4>1. Reads(e) /\ x.type = "call" /\ x.from = Me(dev[q]) /\ m.id = x.id
        BY <3>1, <3>6 DEF MaySend, IsAnswer
      <4> HIDE DEF x
      <4>2. x \in Messages(inbox[e]) /\ x.from[1] = q
        BY <1>1, <4>1 DEF Reads, x
      <4>3. m.id \in 1..dev[q].n
        BY <1>5, <4>1, <4>2 DEF MessageOK
      <4>4. ASSUME NEW l \in Messages(inbox'[e]), IsCall(l, q) PROVE m.id < l.id
        <5>1. Before(inbox[e], x, l) /\ l \in Messages(inbox[e])
          BY <4>1, <4>4 DEF Reads, Before, Messages, x
        <5> QED
          BY <1>5, <4>1, <4>2, <4>4, <5>1 DEF InOrder, IsCall
      <4> QED
        BY <1>1, <1>3, <4>3, <4>4
    <3>7. m.type # "lost" /\ m.kind = "ExchangeGroupKeys" =>
            m.type # "error" /\ m.seal # None /\ m.body = m.from[1]
      BY <3>1, <3>2 DEF MaySend, f
    <3> QED
      BY <1>2, <1>4, <3>2, <3>3, <3>4, <3>5, <3>6, <3>7 DEF MessageOK, f
  <2> QED
    BY <2>1, <2>2, <2>3
<1> QED
  BY <1>2, <1>6, <1>7 DEF OrderInv

-----------------------------------------------------------------------------
\* The names of a map.

\* A mapping that is added is at the slot for it, and nothing else changes.
LEMMA Added ==
  ASSUME NEW e, NEW map, MapOK(e, map), NEW from \in UniqueName, from[1] # e,
         NEW serviceName \in Device \union {None}, SlotFor(map, from) # 0
  PROVE  LET slot == SlotFor(map, from)
             new == AJ_GUID_AddNameMapping(map, from[1], from, serviceName)
         IN /\ slot \in 1..NumNames /\ DOMAIN new = 1..NumNames
            /\ map[slot].uniqueName \in {from, None}
            /\ LookupName(map, from) # 0 => slot = LookupName(map, from)
            /\ \A i \in 1..NumNames : i # slot => new[i] = map[i]
            /\ new[slot].guid = from[1] /\ new[slot].uniqueName = from
            /\ new[slot].serviceName = serviceName
            /\ new[slot].sessionKey = map[slot].sessionKey /\ new[slot].keyRole = map[slot].keyRole
            /\ new[slot].groupKey = map[slot].groupKey
<1> DEFINE slot == SlotFor(map, from)
           new == AJ_GUID_AddNameMapping(map, from[1], from, serviceName)
           x == [map[slot] EXCEPT !.guid = from[1], !.uniqueName = from, !.serviceName = serviceName]
<1>1. slot \in 1..NumNames
  BY Found DEF SlotFor
<1>2. DOMAIN map[slot] = MappingFields /\ DOMAIN map = 1..NumNames
  BY <1>1 DEF MapOK, MappingOK
<1>3. new = [map EXCEPT ![slot] = x]
  BY <1>1, <1>2 DEF AJ_GUID_AddNameMapping
<1>4. /\ x.guid = from[1] /\ x.uniqueName = from /\ x.serviceName = serviceName
      /\ x.sessionKey = map[slot].sessionKey /\ x.keyRole = map[slot].keyRole
      /\ x.groupKey = map[slot].groupKey
  BY <1>2 DEF MappingFields
<1>5. map[slot].uniqueName \in {from, None}
  <2>1. CASE LookupName(map, from) # 0
    BY <2>1, FoundPeer DEF SlotFor
  <2>2. CASE LookupName(map, from) = 0
    <3>1. slot = LookupName(map, None)
      BY <2>2 DEF SlotFor
    <3>2. Names(map[slot], None) /\ MappingOK(e, map[slot])
      BY <1>1, <3>1, Found DEF MapOK
    <3> QED
      BY <3>2 DEF Names
  <2> QED
    BY <2>1, <2>2
<1> HIDE DEF slot, x, new
<1>6. new[slot] = x /\ DOMAIN new = 1..NumNames /\ \A i \in 1..NumNames : i # slot => new[i] = map[i]
  BY <1>1, <1>2, <1>3
<1>7. LookupName(map, from) # 0 => slot = LookupName(map, from)
  BY DEF SlotFor, slot
<1> QED
  BY <1>1, <1>4, <1>5, <1>6, <1>7 DEF slot, new

\* The mapping that is deleted is the one that is found.
LEMMA Deleted ==
  ASSUME NEW e, NEW map, MapOK(e, map), NEW name
  PROVE  LET slot == LookupName(map, name)
             new == AJ_GUID_DeleteNameMapping(map, name)
         IN \A i \in 1..NumNames : new[i] = IF i = slot THEN NoMapping ELSE map[i]
<1> DEFINE slot == LookupName(map, name)
           new == AJ_GUID_DeleteNameMapping(map, name)
<1>1. slot \in 0..NumNames /\ (slot # 0 => slot \in 1..NumNames) /\ DOMAIN map = 1..NumNames
  BY Found DEF MapOK
<1>2. new = IF slot = 0 THEN map ELSE [map EXCEPT ![slot] = NoMapping]
  BY DEF AJ_GUID_DeleteNameMapping
<1> HIDE DEF slot, new
<1>3. \A i \in 1..NumNames : new[i] = IF i = slot THEN NoMapping ELSE map[i]
  BY <1>1, <1>2, NameMapAssumption
<1> QED
  BY <1>3 DEF slot, new

\* A device's mapping is found by its unique name.
LEMMA FoundAt ==
  ASSUME NEW e, NEW map, MapOK(e, map), OneEach(map), NEW name \in UniqueName,
         NEW s \in 1..NumNames, map[s].uniqueName = name
  PROVE  LookupName(map, name) = s
<1>1. LookupName(map, name) # 0
  BY Found DEF Names
<1>2. /\ LookupName(map, name) \in 1..NumNames
      /\ map[LookupName(map, name)].guid = name[1]
  BY <1>1, FoundPeer
<1>3. map[s].guid = name[1] /\ name[1] # None
  BY UniqueNames DEF MapOK, MappingOK
<1> QED
  BY <1>2, <1>3 DEF OneEach

\* A mapping stays in order, unless e read that its connection is gone or lost all.
LEMMA SlotKept ==
  ASSUME PeerInv, NEW e \in scene.on, NEW c, NEW sent, Moves(e, c, sent), NEW q \in scene.on,
         NEW x, MappingOK(q, x), SlotOK(q, x), q = e => c.map # NoNames,
         q = e => x.uniqueName = None
                  \/ c.map # AJ_GUID_DeleteNameMapping(dev[e].map, x.uniqueName)
  PROVE  SlotOK(q, x)'
<1> DEFINE u == x.uniqueName
           g == x.guid
<1>1. x.serviceName \in {None, g} /\ x.keyRole \in 0..2
  BY DEF SlotOK
<1>2. CASE u = None
  BY <1>1, <1>2 DEF SlotOK
<1>3. CASE u # None
  <2>1. u \in UniqueName /\ g = u[1] /\ g # q /\ g \in Device
    BY <1>3, UniqueNames DEF MappingOK
  <2>2. u = <<g, u[2]>> /\ u[2] \in Nat
    BY <2>1, DeviceFacts DEF UniqueName
  <2>3. /\ u[2] <= dev[g].conn /\ (u[2] < dev[g].conn => Lost(inbox[q], u))
        /\ \A m \in Messages(inbox[q]) : m.from[1] = g => u[2] <= m.from[2]
    BY <1>3 DEF SlotOK
  <2>4. /\ dev' = [dev EXCEPT ![e] = c] /\ e \in Device /\ DOMAIN dev = Device
        /\ dev[g].conn \in Nat /\ Me(dev[e]) = <<e, dev[e].conn>> /\ dev[e].conn \in Nat
        /\ Me(dev[e])[1] = e /\ Me(dev[e])[2] = dev[e].conn
        /\ c.conn = dev[e].conn \/ c.conn = dev[e].conn + 1
    BY <2>1, DeviceFacts DEF Moves, Turns
  <2>5. dev'[g].conn \in Nat /\ dev'[g].conn >= dev[g].conn
    BY <2>1, <2>4
  <2> HIDE DEF u, g
  <2>6. u[2] <= dev'[g].conn
    BY <2>2, <2>3, <2>4, <2>5
  <2>7. ASSUME u[2] < dev'[g].conn PROVE Lost(inbox'[q], u)
    <3>1. CASE u[2] < dev[g].conn
      <4>1. Lost(inbox[q], u)
        BY <2>3, <3>1
      <4>2. q = e => c.map # AJ_GUID_DeleteNameMapping(dev[e].map, u)
        BY <1>3 DEF u
      <4> QED
        BY <4>1, <4>2, LostStays
    <3>2. CASE ~(u[2] < dev[g].conn)
      <4>1. g = e /\ c.conn = dev[e].conn + 1 /\ u[2] = dev[e].conn
        BY <2>1, <2>2, <2>3, <2>4, <2>7, <3>2
      <4>2. PICK l \in sent[q] : l.type = "lost" /\ l.from = Me(dev[e])
        <5>1. q # e /\ c.conn # dev[e].conn
          BY <2>1, <2>4, <4>1
        <5> QED
          BY <5>1 DEF Moves, Turns
      <4>3. l \in Messages(inbox'[q])
        BY <2>1, <4>1 DEF Moves
      <4> QED
        BY <2>2, <2>4, <4>1, <4>2, <4>3 DEF Lost
    <3> QED
      BY <3>1, <3>2
  <2>8. ASSUME NEW m \in Messages(inbox'[q]), m.from[1] = g PROVE u[2] <= m.from[2]
    <3>1. CASE m \in Messages(inbox[q])
      BY <2>3, <2>8, <3>1
    <3>2. CASE m \notin Messages(inbox[q])
      <4>1. MaySend(e, c, q, m)
        BY <3>2, OldOrSent DEF Moves
      <4>2. m.from = Me(dev[e])
        BY <4>1 DEF MaySend
      <4>3. g = e /\ m.from[2] = dev[e].conn
        BY <2>4, <2>8, <4>2
      <4> QED
        BY <2>3, <4>3
    <3> QED
      BY <3>1, <3>2
  <2> QED
    BY <1>1, <2>6, <2>7, <2>8 DEF SlotOK, u, g
<1> QED
  BY <1>2, <1>3

\* The names of another device are kept.
LEMMA NamesOther ==
  ASSUME PeerInv, NamesInv, NEW e \in scene.on, NEW c, NEW sent, Moves(e, c, sent),
         NEW q \in scene.on, q # e
  PROVE  NamesOK(q)'
<1>1. q \in Device /\ dev'[q] = dev[q] /\ MapOK(q, dev[q].map)
  BY DeviceFacts DEF Moves, DevOK, FieldsOK
<1>2. NamesOK(q)
  BY DEF NamesInv
<1>3. \A s \in 1..NumNames : MappingOK(q, dev[q].map[s]) /\ SlotOK(q, dev[q].map[s])
  BY <1>1, <1>2 DEF NamesOK, MapOK
<1>4. \A s \in 1..NumNames : SlotOK(q, dev[q].map[s])'
  <2> SUFFICES ASSUME NEW s \in 1..NumNames PROVE SlotOK(q, dev[q].map[s])'
    OBVIOUS
  <2>1. ASSUME NEW x, x = dev[q].map[s] PROVE SlotOK(q, x)'
    BY <1>3, <2>1, SlotKept
  <2>2. PICK x : x = dev[q].map[s]
    OBVIOUS
  <2>3. SlotOK(q, x)' /\ x = dev'[q].map[s]
    BY <1>1, <2>1, <2>2
  <2> QED
    BY <2>3 DEF SlotOK
<1> QED
  BY <1>1, <1>2, <1>4 DEF NamesOK

\* The slot for a name that is heard of has no other of the same device beside it: e would have
\* read before that the connection of the other is gone.
LEMMA OnlySlot ==
  ASSUME PeerInv, OrderInv, NamesInv, NEW e \in scene.on, Reads(e),
         NEW t \in 1..NumNames, dev[e].map[t].guid = Head(inbox[e]).from[1],
         Head(inbox[e]).type # "lost"
  PROVE  dev[e].map[t].uniqueName = Head(inbox[e]).from
<1> DEFINE m == Head(inbox[e])
           x == dev[e].map[t]
           u == x.uniqueName
           g == m.from[1]
<1>1. e \in Device /\ MapOK(e, dev[e].map) /\ Connections \subseteq Nat
  BY DeviceFacts DEF DevOK, FieldsOK
<1>2. m \in Messages(inbox[e]) /\ \A l \in Messages(inbox[e]) : l = m \/ Before(inbox[e], m, l)
  BY DEF Reads
<1>3. /\ m.from \in UniqueName /\ g \in Device /\ m.from = <<g, m.from[2]>>
      /\ m.from[2] \in Nat /\ MessageOK(e, m) /\ InOrder(inbox[e])
  BY <1>1, <1>2, MessageFacts DEF OrderInv
<1>4. MappingOK(e, x) /\ SlotOK(e, x)
  BY <1>1 DEF MapOK, NamesInv, NamesOK
<1>5. m.type # "lost" /\ x.guid = g /\ g # None
  BY <1>3, UniqueNames
<1> HIDE DEF m, x
<1>6. u \in UniqueName /\ u[1] = g /\ u # None
  BY <1>4, <1>5, UniqueNames DEF MappingOK
<1>7. u = <<g, u[2]>> /\ u[2] \in Nat
  <2>1. u = <<g, u[2]>> /\ u[2] \in Connections
    BY <1>6 DEF UniqueName
  <2> QED
    BY <1>1, <2>1
<1>8. u[2] <= m.from[2] /\ (u[2] < dev[g].conn => Lost(inbox[e], u)) /\ m.from[2] <= dev[g].conn
  BY <1>2, <1>3, <1>4, <1>5, <1>6 DEF SlotOK, MessageOK
<1> HIDE DEF u, g
<1>9. dev[g].conn \in Nat
  BY <1>3, DeviceFacts
<1>10. ASSUME u[2] < m.from[2] PROVE FALSE
  <2>1. PICK l \in Messages(inbox[e]) : l.type = "lost" /\ l.from = u
    BY <1>1, <1>3, <1>7, <1>8, <1>9, <1>10 DEF Lost
  <2>2. Before(inbox[e], m, l)
    BY <1>2, <1>5, <2>1
  <2>3. m.from[2] <= u[2]
    BY <1>2, <1>3, <1>6, <2>1, <2>2 DEF InOrder, g
  <2> QED
    BY <1>1, <1>3, <1>7, <1>10, <2>3
<1>11. u[2] = m.from[2]
  BY <1>1, <1>3, <1>7, <1>8, <1>10
<1>12. u = m.from
  BY <1>3, <1>7, <1>11
<1> QED
  BY <1>12 DEF u, x, m

\* A slot whose names stay is in order.
LEMMA SlotStays ==
  ASSUME PeerInv, NamesInv, NEW e \in scene.on, NEW c, NEW sent, Moves(e, c, sent),
         NEW s \in 1..NumNames, NEW x, x.keyRole \in 0..2, x.guid = dev[e].map[s].guid,
         x.uniqueName = dev[e].map[s].uniqueName, x.serviceName = dev[e].map[s].serviceName,
         c.map[s].uniqueName = x.uniqueName
  PROVE  SlotOK(e, x)'
<1>1. e \in Device /\ MapOK(e, dev[e].map)
  BY DeviceFacts DEF DevOK, FieldsOK
<1>2. PICK y : y = dev[e].map[s]
  OBVIOUS
<1>3. /\ MappingOK(e, y) /\ SlotOK(e, y) /\ OneEach(dev[e].map)
      /\ x.guid = y.guid /\ x.uniqueName = y.uniqueName /\ x.serviceName = y.serviceName
  BY <1>1, <1>2 DEF MapOK, NamesInv, NamesOK
<1>4. CASE y.uniqueName = None
  BY <1>3, <1>4 DEF SlotOK
<1>5. CASE y.uniqueName # None
  <2>1. c.map[s] # NoMapping
    BY <1>3, <1>5 DEF NoMapping
  <2>2. c.map # NoNames
    BY <2>1 DEF NoNames
  <2>3. c.map # AJ_GUID_DeleteNameMapping(dev[e].map, y.uniqueName)
    <3>1. y.uniqueName \in UniqueName
      BY <1>3, <1>5 DEF MappingOK
    <3>2. LookupName(dev[e].map, y.uniqueName) = s
      BY <1>1, <1>2, <1>3, <3>1, FoundAt
    <3> QED
      BY <1>1, <2>1, <3>2, Deleted
  <2>4. SlotOK(e, y)'
    BY <1>3, <2>2, <2>3, SlotKept
  <2> QED
    BY <1>3, <2>4 DEF SlotOK
<1> QED
  BY <1>4, <1>5

\* What e hears of is the slot's that it adds.
LEMMA SlotAdded ==
  ASSUME PeerInv, OrderInv, NamesInv, NEW e \in scene.on, NEW c, NEW sent, Moves(e, c, sent),
         Reads(e), Head(inbox[e]).type # "lost", NEW name \in {None, Head(inbox[e]).from[1]},
         c.map = AJ_GUID_AddNameMapping(dev[e].map, Head(inbox[e]).from[1], Head(inbox[e]).from, name),
         SlotFor(dev[e].map, Head(inbox[e]).from) # 0
  PROVE  OneEach(c.map) /\ \A s \in 1..NumNames : SlotOK(e, c.map[s])'
<1> DEFINE m == Head(inbox[e])
           map == dev[e].map
           slot == SlotFor(map, m.from)
           g == m.from[1]
<1>1. e \in Device /\ MapOK(e, map) /\ Connections \subseteq Nat
  BY DeviceFacts DEF DevOK, FieldsOK
<1>2. m \in Messages(inbox[e]) /\ \A l \in Messages(inbox'[e]) : l \in Messages(inbox[e]) /\ Before(inbox[e], m, l)
  BY DEF Reads, Moves
<1>3. /\ m.from \in UniqueName /\ g \in Device /\ g # e /\ m.from[2] \in Nat
      /\ MessageOK(e, m) /\ InOrder(inbox[e]) /\ g # None /\ m.from # None
  BY <1>1, <1>2, MessageFacts, UniqueNames DEF OrderInv
<1>4. OneEach(map) /\ \A s \in 1..NumNames : MappingOK(e, map[s]) /\ SlotOK(e, map[s])
  BY <1>1 DEF NamesInv, NamesOK, MapOK
<1>5. \A t \in 1..NumNames : map[t].guid = g => map[t].uniqueName = m.from
  BY OnlySlot
<1>6. dev'[g] = dev[g]
  BY <1>3 DEF Moves
<1>7. m.type # "lost" /\ name \in Device \union {None} /\ name \in {None, g}
      /\ c.map = AJ_GUID_AddNameMapping(map, g, m.from, name) /\ slot # 0
  BY <1>3
<1>8. /\ slot \in 1..NumNames
      /\ LookupName(map, m.from) # 0 => slot = LookupName(map, m.from)
      /\ \A i \in 1..NumNames : i # slot => c.map[i] = map[i]
      /\ c.map[slot].guid = g /\ c.map[slot].uniqueName = m.from
      /\ c.map[slot].serviceName = name
      /\ c.map[slot].keyRole = map[slot].keyRole
  <2>1. PICK from : from = m.from
    OBVIOUS
  <2>2. PICK mine : mine = map
    OBVIOUS
  <2>3. PICK new : new = AJ_GUID_AddNameMapping(mine, from[1], from, name)
    OBVIOUS
  <2>4. from \in UniqueName /\ from[1] # e /\ from[1] = g
    BY <1>3, <2>1
  <2>5. MapOK(e, mine) /\ SlotFor(mine, from) # 0 /\ slot = SlotFor(mine, from)
    BY <1>1, <1>7, <2>1, <2>2
  <2>6. name \in Device \union {None}
    BY <1>7
  <2>7. /\ slot \in 1..NumNames
        /\ LookupName(mine, from) # 0 => slot = LookupName(mine, from)
        /\ \A i \in 1..NumNames : i # slot => new[i] = mine[i]
        /\ new[slot].guid = from[1] /\ new[slot].uniqueName = from
        /\ new[slot].serviceName = name
        /\ new[slot].keyRole = mine[slot].keyRole
    <3> HIDE DEF slot
    <3> QED
      BY <2>3, <2>4, <2>5, <2>6, Added
  <2>8. c.map = new
    BY <1>7, <2>1, <2>2, <2>3, <2>4
  <2> QED
    BY <2>1, <2>2, <2>4, <2>7, <2>8
<1>9. Lost(inbox[e], m.from) => Lost(inbox'[e], m.from)
  <2>1. c.map # NoNames
    <3>1. c.map[slot].guid # None
      BY <1>3, <1>8
    <3>2. NoMapping.guid = None
      BY DEF NoMapping
    <3>3. slot \in 1..NumNames /\ c.map[slot] # NoMapping
      BY <1>8, <3>1, <3>2
    <3> QED
      BY <3>3 DEF NoNames
  <2> QED
    BY <1>7, <2>1, LostStays, ZenonT(60)
<1>10. \A i \in 1..NumNames : map[i].guid = g => i = slot
  <2> SUFFICES ASSUME NEW i \in 1..NumNames, map[i].guid = g PROVE i = slot
    OBVIOUS
  <2>1. map[i].uniqueName = m.from
    BY <1>5
  <2>2. LookupName(map, m.from) = i
    BY <1>1, <1>3, <1>4, <2>1, FoundAt
  <2>3. i # 0
    BY NameMapAssumption
  <2>4. LookupName(map, m.from) # 0
    BY <2>2, <2>3
  <2>5. slot = LookupName(map, m.from)
    BY <1>8, <2>4
  <2> QED
    BY <2>2, <2>5
<1>11. OneEach(c.map)
  BY <1>4, <1>8, <1>10 DEF OneEach
<1>12. ASSUME NEW s \in 1..NumNames, s # slot PROVE SlotOK(e, c.map[s])'
  <2>1. c.map[s] = map[s] /\ map[s].keyRole \in 0..2
    BY <1>4, <1>8, <1>12 DEF SlotOK
  <2>2. PICK x : x = c.map[s]
    OBVIOUS
  <2>3. SlotOK(e, x)'
    BY <2>1, <2>2, SlotStays
  <2> QED
    BY <2>2, <2>3 DEF SlotOK
<1>13. ASSUME NEW x, x = c.map[slot] PROVE SlotOK(e, x)'
  <2>1. m.from[2] <= dev'[g].conn /\ (m.from[2] < dev'[g].conn => Lost(inbox'[e], m.from))
    BY <1>6, <1>9, <1>3 DEF MessageOK
  <2>2. \A l \in Messages(inbox'[e]) : l.from[1] = g => m.from[2] <= l.from[2]
    BY <1>2, <1>3 DEF InOrder
  <2>3. map[slot].keyRole \in 0..2
    BY <1>4, <1>8 DEF SlotOK
  <2>4. x.guid = g /\ x.uniqueName = m.from /\ x.serviceName \in {None, g} /\ x.keyRole \in 0..2
    BY <1>7, <1>8, <1>13, <2>3
  <2> HIDE DEF m, slot, g
  <2> QED
    BY <2>1, <2>2, <2>4 DEF SlotOK
<1>14. ASSUME NEW s \in 1..NumNames, s = slot PROVE SlotOK(e, c.map[s])'
  <2>1. PICK x : x = c.map[s]
    OBVIOUS
  <2>2. SlotOK(e, x)'
    BY <1>13, <1>14, <2>1
  <2> QED
    BY <2>1, <2>2 DEF SlotOK
<1> QED
  BY <1>11, <1>12, <1>14

\* The names of the device that acts are kept.
LEMMA NamesOwn ==
  ASSUME PeerInv, OrderInv, NamesInv, WaitsInv, NEW e \in scene.on, NEW c, NEW sent, Moves(e, c, sent)
  PROVE  NamesOK(e)'
<1> DEFINE m == Head(inbox[e])
           map == dev[e].map
<1>1. e \in Device /\ MapOK(e, map) /\ dev'[e] = c
  BY DeviceFacts DEF DevOK, FieldsOK, Moves
<1>2. OneEach(map) /\ \A s \in 1..NumNames : MappingOK(e, map[s]) /\ SlotOK(e, map[s])
  BY <1>1 DEF NamesInv, NamesOK, MapOK
<1> SUFFICES OneEach(c.map) /\ \A s \in 1..NumNames : SlotOK(e, c.map[s])'
  BY <1>1 DEF NamesOK, OneEach, SlotOK
<1>3. ASSUME NEW s \in 1..NumNames, c.map[s] = NoMapping PROVE SlotOK(e, c.map[s])'
  BY <1>3 DEF SlotOK, NoMapping, AJ_ROLE_KEY_UNDEFINED
<1>4. ASSUME NEW s \in 1..NumNames, c.map[s].uniqueName = map[s].uniqueName,
             c.map[s].guid = map[s].guid, c.map[s].serviceName = map[s].serviceName,
             c.map[s].keyRole \in 0..2
      PROVE  SlotOK(e, c.map[s])'
  <2>1. PICK x : x = c.map[s]
    OBVIOUS
  <2>2. SlotOK(e, x)'
    BY <1>4, <2>1, SlotStays
  <2> QED
    BY <2>1, <2>2 DEF SlotOK
<1>5. \A s \in 1..NumNames : map[s].keyRole \in 0..2
  BY <1>2 DEF SlotOK
<1>6. CASE c.map = map
  <2>1. \A s \in 1..NumNames : SlotOK(e, c.map[s])'
    BY <1>4, <1>5, <1>6
  <2> QED
    BY <1>2, <1>6, <2>1
<1>7. CASE c.map = NoNames
  BY <1>3, <1>7 DEF NoNames, OneEach, NoMapping
<1>8. CASE \E name : c.map = AJ_GUID_DeleteNameMapping(map, name)
  <2>1. \A s \in 1..NumNames : c.map[s] \in {NoMapping, map[s]}
    BY <1>1, <1>8, Deleted
  <2>2. \A s \in 1..NumNames : SlotOK(e, c.map[s])'
    BY <1>3, <1>4, <1>5, <2>1
  <2> QED
    BY <1>2, <2>1, <2>2 DEF OneEach, NoMapping
<1>9. CASE \E name, key : (\E role \in 0..2 : c.map = AJ_SetSessionKey(map, name, key, role))
                          \/ c.map = AJ_SetGroupKey(map, name, key)
  <2>1. \A s \in 1..NumNames :
          /\ c.map[s].uniqueName = map[s].uniqueName /\ c.map[s].guid = map[s].guid
          /\ c.map[s].serviceName = map[s].serviceName /\ c.map[s].keyRole \in 0..2
    <3>1. CASE \E name, key : \E role \in 0..2 : c.map = AJ_SetSessionKey(map, name, key, role)
      <4>1. PICK name, key, role : role \in 0..2 /\ c.map = AJ_SetSessionKey(map, name, key, role)
        BY <3>1
      <4>2. \A s \in 1..NumNames :
              /\ c.map[s].uniqueName = map[s].uniqueName /\ c.map[s].guid = map[s].guid
              /\ c.map[s].serviceName = map[s].serviceName /\ c.map[s].keyRole \in {map[s].keyRole, role}
        BY <1>1, <4>1, KeysSetNames
      <4> QED
        BY <1>5, <4>1, <4>2
    <3>2. CASE \E name, key : c.map = AJ_SetGroupKey(map, name, key)
      <4>1. PICK name, key : c.map = AJ_SetGroupKey(map, name, key)
        BY <3>2
      <4>2. \A s \in 1..NumNames :
              /\ c.map[s].uniqueName = map[s].uniqueName /\ c.map[s].guid = map[s].guid
              /\ c.map[s].serviceName = map[s].serviceName /\ c.map[s].keyRole = map[s].keyRole
        BY <1>1, <4>1, GroupKeySetNames
      <4> QED
        BY <1>5, <4>2
    <3> QED
      BY <1>9, <3>1, <3>2
  <2>2. \A s \in 1..NumNames : SlotOK(e, c.map[s])'
    BY <1>4, <2>1
  <2> QED
    BY <1>2, <2>1, <2>2 DEF OneEach
<1>10. ASSUME Reads(e), c.map # map, m.type # "lost",
              NEW name, name = None \/ (m.type = "reply" /\ name = dev[e].peerName),
              c.map = AJ_GUID_AddNameMapping(map, m.from[1], m.from, name),
              IsAnswer(m) => Waiting(dev[e], m) # {}
       PROVE  OneEach(c.map) /\ \A s \in 1..NumNames : SlotOK(e, c.map[s])'
  <2>1. name \in {None, m.from[1]}
    <3>1. CASE name # None
      <4>1. PICK call \in dev[e].calls : call.id = m.id
        BY <1>10, <3>1 DEF IsAnswer, Waiting
      <4>2. IsAnswer(m) /\ m \in Messages(inbox[e]) /\ WaitsOK(e)
        BY <1>10, <3>1 DEF IsAnswer, Reads, WaitsInv
      <4>3. dev[e].cb # 0
        BY <1>10, <3>1, <4>2 DEF WaitsOK
      <4> QED
        BY <1>10, <3>1, <4>1, <4>2, <4>3 DEF WaitsOK
    <3> QED
      BY <3>1
  <2>2. SlotFor(map, m.from) # 0
    BY <1>10 DEF AJ_GUID_AddNameMapping
  <2> QED
    BY <1>10, <2>1, <2>2, SlotAdded
<1>11. Turns(e, c, sent)
  BY DEF Moves
<1>12. ASSUME Reads(e), Mapped(dev[e], m, c.map), IsAnswer(m) /\ c.map # map => Waiting(dev[e], m) # {},
              c.map # map
       PROVE  OneEach(c.map) /\ \A s \in 1..NumNames : SlotOK(e, c.map[s])'
  <2>1. m.type # "lost" \/ c.map = AJ_GUID_DeleteNameMapping(map, m.from)
    BY <1>12 DEF Mapped
  <2>2. CASE m.type # "lost"
    <3>1. \/ \E name : /\ name = None \/ (m.type = "reply" /\ name = dev[e].peerName)
                       /\ c.map = AJ_GUID_AddNameMapping(map, m.from[1], m.from, name)
          \/ \E key, role : role \in 0..2 /\ c.map = AJ_SetSessionKey(map, m.from, key, role)
          \/ c.map = AJ_SetGroupKey(map, m.from, m.body)
      BY <1>12, <2>2 DEF Mapped
    <3> HIDE DEF m, map
    <3> QED
      BY <1>9, <1>10, <1>12, <2>2, <3>1
  <2> QED
    BY <1>8, <2>1, <2>2
<1> QED
  BY <1>6, <1>7, <1>11, <1>12 DEF Turns

\* NamesInv is kept.
LEMMA NamesKept ==
  ASSUME PeerInv, OrderInv, NamesInv, WaitsInv, NEW e \in scene.on, NEW c, NEW sent, Moves(e, c, sent)
  PROVE  NamesInv'
<1>1. \A q \in scene.on : NamesOK(q)'
  BY NamesOwn, NamesOther
<1>2. scene' = scene
  BY DEF Moves
<1> QED
  BY <1>1, <1>2 DEF NamesInv

-----------------------------------------------------------------------------
\* The attempts.

\* The peer of the handshake is the one that was asked for, if it is still there.
Peered(c) ==
  c.peerGuid # 0 /\ PeerOf(c) # None =>
    PeerOf(c) = c.peerName /\ c.map[c.peerGuid].serviceName = c.peerName

\* The attempt of e stays as it is; what is said aloud answers a call of a handshake.
Keeps(e, c, sent) == LET d == dev[e] m == Head(inbox[e]) IN
  /\ d.cb # 0 /\ c.cb = d.cb /\ c.attempts = d.attempts /\ c.peerName = d.peerName
  /\ c.peerGuid = d.peerGuid /\ c.calls \subseteq d.calls /\ c.conn = d.conn /\ Peered(c)
  /\ \A q \in scene.on : \A x \in sent[q] :
       /\ x.type # "call"
       /\ Loud(x) => Reads(e) /\ IsCall(m, q) /\ m.kind # "ExchangeGUIDs" /\ d.peerGuid # 0

\* The answer to the call of the attempt is read, and the next call is made.
Continues(e, c, sent) == LET d == dev[e] m == Head(inbox[e]) IN
  /\ d.cb # 0 /\ c.cb = d.cb /\ c.attempts = d.attempts /\ c.peerName = d.peerName
  /\ c.peerGuid # 0 /\ c.n > d.n /\ c.conn = d.conn /\ Peered(c)
  /\ Reads(e) /\ IsAnswer(m) /\ Waiting(d, m) # {}
  /\ \E kind : /\ kind # "ExchangeGUIDs" /\ c.calls \subseteq {[id |-> c.n, kind |-> kind]}
               /\ \A q \in scene.on : \A x \in sent[q] :
                    x.type = "call" /\ x.id = c.n /\ x.kind = kind /\ q = m.from[1]

\* An attempt with p begins.
Begin(e, c, sent, p) ==
  /\ c.cb # 0 /\ c.attempts[c.cb] = p /\ c.peerName = p /\ c.peerGuid = 0
  /\ <<e, p>> \in scene.wanted /\ c.n > dev[e].n /\ c.conn = dev[e].conn
  /\ c.calls = {[id |-> c.n, kind |-> "ExchangeGUIDs"]}
  /\ \A q \in scene.on : \A x \in sent[q] :
       q = p /\ x.type = "call" /\ x.id = c.n /\ x.kind = "ExchangeGUIDs"
  /\ sent[p] # {}

\* An attempt of e stays as it is, ends, or goes on in one of the ways above.
Goes(e, c, sent) ==
  \/ c.cb = 0 /\ c.peerName = None
  \/ Keeps(e, c, sent) \/ Continues(e, c, sent) \/ \E p \in scene.on : Begin(e, c, sent, p)

\* WaitsOK, for one who has an attempt.
LEMMA WaitsFacts ==
  ASSUME NEW e, WaitsOK(e), dev[e].cb # 0
  PROVE  /\ dev[e].peerName = Wanted(e) /\ <<e, Wanted(e)>> \in scene.wanted
         /\ dev[e].peerGuid # 0 /\ PeerOf(dev[e]) # None =>
              /\ PeerOf(dev[e]) = Wanted(e)
              /\ dev[e].map[dev[e].peerGuid].serviceName = Wanted(e)
         /\ \A b, c \in dev[e].calls : b = c
         /\ \A c \in dev[e].calls : c.id \in 1..dev[e].n /\ (c.kind = "ExchangeGUIDs" <=> dev[e].peerGuid = 0)
         /\ \A c \in dev[e].calls, q \in scene.on : \A m \in Messages(inbox[q]) : IsCall(m, e) =>
              m.id <= c.id /\ (m.id = c.id => q = Wanted(e) /\ m.kind = c.kind)
         /\ \A c \in dev[e].calls : \A m \in Messages(inbox[e]) : IsAnswer(m) /\ m.id = c.id =>
              m.from[1] = Wanted(e) /\ m.kind = c.kind
BY DEF WaitsOK

\* The attempt of another device.
LEMMA WaitsOther ==
  ASSUME PeerInv, WaitsInv, NEW e \in scene.on, NEW c, NEW sent, Moves(e, c, sent),
         NEW q \in scene.on, q # e
  PROVE  WaitsOK(q)'
<1>1. q \in Device /\ dev'[q] = dev[q] /\ scene' = scene
  BY DeviceFacts DEF Moves
<1>2. WaitsOK(q) /\ WaitsOK(e)
  BY DEF WaitsInv
<1>3. Me(dev[q])[1] = q /\ Me(dev[e])[1] = e
  BY <1>1, DeviceFacts
<1>4. ASSUME NEW r \in scene.on, NEW m \in Messages(inbox'[r]), IsCall(m, q)
      PROVE  m \in Messages(inbox[r])
  <2>1. CASE m \in sent[r]
    <3>1. m.from = Me(dev[e])
      BY <2>1 DEF Moves, MaySend
    <3> QED
      BY <1>3, <1>4, <3>1 DEF IsCall
  <2> QED
    BY <2>1, OldOrSent
<1>5. ASSUME dev[q].cb # 0, NEW b \in dev[q].calls, NEW m \in Messages(inbox'[q]), IsAnswer(m), m.id = b.id
      PROVE  m.from[1] = Wanted(q) /\ m.kind = b.kind
  <2>1. CASE m \in Messages(inbox[q])
    BY <1>2, <1>5, <2>1 DEF WaitsOK
  <2>2. CASE m \in sent[q]
    <3> DEFINE l == Head(inbox[e])
    <3>1. m.from = Me(dev[e]) /\ Reads(e) /\ l.type = "call" /\ l.from = Me(dev[q]) /\ m.kind = l.kind /\ m.id = l.id
      BY <1>5, <2>2 DEF Moves, MaySend, IsAnswer
    <3>2. l \in Messages(inbox[e]) /\ IsCall(l, q)
      BY <1>3, <3>1 DEF Reads, IsCall
    <3> HIDE DEF l
    <3>3. \A x \in Messages(inbox[e]) : IsCall(x, q) /\ x.id = b.id => e = Wanted(q) /\ x.kind = b.kind
      <4>1. WaitsOK(q) /\ dev[q].cb # 0
        BY <1>2, <1>5
      <4>2. \A d \in dev[q].calls, r \in scene.on : \A x \in Messages(inbox[r]) : IsCall(x, q) =>
              x.id <= d.id /\ (x.id = d.id => r = Wanted(q) /\ x.kind = d.kind)
        BY <4>1, WaitsFacts
      <4> QED
        BY <4>2
    <3>4. e = Wanted(q) /\ l.kind = b.kind
      BY <1>5, <3>1, <3>2, <3>3
    <3> QED
      BY <1>3, <3>1, <3>4
  <2> QED
    BY <2>1, <2>2, OldOrSent
<1>6. Wanted(q)' = Wanted(q)
  BY <1>1 DEF Wanted
<1>7. ASSUME dev[q].cb # 0, NEW b \in dev[q].calls
      PROVE  \A r \in scene.on : \A m \in Messages(inbox'[r]) : IsCall(m, q) =>
               m.id <= b.id /\ (m.id = b.id => r = Wanted(q) /\ m.kind = b.kind)
  BY <1>2, <1>4, <1>7 DEF WaitsOK
<1> QED
  BY <1>1, <1>2, <1>5, <1>6, <1>7 DEF WaitsOK, PeerOf

\* The messages of the calls made so far have their numbers.
LEMMA CallNumbers ==
  ASSUME PeerInv, OrderInv, NEW e \in scene.on
  PROVE  /\ \A r \in scene.on : \A m \in Messages(inbox[r]) : IsCall(m, e) => m.id \in 1..dev[e].n
         /\ \A m \in Messages(inbox[e]) : IsAnswer(m) => m.id \in 1..dev[e].n
BY DEF OrderInv, MessageOK, IsCall

\* The attempt of the device that acts.
LEMMA WaitsOwn ==
  ASSUME PeerInv, OrderInv, WaitsInv, NEW e \in scene.on, NEW c, NEW sent, Moves(e, c, sent),
         Goes(e, c, sent)
  PROVE  WaitsOK(e)'
<1>1. /\ e \in Device /\ dev'[e] = c /\ scene' = scene /\ dev[e].n \in Nat /\ c.n \in Nat
      /\ c.n >= dev[e].n
  BY DeviceFacts DEF Moves
<1>2. WaitsOK(e)
  BY DEF WaitsInv
<1>3. /\ \A r \in scene.on : \A m \in Messages(inbox[r]) : IsCall(m, e) => m.id \in 1..dev[e].n
      /\ \A m \in Messages(inbox[e]) : IsAnswer(m) => m.id \in 1..dev[e].n
  BY CallNumbers
<1>4. /\ \A r \in scene.on : \A m \in Messages(inbox'[r]) : m \in Messages(inbox[r]) \/ m \in sent[r]
      /\ \A m \in Messages(inbox'[e]) : m \in Messages(inbox[e])
  BY OldOrSent DEF Moves
<1>5. ASSUME NEW p, c.cb # 0, c.peerName = p, c.attempts[c.cb] = p, <<e, p>> \in scene.wanted, Peered(c),
             \A a, b \in c.calls : a = b,
             NEW kind, c.n > dev[e].n, \A b \in c.calls : b.id = c.n /\ b.kind = kind,
             c.calls = {} \/ (kind = "ExchangeGUIDs" <=> c.peerGuid = 0),
             \A r \in scene.on : \A x \in sent[r] : r = p /\ x.kind = kind /\ x.id = c.n
      PROVE  WaitsOK(e)'
  <2>1. Wanted(e)' = p
    BY <1>1, <1>5 DEF Wanted
  <2>2. ASSUME NEW b \in c.calls
        PROVE  /\ b.id \in 1..c.n /\ (b.kind = "ExchangeGUIDs" <=> c.peerGuid = 0)
               /\ \A r \in scene.on : \A m \in Messages(inbox'[r]) : IsCall(m, e) =>
                    m.id <= b.id /\ (m.id = b.id => r = p /\ m.kind = b.kind)
               /\ \A m \in Messages(inbox'[e]) : IsAnswer(m) /\ m.id = b.id => m.from[1] = p /\ m.kind = b.kind
    <3>1. b.id = c.n /\ b.kind = kind
      BY <1>5
    <3>2. \A k \in 1..dev[e].n : k < c.n
      BY <1>1, <1>5
    <3>3. c.n \in 1..c.n
      BY <1>1, <1>5
    <3>4. ASSUME NEW r \in scene.on, NEW m \in Messages(inbox'[r]), IsCall(m, e)
          PROVE  m.id <= b.id /\ (m.id = b.id => r = p /\ m.kind = b.kind)
      <4>1. CASE m \in Messages(inbox[r])
        <5>1. m.id \in 1..dev[e].n
          BY <1>3, <3>4, <4>1
        <5> QED
          BY <1>1, <3>1, <3>2, <5>1
      <4>2. CASE m \in sent[r]
        BY <1>1, <1>5, <3>1, <4>2
      <4> QED
        BY <1>4, <4>1, <4>2
    <3>5. \A m \in Messages(inbox'[e]) : IsAnswer(m) => m.id # b.id
      BY <1>1, <1>3, <1>4, <3>1, <3>2
    <3> QED
      BY <1>5, <3>1, <3>3, <3>4, <3>5
  <2> QED
    BY <1>1, <1>5, <2>1, <2>2 DEF WaitsOK, Peered, PeerOf
<1>6. CASE c.cb = 0 /\ c.peerName = None
  BY <1>1, <1>6 DEF WaitsOK
<1>7. CASE Keeps(e, c, sent)
  <2>1. /\ dev[e].cb # 0 /\ c.cb = dev[e].cb /\ c.attempts = dev[e].attempts
        /\ c.peerName = dev[e].peerName
        /\ c.peerGuid = dev[e].peerGuid /\ c.calls \subseteq dev[e].calls /\ Peered(c)
        /\ \A r \in scene.on : \A x \in sent[r] : x.type # "call"
    BY <1>7 DEF Keeps
  <2>2. Wanted(e)' = Wanted(e)
    BY <1>1, <2>1 DEF Wanted
  <2>3. /\ dev[e].peerName = Wanted(e) /\ <<e, Wanted(e)>> \in scene.wanted
        /\ \A a, b \in dev[e].calls : a = b
        /\ \A b \in dev[e].calls : b.id \in 1..dev[e].n /\ (b.kind = "ExchangeGUIDs" <=> dev[e].peerGuid = 0)
    BY <1>2, <2>1, WaitsFacts
  <2>4. \A b \in dev[e].calls, q \in scene.on : \A m \in Messages(inbox[q]) : IsCall(m, e) =>
          m.id <= b.id /\ (m.id = b.id => q = Wanted(e) /\ m.kind = b.kind)
    BY <1>2, <2>1, WaitsFacts
  <2>5. \A b \in dev[e].calls : \A m \in Messages(inbox[e]) : IsAnswer(m) /\ m.id = b.id =>
              m.from[1] = Wanted(e) /\ m.kind = b.kind
    BY <1>2, <2>1, WaitsFacts
  <2>6. ASSUME NEW b \in c.calls
        PROVE  /\ b.id \in 1..c.n /\ (b.kind = "ExchangeGUIDs" <=> c.peerGuid = 0)
               /\ \A r \in scene.on : \A m \in Messages(inbox'[r]) : IsCall(m, e) =>
                    m.id <= b.id /\ (m.id = b.id => r = Wanted(e) /\ m.kind = b.kind)
               /\ \A m \in Messages(inbox'[e]) : IsAnswer(m) /\ m.id = b.id =>
                    m.from[1] = Wanted(e) /\ m.kind = b.kind
    <3>1. b \in dev[e].calls
      BY <2>1
    <3>2. b.id \in 1..c.n
      BY <1>1, <2>3, <3>1
    <3>3. \A r \in scene.on : \A m \in Messages(inbox'[r]) : IsCall(m, e) => m \in Messages(inbox[r])
      BY <1>4, <2>1 DEF IsCall
    <3> QED
      BY <1>4, <2>1, <2>3, <2>4, <2>5, <3>1, <3>2, <3>3
  <2> QED
    BY <1>1, <2>1, <2>2, <2>3, <2>6 DEF WaitsOK, Peered, PeerOf
<1>8. CASE Continues(e, c, sent)
  <2> DEFINE m == Head(inbox[e])
  <2>1. /\ dev[e].cb # 0 /\ c.cb = dev[e].cb /\ c.attempts = dev[e].attempts
        /\ c.peerName = dev[e].peerName
        /\ c.peerGuid # 0 /\ c.n > dev[e].n /\ Peered(c)
        /\ m \in Messages(inbox[e]) /\ IsAnswer(m) /\ \E b \in dev[e].calls : b.id = m.id
    BY <1>8 DEF Continues, Reads, Waiting
  <2>2. PICK kind : /\ kind # "ExchangeGUIDs" /\ c.calls \subseteq {[id |-> c.n, kind |-> kind]}
                    /\ \A q \in scene.on : \A x \in sent[q] :
                         x.type = "call" /\ x.id = c.n /\ x.kind = kind /\ q = m.from[1]
    BY <1>8 DEF Continues
  <2> HIDE DEF m
  <2>3. m.from[1] = Wanted(e) /\ c.peerName = Wanted(e) /\ <<e, Wanted(e)>> \in scene.wanted
    BY <1>2, <2>1, WaitsFacts
  <2>4. c.attempts[c.cb] = Wanted(e)
    BY <2>1 DEF Wanted
  <2>5. \A b \in c.calls : b = [id |-> c.n, kind |-> kind]
    BY <2>2
  <2>6. \A a, b \in c.calls : a = b
    BY <2>5
  <2>7. \A b \in c.calls : b.id = c.n /\ b.kind = kind
    BY <2>5
  <2>8. \A r \in scene.on : \A x \in sent[r] : r = Wanted(e) /\ x.kind = kind /\ x.id = c.n
    BY <2>2, <2>3
  <2> QED
    BY <1>5, <2>1, <2>2, <2>3, <2>4, <2>6, <2>7, <2>8
<1>9. CASE \E p \in scene.on : Begin(e, c, sent, p)
  <2>1. PICK p \in scene.on : Begin(e, c, sent, p)
    BY <1>9
  <2>2. PICK kind : kind = "ExchangeGUIDs"
    OBVIOUS
  <2>3. \A b \in c.calls : b = [id |-> c.n, kind |-> kind]
    BY <2>1, <2>2 DEF Begin
  <2>4. \A a, b \in c.calls : a = b
    BY <2>3
  <2>5. \A b \in c.calls : b.id = c.n /\ b.kind = kind
    BY <2>3
  <2>6. Peered(c)
    BY <2>1 DEF Peered, Begin
  <2> QED
    BY <1>5, <2>1, <2>2, <2>4, <2>5, <2>6 DEF Begin
<1> QED
  BY <1>6, <1>7, <1>8, <1>9 DEF Goes

\* WaitsInv is kept.
LEMMA WaitsKept ==
  ASSUME PeerInv, OrderInv, WaitsInv, NEW e \in scene.on, NEW c, NEW sent, Moves(e, c, sent),
         Goes(e, c, sent)
  PROVE  WaitsInv'
<1>1. \A q \in scene.on : WaitsOK(q)'
  BY WaitsOwn, WaitsOther
<1>2. scene' = scene
  BY DEF Moves
<1> QED
  BY <1>1, <1>2 DEF WaitsInv

-----------------------------------------------------------------------------
\* The quiet.

\* QuietOK, for one who has an attempt.
LEMMA QuietFacts ==
  ASSUME NEW e, QuietOK(e), dev[e].cb # 0
  PROVE  LET p == Wanted(e) IN
         /\ dev[e].peerGuid # 0 =>
              /\ \A m \in Messages(inbox[p]) : ~(m.from[1] = e /\ Loud(m))
              /\ \A m \in Messages(inbox[e]) : IsCall(m, p) => m.kind = "ExchangeGUIDs"
         /\ dev[e].peerGuid = 0 => \A c \in dev[e].calls :
              /\ \A m \in Messages(inbox[p]) : m.from[1] = e /\ Loud(m) =>
                   \E l \in Messages(inbox[p]) : IsCall(l, e) /\ l.id = c.id
              /\ \A m, l \in Messages(inbox[p]) :
                   m.from[1] = e /\ Loud(m) /\ IsCall(l, e) /\ l.id = c.id => ~Before(inbox[p], l, m)
              /\ \A m, l \in Messages(inbox[e]) :
                   Before(inbox[e], m, l) /\ IsAnswer(m) /\ m.id = c.id /\ IsCall(l, p) =>
                     l.kind = "ExchangeGUIDs"
BY DEF QuietOK

\* The peer that is asked for is another device.
LEMMA OtherPeer ==
  ASSUME PeerInv, WaitsInv, NEW e \in scene.on, dev[e].cb # 0
  PROVE  Wanted(e) \in scene.on /\ Wanted(e) # e
<1>1. <<e, Wanted(e)>> \in scene.wanted
  BY WaitsFacts DEF WaitsInv
<1>2. scene.wanted \subseteq scene.on \X scene.on /\ \A w \in scene.wanted : w[1] # w[2]
  BY DeviceFacts
<1> QED
  BY <1>1, <1>2

\* What another device than e sent is there before e's step.
LEMMA FromOthers ==
  ASSUME PeerInv, NEW e \in scene.on, NEW c, NEW sent, Moves(e, c, sent), NEW q \in scene.on,
         NEW m \in Messages(inbox'[q]), m.from[1] # e
  PROVE  m \in Messages(inbox[q]) /\ m \notin sent[q]
<1>1. e \in Device /\ Me(dev[e])[1] = e
  BY DeviceFacts
<1>2. m \notin sent[q]
  BY <1>1 DEF Moves, MaySend
<1> QED
  BY <1>2, OldOrSent

\* A device that is not spoken to aloud makes no other calls than the first one.
LEMMA NoNextCall ==
  ASSUME PeerInv, NEW e \in scene.on, NEW c, NEW sent, Moves(e, c, sent), NEW q \in scene.on,
         NEW x \in sent[q], x.type = "call", x.kind # "ExchangeGUIDs"
  PROVE  \E m \in Messages(inbox[e]) : m.from[1] = q /\ IsAnswer(m) /\ Loud(m)
<1>1. scene.on \subseteq Device /\ Me(dev[q])[1] = q
  BY DeviceFacts
<1>2. Reads(e) /\ IsAnswer(Head(inbox[e])) /\ Loud(Head(inbox[e])) /\ Head(inbox[e]).from = Me(dev[q])
  BY DEF Moves, MaySend, IsAnswer
<1>3. Head(inbox[e]) \in Messages(inbox[e])
  BY <1>2 DEF Reads
<1> QED
  BY <1>1, <1>2, <1>3

\* The quiet of another device.
LEMMA QuietOther ==
  ASSUME PeerInv, OrderInv, WaitsInv, QuietInv, NEW e \in scene.on, NEW c, NEW sent, Moves(e, c, sent),
         NEW q \in scene.on, q # e
  PROVE  QuietOK(q)'
<1>1. q \in Device /\ e \in Device /\ dev'[q] = dev[q] /\ Me(dev[e])[1] = e
  BY DeviceFacts DEF Moves
<1>2. Wanted(q)' = Wanted(q)
  BY <1>1 DEF Wanted
<1>3. CASE dev[q].cb = 0
  BY <1>1, <1>3 DEF QuietOK
<1>4. CASE dev[q].cb # 0
  <2> DEFINE p == Wanted(q)
  <2>1. p \in scene.on /\ p # q /\ QuietOK(q) /\ WaitsOK(q)
    BY <1>4, OtherPeer DEF QuietInv, WaitsInv
  <2>2. /\ dev[q].peerGuid # 0 =>
             /\ \A m \in Messages(inbox[p]) : ~(m.from[1] = q /\ Loud(m))
             /\ \A m \in Messages(inbox[q]) : IsCall(m, p) => m.kind = "ExchangeGUIDs"
        /\ dev[q].peerGuid = 0 => \A b \in dev[q].calls :
             /\ \A m \in Messages(inbox[p]) : m.from[1] = q /\ Loud(m) =>
                  \E l \in Messages(inbox[p]) : IsCall(l, q) /\ l.id = b.id
             /\ \A m, l \in Messages(inbox[p]) :
                  m.from[1] = q /\ Loud(m) /\ IsCall(l, q) /\ l.id = b.id => ~Before(inbox[p], l, m)
             /\ \A m, l \in Messages(inbox[q]) :
                  Before(inbox[q], m, l) /\ IsAnswer(m) /\ m.id = b.id /\ IsCall(l, p) =>
                    l.kind = "ExchangeGUIDs"
    BY <1>4, <2>1, QuietFacts
  <2> HIDE DEF p
  <2>3. \A m \in Messages(inbox'[p]) : m.from[1] = q => m \in Messages(inbox[p]) /\ m \notin sent[p]
    BY <2>1, FromOthers
  <2>4. ASSUME NEW l \in sent[q], IsCall(l, p), l.kind # "ExchangeGUIDs"
        PROVE  e = p /\ \E m \in Messages(inbox[p]) : m.from[1] = q /\ Loud(m)
    <3>1. l.from = Me(dev[e])
      BY DEF Moves, MaySend
    <3>2. e = p
      BY <1>1, <2>4, <3>1 DEF IsCall
    <3>3. \E m \in Messages(inbox[e]) : m.from[1] = q /\ IsAnswer(m) /\ Loud(m)
      BY <2>4, NoNextCall DEF IsCall
    <3> QED
      BY <3>2, <3>3
  <2>5. ASSUME dev[q].peerGuid # 0
        PROVE  /\ \A m \in Messages(inbox'[p]) : ~(m.from[1] = q /\ Loud(m))
               /\ \A m \in Messages(inbox'[q]) : IsCall(m, p) => m.kind = "ExchangeGUIDs"
    <3>1. \A m \in Messages(inbox'[q]) : m \in Messages(inbox[q]) \/ m \in sent[q]
      BY OldOrSent
    <3> QED
      BY <2>2, <2>3, <2>4, <2>5, <3>1
  <2>6. ASSUME dev[q].peerGuid = 0, NEW b \in dev[q].calls, NEW m \in Messages(inbox'[p]),
               m.from[1] = q, Loud(m)
        PROVE  /\ \E l \in Messages(inbox'[p]) : IsCall(l, q) /\ l.id = b.id
               /\ \A l \in Messages(inbox'[p]) : IsCall(l, q) /\ l.id = b.id => ~Before(inbox'[p], l, m)
    <3>1. m \in Messages(inbox[p]) /\ m \notin sent[p]
      BY <2>3, <2>6
    <3>2. PICK l \in Messages(inbox[p]) : IsCall(l, q) /\ l.id = b.id
      BY <2>2, <2>6, <3>1
    <3>3. ~Before(inbox[p], l, m)
      BY <2>2, <2>6, <3>1, <3>2
    <3>4. l \in Messages(inbox'[p])
      <4>1. CASE p # e
        BY <2>1, <4>1 DEF Moves
      <4>2. CASE p = e
        <5>1. Turns(e, c, sent)
          BY DEF Moves
        <5> QED
          BY <2>6, <3>2, <3>3, <4>2, <5>1 DEF Turns, Reads
      <4> QED
        BY <4>1, <4>2
    <3>5. ASSUME NEW k \in Messages(inbox'[p]), IsCall(k, q), k.id = b.id PROVE ~Before(inbox'[p], k, m)
      <4>1. k \in Messages(inbox[p])
        BY <2>3, <3>5 DEF IsCall
      <4>2. ~Before(inbox[p], k, m)
        BY <2>2, <2>6, <3>1, <3>5, <4>1
      <4> QED
        BY <2>1, <3>1, <4>2 DEF Moves
    <3> QED
      BY <3>2, <3>4, <3>5
  <2>7. ASSUME dev[q].peerGuid = 0, NEW b \in dev[q].calls, NEW m, NEW l,
               Before(inbox'[q], m, l), IsAnswer(m), m.id = b.id, IsCall(l, p)
        PROVE  l.kind = "ExchangeGUIDs"
    <3>1. Before(inbox[q], m, l) \/ (m \in Messages(inbox[q]) /\ l \in sent[q])
      BY <2>7 DEF Moves
    <3>2. CASE Before(inbox[q], m, l)
      <4>1. m \in Messages(inbox[q]) /\ l \in Messages(inbox[q])
        BY <3>2 DEF Before, Messages
      <4> QED
        BY <2>2, <2>7, <3>2, <4>1
    <3>3. ASSUME m \in Messages(inbox[q]), l \in sent[q], l.kind # "ExchangeGUIDs" PROVE FALSE
      <4>1. e = p /\ \E x \in Messages(inbox[p]) : x.from[1] = q /\ Loud(x)
        BY <2>4, <2>7, <3>3
      <4>2. PICK k \in Messages(inbox[p]) : IsCall(k, q) /\ k.id = b.id
        BY <2>2, <2>7, <4>1
      <4>3. m.from[1] = p
        BY <1>4, <2>1, <2>7, <3>3, WaitsFacts DEF p
      <4>4. MessageOK(q, m)
        BY <3>3 DEF OrderInv
      <4>5. m.id < k.id /\ m.id \in 1..dev[q].n
        BY <2>7, <4>2, <4>3, <4>4 DEF MessageOK
      <4> QED
        BY <2>7, <4>2, <4>5
    <3> QED
      BY <3>1, <3>2, <3>3
  <2> QED
    BY <1>1, <1>2, <1>4, <2>5, <2>6, <2>7 DEF QuietOK, p
<1> QED
  BY <1>3, <1>4

\* The quiet of the device that acts.
LEMMA QuietOwn ==
  ASSUME PeerInv, OrderInv, WaitsInv, QuietInv, NEW e \in scene.on, NEW c, NEW sent, Moves(e, c, sent),
         Goes(e, c, sent)
  PROVE  QuietOK(e)'
<1>1. /\ e \in Device /\ dev'[e] = c /\ dev[e].n \in Nat /\ c.n \in Nat /\ Me(dev[e])[1] = e
      /\ scene.wanted \subseteq scene.on \X scene.on /\ \A w \in scene.wanted : w[1] # w[2]
  BY DeviceFacts DEF Moves
<1>2. WaitsOK(e) /\ QuietOK(e)
  BY DEF WaitsInv, QuietInv
<1>3. /\ \A r \in scene.on : \A m \in Messages(inbox[r]) : IsCall(m, e) => m.id \in 1..dev[e].n
      /\ \A m \in Messages(inbox[e]) : IsAnswer(m) => m.id \in 1..dev[e].n
  BY CallNumbers
<1>4. /\ \A m \in Messages(inbox'[e]) : m \in Messages(inbox[e])
      /\ \A m, l : Before(inbox'[e], m, l) => Before(inbox[e], m, l)
  BY DEF Moves
<1>5. ASSUME NEW p \in scene.on, p # e
      PROVE  /\ Messages(inbox'[p]) = Messages(inbox[p]) \union sent[p]
             /\ \A m, l : Before(inbox'[p], m, l) =>
                  Before(inbox[p], m, l) \/ (m \in Messages(inbox[p]) /\ l \in sent[p])
  BY <1>5 DEF Moves
<1>6. CASE c.cb = 0
  BY <1>1, <1>6 DEF QuietOK
<1>7. ASSUME dev[e].cb # 0
      PROVE  LET d == dev[e] p == Wanted(e) IN
             /\ p \in scene.on /\ p # e
             /\ d.peerGuid # 0 =>
                  /\ \A m \in Messages(inbox[p]) : ~(m.from[1] = e /\ Loud(m))
                  /\ \A m \in Messages(inbox[e]) : IsCall(m, p) => m.kind = "ExchangeGUIDs"
             /\ d.peerGuid = 0 => \A b \in d.calls :
                  /\ \A m \in Messages(inbox[p]) : m.from[1] = e /\ Loud(m) =>
                       \E l \in Messages(inbox[p]) : IsCall(l, e) /\ l.id = b.id
                  /\ \A m, l \in Messages(inbox[p]) :
                       m.from[1] = e /\ Loud(m) /\ IsCall(l, e) /\ l.id = b.id => ~Before(inbox[p], l, m)
                  /\ \A m, l \in Messages(inbox[e]) :
                       Before(inbox[e], m, l) /\ IsAnswer(m) /\ m.id = b.id /\ IsCall(l, p) =>
                         l.kind = "ExchangeGUIDs"
  BY <1>2, <1>7, OtherPeer, QuietFacts
<1>8. CASE Keeps(e, c, sent)
  <2> DEFINE p == Wanted(e)
             d == dev[e]
  <2>1. /\ d.cb # 0 /\ c.cb = d.cb /\ c.attempts = d.attempts
        /\ c.peerGuid = d.peerGuid /\ c.calls \subseteq d.calls
    BY <1>8 DEF Keeps
  <2>2. Wanted(e)' = p
    BY <1>1, <2>1 DEF Wanted
  <2>3. p \in scene.on /\ p # e
    BY <1>7, <2>1
  <2>4. /\ d.peerGuid # 0 =>
             /\ \A m \in Messages(inbox[p]) : ~(m.from[1] = e /\ Loud(m))
             /\ \A m \in Messages(inbox[e]) : IsCall(m, p) => m.kind = "ExchangeGUIDs"
        /\ d.peerGuid = 0 => \A b \in d.calls :
             /\ \A m \in Messages(inbox[p]) : m.from[1] = e /\ Loud(m) =>
                  \E l \in Messages(inbox[p]) : IsCall(l, e) /\ l.id = b.id
             /\ \A m, l \in Messages(inbox[p]) :
                  m.from[1] = e /\ Loud(m) /\ IsCall(l, e) /\ l.id = b.id => ~Before(inbox[p], l, m)
             /\ \A m, l \in Messages(inbox[e]) :
                  Before(inbox[e], m, l) /\ IsAnswer(m) /\ m.id = b.id /\ IsCall(l, p) =>
                    l.kind = "ExchangeGUIDs"
    BY <1>7, <2>1
  <2>5. \A x \in sent[p] : x.type # "call" /\ ~Loud(x)
    <3> SUFFICES ASSUME NEW x \in sent[p], Loud(x) PROVE FALSE
      BY <1>8, <2>3 DEF Keeps
    <3>1. Reads(e) /\ IsCall(Head(inbox[e]), p) /\ Head(inbox[e]).kind # "ExchangeGUIDs" /\ d.peerGuid # 0
      BY <1>8, <2>3 DEF Keeps
    <3>2. Head(inbox[e]) \in Messages(inbox[e])
      BY <3>1 DEF Reads
    <3> QED
      BY <2>4, <3>1, <3>2
  <2> HIDE DEF p, d
  <2>6. /\ \A m \in Messages(inbox'[p]) : m \in Messages(inbox[p]) \/ m \in sent[p]
        /\ \A m \in Messages(inbox[p]) : m \in Messages(inbox'[p])
        /\ \A m, l : Before(inbox'[p], m, l) => Before(inbox[p], m, l) \/ l \in sent[p]
    BY <1>5, <2>3
  <2>7. c.peerGuid # 0 =>
             /\ \A m \in Messages(inbox'[p]) : ~(m.from[1] = e /\ Loud(m))
             /\ \A m \in Messages(inbox'[e]) : IsCall(m, p) => m.kind = "ExchangeGUIDs"
    BY <1>4, <2>1, <2>4, <2>5, <2>6
  <2>8. ASSUME c.peerGuid = 0, NEW b \in c.calls, NEW m \in Messages(inbox'[p]), m.from[1] = e, Loud(m)
        PROVE  /\ \E l \in Messages(inbox'[p]) : IsCall(l, e) /\ l.id = b.id
               /\ \A l \in Messages(inbox'[p]) : IsCall(l, e) /\ l.id = b.id => ~Before(inbox'[p], l, m)
    <3>1. m \in Messages(inbox[p]) /\ m \notin sent[p] /\ b \in d.calls
      BY <2>1, <2>5, <2>6, <2>8
    <3>2. \E l \in Messages(inbox[p]) : IsCall(l, e) /\ l.id = b.id
      BY <2>1, <2>4, <2>8, <3>1
    <3>3. \A l \in Messages(inbox'[p]) : IsCall(l, e) => l \in Messages(inbox[p])
      BY <2>5, <2>6 DEF IsCall
    <3>4. \A l \in Messages(inbox[p]) : IsCall(l, e) /\ l.id = b.id => ~Before(inbox[p], l, m)
      BY <2>1, <2>4, <2>8, <3>1
    <3> QED
      BY <2>6, <3>1, <3>2, <3>3, <3>4
  <2>9. ASSUME c.peerGuid = 0, NEW b \in c.calls, NEW m, NEW l,
               Before(inbox'[e], m, l), IsAnswer(m), m.id = b.id, IsCall(l, p)
        PROVE  l.kind = "ExchangeGUIDs"
    <3>1. Before(inbox[e], m, l)
      BY <1>4, <2>9
    <3>2. m \in Messages(inbox[e]) /\ l \in Messages(inbox[e])
      BY <3>1 DEF Before, Messages
    <3> QED
      BY <2>1, <2>4, <2>9, <3>1, <3>2
  <2> QED
    BY <1>1, <2>2, <2>7, <2>8, <2>9 DEF QuietOK, p
<1>9. CASE Continues(e, c, sent)
  <2> DEFINE p == Wanted(e)
             d == dev[e]
             h == Head(inbox[e])
  <2>1. /\ d.cb # 0 /\ c.cb = d.cb /\ c.attempts = d.attempts /\ c.peerGuid # 0
        /\ Reads(e) /\ IsAnswer(h) /\ h \in Messages(inbox[e]) /\ \E b \in d.calls : b.id = h.id
        /\ \A r \in scene.on : \A x \in sent[r] : x.type = "call"
    BY <1>9 DEF Continues, Reads, Waiting
  <2>2. Wanted(e)' = p
    BY <1>1, <2>1 DEF Wanted
  <2>3. p \in scene.on /\ p # e
    BY <1>7, <2>1
  <2>4. /\ d.peerGuid # 0 =>
             /\ \A m \in Messages(inbox[p]) : ~(m.from[1] = e /\ Loud(m))
             /\ \A m \in Messages(inbox[e]) : IsCall(m, p) => m.kind = "ExchangeGUIDs"
        /\ d.peerGuid = 0 => \A b \in d.calls :
             /\ \A m \in Messages(inbox[p]) : m.from[1] = e /\ Loud(m) =>
                  \E l \in Messages(inbox[p]) : IsCall(l, e) /\ l.id = b.id
             /\ \A m, l \in Messages(inbox[e]) :
                  Before(inbox[e], m, l) /\ IsAnswer(m) /\ m.id = b.id /\ IsCall(l, p) =>
                    l.kind = "ExchangeGUIDs"
    BY <1>7, <2>1
  <2>5. PICK b \in d.calls : b.id = h.id
    BY <2>1
  <2>6. h.from[1] = p
    BY <1>2, <2>1, <2>5, WaitsFacts
  <2>7. MessageOK(e, h)
    BY <2>1 DEF OrderInv
  <2> HIDE DEF p, d, h
  <2>8. \A l \in Messages(inbox[p]) : IsCall(l, e) => h.id < l.id
    BY <2>1, <2>6, <2>7 DEF MessageOK
  <2>9. h.id \in Nat
    <3>1. h.id \in 1..dev[e].n
      BY <1>3, <2>1
    <3> QED
      BY <1>1, <3>1
  <2>10. \A m \in Messages(inbox[p]) : ~(m.from[1] = e /\ Loud(m))
    <3> SUFFICES ASSUME NEW m \in Messages(inbox[p]), m.from[1] = e, Loud(m), d.peerGuid = 0 PROVE FALSE
      BY <2>4
    <3>1. PICK l \in Messages(inbox[p]) : IsCall(l, e) /\ l.id = b.id
      BY <2>4, <2>5
    <3>2. h.id < l.id
      BY <2>8, <3>1
    <3> QED
      BY <2>5, <2>9, <3>1, <3>2
  <2>11. \A m \in Messages(inbox'[p]) : ~(m.from[1] = e /\ Loud(m))
    BY <1>5, <2>1, <2>3, <2>10 DEF Loud
  <2>12. ASSUME NEW l \in Messages(inbox'[e]), IsCall(l, p) PROVE l.kind = "ExchangeGUIDs"
    <3>1. l \in Messages(inbox[e]) /\ Before(inbox[e], h, l)
      BY <1>4, <2>1 DEF Reads, h
    <3> QED
      BY <2>1, <2>4, <2>5, <2>12, <3>1
  <2> QED
    BY <1>1, <2>1, <2>2, <2>11, <2>12 DEF QuietOK, p
<1>10. CASE \E p \in scene.on : Begin(e, c, sent, p)
  <2>1. PICK p \in scene.on : Begin(e, c, sent, p)
    BY <1>10
  <2>2. Wanted(e)' = p
    BY <1>1, <2>1 DEF Wanted, Begin
  <2>3. p # e
    BY <1>1, <2>1 DEF Begin
  <2>4. /\ \A m \in Messages(inbox'[p]) : m \in Messages(inbox[p]) \/ m \in sent[p]
        /\ \A m \in sent[p] : m \in Messages(inbox'[p])
        /\ \A m, l : Before(inbox'[p], m, l) =>
             Before(inbox[p], m, l) \/ (m \in Messages(inbox[p]) /\ l \in sent[p])
    BY <1>5, <2>3
  <2>5. c.peerGuid = 0 /\ c.n > dev[e].n /\ \A b \in c.calls : b.id = c.n
    BY <2>1 DEF Begin
  <2>6. \A k \in 1..dev[e].n : k # c.n
    BY <1>1, <2>5
  <2>7. PICK x \in sent[p] : TRUE
    BY <2>1 DEF Begin
  <2>8. IsCall(x, e) /\ x.id = c.n
    <3>1. x.from = Me(dev[e])
      BY DEF Moves, MaySend
    <3> QED
      BY <1>1, <2>1, <2>7, <3>1 DEF Begin, IsCall
  <2>9. \A l \in Messages(inbox[p]) : IsCall(l, e) => l.id # c.n
    BY <1>3, <2>6
  <2>10. ASSUME NEW l, NEW m, IsCall(l, e), l.id = c.n PROVE ~Before(inbox'[p], l, m)
    <3>1. l \notin Messages(inbox[p])
      BY <2>9, <2>10
    <3>2. ~Before(inbox[p], l, m)
      BY <3>1 DEF Before, Messages
    <3> QED
      BY <2>4, <3>1, <3>2
  <2>11. \A m \in Messages(inbox'[e]) : IsAnswer(m) => m.id # c.n
    BY <1>3, <1>4, <2>6
  <2>12. \E l \in Messages(inbox'[p]) : IsCall(l, e) /\ l.id = c.n
    BY <2>4, <2>7, <2>8
  <2> QED
    BY <1>1, <2>2, <2>5, <2>10, <2>11, <2>12 DEF QuietOK
<1> QED
  BY <1>6, <1>8, <1>9, <1>10 DEF Goes

\* QuietInv is kept.
LEMMA QuietKept ==
  ASSUME PeerInv, OrderInv, WaitsInv, QuietInv, NEW e \in scene.on, NEW c, NEW sent, Moves(e, c, sent),
         Goes(e, c, sent)
  PROVE  QuietInv'
<1>1. \A q \in scene.on : QuietOK(q)'
  BY QuietOwn, QuietOther
<1>2. scene' = scene
  BY DEF Moves
<1> QED
  BY <1>1, <1>2 DEF QuietInv

-----------------------------------------------------------------------------
\* What is confirmed.

\* The keys for another name stay, whatever the message h does to the map.
LEMMA KeysStay ==
  ASSUME NEW e, NEW d, MapOK(e, d.map), d.peerName \in Device \union {None}, NEW map,
         NEW h, h.from \in UniqueName, h.from[1] # e, Mapped(d, h, map),
         NEW name \in UniqueName, LookupName(d.map, name) # 0,
         h.from = name => h.type # "lost" /\ (h.kind = "ExchangeGUIDs" \/ map = d.map)
  PROVE  LET s == LookupName(d.map, name) IN
         /\ s \in 1..NumNames
         /\ map[s].uniqueName = name /\ map[s].groupKey = d.map[s].groupKey
         /\ map[s].sessionKey = d.map[s].sessionKey /\ map[s].keyRole = d.map[s].keyRole
<1>1. PICK s : s = LookupName(d.map, name)
  OBVIOUS
<1>2. s \in 1..NumNames /\ d.map[s].uniqueName = name
  BY <1>1, FoundPeer
<1>3. \A t \in 1..NumNames : t = LookupName(d.map, h.from) => d.map[t].uniqueName = h.from
  <2> SUFFICES ASSUME NEW t \in 1..NumNames, t = LookupName(d.map, h.from)
               PROVE  d.map[t].uniqueName = h.from
    OBVIOUS
  <2>1. LookupName(d.map, h.from) # 0
    OBVIOUS
  <2> QED
    BY <2>1, FoundPeer
<1>4. CASE map = d.map
  BY <1>1, <1>2, <1>4
<1>5. CASE h.type = "lost" /\ map = AJ_GUID_DeleteNameMapping(d.map, h.from)
  <2>1. map[s] = IF s = LookupName(d.map, h.from) THEN NoMapping ELSE d.map[s]
    BY <1>2, <1>5, Deleted
  <2>2. s # LookupName(d.map, h.from)
    BY <1>2, <1>3, <1>5
  <2> QED
    BY <1>1, <1>2, <2>1, <2>2
<1>6. ASSUME NEW other \in Device \union {None},
             map = AJ_GUID_AddNameMapping(d.map, h.from[1], h.from, other), map # d.map
      PROVE  /\ map[s].uniqueName = name /\ map[s].groupKey = d.map[s].groupKey
             /\ map[s].sessionKey = d.map[s].sessionKey /\ map[s].keyRole = d.map[s].keyRole
  <2>1. SlotFor(d.map, h.from) # 0
    BY <1>6 DEF AJ_GUID_AddNameMapping
  <2>2. PICK t : t = SlotFor(d.map, h.from)
    OBVIOUS
  <2>3. /\ d.map[t].uniqueName \in {h.from, None} /\ (\A i \in 1..NumNames : i # t => map[i] = d.map[i])
        /\ map[t].uniqueName = h.from /\ map[t].sessionKey = d.map[t].sessionKey
        /\ map[t].keyRole = d.map[t].keyRole /\ map[t].groupKey = d.map[t].groupKey
    BY <1>6, <2>1, <2>2, Added
  <2>4. name # None
    BY UniqueNames
  <2> QED
    BY <1>2, <2>3, <2>4
<1>7. ASSUME NEW key, NEW role, map = AJ_SetSessionKey(d.map, h.from, key, role) \/ map = AJ_SetGroupKey(d.map, h.from, key),
             h.from # name
      PROVE  map[s] = d.map[s]
  <2>1. s # LookupName(d.map, h.from)
    BY <1>2, <1>3, <1>7
  <2> QED
    BY <1>2, <1>7, <2>1, KeysSetNames
<1>8. CASE map # d.map /\ h.type # "lost"
  <2>1. CASE h.kind = "ExchangeGUIDs"
    <3>1. PICK other : /\ other = None \/ other = d.peerName
                       /\ map = AJ_GUID_AddNameMapping(d.map, h.from[1], h.from, other)
      BY <1>8, <2>1 DEF Mapped
    <3> QED
      BY <1>1, <1>2, <1>6, <1>8, <3>1
  <2>2. CASE h.kind # "ExchangeGUIDs"
    <3>1. \E key, role : map = AJ_SetSessionKey(d.map, h.from, key, role) \/ map = AJ_SetGroupKey(d.map, h.from, key)
      BY <1>8, <2>2 DEF Mapped
    <3>2. map[s] = d.map[s]
      BY <1>7, <1>8, <2>2, <3>1
    <3> QED
      BY <1>1, <1>2, <3>2
  <2> QED
    BY <2>1, <2>2
<1> QED
  BY <1>4, <1>5, <1>8 DEF Mapped

\* ConfirmedOK, for the answer to the last call.
LEMMA ConfirmedFacts ==
  ASSUME NEW e, ConfirmedOK(e), dev[e].cb # 0, dev[e].peerGuid # 0, NEW c \in dev[e].calls,
         NEW m \in Messages(inbox[e]), m.type = "reply", m.kind = "ExchangeGroupKeys", m.id = c.id,
         m.from = Me(dev[Wanted(e)])
  PROVE  LET map == dev[Wanted(e)].map
             s == LookupName(map, Me(dev[e]))
         IN s # 0 /\ map[s].groupKey = e /\ m.seal = <<map[s].sessionKey, map[s].keyRole>>
BY DEF ConfirmedOK

\* What is confirmed to another device stays, and what is confirmed is so.
LEMMA ConfirmedOther ==
  ASSUME PeerInv, PeerInv', OrderInv, NamesInv, WaitsInv, QuietInv, ConfirmedInv, NEW e \in scene.on,
         NEW c, NEW sent, Moves(e, c, sent), NEW q \in scene.on, q # e
  PROVE  ConfirmedOK(q)'
<1>1. /\ q \in Device /\ e \in Device /\ dev'[q] = dev[q] /\ dev'[e] = c /\ scene' = scene
      /\ \A p \in Device : p # e => dev'[p] = dev[p]
  BY DeviceFacts DEF Moves
<1>2. SUFFICES ASSUME dev[q].cb # 0, dev[q].peerGuid # 0, NEW b \in dev[q].calls,
                      NEW m \in Messages(inbox'[q]), m.type = "reply", m.kind = "ExchangeGroupKeys",
                      m.id = b.id, NEW p, p = Wanted(q), m.from = Me(dev'[p])
               PROVE  LET s == LookupName(dev'[p].map, Me(dev[q])) IN
                      /\ s # 0 /\ dev'[p].map[s].groupKey = q
                      /\ m.seal = <<dev'[p].map[s].sessionKey, dev'[p].map[s].keyRole>>
  BY <1>1, ZenonT(60) DEF ConfirmedOK, Wanted
<1>3. p \in scene.on /\ p # q /\ p \in Device
  BY <1>2, OtherPeer, DeviceFacts
<1>4. ConfirmedOK(q) /\ WaitsOK(q) /\ QuietOK(q) /\ NamesOK(e)
  BY DEF ConfirmedInv, WaitsInv, QuietInv, NamesInv
<1>5. CASE p # e
  <2>1. dev'[p] = dev[p] /\ Me(dev[p])[1] = p
    BY <1>1, <1>3, <1>5, DeviceFacts
  <2>2. m \in Messages(inbox[q])
    BY <1>2, <1>5, <2>1, FromOthers
  <2> QED
    BY <1>2, <1>4, <2>1, <2>2, ConfirmedFacts
<1>6. CASE p = e
  <2>1. /\ Me(dev[e]) = <<e, dev[e].conn>> /\ dev[e].conn \in Nat /\ Me(dev[e])[2] = dev[e].conn
        /\ Me(dev[q]) = <<q, dev[q].conn>> /\ Me(dev[q])[1] = q /\ Me(dev[q])[2] = dev[q].conn
        /\ Me(dev[q]) \in UniqueName
    BY <1>1, DeviceFacts, UniqueNames
  <2>2. m.from = <<e, c.conn>> /\ m.from[1] = e /\ m.from[2] = c.conn
    BY <1>1, <1>2, <1>6 DEF Moves, Me
  <2>3. MapOK(e, dev[e].map) /\ dev[e].peerName \in Device \union {None} /\ MapOK(e, c.map) /\ OneEach(c.map)
    <3>1. MapOK(e, dev[e].map) /\ dev[e].peerName \in Device \union {None}
      BY <1>1, DeviceFacts DEF DevOK, FieldsOK
    <3>2. MapOK(e, c.map)
      BY <1>1 DEF PeerInv, DevOK, FieldsOK
    <3>3. NamesOK(e)'
      BY NamesOwn
    <3> QED
      BY <1>1, <3>1, <3>2, <3>3 DEF NamesOK, OneEach
  <2>4. CASE m \in sent[q]
    <3>1. m.from = Me(dev[e]) /\ c.conn = dev[e].conn
      BY <1>2, <2>1, <2>2, <2>4 DEF Moves, MaySend
    <3> QED
      BY <1>1, <1>2, <1>6, <2>4 DEF Moves, MaySend
  <2>5. CASE m \in Messages(inbox[q])
    <3>1. MessageOK(q, m)
      BY <2>5 DEF OrderInv
    <3>2. m.from[2] <= dev[e].conn /\ \A l \in Messages(inbox[e]) : IsCall(l, q) => m.id < l.id
      BY <1>2, <2>2, <3>1 DEF MessageOK, IsAnswer
    <3>3. c.conn = dev[e].conn /\ m.from = Me(dev[e])
      BY <2>1, <2>2, <3>2 DEF Moves, Turns
    <3>4. PICK s : s = LookupName(dev[e].map, Me(dev[q]))
      OBVIOUS
    <3>5. s # 0 /\ dev[e].map[s].groupKey = q /\ m.seal = <<dev[e].map[s].sessionKey, dev[e].map[s].keyRole>>
      <4>1. Wanted(q) = e /\ ConfirmedOK(q)
        BY <1>2, <1>4, <1>6
      <4>2. LET map == dev[Wanted(q)].map
                t == LookupName(map, Me(dev[q]))
            IN t # 0 /\ map[t].groupKey = q /\ m.seal = <<map[t].sessionKey, map[t].keyRole>>
        BY <1>2, <2>5, <3>3, <4>1, ConfirmedFacts
      <4> QED
        BY <3>4, <4>1, <4>2
    <3>6. /\ s \in 1..NumNames /\ c.map[s].uniqueName = Me(dev[q])
          /\ c.map[s].groupKey = dev[e].map[s].groupKey
          /\ c.map[s].sessionKey = dev[e].map[s].sessionKey
          /\ c.map[s].keyRole = dev[e].map[s].keyRole
      <4>1. CASE c.map = dev[e].map
        BY <2>1, <2>3, <3>4, <3>5, <4>1, FoundPeer, ZenonT(60)
      <4>2. CASE c.map # dev[e].map
        <5> DEFINE h == Head(inbox[e])
        <5>1. Reads(e) /\ Mapped(dev[e], h, c.map)
          BY <2>1, <3>3, <4>2 DEF Moves, Turns
        <5>2. h \in Messages(inbox[e])
          BY <5>1 DEF Reads
        <5> HIDE DEF h
        <5>3. h.from \in UniqueName /\ h.from[1] # e /\ MsgOK(h, e) /\ MessageOK(e, h)
          BY <1>1, <5>2, MessageFacts DEF OrderInv
        <5>4. h.from = Me(dev[q]) => h.type # "lost" /\ h.kind = "ExchangeGUIDs"
          <6> SUFFICES ASSUME h.from = Me(dev[q]) PROVE h.type # "lost" /\ h.kind = "ExchangeGUIDs"
            OBVIOUS
          <6>1. h.type # "lost"
            <7>1. dev[q].conn \in Nat /\ h.from[1] = q /\ h.from[2] = dev[q].conn
              BY <1>1, <2>1, DeviceFacts
            <7> QED
              BY <5>3, <7>1 DEF MessageOK
          <6>2. h.type # "call"
            <7> SUFFICES ASSUME h.type = "call" PROVE FALSE
              OBVIOUS
            <7>1. IsCall(h, q)
              BY <2>1 DEF IsCall
            <7>2. h.id <= b.id /\ b.id \in 1..dev[q].n
              <8>1. \A x \in dev[q].calls : x.id \in 1..dev[q].n
                BY <1>2, <1>4, WaitsFacts
              <8>2. \A x \in dev[q].calls, r \in scene.on : \A l \in Messages(inbox[r]) : IsCall(l, q) => l.id <= x.id
                BY <1>2, <1>4, WaitsFacts
              <8> QED
                BY <5>2, <7>1, <8>1, <8>2
            <7>3. b.id < h.id /\ h.id \in 1..dev[q].n
              BY <1>2, <3>2, <5>2, <7>1, CallNumbers
            <7>4. dev[q].n \in Nat
              BY <1>1, DeviceFacts
            <7> QED
              BY <7>2, <7>3, <7>4
          <6>3. h.type # "reply"
            <7>1. \A l \in Messages(inbox[e]) : ~(l.from[1] = q /\ Loud(l))
              BY <1>2, <1>4, <1>6, QuietFacts
            <7> QED
              BY <2>1, <5>2, <7>1 DEF Loud
          <6> QED
            BY <4>2, <5>1, <6>1, <6>2, <6>3 DEF Mapped
        <5> QED
          <6>1. PICK d : d = dev[e]
            OBVIOUS
          <6>2. PICK map : map = c.map
            OBVIOUS
          <6>3. PICK name : name = Me(dev[q])
            OBVIOUS
          <6>4. MapOK(e, d.map) /\ d.peerName \in Device \union {None} /\ name \in UniqueName
            BY <2>1, <2>3, <6>1, <6>3
          <6>5. s = LookupName(d.map, name) /\ LookupName(d.map, name) # 0
            BY <3>4, <3>5, <6>1, <6>3
          <6>6. Mapped(d, h, map)
            BY <5>1, <6>1, <6>2
          <6>7. h.from = name => h.type # "lost" /\ (h.kind = "ExchangeGUIDs" \/ map = d.map)
            BY <5>4, <6>3
          <6>8. h.from \in UniqueName /\ h.from[1] # e
            BY <5>3
          <6>9. /\ s \in 1..NumNames /\ map[s].uniqueName = name /\ map[s].groupKey = d.map[s].groupKey
                /\ map[s].sessionKey = d.map[s].sessionKey /\ map[s].keyRole = d.map[s].keyRole
            <7>1. LET t == LookupName(d.map, name) IN
                  /\ t \in 1..NumNames
                  /\ map[t].uniqueName = name /\ map[t].groupKey = d.map[t].groupKey
                  /\ map[t].sessionKey = d.map[t].sessionKey /\ map[t].keyRole = d.map[t].keyRole
              BY <6>4, <6>5, <6>6, <6>7, <6>8, KeysStay, SMTT(100)
            <7> QED
              BY <6>5, <7>1
          <6> QED
            BY <6>1, <6>2, <6>3, <6>9
      <4> QED
        BY <4>1, <4>2
    <3>7. LookupName(c.map, Me(dev[q])) = s
      BY <2>1, <2>3, <3>6, FoundAt
    <3> QED
      BY <1>1, <1>6, <3>5, <3>6, <3>7
  <2> QED
    BY <2>4, <2>5, OldOrSent
<1> QED
  BY <1>5, <1>6

\* What is confirmed to the device that acts stays so.
LEMMA ConfirmedOwn ==
  ASSUME PeerInv, OrderInv, WaitsInv, ConfirmedInv, NEW e \in scene.on, NEW c, NEW sent,
         Moves(e, c, sent), Goes(e, c, sent)
  PROVE  ConfirmedOK(e)'
<1>1. /\ e \in Device /\ dev'[e] = c /\ scene' = scene /\ dev[e].n \in Nat /\ c.n \in Nat
      /\ \A p \in Device : p # e => dev'[p] = dev[p]
  BY DeviceFacts DEF Moves
<1>2. Messages(inbox'[e]) \subseteq Messages(inbox[e])
  BY DEF Moves
<1>3. CASE c.cb = 0
  BY <1>1, <1>3 DEF ConfirmedOK
<1>4. CASE \E p \in scene.on : Begin(e, c, sent, p)
  BY <1>1, <1>4 DEF ConfirmedOK, Begin
<1>5. CASE Keeps(e, c, sent)
  <2>1. /\ dev[e].cb # 0 /\ c.cb = dev[e].cb /\ c.attempts = dev[e].attempts
        /\ c.peerGuid = dev[e].peerGuid /\ c.calls \subseteq dev[e].calls /\ c.conn = dev[e].conn
    BY <1>5 DEF Keeps
  <2>2. Wanted(e)' = Wanted(e) /\ Me(dev'[e]) = Me(dev[e])
    BY <1>1, <2>1, DeviceFacts DEF Wanted, Me, Moves
  <2>3. dev'[Wanted(e)] = dev[Wanted(e)]
    BY <1>1, <2>1, OtherPeer, DeviceFacts
  <2>4. ConfirmedOK(e)
    BY DEF ConfirmedInv
  <2>5. SUFFICES ASSUME c.peerGuid # 0, NEW b \in c.calls,
                        NEW m \in Messages(inbox'[e]), m.type = "reply", m.kind = "ExchangeGroupKeys",
                        m.id = b.id, m.from = Me(dev[Wanted(e)])
                 PROVE  LET s == LookupName(dev[Wanted(e)].map, Me(dev[e])) IN
                        /\ s # 0 /\ dev[Wanted(e)].map[s].groupKey = e
                        /\ m.seal = <<dev[Wanted(e)].map[s].sessionKey, dev[Wanted(e)].map[s].keyRole>>
    <3>1. dev'[Wanted(e)'] = dev[Wanted(e)]
      BY <2>2, <2>3
    <3> QED
      BY <1>1, <2>2, <3>1 DEF ConfirmedOK
  <2>6. b \in dev[e].calls /\ m \in Messages(inbox[e])
    BY <1>2, <2>1, <2>5
  <2> QED
    BY <2>1, <2>4, <2>5, <2>6, ConfirmedFacts
<1>6. CASE Continues(e, c, sent)
  <2>1. c.n > dev[e].n /\ \E kind : c.calls \subseteq {[id |-> c.n, kind |-> kind]}
    BY <1>6 DEF Continues
  <2>2. \A b \in c.calls : b.id = c.n
    BY <2>1
  <2>3. \A m \in Messages(inbox'[e]) : IsAnswer(m) => m.id \in 1..dev[e].n
    BY <1>2, CallNumbers
  <2>4. \A m \in Messages(inbox'[e]), b \in c.calls : m.type = "reply" => m.id # b.id
    BY <1>1, <2>1, <2>2, <2>3 DEF IsAnswer
  <2> QED
    BY <1>1, <2>4 DEF ConfirmedOK
<1> QED
  BY <1>3, <1>4, <1>5, <1>6 DEF Goes

\* ConfirmedInv is kept.
LEMMA ConfirmedKept ==
  ASSUME PeerInv, PeerInv', OrderInv, NamesInv, WaitsInv, QuietInv, ConfirmedInv, NEW e \in scene.on,
         NEW c, NEW sent, Moves(e, c, sent), Goes(e, c, sent)
  PROVE  ConfirmedInv'
<1>1. \A q \in scene.on : ConfirmedOK(q)'
  BY ConfirmedOwn, ConfirmedOther
<1>2. scene' = scene
  BY DEF Moves
<1> QED
  BY <1>1, <1>2 DEF ConfirmedInv

\* All of it is kept by a step that is as it should be.
LEMMA KeysKept ==
  ASSUME PeerInv, PeerInv', KeysInv, NEW e \in scene.on, NEW c, NEW sent, Moves(e, c, sent),
         Goes(e, c, sent)
  PROVE  KeysInv'
<1>1. OrderInv /\ NamesInv /\ WaitsInv /\ QuietInv /\ ConfirmedInv
  BY DEF KeysInv
<1>2. OrderInv' /\ NamesInv'
  BY <1>1, OrderKept, NamesKept
<1>3. WaitsInv' /\ QuietInv'
  BY <1>1, WaitsKept, QuietKept
<1>4. ConfirmedInv'
  BY <1>1, ConfirmedKept
<1> QED
  BY <1>2, <1>3, <1>4 DEF KeysInv

-----------------------------------------------------------------------------
\* The actions are such steps.

\* Appending to a list.
LEMMA NothingAdded ==
  ASSUME NEW s, IsList(s)
  PROVE  s \o <<>> = s /\ \A r : Append(s, r) = s \o <<r>>
<1>1. s \in Seq({s[i] : i \in 1..Len(s)})
  BY ListFacts
<1>2. s \o <<>> = s
  BY <1>1
<1>3. ASSUME NEW r PROVE Append(s, r) = s \o <<r>>
  <2>1. PICK S : S = {s[i] : i \in 1..Len(s)} \union {r}
    OBVIOUS
  <2>2. s \in Seq(S) /\ r \in S
    BY <2>1, ListFacts
  <2> HIDE DEF IsList
  <2> QED
    BY <2>2
<1> QED
  BY <1>2, <1>3

\* What a handler sends to q.
SentBy(e, h) ==
  [q \in Device |-> IF q # e /\ h.out # <<>> /\ Reaches(h.out[1], q) THEN {h.out[1]} ELSE {}]

\* What is in the queues after a device has read and sent.
LEMMA Delivered ==
  ASSUME PeerInv, NEW e \in Device, NEW h, Sends(e, h),
         h.out = <<>> \/ \E a : h.out = <<a>> /\ a.to \in UniqueName /\ a.to[1] # e
  PROVE  LET sent == SentBy(e, h) IN
         /\ sent[e] = {} /\ Messages(inbox'[e]) \subseteq Messages(inbox[e])
         /\ inbox[e] # <<>> => Reads(e)
         /\ inbox[e] = <<>> => Messages(inbox'[e]) = Messages(inbox[e])
         /\ \A q \in Device :
              /\ q # e => Messages(inbox'[q]) = Messages(inbox[q]) \union sent[q]
              /\ \A x, y : Before(inbox'[q], x, y) =>
                   Before(inbox[q], x, y) \/ (x \in Messages(inbox[q]) /\ y \in sent[q])
              /\ \A x \in sent[q] : h.out = <<x>> /\ x.to = Me(dev[q])
<1> DEFINE sent == SentBy(e, h)
<1>1. \A q \in Device : IsList(inbox[q])
  BY DEF PeerInv, InboxOK
<1>2. \A q \in Device : Me(dev[q])[1] = q /\ q \notin UniqueName
  BY DeviceFacts, UniqueNames
<1>3. /\ \A q \in Device : inbox'[q] =
           (IF q = e /\ inbox[e] # <<>> THEN Tail(inbox[e]) ELSE inbox[q])
             \o (IF h.out # <<>> /\ Reaches(h.out[1], q) THEN h.out ELSE <<>>)
      /\ \A q \in Device : sent[q] = IF q # e /\ h.out # <<>> /\ Reaches(h.out[1], q) THEN {h.out[1]} ELSE {}
  BY DEF Sends, SentBy
<1> HIDE DEF sent
<1>4. ~(h.out # <<>> /\ Reaches(h.out[1], e))
  BY <1>2, ShortLists DEF Reaches
<1>5. /\ sent[e] = {}
      /\ inbox[e] # <<>> => inbox'[e] = Tail(inbox[e])
      /\ inbox[e] = <<>> => inbox'[e] = inbox[e]
  <2>1. IsList(Tail(inbox[e])) \/ inbox[e] = <<>>
    BY <1>1, ListTail
  <2>2. \A s : IsList(s) => s \o <<>> = s
    BY NothingAdded
  <2>3. inbox'[e] = (IF inbox[e] # <<>> THEN Tail(inbox[e]) ELSE inbox[e]) \o <<>>
    BY <1>3, <1>4
  <2> QED
    BY <1>1, <1>3, <2>1, <2>2, <2>3
<1>6. /\ Messages(inbox'[e]) \subseteq Messages(inbox[e])
      /\ inbox[e] # <<>> => Reads(e)
      /\ inbox[e] = <<>> => Messages(inbox'[e]) = Messages(inbox[e])
      /\ \A x, y : Before(inbox'[e], x, y) => Before(inbox[e], x, y)
  BY <1>1, <1>5, QueueFacts DEF Reads
<1>7. ASSUME NEW q \in Device, NEW x \in sent[q] PROVE h.out = <<x>> /\ x.to = Me(dev[q])
  BY <1>2, <1>3, <1>7, ShortLists DEF Reaches
<1>8. ASSUME NEW q \in Device, q # e
      PROVE  /\ Messages(inbox'[q]) = Messages(inbox[q]) \union sent[q]
             /\ \A x, y : Before(inbox'[q], x, y) =>
                  Before(inbox[q], x, y) \/ (x \in Messages(inbox[q]) /\ y \in sent[q])
  <2>1. CASE sent[q] = {}
    <3>1. inbox'[q] = inbox[q] \o <<>>
      BY <1>3, <1>8, <2>1
    <3>2. inbox'[q] = inbox[q]
      BY <1>1, <3>1, NothingAdded
    <3> QED
      BY <2>1, <3>2
  <2>2. CASE sent[q] # {}
    <3>1. PICK x : h.out = <<x>> /\ sent[q] = {x}
      BY <1>3, <1>8, <2>2, ShortLists
    <3>2. inbox'[q] = inbox[q] \o <<x>>
      BY <1>3, <1>8, <2>2, <3>1
    <3> QED
      BY <1>1, <3>1, <3>2, QueueFacts
  <2> QED
    BY <2>1, <2>2
<1> QED
  BY <1>5, <1>6, <1>7, <1>8 DEF sent

\* What a handler makes of e, after the message m, is a move of e.
Turned(d, b, m) ==
  \/ IsAnswer(m) /\ Waiting(d, m) # {} /\ Unsealed(d, m) /\ b = Unwaited(d, m)
  \/ ~IsAnswer(m) /\ b = d

\* Taking a call from those open changes nothing else.
LEMMA TurnedFacts ==
  ASSUME NEW d, DOMAIN d = DeviceFields, NEW m, NEW b, Turned(d, b, m)
  PROVE  /\ b.map = d.map /\ b.peerName = d.peerName /\ b.peerGuid = d.peerGuid /\ b.cb = d.cb
         /\ b.answers = d.answers /\ b.attempts = d.attempts /\ b.me = d.me /\ b.conn = d.conn
         /\ b.n = d.n /\ b.calls \subseteq d.calls
         /\ IsAnswer(m) => b.calls = d.calls \ Waiting(d, m)
<1>1. CASE b = Unwaited(d, m)
  BY <1>1 DEF Unwaited, DeviceFields
<1>2. CASE b = d /\ ~IsAnswer(m)
  BY <1>2
<1> QED
  BY <1>1, <1>2 DEF Turned

\* The reply to the last call is sealed with the keys that it confirms.
LEMMA Confirms ==
  ASSUME PeerInv, OrderInv, NEW e \in scene.on, NEW m \in Messages(inbox[e]),
         NEW b, MapOK(e, b.map), NEW c, Completes(c, b, m)
  PROVE  LET s == LookupName(c.map, m.from) IN
         /\ s # 0 /\ c.map[s].groupKey = m.from[1] /\ m.seal # None
         /\ AJ_GetSessionKey(c.map, m.from) = <<c.map[s].sessionKey, c.map[s].keyRole>>
<1>1. m.kind = "ExchangeGroupKeys" /\ m.type \in {"call", "reply"} /\ Valid(b, m) /\ c.map = AJ_SetGroupKey(b.map, m.from, m.body)
  BY DEF Completes
<1>2. MessageOK(e, m)
  BY DEF OrderInv
<1>3. m.seal # None /\ m.body = m.from[1]
  BY <1>1, <1>2 DEF MessageOK
<1>4. LookupName(b.map, m.from) # 0
  BY <1>1 DEF Valid
<1>5. LookupName(c.map, m.from) = LookupName(b.map, m.from) /\ c.map[LookupName(b.map, m.from)].groupKey = m.body
  BY <1>1, <1>4, GroupKeySetNames
<1> QED
  BY <1>3, <1>4, <1>5 DEF AJ_GetSessionKey

\* What a handler sends may be sent.
LEMMA HandledSends ==
  ASSUME PeerInv, OrderInv, NEW e \in scene.on, inbox[e] # <<>>, NEW m, m = Head(inbox[e]), Reads(e),
         NEW b, Turned(dev[e], b, m), NEW h, Handled(h, b, m),
         NEW q \in scene.on, NEW x, h.out = <<x>>, x.to = Me(dev[q])
  PROVE  MaySend(e, h.d, q, x)
<1>1. /\ e \in Device /\ dev[e].me = e /\ DOMAIN dev[e] = DeviceFields /\ MapOK(e, dev[e].map)
      /\ Me(dev[q])[1] = q
  BY DeviceFacts DEF DevOK, FieldsOK
<1>2. PICK c : c = h.d
  OBVIOUS
<1>3. /\ b.map = dev[e].map /\ b.me = e /\ b.conn = dev[e].conn /\ b.n = dev[e].n
      /\ Me(b) = Me(dev[e])
  BY <1>1, TurnedFacts DEF Me
<1>4. c.conn = dev[e].conn
  BY <1>2, <1>3 DEF Handled
<1>5. \A a : h.out = <<a>> => a = x
  BY ShortLists
<1>6. m \in Messages(inbox[e])
  BY DEF Reads
<1>7. CASE SendsAnswer(h, b, m)
  <2>1. /\ m.type = "call" /\ IsAnswer(x) /\ x.kind = m.kind /\ x.id = m.id
        /\ x.from = Me(dev[e]) /\ x.to = m.from
        /\ m.kind = "ExchangeGroupKeys" =>
             /\ x.type = "reply" /\ x.body = e /\ Completes(c, b, m)
             /\ x.seal = IF m.seal = None THEN None ELSE AJ_GetSessionKey(c.map, m.from)
    BY <1>2, <1>3, <1>5, <1>7 DEF SendsAnswer
  <2>2. x.kind = "ExchangeGroupKeys" =>
             LET s == LookupName(c.map, Me(dev[q])) IN
             /\ s # 0 /\ c.map[s].groupKey = q
             /\ x.seal = <<c.map[s].sessionKey, c.map[s].keyRole>>
    <3> SUFFICES ASSUME x.kind = "ExchangeGroupKeys"
                 PROVE  LET s == LookupName(c.map, Me(dev[q])) IN
                        /\ s # 0 /\ c.map[s].groupKey = q
                        /\ x.seal = <<c.map[s].sessionKey, c.map[s].keyRole>>
      OBVIOUS
    <3>1. LET s == LookupName(c.map, m.from) IN
         /\ s # 0 /\ c.map[s].groupKey = m.from[1] /\ m.seal # None
         /\ AJ_GetSessionKey(c.map, m.from) = <<c.map[s].sessionKey, c.map[s].keyRole>>
      BY <1>1, <1>3, <1>6, <2>1, Confirms
    <3>2. m.from = Me(dev[q]) /\ m.from[1] = q
      BY <1>1, <2>1
    <3> QED
      BY <2>1, <3>1, <3>2
  <2>3. x.kind = "ExchangeGroupKeys" => x.type # "error" /\ x.seal # None /\ x.body = e
    <3>1. \A k, l : <<k, l>> # None
      BY ShortLists DEF None
    <3> QED
      BY <2>1, <2>2, <3>1
  <2>4. x.type # "lost"
    BY <2>1 DEF IsAnswer
  <2> QED
    BY <1>2, <1>4, <2>1, <2>2, <2>3, <2>4 DEF MaySend
<1>8. CASE SendsCall(h, b, m)
  <2>1. /\ IsAnswer(m) /\ Loud(m) /\ c.n > dev[e].n
        /\ x.type = "call" /\ x.id = c.n /\ x.from = Me(dev[e]) /\ x.to = m.from
        /\ x.kind = "ExchangeGroupKeys" => x.seal # None /\ x.body = e
    BY <1>2, <1>3, <1>5, <1>8 DEF SendsCall
  <2> QED
    BY <1>2, <1>4, <2>1 DEF MaySend
<1>9. h.out # <<>>
  BY ShortLists
<1> QED
  BY <1>7, <1>8, <1>9 DEF Handled

\* A handler's step is a move of its device.
LEMMA HandledMoves ==
  ASSUME PeerInv, OrderInv, NEW e \in scene.on, inbox[e] # <<>>, NEW m, m = Head(inbox[e]),
         NEW b, Turned(dev[e], b, m), NEW h, Handled(h, b, m), Sends(e, h), UNCHANGED scene
  PROVE  Moves(e, h.d, SentBy(e, h))
<1>1. /\ e \in Device /\ dev[e].me = e /\ DOMAIN dev[e] = DeviceFields /\ scene.on \subseteq Device
      /\ InboxOK(e, inbox[e])
  BY DeviceFacts DEF DevOK, FieldsOK, PeerInv
<1>2. /\ b.map = dev[e].map /\ b.peerName = dev[e].peerName /\ b.me = e /\ b.conn = dev[e].conn
      /\ b.n = dev[e].n
  BY <1>1, TurnedFacts
<1>3. m \in Messages(inbox[e])
  BY <1>1, QueueFacts DEF InboxOK
<1>4. m.from \in UniqueName /\ m.from[1] # e
  BY <1>1, <1>3, MessageFacts
<1>5. h.out = <<>> \/ \E a : h.out = <<a>> /\ a.to \in UniqueName /\ a.to[1] # e
  BY <1>4 DEF Handled, SendsAnswer, SendsCall
<1> DEFINE sent == SentBy(e, h)
<1>7. /\ sent[e] = {} /\ Messages(inbox'[e]) \subseteq Messages(inbox[e]) /\ Reads(e)
      /\ \A q \in Device :
              /\ q # e => Messages(inbox'[q]) = Messages(inbox[q]) \union sent[q]
              /\ \A x, y : Before(inbox'[q], x, y) =>
                   Before(inbox[q], x, y) \/ (x \in Messages(inbox[q]) /\ y \in sent[q])
              /\ \A x \in sent[q] : h.out = <<x>> /\ x.to = Me(dev[q])
  <2>1. /\ SentBy(e, h)[e] = {} /\ Messages(inbox'[e]) \subseteq Messages(inbox[e])
        /\ inbox[e] # <<>> => Reads(e)
    BY <1>1, <1>5, Delivered
  <2>2. \A q \in Device : q # e => Messages(inbox'[q]) = Messages(inbox[q]) \union SentBy(e, h)[q]
    BY <1>1, <1>5, Delivered
  <2>4. \A q \in Device : \A x, y : Before(inbox'[q], x, y) =>
          Before(inbox[q], x, y) \/ (x \in Messages(inbox[q]) /\ y \in SentBy(e, h)[q])
    BY <1>1, <1>5, Delivered
  <2>5. \A q \in Device : \A x \in SentBy(e, h)[q] : h.out = <<x>> /\ x.to = Me(dev[q])
    BY <1>1, <1>5, Delivered
  <2>3. inbox[e] # <<>>
    OBVIOUS
  <2> QED
    BY <2>1, <2>2, <2>3, <2>4, <2>5
<1> HIDE DEF sent
<1>8. \A q \in scene.on : \A x \in sent[q] : MaySend(e, h.d, q, x)
  BY <1>1, <1>7, HandledSends
<1>9. dev' = [dev EXCEPT ![e] = h.d] /\ h.d.me = e /\ h.d.conn = dev[e].conn /\ h.d.n \in Nat /\ h.d.n >= dev[e].n
  BY <1>2 DEF Handled, Sends
<1>10. Turns(e, h.d, sent)
  <2>1. Mapped(dev[e], m, h.d.map)
    BY <1>2 DEF Handled, Mapped
  <2>2. IsAnswer(m) => Waiting(dev[e], m) # {}
    BY DEF Turned
  <2> QED
    BY <1>7, <1>9, <2>1, <2>2 DEF Turns
<1>11. Moves(e, h.d, sent)
  BY <1>1, <1>7, <1>8, <1>9, <1>10 DEF Moves
<1> QED
  BY <1>11 DEF sent

\* The slot of a handshake stays the peer's, or becomes free.
LEMMA PeerStays ==
  ASSUME NEW e, NEW d, MapOK(e, d.map), NEW m, NEW map, Mapped(d, m, map),
         m.kind = "ExchangeGUIDs" => map = d.map \/ m.type = "lost", NEW s \in 1..NumNames
  PROVE  \/ map[s] = NoMapping
         \/ map[s].guid = d.map[s].guid /\ map[s].serviceName = d.map[s].serviceName
<1>1. CASE map = d.map
  BY <1>1
<1>2. CASE map = AJ_GUID_DeleteNameMapping(d.map, m.from)
  <2>1. map[s] = IF s = LookupName(d.map, m.from) THEN NoMapping ELSE d.map[s]
    BY <1>2, Deleted
  <2> QED
    BY <2>1
<1>3. CASE \E key, role : map = AJ_SetSessionKey(d.map, m.from, key, role) \/ map = AJ_SetGroupKey(d.map, m.from, key)
  BY <1>3, KeysSetNames
<1> QED
  BY <1>1, <1>2, <1>3 DEF Mapped

\* The peer of an attempt stays the one that was asked for.
LEMMA PeeredStays ==
  ASSUME NEW e, NEW b, MapOK(e, b.map), NEW m, NEW c, Mapped(b, m, c.map),
         m.kind = "ExchangeGUIDs" => c.map = b.map \/ m.type = "lost",
         c.peerGuid = b.peerGuid, b.peerGuid \in 0..NumNames, c.peerName = b.peerName, Peered(b)
  PROVE  Peered(c)
<1> SUFFICES ASSUME c.peerGuid # 0, PeerOf(c) # None
             PROVE  PeerOf(c) = c.peerName /\ c.map[c.peerGuid].serviceName = c.peerName
  BY DEF Peered
<1>1. PICK s : s = c.peerGuid
  OBVIOUS
<1>2. s \in 1..NumNames
  BY <1>1, NameMapAssumption
<1>3. \/ c.map[s] = NoMapping
      \/ c.map[s].guid = b.map[s].guid /\ c.map[s].serviceName = b.map[s].serviceName
  BY <1>2, PeerStays
<1>4. c.map[s] # NoMapping
  BY <1>1 DEF PeerOf, NoMapping
<1> QED
  BY <1>1, <1>3, <1>4 DEF PeerOf, Peered

\* A peer that is found is the one that was asked for.
LEMMA PeerFound ==
  ASSUME NEW e, NEW map, MapOK(e, map), NEW from \in UniqueName, from[1] # e, SlotFor(map, from) # 0,
         NEW new, new = AJ_GUID_AddNameMapping(map, from[1], from, from[1]), OneEach(new)
  PROVE  LET s == LookupName(new, from) IN
         s \in 1..NumNames /\ new[s].guid = from[1] /\ new[s].serviceName = from[1]
<1>1. from[1] \in Device \union {None}
  BY UniqueNames
<1>2. PICK s : s = SlotFor(map, from)
  OBVIOUS
<1>3. s \in 1..NumNames /\ new[s].guid = from[1] /\ new[s].uniqueName = from /\ new[s].serviceName = from[1]
  BY <1>1, <1>2, Added
<1>4. MapOK(e, new)
  BY <1>1, AddOK
<1>5. LookupName(new, from) = s
  BY <1>3, <1>4, FoundAt
<1> QED
  BY <1>3, <1>5

\* A handler takes an attempt on as it may go on.
LEMMA HandledGoes ==
  ASSUME PeerInv, OrderInv, NamesInv, WaitsInv, NEW e \in scene.on, Reads(e), NEW m, m = Head(inbox[e]),
         NEW b, Turned(dev[e], b, m), NEW h, Handled(h, b, m), NEW sent, Moves(e, h.d, sent),
         \A q \in scene.on : \A x \in sent[q] : h.out = <<x>> /\ x.to = Me(dev[q])
  PROVE  Goes(e, h.d, sent)
<1>1. /\ e \in Device /\ DOMAIN dev[e] = DeviceFields /\ MapOK(e, dev[e].map)
      /\ dev[e].peerGuid \in 0..NumNames /\ CallsOK(dev[e])
      /\ \A q \in scene.on : Me(dev[q])[1] = q
  BY DeviceFacts DEF DevOK, FieldsOK
<1>2. PICK c : c = h.d
  OBVIOUS
<1>3. PICK d : d = dev[e]
  OBVIOUS
<1>4. /\ b.map = d.map /\ b.peerName = d.peerName /\ b.peerGuid = d.peerGuid /\ b.cb = d.cb
      /\ b.answers = d.answers /\ b.attempts = d.attempts /\ b.conn = d.conn
      /\ b.n = d.n /\ b.calls \subseteq d.calls
      /\ IsAnswer(m) => b.calls = d.calls \ Waiting(d, m) /\ Waiting(d, m) # {}
  <2>1. IsAnswer(m) => Waiting(d, m) # {}
    BY <1>3 DEF Turned
  <2> QED
    BY <1>1, <1>3, <2>1, TurnedFacts
<1>5. m \in Messages(inbox[e]) /\ m.from \in UniqueName /\ m.from[1] # e /\ WaitsOK(e)
  <2>1. m \in Messages(inbox[e]) /\ WaitsOK(e)
    BY DEF Reads, WaitsInv
  <2> QED
    BY <1>1, <2>1, MessageFacts
<1>6. c.conn = d.conn /\ c.attempts = d.attempts /\ Attempts(h, b, m) /\ Mapped(b, m, c.map) /\ MapOK(e, b.map)
  BY <1>1, <1>2, <1>3, <1>4 DEF Handled
<1>7. CASE c.cb = 0
  <2>1. c.peerName = None
    BY <1>2, <1>3, <1>4, <1>5, <1>6, <1>7 DEF Attempts, WaitsOK
  <2> QED
    BY <1>2, <1>7, <2>1 DEF Goes
<1>8. CASE c.cb # 0
  <2>1. /\ d.cb # 0 /\ c.cb = d.cb /\ c.peerName = d.peerName
        /\ \/ /\ c.peerGuid = d.peerGuid /\ (m.kind = "ExchangeGUIDs" => c.map = d.map \/ m.type = "lost")
              /\ m.kind = "ExchangeGUIDs" /\ IsAnswer(m) => h.out = <<>>
           \/ /\ d.peerGuid = 0 /\ m.type = "reply" /\ m.kind = "ExchangeGUIDs"
              /\ SlotFor(d.map, m.from) # 0
              /\ c.map = AJ_GUID_AddNameMapping(d.map, m.from[1], m.from, d.peerName)
              /\ c.peerGuid = LookupName(c.map, m.from) /\ h.out # <<>>
        /\ m.type = "call" /\ (\E a : h.out = <<a>> /\ Loud(a)) =>
             Valid(b, m) /\ m.kind # "ExchangeGUIDs"
    BY <1>2, <1>4, <1>6, <1>8 DEF Attempts
  <2>2. /\ d.peerName = Wanted(e)
        /\ d.peerGuid # 0 /\ PeerOf(d) # None =>
             PeerOf(d) = Wanted(e) /\ d.map[d.peerGuid].serviceName = Wanted(e)
        /\ \A a, w \in d.calls : a = w
        /\ \A w \in d.calls : w.kind = "ExchangeGUIDs" <=> d.peerGuid = 0
    BY <1>3, <1>5, <2>1, WaitsFacts
  <2>3. IsAnswer(m) =>
          /\ b.calls = {} /\ m.from[1] = Wanted(e) /\ Waiting(d, m) # {}
          /\ m.kind = "ExchangeGUIDs" <=> d.peerGuid = 0
    <3> SUFFICES ASSUME IsAnswer(m)
                 PROVE  /\ b.calls = {} /\ m.from[1] = Wanted(e) /\ Waiting(d, m) # {}
                        /\ m.kind = "ExchangeGUIDs" <=> d.peerGuid = 0
      OBVIOUS
    <3>1. PICK w \in d.calls : w \in Waiting(d, m) /\ w.id = m.id
      BY <1>4 DEF Waiting
    <3>2. b.calls = {}
      BY <1>4, <2>2, <3>1
    <3>3. m.from[1] = Wanted(e) /\ m.kind = w.kind
      <4>1. \A y \in dev[e].calls : \A l \in Messages(inbox[e]) : IsAnswer(l) /\ l.id = y.id =>
              l.from[1] = Wanted(e) /\ l.kind = y.kind
        BY <1>3, <1>5, <2>1, WaitsFacts
      <4> QED
        BY <1>3, <1>5, <3>1, <4>1
    <3> QED
      BY <1>4, <2>2, <3>2, <3>3
  <2>4. CASE c.peerGuid = d.peerGuid /\ (m.kind = "ExchangeGUIDs" => c.map = d.map \/ m.type = "lost")
             /\ (m.kind = "ExchangeGUIDs" /\ IsAnswer(m) => h.out = <<>>)
    <3>1. Peered(c)
      <4>1. m.kind = "ExchangeGUIDs" => c.map = b.map \/ m.type = "lost"
        BY <1>4, <2>4
      <4>2. Peered(b) /\ b.peerGuid \in 0..NumNames
        BY <1>1, <1>3, <1>4, <2>2 DEF Peered, PeerOf
      <4>3. c.peerGuid = b.peerGuid /\ c.peerName = b.peerName
        BY <1>4, <2>1, <2>4
      <4>4. MapOK(e, b.map) /\ Mapped(b, m, c.map)
        BY <1>6
      <4> QED
        BY <4>1, <4>2, <4>3, <4>4, PeeredStays
    <3>2. CASE SendsCall(h, b, m)
      <4>1. PICK a : /\ h.out = <<a>> /\ a.type = "call" /\ a.kind # "ExchangeGUIDs" /\ a.id = c.n
                     /\ a.to = m.from /\ c.calls \in {b.calls, b.calls \union {[id |-> a.id, kind |-> a.kind]}}
        BY <1>2, <3>2 DEF SendsCall
      <4>2. IsAnswer(m) /\ c.n > d.n
        BY <1>2, <1>4, <3>2 DEF SendsCall
      <4>3. c.calls \subseteq {[id |-> c.n, kind |-> a.kind]}
        BY <2>3, <4>1, <4>2
      <4>4. h.out # <<>>
        BY <4>1, ShortLists
      <4>5. c.peerGuid # 0
        BY <2>3, <2>4, <4>2, <4>4
      <4>6. \A q \in scene.on : \A x \in sent[q] : x = a
        BY <4>1, ShortLists
      <4>7. \A q \in scene.on : \A x \in sent[q] :
              x.type = "call" /\ x.id = c.n /\ x.kind = a.kind /\ q = m.from[1]
        BY <1>1, <4>1, <4>6
      <4>8. Continues(e, c, sent)
        BY <1>3, <1>6, <2>1, <2>3, <3>1, <4>1, <4>2, <4>3, <4>5, <4>7 DEF Continues
      <4> QED
        BY <1>2, <4>8 DEF Goes
    <3>3. CASE ~SendsCall(h, b, m)
      <4>1. (h.out = <<>> /\ c.calls = b.calls) \/ SendsAnswer(h, b, m)
        BY <1>2, <3>3 DEF Handled
      <4>2. c.calls \subseteq d.calls
        BY <1>2, <1>4, <4>1 DEF SendsAnswer
      <4>3. ASSUME NEW q \in scene.on, NEW x \in sent[q]
            PROVE  x.type # "call" /\ (Loud(x) => Reads(e) /\ IsCall(m, q) /\ m.kind # "ExchangeGUIDs" /\ d.peerGuid # 0)
        <5>1. h.out = <<x>> /\ h.out # <<>> /\ x.to = Me(dev[q]) /\ \A a : h.out = <<a>> => a = x
          BY <4>3, ShortLists
        <5>2. m.type = "call" /\ IsAnswer(x) /\ x.to = m.from
          BY <4>1, <5>1 DEF SendsAnswer
        <5>3. x.type # "call" /\ IsCall(m, q)
          BY <1>1, <5>1, <5>2 DEF IsAnswer, IsCall
        <5>4. Loud(x) => m.kind # "ExchangeGUIDs" /\ d.peerGuid # 0
          BY <1>4, <2>1, <5>1, <5>2 DEF Valid
        <5> QED
          BY <5>3, <5>4
      <4>4. Keeps(e, c, sent)
        BY <1>3, <1>6, <2>1, <2>4, <3>1, <4>2, <4>3 DEF Keeps
      <4> QED
        BY <1>2, <4>4 DEF Goes
    <3> QED
      BY <3>2, <3>3
  <2>5. CASE /\ d.peerGuid = 0 /\ m.type = "reply" /\ m.kind = "ExchangeGUIDs"
             /\ SlotFor(d.map, m.from) # 0
             /\ c.map = AJ_GUID_AddNameMapping(d.map, m.from[1], m.from, d.peerName)
             /\ c.peerGuid = LookupName(c.map, m.from) /\ h.out # <<>>
    <3>1. IsAnswer(m) /\ m.from[1] = d.peerName /\ c.peerName = d.peerName
      BY <2>1, <2>2, <2>3, <2>5 DEF IsAnswer
    <3>2. OneEach(c.map)
      <4>1. NamesOK(e)'
        BY NamesOwn
      <4>2. dev'[e] = c
        BY <1>1, <1>2, DeviceFacts DEF Moves
      <4> QED
        BY <4>1, <4>2 DEF NamesOK, OneEach
    <3>3. c.peerGuid \in 1..NumNames /\ c.map[c.peerGuid].guid = m.from[1] /\ c.map[c.peerGuid].serviceName = m.from[1]
      <4>1. PICK from : from = m.from
        OBVIOUS
      <4>2. PICK map : map = d.map
        OBVIOUS
      <4>3. PICK new : new = c.map
        OBVIOUS
      <4>4. MapOK(e, map) /\ SlotFor(map, from) # 0
        BY <1>1, <1>3, <2>5, <4>1, <4>2
      <4>5. from \in UniqueName /\ from[1] # e
        BY <1>5, <4>1
      <4>6. new = AJ_GUID_AddNameMapping(map, from[1], from, from[1])
        BY <2>5, <3>1, <4>1, <4>2, <4>3
      <4>7. OneEach(new)
        BY <3>2, <4>3
      <4>8. LET s == LookupName(new, from) IN
            s \in 1..NumNames /\ new[s].guid = from[1] /\ new[s].serviceName = from[1]
        BY <4>4, <4>5, <4>6, <4>7, PeerFound
      <4>9. c.peerGuid = LookupName(new, from)
        BY <2>5, <4>1, <4>3
      <4> QED
        BY <4>1, <4>3, <4>8, <4>9
    <3>4. Peered(c) /\ c.peerGuid # 0
      BY <3>1, <3>3, NameMapAssumption DEF Peered, PeerOf
    <3>5. SendsCall(h, b, m)
      BY <2>5 DEF Handled, SendsAnswer
    <3>6. PICK a : /\ h.out = <<a>> /\ a.type = "call" /\ a.kind # "ExchangeGUIDs" /\ a.id = c.n
                   /\ a.to = m.from /\ c.calls \in {b.calls, b.calls \union {[id |-> a.id, kind |-> a.kind]}}
      BY <1>2, <3>5 DEF SendsCall
    <3>7. c.n > d.n
      BY <1>2, <1>4, <3>5 DEF SendsCall
    <3>8. c.calls \subseteq {[id |-> c.n, kind |-> a.kind]}
      BY <2>3, <3>1, <3>6
    <3>9. \A q \in scene.on : \A x \in sent[q] : x = a
      BY <3>6, ShortLists
    <3>10. \A q \in scene.on : \A x \in sent[q] :
              x.type = "call" /\ x.id = c.n /\ x.kind = a.kind /\ q = m.from[1]
      BY <1>1, <3>6, <3>9
    <3>11. Continues(e, c, sent)
      BY <1>3, <1>6, <2>1, <2>3, <3>1, <3>4, <3>6, <3>7, <3>8, <3>10 DEF Continues
    <3> QED
      BY <1>2, <3>11 DEF Goes
  <2> QED
    BY <2>1, <2>4, <2>5
<1> QED
  BY <1>7, <1>8

\* A step at which nothing is sent and an attempt stays as it is.
LEMMA StaysGoes ==
  ASSUME PeerInv, WaitsInv, NEW e \in scene.on, NEW c, NEW sent, \A q \in scene.on : sent[q] = {},
         c.cb = dev[e].cb, c.attempts = dev[e].attempts, c.peerName = dev[e].peerName,
         c.peerGuid = dev[e].peerGuid, c.calls \subseteq dev[e].calls, c.conn = dev[e].conn,
         c.map = dev[e].map
  PROVE  Goes(e, c, sent)
<1>1. WaitsOK(e)
  BY DEF WaitsInv
<1>2. CASE dev[e].cb = 0
  BY <1>1, <1>2 DEF WaitsOK, Goes
<1>3. CASE dev[e].cb # 0
  <2>1. /\ dev[e].peerName = Wanted(e)
        /\ dev[e].peerGuid # 0 /\ PeerOf(dev[e]) # None =>
             PeerOf(dev[e]) = Wanted(e) /\ dev[e].map[dev[e].peerGuid].serviceName = Wanted(e)
    BY <1>1, <1>3, WaitsFacts
  <2>2. Peered(c)
    BY <2>1 DEF Peered, PeerOf
  <2>3. Keeps(e, c, sent)
    BY <1>3, <2>2 DEF Keeps
  <2> QED
    BY <2>3 DEF Goes
<1> QED
  BY <1>2, <1>3

-----------------------------------------------------------------------------
\* The invariant is kept.

\* A message is read.
LEMMA ReceiveKeeps ==
  ASSUME PeerInv, PeerInv', KeysInv, NEW e \in scene.on, NEW chance, Receive(e, chance), UNCHANGED scene
  PROVE  KeysInv'
<1>1. OrderInv /\ NamesInv /\ WaitsInv
  BY DEF KeysInv
<1>2. e \in Device /\ DevOK(e, dev[e]) /\ DOMAIN dev[e] = DeviceFields /\ InboxOK(e, inbox[e]) /\ scene.on \subseteq Device
  BY DeviceFacts DEF DevOK, FieldsOK, PeerInv
<1>3. PICK m : m = Head(inbox[e])
  OBVIOUS
<1>4. PICK h : h = Handle(dev[e], m, chance)
  OBVIOUS
<1>5. inbox[e] # <<>> /\ Sends(e, h)
  BY <1>3, <1>4 DEF Receive
<1>6. m \in Messages(inbox[e]) /\ MsgOK(m, e) /\ MessageOK(e, m)
  <2>1. m \in Messages(inbox[e])
    BY <1>2, <1>3, <1>5, QueueFacts DEF InboxOK
  <2> QED
    BY <1>1, <1>2, <2>1, MessageFacts DEF OrderInv
<1>7. \/ \E b : Turned(dev[e], b, m) /\ Handled(h, b, m)
      \/ IsAnswer(m) /\ h = Does(dev[e], <<>>)
  <2>1. m.kind = "ExchangeGroupKeys" => m.type # "error"
    BY <1>6 DEF MessageOK
  <2>2. \/ IsAnswer(m) /\ Waiting(dev[e], m) # {} /\ Unsealed(dev[e], m) /\ Handled(h, Unwaited(dev[e], m), m)
        \/ IsAnswer(m) /\ h = Does(dev[e], <<>>)
        \/ ~IsAnswer(m) /\ Handled(h, dev[e], m)
    BY <1>2, <1>4, <1>6, <2>1, HandleHandled
  <2> QED
    BY <2>2 DEF Turned
<1>8. ASSUME NEW b, Turned(dev[e], b, m), Handled(h, b, m) PROVE KeysInv'
  <2>1. Moves(e, h.d, SentBy(e, h))
    BY <1>1, <1>3, <1>5, <1>8, HandledMoves
  <2>2. m.from \in UniqueName /\ m.from[1] # e
    BY <1>6 DEF MsgOK
  <2>3. h.out = <<>> \/ \E a : h.out = <<a>> /\ a.to \in UniqueName /\ a.to[1] # e
    BY <1>8, <2>2 DEF Handled, SendsAnswer, SendsCall
  <2>4. \A q \in scene.on : \A x \in SentBy(e, h)[q] : h.out = <<x>> /\ x.to = Me(dev[q])
    BY <1>2, <1>5, <2>3, Delivered
  <2>5. Reads(e)
    BY <1>2, <1>5, <2>3, Delivered
  <2>6. Goes(e, h.d, SentBy(e, h))
    BY <1>1, <1>3, <1>8, <2>1, <2>4, <2>5, HandledGoes
  <2> QED
    BY <2>1, <2>6, KeysKept
<1>9. ASSUME IsAnswer(m), h = Does(dev[e], <<>>) PROVE KeysInv'
  <2>1. h.d = dev[e] /\ h.out = <<>>
    BY <1>9 DEF Does
  <2>2. PICK sent : sent = SentBy(e, h)
    OBVIOUS
  <2>3. \A q \in Device : sent[q] = {}
    BY <2>1, <2>2 DEF SentBy
  <2>4. Reads(e) /\ Messages(inbox'[e]) \subseteq Messages(inbox[e])
    BY <1>2, <1>5, <2>1, Delivered
  <2>5. \A q \in scene.on : q # e => Messages(inbox'[q]) = Messages(inbox[q]) \union sent[q]
    <3>1. \A q \in Device : q # e => Messages(inbox'[q]) = Messages(inbox[q]) \union SentBy(e, h)[q]
      BY <1>2, <1>5, <2>1, Delivered
    <3> QED
      BY <1>2, <2>2, <3>1
  <2>6. \A q \in scene.on : \A x, y : Before(inbox'[q], x, y) => Before(inbox[q], x, y)
    <3>1. \A q \in Device : \A x, y : Before(inbox'[q], x, y) =>
            Before(inbox[q], x, y) \/ (x \in Messages(inbox[q]) /\ y \in SentBy(e, h)[q])
      BY <1>2, <1>5, <2>1, Delivered
    <3> QED
      BY <1>2, <2>2, <2>3, <3>1
  <2>7. dev' = [dev EXCEPT ![e] = h.d] /\ h.d.me = e /\ h.d.n \in Nat
    BY <1>2, <1>5, <2>1, DeviceFacts DEF Sends
  <2>8. Turns(e, h.d, sent)
    <3>1. m.type # "lost"
      BY <1>9 DEF IsAnswer
    <3>2. Mapped(dev[e], m, dev[e].map)
      BY <3>1 DEF Mapped
    <3> QED
      BY <1>3, <2>1, <2>4, <3>2 DEF Turns
  <2>9. Moves(e, h.d, sent)
    BY <1>2, <2>1, <2>2, <2>3, <2>4, <2>5, <2>6, <2>7, <2>8 DEF Moves
  <2>10. Goes(e, h.d, sent)
    BY <1>1, <1>2, <2>1, <2>3, StaysGoes
  <2> QED
    BY <2>9, <2>10, KeysKept
<1> QED
  BY <1>7, <1>8, <1>9

\* What the error of a call that timed out makes of a device.
LEMMA TimeoutStands ==
  ASSUME NEW e \in Device, NEW d, DevOK(e, d), NEW m, m.type = "error", m.kind \in Kinds,
         m.body = "Timeout", m.from = Me(d), NEW chance
  PROVE  LET h == HandleReply(d, m, chance) IN Stands(h.d, d, d.map) /\ h.out = <<>>
<1> DEFINE h == HandleReply(d, m, chance)
<1>1. DOMAIN d = DeviceFields /\ d.n \in Nat /\ MapOK(e, d.map) /\ d.me = e /\ d.conn \in Connections
  BY DEF DevOK, FieldsOK
<1>2. Over(HandshakeComplete(d, "SECURITY"), d, d.map)
  BY <1>1, SameFacts, CompletedOver
<1>3. Failed(d, m) = Does(HandshakeComplete(d, "SECURITY"), <<>>)
  BY DEF Failed, Fails
<1>4. CASE m.kind # "ExchangeGroupKeys"
  <2>1. h = Failed(d, m)
    BY <1>4 DEF HandleReply, Kinds, AJ_PeerHandleExchangeGUIDsReply, AJ_PeerHandleExchangeSuitesReply,
                AJ_PeerHandleKeyExchangeReply, AJ_PeerHandleKeyAuthenticationReply,
                AJ_PeerHandleGenSessionKeyReply
  <2> QED
    BY <1>2, <1>3, <2>1 DEF Does, Stands
<1>5. CASE m.kind = "ExchangeGroupKeys"
  <2>1. Me(d) \in UniqueName /\ Me(d)[1] = e
    BY <1>1, UniqueNames DEF Me
  <2>2. LookupName(d.map, m.from) = 0
    <3> SUFFICES ASSUME LookupName(d.map, m.from) # 0 PROVE FALSE
      OBVIOUS
    <3>1. /\ LookupName(d.map, m.from) \in 1..NumNames
          /\ d.map[LookupName(d.map, m.from)].guid = e
          /\ d.map[LookupName(d.map, m.from)].uniqueName = Me(d)
      BY <1>1, <2>1, FoundPeer
    <3> QED
      BY <1>1, <2>1, <3>1, UniqueNames DEF MapOK, MappingOK
  <2>3. ~HandshakeValid(d, m.from, chance.late)
    BY <2>2 DEF HandshakeValid, InProgress
  <2>4. h = Does(AfterTimeout(d, chance.late), <<>>)
    BY <1>5, <2>3 DEF HandleReply, AJ_PeerHandleExchangeGroupKeysReply
  <2>5. Stands(AfterTimeout(d, chance.late), d, d.map)
    BY <1>1, TimedOutStands
  <2> QED
    BY <2>4, <2>5 DEF Does
<1> QED
  BY <1>4, <1>5

\* A call has no answer in time.
LEMMA CallTimesOutKeeps ==
  ASSUME PeerInv, PeerInv', KeysInv, NEW e \in scene.on, NEW chance, CallTimesOut(e, chance),
         UNCHANGED scene
  PROVE  KeysInv'
<1>1. OrderInv /\ NamesInv /\ WaitsInv
  BY DEF KeysInv
<1>2. e \in Device /\ DevOK(e, dev[e]) /\ DOMAIN dev[e] = DeviceFields /\ scene.on \subseteq Device
  BY DeviceFacts DEF DevOK, FieldsOK
<1>3. PICK call \in dev[e].calls :
        Sends(e, HandleReply([dev[e] EXCEPT !.calls = @ \ {call}],
                             [type |-> "error", kind |-> call.kind, id |-> call.id, from |-> Me(dev[e]),
                              seal |-> None, body |-> "Timeout"], chance))
  BY DEF CallTimesOut
<1>4. PICK b : b = [dev[e] EXCEPT !.calls = @ \ {call}]
  OBVIOUS
<1>5. PICK m : m = [type |-> "error", kind |-> call.kind, id |-> call.id, from |-> Me(dev[e]),
                    seal |-> None, body |-> "Timeout"]
  OBVIOUS
<1>6. PICK h : h = HandleReply(b, m, chance)
  OBVIOUS
<1>7. inbox[e] = <<>> /\ Sends(e, h)
  BY <1>3, <1>4, <1>5, <1>6 DEF CallTimesOut
<1>8. DevOK(e, b)
  BY <1>2, <1>4, AnsweredCall
<1>9. /\ b.map = dev[e].map /\ b.peerName = dev[e].peerName /\ b.peerGuid = dev[e].peerGuid
      /\ b.cb = dev[e].cb /\ b.attempts = dev[e].attempts /\ b.me = dev[e].me
      /\ b.conn = dev[e].conn /\ b.n = dev[e].n /\ b.calls \subseteq dev[e].calls /\ Me(b) = Me(dev[e])
  BY <1>2, <1>4 DEF DeviceFields, Me
<1>10. Stands(h.d, b, b.map) /\ h.out = <<>>
  <2>1. m.type = "error" /\ m.kind \in Kinds /\ m.body = "Timeout" /\ m.from = Me(b)
    BY <1>2, <1>5, <1>9 DEF DevOK, CallsOK
  <2> QED
    BY <1>2, <1>6, <1>8, <2>1, TimeoutStands
<1>11. PICK sent : sent = SentBy(e, h)
  OBVIOUS
<1>12. \A q \in Device : sent[q] = {}
  BY <1>10, <1>11 DEF SentBy
<1>13. Messages(inbox'[e]) = Messages(inbox[e])
  BY <1>2, <1>7, <1>10, Delivered
<1>14. \A q \in scene.on : q # e => Messages(inbox'[q]) = Messages(inbox[q]) \union sent[q]
  <2>1. \A q \in Device : q # e => Messages(inbox'[q]) = Messages(inbox[q]) \union SentBy(e, h)[q]
    BY <1>2, <1>7, <1>10, Delivered
  <2> QED
    BY <1>2, <1>11, <2>1
<1>15. \A q \in scene.on : \A x, y : Before(inbox'[q], x, y) => Before(inbox[q], x, y)
  <2>1. \A q \in Device : \A x, y : Before(inbox'[q], x, y) =>
            Before(inbox[q], x, y) \/ (x \in Messages(inbox[q]) /\ y \in SentBy(e, h)[q])
    BY <1>2, <1>7, <1>10, Delivered
  <2> QED
    BY <1>2, <1>11, <1>12, <2>1
<1>16. PICK c : c = h.d
  OBVIOUS
<1>17. /\ c.map = dev[e].map /\ c.me = e /\ c.conn = dev[e].conn /\ c.n \in Nat /\ c.n >= dev[e].n
       /\ c.attempts = dev[e].attempts /\ c.calls \subseteq dev[e].calls
       /\ (c.cb = 0 /\ c.peerName = None)
          \/ (c.cb = dev[e].cb /\ c.peerName = dev[e].peerName /\ c.peerGuid = dev[e].peerGuid)
  BY <1>2, <1>9, <1>10, <1>16, DeviceFacts DEF Stands, Same, Over, Like
<1>18. dev' = [dev EXCEPT ![e] = c]
  BY <1>7, <1>16 DEF Sends
<1>19. Moves(e, c, sent)
  BY <1>2, <1>12, <1>13, <1>14, <1>15, <1>17, <1>18 DEF Moves, Turns
<1>20. Goes(e, c, sent)
  <2>1. CASE c.cb = 0 /\ c.peerName = None
    BY <2>1 DEF Goes
  <2>2. CASE c.cb = dev[e].cb /\ c.peerName = dev[e].peerName /\ c.peerGuid = dev[e].peerGuid
    BY <1>1, <1>2, <1>12, <1>17, <2>2, StaysGoes
  <2> QED
    BY <1>17, <2>1, <2>2
<1> QED
  BY <1>19, <1>20, KeysKept

\* A patient application begins an attempt, with no call of the last one open.
LEMMA AuthenticateKeeps ==
  ASSUME scene.patient, PeerInv, PeerInv', KeysInv, NEW e \in scene.on, NEW p \in scene.on, NEW chance,
         AJ_PeerAuthenticate(e, p, chance), UNCHANGED scene
  PROVE  KeysInv'
<1>1. /\ e \in Device /\ p \in Device /\ DevOK(e, dev[e]) /\ DOMAIN dev[e] = DeviceFields
      /\ scene.on \subseteq Device /\ dev[e].n \in Nat /\ dev[e].attempts \in Seq(Device) /\ dev[e].me = e
      /\ e # p /\ <<e, p>> \in scene.wanted /\ dev[e].calls = {}
  <2>1. <<e, p>> \in scene.wanted /\ dev[e].calls = {}
    BY DEF AJ_PeerAuthenticate
  <2> QED
    BY <2>1, DeviceFacts DEF DevOK, FieldsOK, AnswersOK
<1>2. PICK a : a = AfterTimeout(dev[e], chance.late)
  OBVIOUS
<1>3. PICK d : d = AJ_ClearAuthContext(a)
  OBVIOUS
<1>4. PICK b : b = [d EXCEPT !.cb = Len(d.attempts) + 1, !.peerName = p,
                             !.attempts = Append(@, p), !.answers = Append(@, <<>>)]
  OBVIOUS
<1>5. PICK s : s = Call(b, "ExchangeGUIDs", p, None, e)
  OBVIOUS
<1>6. dev' = [dev EXCEPT ![e] = s.d] /\ inbox' = [inbox EXCEPT ![p] = @ \o s.out]
  BY <1>2, <1>3, <1>4, <1>5 DEF AJ_PeerAuthenticate
<1>7. Stands(a, dev[e], dev[e].map)
  BY <1>1, <1>2, TimedOutStands
<1>8. /\ DOMAIN a = DeviceFields /\ a.map = dev[e].map /\ a.me = e /\ a.conn = dev[e].conn
      /\ a.calls = {} /\ a.attempts = dev[e].attempts /\ a.n \in Nat /\ a.n >= dev[e].n
  BY <1>1, <1>7 DEF Stands, Same, Over, Like
<1>9. /\ DOMAIN d = DeviceFields /\ d.map = dev[e].map /\ d.me = e /\ d.conn = dev[e].conn
      /\ d.calls = {} /\ d.attempts = dev[e].attempts /\ d.n = a.n /\ d.peerGuid = 0
  BY <1>3, <1>8 DEF AJ_ClearAuthContext, DeviceFields
<1>10. /\ DOMAIN b = DeviceFields /\ b.map = dev[e].map /\ b.me = e /\ b.conn = dev[e].conn
       /\ b.calls = {} /\ b.n = a.n /\ b.peerGuid = 0 /\ b.peerName = p
       /\ b.cb = Len(dev[e].attempts) + 1 /\ b.attempts = Append(dev[e].attempts, p)
  BY <1>4, <1>9 DEF DeviceFields
<1>11. PICK new : new = [id |-> b.n + 1, kind |-> "ExchangeGUIDs"]
  OBVIOUS
<1>12. PICK x : x = [type |-> "call", kind |-> "ExchangeGUIDs", id |-> b.n + 1, from |-> Me(b), to |-> p,
                     seal |-> None, body |-> e]
  OBVIOUS
<1>13. PICK c : c = s.d
  OBVIOUS
<1>14. s.out = <<x>> /\ c = [b EXCEPT !.n = b.n + 1, !.calls = {new}]
  <2>1. Cardinality({}) = 0 /\ 0 < AJ_NUM_REPLY_CONTEXTS
    BY FS_EmptySet DEF AJ_NUM_REPLY_CONTEXTS
  <2>2. s.out = <<x>> /\ s.d = [b EXCEPT !.n = @ + 1,
          !.calls = IF Cardinality(@) < AJ_NUM_REPLY_CONTEXTS THEN @ \union {new} ELSE @]
    BY <1>5, <1>11, <1>12 DEF Call, Does
  <2>3. Cardinality(b.calls) < AJ_NUM_REPLY_CONTEXTS /\ b.calls \union {new} = {new}
    BY <1>10, <2>1
  <2> QED
    BY <1>10, <1>13, <2>2, <2>3 DEF DeviceFields
<1>15. /\ c.map = dev[e].map /\ c.me = e /\ c.conn = dev[e].conn /\ c.n = a.n + 1
       /\ c.peerGuid = 0 /\ c.peerName = p /\ c.calls = {new}
       /\ c.cb = Len(dev[e].attempts) + 1 /\ c.attempts = Append(dev[e].attempts, p)
  BY <1>10, <1>14 DEF DeviceFields
<1>16. c.cb # 0 /\ c.attempts[c.cb] = p
  BY <1>1, <1>15
<1>17. c.n \in Nat /\ c.n > dev[e].n
  BY <1>1, <1>8, <1>15
<1>18. PICK sent : sent = [q \in Device |-> IF q = p THEN {x} ELSE {}]
  OBVIOUS
<1>19. \A q \in Device : IsList(inbox[q]) /\ DOMAIN inbox = Device
  BY DEF PeerInv, InboxOK
<1>20. inbox'[p] = inbox[p] \o <<x>> /\ \A q \in Device : q # p => inbox'[q] = inbox[q]
  BY <1>1, <1>6, <1>14, <1>19
<1>21. ASSUME NEW q \in scene.on
       PROVE  /\ Messages(inbox'[q]) = Messages(inbox[q]) \union sent[q]
              /\ \A y, z : Before(inbox'[q], y, z) =>
                   Before(inbox[q], y, z) \/ (y \in Messages(inbox[q]) /\ z \in sent[q])
  <2>1. CASE q = p
    <3>1. inbox'[q] = inbox[q] \o <<x>> /\ sent[q] = {x} /\ IsList(inbox[q])
      BY <1>1, <1>18, <1>19, <1>20, <2>1
    <3> QED
      BY <3>1, QueueFacts
  <2>2. CASE q # p
    BY <1>1, <1>18, <1>20, <2>2
  <2> QED
    BY <2>1, <2>2
<1>22. ASSUME NEW q \in scene.on, NEW y \in sent[q]
       PROVE  q = p /\ y.type = "call" /\ y.id = c.n /\ y.kind = "ExchangeGUIDs" /\ y.from = Me(dev[e])
  <2>1. q = p /\ y = x
    BY <1>1, <1>18, <1>22
  <2>2. Me(b) = Me(dev[e])
    BY <1>1, <1>10 DEF Me
  <2> QED
    BY <1>10, <1>12, <1>15, <2>1, <2>2
<1>23. \A q \in scene.on : \A y \in sent[q] : MaySend(e, c, q, y)
  BY <1>15, <1>17, <1>22 DEF MaySend
<1>24. sent[e] = {} /\ Messages(inbox'[e]) = Messages(inbox[e])
  BY <1>1, <1>18, <1>20
<1>25. Moves(e, c, sent)
  <2>1. Turns(e, c, sent)
    BY <1>15, <1>24 DEF Turns
  <2>2. c.n >= dev[e].n
    BY <1>1, <1>17
  <2>3. \A q \in scene.on : Messages(inbox'[q]) = Messages(inbox[q]) \union sent[q]
    BY <1>21
  <2>4. \A q \in scene.on : \A y, z : Before(inbox'[q], y, z) =>
          Before(inbox[q], y, z) \/ (y \in Messages(inbox[q]) /\ z \in sent[q])
    BY <1>21
  <2>5. Messages(inbox'[e]) \subseteq Messages(inbox[e])
    BY <1>24
  <2> QED
    BY <1>6, <1>13, <1>15, <1>17, <1>23, <1>24, <2>1, <2>2, <2>3, <2>4, <2>5 DEF Moves
<1>26. Begin(e, c, sent, p)
  <2>1. c.calls = {[id |-> c.n, kind |-> "ExchangeGUIDs"]}
    BY <1>10, <1>11, <1>15
  <2>2. sent[p] # {}
    BY <1>1, <1>18
  <2> QED
    BY <1>1, <1>15, <1>16, <1>17, <1>22, <2>1, <2>2 DEF Begin
<1> QED
  BY <1>25, <1>26, KeysKept DEF Goes

\* A device comes back under another name.
LEMMA ReconnectKeeps ==
  ASSUME PeerInv, PeerInv', KeysInv, NEW e \in scene.on, Reconnect(e), UNCHANGED scene
  PROVE  KeysInv'
<1>1. /\ e \in Device /\ DOMAIN dev[e] = DeviceFields /\ scene.on \subseteq Device
      /\ dev[e].n \in Nat /\ dev[e].conn \in Nat /\ dev[e].me = e
  BY DeviceFacts DEF DevOK, FieldsOK
<1>2. PICK d : d = dev[e]
  OBVIOUS
<1>3. PICK c : c = [AJ_ClearAuthContext(d) EXCEPT !.conn = @ + 1, !.calls = {}, !.map = NoNames]
  OBVIOUS
<1>4. PICK x : x = [type |-> "lost", kind |-> "lost", id |-> 0, from |-> Me(dev[e]), seal |-> None, body |-> None]
  OBVIOUS
<1>5. /\ dev' = [dev EXCEPT ![e] = c]
      /\ inbox' = [q \in Device |-> IF q = e \/ q \notin scene.on THEN <<>> ELSE Append(inbox[q], x)]
  BY <1>2, <1>3, <1>4 DEF Reconnect
<1>6. DOMAIN d = DeviceFields /\ d.me = e /\ d.conn = dev[e].conn /\ d.n = dev[e].n
  BY <1>1, <1>2 DEF DeviceFields
<1>7. /\ c.me = e /\ c.conn = dev[e].conn + 1 /\ c.n = dev[e].n /\ c.map = NoNames
      /\ c.cb = 0 /\ c.peerName = None
  BY <1>3, <1>6 DEF AJ_ClearAuthContext, DeviceFields
<1>8. PICK sent : sent = [q \in Device |-> IF q = e THEN {} ELSE {x}]
  OBVIOUS
<1>9. \A q \in Device : IsList(inbox[q])
  BY DEF PeerInv, InboxOK
<1>10. ASSUME NEW q \in scene.on, q # e
       PROVE  /\ Messages(inbox'[q]) = Messages(inbox[q]) \union sent[q]
              /\ \A y, z : Before(inbox'[q], y, z) =>
                   Before(inbox[q], y, z) \/ (y \in Messages(inbox[q]) /\ z \in sent[q])
  <2>1. inbox'[q] = inbox[q] \o <<x>> /\ sent[q] = {x} /\ IsList(inbox[q])
    <3>1. IsList(inbox[q]) /\ inbox'[q] = Append(inbox[q], x) /\ sent[q] = {x}
      BY <1>1, <1>5, <1>8, <1>9, <1>10
    <3> QED
      BY <3>1, NothingAdded
  <2> QED
    BY <2>1, QueueFacts
<1>11. sent[e] = {} /\ Messages(inbox'[e]) = {} /\ \A y, z : ~Before(inbox'[e], y, z)
  BY <1>1, <1>5, <1>8, EmptyQueue
<1>12. \A q \in scene.on : \A y \in sent[q] : MaySend(e, c, q, y)
  <2>1. \A q \in scene.on : \A y \in sent[q] : y = x
    BY <1>1, <1>8
  <2>2. x.type = "lost" /\ x.from = Me(dev[e])
    BY <1>4
  <2>3. MaySend(e, c, e, x) /\ \A q \in scene.on : MaySend(e, c, q, x)
    BY <1>7, <2>2 DEF MaySend
  <2> QED
    BY <2>1, <2>3
<1>13. Turns(e, c, sent)
  <2>1. \A q \in scene.on : q # e => x \in sent[q]
    BY <1>1, <1>8
  <2>2. x.type = "lost" /\ x.from = Me(dev[e])
    BY <1>4
  <2>3. \A q \in scene.on : q # e => \E l \in sent[q] : l.type = "lost" /\ l.from = Me(dev[e])
    BY <2>1, <2>2
  <2> QED
    BY <1>7, <1>11, <2>3 DEF Turns
<1>14. Moves(e, c, sent)
  <2>1. \A q \in scene.on : q # e => Messages(inbox'[q]) = Messages(inbox[q]) \union sent[q]
    BY <1>10
  <2>2. \A q \in scene.on : \A y, z : Before(inbox'[q], y, z) =>
          Before(inbox[q], y, z) \/ (y \in Messages(inbox[q]) /\ z \in sent[q])
    BY <1>10, <1>11
  <2>3. c.n \in Nat /\ c.n >= dev[e].n
    BY <1>1, <1>7
  <2> QED
    BY <1>5, <1>7, <1>11, <1>12, <1>13, <2>1, <2>2, <2>3 DEF Moves
<1>15. Goes(e, c, sent)
  BY <1>7 DEF Goes
<1> QED
  BY <1>14, <1>15, KeysKept

\* A device deletes the secret of a peer.
LEMMA ForgetKeeps ==
  ASSUME PeerInv, PeerInv', KeysInv, NEW e \in scene.on, NEW p, Forget(e, p), UNCHANGED scene
  PROVE  KeysInv'
<1>1. /\ e \in Device /\ DOMAIN dev[e] = DeviceFields /\ scene.on \subseteq Device
      /\ dev[e].n \in Nat /\ dev[e].conn \in Nat /\ dev[e].me = e /\ DOMAIN dev = Device
  BY DeviceFacts DEF DevOK, FieldsOK
<1>2. PICK c : c = [dev[e] EXCEPT !.secret[p] = {}]
  OBVIOUS
<1>3. dev' = [dev EXCEPT ![e] = c] /\ inbox' = inbox
  BY <1>2 DEF Forget
<1>4. /\ c.me = e /\ c.conn = dev[e].conn /\ c.n = dev[e].n /\ c.map = dev[e].map
      /\ c.cb = dev[e].cb /\ c.attempts = dev[e].attempts /\ c.peerName = dev[e].peerName
      /\ c.peerGuid = dev[e].peerGuid /\ c.calls = dev[e].calls
  BY <1>1, <1>2 DEF DeviceFields
<1>5. PICK sent : sent = [q \in Device |-> {}]
  OBVIOUS
<1>6. \A q \in Device : sent[q] = {}
  BY <1>5
<1>7. Moves(e, c, sent)
  BY <1>1, <1>3, <1>4, <1>6 DEF Moves, Turns
<1>8. Goes(e, c, sent)
  BY <1>1, <1>4, <1>6, StaysGoes DEF KeysInv
<1> QED
  BY <1>7, <1>8, KeysKept

\* KeysInv holds at the start.
LEMMA InitKeys ==
  ASSUME Init
  PROVE  KeysInv
<1>1. PeerInv
  BY InitOK
<1>2. PICK s \in scene.secrets : dev = [e \in Device |-> InitDevice(e, s[e])]
  BY DEF Init
<1>3. scene.on \subseteq Device
  BY <1>1, DeviceFacts
<1>4. \A e \in scene.on : Messages(inbox[e]) = {} /\ \A x, y : ~Before(inbox[e], x, y)
  BY <1>3, EmptyQueue DEF Init
<1>5. \A e \in scene.on : dev[e].cb = 0 /\ dev[e].peerName = None /\ dev[e].map = NoNames
  BY <1>2, <1>3 DEF InitDevice
<1>6. OrderInv
  BY <1>4 DEF OrderInv, InOrder
<1>7. NamesInv
  <2>1. \A e \in scene.on, i \in 1..NumNames : dev[e].map[i] = NoMapping
    BY <1>5 DEF NoNames
  <2>2. /\ NoMapping.guid = None /\ NoMapping.serviceName = None /\ NoMapping.uniqueName = None
        /\ NoMapping.keyRole \in 0..2
    BY DEF NoMapping, AJ_ROLE_KEY_UNDEFINED
  <2>3. \A e : SlotOK(e, NoMapping)
    BY <2>2 DEF SlotOK
  <2>4. \A e \in scene.on : OneEach(dev[e].map)
    BY <2>1, <2>2 DEF OneEach
  <2> QED
    BY <2>1, <2>3, <2>4 DEF NamesInv, NamesOK
<1>8. WaitsInv /\ QuietInv /\ ConfirmedInv
  BY <1>5 DEF WaitsInv, WaitsOK, QuietInv, QuietOK, ConfirmedInv, ConfirmedOK
<1> QED
  BY <1>6, <1>7, <1>8 DEF KeysInv

\* KeysInv is kept by every step.
LEMMA NextKeys ==
  ASSUME scene.patient, PeerInv, KeysInv, [Next]_vars
  PROVE  KeysInv'
<1>1. PeerInv'
  BY NextOK
<1>2. CASE Next
  <2>1. PICK e \in scene.on :
          \/ \E chance \in scene.chances :
               \/ Receive(e, chance)
               \/ CallTimesOut(e, chance)
               \/ \E p \in scene.on : AJ_PeerAuthenticate(e, p, chance)
          \/ Reconnect(e)
          \/ \E p \in scene.on : Forget(e, p)
    BY <1>2 DEF Next
  <2>2. UNCHANGED scene
    BY <1>2 DEF Next
  <2>3. CASE \E chance \in scene.chances : Receive(e, chance)
    BY <1>1, <2>2, <2>3, ReceiveKeeps
  <2>4. CASE \E chance \in scene.chances : CallTimesOut(e, chance)
    BY <1>1, <2>2, <2>4, CallTimesOutKeeps
  <2>5. CASE \E chance \in scene.chances, p \in scene.on : AJ_PeerAuthenticate(e, p, chance)
    BY <1>1, <2>2, <2>5, AuthenticateKeeps
  <2>6. CASE Reconnect(e)
    BY <1>1, <2>2, <2>6, ReconnectKeeps
  <2>7. CASE \E p \in scene.on : Forget(e, p)
    BY <1>1, <2>2, <2>7, ForgetKeeps
  <2> QED
    BY <2>1, <2>3, <2>4, <2>5, <2>6, <2>7
<1>3. CASE UNCHANGED vars
  <2>1. scene' = scene /\ dev' = dev /\ inbox' = inbox
    BY <1>3 DEF vars
  <2>2. OrderInv' /\ NamesInv'
    BY <2>1, SMTT(100) DEF KeysInv, OrderInv, NamesInv, InOrder, MessageOK, NamesOK, OneEach, SlotOK, Lost,
                Messages, Before, IsCall, IsAnswer
  <2>3. WaitsInv'
    BY <2>1 DEF KeysInv, WaitsInv, WaitsOK, Wanted, PeerOf, Messages, IsCall, IsAnswer
  <2>4. QuietInv'
    <3>1. \A e \in scene.on : QuietOK(e)
      BY DEF KeysInv, QuietInv
    <3>2. ASSUME NEW e \in scene.on PROVE QuietOK(e)'
      <4>1. QuietOK(e)
        BY <3>1
      <4> QED
        BY <2>1, <4>1 DEF QuietOK, Wanted
    <3> QED
      BY <2>1, <3>2 DEF QuietInv
  <2>5. ConfirmedInv'
    <3>1. \A e \in scene.on : ConfirmedOK(e)
      BY DEF KeysInv, ConfirmedInv
    <3>2. ASSUME NEW e \in scene.on PROVE ConfirmedOK(e)'
      <4>1. ConfirmedOK(e)
        BY <3>1
      <4> QED
        BY <2>1, <4>1 DEF ConfirmedOK, Wanted
    <3> QED
      BY <2>1, <3>2 DEF ConfirmedInv
  <2> QED
    BY <2>2, <2>3, <2>4, <2>5 DEF KeysInv
<1> QED
  BY <1>2, <1>3

-----------------------------------------------------------------------------
\* The keys agree.

\* Success is told by the status of the answer alone.
LEMMA AnsweredStatus ==
  ASSUME NEW d, AnswersOK(d), NEW answers, NEW status, d.cb # 0,
         answers = [d.answers EXCEPT ![d.cb] = Append(@, status)],
         NEW i \in DOMAIN d.answers, answers[i] # d.answers[i], answers[i] = <<"OK">>
  PROVE  i = d.cb /\ status = "OK"
<1>1. d.cb \in DOMAIN d.answers /\ d.answers[d.cb] = <<>>
  BY DEF AnswersOK
<1>2. answers[d.cb] = <<status>> /\ \A j \in DOMAIN d.answers : j # d.cb => answers[j] = d.answers[j]
  <2>1. Append(d.answers[d.cb], status) = <<status>>
    BY <1>1
  <2> QED
    BY <1>1, <2>1
<1>3. i = d.cb
  BY <1>2
<1>4. <<status>> = <<"OK">>
  BY <1>2, <1>3
<1>5. <<status>>[1] = status /\ <<"OK">>[1] = "OK"
  BY ShortLists
<1> QED
  BY <1>3, <1>4, <1>5

\* A device is found by its own name too.
LEMMA FoundByDevice ==
  ASSUME NEW e, NEW map, MapOK(e, map), OneEach(map), NEW p \in Device, NEW s \in 1..NumNames,
         map[s].guid = p, map[s].serviceName = p,
         \A t \in 1..NumNames : map[t].serviceName \in {None, map[t].guid}
  PROVE  LookupName(map, p) = s
<1>1. p # None /\ p \notin UniqueName
  BY UniqueNames
<1>2. LookupName(map, p) # 0
  BY <1>1, Found DEF Names
<1>3. PICK t : t = LookupName(map, p)
  OBVIOUS
<1>4. t \in 1..NumNames /\ Names(map[t], p)
  BY <1>2, <1>3, Found
<1>5. MappingOK(e, map[t])
  BY <1>4 DEF MapOK
<1>6. map[t].uniqueName # p
  BY <1>1, <1>5 DEF MappingOK
<1>7. map[t].guid = p
  BY <1>1, <1>4, <1>6 DEF Names
<1> QED
  BY <1>1, <1>3, <1>4, <1>7 DEF OneEach

\* What an attempt of e with p has when it succeeds.
Agreed(e, p) ==
  LET mine == dev'[e].map[LookupName(dev'[e].map, p)]
      its == dev'[p].map[LookupName(dev'[p].map, Me(dev[e]))]
  IN /\ LookupName(dev'[e].map, p) # 0
     /\ mine.guid = p /\ mine.groupKey = p
     /\ mine.uniqueName = Me(dev[p]) =>
          /\ LookupName(dev'[p].map, Me(dev[e])) # 0
          /\ its.sessionKey = mine.sessionKey /\ its.keyRole + mine.keyRole = 3
          /\ its.groupKey = e

\* An attempt that succeeds has the keys.
LEMMA SuccessAgrees ==
  ASSUME PeerInv, KeysInv, NEW e \in scene.on, NEW m \in Messages(inbox[e]), dev[e].cb # 0,
         NEW b, Turned(dev[e], b, m), NEW c, Completes(c, b, m), dev' = [dev EXCEPT ![e] = c],
         NEW p, p = Wanted(e)
  PROVE  Agreed(e, p)
<1>1. WaitsOK(e) /\ QuietOK(e) /\ ConfirmedOK(e) /\ NamesOK(e) /\ WaitsInv /\ MessageOK(e, m)
  BY DEF KeysInv, OrderInv, NamesInv, WaitsInv, QuietInv, ConfirmedInv
<1>2. p \in scene.on /\ p # e
  BY <1>1, OtherPeer
<1>3. /\ e \in Device /\ p \in Device /\ DOMAIN dev[e] = DeviceFields /\ MapOK(e, dev[e].map)
      /\ dev'[e] = c /\ dev'[p] = dev[p] /\ m.from \in UniqueName
  BY <1>2, DeviceFacts, MessageFacts DEF DevOK, FieldsOK
<1>4. PICK d : d = dev[e]
  OBVIOUS
<1>5. b.map = d.map /\ b.peerGuid = d.peerGuid
  BY <1>3, <1>4, TurnedFacts
<1>6. /\ m.kind = "ExchangeGroupKeys" /\ m.type \in {"call", "reply"}
      /\ d.peerGuid # 0 /\ d.map[d.peerGuid].guid # None /\ LookupName(d.map, m.from) = d.peerGuid
      /\ c.map = AJ_SetGroupKey(d.map, m.from, m.body)
  BY <1>5 DEF Completes, Valid, PeerOf
<1>7. PICK s : s = d.peerGuid
  OBVIOUS
<1>8. s \in 1..NumNames /\ d.map[s].guid = m.from[1] /\ d.map[s].uniqueName = m.from
  BY <1>3, <1>4, <1>6, <1>7, FoundPeer
<1>9. d.map[s].guid = p /\ d.map[s].serviceName = p /\ m.from[1] = p
  <2>1. dev[e].peerGuid # 0 /\ PeerOf(dev[e]) # None =>
          PeerOf(dev[e]) = Wanted(e) /\ dev[e].map[dev[e].peerGuid].serviceName = Wanted(e)
    BY <1>1, WaitsFacts
  <2> QED
    BY <1>4, <1>6, <1>7, <1>8, <2>1 DEF PeerOf
<1>10. m.type = "reply" /\ IsAnswer(m)
  <2>1. \A l \in Messages(inbox[e]) : IsCall(l, p) => l.kind = "ExchangeGUIDs"
    BY <1>1, <1>4, <1>6, QuietFacts
  <2> QED
    BY <1>6, <1>9, <2>1 DEF IsCall, IsAnswer
<1>11. Waiting(d, m) # {} /\ Unsealed(d, m)
  BY <1>4, <1>10 DEF Turned
<1>12. m.seal # None /\ m.body = p
  BY <1>1, <1>6, <1>9, <1>10 DEF MessageOK
<1>13. LookupName(d.map, p) = s
  <2>1. OneEach(d.map) /\ \A t \in 1..NumNames : d.map[t].serviceName \in {None, d.map[t].guid}
    BY <1>1, <1>4 DEF NamesOK, SlotOK
  <2>2. MapOK(e, d.map)
    BY <1>3, <1>4
  <2> QED
    BY <1>3, <1>8, <1>9, <2>1, <2>2, FoundByDevice
<1>14. /\ LookupName(c.map, p) = s /\ c.map[s].guid = p /\ c.map[s].groupKey = p
       /\ c.map[s].uniqueName = m.from /\ c.map[s].sessionKey = d.map[s].sessionKey
       /\ c.map[s].keyRole = d.map[s].keyRole
  <2>1. MapOK(e, d.map) /\ LookupName(d.map, m.from) = s /\ s # 0
    BY <1>3, <1>4, <1>6, <1>7
  <2> QED
    BY <1>6, <1>8, <1>9, <1>12, <1>13, <2>1, GroupKeySetNames
<1>15. s # 0
  BY <1>6, <1>7
<1>16. ASSUME m.from = Me(dev[p])
       PROVE  LET t == LookupName(dev[p].map, Me(dev[e])) IN
              /\ t # 0 /\ dev[p].map[t].groupKey = e
              /\ dev[p].map[t].sessionKey = d.map[s].sessionKey
              /\ dev[p].map[t].keyRole + d.map[s].keyRole = 3
  <2>1. PICK w \in dev[e].calls : w.id = m.id
    BY <1>4, <1>11 DEF Waiting
  <2>2. PICK t : t = LookupName(dev[p].map, Me(dev[e]))
    OBVIOUS
  <2>3. dev[e].peerGuid # 0 /\ m.from = Me(dev[Wanted(e)])
    BY <1>4, <1>6, <1>16
  <2>4. LET map == dev[Wanted(e)].map
            u == LookupName(map, Me(dev[e]))
        IN u # 0 /\ map[u].groupKey = e /\ m.seal = <<map[u].sessionKey, map[u].keyRole>>
    BY <1>1, <1>6, <1>10, <2>1, <2>3, ConfirmedFacts
  <2>5. t # 0 /\ dev[p].map[t].groupKey = e /\ m.seal = <<dev[p].map[t].sessionKey, dev[p].map[t].keyRole>>
    BY <2>2, <2>4
  <2>6. m.seal = <<d.map[s].sessionKey, 3 - d.map[s].keyRole>>
    <3>1. PICK key : key = <<d.map[s].sessionKey, d.map[s].keyRole>>
      OBVIOUS
    <3>2. AJ_GetSessionKey(d.map, m.from) = key
      BY <1>6, <1>7, <3>1 DEF AJ_GetSessionKey
    <3>3. m.seal = <<key[1], 3 - key[2]>>
      BY <1>11, <1>12, <3>2 DEF Unsealed, DecryptMessage
    <3> QED
      BY <3>1, <3>3
  <2>7. d.map[s].keyRole \in 0..2
    BY <1>1, <1>4, <1>8 DEF NamesOK, SlotOK
  <2>8. dev[p].map[t].sessionKey = d.map[s].sessionKey /\ dev[p].map[t].keyRole = 3 - d.map[s].keyRole
    BY <2>5, <2>6
  <2> QED
    BY <2>2, <2>5, <2>7, <2>8
<1> QED
  BY <1>3, <1>14, <1>15, <1>16 DEF Agreed

\* A step that answers an attempt with success is one that completes its handshake.
LEMMA AnsweredByReading ==
  ASSUME PeerInv, KeysInv, Next, NEW e \in Device, NEW i \in DOMAIN dev[e].answers, AnsweredOk(e, i)
  PROVE  /\ e \in scene.on /\ i = dev[e].cb /\ dev[e].cb # 0
         /\ \E m \in Messages(inbox[e]) : \E b, c :
              Turned(dev[e], b, m) /\ Completes(c, b, m) /\ dev' = [dev EXCEPT ![e] = c]
<1>1. dev[e].answers[i] # dev'[e].answers[i] /\ dev'[e].answers[i] = <<"OK">>
  BY DEF AnsweredOk
<1>2. /\ DevOK(e, dev[e]) /\ DOMAIN dev[e] = DeviceFields /\ AnswersOK(dev[e]) /\ scene.on \subseteq Device
      /\ DOMAIN dev = Device /\ InboxOK(e, inbox[e]) /\ dev[e].n \in Nat
  BY DeviceFacts DEF DevOK, FieldsOK, PeerInv
<1>3. PICK f \in scene.on :
        \/ \E chance \in scene.chances :
             \/ Receive(f, chance)
             \/ CallTimesOut(f, chance)
             \/ \E p \in scene.on : AJ_PeerAuthenticate(f, p, chance)
        \/ Reconnect(f)
        \/ \E p \in scene.on : Forget(f, p)
  BY DEF Next
<1>4. f = e
  <2>1. \E c : dev' = [dev EXCEPT ![f] = c]
    BY <1>3 DEF Receive, CallTimesOut, AJ_PeerAuthenticate, Reconnect, Forget, Sends
  <2> QED
    BY <1>1, <1>2, <2>1
<1>5. ASSUME NEW status, status # "OK", NEW answers, dev[e].cb # 0,
             answers = [dev[e].answers EXCEPT ![dev[e].cb] = Append(@, status)]
      PROVE  answers[i] = dev[e].answers[i] \/ answers[i] # <<"OK">>
  <2>1. PICK d : d = dev[e]
    OBVIOUS
  <2>2. d.cb # 0 /\ answers = [d.answers EXCEPT ![d.cb] = Append(@, status)]
    BY <1>5, <2>1
  <2>3. AnswersOK(d) /\ i \in DOMAIN d.answers
    BY <1>2, <2>1
  <2>4. ASSUME answers[i] # d.answers[i], answers[i] = <<"OK">> PROVE status = "OK"
    <3>1. d.cb \in DOMAIN d.answers /\ d.answers[d.cb] = <<>>
      BY <2>2, <2>3 DEF AnswersOK
    <3>2. Append(d.answers[d.cb], status) = <<status>>
      BY <3>1
    <3>3. answers = [d.answers EXCEPT ![d.cb] = <<status>>]
      BY <2>2, <3>2
    <3>4. answers[i] = <<status>>
      BY <2>3, <2>4, <3>1, <3>3
    <3>5. <<status>> = <<"OK">>
      BY <2>4, <3>4
    <3> QED
      BY <3>5
  <2> QED
    BY <1>5, <2>1, <2>4
<1>6. ASSUME NEW chance, Receive(e, chance)
      PROVE  /\ i = dev[e].cb /\ dev[e].cb # 0
             /\ \E m \in Messages(inbox[e]) : \E b, c :
                  Turned(dev[e], b, m) /\ Completes(c, b, m) /\ dev' = [dev EXCEPT ![e] = c]
  <2>1. PICK m : m = Head(inbox[e])
    OBVIOUS
  <2>2. PICK h : h = Handle(dev[e], m, chance)
    OBVIOUS
  <2>3. inbox[e] # <<>> /\ dev' = [dev EXCEPT ![e] = h.d] /\ dev'[e] = h.d
    BY <1>2, <1>6, <2>1, <2>2 DEF Receive, Sends
  <2>4. m \in Messages(inbox[e]) /\ MsgOK(m, e) /\ MessageOK(e, m)
    <3>1. m \in Messages(inbox[e])
      BY <1>2, <2>1, <2>3, QueueFacts DEF InboxOK
    <3> QED
      BY <1>3, <1>4, <3>1, MessageFacts DEF KeysInv, OrderInv
  <2>5. \/ \E b : Turned(dev[e], b, m) /\ Handled(h, b, m)
        \/ h = Does(dev[e], <<>>)
    <3>1. m.kind = "ExchangeGroupKeys" => m.type # "error"
      BY <2>4 DEF MessageOK, MsgOK
    <3>2. \/ IsAnswer(m) /\ Waiting(dev[e], m) # {} /\ Unsealed(dev[e], m) /\ Handled(h, Unwaited(dev[e], m), m)
          \/ IsAnswer(m) /\ h = Does(dev[e], <<>>)
          \/ ~IsAnswer(m) /\ Handled(h, dev[e], m)
      BY <1>2, <2>2, <2>4, <3>1, HandleHandled
    <3> QED
      BY <3>2 DEF Turned
  <2>6. h.d.answers # dev[e].answers
    BY <1>1, <2>3
  <2>7. PICK b : Turned(dev[e], b, m) /\ Handled(h, b, m)
    BY <2>5, <2>6 DEF Does
  <2>8. b.answers = dev[e].answers /\ b.cb = dev[e].cb
    BY <1>2, <2>7, TurnedFacts
  <2>9. PICK status : Answered(h.d, b, status) /\ (status = "OK" => Completes(h.d, b, m))
    BY <2>6, <2>7, <2>8 DEF Handled, Ends
  <2>10. dev[e].cb # 0 /\ h.d.answers = [dev[e].answers EXCEPT ![dev[e].cb] = Append(@, status)]
    BY <2>8, <2>9 DEF Answered
  <2>11. i = dev[e].cb /\ status = "OK"
    BY <1>1, <1>2, <2>3, <2>10, AnsweredStatus
  <2> QED
    BY <2>3, <2>4, <2>7, <2>9, <2>10, <2>11
<1>7. ASSUME NEW chance, CallTimesOut(e, chance) PROVE FALSE
  <2>1. PICK call \in dev[e].calls :
          Sends(e, HandleReply([dev[e] EXCEPT !.calls = @ \ {call}],
                               [type |-> "error", kind |-> call.kind, id |-> call.id, from |-> Me(dev[e]),
                                seal |-> None, body |-> "Timeout"], chance))
    BY <1>7 DEF CallTimesOut
  <2>2. PICK b : b = [dev[e] EXCEPT !.calls = @ \ {call}]
    OBVIOUS
  <2>3. PICK m : m = [type |-> "error", kind |-> call.kind, id |-> call.id, from |-> Me(dev[e]),
                      seal |-> None, body |-> "Timeout"]
    OBVIOUS
  <2>4. PICK h : h = HandleReply(b, m, chance)
    OBVIOUS
  <2>5. dev'[e] = h.d
    BY <1>2, <2>1, <2>2, <2>3, <2>4 DEF Sends
  <2>6. DevOK(e, b)
    BY <1>2, <2>2, AnsweredCall
  <2>7. b.answers = dev[e].answers /\ b.cb = dev[e].cb /\ Me(b) = Me(dev[e])
    BY <1>2, <2>2 DEF DeviceFields, Me
  <2>8. Stands(h.d, b, b.map)
    <3>1. m.type = "error" /\ m.kind \in Kinds /\ m.body = "Timeout" /\ m.from = Me(b)
      BY <1>2, <2>3, <2>7 DEF DevOK, CallsOK
    <3> QED
      BY <2>4, <2>6, <3>1, TimeoutStands
  <2>9. h.d.answers # dev[e].answers
    BY <1>1, <2>5
  <2>10. PICK status : status # "OK" /\ Answered(h.d, b, status)
    BY <2>7, <2>8, <2>9 DEF Stands, Same, Over
  <2>11. PICK answers : answers = h.d.answers
    OBVIOUS
  <2>12. dev[e].cb # 0 /\ answers = [dev[e].answers EXCEPT ![dev[e].cb] = Append(@, status)]
    BY <2>7, <2>10, <2>11 DEF Answered
  <2>13. answers[i] = dev[e].answers[i] \/ answers[i] # <<"OK">>
    BY <1>5, <2>10, <2>12
  <2> QED
    BY <1>1, <2>5, <2>11, <2>13
<1>8. ASSUME NEW chance, NEW p, AJ_PeerAuthenticate(e, p, chance) PROVE FALSE
  <2>1. PICK a : a = AfterTimeout(dev[e], chance.late)
    OBVIOUS
  <2>2. PICK d : d = AJ_ClearAuthContext(a)
    OBVIOUS
  <2>3. PICK b : b = [d EXCEPT !.cb = Len(d.attempts) + 1, !.peerName = p,
                               !.attempts = Append(@, p), !.answers = Append(@, <<>>)]
    OBVIOUS
  <2>4. dev'[e] = Call(b, "ExchangeGUIDs", p, None, e).d
    BY <1>2, <1>8, <2>1, <2>2, <2>3 DEF AJ_PeerAuthenticate
  <2>5. DevOK(e, a)
    BY <1>2, <2>1, TimeoutOK
  <2>6. Stands(a, dev[e], dev[e].map) /\ DOMAIN a = DeviceFields /\ AnswersOK(a)
    BY <1>2, <2>1, <2>5, TimedOutStands DEF DevOK, FieldsOK
  <2>7. DOMAIN d = DeviceFields /\ d.answers = a.answers
    BY <2>2, <2>6 DEF AJ_ClearAuthContext, DeviceFields
  <2>8. DOMAIN b = DeviceFields /\ b.answers = Append(a.answers, <<>>)
    BY <2>3, <2>7 DEF DeviceFields
  <2>9. dev'[e].answers = Append(a.answers, <<>>)
    BY <2>4, <2>8 DEF Call, Does, DeviceFields
  <2>10. a.answers = dev[e].answers \/ \E status : status # "OK" /\ Answered(a, dev[e], status)
    BY <2>6 DEF Stands, Same, Over
  <2>11. DOMAIN a.answers = DOMAIN dev[e].answers
    BY <2>10 DEF Answered
  <2>12. Append(a.answers, <<>>)[i] = a.answers[i]
    <3>1. a.answers \in Seq(Seq(Status)) /\ i \in DOMAIN a.answers
      BY <2>6, <2>11 DEF AnswersOK
    <3> QED
      BY <3>1
  <2>13. a.answers[i] # dev[e].answers[i] /\ a.answers[i] = <<"OK">>
    BY <1>1, <2>9, <2>12
  <2> QED
    BY <1>5, <2>10, <2>13 DEF Answered
<1>9. ~Reconnect(e)
  <2> SUFFICES ASSUME Reconnect(e) PROVE FALSE
    OBVIOUS
  <2>1. dev'[e] = [AJ_ClearAuthContext(dev[e]) EXCEPT !.conn = @ + 1, !.calls = {}, !.map = NoNames]
    BY <1>2 DEF Reconnect
  <2>2. dev'[e].answers = dev[e].answers
    BY <1>2, <2>1 DEF AJ_ClearAuthContext, DeviceFields
  <2> QED
    BY <1>1, <2>2
<1>10. ASSUME NEW p, Forget(e, p) PROVE FALSE
  <2>1. dev'[e] = [dev[e] EXCEPT !.secret[p] = {}]
    BY <1>2, <1>10 DEF Forget
  <2>2. dev'[e].answers = dev[e].answers
    BY <1>2, <2>1 DEF DeviceFields
  <2> QED
    BY <1>1, <2>2
<1> QED
  BY <1>3, <1>4, <1>6, <1>7, <1>8, <1>9, <1>10

\* When the callback of AJ_PeerAuthenticate reports success, the name that was given has the session
\* key of that peer, the peer, if it still has that connection, has the same key for this device
\* in the other role, and each has the other's group key: whatever both devices started, repeated,
\* lost or timed out before, if an application waits for the calls of an attempt before the next.
THEOREM KeysAlwaysAgree == Spec => KeysAgree
<1>1. Init => KeysInv
  BY InitKeys
<1>2. /\ PeerInv /\ (scene.patient => KeysInv) /\ [Next]_vars
        => (scene.patient => KeysInv)'
  <2>1. [Next]_vars => scene' = scene
    BY DEF Next, vars
  <2> QED
    BY <2>1, NextKeys
<1>3. ASSUME PeerInv, KeysInv, Next, NEW e \in Device, NEW i \in DOMAIN dev[e].answers, AnsweredOk(e, i)
      PROVE  Agreed(e, dev[e].attempts[i])
  <2>1. e \in scene.on /\ i = dev[e].cb /\ dev[e].cb # 0
    BY <1>3, AnsweredByReading
  <2>2. PICK m \in Messages(inbox[e]) : \E b, c :
          Turned(dev[e], b, m) /\ Completes(c, b, m) /\ dev' = [dev EXCEPT ![e] = c]
    BY <1>3, AnsweredByReading
  <2>3. PICK b, c : Turned(dev[e], b, m) /\ Completes(c, b, m) /\ dev' = [dev EXCEPT ![e] = c]
    BY <2>2
  <2>4. PICK p : p = Wanted(e)
    OBVIOUS
  <2>5. p = dev[e].attempts[i]
    BY <2>1, <2>4 DEF Wanted
  <2>6. Agreed(e, p)
    BY <1>3, <2>1, <2>3, <2>4, SuccessAgrees
  <2> QED
    BY <2>5, <2>6
<1>4. PeerInv /\ (scene.patient => KeysInv) /\ [Next]_vars =>
        [scene.patient => \A e \in Device : \A i \in DOMAIN dev[e].answers :
           AnsweredOk(e, i) => Agreed(e, dev[e].attempts[i])]_vars
  BY <1>3
<1> QED
  BY <1>1, <1>2, <1>4, PeerAlways, PTL DEF Spec, KeysAgree, Agreed
=============================================================================
