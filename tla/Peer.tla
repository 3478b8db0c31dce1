-------------------------------- MODULE Peer --------------------------------
(***************************************************************************)
(* Peer authentication, src/aj_peer.c, on the messages of                  *)
(* AJ_BusHandleBusMessage: devices that authenticate each other over a     *)
(* router that keeps the order of what it delivers to a device, with calls *)
(* that time out, connections that are lost and secrets that are forgotten.*)
(*                                                                         *)
(* A handler is an operator from the state of a device and a message to    *)
(* the new state and the messages sent.  An attempt is a call of           *)
(* AJ_PeerAuthenticate; its answers are the statuses its callback got.     *)
(***************************************************************************)
EXTENDS KeyAuth, FiniteSets

CONSTANTS
  CallsTimeOut,    \* whether calls may time out
  Scenes           \* what may be the case, chosen once:
                   \*   on           the devices that are there
                   \*   wanted       the pairs <<e, p>> where e's application authenticates p
                   \*   attempts     how many a device makes
                   \*   patient      whether an application waits for the calls of an attempt before the next
                   \*   connections  how many a device has, one after the other
                   \*   forgetful    whether stored secrets may go
                   \*   chances      [late, full]: AJ_MAX_AUTH_TIME is over; the secret cannot be stored
                   \*   secrets      the secrets they may have stored at the start: a set of functions

AJ_NUM_REPLY_CONTEXTS == 2

\* Unique names, which the router gives, are not well-known names, and neither is empty.
Connections == UNION {1..s.connections : s \in Scenes}
UniqueName == Device \X Connections

\* Two devices that have a suite in common, the same pre-shared key if it is that of a key, and
\* of which the first approves the other's certificates if it is that of certificates.
Offers(e, suite) == suite \in {Suites[e][i] : i \in 1..Len(Suites[e])}
Approves(e, p) == Len(Chain[p]) <= 2 /\ \E i \in 1..Len(Chain[p]) : Chain[p][i] \in Trusted[e]
Friends(e, p) ==
  \E suite \in {PSK, ECDSA, NULL} :
    /\ Offers(e, suite) /\ Offers(p, suite)
    /\ suite = PSK => Psk[e] = Psk[p]
    /\ suite = ECDSA => Approves(e, p)

\* A secret of an earlier session was made by the two from a key of each.
Earlier(secret, e, p) ==
  /\ e # p /\ Friends(e, p)
  /\ \E k, l \in secret : secret = {k, l} /\ k[1] = e /\ l[1] = p

ASSUME PeerAssumption ==
  /\ CallsTimeOut \in BOOLEAN
  /\ None \notin Device /\ Device \intersect UniqueName = {}
  /\ \A s \in Scenes :
       /\ s.on \subseteq Device /\ s.wanted \subseteq s.on \X s.on
       /\ \A w \in s.wanted : w[1] # w[2]
       /\ s.attempts \in Nat /\ s.connections \in Nat \ {0} /\ {s.patient, s.forgetful} \subseteq BOOLEAN
       /\ s.chances \subseteq [late : BOOLEAN, full : BOOLEAN] /\ s.chances # {}
       /\ \A f \in s.secrets : \A e, p \in Device : f[e][p] = {} \/ Earlier(f[e][p], e, p)
       /\ \A f \in s.secrets : DOMAIN f = Device /\ \A e \in Device : DOMAIN f[e] = Device

VARIABLES
  scene,   \* the scene
  dev,     \* dev[e]: the state of device e
  inbox    \* inbox[e]: the messages the router has for e

vars == <<scene, dev, inbox>>

(***************************************************************************)
(* The state of a device: authContext (cb, the number of the attempt or 0, *)
(* peerName, peerGuid as the slot of the map), handshakeContext, the keys  *)
(* of the exchange and the nonce, the map, the stored secrets, the calls   *)
(* awaiting a reply, and what the attempts were and were answered.         *)
(***************************************************************************)
InitDevice(e, secrets) ==
  [cb |-> 0, peerName |-> None, peerGuid |-> 0,
   state |-> "NONE", suite |-> NoSuite, suites |-> {}, mastersecret |-> {}, hash |-> <<>>,
   me |-> e, conn |-> 1, n |-> 0, key |-> None, nonce |-> None, map |-> NoNames,
   secret |-> secrets, calls |-> {}, attempts |-> <<>>, answers |-> <<>>]

Me(d) == <<d.me, d.conn>>
PeerOf(d) == d.map[d.peerGuid].guid

\* Mutant: the handshake's state is left as it is.
AJ_ClearAuthContext_Auth(d) == [d EXCEPT !.cb = 0, !.peerName = None, !.peerGuid = 0]

AJ_ClearAuthContext(d) ==
  [d EXCEPT !.cb = 0, !.peerName = None, !.peerGuid = 0, !.state = "NONE", !.suite = NoSuite,
            !.suites = {}, !.mastersecret = {}, !.hash = <<>>]

\* Mutant: the context is not cleared.
HandshakeComplete_Kept(d, status) ==
  IF d.cb = 0 THEN d ELSE [d EXCEPT !.answers[d.cb] = Append(@, status)]

\* An application's callback does not itself begin an attempt: the clearing after it would forget
\* that attempt.
HandshakeComplete(d, status) ==
  AJ_ClearAuthContext(
    IF d.cb = 0 THEN d ELSE [d EXCEPT !.answers[d.cb] = Append(@, status)])

\* HandshakeTimeout: the peer's mapping has been deleted, or the time is over.
TimedOut(d, late) == late \/ PeerOf(d) = None

InProgress(d, late) == d.peerGuid # 0 /\ ~TimedOut(d, late)

\* The state HandshakeTimeout leaves when it is called with a peer set.
AfterTimeout(d, late) ==
  IF d.peerGuid # 0 /\ TimedOut(d, late) THEN HandshakeComplete(d, "TIMEOUT") ELSE d

\* Mutant: the peer's name is not looked at.
HandshakeValid_AnyPeer(d, from, late) == InProgress(d, late)

\* HandshakeValid is OK; otherwise it leaves AfterTimeout.
HandshakeValid(d, from, late) ==
  InProgress(d, late) /\ LookupName(d.map, from) = d.peerGuid

(***************************************************************************)
(* What a handler does.                                                    *)
(***************************************************************************)
Does(d, out) == [d |-> d, out |-> out]

\* A reply or an error to the call m, sealed when the call was.
Answer(d, m, type, body) ==
  Does(d, <<[type |-> type, kind |-> m.kind, id |-> m.id, from |-> Me(d), to |-> m.from,
             seal |-> IF m.seal = None THEN None ELSE AJ_GetSessionKey(d.map, m.from),
             body |-> body]>>)

Error(d, m, error) == Answer(d, m, "error", error)

\* AJ_MarshalMethodCall and AJ_DeliverMsg.  Without a free reply context the call is sent all
\* the same, and its reply will not be known.
Call(d, kind, to, seal, body) ==
  Does([d EXCEPT !.n = @ + 1,
                 !.calls = IF Cardinality(@) < AJ_NUM_REPLY_CONTEXTS
                           THEN @ \union {[id |-> d.n + 1, kind |-> kind]} ELSE @],
       <<[type |-> "call", kind |-> kind, id |-> d.n + 1, from |-> Me(d), to |-> to,
          seal |-> seal, body |-> body]>>)

Fails(d, status) == Does(HandshakeComplete(d, status), <<>>)

\* HandshakeComplete(AJ_ERR_SECURITY) and the answer a failed call gets.
Refuses(d, m) == Error(HandshakeComplete(d, "SECURITY"), m, "SecurityViolation")

\* An error in reply to a call: that the peer is busy ends nothing.
Failed(d, m) == IF m.body = "Resources" THEN Does(d, <<>>) ELSE Fails(d, "SECURITY")

(***************************************************************************)
(* Session keys.                                                           *)
(***************************************************************************)
GenSessionKey(d, to) ==
  LET nonce == <<d.me, d.n + 1>> IN
  IF d.state # "SUCCESS" THEN Fails(d, "SECURITY")
  ELSE Call([d EXCEPT !.nonce = nonce, !.n = @ + 1], "GenSessionKey", to, None,
            [guid |-> d.me, peer |-> PeerOf(d), nonce |-> nonce])

\* KeyGen: the session key, which the verifier stands for too.
KeyGen(d, nonce1, nonce2) == <<"session key", d.mastersecret, nonce1, nonce2>>

AJ_PeerHandleGenSessionKey(d, m, chance) ==
  LET nonce == <<d.me, d.n + 1>>
      key   == KeyGen(d, m.body.nonce, nonce)
  IN IF ~HandshakeValid(d, m.from, chance.late) THEN Error(AfterTimeout(d, chance.late), m, "Resources")
     ELSE IF d.state # "SUCCESS" THEN Error(d, m, "Rejected")
     ELSE IF m.body.peer # d.me THEN Refuses(d, m)
     ELSE Answer([d EXCEPT !.nonce = nonce, !.n = @ + 1,
                           !.map = AJ_SetSessionKey(@, m.from, key, AJ_ROLE_KEY_RESPONDER)],
                 m, "reply", [nonce |-> nonce, verifier |-> key])

(***************************************************************************)
(* The suites, the key exchange and the key authentication.                *)
(***************************************************************************)
Common(d, suites) == {Suites[d.me][i] : i \in 1..Len(Suites[d.me])} \intersect suites

ExchangeSuites(d, to) ==
  LET suites == {Suites[d.me][i] : i \in 1..Len(Suites[d.me])} IN
  IF suites = {} THEN Fails(d, "SECURITY")
  ELSE Call([d EXCEPT !.hash = <<>>], "ExchangeSuites", to, None, suites)

AJ_PeerHandleExchangeSuites(d, m, chance) ==
  LET common == Common(d, m.body) IN
  IF ~HandshakeValid(d, m.from, chance.late) THEN Error(AfterTimeout(d, chance.late), m, "Resources")
  ELSE IF common = {} THEN Refuses(d, m)
  ELSE Answer([d EXCEPT !.suites = common, !.hash = <<>>], m, "reply", common)

\* KeyExchange: the first of the suites, in the order of the bus attachment.
KeyExchange(d, to) ==
  LET first == CHOOSE i \in 1..Len(Suites[d.me]) :
                 /\ Suites[d.me][i] \in d.suites
                 /\ \A j \in 1..(i - 1) : Suites[d.me][j] \notin d.suites
      suite == Suites[d.me][first]
      c == ECDHE_Marshal(ECDHE_Init([d EXCEPT !.suite = suite, !.suites = @ \ {suite},
                                              !.hash = <<>>]))
  IN Call(c, "KeyExchange", to, None, [suite |-> suite, key |-> c.key])

AJ_PeerHandleExchangeSuitesReply(d, m, chance) ==
  LET common == Common(d, m.body) IN
  IF m.type = "error" THEN Failed(d, m)
  ELSE IF ~HandshakeValid(d, m.from, chance.late) THEN Does(AfterTimeout(d, chance.late), <<>>)
  ELSE IF common = {} THEN Fails(d, "SECURITY")
  ELSE KeyExchange([d EXCEPT !.suites = common], m.from)

AJ_PeerHandleKeyExchange(d, m, chance) ==
  LET c == ECDHE_Init([d EXCEPT !.suite = m.body.suite])
      r == ECDHE_Marshal(ECDHE_Unmarshal(c, m.body.suite, m.body.key))
  IN IF ~HandshakeValid(d, m.from, chance.late) THEN Error(AfterTimeout(d, chance.late), m, "Resources")
     ELSE Answer([r EXCEPT !.state = "EXCHANGED"], m, "reply", [suite |-> r.suite, key |-> r.key])

\* KeyAuthentication.
KeyAuthentication(d, to) ==
  IF ~InitAuth(d) THEN Fails(d, "SECURITY")
  ELSE Call(AfterClient(d, Certificates(d)), "KeyAuthentication", to, None,
            AuthMessage(d, ClientFinished(d)))

AJ_PeerHandleKeyExchangeReply(d, m, chance) ==
  IF m.type = "error" THEN Failed(d, m)
  ELSE IF ~HandshakeValid(d, m.from, chance.late) THEN Does(AfterTimeout(d, chance.late), <<>>)
  ELSE IF d.suite = NoSuite THEN Fails(d, "SECURITY")
  ELSE KeyAuthentication([ECDHE_Unmarshal(d, m.body.suite, m.body.key) EXCEPT !.state = "EXCHANGED"],
                         m.from)

\* SaveMasterSecret, when the expiration is not 0.  The branch for another state than SUCCESS
\* is never taken.
SaveMasterSecret(d, full) ==
  IF d.suite \in Lasting /\ ~full THEN [d EXCEPT !.secret[PeerOf(d)] = d.mastersecret] ELSE d

\* Mutant: the transcript of the client's message is not looked at.
AJ_PeerHandleKeyAuthentication_Blind(d, m, chance) ==
  LET c == AfterClient(d, m.body.certs)
      done == SaveMasterSecret([c EXCEPT !.state = "SUCCESS"], chance.full)
  IN IF ~HandshakeValid(d, m.from, chance.late) THEN Error(AfterTimeout(d, chance.late), m, "Resources")
     ELSE IF d.state # "EXCHANGED" THEN Refuses(d, m)
     ELSE Answer(done, m, "reply", AuthMessage(c, ServerFinished(c)))

\* A secret that cannot be stored fails the handler after all is done: no reply is sent.
AJ_PeerHandleKeyAuthentication(d, m, chance) ==
  LET c == AfterClient(d, m.body.certs)
      done == SaveMasterSecret([c EXCEPT !.state = "SUCCESS"], chance.full)
  IN IF ~HandshakeValid(d, m.from, chance.late) THEN Error(AfterTimeout(d, chance.late), m, "Resources")
     ELSE IF d.state # "EXCHANGED" \/ ~InitAuth(d) \/ ~Unmarshal(d, m.body, ClientFinished(d))
     THEN Refuses(d, m)
     ELSE IF d.suite \in Lasting /\ chance.full THEN Does(done, <<>>)
     ELSE Answer(done, m, "reply", AuthMessage(c, ServerFinished(c)))

AJ_PeerHandleKeyAuthenticationReply(d, m, chance) ==
  IF m.type = "error" THEN Failed(d, m)
  ELSE IF ~HandshakeValid(d, m.from, chance.late) THEN Does(AfterTimeout(d, chance.late), <<>>)
  ELSE IF d.state # "EXCHANGED" \/ ~Unmarshal(d, m.body, ServerFinished(d)) THEN Fails(d, "SECURITY")
  ELSE GenSessionKey(SaveMasterSecret([d EXCEPT !.state = "SUCCESS"], chance.full), m.from)

(***************************************************************************)
(* The session key's reply, and the group keys.                            *)
(***************************************************************************)
\* The key is set before the verifiers are compared.
AJ_PeerHandleGenSessionKeyReply(d, m, chance) ==
  LET key == KeyGen(d, d.nonce, m.body.nonce)
      c == [d EXCEPT !.map = AJ_SetSessionKey(@, m.from, key, AJ_ROLE_KEY_INITIATOR)]
  IN IF m.type = "error" THEN
          IF m.body = "Rejected" THEN ExchangeSuites(d, m.from) ELSE Failed(d, m)
     ELSE IF ~HandshakeValid(d, m.from, chance.late) THEN Does(AfterTimeout(d, chance.late), <<>>)
     ELSE IF m.body.verifier # key THEN Fails(c, "SECURITY")
     ELSE Call(c, "ExchangeGroupKeys", m.from, AJ_GetSessionKey(c.map, m.from), d.me)

\* A handshake that is not valid is not answered.  The group key stands for its owner.
AJ_PeerHandleExchangeGroupKeys(d, m, chance) ==
  IF ~HandshakeValid(d, m.from, chance.late) THEN Does(AfterTimeout(d, chance.late), <<>>)
  ELSE Answer(HandshakeComplete([d EXCEPT !.map = AJ_SetGroupKey(@, m.from, m.body)], "OK"),
              m, "reply", d.me)

\* Mutant: the handshake is not looked at either.
AJ_PeerHandleExchangeGroupKeysReply_Always(d, m, chance) ==
  Fails([d EXCEPT !.map = AJ_SetGroupKey(@, m.from, m.body)], "OK")

\* The type of the reply is not looked at.  That of a call that timed out comes from the device
\* itself, so it is not of a valid handshake.
AJ_PeerHandleExchangeGroupKeysReply(d, m, chance) ==
  IF ~HandshakeValid(d, m.from, chance.late) THEN Does(AfterTimeout(d, chance.late), <<>>)
  ELSE Fails([d EXCEPT !.map = AJ_SetGroupKey(@, m.from, m.body)], "OK")

(***************************************************************************)
(* The beginning of a handshake.                                           *)
(***************************************************************************)
\* The mapping is made; a stored secret, if there is one, is taken.
Begins(d, guid, from, serviceName) ==
  LET map  == AJ_GUID_AddNameMapping(d.map, guid, from, serviceName)
      slot == LookupName(map, from)
      stored == d.secret[guid]
  IN [d EXCEPT !.map = map, !.peerGuid = slot,
               !.state = IF stored # {} THEN "SUCCESS" ELSE @,
               !.mastersecret = IF stored # {} THEN stored ELSE @]

AJ_PeerHandleExchangeGUIDs(d, m, chance) ==
  LET c == AJ_ClearAuthContext(AfterTimeout(d, chance.late)) IN
  IF InProgress(d, chance.late) THEN Error(d, m, "Resources")
  ELSE IF SlotFor(c.map, m.from) = 0 THEN Error(HandshakeComplete(c, "RESOURCES"), m, "Resources")
  ELSE Answer(Begins(c, m.body, m.from, None), m, "reply", d.me)

AJ_PeerHandleExchangeGUIDsReply(d, m, chance) ==
  LET c == AfterTimeout(d, chance.late)
      b == Begins(c, m.body, m.from, c.peerName)
  IN IF m.type = "error" THEN Failed(d, m)
     ELSE IF InProgress(d, chance.late) THEN Does(d, <<>>)
     ELSE IF SlotFor(c.map, m.from) = 0 THEN Fails(c, "RESOURCES")
     ELSE IF d.secret[m.body] # {} THEN GenSessionKey(b, m.from)
     ELSE ExchangeSuites(b, m.from)

(***************************************************************************)
(* AJ_BusHandleBusMessage, of a call, and of a reply whose call it is.     *)
(***************************************************************************)
HandleCall(d, m, chance) ==
  CASE m.kind = "ExchangeGUIDs"     -> AJ_PeerHandleExchangeGUIDs(d, m, chance)
    [] m.kind = "ExchangeSuites"    -> AJ_PeerHandleExchangeSuites(d, m, chance)
    [] m.kind = "KeyExchange"       -> AJ_PeerHandleKeyExchange(d, m, chance)
    [] m.kind = "KeyAuthentication" -> AJ_PeerHandleKeyAuthentication(d, m, chance)
    [] m.kind = "GenSessionKey"     -> AJ_PeerHandleGenSessionKey(d, m, chance)
    [] m.kind = "ExchangeGroupKeys" -> AJ_PeerHandleExchangeGroupKeys(d, m, chance)

HandleReply(d, m, chance) ==
  CASE m.kind = "ExchangeGUIDs"     -> AJ_PeerHandleExchangeGUIDsReply(d, m, chance)
    [] m.kind = "ExchangeSuites"    -> AJ_PeerHandleExchangeSuitesReply(d, m, chance)
    [] m.kind = "KeyExchange"       -> AJ_PeerHandleKeyExchangeReply(d, m, chance)
    [] m.kind = "KeyAuthentication" -> AJ_PeerHandleKeyAuthenticationReply(d, m, chance)
    [] m.kind = "GenSessionKey"     -> AJ_PeerHandleGenSessionKeyReply(d, m, chance)
    [] m.kind = "ExchangeGroupKeys" -> AJ_PeerHandleExchangeGroupKeysReply(d, m, chance)

\* The reply's context, if its call is waiting for it.
Waiting(d, m) == {c \in d.calls : c.id = m.id}

Handle(d, m, chance) ==
  CASE m.type = "lost" -> Does([d EXCEPT !.map = AJ_GUID_DeleteNameMapping(@, m.from)], <<>>)
    [] m.type = "call" /\ (m.seal = None \/ DecryptMessage(d.map, m.from, m.seal)) ->
         HandleCall(d, m, chance)
    [] /\ m.type \in {"reply", "error"} /\ Waiting(d, m) # {}
       /\ m.seal = None \/ DecryptMessage(d.map, m.from, m.seal) ->
         HandleReply([d EXCEPT !.calls = @ \ Waiting(d, m)], m, chance)
    [] OTHER -> Does(d, <<>>)

(***************************************************************************)
(* The router and the steps.  A message to a name that is gone is lost; a  *)
(* well-known name is that of the device's connection now.                 *)
(***************************************************************************)
\* A handler sends one message at most.
Reaches(m, p) == m.to \in {p, Me(dev[p])}

Sends(e, handled) ==
  /\ dev' = [dev EXCEPT ![e] = handled.d]
  /\ inbox' = [p \in Device |->
       (IF p = e /\ inbox[e] # <<>> THEN Tail(inbox[e]) ELSE inbox[p])
         \o (IF handled.out # <<>> /\ Reaches(handled.out[1], p) THEN handled.out ELSE <<>>)]

Receive(e, chance) ==
  /\ inbox[e] # <<>>
  /\ Sends(e, Handle(dev[e], Head(inbox[e]), chance))

\* AJ_PeerAuthenticate: it returns an error while a handshake is in progress.
AJ_PeerAuthenticate(e, p, chance) ==
  LET d == AJ_ClearAuthContext(AfterTimeout(dev[e], chance.late))
      sent == Call([d EXCEPT !.cb = Len(d.attempts) + 1, !.peerName = p,
                             !.attempts = Append(@, p), !.answers = Append(@, <<>>)],
                   "ExchangeGUIDs", p, None, e)
  IN /\ <<e, p>> \in scene.wanted /\ Len(dev[e].attempts) < scene.attempts
     /\ scene.patient => dev[e].calls = {}
     /\ ~InProgress(dev[e], chance.late)
     /\ dev' = [dev EXCEPT ![e] = sent.d]
     /\ inbox' = [inbox EXCEPT ![p] = @ \o sent.out]

\* AJ_TimedOutMethodCall, when there is nothing to read: the error is the device's own.
CallTimesOut(e, chance) ==
  /\ CallsTimeOut /\ inbox[e] = <<>>
  /\ \E c \in dev[e].calls :
       Sends(e, HandleReply([dev[e] EXCEPT !.calls = @ \ {c}],
                            [type |-> "error", kind |-> c.kind, id |-> c.id, from |-> Me(dev[e]),
                             seal |-> None, body |-> "Timeout"], chance))

\* AJ_Disconnect, which forgets an attempt without calling it back, and the next connection: the
\* others are told of the name that is gone.
Reconnect(e) ==
  /\ dev[e].conn < scene.connections
  /\ dev' = [dev EXCEPT ![e] = [AJ_ClearAuthContext(dev[e]) EXCEPT
                                  !.conn = @ + 1, !.calls = {}, !.map = NoNames]]
  /\ inbox' = [p \in Device |->
       IF p = e \/ p \notin scene.on THEN <<>>
       ELSE Append(inbox[p], [type |-> "lost", kind |-> "lost", id |-> 0, from |-> Me(dev[e]),
                              seal |-> None, body |-> None])]

\* A stored secret expires, is cleared by the application or evicted.
Forget(e, p) ==
  /\ scene.forgetful /\ dev[e].secret[p] # {}
  /\ dev' = [dev EXCEPT ![e].secret[p] = {}]
  /\ UNCHANGED inbox

Init ==
  /\ scene \in Scenes
  /\ \E s \in scene.secrets : dev = [e \in Device |-> InitDevice(e, s[e])]
  /\ inbox = [e \in Device |-> <<>>]

Next ==
  /\ \E e \in scene.on :
       \/ \E chance \in scene.chances :
            \/ Receive(e, chance)
            \/ CallTimesOut(e, chance)
            \/ \E p \in scene.on : AJ_PeerAuthenticate(e, p, chance)
       \/ Reconnect(e)
       \/ \E p \in scene.on : Forget(e, p)
  /\ UNCHANGED scene

Spec == Init /\ [][Next]_vars

(***************************************************************************)
(* Properties.                                                             *)
(***************************************************************************)
\* No more calls wait than there are reply contexts, the peer of a handshake is a slot of the
\* map, and a handshake under way has its suite.
TypeOK ==
  \A e \in Device : LET d == dev[e] IN
    /\ d.cb \in 0..Len(d.attempts) /\ Len(d.answers) = Len(d.attempts)
    /\ Cardinality(d.calls) <= AJ_NUM_REPLY_CONTEXTS
    /\ d.peerGuid \in 0..NumNames /\ Len(d.map) = NumNames
    /\ d.state \in {"NONE", "EXCHANGED", "SUCCESS"}
    /\ d.state = "EXCHANGED" => d.suite # NoSuite /\ d.peerGuid # 0
    /\ d.state # "NONE" => d.mastersecret # {}
    /\ \A p \in Device : d.secret[p] = {} \/ Cardinality(d.secret[p]) = 2

\* An attempt is called back at most once, although HandshakeComplete is called again by the
\* callers of a step that failed, and not while its callback is still to come.  (It may be never:
\* a newer attempt, a handshake of a peer or the end of the connection forget the callback.)
OneAnswer ==
  \A e \in Device : \A i \in 1..Len(dev[e].answers) :
    /\ Len(dev[e].answers[i]) <= 1
    /\ dev[e].cb = i => dev[e].answers[i] = <<>>

\* The key exchange and the transcript are kept in static variables that a handshake of either
\* role writes.  Even so a master secret, in use or stored, was made by the device and the peer
\* it is for.
MadeByBoth ==
  \A e \in Device : LET d == dev[e] IN
    /\ d.peerGuid # 0 /\ d.mastersecret # {} /\ PeerOf(d) # None =>
         {k[1] : k \in d.mastersecret} = {e, PeerOf(d)}
    /\ \A p \in Device : d.secret[p] # {} => {k[1] : k \in d.secret[p]} = {e, p}

\* A handshake succeeds, and a secret is stored, only with a device that has the same
\* pre-shared key, or whose certificates the listener approves.  (The one that answers succeeds
\* before the other has seen its certificates.)
OnlyFriends ==
  \A e \in Device : LET d == dev[e] IN
    /\ d.state = "SUCCESS" /\ d.peerGuid # 0 /\ PeerOf(d) # None => Friends(e, PeerOf(d))
    /\ \A p \in Device : d.secret[p] # {} => Friends(e, p)

AnsweredOk(e, i) ==
  /\ i \in DOMAIN dev[e].answers /\ dev[e].answers[i] # dev'[e].answers[i]
  /\ dev'[e].answers[i] = <<"OK">>

\* When the callback reports success, messages can be encrypted both ways: the name given to
\* AJ_PeerAuthenticate has the key of that peer, and if the peer's connection is still the one
\* that was authenticated it has the same key for this device, in the other role, and each has
\* the other's group key.  (An application that begins an attempt while calls of the last one
\* are open may be told of the success of the wrong one.)
KeysAgree ==
  [][scene.patient => \A e \in Device : \A i \in DOMAIN dev[e].answers :
       LET p == dev[e].attempts[i]
           mine == dev'[e].map[LookupName(dev'[e].map, p)]
           its == dev'[p].map[LookupName(dev'[p].map, Me(dev[e]))]
       IN AnsweredOk(e, i) =>
            /\ LookupName(dev'[e].map, p) # 0
            /\ mine.guid = p /\ mine.groupKey = p
            /\ mine.uniqueName = Me(dev[p]) =>
                 /\ LookupName(dev'[p].map, Me(dev[e])) # 0
                 /\ its.sessionKey = mine.sessionKey /\ its.keyRole + mine.keyRole = 3
                 /\ its.groupKey = e]_vars
=============================================================================
