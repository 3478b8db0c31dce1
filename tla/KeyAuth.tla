------------------------------ MODULE KeyAuth ------------------------------
(***************************************************************************)
(* Key exchange and key authentication, src/aj_keyexchange.c and           *)
(* src/aj_keyauthentication.c, as operators on the context c of a          *)
(* handshake: the device me, the suite, the key pair of this exchange, the *)
(* master secret and the transcript.  Cryptography is ideal: the master    *)
(* secret is the set of the two key pairs it was made from, a verifier is  *)
(* the text it was computed from, and equal verifiers have equal texts.    *)
(***************************************************************************)
EXTENDS Integers, Sequences, NameMap

CONSTANTS
  Device,    \* the devices
  Suites,    \* Suites[e]: the suites of e's bus attachment, in order
  Psk,       \* Psk[e]: what e's listener gives for the pre-shared key
  Chain,     \* Chain[e]: the issuers of e's certificate chain; <<>> if its listener has none
  Guests,    \* the devices whose listener grants ECDHE_NULL
  Trusted,   \* Trusted[e]: the issuers e's listener approves
  Lasting    \* the suites whose credentials have an expiration other than 0

PSK   == "ECDHE_PSK"
ECDSA == "ECDHE_ECDSA"
NULL  == "ECDHE_NULL"
NoSuite == "none"

ASSUME KeyAuthAssumption ==
  /\ \A e \in Device : Suites[e] \in Seq({PSK, ECDSA, NULL})
  /\ \A e \in Device : Chain[e] # <<>> => Head(Chain[e]) = e
  /\ Lasting \subseteq {PSK, ECDSA, NULL}

\* AJ_SHA256_Update of the transcript.
Update(c, texts) == [c EXCEPT !.hash = @ \o texts]

\* ECDHE_Init, by either end, and ECDHE_Marshal: a new key pair, and what is sent of it.
ECDHE_Init(c) == [c EXCEPT !.key = <<c.me, c.n + 1>>, !.n = @ + 1]
ECDHE_Marshal(c) == Update(c, <<c.suite, c.key>>)

\* ECDHE_Unmarshal with ComputeMasterSecret.
ECDHE_Unmarshal(c, suite, key) ==
  [Update(c, <<suite, key>>) EXCEPT !.mastersecret = {c.key, key}]

ComputeVerifier(label, c) == <<label, c.mastersecret, c.hash>>

\* Init of the three suites: ECDSA's fails when the listener has no chain, NULL's when it refuses.
InitAuth(c) ==
  /\ c.suite = ECDSA => Chain[c.me] # <<>>
  /\ c.suite = NULL => c.me \in Guests

\* The certificates sent: the leaf, signed by the device's own key, and its chain.
Certificates(c) == IF c.suite = ECDSA THEN Chain[c.me] ELSE <<>>

\* The pre-shared key is part of the transcript, with a hint that is the same at both ends.
WithPsk(c) == IF c.suite = PSK THEN Update(c, <<Psk[c.me]>>) ELSE c

\* Marshal and Unmarshal of the client's message: its text, and the transcript after it.
ClientFinished(c) == ComputeVerifier("client finished", WithPsk(c))
AfterClient(c, certificates) == Update(WithPsk(c), <<ClientFinished(c), certificates>>)

\* Marshal of the server's message, when the client's is in the transcript.
ServerFinished(c) == ComputeVerifier("server finished", c)

AuthMessage(c, text) == [suite |-> c.suite, verifier |-> text, certs |-> Certificates(c)]

\* ECDSA_Unmarshal: the leaf, no more than one parent because nothing sets delegate, and an
\* issuer of either that the listener approves.  Each parent's subject is the issuer before it.
ChainTrusted(c, certs) ==
  /\ Len(certs) \in 1..2
  /\ \E i \in 1..Len(certs) : certs[i] \in Trusted[c.me]

\* Mutant: the issuers are not asked about.
Unmarshal_AnyIssuer(c, m, text) ==
  m.suite = c.suite /\ m.verifier = text

\* Unmarshal: the variant is of this suite, the verifier the one expected, the chain trusted.
Unmarshal(c, m, text) ==
  /\ m.suite = c.suite /\ m.verifier = text
  /\ c.suite = ECDSA => ChainTrusted(c, m.certs)
=============================================================================
