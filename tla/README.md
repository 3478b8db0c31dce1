# TLA+ models of the AllJoyn thin client (AJTCL) with the SLAP serial transport

The repository is the C thin client of AllJoyn, ported to a board that talks to its routing node over a UART. Its own core logic is the serial transport SLAP
(`src/aj_serial*.c`): connection set-up, a sliding window with three-bit sequence numbers, resends, acknowledgements, and buffers shared with
the two UART callbacks. Above it are the message layer, method-call bookkeeping, the supervision of the link, authentication of peers, and a small
non-volatile store. This directory models the transport twice, as whole frames and as bytes on the line, and above it a service with its main loop, method calls and link
watch, the messages with their introspection and security, the authentication of peers, and the store.

Paths below are relative to the repository root.

## 1. Inventory

| Component | State it keeps | Operations | Talks to |
|---|---|---|---|
| SLAP link control, `src/aj_serial.c` | `AJ_SerialLinkParams` (link state, window, packet size, version), `sendLinkPacketTime`, `dataSent`, `dataReceived` | `AJ_SerialInit`, `AJ_SerialShutdown`, `AJ_SerialDisconnect`, `AJ_Serial_LinkPacket`, `SendLinkPacket`, `AJ_StateMachine` | transmit and receive side by call |
| SLAP transmit side, `src/aj_serial_tx.c` | `txQueue`, `txSent`, `txFreeList`, the reserved `txUnreliable`, `txSeqNum`, `pendingAcks`, `currentTxAck`, `resendTime`, `ackTime`, three buffer lists | `AJ_SerialSend`, `AJ_FillTxBufferList`, `ResendPackets`, `SendAck`, `AJ_SerialTx_ReceivedAck`, `AJ_SerialTx_ReceivedSeq`, `AJ_TransmitCallback` | UART by `AJ_TX`, Pause and Resume |
| SLAP receive side, `src/aj_serial_rx.c` | `RxPacket`, `RxRecv`, `RxFreeList`, `expectedSeq`, three buffer lists, decoder state | `AJ_SerialRecv`, `AJ_ProcessRxBufferList`, `UART_RxComplete`, `CompletePacket`, `AJ_ReceiveCallback` | link control, transmit side |
| Main loop and timers, `src/aj_helper.c` | `Timers[4]`, connected | `AJ_RunAllJoynService`, `AJ_StartService`, `AJ_StartClient`, `AJ_SetTimer`, `AJ_CancelTimer` | every layer |
| Link watch, `src/aj_link_timeout.c` | `busLinkWatcher`, `busLinkTimeout` | `AJ_BusLinkStateProc`, `AJ_NotifyLinkActive`, `AJ_SetBusLinkTimeout` | message layer |
| Messages, `src/aj_msg.c` | serial numbers, buffers | unmarshal, marshal, deliver, close | transport, reply contexts, keys |
| Reply contexts and object tables, `src/aj_introspect.c` | `replyContexts[2]`, object lists | allocate, release, time out, identify | messages |
| Connect, `src/aj_connect.c` | bus attachment | `AJ_Connect`, `AJ_Authenticate`, `AJ_Disconnect` | transport, messages, contexts |
| Bus calls, `src/aj_bus.c` | – | method calls of the bus, standard handlers | messages, authentication |
| Name map, `src/aj_guid.c` | `nameMap[4]` | add, delete, find, clear; session and group keys | authentication, messages |
| Peer authentication, `src/aj_peer.c` with `aj_keyexchange.c`, `aj_keyauthentication.c` | one `authContext`, one `handshakeContext` | five exchanges, each with a call and a reply handler | name map, credentials |
| Credentials and store, `src/aj_creds.c`, `src/aj_nvram.c`, `target/fc3180/aj_target_nvram.c` | entries of the flash area and the file behind it | create, delete, open, read, write, compact; store, get and delete credentials | – |
| Discovery, About, utilities, cryptography, CRC, target port | little or none | | |

### What is hard

* **Order of messages.** A frame is delayed, lost, or repeated; NEGO and NRSP cross; a DISC meets a CONN; frames of an earlier incarnation arrive in a
  later one.
* **One packet for everything unreliable.** ACK, CONN, ACPT, NEGO, NRSP, DISC and DRSP share one packet structure, put at the head of a queue that resends also
  splice into.
* **Timers against answers.** The resend, ack and link timers race the packets that make them superfluous.
* **Callbacks.** The UART callbacks run between any two steps of the thread.
* **Numbers that wrap.** Sequence numbers are three bits wide and `SEQ_GT` compares them with the negotiated window.
* **Restart.** `AJ_Disconnect` and `AJ_Connect` start one end over while the other goes on.
* **Small tables.** Two reply contexts, four timers, four names, one handshake.

* **State machines over bytes.** The decoder of the line and the reader of messages keep a position between calls that arrive in any order; one byte off,
  and everything after it is misread.
* **One handshake for everybody.** The authentication context, the key exchange and the transcript are static variables that attempts of either role write.
* **Compaction under open handles.** Making a data set moves the others; the file is written after each write to the memory.

`PROJECT.json` lists the hazards with the line each of them bites at and the property that covers it, or why none does.

### What makes each component correct

* Link control: both ends come up; ends that are both ACTIVE use the same values, and values each can take.
* Transmit and receive side: what is accepted is the peer's stream in order, without gaps and repetitions, whatever is lost; nothing is freed before
  it is accepted; nothing is dropped by a resend; no packet waits without a timer; the reserved packet is queued once.
* Reply contexts: every call ends exactly once, by reply or by timeout, and no reply is taken for another call's.
* Link watch: a silent link is declared dead after three probes, and one that speaks is not.
* Service: when it runs, the node has been asked for, and has answered, all that makes it a service.
* Timers: every timer fires, once or repeatedly, and cancelling one leaves the others alone.
* Messages: what is read is what was written, whatever the byte orders and whatever way it is read; no operation leaves the reader inside another message;
  what must be encrypted is.
* Introspection: a message is handed on exactly when an enabled object has its member; children are listed once.
* Authentication: an attempt is called back at most once; success means that both have the same keys, and only those who should have them.
* Store: a committed entry survives crashes, unless they come within a compaction, and compaction.
* Line: damage costs no more than a frame and the next; the buffers shared with the callbacks are never lost.

## 2. Modules

| Module | Models |
|---|---|
| `SlapState` | the variables of the three files, one copy for each end; packets; sequence numbers; encodings; the assumption on the constants |
| `SlapTx` | `aj_serial_tx.c` |
| `SlapLink` | `aj_serial.c` |
| `SlapRx` | `aj_serial_rx.c`, with whole frames |
| `Slap` | two ends and the line; `Init`, `Next`, fairness; the properties |
| `SerialStream` | the abstract specification: two reliable streams between incarnations |
| `Crc16` | `aj_crc16.c` |
| `Slip` | the bytes of a frame: the encoder of `aj_serial_tx.c`; the decoder, `CompletePacket` and reads of `aj_serial_rx.c` |
| `SlipLine` | the buffers of the two files with the callbacks and Pause and Resume, and a UART that damages bytes; the properties |
| `ServiceState` | the variables of a connected service and of the node it talks to |
| `ReplyContexts` | the reply contexts at the end of `aj_introspect.c`, and what `AJ_UnmarshalMsg` makes of a message or of none |
| `LinkWatch` | `aj_link_timeout.c` |
| `Service` | composes the two with `AJ_RunAllJoynService`, `AJ_StartService`, `AJ_FindBusAndConnect`, `AJ_Authenticate`, `AJ_Disconnect`, `AJ_BusHandleBusMessage`, the announcement, and a node; the properties |
| `Wire` | the types, signatures, byte orders and alignment of `aj_msg.c`; header fields |
| `Marshal`, `Unmarshal` | the two halves of `aj_msg.c` as operators from a message being written, or read, to the next one and a status |
| `Introspect` | `aj_introspect.c`: object lists, matching of members and properties, security, children, composition of identifiers |
| `Message` | two devices and what their applications do with messages, with `AJ_BusHandleBusMessage` for introspection and properties; the properties |
| `NameMap` | `aj_guid.c` |
| `KeyAuth` | `aj_keyexchange.c` and `aj_keyauthentication.c` |
| `Peer` | `aj_peer.c`: devices, their applications and a router; the properties |
| `Nvram` | `aj_nvram.c` and `aj_target_nvram.c` |
| `Creds` | `aj_creds.c` over `Nvram`, the file, power failures; the properties |
| `CredStore` | the abstract specification: a set of credentials and a GUID, in memory and in a file |
| `MCSlap`, `MCSlip`, `MCMessage`, `MCPeer`, `MCStore` | constants, and for the transport fairness, for the model checker |
| `SlapProofs` | theorems and proofs: types, the reserved packet, the timers, the packet lists |
| `SlapOrderProofs` | theorems and proofs: the stream in order, acknowledgements, `Slap` implements `SerialStream`; the negotiation |
| `SlipProofs` | theorems and proofs: the buffers of the line, the encoder against the decoder, finding back after damage |
| `ServiceProofs` | theorems and proofs: types of the service, reply contexts, what a running service has been answered, probes |
| `PeerProofs` | theorems and proofs: types of the authentication, at most one answer, who made a secret, with whom a handshake succeeds |
| `PeerKeyProofs` | theorem and proof: at every success told to a patient application both ends have the same keys |
| `NvramProofs` | theorems and proofs: data sets, what each operation of the store does to them, compaction |
| `CredsProofs` | theorems and proofs: the properties of the credentials, `Creds` implements `CredStore` |

### State and code

The names are those of the C variables where there is one.

**Transport.** Lists are sequences: `txQueue`, `txSent`, `rxRecv` (`RxRecv`). Free lists, whose members are
interchangeable, are counters (`txFree`, `rxFree`). The reserved packet is not a variable: it is queued exactly when the head of `txQueue` is not a DATA
packet. `resendTimer`, `ackTimer` and `linkTimer` say whether the time is set to something other than `AJ_TIMER_FOREVER`; a set timer may pass at any
time, because the model has no clock. `txBuf` is `pendingSendBuffer` followed by `bufferTxPending`, `rxBuf` is `bufferRxQueue`. A payload is a
pair of incarnation and position, so that a property can say which packet it is; no action reads it.

`pc` is the place of the thread in `AJ_StateMachine`, `call` the blocking call it was called from. A pass is: process the receive
buffers one at a time (`RxControl`, `RxDiscard`, `RxPacket`), then `FillTxBuffers`, then, in this order, each of `ResendPackets`, `SendAck` and
`SendLinkPacket` whose timer has passed. `AJ_SerialSend`, `AJ_SerialRecv` and `AJ_SerialDisconnect` loop over passes. `Deliver` and `Lose` are the
transmit callback of one end, the line, and the receive callback of the other; they interleave with all of these.
`log`, `accepted` and `delivered` are history variables, read by properties only.

**Line.** `SlipLine` has the same lists again with the bytes in them. `txQueue` and `pending` are `bufferTxQueue` and `pendingSendBuffer`, `txHeld` and `rxHeld` are the
buffers a thread has taken out between `AJ_PauseTX` (or `AJ_PauseRX`) and the Resume after it, `rx` is the decoder with its packets. A byte carries the number of
its frame, which only `Resynchronised` reads. The steps of a thread are those between which a callback may run.

**Service.** A step of the thread is what it does with one result of `AJ_UnmarshalMsg`: a message, an internal error for a method call that timed out, a read error, or a
timeout. `Result` carries the status, the message and what is left of the reply contexts and of the messages to come; the loops of the code (`pc` is "hello" and
"match" in `AJ_Authenticate`, "start" in `AJ_StartService`, "run" in `AJ_RunAllJoynService`) each have their actions for it, with the calls they make and with `AJ_Disconnect`.
At "failed" `AJ_StartService` has returned the status of an announcement that could not be sent, without `AJ_Disconnect` (`src/aj_helper.c:359`); the next step connects again.
`ctx` is `replyContexts`, `watch` is `busLinkWatcher` with the test of `busLinkTimeout`, `asked`, `toBus` and `node` belong to the node: calls it has not answered, its messages on their way, and what it
has done, or refused to do, for this connection. `left`, `fate`, `probes` and `stale` are history variables.

**Messages.** `rx[d]` is the `AJ_Message` that device `d` reads together with its receive buffer (`buf`, `rd`) and the bytes not yet loaded (`net`); `bodyLen`, `sig`, `off`, `var` and
`outer` are the fields of the message and its containers. A message is composed and delivered in one step (`Said`), since nothing runs in between; it is also put in `coming`
with what was meant (`told`, `sealed`, `secret`, `below`), which only properties read.
The functions of the C interface are operators that fail where the code does: the status decides what the caller does next. `skipped`, `spoilt` and `outside` record what the code does not notice: an array in the
sender's byte order has been skipped; the rest of the body is in no byte order; the last conversion, or the read position, has left the buffer. What such a reader does next is not modelled (`Opened`), since it is
undefined in the code.

**Authentication.** `dev[e]` is a device: `authContext` and `handshakeContext` (`state`, `cb`, `peerGuid`, `suite`, `mastersecret`), `map` (`nameMap`), the stored secrets, its open calls, and the
history of its attempts and answers. Each handler is an operator from a device and a message to the new device and the messages sent. A key is symbolic: the set of what each side put into it.

**Store.** `mem` is `AJ_EMULATED_NVRAM` in half-words; an operation of `Nvram` takes and returns the memory with the list of its writes, and `Creds` performs those on the file one by one (`todo`), so
that the power may fail between any two. `CompactNVStorage` is one write of the whole memory, and `Halfway` the files that its writes in between may leave; a device on which the power has failed there is
`"broken"`, and does nothing more. `storing` is the credential that the call in progress stores. The loops of the code are recursive functions with a bound on their rounds that loses nothing: `MaxEntries` for a walk over the entries, each of which has a header and a word of
data at least, and one round more than there are slots for `MakeRoom`, whose rounds change nothing once one has found nothing to delete.

### Abstractions

* `Slap`: a frame arrives whole or not at all; what damage does to frames is the subject of `SlipLine`. Each receive buffer holds one frame.
* The receive buffers are processed when there is a free packet, as in the code.
* `pendingAcks` stops counting at 5 (`MaxPendingAcks`); the code compares it with 0, 1 and the window only.
* Both ends run this code. `test/uarttest.c`, `test/uartbigsmall.c` and `test/echo.c` run it at both ends; against a routing node the peer is another implementation.
* The protocol version is that of the source at both ends, so DISC packets are always sent.
* `AJ_SerialInit` stands for a shutdown and a new start, or for a reset of the board. A reset initialises `dataSent`, a shutdown leaves it; the model allows both.
* `SlipLine`: one direction; the link is ACTIVE; which frames are sent is a script, with resends and ACKs. A frame is checked to be a DATA packet or an ACK; the rest of the dispatch is in `SlapRx`.
* Service: discovery, the network connection and the SASL lines succeed, or nothing has happened; a message arrives whole; `config->connected` is FALSE and a link timeout
  is set or not. A time that is set may have passed whenever the code looks. A time out of `AJ_StartService` between attempts is a new attempt. The unique name is not modelled
  (but see section 5). A refused reply (`BAD`) has the wrong signature, or is not encrypted as it must be, which only calls of the application meet; any step may be refused by an error, and those of `MayRefuse` in the
  disposition code of a reply that is not one. The application makes any number of calls: the serial number of one that nothing refers to any more is used again (`AppSerial`).
* Messages: handles, compression, time stamps, time to live and session ids are left out. Names are one character long. The MAC is a copy of the header as it was when it was sealed, so that a changed header is noticed. Reply contexts are
  unbounded and calls do not time out; `Service` is about that. An application handles one message at a time, replies, and closes it, as `AJ_RunAllJoynService` does.
* Authentication: cryptography is ideal: a verifier is the transcript and the secret it was made from, and a certificate names its issuer. One protocol version; a pre-shared key is always supplied; the listener of a device
  grants a handshake without one, or does not (`Guests`). A group key stands for its owner. The router delivers what is sent to a device in order. A callback does not begin an attempt itself (section 5).
* Store: `malloc` and `fopen` do not fail; writing the file either is done or leaves it empty; one handle is open at a time; ids are one half-word, and associations are left out. A field that the code writes in parts, because its
  bytes do not end with a word (`src/aj_nvram.c:258`), is begun but not wholly written until its last half-word is: what a power failure leaves of it reads as blank (`Torn`), and a single byte of a half-word is not told from none.

## 3. Runs

The runs of the transport use `MCSlap` with two ends `a` and `b`. `Spec` starts unconnected; `SpecUp` starts in the state after the handshake with `Done[e]` packets already
exchanged, so that data runs need not repeat the handshake and can begin near the wrap of the sequence numbers.

| Run | Question | States |
|---|---|---|
| `slap_link` | Do ends with windows 2 and 1 and different packet sizes agree when both are ACTIVE, with one end disconnecting at any time? | 414 000 |
| `slap_linkup` | Do both ends come up? (liveness) | 8 800 |
| `slap_data` | Window 2, two packets one way and one the other, loss, any timer at any time: are lists and acks consistent, and is it the stream? | 508 000 |
| `slap_wrap` | Window 4, packets 7 to 10 of a stream: does the wrap confuse packets or acks? | 501 000 |
| `slap_session` | Both ends start over at any time, the sender with two packets before and two after: do streams of two incarnations mix, does a packet or an ack wait without a timer? | 838 000 |
| `slap_live` | On a link whose resends are patient in the end, is everything queued delivered, and does `AJ_SerialSend` return? (liveness) | 38 000 |
| `slap_leak` | A counterexample, see section 5 | |
| `slip` | A byte is lost, changed or added anywhere on the line, pieces and reads end anywhere: is what is read what was sent, does the decoder find back, are the buffers where they should be? | 655 000 |
| `service` | Over any number of connections and of calls, with a node that answers, refuses, forgets, calls, goes silent or breaks off, and announcements that fail: are contexts, the running service and the link watch right, does every call end, is a silent link found out, and when not? (safety and liveness) | 121 900 |
| `message` | Two devices, each of either byte order, with keys or without, call, reply, signal, introspect and use properties, and read what they get in every way: is it what was written, is the reader ever lost, is anything secret in the clear? | 58 300 |
| `peer` | Two devices authenticate each other at once, over two connections each; three with different suites, keys and certificates in a triangle; one tries two others again, patiently or not: who is told of success, and with what keys? | 573 700 |
| `store` | Credentials are stored, replaced, evicted and deleted while the power fails anywhere: do flash, file and search make up a store of credentials, until it fails within a compaction? | 129 900 |

### Properties

Of the transport:

* `TypeOK`: variables and list lengths.
* `StreamSpec` (refinement): with `got` as what has been delivered and what waits in `rxRecv`, every step of the transport is a step of `SerialStream` or a stutter; in `slap_data` with loss both ways, in
  `slap_session` over restarts. `InOrder` is the part of it that the larger window in `slap_wrap` is checked for.
* `FreedWasAccepted` (action property): a packet that goes back to the free list has been accepted by the peer.
* `PacketsConserved`: packets not sent yet are younger than those sent, and no list operation creates packets.
* `UnreliableQueuedOnce`, `AckIsExpectedSeq`, `TimersArmed`: the reserved packet; both sides of one end agree on the next number; no packet and no ack waits without its timer.
* `BothActiveAgree`, `PeerTookMyOffer`: what the negotiation has achieved when an end, or both, are ACTIVE.
* `LinkComesUp`: both ends come up. `AllDelivered`, `SendReturns`: on a link that works (`LinkWorks`), all that is queued is delivered and no call of `AJ_SerialSend` blocks for ever; what "works" means is below, under fairness.

Of the line:

* `ReadIsSent`: what has been read, with what is ready, is the stream up to the next packet expected, to the byte.
* `Resynchronised`: a frame that arrives undamaged behind another such is accepted by the decoder, however far off it was.
* `BuffersInPlace`: each buffer is in exactly one place, the flags that make the thread look at the lists are set when there is something in them, and the receiver is never left without a buffer to come.

Of the service:

* `ContextsAreOpenCalls`, `CallEndsOnce`: the contexts in use are exactly the calls that have not ended, and a late reply ends nothing twice; except in a connection that follows a start whose announcement failed (`left`), which
  inherits contexts (section 5).
* `RunsAdvertised`: when the service runs, the node has answered each of its three steps on this connection, and done it, or refused it in a disposition code, which `AJ_StartService` does not read (section 5); and it has the announcement.
* `DeadAfterProbes`: in a connection that began with a clear watcher the link is given up after three probes without a message, not before.
* `DeadLinkFound`: with a link timeout, a silent node is found out, or the application makes calls for ever.
* `CallsEnd`: every context is free again and again, or messages are read for ever, or the application calls for ever, or the device is left at "failed" with nothing to connect to. TLC finds it violated without any one of these.

Of messages:

* `TypeOK`: the buffer is neither filled nor read beyond what it holds, unless the body is spoilt. A body is spoilt when the conversion of an array of wide numbers has gone on behind the array (`src/aj_msg.c:638`), or when
  it is read again after an array of the other byte order was skipped (812); both happen in the run, with readers that end outside their buffer (section 5).
* `ReadIsWritten`: the values and brackets read are a prefix of those written, and all of them when the signature is used up; bytes read raw are those of the body. All of this of bodies that are not spoilt.
* `FramingKept`: behind the rest of the body that is being read come the messages that were sent, whole. Reading, skipping, resetting, failing and closing all keep it, of spoilt bodies too, as long as the reader has not left its buffer.
* `NotInTheClear`: arguments of secure members, and values of secure properties, travel encrypted, both ways.
* `ChildrenListed`: an introspection reply names each child to be shown exactly once.
* `Understood` (action property): a message that arrives is handed on with an identifier it denotes, if there is one, and otherwise not; the definition of "denotes" is by names and signatures, not by the search of the code.

Of authentication:

* `OneAnswer`: the callback of an attempt is called at most once, and not again after its answer. That it is called at all is not so (section 5).
* `KeysAgree` (action property): when an attempt of a patient application is answered with success, the name it was made for has a session key, and the peer, if its connection is still the same, has the same one, in the other role; each has the other's group key.
* `MadeByBoth`: although both roles write the same static variables, a master secret is made by the two it is for.
* `OnlyFriends`: a device whose handshake has succeeded, or that stores a secret, has the pre-shared key of the peer, or the listener of this device approves the peer's certificates. It does not say that the peer
  approves too: the side that answers is done before the other has looked at its certificate, and in the triangle of `peer` one device approves another that does not approve it.

Of the store:

* `KeepsPromise` (refinement): every step is a step of `CredStore` or a stutter. A call changes the credential it is for, and evicts only generic ones, oldest first; a write takes nothing from the file that the memory keeps, but the
  credential being stored; when the writes are done the file is the memory; a failure of the power leaves what the file holds, or nothing if a write was on its way, and a restart finds just that. `CredStore` names what no store
  should do and this one does: a call that finds nothing to evict evicts all it can and does not return (`Hang`), and a power failure within a compaction ends all promises (`Breaks`).
* `StoredIsFound`: what `AJ_StoreCredential` reports as stored is what is then found under its name.
* `OneSlotEach`: no two slots hold a credential of one name, not even after an interrupted write.
* `FileIsMemory`: between calls the file is the memory, and the device has a GUID.
* `TypeOK`: the headers chain from the sentinel to the end, no id is there twice, in memory and, unless the power has failed within a compaction, in the file.

Every property of a passing run has a mutant in `PROJECT.json`: a plausible change of one definition (a sequence comparison one off, a resend at the wrong end of the
queue, a reset forgotten) with which TLC finds it violated.

### Bounds

| Bound | Why it is enough |
|---|---|
| `Budget`: packets an end sends in an incarnation (1 to 3; 4 more after 6 in `slap_wrap`) | more than the window where the window is to move, acks to be partial, and numbers to be used again |
| `TxBufs`, `RxBufs`: 1 to 3 instead of the window and the window plus one | fewer buffers give the same orders with fewer frames on the line; full and empty lists both occur; the leak needs 2 and 3 |
| `MaxEpoch`: two incarnations of each end in `slap_session` | frames of an old incarnation meet a new one at either end, with the first packets of both under way |
| `MsgLen`: packets of one `AJ_SerialSend` call | 1, and 3 in `slap_live`: one call is longer than the window of 2 and waits inside |
| `ReadsWhole` (`slap_data`, `slap_wrap`, `slap_session`, `slap_live`) | reads that end inside a packet leave every list as it is, and are allowed in the other runs |
| `MaxWindow` 1, 2 and 4 | 3 has no code in a NEGO packet and is read as 1 by the peer; the theorems cover it |
| Line: `PacketSize` 2, three payloads, `MCScripts` | both bytes that are escaped occur in payloads and, for the first two packets, in the last byte of the checksum; overruns happen when a boundary is lost |
| Line: `MaxFaults` 1, `Noise` of the three special bytes | with two faults, boundaries only, and one transmit buffer, 950 000 states were checked as well; a byte that is not special can only fail the checksum |
| Line: `Pieces` 5 and 18, `Reads` 1 and 4, two buffers and two packets at each end | a callback may bring fewer bytes than the most, so that it may end anywhere; a read ends inside a packet or spans two |
| `NumReplyContexts` 2 | the value of `inc/aj_config.h` |
| `MaxCalls` 7: serial numbers of a connection in use | the six that starting a service takes, and one for the calls of the application, which is used again when nothing refers to it; with the second AddMatch still open the contexts run out |
| `MaxOnWay` 1 | messages are read one at a time and their number is not bounded |
| `MayRefuse` {"ADVERTISE"} | one of the three disposition codes that are not read; each of them gives the same steps, and errors refuse any step. The theorems cover all |
| Messages: `BufSize` 144 | messages shorter, and one longer, than the buffer, so that it is refilled, moved and found too small |
| Messages: `TheCases`, two or three operations of each application | every kind of message, argument and container, every access; those that depend on the byte order or on keys with each of them |
| Messages: `U16` | the lengths of the run are below 65536, so that the cut to 16 bits is in the definitions and not exercised (section 5) |
| Peers: `NumNames` 2 instead of 4 | names of earlier connections fill the table |
| Peers: the scenes of `MCPeer` | one attempt of each device with two or three on the bus; two of `n1`, to one peer or to two, with an application that waits for the calls of the first and with one that does not |
| Store: `NvSize` 26, `NumCreds` 2, five credentials of which one is not generic, two GUIDs | some pairs fit and some do not; compaction, eviction, the update of a longer credential and a store with no room all occur |

### Fairness

The thread takes a step when it can: the main loop calls `AJ_SerialRecv` again and again and `AJ_StateMachine` never blocks. The UART sends every buffer. Loss is not a
conspiracy: among copies of one packet that are sent again and again one arrives (strong fairness for each payload, `Arrives`). Nothing in `Next` keeps a timer from passing
at any time; two things must be said about them.

`slap_live` resends whenever the code may, also with frames and acks under way. `AllDelivered` and `SendReturns` are promised of a link that works (`LinkWorks`), which is two conditions on a behaviour:

* `ResendsPatient`: from some time on the resend timer passes only when nothing of an exchange is under way, that is, when no frame of the sender is before its peer and the peer owes, has queued or sends no ack. The code aims at this and does not ensure it:
  `AdjustTimeoutValues` sets two packet times for an ack and three for a resend (`src/aj_serial.c:118`), with no regard to how long either end takes to process. It is needed: without it a packet can be taken back to
  `txQueue` just before each of its acks arrives; `AJ_SerialTx_ReceivedAck` looks at `txSent` only and ignores the ack, so that the same packet goes round for ever, and TLC finds both properties violated.
* `NothingDropped` always: the leak of `slap_leak` has not happened. After it the packets that were dropped are never sent again.

So the run shows that impatient resends, however many and in whatever order with acks and losses, leave nothing behind from which patient ones do not recover.

In `slap_linkup` a link packet is sent again only after its predecessor has been processed (200 ms against a few milliseconds for a frame). Without that, CONN packets of one end can overwrite its ACPT answers in the one
reserved packet for ever. Two ends that both wait in `AJ_SerialSend` with all receive packets full do wait for ever (`AJ_ProcessRxBufferList` processes no acks then); `slap_live` therefore has one sending end.

In `service` all fairness is weak: the thread reads what there is, intervals of the link watcher pass, and the time of a call passes while there is nothing to be read (`AJ_TimedOutMethodCall` runs only when a read times out).
Nothing is assumed of the node, of the application, or of there being a node to connect to. What follows from that is in the disjuncts of `DeadLinkFound` and `CallsEnd`.

## 4. Proofs

TLAPS proves the following for every value of the constants that satisfies the assumptions of the modules; TLC evaluates those on each run. Liveness, and the properties named at the end of this
section, are model-checked only.

### Transport

`SlapProofs` proves for all constants that satisfy `SlapAssumption` (windows 1 to 4, any packet sizes, any numbers of buffers, packets and restarts):

* `TypeCorrect`: `Spec => []TypeOK`
* `UnreliableOnce`: `Spec => []UnreliableQueuedOnce`
* `UnreliableOnceUp`: both, for `SpecUp`
* `TimersAlwaysArmed`: `Spec => []TimersArmed`, and `TimersAlwaysArmedUp` for `SpecUp`
* `PacketsAlwaysConserved`: `Spec => []PacketsConserved`, and `PacketsAlwaysConservedUp` for `SpecUp`

`TypeOK` is not inductive: that `txSent` holds DATA packets only depends on `FillTxBuffers` meeting an unreliable packet nowhere but at the head of the queue. The
inductive invariant is `Inv == TypeOK /\ UnreliableQueuedOnce`. The lemmas on queues (`QueueUnreliableType`, `RequeueType`, `DropUnreliable`, `ConcatUnreliable`) carry the
argument; there is one lemma per action, put together in `NextInv`.

`TimersArmed` needs more: that a primed resend timer is set, and that an end that is not yet connected has nothing to resend, neither in `txSent` nor in `txQueue`;
otherwise the step to ACTIVE would leave packets without a timer. `TimersInv` adds these, end by end; each action lemma shows its own end, and that
the variables of the other end do not change.

`PacketsConserved` needs the order of all data that waits at one end: the packets of `txSent`, then those of `txQueue` behind the unreliable packet if there is one.
`ListsInv` says that their numbers increase and that there are at most `MaxWindow` of them, counting the free packets. A step drops some from the front (an ack), adds
one at the end (a write), moves the border (a send or a resend), or, behind an ACK at the head, keeps only the last of `txSent`; the operator `Behind` covers all but the write, and the
lemmas about it do not mention the actions.

`SlapOrderProofs` goes on from `ListsInv` to what the peer gets:

* `StreamAlwaysKept`: while no end has started over, what an end has received is the first packets its peer queued, in order and each once, for every end whose window fits (below)
* `AlwaysInOrder`: `[]InOrder`; `AckAlwaysExpectedSeq`: `[]AckIsExpectedSeq`; `FreedAlwaysAccepted`: `FreedWasAccepted`
* `SlapImplementsStream`: `StreamSpec`, that is, each step is an `Offer`, a `Receive` or a stutter of `SerialStream`

each for behaviours of `Spec` and of `SpecUp`. None of this is inductive: it depends on what is on the line. `OrderInv` says so for each direction (`Order`):

* `Held`: the packets in `txSent` and `txQueue` are in their places of the window, or later, as a resend may forget some; the next number is that of the packets queued.
* `Counted`, `Mirrored`: what has been acknowledged has been accepted, and that has been queued; the peer has received exactly what is counted as accepted, and both its counters, `expectedSeq` and
  `currentTxAck`, stand at it.
* `DataLine`: a DATA packet on its way is less than a window older than what has been accepted, and than every packet before it on the line. So are its copies; hence a packet with the expected
  three-bit number is the expected packet.
* `AckLine`: acks on their way, read as numbers from the oldest unacknowledged packet on (`Pos`), are of accepted packets and never decrease. Hence `SEQ_GT` covers only accepted packets, however late or repeated
  an ack is.

The line is first in, first out with losses (`Picked` says what losing does to a sequence), and this is used: frames that overtake each other by more than a window would break it.

The last four theorems have two hypotheses. `OneSession`: no end starts over; `StreamAlwaysKept` has this as a condition on the state instead, so that it also says something of the time before the first
restart. `SameWindows`: no window is 3, and the windows of both ends are the same (that of each end is at most that of the other). Both describe the code and not the proof. The sender's packets are as many as the window it asked
for, whatever is negotiated (`src/aj_serial_tx.c:167`), and a NEGO packet offers a window of 3 as 1. With windows 3 and 3, or 4 and 2, TLC finds `AckIsExpectedSeq` violated: a repeated packet is farther
back than the receiver's window, is taken for one ahead, and sets the ack number back. In those runs `InOrder` and `FreedWasAccepted` held, but not for a reason the proof could use.

Its last part proves, with `OneSession`:

* `PeerAlwaysTookMyOffer`: `[]PeerTookMyOffer`, for any windows and packet sizes
* `AlwaysAgree`: `[]BothActiveAgree`, if a window of 3 meets only 1 or 3 (`WindowsKnown`); with 3 and 4 TLC finds it violated

`LinkInv` follows the offers: an end works with its own values or with those it took from its peer; each NEGO it has queued or sent offers its own window and one of two packet sizes, and a NRSP exists only if it has
taken the peer's offer (`Offers`, `Carries`); and an end is ACTIVE only if its peer has answered. It rests on a fact that a reader of `AJ_Serial_LinkPacket` may miss: the values of an end change only once, because the
least of two values does not change when it is taken again.

### Line

`SlipProofs` proves for all constants that satisfy `SlipAssumption` (any packet size whose frames fit 16 bits, payloads, scripts, numbers of buffers and packets, pieces, noise and faults):

* `BuffersAlwaysInPlace`: `Spec => []BuffersInPlace`
* `FrameDecoded`: a receiver between frames turns the bytes of a DATA packet in sequence into its payload, and changes nothing else but what it should
* `SecondFrameHeard`: of two whole frames the second is found, in whatever state the receiver was
* `AlwaysResynchronised`: `Spec => []Resynchronised`

`InPlace` is the invariant of the first: the types, the counts of `BuffersInPlace`, and flags that are a little stronger than its own, because `AJ_FillTxBufferList` may clear `dataSent` only while a buffer is still to be sent. That the lists
hold encoded frames needs the codec: `EncodedFrame` says that all an end sends are frames (`FrameOf`) of packets that pass the checks of `CompletePacket` (`Packets`).

The codec is recursive: the checksum, escaping, `FlattenSeq`, and the decoder that takes byte after byte. The provers cannot instantiate the induction theorems of the library, so `Induct` and `SeqInduct` are stated with sets instead of
predicates and proved from the well-foundedness of `<`; the recursive functions are taken apart with them (`Iterated`, `CompleteFacts`, `EscapedAppend`). The lemmas go from bytes (`DecodeByte`: a byte, escaped or not, is added to the packet) to
data (`DecodeData`) and to frames: `FrameHeard` from a state between frames. From any other state a whole frame leads to one (`AfterFrame`): if its opening boundary is taken for a closing one, its bytes, of which none is a boundary
(`NoBoundary`), are flushed up to its own closing boundary (`Flushed`). Nothing about the checksum is used but that both ends compute the same two bytes.

`AlwaysResynchronised` is about what has gone before, and no variable keeps that. `History` says that there is a sequence of frames put on the line, whole where `clean` says so, which is what the decoder has had, followed by the bytes still to come
(`ToCome`: the buffer held, the queue, the line), and that the decoder is where those bytes take it from the start. Callbacks and `ProcessTake` move bytes within `ToCome`; `ProcessPut` moves them out of it. `Same` compares receivers up to what
an application's read changes.

### Service

`ServiceProofs` proves for all constants that satisfy `ServiceAssumption` (any number of reply contexts, at least the six calls that connecting takes, any number of messages on their way):

* `ServiceTypes`: `Spec => []TypeOK`
* `ContextsMatchCalls`: `Spec => []ContextsAreOpenCalls`, and `CallsEndOnce`: `Spec => []CallEndsOnce`
* `RunningIsAdvertised`: `Spec => []RunsAdvertised`
* `DeadAfterThreeProbes`: `Spec => DeadAfterProbes`

All hold with announcements that fail, any steps refused, and any number of calls of the application. None of the properties is inductive. The invariant, `CoreInv /\ RestInv` (`ServiceInvariant`), is made of named parts:

* `Consistent`: one context for each open call, none for others, in a connection that inherited none (`~left`). It gives `ContextsAreOpenCalls`, and `CallEndsOnce` because only a call with a context can end.
* `OneStep`, `Progress`: a call of `AJ_StartService` that has a context is the last call made, and the number of calls made says which step it is; so the answer
  that is found is the answer to the step the code waits for.
* `Asked`, `Truthful`: an unanswered call is of the kind its context says, and a success on its way was sent when the node had done what it says.
* `Achieved`: what the node has done or refused at each place of the thread. It gives `RunsAdvertised`.
* `WatchInv`: on a connection that found the watcher clear, the probes sent since the last message are those the watcher has counted, and the one it waits for.

A context is the first free slot: `FirstIn` shows that there is a first one, from the well-foundedness of `<`. Lemmas of operators (`ReleaseConsistent`, `AllocConsistent`, ...) say what
releasing a context and making a call do to each part, `UnmarshalGood` what every result of `AJ_UnmarshalMsg` has in common, and one lemma per action puts them together.

### Authentication

`PeerProofs` proves for all constants that satisfy `PeerAssumption` (any devices, suites, keys, approvals, numbers of names and scenes with any numbers of attempts and connections, patient applications or not):

* `PeerTypes`: `Spec => []TypeOK`
* `AnsweredAtMostOnce`: `Spec => []OneAnswer`
* `SecretsMadeByBoth`: `Spec => []MadeByBoth`
* `SucceedsWithFriends`: `Spec => []OnlyFriends`

`PeerAssumption` says of the start that a stored secret is of an earlier session, made by the two devices it is for, and that these share the pre-shared key or approve of each other (`Earlier`), and that
a unique name of the router is none of the names of devices. None of the properties is inductive. `PeerInv` says of each device (`DevOK`), in parts:

* `FieldsOK`, `MapOK`: a mapping of a unique name has the GUID of the device with that connection; so a message from a name is a message from the device of that GUID.
* `AnswersOK`: an attempt has one answer at most, and the one whose callback is still stored has none. It gives `OneAnswer`: a failing step completes the handshake, and so does its caller again, but completing clears
  the callback.
* `CallsOK`, `SecretsOK`.
* `HandshakeOK`, by way of `WithPeer`: whenever `state` is not NONE and the peer is known, the suite is one both have, and the secret was made by this device and that peer. This must hold although handlers
  of both roles write the one static context in any order.
* `HashOK`: a transcript of a pre-shared-key handshake that ends with the client's message contains this device's own key.

and of each message on its way (`MsgOK`, `BodyOK`, `VerifierOK`) who can have sent it, and that a verifier covers the key of its sender. This is the heart of `OnlyFriends`: a verifier that compares equal was made with the same
pre-shared key. There is one lemma for each handler, which says that the device it returns and the messages it sends are good (`Good`), `SendsOK` for the router, one lemma for each action, and `NextOK` puts them together.
That `LookupName` returns the first slot comes from the well-foundedness of `<`.

`PeerKeyProofs` goes on from `PeerInv`:

* `KeysAlwaysAgree`: `Spec => KeysAgree`

`KeysAgree` is about scenes with `patient`: the application waits for the calls of an attempt, answered or timed out, before it makes the next. Without that the property is false (section 5). Everything else is free:
both ends may start at once, calls time out, the handshake takes too long, secrets cannot be stored, devices disconnect in the middle and come back under another name, a third device replaces the mapping of one of the two.

`KeysAgree` speaks of the moment in which the last answer of a handshake is taken, and of keys that both put into their maps some messages ago, under names that may have changed since. So the invariant `KeysInv` is
about the queues of both devices:

* `OrderInv`: messages of one device are read in the order of its connections and calls (`InOrder`); a message of a connection that is over is followed by the news of its end; an answer is of a call that was made, and older than any call still to be read
  (`MessageOK`). A call that timed out may still be read and answered, and this is what tells the late answer from the one that is waited for.
* `NamesInv`: a map has one mapping of a device; it is of the connection the device has, or of one whose end is still to be read, and nothing older comes (`SlotOK`). A new mapping therefore never replaces the one in use by one of an older
  connection.
* `WaitsInv`: an attempt is with the peer that was asked for and has at most one call open; what is on its way of that call is between the two. This is where `patient` is needed: with two calls open, an answer is taken for the attempt that is not its own.
* `QuietInv`: a device with a handshake of its own under way has nothing on the way to the peer that the peer's handshake could go on with, and the peer's calls behind it are first calls. Two handshakes that cross can therefore not each take a half of the other's
  keys: the static context belongs to one of them at a time, on both sides.
* `ConfirmedInv`: when the answer to the last call is on its way, the map of the peer holds the key it is sealed with, in its role, and the group key of the one that reads it.

Two relations separate the handlers from the argument. `Handled(h, d, m)` is what any handler makes of a device and a message, as far as the attempt, the map and the message sent are concerned; there is one lemma for each handler (`GenSessionKeyHandled`, ...),
and `HandleHandled` for them all. `Moves` and `Goes` are what a step does to one device and to the queues, and how its attempt goes on (`Keeps`, `Continues`, `Begin`, or none any more); each part of `KeysInv` is kept by any such step, at the device
that makes it (`WaitsOwn`) and at the others (`WaitsOther`). `HandledMoves` and `HandledGoes` join the two; `SuccessAgrees` and `AnsweredByReading` derive the property.

### Store

`NvramProofs` and `CredsProofs` prove for all constants that satisfy `NvramAssumption` and `CredsAssumption` (any even size from a sentinel and two words up, below the half-word that marks free space; any number of slots; any
credentials with data of any length, so also those that never fit; any GUIDs). An id of a credential is not 0xFFFF, since that is what an interrupted write leaves to be read.

* `CompactionKeepsData`: `_AJ_CompactNVStorage` leaves a memory that is well formed, in which every data set is what it was, and no other is there
* `CredsTypeOK`, `CredsFileIsMemory`, `CredsOneSlotEach`, `CredsStoredIsFound`: `Spec => []P` for the four invariants of the run
* `CredsKeepsPromise`: `Spec => KeepsPromise`, that is, each step is a step of `CredStore` or a stutter

They hold for power failures anywhere. After one within a compaction the device is off for good (`"broken"`), so what they say of the memory they say until then; `CredStore` has a step of its own for it. What compaction does to the memory
when it is not interrupted is `CompactionKeepsData`.

A memory is described by what it holds for each id, and not by where: `Layout` and `Chain` say that headers lead from the sentinel to the free space, `Good` that in addition no id is there twice and that the free space is
erased, `Data(m, id)` is the data set of an id, and `Kept` says that those of other ids are as before. The lemmas of `NvramProofs` say that the walks find the entries of a layout (`StopIs`, `BoundsIs`, `FindEntry`) and what
deleting, creating and writing an entry, and compaction, do to `Data` (`DeleteFacts`, `CreateFacts`, `WriteFacts`, `CompactFacts`). Compaction goes entry by entry: `Compacted` says that what has been moved is a layout of the live entries so far
and that the rest has not been touched, which holds because an entry is never moved up (`MoveEntry`, `SkipEntry`). The recursive functions are taken apart by `UpTo` and `Recursion`, induction up to a bound from the
well-foundedness of `<`.

In `CredsProofs`, `Proper` is a good memory in which each slot is empty or has the first fields of a credential (`Part`: an interrupted write), no two have one name, there are no other data sets, and the first entry, if there is one, is the GUID's. None of the properties is
inductive, because what is in the file after a call depends on the writes it has still to make. `IInv` adds them:

* `FileProper`: the file is proper, or empty.
* `OffErased`: without power nothing is left of the memory and the writes.
* `WritesLead`: the writes in `todo`, made one after the other, lead from the file to the memory, and each is one of four steps (`DataStep`): no data changes, one credential is deleted, one gets
  one more of its fields, the GUID is made or written. All files on the way are proper. `WritesLead` gives `FileIsMemory` when nothing is left to write, and it is why a failure of the power costs only the write in progress.

There is one lemma for each operation that says that its writes lead on (`DeleteGoes`, `CompactGoes`, `CreateGoes`, `FieldsGo`, `UpdateGoes`, `OldestGoes`, `RoomGoes`, `StoreGoes`, `ClearGoes`, `GuidGoes`), then one for each
action. `StoreGoes` also says what has become of the credentials (`Outcome`): replaced, added behind some evictions, lost for want of room, or only the evictions. For the refinement, `Shown` is what can be read of a slot;
`OutcomeCalls` turns an `Outcome` into a call of `CredStore`, `DataStepWrites` a write into one of its writes, and `StepIs` puts the actions together.

### What stays with TLC

* Liveness (`LinkComesUp`, `AllDelivered`, `SendReturns`, `DeadLinkFound`, `CallsEnd`): the provers know nothing of fairness and of `ENABLED`.
* `StreamSpec` over restarts (`slap_session`): frames of two incarnations are on one line, and that the new one does not take the old ones follows from the exchange of CONN and ACPT; the invariant must join that of the
  negotiation with that of the order.
* The properties of `Message` (`TypeOK`, `ReadIsWritten`, `FramingKept`, `NotInTheClear`, `ChildrenListed`, `Understood`): signatures, arguments and containers are walked by recursive operators, in modules with which the
  provers lose their arithmetic, and by folds over operators, which the inductions of `SlipProofs` and `NvramProofs` do not reach. `Introspect` and `Marshal` would have to be rewritten with recursive functions, as `Nvram` and `Creds` are.
* What is left of a store after a power failure within a compaction: the file between two moves is not a chain, and the code reads beyond its entries (section 5); neither TLC nor the proofs go there.
* `ReadIsSent`: a checksum of 16 bits does not find every damage, so with other payloads and more faults the property is false. The run shows it for one fault in its payloads; `FrameDecoded` is the part of it that holds for all values, for frames that
  are not damaged.

## 5. Where the code differs from its comments

* `slap_leak`: `ResendPackets` behind a queued unreliable packet links in only the last packet of `txSent`; the others are lost (`src/aj_serial_tx.c:327`, comment at 315).

The rest has no run of its own. Where a run meets one of these, its property says so in a condition or a disjunct, which section 3 names; what no run meets was noted while modelling.

**Transport.**

* More packets are sent than the negotiated window; the assertion of `txSentPending` (`src/aj_serial_tx.c:486`) fails when the peer's window is smaller.
* A link that becomes ACTIVE by a NRSP received before the peer's NEGO has not converged (comment at `src/aj_serial.c:126`); packets too long for the peer are resent for ever.
* `dataSent` stays FALSE over a restart although all buffers are free (`src/aj_serial.c:462`): the restarted end may never send.
* The decoder stores an escaped byte without the test of room (`src/aj_serial_rx.c:518`, `522`) that other bytes get, although an overlong frame is to be discarded (comment at 552): a full packet followed by an
  escaped byte is written past its end, and as the test for an overrun is for equality it is not found after that. The model stores these bytes and reads them back.
* A partial read moves up to four bytes more than are left (`src/aj_serial_rx.c:331`). An overrun, or a bad escape near a boundary, costs the next frame as well. `AJ_SerialRX_Reset` is not called.

**Service.**

* `AJ_StartService` disconnects when a step fails, but returns the status of an announcement that cannot be sent without `AJ_Disconnect` (`src/aj_helper.c:359`). The next `AJ_FindBusAndConnect` starts with the reply contexts of that connection in
  use: `ContextsAreOpenCalls` does not hold on the new connection, whose second call may find no context, and a reply of the new connection may be taken for that to a call of the old one. The run takes this path (`left`).
* The replies to BindSessionPort, RequestName and AdvertiseName say in a disposition code whether the node has done it (`src/aj_std.c:89`, `116`, `120`). `AJ_StartService` does not read it (317 to 345), `AJ_StartClient` does (506, 546): a service may run that
  nobody can find. `RunsAdvertised` therefore says "done or refused".
* The timeouts of method calls are handled as messages and clear the link watcher (`src/aj_helper.c:232`), so that an application that makes a call that times out in every link timeout keeps a dead link for ever (first disjunct of `DeadLinkFound`).
* Method calls time out only when a read has found nothing for its whole time (`src/aj_msg.c:879`): steady traffic delays them without bound (first disjunct of `CallsEnd`).
* The link watcher keeps its timers and its count over a new connection (`src/aj_link_timeout.c:46`), which can be given up with no probe sent on it (comment at `inc/aj_link_timeout.h:27`).
* `AJ_Authenticate` overwrites the `AJ_ERR_TIMEOUT` of a failed Hello with the status of AddMatch (`src/aj_connect.c:231`), so that a bus can be connected without a
  unique name, although `AJ_GetUniqueName` is documented to return NULL only when it is not connected.
* `RunExpiredTimers` clears the slot of a one-shot timer after its handler has run, and with it a timer the handler has set there; it does not account for earlier slots that a handler sets; and its
  result, a time, is used as a timeout.

**Messages and introspection.**

* `AJ_DeliverMsg` delivers a message whose arguments are incomplete, although `inc/aj_msg.h` says `AJ_ERR_MARSHAL`; `MarshalMsg` ignores failures of header fields, and `VMarshalArgs` those of containers.
* `AJ_MarshalArgs` and `AJ_UnmarshalArgs` stop after a struct that is closed ("(su)u").
* Arrays of scalars are converted with their length in bytes as the number of elements (`src/aj_msg.c:638`): what is behind an array of 2, 4 or 8-byte numbers of the other byte order is changed, in the body, behind the message, or
  behind the buffer. The run does this (`spoilt`, `outside`), and `TypeOK`, `ReadIsWritten` and `FramingKept` hold of what is left.
* Arrays that are skipped are not converted, so that `AJ_ResetArgs`, which declares the body to be in the host's order (`src/aj_msg.c:812`), makes them be read wrongly, or as lengths that lead out of the body. `inc/aj_msg.h:244` asks that all arguments be unmarshaled before, so that conversions are correct; the code skips those that have not been. The run does this too.
* `LoadBytes` takes its length in 16 bits (`src/aj_msg.c:407`) where its callers have 32 (627, 711, 1069), and `arg->len` has 16: a length of 65536 or more is cut, passes the test of room, and the whole length is then skipped. The definitions cut it;
  no sender of the run makes such a message.
* The eight bytes of the MAC stay in the length of an encrypted message after decryption, so that `AJ_ResetArgs` of one with arguments fails.
* A variant in a variant that is skipped leaves the offset into the signature where it was; that offset is eight bits wide.
* `AJ_UnmarshalRaw` reckons with a header of 8 bytes instead of 16, and returns no bytes when the buffer is full.
* Failures before the header has been loaded return from `AJ_UnmarshalMsg` without closing the message (`src/aj_msg.c:901`, `913`, `924`).
* An object that is disabled while its call is handled makes `AJ_MarshalReplyMsg` fail, and `AJ_DeliverMsg` then succeeds with nothing sent.
* `MatchProp` takes a prefix for a match, and an unknown interface for success (`inc/aj_introspect.h:316`); a property whose access mark follows its name is not handled; `AJ_GetMemberType` gives the mark of sessionless signals as their type.
* An object that is listed after its child loses its interfaces in introspection; an encrypted request is never answered; the flags of the third list are masked (`&= IS_PROXY`); `AJ_HandleGetDescriptionLanguages` skips the first language.
* `AJ_MarshalStatusMsg` clears the flags of an `AJ_ERR_SECURITY`, so that this error is sent in the clear.

**Authentication.**

* `inc/aj_peer.h:94` and `109` promise a callback when the authentication completes or fails. It never comes when a newer attempt is made before the GUIDs are exchanged (`src/aj_peer.c:394`), when a peer's handshake crosses the device's own (438), when a late
  timeout of ExchangeGroupKeys clears the context (1355), and when the device disconnects, which only clears the context (`src/aj_connect.c:507`). `OneAnswer` says at most once.
* The callback is called before the context is cleared (`src/aj_peer.c:266`): an attempt that the callback itself begins is forgotten at once. Not modelled.
* The reply to ExchangeGUIDs of one attempt is taken with the name and the callback of the next (`src/aj_peer.c:558`): for a scene that is not `patient`, TLC finds success reported for a peer that has no such key.
* A secret whose verifier does not match is meant to be deleted (`src/aj_peer.c:302`), but that branch is not reached: the two devices fail until one of them forgets it otherwise.
* The session key is set before the verifier is compared. A responder that cannot store the secret does not reply (1091). The mapping of a name is cleared when its peer authenticates in the other direction (`src/aj_guid.c:93`).
* A responder completes with success, and stores the secret, when it has checked the initiator's certificates; the initiator may then refuse those of the responder (`src/aj_peer.c`, `AJ_PeerHandleKeyAuthentication`).
* Without a certificate chain, ECDSA fails at its initialisation, although the comment says there may be none (`src/aj_keyauthentication.c:255`).

**Store.**

* `AJ_StoreCredential` tries for ever when nothing can be evicted (`src/aj_creds.c:449`), where `inc/aj_creds.h:60` promises `AJ_ERR_RESOURCES`. This is `pc = "stuck"`, and the step `Hang` of `CredStore`.
* A write that is interrupted leaves a credential that is found, with blank data, or a GUID of ones; one that ends inside the header of the credential makes `AJ_DeleteOldestCredential` fail.
* Compaction writes the file after each entry it moves (`target/fc3180/aj_target_nvram.c:113`): if the power fails in between, the headers no longer chain and what is behind is lost, or an entry is there twice. This is `PowerFailsInCompaction`, and the step `Breaks` of `CredStore`.
* An update deletes the old credential before it knows that the new one fits (`src/aj_nvram.c:187`): a full store, or a power failure, loses both. `CredStore` allows it (`Delete`, and `Erase` of the credential that is being stored).
* `AJ_NVRAM_Create` compacts the store under handles that are open (`src/aj_nvram.c:131`), which then point into other entries. `aj_creds.c` has one handle open at a time, so the model has one.
* A write that does not end with a word leaves an uninitialised byte of `tmpBuf` behind it (`src/aj_nvram.c:258`), until the next write puts it right.

## 6. Not modelled, and the plan

1. `Timers`: the four timers of `src/aj_helper.c` in the main loop of `Service`, with handlers that set and cancel; `AJ_StartClient`.
2. A DISC whose answer is lost, and `AJ_SerialSend` of both ends with all packets full: liveness of the transport where it does not hold.
3. Discovery, the SASL lines and what else comes before Hello: one exchange after another over a connection of its own, not used over the serial line.
4. Composition: messages over `SerialStream`, and `Peer` over `Message`; each is checked over the promise of the lower one (an ordered stream; a message understood as it was sent).
5. Proofs: the order of the stream, and the negotiation, over restarts.

Out of scope: cryptography and hashing (arithmetic on large numbers with no interaction), certificates' encoding, descriptions and the wording of introspection XML, the icon and the content of announcements, logging and
tables of names, and the target port of the board (sockets, clocks, the Java side), which keeps no protocol state of its own.
