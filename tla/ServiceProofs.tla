--------------------------- MODULE ServiceProofs ---------------------------
(***************************************************************************)
(* Theorems about Service for any number of reply contexts, calls and      *)
(* messages on their way: its types, the reply contexts, and that a        *)
(* service that runs has had its steps answered and is announced.  The     *)
(* contexts a failed start may leave to the next connection are part of    *)
(* all of them.                                                            *)
(***************************************************************************)
EXTENDS Service, WellFoundedInduction, FiniteSetTheorems, SequenceTheorems, TLAPS

StepKind == {"BIND", "REQUEST", "ADVERTISE"}

\* Every connection makes its calls in the same order.
KindOf(s) ==
  IF s = 1 THEN "HELLO" ELSE IF s \in 2..3 THEN "ADD_MATCH" ELSE IF s = 4 THEN "BIND"
  ELSE IF s = 5 THEN "REQUEST" ELSE IF s = 6 THEN "ADVERTISE" ELSE "APP"

\* The calls that are made.
Made == {k \in Call : k.kind = KindOf(k.serial)}
Contexts == [Slot -> Made \cup {Free}]
Fates == [1..MaxCalls -> {"none", "open", "ended", "ended twice"}]

\* The node has said what has become of a step.
Done(k, facts) == FactOf[k] \in facts \/ RefusalOf[k] \in facts

(***************************************************************************)
(* The inductive invariant, as conjuncts about contexts c, fates f, the    *)
(* next serial number n, the place p, messages q and facts.                *)
(***************************************************************************)
\* One context for each open call, and no other is in use.
Consistent(c, f) ==
  /\ \A i \in Slot : c[i] # Free => f[c[i].serial] = "open"
  /\ \A i, j \in Slot : c[i] # Free /\ c[i].serial = c[j].serial => i = j
  /\ \A s \in 1..MaxCalls : f[s] = "open" => \E i \in Slot : c[i].serial = s
  /\ \A s \in 1..MaxCalls : f[s] # "ended twice"

\* The calls of connecting and starting that are open have been made.
Past(f, n) == \A s \in 1..6 : f[s] = "open" => s < n

\* A call that is a step of AJ_StartService is the last that was made.
OneStep(c, p, n) ==
  /\ \A i \in Slot : c[i].kind \in StepKind => p = "start" /\ n \in 5..7 /\ c[i].serial = n - 1
  /\ \A i, j \in Slot : c[i].kind \in StepKind /\ c[j].kind \in StepKind => i = j

\* The place of the thread and the calls it has made agree.
Progress(p, n) ==
  /\ p \in Place /\ n \in 1..7
  /\ (p = "hello" => n = 2) /\ (p = "match" => n = 3) /\ (p = "bind" => n = 4)
  /\ (p = "start" => n \in 5..7)

\* The node has done, or refused, what a reply on its way answers.
Truthful(q, facts) ==
  \A m \in 1..Len(q) :
    q[m].type = "RET" /\ KindOf(q[m].serial) \in StepKind => Done(KindOf(q[m].serial), facts)

\* What the node has done when the thread is at p.
Achieved(p, n, up, facts) ==
  /\ facts \subseteq Fact
  /\ p = "start" => (n >= 6 => Done("BIND", facts)) /\ (n >= 7 => Done("REQUEST", facts))
  /\ p = "run" => (\A k \in StepKind : Done(k, facts)) /\ (up => "announced" \in facts)

CoreInv ==
  /\ ctx \in Contexts /\ fate \in Fates /\ left \in BOOLEAN
  /\ ~left => Consistent(ctx, fate) /\ Past(fate, serial)
  /\ OneStep(ctx, pc, serial)
  /\ Progress(pc, serial)
  /\ asked \subseteq Made
  /\ toBus \in Seq(NodeMsg) /\ Truthful(toBus, node)
  /\ Achieved(pc, serial, net = "up", node)
  /\ net \in {"up", "silent", "broken"}
  /\ pc = "down" => ctx = AllFree /\ toBus = <<>> /\ asked = {}

\* The variables the thread keeps besides its calls.
WatchType == [on : BOOLEAN, linkTimer : BOOLEAN, pingTimer : BOOLEAN, timedOut : 0..2]
RestType ==
  /\ aboutPort \in BOOLEAN /\ doAnnounce \in BOOLEAN
  /\ watch \in WatchType
  /\ probed \in BOOLEAN /\ probes \in 0..4 /\ stale \in BOOLEAN

-----------------------------------------------------------------------------
\* Reply contexts.

\* First is the least of a set of slots.
LEMMA FirstIn ==
  ASSUME NEW S \in SUBSET Slot, S # {}
  PROVE  First(S) \in S
<1>1. \E i \in S : \A j \in S : i <= j
  <2> DEFINE less == OpToRel(<, Nat)
  <2>1. S \subseteq Nat
    BY ServiceAssumption DEF Slot
  <2>2. \A i, j \in Nat : <<i, j>> \in less <=> i < j
    BY DEF OpToRel
  <2>3. IsWellFoundedOn(less, Nat)
    BY NatLessThanWellFounded
  <2> HIDE DEF less
  <2>4. PICK i \in S : \A j \in S : <<j, i>> \notin less
    BY <2>1, <2>3, WFMin, Zenon
  <2>5. \A j \in S : i <= j
    <3> SUFFICES ASSUME NEW j \in S PROVE i <= j
      OBVIOUS
    <3>1. i \in Nat /\ j \in Nat
      BY <2>1
    <3>2. ~(j < i)
      BY <2>2, <2>4, <3>1, Zenon
    <3> QED
      BY <3>1, <3>2
  <2> QED
    BY <2>5
<1> QED
  BY <1>1 DEF First

LEMMA FreeFacts ==
  /\ Free \notin Call /\ Free \notin Made /\ Free.serial = 0 /\ Free.kind = "none"
  /\ Free.kind \notin StepKind
BY DEF Free, Call, Made, StepKind

\* A slot with a serial number is in use, and one without is not.
LEMMA InUse ==
  ASSUME NEW c \in Contexts, NEW i \in Slot
  PROVE  /\ c[i].serial = 0 <=> c[i] = Free
         /\ c[i] # Free => /\ c[i] \in Call /\ c[i].serial \in 1..MaxCalls
                           /\ c[i].kind = KindOf(c[i].serial)
<1>1. c[i] \in Made \/ c[i] = Free
  BY DEF Contexts
<1>2. c[i] \in Made => c[i] \in Call /\ c[i].serial \in 1..MaxCalls /\ c[i].kind = KindOf(c[i].serial)
  BY DEF Made, Call
<1>3. c[i] \in Made => c[i].serial # 0
  BY <1>2, ServiceAssumption
<1> QED
  BY <1>1, <1>2, <1>3, FreeFacts

\* Releasing a context ends its call, once.
LEMMA ReleaseConsistent ==
  ASSUME NEW c \in Contexts, NEW f \in Fates, Consistent(c, f), NEW i \in Slot, c[i] # Free
  PROVE  /\ f[c[i].serial] = "open"
         /\ Consistent([c EXCEPT ![i] = Free], [f EXCEPT ![c[i].serial] = "ended"])
<1> DEFINE d == [c EXCEPT ![i] = Free]
           g == [f EXCEPT ![c[i].serial] = "ended"]
<1>1. f[c[i].serial] = "open" /\ c[i].serial \in 1..MaxCalls
  BY InUse DEF Consistent
<1>2. \A j \in Slot : d[j] = IF j = i THEN Free ELSE c[j]
  BY DEF Contexts
<1>3. \A s \in 1..MaxCalls : g[s] = IF s = c[i].serial THEN "ended" ELSE f[s]
  BY DEF Fates
<1> HIDE DEF d, g
<1>4. \A j \in Slot : d[j] # Free => g[d[j].serial] = "open"
  <2> SUFFICES ASSUME NEW j \in Slot, d[j] # Free PROVE g[d[j].serial] = "open"
    OBVIOUS
  <2>1. j # i /\ d[j] = c[j]
    BY <1>2
  <2>2. c[j].serial # c[i].serial /\ f[c[j].serial] = "open" /\ c[j].serial \in 1..MaxCalls
    BY <2>1, InUse DEF Consistent
  <2> QED
    BY <2>1, <2>2, <1>3
<1>5. \A j, k \in Slot : d[j] # Free /\ d[j].serial = d[k].serial => j = k
  <2> SUFFICES ASSUME NEW j \in Slot, NEW k \in Slot, d[j] # Free, d[j].serial = d[k].serial
               PROVE  j = k
    OBVIOUS
  <2>1. j # i /\ d[j] = c[j] /\ c[j] # Free
    BY <1>2
  <2>2. k # i
    <3>1. c[j].serial # 0
      BY <2>1, InUse
    <3> QED
      BY <1>2, <2>1, <3>1, FreeFacts
  <2>3. d[k] = c[k]
    BY <1>2, <2>2
  <2>4. c[j].serial = c[k].serial
    BY <2>1, <2>3
  <2> QED
    BY <2>1, <2>4 DEF Consistent
<1>6. \A s \in 1..MaxCalls : g[s] = "open" => \E j \in Slot : d[j].serial = s
  <2> SUFFICES ASSUME NEW s \in 1..MaxCalls, g[s] = "open" PROVE \E j \in Slot : d[j].serial = s
    OBVIOUS
  <2>1. s # c[i].serial /\ f[s] = "open"
    BY <1>3
  <2>2. PICK j \in Slot : c[j].serial = s
    BY <2>1 DEF Consistent
  <2> QED
    BY <1>2, <2>1, <2>2
<1>7. \A s \in 1..MaxCalls : g[s] # "ended twice"
  <2> SUFFICES ASSUME NEW s \in 1..MaxCalls PROVE g[s] # "ended twice"
    OBVIOUS
  <2>1. f[s] # "ended twice"
    BY DEF Consistent
  <2> QED
    BY <1>3, <2>1
<1> QED
  BY <1>1, <1>4, <1>5, <1>6, <1>7 DEF Consistent, d, g

\* A call takes a free context.
LEMMA AllocContext ==
  ASSUME NEW c \in Contexts, HasFree(c), NEW s \in 1..MaxCalls, NEW kind \in Kind, kind = KindOf(s)
  PROVE  /\ AJ_AllocReplyContext(c, s, kind) \in Contexts
         /\ \E k \in Slot : /\ c[k] = Free
                            /\ \A i \in Slot : AJ_AllocReplyContext(c, s, kind)[i] =
                                 IF i = k THEN [serial |-> s, kind |-> kind] ELSE c[i]
<1> DEFINE k == First(FindReplyContext(c, 0))
<1>1. k \in Slot /\ c[k] = Free
  <2>1. k \in FindReplyContext(c, 0)
    BY FirstIn DEF HasFree, FindReplyContext
  <2> QED
    BY <2>1, InUse DEF FindReplyContext
<1>2. [serial |-> s, kind |-> kind] \in Made
  BY DEF Made, Call
<1> QED
  BY <1>1, <1>2 DEF AJ_AllocReplyContext, Contexts

\* Making a call opens it, where no context has its serial number.
LEMMA AllocConsistent ==
  ASSUME NEW c \in Contexts, NEW f \in Fates, Consistent(c, f), HasFree(c), NEW s \in 1..MaxCalls,
         FindReplyContext(c, s) = {}, NEW kind \in Kind, kind = KindOf(s)
  PROVE  Consistent(AJ_AllocReplyContext(c, s, kind), [f EXCEPT ![s] = "open"])
<1> DEFINE new == [serial |-> s, kind |-> kind]
           d == AJ_AllocReplyContext(c, s, kind)
           g == [f EXCEPT ![s] = "open"]
<1>1. PICK k \in Slot : c[k] = Free /\ \A i \in Slot : d[i] = IF i = k THEN new ELSE c[i]
  BY AllocContext
<1> HIDE DEF d
<1>2. \A t \in 1..MaxCalls : g[t] = IF t = s THEN "open" ELSE f[t]
  BY DEF Fates
<1> HIDE DEF g
<1>3. \A i \in Slot : c[i].serial # s
  BY DEF FindReplyContext
<1>4. \A i \in Slot : d[i] # Free => g[d[i].serial] = "open"
  <2> SUFFICES ASSUME NEW i \in Slot, d[i] # Free PROVE g[d[i].serial] = "open"
    OBVIOUS
  <2>1. CASE i = k
    BY <1>1, <1>2, <2>1
  <2>2. CASE i # k
    <3>1. d[i] = c[i] /\ c[i] # Free
      BY <1>1, <2>2
    <3>2. f[c[i].serial] = "open" /\ c[i].serial \in 1..MaxCalls
      BY <3>1, InUse DEF Consistent
    <3> QED
      BY <1>2, <3>1, <3>2
  <2> QED
    BY <2>1, <2>2
<1>5. \A i, j \in Slot : d[i] # Free /\ d[i].serial = d[j].serial => i = j
  <2>1. \A i, j \in Slot : c[i] # Free /\ c[i].serial = c[j].serial => i = j
    BY DEF Consistent
  <2>2. new.serial = s
    OBVIOUS
  <2> QED
    BY <1>1, <1>3, <2>1, <2>2
<1>6. \A t \in 1..MaxCalls : g[t] = "open" => \E i \in Slot : d[i].serial = t
  <2> SUFFICES ASSUME NEW t \in 1..MaxCalls, g[t] = "open" PROVE \E i \in Slot : d[i].serial = t
    OBVIOUS
  <2>1. CASE t = s
    BY <1>1, <2>1
  <2>2. CASE t # s
    <3>1. PICK i \in Slot : c[i].serial = t
      BY <1>2, <2>2 DEF Consistent
    <3>2. i # k
      BY <1>1, <3>1, FreeFacts
    <3> QED
      BY <1>1, <3>1, <3>2
  <2> QED
    BY <2>1, <2>2
<1>7. \A t \in 1..MaxCalls : g[t] # "ended twice"
  <2> SUFFICES ASSUME NEW t \in 1..MaxCalls PROVE g[t] # "ended twice"
    OBVIOUS
  <2>1. f[t] # "ended twice"
    BY DEF Consistent
  <2> QED
    BY <1>2, <2>1
<1> QED
  BY <1>4, <1>5, <1>6, <1>7 DEF Consistent, d, g

LEMMA AllFreeFacts ==
  AllFree \in Contexts /\ (\A i \in Slot : AllFree[i] = Free) /\ HasFree(AllFree)
<1>1. 1 \in Slot
  BY ServiceAssumption DEF Slot
<1>2. 1 \in FindReplyContext(AllFree, 0)
  BY <1>1, FreeFacts DEF FindReplyContext, AllFree
<1> QED
  BY <1>2 DEF AllFree, Contexts, HasFree

\* Without a connection no call is open.
LEMMA DroppedConsistent ==
  ASSUME NEW f \in Fates
  PROVE  /\ Dropped(f) \in Fates
         /\ (\A s \in 1..MaxCalls : f[s] # "ended twice") => Consistent(AllFree, Dropped(f))
         /\ \A n : Past(Dropped(f), n)
<1>1. Dropped(f) \in Fates
  BY DEF Fates, Dropped
<1>2. \A s \in 1..MaxCalls : Dropped(f)[s] # "open" /\ (Dropped(f)[s] = "ended twice" => f[s] = "ended twice")
  BY DEF Dropped, Fates
<1>3. 1..6 \subseteq 1..MaxCalls
  BY ServiceAssumption
<1> QED
  BY <1>1, <1>2, <1>3, AllFreeFacts DEF Consistent, Past

-----------------------------------------------------------------------------
\* What AJ_UnmarshalMsg returns.

RestOf(q) == IF q = <<>> THEN q ELSE Tail(q)

\* What remains after a result: contexts that have not been released.
Remains(r) ==
  /\ r.ctx \in Contexts /\ r.fate \in Fates
  /\ ~left => Consistent(r.ctx, r.fate) /\ Past(r.fate, serial)
  /\ \A i \in Slot : r.ctx[i] = ctx[i] \/ r.ctx[i] = Free
  /\ r.rest \in {toBus, RestOf(toBus)}

\* The answer to a step of AJ_StartService is the one awaited, and true.
GoodResult(r) ==
  /\ Remains(r)
  /\ r.kind \in StepKind =>
       /\ pc = "start" /\ serial \in 5..7 /\ r.kind = Steps[serial - 4]
       /\ \A i \in Slot : r.ctx[i].kind \notin StepKind
       /\ r.status = "OK" /\ ~IsError(r) => Done(r.kind, node)

\* A result that ends no call.
LEMMA ResultGood ==
  ASSUME CoreInv, NEW status, NEW type
  PROVE  GoodResult(Result(status, type, "none"))
BY DEF GoodResult, Remains, Result, CoreInv, RestOf, StepKind

\* A result that ends the call of a context in use: a reply that is true, or an error.
LEMMA EndedGood ==
  ASSUME CoreInv, NEW i \in Slot, ctx[i] # Free, NEW status, NEW type,
         type \in {"ERR", "INT"} \/ status # "OK"
           \/ (ctx[i].kind \in StepKind => Done(ctx[i].kind, node))
  PROVE  GoodResult(Ended(status, type, i))
<1> DEFINE r == Ended(status, type, i)
           c == [ctx EXCEPT ![i] = Free]
           s == ctx[i].serial
           f == [fate EXCEPT ![s] = IF @ = "open" THEN "ended" ELSE "ended twice"]
<1>1. ctx \in Contexts /\ fate \in Fates
  BY DEF CoreInv
<1>2. s \in 1..MaxCalls /\ ctx[i].kind = KindOf(s)
  BY <1>1, InUse
<1>3. /\ r.ctx = c /\ r.fate = f /\ r.rest = RestOf(toBus)
      /\ r.kind = ctx[i].kind /\ r.status = status /\ r.type = type
  BY DEF Ended, Result, Release, RestOf
<1>4. c \in Contexts /\ f \in Fates /\ \A j \in Slot : c[j] = ctx[j] \/ c[j] = Free
  BY <1>1, <1>2 DEF Contexts, Fates
<1>5. ASSUME ~left PROVE Consistent(c, f) /\ Past(f, serial)
  <2>1. Consistent(ctx, fate) /\ Past(fate, serial)
    BY <1>5 DEF CoreInv
  <2>2. fate[s] = "open" /\ Consistent(c, [fate EXCEPT ![s] = "ended"])
    BY <1>1, <2>1, ReleaseConsistent
  <2>3. f = [fate EXCEPT ![s] = "ended"]
    BY <2>2
  <2>4. \A t \in 1..6 : f[t] = "open" => fate[t] = "open"
    <3>1. \A t \in 1..MaxCalls : f[t] = "open" => fate[t] = "open"
      BY <1>1, <2>3 DEF Fates
    <3> QED
      BY <3>1, ServiceAssumption
  <2> QED
    BY <2>1, <2>2, <2>3, <2>4 DEF Past
<1>6. ASSUME ctx[i].kind \in StepKind
      PROVE  /\ pc = "start" /\ serial \in 5..7 /\ ctx[i].kind = Steps[serial - 4]
             /\ \A j \in Slot : c[j].kind \notin StepKind
  <2>1. /\ pc = "start" /\ serial \in 5..7 /\ s = serial - 1
        /\ \A j \in Slot : ctx[j].kind \in StepKind => j = i
    BY <1>6 DEF CoreInv, OneStep
  <2>2. ctx[i].kind = Steps[serial - 4]
    BY <1>2, <2>1 DEF KindOf, Steps
  <2>3. \A j \in Slot : c[j] = IF j = i THEN Free ELSE ctx[j]
    BY <1>1 DEF Contexts
  <2> QED
    BY <2>1, <2>2, <2>3, FreeFacts
<1>7. ASSUME r.kind \in StepKind, r.status = "OK", ~IsError(r) PROVE Done(r.kind, node)
  BY <1>3, <1>7 DEF IsError
<1>8. GoodResult(r)
  <2> HIDE DEF r, c, f
  <2> QED
    BY <1>3, <1>4, <1>5, <1>6, <1>7 DEF GoodResult, Remains
<1> QED
  BY <1>8

LEMMA UnmarshalGood ==
  ASSUME CoreInv, NEW r \in AJ_UnmarshalMsg
  PROVE  GoodResult(r)
<1>1. CASE toBus # <<>>
  <2> DEFINE m == Head(toBus)
             found == FindReplyContext(ctx, m.serial)
  <2>1. m \in NodeMsg /\ m = toBus[1] /\ 1 \in 1..Len(toBus) /\ r \in AJ_IdentifyMessage(m)
    BY <1>1 DEF CoreInv, AJ_UnmarshalMsg
  <2>2. CASE m.type \in {"SIG", "CALL"}
    BY <2>1, <2>2, ResultGood DEF AJ_IdentifyMessage
  <2>3. CASE m.type = "STRAY"
    <3>1. PICK sent \in Sends : r = Result(IF sent THEN "OK" ELSE "WRITE", "none", "none")
      BY <2>1, <2>3 DEF AJ_IdentifyMessage
    <3> QED
      BY <3>1, ResultGood
  <2>4. CASE m.type \in {"RET", "ERR", "BAD"}
    <3>1. r \in (IF found = {} THEN {Result("NO_MATCH", m.type, "none")}
                 ELSE IF m.type = "BAD" THEN {Ended("SIGNATURE", "BAD", First(found))}
                 ELSE {Ended("OK", m.type, First(found))})
      BY <2>1, <2>4 DEF AJ_IdentifyMessage
    <3>2. CASE found = {}
      BY <3>1, <3>2, ResultGood
    <3>3. CASE found # {}
      <4> DEFINE i == First(found)
      <4>1. i \in Slot /\ ctx[i].serial = m.serial
        BY <3>3, FirstIn DEF FindReplyContext
      <4>2. m.serial \in 1..MaxCalls
        BY <2>1, <2>4 DEF NodeMsg, Reply, Request
      <4>3. ctx[i] # Free
        BY <4>1, <4>2, FreeFacts
      <4>4. m.type = "RET" => (ctx[i].kind \in StepKind => Done(ctx[i].kind, node))
        <5>1. ctx[i].kind = KindOf(m.serial)
          BY <4>1, <4>3, InUse DEF CoreInv
        <5>2. m.type = "RET" /\ KindOf(m.serial) \in StepKind => Done(KindOf(m.serial), node)
          BY <2>1 DEF CoreInv, Truthful
        <5> QED
          BY <5>1, <5>2
      <4> HIDE DEF i
      <4>5. r = Ended("SIGNATURE", "BAD", i) \/ r = Ended("OK", m.type, i)
        BY <3>1, <3>3 DEF i
      <4>6. CASE m.type = "BAD"
        <5>1. r = Ended("SIGNATURE", "BAD", i)
          BY <3>1, <3>3, <4>6 DEF i
        <5> QED
          BY <5>1, <4>1, <4>3, EndedGood
      <4>7. CASE m.type # "BAD"
        <5>1. r = Ended("OK", m.type, i)
          BY <3>1, <3>3, <4>7 DEF i
        <5> QED
          BY <5>1, <4>1, <4>3, <4>4, <4>7, <2>4, EndedGood
      <4> QED
        BY <4>6, <4>7
    <3> QED
      BY <3>2, <3>3
  <2> QED
    BY <2>1, <2>2, <2>3, <2>4 DEF NodeMsg, Reply, Request
<1>2. CASE toBus = <<>>
  <2>1. CASE r \in AJ_TimedOutMethodCall
    <3>1. PICK i \in Slot : ctx[i].serial # 0 /\ r = Ended("OK", "INT", i)
      BY <2>1 DEF AJ_TimedOutMethodCall
    <3>2. ctx[i] # Free
      BY <3>1, FreeFacts
    <3> QED
      BY <3>1, <3>2, EndedGood
  <2>2. CASE r \in {Result("READ", "none", "none"), Result("TIMEOUT", "none", "none")}
    BY <2>2, ResultGood
  <2> QED
    BY <1>2, <2>1, <2>2 DEF AJ_UnmarshalMsg
<1> QED
  BY <1>1, <1>2

-----------------------------------------------------------------------------
\* What steps of the thread keep.

\* The messages left when one has been read, and more facts.
LEMMA MessagesKept ==
  ASSUME CoreInv, NEW q \in {toBus, RestOf(toBus)}, NEW facts, node \subseteq facts
  PROVE  q \in Seq(NodeMsg) /\ Truthful(q, facts)
<1>1. toBus \in Seq(NodeMsg)
  BY DEF CoreInv
<1>2. q \in Seq(NodeMsg) /\ \A m \in 1..Len(q) : \E k \in 1..Len(toBus) : q[m] = toBus[k]
  <2>1. CASE q = toBus
    BY <1>1, <2>1
  <2>2. CASE toBus # <<>> /\ q = Tail(toBus)
    BY <1>1, <2>2
  <2> QED
    BY <2>1, <2>2 DEF RestOf
<1>3. \A k : Done(k, node) => Done(k, facts)
  BY DEF Done
<1> QED
  BY <1>2, <1>3 DEF CoreInv, Truthful

LEMMA AchievedKept ==
  ASSUME CoreInv, NEW facts \in {node, node \cup {"announced"}}
  PROVE  Achieved(pc, serial, net = "up", facts)
<1>1. \A k : Done(k, node) => Done(k, facts)
  BY DEF Done
<1> QED
  BY <1>1 DEF CoreInv, Achieved, Fact

\* A thread that reads on.
LEMMA StayInv ==
  ASSUME CoreInv, pc # "down", NEW r, Remains(r), NEW facts \in {node, node \cup {"announced"}},
         Stay(r, facts)
  PROVE  CoreInv'
<1>1. /\ ctx' = r.ctx /\ fate' = r.fate /\ toBus' \in {toBus, RestOf(toBus)} /\ node' = facts
      /\ UNCHANGED <<pc, serial, left, asked, net>>
  BY DEF Stay, Remains
<1>2. /\ ctx' \in Contexts /\ fate' \in Fates /\ left' \in BOOLEAN
      /\ ~left' => Consistent(ctx', fate') /\ Past(fate', serial')
  BY <1>1 DEF Remains, CoreInv
<1>3. OneStep(ctx', pc', serial')
  BY <1>1, FreeFacts DEF CoreInv, OneStep, Remains
<1>4. toBus' \in Seq(NodeMsg) /\ Truthful(toBus', node')
  BY <1>1, MessagesKept
<1>5. Achieved(pc', serial', net' = "up", node')
  BY <1>1, AchievedKept
<1>6. /\ Progress(pc', serial') /\ asked' \subseteq Made /\ pc' # "down"
      /\ net' \in {"up", "silent", "broken"}
  BY <1>1 DEF CoreInv
<1> QED
  BY <1>2, <1>3, <1>4, <1>5, <1>6 DEF CoreInv

\* A thread that gives up the connection.
LEMMA DisconnectInv ==
  ASSUME CoreInv, NEW r, Remains(r), AJ_Disconnect(r)
  PROVE  CoreInv'
<1>1. /\ pc' = "down" /\ ctx' = AllFree /\ fate' = Dropped(r.fate) /\ serial' = serial
      /\ asked' = {} /\ toBus' = <<>> /\ node' = {} /\ net' = "broken" /\ left' = left
  BY DEF AJ_Disconnect, Hangup
<1>2. /\ ctx' \in Contexts /\ fate' \in Fates /\ left' \in BOOLEAN
      /\ ~left' => Consistent(ctx', fate') /\ Past(fate', serial')
  <2>1. /\ r.fate \in Fates /\ left \in BOOLEAN
        /\ ~left => \A s \in 1..MaxCalls : r.fate[s] # "ended twice"
    BY DEF Remains, CoreInv, Consistent
  <2>2. /\ Dropped(r.fate) \in Fates /\ Past(Dropped(r.fate), serial)
        /\ ~left => Consistent(AllFree, Dropped(r.fate))
    BY <2>1, DroppedConsistent
  <2> QED
    BY <1>1, <2>1, <2>2, AllFreeFacts
<1>3. OneStep(ctx', pc', serial') /\ Progress(pc', serial')
  BY <1>1, AllFreeFacts, FreeFacts DEF OneStep, Progress, CoreInv, Place
<1>4. asked' \subseteq Made /\ toBus' \in Seq(NodeMsg) /\ Truthful(toBus', node')
  BY <1>1 DEF Truthful
<1>5. Achieved(pc', serial', net' = "up", node')
  BY <1>1 DEF Achieved
<1> QED
  BY <1>1, <1>2, <1>3, <1>4, <1>5 DEF CoreInv

\* What a call made from the contexts c with serial number s leaves.
LEMMA CallMade ==
  ASSUME NEW c \in Contexts, NEW f \in Fates, HasFree(c), NEW s \in 1..MaxCalls, NEW kind \in Kind,
         kind = KindOf(s), asked \subseteq Made, MakeCall(c, f, s, kind)
  PROVE  /\ ctx' \in Contexts /\ fate' \in Fates /\ asked' \subseteq Made
         /\ Consistent(c, f) /\ FindReplyContext(c, s) = {} => Consistent(ctx', fate')
         /\ \A n : Past(f, n) /\ (s < n \/ s > 6) => Past(fate', n)
         /\ \E k \in Slot : \A i \in Slot : ctx'[i] = IF i = k THEN [serial |-> s, kind |-> kind] ELSE c[i]
<1>1. /\ ctx' = AJ_AllocReplyContext(c, s, kind) /\ fate' = [f EXCEPT ![s] = "open"]
      /\ asked' \subseteq asked \cup {[serial |-> s, kind |-> kind]}
  BY DEF MakeCall
<1>2. [serial |-> s, kind |-> kind] \in Made
  BY DEF Made, Call
<1>3. \A t \in 1..6 : t # s => fate'[t] = f[t]
  <2>1. \A t \in 1..MaxCalls : t # s => fate'[t] = f[t]
    BY <1>1 DEF Fates
  <2> QED
    BY <2>1, ServiceAssumption
<1>4. fate' \in Fates
  BY <1>1 DEF Fates
<1>5. \A n : Past(f, n) /\ (s < n \/ s > 6) => Past(fate', n)
  BY <1>3, ServiceAssumption DEF Past
<1>6. ctx' \in Contexts /\ \E k \in Slot : \A i \in Slot :
        ctx'[i] = IF i = k THEN [serial |-> s, kind |-> kind] ELSE c[i]
  BY <1>1, AllocContext
<1>7. Consistent(c, f) /\ FindReplyContext(c, s) = {} => Consistent(ctx', fate')
  BY <1>1, AllocConsistent
<1> QED
  BY <1>1, <1>2, <1>4, <1>5, <1>6, <1>7

\* A call of connecting or starting is made, and the thread goes on at place; or the connection
\* ends.
LEMMA CallThenInv ==
  ASSUME CoreInv, NEW r, Remains(r), NEW kind \in Kind, NEW place, place # "down",
         NEW facts \in {node, node \cup {"announced"}},
         CallThen(r, kind, place, facts), serial <= 6, kind = KindOf(serial),
         \A i \in Slot : r.ctx[i].kind \notin StepKind,
         Progress(place, serial + 1), Achieved(place, serial + 1, net = "up", facts),
         kind \in StepKind => place = "start"
  PROVE  CoreInv'
<1>1. CASE AJ_Disconnect(r)
  BY <1>1, DisconnectInv
<1>2. CASE /\ HasFree(r.ctx) /\ MakeCall(r.ctx, r.fate, serial, kind) /\ serial' = serial + 1
           /\ pc' = place /\ toBus' = r.rest /\ node' = facts /\ UNCHANGED <<left, net>>
  <2>1. serial \in 1..MaxCalls /\ serial \in 1..6 /\ asked \subseteq Made
    BY ServiceAssumption DEF CoreInv, Progress
  <2>2. /\ r.ctx \in Contexts /\ r.fate \in Fates
        /\ ~left => Consistent(r.ctx, r.fate) /\ Past(r.fate, serial)
    BY DEF Remains
  <2>3. ~left => FindReplyContext(r.ctx, serial) = {}
    <3> SUFFICES ASSUME ~left, NEW i \in Slot, r.ctx[i].serial = serial PROVE FALSE
      BY DEF FindReplyContext
    <3>1. r.ctx[i] # Free
      BY <2>1, FreeFacts
    <3>2. r.fate[serial] = "open"
      BY <2>2, <3>1 DEF Consistent
    <3>3. serial < serial
      BY <2>1, <2>2, <3>2 DEF Past
    <3> QED
      BY <2>1, <3>3
  <2>4. /\ ctx' \in Contexts /\ fate' \in Fates /\ asked' \subseteq Made
        /\ Consistent(r.ctx, r.fate) /\ FindReplyContext(r.ctx, serial) = {} => Consistent(ctx', fate')
        /\ \A n : Past(r.fate, n) /\ (serial < n \/ serial > 6) => Past(fate', n)
        /\ \E k \in Slot : \A i \in Slot :
             ctx'[i] = IF i = k THEN [serial |-> serial, kind |-> kind] ELSE r.ctx[i]
    BY <1>2, <2>1, <2>2, CallMade
  <2>5. ~left' => Consistent(ctx', fate') /\ Past(fate', serial')
    <3>1. Past(r.fate, serial) => Past(r.fate, serial + 1)
      BY <2>1 DEF Past
    <3>2. serial < serial + 1
      BY <2>1
    <3> QED
      BY <1>2, <2>2, <2>3, <2>4, <3>1, <3>2
  <2>6. OneStep(ctx', pc', serial')
    <3>1. PICK k \in Slot : \A i \in Slot :
            ctx'[i] = IF i = k THEN [serial |-> serial, kind |-> kind] ELSE r.ctx[i]
      BY <2>4
    <3>2. \A i \in Slot : ctx'[i].kind \in StepKind =>
            i = k /\ ctx'[i].serial = serial /\ kind \in StepKind
      BY <3>1
    <3>3. serial' = serial + 1 /\ serial = serial' - 1 /\ pc' = place
      BY <1>2, <2>1
    <3>4. kind \in StepKind => place = "start" /\ serial + 1 \in 5..7
      BY DEF Progress
    <3> QED
      BY <3>2, <3>3, <3>4 DEF OneStep
  <2>7. toBus' \in Seq(NodeMsg) /\ Truthful(toBus', node')
    <3>1. toBus' \in {toBus, RestOf(toBus)} /\ node \subseteq node'
      BY <1>2 DEF Remains
    <3> QED
      BY <3>1, MessagesKept
  <2>8. Progress(pc', serial') /\ Achieved(pc', serial', net' = "up", node') /\ pc' # "down"
    BY <1>2
  <2>9. left' \in BOOLEAN /\ net' \in {"up", "silent", "broken"}
    BY <1>2 DEF CoreInv
  <2> QED
    BY <2>4, <2>5, <2>6, <2>7, <2>8, <2>9 DEF CoreInv
<1> QED
  BY <1>1, <1>2 DEF CallThen

-----------------------------------------------------------------------------
\* The steps of the thread, one by one.

\* Outside AJ_StartService no call is a step of it, neither now nor after a result.
LEMMA NoStepCall ==
  ASSUME CoreInv, pc # "start"
  PROVE  /\ \A i \in Slot : ctx[i].kind \notin StepKind
         /\ \A r : Remains(r) => \A i \in Slot : r.ctx[i].kind \notin StepKind
BY FreeFacts DEF CoreInv, OneStep, Remains

LEMMA ConnectInv ==
  ASSUME CoreInv, Connect
  PROVE  CoreInv'
<1>1. /\ pc \in {"down", "failed"} /\ ctx \in Contexts
      /\ left' = (pc = "failed" /\ ctx # AllFree /\ HasFree(ctx))
      /\ serial' = 2 /\ net' = "up" /\ toBus' = <<>> /\ node' = {}
  BY DEF Connect, CoreInv
<1>2. /\ NoFate \in Fates /\ Consistent(AllFree, NoFate) /\ Past(NoFate, 2)
      /\ Progress("down", 2) /\ Progress("hello", 2)
  <2>1. \A s \in 1..MaxCalls : NoFate[s] = "none"
    BY DEF NoFate
  <2>2. \A s \in 1..6 : NoFate[s] = "none"
    BY <2>1, ServiceAssumption
  <2>3. NoFate \in Fates
    BY DEF NoFate, Fates
  <2>4. Consistent(AllFree, NoFate)
    BY <2>1, AllFreeFacts DEF Consistent
  <2>5. Past(NoFate, 2)
    BY <2>2 DEF Past
  <2>6. Progress("down", 2) /\ Progress("hello", 2)
    BY DEF Progress, Place, Reading
  <2> QED
    BY <2>3, <2>4, <2>5, <2>6
<1>3. \A p \in {"down", "hello"} : Achieved(p, 2, TRUE, {})
  BY DEF Achieved
<1>4. toBus' \in Seq(NodeMsg) /\ Truthful(toBus', node')
  BY <1>1 DEF Truthful
<1>5. \A i \in Slot : ctx[i].kind \notin StepKind
  BY <1>1, NoStepCall
<1>6. CASE ~HasFree(ctx)
  <2>1. ctx' = AllFree /\ asked' = {} /\ fate' = NoFate /\ pc' = "down" /\ left' = FALSE
    BY <1>1, <1>6 DEF Connect
  <2>2. OneStep(ctx', pc', serial')
    BY <2>1, AllFreeFacts, FreeFacts DEF OneStep
  <2> QED
    BY <1>1, <1>2, <1>3, <1>4, <2>1, <2>2, AllFreeFacts DEF CoreInv
<1>7. CASE HasFree(ctx)
  <2> DEFINE hello == [serial |-> 1, kind |-> "HELLO"]
  <2>1. /\ pc' = "hello" /\ ctx' = AJ_AllocReplyContext(ctx, 1, "HELLO") /\ asked' = {hello}
        /\ fate' = [NoFate EXCEPT ![1] = "open"]
    BY <1>7 DEF Connect
  <2>2. 1 \in 1..MaxCalls /\ "HELLO" \in Kind /\ "HELLO" = KindOf(1) /\ "HELLO" \notin StepKind
    BY ServiceAssumption DEF Kind, KindOf, StepKind
  <2>3. hello \in Made
    BY <2>2 DEF Made, Call
  <2>4. ctx' \in Contexts /\ \E k \in Slot : \A i \in Slot : ctx'[i] = IF i = k THEN hello ELSE ctx[i]
    BY <1>1, <1>7, <2>1, <2>2, AllocContext
  <2>5. fate' \in Fates /\ Past(fate', serial')
    <3>1. fate' \in Fates
      BY <1>2, <2>1 DEF Fates
    <3>2. \A s \in 1..MaxCalls : s # 1 => fate'[s] = NoFate[s]
      BY <1>2, <2>1 DEF Fates
    <3>3. \A s \in 1..6 : s # 1 => fate'[s] = NoFate[s]
      BY <3>2, ServiceAssumption
    <3> QED
      BY <1>1, <1>2, <3>1, <3>3 DEF Past
  <2>6. ~left' => Consistent(ctx', fate')
    <3> SUFFICES ASSUME ~left' PROVE Consistent(ctx', fate')
      OBVIOUS
    <3>1. ctx = AllFree
      BY <1>1, <1>7 DEF CoreInv
    <3>2. FindReplyContext(AllFree, 1) = {}
      BY AllFreeFacts, FreeFacts DEF FindReplyContext
    <3> QED
      BY <1>2, <2>1, <2>2, <3>1, <3>2, AllFreeFacts, AllocConsistent
  <2>7. OneStep(ctx', pc', serial')
    BY <1>5, <2>2, <2>4 DEF OneStep
  <2>8. left' \in BOOLEAN
    BY <1>1
  <2> QED
    BY <1>1, <1>2, <1>3, <1>4, <2>1, <2>3, <2>4, <2>5, <2>6, <2>7, <2>8 DEF CoreInv
<1> QED
  BY <1>6, <1>7

LEMMA HelloAnswerInv ==
  ASSUME CoreInv, NEW r, GoodResult(r), HelloAnswer(r)
  PROVE  CoreInv'
<1>1. Remains(r) /\ pc = "hello" /\ serial = 2
  BY DEF GoodResult, HelloAnswer, CoreInv, Progress
<1>2. CASE AJ_Disconnect(r)
  BY <1>1, <1>2, DisconnectInv
<1>3. CASE CallThen(r, "ADD_MATCH", "match", node)
  <2>1. "ADD_MATCH" \in Kind /\ "ADD_MATCH" \notin StepKind /\ "ADD_MATCH" = KindOf(serial)
    BY <1>1 DEF Kind, StepKind, KindOf
  <2>2. Progress("match", serial + 1) /\ Achieved("match", serial + 1, net = "up", node)
    BY <1>1 DEF Progress, Place, Reading, CoreInv, Achieved
  <2>3. (\A i \in Slot : r.ctx[i].kind \notin StepKind) /\ serial <= 6 /\ "match" # "down"
    BY <1>1, NoStepCall
  <2> QED
    BY <1>1, <1>3, <2>1, <2>2, <2>3, CallThenInv
<1> QED
  BY <1>2, <1>3 DEF HelloAnswer

LEMMA MatchAnswerInv ==
  ASSUME CoreInv, NEW r, GoodResult(r), NEW over \in BOOLEAN, MatchAnswer(r, over)
  PROVE  CoreInv'
<1>1. Remains(r) /\ pc = "match" /\ serial = 3
  BY DEF GoodResult, MatchAnswer, CoreInv, Progress
<1>2. PICK facts \in {node, node \cup {"announced"}} :
        CallThen(r, "ADD_MATCH", "bind", facts) \/ AJ_Disconnect(r) \/ Stay(r, facts)
  BY DEF MatchAnswer, FactsAfter
<1>3. CASE AJ_Disconnect(r)
  BY <1>1, <1>3, DisconnectInv
<1>4. CASE Stay(r, facts)
  BY <1>1, <1>2, <1>4, StayInv
<1>5. CASE CallThen(r, "ADD_MATCH", "bind", facts)
  <2>1. "ADD_MATCH" \in Kind /\ "ADD_MATCH" \notin StepKind /\ "ADD_MATCH" = KindOf(serial)
    BY <1>1 DEF Kind, StepKind, KindOf
  <2>2. Progress("bind", serial + 1) /\ Achieved("bind", serial + 1, net = "up", facts)
    <3>1. facts \subseteq Fact
      BY <1>2 DEF CoreInv, Achieved, Fact
    <3> QED
      BY <1>1, <3>1 DEF Progress, Place, Reading, Achieved
  <2>3. (\A i \in Slot : r.ctx[i].kind \notin StepKind) /\ serial <= 6 /\ "bind" # "down"
    BY <1>1, NoStepCall
  <2> QED
    BY <1>1, <1>2, <1>5, <2>1, <2>2, <2>3, CallThenInv
<1> QED
  BY <1>2, <1>3, <1>4, <1>5

LEMMA BindPortInv ==
  ASSUME CoreInv, BindPort
  PROVE  CoreInv'
<1> DEFINE r == [Result("OK", "none", "none") EXCEPT !.rest = toBus]
<1>1. pc = "bind" /\ serial = 4 /\ CallThen(r, "BIND", "start", node)
  BY DEF BindPort, CoreInv, Progress
<1>2. Remains(r)
  BY DEF Remains, Result, CoreInv
<1> HIDE DEF r
<1>3. "BIND" \in Kind /\ "start" # "down" /\ serial <= 6 /\ "BIND" = KindOf(serial)
  BY <1>1 DEF Kind, KindOf
<1>4. Progress("start", serial + 1) /\ Achieved("start", serial + 1, net = "up", node)
  BY <1>1 DEF Progress, Place, Reading, CoreInv, Achieved
<1>5. \A i \in Slot : r.ctx[i].kind \notin StepKind
  BY <1>1, <1>2, NoStepCall
<1> QED
  BY <1>1, <1>2, <1>3, <1>4, <1>5, CallThenInv

\* An answer to the step awaited: the node has done it or refused it, and the next call is the
\* next step.
LEMMA StepDoneFacts ==
  ASSUME CoreInv, NEW r, GoodResult(r), NEW i \in 1..3, StepDone(r, i)
  PROVE  /\ pc = "start" /\ serial = i + 4 /\ Remains(r)
         /\ \A j \in Slot : r.ctx[j].kind \notin StepKind
         /\ Done(Steps[i], node)
<1>1. r.kind = Steps[i] /\ r.status = "OK" /\ ~IsError(r) /\ Steps[i] \in StepKind
  BY DEF StepDone, Steps, StepKind
<1>2. serial \in 5..7 /\ Steps[i] = Steps[serial - 4]
  BY <1>1 DEF GoodResult
<1>3. serial = i + 4
  BY <1>2 DEF Steps
<1> QED
  BY <1>1, <1>3 DEF GoodResult

LEMMA StepAnswerInv ==
  ASSUME CoreInv, NEW r, GoodResult(r), StepAnswer(r)
  PROVE  CoreInv'
<1>1. CASE \E i \in 1..2 : StepDone(r, i) /\ CallThen(r, Steps[i + 1], "start", node)
  <2>1. PICK i \in 1..2 : StepDone(r, i) /\ CallThen(r, Steps[i + 1], "start", node)
    BY <1>1
  <2>2. /\ pc = "start" /\ serial = i + 4 /\ Remains(r)
        /\ \A j \in Slot : r.ctx[j].kind \notin StepKind
        /\ Done(Steps[i], node)
    BY <2>1, StepDoneFacts
  <2>3. /\ Steps[i + 1] \in Kind /\ Steps[i + 1] = KindOf(serial) /\ serial <= 6
        /\ "start" # "down"
    BY <2>2 DEF Steps, Kind, KindOf
  <2>4. Progress("start", serial + 1)
    BY <2>2 DEF Progress, Place, Reading
  <2>5. Achieved("start", serial + 1, net = "up", node)
    <3>1. CASE i = 1
      BY <2>2, <3>1 DEF CoreInv, Achieved, Steps
    <3>2. CASE i = 2
      BY <2>2, <3>2 DEF CoreInv, Achieved, Steps
    <3> QED
      BY <3>1, <3>2
  <2> QED
    BY <2>1, <2>2, <2>3, <2>4, <2>5, CallThenInv
<1>2. CASE StepDone(r, 3) /\ AJ_AboutInit(r)
  <2>1. /\ pc = "start" /\ serial = 7 /\ Remains(r)
        /\ \A j \in Slot : r.ctx[j].kind \notin StepKind
        /\ Done("ADVERTISE", node)
    BY <1>2, StepDoneFacts DEF Steps
  <2>2. PICK sent \in BOOLEAN :
          /\ pc' = (IF sent THEN "run" ELSE "failed")
          /\ node' = IF sent /\ net = "up" THEN node \cup {"announced"} ELSE node
    BY <1>2 DEF AJ_AboutInit, Sends
  <2>3. ctx' = r.ctx /\ fate' = r.fate /\ toBus' = r.rest /\ UNCHANGED <<serial, left, asked, net>>
    BY <1>2 DEF AJ_AboutInit
  <2>4. /\ ctx' \in Contexts /\ fate' \in Fates /\ left' \in BOOLEAN
        /\ ~left' => Consistent(ctx', fate') /\ Past(fate', serial')
    BY <2>1, <2>3 DEF Remains, CoreInv
  <2>5. OneStep(ctx', pc', serial') /\ Progress(pc', serial') /\ pc' # "down"
    BY <2>1, <2>2, <2>3 DEF OneStep, Progress, Place, Reading
  <2>6. toBus' \in Seq(NodeMsg) /\ Truthful(toBus', node')
    <3>1. toBus' \in {toBus, RestOf(toBus)} /\ node \subseteq node'
      BY <2>1, <2>2, <2>3 DEF Remains
    <3> QED
      BY <3>1, MessagesKept
  <2>7. Achieved(pc', serial', net' = "up", node')
    <3>1. \A k \in StepKind : Done(k, node)
      BY <2>1 DEF CoreInv, Achieved, StepKind
    <3>2. \A k : Done(k, node) => Done(k, node')
      BY <2>2 DEF Done
    <3>3. node' \subseteq Fact
      BY <2>2 DEF CoreInv, Achieved, Fact
    <3>4. pc' = "run" /\ net' = "up" => "announced" \in node'
      BY <2>2, <2>3
    <3> QED
      BY <2>2, <3>1, <3>2, <3>3, <3>4 DEF Achieved
  <2>8. asked' \subseteq Made /\ net' \in {"up", "silent", "broken"}
    BY <2>3 DEF CoreInv
  <2> QED
    BY <2>4, <2>5, <2>6, <2>7, <2>8 DEF CoreInv
<1> QED
  BY <1>1, <1>2 DEF StepAnswer

LEMMA StartMessageInv ==
  ASSUME CoreInv, NEW r, GoodResult(r), StartMessage(r)
  PROVE  CoreInv'
<1>1. Remains(r) /\ pc = "start"
  BY DEF GoodResult, StartMessage
<1>2. PICK facts \in {node, node \cup {"announced"}} : AJ_Disconnect(r) \/ Stay(r, facts)
  BY DEF StartMessage, FactsAfter
<1> QED
  BY <1>1, <1>2, DisconnectInv, StayInv

LEMMA ServeMessageInv ==
  ASSUME CoreInv, NEW r, GoodResult(r), ServeMessage(r)
  PROVE  CoreInv'
<1>1. Remains(r) /\ pc = "run"
  BY DEF GoodResult, ServeMessage
<1>2. PICK facts \in {node, node \cup {"announced"}} : AJ_Disconnect(r) \/ Stay(r, facts)
  BY DEF ServeMessage, HandleMessage, UserHandles, BusHandles, SkipMessage, NoMessage,
     LoseConnection, FactsAfter
<1> QED
  BY <1>1, <1>2, DisconnectInv, StayInv

LEMMA AppCallsInv ==
  ASSUME CoreInv, AppCalls
  PROVE  CoreInv'
<1>1. /\ pc = "run" /\ HasFree(ctx) /\ UNCHANGED <<pc, serial, left, net, toBus, node>>
  BY DEF AppCalls
<1>2. PICK s \in AppSerial : MakeCall(ctx, fate, s, "APP")
  BY DEF AppCalls
<1>3. /\ s \in 7..MaxCalls /\ s \in 1..MaxCalls /\ FindReplyContext(ctx, s) = {}
      /\ "APP" \in Kind /\ "APP" = KindOf(s) /\ "APP" \notin StepKind
  BY ServiceAssumption DEF AppSerial, Kind, KindOf, StepKind
<1>4. /\ ctx' \in Contexts /\ fate' \in Fates /\ asked' \subseteq Made
      /\ Consistent(ctx, fate) => Consistent(ctx', fate')
      /\ Past(fate, serial) => Past(fate', serial)
      /\ \E k \in Slot : \A i \in Slot : ctx'[i] = IF i = k THEN [serial |-> s, kind |-> "APP"] ELSE ctx[i]
  <2>1. ctx \in Contexts /\ fate \in Fates /\ asked \subseteq Made /\ s > 6
    BY <1>3 DEF CoreInv
  <2> QED
    BY <1>1, <1>2, <1>3, <2>1, CallMade
<1>5. OneStep(ctx', pc', serial')
  BY <1>1, <1>3, <1>4, NoStepCall DEF OneStep
<1> QED
  BY <1>1, <1>4, <1>5 DEF CoreInv

-----------------------------------------------------------------------------
\* The steps of the node.

LEMMA NodeAnswersInv ==
  ASSUME CoreInv, NodeAnswers
  PROVE  CoreInv'
<1>1. PICK k \in asked, type \in {"RET", "ERR", "BAD"} :
        /\ toBus' = Append(toBus, [type |-> type, serial |-> k.serial])
        /\ \E said \in {FactOf, RefusalOf} :
             node' = IF type = "RET" /\ k.kind \in DOMAIN said THEN node \cup {said[k.kind]} ELSE node
        /\ asked' = asked \ {k}
  BY DEF NodeAnswers
<1>2. UNCHANGED <<pc, ctx, serial, left, fate, net>> /\ net = "up"
  BY DEF NodeAnswers, NodeOnly, attachVars, histVars
<1>3. k \in Call /\ k.kind = KindOf(k.serial)
  BY DEF CoreInv, Made
<1> DEFINE m == [type |-> type, serial |-> k.serial]
<1>4. toBus \in Seq(NodeMsg) /\ m \in NodeMsg
  BY <1>3 DEF CoreInv, NodeMsg, Reply, Call
<1>5. PICK said \in {FactOf, RefusalOf} :
        node' = IF type = "RET" /\ k.kind \in DOMAIN said THEN node \cup {said[k.kind]} ELSE node
  BY <1>1
<1>6. DOMAIN said = StepKind /\ \A x \in StepKind : said[x] \in Fact
  <2>1. DOMAIN FactOf = StepKind /\ \A x \in StepKind : FactOf[x] \in Fact
    BY DEF FactOf, StepKind, Fact
  <2>2. DOMAIN RefusalOf = StepKind /\ \A x \in StepKind : RefusalOf[x] \in Fact
    BY DEF RefusalOf, StepKind, Fact
  <2> QED
    BY <2>1, <2>2
<1>7. node \subseteq node' /\ node' \subseteq Fact
  BY <1>5, <1>6 DEF CoreInv, Achieved
<1>8. \A x : Done(x, node) => Done(x, node')
  BY <1>7 DEF Done
<1>9. /\ toBus' \in Seq(NodeMsg) /\ Len(toBus') = Len(toBus) + 1
      /\ \A i \in 1..Len(toBus') : toBus'[i] = IF i <= Len(toBus) THEN toBus[i] ELSE m
  BY <1>1, <1>4
<1>10. Truthful(toBus', node')
  <2> SUFFICES ASSUME NEW n \in 1..Len(toBus'), toBus'[n].type = "RET",
                      KindOf(toBus'[n].serial) \in StepKind
               PROVE  Done(KindOf(toBus'[n].serial), node')
    BY DEF Truthful
  <2>1. CASE n <= Len(toBus)
    <3>1. n \in 1..Len(toBus) /\ toBus'[n] = toBus[n]
      BY <1>4, <1>9, <2>1
    <3>2. Done(KindOf(toBus[n].serial), node)
      BY <3>1 DEF CoreInv, Truthful
    <3> QED
      BY <1>8, <3>1, <3>2
  <2>2. CASE ~(n <= Len(toBus))
    <3>1. toBus'[n] = m
      BY <1>9, <2>2
    <3>2. type = "RET" /\ k.kind \in StepKind /\ KindOf(toBus'[n].serial) = k.kind
      BY <1>3, <3>1
    <3>3. said[k.kind] \in node'
      BY <1>5, <1>6, <3>2
    <3> QED
      BY <3>2, <3>3 DEF Done
  <2> QED
    BY <2>1, <2>2
<1>11. Achieved(pc', serial', net' = "up", node')
  BY <1>2, <1>7, <1>8 DEF CoreInv, Achieved
<1>12. /\ ctx' \in Contexts /\ fate' \in Fates /\ left' \in BOOLEAN
       /\ ~left' => Consistent(ctx', fate') /\ Past(fate', serial')
       /\ OneStep(ctx', pc', serial') /\ Progress(pc', serial') /\ pc' # "down"
  BY <1>2 DEF CoreInv
<1> QED
  BY <1>1, <1>2, <1>9, <1>10, <1>11, <1>12 DEF CoreInv

\* A message that is neither a reply nor an answer is put on its way.
LEMMA SendsInv ==
  ASSUME CoreInv, NEW m \in Request, toBus' = Append(toBus, m), pc # "down",
         UNCHANGED <<pc, ctx, serial, left, fate, net, asked, node>>
  PROVE  CoreInv'
<1>1. toBus \in Seq(NodeMsg) /\ m \in NodeMsg /\ m.type # "RET"
  BY DEF CoreInv, NodeMsg, Request
<1>2. /\ toBus' \in Seq(NodeMsg) /\ Len(toBus') = Len(toBus) + 1
      /\ \A i \in 1..Len(toBus') : toBus'[i] = IF i <= Len(toBus) THEN toBus[i] ELSE m
  BY <1>1
<1>3. Truthful(toBus', node')
  <2>1. \A n \in 1..Len(toBus') : toBus'[n].type = "RET" =>
          n \in 1..Len(toBus) /\ toBus'[n] = toBus[n]
    BY <1>1, <1>2
  <2> QED
    BY <2>1 DEF CoreInv, Truthful
<1> QED
  BY <1>2, <1>3 DEF CoreInv

LEMMA NodeSendsInv ==
  ASSUME CoreInv, NodeSends \/ NodeAcksProbe
  PROVE  CoreInv'
<1>1. \E m \in Request : toBus' = Append(toBus, m)
  BY DEF NodeSends, NodeAcksProbe, Signal, Request
<1>2. pc # "down" /\ UNCHANGED <<pc, ctx, serial, left, fate, net, asked, node>>
  BY DEF NodeSends, NodeAcksProbe, Known, NodeOnly, attachVars, histVars
<1> QED
  BY <1>1, <1>2, SendsInv

\* The node forgets a call or all of them, or the connection is lost with what is on its way, or
\* only the announcement is asked for.
LEMMA ForgetsInv ==
  ASSUME CoreInv, UNCHANGED <<pc, ctx, serial, left, fate, node>>, asked' \subseteq asked,
         toBus' \in {toBus, <<>>}, net' \in {net, "silent", "broken"}
  PROVE  CoreInv'
<1>1. asked' \subseteq Made
  BY DEF CoreInv
<1>2. toBus' \in Seq(NodeMsg) /\ Truthful(toBus', node')
  <2>1. CASE toBus' = toBus
    BY <2>1 DEF CoreInv
  <2>2. CASE toBus' = <<>>
    BY <2>2 DEF Truthful
  <2> QED
    BY <2>1, <2>2
<1>3. Achieved(pc', serial', net' = "up", node')
  BY DEF CoreInv, Achieved
<1> QED
  BY <1>1, <1>2, <1>3 DEF CoreInv

LEMMA QuietInv ==
  ASSUME CoreInv, NodeForgets \/ GoesSilent \/ Breaks \/ AJ_AboutSetShouldAnnounce \/ UNCHANGED vars
  PROVE  CoreInv'
<1>1. UNCHANGED <<pc, ctx, serial, left, fate, node>>
  BY DEF NodeForgets, GoesSilent, Breaks, AJ_AboutSetShouldAnnounce, NodeOnly, attachVars, nodeVars,
     histVars, vars
<1>2. /\ asked' \subseteq asked /\ toBus' \in {toBus, <<>>}
      /\ net' \in {net, "silent", "broken"}
  BY DEF NodeForgets, GoesSilent, Breaks, AJ_AboutSetShouldAnnounce, nodeVars, vars
<1> QED
  BY <1>1, <1>2, ForgetsInv

\* What the thread does with a result.
LEMMA UseInv ==
  ASSUME CoreInv, NEW r \in AJ_UnmarshalMsg, Use(r)
  PROVE  CoreInv'
<1>1. GoodResult(r)
  BY UnmarshalGood
<1> QED
  BY <1>1, HelloAnswerInv, MatchAnswerInv, StepAnswerInv, StartMessageInv, ServeMessageInv DEF Use

LEMMA NextCore ==
  ASSUME CoreInv, [Next]_vars
  PROVE  CoreInv'
<1>1. CASE Reads \/ TimesOut \/ Waits
  <2>1. \E r \in AJ_UnmarshalMsg : Use(r)
    BY <1>1 DEF Reads, TimesOut, Waits
  <2> QED
    BY <2>1, UseInv
<1>2. CASE Connect \/ BindPort
  BY <1>2, ConnectInv, BindPortInv
<1>3. CASE AppCalls
  BY <1>3, AppCallsInv
<1>4. CASE NodeAnswers \/ NodeSends \/ NodeAcksProbe
  BY <1>4, NodeAnswersInv, NodeSendsInv
<1>5. CASE NodeForgets \/ GoesSilent \/ Breaks \/ AJ_AboutSetShouldAnnounce \/ UNCHANGED vars
  BY <1>5, QuietInv
<1> QED
  BY <1>1, <1>2, <1>3, <1>4, <1>5 DEF Next, Thread, Application, Node

LEMMA InitCore == Init => CoreInv
<1> SUFFICES ASSUME Init PROVE CoreInv
  OBVIOUS
<1>1. ctx \in Contexts /\ fate \in Fates /\ Consistent(ctx, fate) /\ Past(fate, serial)
  <2>1. \A s \in 1..MaxCalls : NoFate[s] = "none"
    BY DEF NoFate
  <2>2. \A s \in 1..6 : NoFate[s] = "none"
    BY <2>1, ServiceAssumption
  <2>3. NoFate \in Fates
    BY DEF NoFate, Fates
  <2>4. Consistent(AllFree, NoFate)
    BY <2>1, AllFreeFacts DEF Consistent
  <2>5. Past(NoFate, serial)
    BY <2>2 DEF Past
  <2> QED
    BY <2>3, <2>4, <2>5, AllFreeFacts DEF Init
<1>2. OneStep(ctx, pc, serial)
  BY AllFreeFacts, FreeFacts DEF Init, OneStep
<1>3. Progress(pc, serial) /\ Achieved(pc, serial, net = "up", node)
  BY DEF Init, Progress, Achieved, Place
<1>4. asked \subseteq Made /\ toBus \in Seq(NodeMsg) /\ Truthful(toBus, node)
  BY DEF Init, Truthful
<1> QED
  BY <1>1, <1>2, <1>3, <1>4 DEF CoreInv, Init

-----------------------------------------------------------------------------
\* The variables the thread keeps besides its calls, and the link watcher.

\* On a connection that found the watcher clear, it counts the probes.
WatchInv ==
  pc # "down" /\ ~stale =>
    /\ probes = IF watch.pingTimer THEN watch.timedOut + 1 ELSE 0
    /\ ~watch.pingTimer => watch.timedOut = 0

RestInv == RestType /\ WatchInv

\* A step that leaves the watcher alone.
LEMMA WatchKept ==
  ASSUME RestInv, UNCHANGED watchVars, pc # "down" \/ pc' = "down",
         aboutPort' \in BOOLEAN, doAnnounce' \in BOOLEAN, probed' \in BOOLEAN
  PROVE  RestInv'
BY DEF RestInv, RestType, WatchInv, watchVars

\* Putting RestType together.
LEMMA RestTypeNow ==
  ASSUME aboutPort' \in BOOLEAN, doAnnounce' \in BOOLEAN, probed' \in BOOLEAN, stale' \in BOOLEAN,
         watch' \in WatchType, probes' \in 0..4
  PROVE  RestType'
BY Zenon DEF RestType

LEMMA NoWatchType == \A on \in BOOLEAN : NoWatch(on) \in WatchType
BY DEF NoWatch, WatchType

LEMMA WatchOn == watch \in WatchType => watch.on \in BOOLEAN
BY DEF WatchType

LEMMA ConnectRest ==
  ASSUME RestInv, Connect
  PROVE  RestInv'
<1>1. /\ watch' = watch /\ probes' = 0 /\ stale' = (watch # NoWatch(watch.on))
      /\ aboutPort' = FALSE /\ doAnnounce' = doAnnounce /\ probed' = FALSE
  BY DEF Connect
<1>2. RestType'
  <2>1. /\ watch \in WatchType
        /\ doAnnounce \in BOOLEAN
    BY DEF RestInv, RestType
  <2>2. stale' \in BOOLEAN
    BY <1>1, Zenon
  <2>3. aboutPort' \in BOOLEAN /\ doAnnounce' \in BOOLEAN /\ probed' \in BOOLEAN
    BY <1>1, <2>1, Zenon
  <2>4. /\ watch' \in WatchType
        /\ probes' \in 0..4
    BY <1>1, <2>1
  <2> QED
    BY <2>2, <2>3, <2>4, RestTypeNow, Zenon
<1>3. WatchInv'
  <2>1. CASE watch = NoWatch(watch.on)
    BY <1>1, <2>1 DEF WatchInv, NoWatch
  <2>2. CASE watch # NoWatch(watch.on)
    BY <1>1, <2>2 DEF WatchInv
  <2> QED
    BY <2>1, <2>2
<1> QED
  BY <1>2, <1>3 DEF RestInv

\* A message has been handled: the watcher is clear.
LEMMA NotifiedRest ==
  ASSUME RestInv, AJ_NotifyLinkActive, UNCHANGED <<probed, aboutPort>>, doAnnounce' \in BOOLEAN
  PROVE  RestInv'
<1>1. watch' = NoWatch(watch.on) /\ probes' = 0 /\ stale' = FALSE
  BY DEF AJ_NotifyLinkActive
<1>2. RestType'
  <2>1. aboutPort \in BOOLEAN /\ probed \in BOOLEAN /\ watch.on \in BOOLEAN
    BY WatchOn DEF RestInv, RestType
  <2>2. aboutPort' = aboutPort /\ probed' = probed
    OBVIOUS
  <2>3. aboutPort' \in BOOLEAN /\ probed' \in BOOLEAN /\ stale' \in BOOLEAN
    BY <1>1, <2>1, <2>2, Zenon
  <2>4. /\ watch' \in WatchType
        /\ probes' \in 0..4
    BY <1>1, <2>1, NoWatchType
  <2> QED
    BY <2>3, <2>4, RestTypeNow, Zenon
<1>3. WatchInv'
  BY <1>1 DEF WatchInv, NoWatch
<1> QED
  BY <1>2, <1>3 DEF RestInv

\* Nothing has been read: the watcher counts, or gives up.
LEMMA NoMessageRest ==
  ASSUME RestInv, pc = "run", NEW r, NoMessage(r), UNCHANGED aboutPort
  PROVE  RestInv'
<1>1. /\ watch \in WatchType
      /\ probes \in 0..4 /\ probed \in BOOLEAN /\ aboutPort \in BOOLEAN /\ doAnnounce \in BOOLEAN
      /\ stale \in BOOLEAN
  BY DEF RestInv, RestType
<1>2. UNCHANGED <<aboutPort, doAnnounce>>
  BY DEF NoMessage
<1>3. CASE WatchStarts
  <2>1. watch' = [watch EXCEPT !.linkTimer = TRUE] /\ UNCHANGED <<probed, probes, stale>>
    BY <1>3 DEF WatchStarts
  <2>2. /\ watch' \in WatchType
        /\ watch'.pingTimer = watch.pingTimer /\ watch'.timedOut = watch.timedOut
    BY <1>1, <2>1 DEF WatchType
  <2> QED
    BY <1>1, <1>2, <2>1, <2>2 DEF RestInv, RestType, WatchInv
<1>4. CASE WatchWaits
  BY <1>4, <1>1, <1>2, WatchKept DEF WatchWaits, watchVars
<1>5. CASE FirstProbe
  <2>1. /\ watch' = [watch EXCEPT !.pingTimer = TRUE] /\ ~watch.pingTimer
        /\ probes' = IF probes < MaxProbes THEN probes + 1 ELSE probes
        /\ probed' = (probed \/ net = "up") /\ UNCHANGED stale
    BY <1>5 DEF FirstProbe, SendLinkProbeReq
  <2>2. /\ watch' \in WatchType
        /\ watch'.pingTimer /\ watch'.timedOut = watch.timedOut
    BY <1>1, <2>1 DEF WatchType
  <2>3. probed' \in BOOLEAN
    BY <2>1
  <2>4. probes' \in 0..4 /\ (probes = 0 => probes' = 1)
    BY <1>1, <2>1 DEF MaxProbes
  <2>5. RestType'
    BY <1>1, <1>2, <2>1, <2>2, <2>3, <2>4 DEF RestType
  <2>6. WatchInv'
    BY <2>1, <2>2, <2>4 DEF RestInv, WatchInv
  <2> QED
    BY <2>5, <2>6 DEF RestInv
<1>6. CASE NextProbe
  <2>1. /\ watch' = [watch EXCEPT !.timedOut = @ + 1] /\ watch.pingTimer /\ watch.timedOut + 1 < 3
        /\ probes' = IF probes < MaxProbes THEN probes + 1 ELSE probes
        /\ probed' = (probed \/ net = "up") /\ UNCHANGED stale
    BY <1>6 DEF NextProbe, SendLinkProbeReq, MAX_LINK_PING_PACKETS
  <2>2. /\ watch' \in WatchType
        /\ watch'.pingTimer /\ watch'.timedOut = watch.timedOut + 1
    BY <1>1, <2>1 DEF WatchType
  <2>3. probed' \in BOOLEAN
    BY <2>1
  <2>4. probes' \in 0..4 /\ (probes < 4 => probes' = probes + 1)
    BY <1>1, <2>1 DEF MaxProbes
  <2>5. RestType'
    BY <1>1, <1>2, <2>1, <2>2, <2>3, <2>4 DEF RestType
  <2>6. WatchInv'
    BY <1>1, <2>1, <2>2, <2>4 DEF RestInv, WatchInv
  <2> QED
    BY <2>5, <2>6 DEF RestInv
<1>7. CASE LinkTimeout /\ AJ_Disconnect(r) /\ UNCHANGED probed
  <2>1. watch' = NoWatch(watch.on) /\ stale' = FALSE /\ UNCHANGED <<probes, probed>> /\ pc' = "down"
    BY <1>7 DEF LinkTimeout, AJ_Disconnect
  <2>2. RestType'
    <3>1. aboutPort' = aboutPort /\ doAnnounce' = doAnnounce
      BY <1>2
    <3>2. probed' = probed /\ probes' = probes
      BY <2>1
    <3> QED
      BY <1>1, <2>1, <3>1, <3>2, NoWatchType, WatchOn, RestTypeNow
  <2> QED
    BY <2>1, <2>2 DEF RestInv, WatchInv
<1>8. CASE WatchIsOff
  BY <1>8, <1>1, <1>2, WatchKept DEF WatchIsOff, watchVars
<1> QED
  BY <1>3, <1>4, <1>5, <1>6, <1>7, <1>8 DEF NoMessage, WatchGoesOn

LEMMA UseRest ==
  ASSUME RestInv, NEW r, Use(r)
  PROVE  RestInv'
<1>1. aboutPort \in BOOLEAN /\ doAnnounce \in BOOLEAN /\ probed \in BOOLEAN
  BY DEF RestInv, RestType
<1>2. CASE HelloAnswer(r)
  BY <1>1, <1>2, WatchKept DEF HelloAnswer, aboutVars
<1>3. CASE \E over \in BOOLEAN : MatchAnswer(r, over)
  <2>1. /\ pc = "match" /\ UNCHANGED <<aboutPort, watchVars, probed>>
        /\ \E announces : doAnnounce' = (doAnnounce /\ ~announces)
    BY <1>3 DEF MatchAnswer
  <2> QED
    BY <1>1, <2>1, WatchKept
<1>4. CASE StepAnswer(r)
  <2>1. /\ pc = "start" /\ UNCHANGED <<watchVars, probed>>
        /\ UNCHANGED aboutVars \/ (aboutPort' = TRUE /\ doAnnounce' = FALSE)
    BY <1>4 DEF StepAnswer, AJ_AboutInit
  <2> QED
    BY <1>1, <2>1, WatchKept DEF aboutVars
<1>5. CASE StartMessage(r)
  <2>1. /\ pc = "start" /\ UNCHANGED <<aboutPort, watchVars, probed>>
        /\ \E announces : doAnnounce' = (doAnnounce /\ ~announces)
    BY <1>5 DEF StartMessage
  <2> QED
    BY <1>1, <2>1, WatchKept
<1>6. CASE ServeMessage(r)
  <2>1. pc = "run" /\ UNCHANGED aboutPort
    BY <1>6 DEF ServeMessage
  <2>2. CASE HandleMessage(r)
    <3>1. /\ AJ_NotifyLinkActive /\ UNCHANGED probed
          /\ UNCHANGED doAnnounce \/ \E announces : doAnnounce' = (doAnnounce /\ ~announces)
      BY <2>2 DEF HandleMessage, UserHandles, BusHandles
    <3>2. doAnnounce' \in BOOLEAN
      BY <1>1, <3>1
    <3> QED
      BY <2>1, <3>1, <3>2, NotifiedRest
  <2>3. CASE SkipMessage(r) \/ LoseConnection(r)
    BY <1>1, <2>1, <2>3, WatchKept DEF SkipMessage, LoseConnection
  <2>4. CASE NoMessage(r)
    BY <2>1, <2>4, NoMessageRest
  <2> QED
    BY <1>6, <2>2, <2>3, <2>4 DEF ServeMessage
<1> QED
  BY <1>2, <1>3, <1>4, <1>5, <1>6 DEF Use

LEMMA NextRest ==
  ASSUME RestInv, [Next]_vars
  PROVE  RestInv'
<1>1. aboutPort \in BOOLEAN /\ doAnnounce \in BOOLEAN /\ probed \in BOOLEAN
  BY DEF RestInv, RestType
<1>2. CASE Reads \/ TimesOut \/ Waits
  BY <1>2, UseRest DEF Reads, TimesOut, Waits
<1>3. CASE Connect
  BY <1>3, ConnectRest
<1>4. CASE BindPort
  BY <1>1, <1>4, WatchKept DEF BindPort, aboutVars
<1>5. CASE AppCalls
  BY <1>1, <1>5, WatchKept DEF AppCalls, aboutVars
<1>6. CASE AJ_AboutSetShouldAnnounce
  BY <1>1, <1>6, WatchKept DEF AJ_AboutSetShouldAnnounce, nodeVars, histVars, watchVars
<1>7. CASE Node
  <2>1. UNCHANGED <<aboutPort, doAnnounce, watchVars, pc>> /\ probed' \in {probed, FALSE}
    BY <1>7 DEF Node, NodeAnswers, NodeForgets, NodeSends, NodeAcksProbe, GoesSilent, Breaks,
       NodeOnly, aboutVars, histVars, watchVars
  <2> QED
    BY <1>1, <2>1, WatchKept
<1>8. CASE UNCHANGED vars
  BY <1>1, <1>8, WatchKept DEF vars, aboutVars, nodeVars, histVars, watchVars
<1> QED
  BY <1>2, <1>3, <1>4, <1>5, <1>6, <1>7, <1>8 DEF Next, Thread, Application

LEMMA InitRest == Init => RestInv
<1> SUFFICES ASSUME Init PROVE RestInv
  OBVIOUS
<1>1. /\ aboutPort = FALSE /\ doAnnounce = TRUE /\ probed = FALSE
      /\ probes = 0 /\ stale = FALSE /\ pc = "down"
  BY DEF Init
<1>2. RestType
  <2>1. PICK on \in BOOLEAN : watch = NoWatch(on)
    BY DEF Init
  <2>2. watch \in WatchType /\ probes \in 0..4
    BY <1>1, <2>1, NoWatchType
  <2>3. /\ aboutPort \in BOOLEAN /\ doAnnounce \in BOOLEAN
        /\ probed \in BOOLEAN /\ stale \in BOOLEAN
    BY <1>1, Zenon
  <2> QED
    BY <2>2, <2>3, Zenon DEF RestType
<1> QED
  BY <1>1, <1>2 DEF RestInv, WatchInv

-----------------------------------------------------------------------------
\* What the invariants say.

\* The contexts in use are those of the open calls, and a call has one.
LEMMA CoreContexts ==
  ASSUME CoreInv
  PROVE  ContextsAreOpenCalls
<1> SUFFICES ASSUME ~left
             PROVE  /\ \A i \in Slot : ctx[i] # Free => ctx[i].serial \in Open
                    /\ \A s \in Open : Cardinality(FindReplyContext(ctx, s)) = 1
  BY DEF ContextsAreOpenCalls
<1>1. /\ ctx \in Contexts
      /\ \A i \in Slot : ctx[i] # Free => fate[ctx[i].serial] = "open"
      /\ \A i, j \in Slot : ctx[i] # Free /\ ctx[i].serial = ctx[j].serial => i = j
      /\ \A s \in 1..MaxCalls : fate[s] = "open" => \E i \in Slot : ctx[i].serial = s
  BY DEF CoreInv, Consistent
<1>2. ASSUME NEW i \in Slot, ctx[i] # Free PROVE ctx[i].serial \in Open
  BY <1>1, <1>2, InUse DEF Open
<1>3. ASSUME NEW s \in Open PROVE Cardinality(FindReplyContext(ctx, s)) = 1
  <2>1. s \in 1..MaxCalls /\ fate[s] = "open"
    BY DEF Open
  <2>2. PICK i \in Slot : ctx[i].serial = s
    BY <1>1, <2>1
  <2>3. ctx[i] # Free
    BY <2>1, <2>2, FreeFacts
  <2>4. FindReplyContext(ctx, s) = {i}
    BY <1>1, <2>2, <2>3 DEF FindReplyContext
  <2> QED
    BY <2>4, FS_Singleton
<1> QED
  BY <1>2, <1>3

\* AJ_UnmarshalMsg fails to read when the connection is closed.
LEMMA ReadFails ==
  ASSUME CoreInv, NEW r \in AJ_UnmarshalMsg, net # "broken"
  PROVE  r.status # "READ"
<1>1. \A status, type, kind : Result(status, type, kind).status = status
  BY DEF Result
<1>2. \A status, type, i : Ended(status, type, i).status = status
  BY DEF Ended, Result
<1>3. CASE toBus # <<>>
  <2> DEFINE m == Head(toBus)
  <2>1. m \in NodeMsg /\ r \in AJ_IdentifyMessage(m)
    BY <1>3 DEF CoreInv, AJ_UnmarshalMsg
  <2>2. m.type \in {"SIG", "CALL"} \/ m.type = "STRAY" \/ m.type \in {"RET", "ERR", "BAD"}
    BY <2>1 DEF NodeMsg, Reply, Request
  <2> HIDE DEF m
  <2>3. \/ \E status \in {"OK", "WRITE", "NO_MATCH"} : \E type, kind : r = Result(status, type, kind)
        \/ \E status \in {"OK", "SIGNATURE"} : \E type, i : r = Ended(status, type, i)
    <3>1. CASE m.type \in {"SIG", "CALL"}
      BY <2>1, <3>1 DEF AJ_IdentifyMessage
    <3>2. CASE m.type = "STRAY"
      BY <2>1, <3>2 DEF AJ_IdentifyMessage
    <3>3. CASE m.type \in {"RET", "ERR", "BAD"}
      BY <2>1, <3>3 DEF AJ_IdentifyMessage
    <3> QED
      BY <2>2, <3>1, <3>2, <3>3
  <2> QED
    BY <1>1, <1>2, <2>3
<1>4. CASE toBus = <<>>
  <2>1. r \in AJ_TimedOutMethodCall \/ r = Result("TIMEOUT", "none", "none")
    BY <1>4 DEF AJ_UnmarshalMsg
  <2> QED
    BY <1>1, <1>2, <2>1 DEF AJ_TimedOutMethodCall
<1> QED
  BY <1>3, <1>4

\* A link is declared dead by the watcher alone, which has then counted three probes.
LEMMA StepDead ==
  ASSUME CoreInv, RestInv, [Next]_vars
  PROVE  DeclaredDead /\ ~stale => probes = MAX_LINK_PING_PACKETS
<1> SUFFICES ASSUME pc = "run", pc' = "down", net # "broken", ~stale
             PROVE  probes = MAX_LINK_PING_PACKETS
  BY DEF DeclaredDead
<1>1. ~UNCHANGED vars /\ ~Connect /\ ~BindPort /\ ~Application /\ ~Node
  BY DEF vars, Connect, BindPort, Application, AppCalls, AJ_AboutSetShouldAnnounce, Node,
     NodeAnswers, NodeForgets, NodeSends, NodeAcksProbe, GoesSilent, Breaks, NodeOnly
<1>2. PICK r \in AJ_UnmarshalMsg : Use(r)
  BY <1>1 DEF Next, Thread, Reads, TimesOut, Waits
<1>3. ServeMessage(r)
  BY <1>2 DEF Use, HelloAnswer, MatchAnswer, StepAnswer, StartMessage
<1>4. ~HandleMessage(r) /\ ~SkipMessage(r)
  BY DEF HandleMessage, UserHandles, BusHandles, SkipMessage, Stay
<1>5. r.status # "READ"
  BY <1>2, ReadFails
<1>6. LinkTimeout
  BY <1>3, <1>4, <1>5 DEF ServeMessage, LoseConnection, NoMessage, Stay
<1>7. watch.pingTimer /\ watch.timedOut \in 0..2 /\ watch.timedOut + 1 >= 3
  BY <1>6 DEF LinkTimeout, RestInv, RestType, WatchType, MAX_LINK_PING_PACKETS
<1>8. probes = watch.timedOut + 1
  BY <1>7 DEF RestInv, WatchInv
<1> QED
  BY <1>7, <1>8 DEF MAX_LINK_PING_PACKETS

-----------------------------------------------------------------------------
\* The theorems.

\* The contexts, the calls, the place of the thread and the node agree, in every reachable state.
THEOREM ServiceInvariant == Spec => [](CoreInv /\ RestInv)
<1>1. Init => CoreInv /\ RestInv
  BY InitCore, InitRest
<1>2. CoreInv /\ RestInv /\ [Next]_vars => (CoreInv /\ RestInv)'
  BY NextCore, NextRest
<1> QED
  BY <1>1, <1>2, PTL DEF Spec

\* The variables of the bus attachment, of the link watcher, of the node and of the histories
\* have their types, and nothing is on its way without a connection.
THEOREM ServiceTypes == Spec => []TypeOK
<1>1. CoreInv /\ RestInv => TypeOK
  <2> SUFFICES ASSUME CoreInv, RestInv PROVE TypeOK
    OBVIOUS
  <2>1. Made \cup {Free} \subseteq Call \cup {Free} /\ Made \subseteq Call
    BY DEF Made
  <2>2. /\ pc \in Place /\ serial \in 1..7 /\ ctx \in [Slot -> Call \cup {Free}]
        /\ net \in {"up", "silent", "broken"} /\ asked \subseteq Call
        /\ toBus \in Seq(NodeMsg) /\ (pc = "down" => toBus = <<>>)
        /\ node \subseteq Fact /\ left \in BOOLEAN
    BY <2>1 DEF CoreInv, Contexts, Progress, Achieved
  <2>3. fate \in [1..MaxCalls -> {"none", "open", "ended", "ended twice"}]
    BY DEF CoreInv, Fates
  <2>4. 0..(MAX_LINK_PING_PACKETS - 1) = 0..2 /\ MaxProbes = 4
    BY DEF MAX_LINK_PING_PACKETS, MaxProbes
  <2> QED
    BY <2>2, <2>3, <2>4, Zenon DEF RestInv, RestType, WatchType, TypeOK
<1> QED
  BY <1>1, ServiceInvariant, PTL

\* replyContexts: with any number of contexts and of calls, those in use are those of the calls
\* that have neither been answered nor timed out, one each, on every connection but one that
\* follows a start that failed after its last step and left contexts in use.
THEOREM ContextsMatchCalls == Spec => []ContextsAreOpenCalls
BY CoreContexts, ServiceInvariant, PTL

\* AJ_TimedOutMethodCall and AJ_IdentifyMessage: on every connection but those, no call is both
\* answered and timed out.
THEOREM CallsEndOnce == Spec => []CallEndsOnce
<1>1. CoreInv => CallEndsOnce
  BY DEF CoreInv, Consistent, CallEndsOnce
<1> QED
  BY <1>1, ServiceInvariant, PTL

\* AJ_StartService: when it has returned with success, the node has answered each of its steps
\* on this connection, done or refused, and been sent the announcement, also when contexts of
\* an earlier start were still in use.
THEOREM RunningIsAdvertised == Spec => []RunsAdvertised
<1>1. CoreInv => RunsAdvertised
  BY DEF CoreInv, Achieved, RunsAdvertised, StepKind, FactOf, Done
<1> QED
  BY <1>1, ServiceInvariant, PTL

\* AJ_BusLinkStateProc: a link is declared dead when three probes have been sent since the last
\* message, on a connection that found the watcher clear.
THEOREM DeadAfterThreeProbes == Spec => DeadAfterProbes
<1>1. Init => CoreInv /\ RestInv
  BY InitCore, InitRest
<1>2. CoreInv /\ RestInv /\ [Next]_vars => (CoreInv /\ RestInv)'
  BY NextCore, NextRest
<1>3. CoreInv /\ RestInv /\ [Next]_vars
        => [DeclaredDead /\ ~stale => probes = MAX_LINK_PING_PACKETS]_vars
  BY StepDead
<1> QED
  BY <1>1, <1>2, <1>3, PTL DEF Spec, DeadAfterProbes
=============================================================================
