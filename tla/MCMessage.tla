----------------------------- MODULE MCMessage -----------------------------
EXTENDS Message

srv == 1
cli == 2
Both == {srv, cli}
Names == <<<<115>>, <<99>>>>
LL == <<AJ_LITTLE_ENDIAN, AJ_LITTLE_ENDIAN>>
LB == <<AJ_LITTLE_ENDIAN, AJ_BIG_ENDIAN>>
BL == <<AJ_BIG_ENDIAN, AJ_LITTLE_ENDIAN>>

\* Signatures.
y == AJ_ARG_BYTE
q == AJ_ARG_UINT16
u == AJ_ARG_UINT32
t == AJ_ARG_UINT64
s == AJ_ARG_STRING
v == AJ_ARG_VARIANT
a == AJ_ARG_ARRAY
op == AJ_ARG_STRUCT
cl == AJ_STRUCT_CLOSE
od == AJ_ARG_DICT_ENTRY
cd == AJ_DICT_ENTRY_CLOSE

In(sig) == [dir |-> "in", sig |-> sig]
Out(sig) == [dir |-> "out", sig |-> sig]
Method(name, args) == [type |-> "METHOD", name |-> name, args |-> args]
SignalM(name, args) == [type |-> "SIGNAL", name |-> name, args |-> args]
Property(name, access, sig) == [type |-> "PROPERTY", name |-> name, access |-> access, sig |-> sig]
Iface(mark, name, members) == [mark |-> mark, name |-> name, members |-> members]
Object(path, flags, ifaces) == [path |-> path, flags |-> flags, ifaces |-> ifaces]

\* Names.
A == <<47, 97>>
AB == <<47, 97, 47, 98>>
C == <<47, 98>>
CE == <<47, 98, 47, 101>>
Z == <<47, 122>>
Introspectable == Iface("#", <<120>>, <<Method(<<105>>, <<Out(<<s>>)>>)>>)
Properties == Iface("", <<112>>, <<Method(<<103>>, <<In(<<s>>), In(<<s>>), Out(<<v>>)>>),
                                   Method(<<114>>, <<In(<<s>>), In(<<s>>), In(<<v>>)>>)>>)
Plain == Iface("", <<110>>,
  <<Method(<<102>>, <<In(<<y, a, y>>), In(<<u>>), Out(<<s>>)>>),
    Method(<<103>>, <<In(<<a, op, y, u, cl>>), Out(<<v>>)>>),
    SignalM(<<104>>, <<Out(<<op, y, v, cl>>), Out(<<q>>)>>),
    Property(<<107>>, READ_WRITE, <<u>>),
    SignalM([i \in 1..40 |-> 108], <<>>),
    Method(<<106>>, <<In(<<a, q>>), In(<<s>>)>>)>>)
Odd == Iface("", <<110>>, <<Method(<<102>>, <<In(<<u>>)>>), Property(<<107>>, READ_WRITE, <<s>>)>>)
Secure == Iface("$", <<109>>, <<Method(<<102>>, <<In(<<s, t>>), Out(<<u>>)>>),
                                SignalM(<<104>>, <<Out(<<y>>)>>),
                                Property(<<107>>, READ_ONLY, <<s>>)>>)
Open == Iface("", <<109>>, Secure.members)

Std == <<Object(AnyMethod, {}, <<Introspectable>>)>>
Server == <<Object(A, {}, <<Plain, Properties>>), Object(AB, {}, <<Secure, Properties>>),
            Object(C, {"SECURE", "HIDDEN"}, <<Odd>>), Object(CE, {}, <<Plain>>)>>
Proxies == <<Object(A, {"IS_PROXY"}, <<Plain, Properties, Introspectable>>),
             Object(AB, {"IS_PROXY"}, <<Secure, Properties>>),
             Object(AB, {"IS_PROXY"}, <<Open, Properties>>),
             Object(CE, {"IS_PROXY"}, <<Plain>>),
             Object(CE, {"IS_PROXY", "SECURE"}, <<Plain>>),
             Object(<<>>, {"IS_PROXY"}, <<Odd, Introspectable, Properties>>),
             Object(Root, {"IS_PROXY"}, <<Introspectable>>),
             Object(AnySignal, {"IS_PROXY"}, <<Plain>>)>>
Objects2 == <<<<Std, Server, <<>>>>, <<Std, <<>>, Proxies>>>>

\* What the marshaler is asked to do.
Args(sig, vals) == [op |-> "args", sig |-> sig, vals |-> vals]
Put(typ, val) == [op |-> "arg", arg |-> Arg(typ, <<val>>)]
Enter(typ) == [op |-> "open", typ |-> typ]
Leave == [op |-> "close"]
Variant(sig) == [op |-> "variant", sig |-> sig]
Prop(id) == [op |-> "property", id |-> id]

Call(id, flags, body) == [op |-> "send", msg |-> Saying(AJ_MSG_METHOD_CALL, id, Names[srv], flags, body)]
CallAbout(id, about, body) ==
  [op |-> "send", msg |-> [Saying(AJ_MSG_METHOD_CALL, id, Names[srv], 0, body) EXCEPT !.about = about]]
Tells(id, to, body) == [op |-> "send", msg |-> Saying(AJ_MSG_SIGNAL, id, to, 0, body)]

FBody == <<Args(<<y, a, y, u>>, <<<<7>>, <<8, 9, 10>>, <<11>>>>)>>
GBody == <<Enter(a), Enter(op), Put(y, 7), Put(u, 8), Leave, Enter(op), Put(y, 9), Put(u, 10), Leave, Leave>>
HBody == <<Enter(op), Put(y, 7), Variant(<<u>>), Put(u, 8), Leave, Put(q, 9)>>
SBody == <<Args(<<s, t>>, <<<<7, 8>>, <<9>>>>)>>

F(o, flags) == Call(MsgId(3, o, 1, 1), flags, FBody)
G == Call(MsgId(3, 1, 1, 2), 0, GBody)
S(o, flags) == Call(MsgId(3, o, 1, 1), flags, SBody)
OddCall == Call(MsgId(3, 6, 1, 1), 0, <<Put(u, 7)>>)
Look(o, i, flags) == Call(MsgId(3, o, i, 1), flags, <<>>)
Long == Call(MsgId(3, 2, 1, 1), 0, <<Args(<<s, t>>, <<[i \in 1..40 |-> 7], <<9>>>>)>>)
\* An array of numbers of two bytes, which reaches the end of the buffer if it is long.
Wide(n, flags) == Call(MsgId(3, 1, 1, 6), flags, <<Args(<<a, q, s>>, <<[i \in 1..n |-> i], <<7, 8>>>>)>>)
GetGet == CallAbout(MsgId(3, 1, 2, 1), MsgId(3, 1, 2, 1), <<Prop(MsgId(3, 1, 2, 1))>>)
SetOdd == CallAbout(MsgId(3, 6, 3, 2), MsgId(3, 6, 1, 2), <<Prop(MsgId(3, 6, 1, 2)), Put(s, 7)>>)
Get(o) == CallAbout(MsgId(3, o, 2, 1), MsgId(3, o, 1, IF o = 1 THEN 4 ELSE 3),
                    <<Prop(MsgId(3, o, 1, IF o = 1 THEN 4 ELSE 3))>>)
Set(o, typ) == CallAbout(MsgId(3, o, 2, 2), MsgId(3, o, 1, IF o = 1 THEN 4 ELSE 3),
                         <<Prop(MsgId(3, o, 1, IF o = 1 THEN 4 ELSE 3)), Put(typ, 7)>>)
H == Tells(MsgId(2, 1, 1, 3), <<>>, HBody)
K(to) == Tells(MsgId(2, 2, 1, 2), to, <<Put(y, 7)>>)
Flags(path, set, clear) == [op |-> "flags", path |-> path, set |-> set, clear |-> clear]
Proxy(n, path) == [op |-> "proxy", n |-> n, path |-> path]

Case(orders, keys, scripts) ==
  [order : orders, keyed : keys, script : {<<c[2], c[1]>> : c \in scripts}]
TheCases ==
  Case({LL, LB, BL}, {TRUE}, {<<<<F(1, 0), S(2, 0)>>, <<>>>>, <<<<G, F(1, 1)>>, <<>>>>, <<<<>>, <<H, K(<<>>)>>>>})
  \cup Case({LL, LB}, BOOLEAN, {<<<<S(2, 0), S(3, 0)>>, <<>>>>, <<<<Get(1), Get(2)>>, <<>>>>,
                                <<<<Get(3), Set(1, u)>>, <<>>>>, <<<<Set(2, s)>>, <<>>>>,
                                <<<<F(4, 0), F(5, 0)>>, <<>>>>})
  \cup Case({LB}, {TRUE}, {<<<<Look(1, 3, 0), Look(7, 1, 0)>>, <<>>>>,
                       <<<<OddCall, Proxy(6, A), OddCall, SetOdd>>, <<>>>>, <<<<Long, F(1, 0)>>, <<>>>>,
                       <<<<Proxy(6, Z), Look(6, 2, 0), Look(1, 3, AJ_FLAG_ENCRYPTED)>>, <<>>>>,
                       <<<<Look(1, 3, 0), F(1, 0)>>, <<Flags(A, {"HIDDEN"}, {}), Flags(A, {}, {"HIDDEN"})>>>>,
                       <<<<F(1, 0), Get(1)>>, <<Flags(A, {"DISABLED"}, {})>>>>,
                       <<<<F(1, 0), Get(1)>>, <<Flags(A, {"SECURE"}, {}), Flags(A, {}, {"SECURE"})>>>>})
  \cup Case({LL}, {FALSE}, {<<<<>>, <<K(<<>>), H>>>>})
  \cup Case({LL, LB}, {TRUE}, {<<<<Wide(2, 0), Wide(2, AJ_FLAG_ENCRYPTED)>>, <<>>>>, <<<<Wide(10, 0), F(1, 0)>>, <<>>>>,
                             <<<<GetGet>>, <<>>>>})

TheReplies ==
  [sig \in {<<s>>, <<v>>, <<u>>, <<>>} |->
     CASE sig = <<s>> -> <<Args(<<s>>, <<<<7, 8, 9>>>>)>>
       [] sig = <<v>> -> <<Variant(<<a, y>>), [op |-> "arg", arg |-> ArrayArg(y, <<7, 8>>)]>>
       [] sig = <<u>> -> <<Put(u, 12)>>
       [] OTHER -> <<>>]
TheValues == [sig \in {<<u>>, <<s>>} |-> Arg(sig[1], <<13>>)]
TheIntrospectIds == {MsgId(1, 1, 1, 1)}
TheProperties == Properties.name
=============================================================================
