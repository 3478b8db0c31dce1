-------------------------------- MODULE Wire --------------------------------
(***************************************************************************)
(* What the marshaler and the unmarshaler of src/aj_msg.c share: types,    *)
(* alignment, signatures, and the bytes of a number in either byte order.  *)
(*                                                                         *)
(* A buffer is a sequence of bytes.  A byte is a pair: a value, and which  *)
(* byte of that value it is, 1 being the least significant.  A character   *)
(* is a number of one byte, and every name is a short sequence of them.    *)
(***************************************************************************)
EXTENDS Integers, Sequences
LOCAL INSTANCE SequencesExt

CONSTANT BufSize   \* the size of the receive and of the transmit buffer, in bytes

ASSUME WireAssumption == BufSize \in Nat \ {0}

AJ_LITTLE_ENDIAN == 108   \* 'l'
AJ_BIG_ENDIAN    == 66    \* 'B'

AJ_ARG_STRUCT     == 40
AJ_STRUCT_CLOSE   == 41
AJ_ARG_DICT_ENTRY == 123
AJ_DICT_ENTRY_CLOSE == 125
AJ_ARG_ARRAY      == 97
AJ_ARG_VARIANT    == 118
AJ_ARG_BYTE       == 121
AJ_ARG_UINT16     == 113
AJ_ARG_UINT32     == 117
AJ_ARG_UINT64     == 116
AJ_ARG_STRING     == 115
AJ_ARG_OBJ_PATH   == 111
AJ_ARG_SIGNATURE  == 103

\* TypeFlags, for the types the properties tell apart.
IsScalarType(t)      == t \in {AJ_ARG_BYTE, AJ_ARG_UINT16, AJ_ARG_UINT32, AJ_ARG_UINT64}
AJ_IsStringType(t)   == t \in {AJ_ARG_STRING, AJ_ARG_OBJ_PATH, AJ_ARG_SIGNATURE}
IsBasicType(t)       == IsScalarType(t) \/ AJ_IsStringType(t)
AJ_IsContainerType(t) == t \in {AJ_ARG_STRUCT, AJ_ARG_DICT_ENTRY, AJ_ARG_ARRAY}
ALIGNMENT(t) ==
  CASE t \in {AJ_ARG_BYTE, AJ_ARG_SIGNATURE, AJ_ARG_VARIANT} -> 1
    [] t = AJ_ARG_UINT16 -> 2
    [] t \in {AJ_ARG_UINT32, AJ_ARG_STRING, AJ_ARG_OBJ_PATH, AJ_ARG_ARRAY} -> 4
    [] OTHER -> 8

\* The padding before a value that would begin at an offset in the buffer.
PadForType(t, offset) == (ALIGNMENT(t) - offset) % ALIGNMENT(t)

(***************************************************************************)
(* Bytes.                                                                  *)
(***************************************************************************)
Garbled == 16777216   \* what a number is when its bytes are in the wrong order: large
U16 == 65536          \* lengths are cut to 16 bits where the code keeps them in an uint16_t
Byte(v) == <<v, 1>>
Bytes(s) == [i \in DOMAIN s |-> Byte(s[i])]
Zeros(n) == [i \in 1..n |-> Byte(0)]
Number(order, v, size) ==
  [i \in 1..size |-> <<v, IF order = AJ_LITTLE_ENDIAN THEN i ELSE size + 1 - i>>]

ReadNumber(order, bytes) ==
  IF bytes = Number(order, bytes[1][1], Len(bytes)) THEN bytes[1][1] ELSE Garbled

Patched(buf, at, bytes) ==
  [i \in DOMAIN buf |-> IF i \in (at + 1)..(at + Len(bytes)) THEN bytes[i - at] ELSE buf[i]]

(***************************************************************************)
(* The message header: 16 bytes, then the fields, then a pad to 8 bytes.   *)
(***************************************************************************)
HdrSize == 16
BodyLenAt == 4
SerialAt == 8
HeaderLenAt == 12
HdrPad(headerLen) == (8 - headerLen) % 8

AJ_MSG_METHOD_CALL == 1
AJ_MSG_METHOD_RET  == 2
AJ_MSG_ERROR       == 3
AJ_MSG_SIGNAL      == 4

AJ_FLAG_NO_REPLY_EXPECTED == 1
AJ_FLAG_AUTO_START        == 2
AJ_FLAG_ENCRYPTED         == 128
HasFlag(flags, f) == (flags \div f) % 2 = 1
Toggle(flags, f)  == IF HasFlag(flags, f) THEN flags - f ELSE flags + f
SetFlag(flags, f) == IF HasFlag(flags, f) THEN flags ELSE flags + f

AJ_HDR_OBJ_PATH     == 1
AJ_HDR_INTERFACE    == 2
AJ_HDR_MEMBER       == 3
AJ_HDR_ERROR_NAME   == 4
AJ_HDR_REPLY_SERIAL == 5
AJ_HDR_DESTINATION  == 6
AJ_HDR_SENDER       == 7
AJ_HDR_SIGNATURE    == 8
TypeForHdr(field) ==
  CASE field = AJ_HDR_OBJ_PATH -> AJ_ARG_OBJ_PATH
    [] field = AJ_HDR_REPLY_SERIAL -> AJ_ARG_UINT32
    [] field = AJ_HDR_SIGNATURE -> AJ_ARG_SIGNATURE
    [] OTHER -> AJ_ARG_STRING

\* A message identifier holds the list, object, interface and member; it may be that of the
\* reply.  AJ_INVALID_MSG_ID is the empty one.
MsgId(l, o, i, m) == [list |-> l, obj |-> o, iface |-> i, member |-> m, reply |-> FALSE]
InvalidMsgId == [list |-> 0, obj |-> 0, iface |-> 0, member |-> 0, reply |-> FALSE]
AJ_REPLY_ID(id) == IF id = InvalidMsgId THEN id ELSE [id EXCEPT !.reply = TRUE]

(***************************************************************************)
(* Signatures.                                                             *)
(***************************************************************************)
\* The length of the first complete type of a signature.
CompleteTypeSigLen(sig) ==
  LET step(a, t) ==
        CASE a.done -> a
          [] ~a.done /\ t \in {AJ_STRUCT_CLOSE, AJ_DICT_ENTRY_CLOSE} ->
               IF a.open = 0 THEN [a EXCEPT !.len = 0, !.done = TRUE]
               ELSE [open |-> a.open - 1, len |-> a.len + 1, done |-> a.open = 1]
          [] ~a.done /\ t \in {AJ_ARG_STRUCT, AJ_ARG_DICT_ENTRY} ->
               [a EXCEPT !.open = @ + 1, !.len = @ + 1]
          [] OTHER -> [a EXCEPT !.len = @ + 1, !.done = a.open = 0 /\ t # AJ_ARG_ARRAY]
  IN FoldLeft(step, [open |-> 0, len |-> 0, done |-> FALSE], sig).len

From(s, n) == SubSeq(s, n + 1, Len(s))
AfterType(sig) == From(sig, CompleteTypeSigLen(sig))

(***************************************************************************)
(* An operation on a message takes and returns it; one that has failed     *)
(* leaves its status in it, and what would follow is not done.             *)
(***************************************************************************)
Fail(m, status) == [m EXCEPT !.status = status]
Then(m, Op(_)) == IF m.status = "OK" THEN Op(m) ELSE m
Top(stack) == stack[Len(stack)]
Pop(stack) == SubSeq(stack, 1, Len(stack) - 1)
(***************************************************************************)
(* What the application tells and hears, one value or bracket at a time.   *)
(***************************************************************************)
Token(op, t, v) == [op |-> op, typ |-> t, val |-> v]
TokensOf(arg) ==
  CASE arg.array -> <<Token("open", AJ_ARG_ARRAY, <<>>)>>
                    \o [i \in DOMAIN arg.val |-> Token("value", arg.typ, <<arg.val[i]>>)]
                    \o <<Token("close", AJ_ARG_ARRAY, <<>>)>>
    [] ~arg.array /\ AJ_IsContainerType(arg.typ) -> <<Token("open", arg.typ, <<>>)>>
    [] OTHER -> <<Token("value", arg.typ, arg.val)>>
=============================================================================
