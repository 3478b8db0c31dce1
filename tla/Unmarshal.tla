----------------------------- MODULE Unmarshal -----------------------------
(***************************************************************************)
(* Receiving a message and reading its arguments: the first half of        *)
(* src/aj_msg.c.  A reader is a record: the receive buffer (buf, from      *)
(* bufStart to writePtr, and rd, how much of it has been read), what the   *)
(* network still holds (net), and the AJ_Message.  arg is the argument the *)
(* last operation returned, heard all that has been read, args the values  *)
(* AJ_UnmarshalArgs returns.  skipped, spoilt and outside record what the  *)
(* code does not notice: an array in the sender's byte order was skipped;  *)
(* the rest of the body is not in the order that order says; a conversion  *)
(* wrote behind the buffer.                                                *)
(***************************************************************************)
EXTENDS Wire
LOCAL INSTANCE SequencesExt

NoArg == [typ |-> 0, array |-> FALSE, val |-> <<>>, sig |-> <<>>, at |-> 0, len |-> 0]

NewReader(host) ==
  [host |-> host, net |-> <<>>, buf |-> <<>>, rd |-> 0,
   status |-> "OK", open |-> FALSE, order |-> host, type |-> 0, flags |-> 0, bodyLen |-> 0,
   serial |-> 0, headerLen |-> 0, body |-> 0, sig |-> <<>>, off |-> 0, outer |-> <<>>,
   var |-> <<>>, raw |-> FALSE, path |-> <<>>, iface |-> <<>>, member |-> <<>>, error |-> <<>>,
   replySerial |-> 0, destination |-> <<>>, sender |-> <<>>, id |-> InvalidMsgId,
   arg |-> NoArg, left |-> <<>>, elements |-> FALSE,
   heard |-> <<>>, rawHeard |-> <<>>, args |-> <<>>,
   skipped |-> FALSE, spoilt |-> FALSE, outside |-> FALSE]

\* memset of the AJ_Message: the buffer and the network stay.
Cleared(r) ==
  [f \in DOMAIN r |-> IF f \in {"host", "net", "buf", "rd"} THEN r[f] ELSE NewReader(r.host)[f]]

(***************************************************************************)
(* The buffer.                                                             *)
(***************************************************************************)
Avail(r) == Len(r.buf) - r.rd
\* n bytes, as far as they are there.
At(r, n) == SubSeq(r.buf, r.rd + 1, IF n < Avail(r) THEN r.rd + n ELSE Len(r.buf))
Advance(r, n) == [r EXCEPT !.rd = @ + n]
Chars(bytes) == [i \in DOMAIN bytes |-> bytes[i][1]]

\* AJ_Net_Recv: n bytes.
Recv(r, n) ==
  IF n > Len(r.net) THEN Fail(r, "READ")
  ELSE [r EXCEPT !.buf = @ \o SubSeq(r.net, 1, n), !.net = From(@, n)]

\* AJ_IOBufRebase.
AJ_IOBufRebase(r, preserve) ==
  [r EXCEPT !.buf = SubSeq(r.buf, 1, preserve) \o At(r, Avail(r)), !.rd = preserve]

\* No pointer is, and nothing has been written, behind what it should be.
Inside(r) == r.rd <= Len(r.buf) /\ ~r.outside

\* Mutant: the room that is left is not looked at.
LoadBytes_Anyway(r, n, pad) ==
  LET more == ((n + pad) % U16) - Avail(r)
  IN Then(IF more > 0 THEN Recv(r, more) ELSE r, LAMBDA x : Advance(x, pad))

\* LoadBytes.  The length is cut to 16 bits: its caller may read on by more than was loaded.
LoadBytes(r, n, pad) ==
  LET num == (n + pad) % U16
      more == num - Avail(r)
  IN IF num > BufSize - r.rd THEN Fail(r, "RESOURCES")
     ELSE Then(IF more > 0 THEN Recv(r, more) ELSE r, LAMBDA x : Advance(x, pad))

\* EndianSwap, of num words at an offset of the buffer.  What it reads beyond the bytes that
\* have been loaded is not known.
EndianSwap(r, t, at, num) ==
  LET w == ALIGNMENT(t)
      first(i) == at + ((i - at - 1) \div w) * w + 1
      swapped(i) == IF first(i) + w - 1 > Len(r.buf) THEN Byte(Garbled)
                    ELSE r.buf[2 * first(i) + w - 1 - i]
  IN IF r.order = r.host \/ w = 1 THEN r
     ELSE [r EXCEPT !.buf = [i \in DOMAIN @ |-> IF i \in (at + 1)..(at + num * w) THEN swapped(i) ELSE @[i]]]

\* A number that has been loaded, converted in place and read.
Converted(r, t) == EndianSwap(r, t, r.rd, 1)
Value(r, t) == ReadNumber(r.host, At(r, ALIGNMENT(t)))

(***************************************************************************)
(* One value.                                                              *)
(***************************************************************************)
Returns(r, arg) == [r EXCEPT !.arg = arg]

\* An array of numbers, converted where it is.  The code counts bytes for numbers, so that it
\* converts what is behind the array too, up to w times its length of n bytes.
SwapArray(r, t, n) ==
  LET w == ALIGNMENT(t)
      behind == n > 0 /\ w > 1 /\ r.order # r.host
  IN [EndianSwap(r, t, r.rd, n) EXCEPT
        !.spoilt = @ \/ (behind /\ (Avail(r) > n \/ r.rd + n * w > BufSize)),
        !.outside = @ \/ (behind /\ r.rd + n * w > BufSize)]

UnmarshalScalar(r, t, pad) ==
  LET read(x) == Advance(Returns(x, [NoArg EXCEPT !.typ = t, !.val = <<Value(x, t)>>]), ALIGNMENT(t))
      loaded(x) == read(Converted(x, t))
  IN Then(LoadBytes(r, ALIGNMENT(t), pad), loaded)

\* A string, a signature or a variant's signature: the NUL is read too.
UnmarshalString(r, t, pad) ==
  LET size == IF ALIGNMENT(t) = 4 THEN AJ_ARG_UINT32 ELSE AJ_ARG_BYTE
      note(x, val) == [Returns(x, [NoArg EXCEPT !.typ = t, !.val = val, !.at = x.rd])
                         EXCEPT !.var = IF t = AJ_ARG_VARIANT THEN val ELSE <<>>]
      chars(x, n) == Then(LoadBytes(x, n + 1, 0), LAMBDA y : Advance(note(y, Chars(At(y, n))), n + 1))
      sized(x) == chars(Advance(x, ALIGNMENT(size)), Value(x, size))
  IN Then(LoadBytes(r, ALIGNMENT(t), pad), LAMBDA x : sized(Converted(x, size)))

\* UnmarshalStruct.
UnmarshalStruct(r, t, sig, pad) ==
  [Returns(LoadBytes(r, 0, pad), [NoArg EXCEPT !.typ = t, !.sig = sig])
     EXCEPT !.left = From(sig, CompleteTypeSigLen(<<t>> \o sig) - 1)]

Elements(r, t, n) ==
  LET w == ALIGNMENT(t)
  IN [i \in 1..(n \div w) |-> ReadNumber(r.host, SubSeq(r.buf, r.rd + (i - 1) * w + 1, r.rd + i * w))]

\* UnmarshalArray.  An array of scalars is converted in place as a whole, unless its elements
\* are to be read one by one.
UnmarshalArray(r, sig, pad) ==
  LET t == sig[1]
      arr(x, n) == [NoArg EXCEPT !.typ = AJ_ARG_ARRAY, !.sig = sig, !.at = x.rd, !.len = n]
      whole(x, n) == Returns(x, [NoArg EXCEPT !.typ = t, !.array = TRUE, !.len = n,
                                              !.val = Elements(x, t, n)])
      read(x, n) == IF ~r.elements /\ IsScalarType(t)
                    THEN Advance(whole(SwapArray(x, t, n % U16), n % U16), n)
                    ELSE Returns(x, arr(x, n % U16))
      load(x, n) == Then(LoadBytes(x, n, PadForType(t, x.rd)), LAMBDA y : read(y, n))
      sized(x) == load(Advance(x, 4), Value(x, AJ_ARG_UINT32))
  IN [Then(LoadBytes(r, 4, pad), LAMBDA x : sized(Converted(x, AJ_ARG_UINT32)))
        EXCEPT !.left = AfterType(sig)]

Unmarshal(r0, sig) ==
  LET t == sig[1]
      r == [r0 EXCEPT !.arg = NoArg, !.left = Tail(sig)]
      pad == PadForType(t, r.rd)
  IN CASE sig = <<>> -> Fail([r0 EXCEPT !.arg = NoArg, !.left = sig], "END_OF_DATA")
       [] sig # <<>> /\ IsScalarType(t) -> UnmarshalScalar(r, t, pad)
       [] sig # <<>> /\ (AJ_IsStringType(t) \/ t = AJ_ARG_VARIANT) -> UnmarshalString(r, t, pad)
       [] sig # <<>> /\ t = AJ_ARG_ARRAY -> UnmarshalArray(r, Tail(sig), pad)
       [] sig # <<>> /\ t \in {AJ_ARG_STRUCT, AJ_ARG_DICT_ENTRY} -> UnmarshalStruct(r, t, Tail(sig), pad)
       [] OTHER -> Fail(r, "UNMARSHAL")

(***************************************************************************)
(* Arguments.                                                              *)
(***************************************************************************)
AJ_NextArgSig(r) ==
  CASE r.var # <<>> -> r.var
    [] r.var = <<>> /\ r.outer # <<>> -> Top(r.outer).sig
    [] OTHER -> From(r.sig, r.off)

AtEndOfArray(r) ==
  r.var = <<>> /\ r.outer # <<>> /\ Top(r.outer).typ = AJ_ARG_ARRAY
  /\ r.rd - Top(r.outer).at = Top(r.outer).len

\* The bytes that have been read are taken off those that are left of the body.
Counted(r, x) ==
  IF x.rd - r.rd > x.body THEN Fail(x, "READ") ELSE [x EXCEPT !.body = @ - (x.rd - r.rd)]

AJ_UnmarshalArg(r) ==
  LET x == Unmarshal([r EXCEPT !.var = <<>>, !.status = "OK"], AJ_NextArgSig(r))
      moved(y) == CASE r.var # <<>> -> y
                    [] r.var = <<>> /\ r.outer = <<>> -> [y EXCEPT !.off = Len(r.sig) - Len(y.left)]
                    [] OTHER -> IF Top(r.outer).typ = AJ_ARG_ARRAY THEN y
                                ELSE [y EXCEPT !.outer[Len(y.outer)].sig = y.left]
      told(y) == Then(y, LAMBDA z : [z EXCEPT !.heard = @ \o TokensOf(z.arg)])
  IN IF AtEndOfArray(r) THEN Fail(Returns(r, NoArg), "NO_MORE") ELSE told(Counted(r, moved(x)))

AJ_UnmarshalContainer(r, t) ==
  LET read == [AJ_UnmarshalArg([r EXCEPT !.elements = TRUE]) EXCEPT !.elements = FALSE]
  IN Then(read, LAMBDA x : IF x.arg.typ = t THEN [x EXCEPT !.outer = Append(@, x.arg)]
                           ELSE Fail(x, "UNMARSHAL"))

\* Mutant: an array may be closed before its end.
AJ_UnmarshalCloseContainer_Early(r) ==
  [r EXCEPT !.outer = Pop(@), !.heard = Append(@, Token("close", Top(r.outer).typ, <<>>))]

AJ_UnmarshalCloseContainer(r) ==
  LET c == Top(r.outer)
      x == [r EXCEPT !.outer = Pop(@), !.heard = Append(@, Token("close", c.typ, <<>>))]
      close == IF c.typ = AJ_ARG_STRUCT THEN AJ_STRUCT_CLOSE ELSE AJ_DICT_ENTRY_CLOSE
  IN CASE c.typ = AJ_ARG_ARRAY /\ r.rd - c.at # c.len -> Fail(x, "UNMARSHAL")
       [] c.typ # AJ_ARG_ARRAY /\ c.sig[1] # close -> Fail(x, "SIGNATURE")
       [] OTHER -> x

\* VUnmarshalArgs, by a signature; vsigs are those the caller expects of the variants.  Nothing
\* follows a container that has been closed.
RECURSIVE VUnmarshalArgs(_, _, _, _)
VUnmarshalArgs(r, sig, vsigs, inside) ==
  LET t == sig[1]
      on(x, s) == VUnmarshalArgs([x EXCEPT !.args = Append(@, x.arg.val)], s, vsigs, inside)
      typed(x) == IF x.arg.typ # t \/ x.arg.array THEN Fail(x, "UNMARSHAL") ELSE on(x, Tail(sig))
      contents(x) == VUnmarshalArgs(x, vsigs[1], Tail(vsigs), FALSE)
      after(x) == IF x.status = "OK" THEN VUnmarshalArgs(x, Tail(sig), Tail(vsigs), inside)
                  ELSE Fail(x, "UNEXPECTED")
      variant(x) == CASE x.status # "OK" -> Fail(x, "UNEXPECTED")
                      [] x.status = "OK" /\ x.arg.val # vsigs[1] -> Fail(x, "SIGNATURE")
                      [] OTHER -> after(contents(x))
  IN CASE sig = <<>> -> r
       [] sig # <<>> /\ IsBasicType(t) -> Then(AJ_UnmarshalArg(r), typed)
       [] sig # <<>> /\ t \in {AJ_ARG_STRUCT, AJ_ARG_DICT_ENTRY} ->
            IF inside THEN Fail(r, "MARSHAL")
            ELSE VUnmarshalArgs([AJ_UnmarshalContainer(r, t) EXCEPT !.status = "OK"], Tail(sig), vsigs, TRUE)
       [] sig # <<>> /\ t = AJ_ARG_ARRAY /\ Len(sig) > 1 /\ IsBasicType(sig[2]) ->
            Then(AJ_UnmarshalArg(r), LAMBDA x : on(x, From(sig, 2)))
       [] sig # <<>> /\ t \in {AJ_STRUCT_CLOSE, AJ_DICT_ENTRY_CLOSE} -> AJ_UnmarshalCloseContainer(r)
       [] sig # <<>> /\ t = AJ_ARG_VARIANT -> variant(AJ_UnmarshalArg(r))
       [] OTHER -> Fail(r, "UNEXPECTED")

AJ_UnmarshalArgs(r, sig, vsigs) == VUnmarshalArgs([r EXCEPT !.args = <<>>], sig, vsigs, FALSE)

(***************************************************************************)
(* Skipping, starting again and reading the bytes as they are.             *)
(***************************************************************************)
RECURSIVE AJ_SkipArg(_), SkipElements(_)

\* Skip what is left of a struct or dict entry.
SkipElements(r) ==
  IF r.status # "OK" \/ Top(r.outer).sig[1] \in {AJ_STRUCT_CLOSE, AJ_DICT_ENTRY_CLOSE} THEN r
  ELSE SkipElements(AJ_SkipArg(r))

\* Mutant: the bytes of an array that is skipped are not taken off the body.
SkipArray_Uncounted(r) ==
  Then(LoadBytes(r, r.arg.len, 0), LAMBDA x : Advance(x, r.arg.len))

SkipArray(r) ==
  Then(LoadBytes(r, r.arg.len, 0),
       LAMBDA x : [Advance(x, r.arg.len) EXCEPT !.body = @ - r.arg.len,
                                                !.skipped = @ \/ r.order # r.host])

\* AJ_SkipArg.  A variant is skipped with its value; that the value may be one too is not
\* provided for.
AJ_SkipArg(r) ==
  LET variant(x) == IF x.var # <<>> THEN AJ_UnmarshalArg(x) ELSE x
      inside(x) == [x EXCEPT !.outer = Append(@, x.arg)]
      contents(x) == IF x.arg.typ = AJ_ARG_ARRAY THEN SkipArray(x) ELSE SkipElements(x)
      closed(x) == Then(x, AJ_UnmarshalCloseContainer)
      skip(x) == CASE x.arg.typ = 0 -> Fail(x, "SIGNATURE")
                   [] AJ_IsContainerType(x.arg.typ) /\ ~x.arg.array ->
                        [closed(contents(inside(x))) EXCEPT !.outer = x.outer]
                   [] OTHER -> x
      read(x) == IF x.status = "OK" THEN skip(variant(x)) ELSE x
  IN IF r.var # <<>> THEN Fail(r, "UNEXPECTED") ELSE read(AJ_UnmarshalArg(r))

RECURSIVE SkipArgs(_)
SkipArgs(r) == IF r.body = 0 \/ r.status # "OK" THEN r ELSE SkipArgs(AJ_SkipArg(r))

\* Mutant: the order of the bytes stays that of the sender.
AJ_ResetArgs_Foreign(r) ==
  IF r.sig = <<>> THEN r
  ELSE Then(SkipArgs(r), LAMBDA x : [x EXCEPT !.rd = HdrSize + r.headerLen + HdrPad(r.headerLen),
                                              !.off = 0, !.body = r.bodyLen])

\* AJ_ResetArgs.  Everything has been converted by then, but for the arrays that were skipped.
AJ_ResetArgs(r) ==
  IF r.sig = <<>> THEN r
  ELSE Then(SkipArgs(r), LAMBDA x : [x EXCEPT !.order = r.host, !.off = 0, !.body = r.bodyLen % U16,
                                              !.rd = HdrSize + r.headerLen + HdrPad(r.headerLen),
                                              !.spoilt = @ \/ x.skipped])

\* AJ_UnmarshalRaw of at most n bytes.
AJ_UnmarshalRaw(r, n) ==
  LET hdrSize == 8 + r.headerLen + HdrPad(r.headerLen)
      pad == PadForType(From(r.sig, r.off)[1], r.rd)
      begun == IF r.raw THEN r
               ELSE [LoadBytes(r, 0, pad) EXCEPT !.body = @ - pad, !.sig = <<>>, !.raw = TRUE]
      room(x) == IF Avail(x) < n THEN AJ_IOBufRebase(x, hdrSize) ELSE x
      size(x) == LET space == BufSize - Len(x.buf) IN IF n < space THEN n ELSE space
      take(x, len) == Then(LoadBytes(x, len, 0),
                           LAMBDA y : [Advance(y, len) EXCEPT !.body = @ - len,
                                                              !.rawHeard = @ \o At(y, len)])
      fit(x) == take(x, size(x))
  IN CASE ~r.raw /\ r.off = Len(r.sig) -> Fail(r, "SIGNATURE")
       [] ~r.raw /\ r.off < Len(r.sig) /\ pad > r.body -> Fail(r, "UNMARSHAL")
       [] OTHER -> IF n > begun.body THEN Fail(begun, "UNMARSHAL") ELSE fit(room(begun))

\* What is left of the body is skipped, in pieces if the buffer cannot hold it.
RECURSIVE SkipBody(_)
SkipBody(r) ==
  LET min(m, n) == IF m < n THEN m ELSE n
      skipped(x, n) == [Advance(x, n) EXCEPT !.body = @ - n]
      skip(x, n) == SkipBody(Then(LoadBytes(x, n, 0), LAMBDA y : skipped(y, n)))
  IN CASE r.body = 0 \/ r.status # "OK" -> r
       [] r.body > 0 /\ r.status = "OK" /\ Avail(r) > 0 -> skip(r, min(Avail(r), r.body))
       [] OTHER -> skip([r EXCEPT !.buf = <<>>, !.rd = 0], min(r.body, BufSize))

AJ_CloseMsg(r) == Cleared(SkipBody([r EXCEPT !.status = "OK"]))

(***************************************************************************)
(* The header.                                                             *)
(***************************************************************************)
\* The first 16 bytes, received as far as they are not in the buffer yet.
FixedHeader(r0) ==
  LET more == HdrSize - Avail(r0)
      start == AJ_IOBufRebase(Cleared(r0), 0)
      first(r) == [r EXCEPT !.rd = HdrSize, !.order = r.buf[1][1],
                            !.type = r.buf[2][1], !.flags = r.buf[3][1]]
      number(r, at) == ReadNumber(r.host, SubSeq(r.buf, at + 1, at + 4))
      numbers(r) == [r EXCEPT !.bodyLen = number(r, BodyLenAt), !.body = number(r, BodyLenAt) % U16,
                              !.serial = number(r, SerialAt), !.headerLen = number(r, HeaderLenAt)]
      read(r) == IF r.buf[1][1] \notin {AJ_LITTLE_ENDIAN, AJ_BIG_ENDIAN} THEN Fail(r, "READ")
                 ELSE numbers(EndianSwap(first(r), AJ_ARG_UINT32, BodyLenAt, 3))
  IN Then(IF more > 0 THEN Recv(start, more) ELSE start, read)

\* Where the value of a header field goes; those from 20 on are not known.
FieldOf == <<"path", "iface", "member", "error", "replySerial", "destination", "sender", "sig">>
NoteField(r, id) ==
  CASE id \in DOMAIN FieldOf /\ r.arg.typ # TypeForHdr(id) -> Fail(r, "UNMARSHAL")
    [] id \in DOMAIN FieldOf /\ r.arg.typ = TypeForHdr(id) ->
         [r EXCEPT ![FieldOf[id]] = IF id = AJ_HDR_REPLY_SERIAL THEN r.arg.val[1] ELSE r.arg.val]
    [] OTHER -> r

\* One header field, a (yv): its number and the type of its value are read first.
UnmarshalField(r) ==
  LET tagged(x) == Unmarshal(Advance(x, 4), <<At(x, 4)[3][1]>>)
      field(x) == Then(tagged(x), LAMBDA y : NoteField(y, At(x, 4)[1][1]))
  IN Then(LoadBytes(r, 4, PadForType(AJ_ARG_STRUCT, r.rd)), field)

RECURSIVE UnmarshalFields(_, _)
UnmarshalFields(r, end) ==
  IF r.rd >= end \/ r.status # "OK" THEN r ELSE UnmarshalFields(UnmarshalField(r), end)

\* ValidateHeader: the fields each type of message must have.
ValidateHeader(r) ==
  LET addressed == r.destination # <<>>
      answers == addressed /\ r.replySerial # 0
      common == r.sender # <<>> /\ (r.path # <<>> \/ r.replySerial # 0)
      error == common /\ r.type = AJ_MSG_ERROR
      complete == CASE r.type = AJ_MSG_SIGNAL -> r.iface # <<>> /\ r.member # <<>>
                    [] r.type = AJ_MSG_METHOD_CALL -> addressed /\ r.iface # <<>> /\ r.member # <<>>
                    [] r.type = AJ_MSG_METHOD_RET -> answers
                    [] OTHER -> FALSE
  IN CASE error -> IF answers /\ r.error # <<>> THEN r ELSE Fail(r, "REJECTED")
       [] ~error /\ common /\ complete -> r
       [] OTHER -> Fail(r, "UNMARSHAL")

\* Mutant: what the reading of the fields has converted stays so.
Restored_Not(r, raw) == r

\* The header of an encrypted message from a host of the other byte order is put back as it came.
Restored(r, raw) ==
  IF r.order = r.host \/ ~HasFlag(r.flags, AJ_FLAG_ENCRYPTED) THEN r
  ELSE [r EXCEPT !.buf = Patched(@, HdrSize, raw)]

\* DecryptMessage.  What was sealed is the header as it was sent.
DecryptMessage(r, sealed, keyed) ==
  LET x == EndianSwap(r, AJ_ARG_UINT32, BodyLenAt, 3)
      same == SubSeq(x.buf, 1, Len(x.buf) - r.bodyLen) = sealed
  IN CASE ~keyed -> Fail(r, "SECURITY")
       [] keyed /\ ~same -> Fail(r, "DECRYPT")
       [] OTHER -> r

\* AJ_UnmarshalMsg, up to AJ_IdentifyMessage.  If it fails the message is yet to be closed, unless
\* its header could not be loaded: then it is left as it is, and not open.
AJ_UnmarshalMsg(r0, sealed, keyed) ==
  LET decrypted(r) == DecryptMessage(r, sealed, keyed)
      opened(r) == IF HasFlag(r.flags, AJ_FLAG_ENCRYPTED) THEN Then(LoadBytes(r, r.bodyLen, 0), decrypted) ELSE r
      toggled(r) == [r EXCEPT !.flags = Toggle(@, AJ_FLAG_AUTO_START)]
      body(r, end) ==
        CASE r.rd = end /\ r.status = "OK" -> toggled(opened(Advance(r, HdrPad(r.headerLen))))
          [] r.rd # end -> [Fail(r, "HDR_CORRUPT") EXCEPT !.rd = end + HdrPad(r.headerLen)]
          [] OTHER -> [r EXCEPT !.rd = end + HdrPad(r.headerLen)]
      fields(r) == Restored(Then(UnmarshalFields(r, HdrSize + r.headerLen), ValidateHeader),
                            At(r, r.headerLen))
      rest(r) == body(fields(r), HdrSize + r.headerLen)
      loaded(r) == Then(LoadBytes(r, r.headerLen + HdrPad(r.headerLen), 0),
                        LAMBDA x : rest([x EXCEPT !.open = TRUE]))
      sized(r) == IF r.headerLen > BufSize - HdrSize THEN Fail(r, "READ") ELSE loaded(r)
  IN Then(FixedHeader(r0), sized)
=============================================================================
