------------------------------ MODULE Marshal ------------------------------
(***************************************************************************)
(* Composing and sending a message: the second half of src/aj_msg.c.  A    *)
(* message being composed is a record: AJ_Message, with the transmit       *)
(* buffer (buf, from bufStart to writePtr), what has been sent from it     *)
(* (sent), and for Marshal's callers the signature that is left (left) and *)
(* the container it begins (opens).  hdr says whether the header is still  *)
(* in the buffer; told is what the application has said, args its values   *)
(* for AJ_MarshalArgs.                                                     *)
(***************************************************************************)
EXTENDS Wire
LOCAL INSTANCE SequencesExt

MacLength == 8   \* MAC_LENGTH

\* AJ_InitArg and InitArg.  The values of an array of scalars are those of its elements.
Arg(t, val)      == [typ |-> t, array |-> FALSE, val |-> val]
ArrayArg(t, val) == [typ |-> t, array |-> TRUE, val |-> val]

NewMessage(host) ==
  [host |-> host, status |-> "OK", buf |-> <<>>, sent |-> <<>>, hdr |-> TRUE, sig |-> <<>>,
   off |-> 0, outer |-> <<>>, var |-> <<>>, body |-> 0, left |-> <<>>, opens |-> <<>>,
   sealed |-> <<>>, told |-> <<>>, args |-> <<>>]

\* WriteBytes.  Once the header has been sent a full buffer is sent too.
WriteBytes(w, bytes, pad) ==
  LET all == Zeros(pad) \o bytes
      rest == ((Len(all) - 1) % BufSize) + 1
  IN CASE Len(w.buf) + Len(all) <= BufSize -> [w EXCEPT !.buf = @ \o all]
       [] Len(w.buf) + Len(all) > BufSize /\ w.hdr -> Fail(w, "RESOURCES")
       [] OTHER -> [w EXCEPT !.sent = @ \o w.buf \o SubSeq(all, 1, Len(all) - rest),
                             !.buf = SubSeq(all, Len(all) - rest + 1, Len(all))]

Poke(w, at, v, size) == [w EXCEPT !.buf = Patched(@, at, Number(w.host, v, size))]

(***************************************************************************)
(* One value.                                                              *)
(***************************************************************************)
\* MarshalContainer.
MarshalContainer(w, sig, pad) ==
  LET opened(x) == [x EXCEPT !.opens = [typ |-> sig[1], sig |-> Tail(sig), at |-> Len(x.buf) - 4],
                             !.left = AfterType(sig)]
      aligned(x) == WriteBytes(x, <<>>, PadForType(sig[2], Len(x.buf)))
  IN IF sig[1] = AJ_ARG_ARRAY THEN Then(opened(WriteBytes(w, <<>>, pad + 4)), aligned)
     ELSE opened(WriteBytes(w, <<>>, pad))

\* A scalar, or an array of them: its length in bytes and its elements.
MarshalScalar(w, sig, arg, pad) ==
  LET size == ALIGNMENT(arg.typ)
      numbers == FlattenSeq([i \in DOMAIN arg.val |-> Number(w.host, arg.val[i], size)])
      elements(x) == WriteBytes([x EXCEPT !.left = From(sig, 2)], numbers,
                                PadForType(arg.typ, Len(x.buf)))
  IN CASE arg.array /\ Len(sig) >= 2 /\ SubSeq(sig, 1, 2) = <<AJ_ARG_ARRAY, arg.typ>> ->
            Then(WriteBytes(w, Number(w.host, Len(numbers), 4), pad), elements)
       [] ~arg.array /\ sig[1] = arg.typ -> WriteBytes(w, numbers, pad)
       [] OTHER -> Fail(w, "MARSHAL")

\* A string or the signature of a variant: its length, its characters and a NUL.
MarshalString(w, t, val, pad) ==
  LET length == IF ALIGNMENT(t) = 1 THEN <<Byte(Len(val))>> ELSE Number(w.host, Len(val), 4)
      noted(x) == IF t = AJ_ARG_VARIANT THEN [x EXCEPT !.var = val] ELSE x
      chars(x) == noted(WriteBytes(x, Bytes(val) \o Zeros(1), 0))
  IN IF ALIGNMENT(t) = 1 /\ Len(val) > 255 THEN Fail(w, "MARSHAL")
     ELSE Then(WriteBytes(w, length, pad), chars)

Marshal(w, sig, arg) ==
  LET t == sig[1]
      pad == PadForType(t, Len(w.buf))
      x == [w EXCEPT !.left = Tail(sig)]
  IN CASE IsScalarType(arg.typ) -> MarshalScalar(x, sig, arg, pad)
       [] ~IsScalarType(arg.typ) /\ t # arg.typ -> Fail(x, "MARSHAL")
       [] t = arg.typ /\ (AJ_IsStringType(t) \/ t = AJ_ARG_VARIANT) ->
            MarshalString(x, t, arg.val, pad)
       [] t = arg.typ /\ AJ_IsContainerType(t) -> MarshalContainer(x, sig, pad)

\* AJ_MarshalArg: by the signature of a variant, of a container, or of the message.
AJ_MarshalArg(w, arg) ==
  LET counted(x) == [x EXCEPT !.body = @ + Len(x.buf) - Len(w.buf), !.told = @ \o TokensOf(arg)]
      inVariant == Marshal([w EXCEPT !.var = <<>>], w.var, arg)
      advanced(x) == IF Top(w.outer).typ = AJ_ARG_ARRAY THEN x
                     ELSE [x EXCEPT !.outer[Len(x.outer)].sig = x.left]
      inMessage(sig) == Marshal(w, sig, arg)
      moved(x) == [x EXCEPT !.off = Len(w.sig) - Len(x.left)]
  IN CASE w.status # "OK" -> w
       [] w.status = "OK" /\ w.var # <<>> -> Then(inVariant, counted)
       [] w.status = "OK" /\ w.var = <<>> /\ w.outer # <<>> ->
            IF Top(w.outer).sig = <<>> THEN Fail(w, "END_OF_DATA")
            ELSE Then(advanced(Marshal(w, Top(w.outer).sig, arg)), counted)
       [] OTHER ->
            IF w.off = Len(w.sig) THEN Fail(w, "END_OF_DATA")
            ELSE Then(moved(inMessage(From(w.sig, w.off))), counted)

AJ_MarshalContainer(w, t) ==
  Then(AJ_MarshalArg(w, Arg(t, <<>>)), LAMBDA x : [x EXCEPT !.outer = Append(@, x.opens)])

\* The length of an array: neither the length field nor the pad before its elements.
ArrayLen(w, arr) ==
  LET len == Len(w.buf) - arr.at - 4
  IN IF ALIGNMENT(arr.sig[1]) = 8 /\ (arr.at \div 4) % 2 = 0 /\ len # 0 THEN len - 4 ELSE len

AJ_MarshalCloseContainer(w) ==
  LET c == Top(w.outer)
      x == [w EXCEPT !.outer = Pop(@), !.told = Append(@, Token("close", c.typ, <<>>))]
      close == IF c.typ = AJ_ARG_STRUCT THEN AJ_STRUCT_CLOSE ELSE AJ_DICT_ENTRY_CLOSE
  IN CASE c.typ = AJ_ARG_ARRAY -> Poke(x, c.at, ArrayLen(w, c), 4)
       [] c.typ # AJ_ARG_ARRAY /\ (c.sig = <<>> \/ c.sig[1] # close) -> Fail(x, "SIGNATURE")
       [] OTHER -> x

AJ_MarshalVariant(w, sig) ==
  IF CompleteTypeSigLen(sig) # Len(sig) THEN Fail(w, "UNEXPECTED")
  ELSE AJ_MarshalArg(w, Arg(AJ_ARG_VARIANT, sig))

\* VMarshalArgs: the values args by a signature.  The status of an array or of an opened
\* container is not looked at, and nothing follows a container that has been closed.
RECURSIVE VMarshalArgs(_, _, _)
VMarshalArgs(w, sig, inside) ==
  LET t == sig[1]
      on(x, s, in) == VMarshalArgs([x EXCEPT !.args = From(w.args, 1)], s, in)
      next(x, s, in) == Then(x, LAMBDA y : on(y, s, in))
      regardless(x, s) == on([x EXCEPT !.status = "OK"], s, inside)
      variant(x) == Then(x, LAMBDA y : on(y, w.args[1], FALSE))
      after(x) == IF x.status = "OK" THEN VMarshalArgs(x, Tail(sig), inside) ELSE Fail(x, "UNEXPECTED")
  IN CASE sig = <<>> -> w
       [] sig # <<>> /\ IsBasicType(t) -> next(AJ_MarshalArg(w, Arg(t, w.args[1])), Tail(sig), inside)
       [] sig # <<>> /\ t \in {AJ_ARG_STRUCT, AJ_ARG_DICT_ENTRY} ->
            IF inside THEN Fail(w, "MARSHAL")
            ELSE VMarshalArgs([AJ_MarshalContainer(w, t) EXCEPT !.status = "OK"], Tail(sig), TRUE)
       [] sig # <<>> /\ t = AJ_ARG_ARRAY /\ Len(sig) > 1 /\ IsBasicType(sig[2]) ->
            regardless(AJ_MarshalArg(w, ArrayArg(sig[2], w.args[1])), From(sig, 2))
       [] sig # <<>> /\ t \in {AJ_STRUCT_CLOSE, AJ_DICT_ENTRY_CLOSE} -> AJ_MarshalCloseContainer(w)
       [] sig # <<>> /\ t = AJ_ARG_VARIANT -> after(variant(AJ_MarshalVariant(w, w.args[1])))
       [] OTHER -> Fail(w, "UNEXPECTED")

AJ_MarshalArgs(w, sig, vals) == VMarshalArgs([w EXCEPT !.args = vals], sig, FALSE)

(***************************************************************************)
(* The header.                                                             *)
(***************************************************************************)
\* One header field, a (yv).  What does not fit is left out: the status is not looked at.
MarshalField(w, field) ==
  LET t == TypeForHdr(field.id)
      tag == <<Byte(field.id), Byte(1), Byte(t), Byte(0)>>
      value(x) == Marshal(x, <<t>>, Arg(t, field.val))
  IN [value(WriteBytes(w, tag, PadForType(AJ_ARG_STRUCT, Len(w.buf)))) EXCEPT !.status = "OK"]

\* MarshalMsg, once AJ_InitMessageFromMsgId has given the fields and the signature.
MarshalMsg(host, type, flags, serial, fields, sig) ==
  LET fixed == <<Byte(host), Byte(type), Byte(Toggle(flags, AJ_FLAG_AUTO_START)), Byte(1)>>
                 \o Number(host, 0, 4) \o Number(host, serial, 4) \o Number(host, 0, 4)
      ended(w, len) == WriteBytes(Poke(w, HeaderLenAt, len, 4), <<>>, HdrPad(len))
      end(w) == ended(w, Len(w.buf) - HdrSize)
  IN end(FoldLeft(MarshalField, [NewMessage(host) EXCEPT !.buf = fixed, !.sig = sig], fields))

FlagsOf(w) == w.buf[3][1]
(***************************************************************************)
(* Delivery.                                                               *)
(***************************************************************************)
NetSend(w) == [w EXCEPT !.sent = @ \o w.buf, !.buf = <<>>]

\* Mutant: the length in the header does not count the MAC.
EncryptMessage_Short(w, keyed) ==
  CASE Len(w.buf) + MacLength > BufSize -> Fail(w, "RESOURCES")
    [] Len(w.buf) + MacLength <= BufSize /\ ~keyed -> Fail(w, "SECURITY")
    [] OTHER -> [w EXCEPT !.buf = @ \o Zeros(MacLength), !.sealed = SubSeq(w.buf, 1, Len(w.buf) - w.body)]

\* EncryptMessage.  The MAC authenticates the header as it stands (sealed), serial included.
EncryptMessage(w, keyed) ==
  LET longer == Poke(w, BodyLenAt, w.body + MacLength, 4)
  IN CASE Len(w.buf) + MacLength > BufSize -> Fail(w, "RESOURCES")
       [] Len(w.buf) + MacLength <= BufSize /\ ~keyed -> Fail(w, "SECURITY")
       [] OTHER -> [longer EXCEPT !.buf = @ \o Zeros(MacLength),
                                  !.sealed = SubSeq(longer.buf, 1, Len(w.buf) - w.body)]

\* AJ_DeliverMsg.  keyed: whether there is a key for the destination.
AJ_DeliverMsg(w, keyed) ==
  LET sized == Poke(w, BodyLenAt, w.body, 4)
      whole == IF HasFlag(FlagsOf(w), AJ_FLAG_ENCRYPTED) THEN EncryptMessage(sized, keyed)
               ELSE sized
  IN CASE w.hdr -> Then(whole, NetSend)
       [] ~w.hdr /\ w.body # 0 -> Fail(w, "MARSHAL")
       [] ~w.hdr /\ w.body = 0 -> NetSend(w)

\* AJ_DeliverMsgPartial: n bytes will follow.
AJ_DeliverMsgPartial(w, n) ==
  LET pad == PadForType(w.sig[w.off + 1], Len(w.buf))
      begun(x) == [Poke(x, BodyLenAt, w.body + pad + n, 4)
                     EXCEPT !.hdr = FALSE, !.body = n, !.sig = <<>>, !.off = 0]
  IN CASE ~w.hdr \/ n = 0 -> Fail(w, "UNEXPECTED")
       [] w.hdr /\ n # 0 /\ HasFlag(FlagsOf(w), AJ_FLAG_ENCRYPTED) -> Fail(w, "SECURITY")
       [] w.hdr /\ n # 0 /\ ~HasFlag(FlagsOf(w), AJ_FLAG_ENCRYPTED) ->
            IF w.off = Len(w.sig) THEN Fail(w, "SIGNATURE")
            ELSE Then(WriteBytes(w, <<>>, pad), begun)

AJ_MarshalRaw(w, bytes) ==
  CASE w.hdr -> Fail(w, "UNEXPECTED")
    [] ~w.hdr /\ Len(bytes) > w.body -> Fail(w, "WRITE")
    [] OTHER -> WriteBytes([w EXCEPT !.body = @ - Len(bytes)], bytes, 0)
=============================================================================
