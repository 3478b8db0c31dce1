------------------------------- MODULE Creds -------------------------------
(***************************************************************************)
(* The credentials of a device and its GUID, src/aj_creds.c, as data sets  *)
(* of the NVRAM, and AJ_Initialize.  A call runs to its end; the power may *)
(* fail between two writes of the file, and while the file is written,     *)
(* which leaves it empty.  A failure within a compaction leaves a store    *)
(* whose entries no longer follow each other: what the code makes of it    *)
(* reads beyond the entries, and is not modelled.                          *)
(***************************************************************************)
EXTENDS Nvram

CONSTANTS
  NumCreds,     \* AJ_MAX_CREDS
  Credential,   \* the credentials that may be stored
  Guids         \* the values AJ_RandBytes may have for a GUID

AJ_LOCAL_GUID_NV_ID  == 1
AJ_CRED_TYPE_GENERIC == 1
CredSlots == 2..(1 + NumCreds)   \* AJ_CREDS_NV_ID_BEGIN up to AJ_CREDS_NV_ID_END
IdLen == 1                       \* the length of every id, a half-word

Cell == 0..INVALID_DATA          \* a half-word

ASSUME CredsAssumption ==
  /\ NumCreds \in Nat \ {0} /\ NumCreds + 1 < INVALID_DATA
  /\ Credential \subseteq [type : Cell, id : Cell \ {INVALID_DATA}, expiration : Cell, data : Seq(Cell)]
  /\ Guids \subseteq Cell /\ Guids # {}

VARIABLES
  mem,    \* AJ_EMULATED_NVRAM
  file,   \* the file ajlite.nvram
  todo,     \* writes the call in progress still has to make to the file
  storing,  \* the set of the credential that it stores, empty if it stores none
  pc        \* "off", "on", "stuck" in a call that does not return, or "broken" by a compaction

vars == <<mem, file, todo, storing, pc>>

(***************************************************************************)
(* Credentials in data sets.                                               *)
(***************************************************************************)
\* The fields, in the order UpdateCred writes them; that of the expiration has two half-words,
\* the second 0.  There are no associations.
Fields(c) ==
  <<<<c.type>>, <<IdLen>>, <<c.id>>, <<c.expiration, 0>>, <<0>>, <<Len(c.data)>>>>
    \o (IF c.data = <<>> THEN <<>> ELSE <<c.data>>)

\* Mutant: the two lengths that come before the data are not counted.
GetCredentialSize_Short(c) == 5 + Len(c.data)

GetCredentialSize(c) == 7 + Len(c.data)

\* The data sets of the slots that can be opened and have an id of the right length, as
\* AJ_FindNVEntry gives them; and the type and the id.
Entries(m) == {p \in {AJ_FindNVEntry(m, s) : s \in CredSlots} \ {0} : AJ_NVRAM_Read(m, p, 1, 1) = <<IdLen>>}
SlotOf(m, p) == m[p]
TypeOf(m, p) == AJ_NVRAM_Read(m, p, 0, 1)[1]
IdOf(m, p)   == AJ_NVRAM_Read(m, p, 2, IdLen)[1]

\* ReadRemainderOfCredential: the set of the credential, empty if a read fails.  Nothing that
\* is shorter than a length says can be read.
ReadRemainderOfCredential(m, p) ==
  LET assLen  == AJ_NVRAM_Read(m, p, 5, 1)
      dataLen == AJ_NVRAM_Read(m, p, 6, 1)
      data    == AJ_NVRAM_Read(m, p, 7, dataLen[1])
  IN IF assLen = <<0>> /\ Len(dataLen) = 1 /\ Len(data) = dataLen[1]
     THEN {[type |-> TypeOf(m, p), id |-> IdOf(m, p),
            expiration |-> AJ_NVRAM_Read(m, p, 3, 1)[1], data |-> data]}
     ELSE {}

\* The lowest slot of a set of entries, 0 if there is none.
LowestSlot(m, S) ==
  IF S = {} THEN 0 ELSE SlotOf(m, CHOOSE p \in S : \A q \in S : SlotOf(m, p) <= SlotOf(m, q))

Matching(m, type, id) == {p \in Entries(m) : TypeOf(m, p) = type /\ IdOf(m, p) = id}

\* Mutant: a credential that cannot be read to its end is passed over.
FindCredential_Whole(m, type, id) ==
  LowestSlot(m, {p \in Matching(m, type, id) : ReadRemainderOfCredential(m, p) # {}})

\* FindCredential as a short query: the slot, or 0.
FindCredential(m, type, id) == LowestSlot(m, Matching(m, type, id))

\* AJ_GetCredential, a full query: the set of the credential found.
AJ_GetCredential(m, type, id) ==
  LET slot == FindCredential(m, type, id) IN
  IF slot = 0 THEN {} ELSE ReadRemainderOfCredential(m, AJ_FindNVEntry(m, slot))

FindCredsEmptySlot(m) ==
  LET empty == {s \in CredSlots : ~AJ_NVRAM_Exist(m, s)}
  IN IF empty = {} THEN 0 ELSE CHOOSE s \in empty : \A t \in empty : s <= t

\* The n first fields of c are written, each with a call of its own.
WriteFields(s, entry, c, n) ==
  LET written[i \in 0..n] ==
        IF i = 0 THEN [pos |-> 0, s |-> s]
        ELSE LET w == written[i - 1] IN
             [pos |-> w.pos + Len(Fields(c)[i]),
              s |-> AJ_NVRAM_Write(w.s, entry, w.pos, Fields(c)[i])]
  IN written[n].s

UpdateCred(s, c, slot) ==
  LET open == AJ_NVRAM_OpenW(s, slot, GetCredentialSize(c)) IN
  IF open.entry = 0 THEN [status |-> "FAILURE", s |-> open.s]
  ELSE [status |-> "OK", s |-> WriteFields(open.s, open.entry, c, Len(Fields(c)))]

(***************************************************************************)
(* Making room.                                                            *)
(***************************************************************************)
Found(slot, s) == [slot |-> slot, status |-> "OK", s |-> s]

\* What is read of an entry to its end fails the call.
Unreadable(m) == {p \in Entries(m) : ReadRemainderOfCredential(m, p) = {}}
Generics(m) == {p \in Entries(m) : TypeOf(m, p) = AJ_CRED_TYPE_GENERIC}
ExpirationOf(m, p) == AJ_NVRAM_Read(m, p, 3, 1)[1]
LastSlot(m, S) == SlotOf(m, CHOOSE p \in S : \A q \in S : SlotOf(m, q) <= SlotOf(m, p))

\* Mutant: the newest credential goes first.
AJ_DeleteOldestCredential_Newest(s) ==
  LET generic == Generics(s.mem)
      newest == {p \in generic : \A q \in generic : ExpirationOf(s.mem, q) <= ExpirationOf(s.mem, p)}
      slot == LastSlot(s.mem, newest)
  IN IF Unreadable(s.mem) # {} THEN [slot |-> 0, status |-> "FAILURE", s |-> s]
     ELSE IF generic = {} THEN Found(0, s)
     ELSE Found(slot, AJ_NVRAM_Delete(s, slot))

\* AJ_DeleteOldestCredential: of the GENERIC credentials that expire first, the last.
AJ_DeleteOldestCredential(s) ==
  LET generic == Generics(s.mem)
      oldest == {p \in generic : \A q \in generic : ExpirationOf(s.mem, p) <= ExpirationOf(s.mem, q)}
      slot == LastSlot(s.mem, oldest)
  IN IF Unreadable(s.mem) # {} THEN [slot |-> 0, status |-> "FAILURE", s |-> s]
     ELSE IF generic = {} THEN Found(0, s)
     ELSE Found(slot, AJ_NVRAM_Delete(s, slot))

NeedsRoom(r, c) ==
  r.status = "OK" /\
  (r.slot = 0 \/ WORD_ALIGN(GetCredentialSize(c)) >= AJ_NVRAM_GetSizeRemaining(r.s.mem))

\* The loop of AJ_StoreCredential.  A round that deletes nothing is repeated for ever, so
\* after as many rounds as there are slots, and one, more would change nothing.
MakeRoom(s, c) ==
  LET room[n \in 0..(NumCreds + 1)] ==
        IF n = 0 THEN Found(FindCredsEmptySlot(s.mem), s)
        ELSE LET r == room[n - 1] IN IF NeedsRoom(r, c) THEN AJ_DeleteOldestCredential(r.s) ELSE r
  IN room[NumCreds + 1]

\* What AJ_StoreCredential does: its status is "LOOP" when it does not return.
StoreCredential(s, c) ==
  LET old == FindCredential(s.mem, c.type, c.id)
      room == MakeRoom(s, c)
  IN IF old # 0 THEN UpdateCred(s, c, old)
     ELSE IF NeedsRoom(room, c) THEN [status |-> "LOOP", s |-> room.s]
     ELSE IF room.slot = 0 THEN [status |-> "FAILURE", s |-> room.s]
     ELSE UpdateCred(room.s, c, room.slot)

(***************************************************************************)
(* Calls.  In memory a call is done at once; it returns when its writes    *)
(* have been made.                                                         *)
(***************************************************************************)
Store0 == [mem |-> mem, log |-> <<>>]
Idle == pc = "on" /\ todo = <<>>

Does(s, S) == mem' = s.mem /\ todo' = s.log /\ storing' = S /\ UNCHANGED file

\* AJ_StoreCredential, with AJ_StorePeerSecret and AJ_StoreLocalCredential, which build the
\* credential.
AJ_StoreCredential(c) ==
  /\ Idle
  /\ \E r \in {StoreCredential(Store0, c)} :
       /\ Does(r.s, IF r.status = "OK" THEN {c} ELSE {})
       /\ pc' = IF r.status = "LOOP" THEN "stuck" ELSE pc

\* AJ_DeleteCredential, AJ_DeletePeerCredential and AJ_DeleteLocalCredential.
AJ_DeleteCredential(type, id) ==
  LET slot == FindCredential(mem, type, id) IN
  /\ Idle /\ slot # 0
  /\ Does(AJ_NVRAM_Delete(Store0, slot), {}) /\ UNCHANGED pc

\* The n first slots are deleted.
Cleared(s, n) ==
  LET cleared[i \in 0..n] ==
        IF i = 0 THEN s
        ELSE LET t == cleared[i - 1] IN
             IF AJ_NVRAM_Exist(t.mem, 1 + i) THEN AJ_NVRAM_Delete(t, 1 + i) ELSE t
  IN cleared[n]

AJ_ClearCredentials ==
  /\ Idle
  /\ \E s \in {Cleared(Store0, NumCreds)} : Does(s, {})
  /\ UNCHANGED pc

\* The value of the GUID in a memory or a file: a set, empty if there is none.
GuidIn(m) ==
  IF ~AJ_NVRAM_Exist(m, AJ_LOCAL_GUID_NV_ID) THEN {}
  ELSE {AJ_NVRAM_Read(m, AJ_FindNVEntry(m, AJ_LOCAL_GUID_NV_ID), 0, 1)[1]}

\* AJ_GetLocalGUID: if there is none, guid is stored.
AJ_GetLocalGUID(s, guid) ==
  LET write(open) == IF open.entry = 0 THEN open.s
                     ELSE AJ_NVRAM_Write(open.s, open.entry, 0, <<guid>>)
  IN IF GuidIn(s.mem) # {} THEN s ELSE write(AJ_NVRAM_OpenW(s, AJ_LOCAL_GUID_NV_ID, 1))

AJ_Initialize ==
  /\ pc = "off" /\ pc' = "on"
  /\ \E guid \in Guids : Does(AJ_GetLocalGUID(AJ_NVRAM_Init(file), guid), {})

(***************************************************************************)
(* The file and the power.                                                 *)
(***************************************************************************)
\* _AJ_StoreNVToFile, for the next write.
StoreNVToFile ==
  /\ todo # <<>>
  /\ file' = Patch(IF file = <<>> THEN Erased ELSE file, Head(todo).at, Head(todo).cells)
  /\ todo' = Tail(todo) /\ storing' = (IF Tail(todo) = <<>> THEN {} ELSE storing)
  /\ UNCHANGED <<mem, pc>>

\* Opening the file for writing has emptied it, or has not yet.
PowerFails ==
  /\ pc \in {"on", "stuck"} /\ pc' = "off"
  /\ file' \in {file} \cup (IF todo = <<>> THEN {} ELSE {<<>>})
  /\ mem' = Erased /\ todo' = <<>> /\ storing' = {}

\* The power fails when some of the entries have been moved; the device does nothing more.
Compacting == todo # <<>> /\ file # <<>> /\ Head(todo).at = 1
PowerFailsInCompaction ==
  /\ pc \in {"on", "stuck"} /\ pc' = "broken"
  /\ Compacting /\ file' \in Halfway(file)
  /\ mem' = Erased /\ todo' = <<>> /\ storing' = {}
Broken == pc = "broken" /\ UNCHANGED vars

Init == pc = "off" /\ mem = Erased /\ file = <<>> /\ todo = <<>> /\ storing = {}

Next ==
  \/ AJ_Initialize \/ StoreNVToFile \/ PowerFails \/ PowerFailsInCompaction \/ Broken
  \/ \E c \in Credential : AJ_StoreCredential(c) \/ AJ_DeleteCredential(c.type, c.id)
  \/ AJ_ClearCredentials

Spec == Init /\ [][Next]_vars

(***************************************************************************)
(* Properties.                                                             *)
(***************************************************************************)
\* The credentials that can be read, slot by slot.
Stored(m) == UNION {ReadRemainderOfCredential(m, p) : p \in Entries(m)}

\* aj_nvram.c: after any calls, evictions, compactions and power failures but those within a
\* compaction, the entries of the memory and of the file follow each other up to the free space,
\* which is erased; and no id has two.
Chained(m) ==
  /\ m \in [1..NvSize -> 0..INVALID_DATA] /\ SubSeq(m, 1, 2) = Sentinel
  /\ FreeAt(m) <= NvSize + 1 /\ \A i \in FreeAt(m)..NvSize : m[i] = INVALID_DATA
  /\ \A p \in Headers(m) : m[p] \in {INVALID_ID, AJ_LOCAL_GUID_NV_ID} \cup CredSlots
  /\ \A p, q \in Headers(m) : m[p] = m[q] => p = q \/ m[p] = INVALID_ID
TypeOK ==
  /\ Chained(mem) /\ (file # <<>> /\ pc # "broken" => Chained(file))
  /\ \A i \in DOMAIN todo : todo[i].at \in 1..NvSize /\ todo[i].cells \in Seq(0..INVALID_DATA)
  /\ storing \subseteq Credential /\ pc \in {"off", "on", "stuck", "broken"}

\* When no call is in progress the file is the memory, and the device has a GUID.
FileIsMemory == Idle => file = mem /\ GuidIn(mem) # {}

\* AJ_StoreCredential: no two slots ever hold a credential of the same name, not even when the
\* writing of one of them was interrupted after the name.
OneSlotEach ==
  \A p, q \in {r \in Entries(mem) : IdOf(mem, r) # INVALID_DATA} :
    TypeOf(mem, p) = TypeOf(mem, q) /\ IdOf(mem, p) = IdOf(mem, q) => p = q

\* AJ_StoreCredential with AJ_GetCredential: whatever the NVRAM holds, a credential for which
\* AJ_OK is returned is the one that is then found under its name.
StoredIsFound ==
  Idle => \A c \in Credential :
    \A r \in {StoreCredential(Store0, c)} :
      r.status = "OK" => AJ_GetCredential(r.s.mem, c.type, c.id) = {c}

\* The NVRAM and the credentials keep what the abstract store promises: a call touches no
\* credential but its own and, to make room, GENERIC ones, oldest first; on the way of the file to
\* the memory none goes that is to stay; and a power failure leaves what is in the file, or
\* nothing if the file was just being written, unless it comes within a compaction.
Torn(c) == {[c EXCEPT !.data = [i \in DOMAIN @ |-> IF i <= n THEN @[i] ELSE INVALID_DATA]]
              : n \in 0..(Len(c.data) - 1)}
Name(c) == <<c.type, c.id>>
Generic(c) == c.type = AJ_CRED_TYPE_GENERIC
Expiry(c) == c.expiration
TheGuid == IF pc \in {"off", "broken"} THEN INVALID_DATA ELSE CHOOSE g \in GuidIn(mem) : TRUE
Readable == file # <<>> /\ pc # "broken"

Abstract == INSTANCE CredStore WITH
  Named <- Name, Damaged <- Torn, Evictable <- Generic, Expires <- Expiry, NoGuid <- INVALID_DATA,
  creds <- Stored(mem), guid <- TheGuid,
  kept <- IF Readable THEN Stored(file) ELSE {},
  keptGuid <- IF Readable THEN GuidIn(file) ELSE {},
  busy <- todo # <<>>, hand <- {Name(c) : c \in storing}, on <- pc
KeepsPromise == Abstract!Promise
=============================================================================
