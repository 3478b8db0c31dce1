---------------------------- MODULE CredsProofs ----------------------------
(***************************************************************************)
(* Theorems about Creds, for any number of credential slots, a store of    *)
(* any size and any credentials: what a call does to the data sets, step   *)
(* by step, and what the memory and the file therefore always are, the     *)
(* file unless the power fails within a compaction.                        *)
(***************************************************************************)
EXTENDS Creds, NvramProofs, FiniteSetTheorems

CredIds == {AJ_LOCAL_GUID_NV_ID} \cup CredSlots

LEMMA IdFacts ==
  /\ AJ_LOCAL_GUID_NV_ID = 1 /\ IdLen = 1 /\ NumCreds \in Nat /\ NumCreds >= 1
  /\ CredSlots \subseteq Ids /\ AJ_LOCAL_GUID_NV_ID \in Ids /\ AJ_LOCAL_GUID_NV_ID \notin CredSlots
  /\ AJ_LOCAL_GUID_NV_ID # INVALID_DATA /\ IdLen # INVALID_DATA
  /\ CredSlots \subseteq Nat /\ CredIds \subseteq Ids
<1>1. AJ_LOCAL_GUID_NV_ID = 1 /\ IdLen = 1
  BY DEF AJ_LOCAL_GUID_NV_ID, IdLen
<1>2. NumCreds \in Nat /\ NumCreds >= 1 /\ NumCreds + 1 < INVALID_DATA
  <2>1. NumCreds \in Nat \ {0} /\ NumCreds + 1 < INVALID_DATA
    BY CredsAssumption
  <2> QED
    BY <2>1
<1>3. CredSlots \subseteq Ids /\ AJ_LOCAL_GUID_NV_ID \in Ids /\ AJ_LOCAL_GUID_NV_ID \notin CredSlots
  BY <1>1, <1>2, Sizes DEF CredSlots, Ids, HalfWord
<1>4. AJ_LOCAL_GUID_NV_ID # INVALID_DATA /\ IdLen # INVALID_DATA
  BY <1>1, <1>2, Sizes
<1>5. CredSlots \subseteq Nat /\ CredIds \subseteq Ids
  BY <1>2, <1>3 DEF CredSlots, CredIds
<1> QED
  BY <1>1, <1>2, <1>3, <1>4, <1>5

-----------------------------------------------------------------------------
\* The data of a slot: part of a credential, as far as it has been written.
Size(c) == 7 + Len(c.data)
FieldAt(c, x) ==
  IF x = 1 THEN c.type ELSE IF x = 2 THEN IdLen ELSE IF x = 3 THEN c.id ELSE IF x = 4 THEN c.expiration
  ELSE IF x \in {5, 6} THEN 0 ELSE IF x = 7 THEN Len(c.data) ELSE c.data[x - 7]
Part(c, n) == [x \in 1..WORD_ALIGN(Size(c)) |-> IF x <= n THEN FieldAt(c, x) ELSE INVALID_DATA]

LEMMA CredFacts ==
  ASSUME NEW c \in Credential
  PROVE  /\ c = [type |-> c.type, id |-> c.id, expiration |-> c.expiration, data |-> c.data]
         /\ c.type \in HalfWord /\ c.id \in HalfWord /\ c.id # INVALID_DATA /\ c.expiration \in HalfWord
         /\ c.data \in Seq(HalfWord) /\ Len(c.data) \in Nat
         /\ Size(c) \in Nat /\ Size(c) >= 7 /\ GetCredentialSize(c) = Size(c)
         /\ WORD_ALIGN(Size(c)) \in Nat /\ WORD_ALIGN(Size(c)) >= Size(c)
<1> DEFINE d == c.data
<1>1. c \in [type : Cell, id : Cell \ {INVALID_DATA}, expiration : Cell, data : Seq(Cell)]
  BY CredsAssumption
<1>2. c.type \in Cell /\ c.id \in Cell \ {INVALID_DATA} /\ c.expiration \in Cell /\ d \in Seq(Cell)
  BY <1>1
<1> HIDE DEF d
<1>3. Cell = HalfWord
  BY DEF HalfWord, Cell
<1>4. Len(d) \in Nat
  BY <1>2
<1>5. d \in Seq(HalfWord)
  BY <1>2, <1>3
<1>6. c.type \in HalfWord /\ c.id \in HalfWord /\ c.id # INVALID_DATA /\ c.expiration \in HalfWord
  BY <1>2, <1>3
<1>7. Size(c) = 7 + Len(d) /\ GetCredentialSize(c) = 7 + Len(d)
  BY DEF Size, GetCredentialSize, d
<1>8. WORD_ALIGN(Size(c)) \in Nat /\ WORD_ALIGN(Size(c)) >= Size(c)
  BY <1>4, <1>7 DEF WORD_ALIGN
<1> QED
  BY <1>1, <1>4, <1>5, <1>6, <1>7, <1>8 DEF d

LEMMA PartFacts ==
  ASSUME NEW c \in Credential, NEW n \in 0..Size(c)
  PROVE  /\ Part(c, n) # <<>> /\ Len(Part(c, n)) = WORD_ALIGN(Size(c))
         /\ Len(Part(c, n)) >= Size(c) /\ Len(Part(c, n)) >= 7 /\ Len(Part(c, n)) \in Nat
         /\ \A x \in 1..WORD_ALIGN(Size(c)) :
              Part(c, n)[x] = IF x <= n THEN FieldAt(c, x) ELSE INVALID_DATA
         /\ Part(c, n)[1] = (IF n >= 1 THEN c.type ELSE INVALID_DATA)
         /\ Part(c, n)[2] = (IF n >= 2 THEN IdLen ELSE INVALID_DATA)
         /\ Part(c, n)[3] = (IF n >= 3 THEN c.id ELSE INVALID_DATA)
         /\ Part(c, n)[4] = (IF n >= 4 THEN c.expiration ELSE INVALID_DATA)
         /\ Part(c, n)[5] = (IF n >= 5 THEN 0 ELSE INVALID_DATA)
         /\ Part(c, n)[6] = (IF n >= 6 THEN 0 ELSE INVALID_DATA)
         /\ Part(c, n)[7] = (IF n >= 7 THEN Len(c.data) ELSE INVALID_DATA)
<1> DEFINE w == WORD_ALIGN(Size(c))
           d == Part(c, n)
<1>1. Size(c) \in Nat /\ Size(c) >= 7 /\ w \in Nat /\ w >= Size(c)
  BY CredFacts
<1>2. DOMAIN d = 1..w /\ \A x \in 1..w : d[x] = IF x <= n THEN FieldAt(c, x) ELSE INVALID_DATA
  BY DEF Part
<1> HIDE DEF w
<1>3. \E S : d \in Seq(S)
  <2> DEFINE V == {d[x] : x \in 1..w}
  <2>1. d \in [1..w -> V]
    BY DEF Part, w
  <2> HIDE DEF d, V
  <2>2. d \in Seq(V)
    BY <1>1, <2>1
  <2> QED
    BY <2>2
<1> HIDE DEF d
<1>4. Len(d) = w /\ d # <<>>
  BY <1>1, <1>2, <1>3
<1>5. /\ 1 \in 1..w /\ 2 \in 1..w /\ 3 \in 1..w /\ 4 \in 1..w /\ 5 \in 1..w /\ 6 \in 1..w /\ 7 \in 1..w
      /\ n \in Nat
  BY <1>1
<1>6. d[1] = (IF n >= 1 THEN c.type ELSE INVALID_DATA) /\ d[2] = (IF n >= 2 THEN IdLen ELSE INVALID_DATA)
  BY <1>2, <1>5 DEF FieldAt
<1>7. d[3] = (IF n >= 3 THEN c.id ELSE INVALID_DATA) /\ d[4] = (IF n >= 4 THEN c.expiration ELSE INVALID_DATA)
  BY <1>2, <1>5 DEF FieldAt
<1>8. d[5] = (IF n >= 5 THEN 0 ELSE INVALID_DATA) /\ d[6] = (IF n >= 6 THEN 0 ELSE INVALID_DATA)
  BY <1>2, <1>5 DEF FieldAt
<1>9. d[7] = (IF n >= 7 THEN Len(c.data) ELSE INVALID_DATA)
  BY <1>2, <1>5 DEF FieldAt
<1> QED
  BY <1>1, <1>2, <1>4, <1>6, <1>7, <1>8, <1>9 DEF d, w

-----------------------------------------------------------------------------
\* Proper memories: nothing but the GUID and parts of credentials is in them, the GUID is
\* first, and no two slots have the same name.
OfParts(d) == \E c \in Credential : \E n \in 0..Size(c) : d = Part(c, n)
HasName(d) == d # <<>> /\ d[3] # INVALID_DATA
SameName(d, e) == HasName(d) /\ HasName(e) /\ d[1] = e[1] /\ d[3] = e[3]
OneNameEach(m) == \A s, t \in CredSlots : SameName(Data(m, s), Data(m, t)) => s = t

Proper(m) ==
  /\ Good(m) /\ OneNameEach(m)
  /\ \A k \in Ids \ CredIds : Data(m, k) = <<>>
  /\ \A k \in CredSlots : Data(m, k) = <<>> \/ OfParts(Data(m, k))
  /\ m[3] \in {INVALID_DATA, AJ_LOCAL_GUID_NV_ID}

\* What is read of a slot.
Entry(m, s) == AJ_FindNVEntry(m, s)

LEMMA SlotFacts ==
  ASSUME NEW m, Proper(m), NEW s \in CredSlots, Data(m, s) # <<>>
  PROVE  /\ Entry(m, s) # 0 /\ Entry(m, s) \in 3..NvSize /\ SlotOf(m, Entry(m, s)) = s
         /\ TypeOf(m, Entry(m, s)) = Data(m, s)[1] /\ IdOf(m, Entry(m, s)) = Data(m, s)[3]
         /\ ExpirationOf(m, Entry(m, s)) = Data(m, s)[4]
         /\ AJ_NVRAM_Read(m, Entry(m, s), 1, 1) = <<Data(m, s)[2]>>
         /\ AJ_NVRAM_Read(m, Entry(m, s), 5, 1) = <<Data(m, s)[6]>>
         /\ AJ_NVRAM_Read(m, Entry(m, s), 6, 1) = <<Data(m, s)[7]>>
         /\ Entry(m, s) \in Entries(m) <=> Data(m, s)[2] = IdLen
<1> DEFINE d == Data(m, s)
           p == Entry(m, s)
<1>1. Good(m) /\ s \in Ids
  BY IdFacts DEF Proper
<1>2. p # 0 /\ p \in 3..NvSize /\ m[p] = s
  BY <1>1, GoodData DEF Entry
<1>3. PICK c \in Credential : \E n \in 0..Size(c) : d = Part(c, n)
  BY DEF Proper, OfParts
<1>4. Len(d) \in Nat /\ Len(d) >= 7
  BY <1>3, PartFacts
<1>5. ASSUME NEW pos \in 0..6 PROVE AJ_NVRAM_Read(m, p, pos, 1) = <<d[pos + 1]>>
  <2>1. pos \in Nat /\ pos < Len(d)
    BY <1>4
  <2> QED
    BY <1>1, <1>2, <2>1, ReadOne DEF Entry
<1> HIDE DEF d, p
<1>6. /\ AJ_NVRAM_Read(m, p, 0, 1) = <<d[1]>> /\ AJ_NVRAM_Read(m, p, 1, 1) = <<d[2]>>
      /\ AJ_NVRAM_Read(m, p, 2, 1) = <<d[3]>> /\ AJ_NVRAM_Read(m, p, 3, 1) = <<d[4]>>
      /\ AJ_NVRAM_Read(m, p, 5, 1) = <<d[6]>> /\ AJ_NVRAM_Read(m, p, 6, 1) = <<d[7]>>
  <2>1. /\ AJ_NVRAM_Read(m, p, 0, 1) = <<d[0 + 1]>> /\ AJ_NVRAM_Read(m, p, 1, 1) = <<d[1 + 1]>>
        /\ AJ_NVRAM_Read(m, p, 2, 1) = <<d[2 + 1]>> /\ AJ_NVRAM_Read(m, p, 3, 1) = <<d[3 + 1]>>
        /\ AJ_NVRAM_Read(m, p, 5, 1) = <<d[5 + 1]>> /\ AJ_NVRAM_Read(m, p, 6, 1) = <<d[6 + 1]>>
    BY <1>5
  <2> QED
    BY <2>1
<1>7. TypeOf(m, p) = d[1] /\ IdOf(m, p) = d[3] /\ ExpirationOf(m, p) = d[4] /\ SlotOf(m, p) = s
  <2>1. IdLen = 1
    BY IdFacts
  <2> QED
    BY <1>2, <1>6, <2>1 DEF TypeOf, IdOf, ExpirationOf, SlotOf
<1>8. p \in Entries(m) <=> d[2] = IdLen
  <2>1. p \in {AJ_FindNVEntry(m, t) : t \in CredSlots} \ {0}
    BY <1>2 DEF p, Entry
  <2> QED
    BY <1>6, <2>1 DEF Entries
<1> QED
  BY <1>2, <1>6, <1>7, <1>8 DEF d, p

\* Each entry is that of a slot.
LEMMA EntryOfASlot ==
  ASSUME NEW m, Proper(m), NEW p \in Entries(m)
  PROVE  \E s \in CredSlots : p = Entry(m, s) /\ Data(m, s) # <<>> /\ Data(m, s)[2] = IdLen
<1>1. PICK s \in CredSlots : p = AJ_FindNVEntry(m, s) /\ p # 0
  BY DEF Entries
<1>2. Good(m) /\ s \in Ids
  BY IdFacts DEF Proper
<1>3. Data(m, s) # <<>>
  BY <1>1, <1>2, GoodData
<1> QED
  BY <1>1, <1>3, SlotFacts DEF Entry

\* What can be read of a credential of which n half-words have been written.
ReadPart(c, n) == [c EXCEPT !.data = [i \in DOMAIN @ |-> IF i <= n - 7 THEN @[i] ELSE INVALID_DATA]]

LEMMA ReadPartFacts ==
  ASSUME NEW c \in Credential, NEW n \in 7..Size(c)
  PROVE  /\ ReadPart(c, n).type = c.type /\ ReadPart(c, n).id = c.id
         /\ ReadPart(c, n).expiration = c.expiration
         /\ ReadPart(c, n).data = [i \in 1..Len(c.data) |-> IF i <= n - 7 THEN c.data[i] ELSE INVALID_DATA]
         /\ ReadPart(c, n) = [type |-> c.type, id |-> c.id, expiration |-> c.expiration,
                              data |-> ReadPart(c, n).data]
         /\ n = Size(c) => ReadPart(c, n) = c
<1> DEFINE d == c.data
           e == [i \in 1..Len(d) |-> IF i <= n - 7 THEN d[i] ELSE INVALID_DATA]
<1>1. c = [type |-> c.type, id |-> c.id, expiration |-> c.expiration, data |-> d] /\ d \in Seq(HalfWord)
  BY CredFacts
<1> HIDE DEF d
<1>2. DOMAIN d = 1..Len(d) /\ d = [i \in 1..Len(d) |-> d[i]]
  BY <1>1
<1>3. ReadPart(c, n) = [c EXCEPT !.data = e]
  BY <1>2 DEF ReadPart, d
<1> DEFINE r == ReadPart(c, n)
<1>4. /\ r.type = c.type /\ r.id = c.id /\ r.expiration = c.expiration /\ r.data = e
      /\ r = [type |-> c.type, id |-> c.id, expiration |-> c.expiration, data |-> e]
  <2> HIDE DEF e
  <2>1. r = [[type |-> c.type, id |-> c.id, expiration |-> c.expiration, data |-> d] EXCEPT !.data = e]
    BY <1>1, <1>3
  <2> HIDE DEF r
  <2> QED
    BY <2>1
<1>5. n = Size(c) => e = d
  <2>1. n = Size(c) => \A i \in 1..Len(d) : i <= n - 7
    BY DEF Size, d
  <2> QED
    BY <1>2, <2>1
<1> HIDE DEF r
<1>6. n = Size(c) => r = c
  BY <1>1, <1>4, <1>5
<1> QED
  BY <1>4, <1>6 DEF r, d

LEMMA RemainderFacts ==
  ASSUME NEW m, Proper(m), NEW s \in CredSlots, NEW c \in Credential, NEW n \in 0..Size(c),
         Data(m, s) = Part(c, n)
  PROVE  ReadRemainderOfCredential(m, Entry(m, s)) = IF n >= 7 THEN {ReadPart(c, n)} ELSE {}
<1> DEFINE d == Data(m, s)
           p == Entry(m, s)
           assLen == AJ_NVRAM_Read(m, p, 5, 1)
           dataLen == AJ_NVRAM_Read(m, p, 6, 1)
           l == Len(c.data)
           data == AJ_NVRAM_Read(m, p, 7, dataLen[1])
           rest == [type |-> TypeOf(m, p), id |-> IdOf(m, p),
                    expiration |-> AJ_NVRAM_Read(m, p, 3, 1)[1], data |-> data]
<1>1. Good(m) /\ s \in Ids
  BY IdFacts DEF Proper
<1>2. /\ d # <<>> /\ Len(d) \in Nat /\ Len(d) >= Size(c)
      /\ d[1] = (IF n >= 1 THEN c.type ELSE INVALID_DATA) /\ d[3] = (IF n >= 3 THEN c.id ELSE INVALID_DATA)
      /\ d[4] = (IF n >= 4 THEN c.expiration ELSE INVALID_DATA)
      /\ d[6] = (IF n >= 6 THEN 0 ELSE INVALID_DATA) /\ d[7] = (IF n >= 7 THEN l ELSE INVALID_DATA)
  BY PartFacts
<1>3. /\ p # 0 /\ TypeOf(m, p) = d[1] /\ IdOf(m, p) = d[3] /\ AJ_NVRAM_Read(m, p, 3, 1)[1] = d[4]
      /\ assLen = <<d[6]>> /\ dataLen = <<d[7]>>
  BY <1>2, SlotFacts DEF ExpirationOf
<1>4. Len(d) < INVALID_DATA
  BY <1>1, <1>2, GoodData
<1>5. l \in Nat /\ Size(c) = 7 + l /\ n \in Nat
  BY CredFacts DEF Size
<1>6. /\ ReadRemainderOfCredential(m, p) =
           IF assLen = <<0>> /\ Len(dataLen) = 1 /\ Len(data) = dataLen[1] THEN {rest} ELSE {}
  BY DEF ReadRemainderOfCredential
<1>7. Len(dataLen) = 1 /\ dataLen[1] = d[7]
  BY <1>3
<1>8. \A k \in Nat : ReadAs(AJ_NVRAM_Read(m, p, 7, k), d, 7, k)
  BY <1>1, <1>3, ReadFacts DEF Entry
<1> HIDE DEF d, p, l
<1>9. CASE n < 6
  <2>1. assLen # <<0>>
    BY <1>2, <1>3, <1>9, Sizes
  <2> QED
    BY <1>6, <1>9, <2>1 DEF p
<1>10. CASE n = 6
  <2>1. d[7] = INVALID_DATA /\ INVALID_DATA \in Nat /\ INVALID_DATA > 0
    BY <1>2, <1>10, Sizes
  <2>2. ReadAs(data, d, 7, INVALID_DATA)
    BY <1>7, <1>8, <2>1
  <2>3. Len(data) < INVALID_DATA
    BY <1>2, <1>4, <2>1, <2>2 DEF ReadAs
  <2>4. Len(data) # dataLen[1]
    BY <1>7, <2>1, <2>3
  <2> QED
    BY <1>6, <1>10, <2>4 DEF p
<1>11. CASE n >= 7
  <2>1. d[7] = l /\ assLen = <<0>> /\ n \in 7..Size(c)
    BY <1>2, <1>3, <1>5, <1>11
  <2>2. ReadAs(data, d, 7, l) /\ 7 + l <= Len(d)
    BY <1>2, <1>5, <1>7, <1>8, <2>1
  <2>3. data \in Seq(HalfWord) /\ Len(data) = l /\ \A x \in 1..l : data[x] = d[7 + x]
    BY <2>2 DEF ReadAs
  <2> DEFINE e == [i \in 1..l |-> IF i <= n - 7 THEN c.data[i] ELSE INVALID_DATA]
  <2>4. \A x \in 1..l : d[7 + x] = e[x]
    <3> SUFFICES ASSUME NEW x \in 1..l PROVE d[7 + x] = e[x]
      OBVIOUS
    <3>1. 7 + x \in 1..WORD_ALIGN(Size(c)) /\ (7 + x <= n <=> x <= n - 7)
      BY <1>5, CredFacts
    <3>2. d[7 + x] = IF 7 + x <= n THEN FieldAt(c, 7 + x) ELSE INVALID_DATA
      BY <3>1, PartFacts DEF d
    <3>3. FieldAt(c, 7 + x) = c.data[x]
      <4>1. 7 + x > 7 /\ (7 + x) - 7 = x
        BY <1>5
      <4> QED
        BY <4>1 DEF FieldAt
    <3> QED
      BY <3>1, <3>2, <3>3
  <2>5. data = e
    <3> HIDE DEF data
    <3>1. data = [x \in 1..l |-> data[x]]
      BY <2>3
    <3> QED
      BY <2>3, <2>4, <3>1
  <2>6. rest = ReadPart(c, n)
    <3>1. /\ ReadPart(c, n) = [type |-> c.type, id |-> c.id, expiration |-> c.expiration,
                              data |-> ReadPart(c, n).data]
          /\ ReadPart(c, n).data = e
      BY <2>1, ReadPartFacts DEF l
    <3>2. TypeOf(m, p) = c.type /\ IdOf(m, p) = c.id /\ AJ_NVRAM_Read(m, p, 3, 1)[1] = c.expiration
      BY <1>2, <1>3, <1>5, <1>11
    <3> HIDE DEF data, e
    <3> QED
      BY <2>5, <3>1, <3>2
  <2>7. assLen = <<0>> /\ Len(dataLen) = 1 /\ Len(data) = dataLen[1]
    BY <1>7, <2>1, <2>3
  <2> QED
    BY <1>6, <1>11, <2>6, <2>7 DEF p
<1> QED
  BY <1>5, <1>9, <1>10, <1>11

-----------------------------------------------------------------------------
\* What one write of the file may change: nothing (the storage is compacted), a slot that is
\* deleted, a slot that gets more of a credential of X, whose name no other has, or the GUID g.
NoOther(m, k, c) ==
  \A t \in CredSlots \ {k} : ~(Data(m, t) # <<>> /\ Data(m, t)[1] = c.type /\ Data(m, t)[3] = c.id)
Further(d, c, n) == (n = 0 /\ d = <<>>) \/ \E l \in 0..(n - 1) : d = Part(c, l)
GuidBlank == Blank(2)

DeleteStep(a, b) == \E k \in CredSlots : Kept(a, b, {k}) /\ Data(b, k) = <<>>
CredStep(a, b, X) ==
  \E k \in CredSlots : \E c \in X : \E n \in 0..Size(c) :
    Kept(a, b, {k}) /\ NoOther(a, k, c) /\ Further(Data(a, k), c, n) /\ Data(b, k) = Part(c, n)
GuidStep(a, b, g) ==
  /\ Kept(a, b, {AJ_LOCAL_GUID_NV_ID})
  /\ \/ Data(a, AJ_LOCAL_GUID_NV_ID) = <<>> /\ Data(b, AJ_LOCAL_GUID_NV_ID) = GuidBlank
     \/ /\ Data(a, AJ_LOCAL_GUID_NV_ID) = GuidBlank
        /\ Data(b, AJ_LOCAL_GUID_NV_ID) # <<>> /\ Data(b, AJ_LOCAL_GUID_NV_ID)[1] = g
DataStep(a, b, X, g) == Kept(a, b, {}) \/ DeleteStep(a, b) \/ CredStep(a, b, X) \/ GuidStep(a, b, g)

FileSteps(X, g) == {e \in Memory \X Memory : Proper(e[1]) /\ Proper(e[2]) /\ DataStep(e[1], e[2], X, g)}

LEMMA CredStepIs ==
  ASSUME NEW X, NEW k \in CredSlots, NEW c \in X, NEW n \in 0..Size(c), NEW a, NEW b,
         Kept(a, b, {k}) /\ NoOther(a, k, c) /\ Data(b, k) = Part(c, n), Further(Data(a, k), c, n)
  PROVE  CredStep(a, b, X)
BY DEF CredStep

LEMMA SameProper ==
  ASSUME NEW m, Proper(m), NEW m2, Good(m2), Kept(m, m2, {}), m2[3] = m[3]
  PROVE  Proper(m2)
<1>1. \A k \in Ids : Data(m2, k) = Data(m, k)
  BY DEF Kept
<1>2. CredSlots \subseteq Ids
  BY IdFacts
<1> QED
  BY <1>1, <1>2 DEF Proper, OneNameEach

LEMMA StillProper ==
  ASSUME NEW m, Proper(m), NEW k \in CredSlots, NEW m2, Good(m2), Kept(m, m2, {k}), m2[3] = m[3],
         Data(m2, k) = <<>> \/ \E c \in Credential : NoOther(m, k, c) /\ \E n \in 0..Size(c) : Data(m2, k) = Part(c, n)
  PROVE  Proper(m2)
<1>1. \A t \in Ids \ {k} : Data(m2, t) = Data(m, t)
  BY DEF Kept
<1>2. CredSlots \subseteq Ids /\ k \in CredIds
  BY IdFacts DEF CredIds
<1>3. \A t \in Ids \ CredIds : Data(m2, t) = <<>>
  BY <1>1, <1>2 DEF Proper
<1>4. \A t \in CredSlots : Data(m2, t) = <<>> \/ OfParts(Data(m2, t))
  BY <1>1, <1>2 DEF Proper, OfParts
<1>5. ASSUME NEW t \in CredSlots \ {k}
      PROVE  ~SameName(Data(m2, k), Data(m2, t)) /\ ~SameName(Data(m2, t), Data(m2, k))
  <2>1. Data(m2, t) = Data(m, t)
    BY <1>1, <1>2
  <2>2. CASE Data(m2, k) = <<>>
    BY <2>2 DEF SameName, HasName
  <2>3. CASE Data(m2, k) # <<>>
    <3>1. PICK c \in Credential : NoOther(m, k, c) /\ \E n \in 0..Size(c) : Data(m2, k) = Part(c, n)
      BY <2>3
    <3>2. PICK n \in 0..Size(c) : Data(m2, k) = Part(c, n)
      BY <3>1
    <3>3. ASSUME HasName(Data(m2, k)) PROVE Data(m2, k)[1] = c.type /\ Data(m2, k)[3] = c.id
      <4>1. /\ Data(m2, k)[1] = (IF n >= 1 THEN c.type ELSE INVALID_DATA)
            /\ Data(m2, k)[3] = (IF n >= 3 THEN c.id ELSE INVALID_DATA)
        BY <3>2, PartFacts
      <4>2. n >= 3
        BY <3>3, <4>1 DEF HasName
      <4> QED
        BY <4>1, <4>2
    <3>4. ~(Data(m, t) # <<>> /\ Data(m, t)[1] = c.type /\ Data(m, t)[3] = c.id)
      BY <3>1 DEF NoOther
    <3> QED
      BY <2>1, <3>3, <3>4 DEF SameName, HasName
  <2> QED
    BY <2>2, <2>3
<1>6. OneNameEach(m2)
  <2>1. \A s, t \in CredSlots \ {k} : SameName(Data(m2, s), Data(m2, t)) => s = t
    BY <1>1, <1>2 DEF Proper, OneNameEach
  <2> QED
    BY <1>5, <2>1 DEF OneNameEach
<1> QED
  BY <1>3, <1>4, <1>6 DEF Proper

\* A call in progress, in a store whose file was m0: it has a GUID.
Going(m0, X, g) ==
  {s \in Store : Steps(m0, s, FileSteps(X, g)) /\ Proper(s.mem) /\ s.mem[3] = AJ_LOCAL_GUID_NV_ID}

LEMMA GoesOn ==
  ASSUME NEW m0, NEW X, NEW g, NEW s \in Going(m0, X, g),
         NEW from \in 1..NvSize, NEW cells \in Seq(HalfWord),
         Proper(Patch(s.mem, from, cells)), Patch(s.mem, from, cells)[3] = s.mem[3],
         DataStep(s.mem, Patch(s.mem, from, cells), X, g)
  PROVE  NV_Write(s, from, cells) \in Going(m0, X, g) /\ NV_Write(s, from, cells).mem = Patch(s.mem, from, cells)
<1> DEFINE m2 == Patch(s.mem, from, cells)
           t == NV_Write(s, from, cells)
<1>1. s \in Store /\ s.mem \in Memory /\ Steps(m0, s, FileSteps(X, g)) /\ Proper(s.mem) /\ s.mem[3] = AJ_LOCAL_GUID_NV_ID
  BY DEF Going, Store
<1>2. from \in Nat
  BY Sizes
<1>3. t \in Store /\ t.mem = m2
  BY <1>1, <1>2, WriteStore
<1>4. m2 \in Memory
  BY <1>1, <1>2, PatchAt
<1>5. <<s.mem, m2>> \in FileSteps(X, g)
  BY <1>1, <1>4 DEF FileSteps
<1>6. Steps(m0, t, FileSteps(X, g))
  BY <1>1, <1>5, StepsWrite
<1> HIDE DEF m2, t
<1>7. Proper(t.mem) /\ t.mem[3] = AJ_LOCAL_GUID_NV_ID
  BY <1>1, <1>3 DEF m2
<1>8. t \in Going(m0, X, g)
  BY <1>3, <1>6, <1>7 DEF Going
<1> QED
  BY <1>3, <1>8 DEF t, m2

-----------------------------------------------------------------------------
\* The operations of the store, in a call that stores nothing but credentials of X.

\* A delete is a step of the file of its own.
LEMMA DeleteGoes ==
  ASSUME NEW m0, NEW X, NEW g, NEW s \in Going(m0, X, g), NEW k \in CredSlots,
         AJ_FindNVEntry(s.mem, k) # 0
  PROVE  /\ AJ_NVRAM_Delete(s, k) \in Going(m0, X, g)
         /\ Data(AJ_NVRAM_Delete(s, k).mem, k) = <<>> /\ Kept(s.mem, AJ_NVRAM_Delete(s, k).mem, {k})
<1> DEFINE m == s.mem
           p == AJ_FindNVEntry(m, k)
           cs == <<INVALID_ID, Capacity(m, p)>>
           m2 == Patch(m, p, cs)
<1>1. Proper(m) /\ m[3] = AJ_LOCAL_GUID_NV_ID
  BY DEF Going
<1>2. Good(m) /\ k \in Ids /\ m[3] # k
  BY <1>1, IdFacts DEF Proper
<1>3. AJ_NVRAM_Delete(s, k) = NV_Write(s, p, cs)
  BY DEF AJ_NVRAM_Delete
<1>4. /\ p \in 1..NvSize /\ cs \in Seq(HalfWord) /\ Good(m2) /\ Data(m2, k) = <<>>
      /\ Kept(m, m2, {k}) /\ m2[3] = m[3]
  BY <1>2, DeleteFacts DEF Deleted
<1> HIDE DEF m2, cs, p
<1>5. Proper(m2)
  BY <1>1, <1>4, StillProper
<1>6. DataStep(m, m2, X, g)
  BY <1>4 DEF DataStep, DeleteStep
<1>7. NV_Write(s, p, cs) \in Going(m0, X, g) /\ NV_Write(s, p, cs).mem = m2
  BY <1>4, <1>5, <1>6, GoesOn DEF m2
<1> QED
  BY <1>3, <1>4, <1>7

\* Writing the whole memory.
LEMMA PatchAll ==
  ASSUME NEW m \in Memory, NEW m2 \in Memory
  PROVE  m2 \in Seq(HalfWord) /\ 1 \in 1..NvSize /\ Patch(m, 1, m2) = m2
<1>1. m2 \in Seq(HalfWord) /\ Len(m2) = NvSize /\ 1 \in 1..NvSize
  BY Sizes DEF Memory
<1>2. Patch(m, 1, m2) = m2
  <2> DEFINE w == Patch(m, 1, m2)
             from == 1
  <2> HIDE DEF from
  <2>0. from \in 1..NvSize /\ from = 1
    BY <1>1 DEF from
  <2>1. /\ Patch(m, from, m2) \in Memory
        /\ \A x \in 1..NvSize : Patch(m, from, m2)[x] =
             IF x \in from..(from + Len(m2) - 1) THEN m2[x - from + 1] ELSE m[x]
    BY <1>1, <2>0, PatchFacts
  <2>2. w \in Memory /\ w = Patch(m, from, m2)
    BY <2>0, <2>1
  <2> HIDE DEF w
  <2>3. \A x \in 1..NvSize : w[x] = m2[x]
    <3> SUFFICES ASSUME NEW x \in 1..NvSize PROVE w[x] = m2[x]
      OBVIOUS
    <3>1. x \in from..(from + Len(m2) - 1) /\ x - from + 1 = x
      BY <1>1, <2>0, Sizes
    <3>2. w[x] = m2[x - from + 1]
      BY <2>1, <2>2, <3>1
    <3> QED
      BY <3>1, <3>2
  <2>4. w = [x \in 1..NvSize |-> w[x]] /\ m2 = [x \in 1..NvSize |-> m2[x]]
    BY <2>2 DEF Memory
  <2>5. w = m2
    BY <2>3, <2>4
  <2> QED
    BY <2>5 DEF w
<1> QED
  BY <1>1, <1>2

\* So is the compaction, and it changes no data.
LEMMA CompactGoes ==
  ASSUME NEW m0, NEW X, NEW g, NEW s \in Going(m0, X, g)
  PROVE  /\ CompactNVStorage(s) \in Going(m0, X, g)
         /\ Kept(s.mem, CompactNVStorage(s).mem, {})
<1> DEFINE m == s.mem
<1>1. s \in Store /\ Proper(m) /\ m[3] = AJ_LOCAL_GUID_NV_ID
  BY DEF Going
<1>2. Good(m) /\ m[3] # INVALID_ID /\ m[3] # INVALID_DATA /\ m \in Memory
  BY <1>1, IdFacts DEF Proper, Ids, Store
<1>3. PICK m2 : /\ CompactNVStorage(s) = [mem |-> m2, log |-> Append(s.log, [at |-> 1, cells |-> m2])]
                /\ m2 \in Memory /\ Good(m2) /\ Kept(m, m2, {}) /\ m2[3] = m[3]
  BY <1>1, <1>2, CompactFacts
<1>4. m2 \in Seq(HalfWord) /\ 1 \in 1..NvSize /\ Patch(m, 1, m2) = m2
  BY <1>2, <1>3, PatchAll
<1>6. CompactNVStorage(s) = NV_Write(s, 1, m2)
  BY <1>3, <1>4 DEF NV_Write
<1>7. Proper(m2)
  BY <1>1, <1>3, SameProper
<1>8. DataStep(m, m2, X, g)
  BY <1>3 DEF DataStep
<1>9. NV_Write(s, 1, m2) \in Going(m0, X, g) /\ NV_Write(s, 1, m2).mem = m2
  BY <1>3, <1>4, <1>7, <1>8, GoesOn
<1> QED
  BY <1>3, <1>6, <1>9

LEMMA BlankPart ==
  ASSUME NEW c \in Credential
  PROVE  Part(c, 0) = Blank(WORD_ALIGN(Size(c))) /\ 0 \in 0..Size(c) /\ WORD_ALIGN(Size(c)) \in Nat \ {0, 1}
<1>1. Size(c) \in Nat /\ Size(c) >= 7 /\ WORD_ALIGN(Size(c)) \in Nat /\ WORD_ALIGN(Size(c)) >= Size(c)
  BY CredFacts
<1> DEFINE w == WORD_ALIGN(Size(c))
<1> HIDE DEF w
<1>2. \A x \in 1..w : ~(x <= 0)
  BY <1>1 DEF w
<1>3. Part(c, 0) = Blank(w)
  BY <1>2 DEF Part, Blank, w
<1> QED
  BY <1>1, <1>3 DEF w

\* The data set is made where the free space begins, after a compaction if need be; nothing else
\* changes, and nothing at all if there is no room.
LEMMA CreateGoes ==
  ASSUME NEW m0, NEW X, NEW g, NEW s \in Going(m0, X, g),
         NEW k \in CredSlots, AJ_FindNVEntry(s.mem, k) = 0, NEW c \in Credential, NoOther(s.mem, k, c),
         AJ_NVRAM_Create(s, k, Size(c)).ok => c \in X
  PROVE  LET made == AJ_NVRAM_Create(s, k, Size(c)) IN
         /\ made.ok \in BOOLEAN /\ made.s \in Going(m0, X, g) /\ Kept(s.mem, made.s.mem, {k})
         /\ made.ok => Data(made.s.mem, k) = Part(c, 0)
         /\ ~made.ok => Data(made.s.mem, k) = <<>>
<1> DEFINE made == AJ_NVRAM_Create(s, k, Size(c))
           size == WORD_ALIGN(Size(c))
           fits(t) == FreeAt(t.mem) + HeaderSize + size <= NvSize + 1
           make(t) == IF fits(t) THEN [ok |-> TRUE, s |-> NV_Write(t, FreeAt(t.mem), <<k, size>>)]
                      ELSE [ok |-> FALSE, s |-> t]
           r == IF fits(s) THEN s ELSE CompactNVStorage(s)
<1>1. made = make(r)
  <2>1. Size(c) # 0
    BY CredFacts
  <2>2. ~AJ_NVRAM_Exist(s.mem, k)
    BY DEF AJ_NVRAM_Exist
  <2> QED
    BY <2>1, <2>2 DEF AJ_NVRAM_Create
<1>2. r \in Going(m0, X, g) /\ Kept(s.mem, r.mem, {})
  <2>1. Kept(s.mem, s.mem, {})
    BY DEF Kept
  <2> QED
    BY <2>1, CompactGoes
<1> HIDE DEF r
<1>3. CredSlots \subseteq Ids /\ k \in Ids /\ HeaderSize = 2
  BY IdFacts, Sizes
<1>4. Proper(s.mem) /\ Proper(r.mem) /\ Good(s.mem) /\ Good(r.mem) /\ r.mem[3] = AJ_LOCAL_GUID_NV_ID
  BY <1>2 DEF Going, Proper
<1>5. Data(s.mem, k) = <<>> /\ Data(r.mem, k) = <<>>
  BY <1>2, <1>3, <1>4, GoodData DEF Kept
<1>6. NoOther(r.mem, k, c)
  BY <1>2, <1>3 DEF NoOther, Kept
<1>7. CASE ~fits(r)
  <2>1. made = [ok |-> FALSE, s |-> r]
    BY <1>1, <1>7
  <2>2. Kept(s.mem, r.mem, {k})
    BY <1>2 DEF Kept
  <2> HIDE DEF made
  <2> QED
    BY <1>2, <1>5, <2>1, <2>2 DEF made
<1>8. CASE fits(r)
  <2> DEFINE m == r.mem
             p == FreeAt(m)
             cs == <<k, size>>
             m2 == Patch(m, p, cs)
             t == NV_Write(r, p, cs)
  <2>1. made = [ok |-> TRUE, s |-> t]
    BY <1>1, <1>8
  <2>2. c \in X
    BY <2>1
  <2>3. size \in Nat \ {0, 1} /\ Part(c, 0) = Blank(size) /\ 0 \in 0..Size(c)
    BY BlankPart
  <2>4. AJ_FindNVEntry(m, k) = 0
    BY <1>3, <1>4, <1>5, GoodData
  <2> HIDE DEF size
  <2>5. p + 2 + size <= NvSize + 1
    BY <1>3, <1>8
  <2>6. /\ p \in 1..NvSize /\ cs \in Seq(HalfWord) /\ Good(m2) /\ Data(m2, k) = Blank(size)
        /\ Kept(m, m2, {k}) /\ (m[3] # INVALID_DATA => m2[3] = m[3])
    BY <1>3, <1>4, <2>3, <2>4, <2>5, CreateFacts DEF Created
  <2>7. m2[3] = m[3]
    BY <1>4, <2>6, IdFacts
  <2> HIDE DEF m2, p, cs
  <2>8. Proper(m2)
    BY <1>4, <1>6, <2>3, <2>6, <2>7, StillProper
  <2>9. DataStep(m, m2, X, g)
    <3>1. Further(Data(m, k), c, 0)
      BY <1>5 DEF Further
    <3>2. Kept(m, m2, {k}) /\ NoOther(m, k, c) /\ Data(m2, k) = Part(c, 0)
      BY <1>6, <2>3, <2>6
    <3>3. CredStep(m, m2, X)
      BY <2>2, <2>3, <3>1, <3>2, CredStepIs
    <3> QED
      BY <3>3 DEF DataStep
  <2>10. t \in Going(m0, X, g) /\ t.mem = m2
    BY <1>2, <2>6, <2>7, <2>8, <2>9, GoesOn DEF m2
  <2>11. Kept(s.mem, m2, {k})
    BY <1>2, <2>6 DEF Kept
  <2> HIDE DEF made, t
  <2> QED
    BY <2>1, <2>3, <2>6, <2>10, <2>11 DEF made
<1> QED
  BY <1>7, <1>8

LEMMA GoesMore ==
  ASSUME NEW m0, NEW X, NEW g, NEW s \in Going(m0, X, g), NEW Y, X \subseteq Y
  PROVE  s \in Going(m0, Y, g)
<1> DEFINE T == FileSteps(X, g)
           U == FileSteps(Y, g)
<1>1. T \subseteq U
  <2>1. \A a, b : CredStep(a, b, X) => CredStep(a, b, Y)
    BY DEF CredStep
  <2>2. \A a, b : DataStep(a, b, X, g) => DataStep(a, b, Y, g)
    BY <2>1 DEF DataStep
  <2> QED
    BY <2>2 DEF FileSteps
<1>2. s \in Store /\ Steps(m0, s, T) /\ Proper(s.mem) /\ s.mem[3] = AJ_LOCAL_GUID_NV_ID
  BY DEF Going
<1> HIDE DEF T, U
<1>3. Steps(m0, s, U)
  BY <1>1, <1>2 DEF Steps, Files
<1> QED
  BY <1>2, <1>3 DEF Going, U

Opened(m0, X, g, s, k, c, open) ==
  /\ open.s \in Going(m0, X, g) /\ Kept(s.mem, open.s.mem, {k})
  /\ open.entry # 0 => Data(open.s.mem, k) = Part(c, 0) /\ open.entry = AJ_FindNVEntry(open.s.mem, k)
  /\ open.entry = 0 => Data(open.s.mem, k) = <<>>

\* AJ_NVRAM_Open for writing: the data set of a slot is deleted, and made anew if there is room.
LEMMA OpenGoes ==
  ASSUME NEW m0, NEW X, NEW g, NEW s \in Going(m0, X, g),
         NEW k \in CredSlots, NEW c \in Credential, NoOther(s.mem, k, c),
         AJ_NVRAM_OpenW(s, k, Size(c)).entry # 0 => c \in X
  PROVE  Opened(m0, X, g, s, k, c, AJ_NVRAM_OpenW(s, k, Size(c)))
<1> DEFINE freed == IF AJ_NVRAM_Exist(s.mem, k) THEN AJ_NVRAM_Delete(s, k) ELSE s
           made == AJ_NVRAM_Create(freed, k, Size(c))
           open == AJ_NVRAM_OpenW(s, k, Size(c))
<1>1. k \in Ids /\ k # 0 /\ k # INVALID_ID /\ CredSlots \subseteq Ids
  BY IdFacts, Sizes DEF Ids
<1>2. open = [entry |-> IF made.ok THEN AJ_FindNVEntry(made.s.mem, k) ELSE 0, s |-> made.s]
  <2>1. Size(c) # 0
    BY CredFacts
  <2> HIDE DEF made
  <2> QED
    BY <1>1, <2>1 DEF AJ_NVRAM_OpenW, made
<1>3. freed \in Going(m0, X, g) /\ Kept(s.mem, freed.mem, {k}) /\ AJ_FindNVEntry(freed.mem, k) = 0
  <2>1. CASE AJ_FindNVEntry(s.mem, k) = 0
    <3>1. freed = s
      BY <2>1 DEF AJ_NVRAM_Exist
    <3> QED
      BY <2>1, <3>1 DEF Kept
  <2>2. CASE AJ_FindNVEntry(s.mem, k) # 0
    <3>1. freed = AJ_NVRAM_Delete(s, k)
      BY <1>1, <2>2 DEF AJ_NVRAM_Exist
    <3>2. freed \in Going(m0, X, g) /\ Data(freed.mem, k) = <<>> /\ Kept(s.mem, freed.mem, {k})
      BY <2>2, <3>1, DeleteGoes
    <3>3. Good(freed.mem)
      BY <3>2 DEF Going, Proper
    <3> QED
      BY <1>1, <3>2, <3>3, GoodData
  <2> QED
    BY <2>1, <2>2
<1> HIDE DEF freed
<1>4. NoOther(freed.mem, k, c)
  BY <1>1, <1>3 DEF NoOther, Kept
<1>5. /\ Kept(freed.mem, made.s.mem, {k}) /\ (made.ok => Data(made.s.mem, k) = Part(c, 0))
      /\ (~made.ok => Data(made.s.mem, k) = <<>>) /\ Proper(made.s.mem) /\ made.ok \in BOOLEAN
  <2> DEFINE Y == X \cup {c}
  <2>1. freed \in Going(m0, Y, g)
    BY <1>3, GoesMore
  <2>2. c \in Y
    OBVIOUS
  <2> HIDE DEF Y
  <2>3. /\ Kept(freed.mem, made.s.mem, {k}) /\ (made.ok => Data(made.s.mem, k) = Part(c, 0))
        /\ (~made.ok => Data(made.s.mem, k) = <<>>) /\ made.s \in Going(m0, Y, g) /\ made.ok \in BOOLEAN
    BY <1>3, <1>4, <2>1, <2>2, CreateGoes
  <2> QED
    BY <2>3 DEF Going
<1>6. Kept(s.mem, made.s.mem, {k})
  BY <1>3, <1>5 DEF Kept
<1>7. Good(made.s.mem)
  BY <1>5 DEF Proper
<1>8. CASE made.ok
  <2>1. open.entry = AJ_FindNVEntry(made.s.mem, k) /\ open.s = made.s
    BY <1>2, <1>8
  <2>2. Part(c, 0) # <<>>
    BY BlankPart, PartFacts
  <2>3. open.entry # 0
    BY <1>1, <1>5, <1>7, <1>8, <2>1, <2>2, GoodData
  <2>4. c \in X
    BY <2>3
  <2>5. made.s \in Going(m0, X, g)
    BY <1>3, <1>4, <2>4, CreateGoes
  <2> HIDE DEF open, made
  <2> QED
    BY <1>5, <1>6, <1>8, <2>1, <2>3, <2>5 DEF open, Opened
<1>9. CASE ~made.ok
  <2>1. open.entry = 0 /\ open.s = made.s
    BY <1>2, <1>9
  <2>2. made.s \in Going(m0, X, g)
    BY <1>3, <1>4, <1>9, CreateGoes
  <2> HIDE DEF open, made
  <2> QED
    BY <1>5, <1>6, <1>9, <2>1, <2>2 DEF open, Opened
<1> QED
  BY <1>5, <1>8, <1>9

\* The fields of a credential, one after the other.
FieldEnd(c, i) == IF i <= 3 THEN i ELSE IF i <= 6 THEN i + 1 ELSE Size(c)

LEMMA Joined ==
  ASSUME NEW V, NEW head \in Seq(V), NEW rest \in Seq(V)
  PROVE  /\ Len(head) \in Nat /\ Len(rest) \in Nat /\ Len(head \o rest) = Len(head) + Len(rest)
         /\ \A i \in 1..Len(head) : (head \o rest)[i] = head[i]
         /\ \A i \in 1..Len(rest) : (head \o rest)[Len(head) + i] = rest[i]
OBVIOUS

FieldOf(c, i) ==
  IF i <= 3 THEN <<FieldAt(c, i)>> ELSE IF i = 4 THEN <<FieldAt(c, 4), FieldAt(c, 5)>>
  ELSE <<FieldAt(c, i + 1)>>

LEMMA FieldIs ==
  ASSUME NEW c \in Credential
  PROVE  /\ Len(Fields(c)) = IF c.data = <<>> THEN 6 ELSE 7
         /\ \A i \in 1..6 : Fields(c)[i] = FieldOf(c, i)
         /\ c.data # <<>> => Fields(c)[7] = c.data
<1> DEFINE l == Len(c.data)
           head == <<<<c.type>>, <<IdLen>>, <<c.id>>, <<c.expiration, 0>>, <<0>>, <<l>>>>
           rest == IF c.data = <<>> THEN <<>> ELSE <<c.data>>
           V == {<<c.type>>, <<IdLen>>, <<c.id>>, <<c.expiration, 0>>, <<0>>, <<l>>, c.data}
<1>1. head \in Seq(V) /\ Len(head) = 6 /\ rest \in Seq(V)
  <2>1. <<c.type>> \in V /\ <<IdLen>> \in V /\ <<c.id>> \in V /\ <<c.expiration, 0>> \in V /\ <<0>> \in V /\ <<l>> \in V /\ c.data \in V
    OBVIOUS
  <2> HIDE DEF V
  <2> QED
    BY <2>1
<1>2. /\ head[1] = FieldOf(c, 1) /\ head[2] = FieldOf(c, 2) /\ head[3] = FieldOf(c, 3)
      /\ head[4] = FieldOf(c, 4) /\ head[5] = FieldOf(c, 5) /\ head[6] = FieldOf(c, 6)
  <2>1. /\ FieldOf(c, 1) = <<c.type>> /\ FieldOf(c, 2) = <<IdLen>> /\ FieldOf(c, 3) = <<c.id>>
        /\ FieldOf(c, 4) = <<c.expiration, 0>>
    BY DEF FieldOf, FieldAt
  <2>2. FieldOf(c, 5) = <<0>> /\ FieldOf(c, 6) = <<l>>
    BY DEF FieldOf, FieldAt
  <2> QED
    BY <2>1, <2>2
<1>3. Fields(c) = head \o rest
  BY DEF Fields
<1>4. /\ c.data = <<>> => rest = <<>> /\ Len(rest) = 0
      /\ c.data # <<>> => rest = <<c.data>> /\ Len(rest) = 1 /\ rest[1] = c.data
  OBVIOUS
<1> HIDE DEF head, rest, V
<1>0. head \in Seq(V) /\ rest \in Seq(V)
  BY <1>1
<1>11. /\ Len(head) \in Nat /\ Len(rest) \in Nat /\ Len(head \o rest) = Len(head) + Len(rest)
       /\ \A i \in 1..Len(head) : (head \o rest)[i] = head[i]
       /\ \A i \in 1..Len(rest) : (head \o rest)[Len(head) + i] = rest[i]
  <2>1. /\ Len(head) \in Nat /\ Len(rest) \in Nat /\ Len(head \o rest) = Len(head) + Len(rest)
    BY <1>0, Joined
  <2>2. /\ \A i \in 1..Len(head) : (head \o rest)[i] = head[i]
    BY <1>0, Joined
  <2>3. /\ \A i \in 1..Len(rest) : (head \o rest)[Len(head) + i] = rest[i]
    BY <1>0, Joined
  <2> QED
    BY <2>1, <2>2, <2>3
<1>5. /\ Len(rest) \in Nat /\ Len(head \o rest) = 6 + Len(rest)
      /\ \A i \in 1..6 : (head \o rest)[i] = head[i]
      /\ \A i \in 1..Len(rest) : (head \o rest)[6 + i] = rest[i]
  BY <1>1, <1>11
<1>6. ASSUME NEW i \in 1..6 PROVE head[i] = FieldOf(c, i)
  <2>1. i = 1 \/ i = 2 \/ i = 3 \/ i = 4 \/ i = 5 \/ i = 6
    OBVIOUS
  <2> QED
    BY <1>2, <2>1
<1>7. c.data # <<>> => (head \o rest)[7] = c.data
  <2>1. c.data # <<>> => 1 \in 1..Len(rest) /\ 6 + 1 = 7
    BY <1>4
  <2> QED
    BY <1>4, <1>5, <2>1
<1>8. \A i \in 1..6 : (head \o rest)[i] = FieldOf(c, i)
  BY <1>5, <1>6
<1>9. Len(head \o rest) = IF c.data = <<>> THEN 6 ELSE 7
  BY <1>4, <1>5
<1> QED
  BY <1>3, <1>7, <1>8, <1>9

\* Field i completes the part of the credential that the fields before it are.
LEMMA FieldFacts ==
  ASSUME NEW c \in Credential, Size(c) < INVALID_DATA, NEW i \in 1..Len(Fields(c))
  PROVE  LET a == FieldEnd(c, i - 1)
             b == FieldEnd(c, i)
             f == Fields(c)[i]
         IN /\ a \in 0..(b - 1) /\ b \in 0..Size(c) /\ f \in Seq(HalfWord) /\ Len(f) > 0 /\ a + Len(f) = b
            /\ \A x \in 1..Len(f) : f[x] = FieldAt(c, a + x)
<1> DEFINE a == FieldEnd(c, i - 1)
           b == FieldEnd(c, i)
           f == Fields(c)[i]
           l == Len(c.data)
<1>1. /\ Len(Fields(c)) = (IF c.data = <<>> THEN 6 ELSE 7) /\ c.data \in Seq(HalfWord) /\ l \in Nat
      /\ Size(c) = 7 + l /\ (c.data # <<>> => l > 0)
  <2>1. c.data \in Seq(HalfWord)
    BY CredFacts
  <2> QED
    BY <2>1, FieldIs, CredFacts DEF Size
<1>2. CASE i <= 6
  <2>1. i \in 1..6
    BY <1>1, <1>2
  <2>2. f = FieldOf(c, i)
    BY <2>1, FieldIs
  <2>3. /\ c.type \in HalfWord /\ c.id \in HalfWord /\ c.expiration \in HalfWord /\ IdLen \in HalfWord
        /\ l \in HalfWord /\ 0 \in HalfWord
    BY <1>1, CredFacts, IdFacts, Sizes DEF HalfWord
  <2>4. \A x \in 1..7 : FieldAt(c, x) \in HalfWord
    BY <2>3 DEF FieldAt
  <2>5. a \in 0..(b - 1) /\ b \in 0..Size(c) /\ b = a + (IF i = 4 THEN 2 ELSE 1)
    BY <1>1, <2>1 DEF FieldEnd
  <2>6. CASE i = 4
    <3> DEFINE v == FieldAt(c, 4)
               w == FieldAt(c, 5)
    <3>1. f = <<v, w>> /\ v \in HalfWord /\ w \in HalfWord /\ a = 3
      BY <2>2, <2>4, <2>6 DEF FieldOf, FieldEnd
    <3> HIDE DEF v, w, f
    <3>2. f \in Seq(HalfWord) /\ Len(f) = 2 /\ f[1] = v /\ f[2] = w
      BY <3>1
    <3>3. \A x \in 1..Len(f) : f[x] = FieldAt(c, a + x)
      <4>1. \A x \in 1..2 : (x = 1 /\ a + x = 4) \/ (x = 2 /\ a + x = 5)
        BY <3>1
      <4> QED
        BY <3>2, <4>1 DEF v, w
    <3> HIDE DEF a, b
    <3> QED
      BY <2>5, <2>6, <3>2, <3>3 DEF a, b, f
  <2>7. CASE i # 4
    <3> DEFINE k == IF i <= 3 THEN i ELSE i + 1
               v == FieldAt(c, k)
    <3>1. f = <<v>> /\ a + 1 = k /\ k \in 1..7
      BY <1>2, <2>1, <2>2, <2>7 DEF FieldOf, FieldEnd
    <3>2. v \in HalfWord
      BY <2>4, <3>1
    <3> HIDE DEF v, f
    <3>3. f \in Seq(HalfWord) /\ Len(f) = 1 /\ f[1] = v
      BY <3>1, <3>2
    <3>4. \A x \in 1..Len(f) : f[x] = FieldAt(c, a + x)
      <4>1. \A x \in 1..1 : x = 1
        OBVIOUS
      <4> HIDE DEF k, a
      <4> QED
        BY <3>1, <3>3, <4>1 DEF v
    <3> HIDE DEF a, b
    <3> QED
      BY <2>5, <2>7, <3>3, <3>4 DEF a, b, f
  <2> QED
    BY <2>6, <2>7
<1>3. CASE i > 6
  <2>1. i = 7 /\ c.data # <<>>
    BY <1>1, <1>3
  <2>2. f = c.data
    BY <2>1, FieldIs
  <2>3. a = 7 /\ b = 7 + l
    BY <1>1, <2>1 DEF FieldEnd
  <2>4. \A x \in 1..l : FieldAt(c, 7 + x) = c.data[x]
    <3>1. \A x \in 1..l : 7 + x > 7 /\ (7 + x) - 7 = x
      BY <1>1
    <3> QED
      BY <3>1 DEF FieldAt
  <2> HIDE DEF a, b, f
  <2>5. a \in 0..(b - 1) /\ b \in 0..Size(c) /\ a + Len(f) = b /\ Len(f) > 0
    BY <1>1, <2>1, <2>2, <2>3
  <2> QED
    BY <1>1, <2>2, <2>3, <2>4, <2>5 DEF a, b, f
<1> QED
  BY <1>2, <1>3

LEMMA PatchPart ==
  ASSUME NEW c \in Credential, NEW b \in 0..Size(c), NEW a \in 0..(b - 1), NEW f \in Seq(HalfWord),
         a + Len(f) = b, \A x \in 1..Len(f) : f[x] = FieldAt(c, a + x)
  PROVE  Patch(Part(c, a), a + 1, f) = Part(c, b)
<1> DEFINE w == WORD_ALIGN(Size(c))
           from == a + 1
<1>1. Size(c) \in Nat /\ w \in Nat /\ w >= Size(c) /\ a \in Nat /\ b \in Nat /\ Len(f) \in Nat
  BY CredFacts
<1>2. /\ DOMAIN Part(c, a) = 1..w
      /\ \A x \in 1..w : Part(c, a)[x] = IF x <= a THEN FieldAt(c, x) ELSE INVALID_DATA
  BY DEF Part
<1> HIDE DEF w
<1>3. \A x \in 1..w : (IF x \in from..(from + Len(f) - 1) THEN f[x - from + 1] ELSE Part(c, a)[x])
        = IF x <= b THEN FieldAt(c, x) ELSE INVALID_DATA
  <2> SUFFICES ASSUME NEW x \in 1..w
               PROVE (IF x \in from..(from + Len(f) - 1) THEN f[x - from + 1] ELSE Part(c, a)[x])
                       = IF x <= b THEN FieldAt(c, x) ELSE INVALID_DATA
    OBVIOUS
  <2>1. CASE x \in from..(from + Len(f) - 1)
    <3>1. x <= b /\ x - from + 1 = x - a /\ x - a \in 1..Len(f) /\ a + (x - a) = x
      BY <1>1, <2>1
    <3>2. f[x - a] = FieldAt(c, x)
      BY <3>1
    <3> QED
      BY <2>1, <3>1, <3>2
  <2>2. CASE x \notin from..(from + Len(f) - 1)
    <3>1. x <= a <=> x <= b
      BY <1>1, <2>2
    <3> QED
      BY <1>2, <2>2, <3>1
  <2> QED
    BY <2>1, <2>2
<1> DEFINE q == Part(c, a)
<1>4. Patch(q, from, f) = [x \in 1..w |-> IF x \in from..(from + Len(f) - 1) THEN f[x - from + 1] ELSE q[x]]
  BY <1>2 DEF Patch
<1>5. Part(c, b) = [x \in 1..w |-> IF x <= b THEN FieldAt(c, x) ELSE INVALID_DATA]
  BY DEF Part, w
<1> HIDE DEF from, q
<1>6. Patch(q, from, f) = Part(c, b)
  BY <1>3, <1>4, <1>5 DEF q
<1> QED
  BY <1>6 DEF from, q

\* A write of part of a credential adds it to what there is: by one write of the file, or two.
Partly(m, m2, k, c, n) == Kept(m, m2, {k}) /\ Data(m2, k) = Part(c, n)

LEMMA OneWriteGoes ==
  ASSUME NEW m0, NEW X, NEW g, NEW s \in Going(m0, X, g), NEW k \in CredSlots,
         NEW c \in Credential, c \in X, NoOther(s.mem, k, c),
         NEW b \in 0..Size(c), NEW a \in 0..(b - 1), Data(s.mem, k) = Part(c, a),
         NEW f \in Seq(HalfWord), Len(f) > 0, a + Len(f) = b, a % 2 = 0 \/ Len(f) = 1,
         \A x \in 1..Len(f) : f[x] = FieldAt(c, a + x)
  PROVE  LET t == AJ_NVRAM_Write(s, AJ_FindNVEntry(s.mem, k), a, f) IN
         /\ t \in Going(m0, X, g) /\ Partly(s.mem, t.mem, k, c, b)
         /\ AJ_FindNVEntry(t.mem, k) = AJ_FindNVEntry(s.mem, k)
<1> DEFINE m == s.mem
           e == AJ_FindNVEntry(m, k)
           t == AJ_NVRAM_Write(s, e, a, f)
<1>1. s \in Store /\ Proper(m) /\ Good(m) /\ k \in Ids
  BY IdFacts DEF Going, Proper
<1>2. Size(c) \in Nat /\ a \in 0..Size(c) /\ a \in Nat /\ b \in Nat
  BY CredFacts
<1>3. Data(m, k) # <<>> /\ Len(Data(m, k)) >= Size(c) /\ Len(Data(m, k)) \in Nat
  BY <1>2, PartFacts
<1>4. e # 0 /\ a + Len(f) <= Len(Data(m, k))
  BY <1>1, <1>2, <1>3, GoodData
<1>5. PICK at \in 1..NvSize, cs \in Seq(HalfWord) :
        /\ t = NV_Write(s, at, cs)
        /\ LET m2 == Patch(m, at, cs) IN
           /\ Good(m2) /\ Kept(m, m2, {k}) /\ m2[3] = m[3]
           /\ AJ_FindNVEntry(m2, k) = e
           /\ Data(m2, k) = Patch(Data(m, k), a + 1, f)
  BY <1>1, <1>2, <1>4, WriteIs
<1> DEFINE m2 == Patch(m, at, cs)
<1>6. Good(m2) /\ Kept(m, m2, {k}) /\ m2[3] = m[3] /\ AJ_FindNVEntry(m2, k) = e
  BY <1>5
<1>7. Data(m2, k) = Part(c, b)
  BY <1>2, <1>5, PatchPart
<1> HIDE DEF m2
<1>8. Proper(m2)
  BY <1>1, <1>6, <1>7, StillProper
<1>9. DataStep(m, m2, X, g)
  <2>1. Further(Data(m, k), c, b)
    BY DEF Further
  <2>2. Kept(m, m2, {k}) /\ NoOther(m, k, c) /\ Data(m2, k) = Part(c, b)
    BY <1>6, <1>7
  <2>3. CredStep(m, m2, X)
    BY <2>1, <2>2, CredStepIs
  <2> QED
    BY <2>3 DEF DataStep
<1>10. NV_Write(s, at, cs) \in Going(m0, X, g) /\ NV_Write(s, at, cs).mem = m2
  BY <1>6, <1>8, <1>9, GoesOn DEF m2
<1> HIDE DEF t
<1>11. t \in Going(m0, X, g) /\ t.mem = m2
  BY <1>5, <1>10
<1> QED
  BY <1>6, <1>7, <1>11 DEF t, Partly

LEMMA AfterOdd ==
  ASSUME NEW a \in Nat, a % 2 = 1
  PROVE  (a + 1) % 2 = 0
OBVIOUS

LEMMA FieldGoes ==
  ASSUME NEW m0, NEW X, NEW g, NEW s \in Going(m0, X, g), NEW k \in CredSlots,
         NEW c \in Credential, c \in X, NoOther(s.mem, k, c),
         NEW b \in 0..Size(c), NEW a \in 0..(b - 1), Data(s.mem, k) = Part(c, a),
         NEW f \in Seq(HalfWord), Len(f) > 0, a + Len(f) = b,
         \A x \in 1..Len(f) : f[x] = FieldAt(c, a + x)
  PROVE  LET t == AJ_NVRAM_Write(s, AJ_FindNVEntry(s.mem, k), a, f) IN
         /\ t \in Going(m0, X, g) /\ Partly(s.mem, t.mem, k, c, b)
         /\ AJ_FindNVEntry(t.mem, k) = AJ_FindNVEntry(s.mem, k)
<1>1. CASE a % 2 = 0 \/ Len(f) = 1
  BY <1>1, OneWriteGoes
<1>2. CASE a % 2 # 0 /\ Len(f) # 1
  <2> DEFINE m == s.mem
             e == AJ_FindNVEntry(m, k)
             h == <<f[1]>>
             r == Tail(f)
             t == AJ_NVRAM_Write(s, e, a, h)
             u == AJ_NVRAM_Write(t, e, a + 1, r)
             n == Len(f)
  <2>1. n \in Nat /\ n > 1 /\ a \in Nat /\ b \in Nat /\ Size(c) \in Nat /\ a + n = b /\ a % 2 = 1
    <3>1. Size(c) \in Nat
      BY CredFacts
    <3>2. n \in Nat /\ n > 0 /\ n # 1 /\ a + n = b
      BY <1>2
    <3>3. b \in Nat /\ a \in Nat
      BY <3>1
    <3>4. a % 2 = 1
      BY <1>2, <3>3
    <3> HIDE DEF n
    <3> QED
      BY <3>1, <3>2, <3>3, <3>4
  <2>2. /\ h \in Seq(HalfWord) /\ Len(h) = 1 /\ h[1] = f[1]
        /\ r \in Seq(HalfWord) /\ Len(r) = n - 1 /\ \A x \in 1..(n - 1) : r[x] = f[x + 1]
    <3>1. f[1] \in HalfWord
      BY <2>1, ElementOfSeq
    <3>2. h \in Seq(HalfWord) /\ Len(h) = 1 /\ h[1] = f[1]
      BY <3>1
    <3>3. r \in Seq(HalfWord) /\ Len(r) = n - 1 /\ \A x \in 1..(n - 1) : r[x] = f[x + 1]
      BY <2>1
    <3> QED
      BY <3>2, <3>3
  <2> HIDE DEF h, r, n
  <2>3. a + 1 \in 0..Size(c) /\ a \in 0..((a + 1) - 1) /\ a + Len(h) = a + 1
    BY <2>1, <2>2
  <2>4. \A x \in 1..Len(h) : h[x] = FieldAt(c, a + x)
    <3>1. \A x \in 1..1 : x = 1 /\ 1 \in 1..Len(f)
      BY <2>1 DEF n
    <3> QED
      BY <2>2, <3>1
  <2>5. /\ t \in Going(m0, X, g) /\ Partly(m, t.mem, k, c, a + 1)
        /\ AJ_FindNVEntry(t.mem, k) = e
    <3>1. a % 2 = 0 \/ Len(h) = 1
      BY <2>2
    <3>2. h \in Seq(HalfWord) /\ Len(h) > 0
      BY <2>2
    <3> DEFINE q == a + 1
               v == AJ_NVRAM_Write(s, AJ_FindNVEntry(s.mem, k), a, h)
    <3>3. q \in 0..Size(c) /\ a \in 0..(q - 1) /\ a + Len(h) = q
      BY <2>3
    <3> HIDE DEF q
    <3>4. /\ v \in Going(m0, X, g) /\ Partly(s.mem, v.mem, k, c, q)
          /\ AJ_FindNVEntry(v.mem, k) = AJ_FindNVEntry(s.mem, k)
      BY <2>4, <3>1, <3>2, <3>3, OneWriteGoes, SMTT(60)
    <3> HIDE DEF v
    <3> QED
      BY <3>4 DEF q, v
  <2>6. /\ Good(m) /\ Good(t.mem) /\ k \in Ids /\ CredSlots \subseteq Ids
        /\ Kept(m, t.mem, {k}) /\ Data(t.mem, k) = Part(c, a + 1)
    BY <2>5, IdFacts DEF Going, Proper, Partly
  <2>7. NoOther(t.mem, k, c)
    BY <2>6 DEF NoOther, Kept
  <2>8. \A x \in 1..Len(r) : r[x] = FieldAt(c, (a + 1) + x)
    <3>1. \A x \in 1..(n - 1) : x + 1 \in 1..Len(f) /\ a + (x + 1) = (a + 1) + x
      BY <2>1 DEF n
    <3> QED
      BY <2>2, <3>1
  <2>9. a + 1 \in 0..(b - 1) /\ (a + 1) + Len(r) = b /\ (a + 1) % 2 = 0 /\ Len(r) > 0
    <3>1. (a + 1) % 2 = 0
      BY <2>1, AfterOdd
    <3>2. a + 1 \in 0..(b - 1) /\ (a + 1) + (n - 1) = b /\ n - 1 > 0
      BY <2>1
    <3> QED
      BY <2>2, <3>1, <3>2
  <2> HIDE DEF t
  <2>10. /\ u \in Going(m0, X, g) /\ Partly(t.mem, u.mem, k, c, b)
         /\ AJ_FindNVEntry(u.mem, k) = e
    <3> DEFINE q == a + 1
    <3>1. q \in 0..(b - 1) /\ q + Len(r) = b /\ (q % 2 = 0 \/ Len(r) = 1) /\ Len(r) > 0
      BY <2>9
    <3>2. Data(t.mem, k) = Part(c, q) /\ \A x \in 1..Len(r) : r[x] = FieldAt(c, q + x)
      BY <2>6, <2>8
    <3>3. AJ_FindNVEntry(t.mem, k) = e
      BY <2>5
    <3>4. t \in Going(m0, X, g) /\ r \in Seq(HalfWord) /\ b \in 0..Size(c)
      BY <2>2, <2>5
    <3> DEFINE v == AJ_NVRAM_Write(t, AJ_FindNVEntry(t.mem, k), q, r)
    <3> HIDE DEF q, e, m
    <3>5. /\ v \in Going(m0, X, g) /\ Partly(t.mem, v.mem, k, c, b)
          /\ AJ_FindNVEntry(v.mem, k) = AJ_FindNVEntry(t.mem, k)
      BY <2>7, <3>1, <3>2, <3>4, OneWriteGoes
    <3>6. v = u
      BY <3>3 DEF q
    <3> HIDE DEF u, v
    <3> QED
      BY <3>3, <3>5, <3>6
  <2>11. Partly(m, u.mem, k, c, b)
    BY <2>6, <2>10 DEF Partly, Kept
  <2>12. Capacity(m, e) = WORD_ALIGN(Size(c)) /\ Capacity(t.mem, e) = WORD_ALIGN(Size(c))
    <3>1. a \in 0..Size(c)
      BY <2>1
    <3>2. /\ Part(c, a) # <<>> /\ Len(Part(c, a)) = WORD_ALIGN(Size(c))
          /\ Part(c, a + 1) # <<>> /\ Len(Part(c, a + 1)) = WORD_ALIGN(Size(c))
      BY <2>3, <3>1, PartFacts
    <3> QED
      BY <2>5, <2>6, <3>2, GoodData
  <2>13. AJ_NVRAM_Write(s, e, a, f) = u
    <3>1. Capacity(m, e) \in Nat /\ a + Len(f) <= Capacity(m, e) /\ Len(f) > 1
      BY <2>1, <2>12, CredFacts DEF n
    <3> HIDE DEF m, e
    <3>2. Capacity(AJ_NVRAM_Write(s, e, a, <<f[1]>>).mem, e) = Capacity(m, e)
      BY <2>12 DEF t, h
    <3> QED
      BY <2>1, <3>1, <3>2, WriteTwice DEF t, h, r, m
  <2> QED
    BY <2>10, <2>11, <2>13
<1> QED
  BY <1>1, <1>2

\* Then the fields are written one by one.
LEMMA FieldsGo ==
  ASSUME NEW m0, NEW X, NEW g, NEW s \in Going(m0, X, g), NEW k \in CredSlots,
         NEW c \in Credential, c \in X, NoOther(s.mem, k, c), Data(s.mem, k) = Part(c, 0)
  PROVE  LET t == WriteFields(s, AJ_FindNVEntry(s.mem, k), c, Len(Fields(c))) IN
         t \in Going(m0, X, g) /\ Partly(s.mem, t.mem, k, c, Size(c))
<1> DEFINE m == s.mem
           e == AJ_FindNVEntry(m, k)
           N == Len(Fields(c))
           body(i, w) == [pos |-> w.pos + Len(Fields(c)[i]), s |-> AJ_NVRAM_Write(w.s, e, w.pos, Fields(c)[i])]
           base == [pos |-> 0, s |-> s]
           value(f) == [i \in 0..N |-> IF i = 0 THEN base ELSE body(i, f[i - 1])]
           it == CHOOSE f : f = value(f)
           At(w, i) == /\ w.pos = FieldEnd(c, i) /\ w.s \in Going(m0, X, g)
                       /\ Partly(m, w.s.mem, k, c, FieldEnd(c, i)) /\ AJ_FindNVEntry(w.s.mem, k) = e
           W == [pos : Nat, s : Going(m0, X, g)]
           D == [i \in 0..N |-> {w \in W : At(w, i)}]
           next == [i \in 1..N |-> [w \in D[i - 1] |-> body(i, w)]]
<1>1. WriteFields(s, e, c, N) = it[N].s
  BY DEF WriteFields
<1>2. /\ N \in Nat /\ N >= 6 /\ FieldEnd(c, N) = Size(c) /\ FieldEnd(c, 0) = 0 /\ Size(c) \in Nat
  <2>1. N = IF c.data = <<>> THEN 6 ELSE 7
    BY FieldIs
  <2>2. Size(c) = 7 + Len(c.data) /\ Len(c.data) \in Nat /\ (c.data = <<>> => Len(c.data) = 0)
    BY CredFacts DEF Size
  <2> HIDE DEF N
  <2> QED
    BY <2>1, <2>2 DEF FieldEnd
<1>3. Proper(m) /\ Good(m) /\ k \in Ids /\ CredSlots \subseteq Ids
  BY IdFacts DEF Going, Proper
<1>4. Size(c) < INVALID_DATA
  <2>1. 0 \in 0..Size(c)
    BY <1>2
  <2>2. Data(m, k) # <<>> /\ Len(Data(m, k)) >= Size(c) /\ Len(Data(m, k)) \in Nat
    BY <2>1, PartFacts
  <2>3. Len(Data(m, k)) < INVALID_DATA
    BY <1>3, <2>2, GoodData
  <2> QED
    BY <1>2, <2>2, <2>3, Sizes
<1>5. base \in D[0]
  <2>1. At(base, 0)
    <3>1. Partly(m, m, k, c, 0)
      BY DEF Partly, Kept
    <3> QED
      BY <1>2, <3>1
  <2>2. 0 \in 0..N /\ base \in W
    BY <1>2
  <2> HIDE DEF base, W, At
  <2> QED
    BY <2>1, <2>2
<1>6. ASSUME NEW i \in 1..N, NEW w \in D[i - 1] PROVE body(i, w) \in D[i]
  <2> DEFINE a == FieldEnd(c, i - 1)
             b == FieldEnd(c, i)
             f == Fields(c)[i]
             t == AJ_NVRAM_Write(w.s, e, a, f)
  <2>1. i - 1 \in 0..N /\ i \in 0..N
    BY <1>2
  <2>2. At(w, i - 1)
    BY <2>1
  <2>3. w.pos = a /\ w.s \in Going(m0, X, g) /\ Kept(m, w.s.mem, {k}) /\ Data(w.s.mem, k) = Part(c, a)
        /\ AJ_FindNVEntry(w.s.mem, k) = e
    BY <2>2 DEF Partly
  <2>4. /\ a \in 0..(b - 1) /\ b \in 0..Size(c) /\ f \in Seq(HalfWord) /\ Len(f) > 0 /\ a + Len(f) = b
        /\ \A x \in 1..Len(f) : f[x] = FieldAt(c, a + x)
    BY <1>4, FieldFacts
  <2>5. NoOther(w.s.mem, k, c)
    BY <1>3, <2>3 DEF NoOther, Kept
  <2> HIDE DEF a, b, f
  <2>6. t \in Going(m0, X, g) /\ Partly(w.s.mem, t.mem, k, c, b) /\ AJ_FindNVEntry(t.mem, k) = e
    <3> DEFINE q == w.s
               u == AJ_NVRAM_Write(q, AJ_FindNVEntry(q.mem, k), a, f)
    <3>1. q \in Going(m0, X, g) /\ NoOther(q.mem, k, c) /\ Data(q.mem, k) = Part(c, a) /\ t = u
      BY <2>3, <2>5
    <3> HIDE DEF q, e
    <3>2. u \in Going(m0, X, g) /\ Partly(q.mem, u.mem, k, c, b) /\ AJ_FindNVEntry(u.mem, k) = AJ_FindNVEntry(q.mem, k)
      BY <2>4, <3>1, FieldGoes, SMTT(60)
    <3> HIDE DEF u, t
    <3> QED
      BY <2>3, <3>1, <3>2 DEF q
  <2>7. Partly(m, t.mem, k, c, b)
    BY <2>3, <2>6 DEF Partly, Kept
  <2>8. body(i, w) = [pos |-> b, s |-> t]
    BY <2>3, <2>4 DEF f
  <2>9. b \in Nat
    BY <1>2, <2>4
  <2> DEFINE v == [pos |-> b, s |-> t]
  <2>10. v.pos = b /\ v.s = t /\ v \in W
    <3> HIDE DEF t
    <3> QED
      BY <2>6, <2>9
  <2> HIDE DEF v, t
  <2>11. At(v, i)
    BY <2>6, <2>7, <2>10 DEF b
  <2> HIDE DEF At, W
  <2>12. v \in D[i]
    BY <2>1, <2>10, <2>11
  <2> QED
    BY <2>8, <2>12 DEF v, t
<1>7. Stepping(N, D, next)
  <2>1. \A i \in 1..N : \A w \in D[i - 1] : next[i][w] = body(i, w)
    OBVIOUS
  <2> HIDE DEF D, next, body
  <2> QED
    BY <1>6, <2>1 DEF Stepping
<1>8. PICK h : Running(h, N, base, next, D)
  <2> HIDE DEF D, next, base, N
  <2> QED
    BY <1>2, <1>5, <1>7, Recursion
<1>9. \A j \in 1..N : h[j] = body(j, h[j - 1])
  <2>1. \A j \in 1..N : j - 1 \in 0..N
    BY <1>2
  <2>2. \A i \in 1..N : \A w \in D[i - 1] : next[i][w] = body(i, w)
    OBVIOUS
  <2> HIDE DEF D, next, body
  <2> QED
    BY <1>8, <2>1, <2>2 DEF Running
<1>10. h = value(h)
  <2>1. \A j \in 0..N : j # 0 => j \in 1..N
    BY <1>2
  <2>2. \A j \in 0..N : h[j] = value(h)[j]
    <3>1. \A j \in 0..N : value(h)[j] = IF j = 0 THEN base ELSE body(j, h[j - 1])
      <4> HIDE DEF base, body, N
      <4> QED
        OBVIOUS
    <3> HIDE DEF value, body, base
    <3> QED
      BY <1>8, <1>9, <2>1, <3>1 DEF Running
  <2>3. h = [j \in 0..N |-> h[j]]
    BY <1>8 DEF Running
  <2>4. value(h) = [j \in 0..N |-> value(h)[j]]
    <3> HIDE DEF base, body, N
    <3> QED
      OBVIOUS
  <2> HIDE DEF value
  <2> QED
    BY <2>2, <2>3, <2>4
<1>11. it = value(it)
  <2> HIDE DEF value
  <2> QED
    BY <1>10
<1> HIDE DEF it
<1>12. it[0] = base /\ \A j \in 1..N : it[j] = body(j, it[j - 1])
  <2>1. 0 \in 0..N /\ \A j \in 1..N : j \in 0..N /\ j # 0
    BY <1>2
  <2>2. \A j \in 0..N : value(it)[j] = IF j = 0 THEN base ELSE body(j, it[j - 1])
    <3> HIDE DEF base, body, N
    <3> QED
      OBVIOUS
  <2> HIDE DEF value, body, base
  <2> QED
    BY <1>11, <2>1, <2>2
<1> DEFINE S == {j \in 0..N : it[j] \in D[j]}
<1>13. 0 \in S /\ \A j \in 1..N : j - 1 \in S => j \in S
  <2>1. 0 \in 0..N /\ \A j \in 1..N : j \in 0..N
    BY <1>2
  <2> HIDE DEF D, body, base
  <2> QED
    BY <1>5, <1>6, <1>12, <2>1
<1>14. \A j \in 0..N : j \in S
  <2> HIDE DEF S
  <2> QED
    BY <1>2, <1>13, UpTo
<1>15. it[N] \in D[N] /\ N \in 0..N
  <2>1. N \in 0..N
    BY <1>2
  <2> HIDE DEF D
  <2> QED
    BY <1>14, <2>1
<1>16. At(it[N], N)
  <2> HIDE DEF At, W
  <2> QED
    BY <1>15
<1> QED
  BY <1>1, <1>2, <1>16

-----------------------------------------------------------------------------
\* The least and the greatest of a set of slots, and what FindCredential finds.
LEMMA Least ==
  ASSUME NEW T, T \subseteq Nat, T # {}
  PROVE  \E x \in T : \A y \in T : x <= y
<1>1. PICK x \in T : \A y \in T : <<y, x>> \notin OpToRel(<, Nat)
  BY NatLessThanWellFounded, WFMin
<1>2. \A y \in T : ~(y < x)
  BY <1>1 DEF OpToRel
<1> QED
  BY <1>2

LEMMA Greatest ==
  ASSUME NEW n \in Nat, NEW T, T \subseteq 0..n, T # {}
  PROVE  \E x \in T : \A y \in T : y <= x
<1> DEFINE U == {n - x : x \in T}
<1>1. U \subseteq Nat /\ U # {}
  <2>1. \A x \in T : n - x \in Nat
    OBVIOUS
  <2> QED
    BY <2>1
<1>2. PICK u \in U : \A v \in U : u <= v
  <2> HIDE DEF U
  <2> QED
    BY <1>1, Least
<1>3. PICK x \in T : u = n - x
  OBVIOUS
<1>4. \A y \in T : n - x <= n - y
  BY <1>2, <1>3
<1>5. \A y \in T : y <= x
  BY <1>4
<1> QED
  BY <1>5

LEMMA SlotOfEntries ==
  ASSUME NEW m, Proper(m), NEW S, S \subseteq Entries(m)
  PROVE  /\ \A p \in S : SlotOf(m, p) \in CredSlots /\ Data(m, SlotOf(m, p)) # <<>> /\ p = Entry(m, SlotOf(m, p))
                         /\ Data(m, SlotOf(m, p))[2] = IdLen
         /\ S # {} => \E p \in S : LowestSlot(m, S) = SlotOf(m, p)
         /\ S # {} => \E p \in S : LastSlot(m, S) = SlotOf(m, p)
<1>1. \A p \in S : SlotOf(m, p) \in CredSlots /\ Data(m, SlotOf(m, p)) # <<>> /\ p = Entry(m, SlotOf(m, p))
                         /\ Data(m, SlotOf(m, p))[2] = IdLen
  <2> SUFFICES ASSUME NEW p \in S
               PROVE SlotOf(m, p) \in CredSlots /\ Data(m, SlotOf(m, p)) # <<>> /\ p = Entry(m, SlotOf(m, p))
                     /\ Data(m, SlotOf(m, p))[2] = IdLen
    OBVIOUS
  <2>1. p \in Entries(m)
    OBVIOUS
  <2>2. PICK s \in CredSlots : p = Entry(m, s) /\ Data(m, s) # <<>> /\ Data(m, s)[2] = IdLen
    BY <2>1, EntryOfASlot
  <2>3. SlotOf(m, p) = s
    BY <2>2, SlotFacts
  <2> QED
    BY <2>2, <2>3
<1> DEFINE T == {SlotOf(m, p) : p \in S}
           n == NumCreds + 1
<1>2. n \in Nat /\ T \subseteq 0..n /\ T \subseteq Nat
  <2>1. CredSlots \subseteq 0..n /\ n \in Nat
    BY IdFacts DEF CredSlots
  <2>2. 0..n \subseteq Nat
    BY <2>1
  <2> HIDE DEF n
  <2>3. \A p \in S : SlotOf(m, p) \in 0..n
    BY <1>1, <2>1
  <2> QED
    BY <2>1, <2>2, <2>3
<1> HIDE DEF n
<1>3. ASSUME S # {} PROVE \E p \in S : LowestSlot(m, S) = SlotOf(m, p)
  <2>1. T # {}
    BY <1>3
  <2>2. PICK x \in T : \A y \in T : x <= y
    <3> HIDE DEF T
    <3> QED
      BY <1>2, <2>1, Least
  <2>3. \E p \in S : \A q \in S : SlotOf(m, p) <= SlotOf(m, q)
    BY <2>2
  <2>4. (CHOOSE p \in S : \A q \in S : SlotOf(m, p) <= SlotOf(m, q)) \in S
    BY <2>3
  <2> QED
    BY <1>3, <2>4 DEF LowestSlot
<1>4. ASSUME S # {} PROVE \E p \in S : LastSlot(m, S) = SlotOf(m, p)
  <2>1. T # {}
    BY <1>4
  <2>2. PICK x \in T : \A y \in T : y <= x
    <3> HIDE DEF T
    <3> QED
      BY <1>2, <2>1, Greatest
  <2>3. \E p \in S : \A q \in S : SlotOf(m, q) <= SlotOf(m, p)
    BY <2>2
  <2>4. (CHOOSE p \in S : \A q \in S : SlotOf(m, q) <= SlotOf(m, p)) \in S
    BY <2>3
  <2> QED
    BY <2>4 DEF LastSlot
<1> QED
  BY <1>1, <1>3, <1>4

Has(d, type, id) == d # <<>> /\ d[1] = type /\ d[2] = IdLen /\ d[3] = id

LEMMA FoundFacts ==
  ASSUME NEW m, Proper(m), NEW type, NEW id
  PROVE  /\ FindCredential(m, type, id) # 0 => /\ FindCredential(m, type, id) \in CredSlots
                                               /\ Has(Data(m, FindCredential(m, type, id)), type, id)
         /\ FindCredential(m, type, id) = 0 => \A s \in CredSlots : ~Has(Data(m, s), type, id)
<1> DEFINE S == Matching(m, type, id)
<1>1. S \subseteq Entries(m)
  BY DEF Matching
<1>2. \A p \in S : SlotOf(m, p) \in CredSlots /\ Has(Data(m, SlotOf(m, p)), type, id)
  <2> SUFFICES ASSUME NEW p \in S PROVE SlotOf(m, p) \in CredSlots /\ Has(Data(m, SlotOf(m, p)), type, id)
    OBVIOUS
  <2> DEFINE s == SlotOf(m, p)
  <2>1. s \in CredSlots /\ Data(m, s) # <<>> /\ p = Entry(m, s) /\ Data(m, s)[2] = IdLen
    BY <1>1, SlotOfEntries
  <2>2. TypeOf(m, p) = type /\ IdOf(m, p) = id
    BY DEF Matching
  <2> HIDE DEF s
  <2>3. TypeOf(m, p) = Data(m, s)[1] /\ IdOf(m, p) = Data(m, s)[3]
    BY <2>1, SlotFacts
  <2> QED
    BY <2>1, <2>2, <2>3 DEF Has, s
<1>3. ASSUME NEW s \in CredSlots, Has(Data(m, s), type, id) PROVE Entry(m, s) \in S
  <2>1. Data(m, s) # <<>>
    BY <1>3 DEF Has
  <2>2. /\ TypeOf(m, Entry(m, s)) = Data(m, s)[1] /\ IdOf(m, Entry(m, s)) = Data(m, s)[3]
        /\ (Entry(m, s) \in Entries(m) <=> Data(m, s)[2] = IdLen)
    BY <2>1, SlotFacts
  <2> QED
    BY <1>3, <2>2 DEF Matching, Has
<1>4. S # {} => \E p \in S : LowestSlot(m, S) = SlotOf(m, p)
  BY <1>1, SlotOfEntries
<1>5. FindCredential(m, type, id) = LowestSlot(m, S)
  BY DEF FindCredential
<1>6. CASE S = {}
  <2>1. LowestSlot(m, S) = 0
    BY <1>6 DEF LowestSlot
  <2> QED
    BY <1>3, <1>5, <1>6, <2>1
<1>7. CASE S # {}
  <2>1. LowestSlot(m, S) \in CredSlots /\ Has(Data(m, LowestSlot(m, S)), type, id)
    BY <1>2, <1>4, <1>7
  <2>2. \A s \in CredSlots : s # 0
    BY IdFacts DEF Ids, INVALID_ID
  <2> QED
    BY <1>5, <2>1, <2>2
<1> QED
  BY <1>6, <1>7

-----------------------------------------------------------------------------
\* Storing a credential.
LEMMA UpdateGoes ==
  ASSUME NEW m0, NEW X, NEW g, NEW s \in Going(m0, X, g),
         NEW k \in CredSlots, NEW c \in Credential, NoOther(s.mem, k, c),
         UpdateCred(s, c, k).status = "OK" => c \in X
  PROVE  LET r == UpdateCred(s, c, k) IN
         /\ r.s \in Going(m0, X, g) /\ r.status \in {"OK", "FAILURE"} /\ Kept(s.mem, r.s.mem, {k})
         /\ r.status = "OK" => Data(r.s.mem, k) = Part(c, Size(c))
         /\ r.status = "FAILURE" => Data(r.s.mem, k) = <<>>
<1> DEFINE r == UpdateCred(s, c, k)
           open == AJ_NVRAM_OpenW(s, k, Size(c))
           t == WriteFields(open.s, open.entry, c, Len(Fields(c)))
<1>1. r = IF open.entry = 0 THEN [status |-> "FAILURE", s |-> open.s] ELSE [status |-> "OK", s |-> t]
  <2>1. GetCredentialSize(c) = Size(c)
    BY CredFacts
  <2> QED
    BY <2>1 DEF UpdateCred
<1>2. open.entry # 0 => c \in X
  <2> HIDE DEF open, t
  <2> QED
    BY <1>1
<1>3. Opened(m0, X, g, s, k, c, open)
  BY <1>2, OpenGoes
<1>4. CASE open.entry = 0
  <2>1. r = [status |-> "FAILURE", s |-> open.s]
    BY <1>1, <1>4
  <2> HIDE DEF r, open
  <2> QED
    BY <1>3, <1>4, <2>1 DEF r, Opened
<1>5. CASE open.entry # 0
  <2>1. r = [status |-> "OK", s |-> t]
    BY <1>1, <1>5
  <2>2. NoOther(open.s.mem, k, c)
    BY <1>3, IdFacts DEF NoOther, Kept, Opened
  <2>3. t \in Going(m0, X, g) /\ Partly(open.s.mem, t.mem, k, c, Size(c))
    BY <1>2, <1>3, <1>5, <2>2, FieldsGo DEF Opened
  <2>4. Kept(s.mem, t.mem, {k}) /\ Data(t.mem, k) = Part(c, Size(c))
    BY <1>3, <2>3 DEF Partly, Kept, Opened
  <2> HIDE DEF r, t
  <2> QED
    BY <2>1, <2>3, <2>4 DEF r
<1> QED
  BY <1>4, <1>5

\* Evictions, several of them: only GENERIC credentials go, and none that expires later than one
\* that stays.
Evictable(d) == d # <<>> /\ d[2] = IdLen /\ d[1] = AJ_CRED_TYPE_GENERIC
Oldest(d, a) == d[1] = AJ_CRED_TYPE_GENERIC /\ \A t \in CredSlots : Evictable(Data(a, t)) => d[4] <= Data(a, t)[4]
Evicted(m, a) ==
  \A k \in Ids : Data(a, k) = Data(m, k) \/ (k \in CredSlots /\ Data(a, k) = <<>> /\ Oldest(Data(m, k), a))

LEMMA EvictOne ==
  ASSUME NEW m, NEW a, Evicted(m, a), NEW k \in CredSlots, Data(a, k) # <<>>, Oldest(Data(a, k), a),
         NEW b, Kept(a, b, {k}), Data(b, k) = <<>>
  PROVE  Evicted(m, b)
<1>0. CredSlots \subseteq Ids
  BY IdFacts
<1>1. \A t \in CredSlots : Evictable(Data(b, t)) => Data(b, t) = Data(a, t) /\ Evictable(Data(a, t))
  BY <1>0 DEF Kept, Evictable
<1>2. \A d : Oldest(d, a) => Oldest(d, b)
  BY <1>1 DEF Oldest
<1>3. Data(a, k) = Data(m, k)
  BY <1>0 DEF Evicted
<1> SUFFICES ASSUME NEW i \in Ids
             PROVE  Data(b, i) = Data(m, i) \/ (i \in CredSlots /\ Data(b, i) = <<>> /\ Oldest(Data(m, i), b))
  BY DEF Evicted
<1>4. CASE i = k
  BY <1>2, <1>3, <1>4
<1>5. CASE i # k
  <2>1. Data(b, i) = Data(a, i)
    BY <1>5 DEF Kept
  <2> QED
    BY <1>2, <2>1 DEF Evicted
<1> QED
  BY <1>4, <1>5

\* AJ_DeleteOldestCredential.
Evicts(a, k, b) ==
  k \in CredSlots /\ Evictable(Data(a, k)) /\ Oldest(Data(a, k), a) /\ Kept(a, b, {k}) /\ Data(b, k) = <<>>

LEMMA OldestGoes ==
  ASSUME NEW m0, NEW X, NEW g, NEW s \in Going(m0, X, g)
  PROVE  LET r == AJ_DeleteOldestCredential(s) IN
         /\ r.s \in Going(m0, X, g) /\ r = [slot |-> r.slot, status |-> r.status, s |-> r.s]
         /\ r.status \in {"OK", "FAILURE"}
         /\ \/ r.slot = 0 /\ r.s = s /\ (r.status = "OK" => Generics(s.mem) = {})
            \/ Evicts(s.mem, r.slot, r.s.mem)
<1> DEFINE m == s.mem
           generic == Generics(m)
           oldest == {p \in generic : \A q \in generic : ExpirationOf(m, p) <= ExpirationOf(m, q)}
           k == LastSlot(m, oldest)
           r == AJ_DeleteOldestCredential(s)
<1>1. Proper(m) /\ Good(m) /\ CredSlots \subseteq Ids
  BY IdFacts DEF Going, Proper
<1>2. r = IF Unreadable(m) # {} THEN [slot |-> 0, status |-> "FAILURE", s |-> s]
          ELSE IF generic = {} THEN [slot |-> 0, status |-> "OK", s |-> s]
          ELSE [slot |-> k, status |-> "OK", s |-> AJ_NVRAM_Delete(s, k)]
  BY DEF AJ_DeleteOldestCredential, Found
<1>3. CASE Unreadable(m) # {} \/ generic = {}
  <2>1. /\ r.slot = 0 /\ r.s = s /\ r.status \in {"OK", "FAILURE"} /\ r = [slot |-> r.slot, status |-> r.status, s |-> r.s]
        /\ r.status = "OK" => generic = {}
    <3> HIDE DEF r, generic
    <3> QED
      BY <1>2, <1>3
  <2> QED
    BY <2>1
<1>4. CASE ~(Unreadable(m) # {} \/ generic = {})
  <2> DEFINE t == AJ_NVRAM_Delete(s, k)
  <2>1. r = [slot |-> k, status |-> "OK", s |-> t]
    BY <1>2, <1>4
  <2>2. generic \subseteq Entries(m) /\ generic # {}
    BY <1>4 DEF Generics
  <2>3. ASSUME NEW q \in generic
        PROVE  /\ SlotOf(m, q) \in CredSlots /\ q = Entry(m, SlotOf(m, q)) /\ Evictable(Data(m, SlotOf(m, q)))
               /\ ExpirationOf(m, q) = Data(m, SlotOf(m, q))[4] /\ ExpirationOf(m, q) \in Nat
    <3> DEFINE i == SlotOf(m, q)
    <3>1. i \in CredSlots /\ Data(m, i) # <<>> /\ q = Entry(m, i) /\ Data(m, i)[2] = IdLen
      BY <1>1, <2>2, SlotOfEntries
    <3> HIDE DEF i
    <3>2. TypeOf(m, q) = Data(m, i)[1] /\ ExpirationOf(m, q) = Data(m, i)[4]
      BY <1>1, <3>1, SlotFacts
    <3>3. TypeOf(m, q) = AJ_CRED_TYPE_GENERIC
      BY DEF Generics
    <3>4. Data(m, i)[4] \in Nat
      <4>1. PICK c \in Credential : \E n \in 0..Size(c) : Data(m, i) = Part(c, n)
        BY <1>1, <3>1 DEF Proper, OfParts
      <4>2. Len(Data(m, i)) >= 7 /\ Len(Data(m, i)) \in Nat
        BY <4>1, PartFacts
      <4>3. Data(m, i) \in Seq(HalfWord)
        BY <1>1, <3>1, GoodData
      <4> DEFINE d == Data(m, i)
      <4> HIDE DEF d
      <4>4. d[4] \in HalfWord
        BY <4>2, <4>3 DEF d
      <4> QED
        BY <4>4, Sizes DEF d, HalfWord
    <3> QED
      BY <3>1, <3>2, <3>3, <3>4 DEF Evictable, i
  <2>4. ASSUME NEW i \in CredSlots, Evictable(Data(m, i))
        PROVE Entry(m, i) \in generic /\ ExpirationOf(m, Entry(m, i)) = Data(m, i)[4]
    <3>1. /\ TypeOf(m, Entry(m, i)) = Data(m, i)[1] /\ ExpirationOf(m, Entry(m, i)) = Data(m, i)[4]
          /\ (Entry(m, i) \in Entries(m) <=> Data(m, i)[2] = IdLen)
      BY <1>1, <2>4, SlotFacts DEF Evictable
    <3> QED
      BY <2>4, <3>1 DEF Evictable, Generics
  <2>5. oldest # {} /\ oldest \subseteq generic
    <3> DEFINE T == {ExpirationOf(m, p) : p \in generic}
    <3>1. T \subseteq Nat /\ T # {}
      BY <2>2, <2>3
    <3>2. PICK x \in T : \A y \in T : x <= y
      <4> HIDE DEF T
      <4> QED
        BY <3>1, Least
    <3>3. PICK p \in generic : x = ExpirationOf(m, p)
      OBVIOUS
    <3>4. p \in oldest
      BY <3>2, <3>3
    <3> QED
      BY <3>4
  <2>6. PICK p \in oldest : k = SlotOf(m, p)
    <3>1. oldest \subseteq Entries(m)
      BY <2>2, <2>5
    <3> HIDE DEF oldest, generic
    <3> QED
      BY <1>1, <2>5, <3>1, SlotOfEntries
  <2>7. \A q \in generic : ExpirationOf(m, p) <= ExpirationOf(m, q)
    BY <2>6
  <2>8. p \in generic
    BY <2>6
  <2> HIDE DEF generic, oldest, k
  <2>9. k \in CredSlots /\ p = Entry(m, k) /\ Evictable(Data(m, k)) /\ ExpirationOf(m, p) = Data(m, k)[4]
    BY <2>3, <2>6, <2>8
  <2>10. Oldest(Data(m, k), m)
    BY <2>4, <2>7, <2>9 DEF Oldest, Evictable
  <2>11. Data(m, k) # <<>>
    BY <2>9 DEF Evictable
  <2>12. AJ_FindNVEntry(m, k) # 0
    BY <1>1, <2>9, <2>11, GoodData
  <2>13. t \in Going(m0, X, g) /\ Data(t.mem, k) = <<>> /\ Kept(m, t.mem, {k})
    BY <2>9, <2>12, DeleteGoes
  <2> HIDE DEF t, r
  <2>14. r.slot = k /\ r.status = "OK" /\ r.s = t /\ r = [slot |-> r.slot, status |-> r.status, s |-> r.s]
    BY <2>1
  <2> QED
    BY <2>9, <2>10, <2>11, <2>13, <2>14 DEF r, Evicts
<1> QED
  BY <1>3, <1>4

\* Where a credential may be stored, as far as the loop of AJ_StoreCredential has got.
Rooms(m0, X, g, m) ==
  {r \in [slot : {0} \cup CredSlots, status : {"OK", "FAILURE"}, s : Going(m0, X, g)] :
     Evicted(m, r.s.mem) /\ (r.slot = 0 \/ Data(r.s.mem, r.slot) = <<>>)}

\* Each round frees a slot, or there is none left that it may free.
Used(a) == {k \in CredSlots : Data(a, k) # <<>>}
Rounds(r, c, i) == NeedsRoom(r, c) => Generics(r.s.mem) = {} \/ Cardinality(Used(r.s.mem)) <= NumCreds - i

LEMMA UsedFacts ==
  ASSUME NEW a
  PROVE  IsFiniteSet(Used(a)) /\ Cardinality(Used(a)) \in Nat /\ Cardinality(Used(a)) <= NumCreds
<1>1. CredSlots = 2..(1 + NumCreds) /\ NumCreds \in Nat /\ NumCreds >= 1
  BY IdFacts DEF CredSlots
<1>2. IsFiniteSet(CredSlots) /\ Cardinality(CredSlots) = NumCreds
  <2> DEFINE n == 1 + NumCreds
  <2>1. n \in Int /\ 2 \in Int /\ ~(2 > n) /\ n - 2 + 1 = NumCreds
    BY <1>1
  <2> HIDE DEF n
  <2>2. IsFiniteSet(2..n) /\ Cardinality(2..n) = n - 2 + 1
    BY <2>1, FS_Interval
  <2> QED
    BY <1>1, <2>1, <2>2 DEF n
<1>3. Used(a) \subseteq CredSlots
  BY DEF Used
<1>4. IsFiniteSet(Used(a)) /\ Cardinality(Used(a)) <= Cardinality(CredSlots)
  BY <1>2, <1>3, FS_Subset
<1>5. Cardinality(Used(a)) \in Nat
  BY <1>4, FS_CardinalityType
<1> QED
  BY <1>2, <1>4, <1>5

LEMMA UsedLess ==
  ASSUME NEW a, NEW b, NEW k, Evicts(a, k, b)
  PROVE  Cardinality(Used(b)) = Cardinality(Used(a)) - 1
<1>1. Used(b) = Used(a) \ {k} /\ k \in Used(a)
  BY IdFacts DEF Used, Evicts, Evictable, Kept
<1>2. IsFiniteSet(Used(a))
  BY UsedFacts
<1> QED
  BY <1>1, <1>2, FS_RemoveElement

LEMMA EvictRoom ==
  ASSUME NEW m0, NEW X, NEW g, NEW m, NEW r \in Rooms(m0, X, g, m),
         NEW c, NEW i \in Nat, NeedsRoom(r, c), Rounds(r, c, i)
  PROVE  /\ AJ_DeleteOldestCredential(r.s) \in Rooms(m0, X, g, m)
         /\ Rounds(AJ_DeleteOldestCredential(r.s), c, i + 1)
<1> DEFINE t == AJ_DeleteOldestCredential(r.s)
<1>1. r.s \in Going(m0, X, g) /\ Evicted(m, r.s.mem)
  BY DEF Rooms
<1>2. /\ t.s \in Going(m0, X, g) /\ t = [slot |-> t.slot, status |-> t.status, s |-> t.s]
      /\ t.status \in {"OK", "FAILURE"}
      /\ \/ t.slot = 0 /\ t.s = r.s /\ (t.status = "OK" => Generics(r.s.mem) = {})
         \/ Evicts(r.s.mem, t.slot, t.s.mem)
  BY <1>1, OldestGoes
<1> HIDE DEF t
<1>3. CASE t.slot = 0 /\ t.s = r.s /\ (t.status = "OK" => Generics(r.s.mem) = {})
  <2>1. Evicted(m, t.s.mem)
    BY <1>1, <1>3
  <2>2. t \in Rooms(m0, X, g, m)
    BY <1>2, <1>3, <2>1 DEF Rooms
  <2>3. NeedsRoom(t, c) => Generics(t.s.mem) = {}
    BY <1>3 DEF NeedsRoom
  <2> QED
    BY <2>2, <2>3 DEF Rounds, t
<1>4. CASE Evicts(r.s.mem, t.slot, t.s.mem)
  <2>1. Evicted(m, t.s.mem)
    BY <1>1, <1>4, EvictOne DEF Evicts, Evictable
  <2>2. t \in Rooms(m0, X, g, m)
    BY <1>2, <1>4, <2>1 DEF Rooms, Evicts
  <2> DEFINE n == Cardinality(Used(r.s.mem))
             l == Cardinality(Used(t.s.mem))
  <2>3. n \in Nat /\ l \in Nat /\ l = n - 1
    BY <1>4, UsedFacts, UsedLess
  <2>4. CASE Generics(r.s.mem) = {}
    <3> DEFINE k == t.slot
               m1 == r.s.mem
    <3>1. k \in CredSlots /\ Evictable(Data(m1, k)) /\ Proper(m1)
      BY <1>1, <1>4 DEF Evicts, Going
    <3> HIDE DEF k, m1
    <3>2. Entry(m1, k) \in Generics(m1)
      BY <3>1, SlotFacts DEF Evictable, Generics
    <3> QED
      BY <2>4, <3>2 DEF m1
  <2>5. CASE n <= NumCreds - i
    <3>1. l <= NumCreds - (i + 1)
      <4> HIDE DEF l, n
      <4> QED
        BY <2>3, <2>5, IdFacts
    <3> QED
      BY <2>2, <3>1 DEF Rounds, t
  <2> QED
    BY <2>4, <2>5 DEF Rounds
<1> QED
  BY <1>2, <1>3, <1>4

LEMMA EmptySlot ==
  ASSUME NEW m, Good(m)
  PROVE  FindCredsEmptySlot(m) = 0 \/ (FindCredsEmptySlot(m) \in CredSlots /\ Data(m, FindCredsEmptySlot(m)) = <<>>)
<1> DEFINE T == {s \in CredSlots : ~AJ_NVRAM_Exist(m, s)}
           x == CHOOSE s \in T : \A t \in T : s <= t
<1>1. FindCredsEmptySlot(m) = IF T = {} THEN 0 ELSE x
  BY DEF FindCredsEmptySlot
<1>2. CASE T = {}
  BY <1>1, <1>2
<1>3. CASE T # {}
  <2>1. T \subseteq Nat
    BY IdFacts
  <2>2. x \in T
    <3> HIDE DEF T
    <3> QED
      BY <1>3, <2>1, Least
  <2>3. x \in CredSlots /\ AJ_FindNVEntry(m, x) = 0
    BY <2>2, IdFacts DEF AJ_NVRAM_Exist, Ids
  <2> HIDE DEF x
  <2>4. Data(m, x) = <<>>
    BY <2>3, IdFacts, GoodData
  <2> QED
    BY <1>1, <1>3, <2>3, <2>4
<1> QED
  BY <1>2, <1>3

LEMMA RoomGoes ==
  ASSUME NEW m0, NEW X, NEW g, NEW s \in Going(m0, X, g), NEW c
  PROVE  /\ MakeRoom(s, c) \in Rooms(m0, X, g, s.mem)
         /\ NeedsRoom(MakeRoom(s, c), c) => Generics(MakeRoom(s, c).s.mem) = {}
<1> DEFINE R == Rooms(m0, X, g, s.mem)
           N == NumCreds + 1
           base == Found(FindCredsEmptySlot(s.mem), s)
           body(i, r) == IF NeedsRoom(r, c) THEN AJ_DeleteOldestCredential(r.s) ELSE r
           value(f) == [i \in 0..N |-> IF i = 0 THEN base ELSE body(i, f[i - 1])]
           it == CHOOSE f : f = value(f)
           D == [i \in 0..N |-> {r \in R : Rounds(r, c, i)}]
           next == [i \in 1..N |-> [w \in D[i - 1] |-> body(i, w)]]
<1>1. MakeRoom(s, c) = it[N]
  BY DEF MakeRoom
<1>2. N \in Nat /\ NumCreds - N = -1
  BY IdFacts
<1> HIDE DEF N
<1>3. base \in R
  <2> DEFINE k == FindCredsEmptySlot(s.mem)
  <2>1. Good(s.mem)
    BY DEF Going, Proper
  <2>2. k = 0 \/ (k \in CredSlots /\ Data(s.mem, k) = <<>>)
    BY <2>1, EmptySlot
  <2>3. Evicted(s.mem, s.mem)
    BY DEF Evicted
  <2>4. base = [slot |-> k, status |-> "OK", s |-> s]
    BY DEF Found
  <2> HIDE DEF base, k
  <2> QED
    BY <2>2, <2>3, <2>4 DEF Rooms
<1>4. ASSUME NEW r \in R, NEW i \in 1..N, Rounds(r, c, i - 1)
      PROVE  body(i, r) \in R /\ Rounds(body(i, r), c, i)
  <2>1. i - 1 \in Nat /\ (i - 1) + 1 = i
    BY <1>2
  <2>2. CASE NeedsRoom(r, c)
    <3>1. AJ_DeleteOldestCredential(r.s) \in R /\ Rounds(AJ_DeleteOldestCredential(r.s), c, (i - 1) + 1)
      BY <1>4, <2>1, <2>2, EvictRoom
    <3> QED
      BY <2>1, <2>2, <3>1
  <2>3. CASE ~NeedsRoom(r, c)
    BY <2>3 DEF Rounds
  <2> QED
    BY <2>2, <2>3
<1> HIDE DEF R
<1>5. base \in D[0]
  <2>1. Cardinality(Used(base.s.mem)) <= NumCreds - 0
    BY UsedFacts, IdFacts
  <2>2. Rounds(base, c, 0)
    BY <2>1 DEF Rounds
  <2> HIDE DEF base
  <2> QED
    BY <1>2, <1>3, <2>2
<1>6. ASSUME NEW i \in 1..N, NEW w \in D[i - 1] PROVE body(i, w) \in D[i]
  <2>1. i - 1 \in 0..N /\ i \in 0..N
    BY <1>2
  <2>2. w \in R /\ Rounds(w, c, i - 1)
    BY <2>1
  <2>3. body(i, w) \in R /\ Rounds(body(i, w), c, i)
    BY <1>4, <2>2
  <2> HIDE DEF body
  <2> QED
    BY <2>1, <2>3
<1>7. Stepping(N, D, next)
  <2>1. \A i \in 1..N : \A w \in D[i - 1] : next[i][w] = body(i, w)
    OBVIOUS
  <2> HIDE DEF D, next, body
  <2> QED
    BY <1>6, <2>1 DEF Stepping
<1>8. PICK h : Running(h, N, base, next, D)
  <2> HIDE DEF D, next, base, N
  <2> QED
    BY <1>2, <1>5, <1>7, Recursion
<1>9. \A j \in 1..N : h[j] = body(j, h[j - 1])
  <2>1. \A j \in 1..N : j - 1 \in 0..N
    BY <1>2
  <2>2. \A i \in 1..N : \A w \in D[i - 1] : next[i][w] = body(i, w)
    OBVIOUS
  <2> HIDE DEF D, next, body
  <2> QED
    BY <1>8, <2>1, <2>2 DEF Running
<1>10. h = value(h)
  <2>1. \A j \in 0..N : j # 0 => j \in 1..N
    BY <1>2
  <2>2. \A j \in 0..N : h[j] = value(h)[j]
    <3>1. \A j \in 0..N : value(h)[j] = IF j = 0 THEN base ELSE body(j, h[j - 1])
      <4> HIDE DEF base, body, N
      <4> QED
        OBVIOUS
    <3> HIDE DEF value, body, base
    <3> QED
      BY <1>8, <1>9, <2>1, <3>1 DEF Running
  <2>3. h = [j \in 0..N |-> h[j]]
    BY <1>8 DEF Running
  <2>4. value(h) = [j \in 0..N |-> value(h)[j]]
    <3> HIDE DEF base, body, N
    <3> QED
      OBVIOUS
  <2> HIDE DEF value
  <2> QED
    BY <2>2, <2>3, <2>4
<1>11. it = value(it)
  <2> HIDE DEF value
  <2> QED
    BY <1>10
<1> HIDE DEF it
<1>12. it[0] = base /\ \A j \in 1..N : it[j] = body(j, it[j - 1])
  <2>1. 0 \in 0..N /\ \A j \in 1..N : j \in 0..N /\ j # 0
    BY <1>2
  <2>2. \A j \in 0..N : value(it)[j] = IF j = 0 THEN base ELSE body(j, it[j - 1])
    <3> HIDE DEF base, body, N
    <3> QED
      OBVIOUS
  <2> HIDE DEF value, body, base
  <2> QED
    BY <1>11, <2>1, <2>2
<1> DEFINE S == {j \in 0..N : it[j] \in D[j]}
<1>13. 0 \in S /\ \A j \in 1..N : j - 1 \in S => j \in S
  <2>1. 0 \in 0..N /\ \A j \in 1..N : j \in 0..N
    BY <1>2
  <2> HIDE DEF D, body, base
  <2> QED
    BY <1>5, <1>6, <1>12, <2>1
<1>14. \A j \in 0..N : j \in S
  <2> HIDE DEF S
  <2> QED
    BY <1>2, <1>13, UpTo
<1>15. it[N] \in D[N] /\ N \in 0..N
  <2>1. N \in 0..N
    BY <1>2
  <2> HIDE DEF D
  <2> QED
    BY <1>14, <2>1
<1>16. it[N] \in R /\ Rounds(it[N], c, N)
  BY <1>15
<1>17. NeedsRoom(it[N], c) => Generics(it[N].s.mem) = {}
  <2> DEFINE n == Cardinality(Used(it[N].s.mem))
  <2>1. n \in Nat
    BY UsedFacts
  <2>2. NeedsRoom(it[N], c) => Generics(it[N].s.mem) = {} \/ n <= NumCreds - N
    BY <1>16 DEF Rounds
  <2> HIDE DEF n
  <2> QED
    BY <1>2, <2>1, <2>2
<1> QED
  BY <1>1, <1>16, <1>17 DEF R

\* AJ_ClearCredentials: it deletes slot after slot.
LEMMA ClearGoes ==
  ASSUME NEW m0, NEW X, NEW g, NEW s \in Going(m0, X, g)
  PROVE  LET t == Cleared(s, NumCreds) IN
         /\ t \in Going(m0, X, g) /\ Kept(s.mem, t.mem, CredSlots)
         /\ \A k \in CredSlots : Data(t.mem, k) = <<>>
<1> DEFINE m == s.mem
           N == NumCreds
           base == s
           body(i, w) == IF AJ_NVRAM_Exist(w.mem, 1 + i) THEN AJ_NVRAM_Delete(w, 1 + i) ELSE w
           value(f) == [i \in 0..N |-> IF i = 0 THEN base ELSE body(i, f[i - 1])]
           it == CHOOSE f : f = value(f)
           At(w, i) == Kept(m, w.mem, CredSlots) /\ \A k \in 2..(1 + i) : Data(w.mem, k) = <<>>
           D == [i \in 0..N |-> {w \in Going(m0, X, g) : At(w, i)}]
           next == [i \in 1..N |-> [w \in D[i - 1] |-> body(i, w)]]
<1>1. Cleared(s, N) = it[N]
  BY DEF Cleared
<1>2. N \in Nat /\ CredSlots = 2..(1 + N) /\ CredSlots \subseteq Ids
  BY IdFacts DEF CredSlots
<1>3. \A k \in CredSlots : k # INVALID_ID
  BY <1>2 DEF Ids
<1> HIDE DEF N
<1>5. base \in D[0]
  <2>1. Kept(m, m, CredSlots) /\ 2..(1 + 0) = {}
    BY DEF Kept
  <2>2. At(base, 0) /\ 0 \in 0..N
    BY <1>2, <2>1
  <2> HIDE DEF At
  <2> QED
    BY <2>2
<1>6. ASSUME NEW i \in 1..N, NEW w \in D[i - 1] PROVE body(i, w) \in D[i]
  <2> DEFINE k == 1 + i
             t == AJ_NVRAM_Delete(w, k)
  <2>1. i - 1 \in 0..N /\ i \in 0..N /\ k \in CredSlots /\ k # INVALID_ID /\ k \in Ids
    BY <1>2, <1>3
  <2>2. w \in Going(m0, X, g) /\ Kept(m, w.mem, CredSlots) /\ \A j \in 2..(1 + (i - 1)) : Data(w.mem, j) = <<>>
    BY <2>1
  <2>3. \A j \in 2..(1 + i) : j = k \/ (j \in 2..(1 + (i - 1)) /\ j \in Ids)
    BY <1>2
  <2>4. Good(w.mem)
    BY <2>2 DEF Going, Proper
  <2> HIDE DEF k
  <2>5. CASE AJ_FindNVEntry(w.mem, k) = 0
    <3>1. body(i, w) = w
      BY <2>5 DEF AJ_NVRAM_Exist, k
    <3>2. Data(w.mem, k) = <<>>
      BY <2>1, <2>4, <2>5, GoodData
    <3>3. At(w, i)
      BY <2>2, <2>3, <3>2
    <3> HIDE DEF At
    <3> QED
      BY <2>1, <2>2, <3>1, <3>3
  <2>6. CASE AJ_FindNVEntry(w.mem, k) # 0
    <3>1. body(i, w) = t
      BY <2>1, <2>6 DEF AJ_NVRAM_Exist, k
    <3>2. t \in Going(m0, X, g) /\ Data(t.mem, k) = <<>> /\ Kept(w.mem, t.mem, {k})
      BY <2>1, <2>2, <2>6, DeleteGoes
    <3> HIDE DEF t
    <3>3. At(t, i)
      <4>1. Kept(m, t.mem, CredSlots)
        BY <2>1, <2>2, <3>2 DEF Kept
      <4>2. \A j \in 2..(1 + i) : Data(t.mem, j) = <<>>
        BY <2>2, <2>3, <3>2 DEF Kept
      <4> QED
        BY <4>1, <4>2
    <3> HIDE DEF At
    <3> QED
      BY <2>1, <3>1, <3>2, <3>3
  <2> QED
    BY <2>5, <2>6
<1>7. Stepping(N, D, next)
  <2>1. \A i \in 1..N : \A w \in D[i - 1] : next[i][w] = body(i, w)
    OBVIOUS
  <2> HIDE DEF D, next, body
  <2> QED
    BY <1>6, <2>1 DEF Stepping
<1>8. PICK h : Running(h, N, base, next, D)
  <2> HIDE DEF D, next, base, N
  <2> QED
    BY <1>2, <1>5, <1>7, Recursion
<1>9. \A j \in 1..N : h[j] = body(j, h[j - 1])
  <2>1. \A j \in 1..N : j - 1 \in 0..N
    BY <1>2
  <2>2. \A i \in 1..N : \A w \in D[i - 1] : next[i][w] = body(i, w)
    OBVIOUS
  <2> HIDE DEF D, next, body
  <2> QED
    BY <1>8, <2>1, <2>2 DEF Running
<1>10. h = value(h)
  <2>1. \A j \in 0..N : j # 0 => j \in 1..N
    BY <1>2
  <2>2. \A j \in 0..N : h[j] = value(h)[j]
    <3>1. \A j \in 0..N : value(h)[j] = IF j = 0 THEN base ELSE body(j, h[j - 1])
      <4> HIDE DEF base, body, N
      <4> QED
        OBVIOUS
    <3> HIDE DEF value, body, base
    <3> QED
      BY <1>8, <1>9, <2>1, <3>1 DEF Running
  <2>3. h = [j \in 0..N |-> h[j]]
    BY <1>8 DEF Running
  <2>4. value(h) = [j \in 0..N |-> value(h)[j]]
    <3> HIDE DEF base, body, N
    <3> QED
      OBVIOUS
  <2> HIDE DEF value
  <2> QED
    BY <2>2, <2>3, <2>4
<1>11. it = value(it)
  <2> HIDE DEF value
  <2> QED
    BY <1>10
<1> HIDE DEF it
<1>12. it[0] = base /\ \A j \in 1..N : it[j] = body(j, it[j - 1])
  <2>1. 0 \in 0..N /\ \A j \in 1..N : j \in 0..N /\ j # 0
    BY <1>2
  <2>2. \A j \in 0..N : value(it)[j] = IF j = 0 THEN base ELSE body(j, it[j - 1])
    <3> HIDE DEF base, body, N
    <3> QED
      OBVIOUS
  <2> HIDE DEF value, body, base
  <2> QED
    BY <1>11, <2>1, <2>2
<1> DEFINE S == {j \in 0..N : it[j] \in D[j]}
<1>13. 0 \in S /\ \A j \in 1..N : j - 1 \in S => j \in S
  <2>1. 0 \in 0..N /\ \A j \in 1..N : j \in 0..N
    BY <1>2
  <2> HIDE DEF D, body, base
  <2> QED
    BY <1>5, <1>6, <1>12, <2>1
<1>14. \A j \in 0..N : j \in S
  <2> HIDE DEF S
  <2> QED
    BY <1>2, <1>13, UpTo
<1>15. it[N] \in D[N] /\ N \in 0..N
  <2>1. N \in 0..N
    BY <1>2
  <2> HIDE DEF D
  <2> QED
    BY <1>14, <2>1
<1>16. it[N] \in Going(m0, X, g) /\ At(it[N], N)
  <2> HIDE DEF At
  <2> QED
    BY <1>15
<1>17. Cleared(s, NumCreds) = it[N]
  BY <1>1 DEF N
<1> QED
  BY <1>2, <1>16, <1>17

LEMMA NameHasLen ==
  ASSUME NEW m, Proper(m), NEW t \in CredSlots, HasName(Data(m, t))
  PROVE  Data(m, t)[2] = IdLen
<1>1. PICK c \in Credential : \E n \in 0..Size(c) : Data(m, t) = Part(c, n)
  BY DEF HasName, Proper, OfParts
<1>2. PICK n \in 0..Size(c) : Data(m, t) = Part(c, n)
  BY <1>1
<1>3. n \in Nat
  BY CredFacts
<1>4. /\ Data(m, t)[2] = (IF n >= 2 THEN IdLen ELSE INVALID_DATA)
      /\ Data(m, t)[3] = (IF n >= 3 THEN c.id ELSE INVALID_DATA)
  BY <1>2, PartFacts
<1>5. n >= 3
  BY <1>4 DEF HasName
<1> QED
  BY <1>3, <1>4, <1>5

LEMMA NameIsFree ==
  ASSUME NEW m, Proper(m), NEW c \in Credential, NEW k \in CredSlots,
         Has(Data(m, k), c.type, c.id) \/ \A t \in CredSlots : ~Has(Data(m, t), c.type, c.id)
  PROVE  NoOther(m, k, c)
<1> SUFFICES ASSUME NEW t \in CredSlots \ {k}, Data(m, t) # <<>>, Data(m, t)[1] = c.type, Data(m, t)[3] = c.id
             PROVE  FALSE
  BY DEF NoOther
<1>1. HasName(Data(m, t))
  BY CredFacts DEF HasName
<1>2. Has(Data(m, t), c.type, c.id)
  BY <1>1, NameHasLen DEF Has
<1>3. Has(Data(m, k), c.type, c.id)
  BY <1>2
<1>4. SameName(Data(m, k), Data(m, t))
  BY <1>1, <1>3, CredFacts DEF SameName, HasName, Has
<1> QED
  BY <1>4 DEF Proper, OneNameEach

LEMMA EvictedSame ==
  ASSUME NEW m, NEW b, Evicted(m, b), NEW a, Kept(b, a, {})
  PROVE  Evicted(m, a)
<1>1. \A k \in Ids : Data(a, k) = Data(b, k)
  BY DEF Kept
<1>2. \A d : Oldest(d, b) => Oldest(d, a)
  BY <1>1, IdFacts DEF Oldest
<1> QED
  BY <1>1, <1>2 DEF Evicted

\* What a call of AJ_StoreCredential does to the memory: it replaces the credential of the name,
\* or evicts some and adds it; if it fails it has deleted the one to be replaced, or evicted some.
Replaced(m, a, c) == \E k \in CredSlots : Has(Data(m, k), c.type, c.id) /\ Partly(m, a, k, c, Size(c))
Lost(m, a, c) == \E k \in CredSlots : Has(Data(m, k), c.type, c.id) /\ Kept(m, a, {k}) /\ Data(a, k) = <<>>
AddedAt(m, b, a, k, c) == Proper(b) /\ Evicted(m, b) /\ Data(b, k) = <<>> /\ Partly(b, a, k, c, Size(c))
Added(m, a, c) ==
  (\A k \in CredSlots : ~Has(Data(m, k), c.type, c.id)) /\ \E b : \E k \in CredSlots : AddedAt(m, b, a, k, c)
Outcome(m, r, c) ==
  /\ r.status = "OK" => Replaced(m, r.s.mem, c) \/ Added(m, r.s.mem, c)
  /\ r.status # "OK" => Lost(m, r.s.mem, c) \/ Evicted(m, r.s.mem)
  /\ r.status = "LOOP" => Evicted(m, r.s.mem) /\ Generics(r.s.mem) = {}

LEMMA UpdateOutcome ==
  ASSUME NEW m0, NEW X, NEW g, NEW s \in Going(m0, X, g),
         NEW k \in CredSlots, NEW c \in Credential, NoOther(s.mem, k, c),
         UpdateCred(s, c, k).status = "OK" => c \in X
  PROVE  /\ UpdateCred(s, c, k).s \in Going(m0, X, g) /\ UpdateCred(s, c, k).status # "LOOP"
         /\ UpdateCred(s, c, k).status = "OK" => Partly(s.mem, UpdateCred(s, c, k).s.mem, k, c, Size(c))
         /\ UpdateCred(s, c, k).status # "OK" =>
              Kept(s.mem, UpdateCred(s, c, k).s.mem, {k}) /\ Data(UpdateCred(s, c, k).s.mem, k) = <<>>
<1> DEFINE r == UpdateCred(s, c, k)
<1>1. /\ r.s \in Going(m0, X, g) /\ r.status \in {"OK", "FAILURE"} /\ Kept(s.mem, r.s.mem, {k})
      /\ r.status = "OK" => Data(r.s.mem, k) = Part(c, Size(c))
      /\ r.status = "FAILURE" => Data(r.s.mem, k) = <<>>
  BY UpdateGoes, ZenonT(60)
<1> HIDE DEF r
<1> QED
  BY <1>1 DEF Partly, r

LEMMA StoreGoes ==
  ASSUME NEW m0, NEW X, NEW g, NEW s \in Going(m0, X, g), NEW c \in Credential,
         StoreCredential(s, c).status = "OK" => c \in X
  PROVE  StoreCredential(s, c).s \in Going(m0, X, g) /\ Outcome(s.mem, StoreCredential(s, c), c)
<1> DEFINE m == s.mem
           old == FindCredential(m, c.type, c.id)
           room == MakeRoom(s, c)
           r == StoreCredential(s, c)
<1>1. r = IF old # 0 THEN UpdateCred(s, c, old)
          ELSE IF NeedsRoom(room, c) THEN [status |-> "LOOP", s |-> room.s]
          ELSE IF room.slot = 0 THEN [status |-> "FAILURE", s |-> room.s]
          ELSE UpdateCred(room.s, c, room.slot)
  BY DEF StoreCredential
<1>2. Proper(m)
  BY DEF Going
<1>3. /\ old # 0 => old \in CredSlots /\ Has(Data(m, old), c.type, c.id)
      /\ old = 0 => \A k \in CredSlots : ~Has(Data(m, k), c.type, c.id)
  BY <1>2, FoundFacts
<1>4. room \in Rooms(m0, X, g, m) /\ (NeedsRoom(room, c) => Generics(room.s.mem) = {})
  BY RoomGoes
<1>5. /\ room.s \in Going(m0, X, g) /\ room.slot \in {0} \cup CredSlots
      /\ Evicted(m, room.s.mem) /\ (room.slot = 0 \/ Data(room.s.mem, room.slot) = <<>>)
  BY <1>4 DEF Rooms
<1> HIDE DEF old, room
<1>6. CASE old # 0
  <2>1. r = UpdateCred(s, c, old)
    BY <1>1, <1>6
  <2>2. NoOther(m, old, c)
    BY <1>2, <1>3, <1>6, NameIsFree
  <2>3. /\ r.s \in Going(m0, X, g) /\ r.status # "LOOP"
        /\ r.status = "OK" => Partly(m, r.s.mem, old, c, Size(c))
        /\ r.status # "OK" => Kept(m, r.s.mem, {old}) /\ Data(r.s.mem, old) = <<>>
    BY <1>3, <1>6, <2>1, <2>2, UpdateOutcome
  <2> HIDE DEF r
  <2> QED
    BY <1>3, <1>6, <2>3 DEF Outcome, Replaced, Lost, r
<1>7. CASE old = 0 /\ (NeedsRoom(room, c) \/ room.slot = 0)
  <2>1. r.s = room.s /\ r.status # "OK" /\ (r.status = "LOOP" => NeedsRoom(room, c))
    BY <1>1, <1>7
  <2> HIDE DEF r
  <2> QED
    BY <1>4, <1>5, <2>1 DEF Outcome, r
<1>8. CASE old = 0 /\ ~(NeedsRoom(room, c) \/ room.slot = 0)
  <2> DEFINE k == room.slot
             b == room.s.mem
  <2>1. r = UpdateCred(room.s, c, k)
    BY <1>1, <1>8
  <2>2. Proper(b) /\ k \in CredSlots /\ Data(b, k) = <<>>
    BY <1>5, <1>8 DEF Going
  <2>3. \A t \in CredSlots : ~Has(Data(b, t), c.type, c.id)
    BY <1>3, <1>5, <1>8, IdFacts DEF Evicted, Has
  <2>4. NoOther(b, k, c)
    BY <2>2, <2>3, NameIsFree
  <2>5. /\ r.s \in Going(m0, X, g) /\ r.status # "LOOP"
        /\ r.status = "OK" => Partly(b, r.s.mem, k, c, Size(c))
        /\ r.status # "OK" => Kept(b, r.s.mem, {k}) /\ Data(r.s.mem, k) = <<>>
    <3> DEFINE q == room.s
               u == UpdateCred(q, c, k)
    <3>1. q \in Going(m0, X, g) /\ NoOther(q.mem, k, c) /\ k \in CredSlots
      BY <1>5, <2>2, <2>4
    <3>2. UpdateCred(q, c, k).status = "OK" => c \in X
      BY <2>1
    <3> HIDE DEF q, k
    <3>3. /\ UpdateCred(q, c, k).s \in Going(m0, X, g) /\ UpdateCred(q, c, k).status # "LOOP"
          /\ UpdateCred(q, c, k).status = "OK" => Partly(q.mem, UpdateCred(q, c, k).s.mem, k, c, Size(c))
          /\ UpdateCred(q, c, k).status # "OK" =>
               Kept(q.mem, UpdateCred(q, c, k).s.mem, {k}) /\ Data(UpdateCred(q, c, k).s.mem, k) = <<>>
      BY <3>1, <3>2, UpdateOutcome
    <3> HIDE DEF r
    <3> QED
      BY <2>1, <3>3 DEF q, k
  <2> HIDE DEF r, k, b
  <2>6. r.status = "OK" => Added(m, r.s.mem, c)
    <3>1. r.status = "OK" => AddedAt(m, b, r.s.mem, k, c)
      BY <1>5, <2>2, <2>5 DEF AddedAt, b
    <3> QED
      BY <1>3, <1>8, <2>2, <3>1 DEF Added
  <2>7. r.status # "OK" => Evicted(m, r.s.mem)
    <3>1. r.status # "OK" => Kept(b, r.s.mem, {})
      BY <2>2, <2>5 DEF Kept
    <3> QED
      BY <1>5, <3>1, EvictedSame DEF b
  <2> QED
    BY <2>5, <2>6, <2>7 DEF Outcome, r
<1> QED
  BY <1>6, <1>7, <1>8

-----------------------------------------------------------------------------
\* AJ_Initialize: the memory the device starts with, and its GUID.
LEMMA NoGuidFacts ==
  ASSUME NEW m, Good(m), m[3] = INVALID_DATA
  PROVE  FreeAt(m) = 3 /\ \A k \in Ids : Data(m, k) = <<>>
<1>1. PICK L, at : Arranged(m, L, at)
  BY DEF Good
<1>2. Layout(m, L, at)
  BY <1>1 DEF Arranged
<1>3. L \in 0..MaxEntries /\ at[0] = 3
  BY <1>2, LayoutFacts
<1>4. L = 0
  <2>1. L # 0 => 0 \in 0..(L - 1)
    BY <1>3, Sizes
  <2>2. L # 0 => m[at[0]] # INVALID_DATA
    BY <1>2, <2>1, LayoutFacts
  <2> QED
    BY <1>3, <2>2
<1>5. FreeAt(m) = at[0]
  BY <1>2, <1>4, FreeIs
<1>6. ASSUME NEW k \in Ids PROVE Data(m, k) = <<>>
  <2>1. \A i \in 0..(L - 1) : m[at[i]] # k
    BY <1>4
  <2>2. AJ_FindNVEntry(m, k) = 0
    BY <1>2, <2>1, FindNone
  <2> QED
    BY <2>2 DEF Data
<1> QED
  BY <1>3, <1>5, <1>6

LEMMA GuidFacts ==
  ASSUME NEW m, Good(m), m[3] = AJ_LOCAL_GUID_NV_ID
  PROVE  Data(m, AJ_LOCAL_GUID_NV_ID) # <<>>
<1> DEFINE k == AJ_LOCAL_GUID_NV_ID
<1>1. PICK L, at : Arranged(m, L, at)
  BY DEF Good
<1>2. Layout(m, L, at)
  BY <1>1 DEF Arranged
<1>3. L \in 0..MaxEntries /\ at[0] = 3 /\ \A x \in at[L]..NvSize : m[x] = INVALID_DATA
  BY <1>2, LayoutFacts
<1>4. k \in Ids /\ k # INVALID_DATA
  BY IdFacts
<1> HIDE DEF k
<1>5. L # 0
  <2>1. L = 0 => 3 \in at[L]..NvSize
    BY <1>3, Sizes
  <2> QED
    BY <1>3, <1>4, <2>1 DEF k
<1>6. 0 \in 0..(L - 1)
  BY <1>3, <1>5, Sizes
<1>7. m[at[0]] = k
  BY <1>3 DEF k
<1>8. AJ_FindNVEntry(m, k) = at[0]
  BY <1>1, <1>4, <1>6, <1>7, FindEntry
<1> QED
  BY <1>3, <1>4, <1>8, GoodData DEF k

LEMMA GuidInIs ==
  ASSUME NEW m, Good(m)
  PROVE  GuidIn(m) = IF Data(m, AJ_LOCAL_GUID_NV_ID) = <<>> THEN {} ELSE {Data(m, AJ_LOCAL_GUID_NV_ID)[1]}
<1> DEFINE k == AJ_LOCAL_GUID_NV_ID
<1>1. k \in Ids /\ k # INVALID_ID
  BY IdFacts DEF Ids
<1>2. /\ Data(m, k) \in Seq(HalfWord) /\ Len(Data(m, k)) \in Nat
      /\ (Data(m, k) = <<>> <=> AJ_FindNVEntry(m, k) = 0)
  BY <1>1, GoodData
<1> HIDE DEF k
<1>3. CASE Data(m, k) = <<>>
  BY <1>2, <1>3 DEF GuidIn, AJ_NVRAM_Exist, k
<1>4. CASE Data(m, k) # <<>>
  <2>1. Len(Data(m, k)) > 0 /\ 0 \in Nat /\ 0 + 1 = 1
    <3> DEFINE d == Data(m, k)
    <3>1. d \in Seq(HalfWord) /\ d # <<>>
      BY <1>2, <1>4
    <3> HIDE DEF d
    <3>2. Len(d) > 0
      BY <3>1
    <3> QED
      BY <3>2 DEF d
  <2>2. AJ_FindNVEntry(m, k) # 0
    BY <1>2, <1>4
  <2>3. AJ_NVRAM_Read(m, AJ_FindNVEntry(m, k), 0, 1) = <<Data(m, k)[0 + 1]>>
    BY <1>1, <2>1, <2>2, ReadOne
  <2>4. GuidIn(m) = {AJ_NVRAM_Read(m, AJ_FindNVEntry(m, k), 0, 1)[1]}
    BY <1>1, <2>2 DEF GuidIn, AJ_NVRAM_Exist, k
  <2> QED
    BY <1>4, <2>3, <2>4 DEF k
<1> QED
  BY <1>3, <1>4 DEF k

LEMMA ErasedProper ==
  /\ Erased \in Memory /\ Erased[3] = INVALID_DATA /\ Proper(Erased)
<1>1. Erased \in Memory
  <2>1. Sentinel[1] \in HalfWord /\ Sentinel[2] \in HalfWord
    BY DEF Sentinel, HalfWord, INVALID_DATA
  <2>2. \A i \in 1..NvSize : i <= 2 => i = 1 \/ i = 2
    BY Sizes
  <2>3. INVALID_DATA \in HalfWord
    BY Sizes DEF HalfWord
  <2> QED
    BY <2>1, <2>2, <2>3 DEF Erased, Memory
<1>2. /\ Erased[1] = Sentinel[1] /\ Erased[2] = Sentinel[2]
      /\ \A i \in 3..NvSize : Erased[i] = INVALID_DATA
  <2>1. 1 \in 1..NvSize /\ 2 \in 1..NvSize /\ \A i \in 3..NvSize : i \in 1..NvSize /\ ~(i <= 2)
    BY Sizes
  <2> QED
    BY <2>1 DEF Erased
<1>3. Erased[3] = INVALID_DATA
  BY <1>2, Sizes
<1> DEFINE at == [l \in 0..0 |-> 3]
<1>4. at \in [0..0 -> Nat] /\ at[0] = 3 /\ 0..(0 - 1) = {} /\ 3 <= NvSize + 1
  BY Sizes
<1> HIDE DEF at
<1>5. Arranged(Erased, 0, at)
  <2>1. Chain(Erased, 0, at, at[0])
    BY <1>4 DEF Chain
  <2> QED
    BY <1>1, <1>2, <1>4, <2>1 DEF Arranged, Layout
<1>6. Good(Erased)
  BY <1>2, <1>5 DEF Good
<1>7. \A k \in Ids : Data(Erased, k) = <<>>
  BY <1>3, <1>6, NoGuidFacts
<1>8. Proper(Erased)
  BY <1>3, <1>6, <1>7, IdFacts DEF Proper, OneNameEach, SameName, HasName
<1> QED
  BY <1>1, <1>3, <1>8

\* As Going, but that the GUID may be missing.
Begun(m0, X, g) == {s \in Store : Steps(m0, s, FileSteps(X, g)) /\ Proper(s.mem)}

LEMMA BeginsOn ==
  ASSUME NEW m0, NEW X, NEW g, NEW s \in Begun(m0, X, g),
         NEW from \in 1..NvSize, NEW cells \in Seq(HalfWord),
         Proper(Patch(s.mem, from, cells)), DataStep(s.mem, Patch(s.mem, from, cells), X, g)
  PROVE  NV_Write(s, from, cells) \in Begun(m0, X, g) /\ NV_Write(s, from, cells).mem = Patch(s.mem, from, cells)
<1> DEFINE m2 == Patch(s.mem, from, cells)
           t == NV_Write(s, from, cells)
<1>1. s \in Store /\ s.mem \in Memory /\ Steps(m0, s, FileSteps(X, g)) /\ Proper(s.mem)
  BY DEF Begun, Store
<1>2. from \in Nat
  BY Sizes
<1>3. t \in Store /\ t.mem = m2
  BY <1>1, <1>2, WriteStore
<1>4. m2 \in Memory
  BY <1>1, <1>2, PatchAt
<1>5. <<s.mem, m2>> \in FileSteps(X, g)
  BY <1>1, <1>4 DEF FileSteps
<1>6. Steps(m0, t, FileSteps(X, g))
  BY <1>1, <1>5, StepsWrite
<1> HIDE DEF m2, t
<1>7. t \in Begun(m0, X, g)
  BY <1>3, <1>6 DEF Begun, m2
<1> QED
  BY <1>3, <1>7 DEF t, m2

LEMMA GuidProper ==
  ASSUME NEW m, Proper(m), NEW m2, Good(m2), Kept(m, m2, {AJ_LOCAL_GUID_NV_ID}), m2[3] = AJ_LOCAL_GUID_NV_ID
  PROVE  Proper(m2)
<1>1. \A k \in Ids : k # AJ_LOCAL_GUID_NV_ID => Data(m2, k) = Data(m, k)
  BY DEF Kept
<1>2. \A k \in CredSlots : k \in Ids /\ k # AJ_LOCAL_GUID_NV_ID
  BY IdFacts
<1>3. \A k \in Ids \ CredIds : k # AJ_LOCAL_GUID_NV_ID
  BY DEF CredIds
<1> QED
  BY <1>1, <1>2, <1>3 DEF Proper, OneNameEach

LEMMA SentinelOf ==
  ASSUME NEW m \in Memory, m[1] = Sentinel[1], m[2] = Sentinel[2]
  PROVE  SubSeq(m, 1, 2) = Sentinel
<1>1. SubSeq(m, 1, 2) = [i \in 1..2 |-> m[i]]
  <2>1. m \in Seq(HalfWord) /\ Len(m) = NvSize
    BY Sizes DEF Memory
  <2>2. SubSeq(m, 1, 2) = [i \in 1..(2 - 1 + 1) |-> m[1 + i - 1]]
    BY <2>1, Sizes
  <2> QED
    BY <2>2
<1>2. Sentinel = [i \in 1..2 |-> Sentinel[i]]
  BY DEF Sentinel
<1>3. \A i \in 1..2 : m[i] = Sentinel[i]
  <2>1. \A i \in 1..2 : i = 1 \/ i = 2
    OBVIOUS
  <2> QED
    BY <2>1
<1> HIDE DEF Sentinel
<1> QED
  BY <1>1, <1>2, <1>3

\* The memory is the file, or erased if there is none.
Loaded == IF file = <<>> THEN Erased ELSE file

LEMMA InitBegins ==
  ASSUME file # <<>> => Proper(file), NEW X, NEW g
  PROVE  AJ_NVRAM_Init(file) \in Begun(Loaded, X, g) /\ AJ_NVRAM_Init(file).mem = Loaded
         /\ (file # <<>> => AJ_NVRAM_Init(file).log = <<>>)
<1> DEFINE none(m) == [mem |-> m, log |-> <<>>]
<1>1. ASSUME NEW m \in Memory, Proper(m) PROVE none(m) \in Begun(m, X, g)
  <2>1. Steps(m, none(m), FileSteps(X, g))
    BY StepsNone
  <2>2. none(m) \in Store
    BY <2>1, StepsStore
  <2> QED
    BY <1>1, <2>1, <2>2 DEF Begun
<1>2. CASE file # <<>>
  <2>1. file \in Memory /\ file[1] = Sentinel[1] /\ file[2] = Sentinel[2]
    BY <1>2, GoodData, IdFacts DEF Proper, Good
  <2>2. SubSeq(file, 1, 2) = Sentinel
    BY <2>1, SentinelOf
  <2>3. AJ_NVRAM_Init(file) = none(file) /\ Loaded = file
    BY <1>2, <2>2 DEF AJ_NVRAM_Init, Loaded
  <2> QED
    BY <1>1, <1>2, <2>1, <2>3
<1>3. CASE file = <<>>
  <2> DEFINE m == Erased
             s == NV_Write(none(m), 1, m)
             t == NV_Write(s, 1, m)
  <2>1. m \in Memory /\ Proper(m)
    BY ErasedProper
  <2>2. m \in Seq(HalfWord) /\ 1 \in 1..NvSize /\ Patch(m, 1, m) = m
    BY <2>1, PatchAll
  <2>3. DataStep(m, m, X, g)
    BY DEF DataStep, Kept
  <2>4. AJ_NVRAM_Init(file) = t
    <3>1. s = AJ_NVRAM_Clear(none(m))
      BY DEF AJ_NVRAM_Clear
    <3>2. s.mem = m /\ s = [mem |-> s.mem, log |-> s.log]
      BY <2>2 DEF NV_Write
    <3>3. AJ_NVRAM_Init(file) = [s EXCEPT !.log = Append(@, [at |-> 1, cells |-> m])]
      BY <1>3, <3>1 DEF AJ_NVRAM_Init
    <3> HIDE DEF s
    <3> QED
      BY <2>2, <3>2, <3>3 DEF NV_Write
  <2> HIDE DEF m
  <2>5. none(m) \in Begun(m, X, g) /\ none(m).mem = m
    BY <1>1, <2>1
  <2>6. s \in Begun(m, X, g) /\ s.mem = m
    <3> DEFINE q == none(m)
    <3>1. q \in Begun(m, X, g) /\ q.mem = m
      BY <2>5
    <3> HIDE DEF q
    <3>2. NV_Write(q, 1, m) \in Begun(m, X, g) /\ NV_Write(q, 1, m).mem = m
      BY <2>1, <2>2, <2>3, <3>1, BeginsOn
    <3> QED
      BY <3>2 DEF q
  <2> HIDE DEF s
  <2>7. t \in Begun(m, X, g) /\ t.mem = m
    BY <2>1, <2>2, <2>3, <2>6, BeginsOn
  <2> HIDE DEF t
  <2> QED
    BY <1>3, <2>4, <2>7 DEF Loaded, m
<1> QED
  BY <1>2, <1>3

\* AJ_GetLocalGUID: the GUID there is, or guid, in two writes.
LEMMA GuidGoes ==
  ASSUME NEW m0, NEW X, NEW guid \in Guids, NEW s \in Begun(m0, X, guid), NEW g,
         GuidIn(s.mem) # {} => s \in Begun(m0, X, g)
  PROVE  LET t == AJ_GetLocalGUID(s, guid) IN
         /\ GuidIn(s.mem) # {} => t = s /\ t \in Going(m0, X, g)
         /\ GuidIn(s.mem) = {} => t \in Going(m0, X, guid) /\ GuidIn(t.mem) = {guid}
         /\ Kept(s.mem, t.mem, {AJ_LOCAL_GUID_NV_ID})
<1> DEFINE k == AJ_LOCAL_GUID_NV_ID
           m == s.mem
           t == AJ_GetLocalGUID(s, guid)
<1>1. Proper(m) /\ Good(m) /\ m[3] \in {INVALID_DATA, k}
  BY DEF Begun, Proper
<1>2. k \in Ids /\ k = 1 /\ k # INVALID_DATA /\ k # INVALID_ID
  BY IdFacts DEF Ids
<1>3. CASE GuidIn(m) # {}
  <2>1. t = s
    BY <1>3 DEF AJ_GetLocalGUID
  <2>2. Data(m, k) # <<>>
    BY <1>1, <1>3, GuidInIs
  <2>3. m[3] = k
    BY <1>1, <1>2, <2>2, NoGuidFacts
  <2>4. s \in Going(m0, X, g)
    BY <1>3, <2>3 DEF Begun, Going
  <2>5. Kept(m, m, {k})
    BY DEF Kept
  <2> HIDE DEF t
  <2> QED
    BY <1>3, <2>1, <2>4, <2>5 DEF t
<1>4. CASE GuidIn(m) = {}
  <2> HIDE DEF k
  <2>1. Data(m, k) = <<>>
    BY <1>1, <1>4, GuidInIs DEF k
  <2>2. m[3] = INVALID_DATA
    BY <1>1, <2>1, GuidFacts DEF k
  <2>3. FreeAt(m) = 3 /\ AJ_FindNVEntry(m, k) = 0
    BY <1>1, <1>2, <2>1, <2>2, NoGuidFacts, GoodData
  <2> DEFINE cs == <<k, 2>>
             m1 == Patch(m, 3, cs)
             s1 == NV_Write(s, 3, cs)
             open == AJ_NVRAM_OpenW(s, k, 1)
  <2>4. 3 + 2 + 2 <= NvSize + 1 /\ 2 \in Nat \ {0, 1} /\ HeaderSize = 2 /\ WORD_ALIGN(1) = 2
    BY Sizes DEF WORD_ALIGN
  <2>5. /\ 3 \in 1..NvSize /\ cs \in Seq(HalfWord) /\ Good(m1) /\ Data(m1, k) = Blank(2)
        /\ AJ_FindNVEntry(m1, k) = 3 /\ Kept(m, m1, {k}) /\ m1[3] = k
    BY <1>1, <1>2, <2>2, <2>3, <2>4, CreateFacts DEF Created
  <2>6. open = [entry |-> 3, s |-> s1]
    <3> DEFINE made == [ok |-> TRUE, s |-> s1]
    <3>1. ~AJ_NVRAM_Exist(m, k)
      BY <2>3 DEF AJ_NVRAM_Exist
    <3>2. AJ_NVRAM_Create(s, k, 1) = made
      BY <2>3, <2>4, <3>1 DEF AJ_NVRAM_Create
    <3>3. made.ok /\ made.s = s1 /\ s1.mem = m1
      BY DEF NV_Write
    <3> HIDE DEF made, s1, m1
    <3>4. k # 0
      BY <1>2
    <3> QED
      BY <2>5, <3>1, <3>2, <3>3, <3>4 DEF AJ_NVRAM_OpenW
  <2> HIDE DEF m1, cs
  <2>7. Proper(m1)
    BY <1>1, <2>5, GuidProper DEF k
  <2>8. DataStep(m, m1, X, guid)
    BY <2>1, <2>5 DEF DataStep, GuidStep, GuidBlank, k
  <2>9. s1 \in Begun(m0, X, guid) /\ s1.mem = m1
    BY <2>5, <2>7, <2>8, BeginsOn DEF m1
  <2> HIDE DEF s1
  <2>10. s1 \in Going(m0, X, guid)
    BY <2>5, <2>9 DEF Begun, Going, k
  <2> DEFINE f == <<guid>>
  <2>11. f \in Seq(HalfWord) /\ Len(f) = 1 /\ f[1] = guid /\ guid \in HalfWord
    <3>1. guid \in HalfWord
      BY CredsAssumption DEF Cell, HalfWord
    <3> QED
      BY <3>1
  <2> HIDE DEF f
  <2>12. Len(Blank(2)) = 2 /\ Blank(2) # <<>> /\ Blank(2) \in Seq(HalfWord)
    <3> DEFINE b == Blank(2)
    <3>1. b \in Seq(HalfWord) /\ Len(b) = 2
      BY BlankFacts
    <3> HIDE DEF b
    <3>2. b # <<>>
      <4>1. b = <<>> <=> Len(b) = 0
        BY <3>1, EmptySeq
      <4> QED
        BY <3>1, <4>1
    <3> QED
      BY <3>1, <3>2 DEF b
  <2>13. t = AJ_NVRAM_Write(s1, 3, 0, f)
    <3>1. open.entry = 3 /\ open.s = s1
      BY <2>6
    <3> HIDE DEF open
    <3>2. open.entry # 0
      BY <3>1
    <3> QED
      BY <1>4, <3>1, <3>2 DEF AJ_GetLocalGUID, open, k, f
  <2>14. s1 \in Store /\ Good(s1.mem)
    BY <2>5, <2>9 DEF Begun
  <2>15. /\ AJ_FindNVEntry(s1.mem, k) = 3 /\ AJ_FindNVEntry(s1.mem, k) # 0
         /\ 0 + Len(f) <= Len(Data(s1.mem, k)) /\ 0 % 2 = 0 /\ Len(f) > 0
    BY <2>5, <2>9, <2>11, <2>12
  <2>16. PICK at \in 1..NvSize, w \in Seq(HalfWord) :
           /\ AJ_NVRAM_Write(s1, AJ_FindNVEntry(s1.mem, k), 0, f) = NV_Write(s1, at, w)
           /\ LET m2 == Patch(s1.mem, at, w) IN
              /\ Good(m2) /\ Kept(s1.mem, m2, {k}) /\ m2[3] = s1.mem[3]
              /\ AJ_FindNVEntry(m2, k) = AJ_FindNVEntry(s1.mem, k)
              /\ Data(m2, k) = Patch(Data(s1.mem, k), 0 + 1, f)
    BY <1>2, <2>11, <2>14, <2>15, WriteIs
  <2> DEFINE m2 == Patch(s1.mem, at, w)
  <2>17. /\ t = NV_Write(s1, at, w) /\ Good(m2) /\ Kept(m1, m2, {k}) /\ m2[3] = k
         /\ Data(m2, k) = Patch(Blank(2), 1, f) /\ AJ_FindNVEntry(m2, k) # 0
    BY <2>5, <2>9, <2>13, <2>15, <2>16
  <2> HIDE DEF m2
  <2>18. Data(m2, k) # <<>> /\ Data(m2, k)[1] = guid
    <3> DEFINE b == Blank(2)
               d == Patch(b, 1, f)
    <3>1. DOMAIN b = 1..2
      BY DEF Blank
    <3> HIDE DEF b
    <3>2. d = [i \in 1..2 |-> IF i \in 1..(1 + Len(f) - 1) THEN f[i - 1 + 1] ELSE b[i]]
      BY <3>1 DEF Patch
    <3> HIDE DEF d
    <3>3. 1 \in 1..2 /\ 1 \in 1..(1 + Len(f) - 1) /\ 1 - 1 + 1 = 1
      BY <2>11
    <3>4. d[1] = guid
      BY <2>11, <3>2, <3>3
    <3>5. Data(m2, k) # <<>>
      BY <1>2, <2>17, GoodData
    <3> QED
      BY <2>17, <3>4, <3>5 DEF d, b
  <2>19. Proper(m2)
    BY <2>7, <2>17, GuidProper DEF k
  <2>20. DataStep(m1, m2, X, guid)
    BY <2>5, <2>17, <2>18 DEF DataStep, GuidStep, GuidBlank, k
  <2>21. NV_Write(s1, at, w) \in Going(m0, X, guid) /\ NV_Write(s1, at, w).mem = m2
    <3>1. s1 \in Going(m0, X, guid) /\ Proper(Patch(s1.mem, at, w)) /\ Patch(s1.mem, at, w)[3] = s1.mem[3]
          /\ DataStep(s1.mem, Patch(s1.mem, at, w), X, guid)
      BY <2>5, <2>9, <2>10, <2>17, <2>19, <2>20 DEF m2
    <3> QED
      BY <3>1, GoesOn DEF m2
  <2>22. Kept(m, m2, {k})
    BY <2>5, <2>17 DEF Kept
  <2>23. GuidIn(m2) = {guid}
    BY <2>17, <2>18, GuidInIs DEF k
  <2> HIDE DEF t
  <2> QED
    BY <1>4, <2>17, <2>21, <2>22, <2>23 DEF t, k
<1> QED
  BY <1>3, <1>4

-----------------------------------------------------------------------------
\* The credentials that can be read.
LEMMA StoredHas ==
  ASSUME NEW m, Proper(m), NEW k \in CredSlots, NEW c \in Credential, NEW n \in 7..Size(c),
         Data(m, k) = Part(c, n)
  PROVE  ReadPart(c, n) \in Stored(m) /\ (n = Size(c) => c \in Stored(m))
<1>1. n \in 0..Size(c) /\ n >= 7 /\ n \in Nat
  BY CredFacts
<1>2. ReadRemainderOfCredential(m, Entry(m, k)) = {ReadPart(c, n)}
  BY <1>1, RemainderFacts
<1>3. Data(m, k) # <<>> /\ Data(m, k)[2] = IdLen
  BY <1>1, PartFacts
<1>4. Entry(m, k) \in Entries(m)
  BY <1>3, SlotFacts
<1>5. n = Size(c) => ReadPart(c, n) = c
  BY ReadPartFacts
<1> QED
  BY <1>2, <1>4, <1>5 DEF Stored

LEMMA StoredIs ==
  ASSUME NEW m, Proper(m), NEW x \in Stored(m)
  PROVE  \E k \in CredSlots : \E c \in Credential : \E n \in 7..Size(c) :
           Data(m, k) = Part(c, n) /\ x = ReadPart(c, n)
<1>1. PICK p \in Entries(m) : x \in ReadRemainderOfCredential(m, p)
  BY DEF Stored
<1>2. PICK k \in CredSlots : p = Entry(m, k) /\ Data(m, k) # <<>>
  BY EntryOfASlot
<1>3. PICK c \in Credential : \E n \in 0..Size(c) : Data(m, k) = Part(c, n)
  BY <1>2 DEF Proper, OfParts
<1>4. PICK n \in 0..Size(c) : Data(m, k) = Part(c, n)
  BY <1>3
<1>5. n >= 7 /\ x = ReadPart(c, n)
  BY <1>1, <1>2, <1>4, RemainderFacts
<1>6. n \in 7..Size(c)
  BY <1>5, CredFacts
<1> QED
  BY <1>4, <1>5, <1>6

LEMMA ProperChained ==
  ASSUME NEW m, Proper(m)
  PROVE  Chained(m)
<1>1. PICK L, at : Arranged(m, L, at)
  BY DEF Proper, Good
<1>2. m \in Memory /\ Layout(m, L, at)
  BY <1>1 DEF Arranged
<1>3. m \in [1..NvSize -> 0..INVALID_DATA]
  BY <1>2 DEF Memory, HalfWord
<1>4. SubSeq(m, 1, 2) = Sentinel
  BY <1>2, SentinelOf DEF Proper, Good
<1>5. FreeAt(m) = at[L] /\ Headers(m) = {at[i] : i \in 0..(L - 1)}
  BY <1>2, FreeIs, HeadersAre
<1>6. L \in 0..MaxEntries /\ \A i \in 0..L : at[i] \in 3..(NvSize + 1)
  BY <1>2, LayoutFacts
<1>7. \A x \in at[L]..NvSize : m[x] = INVALID_DATA
  BY <1>2, LayoutFacts
<1>8. \A i \in 0..(L - 1) : m[at[i]] # INVALID_DATA /\ at[i] \in 1..NvSize
  <2>1. \A i \in 0..(L - 1) : m[at[i]] # INVALID_DATA /\ at[i] \in 3..(NvSize - 3)
    BY <1>2, LayoutFacts
  <2> QED
    BY <2>1, Sizes
<1>9. FreeAt(m) <= NvSize + 1 /\ \A i \in FreeAt(m)..NvSize : m[i] = INVALID_DATA
  <2>1. L \in 0..L
    BY <1>6, Sizes
  <2>2. at[L] \in 3..(NvSize + 1)
    BY <1>6, <2>1
  <2>3. at[L] <= NvSize + 1
    BY <2>2, Sizes
  <2> QED
    BY <1>5, <1>7, <2>3
<1>10. ASSUME NEW i \in 0..(L - 1) PROVE m[at[i]] \in {INVALID_ID, AJ_LOCAL_GUID_NV_ID} \cup CredSlots
  <2>1. m[at[i]] \in HalfWord
    BY <1>2, <1>8 DEF Memory
  <2>2. CASE m[at[i]] = INVALID_ID
    BY <2>2
  <2>3. CASE m[at[i]] # INVALID_ID
    <3> DEFINE k == m[at[i]]
    <3>1. k \in Ids
      BY <1>8, <2>1, <2>3 DEF Ids
    <3> HIDE DEF k
    <3>2. AJ_FindNVEntry(m, k) = at[i] /\ at[i] # 0
      BY <1>1, <3>1, DataFacts DEF k
    <3>3. Data(m, k) # <<>>
      BY <1>1, <3>1, <3>2, DataFacts
    <3>4. k \in CredIds
      BY <3>1, <3>3 DEF Proper
    <3> QED
      BY <3>4 DEF CredIds, k
  <2> QED
    BY <2>2, <2>3
<1>11. \A i, j \in 0..(L - 1) : m[at[i]] = m[at[j]] => i = j \/ m[at[i]] = INVALID_ID
  BY <1>1 DEF Arranged
<1>12. \A p \in Headers(m) : m[p] \in {INVALID_ID, AJ_LOCAL_GUID_NV_ID} \cup CredSlots
  BY <1>5, <1>10
<1>13. \A p, q \in Headers(m) : m[p] = m[q] => p = q \/ m[p] = INVALID_ID
  BY <1>5, <1>11
<1> QED
  BY <1>3, <1>4, <1>9, <1>12, <1>13 DEF Chained

-----------------------------------------------------------------------------
\* The invariant.  The file is proper whenever there is one, unless the power failed within a
\* compaction; while the device runs, the writes still to be made lead from the file to the
\* memory, through proper memories and by steps that write nothing but the credential being
\* stored, which is in the memory, and its GUID.
Guid(m) == Data(m, AJ_LOCAL_GUID_NV_ID)[1]
PowerOn == pc \in {"on", "stuck"}
FileProper == file # <<>> /\ pc # "broken" => Proper(file)
OffErased == ~PowerOn => mem = Erased /\ todo = <<>> /\ storing = {}
WritesLead == PowerOn => [mem |-> mem, log |-> todo] \in Going(Loaded, storing, Guid(mem))
StoringIs == storing \subseteq Credential /\ storing \subseteq Stored(mem)
IInv ==
  pc \in {"off", "on", "stuck", "broken"} /\ FileProper /\ OffErased /\ WritesLead /\ StoringIs

LEMMA LoadedProper ==
  ASSUME FileProper, pc # "broken"
  PROVE  Proper(Loaded) /\ Loaded \in Memory
BY ErasedProper DEF FileProper, Loaded, Proper, Good, Arranged

LEMMA MemoryNotEmpty ==
  ASSUME NEW m \in Memory
  PROVE  m # <<>>
<1>1. m \in Seq(HalfWord) /\ Len(m) = NvSize
  BY Sizes DEF Memory
<1> QED
  BY <1>1, Sizes, EmptySeq

\* With nothing left to write the memory is the file, whatever is still to be written by.
LEMMA RestIs ==
  ASSUME NEW m0, NEW m, NEW X, NEW g, [mem |-> m, log |-> <<>>] \in Going(m0, X, g)
  PROVE  /\ m0 = m /\ m \in Memory /\ Proper(m) /\ m[3] = AJ_LOCAL_GUID_NV_ID
         /\ \A Y, h : [mem |-> m, log |-> <<>>] \in Going(m, Y, h)
<1> DEFINE s == [mem |-> m, log |-> <<>>]
<1>1. s.mem = m /\ s.log = <<>>
  OBVIOUS
<1>2. Proper(m) /\ m[3] = AJ_LOCAL_GUID_NV_ID /\ m \in Memory /\ Steps(m0, s, FileSteps(X, g))
  BY DEF Going, Store
<1>3. m = m0
  <2> HIDE DEF s
  <2> QED
    BY <1>1, <1>2, StepsDone
<1>4. ASSUME NEW Y, NEW h PROVE s \in Going(m, Y, h)
  <2>1. Steps(m, s, FileSteps(Y, h))
    BY <1>2, StepsNone
  <2>2. s \in Store
    BY <2>1, StepsStore
  <2> QED
    BY <1>2, <2>1, <2>2 DEF Going
<1> QED
  BY <1>2, <1>3, <1>4

LEMMA NotErased ==
  ASSUME NEW f, NEW m, (IF f = <<>> THEN Erased ELSE f) = m, m[3] = AJ_LOCAL_GUID_NV_ID
  PROVE  f = m
<1>1. f # <<>>
  BY ErasedProper, IdFacts
<1> QED
  BY <1>1

LEMMA AtRest ==
  ASSUME IInv, PowerOn, todo = <<>>
  PROVE  /\ file = mem /\ mem \in Memory /\ Proper(mem) /\ mem[3] = AJ_LOCAL_GUID_NV_ID
         /\ Loaded = mem /\ \A X, g : Store0 \in Going(mem, X, g)
<1>1. [mem |-> mem, log |-> <<>>] \in Going(Loaded, storing, Guid(mem))
  BY DEF IInv, WritesLead
<1>2. /\ Loaded = mem /\ mem \in Memory /\ Proper(mem) /\ mem[3] = AJ_LOCAL_GUID_NV_ID
      /\ \A X, g : [mem |-> mem, log |-> <<>>] \in Going(mem, X, g)
  BY <1>1, RestIs
<1>3. file = mem
  BY <1>2, NotErased DEF Loaded
<1> QED
  BY <1>2, <1>3 DEF Store0

\* A call that has been made leaves its writes to be made.
LEMMA CallMade ==
  ASSUME IInv, pc # "broken", NEW r, NEW X \in SUBSET Credential, X \subseteq Stored(r.mem),
         r \in Going(Loaded, X, Guid(r.mem)), Does(r, X), pc' \in {"on", "stuck"}
  PROVE  IInv'
<1>1. mem' = r.mem /\ todo' = r.log /\ storing' = X /\ file' = file
  BY DEF Does
<1>2. r = [mem |-> r.mem, log |-> r.log]
  BY DEF Going, Store
<1>3. Loaded' = Loaded
  BY <1>1 DEF Loaded
<1>4. [mem |-> mem', log |-> todo'] \in Going(Loaded', storing', Guid(mem'))
  BY <1>1, <1>2, <1>3
<1>5. WritesLead'
  BY <1>4 DEF WritesLead
<1>6. FileProper' /\ OffErased' /\ StoringIs'
  BY <1>1 DEF IInv, FileProper, OffErased, StoringIs, PowerOn
<1> QED
  BY <1>5, <1>6 DEF IInv

\* The GUID stays through all calls.
LEMMA OutcomeKept ==
  ASSUME NEW m, NEW r, NEW c, Outcome(m, r, c)
  PROVE  Kept(m, r.s.mem, CredSlots)
<1> DEFINE a == r.s.mem
<1>1. ASSUME NEW k \in CredSlots, Kept(m, a, {k}) PROVE Kept(m, a, CredSlots)
  BY <1>1 DEF Kept
<1>2. ASSUME NEW b, Evicted(m, b) PROVE Kept(m, b, CredSlots)
  BY <1>2 DEF Kept, Evicted
<1>3. CASE Replaced(m, a, c) \/ Lost(m, a, c)
  BY <1>1, <1>3 DEF Replaced, Lost, Partly
<1>4. CASE Evicted(m, a)
  BY <1>2, <1>4
<1>5. CASE Added(m, a, c)
  <2>1. PICK b : \E k \in CredSlots : AddedAt(m, b, a, k, c)
    BY <1>5 DEF Added
  <2>2. PICK k \in CredSlots : AddedAt(m, b, a, k, c)
    BY <2>1
  <2>3. Kept(m, b, CredSlots) /\ Kept(b, a, {k})
    BY <1>2, <2>2 DEF AddedAt, Partly
  <2> QED
    BY <2>3 DEF Kept
<1> QED
  BY <1>3, <1>4, <1>5 DEF Outcome

LEMMA GuidKept ==
  ASSUME NEW m, NEW a, Kept(m, a, CredSlots)
  PROVE  Data(a, AJ_LOCAL_GUID_NV_ID) = Data(m, AJ_LOCAL_GUID_NV_ID) /\ Guid(a) = Guid(m)
BY IdFacts DEF Kept, Guid

\* A credential that has been stored is in the memory.
LEMMA OutcomeStored ==
  ASSUME NEW m, NEW r, NEW c \in Credential, Outcome(m, r, c), r.status = "OK", Proper(r.s.mem)
  PROVE  /\ \E k \in CredSlots : Data(r.s.mem, k) = Part(c, Size(c))
         /\ c \in Stored(r.s.mem)
<1> DEFINE a == r.s.mem
<1>1. PICK k \in CredSlots : Data(a, k) = Part(c, Size(c))
  BY DEF Outcome, Replaced, Added, AddedAt, Partly
<1>2. Size(c) \in 7..Size(c)
  BY CredFacts
<1> QED
  BY <1>1, <1>2, StoredHas

\* The set of the credential that a call stores.
Kernel(r, c) == IF r.status = "OK" THEN {c} ELSE {}

LEMMA StoreCalled ==
  ASSUME IInv, Idle, NEW c \in Credential
  PROVE  LET r == StoreCredential(Store0, c) IN
         /\ r.s \in Going(mem, Kernel(r, c), Guid(r.s.mem)) /\ Outcome(mem, r, c)
         /\ Kernel(r, c) \in SUBSET Credential /\ Kernel(r, c) \subseteq Stored(r.s.mem)
<1> DEFINE r == StoreCredential(Store0, c)
           a == r.s.mem
           X == Kernel(r, c)
<1>1. Store0.mem = mem
  BY DEF Store0
<1>2. \A Y, g : Store0 \in Going(mem, Y, g)
  BY AtRest DEF Idle, PowerOn
<1>3. r.status = "OK" => c \in X
  BY DEF Kernel
<1> HIDE DEF X
<1>4. r.s \in Going(mem, X, Guid(mem)) /\ Outcome(mem, r, c)
  BY <1>1, <1>2, <1>3, StoreGoes
<1> HIDE DEF r
<1>5. Proper(a)
  BY <1>4 DEF Going
<1>6. r.status = "OK" => c \in Stored(a)
  BY <1>4, <1>5, OutcomeStored
<1>7. Guid(a) = Guid(mem)
  BY <1>4, OutcomeKept, GuidKept
<1>8. X \in SUBSET Credential /\ X \subseteq Stored(a)
  BY <1>6 DEF X, Kernel
<1> QED
  BY <1>4, <1>7, <1>8 DEF r, X

LEMMA InitInv ==
  ASSUME Init
  PROVE  IInv
BY DEF Init, IInv, FileProper, OffErased, WritesLead, StoringIs, PowerOn

LEMMA InitializeInv ==
  ASSUME IInv, AJ_Initialize
  PROVE  IInv'
<1>1. PICK guid \in Guids : Does(AJ_GetLocalGUID(AJ_NVRAM_Init(file), guid), {})
  BY DEF AJ_Initialize
<1> DEFINE s == AJ_NVRAM_Init(file)
           t == AJ_GetLocalGUID(s, guid)
           X == {}
<1>2. pc = "off" /\ pc' \in {"on", "stuck"}
  BY DEF AJ_Initialize
<1>3. \A g : s \in Begun(Loaded, X, g)
  BY <1>2, InitBegins DEF IInv, FileProper
<1> HIDE DEF X, s
<1>4. t \in Going(Loaded, X, Guid(t.mem))
  <2>1. CASE GuidIn(s.mem) # {}
    <3>1. s \in Begun(Loaded, X, guid) /\ s \in Begun(Loaded, X, Guid(t.mem))
      BY <1>3
    <3> QED
      BY <2>1, <3>1, GuidGoes
  <2>2. CASE GuidIn(s.mem) = {}
    <3>1. t \in Going(Loaded, X, guid) /\ GuidIn(t.mem) = {guid}
      BY <1>3, <2>2, GuidGoes
    <3>2. Good(t.mem)
      BY <3>1 DEF Going, Proper
    <3>3. Guid(t.mem) = guid
      BY <3>1, <3>2, GuidInIs DEF Guid
    <3> QED
      BY <3>1, <3>3
  <2> QED
    BY <2>1, <2>2
<1> HIDE DEF t
<1>5. Does(t, X)
  BY <1>1 DEF t, s, X
<1>6. X \in SUBSET Credential /\ X \subseteq Stored(t.mem)
  BY DEF X
<1> QED
  BY <1>2, <1>4, <1>5, <1>6, CallMade

LEMMA StoreInv ==
  ASSUME IInv, NEW c \in Credential, AJ_StoreCredential(c)
  PROVE  IInv'
<1> DEFINE r == StoreCredential(Store0, c)
           X == Kernel(r, c)
<1>1. Idle /\ Does(r.s, X) /\ pc' = IF r.status = "LOOP" THEN "stuck" ELSE pc
  BY DEF AJ_StoreCredential, Kernel
<1>2. pc' \in {"on", "stuck"} /\ pc # "broken"
  BY <1>1 DEF Idle
<1>3. Loaded = mem
  BY <1>1, AtRest DEF Idle, PowerOn
<1>4. /\ r.s \in Going(mem, X, Guid(r.s.mem)) /\ X \in SUBSET Credential /\ X \subseteq Stored(r.s.mem)
  BY <1>1, StoreCalled
<1> HIDE DEF r, X
<1> QED
  BY <1>1, <1>2, <1>3, <1>4, CallMade

LEMMA DeleteCalled ==
  ASSUME IInv, Idle, NEW type, NEW id, FindCredential(mem, type, id) # 0
  PROVE  LET k == FindCredential(mem, type, id)
             t == AJ_NVRAM_Delete(Store0, k)
         IN /\ t \in Going(mem, {}, Guid(t.mem))
            /\ k \in CredSlots /\ Kept(mem, t.mem, {k}) /\ Data(t.mem, k) = <<>>
<1> DEFINE k == FindCredential(mem, type, id)
           t == AJ_NVRAM_Delete(Store0, k)
<1>1. Store0.mem = mem /\ Proper(mem) /\ \A Y, g : Store0 \in Going(mem, Y, g)
  BY AtRest DEF Store0, Idle, PowerOn
<1>2. k \in CredSlots /\ Data(mem, k) # <<>>
  BY <1>1, FoundFacts DEF Has
<1> HIDE DEF k
<1>3. AJ_FindNVEntry(mem, k) # 0
  BY <1>1, <1>2, GoodData, IdFacts DEF Proper
<1>4. \A Y, g : t \in Going(mem, Y, g)
  BY <1>1, <1>2, <1>3, DeleteGoes
<1>5. Kept(mem, t.mem, {k}) /\ Data(t.mem, k) = <<>>
  BY <1>1, <1>2, <1>3, DeleteGoes
<1> HIDE DEF t
<1> QED
  BY <1>2, <1>4, <1>5 DEF k, t

LEMMA DeleteInv ==
  ASSUME IInv, NEW type, NEW id, AJ_DeleteCredential(type, id)
  PROVE  IInv'
<1> DEFINE t == AJ_NVRAM_Delete(Store0, FindCredential(mem, type, id))
           X == {}
<1>1. Idle /\ FindCredential(mem, type, id) # 0 /\ Does(t, X) /\ pc' = pc
  BY DEF AJ_DeleteCredential
<1>2. pc' \in {"on", "stuck"} /\ pc # "broken" /\ Loaded = mem
  BY <1>1, AtRest DEF Idle, PowerOn
<1>3. t \in Going(mem, X, Guid(t.mem)) /\ X \in SUBSET Credential /\ X \subseteq Stored(t.mem)
  BY <1>1, DeleteCalled
<1> HIDE DEF t, X
<1> QED
  BY <1>1, <1>2, <1>3, CallMade

LEMMA ClearInv ==
  ASSUME IInv, AJ_ClearCredentials
  PROVE  IInv'
<1> DEFINE t == Cleared(Store0, NumCreds)
           X == {}
           g == Guid(t.mem)
<1>1. Idle /\ Does(t, X) /\ pc' = pc
  BY DEF AJ_ClearCredentials
<1>2. pc' \in {"on", "stuck"} /\ pc # "broken" /\ Loaded = mem /\ \A Y, h : Store0 \in Going(mem, Y, h)
  BY <1>1, AtRest DEF Idle, PowerOn
<1>3. X \in SUBSET Credential /\ X \subseteq Stored(t.mem)
  OBVIOUS
<1> HIDE DEF X, g
<1>4. t \in Going(mem, X, g)
  BY <1>2, ClearGoes
<1> HIDE DEF t
<1> QED
  BY <1>1, <1>2, <1>3, <1>4, CallMade DEF g

\* A write of the file is a step from what it was.
LEMMA FileStep ==
  ASSUME IInv, StoreNVToFile
  PROVE  /\ <<Loaded, file'>> \in FileSteps(storing, Guid(mem)) /\ PowerOn
         /\ file' \in Memory /\ Proper(file') /\ file' # <<>> /\ Loaded' = file'
         /\ [mem |-> mem', log |-> todo'] \in Going(file', storing, Guid(mem))
<1> DEFINE s == [mem |-> mem, log |-> todo]
           T == FileSteps(storing, Guid(mem))
           t == [mem |-> mem, log |-> Tail(todo)]
<1>1. todo # <<>> /\ file' = Patch(Loaded, Head(todo).at, Head(todo).cells) /\ todo' = Tail(todo) /\ mem' = mem /\ pc' = pc
  BY DEF StoreNVToFile, Loaded
<1>2. PowerOn
  BY <1>1 DEF IInv, OffErased
<1>3. s \in Going(Loaded, storing, Guid(mem))
  BY <1>2 DEF IInv, WritesLead
<1>4. s.mem = mem /\ s.log = todo
  OBVIOUS
<1> HIDE DEF T, s
<1>5. Steps(Loaded, s, T) /\ Proper(mem) /\ mem[3] = AJ_LOCAL_GUID_NV_ID
  BY <1>3, <1>4 DEF Going, T
<1>6. file' \in Memory /\ <<Loaded, file'>> \in T /\ Steps(file', t, T)
  BY <1>1, <1>4, <1>5, StepsNext
<1>7. Proper(file') /\ file' # <<>>
  BY <1>6, MemoryNotEmpty DEF T, FileSteps
<1>8. Loaded' = file'
  BY <1>7 DEF Loaded
<1>9. t \in Store
  BY <1>6, StepsStore
<1>10. t \in Going(file', storing, Guid(mem))
  BY <1>5, <1>6, <1>9 DEF Going, T
<1> QED
  BY <1>1, <1>2, <1>6, <1>7, <1>8, <1>10 DEF T

LEMMA WriteInv ==
  ASSUME IInv, StoreNVToFile
  PROVE  IInv'
<1>1. mem' = mem /\ pc' = pc /\ PowerOn /\ PowerOn' /\ storing' = IF todo' = <<>> THEN {} ELSE storing
  BY FileStep DEF StoreNVToFile, PowerOn
<1>2. Proper(file') /\ Loaded' = file' /\ [mem |-> mem', log |-> todo'] \in Going(file', storing, Guid(mem))
  BY FileStep
<1>3. [mem |-> mem', log |-> todo'] \in Going(file', storing', Guid(mem'))
  <2>1. CASE todo' = <<>>
    <3>1. [mem |-> mem', log |-> <<>>] \in Going(file', storing, Guid(mem))
      BY <1>2, <2>1
    <3>2. file' = mem' /\ \A Y, h : [mem |-> mem', log |-> <<>>] \in Going(mem', Y, h)
      BY <3>1, RestIs
    <3> QED
      BY <2>1, <3>2
  <2>2. CASE todo' # <<>>
    BY <1>1, <1>2, <2>2
  <2> QED
    BY <2>1, <2>2
<1>4. WritesLead'
  BY <1>2, <1>3 DEF WritesLead
<1>5. FileProper' /\ OffErased' /\ StoringIs'
  BY <1>1, <1>2 DEF FileProper, OffErased, StoringIs, IInv
<1> QED
  BY <1>1, <1>4, <1>5 DEF IInv, PowerOn

LEMMA PowerInv ==
  ASSUME IInv, PowerFails \/ PowerFailsInCompaction
  PROVE  IInv'
<1>1. mem' = Erased /\ todo' = <<>> /\ storing' = {}
  BY DEF PowerFails, PowerFailsInCompaction
<1>2. pc' = "broken" \/ (pc' = "off" /\ pc # "broken" /\ file' \in {file, <<>>})
  BY DEF PowerFails, PowerFailsInCompaction
<1>3. FileProper'
  BY <1>2 DEF IInv, FileProper
<1> QED
  BY <1>1, <1>2, <1>3 DEF IInv, OffErased, WritesLead, StoringIs, PowerOn

LEMMA StutterInv ==
  ASSUME IInv, UNCHANGED vars
  PROVE  IInv'
BY DEF IInv, FileProper, OffErased, WritesLead, StoringIs, PowerOn, vars, Loaded

LEMMA NextInv ==
  ASSUME IInv, [Next]_vars
  PROVE  IInv'
<1>1. CASE AJ_Initialize
  BY <1>1, InitializeInv
<1>2. CASE StoreNVToFile
  BY <1>2, WriteInv
<1>3. CASE PowerFails \/ PowerFailsInCompaction
  BY <1>3, PowerInv
<1>4. ASSUME NEW c \in Credential, AJ_StoreCredential(c) PROVE IInv'
  BY <1>4, StoreInv
<1>5. ASSUME NEW c \in Credential, AJ_DeleteCredential(c.type, c.id) PROVE IInv'
  BY <1>5, DeleteInv
<1>6. CASE AJ_ClearCredentials
  BY <1>6, ClearInv
<1>7. CASE Broken \/ UNCHANGED vars
  BY <1>7, StutterInv DEF Broken
<1> QED
  BY <1>1, <1>2, <1>3, <1>4, <1>5, <1>6, <1>7 DEF Next

-----------------------------------------------------------------------------
\* The safety properties follow from the invariant.
LEMMA MemProper ==
  ASSUME IInv
  PROVE  Proper(mem) /\ (PowerOn => mem[3] = AJ_LOCAL_GUID_NV_ID)
<1>1. CASE ~PowerOn
  BY <1>1, ErasedProper DEF IInv, OffErased
<1>2. CASE PowerOn
  <2> DEFINE s == [mem |-> mem, log |-> todo]
  <2>1. s \in Going(Loaded, storing, Guid(mem)) /\ s.mem = mem
    BY <1>2 DEF IInv, WritesLead
  <2> HIDE DEF s
  <2> QED
    BY <2>1 DEF Going
<1> QED
  BY <1>1, <1>2

LEMMA TypeHolds ==
  ASSUME IInv
  PROVE  TypeOK
<1>1. Chained(mem)
  BY MemProper, ProperChained
<1>2. file # <<>> /\ pc # "broken" => Chained(file)
  BY ProperChained DEF IInv, FileProper
<1>3. \A i \in DOMAIN todo : todo[i].at \in 1..NvSize /\ todo[i].cells \in Seq(0..INVALID_DATA)
  <2>1. CASE ~PowerOn
    BY <2>1 DEF IInv, OffErased
  <2>2. CASE PowerOn
    <3> DEFINE s == [mem |-> mem, log |-> todo]
    <3>1. s \in Going(Loaded, storing, Guid(mem)) /\ s.log = todo
      BY <2>2 DEF IInv, WritesLead
    <3> HIDE DEF s
    <3>2. todo \in Seq(LoggedWrite)
      BY <3>1 DEF Going, Steps
    <3>3. \A i \in DOMAIN todo : todo[i] \in LoggedWrite
      BY <3>2
    <3> QED
      BY <3>3 DEF LoggedWrite, HalfWord
  <2> QED
    BY <2>1, <2>2
<1> QED
  BY <1>1, <1>2, <1>3 DEF TypeOK, IInv, StoringIs

LEMMA FileHolds ==
  ASSUME IInv
  PROVE  FileIsMemory
<1> SUFFICES ASSUME Idle PROVE file = mem /\ GuidIn(mem) # {}
  BY DEF FileIsMemory
<1>1. file = mem /\ Proper(mem) /\ mem[3] = AJ_LOCAL_GUID_NV_ID
  BY AtRest DEF Idle, PowerOn
<1>2. Good(mem)
  BY <1>1 DEF Proper
<1>3. Data(mem, AJ_LOCAL_GUID_NV_ID) # <<>>
  BY <1>1, <1>2, GuidFacts
<1> QED
  BY <1>1, <1>2, <1>3, GuidInIs

LEMMA OneSlotHolds ==
  ASSUME IInv
  PROVE  OneSlotEach
<1> SUFFICES ASSUME NEW p \in Entries(mem), NEW q \in Entries(mem), IdOf(mem, p) # INVALID_DATA,
                    TypeOf(mem, p) = TypeOf(mem, q), IdOf(mem, p) = IdOf(mem, q)
             PROVE  p = q
  BY DEF OneSlotEach
<1>1. Proper(mem)
  BY MemProper
<1>2. PICK s \in CredSlots : p = Entry(mem, s) /\ Data(mem, s) # <<>>
  BY <1>1, EntryOfASlot
<1>3. PICK t \in CredSlots : q = Entry(mem, t) /\ Data(mem, t) # <<>>
  BY <1>1, EntryOfASlot
<1>4. TypeOf(mem, p) = Data(mem, s)[1] /\ IdOf(mem, p) = Data(mem, s)[3]
  BY <1>1, <1>2, SlotFacts
<1>5. TypeOf(mem, q) = Data(mem, t)[1] /\ IdOf(mem, q) = Data(mem, t)[3]
  BY <1>1, <1>3, SlotFacts
<1>6. SameName(Data(mem, s), Data(mem, t))
  BY <1>2, <1>3, <1>4, <1>5 DEF SameName, HasName
<1> QED
  BY <1>1, <1>2, <1>3, <1>6 DEF Proper, OneNameEach

\* A credential that fills a slot is the one that is found under its name.
LEMMA FoundStored ==
  ASSUME NEW m, Proper(m), NEW k \in CredSlots, NEW c \in Credential, Data(m, k) = Part(c, Size(c))
  PROVE  AJ_GetCredential(m, c.type, c.id) = {c}
<1> DEFINE n == Size(c)
           j == FindCredential(m, c.type, c.id)
<1>1. n \in 7..Size(c) /\ n \in 0..Size(c) /\ n >= 7
  BY CredFacts
<1>2. Data(m, k) # <<>> /\ Data(m, k)[1] = c.type /\ Data(m, k)[2] = IdLen /\ Data(m, k)[3] = c.id
  BY <1>1, PartFacts
<1>3. Has(Data(m, k), c.type, c.id)
  BY <1>2 DEF Has
<1>4. j # 0 /\ j \in CredSlots /\ Has(Data(m, j), c.type, c.id)
  BY <1>3, FoundFacts
<1> HIDE DEF j, n
<1>5. SameName(Data(m, j), Data(m, k))
  BY <1>2, <1>4, CredFacts DEF SameName, HasName, Has
<1>6. j = k
  BY <1>4, <1>5 DEF Proper, OneNameEach
<1>7. ReadRemainderOfCredential(m, Entry(m, k)) = {ReadPart(c, n)}
  BY <1>1, RemainderFacts DEF n
<1>8. ReadPart(c, n) = c
  BY <1>1, ReadPartFacts DEF n
<1> QED
  BY <1>4, <1>6, <1>7, <1>8 DEF AJ_GetCredential, Entry, j

LEMMA FoundHolds ==
  ASSUME IInv
  PROVE  StoredIsFound
<1> SUFFICES ASSUME Idle, NEW c \in Credential, StoreCredential(Store0, c).status = "OK"
             PROVE  AJ_GetCredential(StoreCredential(Store0, c).s.mem, c.type, c.id) = {c}
  BY DEF StoredIsFound
<1> DEFINE r == StoreCredential(Store0, c)
           a == r.s.mem
<1>1. r.s \in Going(mem, Kernel(r, c), Guid(a)) /\ Outcome(mem, r, c)
  BY StoreCalled
<1>2. Proper(a)
  BY <1>1 DEF Going
<1>3. PICK k \in CredSlots : Data(a, k) = Part(c, Size(c))
  BY <1>1, <1>2, OutcomeStored
<1> QED
  BY <1>2, <1>3, FoundStored

LEMMA Invariant ==
  Spec => []IInv
<1>1. Init => IInv
  BY InitInv
<1>2. IInv /\ [Next]_vars => IInv'
  BY NextInv
<1> QED
  BY <1>1, <1>2, PTL DEF Spec

\* aj_nvram.c: whatever calls, evictions, compactions and power failures there are, the entries
\* of the memory and of the file follow each other up to the free space, and no id has two; of
\* the file that a power failure within a compaction leaves, and after it of a device that is
\* broken, nothing is said.
THEOREM CredsTypeOK ==
  Spec => []TypeOK
<1>1. IInv => TypeOK
  BY TypeHolds
<1> QED
  BY <1>1, Invariant, PTL

\* AJ_NVRAM_Init, _AJ_StoreNVToFile: when no call is in progress the file is the memory, and the
\* device has a GUID.  A device that a power failure within a compaction has broken is never so.
THEOREM CredsFileIsMemory ==
  Spec => []FileIsMemory
<1>1. IInv => FileIsMemory
  BY FileHolds
<1> QED
  BY <1>1, Invariant, PTL

\* AJ_StoreCredential: no two slots of the memory ever hold credentials of one name, written to
\* their ends or not, as long as the device works: that is, until the power fails within a
\* compaction.
THEOREM CredsOneSlotEach ==
  Spec => []OneSlotEach
<1>1. IInv => OneSlotEach
  BY OneSlotHolds
<1> QED
  BY <1>1, Invariant, PTL

\* AJ_StoreCredential, AJ_GetCredential: a credential for which AJ_OK is returned is the one that
\* is then found under its name, whatever calls and power failures have left in the NVRAM of a
\* device that works.
THEOREM CredsStoredIsFound ==
  Spec => []StoredIsFound
<1>1. IInv => StoredIsFound
  BY FoundHolds
<1> QED
  BY <1>1, Invariant, PTL

-----------------------------------------------------------------------------
\* The refinement.  What can be read of a slot depends on its data alone.
Shown(m, k) == IF Data(m, k) = <<>> THEN {} ELSE ReadRemainderOfCredential(m, Entry(m, k))

LEMMA ShownPart ==
  ASSUME NEW m, Proper(m), NEW k \in CredSlots, NEW c \in Credential, NEW n \in 0..Size(c),
         Data(m, k) = Part(c, n)
  PROVE  Shown(m, k) = IF n >= 7 THEN {ReadPart(c, n)} ELSE {}
<1>1. Data(m, k) # <<>>
  BY PartFacts
<1> QED
  BY <1>1, RemainderFacts DEF Shown

LEMMA ShownSame ==
  ASSUME NEW m, Proper(m), NEW a, Proper(a), NEW k \in CredSlots, Data(a, k) = Data(m, k)
  PROVE  Shown(a, k) = Shown(m, k)
<1>1. CASE Data(m, k) = <<>>
  BY <1>1 DEF Shown
<1>2. CASE Data(m, k) # <<>>
  <2>1. PICK c \in Credential : \E n \in 0..Size(c) : Data(m, k) = Part(c, n)
    BY <1>2 DEF Proper, OfParts
  <2>2. PICK n \in 0..Size(c) : Data(m, k) = Part(c, n)
    BY <2>1
  <2>3. Shown(m, k) = IF n >= 7 THEN {ReadPart(c, n)} ELSE {}
    BY <2>2, ShownPart
  <2>4. Shown(a, k) = IF n >= 7 THEN {ReadPart(c, n)} ELSE {}
    BY <2>2, ShownPart
  <2> QED
    BY <2>3, <2>4
<1> QED
  BY <1>1, <1>2

LEMMA ShownFacts ==
  ASSUME NEW m, Proper(m), NEW k \in CredSlots, NEW x \in Shown(m, k)
  PROVE  /\ Shown(m, k) = {x} /\ HasName(Data(m, k)) /\ Data(m, k)[2] = IdLen
         /\ x.type = Data(m, k)[1] /\ x.id = Data(m, k)[3] /\ x.expiration = Data(m, k)[4]
<1>1. Data(m, k) # <<>>
  BY DEF Shown
<1>2. PICK c \in Credential : \E n \in 0..Size(c) : Data(m, k) = Part(c, n)
  BY <1>1 DEF Proper, OfParts
<1>3. PICK n \in 0..Size(c) : Data(m, k) = Part(c, n)
  BY <1>2
<1>4. Shown(m, k) = IF n >= 7 THEN {ReadPart(c, n)} ELSE {}
  BY <1>3, ShownPart
<1>5. n >= 7 /\ x = ReadPart(c, n) /\ Shown(m, k) = {x}
  BY <1>4
<1>6. n \in 7..Size(c) /\ n >= 1 /\ n >= 2 /\ n >= 3 /\ n >= 4
  BY <1>5, CredFacts
<1>7. x.type = c.type /\ x.id = c.id /\ x.expiration = c.expiration
  BY <1>5, <1>6, ReadPartFacts
<1>8. /\ Data(m, k)[1] = c.type /\ Data(m, k)[2] = IdLen /\ Data(m, k)[3] = c.id
      /\ Data(m, k)[4] = c.expiration
  BY <1>3, <1>6, PartFacts
<1>9. HasName(Data(m, k))
  BY <1>1, <1>8, CredFacts DEF HasName
<1> QED
  BY <1>5, <1>7, <1>8, <1>9

LEMMA StoredShown ==
  ASSUME NEW m, Proper(m)
  PROVE  Stored(m) = UNION {Shown(m, k) : k \in CredSlots}
<1>1. ASSUME NEW x \in Stored(m) PROVE \E k \in CredSlots : x \in Shown(m, k)
  <2>1. PICK k \in CredSlots : \E c \in Credential : \E n \in 7..Size(c) :
           Data(m, k) = Part(c, n) /\ x = ReadPart(c, n)
    BY StoredIs
  <2>2. PICK c \in Credential : \E n \in 7..Size(c) : Data(m, k) = Part(c, n) /\ x = ReadPart(c, n)
    BY <2>1
  <2>3. PICK n \in 7..Size(c) : Data(m, k) = Part(c, n) /\ x = ReadPart(c, n)
    BY <2>2
  <2>4. n \in 0..Size(c) /\ n >= 7
    BY <2>3, CredFacts
  <2> QED
    BY <2>3, <2>4, ShownPart
<1>2. ASSUME NEW k \in CredSlots, NEW x \in Shown(m, k) PROVE x \in Stored(m)
  <2>1. Data(m, k) # <<>> /\ x \in ReadRemainderOfCredential(m, Entry(m, k))
    BY DEF Shown
  <2>2. Data(m, k)[2] = IdLen
    BY ShownFacts
  <2>3. Entry(m, k) \in Entries(m)
    BY <2>1, <2>2, SlotFacts
  <2> QED
    BY <2>1, <2>3 DEF Stored
<1> QED
  BY <1>1, <1>2

Others(m, k) == UNION {Shown(m, t) : t \in CredSlots \ {k}}

LEMMA StoredOthers ==
  ASSUME NEW m, Proper(m), NEW k \in CredSlots
  PROVE  Stored(m) = Others(m, k) \cup Shown(m, k)
BY StoredShown DEF Others

LEMMA OthersKept ==
  ASSUME NEW m, Proper(m), NEW a, Proper(a), NEW k \in CredSlots, Kept(m, a, {k})
  PROVE  Others(a, k) = Others(m, k)
<1>1. \A t \in CredSlots \ {k} : Shown(a, t) = Shown(m, t)
  BY ShownSame, IdFacts DEF Kept
<1> QED
  BY <1>1 DEF Others

LEMMA StoredKept ==
  ASSUME NEW m, Proper(m), NEW a, Proper(a), NEW S, Kept(m, a, S), S \cap CredSlots = {}
  PROVE  Stored(a) = Stored(m)
<1>1. \A t \in CredSlots : Shown(a, t) = Shown(m, t)
  <2>1. \A t \in CredSlots : Data(a, t) = Data(m, t)
    BY IdFacts DEF Kept
  <2> QED
    BY <2>1, ShownSame
<1>2. Stored(a) = UNION {Shown(a, k) : k \in CredSlots}
  BY StoredShown
<1>3. Stored(m) = UNION {Shown(m, k) : k \in CredSlots}
  BY StoredShown
<1> QED
  BY <1>1, <1>2, <1>3

LEMMA ShownName ==
  ASSUME NEW m, Proper(m), NEW j \in CredSlots, NEW k \in CredSlots,
         NEW x \in Shown(m, j), NEW y \in Shown(m, k), Name(x) = Name(y)
  PROVE  j = k /\ x = y
<1>1. /\ HasName(Data(m, j)) /\ x.type = Data(m, j)[1] /\ x.id = Data(m, j)[3]
  BY ShownFacts
<1>2. /\ HasName(Data(m, k)) /\ y.type = Data(m, k)[1] /\ y.id = Data(m, k)[3] /\ Shown(m, k) = {y}
  BY ShownFacts
<1>3. x.type = y.type /\ x.id = y.id
  BY DEF Name
<1>4. SameName(Data(m, j), Data(m, k))
  BY <1>1, <1>2, <1>3 DEF SameName
<1>5. j = k
  BY <1>4 DEF Proper, OneNameEach
<1> QED
  BY <1>2, <1>5

LEMMA StoredOneEach ==
  ASSUME NEW m, Proper(m)
  PROVE  Abstract!OneEach(Stored(m))
<1>1. Stored(m) = UNION {Shown(m, k) : k \in CredSlots}
  BY StoredShown
<1>2. \A x, y \in Stored(m) : Name(x) = Name(y) => x = y
  BY <1>1, ShownName
<1> QED
  BY <1>2 DEF Abstract!OneEach

\* What the calls make of the credentials, as the abstract store has it.
SameNames(S, c) == {x \in S : Name(x) = Name(c)}
Stores(S, T, c) ==
  c \in T /\ \E gone \in SUBSET S :
    /\ Abstract!OldestFirst(gone, S) /\ (SameNames(S, c) # {} => gone = {})
    /\ T = (S \ (gone \cup SameNames(S, c))) \cup {c}
EvictsSome(S, T) == \E gone \in SUBSET S : Abstract!OldestFirst(gone, S) /\ T = S \ gone
Loses(S, T) == EvictsSome(S, T) \/ (\E c \in S : T = S \ {c}) \/ T = {}
Lasting(S) == {c \in S : ~Generic(c)}

LEMMA NoneGone ==
  ASSUME NEW S
  PROVE  Abstract!OldestFirst({}, S) /\ EvictsSome(S, S)
<1>1. Abstract!OldestFirst({}, S)
  BY DEF Abstract!OldestFirst
<1>2. S = S \ {} /\ {} \in SUBSET S
  OBVIOUS
<1> QED
  BY <1>1, <1>2 DEF EvictsSome

LEMMA DeleteCalls ==
  ASSUME NEW m, Proper(m), NEW a, Proper(a), NEW k \in CredSlots, Kept(m, a, {k}), Data(a, k) = <<>>
  PROVE  Stored(a) = Stored(m) \/ \E x \in Stored(m) : Stored(a) = Stored(m) \ {x}
<1>1. Stored(m) = Others(m, k) \cup Shown(m, k)
  BY StoredOthers
<1>2. Stored(a) = Others(m, k)
  <2>1. Shown(a, k) = {}
    BY DEF Shown
  <2>2. Stored(a) = Others(a, k) \cup Shown(a, k)
    BY StoredOthers
  <2> QED
    BY <2>1, <2>2, OthersKept
<1>3. CASE Shown(m, k) = {}
  BY <1>1, <1>2, <1>3
<1>4. CASE Shown(m, k) # {}
  <2>1. PICK x : x \in Shown(m, k)
    BY <1>4
  <2>2. Shown(m, k) = {x}
    BY <2>1, ShownFacts
  <2>3. x \notin Others(m, k)
    <3>1. \A t \in CredSlots : x \in Shown(m, t) => t = k
      BY <2>1, ShownName
    <3> QED
      BY <3>1 DEF Others
  <2> QED
    BY <1>1, <1>2, <2>2, <2>3
<1> QED
  BY <1>3, <1>4

LEMMA EvictCalls ==
  ASSUME NEW m, Proper(m), NEW a, Proper(a), Evicted(m, a)
  PROVE  \E gone \in SUBSET Stored(m) : Abstract!OldestFirst(gone, Stored(m)) /\ Stored(a) = Stored(m) \ gone
<1> DEFINE S == Stored(m)
           T == Stored(a)
           gone == S \ T
<1>1. S = UNION {Shown(m, k) : k \in CredSlots}
  BY StoredShown
<1>2. T = UNION {Shown(a, k) : k \in CredSlots}
  BY StoredShown
<1>3. ASSUME NEW k \in CredSlots
      PROVE  Shown(a, k) = Shown(m, k) \/ (Shown(a, k) = {} /\ Oldest(Data(m, k), a))
  <2>1. CASE Data(a, k) = Data(m, k)
    BY <2>1, ShownSame
  <2>2. CASE Data(a, k) # Data(m, k)
    <3>1. Data(a, k) = <<>> /\ Oldest(Data(m, k), a)
      BY <2>2, IdFacts DEF Evicted
    <3> QED
      BY <3>1 DEF Shown
  <2> QED
    BY <2>1, <2>2
<1> HIDE DEF S, T
<1>4. T \subseteq S
  BY <1>1, <1>2, <1>3
<1>5. ASSUME NEW x \in gone
      PROVE  Generic(x) /\ \A y \in S \ gone : Generic(y) => Expiry(x) <= Expiry(y)
  <2>1. PICK k \in CredSlots : x \in Shown(m, k)
    BY <1>1
  <2>2. Oldest(Data(m, k), a)
    BY <1>2, <1>3, <2>1
  <2>3. x.type = Data(m, k)[1] /\ x.expiration = Data(m, k)[4]
    BY <2>1, ShownFacts
  <2>4. ASSUME NEW y \in S \ gone, Generic(y) PROVE Expiry(x) <= Expiry(y)
    <3>1. PICK t \in CredSlots : y \in Shown(a, t)
      BY <1>2, <2>4
    <3>2. /\ HasName(Data(a, t)) /\ Data(a, t)[2] = IdLen
          /\ y.type = Data(a, t)[1] /\ y.expiration = Data(a, t)[4]
      BY <3>1, ShownFacts
    <3>3. Evictable(Data(a, t))
      BY <2>4, <3>2 DEF Evictable, Generic, HasName
    <3> QED
      BY <2>2, <2>3, <3>2, <3>3 DEF Oldest, Expiry
  <2> QED
    BY <2>2, <2>3, <2>4 DEF Oldest, Generic
<1>6. Abstract!OldestFirst(gone, S)
  BY <1>5 DEF Abstract!OldestFirst
<1>7. gone \in SUBSET S /\ T = S \ gone
  BY <1>4
<1> QED
  BY <1>6, <1>7 DEF S, T

LEMMA ShownFull ==
  ASSUME NEW m, Proper(m), NEW k \in CredSlots, NEW c \in Credential, Data(m, k) = Part(c, Size(c))
  PROVE  Shown(m, k) = {c}
<1> DEFINE n == Size(c)
<1>1. n \in 0..Size(c) /\ n \in 7..Size(c) /\ n >= 7
  BY CredFacts
<1>2. ReadPart(c, n) = c
  BY <1>1, ReadPartFacts
<1> HIDE DEF n
<1>3. Shown(m, k) = IF n >= 7 THEN {ReadPart(c, n)} ELSE {}
  BY <1>1, ShownPart DEF n
<1> QED
  BY <1>1, <1>2, <1>3

LEMMA OthersNames ==
  ASSUME NEW m, Proper(m), NEW k \in CredSlots, NEW c, NoOther(m, k, c), NEW x \in Others(m, k)
  PROVE  Name(x) # Name(c)
<1>1. PICK t \in CredSlots \ {k} : x \in Shown(m, t)
  BY DEF Others
<1>2. HasName(Data(m, t)) /\ x.type = Data(m, t)[1] /\ x.id = Data(m, t)[3]
  BY <1>1, ShownFacts
<1> QED
  BY <1>2 DEF NoOther, Name, HasName

LEMMA ReplaceCalls ==
  ASSUME NEW m, Proper(m), NEW a, Proper(a), NEW c \in Credential, Replaced(m, a, c)
  PROVE  Stores(Stored(m), Stored(a), c)
<1>1. PICK k \in CredSlots : Has(Data(m, k), c.type, c.id) /\ Partly(m, a, k, c, Size(c))
  BY DEF Replaced
<1>2. Kept(m, a, {k}) /\ Data(a, k) = Part(c, Size(c))
  BY <1>1 DEF Partly
<1>3. NoOther(m, k, c)
  BY <1>1, NameIsFree
<1>4. Stored(m) = Others(m, k) \cup Shown(m, k)
  BY StoredOthers
<1>5. Stored(a) = Others(m, k) \cup {c}
  <2>1. Shown(a, k) = {c}
    BY <1>2, ShownFull
  <2>2. Stored(a) = Others(a, k) \cup Shown(a, k)
    BY StoredOthers
  <2> QED
    BY <1>2, <2>1, <2>2, OthersKept
<1>6. \A x \in Others(m, k) : Name(x) # Name(c)
  BY <1>3, OthersNames
<1>7. \A x \in Shown(m, k) : Name(x) = Name(c)
  BY <1>1, ShownFacts DEF Name, Has
<1> DEFINE S == Stored(m)
           T == Stored(a)
<1>8. T = (S \ ({} \cup SameNames(S, c))) \cup {c}
  BY <1>4, <1>5, <1>6, <1>7 DEF SameNames
<1>9. {} \in SUBSET S /\ Abstract!OldestFirst({}, S) /\ c \in T
  BY <1>5, NoneGone
<1> HIDE DEF S, T
<1>10. Stores(S, T, c)
  BY <1>8, <1>9 DEF Stores
<1> QED
  BY <1>10 DEF S, T

LEMMA AddCalls ==
  ASSUME NEW m, Proper(m), NEW a, Proper(a), NEW c \in Credential,
         \A t \in CredSlots : ~Has(Data(m, t), c.type, c.id),
         NEW b, Proper(b), NEW k \in CredSlots, AddedAt(m, b, a, k, c)
  PROVE  Stores(Stored(m), Stored(a), c)
<1> DEFINE S == Stored(m)
           T == Stored(a)
<1>1. Evicted(m, b) /\ Data(b, k) = <<>> /\ Kept(b, a, {k}) /\ Data(a, k) = Part(c, Size(c))
  BY DEF AddedAt, Partly
<1>2. T = Stored(b) \cup {c}
  <2>1. Shown(a, k) = {c} /\ Shown(b, k) = {}
    BY <1>1, ShownFull DEF Shown
  <2>2. Stored(a) = Others(a, k) \cup Shown(a, k)
    BY StoredOthers
  <2>3. Stored(b) = Others(b, k) \cup Shown(b, k)
    BY StoredOthers
  <2> QED
    BY <1>1, <2>1, <2>2, <2>3, OthersKept
<1>3. PICK gone \in SUBSET S : Abstract!OldestFirst(gone, S) /\ Stored(b) = S \ gone
  BY <1>1, EvictCalls
<1>4. SameNames(S, c) = {}
  <2>1. SUFFICES ASSUME NEW x \in S, Name(x) = Name(c) PROVE FALSE
    BY DEF SameNames
  <2>2. PICK t \in CredSlots : x \in Shown(m, t)
    BY StoredShown
  <2>3. Has(Data(m, t), c.type, c.id)
    BY <2>1, <2>2, ShownFacts DEF Has, Name, HasName
  <2> QED
    BY <2>3
<1> HIDE DEF S, T
<1>5. T = (S \ (gone \cup SameNames(S, c))) \cup {c} /\ c \in T
  BY <1>2, <1>3, <1>4
<1>6. Stores(S, T, c)
  BY <1>3, <1>4, <1>5 DEF Stores
<1> QED
  BY <1>6 DEF S, T

\* Where no entry is GENERIC no credential is.
LEMMA NoneGeneric ==
  ASSUME NEW m, Proper(m), Generics(m) = {}, NEW x \in Stored(m)
  PROVE  ~Generic(x)
<1>1. PICK k \in CredSlots : x \in Shown(m, k)
  BY StoredShown
<1>2. HasName(Data(m, k)) /\ Data(m, k)[2] = IdLen /\ x.type = Data(m, k)[1]
  BY <1>1, ShownFacts
<1>3. Entry(m, k) \in Entries(m) /\ TypeOf(m, Entry(m, k)) = x.type
  BY <1>2, SlotFacts DEF HasName
<1> QED
  BY <1>3 DEF Generics, Generic

LEMMA OutcomeCalls ==
  ASSUME NEW m, Proper(m), NEW c \in Credential, NEW r, Outcome(m, r, c), Proper(r.s.mem)
  PROVE  /\ r.status = "OK" => Stores(Stored(m), Stored(r.s.mem), c)
         /\ r.status # "OK" => Loses(Stored(m), Stored(r.s.mem))
         /\ r.status = "LOOP" => Stored(r.s.mem) = Lasting(Stored(m))
<1> DEFINE a == r.s.mem
<1>1. ASSUME Replaced(m, a, c) PROVE Stores(Stored(m), Stored(a), c)
  BY <1>1, ReplaceCalls
<1>2. ASSUME Added(m, a, c) PROVE Stores(Stored(m), Stored(a), c)
  <2>1. PICK b : \E k \in CredSlots : AddedAt(m, b, a, k, c)
    BY <1>2 DEF Added
  <2>2. PICK k \in CredSlots : AddedAt(m, b, a, k, c)
    BY <2>1
  <2>3. Proper(b) /\ \A t \in CredSlots : ~Has(Data(m, t), c.type, c.id)
    BY <1>2, <2>2 DEF Added, AddedAt
  <2> QED
    BY <2>2, <2>3, AddCalls
<1>3. ASSUME Lost(m, a, c) PROVE Loses(Stored(m), Stored(a))
  <2>1. PICK k \in CredSlots : Kept(m, a, {k}) /\ Data(a, k) = <<>>
    BY <1>3 DEF Lost
  <2>2. Stored(a) = Stored(m) \/ \E x \in Stored(m) : Stored(a) = Stored(m) \ {x}
    BY <2>1, DeleteCalls
  <2> QED
    BY <2>2, NoneGone DEF Loses
<1>4. ASSUME Evicted(m, a) PROVE Loses(Stored(m), Stored(a))
  <2>1. EvictsSome(Stored(m), Stored(a))
    BY <1>4, EvictCalls DEF EvictsSome
  <2> QED
    BY <2>1 DEF Loses
<1>5. ASSUME Evicted(m, a), Generics(a) = {} PROVE Stored(a) = Lasting(Stored(m))
  <2>1. PICK gone \in SUBSET Stored(m) : Abstract!OldestFirst(gone, Stored(m)) /\ Stored(a) = Stored(m) \ gone
    BY <1>5, EvictCalls
  <2>2. \A x \in gone : Generic(x)
    BY <2>1 DEF Abstract!OldestFirst
  <2>3. \A x \in Stored(a) : ~Generic(x)
    BY <1>5, NoneGeneric
  <2> QED
    BY <2>1, <2>2, <2>3 DEF Lasting
<1> HIDE DEF a
<1>6. /\ r.status = "OK" => Replaced(m, a, c) \/ Added(m, a, c)
      /\ r.status # "OK" => Lost(m, a, c) \/ Evicted(m, a)
      /\ r.status = "LOOP" => Evicted(m, a) /\ Generics(a) = {}
  BY DEF Outcome, a
<1>7. /\ r.status = "OK" => Stores(Stored(m), Stored(a), c)
      /\ r.status # "OK" => Loses(Stored(m), Stored(a))
      /\ r.status = "LOOP" => Stored(a) = Lasting(Stored(m))
  BY <1>1, <1>2, <1>3, <1>4, <1>5, <1>6
<1> QED
  BY <1>7 DEF a

\* What is kept in the file.
TheKept == IF Readable THEN Stored(file) ELSE {}
TheKeptGuid == IF Readable THEN GuidIn(file) ELSE {}
Names(X) == {Name(c) : c \in X}

LEMMA NextProper ==
  ASSUME IInv', PowerOn'
  PROVE  Proper(mem') /\ mem'[3] = AJ_LOCAL_GUID_NV_ID
<1> DEFINE s == [mem |-> mem', log |-> todo']
<1>1. s \in Going(Loaded', storing', Guid(mem')) /\ s.mem = mem'
  BY DEF IInv, WritesLead
<1> HIDE DEF s
<1> QED
  BY <1>1 DEF Going

\* The GUID of a memory that has one.
LEMMA GuidOf ==
  ASSUME NEW m, Proper(m), m[3] = AJ_LOCAL_GUID_NV_ID
  PROVE  GuidIn(m) = {Guid(m)}
<1>1. Good(m)
  BY DEF Proper
<1> QED
  BY <1>1, GuidFacts, GuidInIs DEF Guid

LEMMA GuidThere ==
  ASSUME IInv, PowerOn
  PROVE  GuidIn(mem) = {Guid(mem)} /\ TheGuid = Guid(mem)
<1>1. GuidIn(mem) = {Guid(mem)}
  BY MemProper, GuidOf
<1>2. pc \notin {"off", "broken"}
  BY DEF PowerOn
<1> QED
  BY <1>1, <1>2 DEF TheGuid

LEMMA GuidThereNext ==
  ASSUME IInv', PowerOn'
  PROVE  GuidIn(mem') = {Guid(mem')} /\ TheGuid' = Guid(mem')
<1>1. GuidIn(mem') = {Guid(mem')}
  BY NextProper, GuidOf
<1>2. pc' \notin {"off", "broken"}
  BY DEF PowerOn
<1> QED
  BY <1>1, <1>2 DEF TheGuid

\* Once there is nothing left to write, what is kept is what is in the memory.
LEMMA SettledNext ==
  ASSUME IInv', PowerOn'
  PROVE  todo' # <<>> \/ (TheKept' = Stored(mem') /\ TheKeptGuid' = {TheGuid'})
<1> SUFFICES ASSUME todo' = <<>> PROVE TheKept' = Stored(mem') /\ TheKeptGuid' = {TheGuid'}
  OBVIOUS
<1>1. [mem |-> mem', log |-> <<>>] \in Going(Loaded', storing', Guid(mem'))
  BY DEF IInv, WritesLead
<1>2. Loaded' = mem' /\ mem' \in Memory /\ mem'[3] = AJ_LOCAL_GUID_NV_ID
  BY <1>1, RestIs
<1>3. file' = mem'
  BY <1>2, NotErased DEF Loaded
<1>4. file' # <<>> /\ pc' # "broken"
  BY <1>2, <1>3, MemoryNotEmpty DEF PowerOn
<1>5. TheKept' = Stored(mem') /\ TheKeptGuid' = GuidIn(mem')
  BY <1>3, <1>4 DEF TheKept, TheKeptGuid, Readable
<1> QED
  BY <1>5, GuidThereNext

\* A call in a memory that stays proper is one of the abstract store.
LEMMA CallIs ==
  ASSUME IInv, IInv', Idle, pc' \in {"on", "stuck"}, file' = file, Kept(mem, mem', CredSlots),
         \/ pc' = pc /\ \E c : storing' = {c} /\ Stores(Stored(mem), Stored(mem'), c)
         \/ pc' = pc /\ storing' = {} /\ Loses(Stored(mem), Stored(mem'))
         \/ pc' = "stuck" /\ storing' = {} /\ Stored(mem') = Lasting(Stored(mem))
  PROVE  Abstract!Call
<1>1. PowerOn /\ PowerOn' /\ pc = "on" /\ todo = <<>>
  BY DEF PowerOn, Idle
<1>2. TheGuid' = TheGuid
  BY <1>1, GuidThere, GuidThereNext, GuidKept
<1>3. Abstract!OneEach(Stored(mem'))
  BY <1>1, NextProper, StoredOneEach
<1>4. TheKept' = TheKept /\ TheKeptGuid' = TheKeptGuid
  BY <1>1 DEF TheKept, TheKeptGuid, Readable
<1>5. Abstract!Store \/ Abstract!Lose \/ Abstract!Hang
  <2>1. ASSUME NEW c, pc' = pc, storing' = {c}, Stores(Stored(mem), Stored(mem'), c) PROVE Abstract!Store
    <3>1. Names(storing') = {Name(c)} /\ c \in Stored(mem')
      BY <2>1 DEF Names, Stores
    <3>2. PICK gone \in SUBSET Stored(mem) :
            /\ Abstract!OldestFirst(gone, Stored(mem)) /\ (SameNames(Stored(mem), c) # {} => gone = {})
            /\ Stored(mem') = (Stored(mem) \ (gone \cup SameNames(Stored(mem), c))) \cup {c}
      BY <2>1 DEF Stores
    <3> QED
      BY <2>1, <3>1, <3>2 DEF Names, SameNames, Abstract!Store, Abstract!Sames
  <2>2. CASE pc' = pc /\ storing' = {} /\ Loses(Stored(mem), Stored(mem'))
    BY <2>2 DEF Loses, EvictsSome, Abstract!Lose, Abstract!Evict, Abstract!Delete, Abstract!Clear
  <2>3. CASE pc' = "stuck" /\ storing' = {} /\ Stored(mem') = Lasting(Stored(mem))
    BY <2>3 DEF Lasting, Abstract!Hang
  <2> QED
    BY <2>1, <2>2, <2>3
<1>6. Abstract!Settled'
  BY <1>1, SettledNext DEF Abstract!Settled, TheKept, TheKeptGuid
<1> QED
  BY <1>1, <1>2, <1>3, <1>4, <1>5, <1>6 DEF Abstract!Call, TheKept, TheKeptGuid

LEMMA StoreIsCall ==
  ASSUME IInv, IInv', NEW c \in Credential, AJ_StoreCredential(c)
  PROVE  Abstract!Call
<1> DEFINE r == StoreCredential(Store0, c)
<1>1. Idle /\ Does(r.s, Kernel(r, c)) /\ pc' = IF r.status = "LOOP" THEN "stuck" ELSE pc
  BY DEF AJ_StoreCredential, Kernel
<1>2. PowerOn /\ PowerOn' /\ pc' \in {"on", "stuck"} /\ mem' = r.s.mem /\ file' = file /\ storing' = Kernel(r, c)
  BY <1>1 DEF Idle, Does, PowerOn
<1>3. Outcome(mem, r, c)
  BY <1>1, StoreCalled
<1> HIDE DEF r
<1>4. Proper(mem) /\ Proper(mem') /\ Proper(r.s.mem)
  BY <1>2, MemProper, NextProper
<1>5. /\ r.status = "OK" => Stores(Stored(mem), Stored(mem'), c)
      /\ r.status # "OK" => Loses(Stored(mem), Stored(mem'))
      /\ r.status = "LOOP" => Stored(mem') = Lasting(Stored(mem))
  BY <1>2, <1>3, <1>4, OutcomeCalls
<1>6. Kept(mem, mem', CredSlots)
  BY <1>2, <1>3, OutcomeKept
<1>7. CASE r.status = "OK"
  BY <1>1, <1>2, <1>5, <1>6, <1>7, CallIs DEF Kernel
<1>8. CASE r.status = "LOOP"
  BY <1>1, <1>2, <1>5, <1>6, <1>8, CallIs DEF Kernel
<1>9. CASE r.status # "OK" /\ r.status # "LOOP"
  BY <1>1, <1>2, <1>5, <1>6, <1>9, CallIs DEF Kernel
<1> QED
  BY <1>7, <1>8, <1>9

LEMMA DeleteIsCall ==
  ASSUME IInv, IInv', NEW type, NEW id, AJ_DeleteCredential(type, id)
  PROVE  Abstract!Call
<1> DEFINE k == FindCredential(mem, type, id)
           t == AJ_NVRAM_Delete(Store0, k)
<1>1. Idle /\ k # 0 /\ Does(t, {}) /\ pc' = pc
  BY DEF AJ_DeleteCredential
<1>2. k \in CredSlots /\ Kept(mem, t.mem, {k}) /\ Data(t.mem, k) = <<>>
  BY <1>1, DeleteCalled
<1> HIDE DEF k, t
<1>3. PowerOn /\ PowerOn' /\ pc' \in {"on", "stuck"} /\ mem' = t.mem /\ file' = file /\ storing' = {}
  BY <1>1 DEF Idle, Does, PowerOn
<1>4. Proper(mem) /\ Proper(mem')
  BY <1>3, MemProper, NextProper
<1>5. Kept(mem, mem', {k}) /\ Data(mem', k) = <<>>
  BY <1>2, <1>3
<1>6. Stored(mem') = Stored(mem) \/ \E x \in Stored(mem) : Stored(mem') = Stored(mem) \ {x}
  BY <1>2, <1>4, <1>5, DeleteCalls
<1>7. Loses(Stored(mem), Stored(mem'))
  BY <1>6, NoneGone DEF Loses
<1>8. Kept(mem, mem', CredSlots)
  BY <1>2, <1>5 DEF Kept
<1> QED
  BY <1>1, <1>3, <1>7, <1>8, CallIs

LEMMA ClearIsCall ==
  ASSUME IInv, IInv', AJ_ClearCredentials
  PROVE  Abstract!Call
<1> DEFINE t == Cleared(Store0, NumCreds)
<1>1. Idle /\ Does(t, {}) /\ pc' = pc
  BY DEF AJ_ClearCredentials
<1>2. Store0.mem = mem /\ \A X, g : Store0 \in Going(mem, X, g)
  BY <1>1, AtRest DEF Idle, Store0, PowerOn
<1>3. Kept(mem, t.mem, CredSlots) /\ \A k \in CredSlots : Data(t.mem, k) = <<>>
  BY <1>2, ClearGoes
<1> HIDE DEF t
<1>4. PowerOn' /\ pc' \in {"on", "stuck"} /\ mem' = t.mem /\ file' = file /\ storing' = {}
  BY <1>1 DEF Idle, Does, PowerOn
<1>5. Proper(mem')
  BY <1>4, NextProper
<1>6. Stored(mem') = {}
  <2>1. \A k \in CredSlots : Shown(mem', k) = {}
    BY <1>3, <1>4 DEF Shown
  <2> QED
    BY <1>5, <2>1, StoredShown
<1>7. Loses(Stored(mem), Stored(mem')) /\ Kept(mem, mem', CredSlots)
  BY <1>3, <1>4, <1>6 DEF Loses
<1> QED
  BY <1>1, <1>4, <1>7, CallIs

\* An erased memory holds nothing, as a file that is not there.
LEMMA ErasedHolds == Stored(Erased) = {} /\ GuidIn(Erased) = {}
<1>1. Proper(Erased) /\ Good(Erased) /\ \A k \in Ids : Data(Erased, k) = <<>>
  BY ErasedProper, NoGuidFacts DEF Proper
<1>2. \A k \in CredSlots : Shown(Erased, k) = {}
  BY <1>1, IdFacts DEF Shown
<1>3. Stored(Erased) = {}
  BY <1>1, <1>2, StoredShown
<1>4. GuidIn(Erased) = {}
  BY <1>1, IdFacts, GuidInIs
<1> QED
  BY <1>3, <1>4

LEMMA KeptIsLoaded ==
  ASSUME pc # "broken"
  PROVE  TheKept = Stored(Loaded) /\ TheKeptGuid = GuidIn(Loaded)
BY ErasedHolds DEF TheKept, TheKeptGuid, Readable, Loaded

\* A write of the file is one of the abstract store, or changes nothing that can be read.
Writes(K, H, G, L, C, g) ==   \* from K with the GUID G to H with the GUID L, of the credentials C and the GUID g
  \/ /\ L = G
     /\ \/ H = K
        \/ \E x \in K : H = K \ {x}
        \/ \E c \in C : \E d \in {c} \cup Torn(c) : H = {x \in K : Name(x) # Name(c)} \cup {d}
  \/ H = K /\ G = {} /\ L = {INVALID_DATA}
  \/ H = K /\ G \subseteq {INVALID_DATA} /\ L = {g}

LEMMA ReadPartTorn ==
  ASSUME NEW c \in Credential, NEW n \in 7..Size(c)
  PROVE  ReadPart(c, n) \in {c} \cup Torn(c) /\ Name(ReadPart(c, n)) = Name(c)
<1> DEFINE l == Len(c.data)
<1>1. l \in Nat /\ Size(c) = 7 + l
  BY CredFacts DEF Size
<1>2. Name(ReadPart(c, n)) = Name(c)
  BY ReadPartFacts DEF Name
<1>3. CASE n = Size(c)
  BY <1>2, <1>3, ReadPartFacts
<1>4. CASE n # Size(c)
  <2>1. n - 7 \in 0..(l - 1)
    BY <1>1, <1>4
  <2>2. ReadPart(c, n) \in Torn(c)
    BY <2>1 DEF ReadPart, Torn
  <2> QED
    BY <1>2, <2>2
<1> QED
  BY <1>3, <1>4

LEMMA TornName ==
  ASSUME NEW c \in Credential, NEW d \in {c} \cup Torn(c)
  PROVE  Name(d) = Name(c)
BY CredsAssumption DEF Torn, Name

LEMMA CredStepWrites ==
  ASSUME NEW a, Proper(a), NEW b, Proper(b), NEW X \in SUBSET Credential, CredStep(a, b, X)
  PROVE  \/ Stored(b) = Stored(a)
         \/ \E c \in X : \E d \in {c} \cup Torn(c) : Stored(b) = {x \in Stored(a) : Name(x) # Name(c)} \cup {d}
<1>1. PICK k \in CredSlots : \E c \in X : \E n \in 0..Size(c) :
         Kept(a, b, {k}) /\ NoOther(a, k, c) /\ Further(Data(a, k), c, n) /\ Data(b, k) = Part(c, n)
  BY DEF CredStep
<1>2. PICK c \in X : \E n \in 0..Size(c) :
         Kept(a, b, {k}) /\ NoOther(a, k, c) /\ Further(Data(a, k), c, n) /\ Data(b, k) = Part(c, n)
  BY <1>1
<1>3. PICK n \in 0..Size(c) :
         Kept(a, b, {k}) /\ NoOther(a, k, c) /\ Further(Data(a, k), c, n) /\ Data(b, k) = Part(c, n)
  BY <1>2
<1>4. Stored(a) = Others(a, k) \cup Shown(a, k)
  BY StoredOthers
<1>5. Stored(b) = Others(a, k) \cup Shown(b, k)
  BY <1>3, StoredOthers, OthersKept
<1>6. Shown(b, k) = IF n >= 7 THEN {ReadPart(c, n)} ELSE {}
  BY <1>3, ShownPart
<1>7. Size(c) \in Nat /\ n \in Nat
  BY CredFacts
<1>8. Shown(a, k) = {} \/ \E l \in 7..(n - 1) : Shown(a, k) = {ReadPart(c, l)} /\ l \in 7..Size(c)
  <2>1. CASE Data(a, k) = <<>>
    BY <2>1 DEF Shown
  <2>2. CASE \E l \in 0..(n - 1) : Data(a, k) = Part(c, l)
    <3>1. PICK l \in 0..(n - 1) : Data(a, k) = Part(c, l)
      BY <2>2
    <3>2. l \in 0..Size(c)
      BY <1>7
    <3>3. Shown(a, k) = IF l >= 7 THEN {ReadPart(c, l)} ELSE {}
      BY <3>1, <3>2, ShownPart
    <3>4. l >= 7 => l \in 7..(n - 1) /\ l \in 7..Size(c)
      BY <1>7, <3>2
    <3> QED
      BY <3>3, <3>4
  <2> QED
    BY <1>3, <2>1, <2>2 DEF Further
<1>9. CASE n < 7
  <2>1. Shown(b, k) = {} /\ 7..(n - 1) = {}
    BY <1>6, <1>7, <1>9
  <2> QED
    BY <1>4, <1>5, <1>8, <2>1
<1>10. CASE n >= 7
  <2>1. n \in 7..Size(c) /\ Shown(b, k) = {ReadPart(c, n)}
    BY <1>6, <1>7, <1>10
  <2>2. ReadPart(c, n) \in {c} \cup Torn(c)
    BY <2>1, ReadPartTorn
  <2>3. \A x \in Shown(a, k) : Name(x) = Name(c)
    BY <1>8, ReadPartTorn
  <2>4. \A x \in Others(a, k) : Name(x) # Name(c)
    BY <1>3, OthersNames
  <2>5. Stored(b) = {x \in Stored(a) : Name(x) # Name(c)} \cup {ReadPart(c, n)}
    BY <1>4, <1>5, <2>1, <2>3, <2>4
  <2> QED
    BY <2>2, <2>5
<1> QED
  BY <1>7, <1>9, <1>10

LEMMA SameGuid ==
  ASSUME NEW a, Proper(a), NEW b, Proper(b), NEW S \in SUBSET CredSlots, Kept(a, b, S)
  PROVE  GuidIn(b) = GuidIn(a)
<1>1. Data(b, AJ_LOCAL_GUID_NV_ID) = Data(a, AJ_LOCAL_GUID_NV_ID)
  BY IdFacts DEF Kept
<1>2. GuidIn(a) = IF Data(a, AJ_LOCAL_GUID_NV_ID) = <<>> THEN {} ELSE {Data(a, AJ_LOCAL_GUID_NV_ID)[1]}
  BY GuidInIs DEF Proper
<1>3. GuidIn(b) = IF Data(b, AJ_LOCAL_GUID_NV_ID) = <<>> THEN {} ELSE {Data(b, AJ_LOCAL_GUID_NV_ID)[1]}
  BY GuidInIs DEF Proper
<1> QED
  BY <1>1, <1>2, <1>3

LEMMA GuidBlankIs == GuidBlank # <<>> /\ GuidBlank[1] = INVALID_DATA
<1>1. GuidBlank = [x \in 1..2 |-> INVALID_DATA]
  BY DEF GuidBlank, Blank
<1> HIDE DEF INVALID_DATA
<1>2. Len(GuidBlank) = 2 /\ GuidBlank[1] = INVALID_DATA
  BY <1>1
<1> QED
  BY <1>2, EmptySeq

LEMMA GuidStepWrites ==
  ASSUME NEW a, Proper(a), NEW b, Proper(b), NEW g, GuidStep(a, b, g)
  PROVE  /\ Stored(b) = Stored(a)
         /\ \/ GuidIn(a) = {} /\ GuidIn(b) = {INVALID_DATA}
            \/ GuidIn(a) = {INVALID_DATA} /\ GuidIn(b) = {g}
<1> DEFINE k == AJ_LOCAL_GUID_NV_ID
<1>1. Kept(a, b, {k})
  BY DEF GuidStep
<1>2. {k} \cap CredSlots = {}
  BY IdFacts
<1>3. Stored(b) = Stored(a)
  BY <1>1, <1>2, StoredKept
<1>4. GuidIn(a) = IF Data(a, k) = <<>> THEN {} ELSE {Data(a, k)[1]}
  BY GuidInIs DEF Proper
<1>5. GuidIn(b) = IF Data(b, k) = <<>> THEN {} ELSE {Data(b, k)[1]}
  BY GuidInIs DEF Proper
<1> HIDE DEF INVALID_DATA
<1> QED
  BY <1>3, <1>4, <1>5, GuidBlankIs DEF GuidStep

LEMMA DataStepWrites ==
  ASSUME NEW a, Proper(a), NEW b, Proper(b), NEW X \in SUBSET Credential, NEW g, DataStep(a, b, X, g)
  PROVE  Writes(Stored(a), Stored(b), GuidIn(a), GuidIn(b), X, g)
<1>1. CASE Kept(a, b, {})
  <2>1. Stored(b) = Stored(a)
    BY <1>1, StoredKept
  <2>2. GuidIn(b) = GuidIn(a)
    BY <1>1, SameGuid
  <2> QED
    BY <2>1, <2>2 DEF Writes
<1>2. CASE DeleteStep(a, b)
  <2>1. PICK k \in CredSlots : Kept(a, b, {k}) /\ Data(b, k) = <<>>
    BY <1>2 DEF DeleteStep
  <2>2. Stored(b) = Stored(a) \/ \E x \in Stored(a) : Stored(b) = Stored(a) \ {x}
    BY <2>1, DeleteCalls
  <2>3. GuidIn(b) = GuidIn(a)
    BY <2>1, SameGuid
  <2> QED
    BY <2>2, <2>3 DEF Writes
<1>3. CASE CredStep(a, b, X)
  <2>1. PICK k \in CredSlots : Kept(a, b, {k})
    BY <1>3 DEF CredStep
  <2>2. GuidIn(b) = GuidIn(a)
    BY <2>1, SameGuid
  <2>3. \/ Stored(b) = Stored(a)
        \/ \E c \in X : \E d \in {c} \cup Torn(c) : Stored(b) = {x \in Stored(a) : Name(x) # Name(c)} \cup {d}
    BY <1>3, CredStepWrites
  <2> QED
    BY <2>2, <2>3 DEF Writes
<1>4. CASE GuidStep(a, b, g)
  BY <1>4, GuidStepWrites DEF Writes
<1> QED
  BY <1>1, <1>2, <1>3, <1>4 DEF DataStep

\* On the way of the file to the memory nothing appears but the credential that is stored.
LEMMA NothingAppears ==
  ASSUME NEW X \in SUBSET Credential, NEW K, NEW H, NEW G, NEW L, NEW g, Writes(K, H, G, L, X, g),
         NEW x \in H, Name(x) \notin Names(X)
  PROVE  x \in K
<1>1. \A c \in X : \A d \in {c} \cup Torn(c) : Name(d) \in Names(X)
  BY TornName DEF Names
<1>2. CASE H = K \/ \E y \in K : H = K \ {y}
  BY <1>2
<1>3. CASE \E c \in X : \E d \in {c} \cup Torn(c) : H = {y \in K : Name(y) # Name(c)} \cup {d}
  BY <1>1, <1>3
<1> QED
  BY <1>2, <1>3 DEF Writes

LEMMA ThereAllAlong ==
  ASSUME NEW m0, NEW s, NEW X \in SUBSET Credential, NEW g, Steps(m0, s, FileSteps(X, g)),
         NEW x \in Stored(s.mem), Name(x) \notin Names(X)
  PROVE  x \in Stored(m0)
<1> DEFINE n == Len(s.log)
<1>1. PICK st : Files(m0, s, FileSteps(X, g), st)
  BY DEF Steps
<1>2. n \in Nat
  BY DEF Steps
<1>3. st[0] = m0 /\ st[n] = s.mem /\ \A i \in 1..n : <<st[i - 1], st[i]>> \in FileSteps(X, g)
  BY <1>1 DEF Files
<1> HIDE DEF n
<1> DEFINE S == {i \in 0..n : x \notin Stored(st[i])}
<1> SUFFICES ASSUME 0 \in S PROVE FALSE
  BY <1>2, <1>3
<1>4. ASSUME NEW i \in 1..n, i - 1 \in S PROVE i \in S
  <2> DEFINE a == st[i - 1]
             b == st[i]
  <2>1. Proper(a) /\ Proper(b) /\ DataStep(a, b, X, g)
    BY <1>3 DEF FileSteps
  <2>2. x \notin Stored(a) /\ i \in 0..n
    BY <1>2, <1>4
  <2> HIDE DEF a, b
  <2>3. Writes(Stored(a), Stored(b), GuidIn(a), GuidIn(b), X, g)
    BY <2>1, DataStepWrites
  <2>4. x \notin Stored(b)
    BY <2>2, <2>3, NothingAppears
  <2> QED
    BY <2>2, <2>4 DEF b
<1> HIDE DEF S
<1>5. n \in S
  BY <1>2, <1>4, UpTo
<1> QED
  BY <1>3, <1>5 DEF S

LEMMA FileWriteIs ==
  ASSUME IInv, IInv', StoreNVToFile
  PROVE  Abstract!Write
<1> DEFINE N == Names(storing)
<1>1. mem' = mem /\ pc' = pc /\ todo # <<>> /\ storing' = IF todo' = <<>> THEN {} ELSE storing
  BY DEF StoreNVToFile
<1>2. /\ PowerOn /\ PowerOn' /\ pc # "broken" /\ <<Loaded, file'>> \in FileSteps(storing, Guid(mem))
      /\ file' # <<>> /\ [mem |-> mem', log |-> todo'] \in Going(file', storing, Guid(mem))
  BY <1>1, FileStep DEF PowerOn
<1>3. Proper(Loaded) /\ Proper(file') /\ DataStep(Loaded, file', storing, Guid(mem))
  BY <1>2 DEF FileSteps
<1>4. storing \in SUBSET Credential /\ storing \subseteq Stored(mem)
  BY DEF IInv, StoringIs
<1>5. Writes(Stored(Loaded), Stored(file'), GuidIn(Loaded), GuidIn(file'), storing, Guid(mem))
  BY <1>3, <1>4, DataStepWrites
<1>6. TheKept' = Stored(file') /\ TheKeptGuid' = GuidIn(file')
  BY <1>1, <1>2 DEF TheKept, TheKeptGuid, Readable
<1>7. TheKept = Stored(Loaded) /\ TheKeptGuid = GuidIn(Loaded)
  BY <1>2, KeptIsLoaded
<1>8. TheGuid = Guid(mem) /\ TheGuid' = TheGuid
  BY <1>1, <1>2, GuidThere DEF TheGuid
<1>9. ASSUME NEW x \in Stored(mem), Name(x) \notin N PROVE x \in TheKept'
  <2> DEFINE s == [mem |-> mem', log |-> todo']
  <2>1. Steps(file', s, FileSteps(storing, Guid(mem))) /\ s.mem = mem
    BY <1>1, <1>2 DEF Going
  <2> HIDE DEF s
  <2>2. x \in Stored(file')
    BY <1>4, <1>9, <2>1, ThereAllAlong
  <2> QED
    BY <1>6, <2>2
<1> DEFINE stays == TheKept' = TheKept
           erases == \E c \in TheKept : (c \notin Stored(mem) \/ Name(c) \in N) /\ TheKept' = TheKept \ {c}
           fills == \E c \in Stored(mem) : Name(c) \in N /\ \E d \in {c} \cup Torn(c) :
                      TheKept' = {k \in TheKept : Name(k) # Name(c)} \cup {d}
           puts == \/ TheKeptGuid = {} /\ TheKeptGuid' = {INVALID_DATA}
                   \/ TheKeptGuid \subseteq {INVALID_DATA} /\ TheKeptGuid' = {TheGuid}
<1>10. ((stays \/ erases \/ fills) /\ TheKeptGuid' = TheKeptGuid) \/ (stays /\ puts)
  <2>1. \A c \in TheKept : TheKept' = TheKept \ {c} => c \notin Stored(mem) \/ Name(c) \in N
    BY <1>9
  <2>2. \A c \in storing : c \in Stored(mem) /\ Name(c) \in N
    BY <1>4 DEF Names
  <2>3. Writes(TheKept, TheKept', TheKeptGuid, TheKeptGuid', storing, TheGuid)
    BY <1>5, <1>6, <1>7, <1>8
  <2> HIDE DEF N, INVALID_DATA
  <2> QED
    BY <2>1, <2>2, <2>3 DEF Writes
<1>11. N' \subseteq N
  BY <1>1 DEF Names
<1>12. Abstract!Settled'
  BY <1>2, SettledNext DEF Abstract!Settled, TheKept, TheKeptGuid
<1> HIDE DEF INVALID_DATA
<1>13. Stored(mem') = Stored(mem) /\ pc' = pc /\ pc \in {"on", "stuck"} /\ todo # <<>>
  BY <1>1, <1>2 DEF PowerOn
<1> QED
  BY <1>8, <1>10, <1>11, <1>12, <1>13
  DEF Names, TheKept, TheKeptGuid, Abstract!Write, Abstract!Stay, Abstract!Erase, Abstract!Fill, Abstract!PutGuid

LEMMA PowerIs ==
  ASSUME PowerFails, IInv
  PROVE  Abstract!PowerFails
<1>1. /\ pc' = "off" /\ pc \in {"on", "stuck"} /\ mem' = Erased /\ todo' = <<>> /\ storing' = {}
      /\ file' = file \/ (todo # <<>> /\ file' = <<>>)
  BY DEF PowerFails
<1>2. Stored(mem') = {} /\ TheGuid' = INVALID_DATA
  BY <1>1, ErasedHolds DEF TheGuid
<1>3. \/ TheKept' = TheKept /\ TheKeptGuid' = TheKeptGuid
      \/ todo # <<>> /\ TheKept' = {} /\ TheKeptGuid' = {}
  BY <1>1 DEF TheKept, TheKeptGuid, Readable
<1>4. Abstract!Gone
  BY <1>1, <1>2 DEF Abstract!Gone
<1> HIDE DEF INVALID_DATA
<1> QED
  BY <1>1, <1>3, <1>4 DEF Abstract!PowerFails, TheKept, TheKeptGuid

LEMMA BreakIs ==
  ASSUME PowerFailsInCompaction
  PROVE  Abstract!Breaks
<1>1. /\ pc' = "broken" /\ pc \in {"on", "stuck"} /\ mem' = Erased /\ todo' = <<>> /\ storing' = {}
      /\ todo # <<>>
  BY DEF PowerFailsInCompaction, Compacting
<1>2. Stored(mem') = {} /\ TheGuid' = INVALID_DATA
  BY <1>1, ErasedHolds DEF TheGuid
<1>3. TheKept' = {} /\ TheKeptGuid' = {}
  BY <1>1 DEF TheKept, TheKeptGuid, Readable
<1>4. Abstract!Gone
  BY <1>1, <1>2 DEF Abstract!Gone
<1> HIDE DEF INVALID_DATA
<1> QED
  BY <1>1, <1>3, <1>4 DEF Abstract!Breaks, TheKept, TheKeptGuid

LEMMA BootIs ==
  ASSUME IInv, IInv', AJ_Initialize
  PROVE  Abstract!Boot
<1>1. PICK guid \in Guids : Does(AJ_GetLocalGUID(AJ_NVRAM_Init(file), guid), {})
  BY DEF AJ_Initialize
<1> DEFINE s == AJ_NVRAM_Init(file)
           t == AJ_GetLocalGUID(s, guid)
           X == Credential
<1>2. pc = "off" /\ pc' = "on" /\ PowerOn' /\ mem' = t.mem /\ file' = file /\ storing' = {}
  BY <1>1 DEF AJ_Initialize, Does, PowerOn
<1>3. s.mem = Loaded /\ \A g : s \in Begun(Loaded, X, g)
  BY <1>2, InitBegins DEF IInv, FileProper
<1> HIDE DEF s
<1>4. /\ GuidIn(s.mem) # {} => t = s
      /\ Kept(s.mem, t.mem, {AJ_LOCAL_GUID_NV_ID})
  <2>1. s \in Begun(Loaded, X, guid) /\ guid \in Guids
    BY <1>3
  <2> HIDE DEF X
  <2> QED
    BY <2>1, <1>3, GuidGoes
<1> HIDE DEF t
<1>5. Proper(Loaded) /\ Proper(mem')
  BY <1>2, LoadedProper, NextProper DEF IInv
<1>6. Stored(mem') = Stored(Loaded)
  <2>1. {AJ_LOCAL_GUID_NV_ID} \cap CredSlots = {}
    BY IdFacts
  <2> QED
    BY <1>2, <1>3, <1>4, <1>5, <2>1, StoredKept
<1>7. TheKept = Stored(Loaded) /\ TheKeptGuid = GuidIn(Loaded)
  BY <1>2, KeptIsLoaded
<1>8. TheKept' = TheKept /\ TheKeptGuid' = TheKeptGuid
  BY <1>2 DEF TheKept, TheKeptGuid, Readable
<1>9. TheKeptGuid # {} => TheGuid' \in TheKeptGuid
  BY <1>2, <1>3, <1>4, <1>7, GuidThereNext
<1>10. Abstract!Settled'
  BY <1>2, SettledNext DEF Abstract!Settled, TheKept, TheKeptGuid
<1>11. Names(storing') = {}
  BY <1>2 DEF Names
<1> QED
  BY <1>2, <1>6, <1>7, <1>8, <1>9, <1>10, <1>11 DEF Abstract!Boot, Names, TheKept, TheKeptGuid

LEMMA StartIs ==
  ASSUME Init
  PROVE  Abstract!Start
<1>1. Stored(mem) = {} /\ TheGuid = INVALID_DATA
  BY ErasedHolds DEF Init, TheGuid
<1> QED
  BY <1>1 DEF Init, Abstract!Start, Readable

LEMMA StepIs ==
  ASSUME IInv, IInv', [Next]_vars
  PROVE  \/ Abstract!Call \/ Abstract!Write \/ Abstract!PowerFails \/ Abstract!Breaks \/ Abstract!Boot
         \/ UNCHANGED (Abstract!abstractVars)
<1>1. CASE AJ_Initialize
  BY <1>1, BootIs
<1>2. CASE StoreNVToFile
  BY <1>2, FileWriteIs
<1>3. CASE PowerFails
  BY <1>3, PowerIs
<1>4. CASE PowerFailsInCompaction
  BY <1>4, BreakIs
<1>5. ASSUME NEW c \in Credential, AJ_StoreCredential(c) PROVE Abstract!Call
  BY <1>5, StoreIsCall
<1>6. ASSUME NEW c \in Credential, AJ_DeleteCredential(c.type, c.id) PROVE Abstract!Call
  BY <1>6, DeleteIsCall
<1>7. CASE AJ_ClearCredentials
  BY <1>7, ClearIsCall
<1>8. CASE Broken \/ UNCHANGED vars
  <2>1. UNCHANGED vars
    BY <1>8 DEF Broken
  <2> QED
    BY <2>1 DEF vars, TheGuid, Readable, Abstract!abstractVars
<1> QED
  BY <1>1, <1>2, <1>3, <1>4, <1>5, <1>6, <1>7, <1>8 DEF Next

\* The NVRAM and the credentials implement the abstract store.  A call that succeeds adds its
\* credential, in the place of the one of its name or with GENERIC ones evicted, oldest first; one
\* that fails loses at most the one to be replaced, or such ones; one that does not return has
\* evicted all of those.  Each write of the file moves it towards the memory: nothing goes from it
\* that is to stay, but for the credential that is being stored, and nothing else is written.
\* What a power failure finds there is what the next start gives, or nothing if the file was just
\* being written.  A power failure within a compaction ends all this: the device is broken.
THEOREM CredsKeepsPromise ==
  Spec => KeepsPromise
<1>1. Init => Abstract!Start
  BY StartIs
<1>2. IInv /\ IInv' /\ [Next]_vars =>
        [Abstract!Call \/ Abstract!Write \/ Abstract!PowerFails \/ Abstract!Breaks \/ Abstract!Boot]_(Abstract!abstractVars)
  BY StepIs
<1> QED
  BY <1>1, <1>2, Invariant, PTL DEF Spec, KeepsPromise, Abstract!Promise
=============================================================================
