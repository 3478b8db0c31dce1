------------------------------- MODULE Nvram -------------------------------
(***************************************************************************)
(* The store of data sets: src/aj_nvram.c over the emulated flash of       *)
(* target/fc3180/aj_target_nvram.c.  The memory is a sequence of           *)
(* half-words (bytes in pairs), a word is two of them.  It begins with the *)
(* sentinel; then come the entries, each a header (id, capacity) and its   *)
(* data, up to the first header that reads INVALID_DATA or to the end.     *)
(* A half-word of which only a byte has been written is not told from one  *)
(* that has not.                                                           *)
(*                                                                         *)
(* An operation takes and returns a store: the memory, and the log of what *)
(* it wrote, since each write is followed by writing the file.             *)
(***************************************************************************)
EXTENDS Integers, Sequences, FiniteSets

CONSTANT NvSize   \* AJ_NVRAM_SIZE, in half-words

INVALID_ID   == 0
INVALID_DATA == 65535
Sentinel     == <<19009, 22094>>   \* "AJNV"
HeaderSize   == 2                  \* ENTRY_HEADER_SIZE

ASSUME NvramAssumption == NvSize \in Nat /\ NvSize % 2 = 0 /\ NvSize >= 6 /\ NvSize < INVALID_DATA

WORD_ALIGN(n) == n + (n % 2)
Blank(n) == [i \in 1..n |-> INVALID_DATA]

Patch(mem, at, cells) ==
  [i \in DOMAIN mem |-> IF i \in at..(at + Len(cells) - 1) THEN cells[i - at + 1] ELSE mem[i]]

\* _AJ_NV_Write: the memory is changed, then the file is written.
NV_Write(s, at, cells) ==
  [mem |-> Patch(s.mem, at, cells), log |-> Append(s.log, [at |-> at, cells |-> cells])]

Capacity(mem, p) == mem[p + 1]
After(mem, p) == p + HeaderSize + Capacity(mem, p)

\* The loop of AJ_FindNVEntry: where it ends, which is at an entry of that id, at the free space
\* or at the end.  An entry has a header and a word of data at least.
MaxEntries == NvSize \div (HeaderSize + 2)
Stop(mem, id) ==
  LET next == [p \in Nat |-> IF p > NvSize \/ mem[p] \in {id, INVALID_DATA} THEN p ELSE After(mem, p)]
      at[n \in 0..MaxEntries] == IF n = 0 THEN 3 ELSE next[at[n - 1]]
  IN at[MaxEntries]

\* AJ_FindNVEntry for an id of a data set: its header, the first one, or 0.
AJ_FindNVEntry(mem, id) ==
  LET header == [p \in Nat |-> IF p <= NvSize /\ mem[p] = id THEN p ELSE 0]
  IN header[Stop(mem, id)]

\* Where the next entry would go: AJ_FindNVEntry(INVALID_DATA), which fails at the end.
FreeAt(mem) == Stop(mem, INVALID_DATA)

\* Where the entries begin, those of deleted data sets included, and at last the free space.
Bounds(mem) ==
  LET next == [b \in Seq(Nat) |->
                 LET p == b[Len(b)] IN
                 IF p > NvSize \/ mem[p] = INVALID_DATA THEN b ELSE Append(b, After(mem, p))]
      walk[n \in 0..MaxEntries] == IF n = 0 THEN <<3>> ELSE next[walk[n - 1]]
  IN walk[MaxEntries]

Headers(mem) == LET b == Bounds(mem) IN {b[i] : i \in 1..(Len(b) - 1)}

AJ_NVRAM_Exist(mem, id) == id # INVALID_ID /\ AJ_FindNVEntry(mem, id) # 0

AJ_NVRAM_GetSizeRemaining(mem) ==
  LET b == Bounds(mem)
      size[n \in 0..(Len(b) - 1)] ==
        IF n = 0 THEN Len(Sentinel)
        ELSE size[n - 1] + (IF mem[b[n]] = INVALID_ID THEN 0 ELSE b[n + 1] - b[n])
  IN NvSize - size[Len(b) - 1]

\* A store while it is compacted: each live entry, up to the n-th, is moved down to where the
\* last one ends (memcpy copies upwards, as overlapping moves need), and the file written.
Moved(s, n) ==
  LET b == Bounds(s.mem)
      move(c, p) == LET entry == SubSeq(s.mem, p, After(s.mem, p) - 1) IN
                    [to |-> c.to + Len(entry), s |-> NV_Write(c.s, c.to, entry)]
      moved[i \in 0..n] ==
        IF i = 0 THEN [to |-> 3, s |-> s]
        ELSE IF s.mem[b[i]] = INVALID_ID THEN moved[i - 1] ELSE move(moved[i - 1], b[i])
  IN moved[n]

\* Then what is left behind is erased.
Erase(s, from, to) == NV_Write(s, from, Blank(to - from))

\* Mutant: one word less is erased than the deleted entries had.
CompactNVStorage_Short(s) ==
  LET m == Moved(s, Len(Bounds(s.mem)) - 1)
      t == Erase(m.s, m.to, FreeAt(s.mem) - HeaderSize)
  IN [t EXCEPT !.log = Append(s.log, [at |-> 1, cells |-> t.mem])]

\* _AJ_CompactNVStorage.  It is logged as one write of all the memory: of the files it writes in
\* between, Halfway tells what the power may leave when it fails meanwhile.
CompactNVStorage(s) ==
  LET m == Moved(s, Len(Bounds(s.mem)) - 1)
      t == Erase(m.s, m.to, FreeAt(s.mem))
  IN [t EXCEPT !.log = Append(s.log, [at |-> 1, cells |-> t.mem])]

Halfway(mem) ==
  {Moved([mem |-> mem, log |-> <<>>], n).s.mem : n \in 1..(Len(Bounds(mem)) - 1)} \ {mem}

\* AJ_NVRAM_Create: ok says whether the entry has been made.
AJ_NVRAM_Create(s, id, capacity) ==
  LET size == WORD_ALIGN(capacity)
      fits(t) == FreeAt(t.mem) + HeaderSize + size <= NvSize + 1
      made(t) == IF fits(t) THEN [ok |-> TRUE, s |-> NV_Write(t, FreeAt(t.mem), <<id, size>>)]
                 ELSE [ok |-> FALSE, s |-> t]
  IN IF capacity = 0 \/ AJ_NVRAM_Exist(s.mem, id) THEN [ok |-> FALSE, s |-> s]
     ELSE made(IF fits(s) THEN s ELSE CompactNVStorage(s))

\* Mutant: the file is not written.
AJ_NVRAM_Delete_InMemory(s, id) ==
  LET p == AJ_FindNVEntry(s.mem, id) IN
  IF p = 0 THEN s ELSE [s EXCEPT !.mem = Patch(@, p, <<INVALID_ID>>)]

AJ_NVRAM_Delete(s, id) ==
  LET p == AJ_FindNVEntry(s.mem, id) IN
  IF p = 0 THEN s ELSE NV_Write(s, p, <<INVALID_ID, Capacity(s.mem, p)>>)

\* AJ_NVRAM_Open for writing: a data set of that id is deleted first.  The entry is 0 if
\* there is none to write to.
AJ_NVRAM_OpenW(s, id, capacity) ==
  LET freed == IF AJ_NVRAM_Exist(s.mem, id) THEN AJ_NVRAM_Delete(s, id) ELSE s
      opened(made) == [entry |-> IF made.ok THEN AJ_FindNVEntry(made.s.mem, id) ELSE 0,
                       s |-> made.s]
  IN IF id = 0 \/ capacity = 0 THEN [entry |-> 0, s |-> s]
     ELSE opened(AJ_NVRAM_Create(freed, id, capacity))

\* AJ_NVRAM_Write, from position pos of the entry's data.  A word that has been begun is
\* completed by a write of its own.  What exceeds the capacity is not written.
AJ_NVRAM_Write(s, entry, pos, cells) ==
  LET data == entry + HeaderSize
      size == IF pos + Len(cells) <= Capacity(s.mem, entry) THEN Len(cells)
              ELSE Capacity(s.mem, entry) - pos
      begun == pos % 2 = 1 /\ size > 0
      word == NV_Write(s, data + pos - 1, <<s.mem[data + pos - 1], cells[1]>>)
      more(t, rest) == IF rest = <<>> THEN t
                       ELSE NV_Write(t, data + (IF begun THEN pos + 1 ELSE pos), rest)
  IN more(IF begun THEN word ELSE s, SubSeq(cells, IF begun THEN 2 ELSE 1, size))

\* AJ_NVRAM_Read of n half-words: what is read, less than n at the end of the data set.
AJ_NVRAM_Read(mem, entry, pos, n) ==
  LET left == Capacity(mem, entry) - pos
  IN SubSeq(mem, entry + HeaderSize + pos,
            entry + HeaderSize + pos + (IF left < n THEN left ELSE n) - 1)

\* _AJ_NVRAM_Clear.
Erased == [i \in 1..NvSize |-> IF i <= 2 THEN Sentinel[i] ELSE INVALID_DATA]
AJ_NVRAM_Clear(s) == NV_Write(s, 1, Erased)

\* _AJ_LoadNVFromFile and AJ_NVRAM_Init: a file that is missing or was being written when the
\* power failed is empty.
AJ_NVRAM_Init(file) ==
  IF file # <<>> /\ SubSeq(file, 1, 2) = Sentinel THEN [mem |-> file, log |-> <<>>]
  ELSE LET s == AJ_NVRAM_Clear([mem |-> Erased, log |-> <<>>])
       IN [s EXCEPT !.log = Append(@, [at |-> 1, cells |-> Erased])]
=============================================================================
