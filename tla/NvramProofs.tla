---------------------------- MODULE NvramProofs ----------------------------
(***************************************************************************)
(* Facts about the operations of Nvram, for a store of any size: where the *)
(* entries are, what AJ_FindNVEntry finds, and what each operation does to *)
(* the data sets.                                                          *)
(***************************************************************************)
EXTENDS Nvram, WellFoundedInduction, SequenceTheorems, TLAPS

\* What holds of 0, and of i whenever of i - 1, holds up to n.
LEMMA UpTo ==
  ASSUME NEW n \in Nat, NEW S, 0 \in S, \A i \in 1..n : i - 1 \in S => i \in S
  PROVE  \A i \in 0..n : i \in S
<1> DEFINE below == OpToRel(<, Nat)
           out == (0..n) \ S
<1>1. \A i, j \in Nat : <<i, j>> \in below <=> i < j
  BY DEF OpToRel
<1>2. IsWellFoundedOn(below, Nat)
  BY NatLessThanWellFounded
<1>3. out \subseteq Nat
  OBVIOUS
<1> SUFFICES ASSUME out # {} PROVE FALSE
  OBVIOUS
<1> HIDE DEF below
<1>4. PICK i \in out : \A j \in out : <<j, i>> \notin below
  <2> HIDE DEF out
  <2> QED
    BY <1>2, <1>3, WFMin, Zenon
<1>5. i \in 1..n /\ i - 1 \in out
  BY <1>4
<1>6. i - 1 \in Nat /\ i \in Nat /\ i - 1 < i
  BY <1>5
<1> QED
  BY <1>1, <1>4, <1>5, <1>6

\* A recursion whose i-th step leads from D[i - 1] to D[i].
Stepping(n, D, next) == \A i \in 1..n : \A c \in D[i - 1] : next[i][c] \in D[i]

Running(h, n, base, next, D) ==
  /\ h = [j \in 0..n |-> h[j]]
  /\ h[0] = base /\ \A j \in 1..n : h[j] = next[j][h[j - 1]]
  /\ \A j \in 0..n : h[j] \in D[j]

LEMMA Recursion ==
  ASSUME NEW n \in Nat, NEW D, NEW next, Stepping(n, D, next), NEW base, base \in D[0]
  PROVE  \E h : Running(h, n, base, next, D)
<1> DEFINE S == {k \in 0..n : \E h : Running(h, k, base, next, D)}
<1>1. 0 \in S
  <2> DEFINE h == [j \in 0..0 |-> base]
  <2>1. h[0] = base /\ h = [j \in 0..0 |-> h[j]] /\ 1..0 = {} /\ \A j \in 0..0 : j = 0
    OBVIOUS
  <2> HIDE DEF h
  <2>2. Running(h, 0, base, next, D)
    BY <2>1 DEF Running
  <2> QED
    BY <2>2
<1>2. ASSUME NEW k \in 1..n, k - 1 \in S PROVE k \in S
  <2>1. PICK f : Running(f, k - 1, base, next, D)
    BY <1>2
  <2> DEFINE h == [j \in 0..k |-> IF j = k THEN next[k][f[k - 1]] ELSE f[j]]
  <2>2. \A j \in 0..k : j # k => j \in 0..(k - 1)
    OBVIOUS
  <2>3. h = [j \in 0..k |-> h[j]] /\ h[k] = next[k][f[k - 1]] /\ \A j \in 0..(k - 1) : h[j] = f[j]
    OBVIOUS
  <2> HIDE DEF h
  <2>4. k - 1 \in 0..(k - 1) /\ 0 \in 0..(k - 1)
    OBVIOUS
  <2>5. next[k][f[k - 1]] \in D[k]
    BY <2>1, <2>4 DEF Stepping, Running
  <2>6. \A j \in 0..k : h[j] \in D[j]
    BY <2>1, <2>2, <2>3, <2>5 DEF Running
  <2>7. ASSUME NEW j \in 1..k PROVE h[j] = next[j][h[j - 1]]
    <3>1. j - 1 \in 0..(k - 1) /\ (j # k => j \in 1..(k - 1) /\ j \in 0..(k - 1))
      OBVIOUS
    <3>2. CASE j = k
      BY <2>3, <2>4, <3>2
    <3>3. CASE j # k
      BY <2>1, <2>3, <3>1, <3>3 DEF Running
    <3> QED
      BY <3>2, <3>3
  <2>8. h[0] = base
    BY <2>1, <2>3, <2>4 DEF Running
  <2>9. Running(h, k, base, next, D)
    BY <2>3, <2>6, <2>7, <2>8 DEF Running
  <2> QED
    BY <2>9
<1>3. \A k \in 0..n : k \in S
  <2> HIDE DEF S
  <2>1. \A k \in 1..n : k - 1 \in S => k \in S
    BY <1>2
  <2> QED
    BY <1>1, <2>1, UpTo
<1> QED
  BY <1>3

\* Half-words, and memories of them.  The number INVALID_DATA stands for is hidden.
HalfWord == 0..INVALID_DATA
Memory == [1..NvSize -> HalfWord]
Ids == HalfWord \ {INVALID_ID, INVALID_DATA}

LEMMA Sizes ==
  /\ NvSize \in Nat /\ NvSize >= 6
  /\ INVALID_DATA \in Nat /\ NvSize < INVALID_DATA
  /\ INVALID_ID = 0 /\ HeaderSize = 2
  /\ MaxEntries \in Nat /\ \A n \in Nat : 4 * n <= NvSize => n <= MaxEntries
<1>1. INVALID_DATA \in Nat
  BY DEF INVALID_DATA
<1>2. INVALID_ID = 0 /\ HeaderSize = 2
  BY DEF INVALID_ID, HeaderSize
<1>3. NvSize \in Nat /\ NvSize >= 6 /\ NvSize < INVALID_DATA
  BY NvramAssumption
<1>4. MaxEntries = NvSize \div 4
  BY <1>2 DEF MaxEntries
<1>5. MaxEntries \in Nat /\ \A n \in Nat : 4 * n <= NvSize => n <= MaxEntries
  BY <1>3, <1>4
<1> QED
  BY <1>1, <1>2, <1>3, <1>5

-----------------------------------------------------------------------------
\* The entries of a memory: L of them, the i-th at at[i], and free space from at[L] on.
Chain(m, L, at, end) ==
  /\ L \in Nat /\ at \in [0..L -> Nat]
  /\ at[0] = 3 /\ at[L] = end /\ end <= NvSize + 1
  /\ \A i \in 0..(L - 1) : /\ m[at[i]] # INVALID_DATA /\ m[at[i] + 1] \in Nat \ {0, 1}
                           /\ at[i + 1] = at[i] + 2 + m[at[i] + 1]

Layout(m, L, at) ==
  /\ Chain(m, L, at, at[L])
  /\ \A x \in at[L]..NvSize : m[x] = INVALID_DATA

\* The entries follow each other.
LEMMA Ascending ==
  ASSUME NEW m, NEW L, NEW at, NEW end, Chain(m, L, at, end)
  PROVE  /\ \A j \in 0..L : at[j] \in Nat /\ at[j] >= 3 + 4 * j
         /\ \A j \in 0..L : \A i \in 0..(j - 1) : at[i + 1] <= at[j] /\ at[i] + 4 <= at[j]
         /\ \A i \in 0..L : at[i] <= end
         /\ \A i \in 0..(L - 1) : at[i] \in 3..(NvSize - 3) /\ at[i] + 1 \in 4..(NvSize - 2)
         /\ L \in 0..MaxEntries
<1>1. L \in Nat /\ at[0] = 3 /\ at[L] = end /\ at \in [0..L -> Nat]
  BY DEF Chain
<1>2. \A j \in 1..L : /\ at[j] = at[j - 1] + 2 + m[at[j - 1] + 1]
                      /\ m[at[j - 1] + 1] \in Nat /\ m[at[j - 1] + 1] >= 2
  <2> SUFFICES ASSUME NEW j \in 1..L
               PROVE  /\ at[j] = at[j - 1] + 2 + m[at[j - 1] + 1]
                      /\ m[at[j - 1] + 1] \in Nat /\ m[at[j - 1] + 1] >= 2
    OBVIOUS
  <2> DEFINE i == j - 1
  <2>1. i \in 0..(L - 1) /\ i + 1 = j
    BY <1>1
  <2>2. at[i + 1] = at[i] + 2 + m[at[i] + 1] /\ m[at[i] + 1] \in Nat \ {0, 1}
    <3> HIDE DEF i
    <3> QED
      BY <2>1 DEF Chain
  <2>3. at[j] = at[i] + 2 + m[at[i] + 1] /\ m[at[i] + 1] \in Nat /\ m[at[i] + 1] >= 2
    <3> HIDE DEF i
    <3> QED
      BY <2>1, <2>2
  <2> QED
    BY <2>3, Zenon
<1>3. \A j \in 1..L : at[j] >= at[j - 1] + 4
  <2> SUFFICES ASSUME NEW j \in 1..L PROVE at[j] >= at[j - 1] + 4
    OBVIOUS
  <2>1. at[j - 1] \in Nat /\ at[j] = at[j - 1] + 2 + m[at[j - 1] + 1]
    BY <1>1, <1>2
  <2>2. m[at[j - 1] + 1] \in Nat /\ m[at[j - 1] + 1] >= 2
    BY <1>2
  <2> QED
    BY <2>1, <2>2
<1> DEFINE S == {j \in 0..L : /\ at[j] >= 3 + 4 * j
                              /\ \A i \in 0..(j - 1) : at[i + 1] <= at[j] /\ at[i] + 4 <= at[j]}
<1>4. 0 \in S
  BY <1>1
<1>5. ASSUME NEW j \in 1..L, j - 1 \in S PROVE j \in S
  <2>1. at[j] >= at[j - 1] + 4 /\ at[j] \in Nat /\ at[j - 1] \in Nat /\ at[j - 1] >= 3 + 4 * (j - 1)
    BY <1>1, <1>3, <1>5
  <2>2. ASSUME NEW i \in 0..(j - 1) PROVE at[i + 1] <= at[j] /\ at[i] + 4 <= at[j]
    <3>1. CASE i = j - 1
      BY <2>1, <3>1
    <3>2. CASE i # j - 1
      <4>1. i \in 0..((j - 1) - 1) /\ at[i + 1] \in Nat /\ at[i] \in Nat
        BY <1>1, <3>2
      <4>2. at[i + 1] <= at[j - 1] /\ at[i] + 4 <= at[j - 1]
        BY <4>1, <1>5
      <4> QED
        BY <2>1, <4>1, <4>2
    <3> QED
      BY <3>1, <3>2
  <2> QED
    BY <2>1, <2>2
<1>6. \A j \in 0..L : j \in S
  <2> HIDE DEF S
  <2>1. \A j \in 1..L : j - 1 \in S => j \in S
    BY <1>5
  <2> QED
    BY <1>1, <1>4, <2>1, UpTo
<1>7. \A i \in 0..L : at[i] <= end
  <2> SUFFICES ASSUME NEW i \in 0..L PROVE at[i] <= end
    OBVIOUS
  <2>1. CASE i = L
    BY <1>1, <2>1
  <2>2. CASE i # L
    <3>1. i \in 0..(L - 1) /\ L \in 0..L /\ at[i] \in Nat /\ at[L] \in Nat
      BY <1>1, <2>2
    <3>2. at[i] + 4 <= at[L]
      BY <1>6, <3>1
    <3> QED
      BY <1>1, <3>1, <3>2
  <2> QED
    BY <2>1, <2>2
<1>8. ASSUME NEW i \in 0..(L - 1)
      PROVE at[i] \in 3..(NvSize - 3) /\ at[i] + 1 \in 4..(NvSize - 2)
  <2>1. L \in 0..L /\ at[i] \in Nat /\ at[L] \in Nat /\ i \in 0..L
    BY <1>1
  <2>2. at[i] + 4 <= at[L] /\ at[i] >= 3 + 4 * i
    BY <1>6, <2>1
  <2>3. end <= NvSize + 1
    BY DEF Chain
  <2> QED
    BY <1>1, <2>1, <2>2, <2>3, Sizes
<1>9. L \in 0..MaxEntries
  <2>1. at[L] >= 3 + 4 * L /\ at[L] \in Nat /\ at[L] <= NvSize + 1
    BY <1>1, <1>6 DEF Chain
  <2>2. 4 * L <= NvSize
    BY <1>1, <2>1, Sizes
  <2> QED
    BY <1>1, <2>2, Sizes
<1> QED
  BY <1>1, <1>6, <1>7, <1>8, <1>9

-----------------------------------------------------------------------------
\* What AJ_FindNVEntry finds.

\* A function that repeats a step, and its values, if they are known.
Repeats(n, base, next) == CHOOSE f : f = [j \in 0..n |-> IF j = 0 THEN base ELSE next[f[j - 1]]]

Repeating(g, n, base, next) == g[0] = base /\ \A i \in 1..n : g[i] = next[g[i - 1]]

LEMMA Repeated ==
  ASSUME NEW n \in Nat, NEW base, NEW next, NEW g, Repeating(g, n, base, next)
  PROVE  \A i \in 0..n : Repeats(n, base, next)[i] = g[i]
<1> DEFINE value(f) == [j \in 0..n |-> IF j = 0 THEN base ELSE next[f[j - 1]]]
           h == [j \in 0..n |-> g[j]]
           it == CHOOSE f : f = value(f)
<1>0. g[0] = base /\ \A i \in 1..n : g[i] = next[g[i - 1]]
  BY DEF Repeating
<1>1. h = value(h)
  <2>1. \A j \in 0..n : h[j] = value(h)[j]
    <3> SUFFICES ASSUME NEW j \in 0..n PROVE h[j] = value(h)[j]
      OBVIOUS
    <3>1. CASE j = 0
      BY <1>0, <3>1
    <3>2. CASE j # 0
      <4>1. j \in 1..n /\ j - 1 \in 0..n
        BY <3>2
      <4> QED
        BY <1>0, <3>2, <4>1
    <3> QED
      BY <3>1, <3>2
  <2> QED
    BY <2>1
<1>2. it = value(it)
  <2> HIDE DEF value
  <2> QED
    BY <1>1
<1> HIDE DEF it
<1>3. it[0] = base /\ \A i \in 1..n : it[i] = next[it[i - 1]]
  BY <1>2
<1> DEFINE S == {i \in 0..n : it[i] = g[i]}
<1>4. 0 \in S /\ \A i \in 1..n : i - 1 \in S => i \in S
  BY <1>0, <1>3
<1>5. \A i \in 0..n : i \in S
  <2> HIDE DEF S
  <2> QED
    BY <1>4, UpTo
<1> QED
  BY <1>5 DEF it, Repeats

\* What a layout says of the places of the entries.
LEMMA LayoutFacts ==
  ASSUME NEW m, NEW L, NEW at, Layout(m, L, at)
  PROVE  /\ L \in 0..MaxEntries /\ at \in [0..L -> Nat] /\ at[0] = 3
         /\ \A i \in 0..L : at[i] \in 3..(NvSize + 1)
         /\ \A i \in 0..(L - 1) : /\ at[i] \in 3..(NvSize - 3) /\ at[i] + 1 \in 4..(NvSize - 2)
                                /\ m[at[i]] # INVALID_DATA /\ m[at[i] + 1] \in Nat \ {0, 1}
                                /\ at[i + 1] = at[i] + 2 + m[at[i] + 1]
         /\ \A j \in 0..L : \A i \in 0..(j - 1) : at[i + 1] <= at[j] /\ at[i] + 4 <= at[j]
         /\ \A x \in at[L]..NvSize : m[x] = INVALID_DATA
<1>1. Chain(m, L, at, at[L]) /\ \A x \in at[L]..NvSize : m[x] = INVALID_DATA
  BY DEF Layout
<1> DEFINE end == at[L]
<1> HIDE DEF end
<1>2. Chain(m, L, at, end)
  BY <1>1 DEF end
<1>3. /\ \A j \in 0..L : at[j] \in Nat /\ at[j] >= 3 + 4 * j
      /\ \A j \in 0..L : \A i \in 0..(j - 1) : at[i + 1] <= at[j] /\ at[i] + 4 <= at[j]
      /\ \A i \in 0..L : at[i] <= end
      /\ \A i \in 0..(L - 1) : at[i] \in 3..(NvSize - 3) /\ at[i] + 1 \in 4..(NvSize - 2)
      /\ L \in 0..MaxEntries
  BY <1>2, Ascending
<1>4. at \in [0..L -> Nat] /\ at[0] = 3 /\ end <= NvSize + 1 /\ end \in Nat
  BY <1>2, <1>3 DEF Chain
<1>5. \A i \in 0..L : at[i] \in 3..(NvSize + 1)
  <2> SUFFICES ASSUME NEW i \in 0..L PROVE at[i] \in 3..(NvSize + 1)
    OBVIOUS
  <2>1. at[i] \in Nat /\ at[i] >= 3 + 4 * i /\ at[i] <= end /\ i \in Nat
    BY <1>3
  <2> QED
    BY <1>4, <2>1, Sizes
<1>6. \A i \in 0..(L - 1) : /\ m[at[i]] # INVALID_DATA /\ m[at[i] + 1] \in Nat \ {0, 1}
                           /\ at[i + 1] = at[i] + 2 + m[at[i] + 1]
  BY <1>1 DEF Chain
<1> QED
  BY <1>1, <1>3, <1>4, <1>5, <1>6

LEMMA StopIs ==
  ASSUME NEW m, NEW L, NEW at, Layout(m, L, at), NEW id,
         NEW k \in 0..L, \A i \in 0..(k - 1) : m[at[i]] # id, k < L => m[at[k]] = id
  PROVE  Stop(m, id) = at[k]
<1> DEFINE next == [p \in Nat |-> IF p > NvSize \/ m[p] \in {id, INVALID_DATA} THEN p ELSE After(m, p)]
           g == [n \in 0..MaxEntries |-> IF n <= k THEN at[n] ELSE at[k]]
<1>1. Stop(m, id) = Repeats(MaxEntries, 3, next)[MaxEntries]
  BY DEF Stop, Repeats
<1>2. /\ L \in 0..MaxEntries /\ MaxEntries \in Nat /\ at[0] = 3
      /\ \A i \in 0..L : at[i] \in Nat
      /\ \A i \in 0..(L - 1) : at[i] \in 3..(NvSize - 3)
  BY LayoutFacts, Sizes
<1>3. ASSUME NEW i \in 0..(k - 1) PROVE next[at[i]] = at[i + 1]
  <2>1. i \in 0..(L - 1) /\ at[i] \in Nat /\ at[i] <= NvSize
    BY <1>2, Sizes
  <2>2. m[at[i]] # id /\ m[at[i]] # INVALID_DATA /\ at[i + 1] = at[i] + 2 + m[at[i] + 1]
    BY <1>3, <2>1 DEF Layout, Chain
  <2>3. After(m, at[i]) = at[i + 1]
    BY <2>2, Sizes DEF After, Capacity
  <2> QED
    BY <2>1, <2>2, <2>3, Sizes
<1>4. next[at[k]] = at[k]
  <2>1. CASE k < L
    BY <1>2, <2>1
  <2>2. CASE k = L
    <3>1. at[L] \in Nat /\ (at[L] > NvSize \/ m[at[L]] = INVALID_DATA)
      BY <1>2, Sizes DEF Layout
    <3> QED
      BY <2>2, <3>1
  <2> QED
    BY <1>2, <2>1, <2>2
<1>5. g[0] = 3 /\ g[MaxEntries] = at[k]
  BY <1>2
<1>6. \A n \in 1..MaxEntries : g[n] = next[g[n - 1]]
  <2> SUFFICES ASSUME NEW n \in 1..MaxEntries PROVE g[n] = next[g[n - 1]]
    OBVIOUS
  <2> HIDE DEF next
  <2>1. CASE n <= k
    <3>1. n - 1 \in 0..(k - 1) /\ (n - 1) + 1 = n
      BY <2>1
    <3>2. next[at[n - 1]] = at[n]
      BY <1>3, <3>1
    <3> QED
      BY <1>2, <2>1, <3>1, <3>2
  <2>2. CASE n > k
    <3>1. g[n] = at[k] /\ g[n - 1] = at[k]
      BY <1>2, <2>2
    <3> QED
      BY <1>4, <3>1
  <2> QED
    BY <2>1, <2>2
<1> HIDE DEF g, next
<1>7. MaxEntries \in Nat /\ MaxEntries \in 0..MaxEntries
  BY <1>2
<1>8. Repeating(g, MaxEntries, 3, next)
  BY <1>5, <1>6 DEF Repeating
<1>9. \A i \in 0..MaxEntries : Repeats(MaxEntries, 3, next)[i] = g[i]
  BY <1>7, <1>8, Repeated
<1>10. Stop(m, id) = g[MaxEntries]
  BY <1>1, <1>7, <1>9
<1> QED
  BY <1>5, <1>10

\* The free space begins behind the last entry.
LEMMA FreeIs ==
  ASSUME NEW m, NEW L, NEW at, Layout(m, L, at)
  PROVE  FreeAt(m) = at[L]
<1>1. L \in 0..L /\ \A i \in 0..(L - 1) : m[at[i]] # INVALID_DATA
  BY DEF Layout, Chain
<1> QED
  BY <1>1, StopIs DEF FreeAt

\* The places of the entries, and last of the free space, as a sequence.
Places(at, L) == [i \in 1..(L + 1) |-> at[i - 1]]

LEMMA PlacesFacts ==
  ASSUME NEW L \in Nat, NEW M \in Nat, NEW at \in [0..M -> Nat], L <= M
  PROVE  /\ Places(at, L) \in Seq(Nat) /\ Len(Places(at, L)) = L + 1
         /\ Places(at, L)[L + 1] = at[L]
         /\ L < M => Append(Places(at, L), at[L + 1]) = Places(at, L + 1)
<1>1. Places(at, L) \in [1..(L + 1) -> Nat]
  BY DEF Places
<1>2. Places(at, L) \in Seq(Nat) /\ Len(Places(at, L)) = L + 1
  <2> DEFINE n == L + 1
             p == Places(at, L)
  <2>1. n \in Nat /\ p \in [1..n -> Nat]
    BY <1>1
  <2> HIDE DEF n, p
  <2>2. p \in Seq(Nat) /\ Len(p) = n
    BY <2>1
  <2> QED
    BY <2>2 DEF n, p
<1>3. Places(at, L)[L + 1] = at[L]
  BY DEF Places
<1>4. ASSUME L < M PROVE Append(Places(at, L), at[L + 1]) = Places(at, L + 1)
  <2> DEFINE b == Places(at, L)
             c == Places(at, L + 1)
             e == at[L + 1]
  <2>1. b \in Seq(Nat) /\ Len(b) = L + 1 /\ e \in Nat
    BY <1>2, <1>4
  <2>2. c \in [1..(L + 2) -> Nat] /\ c \in Seq(Nat) /\ Len(c) = L + 2
    <3>1. c \in [1..((L + 1) + 1) -> Nat]
      BY <1>4 DEF Places
    <3> HIDE DEF c
    <3> QED
      BY <3>1
  <2>3. \A i \in 1..(L + 1) : c[i] = b[i]
    BY DEF Places
  <2>4. c[L + 2] = e
    BY DEF Places
  <2> HIDE DEF b, c, e
  <2>5. Append(b, e) \in Seq(Nat) /\ Len(Append(b, e)) = L + 2
    BY <2>1
  <2>6. \A i \in 1..(L + 2) : Append(b, e)[i] = c[i]
    BY <2>1, <2>2, <2>3, <2>4
  <2>7. Append(b, e) = c
    BY <2>2, <2>5, <2>6, SeqEqual
  <2> QED
    BY <2>7 DEF b, c, e
<1> QED
  BY <1>2, <1>3, <1>4

LEMMA BoundsIs ==
  ASSUME NEW m, NEW L, NEW at, Layout(m, L, at)
  PROVE  Bounds(m) = Places(at, L)
<1> DEFINE next == [b \in Seq(Nat) |->
                      LET p == b[Len(b)] IN
                      IF p > NvSize \/ m[p] = INVALID_DATA THEN b ELSE Append(b, After(m, p))]
           g == [n \in 0..MaxEntries |-> IF n <= L THEN Places(at, n) ELSE Places(at, L)]
<1>1. Bounds(m) = Repeats(MaxEntries, <<3>>, next)[MaxEntries]
  BY DEF Bounds, Repeats
<1>2. /\ L \in 0..MaxEntries /\ MaxEntries \in Nat /\ at[0] = 3 /\ at \in [0..L -> Nat]
      /\ \A i \in 0..(L - 1) : at[i] \in 3..(NvSize - 3)
  BY LayoutFacts, Sizes
<1>3. \A n \in 0..L : /\ Places(at, n) \in Seq(Nat) /\ Len(Places(at, n)) = n + 1
                      /\ Places(at, n)[n + 1] = at[n]
                      /\ n < L => Append(Places(at, n), at[n + 1]) = Places(at, n + 1)
  <2>1. L \in Nat /\ \A n \in 0..L : n \in Nat /\ n <= L
    BY <1>2
  <2> QED
    BY <1>2, <2>1, PlacesFacts
<1>4. ASSUME NEW n \in 0..(L - 1) PROVE next[Places(at, n)] = Places(at, n + 1)
  <2>1. n \in 0..L /\ n < L /\ at[n] \in Nat /\ at[n] <= NvSize
    BY <1>2, Sizes
  <2>2. m[at[n]] # INVALID_DATA /\ After(m, at[n]) = at[n + 1]
    BY LayoutFacts, Sizes DEF After, Capacity
  <2>3. ~(at[n] > NvSize \/ m[at[n]] = INVALID_DATA)
    BY <2>1, <2>2, Sizes
  <2> QED
    BY <1>3, <2>1, <2>2, <2>3
<1>5. next[Places(at, L)] = Places(at, L)
  <2>1. L \in 0..L /\ at[L] \in Nat /\ (at[L] > NvSize \/ m[at[L]] = INVALID_DATA)
    BY <1>2, Sizes DEF Layout
  <2> QED
    BY <1>3, <2>1
<1>6. g[0] = <<3>> /\ g[MaxEntries] = Places(at, L)
  <2>1. Places(at, 0) = <<3>>
    BY <1>2 DEF Places
  <2> QED
    BY <1>2, <2>1
<1>7. \A n \in 1..MaxEntries : g[n] = next[g[n - 1]]
  <2> SUFFICES ASSUME NEW n \in 1..MaxEntries PROVE g[n] = next[g[n - 1]]
    OBVIOUS
  <2> HIDE DEF next
  <2>1. CASE n <= L
    <3>1. n - 1 \in 0..(L - 1) /\ (n - 1) + 1 = n
      BY <1>2, <2>1
    <3>2. next[Places(at, n - 1)] = Places(at, n)
      BY <1>4, <3>1
    <3> QED
      BY <1>2, <2>1, <3>1, <3>2
  <2>2. CASE n > L
    <3>1. g[n] = Places(at, L) /\ g[n - 1] = Places(at, L)
      BY <1>2, <2>2
    <3> QED
      BY <1>5, <3>1
  <2> QED
    BY <1>2, <2>1, <2>2
<1> HIDE DEF g, next
<1>8. MaxEntries \in Nat /\ MaxEntries \in 0..MaxEntries
  BY <1>2
<1>9. Repeating(g, MaxEntries, <<3>>, next)
  BY <1>6, <1>7 DEF Repeating
<1>10. \A i \in 0..MaxEntries : Repeats(MaxEntries, <<3>>, next)[i] = g[i]
  BY <1>8, <1>9, Repeated
<1> QED
  BY <1>1, <1>6, <1>8, <1>10

LEMMA HeadersAre ==
  ASSUME NEW m, NEW L, NEW at, Layout(m, L, at)
  PROVE  Headers(m) = {at[i] : i \in 0..(L - 1)}
<1>1. L \in Nat /\ at \in [0..L -> Nat]
  BY LayoutFacts
<1>2. Bounds(m) = Places(at, L) /\ Len(Places(at, L)) = L + 1
  BY <1>1, BoundsIs, PlacesFacts
<1>3. Headers(m) = {Places(at, L)[i] : i \in 1..((L + 1) - 1)}
  BY <1>2 DEF Headers
<1>4. \A i \in 1..L : Places(at, L)[i] = at[i - 1] /\ i - 1 \in 0..(L - 1)
  BY <1>1 DEF Places
<1>5. \A i \in 0..(L - 1) : i + 1 \in 1..L /\ Places(at, L)[i + 1] = at[i]
  BY <1>1 DEF Places
<1> DEFINE P == Places(at, L)
<1>6. Headers(m) = {P[i] : i \in 1..L}
  BY <1>1, <1>3
<1> HIDE DEF P
<1>7. \A i \in 1..L : P[i] \in {at[j] : j \in 0..(L - 1)}
  BY <1>4 DEF P
<1>8. \A i \in 0..(L - 1) : at[i] \in {P[j] : j \in 1..L}
  BY <1>5 DEF P
<1> QED
  BY <1>6, <1>7, <1>8

-----------------------------------------------------------------------------
\* The memories the operations keep to: no id has two entries.
Arranged(m, L, at) ==
  /\ m \in Memory /\ Layout(m, L, at)
  /\ \A i, j \in 0..(L - 1) : m[at[i]] = m[at[j]] => i = j \/ m[at[i]] = INVALID_ID

LEMMA FindEntry ==
  ASSUME NEW m, NEW L, NEW at, Arranged(m, L, at), NEW id \in Ids,
         NEW i \in 0..(L - 1), m[at[i]] = id
  PROVE  AJ_FindNVEntry(m, id) = at[i]
<1>1. Layout(m, L, at) /\ id # INVALID_ID
  BY DEF Arranged, Ids
<1>2. /\ L \in Nat /\ i \in 0..L /\ at[i] \in Nat /\ at[i] <= NvSize
  <2>1. L \in Nat /\ at[i] \in 3..(NvSize - 3)
    BY <1>1, LayoutFacts, Sizes
  <2> QED
    BY <2>1, Sizes
<1>3. \A j \in 0..(i - 1) : m[at[j]] # id
  BY <1>1, <1>2 DEF Arranged
<1>4. Stop(m, id) = at[i]
  BY <1>1, <1>2, <1>3, StopIs
<1> QED
  BY <1>2, <1>4 DEF AJ_FindNVEntry

LEMMA FindNone ==
  ASSUME NEW m, NEW L, NEW at, Layout(m, L, at), NEW id \in Ids,
         \A i \in 0..(L - 1) : m[at[i]] # id
  PROVE  AJ_FindNVEntry(m, id) = 0
<1>1. L \in Nat /\ L \in 0..L /\ at[L] \in Nat /\ id # INVALID_DATA
  BY LayoutFacts, Sizes DEF Ids
<1>2. Stop(m, id) = at[L]
  BY <1>1, StopIs
<1>3. ~(at[L] <= NvSize /\ m[at[L]] = id)
  BY <1>1, LayoutFacts, Sizes
<1> QED
  BY <1>1, <1>2, <1>3 DEF AJ_FindNVEntry

\* What is found is an entry of that id.
LEMMA FoundEntry ==
  ASSUME NEW m, NEW L, NEW at, Arranged(m, L, at), NEW id \in Ids, AJ_FindNVEntry(m, id) # 0
  PROVE  \E i \in 0..(L - 1) : m[at[i]] = id /\ AJ_FindNVEntry(m, id) = at[i]
<1>1. PICK i \in 0..(L - 1) : m[at[i]] = id
  BY FindNone DEF Arranged
<1> QED
  BY <1>1, FindEntry

\* The data of an id, as long as its capacity, which is not 0; <<>> if it has no data set.
Data(m, id) ==
  LET p == AJ_FindNVEntry(m, id)
  IN IF p = 0 THEN <<>> ELSE [x \in 1..Capacity(m, p) |-> m[p + 1 + x]]

LEMMA DataFacts ==
  ASSUME NEW m, NEW L, NEW at, Arranged(m, L, at), NEW id \in Ids
  PROVE  /\ Data(m, id) \in Seq(HalfWord)
         /\ Data(m, id) = <<>> <=> AJ_FindNVEntry(m, id) = 0
         /\ \A i \in 0..(L - 1) : m[at[i]] = id =>
              /\ AJ_FindNVEntry(m, id) = at[i] /\ at[i] # 0
              /\ Len(Data(m, id)) = m[at[i] + 1]
              /\ \A x \in 1..m[at[i] + 1] : Data(m, id)[x] = m[at[i] + 1 + x]
<1>1. ASSUME NEW i \in 0..(L - 1), m[at[i]] = id
      PROVE  /\ AJ_FindNVEntry(m, id) = at[i] /\ at[i] # 0
             /\ Data(m, id) \in Seq(HalfWord) /\ Data(m, id) # <<>>
             /\ Len(Data(m, id)) = m[at[i] + 1]
             /\ \A x \in 1..m[at[i] + 1] : Data(m, id)[x] = m[at[i] + 1 + x]
  <2> DEFINE n == m[at[i] + 1]
             p == at[i]
             d == [x \in 1..n |-> m[p + 1 + x]]
  <2>1. Layout(m, L, at) /\ m \in Memory
    BY DEF Arranged
  <2>2. i + 1 \in 0..L
    BY <2>1, LayoutFacts, Sizes
  <2>3. /\ n \in Nat \ {0, 1} /\ p \in 3..(NvSize - 3) /\ p + 2 + n <= NvSize + 1
    <3>1. at[i + 1] = p + 2 + n /\ at[i + 1] \in 3..(NvSize + 1)
      BY <2>1, <2>2, LayoutFacts
    <3>2. n \in Nat \ {0, 1} /\ p \in 3..(NvSize - 3)
      BY <2>1, LayoutFacts
    <3> QED
      BY <3>1, <3>2, Sizes
  <2>4. AJ_FindNVEntry(m, id) = p /\ p # 0
    BY <1>1, <2>3, FindEntry, Sizes
  <2>5. Data(m, id) = d
    BY <2>4 DEF Data, Capacity
  <2>6. \A x \in 1..n : m[p + 1 + x] \in HalfWord
    <3> HIDE DEF n, p
    <3>1. \A x \in 1..n : p + 1 + x \in 1..NvSize
      BY <2>3, Sizes
    <3> QED
      BY <2>1, <3>1 DEF Memory
  <2>7. d \in Seq(HalfWord) /\ Len(d) = n /\ d # <<>>
    <3> DEFINE N == n
    <3>1. d \in [1..N -> HalfWord] /\ N \in Nat \ {0, 1}
      BY <2>3, <2>6
    <3> HIDE DEF d, N
    <3>2. d \in Seq(HalfWord) /\ Len(d) = N
      BY <3>1
    <3> QED
      BY <3>1, <3>2 DEF N
  <2>8. \A x \in 1..n : d[x] = m[p + 1 + x]
    OBVIOUS
  <2> QED
    BY <2>4, <2>5, <2>7, <2>8
<1>2. CASE \E i \in 0..(L - 1) : m[at[i]] = id
  BY <1>1, <1>2
<1>3. CASE ~\E i \in 0..(L - 1) : m[at[i]] = id
  <2>1. AJ_FindNVEntry(m, id) = 0
    BY <1>3, FindNone DEF Arranged
  <2>2. Data(m, id) = <<>>
    BY <2>1 DEF Data
  <2> QED
    BY <1>3, <2>1, <2>2
<1> QED
  BY <1>2, <1>3

\* An entry of m that is also one of m2.
SameEntry(m, p, m2, q) == \A x \in 0..(m[p + 1] + 1) : m2[q + x] = m[p + x]

LEMMA DataKept ==
  ASSUME NEW m, NEW L, NEW at, Arranged(m, L, at),
         NEW m2, NEW L2, NEW at2, Arranged(m2, L2, at2), NEW id \in Ids,
         \A i \in 0..(L - 1) : m[at[i]] = id => \E j \in 0..(L2 - 1) : SameEntry(m, at[i], m2, at2[j]),
         \A j \in 0..(L2 - 1) : m2[at2[j]] = id => \E i \in 0..(L - 1) : m[at[i]] = id
  PROVE  Data(m2, id) = Data(m, id)
<1>1. CASE \E i \in 0..(L - 1) : m[at[i]] = id
  <2>1. PICK i \in 0..(L - 1) : m[at[i]] = id
    BY <1>1
  <2>2. PICK j \in 0..(L2 - 1) : SameEntry(m, at[i], m2, at2[j])
    BY <2>1
  <2> DEFINE n == m[at[i] + 1]
             p == at[i]
             q == at2[j]
  <2>3. n \in Nat /\ p \in Nat /\ q \in Nat
    <3>1. Layout(m, L, at) /\ Layout(m2, L2, at2)
      BY DEF Arranged
    <3>2. n \in Nat /\ p \in Nat
      BY <3>1, LayoutFacts, SMTT(30)
    <3>3. at2[j] \in 3..(NvSize - 3)
      BY <3>1, LayoutFacts
    <3> QED
      BY <3>2, <3>3, Sizes
  <2>4. m2[q] = id /\ m2[q + 1] = n
    <3>1. 0 \in 0..(n + 1) /\ 1 \in 0..(n + 1)
      BY <2>3
    <3>2. m2[q + 0] = m[p + 0] /\ m2[q + 1] = m[p + 1]
      BY <2>2, <3>1 DEF SameEntry
    <3>3. q + 0 = q /\ p + 0 = p
      BY <2>3
    <3> QED
      BY <2>1, <3>2, <3>3
  <2>5. /\ Len(Data(m, id)) = n /\ Data(m, id) \in Seq(HalfWord)
        /\ \A x \in 1..n : Data(m, id)[x] = m[p + 1 + x]
    BY <2>1, DataFacts
  <2>6. /\ Len(Data(m2, id)) = n /\ Data(m2, id) \in Seq(HalfWord)
        /\ \A x \in 1..n : Data(m2, id)[x] = m2[q + 1 + x]
    BY <2>4, DataFacts
  <2>7. \A x \in 1..n : m2[q + 1 + x] = m[p + 1 + x]
    <3> SUFFICES ASSUME NEW x \in 1..n PROVE m2[q + 1 + x] = m[p + 1 + x]
      OBVIOUS
    <3> HIDE DEF n, p, q
    <3>1. 1 + x \in 0..(n + 1) /\ q + 1 + x = q + (1 + x) /\ p + 1 + x = p + (1 + x)
      BY <2>3
    <3>2. m2[q + (1 + x)] = m[p + (1 + x)]
      BY <2>2, <3>1 DEF SameEntry, n, p, q
    <3> QED
      BY <3>1, <3>2
  <2> HIDE DEF n, p, q
  <2>8. \A x \in 1..n : Data(m2, id)[x] = Data(m, id)[x]
    BY <2>5, <2>6, <2>7
  <2> QED
    BY <2>3, <2>5, <2>6, <2>8, SeqEqual
<1>2. CASE ~\E i \in 0..(L - 1) : m[at[i]] = id
  <2>1. AJ_FindNVEntry(m, id) = 0
    BY <1>2, FindNone DEF Arranged
  <2>2. AJ_FindNVEntry(m2, id) = 0
    BY <1>2, FindNone DEF Arranged
  <2> QED
    BY <2>1, <2>2 DEF Data
<1> QED
  BY <1>1, <1>2

LEMMA PatchAt ==
  ASSUME NEW m \in Memory, NEW from \in Nat, NEW cells \in Seq(HalfWord)
  PROVE  /\ Patch(m, from, cells) \in Memory
         /\ \A x \in 1..NvSize : Patch(m, from, cells)[x] =
              IF x \in from..(from + Len(cells) - 1) THEN cells[x - from + 1] ELSE m[x]
<1>1. DOMAIN m = 1..NvSize /\ \A x \in 1..NvSize : m[x] \in HalfWord
  BY DEF Memory
<1>2. \A x \in 1..NvSize : Patch(m, from, cells)[x] =
        IF x \in from..(from + Len(cells) - 1) THEN cells[x - from + 1] ELSE m[x]
  BY <1>1 DEF Patch
<1>3. \A x \in from..(from + Len(cells) - 1) : cells[x - from + 1] \in HalfWord
  <2> SUFFICES ASSUME NEW x \in from..(from + Len(cells) - 1) PROVE cells[x - from + 1] \in HalfWord
    OBVIOUS
  <2>1. Len(cells) \in Nat /\ x - from + 1 \in 1..Len(cells)
    OBVIOUS
  <2> QED
    BY <2>1, ElementOfSeq
<1>4. Patch(m, from, cells) \in [1..NvSize -> HalfWord]
  BY <1>1, <1>3 DEF Patch
<1> QED
  BY <1>2, <1>4 DEF Memory

LEMMA PatchFacts ==
  ASSUME NEW m \in Memory, NEW from \in 1..NvSize, NEW cells \in Seq(HalfWord)
  PROVE  /\ Patch(m, from, cells) \in Memory
         /\ \A x \in 1..NvSize : Patch(m, from, cells)[x] =
              IF x \in from..(from + Len(cells) - 1) THEN cells[x - from + 1] ELSE m[x]
<1>1. from \in Nat
  BY Sizes
<1> QED
  BY <1>1, PatchAt

\* A memory changed where no capacity is and no free space, with no id INVALID_DATA.
LEMMA SameLayout ==
  ASSUME NEW m, NEW L, NEW at, Layout(m, L, at), NEW m2,
         \A i \in 0..(L - 1) : m2[at[i]] # INVALID_DATA /\ m2[at[i] + 1] = m[at[i] + 1],
         \A x \in at[L]..NvSize : m2[x] = m[x]
  PROVE  Layout(m2, L, at)
BY DEF Layout, Chain

-----------------------------------------------------------------------------
\* What the operations make of a good memory, as to the data of each id.
Good(m) ==
  /\ m[1] = Sentinel[1] /\ m[2] = Sentinel[2]
  /\ \E L, at : Arranged(m, L, at)

Kept(m, m2, S) == \A k \in Ids \ S : Data(m2, k) = Data(m, k)

\* AJ_NVRAM_Delete.
Deleted(m, id) == Patch(m, AJ_FindNVEntry(m, id), <<INVALID_ID, Capacity(m, AJ_FindNVEntry(m, id))>>)

LEMMA DeleteFacts ==
  ASSUME NEW m, Good(m), NEW id \in Ids, AJ_FindNVEntry(m, id) # 0
  PROVE  /\ AJ_FindNVEntry(m, id) \in 1..NvSize
         /\ <<INVALID_ID, Capacity(m, AJ_FindNVEntry(m, id))>> \in Seq(HalfWord)
         /\ Good(Deleted(m, id)) /\ Data(Deleted(m, id), id) = <<>>
         /\ Kept(m, Deleted(m, id), {id})
         /\ m[3] # id => Deleted(m, id)[3] = m[3]
<1>1. PICK L, at : Arranged(m, L, at)
  BY DEF Good
<1>2. PICK i \in 0..(L - 1) : m[at[i]] = id /\ AJ_FindNVEntry(m, id) = at[i]
  BY <1>1, FoundEntry
<1> DEFINE p == at[i]
           m2 == Patch(m, p, <<INVALID_ID, m[p + 1]>>)
<1>3. Deleted(m, id) = m2 /\ <<INVALID_ID, Capacity(m, AJ_FindNVEntry(m, id))>> = <<INVALID_ID, m[p + 1]>>
  BY <1>2 DEF Deleted, Capacity
<1>4. m \in Memory /\ Layout(m, L, at) /\ L \in Nat
  BY <1>1, LayoutFacts DEF Arranged
<1>5. p \in 3..(NvSize - 3) /\ p + 1 \in 1..NvSize /\ p \in 1..NvSize
  BY <1>4, LayoutFacts, Sizes, SMTT(30)
<1>6. <<INVALID_ID, m[p + 1]>> \in Seq(HalfWord)
  <2>1. INVALID_ID \in HalfWord /\ m[p + 1] \in HalfWord
    BY <1>4, <1>5, Sizes DEF Memory, HalfWord
  <2> QED
    BY <2>1
<1>7. m2 \in Memory /\ \A x \in 1..NvSize : m2[x] = IF x = p THEN INVALID_ID ELSE m[x]
  <2> DEFINE c == <<INVALID_ID, m[p + 1]>>
  <2>1. c[1] = INVALID_ID /\ c[2] = m[p + 1] /\ Len(c) = 2
    OBVIOUS
  <2> HIDE DEF c
  <2>2. /\ Patch(m, p, c) \in Memory
        /\ \A x \in 1..NvSize : Patch(m, p, c)[x] = IF x \in p..(p + Len(c) - 1) THEN c[x - p + 1] ELSE m[x]
    BY <1>4, <1>5, <1>6, PatchFacts DEF c
  <2>3. ASSUME NEW x \in 1..NvSize PROVE Patch(m, p, c)[x] = IF x = p THEN INVALID_ID ELSE m[x]
    <3> HIDE DEF p
    <3>1. x \in p..(p + 2 - 1) <=> x = p \/ x = p + 1
      BY <1>5, Sizes
    <3>2. x = p => x - p + 1 = 1
      BY <1>5
    <3>3. x = p + 1 => x - p + 1 = 2
      BY <1>5
    <3> QED
      BY <2>1, <2>2, <3>1, <3>2, <3>3
  <2> QED
    BY <2>2, <2>3 DEF c
<1> HIDE DEF m2
<1>8. ASSUME NEW j \in 0..(L - 1)
      PROVE  /\ at[j] \in 1..NvSize /\ at[j] + 1 \in 1..NvSize /\ m2[at[j] + 1] = m[at[j] + 1]
             /\ j = i => m2[at[j]] = INVALID_ID
             /\ j # i => m2[at[j]] = m[at[j]] /\ SameEntry(m, at[j], m2, at[j])
  <2> DEFINE q == at[j]
             n == m[q + 1]
  <2>1. q \in 3..(NvSize - 3) /\ n \in Nat /\ j + 1 \in 0..L /\ at[j + 1] = q + 2 + n
    BY <1>4, LayoutFacts
  <2>2. q + 2 + n <= NvSize + 1
    <3>1. at[j + 1] \in 3..(NvSize + 1)
      BY <1>4, <2>1, LayoutFacts
    <3> HIDE DEF q, n
    <3> QED
      BY <2>1, <3>1, Sizes
  <2>3. i \in 0..L /\ j \in 0..L /\ (j < i => j \in 0..(i - 1)) /\ (i < j => i \in 0..(j - 1))
    BY <1>4
  <2>4. (j < i => at[j + 1] <= at[i]) /\ (i < j => at[i] + 4 <= at[j])
    BY <1>4, <2>3, LayoutFacts
  <2> HIDE DEF q, n
  <2>5. q \in 1..NvSize /\ q + 1 \in 1..NvSize /\ p \in Nat /\ q \in Nat
    BY <1>5, <2>1, Sizes
  <2>6. j < i => q + 2 + n <= p
    BY <2>1, <2>4
  <2>7. i < j => p + 4 <= q
    BY <2>4 DEF q
  <2>8. j # i => \A x \in 0..(n + 1) : q + x # p /\ q + x \in 1..NvSize
    BY <2>1, <2>2, <2>5, <2>6, <2>7, <1>4, Sizes
  <2>9. q + 1 # p
    <3>1. j = i => q = p
      BY DEF q
    <3> QED
      BY <2>1, <2>5, <2>6, <2>7, <3>1
  <2>10. m2[q + 1] = m[q + 1]
    BY <1>7, <2>5, <2>9
  <2>11. j = i => m2[q] = INVALID_ID
    BY <1>7, <2>5 DEF q
  <2>12. ASSUME j # i PROVE m2[q] = m[q] /\ SameEntry(m, q, m2, q)
    <3>1. \A x \in 0..(n + 1) : m2[q + x] = m[q + x]
      BY <1>7, <2>8, <2>12
    <3>2. 0 \in 0..(n + 1) /\ q + 0 = q
      BY <2>1, <2>5
    <3> QED
      BY <3>1, <3>2 DEF SameEntry, n
  <2> QED
    BY <2>5, <2>10, <2>11, <2>12 DEF q
<1>9. Layout(m2, L, at)
  <2>1. ASSUME NEW j \in 0..(L - 1)
        PROVE  m2[at[j]] # INVALID_DATA /\ m2[at[j] + 1] = m[at[j] + 1]
    <3>1. m[at[j]] # INVALID_DATA
      BY <1>4, LayoutFacts
    <3>2. INVALID_ID # INVALID_DATA
      BY Sizes
    <3> QED
      BY <1>8, <3>1, <3>2
  <2>2. \A x \in at[L]..NvSize : m2[x] = m[x]
    <3>1. L \in 0..L /\ at[i] + 4 <= at[L] /\ at[L] \in 3..(NvSize + 1)
      BY <1>4, LayoutFacts
    <3>2. \A x \in at[L]..NvSize : x \in 1..NvSize /\ x # p
      BY <1>5, <3>1, Sizes
    <3> QED
      BY <1>7, <3>2
  <2> QED
    BY <1>4, <2>1, <2>2, SameLayout
<1>10. Arranged(m2, L, at)
  <2>1. \A j, k \in 0..(L - 1) : m2[at[j]] = m2[at[k]] => j = k \/ m2[at[j]] = INVALID_ID
    BY <1>1, <1>8 DEF Arranged
  <2> QED
    BY <1>7, <1>9, <2>1 DEF Arranged
<1>11. id # INVALID_ID
  BY DEF Ids
<1>12. \A j \in 0..(L - 1) : m2[at[j]] # id
  BY <1>1, <1>2, <1>8, <1>11 DEF Arranged
<1>13. Data(m2, id) = <<>>
  BY <1>9, <1>12, FindNone DEF Data
<1>14. ASSUME NEW k \in Ids \ {id} PROVE Data(m2, k) = Data(m, k)
  <2>1. \A j \in 0..(L - 1) : m[at[j]] = k => SameEntry(m, at[j], m2, at[j])
    BY <1>2, <1>8
  <2>2. k # INVALID_ID
    BY DEF Ids
  <2>3. \A j \in 0..(L - 1) : m2[at[j]] = k => m[at[j]] = k
    BY <1>8, <2>2
  <2> QED
    BY <1>1, <1>10, <2>1, <2>3, DataKept
<1>15. m2[1] = m[1] /\ m2[2] = m[2] /\ (m[3] # id => m2[3] = m[3])
  <2>1. 1 \in 1..NvSize /\ 2 \in 1..NvSize /\ 3 \in 1..NvSize /\ p # 1 /\ p # 2
    BY <1>5, Sizes
  <2> QED
    BY <1>2, <1>7, <2>1
<1>16. Good(m2)
  BY <1>10, <1>15 DEF Good
<1> QED
  BY <1>2, <1>3, <1>5, <1>6, <1>13, <1>14, <1>15, <1>16 DEF Kept

\* Where an entry ends.
LEMMA Extent ==
  ASSUME NEW m, NEW L, NEW at, Layout(m, L, at), NEW j \in 0..(L - 1)
  PROVE  /\ at[j] \in 3..(NvSize - 3) /\ m[at[j] + 1] \in Nat \ {0, 1} /\ m[at[j] + 1] <= NvSize
         /\ at[j] + 2 + m[at[j] + 1] <= NvSize + 1
         /\ \A k \in 0..L : k > j => at[j] + 2 + m[at[j] + 1] <= at[k]
         /\ at[j] + 2 + m[at[j] + 1] <= at[L]
         /\ m[at[j]] # INVALID_DATA /\ at[j + 1] = at[j] + 2 + m[at[j] + 1]
<1> DEFINE q == at[j]
           n == m[q + 1]
           e == at[j + 1]
<1>1. /\ q \in 3..(NvSize - 3) /\ n \in Nat \ {0, 1} /\ e = q + 2 + n /\ L \in Nat
      /\ m[q] # INVALID_DATA
  BY LayoutFacts
<1>2. j \in 0..L /\ L \in 0..L /\ L > j /\ j + 1 \in 0..L
  BY <1>1
<1>3. e \in 3..(NvSize + 1)
  BY <1>2, LayoutFacts
<1>4. ASSUME NEW k \in 0..L, k > j PROVE e <= at[k]
  <2>1. j \in 0..(k - 1)
    BY <1>2, <1>4
  <2> QED
    BY <2>1, LayoutFacts
<1> HIDE DEF q, n, e
<1>5. q + 2 + n <= NvSize + 1 /\ n <= NvSize
  BY <1>1, <1>3, Sizes
<1>6. \A k \in 0..L : k > j => q + 2 + n <= at[k]
  BY <1>1, <1>4
<1> QED
  BY <1>1, <1>2, <1>5, <1>6 DEF q, n, e

\* AJ_NVRAM_Create, when there is room.
Created(m, id, size) == Patch(m, FreeAt(m), <<id, size>>)

LEMMA CreateFacts ==
  ASSUME NEW m, Good(m), NEW id \in Ids, AJ_FindNVEntry(m, id) = 0, NEW size \in Nat \ {0, 1},
         FreeAt(m) + 2 + size <= NvSize + 1
  PROVE  /\ FreeAt(m) \in 1..NvSize /\ <<id, size>> \in Seq(HalfWord)
         /\ Good(Created(m, id, size)) /\ Data(Created(m, id, size), id) = Blank(size)
         /\ AJ_FindNVEntry(Created(m, id, size), id) = FreeAt(m)
         /\ Kept(m, Created(m, id, size), {id})
         /\ m[3] # INVALID_DATA => Created(m, id, size)[3] = m[3]
         /\ m[3] = INVALID_DATA => Created(m, id, size)[3] = id
<1>1. PICK L, at : Arranged(m, L, at)
  BY DEF Good
<1> DEFINE p == at[L]
           c == <<id, size>>
           m2 == Patch(m, p, c)
           at2 == [i \in 0..(L + 1) |-> IF i <= L THEN at[i] ELSE at[L] + 2 + size]
<1>2. m \in Memory /\ Layout(m, L, at) /\ L \in Nat /\ at \in [0..L -> Nat] /\ at[0] = 3
  BY <1>1, LayoutFacts DEF Arranged
<1>3. FreeAt(m) = p /\ Created(m, id, size) = m2
  BY <1>2, FreeIs DEF Created
<1>4. p \in 3..(NvSize + 1) /\ p + 2 + size <= NvSize + 1
  <2>1. L \in 0..L
    BY <1>2
  <2> QED
    BY <1>2, <1>3, <2>1, LayoutFacts
<1>5. p \in 1..NvSize /\ p + 1 \in 1..NvSize /\ size <= NvSize /\ p \in Nat
  <2> HIDE DEF p
  <2> QED
    BY <1>4, Sizes
<1>6. c \in Seq(HalfWord)
  <2>1. id \in HalfWord /\ size \in HalfWord
    BY <1>5, Sizes DEF HalfWord, Ids
  <2> QED
    BY <2>1
<1>7. m2 \in Memory /\ \A x \in 1..NvSize : m2[x] = IF x = p THEN id ELSE IF x = p + 1 THEN size ELSE m[x]
  <2>1. c[1] = id /\ c[2] = size /\ Len(c) = 2
    OBVIOUS
  <2> HIDE DEF c
  <2>2. /\ Patch(m, p, c) \in Memory
        /\ \A x \in 1..NvSize : Patch(m, p, c)[x] = IF x \in p..(p + Len(c) - 1) THEN c[x - p + 1] ELSE m[x]
    <3> HIDE DEF p
    <3> QED
      BY <1>2, <1>5, <1>6, PatchFacts
  <2>3. ASSUME NEW x \in 1..NvSize
        PROVE Patch(m, p, c)[x] = IF x = p THEN id ELSE IF x = p + 1 THEN size ELSE m[x]
    <3> HIDE DEF p
    <3>1. x \in p..(p + 2 - 1) <=> x = p \/ x = p + 1
      BY <1>5, Sizes
    <3>2. x = p => x - p + 1 = 1
      BY <1>5
    <3>3. x = p + 1 => x - p + 1 = 2 /\ x # p
      BY <1>5
    <3> QED
      BY <2>1, <2>2, <3>1, <3>2, <3>3
  <2> QED
    BY <2>2, <2>3
<1> HIDE DEF m2
<1>8. ASSUME NEW j \in 0..(L - 1)
      PROVE  /\ m2[at[j]] = m[at[j]] /\ m2[at[j] + 1] = m[at[j] + 1]
             /\ SameEntry(m, at[j], m2, at[j])
  <2> DEFINE q == at[j]
             n == m[q + 1]
  <2>1. q \in 3..(NvSize - 3) /\ n \in Nat \ {0, 1} /\ q + 2 + n <= p
    BY <1>2, Extent
  <2> HIDE DEF q, n, p
  <2>2. \A x \in 0..(n + 1) : q + x \in 1..NvSize /\ q + x # p /\ q + x # p + 1
    BY <1>5, <2>1, Sizes
  <2>3. \A x \in 0..(n + 1) : m2[q + x] = m[q + x]
    BY <1>7, <2>2
  <2>4. 0 \in 0..(n + 1) /\ 1 \in 0..(n + 1) /\ q + 0 = q
    BY <2>1, Sizes
  <2>5. m2[q + 0] = m[q + 0] /\ m2[q + 1] = m[q + 1]
    BY <2>3, <2>4
  <2> QED
    BY <2>3, <2>4, <2>5 DEF SameEntry, q, n
<1>9. ASSUME NEW j \in 0..(L - 1)
      PROVE  /\ m[at[j]] # INVALID_DATA /\ m[at[j] + 1] \in Nat \ {0, 1}
             /\ at[j + 1] = at[j] + 2 + m[at[j] + 1]
  <2>0. Layout(m, L, at)
    BY <1>2
  <2>1. m[at[j]] # INVALID_DATA
    BY <2>0, Extent
  <2>2. m[at[j] + 1] \in Nat \ {0, 1}
    BY <2>0, Extent
  <2>3. at[j + 1] = at[j] + 2 + m[at[j] + 1]
    BY <2>0, Extent
  <2> QED
    BY <2>1, <2>2, <2>3
<1>21. m2[p] = id /\ m2[p + 1] = size
  <2>1. p + 1 # p
    BY <1>5
  <2> QED
    BY <1>5, <1>7, <2>1
<1>10. /\ L + 1 \in Nat /\ at2 \in [0..(L + 1) -> Nat] /\ at2[0] = 3 /\ at2[L + 1] = p + 2 + size
       /\ \A j \in 0..L : at2[j] = at[j]
  <2>1. L + 1 \in Nat /\ at2 \in [0..(L + 1) -> Nat]
    BY <1>2, <1>4
  <2>2. \A j \in 0..L : j \in 0..(L + 1) /\ j <= L
    BY <1>2
  <2>3. 0 \in 0..L /\ L + 1 \in 0..(L + 1) /\ ~(L + 1 <= L)
    BY <1>2
  <2> QED
    BY <1>2, <2>1, <2>2, <2>3
<1> HIDE DEF at2
<1>11. Layout(m2, L + 1, at2)
  <2>1. ASSUME NEW j \in 0..((L + 1) - 1)
        PROVE  /\ m2[at2[j]] # INVALID_DATA /\ m2[at2[j] + 1] \in Nat \ {0, 1}
               /\ at2[j + 1] = at2[j] + 2 + m2[at2[j] + 1]
    <3>1. CASE j = L
      <4>1. at2[j] = p /\ at2[j + 1] = p + 2 + size
        BY <1>2, <1>10, <3>1
      <4>2. id # INVALID_DATA
        BY DEF Ids
      <4> QED
        BY <1>21, <4>1, <4>2
    <3>2. CASE j # L
      <4>1. j \in 0..(L - 1) /\ j \in 0..L /\ j + 1 \in 0..L
        BY <1>2, <3>2
      <4>2. at2[j] = at[j] /\ at2[j + 1] = at[j + 1]
        BY <1>10, <4>1
      <4>3. /\ m[at[j]] # INVALID_DATA /\ m[at[j] + 1] \in Nat \ {0, 1}
            /\ at[j + 1] = at[j] + 2 + m[at[j] + 1]
        BY <4>1, <1>9
      <4> QED
        BY <1>8, <4>1, <4>2, <4>3
    <3> QED
      BY <3>1, <3>2
  <2>2. \A x \in at2[L + 1]..NvSize : m2[x] = INVALID_DATA
    <3>1. \A x \in (p + 2 + size)..NvSize : x \in 1..NvSize /\ x # p /\ x # p + 1 /\ x \in p..NvSize
      <4> HIDE DEF p
      <4> QED
        BY <1>5, Sizes
    <3>2. \A x \in p..NvSize : m[x] = INVALID_DATA
      BY <1>2, LayoutFacts
    <3> QED
      BY <1>7, <1>10, <3>1, <3>2
  <2> QED
    BY <1>4, <1>10, <2>1, <2>2 DEF Layout, Chain
<1>12. \A j \in 0..(L - 1) : m[at[j]] # id
  <2> SUFFICES ASSUME NEW j \in 0..(L - 1), m[at[j]] = id PROVE FALSE
    OBVIOUS
  <2>1. AJ_FindNVEntry(m, id) = at[j]
    BY <1>1, FindEntry
  <2>2. at[j] \in 3..(NvSize - 3)
    <3>1. Layout(m, L, at) /\ j \in 0..(L - 1)
      BY <1>2
    <3> QED
      BY <3>1, Extent, ZenonT(30)
  <2> HIDE DEF p
  <2> QED
    BY <2>1, <2>2
<1>13. \A j \in 0..L : m2[at2[j]] = IF j = L THEN id ELSE m[at[j]]
  <2>1. \A j \in 0..L : j # L => j \in 0..(L - 1)
    BY <1>2
  <2> QED
    BY <1>8, <1>21, <1>10, <2>1
<1>14. Arranged(m2, L + 1, at2)
  <2>1. (L + 1) - 1 = L /\ \A j \in 0..L : j # L => j \in 0..(L - 1)
    BY <1>2
  <2>2. \A j, k \in 0..L : m2[at2[j]] = m2[at2[k]] => j = k \/ m2[at2[j]] = INVALID_ID
    BY <1>1, <1>12, <1>13, <2>1 DEF Arranged
  <2> QED
    BY <1>7, <1>11, <2>1, <2>2 DEF Arranged
<1>15. L \in 0..((L + 1) - 1) /\ at2[L] = p
  BY <1>2, <1>10
<1>16. AJ_FindNVEntry(m2, id) = p
  BY <1>21, <1>14, <1>15, FindEntry
<1>17. Data(m2, id) = Blank(size)
  <2>1. /\ Len(Data(m2, id)) = size /\ Data(m2, id) \in Seq(HalfWord)
        /\ \A x \in 1..size : Data(m2, id)[x] = m2[p + 1 + x]
    <3>1. m2[at2[L]] = id /\ m2[at2[L] + 1] = size
      BY <1>21, <1>15
    <3>2. /\ Len(Data(m2, id)) = m2[at2[L] + 1] /\ Data(m2, id) \in Seq(HalfWord)
          /\ \A x \in 1..m2[at2[L] + 1] : Data(m2, id)[x] = m2[at2[L] + 1 + x]
      BY <1>14, <1>15, <3>1, DataFacts
    <3> QED
      BY <1>15, <3>1, <3>2
  <2>2. \A x \in 1..size : m2[p + 1 + x] = INVALID_DATA
    <3>1. \A x \in p..NvSize : m[x] = INVALID_DATA
      BY <1>2, LayoutFacts
    <3> HIDE DEF p
    <3>2. \A x \in 1..size : /\ p + 1 + x \in 1..NvSize /\ p + 1 + x # p /\ p + 1 + x # p + 1
                             /\ p + 1 + x \in p..NvSize
      BY <1>4, <1>5, Sizes
    <3> QED
      BY <1>7, <3>1, <3>2
  <2> DEFINE d == Data(m2, id)
             b == Blank(size)
  <2>3. b \in [1..size -> {INVALID_DATA}]
    BY DEF Blank
  <2>4. b \in Seq({INVALID_DATA}) /\ Len(b) = size /\ \A x \in 1..size : b[x] = INVALID_DATA
    <3> HIDE DEF b
    <3> QED
      BY <2>3
  <2>5. \A x \in 1..size : d[x] = b[x]
    BY <2>1, <2>2, <2>4
  <2> HIDE DEF d, b
  <2>6. d = b
    BY <2>1, <2>4, <2>5, SeqEqual DEF d
  <2> QED
    BY <2>6 DEF d, b
<1>18. ASSUME NEW k \in Ids \ {id} PROVE Data(m2, k) = Data(m, k)
  <2>1. \A j \in 0..(L - 1) : j \in 0..L /\ j \in 0..((L + 1) - 1)
    BY <1>2
  <2>2. \A j \in 0..(L - 1) : SameEntry(m, at[j], m2, at2[j])
    BY <1>8, <1>10, <2>1
  <2>3. \A j \in 0..((L + 1) - 1) : m2[at2[j]] = k => j \in 0..(L - 1) /\ m[at[j]] = k
    <3>1. \A j \in 0..((L + 1) - 1) : j \in 0..L /\ (j # L => j \in 0..(L - 1))
      BY <1>2
    <3> QED
      BY <1>13, <3>1
  <2> QED
    BY <1>1, <1>14, <2>1, <2>2, <2>3, DataKept
<1>19. /\ m2[1] = m[1] /\ m2[2] = m[2] /\ (m[3] # INVALID_DATA => m2[3] = m[3])
       /\ (m[3] = INVALID_DATA => m2[3] = id)
  <2>1. 1 \in 1..NvSize /\ 2 \in 1..NvSize /\ 3 \in 1..NvSize /\ p # 1 /\ p # 2 /\ p + 1 # 1 /\ p + 1 # 2 /\ p + 1 # 3
    <3> HIDE DEF p
    <3> QED
      BY <1>4, Sizes
  <2>2. CASE L = 0
    <3>1. p = 3 /\ m[3] = INVALID_DATA
      <4>1. p = 3 /\ p \in p..NvSize
        BY <1>2, <1>5, <2>2
      <4> QED
        BY <1>2, <4>1, LayoutFacts
    <3> QED
      BY <1>7, <2>1, <3>1
  <2>3. CASE L # 0
    <3>1. 0 \in 0..(L - 1)
      BY <1>2, <2>3
    <3>2. m[at[0]] # INVALID_DATA
      BY <1>2, <3>1, Extent, SMTT(30)
    <3>3. p >= 7 /\ p \in Nat
      <4> DEFINE n == m[at[0] + 1]
      <4>1. n \in Nat \ {0, 1} /\ at[0] + 2 + n <= p
        BY <1>2, <3>1, Extent, Zenon
      <4> HIDE DEF p, n
      <4> QED
        BY <1>2, <1>5, <4>1
    <3> QED
      BY <1>2, <1>7, <2>1, <3>2, <3>3
  <2> QED
    BY <2>2, <2>3
<1>20. Good(m2)
  BY <1>14, <1>19 DEF Good
<1> QED
  BY <1>3, <1>5, <1>6, <1>16, <1>17, <1>18, <1>19, <1>20 DEF Kept

\* A write to the data of an entry.
Written(m, id, pos, cells) == Patch(m, AJ_FindNVEntry(m, id) + 2 + pos, cells)

LEMMA WriteFacts ==
  ASSUME NEW m, Good(m), NEW id \in Ids, NEW pos \in Nat, NEW cells \in Seq(HalfWord), Len(cells) > 0,
         AJ_FindNVEntry(m, id) # 0, pos + Len(cells) <= Len(Data(m, id))
  PROVE  /\ AJ_FindNVEntry(m, id) + 2 + pos \in 1..NvSize
         /\ Good(Written(m, id, pos, cells))
         /\ AJ_FindNVEntry(Written(m, id, pos, cells), id) = AJ_FindNVEntry(m, id)
         /\ Data(Written(m, id, pos, cells), id) = Patch(Data(m, id), pos + 1, cells)
         /\ Kept(m, Written(m, id, pos, cells), {id})
         /\ Written(m, id, pos, cells)[3] = m[3]
<1>1. PICK L, at : Arranged(m, L, at)
  BY DEF Good
<1>2. PICK i \in 0..(L - 1) : m[at[i]] = id /\ AJ_FindNVEntry(m, id) = at[i]
  BY <1>1, FoundEntry
<1> DEFINE p == at[i]
           n == m[p + 1]
           from == p + 2 + pos
           len == Len(cells)
           m2 == Patch(m, from, cells)
<1>3. Written(m, id, pos, cells) = m2
  BY <1>2 DEF Written
<1>4. m \in Memory /\ Layout(m, L, at) /\ L \in Nat
  BY <1>1, LayoutFacts DEF Arranged
<1>5. p \in 3..(NvSize - 3) /\ n \in Nat \ {0, 1} /\ p + 2 + n <= NvSize + 1
  BY <1>4, Extent
<1>6. /\ Len(Data(m, id)) = n /\ Data(m, id) \in Seq(HalfWord)
      /\ \A x \in 1..n : Data(m, id)[x] = m[p + 1 + x]
  BY <1>1, <1>2, DataFacts
<1>7. len \in Nat /\ len > 0 /\ pos + len <= n
  BY <1>6
<1>8. from \in 1..NvSize /\ from + len <= p + 2 + n /\ from >= p + 2 /\ p \in Nat
  <2> HIDE DEF p, n, len
  <2> QED
    BY <1>5, <1>7, Sizes
<1> HIDE DEF len, from
<1>9. m2 \in Memory /\ \A x \in 1..NvSize :
        m2[x] = IF x \in from..(from + len - 1) THEN cells[x - from + 1] ELSE m[x]
  BY <1>4, <1>8, PatchFacts DEF len
<1> HIDE DEF m2
<1>10. \A x \in 1..NvSize : x < from \/ x >= from + len => m2[x] = m[x]
  <2>1. \A x \in 1..NvSize : x < from \/ x >= from + len => x \notin from..(from + len - 1)
    BY <1>7, <1>8
  <2> QED
    BY <1>9, <2>1
<1>11. ASSUME NEW j \in 0..(L - 1)
       PROVE  /\ m2[at[j]] = m[at[j]] /\ m2[at[j] + 1] = m[at[j] + 1]
              /\ j # i => SameEntry(m, at[j], m2, at[j])
  <2> DEFINE q == at[j]
             k == m[q + 1]
  <2>1. q \in 3..(NvSize - 3) /\ k \in Nat \ {0, 1} /\ q + 2 + k <= NvSize + 1
    BY <1>4, Extent
  <2>2. i < j => p + 2 + n <= q
    <3>1. i < j => j \in 0..L /\ j > i
      BY <1>4
    <3>2. \A l \in 0..L : l > i => at[i] + 2 + m[at[i] + 1] <= at[l]
      BY <1>4, Extent
    <3> QED
      BY <3>1, <3>2
  <2>3. j < i => q + 2 + k <= p
    <3>1. j < i => i \in 0..L /\ i > j
      BY <1>4
    <3>2. \A l \in 0..L : l > j => at[j] + 2 + m[at[j] + 1] <= at[l]
      BY <1>4, Extent
    <3> QED
      BY <3>1, <3>2
  <2> HIDE DEF p, n, q, k
  <2>4. q \in 1..NvSize /\ q + 1 \in 1..NvSize /\ q + 0 = q
    BY <2>1, Sizes
  <2>5. (j = i => q = p) /\ i \in Int /\ j \in Int
    BY DEF p, q
  <2>6. /\ (q < from \/ q >= from + len) /\ (q + 1 < from \/ q + 1 >= from + len)
    <3>1. CASE j = i
      BY <1>5, <1>7, <1>8, <2>5, <3>1
    <3>2. CASE j < i
      BY <1>5, <1>7, <1>8, <2>1, <2>3, <3>2
    <3>3. CASE i < j
      BY <1>5, <1>7, <1>8, <2>1, <2>2, <3>3
    <3> QED
      BY <2>5, <3>1, <3>2, <3>3
  <2>7. m2[q] = m[q] /\ m2[q + 1] = m[q + 1]
    BY <1>10, <2>4, <2>6
  <2>8. ASSUME j # i PROVE SameEntry(m, q, m2, q)
    <3>1. ASSUME NEW x \in 0..(k + 1) PROVE q + x \in 1..NvSize /\ (q + x < from \/ q + x >= from + len)
      <4>1. q + x \in 1..NvSize
        BY <2>1, Sizes
      <4>2. CASE j < i
        BY <1>5, <1>7, <1>8, <2>1, <2>3, <4>1, <4>2
      <4>3. CASE i < j
        BY <1>5, <1>7, <1>8, <2>1, <2>2, <4>1, <4>3
      <4> QED
        BY <2>5, <2>8, <4>1, <4>2, <4>3
    <3>2. \A x \in 0..(k + 1) : m2[q + x] = m[q + x]
      BY <1>10, <3>1
    <3> QED
      BY <3>2 DEF SameEntry, k
  <2> QED
    BY <2>7, <2>8 DEF q
<1>12. Layout(m2, L, at)
  <2>1. \A j \in 0..(L - 1) : m2[at[j]] # INVALID_DATA /\ m2[at[j] + 1] = m[at[j] + 1]
    BY <1>4, <1>11, LayoutFacts, SMTT(30)
  <2>2. \A x \in at[L]..NvSize : m2[x] = m[x]
    <3>1. p + 2 + n <= at[L]
      BY <1>4, Extent
    <3>2. at[L] \in Nat
      <4>1. L \in 0..L
        BY <1>4
      <4> QED
        BY <1>4, <4>1, LayoutFacts
    <3> HIDE DEF p, n
    <3>3. \A x \in at[L]..NvSize : x \in 1..NvSize /\ x >= from + len
      BY <1>5, <1>7, <1>8, <3>1, <3>2, Sizes
    <3> QED
      BY <1>10, <3>3
  <2> QED
    BY <1>4, <2>1, <2>2, SameLayout
<1>13. Arranged(m2, L, at)
  BY <1>1, <1>9, <1>11, <1>12 DEF Arranged
<1>14. m2[p] = id /\ m2[p + 1] = n
  BY <1>2, <1>11
<1>15. AJ_FindNVEntry(m2, id) = p
  BY <1>13, <1>14, FindEntry
<1>16. Data(m2, id) = Patch(Data(m, id), pos + 1, cells)
  <2> DEFINE d == Data(m, id)
             e == Data(m2, id)
  <2>1. /\ Len(e) = n /\ e \in Seq(HalfWord) /\ \A x \in 1..n : e[x] = m2[p + 1 + x]
    BY <1>13, <1>14, DataFacts
  <2> HIDE DEF p, n, e, d
  <2>2. d \in [1..n -> HalfWord] /\ e \in [1..n -> HalfWord]
    BY <1>6, <2>1 DEF d
  <2>3. ASSUME NEW x \in 1..n
        PROVE  e[x] = IF x \in (pos + 1)..(pos + 1 + len - 1) THEN cells[x - (pos + 1) + 1] ELSE d[x]
    <3>1. p + 1 + x \in 1..NvSize
      BY <1>5, Sizes
    <3>2. from = p + 2 + pos
      BY DEF from
    <3>3. /\ x \in (pos + 1)..(pos + 1 + len - 1) <=> p + 1 + x \in from..(from + len - 1)
          /\ (p + 1 + x) - from + 1 = x - (pos + 1) + 1
      BY <1>5, <1>7, <3>1, <3>2
    <3>4. e[x] = m2[p + 1 + x] /\ d[x] = m[p + 1 + x]
      BY <1>6, <2>1 DEF d
    <3> QED
      BY <1>9, <3>1, <3>3, <3>4
  <2>4. DOMAIN d = 1..n /\ e = [x \in 1..n |-> e[x]]
    BY <2>2
  <2>5. e = [x \in 1..n |-> IF x \in (pos + 1)..(pos + 1 + len - 1) THEN cells[x - (pos + 1) + 1] ELSE d[x]]
    BY <2>3, <2>4, Zenon
  <2>6. e = Patch(d, pos + 1, cells)
    BY <2>4, <2>5 DEF Patch, len
  <2> QED
    BY <2>6 DEF d, e
<1>17. ASSUME NEW k \in Ids \ {id} PROVE Data(m2, k) = Data(m, k)
  <2>1. \A j \in 0..(L - 1) : m[at[j]] = k => SameEntry(m, at[j], m2, at[j])
    BY <1>2, <1>11
  <2>2. \A j \in 0..(L - 1) : m2[at[j]] = k => m[at[j]] = k
    BY <1>11
  <2> QED
    BY <1>1, <1>13, <2>1, <2>2, DataKept
<1>18. m2[1] = m[1] /\ m2[2] = m[2] /\ m2[3] = m[3]
  <2>1. 1 \in 1..NvSize /\ 2 \in 1..NvSize /\ 3 \in 1..NvSize /\ 1 < from /\ 2 < from /\ 3 < from
    <3> HIDE DEF p, n
    <3> QED
      BY <1>5, <1>8, Sizes
  <2> QED
    BY <1>10, <2>1
<1>19. Good(m2)
  BY <1>13, <1>18 DEF Good
<1>20. AJ_FindNVEntry(m, id) + 2 + pos = from
  BY <1>2 DEF from
<1> QED
  BY <1>2, <1>3, <1>8, <1>15, <1>16, <1>17, <1>18, <1>19, <1>20 DEF Kept

-----------------------------------------------------------------------------
\* Compaction.

LEMMA ChainExtent ==
  ASSUME NEW m, NEW K, NEW g, NEW end, Chain(m, K, g, end)
  PROVE  /\ K \in Nat /\ end \in Nat /\ end >= 3 + 4 * K /\ end <= NvSize + 1
         /\ \A l \in 0..(K - 1) : /\ g[l] \in 3..(NvSize - 3) /\ m[g[l] + 1] \in Nat \ {0, 1}
                                  /\ g[l] + 2 + m[g[l] + 1] <= end
<1>1. K \in Nat /\ g[K] = end /\ end <= NvSize + 1
  BY DEF Chain
<1>2. K \in 0..K /\ \A l \in 0..(K - 1) : l + 1 \in 0..K
  BY <1>1
<1>3. end \in Nat /\ end >= 3 + 4 * K
  BY <1>1, <1>2, Ascending
<1>4. ASSUME NEW l \in 0..(K - 1)
      PROVE  /\ g[l] \in 3..(NvSize - 3) /\ m[g[l] + 1] \in Nat \ {0, 1}
             /\ g[l] + 2 + m[g[l] + 1] <= end
  <2>1. g[l] \in 3..(NvSize - 3)
    BY Ascending
  <2>2. m[g[l] + 1] \in Nat \ {0, 1} /\ g[l + 1] = g[l] + 2 + m[g[l] + 1]
    BY DEF Chain
  <2>3. g[l + 1] <= end
    BY <1>2, Ascending
  <2> QED
    BY <2>1, <2>2, <2>3
<1> QED
  BY <1>1, <1>3, <1>4

\* The chain of a memory that is the same up to where the chain ends.
LEMMA ChainKept ==
  ASSUME NEW m, NEW K, NEW g, NEW end, Chain(m, K, g, end), NEW m2,
         \A x \in 3..(end - 1) : m2[x] = m[x]
  PROVE  /\ Chain(m2, K, g, end)
         /\ \A l \in 0..(K - 1) : m2[g[l]] = m[g[l]] /\ SameEntry(m, g[l], m2, g[l])
<1>1. ASSUME NEW l \in 0..(K - 1)
      PROVE  m2[g[l]] = m[g[l]] /\ m2[g[l] + 1] = m[g[l] + 1] /\ SameEntry(m, g[l], m2, g[l])
  <2> DEFINE q == g[l]
             n == m[q + 1]
  <2>1. q \in 3..(NvSize - 3) /\ n \in Nat \ {0, 1} /\ q + 2 + n <= end /\ end \in Nat
    BY ChainExtent
  <2> HIDE DEF q, n
  <2>2. \A x \in 0..(n + 1) : q + x \in 3..(end - 1)
    BY <2>1, Sizes
  <2>3. \A x \in 0..(n + 1) : m2[q + x] = m[q + x]
    BY <2>2
  <2>4. 0 \in 0..(n + 1) /\ 1 \in 0..(n + 1) /\ q + 0 = q
    BY <2>1, Sizes
  <2>5. m2[q + 0] = m[q + 0] /\ m2[q + 1] = m[q + 1]
    BY <2>3, <2>4
  <2> QED
    BY <2>3, <2>4, <2>5 DEF SameEntry, q, n
<1> QED
  BY <1>1 DEF Chain

\* A chain with an entry more.
Longer(g, K, end) == [l \in 0..(K + 1) |-> IF l <= K THEN g[l] ELSE end]

LEMMA ChainGrows ==
  ASSUME NEW m, NEW K, NEW g, NEW end, Chain(m, K, g, end), NEW n \in Nat \ {0, 1},
         m[end] # INVALID_DATA, m[end + 1] = n, end + 2 + n <= NvSize + 1
  PROVE  /\ Chain(m, K + 1, Longer(g, K, end + 2 + n), end + 2 + n)
         /\ Longer(g, K, end + 2 + n)[K] = end
         /\ \A l \in 0..(K - 1) : Longer(g, K, end + 2 + n)[l] = g[l]
<1> DEFINE e == end + 2 + n
           h == Longer(g, K, e)
<1>1. K \in Nat /\ end \in Nat /\ g[K] = end /\ g[0] = 3 /\ g \in [0..K -> Nat] /\ e \in Nat
  BY ChainExtent DEF Chain
<1>2. h \in [0..(K + 1) -> Nat] /\ h[K + 1] = e /\ \A l \in 0..K : h[l] = g[l]
  <2>1. h \in [0..(K + 1) -> Nat]
    BY <1>1 DEF Longer
  <2>2. K + 1 \in 0..(K + 1) /\ ~(K + 1 <= K) /\ \A l \in 0..K : l \in 0..(K + 1) /\ l <= K
    BY <1>1
  <2> QED
    BY <2>1, <2>2 DEF Longer
<1> HIDE DEF h
<1>3. ASSUME NEW l \in 0..((K + 1) - 1)
      PROVE  /\ m[h[l]] # INVALID_DATA /\ m[h[l] + 1] \in Nat \ {0, 1}
             /\ h[l + 1] = h[l] + 2 + m[h[l] + 1]
  <2>1. CASE l = K
    <3>1. h[l] = end /\ h[l + 1] = e
      BY <1>1, <1>2, <2>1
    <3> QED
      BY <3>1
  <2>2. CASE l # K
    <3>1. l \in 0..(K - 1) /\ l \in 0..K /\ l + 1 \in 0..K
      BY <1>1, <2>2
    <3>2. h[l] = g[l] /\ h[l + 1] = g[l + 1]
      BY <1>2, <3>1
    <3>3. /\ m[g[l]] # INVALID_DATA /\ m[g[l] + 1] \in Nat \ {0, 1}
          /\ g[l + 1] = g[l] + 2 + m[g[l] + 1]
      BY <3>1 DEF Chain
    <3> QED
      BY <3>2, <3>3
  <2> QED
    BY <2>1, <2>2
<1>4. K + 1 \in Nat /\ h[0] = 3 /\ K \in 0..K /\ \A l \in 0..(K - 1) : l \in 0..K
  BY <1>1, <1>2
<1>5. Chain(m, K + 1, h, e)
  BY <1>2, <1>3, <1>4 DEF Chain
<1> QED
  BY <1>1, <1>2, <1>4, <1>5 DEF h

\* The first i entries of m, which are at at, have been moved down to end at to.
Carried(m, at, i, m2, K, g) ==
  /\ \A l \in 0..(K - 1) : \E j \in 0..(i - 1) : m[at[j]] # INVALID_ID /\ SameEntry(m, at[j], m2, g[l])
  /\ \A j \in 0..(i - 1) : m[at[j]] # INVALID_ID => \E l \in 0..(K - 1) : SameEntry(m, at[j], m2, g[l])
  /\ \A l, k \in 0..(K - 1) : m2[g[l]] = m2[g[k]] => l = k

Compacted(m, at, i, m2, to) ==
  /\ m2 \in Memory /\ to <= at[i]
  /\ \A x \in at[i]..NvSize : m2[x] = m[x]
  /\ m2[1] = m[1] /\ m2[2] = m[2] /\ (m[3] # INVALID_ID => m2[3] = m[3])
  /\ \E K, g : Chain(m2, K, g, to) /\ Carried(m, at, i, m2, K, g)

\* An entry and its copy begin alike.
LEMMA SameHeader ==
  ASSUME NEW m, NEW p \in Nat, NEW m2, NEW q \in Nat, SameEntry(m, p, m2, q), m[p + 1] \in Nat
  PROVE  m2[q] = m[p] /\ m2[q + 1] = m[p + 1]
<1>1. 0 \in 0..(m[p + 1] + 1) /\ 1 \in 0..(m[p + 1] + 1) /\ q + 0 = q /\ p + 0 = p
  OBVIOUS
<1>2. m2[q + 0] = m[p + 0] /\ m2[q + 1] = m[p + 1]
  BY <1>1 DEF SameEntry
<1> QED
  BY <1>1, <1>2

LEMMA SameEntries ==
  ASSUME NEW m, NEW p \in Nat, NEW m2, NEW q \in Nat, NEW m3, m[p + 1] \in Nat,
         SameEntry(m, p, m2, q), SameEntry(m2, q, m3, q)
  PROVE  SameEntry(m, p, m3, q)
BY SameHeader DEF SameEntry

LEMMA SkipEntry ==
  ASSUME NEW m, NEW L, NEW at, Arranged(m, L, at), NEW i \in 0..(L - 1), m[at[i]] = INVALID_ID,
         NEW m2, NEW to \in Nat, Compacted(m, at, i, m2, to)
  PROVE  Compacted(m, at, i + 1, m2, to)
<1>1. Layout(m, L, at)
  BY DEF Arranged
<1>2. at[i] \in Nat /\ at[i + 1] \in Nat /\ at[i] <= at[i + 1]
  <2> DEFINE q == at[i]
             n == m[q + 1]
             e == at[i + 1]
  <2>1. q \in 3..(NvSize - 3) /\ n \in Nat \ {0, 1}
    BY <1>1, Extent
  <2>2. e = q + 2 + n
    BY <1>1, Extent
  <2> HIDE DEF q, n, e
  <2>3. q \in Nat /\ e \in Nat /\ q <= e
    BY <2>1, <2>2, Sizes
  <2> QED
    BY <2>3 DEF q, e
<1>3. PICK K, g : Chain(m2, K, g, to) /\ Carried(m, at, i, m2, K, g)
  BY DEF Compacted
<1>4. \A j \in 0..((i + 1) - 1) : j # i => j \in 0..(i - 1)
  OBVIOUS
<1>5. \A j \in 0..(i - 1) : j \in 0..((i + 1) - 1)
  OBVIOUS
<1>6. Carried(m, at, i + 1, m2, K, g)
  BY <1>3, <1>4, <1>5 DEF Carried
<1>7. to <= at[i + 1] /\ \A x \in at[i + 1]..NvSize : m2[x] = m[x]
  <2>1. to <= at[i] /\ \A x \in at[i]..NvSize : m2[x] = m[x]
    BY DEF Compacted
  <2>2. \A x \in at[i + 1]..NvSize : x \in at[i]..NvSize
    BY <1>2, Sizes
  <2> QED
    BY <1>2, <2>1, <2>2
<1>8. m2 \in Memory /\ m2[1] = m[1] /\ m2[2] = m[2] /\ (m[3] # INVALID_ID => m2[3] = m[3])
  BY DEF Compacted
<1> QED
  BY <1>3, <1>6, <1>7, <1>8 DEF Compacted

\* What is moved: an entry with its header.
EntryOf(m, p) == SubSeq(m, p, After(m, p) - 1)

LEMMA EntryFacts ==
  ASSUME NEW m, NEW L, NEW at, Arranged(m, L, at), NEW i \in 0..(L - 1)
  PROVE  /\ EntryOf(m, at[i]) \in Seq(HalfWord) /\ Len(EntryOf(m, at[i])) = m[at[i] + 1] + 2
         /\ \A x \in 0..(m[at[i] + 1] + 1) : EntryOf(m, at[i])[x + 1] = m[at[i] + x]
<1> DEFINE p == at[i]
           n == m[p + 1]
           e == EntryOf(m, p)
<1>1. p \in 3..(NvSize - 3) /\ n \in Nat \ {0, 1} /\ p + 2 + n <= NvSize + 1 /\ m \in Memory
  <2>1. Layout(m, L, at) /\ m \in Memory
    BY DEF Arranged
  <2> QED
    BY <2>1, Extent
<1>2. m \in Seq(HalfWord) /\ Len(m) = NvSize
  BY <1>1, Sizes DEF Memory
<1>3. e = SubSeq(m, p, (p + 2 + n) - 1)
  <2>1. After(m, p) = p + 2 + n
    BY Sizes DEF After, Capacity
  <2> QED
    BY <2>1, Zenon DEF EntryOf
<1> HIDE DEF p, n, e
<1>4. p \in 1..(NvSize + 1) /\ (p + 2 + n) - 1 \in (p - 1)..NvSize
  BY <1>1, Sizes
<1>5. /\ SubSeq(m, p, (p + 2 + n) - 1) \in Seq(HalfWord)
      /\ Len(SubSeq(m, p, (p + 2 + n) - 1)) = ((p + 2 + n) - 1) - p + 1
      /\ \A x \in 1..(((p + 2 + n) - 1) - p + 1) : SubSeq(m, p, (p + 2 + n) - 1)[x] = m[p + x - 1]
  BY <1>2, <1>4, SubSeqProperties
<1>6. Len(e) = n + 2 /\ e \in Seq(HalfWord)
  BY <1>1, <1>3, <1>5, Sizes
<1>7. ASSUME NEW x \in 0..(n + 1) PROVE e[x + 1] = m[p + x]
  <2>1. x + 1 \in 1..(((p + 2 + n) - 1) - p + 1) /\ p + (x + 1) - 1 = p + x
    BY <1>1, Sizes
  <2> QED
    BY <1>3, <1>5, <2>1
<1> QED
  BY <1>6, <1>7 DEF e, n, p

LEMMA MoveEntry ==
  ASSUME NEW m, NEW L, NEW at, Arranged(m, L, at), NEW i \in 0..(L - 1), m[at[i]] # INVALID_ID,
         NEW m2, NEW to \in Nat, Compacted(m, at, i, m2, to)
  PROVE  /\ to + Len(EntryOf(m, at[i])) \in Nat
         /\ Patch(m2, to, EntryOf(m, at[i])) \in Memory
         /\ Compacted(m, at, i + 1, Patch(m2, to, EntryOf(m, at[i])), to + Len(EntryOf(m, at[i])))
<1> DEFINE p == at[i]
           n == m[p + 1]
           q == at[i + 1]
           e == EntryOf(m, p)
           m3 == Patch(m2, to, e)
<1>1. Layout(m, L, at) /\ m \in Memory
  BY DEF Arranged
<1>2. p \in 3..(NvSize - 3) /\ n \in Nat \ {0, 1} /\ p + 2 + n <= NvSize + 1 /\ m[p] # INVALID_DATA
  BY <1>1, Extent
<1>3. q = p + 2 + n
  BY <1>1, Extent
<1>4. e \in Seq(HalfWord) /\ Len(e) = n + 2 /\ \A x \in 0..(n + 1) : e[x + 1] = m[p + x]
  BY EntryFacts
<1>5. /\ m2 \in Memory /\ to <= p /\ \A x \in p..NvSize : m2[x] = m[x]
      /\ m2[1] = m[1] /\ m2[2] = m[2] /\ (m[3] # INVALID_ID => m2[3] = m[3])
  BY DEF Compacted
<1>6. PICK K, g : Chain(m2, K, g, to) /\ Carried(m, at, i, m2, K, g)
  BY DEF Compacted
<1>7. K \in Nat /\ to >= 3 + 4 * K /\ i \in Nat
  BY <1>6, ChainExtent
<1>8. m3 \in Memory /\ \A x \in 1..NvSize : m3[x] = IF x \in to..(to + (n + 2) - 1) THEN e[x - to + 1] ELSE m2[x]
  <2> HIDE DEF e
  <2>1. m3 \in Memory /\ \A x \in 1..NvSize : m3[x] = IF x \in to..(to + Len(e) - 1) THEN e[x - to + 1] ELSE m2[x]
    BY <1>4, <1>5, PatchAt
  <2> QED
    BY <1>4, <2>1
<1> HIDE DEF m3, p, n, q, e
<1>9. \A x \in 0..(n + 1) : m3[to + x] = m[p + x]
  <2> SUFFICES ASSUME NEW x \in 0..(n + 1) PROVE m3[to + x] = m[p + x]
    OBVIOUS
  <2>1. to + x \in 1..NvSize /\ to + x \in to..(to + (n + 2) - 1) /\ to + x - to + 1 = x + 1
    BY <1>2, <1>5, <1>7, Sizes
  <2> QED
    BY <1>4, <1>8, <2>1
<1>10. \A x \in 1..NvSize : x < to \/ x >= to + n + 2 => m3[x] = m2[x]
  <2>1. \A x \in 1..NvSize : x < to \/ x >= to + n + 2 => x \notin to..(to + (n + 2) - 1)
    BY <1>2
  <2> QED
    BY <1>8, <2>1
<1>11. \A x \in 3..(to - 1) : m3[x] = m2[x]
  <2>1. \A x \in 3..(to - 1) : x \in 1..NvSize /\ x < to
    BY <1>2, <1>5, Sizes
  <2> QED
    BY <1>10, <2>1
<1>12. Chain(m3, K, g, to) /\ \A l \in 0..(K - 1) : m3[g[l]] = m2[g[l]] /\ SameEntry(m2, g[l], m3, g[l])
  BY <1>6, <1>11, ChainKept
<1>13. m3[to] = m[p] /\ m3[to + 1] = n /\ SameEntry(m, p, m3, to)
  <2>1. SameEntry(m, p, m3, to)
    BY <1>9 DEF SameEntry, n
  <2>2. p \in Nat /\ m[p + 1] \in Nat /\ m[p + 1] = n
    BY <1>2, Sizes DEF n
  <2> QED
    BY <2>1, <2>2, SameHeader
<1> DEFINE end == to + 2 + n
           h == Longer(g, K, end)
<1>14. end <= NvSize + 1 /\ end <= q /\ end \in Nat
  BY <1>2, <1>3, <1>5, Sizes
<1>15. Chain(m3, K + 1, h, end) /\ h[K] = to /\ \A l \in 0..(K - 1) : h[l] = g[l]
  BY <1>2, <1>12, <1>13, <1>14, ChainGrows, SMTT(30)
<1> HIDE DEF h, end
<1>16. \A l \in 0..((K + 1) - 1) : l # K => l \in 0..(K - 1)
  BY <1>7
<1>17. \A l \in 0..(K - 1) : l \in 0..((K + 1) - 1)
  BY <1>7
<1>18. K \in 0..((K + 1) - 1) /\ i \in 0..((i + 1) - 1) /\ \A j \in 0..(i - 1) : j \in 0..((i + 1) - 1)
  BY <1>7
<1>19. ASSUME NEW j \in 0..(i - 1)
       PROVE  at[j] \in Nat /\ m[at[j] + 1] \in Nat /\ j \in 0..(L - 1) /\ j # i
  <2>1. j \in 0..(L - 1) /\ j # i
    <3>1. L \in Nat
      BY <1>1, LayoutFacts
    <3> QED
      BY <1>7, <3>1
  <2>2. at[j] \in 3..(NvSize - 3) /\ m[at[j] + 1] \in Nat \ {0, 1}
    BY <1>1, <2>1, Extent
  <2>3. at[j] \in Nat
    BY <2>2, Sizes
  <2> QED
    BY <2>1, <2>2, <2>3
<1>20. ASSUME NEW l \in 0..(K - 1), NEW j \in 0..(i - 1), SameEntry(m, at[j], m2, g[l])
       PROVE  SameEntry(m, at[j], m3, g[l]) /\ m2[g[l]] = m[at[j]]
  <2>1. g[l] \in 3..(NvSize - 3)
    BY <1>6, ChainExtent
  <2>2. g[l] \in Nat
    BY <2>1, Sizes
  <2> QED
    BY <1>12, <1>19, <1>20, <2>2, SameEntries, SameHeader
<1>21. Carried(m, at, i + 1, m3, K + 1, h)
  <2>1. ASSUME NEW l \in 0..((K + 1) - 1)
        PROVE  \E j \in 0..((i + 1) - 1) : m[at[j]] # INVALID_ID /\ SameEntry(m, at[j], m3, h[l])
    <3>1. CASE l = K
      BY <1>13, <1>15, <1>18, <3>1 DEF p
    <3>2. CASE l # K
      <4>1. l \in 0..(K - 1) /\ h[l] = g[l]
        BY <1>15, <1>16, <3>2
      <4>2. PICK j \in 0..(i - 1) : m[at[j]] # INVALID_ID /\ SameEntry(m, at[j], m2, g[l])
        BY <1>6, <4>1 DEF Carried
      <4> QED
        BY <1>18, <1>20, <4>1, <4>2
    <3> QED
      BY <3>1, <3>2
  <2>2. ASSUME NEW j \in 0..((i + 1) - 1), m[at[j]] # INVALID_ID
        PROVE  \E l \in 0..((K + 1) - 1) : SameEntry(m, at[j], m3, h[l])
    <3>1. CASE j = i
      BY <1>13, <1>15, <1>18, <3>1 DEF p
    <3>2. CASE j # i
      <4>1. j \in 0..(i - 1)
        BY <1>7, <3>2
      <4>2. PICK l \in 0..(K - 1) : SameEntry(m, at[j], m2, g[l])
        BY <1>6, <2>2, <4>1 DEF Carried
      <4>3. SameEntry(m, at[j], m3, g[l]) /\ h[l] = g[l]
        BY <1>15, <1>20, <4>1, <4>2
      <4> QED
        BY <1>17, <4>3
    <3> QED
      BY <3>1, <3>2
  <2>3. ASSUME NEW l \in 0..(K - 1) PROVE m3[h[l]] # m3[h[K]] /\ m3[h[l]] = m2[g[l]]
    <3>1. PICK j \in 0..(i - 1) : m[at[j]] # INVALID_ID /\ SameEntry(m, at[j], m2, g[l])
      BY <1>6 DEF Carried
    <3>2. m3[h[l]] = m2[g[l]] /\ m2[g[l]] = m[at[j]] /\ m3[h[K]] = m[at[i]]
      BY <1>12, <1>13, <1>15, <1>20, <3>1 DEF p
    <3>3. j \in 0..(L - 1) /\ j # i
      BY <1>19
    <3>4. m[at[j]] # m[at[i]]
      BY <3>1, <3>3 DEF Arranged
    <3> QED
      BY <3>2, <3>4
  <2>4. \A l, k \in 0..(K - 1) : m2[g[l]] = m2[g[k]] => l = k
    BY <1>6 DEF Carried
  <2>5. \A l, k \in 0..((K + 1) - 1) : m3[h[l]] = m3[h[k]] => l = k
    BY <1>16, <2>3, <2>4
  <2> QED
    BY <2>1, <2>2, <2>5 DEF Carried
<1>22. \A x \in q..NvSize : m3[x] = m[x]
  <2>1. \A x \in q..NvSize : x \in 1..NvSize /\ x >= to + n + 2 /\ x \in p..NvSize
    BY <1>2, <1>3, <1>5, Sizes
  <2> QED
    BY <1>5, <1>10, <2>1
<1>23. m3[1] = m[1] /\ m3[2] = m[2] /\ (m[3] # INVALID_ID => m3[3] = m[3])
  <2>1. 1 \in 1..NvSize /\ 2 \in 1..NvSize /\ 3 \in 1..NvSize /\ 1 < to /\ 2 < to
    BY <1>7, Sizes
  <2>2. m3[1] = m[1] /\ m3[2] = m[2]
    BY <1>5, <1>10, <2>1
  <2>3. CASE i = 0
    <3>1. p = 3
      BY <1>1, <2>3, LayoutFacts DEF p
    <3>2. to = 3
      BY <1>5, <1>7, <3>1
    <3> QED
      BY <1>13, <2>2, <3>1, <3>2
  <2>4. CASE i # 0 /\ m[3] # INVALID_ID
    <3>1. 0 \in 0..(i - 1) /\ at[0] = 3
      BY <1>1, <1>7, <2>4, LayoutFacts
    <3>2. \E l \in 0..(K - 1) : TRUE
      BY <1>6, <2>4, <3>1 DEF Carried
    <3>3. 3 < to
      BY <1>7, <3>2
    <3> QED
      BY <1>5, <1>10, <2>1, <2>2, <3>3
  <2> QED
    BY <2>2, <2>3, <2>4
<1>24. Compacted(m, at, i + 1, m3, end)
  BY <1>8, <1>14, <1>15, <1>21, <1>22, <1>23 DEF Compacted, q
<1>25. end = to + Len(EntryOf(m, at[i])) /\ m3 = Patch(m2, to, EntryOf(m, at[i]))
  BY <1>2, <1>4 DEF end, m3, e, p
<1> QED
  BY <1>8, <1>14, <1>24, <1>25

\* Stores, and the writes of their logs.
FileWrite == [at : Nat, cells : Seq(HalfWord)]
Store == [mem : Memory, log : Seq(FileWrite)]

LEMMA WriteStore ==
  ASSUME NEW s \in Store, NEW from \in Nat, NEW cells \in Seq(HalfWord)
  PROVE  /\ NV_Write(s, from, cells) \in Store
         /\ NV_Write(s, from, cells).mem = Patch(s.mem, from, cells)
         /\ NV_Write(s, from, cells).log = Append(s.log, [at |-> from, cells |-> cells])
<1>1. s.mem \in Memory /\ s.log \in Seq(FileWrite)
  BY DEF Store
<1>2. Patch(s.mem, from, cells) \in Memory
  BY <1>1, PatchAt
<1>3. [at |-> from, cells |-> cells] \in FileWrite
  BY DEF FileWrite
<1>4. Append(s.log, [at |-> from, cells |-> cells]) \in Seq(FileWrite)
  BY <1>1, <1>3
<1> QED
  BY <1>2, <1>4 DEF NV_Write, Store

\* How far the compaction of m has come after i entries.
Progress(m, at, i) == {c \in [to : Nat, s : Store] : Compacted(m, at, i, c.s.mem, c.to)}

LEMMA MovedIs ==
  ASSUME NEW s \in Store, NEW L, NEW at, Arranged(s.mem, L, at)
  PROVE  Moved(s, L) \in Progress(s.mem, at, L)
<1> DEFINE m == s.mem
           b == Bounds(m)
           move(c, p) == LET entry == SubSeq(m, p, After(m, p) - 1) IN
                         [to |-> c.to + Len(entry), s |-> NV_Write(c.s, c.to, entry)]
           body(i, c) == IF m[b[i]] = INVALID_ID THEN c ELSE move(c, b[i])
           base == [to |-> 3, s |-> s]
           value(f) == [i \in 0..L |-> IF i = 0 THEN base
                                       ELSE IF m[b[i]] = INVALID_ID THEN f[i - 1] ELSE move(f[i - 1], b[i])]
           it == CHOOSE f : f = value(f)
           D == [i \in 0..L |-> Progress(m, at, i)]
           next == [i \in 1..L |-> [c \in D[i - 1] |-> body(i, c)]]
<1>1. Moved(s, L) = it[L]
  BY DEF Moved
<1>2. Layout(m, L, at) /\ m \in Memory
  BY DEF Arranged
<1>3. L \in Nat /\ at \in [0..L -> Nat] /\ at[0] = 3
  BY <1>2, LayoutFacts
<1>4. \A i \in 1..L : b[i] = at[i - 1]
  <2>1. b = Places(at, L)
    BY <1>2, BoundsIs
  <2> HIDE DEF b
  <2> QED
    BY <1>3, <2>1 DEF Places
<1>5. base \in D[0]
  <2>1. base \in [to : Nat, s : Store] /\ base.s.mem = m /\ base.to = 3
    OBVIOUS
  <2>2. Compacted(m, at, 0, m, 3)
    <3>1. Chain(m, 0, [l \in 0..0 |-> 3], 3)
      <4> DEFINE g == [l \in 0..0 |-> 3]
      <4>1. g \in [0..0 -> Nat] /\ g[0] = 3 /\ 0..(0 - 1) = {} /\ 3 <= NvSize + 1
        BY Sizes
      <4> HIDE DEF g
      <4>2. Chain(m, 0, g, 3)
        BY <4>1 DEF Chain
      <4> QED
        BY <4>2 DEF g
    <3>2. Carried(m, at, 0, m, 0, [l \in 0..0 |-> 3])
      BY DEF Carried
    <3> QED
      BY <1>2, <1>3, <3>1, <3>2 DEF Compacted
  <2>3. 0 \in 0..L
    BY <1>3
  <2> HIDE DEF base, m
  <2> QED
    BY <2>1, <2>2, <2>3 DEF Progress
<1>6. ASSUME NEW i \in 1..L, NEW c \in D[i - 1] PROVE body(i, c) \in D[i]
  <2> DEFINE k == i - 1
  <2>1. k \in 0..(L - 1) /\ k + 1 = i /\ k \in 0..L /\ i \in 0..L
    BY <1>3
  <2>2. c \in [to : Nat, s : Store] /\ Compacted(m, at, k, c.s.mem, c.to)
    BY <2>1 DEF Progress
  <2>3. c.to \in Nat /\ c.s \in Store
    BY <2>2
  <2>4. b[i] = at[k]
    BY <1>4
  <2> HIDE DEF k, m, b
  <2>5. CASE m[at[k]] = INVALID_ID
    <3>1. Compacted(m, at, k + 1, c.s.mem, c.to)
      BY <2>1, <2>2, <2>3, <2>5, SkipEntry DEF m
    <3>2. body(i, c) = c
      BY <2>4, <2>5
    <3> QED
      BY <2>1, <2>2, <3>1, <3>2 DEF Progress
  <2>6. CASE m[at[k]] # INVALID_ID
    <3> DEFINE e == EntryOf(m, at[k])
               t == NV_Write(c.s, c.to, e)
               c2 == [to |-> c.to + Len(e), s |-> t]
    <3>1. e \in Seq(HalfWord)
      BY <2>1, EntryFacts DEF m
    <3>2. t \in Store /\ t.mem = Patch(c.s.mem, c.to, e)
      BY <2>3, <3>1, WriteStore
    <3>3. /\ c.to + Len(e) \in Nat
          /\ Compacted(m, at, k + 1, Patch(c.s.mem, c.to, e), c.to + Len(e))
      BY <2>1, <2>2, <2>3, <2>6, MoveEntry DEF m
    <3>4. body(i, c) = c2
      BY <2>4, <2>6 DEF EntryOf
    <3>5. c2 \in [to : Nat, s : Store] /\ c2.to = c.to + Len(e) /\ c2.s.mem = Patch(c.s.mem, c.to, e)
      <4> HIDE DEF t, e
      <4> QED
        BY <3>2, <3>3
    <3>6. c2 \in Progress(m, at, i)
      <4> HIDE DEF c2
      <4> QED
        BY <2>1, <3>3, <3>5 DEF Progress
    <3> QED
      BY <2>1, <3>4, <3>6
  <2> QED
    BY <2>5, <2>6
<1>7. Stepping(L, D, next)
  <2>1. \A i \in 1..L : \A c \in D[i - 1] : next[i][c] = body(i, c)
    OBVIOUS
  <2> HIDE DEF D, next, body
  <2> QED
    BY <1>6, <2>1 DEF Stepping
<1>8. PICK h : Running(h, L, base, next, D)
  <2> HIDE DEF D, next, base
  <2> QED
    BY <1>3, <1>5, <1>7, Recursion
<1>9. \A j \in 1..L : h[j] = body(j, h[j - 1])
  <2>1. \A j \in 1..L : j - 1 \in 0..L
    BY <1>3
  <2>2. \A i \in 1..L : \A c \in D[i - 1] : next[i][c] = body(i, c)
    OBVIOUS
  <2> HIDE DEF D, next, body
  <2> QED
    BY <1>8, <2>1, <2>2 DEF Running
<1>10. h = value(h)
  <2>1. \A j \in 0..L : j # 0 => j \in 1..L
    BY <1>3
  <2>2. \A j \in 0..L : h[j] = value(h)[j]
    <3>1. \A j \in 0..L : value(h)[j] = IF j = 0 THEN base ELSE body(j, h[j - 1])
      <4> HIDE DEF move, base, b, m
      <4> QED
        OBVIOUS
    <3> HIDE DEF value, body, base
    <3> QED
      BY <1>8, <1>9, <2>1, <3>1 DEF Running
  <2>3. h = [j \in 0..L |-> h[j]]
    BY <1>8 DEF Running
  <2>4. value(h) = [j \in 0..L |-> value(h)[j]]
    <3> HIDE DEF move, base, b, m
    <3> QED
      OBVIOUS
  <2> HIDE DEF value
  <2> QED
    BY <2>2, <2>3, <2>4
<1>11. it = value(it)
  <2> HIDE DEF value
  <2> QED
    BY <1>10
<1> HIDE DEF it
<1>12. it[0] = base /\ \A j \in 1..L : it[j] = body(j, it[j - 1])
  <2>1. 0 \in 0..L /\ \A j \in 1..L : j \in 0..L /\ j # 0
    BY <1>3
  <2>2. \A j \in 0..L : value(it)[j] = IF j = 0 THEN base ELSE body(j, it[j - 1])
    <3> HIDE DEF move, base, b, m
    <3> QED
      OBVIOUS
  <2> HIDE DEF value, body, base
  <2> QED
    BY <1>11, <2>1, <2>2
<1> DEFINE S == {j \in 0..L : it[j] \in D[j]}
<1>13. 0 \in S /\ \A j \in 1..L : j - 1 \in S => j \in S
  <2>1. 0 \in 0..L /\ \A j \in 1..L : j \in 0..L
    BY <1>3
  <2> HIDE DEF D, body, base
  <2> QED
    BY <1>5, <1>6, <1>12, <2>1
<1>14. \A j \in 0..L : j \in S
  <2> HIDE DEF S
  <2> QED
    BY <1>3, <1>13, UpTo
<1>15. L \in 0..L
  BY <1>3
<1>16. it[L] \in D[L]
  BY <1>14, <1>15
<1> QED
  BY <1>1, <1>15, <1>16

LEMMA BlankFacts ==
  ASSUME NEW n \in Nat
  PROVE  Blank(n) \in Seq(HalfWord) /\ Len(Blank(n)) = n /\ \A x \in 1..n : Blank(n)[x] = INVALID_DATA
<1> DEFINE b == Blank(n)
<1>1. INVALID_DATA \in HalfWord
  BY Sizes DEF HalfWord
<1>2. b \in [1..n -> HalfWord] /\ \A x \in 1..n : b[x] = INVALID_DATA
  BY <1>1 DEF Blank
<1> HIDE DEF b
<1>3. b \in Seq(HalfWord) /\ Len(b) = n
  BY <1>2
<1> QED
  BY <1>2, <1>3 DEF b

\* What is left of m when all its entries have been moved down and the rest is erased.
LEMMA ErasedRest ==
  ASSUME NEW m, NEW L, NEW at, Arranged(m, L, at), NEW m2, NEW to \in Nat, Compacted(m, at, L, m2, to),
         m[1] = Sentinel[1], m[2] = Sentinel[2]
  PROVE  /\ at[L] - to \in Nat
         /\ LET m3 == Patch(m2, to, Blank(at[L] - to)) IN
            /\ m3 \in Memory /\ Good(m3) /\ Kept(m, m3, {})
            /\ m[3] # INVALID_ID /\ m[3] # INVALID_DATA => m3[3] = m[3]
<1> DEFINE free == at[L]
           n == free - to
           b == Blank(n)
           m3 == Patch(m2, to, b)
<1>1. Layout(m, L, at) /\ m \in Memory /\ \A i, j \in 0..(L - 1) : m[at[i]] = m[at[j]] => i = j \/ m[at[i]] = INVALID_ID
  BY DEF Arranged
<1>2. L \in Nat /\ free \in 3..(NvSize + 1) /\ \A x \in free..NvSize : m[x] = INVALID_DATA
  <2>1. L \in Nat
    BY <1>1, LayoutFacts
  <2>2. L \in 0..L
    BY <2>1
  <2> QED
    BY <1>1, <2>1, <2>2, LayoutFacts
<1>3. /\ m2 \in Memory /\ to <= free /\ \A x \in free..NvSize : m2[x] = m[x]
      /\ m2[1] = m[1] /\ m2[2] = m[2] /\ (m[3] # INVALID_ID => m2[3] = m[3])
  BY DEF Compacted
<1>4. PICK K, g : Chain(m2, K, g, to) /\ Carried(m, at, L, m2, K, g)
  BY DEF Compacted
<1>5. K \in Nat /\ to >= 3 + 4 * K
  BY <1>4, ChainExtent
<1> HIDE DEF free
<1>6. n \in Nat /\ to + n = free
  BY <1>2, <1>3, Sizes
<1>7. b \in Seq(HalfWord) /\ Len(b) = n /\ \A x \in 1..n : b[x] = INVALID_DATA
  BY <1>6, BlankFacts
<1> HIDE DEF n, b
<1>8. m3 \in Memory /\ \A x \in 1..NvSize : m3[x] = IF x \in to..(to + n - 1) THEN b[x - to + 1] ELSE m2[x]
  <2>1. m3 \in Memory /\ \A x \in 1..NvSize : m3[x] = IF x \in to..(to + Len(b) - 1) THEN b[x - to + 1] ELSE m2[x]
    BY <1>3, <1>7, PatchAt
  <2> QED
    BY <1>7, <2>1
<1> HIDE DEF m3
<1>9. \A x \in 1..NvSize : x < to => m3[x] = m2[x]
  BY <1>5, <1>8, Sizes
<1>10. \A x \in to..NvSize : m3[x] = INVALID_DATA
  <2> SUFFICES ASSUME NEW x \in to..NvSize PROVE m3[x] = INVALID_DATA
    OBVIOUS
  <2>1. x \in 1..NvSize /\ x \in Nat
    BY <1>5, Sizes
  <2>2. CASE x < free
    <3>1. x \in to..(to + n - 1) /\ x - to + 1 \in 1..n
      BY <1>2, <1>6, <2>1, <2>2
    <3> QED
      BY <1>7, <1>8, <2>1, <3>1
  <2>3. CASE x >= free
    <3>1. x \in free..NvSize /\ x \notin to..(to + n - 1)
      BY <1>2, <1>6, <2>1, <2>3
    <3> QED
      BY <1>2, <1>3, <1>8, <2>1, <3>1
  <2> QED
    BY <1>2, <2>1, <2>2, <2>3
<1>11. Chain(m3, K, g, to) /\ \A l \in 0..(K - 1) : m3[g[l]] = m2[g[l]] /\ SameEntry(m2, g[l], m3, g[l])
  <2>1. \A x \in 3..(to - 1) : x \in 1..NvSize /\ x < to
    BY <1>2, <1>3, Sizes
  <2>2. \A x \in 3..(to - 1) : m3[x] = m2[x]
    BY <1>9, <2>1
  <2> QED
    BY <1>4, <2>2, ChainKept
<1>12. Layout(m3, K, g)
  <2>1. g[K] = to
    BY <1>11 DEF Chain
  <2> QED
    BY <1>10, <1>11, <2>1 DEF Layout
<1>13. ASSUME NEW j \in 0..(L - 1), NEW l \in 0..(K - 1), SameEntry(m, at[j], m2, g[l])
       PROVE  SameEntry(m, at[j], m3, g[l]) /\ m3[g[l]] = m[at[j]]
  <2>1. g[l] \in 3..(NvSize - 3)
    BY <1>4, ChainExtent
  <2>2. at[j] \in 3..(NvSize - 3) /\ m[at[j] + 1] \in Nat \ {0, 1}
    BY <1>1, Extent
  <2>3. g[l] \in Nat /\ at[j] \in Nat /\ m[at[j] + 1] \in Nat
    BY <2>1, <2>2, Sizes
  <2>4. SameEntry(m, at[j], m3, g[l])
    BY <1>11, <1>13, <2>3, SameEntries
  <2> QED
    BY <2>3, <2>4, SameHeader
<1>14. ASSUME NEW l \in 0..(K - 1)
       PROVE  \E j \in 0..(L - 1) : m[at[j]] # INVALID_ID /\ m3[g[l]] = m[at[j]]
  <2>1. PICK j \in 0..(L - 1) : m[at[j]] # INVALID_ID /\ SameEntry(m, at[j], m2, g[l])
    BY <1>4 DEF Carried
  <2> QED
    BY <1>13, <2>1
<1>15. Arranged(m3, K, g)
  <2>1. \A l, k \in 0..(K - 1) : m2[g[l]] = m2[g[k]] => l = k
    BY <1>4 DEF Carried
  <2>2. \A l, k \in 0..(K - 1) : m3[g[l]] = m3[g[k]] => l = k
    BY <1>11, <2>1
  <2> QED
    BY <1>8, <1>12, <2>2 DEF Arranged
<1>16. ASSUME NEW k \in Ids PROVE Data(m3, k) = Data(m, k)
  <2>1. k # INVALID_ID
    BY DEF Ids
  <2>2. \A j \in 0..(L - 1) : m[at[j]] = k => \E l \in 0..(K - 1) : SameEntry(m, at[j], m3, g[l])
    <3> SUFFICES ASSUME NEW j \in 0..(L - 1), m[at[j]] = k
                 PROVE  \E l \in 0..(K - 1) : SameEntry(m, at[j], m3, g[l])
      OBVIOUS
    <3>1. PICK l \in 0..(K - 1) : SameEntry(m, at[j], m2, g[l])
      BY <1>4, <2>1 DEF Carried
    <3> QED
      BY <1>13, <3>1
  <2>3. \A l \in 0..(K - 1) : m3[g[l]] = k => \E j \in 0..(L - 1) : m[at[j]] = k
    BY <1>14
  <2> QED
    BY <1>15, <2>2, <2>3, DataKept
<1>17. m3[1] = m[1] /\ m3[2] = m[2]
  <2>1. 1 \in 1..NvSize /\ 2 \in 1..NvSize /\ 1 < to /\ 2 < to
    BY <1>5, Sizes
  <2> QED
    BY <1>3, <1>9, <2>1
<1>18. ASSUME m[3] # INVALID_ID, m[3] # INVALID_DATA PROVE m3[3] = m[3]
  <2>1. at[0] = 3
    BY <1>1, LayoutFacts
  <2>2. L # 0
    <3> SUFFICES ASSUME L = 0 PROVE FALSE
      OBVIOUS
    <3>1. free = 3
      BY <2>1 DEF free
    <3>2. 3 \in free..NvSize
      BY <3>1, Sizes
    <3> QED
      BY <1>2, <1>18, <3>2
  <2>3. 0 \in 0..(L - 1)
    BY <1>2, <2>2
  <2>4. \E l \in 0..(K - 1) : TRUE
    BY <1>4, <1>18, <2>1, <2>3 DEF Carried
  <2>5. 3 < to /\ 3 \in 1..NvSize
    BY <1>5, <2>4, Sizes
  <2> QED
    BY <1>3, <1>9, <1>18, <2>5
<1>19. Good(m3)
  BY <1>15, <1>17 DEF Good
<1>20. m3 = Patch(m2, to, Blank(at[L] - to)) /\ at[L] - to \in Nat
  BY <1>6 DEF m3, b, n, free
<1> QED
  BY <1>8, <1>16, <1>18, <1>19, <1>20 DEF Kept

\* _AJ_CompactNVStorage.
LEMMA CompactFacts ==
  ASSUME NEW s \in Store, Good(s.mem)
  PROVE  \E m2 : /\ CompactNVStorage(s).mem = m2
                 /\ CompactNVStorage(s) = [mem |-> m2, log |-> Append(s.log, [at |-> 1, cells |-> m2])]
                 /\ m2 \in Memory /\ Good(m2) /\ Kept(s.mem, m2, {})
                 /\ s.mem[3] # INVALID_ID /\ s.mem[3] # INVALID_DATA => m2[3] = s.mem[3]
<1> DEFINE m == s.mem
<1>1. PICK L, at : Arranged(m, L, at)
  BY DEF Good
<1>2. Layout(m, L, at) /\ L \in Nat /\ at \in [0..L -> Nat]
  BY <1>1, LayoutFacts DEF Arranged
<1>3. Bounds(m) = Places(at, L) /\ FreeAt(m) = at[L]
  BY <1>2, BoundsIs, FreeIs
<1>4. Len(Bounds(m)) - 1 = L
  <2>1. Len(Places(at, L)) = L + 1
    BY <1>2, PlacesFacts
  <2> QED
    BY <1>2, <1>3, <2>1
<1> DEFINE c == Moved(s, L)
           b == Blank(at[L] - c.to)
           m2 == Patch(c.s.mem, c.to, b)
           t == NV_Write(c.s, c.to, b)
<1>5. c \in Progress(m, at, L)
  BY <1>1, MovedIs
<1> HIDE DEF c
<1>6. c.to \in Nat /\ c.s \in Store /\ Compacted(m, at, L, c.s.mem, c.to)
  BY <1>5 DEF Progress
<1>7. m[1] = Sentinel[1] /\ m[2] = Sentinel[2]
  BY DEF Good
<1>8. /\ at[L] - c.to \in Nat /\ m2 \in Memory /\ Good(m2) /\ Kept(m, m2, {})
      /\ m[3] # INVALID_ID /\ m[3] # INVALID_DATA => m2[3] = m[3]
  <2> DEFINE cm == c.s.mem
             to == c.to
  <2>1. to \in Nat /\ Compacted(m, at, L, cm, to)
    BY <1>6
  <2> HIDE DEF cm, to
  <2>2. /\ at[L] - to \in Nat
        /\ LET m3 == Patch(cm, to, Blank(at[L] - to)) IN
            /\ m3 \in Memory /\ Good(m3) /\ Kept(m, m3, {})
            /\ m[3] # INVALID_ID /\ m[3] # INVALID_DATA => m3[3] = m[3]
    BY <1>1, <1>7, <2>1, ErasedRest
  <2> QED
    BY <2>2 DEF cm, to
<1>9. t = [mem |-> m2, log |-> Append(c.s.log, [at |-> c.to, cells |-> b])]
  BY DEF NV_Write
<1>10. CompactNVStorage(s) = [t EXCEPT !.log = Append(s.log, [at |-> 1, cells |-> t.mem])]
  BY <1>3, <1>4 DEF CompactNVStorage, Erase, c
<1>11. /\ CompactNVStorage(s).mem = m2
       /\ CompactNVStorage(s) = [mem |-> m2, log |-> Append(s.log, [at |-> 1, cells |-> m2])]
  <2> DEFINE u == [t EXCEPT !.log = Append(s.log, [at |-> 1, cells |-> t.mem])]
             log == Append(s.log, [at |-> 1, cells |-> m2])
             old == Append(c.s.log, [at |-> c.to, cells |-> b])
  <2>1. t.mem = m2 /\ u = [mem |-> m2, log |-> log]
    <3>1. t = [mem |-> m2, log |-> old]
      BY <1>9
    <3> HIDE DEF m2, b, t, old
    <3>2. t.mem = m2
      BY <3>1
    <3>3. u = [t EXCEPT !.log = log]
      BY <3>2
    <3> HIDE DEF log, u
    <3> QED
      BY <3>1, <3>2, <3>3
  <2> HIDE DEF m2, b, t
  <2> QED
    BY <1>10, <2>1
<1> QED
  BY <1>8, <1>11

-----------------------------------------------------------------------------
\* The file after each write of a log, from m0 to the memory of the store.  Each write is a
\* step of T.
LoggedWrite == [at : 1..NvSize, cells : Seq(HalfWord)]

Files(m0, s, T, st) ==
  /\ \A k \in 0..Len(s.log) : st[k] \in Memory
  /\ st[0] = m0 /\ st[Len(s.log)] = s.mem
  /\ \A k \in 1..Len(s.log) : /\ st[k] = Patch(st[k - 1], s.log[k].at, s.log[k].cells)
                              /\ <<st[k - 1], st[k]>> \in T

Steps(m0, s, T) ==
  /\ s.mem \in Memory /\ s.log \in Seq(LoggedWrite)
  /\ \E st : Files(m0, s, T, st)

LEMMA StepsStore ==
  ASSUME NEW s, s = [mem |-> s.mem, log |-> s.log], NEW m0, NEW T, Steps(m0, s, T)
  PROVE  s \in Store
<1>1. LoggedWrite \subseteq FileWrite
  BY Sizes DEF LoggedWrite, FileWrite
<1>2. s.mem \in Memory /\ s.log \in Seq(LoggedWrite)
  BY DEF Steps
<1>3. s.log \in Seq(FileWrite)
  BY <1>1, <1>2
<1> QED
  BY <1>2, <1>3 DEF Store

LEMMA StepsNone ==
  ASSUME NEW m0 \in Memory, NEW T
  PROVE  Steps(m0, [mem |-> m0, log |-> <<>>], T)
<1> DEFINE s == [mem |-> m0, log |-> <<>>]
           st == [k \in 0..0 |-> m0]
<1>1. s.mem = m0 /\ s.log = <<>> /\ Len(s.log) = 0
  OBVIOUS
<1>2. st[0] = m0 /\ (\A k \in 0..0 : st[k] \in Memory) /\ 1..0 = {}
  OBVIOUS
<1> HIDE DEF s, st
<1>3. Files(m0, s, T, st)
  BY <1>1, <1>2 DEF Files
<1>4. s.log \in Seq(LoggedWrite)
  BY <1>1
<1>5. Steps(m0, s, T)
  BY <1>1, <1>3, <1>4 DEF Steps
<1> QED
  BY <1>5 DEF s

LEMMA StepsDone ==
  ASSUME NEW m0, NEW s, NEW T, Steps(m0, s, T), s.log = <<>>
  PROVE  s.mem = m0
<1>1. Len(s.log) = 0
  OBVIOUS
<1> QED
  BY <1>1 DEF Steps, Files

LEMMA StepsWrite ==
  ASSUME NEW m0, NEW s, NEW T, Steps(m0, s, T), NEW from \in 1..NvSize, NEW cells \in Seq(HalfWord),
         <<s.mem, Patch(s.mem, from, cells)>> \in T
  PROVE  Steps(m0, NV_Write(s, from, cells), T)
<1> DEFINE m == s.mem
           log == s.log
           n == Len(log)
           e == [at |-> from, cells |-> cells]
           m2 == Patch(m, from, cells)
           t == NV_Write(s, from, cells)
<1>1. PICK st : Files(m0, s, T, st)
  BY DEF Steps
<1>2. m \in Memory /\ log \in Seq(LoggedWrite) /\ n \in Nat
  BY DEF Steps
<1>3. m2 \in Memory
  BY <1>2, PatchFacts
<1>4. e \in LoggedWrite /\ e.at = from /\ e.cells = cells
  BY DEF LoggedWrite
<1>5. t.mem = m2 /\ t.log = Append(log, e)
  BY DEF NV_Write
<1>6. /\ \A k \in 0..n : st[k] \in Memory
      /\ st[0] = m0 /\ st[n] = m
      /\ \A k \in 1..n : st[k] = Patch(st[k - 1], log[k].at, log[k].cells) /\ <<st[k - 1], st[k]>> \in T
  BY <1>1 DEF Files
<1>7. m2 = Patch(m, e.at, e.cells) /\ <<m, m2>> \in T
  BY <1>4
<1> HIDE DEF t, e, n, m, m2, log
<1>8. t.log \in Seq(LoggedWrite) /\ Len(t.log) = n + 1 /\ t.log[n + 1] = e /\ \A k \in 1..n : t.log[k] = log[k]
  BY <1>2, <1>4, <1>5 DEF n
<1> DEFINE su == [k \in 0..(n + 1) |-> IF k = n + 1 THEN m2 ELSE st[k]]
<1>9. su[n + 1] = m2 /\ \A k \in 0..n : su[k] = st[k] /\ k \in 0..(n + 1)
  BY <1>2
<1> HIDE DEF su
<1>10. n \in 0..n /\ 0 \in 0..n /\ (n + 1) - 1 = n /\ \A k \in 0..(n + 1) : k # n + 1 => k \in 0..n
  BY <1>2
<1>11. \A k \in 0..(n + 1) : su[k] \in Memory
  BY <1>3, <1>6, <1>9, <1>10
<1>12. ASSUME NEW k \in 1..(n + 1)
       PROVE  su[k] = Patch(su[k - 1], t.log[k].at, t.log[k].cells) /\ <<su[k - 1], su[k]>> \in T
  <2>1. CASE k = n + 1
    BY <1>6, <1>7, <1>8, <1>9, <1>10, <2>1
  <2>2. CASE k # n + 1
    <3>1. k \in 1..n /\ k \in 0..n /\ k - 1 \in 0..n
      BY <1>2, <2>2
    <3> QED
      BY <1>6, <1>8, <1>9, <3>1
  <2> QED
    BY <2>1, <2>2
<1>13. Files(m0, t, T, su)
  BY <1>5, <1>6, <1>8, <1>9, <1>10, <1>11, <1>12 DEF Files
<1>14. Steps(m0, t, T)
  BY <1>3, <1>5, <1>8, <1>13 DEF Steps
<1> QED
  BY <1>14 DEF t

LEMMA StepsNext ==
  ASSUME NEW m0, NEW s, NEW T, Steps(m0, s, T), s.log # <<>>
  PROVE  /\ Patch(m0, Head(s.log).at, Head(s.log).cells) \in Memory
         /\ <<m0, Patch(m0, Head(s.log).at, Head(s.log).cells)>> \in T
         /\ Steps(Patch(m0, Head(s.log).at, Head(s.log).cells), [mem |-> s.mem, log |-> Tail(s.log)], T)
<1> DEFINE m == s.mem
           log == s.log
           n == Len(log)
           t == [mem |-> m, log |-> Tail(log)]
           m1 == Patch(m0, Head(log).at, Head(log).cells)
<1>1. PICK st : Files(m0, s, T, st)
  BY DEF Steps
<1>2. m \in Memory /\ log \in Seq(LoggedWrite) /\ log # <<>>
  BY DEF Steps
<1>3. /\ \A k \in 0..n : st[k] \in Memory
      /\ st[0] = m0 /\ st[n] = m
      /\ \A k \in 1..n : st[k] = Patch(st[k - 1], log[k].at, log[k].cells) /\ <<st[k - 1], st[k]>> \in T
  BY <1>1 DEF Files
<1>4. t.mem = m /\ t.log = Tail(log)
  OBVIOUS
<1> HIDE DEF t, m, log
<1>5. /\ n \in Nat /\ n >= 1 /\ Head(log) = log[1]
      /\ Tail(log) \in Seq(LoggedWrite) /\ Len(Tail(log)) = n - 1
      /\ \A k \in 1..(n - 1) : Tail(log)[k] = log[k + 1]
  BY <1>2
<1> HIDE DEF n
<1>6. st[1] = m1 /\ <<m0, m1>> \in T /\ m1 \in Memory
  <2>1. 1 \in 1..n /\ 1 \in 0..n /\ 1 - 1 = 0
    BY <1>5
  <2>2. st[1] = Patch(st[1 - 1], log[1].at, log[1].cells) /\ <<st[1 - 1], st[1]>> \in T /\ st[1] \in Memory
    BY <1>3, <2>1
  <2> QED
    BY <1>3, <1>5, <2>1, <2>2
<1> HIDE DEF m1
<1> DEFINE su == [k \in 0..(n - 1) |-> st[k + 1]]
<1>7. \A k \in 0..(n - 1) : su[k] = st[k + 1] /\ k + 1 \in 0..n
  BY <1>5
<1> HIDE DEF su
<1>8. \A k \in 0..(n - 1) : su[k] \in Memory
  BY <1>3, <1>7
<1>9. su[0] = m1 /\ su[n - 1] = m
  <2>1. 0 \in 0..(n - 1) /\ n - 1 \in 0..(n - 1) /\ 0 + 1 = 1 /\ (n - 1) + 1 = n
    BY <1>5
  <2> QED
    BY <1>3, <1>6, <1>7, <2>1
<1>10. ASSUME NEW k \in 1..(n - 1)
       PROVE  su[k] = Patch(su[k - 1], t.log[k].at, t.log[k].cells) /\ <<su[k - 1], su[k]>> \in T
  <2>1. k \in 0..(n - 1) /\ k - 1 \in 0..(n - 1) /\ (k - 1) + 1 = k /\ k + 1 \in 1..n /\ (k + 1) - 1 = k
    BY <1>5
  <2>2. su[k] = st[k + 1] /\ su[k - 1] = st[k] /\ t.log[k] = log[k + 1]
    BY <1>4, <1>5, <1>7, <2>1
  <2>3. /\ st[k + 1] = Patch(st[(k + 1) - 1], log[k + 1].at, log[k + 1].cells)
        /\ <<st[(k + 1) - 1], st[k + 1]>> \in T
    BY <1>3, <2>1
  <2> QED
    BY <2>1, <2>2, <2>3
<1>11. Files(m1, t, T, su)
  BY <1>4, <1>5, <1>8, <1>9, <1>10 DEF Files
<1>12. Steps(m1, t, T)
  BY <1>2, <1>4, <1>5, <1>11 DEF Steps
<1> QED
  BY <1>6, <1>12 DEF m1, t, m, log

-----------------------------------------------------------------------------
\* AJ_NVRAM_Read of a data set: what there is of n half-words from position pos on.
ReadAs(r, d, pos, n) ==
  /\ r \in Seq(HalfWord)
  /\ pos + n <= Len(d) => Len(r) = n /\ \A x \in 1..n : r[x] = d[pos + x]
  /\ n > 0 /\ pos + n > Len(d) => Len(r) < n

LEMMA ReadFacts ==
  ASSUME NEW m, Good(m), NEW id \in Ids, AJ_FindNVEntry(m, id) # 0, NEW pos \in Nat, NEW n \in Nat
  PROVE  ReadAs(AJ_NVRAM_Read(m, AJ_FindNVEntry(m, id), pos, n), Data(m, id), pos, n)
<1>1. PICK L, at : Arranged(m, L, at)
  BY DEF Good
<1>2. PICK i \in 0..(L - 1) : m[at[i]] = id /\ AJ_FindNVEntry(m, id) = at[i]
  BY <1>1, FoundEntry
<1> DEFINE p == at[i]
           k == m[p + 1]
           d == Data(m, id)
           from == p + 2 + pos
           len == IF k - pos < n THEN k - pos ELSE n
           to == from + (len - 1)
           r == SubSeq(m, from, to)
<1>3. p \in 3..(NvSize - 3) /\ k \in Nat \ {0, 1} /\ p + 2 + k <= NvSize + 1
  <2>1. Layout(m, L, at)
    BY <1>1 DEF Arranged
  <2> QED
    BY <2>1, Extent
<1>4. Len(d) = k /\ \A x \in 1..k : d[x] = m[p + 1 + x]
  BY <1>1, <1>2, DataFacts
<1>5. AJ_NVRAM_Read(m, AJ_FindNVEntry(m, id), pos, n) = r
  <2>1. AJ_NVRAM_Read(m, p, pos, n) = SubSeq(m, p + HeaderSize + pos, p + HeaderSize + pos + (len - 1))
    BY DEF AJ_NVRAM_Read, Capacity
  <2> QED
    BY <1>2, <2>1, Sizes
<1> HIDE DEF p, k, d
<1>6. from \in Nat /\ from >= p + 2 /\ len \in Int /\ len <= n /\ len <= k - pos /\ to \in Int
  BY <1>3, Sizes
<1>7. (pos + n <= k => len = n) /\ (pos + n > k /\ n > 0 => len < n)
  BY <1>3
<1>8. from + len <= p + 2 + k /\ from = p + 2 + pos /\ to = from + len - 1
  BY <1>3, <1>6, Sizes
<1> HIDE DEF from, len, to
<1>9. \A x \in from..to : m[x] \in HalfWord
  <2>1. \A x \in from..to : x \in 1..NvSize
    BY <1>3, <1>6, <1>8, Sizes
  <2>2. m \in Memory
    BY <1>1 DEF Arranged
  <2> QED
    BY <2>1, <2>2 DEF Memory
<1>10. /\ r \in Seq(HalfWord) /\ Len(r) = (IF from <= to THEN (to - from) + 1 ELSE 0)
       /\ \A x \in 1..((to - from) + 1) : r[x] = m[(from + x) - 1]
  <2>1. from \in Int
    BY <1>6
  <2> QED
    BY <1>6, <1>9, <2>1, SubSeqProperties
<1> HIDE DEF r
<1>11. ASSUME pos + n <= k PROVE Len(r) = n /\ \A x \in 1..n : r[x] = d[pos + x]
  <2>1. len = n /\ (to - from) + 1 = n
    BY <1>6, <1>7, <1>8, <1>11
  <2>2. Len(r) = n
    BY <1>6, <1>10, <2>1
  <2>3. ASSUME NEW x \in 1..n PROVE r[x] = d[pos + x]
    <3>1. pos + x \in 1..k /\ p + 1 + (pos + x) = (from + x) - 1
      BY <1>3, <1>8, <1>11, Sizes
    <3> QED
      BY <1>4, <1>10, <2>1, <3>1
  <2> QED
    BY <2>2, <2>3
<1>12. ASSUME n > 0, pos + n > k PROVE Len(r) < n
  BY <1>6, <1>7, <1>8, <1>10, <1>12, SMTT(30)
<1> QED
  BY <1>4, <1>5, <1>10, <1>11, <1>12 DEF d, ReadAs

\* One half-word is read.
LEMMA ReadOne ==
  ASSUME NEW m, Good(m), NEW id \in Ids, AJ_FindNVEntry(m, id) # 0, NEW pos \in Nat, pos < Len(Data(m, id))
  PROVE  AJ_NVRAM_Read(m, AJ_FindNVEntry(m, id), pos, 1) = <<Data(m, id)[pos + 1]>>
<1> DEFINE r == AJ_NVRAM_Read(m, AJ_FindNVEntry(m, id), pos, 1)
           d == Data(m, id)
<1>1. d \in Seq(HalfWord)
  <2>1. PICK L, at : Arranged(m, L, at)
    BY DEF Good
  <2> QED
    BY <2>1, DataFacts
<1>2. ReadAs(r, d, pos, 1)
  BY ReadFacts
<1>3. pos + 1 <= Len(d)
  BY <1>1
<1> HIDE DEF r, d
<1>4. Len(r) = 1 /\ r[1] = d[pos + 1] /\ r \in Seq(HalfWord)
  BY <1>2, <1>3 DEF ReadAs
<1>5. r = <<d[pos + 1]>>
  BY <1>4
<1> QED
  BY <1>5 DEF r, d

\* AJ_NVRAM_Write of cells that fit, from an even position on or of a single one: one write.
LEMMA WriteIs ==
  ASSUME NEW s \in Store, Good(s.mem), NEW id \in Ids, AJ_FindNVEntry(s.mem, id) # 0,
         NEW pos \in Nat, NEW cells \in Seq(HalfWord), Len(cells) > 0,
         pos + Len(cells) <= Len(Data(s.mem, id)), pos % 2 = 0 \/ Len(cells) = 1
  PROVE  \E at \in 1..NvSize, cs \in Seq(HalfWord) :
           /\ AJ_NVRAM_Write(s, AJ_FindNVEntry(s.mem, id), pos, cells) = NV_Write(s, at, cs)
           /\ LET m2 == Patch(s.mem, at, cs) IN
              /\ Good(m2) /\ Kept(s.mem, m2, {id}) /\ m2[3] = s.mem[3]
              /\ AJ_FindNVEntry(m2, id) = AJ_FindNVEntry(s.mem, id)
              /\ Data(m2, id) = Patch(Data(s.mem, id), pos + 1, cells)
<1> DEFINE m == s.mem
           p == AJ_FindNVEntry(m, id)
           d == Data(m, id)
           w == AJ_NVRAM_Write(s, p, pos, cells)
           Fine(m2) == /\ Good(m2) /\ Kept(m, m2, {id}) /\ m2[3] = m[3]
                       /\ AJ_FindNVEntry(m2, id) = p
                       /\ Data(m2, id) = Patch(d, pos + 1, cells)
<1>1. PICK L, at : Arranged(m, L, at)
  BY DEF Good
<1>2. PICK i \in 0..(L - 1) : m[at[i]] = id /\ p = at[i]
  BY <1>1, FoundEntry
<1>3. p \in 3..(NvSize - 3) /\ p + 2 + m[p + 1] <= NvSize + 1 /\ m \in Memory
  <2>1. Layout(m, L, at) /\ m \in Memory
    BY <1>1 DEF Arranged
  <2> QED
    BY <1>2, <2>1, Extent
<1>4. d \in Seq(HalfWord) /\ Len(d) = m[p + 1] /\ \A x \in 1..Len(d) : d[x] = m[p + 1 + x]
  BY <1>1, <1>2, DataFacts
<1>5. p \in Nat /\ Len(d) \in Nat /\ Len(cells) \in Nat /\ p + HeaderSize = p + 2
  BY <1>3, <1>4, Sizes
<1>6. Len(cells) <= Capacity(m, p) /\ pos + Len(cells) <= Capacity(m, p)
  BY <1>4, <1>5 DEF Capacity
<1>7. CASE pos % 2 = 0
  <2>1. w = IF SubSeq(cells, 1, Len(cells)) = <<>> THEN s
            ELSE NV_Write(s, p + 2 + pos, SubSeq(cells, 1, Len(cells)))
    <3> HIDE DEF p, m
    <3>1. ~(pos % 2 = 1 /\ Len(cells) > 0)
      BY <1>7
    <3> QED
      BY <1>5, <1>6, <3>1 DEF AJ_NVRAM_Write, m
  <2>2. SubSeq(cells, 1, Len(cells)) = cells /\ cells # <<>>
    OBVIOUS
  <2>3. w = NV_Write(s, p + 2 + pos, cells)
    BY <2>1, <2>2
  <2>4. p + 2 + pos \in 1..NvSize /\ Fine(Patch(m, p + 2 + pos, cells))
    BY WriteFacts DEF Written
  <2> HIDE DEF w, Fine
  <2>5. \E a \in 1..NvSize, cs \in Seq(HalfWord) : w = NV_Write(s, a, cs) /\ Fine(Patch(m, a, cs))
    BY <2>3, <2>4
  <2> QED
    BY <2>5 DEF w, Fine
<1>8. CASE pos % 2 # 0
  <2> DEFINE c == <<d[pos], cells[1]>>
             a == p + 2 + (pos - 1)
  <2>1. Len(cells) = 1 /\ pos % 2 = 1 /\ pos - 1 \in Nat /\ pos \in 1..Len(d)
    <3> HIDE DEF p, m, d
    <3>1. Len(cells) = 1
      BY <1>8
    <3>2. pos % 2 = 1 /\ pos >= 1
      BY <1>8
    <3>3. pos + 1 <= Len(d)
      BY <3>1 DEF d, m
    <3> QED
      BY <1>5, <3>1, <3>2, <3>3
  <2>2. d[pos] = m[p + 1 + pos] /\ d[pos] \in HalfWord /\ cells[1] \in HalfWord
    <3> HIDE DEF p, m, d
    <3>1. d[pos] = m[p + 1 + pos]
      BY <1>4, <2>1
    <3>2. d[pos] \in HalfWord
      BY <1>4, <2>1, ElementOfSeq
    <3>3. 1 \in 1..Len(cells)
      BY <2>1
    <3>4. cells[1] \in HalfWord
      BY <3>3, ElementOfSeq
    <3> QED
      BY <3>1, <3>2, <3>4
  <2>3. p + 1 + pos = a /\ p + 2 + pos - 1 = a
    BY <1>5, <2>1
  <2>4. w = NV_Write(s, a, c)
    <3> HIDE DEF p, m
    <3>1. SubSeq(cells, 2, 1) = <<>>
      BY <2>1
    <3>2. w = NV_Write(s, p + HeaderSize + pos - 1, <<m[p + HeaderSize + pos - 1], cells[1]>>)
      BY <1>6, <2>1, <3>1 DEF AJ_NVRAM_Write, m
    <3> QED
      BY <1>5, <2>2, <2>3, <3>2
  <2>5. c \in Seq(HalfWord) /\ Len(c) = 2 /\ c[1] = d[pos] /\ c[2] = cells[1]
    BY <2>2
  <2> HIDE DEF c
  <2>6. (pos - 1) + Len(c) <= Len(d) /\ Len(c) > 0
    BY <1>5, <2>1, <2>5
  <2>7. /\ a \in 1..NvSize /\ Good(Patch(m, a, c)) /\ Kept(m, Patch(m, a, c), {id})
        /\ Patch(m, a, c)[3] = m[3] /\ AJ_FindNVEntry(Patch(m, a, c), id) = p
        /\ Data(Patch(m, a, c), id) = Patch(d, (pos - 1) + 1, c)
    BY <2>1, <2>5, <2>6, WriteFacts DEF Written
  <2>8. Patch(d, (pos - 1) + 1, c) = Patch(d, pos + 1, cells)
    <3> HIDE DEF d
    <3>1. DOMAIN d = 1..Len(d)
      BY <1>4
    <3>2. ASSUME NEW x \in 1..Len(d)
          PROVE  (IF x \in ((pos - 1) + 1)..(((pos - 1) + 1) + Len(c) - 1) THEN c[x - ((pos - 1) + 1) + 1] ELSE d[x])
                 = (IF x \in (pos + 1)..((pos + 1) + Len(cells) - 1) THEN cells[x - (pos + 1) + 1] ELSE d[x])
      <4>1. CASE x = pos
        BY <2>1, <2>5, <4>1
      <4>2. CASE x = pos + 1
        <5>1. x - ((pos - 1) + 1) + 1 = 2 /\ x - (pos + 1) + 1 = 1
          BY <4>2
        <5> QED
          BY <2>1, <2>5, <4>2, <5>1
      <4>3. CASE x # pos /\ x # pos + 1
        BY <2>1, <2>5, <4>3
      <4> QED
        BY <4>1, <4>2, <4>3
    <3> QED
      BY <3>1, <3>2 DEF Patch
  <2> HIDE DEF w, Fine, a
  <2>9. Fine(Patch(m, a, c))
    BY <2>7, <2>8 DEF Fine
  <2>10. \E b \in 1..NvSize, cs \in Seq(HalfWord) : w = NV_Write(s, b, cs) /\ Fine(Patch(m, b, cs))
    BY <2>4, <2>5, <2>7, <2>9
  <2> QED
    BY <2>10 DEF w, Fine
<1> QED
  BY <1>7, <1>8

\* A write that begins within a word is two: the word is completed, then the rest is written.
LEMMA WriteTwice ==
  ASSUME NEW s, NEW e, NEW pos \in Nat, NEW cells \in Seq(HalfWord), Len(cells) > 1, pos % 2 = 1,
         Capacity(s.mem, e) \in Nat, pos + Len(cells) <= Capacity(s.mem, e),
         Capacity(AJ_NVRAM_Write(s, e, pos, <<cells[1]>>).mem, e) = Capacity(s.mem, e)
  PROVE  AJ_NVRAM_Write(s, e, pos, cells) =
           AJ_NVRAM_Write(AJ_NVRAM_Write(s, e, pos, <<cells[1]>>), e, pos + 1, Tail(cells))
<1> DEFINE cap == Capacity(s.mem, e)
           data == e + HeaderSize
           word == NV_Write(s, data + pos - 1, <<s.mem[data + pos - 1], cells[1]>>)
           first == AJ_NVRAM_Write(s, e, pos, <<cells[1]>>)
           n == Len(cells)
           rest == Tail(cells)
<1>1. n \in Nat /\ n > 1 /\ pos + n <= cap /\ cap \in Nat /\ pos + 1 <= cap
  OBVIOUS
<1>2. first = word
  <2>1. Len(<<cells[1]>>) = 1 /\ <<cells[1]>>[1] = cells[1] /\ SubSeq(<<cells[1]>>, 2, 1) = <<>>
    OBVIOUS
  <2> HIDE DEF n, rest
  <2>2. pos + Len(<<cells[1]>>) <= Capacity(s.mem, e) /\ (pos % 2 = 1 /\ Len(<<cells[1]>>) > 0)
    BY <1>1, <2>1
  <2> QED
    BY <2>1, <2>2 DEF AJ_NVRAM_Write
<1>3. SubSeq(cells, 2, n) = rest /\ rest \in Seq(HalfWord) /\ Len(rest) = n - 1 /\ rest # <<>>
  <2>1. cells \in Seq(HalfWord) /\ n = Len(cells) /\ n > 1
    OBVIOUS
  <2>2. rest \in Seq(HalfWord) /\ Len(rest) = n - 1
    BY ONLY <2>1, SMTT(20)
  <2>3. SubSeq(cells, 2, n) = rest
    BY ONLY <2>1, SMTT(20)
  <2>4. rest # <<>>
    <3> HIDE DEF rest, n
    <3> QED
      BY ONLY <1>1, <2>2
  <2> QED
    BY ONLY <2>2, <2>3, <2>4
<1>4. AJ_NVRAM_Write(s, e, pos, cells) = NV_Write(word, data + (pos + 1), rest)
  <2>1. pos + Len(cells) <= Capacity(s.mem, e) /\ (pos % 2 = 1 /\ Len(cells) > 0)
    BY <1>1
  <2> HIDE DEF word
  <2>2. AJ_NVRAM_Write(s, e, pos, cells) =
          IF SubSeq(cells, 2, n) = <<>> THEN word ELSE NV_Write(word, data + (pos + 1), SubSeq(cells, 2, n))
    BY <2>1 DEF AJ_NVRAM_Write, word
  <2> HIDE DEF rest, n
  <2> QED
    BY <1>3, <2>2
<1>5. SubSeq(rest, 1, Len(rest)) = rest
  BY <1>3
<1> HIDE DEF first, word
<1>6. Capacity(first.mem, e) = cap
  BY DEF first
<1> HIDE DEF rest, n, cap
<1>7. AJ_NVRAM_Write(first, e, pos + 1, rest) = NV_Write(first, data + (pos + 1), rest)
  <2>1. pos \in Nat /\ pos % 2 = 1
    OBVIOUS
  <2>2. (pos + 1) % 2 = 0
    BY ONLY <2>1, SMTT(20)
  <2>3. pos + 1 + Len(rest) <= Capacity(first.mem, e)
    BY ONLY <1>1, <1>3, <1>6, <2>1
  <2>4. ~((pos + 1) % 2 = 1 /\ Len(rest) > 0)
    BY ONLY <2>2
  <2> QED
    BY <1>3, <1>5, <2>3, <2>4 DEF AJ_NVRAM_Write
<1> QED
  BY <1>2, <1>4, <1>7 DEF first, word, rest

-----------------------------------------------------------------------------
\* A data set of a good memory.
LEMMA GoodData ==
  ASSUME NEW m, Good(m), NEW id \in Ids
  PROVE  /\ m \in Memory /\ Data(m, id) \in Seq(HalfWord) /\ Len(Data(m, id)) \in Nat
         /\ Data(m, id) = <<>> <=> AJ_FindNVEntry(m, id) = 0
         /\ Data(m, id) # <<>> => /\ m[AJ_FindNVEntry(m, id)] = id /\ AJ_FindNVEntry(m, id) \in 3..NvSize
                                  /\ Len(Data(m, id)) < INVALID_DATA
                                  /\ Capacity(m, AJ_FindNVEntry(m, id)) = Len(Data(m, id))
<1>1. PICK L, at : Arranged(m, L, at)
  BY DEF Good
<1>2. m \in Memory /\ Layout(m, L, at)
  BY <1>1 DEF Arranged
<1> DEFINE d == Data(m, id)
           p == AJ_FindNVEntry(m, id)
<1>3. d \in Seq(HalfWord) /\ (d = <<>> <=> p = 0)
  BY <1>1, DataFacts
<1>4. Len(d) \in Nat
  BY <1>3
<1>5. ASSUME d # <<>> PROVE m[p] = id /\ p \in 3..NvSize /\ Len(d) < INVALID_DATA /\ Capacity(m, p) = Len(d)
  <2>1. p # 0
    BY <1>3, <1>5
  <2>2. PICK i \in 0..(L - 1) : m[at[i]] = id /\ p = at[i]
    BY <1>1, <2>1, FoundEntry
  <2>3. Len(d) = m[at[i] + 1]
    BY <1>1, <2>2, DataFacts
  <2>4. at[i] \in 3..(NvSize - 3) /\ m[at[i] + 1] <= NvSize
    BY <1>2, Extent
  <2> DEFINE q == at[i]
             n == m[q + 1]
  <2>5. q \in 3..NvSize /\ n < INVALID_DATA
    <3>1. n \in Nat \ {0, 1}
      BY <1>2, Extent
    <3> HIDE DEF q, n
    <3> QED
      BY <2>4, <3>1, Sizes DEF q, n
  <2> QED
    BY <2>2, <2>3, <2>5 DEF Capacity
<1> QED
  BY <1>2, <1>3, <1>4, <1>5

\* _AJ_CompactNVStorage: however many entries have been deleted and wherever they are, and though
\* a move may overlap what it moves, the storage is in order afterwards, and every data set that
\* could be found before can be found and has the data it had.
THEOREM CompactionKeepsData ==
  ASSUME NEW s \in Store, Good(s.mem)
  PROVE  /\ Good(CompactNVStorage(s).mem)
         /\ \A id \in Ids : /\ Data(CompactNVStorage(s).mem, id) = Data(s.mem, id)
                            /\ AJ_NVRAM_Exist(CompactNVStorage(s).mem, id) <=> AJ_NVRAM_Exist(s.mem, id)
<1> DEFINE m2 == CompactNVStorage(s).mem
<1>1. Good(m2) /\ Kept(s.mem, m2, {})
  BY CompactFacts
<1> HIDE DEF m2
<1>2. ASSUME NEW id \in Ids PROVE Data(m2, id) = Data(s.mem, id)
  BY <1>1 DEF Kept
<1>3. ASSUME NEW m, Good(m), NEW id \in Ids PROVE AJ_NVRAM_Exist(m, id) <=> Data(m, id) # <<>>
  BY <1>3, GoodData DEF AJ_NVRAM_Exist, Ids
<1> QED
  BY <1>1, <1>2, <1>3 DEF m2
=============================================================================
