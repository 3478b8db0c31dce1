----------------------------- MODULE CredStore -----------------------------
(***************************************************************************)
(* What src/aj_creds.c and src/aj_nvram.c promise together: a device keeps *)
(* a GUID and a set of credentials, one for each name (type and id), in    *)
(* memory and in a file.  A call changes the memory at once, the file one  *)
(* credential at a time, until the file is what the memory is; when the    *)
(* power fails, what the file is then is what is left, or nothing if it    *)
(* was just being written.  A credential whose writing was interrupted may *)
(* be there with part of its data.                                         *)
(*                                                                         *)
(* Two things that no device should do are what the code does: a call that *)
(* finds no room, and nothing it may delete, does not return; and a power  *)
(* failure while the storage is compacted ends all promises.               *)
(***************************************************************************)
EXTENDS Integers, FiniteSets

CONSTANTS
  Named(_),       \* the name of a credential
  Damaged(_),     \* what an interrupted write may leave of a credential
  Evictable(_),   \* whether a credential may be deleted to make room for others
  Expires(_),     \* when it expires
  NoGuid          \* what an interrupted write leaves of the GUID

VARIABLES
  creds, guid,      \* in memory
  kept, keptGuid,   \* in the file; keptGuid is {} or the set of the GUID
  busy,             \* whether a call still has to write to the file
  hand,             \* the set of the name of the credential it stores
  on                \* "off", "on", "stuck" in a call for ever, or "broken"

abstractVars == <<creds, guid, kept, keptGuid, busy, hand, on>>

OneEach(S) == \A c, d \in S : Named(c) = Named(d) => c = d

\* Credentials are evicted in the order in which they expire.
OldestFirst(gone, S) ==
  /\ gone \subseteq S
  /\ \A g \in gone : Evictable(g) /\ \A c \in S \ gone : Evictable(c) => Expires(g) <= Expires(c)

\* Once a call has nothing left to write, the file is the memory.
Settled == busy \/ (kept = creds /\ keptGuid = {guid})

(***************************************************************************)
(* Calls.  A credential that is stored replaces the one of its name, or    *)
(* others are evicted to make room for it.  A call that fails may have     *)
(* evicted some as well, or deleted the one to be replaced; so does one    *)
(* that deletes a credential.                                              *)
(***************************************************************************)
Sames(c) == {k \in creds : Named(k) = Named(c)}
Store ==
  /\ UNCHANGED on
  /\ \E c \in creds' : \E gone \in SUBSET creds :
       /\ OldestFirst(gone, creds) /\ (Sames(c) # {} => gone = {})
       /\ creds' = (creds \ (gone \cup Sames(c))) \cup {c}
       /\ hand' = {Named(c)}

Evict  == \E gone \in SUBSET creds : OldestFirst(gone, creds) /\ creds' = creds \ gone
Delete == \E c \in creds : creds' = creds \ {c}
Clear  == creds' = {}
Lose   == (Evict \/ Delete \/ Clear) /\ hand' = {} /\ UNCHANGED on

\* A call that does not return has evicted all there was to evict.
Hang == creds' = {c \in creds : ~Evictable(c)} /\ hand' = {} /\ on' = "stuck"

Call ==
  /\ on = "on" /\ ~busy
  /\ Store \/ Lose \/ Hang
  /\ OneEach(creds') /\ Settled'
  /\ UNCHANGED <<guid, kept, keptGuid>>

(***************************************************************************)
(* The file.  What is deleted from it is not in the memory, or is the      *)
(* credential that is being stored; what is written is that credential, as *)
(* far as it goes, or the GUID.                                            *)
(***************************************************************************)
Erase(c)  == (c \notin creds \/ Named(c) \in hand) /\ kept' = kept \ {c}
Fill(c)   == Named(c) \in hand /\ \E d \in {c} \cup Damaged(c) :
               kept' = {k \in kept : Named(k) # Named(c)} \cup {d}
Stay      == kept' = kept
PutGuid   == \/ keptGuid = {} /\ keptGuid' = {NoGuid}
             \/ keptGuid \subseteq {NoGuid} /\ keptGuid' = {guid}

Write ==
  /\ on \in {"on", "stuck"} /\ busy
  /\ \/ (Stay \/ (\E c \in kept : Erase(c)) \/ (\E c \in creds : Fill(c))) /\ UNCHANGED keptGuid
     \/ Stay /\ PutGuid
  /\ hand' \subseteq hand /\ Settled'
  /\ UNCHANGED <<creds, guid, on>>

Gone == creds' = {} /\ guid' = NoGuid /\ ~busy' /\ hand' = {}

PowerFails ==
  /\ on \in {"on", "stuck"} /\ on' = "off" /\ Gone
  /\ \/ UNCHANGED <<kept, keptGuid>>
     \/ busy /\ kept' = {} /\ keptGuid' = {}

Breaks == on \in {"on", "stuck"} /\ busy /\ on' = "broken" /\ Gone /\ kept' = {} /\ keptGuid' = {}

Boot ==
  /\ on = "off" /\ on' = "on"
  /\ creds' = kept /\ hand' = {} /\ Settled'
  /\ keptGuid # {} => guid' \in keptGuid
  /\ UNCHANGED <<kept, keptGuid>>

Start ==
  /\ creds = {} /\ guid = NoGuid /\ kept = {} /\ keptGuid = {}
  /\ ~busy /\ hand = {} /\ on = "off"

Promise == Start /\ [][Call \/ Write \/ PowerFails \/ Breaks \/ Boot]_abstractVars
=============================================================================
