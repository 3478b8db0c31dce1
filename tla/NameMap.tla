------------------------------ MODULE NameMap ------------------------------
(***************************************************************************)
(* The map from bus names to GUIDs and keys, src/aj_guid.c, as operators   *)
(* on a sequence of slots.  A unique name is a pair, of a device and the   *)
(* number of its connection; a well-known name and a GUID are the device   *)
(* itself.                                                                 *)
(***************************************************************************)
EXTENDS Integers, Sequences

CONSTANT NumNames   \* AJ_NAME_MAP_GUID_SIZE

ASSUME NameMapAssumption == NumNames \in Nat \ {0}

None == <<>>        \* a name, GUID or key of zeros, or a null pointer

AJ_ROLE_KEY_UNDEFINED == 0
AJ_ROLE_KEY_INITIATOR == 1
AJ_ROLE_KEY_RESPONDER == 2

NoMapping == [uniqueName |-> None, serviceName |-> None, guid |-> None,
              sessionKey |-> None, keyRole |-> AJ_ROLE_KEY_UNDEFINED, groupKey |-> None]

\* AJ_GUID_ClearNameMap.
NoNames == [i \in 1..NumNames |-> NoMapping]

Names(mapping, name) ==
  mapping.uniqueName = name \/ (mapping.serviceName # None /\ mapping.serviceName = name)

\* LookupName and AJ_GUID_Find: the first slot of that name, or 0.
LookupName(map, name) ==
  LET named == {i \in DOMAIN map : Names(map[i], name)}
  IN IF named = {} THEN 0 ELSE CHOOSE i \in named : \A j \in named : i <= j

\* The slot AJ_GUID_AddNameMapping uses: that of the unique name, or a free one, or none.
SlotFor(map, uniqueName) ==
  LET slot == LookupName(map, uniqueName) IN IF slot # 0 THEN slot ELSE LookupName(map, None)

\* The keys of a mapping that is there already stay.
AJ_GUID_AddNameMapping(map, guid, uniqueName, serviceName) ==
  LET slot == SlotFor(map, uniqueName) IN
  IF slot = 0 THEN map
  ELSE [map EXCEPT ![slot].guid = guid, ![slot].uniqueName = uniqueName,
                   ![slot].serviceName = serviceName]

AJ_GUID_DeleteNameMapping(map, uniqueName) ==
  LET slot == LookupName(map, uniqueName) IN
  IF slot = 0 THEN map ELSE [map EXCEPT ![slot] = NoMapping]

AJ_SetSessionKey(map, name, key, role) ==
  LET slot == LookupName(map, name) IN
  IF slot = 0 THEN map ELSE [map EXCEPT ![slot].sessionKey = key, ![slot].keyRole = role]

AJ_SetGroupKey(map, name, key) ==
  LET slot == LookupName(map, name) IN
  IF slot = 0 THEN map ELSE [map EXCEPT ![slot].groupKey = key]

\* What EncryptMessage uses for a message to that name: the key and this end's role, or None.
AJ_GetSessionKey(map, name) ==
  LET slot == LookupName(map, name) IN
  IF slot = 0 THEN None ELSE <<map[slot].sessionKey, map[slot].keyRole>>

\* DecryptMessage, of a message sealed with a key and the role of its sender.
DecryptMessage(map, name, seal) ==
  LET mine == AJ_GetSessionKey(map, name)
  IN mine # None /\ seal = <<mine[1], 3 - mine[2]>>
=============================================================================
