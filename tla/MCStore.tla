------------------------------ MODULE MCStore ------------------------------
(* Small instances of Creds. *)
EXTENDS Creds
Cred(type, id, expiration, data) ==
  [type |-> type, id |-> id, expiration |-> expiration, data |-> data]
Mixed == {Cred(1, 7, 1, <<21>>), Cred(1, 7, 2, <<22, 23, 24>>), Cred(1, 8, 2, <<25>>),
          Cred(1, 9, 1, <<26>>), Cred(2, 7, 3, <<27>>)}
Local == {Cred(2, 7, 3, <<27>>), Cred(2, 8, 3, <<28>>), Cred(2, 9, 3, <<29>>)}
Two == {41, 42}
=============================================================================
