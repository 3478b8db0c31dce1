------------------------------- MODULE MCPeer -------------------------------
(* Six devices in four scenes: n1 and n2 with the same pre-shared key, n2, n3 and n4 with   *)
(* different suites, and n1 that tries n5 and n6, which want neither key nor certificate,   *)
(* twice, patiently or not.                                                                 *)
EXTENDS Peer
CONSTANTS n1, n2, n3, n4, n5, n6

AllSuites == {PSK, ECDSA, NULL}
Devices == {n1, n2, n3, n4, n5, n6}

\* Of two devices, who has the secret of an earlier session: both, one or none.
Stored(a, b, S) ==
  [e \in Device |-> [p \in Device |-> IF <<e, p>> \in S THEN {<<a, 0>>, <<b, 0>>} ELSE {}]]
AnyEarlier(a, b) == {Stored(a, b, S) : S \in SUBSET {<<a, b>>, <<b, a>>}}

Scene(on, wanted, attempts, patient, connections, forgetful, chances, secrets) ==
  [on |-> on, wanted |-> wanted, attempts |-> attempts, patient |-> patient,
   connections |-> connections, forgetful |-> forgetful, chances |-> chances, secrets |-> secrets]
\* Both authenticate each other, over two connections.
Pair ==
  Scene({n1, n2}, {<<n1, n2>>, <<n2, n1>>}, 1, TRUE, 2, TRUE, [late : BOOLEAN, full : BOOLEAN],
        AnyEarlier(n1, n2))
\* A triangle.  n2 and n3 approve each other's certificates, n3's by the issuer n4; n2 and n4
\* have different pre-shared keys; n4 approves n3, which does not approve it.
Triangle ==
  Scene({n2, n3, n4}, {<<n3, n2>>, <<n4, n2>>, <<n3, n4>>}, 1, TRUE, 1, FALSE,
        [late : BOOLEAN, full : {FALSE}], AnyEarlier(n3, n2))
\* n1 tries again: n5, or n6, whose listener refuses.
Again(patient) ==
  Scene({n1, n5, n6}, {<<n1, n5>>, <<n1, n6>>}, 2, patient, 1, TRUE, [late : BOOLEAN, full : {FALSE}],
        {Stored(n1, n5, {})})
AnyScene == {Pair, Triangle, Again(TRUE), Again(FALSE)}

AnySuites == [e \in Device |-> CASE e = n1 -> <<PSK, NULL>>
                                [] e = n3 -> <<ECDSA>>
                                [] e \in {n5, n6} -> <<NULL>>
                                [] e \in {n2, n4} -> <<PSK, ECDSA>>]
SomePsk == [e \in Device |-> IF e = n4 THEN "other" ELSE "psk"]
Chains == [e \in Device |-> CASE e \in {n1, n5, n6} -> <<>> [] e = n2 -> <<n2>>
                             [] e = n3 -> <<n3, n4>> [] e = n4 -> <<n4>>]
WithoutSecret == {n1, n5}
Issuers == [e \in Device |-> CASE e \in {n1, n5, n6} -> {}
                              [] e = n3 -> {n2} [] e \in {n2, n4} -> {n4}]
=============================================================================
