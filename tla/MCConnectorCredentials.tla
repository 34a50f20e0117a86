----------------------- MODULE MCConnectorCredentials -----------------------
(***************************************************************************)
(* A credential in the making and one minted before snapshots existed,     *)
(* two calls, two revocations and two operators.                           *)
(***************************************************************************)
EXTENDS ConnectorCredentials, TLC

CONSTANTS c1, c2, k1, k2, v1, v2, o1, o2

MCCredential == {c1, c2}
MCLegacy == {c2}
MCCaller == {k1, k2}
MCRevoker == {v1, v2}
MCOperator == {o1, o2}
MCSymmetry == Permutations(MCCaller) \cup Permutations(MCRevoker)
                  \cup Permutations(MCOperator)
=============================================================================
