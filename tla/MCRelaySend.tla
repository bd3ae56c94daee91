---------------------------- MODULE MCRelaySend -----------------------------
(* One keyed and one unkeyed local message, one remote message.            *)
EXTENDS RelaySend, TLC

CONSTANTS m1, m2, m3, k1

MCKeyOf == (m1 :> k1) @@ (m2 :> NoKey) @@ (m3 :> NoKey)
=============================================================================
