------------------------------- MODULE MCHub --------------------------------
EXTENDS Hub, TLC

CONSTANTS n1, n2, c1, e1, e2

\* A connection to one of two servers; a message that is published a second time
\* if need be, and a receipt.
MCNodeOf == [c \in Clients |-> n1]
MCKindOf == [e \in Events |-> IF e = e1 THEN "message" ELSE "receipt"]
MCAttempts == [e \in Events |-> IF e = e1 THEN 2 ELSE 1]
=============================================================================
