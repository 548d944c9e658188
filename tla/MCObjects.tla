----------------------------- MODULE MCObjects ------------------------------
EXTENDS Objects
CONSTANTS hi, mid, lo, a, b, desc1
MCPrio == [t \in Threads |-> IF t = hi THEN 1 ELSE 2]
MCEntries == [stack |-> 2, async |-> Cardinality(Descs)]
=============================================================================
