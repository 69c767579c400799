----------------------------- MODULE MCDataLoaders -----------------------------
EXTENDS DataLoaders

Document(n, s) == [len |-> n, starts |-> s]

\* A joined document with an inner start, an empty one, one longer than a row, and
\* a short one; every rank's rows hold at least one that is not empty.
MCDocuments == <<Document(5, {2}), Document(0, {}), Document(7, {}), Document(1, {0})>>
MCOrders == <<[i \in 1 .. 4 |-> i], [i \in 1 .. 4 |-> 5 - i]>>
MCConfigs ==
  {c \in [streaming : BOOLEAN, repeat : BOOLEAN, world : {1, 2}, rank : {0, 1}] :
     c.rank < c.world /\ (~c.repeat => c.world = 1)}
=============================================================================
