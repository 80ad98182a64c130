\* Two tabs of one connection, under fairness of the threads and the executor:
\* they share a row, and a failed or a closed tab can meet a live one.  Rows of
\* different connections have nothing in common.
SPECIFICATION FairSpec
CONSTANTS
    Session = {s1, s2}
    Connection = {c1}
INVARIANTS
    SoleTabIsTruthful
    NotifiesOnlyLostLinks
    RowIsTruthful
PROPERTIES
    ConnectingResolves
    LostSessionIsShown
\* Every session can end and every tab be closed for good.
CHECK_DEADLOCK FALSE
