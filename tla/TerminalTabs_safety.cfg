\* Every gesture, with room for two tabs with splits and a third one.
SPECIFICATION TabsSpec
CONSTANT Session = {s1, s2, s3, s4, s5}
SYMMETRY Symmetry
INVARIANTS
    TabsTypeOK
    PanesAreBacked
    PanesStayInTheirTab
PROPERTY RegularUseKeepsPanes
\* Every session may have been opened and closed.
CHECK_DEADLOCK FALSE
