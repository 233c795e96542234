\* Two tabs, and three revisions: a workspace is created, and two tabs get at
\* it, or it is deleted and another one created.
CONSTANTS
    t1 = t1  t2 = t2  r1 = r1
    Tabs = {t1, t2}
    Records = {r1}
    Nothing = Nothing
    MaxFresh = 3
\* Every tab may be closed.
CHECK_DEADLOCK FALSE
SPECIFICATION Spec
INVARIANTS
    ManifestMatches
    ApprovedBeforeSent
PROPERTIES
    WriteKeepsLock
    MarkIsFinal
    MarkedGoes
