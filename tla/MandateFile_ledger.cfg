\* Three calls on one mandate, crashes and failing writes; the backends come from
\* open(), or are built with new and loaded by their first calls.
SPECIFICATION FairSpec
CONSTANTS
    m1 = m1  c1 = c1  c2 = c2  c3 = c3  None = None
    Mandates <- OneMandate
    Calls <- ThreeCalls
INVARIANTS AcknowledgedIsDurable UsedOnce
PROPERTIES ImplementsLedger CallIsAnswered
CHECK_DEADLOCK FALSE
