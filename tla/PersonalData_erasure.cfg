CONSTANTS
    Enquiry = {e1}
    Update = {u1, u2}
SPECIFICATION Spec
INVARIANTS NamedOnlyByOverlap AuditTellsStatus
PROPERTIES ErasedForGood CachesForget
