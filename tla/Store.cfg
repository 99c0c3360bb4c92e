\* Saves of one document, crashes and I/O errors anywhere; concurrent saves in half of the behaviours.
SPECIFICATION Spec
CONSTANTS
    w1 = w1
    w2 = w2
    Writers <- MCWriters
    MaxSaves = 4
    Size <- MCSize
INVARIANTS TypeOK SerialNeverCorrupt SerialAcknowledgedSurvives
PROPERTIES NeverVanishes SerialImplementsAtomicStore
CHECK_DEADLOCK FALSE
