\* Every set of the bytes 0..7, every range argument, empty and negative too.
CONSTANTS
    MaxEnd = 8
    Deficit = 2
SPECIFICATION Spec
INVARIANTS
    RecordsWhatIsHeld
    AnswersAsSet
