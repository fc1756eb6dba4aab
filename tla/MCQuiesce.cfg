SPECIFICATION Spec
CONSTANTS
    CandidateGap = 3
    ConfirmGap = 1
    AttentionGap = 4
    SettleGap = 6
    WorkStartWindow = 10
    MaxLate = 3
INVARIANTS
    WaitingIsTimed
PROPERTIES
    ImplementsQuiesce
    SettlesAfterSilence
    BusyIsSustained
    NoRunUnasked
    SilenceSettles
