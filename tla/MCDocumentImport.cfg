\* Two uploads that may be given the same key, two people, two recognitions.
CONSTANTS
    Sources = {s1, s2}
    OwnKey <- MCOwnKey
    Contents = {filled}
    Blank = Blank
    Clients = {c1, c2}
    Attempts = {r1, r2}
    NoAttempt = NoAttempt
    MaxVersion = 5
SYMMETRY Symmetry
SPECIFICATION ImportSpec
INVARIANT ImportTypeOK
INVARIANT VersionIdentifiesDraft
INVARIANT ConfirmedHasItsDocument
PROPERTY CorrectionsSurvive
