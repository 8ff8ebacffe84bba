SPECIFICATION Spec
CONSTANTS
    Agents = {a1, a2}
    Humans = {h}
    Stranger = Stranger
    Creds = {c1, c2}
    BadToken = BadToken
    Requests = {r1, r2}
    MaxTime = 2
SYMMETRY Symmetry
INVARIANTS
    RevokedTokensAreRefused
    RowsNameTheOwner
    AnswersAreRecorded
    RefusalsAreJustified
PROPERTIES
    RevocationIsPermanent
