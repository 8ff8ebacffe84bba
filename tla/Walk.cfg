SPECIFICATION WalkSpec
CONSTANTS
    MaxLen = 8
    MaxPage = 4
    DefaultPreview = 3
    Documents <- MCTexts
INVARIANTS
    PagesAreText
    WalkIsWhole
    SnapshotAndStreamAgree
    PreviewIsLongest
PROPERTIES
    WalkEnds
