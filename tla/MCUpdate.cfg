SPECIFICATION Spec
CONSTANTS
    Base = 2
    LenWidth = 2
    SizeWidth = 4
    MaxAlloc = 1
    Urls <- MCUrls
    Streams <- MCStreams
    Texts <- MCTexts
INVARIANTS
    AnswerAsSent
    RefusalNeverRead
PROPERTIES
    FetchIsBounded
CHECK_DEADLOCK FALSE
