SPECIFICATION Spec
CONSTANTS
    SmallTalkWords = 5
    FollowUpWords = 2
    Texts <- MCTexts
    MaxPast = 2
    Docs <- MCDocs
    WordsOf <- MCWordsOf
    NoIndex = NoIndex
    K = 60
    PerList = 2
    Candidates = 2
    TopK = 1
INVARIANTS SubjectKept LanguageKept NearestIsCandidate
CHECK_DEADLOCK FALSE
