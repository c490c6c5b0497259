CONSTANTS
    MaxLen = 7
    MaxKey = 4
SPECIFICATION FairSpec
INVARIANT TypeOK
INVARIANT AnswerInWindow
INVARIANT ResultIsLowerBound
INVARIANT ProbesAreLogarithmic
PROPERTY Returns
