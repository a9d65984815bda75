SPECIFICATION FairSpec
CONSTANTS
    Lines <- MCLines
    MaxLength = 2
    PipeSize = 1
    MaxSent = 3
    Nothing = Nothing
    Null = Null
    NaN = NaN
CHECK_DEADLOCK FALSE
INVARIANTS TypeOK AnswersInOrder NoAnswerUnasked EndsForAReason
PROPERTIES RequestsAnswered
