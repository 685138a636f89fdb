\* Two replicas of a text of one letter, three letters typed, no deletions.
SPECIFICATION TextSpec
CONSTANTS
    a = a
    Writers = {1, 2}
    Letters = {a, b}
    InitialText <- OneLetter
    TypingTimes = {1}
    MaxTyped = 3
    MaxErased = 0
INVARIANTS
    SameCharsSameText
CHECK_DEADLOCK FALSE
