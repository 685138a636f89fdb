\* One card, one reviewer who answers badly or well, four days.
SPECIFICATION CardsSpec
CONSTANTS
    Decks = {d1}
    Cards = {c1}
    Reviewers = {r1}
    Qualities = {2, 5}
    RetentionDays = 0
    LastDay = 3
    MaxReviews = 3
INVARIANTS
    DueByLatest
CHECK_DEADLOCK FALSE
