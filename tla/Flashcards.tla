----------------------------- MODULE Flashcards -----------------------------
(***************************************************************************)
(* The flashcard engine of devnote-flashcard: decks, cards and review      *)
(* records in SQLite, scheduled by SM-2.  A review takes the connection's  *)
(* lock three times, so other calls run between its steps.  Time is in     *)
(* days, ease factors are in hundredths.                                   *)
(***************************************************************************)
EXTENDS Integers, StableOrder

CONSTANTS
    Decks,
    Cards,
    Reviewers,      \* the threads that review
    Qualities,      \* the ratings given, 0..5
    RetentionDays,
    LastDay,        \* bound: days
    MaxReviews      \* bound: review records

ASSUME CardsAssumption ==
    /\ Qualities \subseteq 0..5
    /\ RetentionDays \in Nat /\ LastDay \in Nat /\ MaxReviews \in Nat

VARIABLES
    decks,     \* the decks there are
    cardDeck,  \* the deck of each card there is
    records,   \* the review records, in the order of reviewed_at
    reviews,   \* where each reviewer is in review_flashcard
    today

cardVars == <<decks, cardDeck, records, reviews, today>>

Never == "no deck"

ASSUME DecksAssumption ==
    {Never, "deleted"} \cap Decks = {} /\ IsFiniteSet(Cards)

Idle == [step |-> "idle"]

\* What a card that was never reviewed is scheduled from.
FirstReview == [ease |-> 250, interval |-> 0, repetitions |-> 0]

CardsInit ==
    /\ decks = Decks
    /\ cardDeck = [c \in Cards |-> Never]
    /\ records = <<>>
    /\ reviews = [r \in Reviewers |-> Idle]
    /\ today = 0

LiveCards == {c \in Cards : cardDeck[c] \in decks}

NewEase(quality, ease) ==
    LET change == 10 - (5 - quality) * (8 + (5 - quality) * 2)
    IN  IF quality < 3 THEN 250
        ELSE IF ease + change < 130 THEN 130 ELSE ease + change

\* Variant: the interval of six days comes one review late.
NextReviewLate(quality, last) ==
    LET ease == NewEase(quality, last.ease)
        repetitions == IF quality < 3 THEN 0 ELSE last.repetitions + 1
        interval == IF repetitions <= 2 THEN 1
                    ELSE IF repetitions = 3 THEN 6
                    ELSE (last.interval * ease + 50) \div 100
    IN  [ease |-> ease, interval |-> interval, repetitions |-> repetitions]

\* SM-2: a rating below 3 starts the card over.
NextReview(quality, last) ==
    LET ease == NewEase(quality, last.ease)
        repetitions == IF quality < 3 THEN 0 ELSE last.repetitions + 1
        interval == IF repetitions <= 1 THEN 1
                    ELSE IF repetitions = 2 THEN 6
                    ELSE (last.interval * ease + 50) \div 100
    IN  [ease |-> ease, interval |-> interval, repetitions |-> repetitions]

(* Decks and cards; ids are random and not used again. *)

CreateFlashcard(c) ==
    \E deck \in decks :
        /\ cardDeck[c] = Never
        /\ cardDeck' = [cardDeck EXCEPT ![c] = deck]
        /\ UNCHANGED <<decks, records, reviews, today>>

\* Foreign keys cascade: the records of deleted cards go with them.
KeepRecordsOf(cards) == Kept(records, LAMBDA r : r.card \in cards)

DeleteFlashcard(c) ==
    /\ c \in LiveCards
    /\ cardDeck' = [cardDeck EXCEPT ![c] = "deleted"]
    /\ records' = KeepRecordsOf(Cards \ {c})
    /\ UNCHANGED <<decks, reviews, today>>

DeleteDeck(deck) ==
    LET gone == {c \in Cards : cardDeck[c] = deck}
    IN  /\ deck \in decks
        /\ decks' = decks \ {deck}
        /\ cardDeck' = [c \in Cards |->
                          IF c \in gone THEN "deleted" ELSE cardDeck[c]]
        /\ records' = KeepRecordsOf(Cards \ gone)
        /\ UNCHANGED <<reviews, today>>

(* A review: find the card, read its latest record, insert the next one. *)

StartReview(r) ==
    \E c \in LiveCards, q \in Qualities :
        /\ reviews[r] = Idle
        /\ reviews' = [reviews EXCEPT ![r] =
                         [step |-> "found", card |-> c, quality |-> q]]
        /\ UNCHANGED <<decks, cardDeck, records, today>>

RecordsOf(c) == {i \in DOMAIN records : records[i].card = c}

LatestRecord(c) == CHOOSE i \in RecordsOf(c) : \A j \in RecordsOf(c) : j <= i

ScheduleReview(r) ==
    LET c == reviews[r].card
        last == IF RecordsOf(c) = {} THEN FirstReview
                                     ELSE records[LatestRecord(c)]
        next == NextReview(reviews[r].quality, last)
    IN  /\ reviews[r].step = "found"
        /\ reviews' = [reviews EXCEPT ![r] =
              [step |-> "scheduled", card |-> c, next |-> next,
               due |-> today + next.interval]]
        /\ UNCHANGED <<decks, cardDeck, records, today>>

\* Variant: the foreign key is not enforced.
SaveReviewUnchecked(r) ==
    LET review == reviews[r]
        record == [card |-> review.card, at |-> today, due |-> review.due,
                   ease |-> review.next.ease, interval |-> review.next.interval,
                   repetitions |-> review.next.repetitions]
    IN  /\ review.step = "scheduled"
        /\ Len(records) < MaxReviews
        /\ records' = Append(records, record)
        /\ reviews' = [reviews EXCEPT ![r] = Idle]
        /\ UNCHANGED <<decks, cardDeck, today>>

\* Variant: the deck is written where the card belongs.
SaveReviewOfDeck(r) ==
    LET review == reviews[r]
    IN  /\ review.step = "scheduled"
        /\ Len(records) < MaxReviews
        /\ records' = Append(records,
              [card |-> cardDeck[review.card], at |-> today, due |-> review.due,
               ease |-> review.next.ease, interval |-> review.next.interval,
               repetitions |-> review.next.repetitions])
        /\ reviews' = [reviews EXCEPT ![r] = Idle]
        /\ UNCHANGED <<decks, cardDeck, today>>

\* The insertion fails when the card was deleted since it was found.
SaveReview(r) ==
    LET review == reviews[r]
        record == [card |-> review.card, at |-> today, due |-> review.due,
                   ease |-> review.next.ease, interval |-> review.next.interval,
                   repetitions |-> review.next.repetitions]
    IN  /\ review.step = "scheduled"
        /\ Len(records) < MaxReviews
        /\ records' = IF review.card \in LiveCards
                        THEN Append(records, record) ELSE records
        /\ reviews' = [reviews EXCEPT ![r] = Idle]
        /\ UNCHANGED <<decks, cardDeck, today>>

\* Variant: the latest record of a card goes like the others.
CleanupOldReviewRecordsAll ==
    LET kept == Kept(records, LAMBDA r : r.at >= today - RetentionDays)
    IN  /\ kept # records
        /\ records' = kept
        /\ UNCHANGED <<decks, cardDeck, reviews, today>>

\* Old records go, but for the latest of each card, which SM-2 goes on from.
CleanupOldReviewRecords ==
    LET old == {i \in DOMAIN records :
                  /\ records[i].at < today - RetentionDays
                  /\ i # LatestRecord(records[i].card)}
        kept == Kept([i \in DOMAIN records |-> i], LAMBDA i : i \notin old)
    IN  /\ old # {}
        /\ records' = [i \in DOMAIN kept |-> records[kept[i]]]
        /\ UNCHANGED <<decks, cardDeck, reviews, today>>

NextDay ==
    /\ today < LastDay
    /\ today' = today + 1
    /\ UNCHANGED <<decks, cardDeck, records, reviews>>

CardsNext ==
    \/ \E c \in Cards : CreateFlashcard(c) \/ DeleteFlashcard(c)
    \/ \E deck \in Decks : DeleteDeck(deck)
    \/ \E r \in Reviewers : StartReview(r) \/ ScheduleReview(r) \/ SaveReview(r)
    \/ CleanupOldReviewRecords
    \/ NextDay

CardsSpec == CardsInit /\ [][CardsNext]_cardVars

\* get_due_cards: the latest due date of all records of a card counts.
DueCards(deck) ==
    {c \in LiveCards : /\ cardDeck[c] = deck
                       /\ \A i \in RecordsOf(c) : records[i].due <= today}

\* Variant: every review of today counts.
ReviewedTodayAll(deck) ==
    {i \in DOMAIN records : cardDeck[records[i].card] = deck /\ records[i].at >= today}

\* SELECT COUNT(DISTINCT flashcard_id) of today's records
ReviewedToday(deck) ==
    {records[i].card : i \in
        {j \in DOMAIN records : cardDeck[records[j].card] = deck /\ records[j].at >= today}}

\* get_review_stats; the average quality is left out.
ReviewStats(deck) ==
    [total |-> Cardinality({c \in Cards : cardDeck[c] = deck}),
     due |-> Cardinality(DueCards(deck)),
     reviewed |-> Cardinality(ReviewedToday(deck))]

-----------------------------------------------------------------------------
\* Decks, cards, records and the steps of reviews have their types.
CardsTypeOK ==
    /\ decks \subseteq Decks
    /\ cardDeck \in [Cards -> Decks \cup {Never, "deleted"}]
    /\ \A i \in DOMAIN records : records[i].card \in Cards
    /\ \A r \in Reviewers : reviews[r].step \in {"idle", "found", "scheduled"}
    /\ today \in 0..LastDay

\* A record outlives neither its card nor its deck, whichever call deletes them
\* while the review that writes it is between its steps.
NoOrphans ==
    /\ \A i \in DOMAIN records : records[i].card \in LiveCards
    /\ \A c \in Cards : cardDeck[c] \in Decks => cardDeck[c] \in decks

\* No sequence of ratings, nor two reviews of one card at once, drives a card
\* below the least ease factor or to an interval of no days; and one answered
\* well three times in a row waits longer than the six days it waited before.
ScheduleGrows ==
    \A i \in DOMAIN records :
        /\ records[i].ease >= 130
        /\ records[i].interval >= 1
        /\ records[i].repetitions >= 2 => records[i].interval >= 6
        /\ records[i].repetitions >= 3 => records[i].interval > 6

\* However often its cards are reviewed, and whatever is deleted meanwhile, a deck
\* reports no more of them as reviewed than it has; and a card reviewed today is
\* due again today only when midnight passed between the steps of its review.
StatsAddUp ==
    \A deck \in decks :
        /\ ReviewStats(deck).reviewed <= ReviewStats(deck).total
        /\ \A c \in DueCards(deck) \cap ReviewedToday(deck) :
              \A i \in RecordsOf(c) : records[i].at = today => records[i].due <= records[i].at

\* The retention policy never changes what a card is scheduled from next.
CleanupKeepsSchedule ==
    \A c \in Cards :
       (reviews' = reviews /\ cardDeck' = cardDeck /\ RecordsOf(c) # {})
         => /\ RecordsOf(c)' # {}
            /\ records[LatestRecord(c)] = (records[LatestRecord(c)])'

\* "SM-2 schedules from the latest record": once the day of a card's latest
\* review has come, the card is offered.
DueByLatest ==
    \A c \in LiveCards :
        RecordsOf(c) # {} /\ records[LatestRecord(c)].due <= today
            => c \in DueCards(cardDeck[c])
=============================================================================
