----------------------------- MODULE VersionFeed -----------------------------
(***************************************************************************)
(* What the sync server promises its devices, without tables, transactions *)
(* or statements: a feed per user whose versions only ascend, and reads    *)
(* that return a part of it with no gap.                                   *)
(***************************************************************************)
EXTENDS Integers, Sequences, TLAPS

CONSTANTS
    Users,
    Readers,
    Changes   \* what is published: records with a user and a version

VARIABLES
    feed,   \* the changes of all users, in order of publication
    reads   \* the page each reader was last given

feedVars == <<feed, reads>>

NoRead == [user |-> "nobody"]

After(u, since) ==
    {i \in DOMAIN feed : feed[i].user = u /\ feed[i].version > since}

\* A page of user u's feed above since: whatever it leaves out comes later.
IsPage(page, u, since) ==
    /\ page \subseteq After(u, since)
    /\ \A i \in page, j \in After(u, since) \ page :
          feed[i].version < feed[j].version

FeedInit ==
    /\ feed = <<>>
    /\ reads = [r \in Readers |-> NoRead]

\* One user publishes changes, all at once, each above all before it.
Publish(u) ==
    /\ feed' \in Seq(Changes)
    /\ Len(feed') > Len(feed)
    /\ \A i \in DOMAIN feed : feed'[i] = feed[i]
    /\ \A j \in DOMAIN feed' \ DOMAIN feed :
          /\ feed'[j].user = u
          /\ \A i \in 1..(j - 1) :
                feed'[i].user = u => feed'[i].version < feed'[j].version
    /\ UNCHANGED reads

Read(r, u, since, page) ==
    /\ IsPage(page, u, since)
    /\ reads' = [reads EXCEPT ![r] =
                   [user |-> u, since |-> since, page |-> page]]
    /\ UNCHANGED feed

\* Readers drop their pages: one that is done, or all when the server restarts.
Forget(readers) ==
    /\ reads' = [r \in Readers |-> IF r \in readers THEN NoRead ELSE reads[r]]
    /\ UNCHANGED feed

FeedNext ==
    \/ \E u \in Users : Publish(u)
    \/ \E r \in Readers :
          /\ reads'[r] # NoRead
          /\ Read(r, reads'[r].user, reads'[r].since, reads'[r].page)
    \/ \E readers \in SUBSET Readers : Forget(readers)

Spec == FeedInit /\ [][FeedNext]_feedVars

-----------------------------------------------------------------------------
\* A page once given stays a page of the feed: nothing is published below the
\* point a reader has reached.
ReadsStayPages ==
    \A r \in Readers :
        reads[r] # NoRead =>
            IsPage(reads[r].page, reads[r].user, reads[r].since)

-----------------------------------------------------------------------------
(* The promises hold of every feed. *)

FeedTypeOK ==
    /\ feed \in Seq(Changes)
    /\ DOMAIN reads = Readers

LEMMA FeedTyped == Spec => []FeedTypeOK
<1>1. FeedInit => FeedTypeOK
  BY DEF FeedInit, FeedTypeOK
<1>2. FeedTypeOK /\ [FeedNext]_feedVars => FeedTypeOK'
  BY DEF FeedTypeOK, FeedNext, Publish, Read, Forget, feedVars
<1>. QED
  BY <1>1, <1>2, PTL DEF Spec

\* The old changes keep their place, and a new one is above all of its user
\* before it.
LEMMA PublishExtends ==
    ASSUME FeedTypeOK, NEW u \in Users, Publish(u)
    PROVE  /\ DOMAIN feed \subseteq DOMAIN feed'
           /\ DOMAIN feed' \subseteq Nat
           /\ \A i \in DOMAIN feed : feed'[i] = feed[i]
           /\ \A i \in DOMAIN feed, j \in DOMAIN feed' \ DOMAIN feed : i < j
           /\ \A j \in DOMAIN feed' \ DOMAIN feed :
                 /\ feed'[j].user = u
                 /\ \A i \in 1..(j - 1) :
                       feed'[i].user = u => feed'[i].version < feed'[j].version
BY DEF FeedTypeOK, Publish

\* Nothing is published inside a page that was given out.
THEOREM PagesStay == Spec => []ReadsStayPages
<1>1. FeedInit => ReadsStayPages
  BY DEF FeedInit, ReadsStayPages
<1>2. FeedTypeOK /\ ReadsStayPages /\ [FeedNext]_feedVars => ReadsStayPages'
  <2>1. SUFFICES ASSUME FeedTypeOK, ReadsStayPages, [FeedNext]_feedVars,
                        NEW r \in Readers, (reads[r] # NoRead)'
                 PROVE  IsPage(reads[r].page, reads[r].user, reads[r].since)'
    BY DEF ReadsStayPages
  <2>2. CASE UNCHANGED feedVars
    BY <2>1, <2>2 DEF ReadsStayPages, IsPage, After, feedVars
  <2>3. ASSUME NEW u \in Users, Publish(u)
        PROVE  IsPage(reads[r].page, reads[r].user, reads[r].since)'
    <3>. DEFINE read == reads[r]
    <3>1. read = reads'[r] /\ IsPage(read.page, read.user, read.since)
      BY <2>1, <2>3 DEF Publish, ReadsStayPages
    <3>2. After(read.user, read.since) \subseteq After(read.user, read.since)'
      BY <2>1, <2>3, <3>1, PublishExtends DEF After, Publish
    <3>3. ASSUME NEW i \in read.page,
                 NEW j \in After(read.user, read.since)' \ read.page
          PROVE  feed'[i].version < feed'[j].version
      <4>1. /\ i \in DOMAIN feed /\ i \in DOMAIN feed'
            /\ feed'[i] = feed[i] /\ feed[i].user = read.user
        BY <2>1, <2>3, <3>1, PublishExtends DEF IsPage, After
      <4>2. CASE j \in DOMAIN feed
        BY <2>1, <2>3, <3>1, <3>3, <4>1, <4>2, PublishExtends DEF IsPage, After, Publish
      <4>3. CASE j \notin DOMAIN feed
        <5>1. /\ j \in DOMAIN feed' \ DOMAIN feed
              /\ feed'[j].user = read.user
          BY <3>3, <2>3, <4>3, <3>1 DEF After, Publish
        <5>2. feed'[j].user = u /\ i < j /\ i \in 1..(j - 1)
          BY <2>1, <2>3, <4>1, <5>1, PublishExtends DEF FeedTypeOK
        <5>. QED
          BY <2>1, <2>3, <4>1, <5>1, <5>2, PublishExtends
      <4>. QED
        BY <4>2, <4>3
    <3>. QED
      BY <3>1, <3>2, <3>3 DEF IsPage
  <2>4. ASSUME NEW s \in Readers, Read(s, reads'[s].user, reads'[s].since, reads'[s].page)
        PROVE  IsPage(reads[r].page, reads[r].user, reads[r].since)'
    BY <2>1, <2>4 DEF Read, FeedTypeOK, ReadsStayPages, IsPage, After
  <2>5. ASSUME NEW readers \in SUBSET Readers, Forget(readers)
        PROVE  IsPage(reads[r].page, reads[r].user, reads[r].since)'
    BY <2>1, <2>5 DEF Forget, ReadsStayPages, IsPage, After
  <2>. QED
    BY <2>1, <2>2, <2>3, <2>4, <2>5 DEF FeedNext
<1>. QED
  BY <1>1, <1>2, FeedTyped, PTL DEF Spec
=============================================================================
