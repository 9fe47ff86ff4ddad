--------------------------- MODULE ReviewService ----------------------------
(***************************************************************************)
(* Reviews of a flight and their upvotes.  Only the path of flights exists: *)
(* a review of a tour wants a booking item TOUR_SLOT, which no code writes, *)
(* so createReview refuses it and the rating of a tour never changes.       *)
(***************************************************************************)
EXTENDS Handlers

CONSTANTS
  Reviewers,   \* users
  MaxReviews,  \* bound: Review rows, numbered as they are created
  NoAuthor     \* the row does not exist

ASSUME ReviewAssumption ==
  NoAuthor \notin Reviewers /\ MaxReviews \in Nat /\ IsFiniteSet(Reviewers)

VARIABLES
  completed,  \* users with a COMPLETED booking of the flight
  author,     \* Review.userId
  helpful,    \* Review.helpfulCount
  votes       \* the ReviewVote rows

Reviews == 1..MaxReviews
reviewVars == <<completed, author, helpful, votes, call>>

ReviewCalls ==
  {idle} \cup [step : {"check", "create"}, user : Reviewers]
         \cup [step : {"look", "vote"}, user : Reviewers, review : Reviews]

ReviewTypeOK ==
  /\ completed \in SUBSET Reviewers
  /\ author \in [Reviews -> Reviewers \cup {NoAuthor}]
  /\ helpful \in [Reviews -> 0..Cardinality(Reviewers)]
  /\ votes \in SUBSET (Reviews \X Reviewers)
  /\ call \in [Requests -> ReviewCalls]

ReviewInit ==
  /\ completed \in SUBSET Reviewers
  /\ author = [i \in Reviews |-> NoAuthor] /\ helpful = [i \in Reviews |-> 0]
  /\ votes = {}
  /\ call = [r \in Requests |-> idle]
-----------------------------------------------------------------------------
By(u) == {i \in Reviews : author[i] = u}
Voters(i) == {u \in Reviewers : <<i, u>> \in votes}

(* createReview: a completed booking, then no review by the user yet, then  *)
(* the new row; there is no unique key.                                     *)
CreateReview(r, u) ==
  /\ u \in completed
  /\ Start(r, [step |-> "check", user |-> u])
  /\ UNCHANGED <<completed, author, helpful, votes>>

CheckExisting(r) ==
  /\ At(r, "check")
  /\ By(call[r].user) = {}
  /\ GoTo(r, "create")
  /\ UNCHANGED <<completed, author, helpful, votes>>

WriteReview(r, i) ==
  /\ At(r, "create")
  /\ author[i] = NoAuthor /\ \A j \in 1..(i - 1) : author[j] # NoAuthor
  /\ author' = [author EXCEPT ![i] = call[r].user]
  /\ Finish(r)
  /\ UNCHANGED <<completed, helpful, votes>>

(* upvoteReview: the review exists; in a transaction, no vote yet, ...      *)
Upvote(r, u, i) ==
  /\ author[i] # NoAuthor
  /\ Start(r, [step |-> "look", user |-> u, review |-> i])
  /\ UNCHANGED <<completed, author, helpful, votes>>

LookForVote(r) ==
  /\ At(r, "look")
  /\ <<call[r].review, call[r].user>> \notin votes
  /\ GoTo(r, "vote")
  /\ UNCHANGED <<completed, author, helpful, votes>>

\* Mutant: votes have no unique key.
WriteVote_NoKey(r) ==
  LET i == call[r].review IN
  /\ At(r, "vote")
  /\ votes' = votes \cup {<<i, call[r].user>>}
  /\ helpful' = [helpful EXCEPT ![i] = @ + 1]
  /\ Finish(r)
  /\ UNCHANGED <<completed, author>>

(* ... then the vote, whose key (review, user) is unique, and the count,    *)
(* which the database increments.                                           *)
WriteVote(r) ==
  LET i == call[r].review IN
  /\ At(r, "vote")
  /\ <<i, call[r].user>> \notin votes
  /\ votes' = votes \cup {<<i, call[r].user>>}
  /\ helpful' = [helpful EXCEPT ![i] = @ + 1]
  /\ Finish(r)
  /\ UNCHANGED <<completed, author>>

ReviewFails(r) ==
  /\ ~ At(r, "idle")
  /\ Finish(r)
  /\ UNCHANGED <<completed, author, helpful, votes>>

ReviewNext ==
  \E r \in Requests :
    \/ \E u \in Reviewers : CreateReview(r, u) \/ (\E i \in Reviews : Upvote(r, u, i))
    \/ CheckExisting(r) \/ LookForVote(r) \/ WriteVote(r) \/ ReviewFails(r)
    \/ \E i \in Reviews : WriteReview(r, i)

ReviewSpec == ReviewInit /\ [][ReviewNext]_reviewVars
-----------------------------------------------------------------------------
(* A review's helpfulCount is the number of users that voted for it,        *)
(* however their votes race: of two by one user the key lets one through.   *)
VotesAreCounted == \A i \in Reviews : helpful[i] = Cardinality(Voters(i))

(* What createReview says of itself ("1 user = 1 review per item").  It is  *)
(* broken: two requests of one user pass the check before either writes.    *)
OneReviewPerItem == \A u \in Reviewers : Cardinality(By(u)) <= 1
=============================================================================
