CONSTANTS
  Requests = {r1, r2}
  Reviewers = {u1, u2}
  MaxReviews = 2
  NoAuthor = NoAuthor
CHECK_DEADLOCK FALSE
SPECIFICATION ReviewSpec
INVARIANT OneReviewPerItem
