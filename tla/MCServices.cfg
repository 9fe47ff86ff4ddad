CONSTANTS
  Requests = {r1, r2}
  Roles = {"USER", "STAFF", "ADMIN"}
  DefaultCodes <- AdminEdits
  DefaultsOf <- RoleDefaults
  CustomCodes = {"other"}
  MaxEdits = 2
  Menus <- PriceMenus
  ItemSums = {2}
  MaxPax = 1
  Fare = 3
  VoucherRow <- OneVoucher
  Reviewers = {u1, u2}
  MaxReviews = 2
  NoAuthor = NoAuthor
  Members = {u1}
  Awards = {1, 2}
  MaxPoints = 4
  MinPoints <- TwoTiers
  Tabs = {t1, t2}
  Authors = {u1, u2}
  Admins = {u2}
  MaxPosts = 2
  Slugs = {s1}
  Tags = {g1}
  MaxViews = 1
  NoPost = NoPost
  Files = {f1, f2}
  Uploaders = {u1, u2}
  MediaAdmins = {u2}
  MaxGallery = 2
  NoFile = NoFile
  Mails = {m1, m2}
  Attempts <- MailAttempts
  MaxStalled = 1
  Payments = {p1, p2}
  NoPayment = NoPayment
  MaxOrders = 2
  Wanted = {"passengers", "baggage"}
  Questions = {1, 2}
  MaxAsks = 2
  MaxWorld = 2
  Nothing = Nothing
CHECK_DEADLOCK FALSE
SPECIFICATION ServicesSpec
INVARIANTS ServicesTypeOK StaleEntryExplained TotalIsPrice ChargedIsTotal VotesAreCounted HeartIsRow TierIsEarned PostsAreWhole MediaRowsHaveFiles DeliveredMailLeft ModalTellsTheTruth SubmissionIsWhole ScreenAnswersItsQuestion
PROPERTIES RevocationTakesHold MailsSettle ModalTellsTheOutcome
