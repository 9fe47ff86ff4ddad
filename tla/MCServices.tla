----------------------------- MODULE MCServices -----------------------------
(***************************************************************************)
(* The services with tables of their own and the client's parts, checked    *)
(* side by side: `part` says which one a behaviour is about, the others     *)
(* stay at their initial states.                                            *)
(***************************************************************************)
EXTENDS PermissionCache, BookingPricing, ReviewService, MembershipService, WishlistSync,
        BlogService, MediaStore, MailQueue, PaymentModal, BookingWizard, Screens

VARIABLE part

cacheOwn == <<codes, grants, cached, edits, tainted>>
priceOwn == <<offered, state, pax, seated, item, total, redeemed, charged, discount, unpriced, crowded, late>>
reviewOwn == <<completed, author, helpful, votes>>
memberOwn == <<pointed, member, balance, tier, told>>
wishOwn == <<saved, heart, unsettled>>
blogOwn == <<post, used, tagged>>
mediaOwn == <<disk, named, owner, avatar, lost>>
mailOwn == <<mail, sent, backed>>
modalOwn == <<paid, due, modal>>
wizardOwn == <<page, flow, orders, cut>>
screenOwn == <<view, open, question, shown, kept, world, asks, last, mine, stale>>
allVars == <<cacheOwn, priceOwn, reviewOwn, memberOwn, wishOwn, blogOwn, mediaOwn, mailOwn,
             modalOwn, wizardOwn, screenOwn, call, part>>

Parts == {"permissions", "pricing", "reviews", "membership", "wishlist", "blog", "media",
          "mail", "modal", "wizard", "screens"}

PriceMenu == {"MEAL", "passengers", "refresh"}
PriceMenus == {PriceMenu, {"MEAL", "passengers", "seat"}, {"passengers", "refresh", "seat"}}

ServicesInit ==
  /\ part \in Parts
  /\ CacheInit /\ PricingInit /\ ReviewInit /\ MembershipInit /\ WishlistInit /\ BlogInit
  /\ MediaInit /\ MailInit /\ ModalInit /\ WizardInit /\ ScreenInit
  /\ part # "reviews" => completed = {}
  /\ part # "wishlist" => ~saved
  /\ part # "pricing" => offered = PriceMenu
  /\ part # "screens" => view = OnMount

ServicesNext ==
  /\ UNCHANGED part
  /\ \/ /\ part = "permissions" /\ CacheNext
        /\ UNCHANGED <<priceOwn, reviewOwn, memberOwn, wishOwn, blogOwn, mediaOwn, mailOwn, modalOwn, wizardOwn, screenOwn>>
     \/ /\ part = "pricing" /\ PricingNext
        /\ UNCHANGED <<cacheOwn, reviewOwn, memberOwn, wishOwn, blogOwn, mediaOwn, mailOwn, modalOwn, wizardOwn, screenOwn>>
     \/ /\ part = "reviews" /\ ReviewNext
        /\ UNCHANGED <<cacheOwn, priceOwn, memberOwn, wishOwn, blogOwn, mediaOwn, mailOwn, modalOwn, wizardOwn, screenOwn>>
     \/ /\ part = "membership" /\ MembershipNext
        /\ UNCHANGED <<cacheOwn, priceOwn, reviewOwn, wishOwn, blogOwn, mediaOwn, mailOwn, modalOwn, wizardOwn, screenOwn>>
     \/ /\ part = "wishlist" /\ WishlistNext
        /\ UNCHANGED <<cacheOwn, priceOwn, reviewOwn, memberOwn, blogOwn, mediaOwn, mailOwn, modalOwn, wizardOwn, screenOwn>>
     \/ /\ part = "blog" /\ BlogNext
        /\ UNCHANGED <<cacheOwn, priceOwn, reviewOwn, memberOwn, wishOwn, mediaOwn, mailOwn, modalOwn, wizardOwn, screenOwn>>
     \/ /\ part = "media" /\ MediaNext
        /\ UNCHANGED <<cacheOwn, priceOwn, reviewOwn, memberOwn, wishOwn, blogOwn, mailOwn, modalOwn, wizardOwn, screenOwn>>
     \/ /\ part = "mail" /\ MailNext
        /\ UNCHANGED <<cacheOwn, priceOwn, reviewOwn, memberOwn, wishOwn, blogOwn, mediaOwn, modalOwn, wizardOwn, screenOwn>>
     \/ /\ part = "modal" /\ ModalNext
        /\ UNCHANGED <<cacheOwn, priceOwn, reviewOwn, memberOwn, wishOwn, blogOwn, mediaOwn, mailOwn, wizardOwn, screenOwn>>
     \/ /\ part = "wizard" /\ WizardNext
        /\ UNCHANGED <<cacheOwn, priceOwn, reviewOwn, memberOwn, wishOwn, blogOwn, mediaOwn, mailOwn, modalOwn, screenOwn>>
     \/ /\ part = "screens" /\ ScreenNext
        /\ UNCHANGED <<cacheOwn, priceOwn, reviewOwn, memberOwn, wishOwn, blogOwn, mediaOwn, mailOwn, modalOwn, wizardOwn>>

ServicesSpec ==
  /\ ServicesInit /\ [][ServicesNext]_allVars
  /\ CacheFairness /\ MailFairness /\ ModalFairness

(* Each service keeps to the values of its columns and to the fields of its *)
(* handlers' state.                                                         *)
ServicesTypeOK ==
  CASE part = "permissions" -> CacheTypeOK
    [] part = "pricing"     -> PricingTypeOK
    [] part = "reviews"     -> ReviewTypeOK
    [] part = "membership"  -> MembershipTypeOK
    [] part = "wishlist"    -> WishlistTypeOK
    [] part = "blog"        -> BlogTypeOK
    [] part = "media"       -> MediaTypeOK
    [] part = "mail"        -> MailTypeOK
    [] part = "modal"       -> ModalTypeOK
    [] part = "wizard"      -> WizardTypeOK
    [] part = "screens"     -> ScreenTypeOK

AdminEdits == {"edit", "manage"}
RoleDefaults == [USER |-> {}, STAFF |-> {"edit"}, ADMIN |-> {"edit", "manage"}]
OneVoucher == <<[type |-> "PERCENT", value |-> 50, min |-> 1, cap |-> 2]>>
TwoTiers == <<0, 3>>
MailAttempts == [name \in MailJobs |-> IF name = "send-verify-email" THEN 2 ELSE 1]
=============================================================================
