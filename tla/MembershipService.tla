------------------------- MODULE MembershipService --------------------------
(***************************************************************************)
(* awardPoints: the points of completed bookings, the balance of a member   *)
(* and the tier that follows from it.  The upsert locks the row of the      *)
(* member until the transaction ends; what the transaction wrote is seen    *)
(* by others when it commits.                                               *)
(***************************************************************************)
EXTENDS Handlers

CONSTANTS
  Members,   \* users
  Awards,    \* points that a booking may give
  MaxPoints, \* bound: points of a member
  MinPoints  \* MembershipTier.minPoints, tiers in ascending order

Tiers == DOMAIN MinPoints
NoTier == 0

ASSUME MembershipAssumption ==
  /\ Awards \subseteq Nat \ {0} /\ MaxPoints \in Nat
  /\ MinPoints \in Seq(Nat)
  /\ \A a, b \in Tiers : a < b => MinPoints[a] < MinPoints[b]

VARIABLES
  pointed,  \* sum of the PointTransaction rows of a member
  member,   \* members that have a UserPoints row
  balance,  \* UserPoints.pointsBalance
  tier,     \* UserPoints.tierId
  told      \* tiers of which a notification tells the member

memberVars == <<pointed, member, balance, tier, told, call>>

MemberCalls ==
  {idle} \cup [step : {"find", "add"}, user : Members, points : Awards, found : BOOLEAN]
         \cup [step : {"tier"}, user : Members, points : Awards, seen : Nat]
         \cup [step : {"notify"}, user : Members, to : Tiers]

MembershipTypeOK ==
  /\ member \in SUBSET Members
  /\ pointed \in [Members -> Nat] /\ balance \in [Members -> Nat]
  /\ tier \in [Members -> Tiers \cup {NoTier}]
  /\ told \in [Members -> SUBSET Tiers]
  /\ call \in [Requests -> MemberCalls]

MembershipInit ==
  /\ pointed = [u \in Members |-> 0] /\ balance = [u \in Members |-> 0]
  /\ member = {} /\ tier = [u \in Members |-> NoTier]
  /\ told = [u \in Members |-> {}]
  /\ call = [r \in Requests |-> idle]
-----------------------------------------------------------------------------
(* The first tier, from the highest, whose minPoints the balance reaches.   *)
Earned(points) ==
  LET reached == {t \in Tiers : MinPoints[t] <= points}
  IN  IF reached = {} THEN NoTier ELSE CHOOSE t \in reached : \A s \in reached : s <= t

Locked(u) == \E r \in Requests : At(r, "tier") /\ call[r].user = u

(* awardPoints: nothing to do for a booking of less than 10,000.            *)
Award(r, u, points) ==
  /\ Start(r, [step |-> "find", user |-> u, points |-> points, found |-> FALSE])
  /\ UNCHANGED <<pointed, member, balance, tier, told>>

(* The upsert looks for the row, ...                                        *)
FindPoints(r) ==
  /\ At(r, "find")
  /\ Become(r, [call[r] EXCEPT !.step = "add", !.found = (call[r].user \in member)])
  /\ UNCHANGED <<pointed, member, balance, tier, told>>

(* ... then increments it, or creates it: of two that create, the second    *)
(* violates the unique userId and throws.  The row is locked from here on.  *)
AddPoints(r) ==
  LET u == call[r].user IN
  /\ At(r, "add") /\ ~ Locked(u)
  /\ u \in member => call[r].found
  /\ pointed[u] + call[r].points <= MaxPoints
  /\ Become(r, [step |-> "tier", user |-> u, points |-> call[r].points,
                seen |-> balance[u] + call[r].points])
  /\ UNCHANGED <<pointed, member, balance, tier, told>>

\* Mutant: the tier of the balance before this award.
SetTier_Before(r) ==
  LET u == call[r].user
      next == Earned(balance[u]) IN
  /\ At(r, "tier")
  /\ pointed' = [pointed EXCEPT ![u] = @ + call[r].points]
  /\ member' = member \cup {u}
  /\ balance' = [balance EXCEPT ![u] = call[r].seen]
  /\ tier' = IF next = NoTier THEN tier ELSE [tier EXCEPT ![u] = next]
  /\ Finish(r)
  /\ UNCHANGED told

(* The tier changes if another one is earned; commit.                       *)
SetTier(r) ==
  LET u == call[r].user
      next == Earned(call[r].seen) IN
  /\ At(r, "tier")
  /\ pointed' = [pointed EXCEPT ![u] = @ + call[r].points]
  /\ member' = member \cup {u}
  /\ balance' = [balance EXCEPT ![u] = call[r].seen]
  /\ tier' = IF next = NoTier THEN tier ELSE [tier EXCEPT ![u] = next]
  /\ IF next \in {NoTier, tier[u]} THEN Finish(r)
     ELSE Become(r, [step |-> "notify", user |-> u, to |-> next])
  /\ UNCHANGED told

(* sendNotification, after the commit.                                      *)
Notify(r) ==
  /\ At(r, "notify")
  /\ told' = [told EXCEPT ![call[r].user] = @ \cup {call[r].to}]
  /\ Finish(r)
  /\ UNCHANGED <<pointed, member, balance, tier>>

(* Any statement throws, or the process dies: the transaction is gone, or   *)
(* the notification.                                                        *)
AwardFails(r) ==
  /\ ~ At(r, "idle")
  /\ Finish(r)
  /\ UNCHANGED <<pointed, member, balance, tier, told>>

MembershipNext ==
  \E r \in Requests :
    \/ \E u \in Members, points \in Awards : Award(r, u, points)
    \/ FindPoints(r) \/ AddPoints(r) \/ SetTier(r) \/ Notify(r) \/ AwardFails(r)

MembershipSpec == MembershipInit /\ [][MembershipNext]_memberVars
-----------------------------------------------------------------------------
(* The balance is the sum of the point rows and the tier is the one that    *)
(* the balance earns, whichever awards overlap, fail or are cut off; no     *)
(* member is told of a tier that the balance has not reached.  Who has no   *)
(* row has no tier either, not even one that starts at 0 points.            *)
TierIsEarned ==
  \A u \in Members :
    /\ balance[u] = pointed[u]
    /\ tier[u] = IF u \in member THEN Earned(balance[u]) ELSE NoTier
    /\ \A t \in told[u] : t <= tier[u]
=============================================================================
