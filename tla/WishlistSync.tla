---------------------------- MODULE WishlistSync ----------------------------
(***************************************************************************)
(* One item of one user's wishlist: the row of the backend, toggled by      *)
(* WishlistService, and the heart that each browser tab shows, which        *)
(* wishlistStore flips before it asks and never corrects when the request   *)
(* fails.  Requests of one tab may reach the backend in any order.          *)
(***************************************************************************)
EXTENDS Handlers

CONSTANT Tabs

VARIABLES
  saved,      \* the Wishlist row (user, type, item) exists
  heart,      \* the tab's store has the item
  unsettled   \* history: tabs one of whose requests failed or overlapped another
              \* one, or that have not asked since another tab wrote

wishVars == <<saved, heart, unsettled, call>>

WishCalls ==
  {idle} \cup [step : {"find", "delete", "insert", "fetch"}, tab : Tabs, alone : BOOLEAN]
         \cup [step : {"show"}, tab : Tabs, alone : BOOLEAN, list : BOOLEAN]

WishlistTypeOK ==
  /\ saved \in BOOLEAN /\ heart \in [Tabs -> BOOLEAN]
  /\ unsettled \in SUBSET Tabs
  /\ call \in [Requests -> WishCalls]

WishlistInit ==
  /\ saved \in BOOLEAN
  /\ heart = [t \in Tabs |-> FALSE]
  /\ unsettled = IF saved THEN Tabs ELSE {}
  /\ call = [r \in Requests |-> idle]
-----------------------------------------------------------------------------
\* Tabs with a request in flight.
Busy == {call[r].tab : r \in {q \in Requests : ~ At(q, "idle")}}

(* A request of the tab starts: with another one in flight neither is alone. *)
Send(r, t, step) ==
  /\ At(r, "idle")
  /\ call' = [q \in Requests |->
                IF q = r THEN [step |-> step, tab |-> t, alone |-> NoneInFlight]
                ELSE IF At(q, "idle") THEN call[q] ELSE [call[q] EXCEPT !.alone = FALSE]]

(* toggleTour, toggleDestination: the heart first, then the request.        *)
Toggle(r, t) ==
  /\ heart' = [heart EXCEPT ![t] = ~ @]
  /\ Send(r, t, "find")
  /\ unsettled' = (unsettled \cup (Tabs \ {t}))
                    \cup (IF NoneInFlight THEN {} ELSE {t})
  /\ UNCHANGED saved

(* toggleWishlist: by what the row is now, ...                              *)
FindRow(r) ==
  /\ At(r, "find")
  /\ GoTo(r, IF saved THEN "delete" ELSE "insert")
  /\ UNCHANGED <<saved, heart, unsettled>>

(* ... delete it, which throws when it is gone, or create it, which throws  *)
(* when the key is there.                                                   *)
DeleteRow(r) ==
  /\ At(r, "delete") /\ saved
  /\ saved' = FALSE
  /\ Finish(r)
  /\ UNCHANGED <<heart, unsettled>>
InsertRow(r) ==
  /\ At(r, "insert") /\ ~ saved
  /\ saved' = TRUE
  /\ Finish(r)
  /\ UNCHANGED <<heart, unsettled>>

(* syncWishlist: after a login, a reload, and on the wishlist page.         *)
Sync(r, t) ==
  /\ Send(r, t, "fetch")
  /\ unsettled' = IF NoneInFlight THEN unsettled ELSE unsettled \cup {t}
  /\ UNCHANGED <<saved, heart>>

FetchRows(r) ==
  /\ At(r, "fetch")
  /\ Become(r, [step |-> "show", tab |-> call[r].tab, alone |-> call[r].alone,
                list |-> saved])
  /\ UNCHANGED <<saved, heart, unsettled>>

\* Mutant: the answer is not unwrapped, and the list is empty.
ShowRows_Empty(r) ==
  /\ At(r, "show")
  /\ heart' = [heart EXCEPT ![call[r].tab] = FALSE]
  /\ unsettled' = IF call[r].alone THEN unsettled \ {call[r].tab} ELSE unsettled
  /\ Finish(r)
  /\ UNCHANGED saved

(* The answer overwrites whatever the tab shows by now.                     *)
ShowRows(r) ==
  /\ At(r, "show")
  /\ heart' = [heart EXCEPT ![call[r].tab] = call[r].list]
  /\ unsettled' = IF call[r].alone THEN unsettled \ {call[r].tab} ELSE unsettled
  /\ Finish(r)
  /\ UNCHANGED saved

(* A throw, a timeout of ten seconds, a lost network: logged, no more.      *)
RequestFails(r) ==
  /\ ~ At(r, "idle")
  /\ unsettled' = unsettled \cup {call[r].tab}
  /\ Finish(r)
  /\ UNCHANGED <<saved, heart>>

(* A reload empties the store; so does the code of clearWishlist, which     *)
(* nothing calls.                                                           *)
ReloadTab(t) ==
  /\ t \notin Busy
  /\ heart' = [heart EXCEPT ![t] = FALSE]
  /\ unsettled' = IF saved \/ Busy # {} THEN unsettled \cup {t} ELSE unsettled
  /\ UNCHANGED <<saved, call>>

WishlistNext ==
  \/ \E r \in Requests, t \in Tabs : Toggle(r, t) \/ Sync(r, t)
  \/ \E r \in Requests :
       FindRow(r) \/ DeleteRow(r) \/ InsertRow(r) \/ FetchRows(r) \/ ShowRows(r)
         \/ RequestFails(r)
  \/ \E t \in Tabs : ReloadTab(t)

WishlistSpec == WishlistInit /\ [][WishlistNext]_wishVars
-----------------------------------------------------------------------------
(* A tab with nothing in flight shows what is saved, until a request of its *)
(* own fails or overlaps another one, or another tab toggles the item; an   *)
(* undisturbed sync makes it right again.                                   *)
HeartIsRow ==
  \A t \in Tabs : t \notin unsettled /\ NoneInFlight => heart[t] = saved
=============================================================================
