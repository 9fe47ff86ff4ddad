------------------------------ MODULE Screens -------------------------------
(***************************************************************************)
(* One view of the frontend (a row of ScreenTable) and the requests it has  *)
(* in flight.  Nothing is aborted: an answer is shown when it arrives, in   *)
(* whatever order, and what a view that is gone had asked still navigates.  *)
(* Data is a version: the number of changes committed so far, by anybody.   *)
(***************************************************************************)
EXTENDS Handlers, ScreenTable

CONSTANTS
  Questions,   \* ids, filters, pages, search words
  MaxAsks,     \* bound: loads
  MaxWorld,    \* bound: changes committed
  Nothing

ASSUME ScreensAssumption ==
  /\ Questions # {} /\ MaxAsks \in Nat /\ MaxWorld \in Nat
  /\ Nothing \notin 0..MaxWorld

VARIABLES
  view,       \* the row of ScreenTable, chosen at the start
  open,       \* the view is mounted
  question,   \* what the user asked for last
  shown,      \* the rows in its state: what they answer and their version
  kept,       \* the react-query cache
  world,      \* version of the data in the database
  asks,       \* loads so far
  last,       \* history: the load whose answer came last, 0 when it failed
  mine,       \* history: the newest change acknowledged to this mounted view; one that
              \* was typed into the rows, if no load has been answered over it since
  stale       \* history: the rows were loaded again by an old closure

screen == <<open, question, shown, kept, last, mine, stale>>
screenVars == <<view, open, question, shown, kept, world, asks, last, mine, stale, call>>

Versions == 0..MaxWorld
Rows == [q : Questions, v : Versions] \cup {Nothing}
ScreenCalls ==
  {idle} \cup [step : {"ask", "answer"}, q : Questions, n : 1..MaxAsks, v : Versions, gone : BOOLEAN]
         \cup [step : {"toast", "change", "changed"}, q : Questions, seen : 0..MaxAsks,
               v : Versions, gone : BOOLEAN]

ScreenTypeOK ==
  /\ view \in AllViews /\ open \in BOOLEAN /\ question \in Questions
  /\ shown \in Rows /\ kept \in [Questions -> Versions \cup {Nothing}]
  /\ world \in Versions /\ asks \in 0..MaxAsks /\ last \in 0..MaxAsks
  /\ mine \in Versions /\ stale \in BOOLEAN
  /\ call \in [Requests -> ScreenCalls]

ScreenInit ==
  /\ view \in AllViews
  /\ open = FALSE /\ question = (CHOOSE q \in Questions : TRUE) /\ shown = Nothing
  /\ kept = [q \in Questions |-> Nothing]
  /\ world = 0 /\ asks = 0 /\ last = 0 /\ mine = 0 /\ stale = FALSE
  /\ call = [r \in Requests |-> idle]
-----------------------------------------------------------------------------
Live(r, steps) == call[r].step \in steps /\ ~call[r].gone
Loading == \E r \in Requests : Live(r, {"ask", "answer"})
Changing == \E r \in Requests : Live(r, {"change", "changed"})
OnQuery == "query" \in view.load

NewAsk(q) == [step |-> "ask", q |-> q, n |-> asks + 1, v |-> 0, gone |-> FALSE]
Ask(r, q) == asks < MaxAsks /\ asks' = asks + 1 /\ Start(r, NewAsk(q))

(* react-query asks once for a key, and shows meanwhile what it has kept.   *)
KeptRows(q) == IF kept[q] = Nothing THEN Nothing ELSE [q |-> q, v |-> kept[q]]
QueryAsk(r, q) ==
  IF \E s \in Requests : Live(s, {"ask", "answer"}) /\ call[s].q = q
  THEN UNCHANGED <<asks, call>> ELSE Ask(r, q)

(* The first render and its effects; the state is new.                      *)
OpenScreen(r, q) ==
  /\ ~open
  /\ open' = TRUE /\ question' = q /\ mine' = 0 /\ last' = 0 /\ stale' = FALSE
  /\ shown' = KeptRows(q)
  /\ CASE "mount" \in view.load -> Ask(r, q)
       [] OnQuery               -> QueryAsk(r, q)
       [] OTHER                 -> UNCHANGED <<asks, call>>
  /\ UNCHANGED <<view, kept, world>>

(* A toast belongs to the layout and stays.                                 *)
Gone(c) == IF c = idle \/ OnQuery THEN c ELSE [c EXCEPT !.gone = TRUE]
AllGone == [r \in Requests |-> Gone(call[r])]
LeaveScreen ==
  /\ open
  /\ open' = FALSE /\ call' = AllGone
  /\ UNCHANGED <<view, question, shown, kept, world, asks, last, mine, stale>>

\* Mutant: the parameter is missing in the list of the effect's dependencies.
SetParam_NoAsk(r, q) ==
  /\ open /\ "param" \in view.load /\ q # question
  /\ question' = q /\ stale' = FALSE
  /\ IF OnQuery THEN shown' = KeptRows(q) ELSE UNCHANGED shown
  /\ IF OnQuery THEN QueryAsk(r, q) ELSE UNCHANGED <<asks, call>>
  /\ UNCHANGED <<view, open, kept, world, last, mine>>

(* The effect runs again; it has no cleanup.                                *)
SetParam(r, q) ==
  /\ open /\ "param" \in view.load /\ q # question
  /\ question' = q /\ stale' = FALSE
  /\ IF OnQuery THEN shown' = KeptRows(q) ELSE UNCHANGED shown
  /\ IF OnQuery THEN QueryAsk(r, q) ELSE Ask(r, q)
  /\ UNCHANGED <<view, open, kept, world, last, mine>>

Press(r, q) ==
  /\ open /\ "press" \in view.load
  /\ ~(view.calm /\ Loading)
  /\ question' = q /\ stale' = FALSE
  /\ shown' = IF view.blank THEN Nothing ELSE shown
  /\ Ask(r, q)
  /\ UNCHANGED <<view, open, kept, world, last, mine>>

ReadRows(r) ==
  /\ At(r, "ask") /\ "ask" \in view.served
  /\ Become(r, [call[r] EXCEPT !.step = "answer", !.v = world])
  /\ UNCHANGED <<view, screen, world, asks>>

(* An answer nobody waits for changes nothing; react-query files it.        *)
ShowAnswer(r) ==
  LET c == call[r] IN
  /\ At(r, "answer")
  /\ Finish(r)
  /\ kept' = IF OnQuery THEN [kept EXCEPT ![c.q] = c.v] ELSE kept
  /\ IF open /\ ~c.gone /\ (OnQuery => c.q = question)
     THEN shown' = [q |-> c.q, v |-> c.v] /\ last' = c.n
     ELSE UNCHANGED <<shown, last>>
  /\ UNCHANGED <<view, open, question, world, asks, mine, stale>>

(* react-query tries once more, which is this ask going on, and keeps what  *)
(* it has; the catch of a view that is gone still leaves.                   *)
LoadFails(r) ==
  LET c == call[r] IN
  /\ call[r].step \in {"ask", "answer"}
  /\ IF view.error = "leave"
     THEN open' = FALSE /\ call' = [AllGone EXCEPT ![r] = idle]
     ELSE UNCHANGED open /\ Finish(r)
  /\ shown' = IF view.error = "clear" /\ ~c.gone THEN Nothing ELSE shown
  /\ last' = IF c.gone THEN last ELSE 0
  /\ UNCHANGED <<view, question, kept, world, asks, mine, stale>>
-----------------------------------------------------------------------------
(* A button of the view: the request, or the toast that asks first.  What   *)
(* was typed is in the rows already, over the load they come from.          *)
Change(r) ==
  /\ open /\ view.change # "none"
  /\ view.onRow => shown # Nothing
  /\ ~(view.once /\ Changing)
  /\ Start(r, [step |-> IF view.toast THEN "toast" ELSE "change", q |-> question,
               seen |-> last, v |-> 0, gone |-> FALSE])
  /\ UNCHANGED <<view, screen, world, asks>>
Confirm(r) ==
  /\ At(r, "toast")
  /\ GoTo(r, "change")
  /\ UNCHANGED <<view, screen, world, asks>>
DismissToast(r) ==
  /\ At(r, "toast")
  /\ Finish(r)
  /\ UNCHANGED <<view, screen, world, asks>>

Commit(r) ==
  /\ At(r, "change") /\ "change" \in view.served /\ world < MaxWorld
  /\ world' = world + 1
  /\ Become(r, [call[r] EXCEPT !.step = "changed", !.v = world + 1])
  /\ UNCHANGED <<view, screen, asks>>

Newer(v, w) == IF v < w THEN w ELSE v

(* The closure of the handler: it asks what it knew when it was made.       *)
Refetch(r) ==
  /\ Become(r, NewAsk(call[r].q))
  /\ asks < MaxAsks /\ asks' = asks + 1
  /\ stale' = (call[r].q # question)

(* What was typed is on show when no answer has taken, or will take, its    *)
(* place: the load's answer replaces the rows with the edits in them.       *)
Typed(c) == view.change = "typed" /\ ~Loading /\ c.seen = last
Patched(v) == IF shown = Nothing THEN Nothing ELSE [shown EXCEPT !.v = Newer(@, v)]

(* Acknowledged.  A view that is gone still loads, to no effect, or leaves. *)
Changed(r) ==
  LET c == call[r] IN
  /\ At(r, "changed")
  /\ mine' = IF c.gone \/ (view.change = "typed" /\ ~Typed(c)) THEN mine ELSE Newer(mine, c.v)
  /\ CASE view.change = "refetch" /\ ~c.gone -> Refetch(r) /\ UNCHANGED <<open, shown>>
       [] Typed(c) /\ ~c.gone ->
            shown' = Patched(c.v) /\ Finish(r) /\ UNCHANGED <<open, asks, stale>>
       [] view.change = "leave" ->
            /\ open' = FALSE /\ call' = [AllGone EXCEPT ![r] = idle]
            /\ UNCHANGED <<shown, asks, stale>>
       [] OTHER -> Finish(r) /\ UNCHANGED <<open, shown, asks, stale>>
  /\ UNCHANGED <<view, question, kept, world, last>>

(* Refused, or the answer is lost: a message, and nothing is loaded again.  *)
ChangeFails(r) ==
  /\ call[r].step \in {"change", "changed"}
  /\ Finish(r)
  /\ UNCHANGED <<view, screen, world, asks>>

OthersChange ==
  /\ world < MaxWorld
  /\ world' = world + 1
  /\ UNCHANGED <<view, screen, asks, call>>

ScreenNext ==
  \/ \E r \in Requests, q \in Questions :
       OpenScreen(r, q) \/ SetParam(r, q) \/ Press(r, q)
  \/ \E r \in Requests :
       \/ ReadRows(r) \/ ShowAnswer(r) \/ LoadFails(r)
       \/ Change(r) \/ Confirm(r) \/ DismissToast(r) \/ Commit(r) \/ Changed(r) \/ ChangeFails(r)
  \/ LeaveScreen \/ OthersChange

ScreenSpec == ScreenInit /\ [][ScreenNext]_screenVars
-----------------------------------------------------------------------------
(* A react-query view shows rows of what its user asked for at every        *)
(* moment, in whatever order its answers come.  Any other view, when it     *)
(* waits for nothing and the last load was answered last and well, shows    *)
(* rows of what its user asked for and no older than his own changes; only  *)
(* a list loaded again by the closure of an old toast may answer an old     *)
(* question.  Edits overwritten by the answer of a load they were typed     *)
(* before (the settings) are not among the changes: see `mine`.             *)
ScreenAnswersItsQuestion ==
  open /\ shown # Nothing =>
    /\ OnQuery => shown.q = question
    /\ ~Loading /\ ~Changing /\ last = asks => shown.v >= mine /\ (shown.q = question \/ stale)
=============================================================================
