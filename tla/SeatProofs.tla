------------------------------ MODULE SeatProofs ------------------------------
(***************************************************************************)
(* NoDoubleSale and the refinement of SeatInventory, for every set of       *)
(* bookings, seats, passengers and requests.                                *)
(*                                                                         *)
(* The proof sorts the steps of TripBooking by what they do to seats and    *)
(* statuses (SeatEffect) and to the lists of seats that requests and the    *)
(* worker have read (ListsStep); what follows only looks at these effects.  *)
(***************************************************************************)
EXTENDS TripBookingProofs

USE TablesAssumption

(* A COMPLETED in flight keeps the row of its booking: nobody changes its   *)
(* status, and no other COMPLETED of the booking has begun.                 *)
Pinned ==
  \A r \in Requests : req[r].op = "complete" =>
    /\ status[req[r].booking] = "CONFIRMED"
    /\ \A q \in Requests \ {r} :
         req[q].op = "complete" => req[q].booking # req[r].booking

\* A seat is for sale exactly when no booking holds it.
SeatFree == \A s \in Seats : holder[s] = None <=> seat[s] = "AVAILABLE"

SeatInv == SeatFree /\ LiveSeatIsHeld /\ NoDoubleSale /\ StaleListsAreOwn

IInv == TypeInv /\ Pinned /\ SeatInv

-----------------------------------------------------------------------------
(* The effects of a step. *)

Moved(b, to) ==
  /\ status' = [status EXCEPT ![b] = to]
  /\ \/ status[b] = "NONE" /\ to = "DRAFT"
     \/ CanTransition(status[b], to)

NothingMoves ==
  /\ UNCHANGED <<paxOf, paxSeat, seat, holder>>
  /\ \/ UNCHANGED status
     \/ \E b \in Bookings, to \in BookingStatus \ {"CONFIRMED", "CANCELLED"} : Moved(b, to)
NewPax ==
  /\ UNCHANGED <<status, seat, holder>>
  /\ \A p \in Passengers : /\ paxOf'[p] = paxOf[p] /\ paxSeat'[p] = paxSeat[p]
                           \/ paxSeat'[p] = None
Selected(b, p, s) ==
  /\ UNCHANGED <<status, paxOf>>
  /\ seat[s] = "AVAILABLE" /\ paxOf[p] = b
  /\ seat' = [seat EXCEPT ![s] = "LOCKED"]
  /\ holder' = [holder EXCEPT ![s] = b]
  /\ paxSeat' = [paxSeat EXCEPT ![p] = s]
Booked(b, S) ==
  /\ UNCHANGED <<paxOf, paxSeat>>
  /\ Moved(b, "CONFIRMED") /\ payment'[b].status = "SUCCESS"
  /\ OwnSeats(b, S) /\ BookSeats(S)
Released(b, S) ==
  /\ UNCHANGED <<paxOf, paxSeat>>
  /\ Moved(b, "CANCELLED") /\ OwnSeats(b, S) /\ ReleaseSeats(S)

SeatEffect ==
  \/ NothingMoves
  \/ NewPax
  \/ \E b \in Bookings, p \in Passengers, s \in Seats : Selected(b, p, s)
  \/ \E b \in Bookings, S \in SUBSET Seats : Booked(b, S) \/ Released(b, S)

(* A list (b, S) becomes (c, T): it is dropped, kept, or read in this step. *)
ListStep(b, S, c, T) ==
  \/ T = {}
  \/ c = b /\ T = S
  \/ UNCHANGED <<status, paxOf, paxSeat, seat, holder>> /\ T = SeatsOf(c)
ListsStep ==
  /\ \A r \in Requests : ListStep(req[r].booking, req[r].seats,
                                  req'[r].booking, req'[r].seats)
  /\ ListStep(worker.booking, worker.seats, worker'.booking, worker'.seats)

(* The statuses that a step of request r, or of nobody's, may change. *)
PinStep ==
  /\ \A q \in Requests : req'[q].op = "complete" =>
       req[q].op = "complete" /\ req'[q].booking = req[q].booking
  /\ \/ UNCHANGED status
     \/ \E b \in Bookings :
          /\ \A c \in Bookings \ {b} : status'[c] = status[c]
          /\ \/ Unlocked(b)
             \/ status[b] = "NONE"
             \/ \A q \in Requests : req'[q].op = "complete" => req'[q].booking # b

-----------------------------------------------------------------------------
(* What the effects preserve. *)

LEMMA PinnedKept ==
  ASSUME TypeInv, Pinned, PinStep
  PROVE  Pinned'
  <1> SUFFICES ASSUME NEW r \in Requests, req'[r].op = "complete"
               PROVE  /\ status'[req'[r].booking] = "CONFIRMED"
                      /\ \A q \in Requests \ {r} :
                           req'[q].op = "complete" => req'[q].booking # req'[r].booking
    BY DEF Pinned
  <1>1. req[r].op = "complete" /\ req'[r].booking = req[r].booking
    BY DEF PinStep
  <1>2. status[req[r].booking] = "CONFIRMED" /\ req[r].booking \in Bookings
    BY <1>1 DEF Pinned, TypeInv, InFlight
  <1>3. \A q \in Requests \ {r} :
          req'[q].op = "complete" => req'[q].booking # req'[r].booking
    BY <1>1 DEF Pinned, PinStep
  <1>4. status'[req'[r].booking] = "CONFIRMED"
    BY <1>1, <1>2 DEF PinStep, Unlocked
  <1> QED  BY <1>3, <1>4

\* The list that a handler reads inside its own transaction.
LEMMA OwnSeatsOf ==
  ASSUME TypeOK, LiveSeatIsHeld, NEW b
  PROVE  OwnSeats(b, SeatsOf(b))
  BY DEF OwnSeats, SeatsOf, PaxOf, LiveSeatIsHeld, LivePax, Live

(* A list that is kept through a step stays its booking's. *)
OwnNext(b, S) == b # None /\ status'[b] # "CANCELLED" => \A s \in S : holder'[s] = b

LEMMA StatusEffect ==
  ASSUME TypeOK, SeatEffect, NEW b \in Bookings
  PROVE  status'[b] # "CANCELLED" => status[b] # "CANCELLED"
  <1>1. \A c \in Bookings : \A to : Moved(c, to) =>
          (status'[b] # "CANCELLED" => status[b] # "CANCELLED")
    BY Edges DEF Moved, TypeOK, BookingRows
  <1> QED
    BY <1>1 DEF SeatEffect, NothingMoves, NewPax, Selected, Booked, Released

LEMMA OwnKept ==
  ASSUME TypeOK, SeatFree, SeatEffect, NEW b \in Bookings, NEW S \in SUBSET Seats,
         OwnSeats(b, S)
  PROVE  OwnNext(b, S)
  <1> SUFFICES ASSUME status'[b] # "CANCELLED", NEW s \in S  PROVE holder'[s] = b
    BY DEF OwnNext
  <1>1. holder[s] = b
    BY StatusEffect DEF OwnSeats, Live
  <1>2. CASE UNCHANGED holder
    BY <1>1, <1>2
  <1>3. ASSUME NEW c \in Bookings, NEW p \in Passengers, NEW t \in Seats, Selected(c, p, t)
        PROVE  holder'[s] = b
    <2>1. holder[t] = None
      BY <1>3 DEF SeatFree, Selected
    <2>2. t # s
      BY <2>1, <1>1
    <2> QED  BY <1>1, <1>3, <2>2 DEF Selected, TypeOK, SeatRows
  <1>4. ASSUME NEW c \in Bookings, NEW T \in SUBSET Seats, Released(c, T)
        PROVE  holder'[s] = b
    <2>1. status'[c] = "CANCELLED" /\ status[c] # "CANCELLED"
      BY <1>4, Edges DEF Released, Moved, TypeOK, BookingRows
    <2>2. \A t \in T : holder[t] = c
      BY <1>4, <2>1 DEF Released, OwnSeats, Live
    <2>3. s \notin T
      BY <1>1, <2>1, <2>2
    <2> QED  BY <1>1, <1>4, <2>3 DEF Released, ReleaseSeats, LockedOf
  <1> QED
    BY <1>2, <1>3, <1>4 DEF SeatEffect, NothingMoves, NewPax, Booked, BookSeats

LEMMA SeatFreeKept ==
  ASSUME TypeOK, SeatFree, SeatEffect
  PROVE  SeatFree'
  <1> SUFFICES ASSUME NEW s \in Seats  PROVE holder'[s] = None <=> seat'[s] = "AVAILABLE"
    BY DEF SeatFree
  <1>1. CASE UNCHANGED <<seat, holder>>
    BY <1>1 DEF SeatFree
  <1>2. ASSUME NEW b \in Bookings, NEW p \in Passengers, NEW t \in Seats, Selected(b, p, t)
        PROVE  holder'[s] = None <=> seat'[s] = "AVAILABLE"
    BY <1>2 DEF Selected, SeatFree, TypeOK, SeatRows
  <1>3. ASSUME NEW b \in Bookings, NEW S \in SUBSET Seats, Booked(b, S)
        PROVE  holder'[s] = None <=> seat'[s] = "AVAILABLE"
    BY <1>3 DEF Booked, BookSeats, MoveLocked, LockedOf, SeatFree
  <1>4. ASSUME NEW b \in Bookings, NEW S \in SUBSET Seats, Released(b, S)
        PROVE  holder'[s] = None <=> seat'[s] = "AVAILABLE"
    BY <1>4 DEF Released, ReleaseSeats, MoveLocked, LockedOf, SeatFree
  <1> QED
    BY <1>1, <1>2, <1>3, <1>4 DEF SeatEffect, NothingMoves, NewPax

(* What the next state says of the passengers of bookings that are live. *)
LEMMA PassengersKept ==
  ASSUME TypeOK, TypeOK', SeatFree, SeatFree', LiveSeatIsHeld, NoDoubleSale, SeatEffect
  PROVE  LiveSeatIsHeld' /\ NoDoubleSale'
  \* A passenger of the next state either keeps booking and seat, or has just
  \* been given a seat that was for sale.
  <1> DEFINE Kept(p) == paxOf'[p] = paxOf[p] /\ paxSeat'[p] = paxSeat[p]
             Live1(p) == p \in Passengers /\ paxOf'[p] # None /\ status'[paxOf'[p]] # "CANCELLED"
  <1>a. \A p : p \in LivePax' <=> Live1(p)
    BY DEF LivePax, Live
  <1>b. \A p : Live1(p) /\ Kept(p) => p \in LivePax
    <2> SUFFICES ASSUME NEW p, Live1(p), Kept(p)  PROVE p \in LivePax
      OBVIOUS
    <2>1. paxOf[p] \in Bookings
      BY DEF TypeOK, SeatRows
    <2> QED  BY <2>1, StatusEffect DEF LivePax, Live
  <1>1. ASSUME NEW b \in Bookings, NEW q \in Passengers, NEW t \in Seats, Selected(b, q, t)
        PROVE  LiveSeatIsHeld' /\ NoDoubleSale'
    <2>1. /\ \A p \in Passengers \ {q} : Kept(p)
          /\ paxOf'[q] = b /\ paxSeat'[q] = t
          /\ seat'[t] = "LOCKED" /\ holder'[t] = b
          /\ \A s \in Seats \ {t} : seat'[s] = seat[s] /\ holder'[s] = holder[s]
          /\ seat[t] = "AVAILABLE"
      BY <1>1 DEF Selected, TypeOK, SeatRows
    <2>2. \A p \in LivePax : paxSeat[p] # t
      BY <2>1 DEF LiveSeatIsHeld
    <2>3. ASSUME NEW p, Live1(p), paxSeat'[p] # None
          PROVE  seat'[paxSeat'[p]] # "AVAILABLE" /\ holder'[paxSeat'[p]] = paxOf'[p]
      <3>1. CASE p = q
        BY <2>1, <3>1
      <3>2. CASE p # q
        <4>1. p \in LivePax /\ Kept(p)
          BY <1>b, <2>1, <2>3, <3>2
        <4>2. paxSeat[p] \in Seats \ {t}
          BY <2>2, <2>3, <4>1 DEF LivePax, TypeOK, SeatRows
        <4> QED  BY <2>1, <2>3, <4>1, <4>2 DEF LiveSeatIsHeld
      <3> QED  BY <3>1, <3>2
    <2>4. LiveSeatIsHeld'
      BY <1>a, <2>3 DEF LiveSeatIsHeld
    <2>5. ASSUME NEW p, NEW o, Live1(p), Live1(o), p # o, paxSeat'[p] # None
          PROVE  paxSeat'[p] # paxSeat'[o]
      <3>1. CASE p # q /\ o # q
        BY <1>b, <2>1, <2>5, <3>1 DEF NoDoubleSale
      <3>2. CASE p = q
        BY <1>b, <2>1, <2>2, <2>5, <3>2
      <3>3. CASE o = q
        BY <1>b, <2>1, <2>2, <2>5, <3>3
      <3> QED  BY <3>1, <3>2, <3>3
    <2>6. NoDoubleSale'
      BY <1>a, <2>5 DEF NoDoubleSale
    <2> QED  BY <2>4, <2>6
  <1>2. ASSUME \A p \in Passengers : Kept(p) \/ paxSeat'[p] = None,
               \A p \in LivePax : paxOf'[p] # None /\ status'[paxOf'[p]] # "CANCELLED" /\ Kept(p)
                 /\ paxSeat[p] # None => holder'[paxSeat[p]] = holder[paxSeat[p]]
        PROVE  LiveSeatIsHeld' /\ NoDoubleSale'
    <2>1. ASSUME NEW p, Live1(p), paxSeat'[p] # None
          PROVE  seat'[paxSeat'[p]] # "AVAILABLE" /\ holder'[paxSeat'[p]] = paxOf'[p]
      <3>1. p \in LivePax /\ Kept(p)
        BY <1>b, <1>2, <2>1
      <3>2. holder'[paxSeat'[p]] = paxOf'[p] /\ paxOf'[p] # None
        BY <1>2, <2>1, <3>1 DEF LiveSeatIsHeld
      <3>3. paxSeat'[p] \in Seats
        BY <2>1 DEF TypeOK, SeatRows
      <3> QED  BY <3>2, <3>3 DEF SeatFree
    <2>2. LiveSeatIsHeld'
      BY <1>a, <2>1 DEF LiveSeatIsHeld
    <2>3. ASSUME NEW p, NEW o, Live1(p), Live1(o), p # o, paxSeat'[p] # None
          PROVE  paxSeat'[p] # paxSeat'[o]
      BY <1>b, <1>2, <2>3 DEF NoDoubleSale
    <2>4. NoDoubleSale'
      BY <1>a, <2>3 DEF NoDoubleSale
    <2> QED  BY <2>2, <2>4
  <1>3. CASE UNCHANGED holder /\ \A p \in Passengers : Kept(p) \/ paxSeat'[p] = None
    BY <1>2, <1>3
  <1>4. ASSUME NEW b \in Bookings, NEW S \in SUBSET Seats, Released(b, S)
        PROVE  LiveSeatIsHeld' /\ NoDoubleSale'
    <2>1. \A p \in Passengers : Kept(p)
      BY <1>4 DEF Released
    <2>2. status'[b] = "CANCELLED" /\ status[b] # "CANCELLED"
      BY <1>4, Edges DEF Released, Moved, TypeOK, BookingRows
    <2>3. \A s \in S : holder[s] = b
      BY <1>4, <2>2 DEF Released, OwnSeats, Live
    <2>4. ASSUME NEW p \in LivePax, status'[paxOf'[p]] # "CANCELLED", Kept(p), paxSeat[p] # None
          PROVE  holder'[paxSeat[p]] = holder[paxSeat[p]]
      <3>1. holder[paxSeat[p]] = paxOf[p] /\ paxOf[p] # b
        BY <2>2, <2>4 DEF LiveSeatIsHeld
      <3>2. paxSeat[p] \in Seats \ S
        BY <2>3, <2>4, <3>1 DEF LivePax, TypeOK, SeatRows
      <3> QED  BY <1>4, <3>2 DEF Released, ReleaseSeats, LockedOf
    <2> QED  BY <1>2, <2>1, <2>4
  <1> QED
    BY <1>1, <1>3, <1>4 DEF SeatEffect, NothingMoves, NewPax, Booked, BookSeats

LEMMA ListsKept ==
  ASSUME TypeInv, TypeInv', SeatFree, LiveSeatIsHeld, StaleListsAreOwn, SeatEffect, ListsStep
  PROVE  StaleListsAreOwn'
  <1>a. TypeOK /\ TypeOK'
    BY DEF TypeInv
  <1>1. ASSUME NEW b \in Bookings \cup {None}, NEW S \in SUBSET Seats, OwnSeats(b, S),
               NEW c \in Bookings \cup {None}, NEW T \in SUBSET Seats, ListStep(b, S, c, T)
        PROVE  OwnNext(c, T)
    <2>1. CASE c = b /\ T = S
      <3>1. CASE b = None
        BY <2>1, <3>1 DEF OwnNext
      <3>2. CASE b \in Bookings
        BY <1>a, <1>1, <2>1, <3>2, OwnKept
      <3> QED  BY <3>1, <3>2
    <2>2. CASE UNCHANGED <<status, holder>> /\ T = SeatsOf(c)
      BY <1>a, <2>2, OwnSeatsOf DEF OwnNext, OwnSeats, Live
    <2>3. CASE T = {}
      BY <2>3 DEF OwnNext
    <2> QED  BY <1>1, <2>1, <2>2, <2>3 DEF ListStep
  <1>2. ASSUME NEW r \in Requests
        PROVE  OwnNext(req'[r].booking, req'[r].seats)
    <2>1. /\ req[r].booking \in Bookings \cup {None} /\ req[r].seats \in SUBSET Seats
          /\ req'[r].booking \in Bookings \cup {None} /\ req'[r].seats \in SUBSET Seats
      BY <1>a DEF TypeOK, RequestRows, Request
    <2> QED  BY <1>1, <2>1 DEF StaleListsAreOwn, ListsStep
  <1>3. OwnNext(worker'.booking, worker'.seats)
    <2>1. /\ worker.booking \in Bookings \cup {None} /\ worker.seats \in SUBSET Seats
          /\ worker'.booking \in Bookings \cup {None} /\ worker'.seats \in SUBSET Seats
      BY <1>a DEF TypeOK, QueueRows, Worker
    <2> QED  BY <1>1, <2>1 DEF StaleListsAreOwn, ListsStep
  <1> QED
    BY <1>2, <1>3 DEF StaleListsAreOwn, OwnSeats, OwnNext, Live

LEMMA SeatInvKept ==
  ASSUME TypeInv, TypeInv', SeatInv, SeatEffect, ListsStep
  PROVE  SeatInv'
  BY SeatFreeKept, PassengersKept, ListsKept DEF SeatInv, TypeInv

-----------------------------------------------------------------------------
(* The effects are steps of SeatInventory. *)

LEMMA PhaseMoves ==
  ASSUME TypeOK, NEW b \in Bookings, NEW to, Moved(b, to)
  PROVE  /\ to = "CONFIRMED" => Phase[b] = "open" /\ Phase' = [Phase EXCEPT ![b] = "confirmed"]
         /\ to = "CANCELLED" => /\ Phase[b] # "cancelled"
                                /\ Phase' = [Phase EXCEPT ![b] = "cancelled"]
         /\ to \notin {"CONFIRMED", "CANCELLED"} => UNCHANGED Phase
  <1>1. \A c \in Bookings : status'[c] = IF c = b THEN to ELSE status[c]
    BY DEF Moved, TypeOK, BookingRows
  <1>2. \/ status[b] = "NONE" /\ to = "DRAFT"
        \/ status[b] = "DRAFT" /\ to \in {"PENDING_PAYMENT", "CANCELLED"}
        \/ status[b] = "PENDING_PAYMENT" /\ to \in {"CONFIRMED", "CANCELLED"}
        \/ status[b] = "CONFIRMED" /\ to \in {"COMPLETED", "CANCELLED"}
    BY Edges DEF Moved
  <1> QED  BY <1>1, <1>2 DEF Phase

LEMMA InventoryStep ==
  ASSUME TypeOK, SeatFree, SeatEffect
  PROVE  [Inventory!Next]_<<holder, Sold, Phase>>
  <1>1. CASE UNCHANGED <<seat, holder, status>>
    BY <1>1 DEF Sold, Phase
  <1>2. ASSUME NEW b \in Bookings, NEW to \in BookingStatus \ {"CONFIRMED", "CANCELLED"},
               Moved(b, to), UNCHANGED <<seat, holder>>
        PROVE  UNCHANGED <<holder, Sold, Phase>>
    BY <1>2, PhaseMoves DEF Sold
  <1>3. ASSUME NEW b \in Bookings, NEW p \in Passengers, NEW s \in Seats, Selected(b, p, s)
        PROVE  Inventory!Hold(b, s)
    <2>1. holder[s] = None
      BY <1>3 DEF Selected, SeatFree
    <2>2. UNCHANGED Sold
      BY <1>3 DEF Selected, Sold, TypeOK, SeatRows
    <2>3. UNCHANGED Phase
      BY <1>3 DEF Selected, Phase
    <2> QED  BY <1>3, <2>1, <2>2, <2>3 DEF Selected, Inventory!Hold
  <1>4. ASSUME NEW b \in Bookings, NEW S \in SUBSET Seats, Booked(b, S)
        PROVE  Inventory!Confirm(b, LockedOf(S))
    <2>1. Phase[b] = "open" /\ Phase' = [Phase EXCEPT ![b] = "confirmed"]
      BY <1>4, PhaseMoves DEF Booked
    <2>2. status[b] # "CANCELLED"
      BY <1>4, Edges DEF Booked, Moved
    <2>3. LockedOf(S) \subseteq Inventory!HeldBy(b)
      BY <1>4, <2>2 DEF Booked, OwnSeats, Live, LockedOf, Inventory!HeldBy, Sold
    <2>4. Sold' = Sold \cup LockedOf(S)
      BY <1>4 DEF Booked, BookSeats, MoveLocked, LockedOf, Sold
    <2> QED
      BY <1>4, <2>1, <2>3, <2>4 DEF Booked, BookSeats, Inventory!Confirm
  <1>5. ASSUME NEW b \in Bookings, NEW S \in SUBSET Seats, Released(b, S)
        PROVE  Inventory!Cancel(b, LockedOf(S))
    <2>1. Phase[b] # "cancelled" /\ Phase' = [Phase EXCEPT ![b] = "cancelled"]
      BY <1>5, PhaseMoves DEF Released
    <2>2. status[b] # "CANCELLED"
      BY <1>5, Edges DEF Released, Moved
    <2>3. LockedOf(S) \subseteq Inventory!HeldBy(b)
      BY <1>5, <2>2 DEF Released, OwnSeats, Live, LockedOf, Inventory!HeldBy, Sold
    <2>4. UNCHANGED Sold
      BY <1>5 DEF Released, ReleaseSeats, MoveLocked, LockedOf, Sold
    <2> QED
      BY <1>5, <2>1, <2>3, <2>4 DEF Released, ReleaseSeats, Inventory!Cancel
  <1>6. \A S : LockedOf(S) \in SUBSET Seats \/ ~ (S \subseteq Seats)
    BY DEF LockedOf
  <1> QED
    BY <1>1, <1>2, <1>3, <1>4, <1>5, <1>6
    DEF SeatEffect, NothingMoves, NewPax, Inventory!Next

LEMMA InventoryInit == Init => Inventory!Init
  BY DEF Init, Inventory!Init, Sold, Phase

-----------------------------------------------------------------------------
(* Every step has one of the effects. *)

\* The requests that a step leaves as they are, ends, or starts.
ReqStep(r) ==
  /\ \A q \in Requests \ {r} : req'[q] = req[q]
  /\ req'[r].op # "complete"
  /\ UNCHANGED worker

LEMMA DoneEffect ==
  ASSUME TypeInv, NEW r \in Requests, Done(r), UNCHANGED worker
  PROVE  ReqStep(r) /\ ListsStep
  <1>1. req'[r] = Idle /\ \A q \in Requests \ {r} : req'[q] = req[q]
    BY DoneType
  <1>2. Idle.op = "idle" /\ Idle.seats = {}
    BY DEF Idle
  <1> QED  BY <1>1, <1>2 DEF ReqStep, ListsStep, ListStep

LEMMA BeginEffect ==
  ASSUME TypeInv, NEW r \in Requests, NEW b \in Bookings, NEW op \in AllOps \ {"complete"},
         NEW step \in {"enqueue", "readPayment", "snapshot", "award", "commit"},
         Begin(r, op, step, b), UNCHANGED worker
  PROVE  ReqStep(r) /\ ListsStep
  <1>1. /\ \A q \in Requests \ {r} : req'[q] = req[q]
        /\ req'[r].op = op /\ req'[r].seats = {}
    BY BeginType
  <1> QED  BY <1>1 DEF ReqStep, ListsStep, ListStep

LEMMA SnapshotEffect ==
  ASSUME TypeInv, NEW r \in Requests, NEW b \in Bookings, NEW op, op # "complete",
         Snapshot(r, op, b)
  PROVE  ReqStep(r) /\ ListsStep
  <1>1. /\ \A q \in Requests \ {r} : req'[q] = req[q]
        /\ req'[r].op = op /\ req'[r].booking = b /\ req'[r].seats = SeatsOf(b)
    BY SnapshotType
  <1>2. UNCHANGED <<status, paxOf, paxSeat, seat, holder, worker>>
    BY DEF Snapshot, bookingVars, seatVars, queueVars
  <1> QED  BY <1>1, <1>2 DEF ReqStep, ListsStep, ListStep

\* Only a step that changes the status of a booking can disturb Pinned.
LEMMA PinnedByReq ==
  ASSUME TypeInv, Pinned, NEW r \in Requests, ReqStep(r),
         \/ UNCHANGED status
         \/ \E b \in Bookings : /\ \A c \in Bookings \ {b} : status'[c] = status[c]
                                /\ Unlocked(b) \/ status[b] = "NONE"
  PROVE  Pinned'
  <1>1. PinStep
    BY DEF PinStep, ReqStep
  <1> QED  BY <1>1, PinnedKept

LEMMA QuietEffect ==
  /\ UNCHANGED <<status, paxOf, paxSeat, seat, holder>> => SeatEffect
  /\ UNCHANGED <<bookingVars, seatVars>> => SeatEffect /\ UNCHANGED status
  BY DEF bookingVars, seatVars, SeatEffect, NothingMoves

\* Transition is a move of a booking whose row is not locked.
LEMMA TransitionMoves ==
  ASSUME TypeOK, NEW b \in Bookings, NEW read, NEW to, Transition(b, read, to)
  PROVE  /\ Moved(b, to) /\ Unlocked(b) /\ to \in BookingStatus
         /\ \A c \in Bookings \ {b} : status'[c] = status[c]
  BY Edges DEF Transition, SetStatus, Moved, TypeOK, BookingRows

Effects == SeatEffect /\ ListsStep /\ Pinned'

LEMMA ClientEffects ==
  ASSUME IInv, NEW r \in Requests, ClientStep(r)
  PROVE  Effects
  <1>a. TypeInv /\ TypeOK /\ InFlight /\ Pinned
    BY DEF IInv, TypeInv
  <1> USE DEF queueVars
  <1>1. ASSUME NEW b \in Bookings, CreateDraft(r, b)  PROVE Effects
    <2>1. Moved(b, "DRAFT") /\ "DRAFT" \in BookingStatus \ {"CONFIRMED", "CANCELLED"}
      BY <1>1 DEF CreateDraft, Moved, BookingStatus
    <2>2. SeatEffect
      BY <1>1, <2>1 DEF CreateDraft, SeatEffect, NothingMoves, seatVars
    <2> DEFINE new == [Idle EXCEPT !.op = "createDraftBooking", !.step = "enqueue",
                                   !.booking = b]
    <2>3. new.op # "complete" /\ new.seats = {}
      BY DEF Idle
    <2>4. req' = [req EXCEPT ![r] = new] /\ UNCHANGED worker
      BY <1>1 DEF CreateDraft
    <2> HIDE DEF new
    <2>5. ReqStep(r) /\ ListsStep
      BY <1>a, <2>3, <2>4 DEF ReqStep, ListsStep, ListStep, TypeOK, RequestRows
    <2>6. /\ status[b] = "NONE"
          /\ \A c \in Bookings \ {b} : status'[c] = status[c]
      BY <1>1, <1>a DEF CreateDraft, TypeOK, BookingRows
    <2> QED  BY <1>a, <2>2, <2>5, <2>6, PinnedByReq DEF Effects
  <1>2. ASSUME EnqueueExpiry(r)  PROVE Effects
    BY <1>2, <1>a, DoneEffect, QuietEffect, PinnedByReq DEF EnqueueExpiry, Effects
  <1>3. ASSUME NEW b \in Bookings, NEW op \in Ops, ReadDraft(r, b, op)  PROVE Effects
    <2>1. op \in AllOps \ {"complete"} /\ Begin(r, op, "commit", b) /\ UNCHANGED worker
      BY <1>3 DEF ReadDraft, AllOps
    <2> QED
      BY <1>3, <1>a, <2>1, BeginEffect, QuietEffect, PinnedByReq DEF ReadDraft, Effects
  <1>4. ASSUME NEW N \in SUBSET Passengers, UpdatePassengers(r, N)  PROVE Effects
    <2>1. NewPax /\ Done(r) /\ UNCHANGED <<worker, status>>
      BY <1>4, <1>a
      DEF UpdatePassengers, NewPax, PaxOf, bookingVars, TypeOK, SeatRows
    <2> QED
      BY <1>a, <2>1, DoneEffect, PinnedByReq DEF SeatEffect, Effects
  <1>5. ASSUME NEW p \in Passengers, NEW s \in Seats, NEW v \in ClientVersions,
               SelectSeatForPassenger(r, p, s, v)
        PROVE  Effects
    <2>1. req[r].booking \in Bookings /\ Done(r) /\ UNCHANGED <<worker, status>>
      BY <1>5, <1>a DEF SelectSeatForPassenger, At, InFlight, bookingVars
    <2>2. Selected(req[r].booking, p, s)
      BY <1>5, <2>1 DEF SelectSeatForPassenger, Selected
    <2> QED
      BY <1>a, <2>1, <2>2, DoneEffect, PinnedByReq DEF SeatEffect, Effects
  <1>6. ASSUME NEW v \in Vouchers, ApplyVoucher(r, v)  PROVE Effects
    BY <1>6, <1>a, DoneEffect, QuietEffect, PinnedByReq DEF ApplyVoucher, Effects
  <1>7. ASSUME NEW b \in Bookings, CompleteBegin(r, b)  PROVE Effects
    <2>1. /\ status[b] = "CONFIRMED" /\ Unlocked(b)
          /\ Begin(r, "complete", "award", b) /\ UNCHANGED worker
      BY <1>7, Edges DEF CompleteBegin
    <2>2. /\ \A q \in Requests \ {r} : req'[q] = req[q]
          /\ req'[r].booking = b /\ req'[r].seats = {}
      BY <1>a, <2>1, BeginType DEF AllOps
    <2>3. UNCHANGED status /\ SeatEffect
      BY <1>7, QuietEffect DEF CompleteBegin
    <2>4. ListsStep
      BY <2>1, <2>2 DEF ListsStep, ListStep
    <2>5. Pinned'
      BY <1>a, <2>1, <2>2, <2>3 DEF Pinned, Unlocked
    <2> QED  BY <2>3, <2>4, <2>5 DEF Effects
  <1>8. ASSUME AwardPoints(r)  PROVE Effects
    <2>1. \A q \in Requests : /\ req'[q].op = req[q].op /\ req'[q].seats = req[q].seats
                             /\ req'[q].booking = req[q].booking
      BY <1>8, <1>a DEF AwardPoints, TypeOK, RequestRows, Request
    <2>2. UNCHANGED <<status, worker>> /\ SeatEffect
      BY <1>8, QuietEffect DEF AwardPoints
    <2>3. ListsStep
      BY <2>1, <2>2 DEF ListsStep, ListStep
    <2>4. PinStep
      BY <2>1, <2>2 DEF PinStep
    <2> QED  BY <1>a, <2>2, <2>3, <2>4, PinnedKept DEF Effects
  <1>9. ASSUME CompleteCommit(r)  PROVE Effects
    <2>1. /\ req[r].op = "complete" /\ req[r].booking \in Bookings /\ Done(r)
          /\ req[r].bs = "CONFIRMED" /\ status[req[r].booking] = "CONFIRMED"
          /\ UNCHANGED worker
      BY <1>9, <1>a DEF CompleteCommit, At, InFlight, Pinned
    <2>2. Moved(req[r].booking, "COMPLETED")
      BY <1>9, <2>1
      DEF CompleteCommit, SetStatus, Moved, CanTransition, BOOKING_TRANSITIONS, BookingStatus
    <2>3. "COMPLETED" \in BookingStatus \ {"CONFIRMED", "CANCELLED"}
      BY DEF BookingStatus
    <2>4. SeatEffect
      BY <1>9, <2>1, <2>2, <2>3 DEF CompleteCommit, SeatEffect, NothingMoves, seatVars
    <2>5. ReqStep(r) /\ ListsStep
      BY <1>a, <2>1, DoneEffect
    <2>6. \A q \in Requests : req'[q].op = "complete" => req'[q].booking # req[r].booking
      BY <1>a, <2>1, <2>5 DEF ReqStep, Pinned
    <2>7. \A c \in Bookings \ {req[r].booking} : status'[c] = status[c]
      BY <1>a, <2>2 DEF Moved, TypeOK, BookingRows
    <2>8. PinStep
      BY <2>1, <2>5, <2>6, <2>7 DEF PinStep, ReqStep
    <2> QED  BY <1>a, <2>4, <2>5, <2>8, PinnedKept DEF Effects
  <1>10. ASSUME Abort(r)  PROVE Effects
    BY <1>10, <1>a, DoneEffect, QuietEffect, PinnedByReq DEF Abort, Effects
  <1> QED
    BY <1>1, <1>2, <1>3, <1>4, <1>5, <1>6, <1>7, <1>8, <1>9, <1>10 DEF ClientStep

(* What the outcome of a payment does to the booking and its seats. *)
OnlyChanges(b) == \A c \in Bookings \ {b} : status'[c] = status[c]

LEMMA ConfirmEffect ==
  ASSUME TypeOK, NEW b \in Bookings, NEW read, NEW S \in SUBSET Seats, OwnSeats(b, S),
         Confirm(b, read, S), UNCHANGED <<paxOf, paxSeat>>
  PROVE  SeatEffect /\ Unlocked(b) /\ OnlyChanges(b)
  <1>1. Moved(b, "CONFIRMED") /\ Unlocked(b) /\ OnlyChanges(b)
    BY TransitionMoves DEF Confirm, OnlyChanges
  <1> QED  BY <1>1 DEF Confirm, Booked, SeatEffect

LEMMA SucceedsEffect ==
  ASSUME IInv, NEW r \in Requests, req[r].op # "idle", PaymentSucceeds(r),
         UNCHANGED <<paxOf, paxSeat>>
  PROVE  /\ SeatEffect /\ req[r].booking \in Bookings
         /\ Unlocked(req[r].booking) /\ OnlyChanges(req[r].booking)
  <1>1. TypeOK /\ req[r].booking \in Bookings /\ req[r].seats \in SUBSET Seats
    BY DEF IInv, TypeInv, InFlight, TypeOK, RequestRows, Request
  <1>2. OwnSeats(req[r].booking, req[r].seats)
    BY DEF IInv, SeatInv, StaleListsAreOwn
  <1> QED  BY <1>1, <1>2, ConfirmEffect DEF PaymentSucceeds

LEMMA CancelEffect ==
  ASSUME IInv, NEW r \in Requests, req[r].op # "idle", CancelAndRelease(r),
         UNCHANGED <<paxOf, paxSeat>>
  PROVE  /\ SeatEffect /\ req[r].booking \in Bookings
         /\ UNCHANGED status \/ (Unlocked(req[r].booking) /\ OnlyChanges(req[r].booking))
  <1>1. TypeOK /\ req[r].booking \in Bookings /\ req[r].seats \in SUBSET Seats
    BY DEF IInv, TypeInv, InFlight, TypeOK, RequestRows, Request
  <1>2. OwnSeats(req[r].booking, req[r].seats)
    BY DEF IInv, SeatInv, StaleListsAreOwn
  <1>3. CASE CanTransition(req[r].bs, "CANCELLED")
    <2>1. /\ Transition(req[r].booking, req[r].bs, "CANCELLED")
          /\ ReleaseSeats(req[r].seats)
      BY <1>3 DEF CancelAndRelease
    <2>2. /\ Moved(req[r].booking, "CANCELLED")
          /\ Unlocked(req[r].booking) /\ OnlyChanges(req[r].booking)
      BY <1>1, <2>1, TransitionMoves DEF OnlyChanges
    <2> QED  BY <1>1, <1>2, <2>1, <2>2 DEF Released, SeatEffect
  <1>4. CASE ~ CanTransition(req[r].bs, "CANCELLED")
    <2>1. UNCHANGED <<status, paxOf, paxSeat, seat, holder>>
      BY <1>4 DEF CancelAndRelease, bookingVars
    <2> QED  BY <1>1, <2>1, QuietEffect
  <1> QED  BY <1>3, <1>4

LEMMA ToPendingEffect ==
  ASSUME TypeOK, NEW b \in Bookings, ToPendingPayment(b), UNCHANGED seatVars
  PROVE  SeatEffect /\ (UNCHANGED status \/ (Unlocked(b) /\ OnlyChanges(b)))
  <1>1. CASE CanTransition(status[b], "PENDING_PAYMENT")
    <2>1. Moved(b, "PENDING_PAYMENT") /\ Unlocked(b) /\ OnlyChanges(b)
      BY <1>1, TransitionMoves DEF ToPendingPayment, OnlyChanges
    <2> QED  BY <2>1 DEF SeatEffect, NothingMoves, seatVars, BookingStatus
  <1>2. CASE ~ CanTransition(status[b], "PENDING_PAYMENT")
    <2>1. UNCHANGED <<status, paxOf, paxSeat, seat, holder>>
      BY <1>2 DEF ToPendingPayment, bookingVars, seatVars
    <2> QED  BY <2>1, QuietEffect
  <1> QED  BY <1>1, <1>2

LEMMA PaymentEffects ==
  ASSUME IInv, NEW r \in Requests, PaymentStep(r)
  PROVE  Effects
  <1>a. TypeInv /\ TypeOK /\ InFlight /\ Pinned
    BY DEF IInv, TypeInv
  <1> USE DEF queueVars, OnlyChanges
  <1>1. ASSUME NEW b \in Bookings, NEW op \in Ops, InitiateRead(r, b, op)  PROVE Effects
    <2>1. /\ op \in AllOps \ {"complete"} /\ Begin(r, op, "readPayment", b)
          /\ UNCHANGED worker
      BY <1>1 DEF InitiateRead, AllOps
    <2> QED
      BY <1>1, <1>a, <2>1, BeginEffect, QuietEffect, PinnedByReq DEF InitiateRead, Effects
  <1>2. ASSUME ReadExistingPayment(r)  PROVE Effects
    <2>1. \A q \in Requests : /\ req'[q].op = req[q].op /\ req'[q].seats = req[q].seats
                             /\ req'[q].booking = req[q].booking
      BY <1>2, <1>a DEF ReadExistingPayment, TypeOK, RequestRows, Request
    <2>2. UNCHANGED <<status, worker>> /\ SeatEffect
      BY <1>2, QuietEffect DEF ReadExistingPayment
    <2>3. ListsStep /\ PinStep
      BY <2>1, <2>2 DEF ListsStep, ListStep, PinStep
    <2> QED  BY <1>a, <2>2, <2>3, PinnedKept DEF Effects
  <1>3. ASSUME CommitInitiatePayment(r)  PROVE Effects
    <2>1. /\ req[r].booking \in Bookings /\ ToPendingPayment(req[r].booking)
          /\ Done(r) /\ UNCHANGED worker /\ UNCHANGED seatVars
      BY <1>3, <1>a DEF CommitInitiatePayment, At, InFlight
    <2> QED
      BY <1>a, <2>1, ToPendingEffect, DoneEffect, PinnedByReq DEF Effects
  <1>4. ASSUME CommitInitiateSepay(r)  PROVE Effects
    <2>1. /\ req[r].booking \in Bookings /\ ToPendingPayment(req[r].booking)
          /\ Done(r) /\ UNCHANGED worker /\ UNCHANGED seatVars
      BY <1>4, <1>a DEF CommitInitiateSepay, At, InFlight
    <2> QED
      BY <1>a, <2>1, ToPendingEffect, DoneEffect, PinnedByReq DEF Effects
  <1>5. ASSUME NEW b \in Bookings, VnpayCallback(r, b)  PROVE Effects
    <2>1. Snapshot(r, "vnpayCallback", b) /\ UNCHANGED <<bookingVars, seatVars>>
      BY <1>5 DEF VnpayCallback, Snapshot
    <2> QED
      BY <1>a, <2>1, SnapshotEffect, QuietEffect, PinnedByReq DEF Effects
  <1>6. ASSUME NEW ok \in BOOLEAN, CommitVnpayCallback(r, ok)  PROVE Effects
    <2>1. /\ req[r].op # "idle" /\ Done(r) /\ UNCHANGED <<worker, paxOf, paxSeat>>
          /\ PaymentSucceeds(r) \/ PaymentFails(r)
      BY <1>6 DEF CommitVnpayCallback, At
    <2>2. /\ SeatEffect /\ req[r].booking \in Bookings
          /\ UNCHANGED status \/ (Unlocked(req[r].booking) /\ OnlyChanges(req[r].booking))
      BY <2>1, SucceedsEffect, CancelEffect DEF PaymentFails
    <2> QED
      BY <1>a, <2>1, <2>2, DoneEffect, PinnedByReq DEF Effects
  <1>7. ASSUME NEW b \in Bookings, SepayWebhook(r, b)  PROVE Effects
    <2>1. Snapshot(r, "sepayWebhook", b) /\ UNCHANGED <<bookingVars, seatVars>>
      BY <1>7 DEF SepayWebhook, Snapshot
    <2> QED
      BY <1>a, <2>1, SnapshotEffect, QuietEffect, PinnedByReq DEF Effects
  <1>8. ASSUME CommitLatePayment(r)  PROVE Effects
    BY <1>8, <1>a, DoneEffect, QuietEffect, PinnedByReq DEF CommitLatePayment, Effects
  <1>9. ASSUME NEW ok \in BOOLEAN, CommitSepayWebhook(r, ok)  PROVE Effects
    <2>1. /\ req[r].op # "idle" /\ Done(r) /\ UNCHANGED <<worker, paxOf, paxSeat>>
          /\ PaymentSucceeds(r) \/ PaymentFails(r)
      BY <1>9 DEF CommitSepayWebhook, At
    <2>2. /\ SeatEffect /\ req[r].booking \in Bookings
          /\ UNCHANGED status \/ (Unlocked(req[r].booking) /\ OnlyChanges(req[r].booking))
      BY <2>1, SucceedsEffect, CancelEffect DEF PaymentFails
    <2> QED
      BY <1>a, <2>1, <2>2, DoneEffect, PinnedByReq DEF Effects
  <1>10. ASSUME NEW b \in Bookings, GetPaymentStatus(r, b)  PROVE Effects
    <2>1. Begin(r, "getPaymentStatus", "snapshot", b) /\ UNCHANGED worker
      BY <1>10 DEF GetPaymentStatus
    <2> QED
      BY <1>10, <1>a, <2>1, BeginEffect, QuietEffect, PinnedByReq
      DEF GetPaymentStatus, Effects, AllOps
  <1>11. ASSUME SnapshotPaymentStatus(r)  PROVE Effects
    <2>1. /\ req[r].booking \in Bookings /\ UNCHANGED <<bookingVars, seatVars>>
          /\ Snapshot(r, "getPaymentStatus", req[r].booking)
      BY <1>11, <1>a DEF SnapshotPaymentStatus, At, InFlight, Snapshot
    <2> QED
      BY <1>a, <2>1, SnapshotEffect, QuietEffect, PinnedByReq DEF Effects
  <1>12. ASSUME CommitExpiredPayment(r)  PROVE Effects
    <2>1. /\ req[r].op # "idle" /\ Done(r) /\ UNCHANGED <<worker, paxOf, paxSeat>>
          /\ CancelAndRelease(r)
      BY <1>12 DEF CommitExpiredPayment, At
    <2>2. /\ SeatEffect /\ req[r].booking \in Bookings
          /\ UNCHANGED status \/ (Unlocked(req[r].booking) /\ OnlyChanges(req[r].booking))
      BY <2>1, CancelEffect
    <2> QED
      BY <1>a, <2>1, <2>2, DoneEffect, PinnedByReq DEF Effects
  <1>13. ASSUME NEW b \in Bookings, RequestRefund(r, b)  PROVE Effects
    <2>1. Begin(r, "requestRefund", "commit", b) /\ UNCHANGED worker
      BY <1>13 DEF RequestRefund
    <2> QED
      BY <1>13, <1>a, <2>1, BeginEffect, QuietEffect, PinnedByReq
      DEF RequestRefund, Effects, AllOps
  <1>14. ASSUME CreateRefund(r)  PROVE Effects
    BY <1>14, <1>a, DoneEffect, QuietEffect, PinnedByReq DEF CreateRefund, Effects
  <1> QED
    BY <1>1, <1>2, <1>3, <1>4, <1>5, <1>6, <1>7, <1>8, <1>9, <1>10, <1>11, <1>12,
       <1>13, <1>14
    DEF PaymentStep

\* A step that leaves the requests and the worker's list alone.
LEMMA SameLists ==
  ASSUME UNCHANGED req, worker'.seats = {} \/ UNCHANGED worker
  PROVE  /\ ListsStep
         /\ \A b \in Bookings : (UNCHANGED status \/ (Unlocked(b) /\ OnlyChanges(b))) => PinStep
  BY DEF ListsStep, ListStep, PinStep, OnlyChanges

LEMMA RowEffects ==
  ASSUME IInv, RowStep
  PROVE  Effects
  <1>a. TypeInv /\ TypeOK /\ Pinned
    BY DEF IInv, TypeInv
  <1> USE DEF queueVars
  <1>1. ASSUME NEW b \in Bookings, NEW to \in BookingStatus, UpdateStatus(b, to)
        PROVE  Effects
    <2>1. UNCHANGED <<paxOf, paxSeat, req, worker>>
      BY <1>1 DEF UpdateStatus
    <2>2. SeatEffect /\ Unlocked(b) /\ OnlyChanges(b)
      <3>1. CASE to = "CONFIRMED"
        <4>1. SeatsOf(b) \in SUBSET Seats /\ OwnSeats(b, SeatsOf(b))
          BY <1>a, SeatsOfType, OwnSeatsOf DEF IInv, SeatInv
        <4> QED  BY <1>1, <1>a, <2>1, <3>1, <4>1, ConfirmEffect DEF UpdateStatus
      <3>2. CASE to # "CONFIRMED"
        <4>1. /\ Transition(b, status[b], to) /\ UNCHANGED <<seat, version, holder>>
          BY <1>1, <3>2 DEF UpdateStatus
        <4>2. Moved(b, to) /\ Unlocked(b) /\ OnlyChanges(b)
          BY <1>a, <4>1, TransitionMoves DEF OnlyChanges
        <4>3. CASE to = "CANCELLED"
          <5>1. ReleaseSeats({})
            BY <1>a, <4>1 DEF ReleaseSeats, MoveLocked, LockedOf, TypeOK, SeatRows
          <5> QED
            BY <2>1, <4>2, <4>3, <5>1 DEF OwnSeats, Released, SeatEffect
        <4>4. CASE to # "CANCELLED"
          BY <2>1, <3>2, <4>1, <4>2, <4>4 DEF SeatEffect, NothingMoves
        <4> QED  BY <4>2, <4>3, <4>4
      <3> QED  BY <3>1, <3>2
    <2> QED  BY <1>a, <2>1, <2>2, SameLists, PinnedKept DEF Effects
  <1>2. ASSUME NEW b \in Bookings, CompleteWithoutPoints(b)  PROVE Effects
    <2>1. UNCHANGED <<paxOf, paxSeat, seat, holder, req, worker>>
      BY <1>2 DEF CompleteWithoutPoints, seatVars
    <2>2. Moved(b, "COMPLETED") /\ Unlocked(b) /\ OnlyChanges(b)
      BY <1>2, <1>a, TransitionMoves DEF CompleteWithoutPoints, OnlyChanges
    <2>3. SeatEffect
      BY <2>1, <2>2 DEF SeatEffect, NothingMoves, BookingStatus
    <2> QED  BY <1>a, <2>1, <2>2, <2>3, SameLists, PinnedKept DEF Effects
  <1>3. ASSUME NEW b \in Bookings, PaymentTimeout(b)  PROVE Effects
    BY <1>3, <1>a, QuietEffect, SameLists, PinnedKept DEF PaymentTimeout, Effects
  <1> QED  BY <1>1, <1>2, <1>3 DEF RowStep

LEMMA WorkerEffects ==
  ASSUME IInv, WorkerStep
  PROVE  Effects
  <1>a. TypeInv /\ TypeOK /\ InFlight /\ Pinned
    BY DEF IInv, TypeInv
  <1>b. WorkerIdle.seats = {} /\ WorkerIdle.booking = None
    BY DEF WorkerIdle
  <1> USE DEF queueVars
  <1>1. ASSUME NEW b \in Bookings, TakeJob(b)  PROVE Effects
    <2>1. /\ UNCHANGED <<req, status, paxOf, paxSeat, seat, holder>> /\ SeatEffect
          /\ UNCHANGED worker \/ (worker'.booking = b /\ worker'.seats = SeatsOf(b))
      BY <1>1, QuietEffect DEF TakeJob, bookingVars, seatVars
    <2>2. ListsStep /\ PinStep
      BY <2>1 DEF ListsStep, ListStep, PinStep
    <2> QED  BY <1>a, <2>1, <2>2, PinnedKept DEF Effects
  <1>2. ASSUME ExpireBooking  PROVE Effects
    <2> DEFINE b == worker.booking
    <2>1. /\ b \in Bookings /\ worker.seats \in SUBSET Seats
          /\ OwnSeats(b, worker.seats)
      BY <1>2, <1>a DEF ExpireBooking, IInv, SeatInv, StaleListsAreOwn,
                        TypeOK, QueueRows, Worker
    <2>2. /\ status[b] \in {"DRAFT", "PENDING_PAYMENT"} /\ Unlocked(b)
          /\ status' = [status EXCEPT ![b] = "CANCELLED"]
          /\ ReleaseSeats(worker.seats) /\ UNCHANGED <<paxOf, paxSeat, req>>
          /\ worker' = WorkerIdle
      BY <1>2 DEF ExpireBooking, SetStatus
    <2>3. Moved(b, "CANCELLED")
      BY <2>2 DEF Moved, CanTransition, BOOKING_TRANSITIONS, BookingStatus
    <2>4. OnlyChanges(b)
      BY <1>a, <2>1, <2>2 DEF OnlyChanges, TypeOK, BookingRows
    <2>5. SeatEffect
      BY <2>1, <2>2, <2>3 DEF SeatEffect, Released
    <2> QED
      BY <1>a, <1>b, <2>1, <2>2, <2>4, <2>5, SameLists, PinnedKept DEF Effects
  <1>3. ASSUME ExpireNothing \/ JobFails \/ WorkerCrash  PROVE Effects
    <2>1. /\ UNCHANGED <<req, status>> /\ worker' = WorkerIdle /\ SeatEffect
          /\ worker.booking \in Bookings
      BY <1>3, <1>a, QuietEffect
      DEF ExpireNothing, JobFails, WorkerCrash, TypeOK, QueueRows, Worker
    <2> QED  BY <1>a, <1>b, <2>1, SameLists, PinnedKept DEF Effects
  <1> QED  BY <1>1, <1>2, <1>3 DEF WorkerStep

-----------------------------------------------------------------------------
(* The invariant. *)

LEMMA IInvInit == Init => IInv
  <1> SUFFICES ASSUME Init PROVE IInv
    OBVIOUS
  <1>1. TypeInv
    BY TypeInit
  <1>2. Pinned
    BY DEF Init, Pinned, Idle
  <1>3. SeatFree /\ LiveSeatIsHeld /\ NoDoubleSale /\ StaleListsAreOwn
    BY DEF Init, SeatFree, LiveSeatIsHeld, NoDoubleSale, LivePax, StaleListsAreOwn,
           OwnSeats, Idle, WorkerIdle
  <1> QED  BY <1>1, <1>2, <1>3 DEF IInv, SeatInv

LEMMA StepEffects == ASSUME IInv, Next PROVE Effects
  BY ClientEffects, PaymentEffects, RowEffects, WorkerEffects DEF Next

LEMMA IInvStep == IInv /\ [Next]_vars => IInv'
  <1> SUFFICES ASSUME IInv, [Next]_vars PROVE IInv'
    OBVIOUS
  <1>1. TypeInv'
    BY TypeStep DEF IInv
  <1>2. Effects
    <2>1. CASE UNCHANGED vars
      <3>1. UNCHANGED <<status, paxOf, paxSeat, seat, holder, req, worker>>
        BY <2>1 DEF vars
      <3> QED
        BY <3>1, QuietEffect DEF Effects, ListsStep, ListStep, IInv, Pinned
    <2>2. CASE Next
      BY <2>2, StepEffects
    <2> QED  BY <2>1, <2>2
  <1> QED  BY <1>1, <1>2, SeatInvKept DEF IInv, Effects

(* No seat is sold to two passengers, for any number of bookings, seats,    *)
(* passengers, requests and callbacks.                                      *)
THEOREM NoDoubleSaleHolds == Spec => []NoDoubleSale
  <1>1. IInv => NoDoubleSale
    BY DEF IInv, SeatInv
  <1> QED  BY IInvInit, IInvStep, <1>1, PTL DEF Spec

(* A passenger's seat stays locked or booked for the passenger's booking    *)
(* until that booking is cancelled.                                         *)
THEOREM LiveSeatIsHeldHolds == Spec => []LiveSeatIsHeld
  <1>1. IInv => LiveSeatIsHeld
    BY DEF IInv, SeatInv
  <1> QED  BY IInvInit, IInvStep, <1>1, PTL DEF Spec

(* The lists of seats that callbacks, polls and the expiry worker act on    *)
(* are stale, and still never name a seat of another booking.               *)
THEOREM StaleListsAreOwnHolds == Spec => []StaleListsAreOwn
  <1>1. IInv => StaleListsAreOwn
    BY DEF IInv, SeatInv
  <1> QED  BY IInvInit, IInvStep, <1>1, PTL DEF Spec

(* Whoever changes the status of a booking, the change is an edge of        *)
(* BOOKING_TRANSITIONS.                                                     *)
THEOREM LegalTransitionsHold == Spec => LegalTransitions
  <1> DEFINE Legal == \A b \in Bookings : status'[b] # status[b] =>
                        \/ status[b] = "NONE" /\ status'[b] = "DRAFT"
                        \/ CanTransition(status[b], status'[b])
  <1>1. ASSUME IInv, Next  PROVE Legal
    <2>1. SeatEffect /\ TypeOK
      BY <1>1, StepEffects DEF Effects, IInv, TypeInv
    <2>2. ASSUME NEW b \in Bookings, NEW to, Moved(b, to)  PROVE Legal
      BY <2>1, <2>2 DEF Moved, TypeOK, BookingRows
    <2> QED
      BY <2>1, <2>2
      DEF SeatEffect, NothingMoves, NewPax, Selected, Booked, Released
  <1>2. IInv /\ [Next]_vars => [Legal]_vars
    BY <1>1
  <1> QED  BY IInvInit, IInvStep, <1>2, PTL DEF Spec, LegalTransitions

(* A seat that is sold, or that a cancelled booking has kept, stays as it   *)
(* is: every step of requests, callbacks and worker that moves a seat moves *)
(* one that is free, or a locked one of a booking that is not cancelled.    *)
LEMMA SettledKept ==
  ASSUME TypeOK, SeatFree, SeatEffect, NEW s \in Seats, Settled(s)
  PROVE  UNCHANGED <<seat[s], holder[s]>>
  <1>1. ASSUME NEW b \in Bookings, NEW p \in Passengers, NEW t \in Seats, Selected(b, p, t)
        PROVE  UNCHANGED <<seat[s], holder[s]>>
    <2>1. t # s
      BY <1>1 DEF Selected, SeatFree, Settled
    <2> QED  BY <1>1, <2>1 DEF Selected, TypeOK, SeatRows
  <1>2. ASSUME NEW b \in Bookings, NEW to, Moved(b, to), NEW S \in SUBSET Seats,
               OwnSeats(b, S), to \in {"CONFIRMED", "CANCELLED"}
        PROVE  s \notin LockedOf(S)
    <2>1. status[b] # "CANCELLED"
      BY <1>2, Edges DEF Moved
    <2>2. s \in S => holder[s] = b
      BY <1>2, <2>1 DEF OwnSeats, Live
    <2> QED  BY <2>1, <2>2 DEF LockedOf, Settled, Live
  <1>3. ASSUME NEW b \in Bookings, NEW S \in SUBSET Seats, Booked(b, S) \/ Released(b, S)
        PROVE  UNCHANGED <<seat[s], holder[s]>>
    <2>1. s \notin LockedOf(S)
      BY <1>2, <1>3 DEF Booked, Released
    <2> QED
      BY <1>3, <2>1 DEF Booked, Released, BookSeats, ReleaseSeats, MoveLocked
  <1> QED
    BY <1>1, <1>3 DEF SeatEffect, NothingMoves, NewPax

(* What is sold or left behind never changes hands again.                   *)
THEOREM SettledSeatsStayHolds == Spec => SettledSeatsStay
  <1> DEFINE Stay == \A s \in Seats : Settled(s) => UNCHANGED <<seat[s], holder[s]>>
  <1>1. ASSUME IInv, Next  PROVE Stay
    BY <1>1, StepEffects, SettledKept DEF Effects, IInv, TypeInv, SeatInv
  <1>2. IInv /\ [Next]_vars => [Stay]_vars
    BY <1>1
  <1> QED  BY IInvInit, IInvStep, <1>2, PTL DEF Spec, SettledSeatsStay

(* Bookings, payments and expiry together implement SeatInventory.          *)
THEOREM SeatsAreInventoryHolds == Spec => SeatsAreInventory
  <1>1. IInv /\ [Next]_vars => [Inventory!Next]_<<holder, Sold, Phase>>
    <2>1. CASE Next /\ IInv
      BY <2>1, StepEffects, InventoryStep DEF Effects, IInv, TypeInv, SeatInv
    <2>2. CASE UNCHANGED vars
      BY <2>2 DEF vars, Sold, Phase
    <2> QED  BY <2>1, <2>2
  <1> QED
    BY InventoryInit, IInvInit, IInvStep, <1>1, PTL DEF Spec, SeatsAreInventory, Inventory!Spec
=============================================================================
