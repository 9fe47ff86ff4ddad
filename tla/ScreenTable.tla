---------------------------- MODULE ScreenTable -----------------------------
(***************************************************************************)
(* The views of the frontend that load or save something, each by what      *)
(* tells it apart from the others as a client of the API:                   *)
(*   load    what makes it ask: "mount" its effect on mounting, "param" an  *)
(*           effect with a parameter the user sets, "press" a button with   *)
(*           what has been typed, "query" a react-query hook                *)
(*   error   what a failed load does to what is shown: "keep", "clear", or  *)
(*           "leave" for another page                                       *)
(*   blank   a press empties what is shown                                  *)
(*   calm    nothing can ask again while an ask is in flight                *)
(*   change  what an acknowledged change does: "refetch"; nothing, where it *)
(*           has been "typed" into what is shown before it was sent;        *)
(*           "leave", "stay"; "none" where nothing can be changed           *)
(*   toast   a change has to be confirmed on a toast, which outlives        *)
(*           renders and keeps the closures of the one that made it         *)
(*   onRow   a change can be made on what is shown only                     *)
(*   once    the button is disabled while a change is in flight             *)
(*   served  of "ask" and "change", those the backend can answer; the       *)
(*           others fail always (no route, another route, a refused body)   *)
(* Views without requests (static pages, the local checklist) are left out. *)
(***************************************************************************)

View == [load |-> {}, error |-> "keep", blank |-> FALSE, calm |-> FALSE, change |-> "none",
         toast |-> FALSE, onRow |-> FALSE, once |-> FALSE, served |-> {"ask", "change"}]

OnMount == [View EXCEPT !.load = {"mount"}]
ToastList == [OnMount EXCEPT !.change = "refetch", !.toast = TRUE, !.onRow = TRUE]
OwnRows == [OnMount EXCEPT !.error = "clear"]
Form(after) == [View EXCEPT !.change = after, !.once = TRUE]
Query == [View EXCEPT !.load = {"query"}]
NoLoad(view) == [view EXCEPT !.served = {}]
-----------------------------------------------------------------------------
(* views/admin                                                              *)
AdminDashboard == OnMount
AdminSettings == [OnMount EXCEPT !.change = "typed"]
AirportList == [OnMount EXCEPT !.load = {"mount", "press"}]
Analytics == [OnMount EXCEPT !.load = {"mount", "param"}, !.error = "clear"]
AuditLog == NoLoad([OnMount EXCEPT !.load = {"mount", "param", "press"}])
BlogList == NoLoad(ToastList)         \* GET /blogs is no route
BookingEdit == [OnMount EXCEPT !.error = "leave", !.change = "typed", !.onRow = TRUE, !.once = TRUE]
BookingList == OnMount
FlightCreate == NoLoad(Form("leave")) \* the answer holds a BigInt
FlightEdit == [Form("leave") EXCEPT !.load = {"mount"}, !.error = "leave", !.onRow = TRUE,
                                    !.served = {"ask"}]
FlightList == ToastList
MediaLibrary == [OnMount EXCEPT !.change = "refetch"]
PaymentList == [OnMount EXCEPT !.load = {"mount", "param", "press"}]
PromoCreate == Form("leave")
PromoList == [ToastList EXCEPT !.load = {"mount", "press"}]
PassengerReport == OnMount
RevenueReport == OnMount
TourCreate == NoLoad(Form("leave"))
TourList == ToastList
UserEdit == [Form("leave") EXCEPT !.load = {"mount"}, !.error = "leave", !.onRow = TRUE]
UserList == [OnMount EXCEPT !.change = "refetch", !.onRow = TRUE]
AdminViews ==
  {AdminDashboard, AdminSettings, AirportList, Analytics, AuditLog, BlogList, BookingEdit,
   BookingList, FlightCreate, FlightEdit, FlightList, MediaLibrary, PaymentList, PromoCreate,
   PromoList, PassengerReport, RevenueReport, TourCreate, TourList, UserEdit, UserList}

(* views/user                                                               *)
UserBookingDetail == OnMount
BookingHistory == NoLoad(OwnRows)     \* bookings/my is taken for an id
UserDashboard == NoLoad(OwnRows)      \* it wants bookings/my too
DeviceManagement == [OwnRows EXCEPT !.change = "refetch"]
LoginHistory == OwnRows
ManageBooking ==                      \* bookings/my; its cancel button comes with the rows
  NoLoad([View EXCEPT !.load = {"press"}, !.calm = TRUE])
MembershipView == OwnRows
NotificationView == NoLoad([OnMount EXCEPT !.change = "refetch"])
Security ==                           \* the rows are devices; its password form is left out
  [OnMount EXCEPT !.change = "refetch", !.onRow = TRUE]
VoucherView == OwnRows
WishlistView == OwnRows
Profile == Form("stay")
UserSettings == Form("stay")
Feedback == NoLoad(Form("stay"))
UserViews ==
  {UserBookingDetail, BookingHistory, UserDashboard, DeviceManagement, LoginHistory,
   ManageBooking, MembershipView, NotificationView, Security, VoucherView, WishlistView, Profile,
   UserSettings, Feedback}
-----------------------------------------------------------------------------
(* views/public, views/booking and the components of the home page          *)
BlogDetail == OwnRows
BoardingPass == OnMount
DownloadTicket == OwnRows
FlightStatus ==                       \* Enter asks whether or not an ask is in flight
  [View EXCEPT !.load = {"press"}, !.blank = TRUE]
CheckIn == Form("leave")
ContactUs == Form("stay")
Reservation == NoLoad(Form("stay"))   \* a total of 0 is refused
FlashSale == OnMount
BlogPage == Query
LatestBlogs == Query
FaqPage == NoLoad(Query)              \* the controller is not below /api
TourSearch == Query
RecommendedTours == Query
FeaturedDestinations == Query
TripDetail == Query
FlightResults == [Query EXCEPT !.load = {"query", "param"}]
FlightDetail == Query
AirportAutocomplete == NoLoad(Query)  \* flights/airports is taken for an id
DestinationAutocomplete == Query
PublicViews ==
  {BlogDetail, BoardingPass, DownloadTicket, FlightStatus, CheckIn, ContactUs, Reservation,
   FlashSale, BlogPage, LatestBlogs, FaqPage, TourSearch, RecommendedTours,
   FeaturedDestinations, TripDetail, FlightResults, FlightDetail, AirportAutocomplete,
   DestinationAutocomplete}

(* The forms of authentication; a login ends with a full load.              *)
LoginPage == Form("leave")
LoginModal == Form("leave")
AdminLogin == [Form("leave") EXCEPT !.once = FALSE]
Register == Form("leave")             \* after the code: each of the two steps
ForgotPassword == Form("leave")
ResetPassword == Form("leave")
VerifyEmail == Form("leave")
VerifyOTP == Form("leave")
AuthViews ==
  {LoginPage, LoginModal, AdminLogin, Register, ForgotPassword, ResetPassword, VerifyEmail,
   VerifyOTP}

AllViews == AdminViews \cup UserViews \cup PublicViews \cup AuthViews
=============================================================================
