------------------------------ MODULE Handlers ------------------------------
(***************************************************************************)
(* The request handlers of the services that keep to tables of their own.   *)
(* A handler that awaits is a record in `call`, with the step it does next  *)
(* and what it has read so far; which fields it has is its service's        *)
(* affair.  An await on the database, the cache or the disk ends a step.    *)
(***************************************************************************)
EXTENDS Integers, FiniteSets, Sequences

CONSTANT Requests      \* handlers in flight at the same time

ASSUME HandlersAssumption == IsFiniteSet(Requests) /\ Requests # {}

VARIABLE call

idle == [step |-> "idle"]
At(r, step) == call[r].step = step
Start(r, c) == At(r, "idle") /\ call' = [call EXCEPT ![r] = c]
GoTo(r, step) == call' = [call EXCEPT ![r].step = step]
Become(r, c) == call' = [call EXCEPT ![r] = c]
Finish(r) == call' = [call EXCEPT ![r] = idle]
NoneInFlight == \A r \in Requests : At(r, "idle")
=============================================================================
