---------------------------- MODULE RequestBudget ----------------------------
(***************************************************************************)
(* What NTA's fair-use policy asks of everything that holds the API key,   *)
(* however many collector processes there are: two requests are never less *)
(* than Gap time units apart.                                              *)
(*                                                                         *)
(* The specification has one variable, the time since the last request,    *)
(* which stops counting at Horizon: a longer silence makes no difference.  *)
(***************************************************************************)
EXTENDS Integers

CONSTANTS
  Gap,      \* the least time between two requests
  Horizon   \* where the measured silence stops counting

VARIABLE sinceRequest   \* time since the last request, at most Horizon

\* No request has been made for as long as anybody can tell.
Init == sinceRequest = Horizon

Request ==
  /\ sinceRequest >= Gap
  /\ sinceRequest' = 0

TimePasses ==
  /\ sinceRequest < Horizon
  /\ sinceRequest' = sinceRequest + 1

Next == Request \/ TimePasses

Spec == Init /\ [][Next]_sinceRequest
=============================================================================
