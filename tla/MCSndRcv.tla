------------------------------ MODULE MCSndRcv ------------------------------
(***************************************************************************)
(* Arguments for the instances of SndRcv.  Requests of the same kind look  *)
(* alike: an answer to one is taken for an answer to the first unanswered. *)
(***************************************************************************)
EXTENDS SndRcv

Default ==
  [kinds |-> <<1, 2>>, timeout |-> TRUE, threaded |-> TRUE, multi |-> FALSE,
   first |-> FALSE, stopFilter |-> FALSE, chainEX |-> FALSE, retry |-> 1,
   negative |-> FALSE]

Retrying == [Default EXCEPT !.kinds = <<1, 1>>]

Calls ==
  {Retrying,
   [Retrying EXCEPT !.timeout = FALSE],
   [Retrying EXCEPT !.multi = TRUE],
   [Default EXCEPT !.negative = TRUE],
   [Default EXCEPT !.first = TRUE, !.stopFilter = TRUE],
   [Default EXCEPT !.threaded = FALSE, !.chainEX = TRUE]}
=============================================================================
