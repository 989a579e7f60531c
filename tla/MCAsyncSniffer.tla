--------------------------- MODULE MCAsyncSniffer ---------------------------
(***************************************************************************)
(* Arguments for the instances of AsyncSniffer.                            *)
(***************************************************************************)
EXTENDS AsyncSniffer

CONSTANTS s1, s2

Capture(S, n, timeout, stopFilter, blocking, own) ==
  [sockets |-> S, count |-> n, timeout |-> timeout, stopFilter |-> stopFilter,
   blocking |-> blocking, own |-> own]

\* One socket opened by _run, so that the object can be started again, or two
\* sockets of the caller; with and without limits of number and of time.
Mixed ==
  {Capture({s1}, 1, TRUE, FALSE, TRUE, TRUE),
   Capture({s1}, 0, FALSE, FALSE, TRUE, TRUE),
   Capture({s1}, 0, TRUE, FALSE, TRUE, TRUE),
   Capture({s1, s2}, 1, FALSE, TRUE, FALSE, FALSE),
   Capture({s1, s2}, 0, FALSE, FALSE, TRUE, FALSE)}

\* Bound: a socket brings one packet, or two where _run opened it and counts.
PacketsWhereCounted == (opt.count > 0 /\ opt.own) \/ \A s \in opt.sockets : sent[s] <= 1

Plain == {Capture({s1}, 0, FALSE, FALSE, TRUE, TRUE)}
=============================================================================
