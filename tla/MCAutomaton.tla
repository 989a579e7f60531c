---------------------------- MODULE MCAutomaton -----------------------------
(***************************************************************************)
(* Automata for the instances of Automaton.                                *)
(***************************************************************************)
EXTENDS Automaton, TLC

CONSTANTS u1, u2, sBegin, sWait, sStop, sEnd   \* states: two, one to stop, the end

\* sBegin has a condition, sWait hears the network and a timer, and the stop
\* state leads to the end by a condition.
Client ==
  [initial |-> sBegin, stop |-> sStop, final |-> {sEnd}, error |-> {}, periodic |-> {},
   cond |-> (sBegin :> {sWait}) @@ (sWait :> {}) @@ (sStop :> {sEnd}) @@ (sEnd :> {}),
   recv |-> (sBegin :> {}) @@ (sWait :> {sBegin, None}) @@ (sStop :> {}) @@ (sEnd :> {}),
   timeout |-> (sBegin :> {}) @@ (sWait :> {sEnd, None}) @@ (sStop :> {}) @@ (sEnd :> {}),
   eof |-> (sBegin :> None) @@ (sWait :> sBegin) @@ (sStop :> None) @@ (sEnd :> None),
   breakpoints |-> {sWait}, intercepted |-> {},
   raises |-> (sBegin :> {"runtime"}) @@ (sWait :> {}) @@ (sStop :> {}) @@ (sEnd :> {})]

\* Two states whose conditions lead to each other, the second with a periodic
\* timer; then a packet that is intercepted, and an error. There is no stop
\* state.
Server ==
  [initial |-> sBegin, stop |-> None, final |-> {}, error |-> {sEnd}, periodic |-> {sWait},
   cond |-> (sBegin :> {sWait, None}) @@ (sWait :> {sBegin, None}) @@ (sStop :> {sEnd}) @@ (sEnd :> {}),
   recv |-> (sBegin :> {}) @@ (sWait :> {sStop}) @@ (sStop :> {}) @@ (sEnd :> {}),
   timeout |-> (sBegin :> {}) @@ (sWait :> {None}) @@ (sStop :> {}) @@ (sEnd :> {}),
   eof |-> (sBegin :> None) @@ (sWait :> None) @@ (sStop :> None) @@ (sEnd :> None),
   breakpoints |-> {}, intercepted |-> {sStop},
   raises |-> (sBegin :> {}) @@ (sWait :> {"error"}) @@ (sStop :> {}) @@ (sEnd :> {})]

Both == {Client, Server}
=============================================================================
