------------------------------ MODULE MCIsoTp -------------------------------
(***************************************************************************)
(* A socket that sends and one that answers, for the instances of IsoTp.    *)
(***************************************************************************)
EXTENDS IsoTp, TLC

CONSTANTS n1, n2

Pair == (n1 :> n2) @@ (n2 :> n1)
Plain == [bs |-> 0, gap |-> FALSE, listen |-> FALSE]
Both == (n1 :> {Plain})
        @@ (n2 :> {Plain, [Plain EXCEPT !.bs = 2], [Plain EXCEPT !.gap = TRUE],
                  [Plain EXCEPT !.listen = TRUE]})
=============================================================================
