--------------------------- MODULE MCThreatReport ---------------------------
(***************************************************************************)
(* Instances of ThreatReport, with the detector of BGP hijacks.            *)
(***************************************************************************)
EXTENDS ThreatReport

CONSTANTS p1, p2

Segment(t, as) == [type |-> t, asns |-> as]

\* Two prefixes learnt from a neighbour; one, its path ending in a set, with an
\* entry without prefix; AS numbers of two bytes, in one segment, which gives no
\* origin, and in two.
SomeUpdates ==
  {[nlri |-> <<p1, p2>>, path |-> <<Segment("AS_SEQUENCE", <<2, 1>>)>>, wide |-> TRUE, from |-> 1],
   [nlri |-> <<p2, NoPrefix>>,
    path |-> <<Segment("AS_SEQUENCE", <<1>>), Segment("AS_SET", <<2>>)>>, wide |-> TRUE,
    from |-> 1],
   [nlri |-> <<p1>>, path |-> <<Segment("AS_SEQUENCE", <<1>>)>>, wide |-> FALSE, from |-> 1],
   [nlri |-> <<p1>>,
    path |-> <<Segment("AS_SEQUENCE", <<1>>), Segment("AS_SET", <<2>>)>>, wide |-> FALSE,
    from |-> 1]}

\* 65793 is what the two segments are misread as: the AS number 1, then the type
\* and the length of the set.
SomeAsns == {1, 2, 65793}

OfOrigin == {k \in Keys : k[2] = 1}

\* Anything about the origin of the updates; the neighbour is the holder, and
\* nobody the AS that does not exist.
AnyForOrigin ==
  {r \in [Keys -> Registered] :
     \A k \in Keys : /\ k[2] = 2 => r[k] = "valid"
                     /\ k[2] = 65793 => r[k] = "invalid"
                     /\ r[k] = "other" => k[1] = p1}

=============================================================================
