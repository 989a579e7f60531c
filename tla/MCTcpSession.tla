---------------------------- MODULE MCTcpSession ----------------------------
(***************************************************************************)
(* Instances of TcpSession.  9 is a payload byte; read as the length of a   *)
(* message it makes one that never ends.                                    *)
(***************************************************************************)
EXTENDS TcpSession

\* Messages of one to four bytes; in the first stream a segment can complete two
\* messages and begin a third that the next one ends.
Short == {<<1, 9, 0, 2, 9, 9>>}
OneStream == {<<1, 9, 2, 9, 9, 0>>}
TwoStreams == {<<1, 9, 2, 9, 9, 0, 1>>, <<3, 9, 9, 9, 0, 1>>}

\* Numbers that do not wrap, and numbers that do within the longer stream and are
\* well above the FIN of a connection that began with 1.
Isn == {3}
TwoIsns == {1, 14}

\* Bound: a second connection is followed only while the trouble comes from the
\* first.
FollowedWhileCalm == conns = 1 \/ trouble \subseteq {"left over", "stale number"}

=============================================================================
