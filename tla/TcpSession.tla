----------------------------- MODULE TcpSession -----------------------------
(***************************************************************************)
(* scapy/sessions.py, TCPSession.process and StringBuffer: the bytes of one *)
(* direction of a TCP connection are put together from captured segments   *)
(* and cut into the messages of the application protocol.                  *)
(*                                                                         *)
(* The protocol above TCP is the simplest that tcp_reassemble is made for:  *)
(* a message is a length byte and as many bytes more.  A missing byte is    *)
(* filled with zero.  The network may reorder and retransmit segments and  *)
(* sequence numbers wrap at SeqMod (2^32 on the wire).  When a connection  *)
(* is closed another one may use the same ports: it meets the entry that   *)
(* the old one left.                                                       *)
(***************************************************************************)
EXTENDS Integers, Sequences, FiniteSets

CONSTANTS
  Streams,   \* the byte streams a sender may have: sequences of Nat
  Isns,      \* the initial sequence numbers
  SeqMod,    \* sequence numbers are taken modulo SeqMod
  MaxFlying, \* bound: segments sent and not yet captured
  MaxRetrans,\* bound: segments the sender transmits again
  MaxConns   \* bound: connections with the same addresses and ports

ASSUME ConstantsAssumption ==
  /\ Streams \subseteq Seq(Nat)
  /\ SeqMod \in Nat \ {0} /\ Isns \subseteq 0..SeqMod - 1
  /\ {MaxFlying, MaxRetrans} \subseteq Nat /\ MaxConns \in Nat \ {0}

VARIABLES
  stream, isn,
  sent,       \* how many bytes the sender has sent
  closed,     \* he has sent FIN
  flying,     \* segments still to be captured, as <<first, last>> offsets
  seen,       \* segments captured
  retrans,
  conns,      \* connections so far
  \* tcp_frags[ident]: the StringBuffer and its metadata
  buffer,     \* [content, len, noff]
  meta,       \* "seq", "relative_seq" and "next_seq", each Absent or a number
  returned,   \* the messages of the packets process() returned, in order,
              \* in the present connection
  trouble     \* history: what happened that reassembly must cope with

vars == <<stream, isn, sent, closed, flying, seen, retrans, conns, buffer, meta, returned, trouble>>

\* No number: relative_seq may be -1, when a connection wraps to 0.
Absent == -2
EmptyBuffer == [content |-> <<>>, len |-> 0, noff |-> 0]
EmptyMeta == [seq |-> Absent, relative |-> Absent, next |-> Absent]

Troubles == {"reordered", "wrapped", "retransmitted what was returned",
             "two messages and a rest",
             "left over", "stale number"}

TypeOK ==
  /\ stream \in Streams /\ isn \in Isns
  /\ sent \in 0..Len(stream) /\ closed \in BOOLEAN
  /\ flying \subseteq (1..sent) \X (1..sent) /\ seen \subseteq (1..sent) \X (1..sent)
  /\ retrans \in 0..MaxRetrans /\ conns \in 1..MaxConns
  /\ buffer \in [content : Seq(Nat), len : Nat, noff : Int]
  /\ buffer.noff <= 0
  /\ meta \in LET Numbers == Nat \cup {Absent}
              IN  [seq : Numbers, relative : Numbers \cup {-1}, next : Numbers]
  /\ returned \in Seq(Seq(Nat))
  /\ trouble \subseteq Troubles

-----------------------------------------------------------------------------
(* StringBuffer                                                            *)

Zeros(n) == [i \in 1..n |-> 0]

\* Mutant: what is filled in before the content is not counted.
PutUncounted(b, data, pos) ==
  LET front == IF pos < 0 THEN Zeros(-pos) \o b.content ELSE b.content
      at == IF pos < 0 THEN 0 ELSE pos
      size == IF at + Len(data) > b.len THEN at + Len(data) ELSE b.len
      whole == front \o Zeros(size - b.len)
  IN  [content |-> [i \in 1..Len(whole) |-> IF i - at \in 1..Len(data) THEN data[i - at] ELSE whole[i]],
       len |-> size, noff |-> IF pos < 0 THEN b.noff + pos ELSE b.noff]

\* Data goes to index pos of the content, which grows, filled with zeros, at
\* either end.
Put(b, data, pos) ==
  LET lead == IF pos < 0 THEN -pos ELSE 0
      at == pos + lead
      old == Zeros(lead) \o b.content
      size == IF at + Len(data) > b.len + lead THEN at + Len(data) ELSE b.len + lead
      whole == old \o Zeros(size - b.len - lead)
  IN  [content |-> [i \in 1..Len(whole) |-> IF i - at \in 1..Len(data) THEN data[i - at] ELSE whole[i]],
       len |-> size,
       noff |-> b.noff - lead]

\* append(data, seq), seq counted from 1.
AppendAt(b, data, seq) == Put(b, data, seq - 1 - b.noff)

\* shiftleft(i)
ShiftLeft(b, i) ==
  [b EXCEPT !.content = SubSeq(@, i + 1, Len(@)), !.len = @ - i]

-----------------------------------------------------------------------------
(* The application protocol                                                *)

\* Where the messages of c start; last, where the first incomplete one does.
Cuts(c) ==
  LET from[i \in 1..Len(c) + 1] ==
        IF i > Len(c) \/ i + c[i] > Len(c) THEN <<i>> ELSE <<i>> \o from[i + c[i] + 1]
  IN  from[1]

Messages(c) ==
  LET k == Cuts(c) IN [m \in 1..Len(k) - 1 |-> SubSeq(c, k[m], k[m + 1] - 1)]

Rest(c) == LET k == Cuts(c) IN SubSeq(c, k[Len(k)], Len(c))

-----------------------------------------------------------------------------
(* TCPSession.process, for a segment with the sequence number seq           *)

\* The first segment of a message records where it starts.
Noted(seq) == IF meta.seq = Absent THEN [meta EXCEPT !.seq = seq] ELSE meta

\* Mutant: next_seq is never looked at.
AlreadyReturnedNever(seq) == 0

\* How many of the bytes at seq lie before next_seq.
AlreadyReturned(seq) ==
  IF meta.next # Absent /\ seq < meta.next THEN meta.next - seq ELSE 0

\* Mutant: relative_seq moves the wrong way.
RelativeAfterBack(relative, k) == relative - (k[Len(k)] - k[Len(k) - 1])

\* Mutant: relative_seq is not moved with the buffer.
RelativeAfterStaying(relative, k) == relative

\* The loop over the padding adds to relative_seq, read once before it, the
\* length of the message it has just taken: of several, only the last counts.
RelativeAfter(relative, k) == relative + (k[Len(k)] - k[Len(k) - 1])

\* A segment with data.
ProcessData(data, seq) ==
  LET old  == AlreadyReturned(seq)
      new  == SubSeq(data, old + 1, Len(data))
      noted == Noted(seq)
      relative == IF meta.relative = Absent THEN seq + old - 1 ELSE meta.relative
      b    == AppendAt(buffer, new, seq + old - relative)
      k    == Cuts(b.content)
      rest == Rest(b.content)
  IN  IF new = <<>>
      THEN meta' = noted /\ UNCHANGED <<buffer, returned>>
      ELSE IF Len(k) = 1
      THEN \* no message is complete
           /\ buffer' = b
           /\ meta' = [noted EXCEPT !.relative = relative]
           /\ UNCHANGED returned
      ELSE /\ returned' = returned \o Messages(b.content)
           /\ IF rest = <<>>
                THEN \* the entry is deleted, next_seq with it
                     buffer' = EmptyBuffer /\ meta' = EmptyMeta
                ELSE /\ buffer' = ShiftLeft(b, Len(b.content) - Len(rest))
                     /\ meta' = [seq |-> Absent,
                                 relative |-> RelativeAfter(relative, k),
                                 next |-> noted.seq + Len(new)]

\* A segment without data (SYN, ACK, FIN) leaves its sequence number, in a new
\* entry if there is none.  For FIN tcp_reassemble is called again, and finds
\* no complete message.
ProcessEmpty(seq) == meta' = Noted(seq) /\ UNCHANGED <<buffer, returned>>

-----------------------------------------------------------------------------
(* The sender and the network                                              *)

SeqOf(offset) == (isn + offset) % SeqMod

Wraps(s, i) == IF i + Len(s) < SeqMod THEN {} ELSE {"wrapped"}

\* SYN has the number isn; the first byte has the next one.  The capture may
\* begin after SYN.
Init ==
  /\ stream \in Streams /\ isn \in Isns
  /\ sent = 0 /\ closed = FALSE /\ flying = {} /\ seen = {} /\ retrans = 0
  /\ conns = 1
  /\ buffer = EmptyBuffer
  /\ meta \in {EmptyMeta, [EmptyMeta EXCEPT !.seq = isn]}
  /\ returned = <<>>
  /\ trouble = Wraps(stream, isn)

Transmit(n) ==
  /\ ~closed /\ sent + n <= Len(stream) /\ Cardinality(flying) < MaxFlying
  /\ sent' = sent + n
  /\ flying' = flying \cup {<<sent + 1, sent + n>>}
  /\ UNCHANGED <<stream, isn, closed, seen, retrans, conns, buffer, meta, returned, trouble>>

Retransmit(seg) ==
  /\ seg \in seen /\ seg \notin flying /\ retrans < MaxRetrans
  /\ retrans' = retrans + 1
  /\ flying' = flying \cup {seg}
  /\ UNCHANGED <<stream, isn, sent, closed, seen, conns, buffer, meta, returned, trouble>>

\* Bytes of the stream in messages that have been returned, when all is well.
ReturnedBytes(upto) ==
  LET k == Cuts(SubSeq(stream, 1, upto)) IN k[Len(k)] - 1

Captured == IF seen = {} THEN 0 ELSE CHOOSE n \in 1..sent : \E seg \in seen :
              seg[2] = n /\ \A other \in seen : other[2] <= n

\* What capturing seg adds to the history: its bytes do not follow those seen;
\* it is seen again and part of it was returned, unless it is the last one, began
\* a message, not the first of a connection that met the number of the one
\* before, and left some of the next; or it completes several messages and
\* leaves a rest.
NewTrouble(seg) ==
  LET base == Captured
      k == Cuts(SubSeq(stream, ReturnedBytes(base) + 1, seg[2]))
      again == seg \in seen
  IN  {t \in Troubles :
        \/ t = "reordered" /\ ~again /\ seg[1] # base + 1
        \/ /\ t = "retransmitted what was returned" /\ again
           /\ seg[1] <= ReturnedBytes(base)
           /\ ~(/\ seg[2] = base /\ ReturnedBytes(base) < base
                /\ ReturnedBytes(seg[1] - 1) = seg[1] - 1
                /\ conns = 1 \/ seg[1] > 1)
        \/ /\ t = "two messages and a rest" /\ ~again
           /\ Len(k) > 2 /\ ReturnedBytes(seg[2]) < seg[2]}

Capture(seg) ==
  /\ seg \in flying
  /\ flying' = flying \ {seg}
  /\ seen' = seen \cup {seg}
  /\ ProcessData(SubSeq(stream, seg[1], seg[2]), SeqOf(seg[1]))
  /\ trouble' = trouble \cup NewTrouble(seg)
  /\ UNCHANGED <<stream, isn, sent, closed, retrans, conns>>

\* An acknowledgement of the other direction's data, FIN or RST.
CaptureEmpty ==
  /\ ~closed
  /\ closed' \in BOOLEAN
  /\ ProcessEmpty(SeqOf(sent + 1))
  /\ trouble' = trouble \cup (IF Captured = sent THEN {} ELSE {"reordered"})
  /\ UNCHANGED <<stream, isn, sent, flying, seen, retrans, conns>>

\* What the entry of the closed connection does to the next one: bytes or an
\* origin that wait for the rest of a message; a number noted by FIN, which
\* next_seq will be computed from, above those that come.
Inherited(i) ==
  (IF buffer # EmptyBuffer \/ meta.relative # Absent \/ meta.next # Absent
     THEN {"left over"} ELSE {})
  \cup (IF meta.seq # Absent /\ meta.seq > i THEN {"stale number"} ELSE {})

\* The next connection with the same addresses and ports; its SYN may not have
\* been captured.
Reconnect(s, i) ==
  /\ closed /\ flying = {} /\ conns < MaxConns
  /\ conns' = conns + 1
  /\ stream' = s /\ isn' = i
  /\ sent' = 0 /\ closed' = FALSE /\ seen' = {} /\ returned' = <<>>
  /\ meta' \in {meta, Noted(i)}
  /\ trouble' = trouble \cup Wraps(s, i) \cup Inherited(i)
  /\ UNCHANGED <<flying, retrans, buffer>>

Next ==
  \/ \E n \in 1..Len(stream) : Transmit(n)
  \/ \E seg \in seen : Retransmit(seg)
  \/ \E seg \in flying : Capture(seg)
  \/ CaptureEmpty
  \/ \E s \in Streams, i \in Isns : Reconnect(s, i)

Spec == Init /\ [][Next]_vars

-----------------------------------------------------------------------------
(* Properties                                                              *)

\* The assertion in StringBuffer.append: content_len is the size of the content,
\* whatever the order of the segments.
BufferLengthAgrees == buffer.len = Len(buffer.content)

GoodSoFar ==
  LET got == SubSeq(stream, 1, Captured)
  IN  returned = Messages(got) /\ buffer.content = Rest(got)

\* In-order segments, cut anywhere, give exactly the messages sent, and a
\* segment seen again whose bytes are still pending changes nothing; unless
\* a segment completes two messages and begins a third.  So does the next
\* connection with the same ports, if the one before ended with a message and
\* its last number is not above those that come.
Reassembled == trouble = {} => GoodSoFar

\* What the class says of itself: "A Session that reconstructs TCP streams".
StreamReconstructed == trouble \subseteq {"two messages and a rest"} => GoodSoFar

\* What the comment in process() says: retransmitted data that was already
\* returned is skipped.
RetransmissionSkipped == trouble \subseteq {"retransmitted what was returned"} => GoodSoFar

=============================================================================
